------------------------------- MODULE WinCore -------------------------------
(***************************************************************************)
(* The network core of src/netbase/SeNetCoreWin.c: the same functions as   *)
(* NetCore, over overlapped operations and a completion port.              *)
(*                                                                         *)
(* Nothing is reported as ready: an operation is started on a socket (a    *)
(* receive, a send, a connect, an accept) and its completion is dequeued   *)
(* later, in whatever order operations end.  It names the connection only  *)
(* by the handle stored in its IODATA, and the completion of an operation  *)
(* whose socket was closed meanwhile is dequeued like any other.  What     *)
(* peers do shows only in how operations end, so that is where they are:   *)
(* any outstanding operation may end, with any result.                     *)
(*                                                                         *)
(* `pc` says where a call to SeNetCoreRead stands, as in NetCore: app,     *)
(* process (once before and once after the wait), wait; or abort, when an  *)
(* assertion has ended the program.                                        *)
(***************************************************************************)
EXTENDS SocketMgr, Bags

CONSTANTS ConnectTimeOut, ActiveTimeOut,  \* iConnectTimeOut, iActiveTimeOut
          FrameLen,       \* bytes of a frame, its header included
          DataLen,        \* MAX_IO_DATA_LEN: bytes one operation carries
          Backlog,        \* SENETCORE_SOCKET_BACKLOG: accepts outstanding
          MaxIn,          \* bound: bytes received and not read
          MaxOut,         \* bound: bytes queued and not sent
          MaxClock,       \* bound: last value of the clock
          MaxListeners,   \* bound: listening slots
          MaxClients,     \* bound: outgoing connections at a time
          MaxOps,         \* bound: operations outstanding when a slot is taken
          Asserts         \* whether the build keeps assert()

ASSUME WinAssumption ==
  /\ {ConnectTimeOut, ActiveTimeOut, MaxClock, MaxListeners, MaxClients, MaxOps} \subseteq Nat
  /\ {FrameLen, DataLen, Backlog} \subseteq Nat \ {0} /\ {MaxIn, MaxOut} \subseteq Nat
  /\ Asserts \in BOOLEAN

VARIABLES ops,           \* operations outstanding
          open,          \* sockets the program holds open
          kListenList,   \* listeners, the next to post an accept on first
          clock,         \* SeTimeGetTickCount
          pc, pass,
          ev,            \* what the last SeNetCoreRead returned
          retaken        \* history: slots an earlier use may be mistaken for

ioVars  == <<ops, open, kListenList>>
ctlVars == <<pc, pass, ev>>
vars    == <<mgrVars, ioVars, clock, retaken, ctlVars>>

-----------------------------------------------------------------------------
(* Operations: the IODATA of one.  `kSocket` is set for an accept alone:   *)
(* the socket the connection will have.                                    *)
OpTypes == {"SEND", "RECV", "ACCEPT", "CONNECT"}

Operation(type, h, fd, len) ==
  [iOPType |-> type, kHScoket |-> h, kSocket |-> fd, len |-> len]

OperationRecord ==
  [iOPType : OpTypes, kHScoket : Handles, kSocket : Fds \cup {NoFd}, len : 0 .. DataLen]

Start(o, x)  == o (+) SetToBag({x})
Finish(o, x) == o (-) SetToBag({x})

Outstanding(type, h) ==
  {o \in BagToSet(ops) : o.iOPType = type /\ o.kHScoket = h}

(* One operation of this type with this handle is outstanding, or none.   *)
Single(type, h)  == \E o \in BagToSet(ops) : Outstanding(type, h) = {o} /\ ops[o] = 1
NoneOf(type, h) == Outstanding(type, h) = {}

NewFd == CHOOSE fd \in Fds \ open : TRUE

(* A handle is the slot's index and the tick at which it was taken.  The   *)
(* clock advances every 10 to 16 ms, and nothing keeps a slot from being   *)
(* taken twice within a tick: then an operation of its first use names the *)
(* second.  The code cannot know, and no step depends on it; `retaken`     *)
(* remembers the slots whose present use began like that.                  *)
Fresh(i)  == \A o \in BagToSet(ops) : o.kHScoket # Handle(i, clock)
Retake(i) == retaken' = IF Fresh(i) THEN retaken \ {i} ELSE retaken \cup {i}

-----------------------------------------------------------------------------
(* Closing.                                                                *)

MayDisconnect(s) == IsConnection(s) /\ s.usStatus \in {"CONNECTING", "ACTIVECONNECT"}

Disconnected(s) ==
  [s EXCEPT !.usStatus = IF @ = "CONNECTING" THEN "CONNECTED_FAILED" ELSE "DISCONNECT"]

(* SeNetCoreDisconnect of slot i, whose record is s by now.  Operations    *)
(* outstanding stay so: they end when the port says so.                    *)
DisconnectUnlisted(i, s, sendList) ==                             \* mutant
  /\ sock' = [sock EXCEPT ![i] = Disconnected(s)]
  /\ kSendList' = sendList
  /\ open' = open \ {s.kSocket}
DisconnectKeepsSocket(i, s, sendList) ==                          \* mutant
  /\ sock' = [sock EXCEPT ![i] = Disconnected(s)]
  /\ kSendList' = AddInList(sendList, i)
  /\ UNCHANGED open
Disconnect(i, s, sendList) ==
  /\ sock' = [sock EXCEPT ![i] = Disconnected(s)]
  /\ kSendList' = AddInList(sendList, i)
  /\ open' = open \ {s.kSocket}

-----------------------------------------------------------------------------
(* Starting operations.  Each set has one member per way the call may end: *)
(* whether it returned true, and what it left of the slot and of ops.      *)

Result(ok, s, o) == [ok |-> ok, s |-> s, ops |-> o]

(* SeNetCoreRecvBuf.                                                       *)
RecvBuf(s, o) ==
  IF HasEvent(s, "READ") THEN {Result(TRUE, s, o)}
  ELSE {Result(TRUE, AddEvent(s, "READ"),
               Start(o, Operation("RECV", s.kHSocket, NoFd, 0))),
        Result(FALSE, s, o)}

(* SeNetCoreSendBuf: the bytes leave the stream before the send starts.    *)
Chunk(s) == IF s.send < DataLen THEN s.send ELSE DataLen
SendBuf(s, o) ==
  LET rest == [s EXCEPT !.send = @ - Chunk(s)] IN
  IF HasEvent(s, "WRITE") \/ s.send = 0 THEN {Result(TRUE, s, o)}
  ELSE {Result(TRUE, AddEvent(rest, "WRITE"),
               Start(o, Operation("SEND", s.kHSocket, NoFd, Chunk(s)))),
        Result(FALSE, rest, o)}

(* The callers disconnect when the call returned false.                    *)
Settle(i, r, sendList) ==
  /\ ops' = r.ops
  /\ \/ r.ok /\ sock' = [sock EXCEPT ![i] = r.s] /\ kSendList' = sendList /\ UNCHANGED open
     \/ ~r.ok /\ Disconnect(i, r.s, sendList)

(* SeSetAcceptSocket: the next listener in turn gets one more accept, with *)
(* a socket made for it, unless it has its share or a call fails.          *)
AcceptResult(l, o, fds) == [list |-> l, ops |-> o, open |-> fds]

SetAcceptSocket(l, o, fds) ==
  IF l = <<>> THEN {AcceptResult(l, o, fds)}
  ELSE LET turn == Head(l)
           back(n) == Append(Tail(l), [turn EXCEPT !.iBacklog = n])
       IN {AcceptResult(back(turn.iBacklog), o, fds)}
          \cup {AcceptResult(back(turn.iBacklog + 1),
                             Start(o, Operation("ACCEPT", turn.kHScoket, fd, 0)),
                             fds \cup {fd}) :
                  fd \in {x \in Fds \ fds : turn.iBacklog < Backlog
                                            /\ \A y \in Fds \ fds : x <= y}}

-----------------------------------------------------------------------------
(* Calls of the program between two calls of SeNetCoreRead.                *)

Event(kind, h) == [kind |-> kind, h |-> h]
NoEvent        == Event("NONE", NoHandle)
EventKinds     == {"NONE", "CONNECT", "CONNECT_FAILED", "DISCONNECT", "RECV_DATA",
                   "TIMER", "IDLE"}

OfType(type) == {i \in Slots : sock[i].iTypeSocket = type}

CanOpen == pc = "app" /\ open # Fds /\ ~MgrFull /\ BagCardinality(ops) < MaxOps

(* SeNetCoreTCPListen: the listener waits for its turn to get an accept.   *)
TCPListen ==
  /\ CanOpen /\ Cardinality(OfType("LISTEN")) < MaxListeners
  /\ LET i == FreeSlot
         s == [NewSlot(i, NewFd, "LISTEN", clock) EXCEPT !.usStatus = "ACTIVECONNECT"]
     IN /\ MgrAdd(i, s) /\ Retake(i)
        /\ kListenList' = Append(kListenList, [kHScoket |-> s.kHSocket, iBacklog |-> 0])
  /\ open' = open \cup {NewFd}
  /\ UNCHANGED <<kSendList, kRecvList, ops, clock, ctlVars>>

(* SeNetCoreTCPClient.                                                     *)
TCPClient ==
  /\ CanOpen /\ Cardinality(OfType("CLIENT")) < MaxClients
  /\ LET i == FreeSlot
         s == [NewSlot(i, NewFd, "CLIENT", clock) EXCEPT !.usStatus = "CONNECTING"]
     IN /\ MgrAdd(i, s) /\ Retake(i)
        /\ ops' = Start(ops, Operation("CONNECT", s.kHSocket, NoFd, 0))
  /\ open' = open \cup {NewFd}
  /\ UNCHANGED <<kSendList, kRecvList, kListenList, clock, ctlVars>>

(* A call of it that fails after the slot was taken gives it back.         *)
TCPClientFails ==
  /\ CanOpen /\ MgrAddThenDel
  /\ UNCHANGED <<ioVars, clock, retaken, ctlVars>>

(* SeNetCoreSend and SeNetCoreSendExtend; n = 0 is a refused length.       *)
Send(i) ==
  /\ pc = "app" /\ IsConnection(sock[i]) /\ sock[i].usStatus = "ACTIVECONNECT"
  /\ \E n \in 0 .. MaxOut - sock[i].send : sock' = [sock EXCEPT ![i].send = @ + n]
  /\ kSendList' = IF HasEvent(sock[i], "WRITE") THEN kSendList ELSE AddInList(kSendList, i)
  /\ UNCHANGED <<kMainList, kActiveMainList, kRecvList, ioVars, clock, retaken, ctlVars>>

AppDisconnect(i) ==
  /\ pc = "app" /\ MayDisconnect(sock[i])
  /\ Disconnect(i, sock[i], kSendList)
  /\ UNCHANGED <<kMainList, kActiveMainList, kRecvList, ops, kListenList, clock, retaken, ctlVars>>

Call ==
  /\ pc = "app"
  /\ pc' = "process" /\ pass' = 1 /\ ev' = NoEvent
  /\ UNCHANGED <<mgrVars, ioVars, clock, retaken>>

Return(e) == pc' = "app" /\ pass' = 1 /\ ev' = e

-----------------------------------------------------------------------------
(* SeNetCoreProcess: slots popped from kSendList, then from kRecvList.     *)

Popping(i, status) ==
  /\ pc = "process" /\ kSendList # <<>> /\ i = Head(kSendList)
  /\ sock[i].usStatus = status

(* Whether the first receive could be started is not looked at.            *)
ProcessConnected(i) ==
  /\ Popping(i, "CONNECTED")
  /\ \E r \in RecvBuf([ClearEvent(ClearEvent(sock[i], "READ"), "WRITE")
                         EXCEPT !.usStatus = "ACTIVECONNECT", !.llTime = clock], ops) :
       sock' = [sock EXCEPT ![i] = r.s] /\ ops' = r.ops
  /\ kSendList' = Tail(kSendList)
  /\ Return(Event("CONNECT", sock[i].kHSocket))
  /\ UNCHANGED <<kMainList, kActiveMainList, kRecvList, open, kListenList, clock, retaken>>

ProcessConnectFailed(i) ==
  /\ Popping(i, "CONNECTED_FAILED")
  /\ MgrDel(i)
  /\ Return(Event("CONNECT_FAILED", sock[i].kHSocket))
  /\ UNCHANGED <<ioVars, clock, retaken>>

ProcessDisconnectFrees(i) ==                                      \* mutant
  /\ Popping(i, "DISCONNECT")
  /\ MgrDel(i)
  /\ Return(Event("DISCONNECT", sock[i].kHSocket))
  /\ UNCHANGED <<ioVars, clock, retaken>>
ProcessDisconnect(i) ==
  /\ Popping(i, "DISCONNECT")
  /\ sock' = [sock EXCEPT ![i].usStatus = "COMM_IDLE"]
  /\ kSendList' = AddInList(Tail(kSendList), i)
  /\ Return(Event("DISCONNECT", sock[i].kHSocket))
  /\ UNCHANGED <<kMainList, kActiveMainList, kRecvList, ioVars, clock, retaken>>

ProcessCommIdle(i) ==
  /\ Popping(i, "COMM_IDLE")
  /\ MgrDel(i)
  /\ UNCHANGED <<ioVars, clock, retaken, ctlVars>>

ProcessSend(i) ==
  /\ Popping(i, "ACTIVECONNECT")
  /\ \E r \in SendBuf(sock[i], ops) : Settle(i, r, Tail(kSendList))
  /\ UNCHANGED <<kMainList, kActiveMainList, kRecvList, kListenList, clock, retaken, ctlVars>>

CanRead(s) == s.recv >= FrameLen

Reading(i) == pc = "process" /\ kSendList = <<>> /\ kRecvList # <<>> /\ i = Head(kRecvList)

ProcessRecv(i) ==
  LET s == [sock[i] EXCEPT !.recv = @ - FrameLen] IN
  /\ Reading(i) /\ sock[i].usStatus = "ACTIVECONNECT" /\ CanRead(sock[i])
  /\ sock' = [sock EXCEPT ![i] = s]
  /\ kRecvList' = IF CanRead(s) THEN AddInList(Tail(kRecvList), i) ELSE Tail(kRecvList)
  /\ Return(Event("RECV_DATA", s.kHSocket))
  /\ UNCHANGED <<kMainList, kActiveMainList, kSendList, ioVars, clock, retaken>>

(* A connection not announced yet, which an operation of an earlier use of *)
(* its slot has given something to read.                                   *)
ProcessRecvSkips(i) ==
  /\ Reading(i) /\ ~(sock[i].usStatus = "ACTIVECONNECT" /\ CanRead(sock[i]))
  /\ kRecvList' = Tail(kRecvList)
  /\ UNCHANGED <<sock, kMainList, kActiveMainList, kSendList, ioVars, clock, retaken, ctlVars>>

ProcessDone ==
  /\ pc = "process" /\ kSendList = <<>> /\ kRecvList = <<>>
  /\ \/ pass = 1 /\ pc' = "wait" /\ UNCHANGED <<pass, ev>>
     \/ pass = 2 /\ Return(Event("IDLE", NoHandle))
  /\ UNCHANGED <<mgrVars, ioVars, clock, retaken>>

-----------------------------------------------------------------------------
(* GetQueuedCompletionStatus: operation o has ended, and its handle names  *)
(* slot i.                                                                 *)

GoOn == pc' = "process" /\ pass' = 2 /\ UNCHANGED ev

Ended(o) == pc = "wait" /\ BagIn(o, ops) /\ GoOn

Completed(o, i, types, statuses) ==
  /\ Ended(o) /\ Found(o.kHScoket) /\ i = IndexOf(o.kHScoket)
  /\ sock[i].iTypeSocket \in types /\ sock[i].usStatus \in statuses

(* One outstanding accept less for the listener with handle h.             *)
UncountedAccept(l, h) == l                                        \* mutant
AcceptEnded(l, h) ==
  [k \in DOMAIN l |-> IF l[k].kHScoket = h THEN [l[k] EXCEPT !.iBacklog = @ - 1] ELSE l[k]]

(* SeNetCoreListenSocket.  Another accept is posted first, on the listener *)
(* whose turn it is.  Neither the type of the operation nor how it ended   *)
(* is looked at; of one that is no accept, kSocket is what the last use of *)
(* its IODATA left there.                                                  *)
AcceptedBy(o) == IF o.iOPType = "ACCEPT" THEN {o.kSocket} ELSE Fds \cup {NoFd}

Accept(o, i) ==
  /\ Completed(o, i, {"LISTEN"}, {"ACTIVECONNECT"}) /\ BagCardinality(ops) <= MaxOps
  /\ \E r \in SetAcceptSocket(AcceptEnded(kListenList, o.kHScoket), Finish(ops, o), open),
        fd \in AcceptedBy(o) :
       /\ kListenList' = r.list /\ ops' = r.ops
       /\ \/ /\ ~MgrFull /\ fd \in r.open
             /\ LET j == FreeSlot
                    s == [NewSlot(j, fd, "ACCEPT", clock) EXCEPT !.usStatus = "CONNECTED"]
                IN MgrAdd(j, s) /\ Retake(j) /\ kSendList' = AddInList(kSendList, j)
             /\ open' = r.open
          \/ /\ open' = r.open \ {fd}              \* full, or a call on the socket fails
             /\ UNCHANGED <<sock, kMainList, kActiveMainList, kSendList, retaken>>
  /\ UNCHANGED <<kRecvList, clock>>

(* SeNetCoreClientSocket of a connect.  It asserts that the slot is        *)
(* CONNECTING; a build without assertions goes on all the same.            *)
Connected(o, i) ==
  /\ Completed(o, i, {"CLIENT"}, {"CONNECTING", "ACTIVECONNECT"}) /\ o.iOPType = "CONNECT"
  /\ Asserts => sock[i].usStatus = "CONNECTING"
  /\ \/ /\ sock' = [sock EXCEPT ![i].usStatus = "CONNECTED", ![i].llTime = clock]
        /\ kSendList' = AddInList(kSendList, i) /\ UNCHANGED open
     \/ Disconnect(i, sock[i], kSendList)
  /\ ops' = Finish(ops, o)
  /\ UNCHANGED <<kMainList, kActiveMainList, kRecvList, kListenList, clock, retaken>>

AssertionFails ==
  /\ pc = "wait" /\ Asserts
  /\ \E o \in BagToSet(ops) : 
       /\ o.iOPType = "CONNECT" /\ Found(o.kHScoket)
       /\ LET s == sock[IndexOf(o.kHScoket)] IN
          s.iTypeSocket = "CLIENT" /\ s.usStatus = "ACTIVECONNECT"
  /\ pc' = "abort"
  /\ UNCHANGED <<mgrVars, ioVars, clock, retaken, pass, ev>>

Aborted == pc = "abort" /\ UNCHANGED vars

(* SeNetCoreAcceptSocket, of a connection of either kind.                  *)
IsIO(o, i) ==
  \/ Completed(o, i, {"CLIENT"}, {"CONNECTING", "ACTIVECONNECT"}) /\ o.iOPType # "CONNECT"
  \/ Completed(o, i, {"ACCEPT"}, {"ACTIVECONNECT"})

IsOp(o, i, type) == IsIO(o, i) /\ o.iOPType = type

(* A send that moved all it had clears the way for the next ...            *)
Sent(o, i) ==
  /\ IsOp(o, i, "SEND")
  /\ \E r \in SendBuf(ClearEvent(sock[i], "WRITE"), Finish(ops, o)) : Settle(i, r, kSendList)
  /\ UNCHANGED <<kMainList, kActiveMainList, kRecvList, kListenList, clock, retaken>>

(* ... and one that moved n bytes of it goes on with the others.           *)
Resend(o, n) == Start(Finish(ops, o), [o EXCEPT !.len = @ - n])
SentPartlyClears(o, i) ==                                         \* mutant
  /\ IsOp(o, i, "SEND")
  /\ \E n \in 1 .. o.len - 1 : 
       Settle(i, Result(TRUE, ClearEvent(sock[i], "WRITE"), Resend(o, n)), kSendList)
  /\ UNCHANGED <<kMainList, kActiveMainList, kRecvList, kListenList, clock, retaken>>
SentPartly(o, i) ==
  /\ IsOp(o, i, "SEND")
  /\ \E n \in 1 .. o.len - 1 :
       \/ Settle(i, Result(TRUE, sock[i], Resend(o, n)), kSendList)
       \/ Settle(i, Result(FALSE, sock[i], Finish(ops, o)), kSendList)
  /\ UNCHANGED <<kMainList, kActiveMainList, kRecvList, kListenList, clock, retaken>>

(* n bytes were received, and another receive is started.                  *)
Received(o, i) ==
  /\ IsOp(o, i, "RECV")
  /\ \E n \in 1 .. (MaxIn - sock[i].recv) :
       LET s == [ClearEvent(sock[i], "READ") EXCEPT !.recv = @ + n, !.llTime = clock] IN
       \E r \in RecvBuf(s, Finish(ops, o)) :
         /\ Settle(i, r, kSendList)
         /\ kRecvList' = IF r.ok /\ CanRead(s) THEN AddInList(kRecvList, i) ELSE kRecvList
  /\ UNCHANGED <<kMainList, kActiveMainList, kListenList, clock, retaken>>

(* No byte: the peer has closed, or the operation failed; or it is a       *)
(* connect, which moves none, of an earlier use of an accepted one's slot. *)
NoBytes(o, i) ==
  /\ IsIO(o, i)
  /\ Disconnect(i, sock[i], kSendList) /\ ops' = Finish(ops, o)
  /\ UNCHANGED <<kMainList, kActiveMainList, kRecvList, kListenList, clock, retaken>>

(* The connection is gone, or is being closed.                             *)
Dropped(o) ==
  /\ Ended(o)
  /\ Found(o.kHScoket) => 
       sock[IndexOf(o.kHScoket)].usStatus
         \in {"CONNECTED", "CONNECTED_FAILED", "DISCONNECT", "COMM_IDLE"}
  /\ ops' = Finish(ops, o)
  /\ UNCHANGED <<mgrVars, open, kListenList, clock, retaken>>

(* No operation has ended within iWaitTime.                                *)
NothingEnded == pc = "wait" /\ GoOn /\ UNCHANGED <<mgrVars, ioVars, clock, retaken>>

(* The entry without an operation that the timer puts in the port.         *)
Expired(s) ==
  /\ MayDisconnect(s)
  /\ s.llTime + (IF s.usStatus = "CONNECTING" THEN ConnectTimeOut ELSE ActiveTimeOut) <= clock

Timer ==
  /\ pc = "wait"
  /\ LET i == Head(kActiveMainList) IN
     IF kActiveMainList # <<>> /\ Expired(sock[i])
       THEN \E r \in SetAcceptSocket(kListenList, ops, open \ {sock[i].kSocket}) :
              /\ sock' = [sock EXCEPT ![i] = Disconnected(sock[i])]
              /\ kSendList' = AddInList(kSendList, i)
              /\ kListenList' = r.list /\ ops' = r.ops /\ open' = r.open
       ELSE \E r \in SetAcceptSocket(kListenList, ops, open) :
              /\ kListenList' = r.list /\ ops' = r.ops /\ open' = r.open
              /\ UNCHANGED <<sock, kSendList>>
  /\ kActiveMainList' = IF kActiveMainList = <<>> THEN <<>>
                        ELSE MoveToEnd(kActiveMainList, Head(kActiveMainList))
  /\ Return(Event("TIMER", NoHandle))
  /\ UNCHANGED <<kMainList, kRecvList, clock, retaken>>

ClockTick == clock < MaxClock /\ clock' = clock + 1 /\ UNCHANGED <<mgrVars, ioVars, retaken, ctlVars>>

-----------------------------------------------------------------------------
Init ==
  /\ MgrInit
  /\ ops = EmptyBag /\ open = {} /\ kListenList = <<>> /\ clock = 0
  /\ pc = "app" /\ pass = 1 /\ ev = NoEvent /\ retaken = {}

Program == \/ TCPListen \/ TCPClient \/ TCPClientFails
           \/ \E i \in Slots : Send(i) \/ AppDisconnect(i)

Process(i) == \/ ProcessConnected(i) \/ ProcessConnectFailed(i) \/ ProcessDisconnect(i)
              \/ ProcessCommIdle(i) \/ ProcessSend(i) \/ ProcessRecv(i)
              \/ ProcessRecvSkips(i)

Complete(o, i) == \/ Accept(o, i) \/ Connected(o, i) \/ Sent(o, i) \/ SentPartly(o, i)
                  \/ Received(o, i) \/ NoBytes(o, i)

Read == \/ Call \/ ProcessDone \/ NothingEnded \/ Timer
        \/ \E i \in Slots : Process(i) \/ \E o \in BagToSet(ops) : Complete(o, i)
        \/ \E o \in BagToSet(ops) : Dropped(o)
        \/ AssertionFails \/ Aborted

Next == Program \/ Read \/ ClockTick

Spec == Init /\ [][Next]_vars

-----------------------------------------------------------------------------
(* Correctness.                                                            *)

(* Nothing waits for ever: a slot that has something to tell, or is to be  *)
(* freed, is on kSendList; and so is an active one with bytes to send,     *)
(* unless a send is outstanding, whose end starts the next.  A build       *)
(* without assertions loses the last of it for a retaken slot: announced   *)
(* once more, it forgets that it has bytes to send.                        *)
Sure(i) == Asserts \/ i \notin retaken

NothingStranded ==
  \A i \in Slots : i \notin Members(kSendList) =>
    /\ sock[i].usStatus \notin {"CONNECTED", "CONNECTED_FAILED", "DISCONNECT", "COMM_IDLE"}
    /\ Sure(i) /\ IsConnection(sock[i]) /\ sock[i].usStatus = "ACTIVECONNECT" /\ sock[i].send > 0
         => HasEvent(sock[i], "WRITE")

(* Every open socket belongs to one slot or waits in one accept, and every *)
(* slot in use and every accept has an open socket of its own: none leaks  *)
(* when an accept is refused, none is closed twice.  A listener opened in  *)
(* a slot retaken takes whatever ends there for an accept, with whatever   *)
(* socket its IODATA names, and there it ends.                             *)
Owning  == {i \in Slots : sock[i].usStatus \in {"CONNECTING", "CONNECTED", "ACTIVECONNECT"}}
Accepts == {o \in BagToSet(ops) : o.iOPType = "ACCEPT"}

ListenersSure == \A i \in retaken : sock[i].iTypeSocket # "LISTEN"

SocketOwnership ==
  ListenersSure =>
    /\ open = {sock[i].kSocket : i \in Owning} \cup {o.kSocket : o \in Accepts}
    /\ \A i, j \in Owning : sock[i].kSocket = sock[j].kSocket => i = j
    /\ \A o, p \in Accepts : o.kSocket = p.kSocket => o = p /\ ops[o] = 1
    /\ \A i \in Owning, o \in Accepts : sock[i].kSocket # o.kSocket

(* iBacklog counts the accepts outstanding on its listener, whatever turn  *)
(* they were posted in and however they ended: it never runs away in       *)
(* either direction, after which the listener would get no accept, or too  *)
(* many.                                                                   *)
BacklogExact ==
  ListenersSure =>
    \A k \in DOMAIN kListenList : LET l == kListenList[k] IN
      /\ l.iBacklog = Cardinality(Outstanding("ACCEPT", l.kHScoket))
      /\ l.iBacklog \in 0 .. Backlog

(* An event bit of a connection never stands for an operation that is not  *)
(* outstanding, which would stop the connection for good, and one that     *)
(* waits to be connected has a connect under way: whatever operations of   *)
(* earlier uses end in between.  Where no earlier use of the slot itself   *)
(* interferes, the bits say exactly which operations are: through partial  *)
(* sends and failures at most one receive and one send, since two sends at *)
(* once would mix their bytes.  A receive is missing only from the start,  *)
(* when the very first could not be started; a connect is outstanding      *)
(* exactly while the slot waits for one, as SeNetCoreClientSocket asserts. *)
BitsBacked(s) ==
  /\ s.usStatus = "ACTIVECONNECT" =>
       /\ HasEvent(s, "READ") => ~NoneOf("RECV", s.kHSocket)
       /\ HasEvent(s, "WRITE") => ~NoneOf("SEND", s.kHSocket)
  /\ s.usStatus = "CONNECTING" => ~NoneOf("CONNECT", s.kHSocket)

BitsExact(s) ==
  /\ s.usStatus = "ACTIVECONNECT" =>
       /\ IF HasEvent(s, "READ") THEN Single("RECV", s.kHSocket) ELSE NoneOf("RECV", s.kHSocket)
       /\ IF HasEvent(s, "WRITE") THEN Single("SEND", s.kHSocket) ELSE NoneOf("SEND", s.kHSocket)
       /\ ~HasEvent(s, "READ") => s.recv = 0
  /\ s.usStatus = "CONNECTING" => Single("CONNECT", s.kHSocket)
  /\ s.usStatus \in {"CONNECTED", "ACTIVECONNECT"} => NoneOf("CONNECT", s.kHSocket)

OperationsMatch ==
  \A i \in OfType("CLIENT") \cup OfType("ACCEPT") :
    BitsBacked(sock[i]) /\ (i \notin retaken => BitsExact(sock[i]))

(* SeNetCoreClientSocket's assertion: no connect ends on a connection that *)
(* is announced already.                                                   *)
ConnectAsserted == pc # "abort"

(* The caller's view is the one of the other platform, as long as failed   *)
(* assertions end the program ...                                          *)
StageOf(i) ==
  LET s == sock[i] IN
  CASE s.usStatus = "INIT" -> "free"
    [] s.usStatus \in {"CONNECTING", "CONNECTED", "CONNECTED_FAILED"} -> "opening"
    [] s.usStatus = "ACTIVECONNECT" -> IF s.iTypeSocket = "LISTEN" THEN "listening" ELSE "open"
    [] s.usStatus = "DISCONNECT" -> "closing"
    [] s.usStatus = "COMM_IDLE" -> "closed"

Conn == [i \in Slots |-> [stage |-> StageOf(i),
                          out |-> sock[i].iTypeSocket = "CLIENT",
                          h |-> sock[i].kHSocket]]

Lifecycle == INSTANCE ConnLifecycle WITH
  Index    <- Slots,
  HandleOf <- Handle,
  Tick     <- 0 .. MaxClock,
  None     <- NoHandle,
  Nothing  <- NoEvent,
  conn     <- Conn

ImplementsLifecycle == Lifecycle!Spec

(* ... and otherwise but for one thing: an open connection whose slot was  *)
(* retaken may be announced a second time.                                 *)
Reannounced ==
  /\ \E i \in retaken : Conn[i].stage = "open" /\ Conn' = [Conn EXCEPT ![i].stage = "opening"]
  /\ UNCHANGED ev

LifecycleKept == Lifecycle!Init /\ [][Lifecycle!Next \/ Reannounced]_<<Conn, ev>>

=============================================================================
