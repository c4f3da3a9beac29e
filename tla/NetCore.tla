------------------------------- MODULE NetCore -------------------------------
(***************************************************************************)
(* The network core of src/netbase/SeNetCoreLinux.c: one thread that calls *)
(* SeNetCoreRead in a loop and, between two calls, the other functions of  *)
(* SeNetCore.h; and beneath it the kernel's sockets and its epoll object,  *)
(* which the peers change at any moment.                                   *)
(*                                                                         *)
(* A call to SeNetCoreRead is not one step.  `pc` says where it stands:    *)
(*   app       no call in progress: the program may call any function      *)
(*   process   in SeNetCoreProcess (`pass` tells its first call from the   *)
(*             second); one step per slot popped from a list               *)
(*   wait      in epoll_wait                                               *)
(*   dispatch  in the loop over the events of `batch`; one step per event  *)
(*   accept    in SeNetCoreListenSocket for slot `lsn`; one step per       *)
(*             connection accepted                                         *)
(* so that the peers act between any two of them.  Inside one step the     *)
(* peers cannot act: a recv or send loop runs until the kernel refuses, so *)
(* what arrives during the loop is as if it had arrived before it.         *)
(***************************************************************************)
EXTENDS SocketMgr

CONSTANTS ConnectTimeOut, ActiveTimeOut,  \* iConnectTimeOut, iActiveTimeOut
          FrameLen,       \* bytes of a frame, its header included
          Space,          \* bytes the kernel's send buffer of a socket holds
          MaxIn,          \* bound: unread bytes of a connection
          MaxOut,         \* bound: unsent bytes the program queues on it
          MaxBacklog,     \* bound: connections waiting to be accepted
          MaxClock,       \* bound: last value of the millisecond clock
          MaxListeners,   \* bound: listening slots at a time
          MaxClients,     \* bound: outgoing connections at a time
          SysFail         \* may epoll_ctl and setsockopt fail?

ASSUME CoreAssumption ==
  /\ {ConnectTimeOut, ActiveTimeOut, MaxClock, MaxListeners, MaxClients} \subseteq Nat
  /\ {FrameLen, Space, MaxBacklog} \subseteq Nat \ {0} /\ {MaxIn, MaxOut} \subseteq Nat
  /\ SysFail \in BOOLEAN

VARIABLES kern,        \* kern[fd]: the socket behind a descriptor
          reg,         \* reg[fd]: what epoll was asked to report of it
          ready,       \* descriptors on epoll's ready list
          clock,       \* SeTimeGetTickCount
          timer,       \* the timerfd has expired and was not read
          pc, pass, batch, lsn,
          bHasaTimer,  \* the local variable of SeNetCoreRead
          ev           \* what the last SeNetCoreRead returned

kernVars == <<kern, reg, ready>>
envVars  == <<clock, timer>>
ctlVars  == <<pc, pass, batch, lsn, bHasaTimer, ev>>
vars     == <<mgrVars, kernVars, envVars, ctlVars>>

-----------------------------------------------------------------------------
(* The kernel.  A socket is `up` when connected, `eof` after the peer's    *)
(* FIN, `err` after a reset or a refused connect.                          *)

SockStates == {"closed", "listen", "connecting", "up", "eof", "err"}

KernRecord == [state : SockStates, rcv : Nat, space : Nat, backlog : Nat]

Kernel(state) == [state |-> state, rcv |-> 0, space |-> Space, backlog |-> 0]

(* Interest: `listen` is EPOLLIN, level triggered; `connect` is            *)
(* EPOLLOUT|RDHUP|ERR|HUP|ONESHOT and `spent` the same after it fired;     *)
(* `in` is EPOLLIN|RDHUP|ERR|HUP|ET and `inout` the same with EPOLLOUT.    *)
Interests == {"none", "listen", "connect", "spent", "in", "inout"}

RegRecord == [interest : Interests, h : Handles]

NotRegistered == [interest |-> "none", h |-> NoHandle]

Watch(interest, h) == [interest |-> interest, h |-> h]

Readable(k)  == k.rcv > 0 \/ k.state \in {"eof", "err"} \/ k.backlog > 0
Writable(k)  == k.state = "err" \/ (k.state \in {"up", "eof"} /\ k.space > 0)
HangUp(k)    == k.state \in {"eof", "err"}

(* The events epoll would report of a socket in state k under interest e.  *)
Revents(k, e) == [bRead  |-> e \in {"listen", "in", "inout"} /\ Readable(k),
                  bWrite |-> e \in {"connect", "inout"} /\ Writable(k),
                  bError |-> e \in {"connect", "in", "inout"} /\ HangUp(k)]

Reports(k, e) == LET r == Revents(k, e) IN r.bRead \/ r.bWrite \/ r.bError

(* The ready list after epoll_ctl ADD or MOD of fd: it looks at the socket *)
(* at once, so an edge that came before the call is not missed.            *)
ReadyAfterCtl(fd, k, e) == IF Reports(k, e) THEN ready \cup {fd} ELSE ready \ {fd}

FreeFds == {fd \in Fds : kern[fd].state = "closed"}
NewFd   == CHOOSE fd \in FreeFds : TRUE

(* SeCloseSocket: the descriptor leaves the epoll set by itself.           *)
Close(fd) ==
  /\ kern'  = [kern EXCEPT ![fd] = Kernel("closed")]
  /\ reg'   = [reg EXCEPT ![fd] = NotRegistered]
  /\ ready' = ready \ {fd}

(* A change of the socket behind fd puts it on the ready list when epoll   *)
(* was asked for that kind of change: another kind does not wake it.       *)
WokenBy(edge) == CASE edge = "IN"  -> {"listen", "in", "inout"}
                   [] edge = "OUT" -> {"connect", "inout"}
                   [] edge = "HUP" -> {"connect", "in", "inout"}
                   [] edge = "NONE" -> {}

KernelEvent(fd, k, edge) ==
  /\ kern' = [kern EXCEPT ![fd] = k]
  /\ ready' = IF reg[fd].interest \in WokenBy(edge) THEN ready \cup {fd} ELSE ready
  /\ UNCHANGED <<mgrVars, reg, envVars, ctlVars>>

(* A peer connects to the listening socket fd.                             *)
PeerConnects(fd) ==
  /\ kern[fd].state = "listen" /\ kern[fd].backlog < MaxBacklog
  /\ KernelEvent(fd, [kern[fd] EXCEPT !.backlog = @ + 1], "IN")

(* An outgoing connect is accepted, or refused.                            *)
ConnectCompletes(fd) ==
  /\ kern[fd].state = "connecting"
  /\ \E state \in {"up", "err"} : 
       KernelEvent(fd, [kern[fd] EXCEPT !.state = state], "OUT")

(* The connection whose socket is fd has this many bytes not read by the   *)
(* program.                                                                *)
Owner(fd)  == CHOOSE i \in Slots : sock[i].kSocket = fd /\ sock[i].usStatus # "INIT"
Unread(fd) == kern[fd].rcv + sock[Owner(fd)].recv

PeerSends(fd) ==
  /\ kern[fd].state = "up" /\ Unread(fd) < MaxIn
  /\ KernelEvent(fd, [kern[fd] EXCEPT !.rcv = @ + 1], "IN")

(* The peer closes its side, or resets the connection: unread bytes stay   *)
(* readable after a FIN and are lost after a reset.                        *)
PeerCloses(fd) ==
  /\ kern[fd].state = "up"
  /\ KernelEvent(fd, [kern[fd] EXCEPT !.state = "eof"], "HUP")
PeerResets(fd) ==
  /\ kern[fd].state \in {"up", "eof"}
  /\ KernelEvent(fd, [kern[fd] EXCEPT !.state = "err", !.rcv = 0], "HUP")

(* The peer reads what was sent and the send buffer empties.  Only a full  *)
(* buffer has refused a send, and only then does the kernel report room.   *)
PeerDrains(fd) ==
  /\ kern[fd].state \in {"up", "eof"} /\ kern[fd].space < Space
  /\ KernelEvent(fd, [kern[fd] EXCEPT !.space = Space],
                 IF kern[fd].space = 0 THEN "OUT" ELSE "NONE")

Peer(fd) == PeerConnects(fd) \/ ConnectCompletes(fd) \/ PeerSends(fd)
            \/ PeerCloses(fd) \/ PeerResets(fd) \/ PeerDrains(fd)

ClockTick ==
  /\ clock < MaxClock
  /\ clock' = clock + 1
  /\ UNCHANGED <<mgrVars, kernVars, timer, ctlVars>>

TimerExpires ==
  /\ timer' = TRUE
  /\ UNCHANGED <<mgrVars, kernVars, clock, ctlVars>>

Environment == ClockTick \/ TimerExpires \/ \E fd \in Fds : Peer(fd)

-----------------------------------------------------------------------------
(* Closing a connection.                                                   *)

(* SeNetCoreDisconnect acts only on a connection in one of these states;   *)
(* any other, CONNECTED included, is left as it is.                        *)
MayDisconnect(s) == IsConnection(s) /\ s.usStatus \in {"CONNECTING", "ACTIVECONNECT"}

Disconnected(s) ==
  [s EXCEPT !.usStatus = IF @ = "CONNECTING" THEN "CONNECTED_FAILED" ELSE "DISCONNECT"]

(* SeNetCoreDisconnect of slot i, whose record is s by now and whose slot  *)
(* has just been popped from sendList when that is not kSendList.          *)
DisconnectUnlisted(i, s, sendList) ==                             \* mutant
  /\ sock' = [sock EXCEPT ![i] = Disconnected(s)]
  /\ kSendList' = sendList
  /\ Close(s.kSocket)
DisconnectKeepsFd(i, s, sendList) ==                              \* mutant
  /\ sock' = [sock EXCEPT ![i] = Disconnected(s)]
  /\ kSendList' = AddInList(sendList, i)
  /\ UNCHANGED kernVars
Disconnect(i, s, sendList) ==
  /\ sock' = [sock EXCEPT ![i] = Disconnected(s)]
  /\ kSendList' = AddInList(sendList, i)
  /\ Close(s.kSocket)

-----------------------------------------------------------------------------
(* Moving bytes.  Each result says whether the call returned true, and     *)
(* what it left of the slot and of the socket.                             *)

(* SeNetCoreRecvBuf: reads until the kernel has no more.  End of file and  *)
(* errors make it return false after the bytes before them were taken, and *)
(* then llTime is not refreshed.                                           *)
RecvBufOnce(s, k) ==                                              \* mutant
  LET n == IF k.rcv > 0 THEN 1 ELSE 0 IN
  [ok |-> ~HangUp(k),
   s  |-> [s EXCEPT !.recv = @ + n, !.llTime = IF n > 0 THEN clock ELSE @],
   k  |-> [k EXCEPT !.rcv = @ - n]]
RecvBuf(s, k) ==
  LET refreshed == k.rcv > 0 /\ ~HangUp(k) IN
  [ok |-> ~HangUp(k),
   s  |-> [s EXCEPT !.recv = @ + k.rcv, !.llTime = IF refreshed THEN clock ELSE @],
   k  |-> [k EXCEPT !.rcv = 0]]

(* SeNetCoreSendBuf: does nothing unless the socket is believed writable.  *)
(* Sends until the stream is empty or the kernel refuses; in the second    *)
(* case it asks epoll for EPOLLOUT unless that was already asked, in the   *)
(* first it withdraws the request.  `e` is the interest it leaves; when it *)
(* changes, that takes an epoll_ctl, whose failure makes it return false.  *)
SendResult(ok, s, k, e) == [ok |-> ok, s |-> s, k |-> k, e |-> e]
TakeAll(s, k) == s.send                                           \* mutant
Take(s, k) == IF k.space < s.send THEN k.space ELSE s.send
ArmedNoFlag(s) == ClearEvent(s, "WRITE")                          \* mutant
Armed(s) == AddEvent(ClearEvent(s, "WRITE"), "FLAG")
SendBufNoArm(s, k, e) ==                                          \* mutant
  LET n == IF HasEvent(s, "WRITE") THEN Take(s, k) ELSE 0
      sent == [s EXCEPT !.send = @ - n] IN
  SendResult(TRUE, IF sent.send > 0 THEN ClearEvent(sent, "WRITE") ELSE sent,
             [k EXCEPT !.space = @ - n], e)
SendBuf(s, k, e) ==
  LET n      == Take(s, k)
      sent   == [s EXCEPT !.send = @ - n]
      kSent  == [k EXCEPT !.space = @ - n]
      armed  == HasEvent(s, "FLAG")
      idle   == ~HasEvent(s, "WRITE")
      broken == s.send > 0 /\ k.state = "err"
  IN CASE idle -> SendResult(TRUE, s, k, e)
       [] ~idle /\ broken -> SendResult(FALSE, s, k, e)
       [] ~idle /\ ~broken /\ sent.send > 0 ->
            SendResult(TRUE, Armed(sent), kSent, IF armed THEN e ELSE "inout")
       [] ~idle /\ ~broken /\ sent.send = 0 ->
            SendResult(TRUE, ClearEvent(sent, "FLAG"), kSent, IF armed THEN "in" ELSE e)

(* What epoll_ctl MOD may answer: it fails on a descriptor that is not     *)
(* registered, which an ignored failure of SeNetCoreProcess can leave.     *)
CtlFails(r, e)    == r.e # e /\ (SysFail \/ e = "none")
CtlSucceeds(r, e) == r.e # e => e # "none"

(* SeNetSreamCanRead: the receive stream holds a whole frame.              *)
CanReadMore(s) == s.recv > FrameLen                               \* mutant
CanRead(s)     == s.recv >= FrameLen

(* The slot with handle h has sent, or begun to: socket, interest and      *)
(* ready list after a SendBuf that returned true.                          *)
KernAfterSend(fd, r) ==
  /\ kern' = [kern EXCEPT ![fd] = r.k]
  /\ reg'  = [reg EXCEPT ![fd].interest = r.e]
  /\ ready' = IF r.e # reg[fd].interest THEN ReadyAfterCtl(fd, r.k, r.e) ELSE ready

-----------------------------------------------------------------------------
(* Calls of the program between two calls of SeNetCoreRead.                *)

Event(kind, h) == [kind |-> kind, h |-> h]
NoEvent        == Event("NONE", NoHandle)

EventKinds == {"NONE", "CONNECT", "CONNECT_FAILED", "DISCONNECT", "RECV_DATA",
               "TIMER", "IDLE"}

(* The descriptor is a socket in this state, watched like that.            *)
Opened(fd, state, watch) ==
  /\ kern' = [kern EXCEPT ![fd] = Kernel(state)]
  /\ reg'  = [reg EXCEPT ![fd] = watch]
  /\ UNCHANGED ready

(* A call that takes a slot: it needs a descriptor, and a full manager     *)
(* makes it return 0 with nothing changed.                                 *)
CanOpen == pc = "app" /\ FreeFds # {} /\ ~MgrFull

OfType(type) == {i \in Slots : sock[i].iTypeSocket = type}

(* SeNetCoreTCPListen.                                                     *)
TCPListen ==
  /\ CanOpen /\ Cardinality(OfType("LISTEN")) < MaxListeners
  /\ LET i == FreeSlot
         s == [NewSlot(i, NewFd, "LISTEN", clock) EXCEPT !.usStatus = "ACTIVECONNECT"]
     IN MgrAdd(i, s) /\ Opened(NewFd, "listen", Watch("listen", s.kHSocket))
  /\ UNCHANGED <<kSendList, kRecvList, envVars, ctlVars>>

(* SeNetCoreTCPClient: the connect succeeds at once...                     *)
TCPClientConnected ==
  /\ CanOpen /\ Cardinality(OfType("CLIENT")) < MaxClients
  /\ LET i == FreeSlot
         s == [NewSlot(i, NewFd, "CLIENT", clock) EXCEPT !.usStatus = "CONNECTED"]
     IN /\ MgrAdd(i, s) /\ Opened(NewFd, "up", NotRegistered)
        /\ kSendList' = AddInList(kSendList, i)
  /\ UNCHANGED <<kRecvList, envVars, ctlVars>>

(* ... or is in progress, and epoll will tell ...                          *)
TCPClientConnecting ==
  /\ CanOpen /\ Cardinality(OfType("CLIENT")) < MaxClients
  /\ LET i == FreeSlot
         s == [NewSlot(i, NewFd, "CLIENT", clock) EXCEPT !.usStatus = "CONNECTING"]
     IN MgrAdd(i, s) /\ Opened(NewFd, "connecting", Watch("connect", s.kHSocket))
  /\ UNCHANGED <<kSendList, kRecvList, envVars, ctlVars>>

(* ... or it, or the epoll_ctl after it, fails: SeNetCoreTCPListen fails   *)
(* in the same way.                                                        *)
OpenFailsKeepsFd ==                                               \* mutant
  CanOpen /\ MgrAddThenDel /\ Opened(NewFd, "up", NotRegistered) /\ UNCHANGED <<envVars, ctlVars>>
OpenFails == CanOpen /\ MgrAddThenDel /\ UNCHANGED <<kernVars, envVars, ctlVars>>

(* SeNetCoreSend and SeNetCoreSendExtend accept data only for an active    *)
(* connection.  The slot is listed before the length is looked at, so a    *)
(* refused length (n = 0 here) leaves it listed.                           *)
SendQueued(i) == IF HasEvent(sock[i], "WRITE") THEN AddInList(kSendList, i) ELSE kSendList
CanSend(i)    == IsConnection(sock[i]) /\ sock[i].usStatus = "ACTIVECONNECT"
Send(i) ==
  /\ pc = "app" /\ CanSend(i)
  /\ \E n \in 0 .. MaxOut - sock[i].send : sock' = [sock EXCEPT ![i].send = @ + n]
  /\ kSendList' = SendQueued(i)
  /\ UNCHANGED <<kMainList, kActiveMainList, kRecvList, kernVars, envVars, ctlVars>>

(* SeNetCoreDisconnect called by the program.                              *)
AppDisconnect(i) ==
  /\ pc = "app" /\ MayDisconnect(sock[i])
  /\ Disconnect(i, sock[i], kSendList)
  /\ UNCHANGED <<kMainList, kActiveMainList, kRecvList, envVars, ctlVars>>

(* The program calls SeNetCoreRead.                                        *)
Call ==
  /\ pc = "app"
  /\ pc' = "process" /\ pass' = 1 /\ ev' = NoEvent
  /\ UNCHANGED <<mgrVars, kernVars, envVars, batch, lsn, bHasaTimer>>

(* SeNetCoreRead returns event e.                                          *)
Return(e) ==
  /\ pc' = "app" /\ pass' = 1 /\ ev' = e /\ bHasaTimer' = FALSE
  /\ UNCHANGED <<batch, lsn>>

-----------------------------------------------------------------------------
(* SeNetCoreProcess: one slot popped from kSendList...                     *)

Popping(i, status) ==
  /\ pc = "process" /\ kSendList # <<>> /\ i = Head(kSendList)
  /\ sock[i].usStatus = status

(* A connection is announced and handed to epoll.  The result of epoll_ctl *)
(* is not looked at.                                                       *)
ProcessConnected(i) ==
  LET s == sock[i] IN
  /\ Popping(i, "CONNECTED")
  /\ sock' = [sock EXCEPT ![i] = [AddEvent(ClearEvent(s, "FLAG"), "WRITE")
                                    EXCEPT !.usStatus = "ACTIVECONNECT", !.llTime = clock]]
  /\ kSendList' = Tail(kSendList)
  /\ \/ /\ reg' = [reg EXCEPT ![s.kSocket] = Watch("in", s.kHSocket)]
        /\ ready' = ReadyAfterCtl(s.kSocket, kern[s.kSocket], "in")
     \/ SysFail /\ UNCHANGED <<reg, ready>>
  /\ Return(Event("CONNECT", s.kHSocket))
  /\ UNCHANGED <<kMainList, kActiveMainList, kRecvList, kern, envVars>>

ProcessConnectFailed(i) ==
  /\ Popping(i, "CONNECTED_FAILED")
  /\ MgrDel(i)
  /\ Return(Event("CONNECT_FAILED", sock[i].kHSocket))
  /\ UNCHANGED <<kernVars, envVars>>

(* The disconnection is reported; the slot stays until the next visit.     *)
ProcessDisconnectFrees(i) ==                                      \* mutant
  /\ Popping(i, "DISCONNECT")
  /\ MgrDel(i)
  /\ Return(Event("DISCONNECT", sock[i].kHSocket))
  /\ UNCHANGED <<kernVars, envVars>>
ProcessDisconnectForgets(i) ==                                    \* mutant
  /\ Popping(i, "DISCONNECT")
  /\ sock' = [sock EXCEPT ![i].usStatus = "COMM_IDLE"]
  /\ kSendList' = Tail(kSendList)
  /\ Return(Event("DISCONNECT", sock[i].kHSocket))
  /\ UNCHANGED <<kMainList, kActiveMainList, kRecvList, kernVars, envVars>>
ProcessDisconnect(i) ==
  /\ Popping(i, "DISCONNECT")
  /\ sock' = [sock EXCEPT ![i].usStatus = "COMM_IDLE"]
  /\ kSendList' = AddInList(Tail(kSendList), i)
  /\ Return(Event("DISCONNECT", sock[i].kHSocket))
  /\ UNCHANGED <<kMainList, kActiveMainList, kRecvList, kernVars, envVars>>

ProcessCommIdle(i) ==
  /\ Popping(i, "COMM_IDLE")
  /\ MgrDel(i)
  /\ UNCHANGED <<kernVars, envVars, ctlVars>>

(* An active connection's stream is sent; failing that, it is closed.      *)
ProcessSend(i) ==
  LET fd == sock[i].kSocket
      r  == SendBuf(sock[i], kern[fd], reg[fd].interest)
  IN
  /\ Popping(i, "ACTIVECONNECT")
  /\ \/ /\ r.ok /\ CtlSucceeds(r, reg[fd].interest)
        /\ sock' = [sock EXCEPT ![i] = r.s]
        /\ kSendList' = Tail(kSendList)
        /\ KernAfterSend(fd, r)
     \/ /\ ~r.ok \/ CtlFails(r, reg[fd].interest)
        /\ Disconnect(i, r.s, Tail(kSendList))
  /\ UNCHANGED <<kMainList, kActiveMainList, kRecvList, envVars, ctlVars>>

(* ... then, when that list is empty, one slot popped from kRecvList.  One  *)
(* that is closed, or has no whole frame, is skipped: RecvListExact says   *)
(* that there is none ...                                                  *)

Reading(i) == pc = "process" /\ kSendList = <<>> /\ kRecvList # <<>> /\ i = Head(kRecvList)

HasFrame(i) == sock[i].usStatus = "ACTIVECONNECT" /\ CanRead(sock[i])

ProcessRecvOnce(i) ==                                             \* mutant
  /\ Reading(i) /\ HasFrame(i)
  /\ sock' = [sock EXCEPT ![i].recv = @ - FrameLen]
  /\ kRecvList' = Tail(kRecvList)
  /\ Return(Event("RECV_DATA", sock[i].kHSocket))
  /\ UNCHANGED <<kMainList, kActiveMainList, kSendList, kernVars, envVars>>
ProcessRecvAgain(i) ==                                            \* mutant
  /\ Reading(i) /\ HasFrame(i)
  /\ sock' = [sock EXCEPT ![i].recv = @ - FrameLen]
  /\ kRecvList' = AddInList(Tail(kRecvList), i)
  /\ Return(Event("RECV_DATA", sock[i].kHSocket))
  /\ UNCHANGED <<kMainList, kActiveMainList, kSendList, kernVars, envVars>>
ProcessRecv(i) ==
  LET s == [sock[i] EXCEPT !.recv = @ - FrameLen] IN
  /\ Reading(i) /\ HasFrame(i)
  /\ sock' = [sock EXCEPT ![i] = s]
  /\ kRecvList' = IF CanRead(s) THEN AddInList(Tail(kRecvList), i) ELSE Tail(kRecvList)
  /\ Return(Event("RECV_DATA", s.kHSocket))
  /\ UNCHANGED <<kMainList, kActiveMainList, kSendList, kernVars, envVars>>

(* ... and nothing left: the first call goes on to epoll_wait, the second  *)
(* makes SeNetCoreRead return IDLE.  Its boolean then says whether epoll   *)
(* had anything to report; a program calls again whatever it says, so the  *)
(* event alone is kept.  A stream whose frames have a header never makes   *)
(* SeNetSreamRead fail once CanRead held (FramePipe: StaysUp).             *)
ProcessDone ==
  /\ pc = "process" /\ kSendList = <<>> /\ kRecvList = <<>>
  /\ \/ pass = 1 /\ pc' = "wait" /\ UNCHANGED <<pass, ev, batch, lsn, bHasaTimer>>
     \/ pass = 2 /\ Return(Event("IDLE", NoHandle))
  /\ UNCHANGED <<mgrVars, kernVars, envVars>>

-----------------------------------------------------------------------------
(* epoll_wait.  A descriptor whose events are reported leaves the ready    *)
(* list unless it is watched level triggered, and a one-shot one is not    *)
(* reported again.                                                         *)

Reported == {fd \in ready : Reports(kern[fd], reg[fd].interest)}

EpollEvent(fd) == [h |-> reg[fd].h, rev |-> Revents(kern[fd], reg[fd].interest)]

EventRecord == [h : Handles, rev : [bRead : BOOLEAN, bWrite : BOOLEAN, bError : BOOLEAN]]

(* It returns at once when there is something to report.  The loop over    *)
(* the events reads the timerfd where it meets it and only remembers that  *)
(* it did, so it is read here.                                             *)
EpollWait ==
  /\ pc = "wait" /\ (Reported # {} \/ timer)
  /\ batch' = {EpollEvent(fd) : fd \in Reported}
  /\ ready' = {fd \in Reported : reg[fd].interest = "listen"}
  /\ reg' = [fd \in Fds |-> IF fd \in Reported /\ reg[fd].interest = "connect"
                            THEN [reg[fd] EXCEPT !.interest = "spent"] ELSE reg[fd]]
  /\ timer' = FALSE /\ bHasaTimer' = timer
  /\ pc' = "dispatch"
  /\ UNCHANGED <<mgrVars, kern, clock, pass, lsn, ev>>

(* With nothing to report, a signal or the end of iWaitTime.               *)
EpollNothing ==
  /\ pc = "wait" /\ Reported = {} /\ ~timer
  /\ pc' = "process" /\ pass' = 2
  /\ UNCHANGED <<mgrVars, kernVars, envVars, batch, lsn, bHasaTimer, ev>>

(* One event of the batch, for the slot its handle names.  SeNetCoreRead   *)
(* skips an event whose handle is unknown or whose slot is in another      *)
(* state: EventsCurrent says that this never happens.                      *)
Dispatching(e, i) ==
  /\ pc = "dispatch" /\ e \in batch
  /\ Found(e.h) /\ i = IndexOf(e.h)
  /\ batch' = batch \ {e}

StayDispatching == UNCHANGED <<pc, pass, lsn, bHasaTimer, ev>>

DispatchListen(e, i) ==
  /\ Dispatching(e, i)
  /\ sock[i].iTypeSocket = "LISTEN"
  /\ pc' = "accept" /\ lsn' = i
  /\ UNCHANGED <<mgrVars, kernVars, envVars, pass, bHasaTimer, ev>>

(* SeNetCoreClientSocket of a connection being made.  It leaves the epoll  *)
(* set; SO_ERROR decides.                                                  *)
DispatchConnecting(e, i) ==
  LET s == sock[i]
      connected == e.rev.bWrite /\ kern[s.kSocket].state \in {"up", "eof"}
  IN
  /\ Dispatching(e, i)
  /\ s.usStatus = "CONNECTING"
  /\ \/ /\ connected
        /\ sock' = [sock EXCEPT ![i].usStatus = "CONNECTED", ![i].llTime = clock]
        /\ reg' = [reg EXCEPT ![s.kSocket] = NotRegistered]
        /\ ready' = ready \ {s.kSocket}
        /\ UNCHANGED kern
     \/ /\ ~connected
        /\ sock' = [sock EXCEPT ![i].usStatus = "CONNECTED_FAILED"]
        /\ Close(s.kSocket)
  /\ kSendList' = AddInList(kSendList, i)
  /\ StayDispatching
  /\ UNCHANGED <<kMainList, kActiveMainList, kRecvList, envVars>>

(* SeNetCoreAcceptSocket, for both kinds of connection: hang-up first,     *)
(* then input, then output.                                                *)
DispatchActive(e, i) ==
  LET s  == sock[i]
      fd == s.kSocket
      in == IF e.rev.bRead /\ ~e.rev.bError THEN RecvBuf(s, kern[fd])
            ELSE [ok |-> ~e.rev.bError, s |-> s, k |-> kern[fd]]
      framed == in.ok /\ e.rev.bRead /\ CanRead(in.s)
      out == IF e.rev.bWrite
               THEN SendBuf(AddEvent(in.s, "WRITE"), in.k, reg[fd].interest)
               ELSE SendResult(TRUE, in.s, in.k, reg[fd].interest)
  IN
  /\ Dispatching(e, i)
  /\ IsConnection(s) /\ s.usStatus = "ACTIVECONNECT"
  /\ kRecvList' = IF framed THEN AddInList(kRecvList, i) ELSE kRecvList
  /\ \/ /\ ~in.ok
        /\ Disconnect(i, in.s, kSendList)
     \/ /\ in.ok /\ (~out.ok \/ CtlFails(out, reg[fd].interest))
        /\ Disconnect(i, out.s, kSendList)
     \/ /\ in.ok /\ out.ok /\ CtlSucceeds(out, reg[fd].interest)
        /\ sock' = [sock EXCEPT ![i] = out.s]
        /\ KernAfterSend(fd, out)
        /\ UNCHANGED kSendList
  /\ StayDispatching
  /\ UNCHANGED <<kMainList, kActiveMainList, envVars>>

(* SeNetCoreListenSocket.  One connection accepted; refused because the    *)
(* manager is full; lost to a failing socket option, which ends the loop.  *)
Accepting == pc = "accept" /\ kern[sock[lsn].kSocket].backlog > 0 /\ FreeFds # {}

OneAccepted(k) == [k EXCEPT ![sock[lsn].kSocket].backlog = @ - 1]

Accept ==
  /\ Accepting /\ ~MgrFull
  /\ LET i == FreeSlot
         s == [NewSlot(i, NewFd, "ACCEPT", clock) EXCEPT !.usStatus = "CONNECTED"]
     IN /\ MgrAdd(i, s)
        /\ kSendList' = AddInList(kSendList, i)
        /\ kern' = [OneAccepted(kern) EXCEPT ![NewFd] = Kernel("up")]
  /\ UNCHANGED <<kRecvList, reg, ready, envVars, ctlVars>>

AcceptFull ==
  /\ Accepting /\ MgrFull
  /\ kern' = OneAccepted(kern)
  /\ UNCHANGED <<mgrVars, reg, ready, envVars, ctlVars>>

AcceptEnds ==
  /\ pc = "accept"
  /\ \/ Accepting /\ SysFail /\ kern' = OneAccepted(kern)
     \/ ~Accepting /\ UNCHANGED kern
  /\ pc' = "dispatch" /\ lsn' = 0
  /\ UNCHANGED <<mgrVars, reg, ready, envVars, pass, batch, bHasaTimer, ev>>

(* SeNetTimeOut looks at one connection per expiry of the timer and moves  *)
(* it to the end of the sweep.                                             *)
TimeOut(s)  == IF s.usStatus = "CONNECTING" THEN ConnectTimeOut ELSE ActiveTimeOut
Expired(s)  == MayDisconnect(s) /\ s.llTime + TimeOut(s) <= clock

NetTimeOutStuck ==                                                \* mutant
  LET i == Head(kActiveMainList) IN
  IF kActiveMainList # <<>> /\ Expired(sock[i])
    THEN Disconnect(i, sock[i], kSendList) /\ UNCHANGED kActiveMainList
    ELSE UNCHANGED <<sock, kSendList, kernVars, kActiveMainList>>
NetTimeOut ==
  LET i == Head(kActiveMainList) IN
  IF kActiveMainList = <<>>
    THEN UNCHANGED <<sock, kSendList, kActiveMainList, kernVars>>
    ELSE /\ kActiveMainList' = MoveToEnd(kActiveMainList, i)
         /\ IF Expired(sock[i]) THEN Disconnect(i, sock[i], kSendList)
                                ELSE UNCHANGED <<sock, kSendList, kernVars>>

(* After the last event: a timer event is returned, else the lists are     *)
(* looked at once more.                                                    *)
DispatchTimerAtOnce ==                                            \* mutant
  /\ pc = "dispatch" /\ bHasaTimer
  /\ NetTimeOut
  /\ Return(Event("TIMER", NoHandle))
  /\ UNCHANGED <<kMainList, kRecvList, envVars>>
DispatchTimer ==
  /\ pc = "dispatch" /\ batch = {} /\ bHasaTimer
  /\ NetTimeOut
  /\ Return(Event("TIMER", NoHandle))
  /\ UNCHANGED <<kMainList, kRecvList, envVars>>

DispatchDone ==
  /\ pc = "dispatch" /\ batch = {} /\ ~bHasaTimer
  /\ pc' = "process" /\ pass' = 2
  /\ UNCHANGED <<mgrVars, kernVars, envVars, batch, lsn, bHasaTimer, ev>>

-----------------------------------------------------------------------------
Init ==
  /\ MgrInit
  /\ kern = [fd \in Fds |-> Kernel("closed")]
  /\ reg  = [fd \in Fds |-> NotRegistered]
  /\ ready = {} /\ clock = 0 /\ timer = FALSE
  /\ pc = "app" /\ pass = 1 /\ batch = {} /\ lsn = 0
  /\ bHasaTimer = FALSE /\ ev = NoEvent

Program == \/ TCPListen \/ TCPClientConnected \/ TCPClientConnecting \/ OpenFails
           \/ \E i \in Slots : Send(i) \/ AppDisconnect(i)

Process(i) == \/ ProcessConnected(i) \/ ProcessConnectFailed(i) \/ ProcessDisconnect(i)
              \/ ProcessCommIdle(i) \/ ProcessSend(i)
              \/ ProcessRecv(i)

Dispatch(e, i) == DispatchListen(e, i) \/ DispatchConnecting(e, i) \/ DispatchActive(e, i)

(* The steps of SeNetCoreRead, the call included.                          *)
Read == \/ Call
        \/ \E i \in Slots : Process(i) \/ \E e \in batch : Dispatch(e, i)
        \/ ProcessDone \/ EpollWait \/ EpollNothing
        \/ Accept \/ AcceptFull \/ AcceptEnds
        \/ DispatchTimer \/ DispatchDone

Next == Program \/ Read \/ Environment

Spec == Init /\ [][Next]_vars

(* The program calls SeNetCoreRead in a loop and the thread is scheduled;  *)
(* the timerfd is periodic; the clock advances (up to its bound); the peer *)
(* of a connection reads what it is sent.  Nothing is assumed of the other *)
(* actions of the peers or of the program.                                 *)
Fairness == /\ WF_vars(Read) /\ WF_vars(TimerExpires) /\ WF_vars(ClockTick)
            /\ \A fd \in Fds : WF_vars(PeerDrains(fd))

FairSpec == Spec /\ Fairness

-----------------------------------------------------------------------------
(* Correctness.                                                            *)

TypeOK ==
  /\ MgrTypeOK
  /\ kern \in [Fds -> KernRecord] /\ reg \in [Fds -> RegRecord] /\ ready \subseteq Fds
  /\ clock \in 0 .. MaxClock /\ timer \in BOOLEAN
  /\ pc \in {"app", "process", "wait", "dispatch", "accept"} /\ pass \in {1, 2}
  /\ batch \subseteq EventRecord /\ lsn \in Slots /\ bHasaTimer \in BOOLEAN
  /\ ev \in [kind : EventKinds, h : Handles]

(* A slot that still has something to tell, or is to be freed, is on       *)
(* kSendList, the only list SeNetCoreProcess finds it by: no announcement, *)
(* failure or disconnection is lost, and no slot leaks.                    *)
NoStrandedSlot ==
  \A i \in Slots :
    sock[i].usStatus \in {"CONNECTED", "CONNECTED_FAILED", "DISCONNECT", "COMM_IDLE"}
      => i \in Members(kSendList)

(* SeNetCoreProcess never meets a slot in a state it calls an error        *)
(* ("State Error"), and its assertion that only an outgoing connection can *)
(* have failed to connect holds.                                           *)
SendListStates ==
  \A i \in Slots :
    /\ i \in Members(kSendList) => sock[i].usStatus \notin {"INIT", "CONNECTING"}
    /\ sock[i].usStatus \in {"CONNECTING", "CONNECTED_FAILED"} => sock[i].iTypeSocket = "CLIENT"

(* The slots whose descriptor the core holds open.                         *)
Owning == {i \in Slots : sock[i].usStatus \in {"CONNECTING", "CONNECTED", "ACTIVECONNECT"}}

(* Descriptors are closed exactly once: every open one belongs to one      *)
(* slot, and a slot that owns one has an open one.  A slot being reported  *)
(* as closed still carries the number of a descriptor that may be another  *)
(* connection's by now.                                                    *)
FdOwnership ==
  /\ \A i \in Owning : sock[i].kSocket \in Fds /\ kern[sock[i].kSocket].state # "closed"
  /\ \A i, j \in Owning : sock[i].kSocket = sock[j].kSocket => i = j
  /\ \A fd \in Fds : kern[fd].state # "closed" => \E i \in Owning : sock[i].kSocket = fd

(* What epoll watches is what the slot's state says: the handle it will    *)
(* return is the slot's, the interest is the one of the stage the          *)
(* connection is in, and EPOLLOUT is on exactly while FLAG says so.        *)
Interest(s) ==
  CASE s.usStatus = "CONNECTING"    -> {"connect", "spent"}
    [] s.usStatus = "CONNECTED"     -> {"none"}
    [] s.usStatus = "ACTIVECONNECT" ->
         IF s.iTypeSocket = "LISTEN" THEN {"listen"}
         ELSE IF HasEvent(s, "FLAG") THEN {"inout"} ELSE {"in"}

EpollConsistent ==
  /\ \A i \in Owning : LET r == reg[sock[i].kSocket] IN
       /\ r.interest \in Interest(sock[i])
       /\ r.interest # "none" => r.h = sock[i].kHSocket
  /\ \A fd \in Fds : kern[fd].state = "closed" => reg[fd] = NotRegistered /\ fd \notin ready

(* Every event of a batch still names the connection it was raised for     *)
(* when its turn comes, in a state in which that event is handled: the     *)
(* branches of SeNetCoreRead that drop an event ("socket not found",       *)
(* "state Error") are never taken, and a connect is never resolved by an   *)
(* event that says neither writable nor error ("no call here?").           *)
EventsCurrent ==
  \A e \in batch :
    /\ Found(e.h)
    /\ LET s == sock[IndexOf(e.h)] IN
       \/ s.iTypeSocket = "LISTEN" /\ s.usStatus = "ACTIVECONNECT"
       \/ s.iTypeSocket = "CLIENT" /\ s.usStatus = "CONNECTING" /\ (e.rev.bWrite \/ e.rev.bError)
       \/ IsConnection(s) /\ s.usStatus = "ACTIVECONNECT"

Active(i) == IsConnection(sock[i]) /\ sock[i].usStatus = "ACTIVECONNECT"

Pending(i) == {e.rev : e \in {x \in batch : x.h = sock[i].kHSocket}}

(* No lost wake-up on input.  Epoll is edge triggered: when the kernel     *)
(* holds bytes, an end of file or an error for an active connection, epoll *)
(* is going to report it, or already has in the current batch.             *)
NoStrandedInput ==
  \A i \in Slots : Active(i) /\ Readable(kern[sock[i].kSocket]) =>
    \/ sock[i].kSocket \in ready
    \/ \E r \in Pending(i) : r.bRead \/ r.bError

(* No lost wake-up on output.  Bytes queued on an active connection are    *)
(* going to be sent: the slot is on kSendList and believed writable, or    *)
(* epoll watches for room and there is none yet, or is about to tell.      *)
NoStrandedOutput ==
  \A i \in Slots : Active(i) /\ sock[i].send > 0 =>
    \/ HasEvent(sock[i], "WRITE") /\ i \in Members(kSendList)
    \/ /\ ~HasEvent(sock[i], "WRITE") /\ reg[sock[i].kSocket].interest = "inout"
       /\ \/ ~Writable(kern[sock[i].kSocket])
          \/ sock[i].kSocket \in ready
          \/ \E r \in Pending(i) : r.bWrite \/ r.bError

(* kRecvList is exact.  A whole frame received on an active connection is  *)
(* on it, even when several arrived together and only one is delivered per *)
(* call; and what SeNetCoreProcess pops from it is an active connection    *)
(* with a whole frame, so the branches that skip a slot are never taken: a *)
(* connection that was closed with frames unread has been reported and     *)
(* freed by then, which took it off the list.                              *)
RecvListExact ==
  /\ \A i \in Slots : Active(i) /\ CanRead(sock[i]) => i \in Members(kRecvList)
  /\ \A i \in Members(kRecvList) : CanRead(sock[i]) /\ (Active(i) \/ i \in Members(kSendList))

(* The caller's view: every connection's events come in the promised       *)
(* order, once each, under its own handle, and a handle names its slot     *)
(* until the call after its DISCONNECT: SeMagicNetSWork asserts as much of *)
(* the handles it is given.                                                *)
StageOf(i) ==
  LET s == sock[i] IN
  CASE s.usStatus = "INIT" -> "free"
    [] s.usStatus \in {"CONNECTING", "CONNECTED", "CONNECTED_FAILED"} -> "opening"
    [] s.usStatus = "ACTIVECONNECT" -> IF s.iTypeSocket = "LISTEN" THEN "listening" ELSE "open"
    [] s.usStatus = "DISCONNECT" -> "closing"
    [] s.usStatus = "COMM_IDLE" -> "closed"

Lifecycle == INSTANCE ConnLifecycle WITH
  Index    <- Slots,
  HandleOf <- Handle,
  Tick     <- 0 .. MaxClock,
  None     <- NoHandle,
  Nothing  <- NoEvent,
  conn     <- [i \in Slots |-> [stage |-> StageOf(i),
                                out |-> sock[i].iTypeSocket = "CLIENT",
                                h |-> sock[i].kHSocket]]

ImplementsLifecycle == Lifecycle!Spec

-----------------------------------------------------------------------------
(* Liveness, under Fairness.  A program that connects, disconnects and     *)
(* connects again between any two calls can keep SeNetCoreRead returning   *)
(* before it reaches epoll_wait, and peers that connect fast enough can    *)
(* keep it accepting; so the promises are to programs and peers that open  *)
(* connections only finitely often.                                        *)
NewConnection ==
  \/ \E i \in Slots : sock[i].usStatus = "INIT" /\ sock'[i].usStatus # "INIT"
  \/ \E fd \in Fds : kern'[fd].backlog > kern[fd].backlog

FinitelyManyOpens == <>[][~NewConnection]_vars

(* A connection that was closed, by either side or by the timer, is        *)
(* reported to the program and its slot becomes free again.                *)
ClosedIsReleased ==
  FinitelyManyOpens =>
    \A i \in Slots : sock[i].usStatus \in {"CONNECTED_FAILED", "DISCONNECT"}
                       ~> sock[i].usStatus = "INIT"

(* Bytes the kernel holds for an active connection are read, unless the    *)
(* connection is closed: no edge is missed.                                *)
InputIsRead ==
  FinitelyManyOpens =>
    \A i \in Slots : (Active(i) /\ kern[sock[i].kSocket].rcv > 0)
                       ~> (~Active(i) \/ kern[sock[i].kSocket].rcv = 0)

(* A frame received in full is handed to the program, unless the           *)
(* connection is closed first.                                             *)
FrameIsDelivered ==
  FinitelyManyOpens =>
    \A i \in Slots : (Active(i) /\ sock[i].recv >= FrameLen)
                       ~> (~Active(i) \/ ev = Event("RECV_DATA", sock[i].kHSocket))

(* The timer looks at one connection per expiry, yet reaches them all: one *)
(* that has been silent for its time-out is closed, or heard of again.     *)
SilentIsClosed ==
  FinitelyManyOpens => \A i \in Slots : Expired(sock[i]) ~> ~Expired(sock[i])

=============================================================================
