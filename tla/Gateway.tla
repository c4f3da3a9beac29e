------------------------------- MODULE Gateway -------------------------------
(***************************************************************************)
(* The gateway of src/magicnet/SeMagicNet.c (SeMagicNetS...): one core     *)
(* with two listeners.  Clients connect to the outer one; services connect *)
(* to the inner one and register by name.  The service with the name       *)
(* Watchdog is told of every client and gets its data until it binds the   *)
(* client to another service.                                              *)
(*                                                                         *)
(* The network core is what ConnLifecycle promises, and NetCore implements *)
(* it.  SeMagicNetSWork calls SeNetCoreRead and handles the event that it  *)
(* returns; `work` says that the event has not been handled yet.  Inside a *)
(* handler no connection changes but by a call of the handler.             *)
(***************************************************************************)
EXTENDS Integers, Sequences, SequencesExt, FiniteSets

CONSTANTS Slots,      \* as many as usMax of SeMagicNetSInit, less the listeners
          MaxTick,    \* bound: last tick of the clock
          NoHandle,   \* the HSOCKET 0
          Services,   \* names services register with
          Watchdog    \* acWatchdogName

Unbound == ""   \* no name: of a client that no service has been bound to

ASSUME GatewayAssumption ==
  /\ IsFiniteSet(Slots) /\ MaxTick \in Nat /\ NoHandle \notin Slots \X Nat
  /\ Watchdog \in Services /\ Unbound \notin Services

Ticks   == 0 .. MaxTick
Handles == Slots \X Ticks

VARIABLES conn, ev,      \* what the core did: see ConnLifecycle
          belong,        \* kBelongListenHSocket of each slot
          acBindSvrName, \* of each slot
          kRegSvrList,   \* registered services, the latest first
          work,
          sent,          \* messages about clients sent by the last handler
          told           \* told[s][c]: what the service on slot s knows of
                         \* the client on slot c

vars == <<conn, ev, belong, acBindSvrName, kRegSvrList, work, sent, told>>

NoEvent == [kind |-> "NONE", h |-> NoHandle]

Core == INSTANCE ConnLifecycle WITH
  Index <- Slots, HandleOf <- LAMBDA i, t : <<i, t>>, Tick <- Ticks,
  None <- NoHandle, Nothing <- NoEvent

-----------------------------------------------------------------------------
(* Registered services: SeGetRegSvrNodeBySvrName and ...BySocket.          *)

Node(n, h) == [acName |-> n, kHSocket |-> h]

Registered(n)   == \E k \in DOMAIN kRegSvrList : kRegSvrList[k].acName = n
RegisteredAt(h) == \E k \in DOMAIN kRegSvrList : kRegSvrList[k].kHSocket = h
SocketOf(n) ==
  kRegSvrList[CHOOSE k \in DOMAIN kRegSvrList :
    kRegSvrList[k].acName = n /\ \A m \in 1 .. k - 1 : kRegSvrList[m].acName # n].kHSocket

(* SeDelRegSvrNode: the first node with this handle goes.                  *)
WithoutLast(h) == IF kRegSvrList = <<>> THEN <<>> ELSE Front(kRegSvrList)  \* mutant
Without(h) ==
  IF RegisteredAt(h)
    THEN RemoveAt(kRegSvrList,
           CHOOSE k \in DOMAIN kRegSvrList :
             /\ kRegSvrList[k].kHSocket = h
             /\ \A m \in 1 .. k - 1 : kRegSvrList[m].kHSocket # h)
    ELSE kRegSvrList

(* SeNetCoreGetSocket finds the slot that has this handle.                 *)
Holds(i, h) == conn[i].h = h /\ conn[i].stage \notin {"free", "listening"}

(* SeNetCoreSend accepts data for an active connection only.               *)
CanSend(h) == \E i \in Slots : Holds(i, h) /\ conn[i].stage = "open"

-----------------------------------------------------------------------------
(* Frames a service sends: the command, and what it names.  `ok`: iBufLen  *)
(* agrees with the length of the frame.  NoFrame is one that is ignored,   *)
(* being shorter than a SECOMMONDATA, or ACTIVE.                           *)

Frame(iProco, h, n, ok) == [iProco |-> iProco, kHSocket |-> h, acName |-> n, ok |-> ok]

NoFrame == Frame("ACTIVE", NoHandle, Unbound, TRUE)

CloseFrames == {Frame("CLOSE_CLIENT", h, Unbound, TRUE) : h \in Handles}

Frames ==
  {Frame("REG_SVR", NoHandle, n, TRUE) : n \in Services}
    \cup {Frame("BIND_CLIENT", h, n, TRUE) : h \in Handles, n \in Services}
    \cup CloseFrames
    \cup {Frame("SENDTO_CLIENT", h, Unbound, TRUE) : h \in Handles}
    \cup {Frame(k, NoHandle, Unbound, FALSE) : k \in {"REG_SVR", "SENDTO_CLIENT", "SENDTO_SVR"}}
    \cup {NoFrame}

-----------------------------------------------------------------------------
(* Handlers.  `ev` is being handled, for slot i of that listener.          *)

Handling(i, listener) ==
  /\ work /\ work' = FALSE /\ ev.h = conn[i].h /\ belong[i] = listener
  /\ UNCHANGED <<ev, belong>>

Msg(kind, h, c) == [kind |-> kind, to |-> h[1], client |-> c]

(* What services know once these messages reached them.                    *)
Says(msgs, kind, s, c) == \E m \in msgs : m.kind = kind /\ m.to = s /\ m.client = c

Learning(msgs) ==
  [s \in Slots |-> [c \in Slots |->
     IF Says(msgs, "CONNECT", s, c) THEN "here"
     ELSE IF Says(msgs, "DISCONNECT", s, c) THEN "gone" ELSE told[s][c]]]

(* These messages about clients go out; one to a connection that is being  *)
(* closed is lost.                                                         *)
Sending(msgs) ==
  /\ sent' = {m \in msgs : conn[m.to].stage = "open"}
  /\ told' = Learning(sent')

SendingNothing == sent' = {} /\ UNCHANGED told

(* SeNetCoreDisconnect of the connection with handle h, if there is one    *)
(* and it is open.                                                         *)
Disconnect(h) ==
  IF CanSend(h) THEN \E i \in Slots : Holds(i, h) /\ Core!Close(i) ELSE UNCHANGED conn

(* Any event of a client while there is no watchdog.                       *)
ClientRefused(c) ==
  /\ Handling(c, "out") /\ ~Registered(Watchdog)
  /\ Disconnect(conn[c].h) /\ SendingNothing
  /\ UNCHANGED <<acBindSvrName, kRegSvrList>>

ClientEvent(c, kind) ==
  /\ Handling(c, "out") /\ Registered(Watchdog) /\ ev.kind = kind
  /\ UNCHANGED <<conn, kRegSvrList>>

ClientConnectKeepsName(c) ==                                      \* mutant
  /\ ClientEvent(c, "CONNECT")
  /\ Sending({Msg("CONNECT", SocketOf(Watchdog), c)}) /\ UNCHANGED acBindSvrName

ClientConnect(c) ==
  /\ ClientEvent(c, "CONNECT")
  /\ Sending({Msg("CONNECT", SocketOf(Watchdog), c)})
  /\ acBindSvrName' = [acBindSvrName EXCEPT ![c] = Unbound]

(* The service the client is bound to, if it is registered.                *)
BoundTo(c) == IF Registered(acBindSvrName[c]) THEN {SocketOf(acBindSvrName[c])} ELSE {}

ClientDisconnectWatchdogOnly(c) ==                                \* mutant
  /\ ClientEvent(c, "DISCONNECT")
  /\ Sending({Msg("DISCONNECT", SocketOf(Watchdog), c)})
  /\ acBindSvrName' = [acBindSvrName EXCEPT ![c] = Unbound]

ClientDisconnect(c) ==
  /\ ClientEvent(c, "DISCONNECT")
  /\ Sending({Msg("DISCONNECT", h, c) : h \in BoundTo(c) \cup {SocketOf(Watchdog)}})
  /\ acBindSvrName' = [acBindSvrName EXCEPT ![c] = Unbound]

ClientData(c) ==
  /\ ClientEvent(c, "RECV_DATA")
  /\ Sending({Msg("DATA", h, c) :
                h \in IF BoundTo(c) # {} THEN BoundTo(c) ELSE {SocketOf(Watchdog)}})
  /\ UNCHANGED acBindSvrName

(* A service connects: nothing happens until it registers.                 *)
ServiceConnect(s) ==
  /\ Handling(s, "in") /\ ev.kind = "CONNECT"
  /\ SendingNothing /\ UNCHANGED <<conn, acBindSvrName, kRegSvrList>>

(* A close carries no frame, yet the code goes on to look at the buffer:   *)
(* if what is left there, of earlier frames, clients' data among them, or  *)
(* because it was not written yet, reads as a CLOSE_CLIENT, it is obeyed.  *)
CloseClient(h) == IF RegisteredAt(h) THEN UNCHANGED conn ELSE Disconnect(h)

ServiceDisconnect(s, left) ==
  /\ Handling(s, "in") /\ ev.kind = "DISCONNECT"
  /\ kRegSvrList' = Without(conn[s].h)
  /\ IF \/ left = NoFrame
        \/ \E k \in DOMAIN kRegSvrList' : kRegSvrList'[k].kHSocket = left.kHSocket
       THEN UNCHANGED conn ELSE Disconnect(left.kHSocket)
  /\ SendingNothing /\ UNCHANGED acBindSvrName

(* A frame f of a service.                                                 *)
ServiceFrame(s, f, iProco) ==
  /\ Handling(s, "in") /\ ev.kind = "RECV_DATA" /\ f.iProco = iProco

(* A name, and a socket, registers once; whoever comes second is closed.   *)
(* Clients an earlier service of this name knew are inherited.             *)
RegSvr(s, f) ==
  LET h == conn[s].h
      n == f.acName
      inherited(c) == /\ belong[c] = "out" /\ conn[c].stage = "open"
                      /\ n \in {Watchdog, acBindSvrName[c]}
  IN
  /\ ServiceFrame(s, f, "REG_SVR")
  /\ IF f.ok /\ ~RegisteredAt(h) /\ ~Registered(n)
       THEN /\ kRegSvrList' = <<Node(n, h)>> \o kRegSvrList
            /\ told' = [told EXCEPT ![s] =
                          [c \in Slots |-> IF inherited(c) THEN "inherited" ELSE "none"]]
            /\ UNCHANGED conn
       ELSE Disconnect(h) /\ UNCHANGED <<kRegSvrList, told>>
  /\ sent' = {} /\ UNCHANGED acBindSvrName

(* An active client that is not bound is bound to a registered service     *)
(* that is not the watchdog, and announced to it.                          *)
CanRebind(c, f) ==                                                \* mutant
  /\ Holds(c, f.kHSocket) /\ conn[c].stage = "open" /\ belong[c] = "out"
  /\ f.acName # Watchdog /\ Registered(f.acName) /\ ~RegisteredAt(conn[c].h)

CanBind(c, f) ==
  /\ Holds(c, f.kHSocket) /\ conn[c].stage = "open" /\ belong[c] = "out"
  /\ f.acName # Watchdog /\ Registered(f.acName) /\ ~RegisteredAt(conn[c].h)
  /\ acBindSvrName[c] = Unbound

BindClientForgets(s, f) ==                                        \* mutant
  /\ ServiceFrame(s, f, "BIND_CLIENT")
  /\ IF \E c \in Slots : CanBind(c, f)
       THEN \E c \in Slots : /\ CanBind(c, f)
                            /\ Sending({Msg("CONNECT", SocketOf(f.acName), c)})
       ELSE SendingNothing
  /\ UNCHANGED <<conn, acBindSvrName, kRegSvrList>>

BindClient(s, f) ==
  /\ ServiceFrame(s, f, "BIND_CLIENT")
  /\ IF \E c \in Slots : CanBind(c, f)
       THEN \E c \in Slots :
              /\ CanBind(c, f)
              /\ acBindSvrName' = [acBindSvrName EXCEPT ![c] = f.acName]
              /\ Sending({Msg("CONNECT", SocketOf(f.acName), c)})
       ELSE SendingNothing /\ UNCHANGED acBindSvrName
  /\ UNCHANGED <<conn, kRegSvrList>>

CloseClientFrame(s, f) ==
  /\ ServiceFrame(s, f, "CLOSE_CLIENT")
  /\ CloseClient(f.kHSocket)
  /\ SendingNothing /\ UNCHANGED <<acBindSvrName, kRegSvrList>>

(* Data from a service.  One that is not registered, or that sends while   *)
(* there is no watchdog, is closed; so is one that sends to a service as   *)
(* if that were a client.  SENDTO_SVR stands for GATE_STAT too, which goes *)
(* to the watchdog.                                                        *)
MaySend(s) == Registered(Watchdog) /\ RegisteredAt(conn[s].h)

SendToClient(s, f) ==
  /\ ServiceFrame(s, f, "SENDTO_CLIENT")
  /\ IF ~MaySend(s) \/ (f.ok /\ RegisteredAt(f.kHSocket))
       THEN Disconnect(conn[s].h) ELSE UNCHANGED conn
  /\ SendingNothing /\ UNCHANGED <<acBindSvrName, kRegSvrList>>

SendToSvr(s, f) ==
  /\ ServiceFrame(s, f, "SENDTO_SVR")
  /\ IF MaySend(s) THEN UNCHANGED conn ELSE Disconnect(conn[s].h)
  /\ SendingNothing /\ UNCHANGED <<acBindSvrName, kRegSvrList>>

ServiceActive(s, f) ==
  /\ ServiceFrame(s, f, "ACTIVE")
  /\ SendingNothing /\ UNCHANGED <<conn, acBindSvrName, kRegSvrList>>

OnClient(c) == ClientRefused(c) \/ ClientConnect(c) \/ ClientDisconnect(c) \/ ClientData(c)

OnService(s) ==
  \/ ServiceConnect(s)
  \/ \E left \in CloseFrames \cup {NoFrame} : ServiceDisconnect(s, left)
  \/ \E f \in Frames :
       \/ RegSvr(s, f) \/ BindClient(s, f) \/ CloseClientFrame(s, f)
       \/ SendToClient(s, f) \/ SendToSvr(s, f) \/ ServiceActive(s, f)

-----------------------------------------------------------------------------
(* The core, while SeNetCoreRead runs.                                     *)

handlerVars == <<belong, acBindSvrName, kRegSvrList, told>>

Reading == ~work /\ ev = NoEvent

(* SeMagicNetSWork calls SeNetCoreRead.                                    *)
Call == ~work /\ Core!Call /\ sent' = {} /\ UNCHANGED <<handlerVars, work>>

(* A connection is accepted, in a slot of which only acBindSvrName is      *)
(* left from its previous use.                                             *)
Accept(i) ==
  /\ Reading /\ Core!Open(i)
  /\ conn'[i].stage = "opening" /\ ~conn'[i].out
  /\ \E listener \in {"in", "out"} : belong' = [belong EXCEPT ![i] = listener]
  /\ UNCHANGED <<acBindSvrName, kRegSvrList, told, work, sent>>

Closes(i) ==
  /\ Reading /\ Core!Close(i)
  /\ UNCHANGED <<ev, handlerVars, work, sent>>

Releases(i) ==
  /\ Reading /\ Core!Release(i)
  /\ belong' = [belong EXCEPT ![i] = "none"]
  /\ told' = [s \in Slots |-> [c \in Slots |-> IF i \in {s, c} THEN "none" ELSE told[s][c]]]
  /\ UNCHANGED <<acBindSvrName, kRegSvrList, work, sent>>

(* An event of slot i is returned.                                         *)
Returns(i) ==
  /\ Reading /\ work' = TRUE
  /\ Core!Connect(i) \/ Core!RecvData(i) \/ Core!Disconnected(i)
  /\ UNCHANGED <<handlerVars, sent>>

(* A timer event, or an idle one, has no listener and is not handled.      *)
ReturnsNothing ==
  /\ Reading /\ (Core!Idle \/ Core!Timer)
  /\ UNCHANGED <<handlerVars, work, sent>>

-----------------------------------------------------------------------------
Init ==
  /\ Core!Init
  /\ belong = [i \in Slots |-> "none"]
  /\ acBindSvrName \in [Slots -> Services \cup {Unbound}]
  /\ kRegSvrList = <<>> /\ work = FALSE /\ sent = {}
  /\ told = [s \in Slots |-> [c \in Slots |-> "none"]]

Next == \/ Call \/ ReturnsNothing
        \/ \E i \in Slots : \/ Accept(i) \/ Closes(i) \/ Releases(i) \/ Returns(i)
                            \/ OnClient(i) \/ OnService(i)

Spec == Init /\ [][Next]_vars

-----------------------------------------------------------------------------
(* Correctness.                                                            *)

TypeOK ==
  /\ conn \in [Slots -> [stage : {"free", "opening", "open", "closing", "closed"},
                         out : {FALSE}, h : Handles \cup {NoHandle}]]
  /\ ev \in [kind : {"NONE", "CONNECT", "RECV_DATA", "DISCONNECT", "TIMER", "IDLE"},
             h : Handles \cup {NoHandle}]
  /\ belong \in [Slots -> {"none", "in", "out"}]
  /\ acBindSvrName \in [Slots -> Services \cup {Unbound}]
  /\ kRegSvrList \in Seq([acName : Services, kHSocket : Handles])
  /\ work \in BOOLEAN
  /\ told \in [Slots -> [Slots -> {"none", "inherited", "here", "gone"}]]

(* The list of services names each name and each connection once, and a    *)
(* connection it names is a service's that the core still knows: a message *)
(* to a service never reaches a client, or another service that came to    *)
(* use the slot.                                                           *)
RegistrySound ==
  /\ \A k, m \in DOMAIN kRegSvrList :
       k # m => /\ kRegSvrList[k].acName # kRegSvrList[m].acName
                /\ kRegSvrList[k].kHSocket # kRegSvrList[m].kHSocket
  /\ \A k \in DOMAIN kRegSvrList :
       \E s \in Slots : /\ Holds(s, kRegSvrList[k].kHSocket) /\ belong[s] = "in"
                        /\ conn[s].stage = "closed" => work

(* A service hears of a client in order: that it is there, then its data,  *)
(* then that it is gone, and nothing more.  Only of a client that a        *)
(* service of its name knew before it, it is not told that it is there.    *)
Knows(s, c) == told[s][c] \in {"here", "inherited"}

HeardInOrder ==
  [][\A m \in sent' : IF m.kind = "CONNECT" THEN told[m.to][m.client] = "none"
                                            ELSE Knows(m.to, m.client)]_vars

(* When a client is gone, no service still believes it is there, unless    *)
(* there is no watchdog at that moment.                                    *)
Handled(kind, c) == work /\ ~work' /\ ev.kind = kind /\ ev.h = conn[c].h /\ belong[c] = "out"

GoneIsTold ==
  [][\A c \in Slots : Handled("DISCONNECT", c) /\ Registered(Watchdog) =>
       \A s \in Slots : conn[s].stage = "open" /\ RegisteredAt(conn[s].h) => ~Knows(s, c)']_vars

(* A client that some registered service may be written to about, is bound *)
(* to it: what a service other than the watchdog knows and what the        *)
(* gateway routes by agree.                                                *)
BindingKnown ==
  \A c, s \in Slots :
    (conn[c].stage = "open" /\ conn[s].stage = "open" /\ Knows(s, c)) =>
      \E k \in DOMAIN kRegSvrList :
        /\ kRegSvrList[k].kHSocket = conn[s].h
        /\ kRegSvrList[k].acName \in {Watchdog, acBindSvrName[c]}

=============================================================================
