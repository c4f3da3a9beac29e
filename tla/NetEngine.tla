------------------------------ MODULE NetEngine ------------------------------
(***************************************************************************)
(* The C++ objects over the core: SeNetEngine (src/cpp/SeNetEngine.cpp),   *)
(* its servers (SeServer.cpp) and the clients that connect again after a   *)
(* delay that grows with every failure (SeClient.cpp).                     *)
(*                                                                         *)
(* The network core is what ConnLifecycle promises, and NetCore implements *)
(* it.  SeNetEngine::Run calls SeNetCoreRead, finds the object the event   *)
(* is for and calls it back; `work` says that the event has not been       *)
(* handled yet.  Every callback to the program is the last thing its       *)
(* handler does, so that what a program does in one is what it does next,  *)
(* before the next call of Run.  Time is counted in iReConnectDelayTime.   *)
(***************************************************************************)
EXTENDS Integers, Sequences, SequencesExt

CONSTANTS Slots,          \* slots of the core
          MaxTick,        \* bound: last tick of the clock in a handle
          NoHandle,       \* the HSOCKET 0
          Clients, Servers, \* SeClient and SeServer objects
          Nobody,         \* what a map has of a handle it does not hold
          ReConnectCount  \* iReConnectCount

ASSUME EngineAssumption ==
  /\ MaxTick \in Nat /\ NoHandle \notin Slots \X Nat /\ ReConnectCount \in Nat
  /\ Nobody \notin Clients \cup Servers /\ Clients \cap Servers = {}

Ticks   == 0 .. MaxTick
Handles == Slots \X Ticks

VARIABLES conn, ev,        \* what the core did: see ConnLifecycle
          belong,          \* kBelongListenHSocket of each slot
          m_kClient, m_kListen,          \* SeNetEngine: objects by handle
          m_kClientList,                 \* ... and the clients to update
          m_bUsed, m_bOnConnect,         \* IClient, IServer
          m_kHSocket, m_iReConnectNum,   \* SeClient
          wait,            \* m_ullReConnectTime less the time, at least 0
          inRun, work,
          called,          \* the last callback, and for which object
          peers            \* connections a server was told of, and not the end

coreVars   == <<conn, ev, belong>>
engineVars == <<m_kClient, m_kListen, m_kClientList, m_bUsed, m_bOnConnect>>
clientVars == <<m_kHSocket, m_iReConnectNum, wait>>
runVars    == <<inRun, work>>
hearVars   == <<called, peers>>
vars       == <<coreVars, engineVars, clientVars, runVars, hearVars>>

NoEvent == [kind |-> "NONE", h |-> NoHandle]

Core == INSTANCE ConnLifecycle WITH
  Index <- Slots, HandleOf <- LAMBDA i, t : <<i, t>>, Tick <- Ticks,
  None <- NoHandle, Nothing <- NoEvent

Callback(o, f) == [object |-> o, f |-> f]

-----------------------------------------------------------------------------
(* SeClient::OnConnectFailed and OnDisConnect: the next attempt has to     *)
(* wait, one unit longer each time; after ReConnectCount failures in a row *)
(* it is made at once, and the count begins again.                         *)
Longer(n) == IF n + 1 > ReConnectCount THEN 0 ELSE n + 1

KeepHandle(c, f) ==                                               \* mutant
  /\ m_iReConnectNum' = [m_iReConnectNum EXCEPT ![c] = Longer(@)]
  /\ wait' = [wait EXCEPT ![c] = m_iReConnectNum'[c]]
  /\ called' = Callback(c, f) /\ UNCHANGED m_kHSocket
BackOff(c, f) ==
  /\ m_iReConnectNum' = [m_iReConnectNum EXCEPT ![c] = Longer(@)]
  /\ wait' = [wait EXCEPT ![c] = m_iReConnectNum'[c]]
  /\ m_kHSocket' = [m_kHSocket EXCEPT ![c] = NoHandle]
  /\ called' = Callback(c, f)

(* SeClient::Connect acts only without a connection and after the delay.   *)
MayConnect(c) == ~inRun /\ m_kHSocket[c] = NoHandle /\ wait[c] = 0

ConnectStarts(c, i) ==
  /\ MayConnect(c) /\ ~m_bUsed[c]
  /\ Core!Open(i) /\ conn'[i].stage = "opening" /\ conn'[i].out
  /\ belong' = [belong EXCEPT ![i] = NoHandle]
  /\ m_kHSocket' = [m_kHSocket EXCEPT ![c] = conn'[i].h]
  /\ m_bUsed' = [m_bUsed EXCEPT ![c] = TRUE]
  /\ m_kClient' = [m_kClient EXCEPT ![conn'[i].h] = c]
  /\ m_kClientList' = Append(m_kClientList, c)
  /\ UNCHANGED <<m_kListen, m_bOnConnect, m_iReConnectNum, wait, runVars, hearVars>>

(* AddTCPClient returns 0: the object is in use, or the core refuses.      *)
ConnectRefused(c) ==
  /\ MayConnect(c) /\ BackOff(c, "OnConnectFailed")
  /\ UNCHANGED <<coreVars, engineVars, runVars, peers>>

Connect(c) == ConnectRefused(c) \/ \E i \in Slots : ConnectStarts(c, i)

(* SeServer::Listen.  A failed one changes nothing.                        *)
Listen(s, i) ==
  /\ ~inRun /\ ~m_bUsed[s]
  /\ Core!Open(i) /\ conn'[i].stage = "listening" /\ ~conn'[i].out
  /\ m_kListen' = [m_kListen EXCEPT ![conn'[i].h] = s]
  /\ m_bUsed' = [m_bUsed EXCEPT ![s] = TRUE]
  /\ belong' = [belong EXCEPT ![i] = NoHandle]
  /\ UNCHANGED <<m_kClient, m_kClientList, m_bOnConnect, clientVars, runVars, hearVars>>

(* DisConnect of a client, or of a server's connection.  One that was not  *)
(* announced yet is no step here: SeNetCoreDisconnect ignores it, or, when *)
(* it is still connecting, makes it fail, which shows in CONNECT_FAILED.   *)
DisConnect(i) ==
  /\ ~inRun
  /\ \/ \E c \in Clients : m_kHSocket[c] = conn[i].h
     \/ \E s \in Servers : conn[i].h \in peers[s]
  /\ Core!Close(i) /\ UNCHANGED ev
  /\ UNCHANGED <<belong, engineVars, clientVars, runVars, hearVars>>

-----------------------------------------------------------------------------
(* SeNetEngine::Run, in its call to SeNetCoreRead.                         *)

Run ==
  /\ ~inRun /\ inRun' = TRUE
  /\ IF ev = NoEvent THEN UNCHANGED <<conn, ev>> ELSE Core!Call
  /\ UNCHANGED <<belong, work, engineVars, clientVars, hearVars>>

Reading == inRun /\ ~work /\ ev = NoEvent

Accepts(i) ==
  /\ Reading /\ Core!Open(i) /\ conn'[i].stage = "opening" /\ ~conn'[i].out
  /\ \E j \in Slots : /\ conn[j].stage = "listening"
                      /\ belong' = [belong EXCEPT ![i] = conn[j].h]
  /\ UNCHANGED <<engineVars, clientVars, runVars, hearVars>>

Closes(i) ==
  /\ Reading /\ Core!Close(i)
  /\ UNCHANGED <<ev, belong, engineVars, clientVars, runVars, hearVars>>

Releases(i) ==
  /\ Reading /\ Core!Release(i)
  /\ UNCHANGED <<belong, engineVars, clientVars, runVars, hearVars>>

Returns ==
  /\ Reading /\ work' = TRUE
  /\ Core!Idle \/ Core!Timer \/ \E i \in Slots : Core!Deliver(i)
  /\ UNCHANGED <<belong, engineVars, clientVars, inRun, hearVars>>

-----------------------------------------------------------------------------
(* Run handles the event.                                                  *)

Handling(kinds) ==
  /\ work /\ ev.kind \in kinds
  /\ work' = FALSE /\ inRun' = FALSE /\ UNCHANGED coreVars

(* ... of a client: one it finds by the handle...                          *)
ToClient(c, kinds) == Handling(kinds) /\ m_kClient[ev.h] = c /\ UNCHANGED <<m_kListen, peers>>

ClientConnect(c) ==
  /\ ToClient(c, {"CONNECT"})
  /\ m_bOnConnect' = [m_bOnConnect EXCEPT ![c] = TRUE]
  /\ m_iReConnectNum' = [m_iReConnectNum EXCEPT ![c] = 0]
  /\ wait' = [wait EXCEPT ![c] = 0]
  /\ called' = Callback(c, "OnConnect")
  /\ UNCHANGED <<m_kClient, m_kClientList, m_bUsed, m_kHSocket>>

ClientRecv(c) ==
  /\ ToClient(c, {"RECV_DATA"})
  /\ called' = Callback(c, "OnRecv")
  /\ UNCHANGED <<m_kClient, m_kClientList, m_bUsed, m_bOnConnect, clientVars>>

(* DelClientToList takes the first place of the client out of the list.    *)
Places(c) == {k \in DOMAIN m_kClientList : m_kClientList[k] = c}

DelClientToList(c) ==
  m_kClientList' = IF Places(c) = {} THEN m_kClientList
                   ELSE RemoveAt(m_kClientList,
                          CHOOSE k \in Places(c) : \A m \in Places(c) : k <= m)

(* ... and one whose connection is gone is taken out of everything before  *)
(* it is called, so that it may connect again from the callback.           *)
ForgetInMap(c) ==                                                 \* mutant
  /\ DelClientToList(c)
  /\ m_bUsed' = [m_bUsed EXCEPT ![c] = FALSE]
  /\ m_bOnConnect' = [m_bOnConnect EXCEPT ![c] = FALSE]
  /\ UNCHANGED m_kClient
ForgetInList(c) ==                                                \* mutant
  /\ m_kClient' = [m_kClient EXCEPT ![ev.h] = Nobody]
  /\ m_bUsed' = [m_bUsed EXCEPT ![c] = FALSE]
  /\ m_bOnConnect' = [m_bOnConnect EXCEPT ![c] = FALSE]
  /\ UNCHANGED m_kClientList
Forget(c) ==
  /\ DelClientToList(c)
  /\ m_kClient' = [m_kClient EXCEPT ![ev.h] = Nobody]
  /\ m_bUsed' = [m_bUsed EXCEPT ![c] = FALSE]
  /\ m_bOnConnect' = [m_bOnConnect EXCEPT ![c] = FALSE]

ClientConnectFailed(c) ==
  /\ ToClient(c, {"CONNECT_FAILED"}) /\ Forget(c) /\ BackOff(c, "OnConnectFailed")
ClientDisConnect(c) ==
  /\ ToClient(c, {"DISCONNECT"}) /\ Forget(c) /\ BackOff(c, "OnDisConnect")

(* ... or of a server: the one whose listener accepted the connection.     *)
AnyListener(h) == CHOOSE l \in Handles : m_kListen[l] # Nobody    \* mutant
ListenerOf(h)  == belong[h[1]]

ToServer(s, kinds) ==
  /\ Handling(kinds) /\ m_kClient[ev.h] = Nobody
  /\ ListenerOf(ev.h) # NoHandle /\ m_kListen[ListenerOf(ev.h)] = s
  /\ UNCHANGED <<engineVars, clientVars>>

ServerConnect(s) ==
  /\ ToServer(s, {"CONNECT"})
  /\ called' = Callback(s, "OnConnect")
  /\ peers' = [peers EXCEPT ![s] = @ \cup {ev.h}]

ServerDisConnect(s) ==
  /\ ToServer(s, {"DISCONNECT"})
  /\ called' = Callback(s, "OnDisConnect")
  /\ peers' = [peers EXCEPT ![s] = @ \ {ev.h}]

ServerRecv(s) ==
  /\ ToServer(s, {"RECV_DATA"})
  /\ called' = Callback(s, "OnRecv") /\ UNCHANGED peers

(* The timer's event makes every object's OnUpdate run.                    *)
Update ==
  /\ Handling({"IDLE", "TIMER"})
  /\ UNCHANGED <<engineVars, clientVars, hearVars>>

TimePasses ==
  /\ \E c \in Clients : wait[c] > 0
  /\ wait' = [c \in Clients |-> IF wait[c] > 0 THEN wait[c] - 1 ELSE 0]
  /\ UNCHANGED <<coreVars, engineVars, m_kHSocket, m_iReConnectNum, runVars, hearVars>>

-----------------------------------------------------------------------------
Init ==
  /\ Core!Init /\ belong = [i \in Slots |-> NoHandle]
  /\ m_kClient = [h \in Handles |-> Nobody] /\ m_kListen = [h \in Handles |-> Nobody]
  /\ m_kClientList = <<>>
  /\ m_bUsed = [o \in Clients \cup Servers |-> FALSE]
  /\ m_bOnConnect = [c \in Clients |-> FALSE]
  /\ m_kHSocket = [c \in Clients |-> NoHandle]
  /\ m_iReConnectNum = [c \in Clients |-> 0] /\ wait = [c \in Clients |-> 0]
  /\ inRun = FALSE /\ work = FALSE
  /\ called = Callback(Nobody, "nothing") /\ peers = [s \in Servers |-> {}]

Handle ==
  \/ \E c \in Clients : \/ ClientConnect(c) \/ ClientRecv(c)
                        \/ ClientConnectFailed(c) \/ ClientDisConnect(c)
  \/ \E s \in Servers : ServerConnect(s) \/ ServerDisConnect(s) \/ ServerRecv(s)
  \/ Update

Next ==
  \/ \E c \in Clients : Connect(c)
  \/ \E i \in Slots : DisConnect(i) \/ Accepts(i) \/ Closes(i) \/ Releases(i)
  \/ \E s \in Servers, i \in Slots : Listen(s, i)
  \/ Run \/ Returns \/ Handle \/ TimePasses

Spec == Init /\ [][Next]_vars

(* StartEngine calls Run in a loop, and SeNetCoreRead returns; a program   *)
(* that wants its clients connected calls Connect every time it is given   *)
(* the chance, which is at every event of the timer; time passes.          *)
Fairness == /\ WF_vars(Run) /\ WF_vars(Returns) /\ WF_vars(Handle) /\ WF_vars(TimePasses)
            /\ \A c \in Clients : SF_vars(Connect(c))

FairSpec == Spec /\ Fairness

-----------------------------------------------------------------------------
(* Correctness.                                                            *)

(* The event that ends this connection has been returned, and is next.     *)
Ending(h) == work /\ ev.h = h /\ ev.kind \in {"CONNECT_FAILED", "DISCONNECT"}

(* The five places that say what a client is doing agree: it is in use, it *)
(* has a handle, the map finds it by that handle and by no other, the list *)
(* of clients to update has it once, and the core has an outgoing          *)
(* connection with that handle, whose end is not reported yet.  Otherwise  *)
(* a client is updated twice, never connects again, or gets the events of  *)
(* a connection that took over its old handle.                             *)
ObjectsAgree ==
  \A c \in Clients :
    LET h == m_kHSocket[c] IN
    /\ m_bUsed[c] <=> h # NoHandle
    /\ {x \in Handles : m_kClient[x] = c} = {h} \ {NoHandle}
    /\ Places(c) = {} <=> ~m_bUsed[c]
    /\ \A k, m \in Places(c) : k = m
    /\ h # NoHandle => \/ Ending(h)
                       \/ \E i \in Slots : /\ conn[i].h = h /\ conn[i].out
                                           /\ conn[i].stage \in {"opening", "open", "closing"}

(* Every connection the core has is somebody's: the outgoing ones of one   *)
(* client each, which is told of its end; the accepted ones of the server  *)
(* whose listener they came to, which knows exactly those announced.       *)
Announced(i) ==
  LET c == conn[i]
      Now(kind) == work /\ ev = [kind |-> kind, h |-> c.h]
  IN \/ c.stage \in {"open", "closing"} /\ ~Now("CONNECT")
     \/ c.stage = "closed" /\ Now("DISCONNECT")

NobodyForgotten ==
  /\ \A i \in Slots : conn[i].out /\ conn[i].stage \in {"opening", "open", "closing"} =>
       \E c \in Clients : m_kHSocket[c] = conn[i].h
  /\ \A s \in Servers :
       peers[s] = {conn[i].h : i \in {j \in Slots : ~conn[j].out /\ Announced(j)
                                                    /\ m_kListen[belong[j]] = s}}

(* Callbacks come in an order an object can rely on: OnConnect, OnRecv any *)
(* number of times, OnDisConnect, or OnConnectFailed alone; for a server   *)
(* so for each connection.  No object is called for one that is not its.   *)
InOrder(o, f) ==
  IF o \in Clients
    THEN m_bUsed[o] /\ (m_bOnConnect[o] <=> f \in {"OnRecv", "OnDisConnect"})
    ELSE f = "OnConnect" <=> ev.h \notin peers[o]

CallbacksInOrder ==
  [][work /\ ~work' /\ ev.kind \notin {"IDLE", "TIMER"} =>
       /\ called'.object # Nobody
       /\ InOrder(called'.object, called'.f)]_vars

(* A client without a connection keeps trying: the delay ends, whatever    *)
(* the way the last connection ended, and nothing left of that connection  *)
(* stands in the way.                                                      *)
ConnectsAgain ==
  \A c \in Clients : []<>m_bUsed[c] \/ []<><<ConnectRefused(c)>>_vars

=============================================================================
