---------------------------- MODULE ConnLifecycle ----------------------------
(***************************************************************************)
(* What SeNetCoreRead promises the program that calls it, whatever the     *)
(* platform back end: for every connection one CONNECT, then any number of *)
(* RECV_DATA, then one DISCONNECT, or else a single CONNECT_FAILED, which  *)
(* only an outgoing connection can get.  A connection that was closed, by  *)
(* whichever side, gives no data any more, and no data of another one      *)
(* either is delivered before every close, and every accept, so far has    *)
(* been reported.  The handle of a connection keeps naming it until the    *)
(* call to SeNetCoreRead after its DISCONNECT.                             *)
(*                                                                         *)
(* conn[i] is what may be known of slot i: its stage, whether it is an     *)
(* outgoing connection, and its handle.  ev is the event the last call to  *)
(* SeNetCoreRead returned; Nothing while a call is being served.           *)
(***************************************************************************)
CONSTANTS Index,         \* slots
          HandleOf(_, _),\* the handle of a slot taken at a tick
          Tick,          \* ticks of the clock
          None,          \* no handle
          Nothing        \* no event returned yet

VARIABLES conn, ev

Free == [stage |-> "free", out |-> FALSE, h |-> None]

Stage(i, s) == [conn EXCEPT ![i].stage = s]

Event(kind, h) == [kind |-> kind, h |-> h]

Init == conn = [i \in Index |-> Free] /\ ev = Nothing

(* A connection, or a listener, comes into being: by a call of the         *)
(* program (TCPClient, TCPListen) or by an accept while a call is served.  *)
Open(i) ==
  /\ conn[i] = Free
  /\ \E t \in Tick, out \in BOOLEAN, s \in {"opening", "listening"} :
       conn' = [conn EXCEPT ![i] = [stage |-> s, out |-> out, h |-> HandleOf(i, t)]]
  /\ UNCHANGED ev

(* The program calls SeNetCoreRead, which forgets the event it returned.   *)
Call == ev # Nothing /\ ev' = Nothing /\ UNCHANGED conn

Connect(i) ==
  /\ conn[i].stage = "opening"
  /\ conn' = Stage(i, "open") /\ ev' = Event("CONNECT", conn[i].h)

ConnectFailed(i) ==
  /\ conn[i].stage = "opening" /\ conn[i].out
  /\ conn' = [conn EXCEPT ![i] = Free] /\ ev' = Event("CONNECT_FAILED", conn[i].h)

(* The connection is closed: by a call of the program, or while a call to  *)
(* SeNetCoreRead is served, by the peer, the timer or an error.            *)
Close(i) == conn[i].stage = "open" /\ conn' = Stage(i, "closing")

Reported(c) == /\ c.stage \notin {"closing", "closed"}
               /\ c.stage = "opening" => c.out

RecvData(i) ==
  /\ conn[i].stage = "open" /\ \A j \in Index : Reported(conn[j])
  /\ ev' = Event("RECV_DATA", conn[i].h) /\ UNCHANGED conn

Disconnected(i) ==
  /\ conn[i].stage = "closing"
  /\ conn' = Stage(i, "closed") /\ ev' = Event("DISCONNECT", conn[i].h)

Release(i) ==
  /\ conn[i].stage = "closed"
  /\ conn' = [conn EXCEPT ![i] = Free] /\ UNCHANGED ev

(* A call that has nothing to tell of any connection; the timer may have   *)
(* closed one.                                                             *)
Idle  == ev' = Event("IDLE", None) /\ UNCHANGED conn
Timer == ev' = Event("TIMER", None) /\ (UNCHANGED conn \/ \E i \in Index : Close(i))

Deliver(i) == Connect(i) \/ ConnectFailed(i) \/ RecvData(i) \/ Disconnected(i)

Next ==
  \/ Call
  \/ \E i \in Index : Open(i) \/ (Close(i) /\ UNCHANGED ev)
  \/ ev = Nothing /\ (Idle \/ Timer \/ \E i \in Index : Deliver(i) \/ Release(i))

Spec == Init /\ [][Next]_<<conn, ev>>

=============================================================================
