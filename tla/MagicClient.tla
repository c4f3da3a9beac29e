----------------------------- MODULE MagicClient -----------------------------
(***************************************************************************)
(* The side of a service in src/magicnet/SeMagicNet.c (SeMagicNetC...):    *)
(* SeMagicNetCReg connects to the gateway, waits in a loop of its own for  *)
(* the outcome, and registers; SeMagicNetCRead hands the program what the  *)
(* gateway sends, or tells it that the gateway is gone, after which it is  *)
(* to register again.  What the frames say is left out.                    *)
(*                                                                         *)
(* The network core is what ConnLifecycle promises, and NetCore implements *)
(* it.  `inside` is the function of SeMagicNet.c the program has called,   *)
(* and `work` says that an event it got has not been handled yet.          *)
(***************************************************************************)
EXTENDS Integers

CONSTANTS Slots,    \* slots of the core
          MaxTick,  \* bound: last tick of the clock
          NoHandle  \* the HSOCKET 0

ASSUME ClientAssumption == MaxTick \in Nat /\ NoHandle \notin Slots \X Nat

Ticks   == 0 .. MaxTick
Handles == Slots \X Ticks
NoEvent == [kind |-> "NONE", h |-> NoHandle]

VARIABLES conn, ev,    \* what the core did: see ConnLifecycle
          kHScoket,    \* the connection to the gateway, or NoHandle
          inside, work,
          registered   \* connections on which REG_SVR was sent

vars == <<conn, ev, kHScoket, inside, work, registered>>

Core == INSTANCE ConnLifecycle WITH
  Index <- Slots, HandleOf <- LAMBDA i, t : <<i, t>>, Tick <- Ticks,
  None <- NoHandle, Nothing <- NoEvent

-----------------------------------------------------------------------------
(* The program calls SeMagicNetCReg, and the loop begins.  While there is  *)
(* a connection, or when SeNetCoreTCPClient fails, for lack of a slot or   *)
(* otherwise, it returns at once and nothing changes.                      *)
RegFails == inside = "program" /\ kHScoket = NoHandle /\ UNCHANGED vars

RegOverOld(i) ==                                                  \* mutant
  /\ inside = "program" /\ Core!Open(i)
  /\ conn'[i].out /\ conn'[i].stage = "opening"
  /\ kHScoket' = conn'[i].h /\ inside' = "Reg" /\ UNCHANGED <<work, registered>>

RegConnects(i) ==
  /\ inside = "program" /\ kHScoket = NoHandle
  /\ Core!Open(i) /\ conn'[i].out /\ conn'[i].stage = "opening"
  /\ kHScoket' = conn'[i].h /\ inside' = "Reg"
  /\ UNCHANGED <<work, registered>>

(* The program calls SeMagicNetCRead; without a connection it returns at   *)
(* once (MAGIC_SHUTDOWN_SVR), and nothing changes.                         *)
Read == /\ inside = "program" /\ kHScoket # NoHandle /\ inside' = "Read"
        /\ UNCHANGED <<conn, ev, kHScoket, work, registered>>

-----------------------------------------------------------------------------
(* The core, in a call to SeNetCoreRead.                                   *)

clientVars == <<kHScoket, inside, registered>>

Reading == inside # "program" /\ ~work /\ ev = NoEvent

Call == inside # "program" /\ ~work /\ Core!Call /\ UNCHANGED <<clientVars, work>>

Closes(i)   == Reading /\ Core!Close(i) /\ UNCHANGED <<ev, clientVars, work>>
Releases(i) == Reading /\ Core!Release(i) /\ UNCHANGED <<clientVars, work>>

Returns ==
  /\ Reading /\ work' = TRUE /\ UNCHANGED clientVars
  /\ Core!Idle \/ Core!Timer \/ \E i \in Slots : Core!Deliver(i)

-----------------------------------------------------------------------------
(* The loop of SeMagicNetCReg, for each event.                             *)

Handling(f) == inside = f /\ work /\ work' = FALSE /\ UNCHANGED <<conn, ev>>

RegForgets ==                                                     \* mutant
  /\ Handling("Reg") /\ ev.kind = "CONNECT"
  /\ inside' = "program" /\ UNCHANGED <<kHScoket, registered>>

RegConnected ==
  /\ Handling("Reg") /\ ev.kind = "CONNECT"
  /\ registered' = registered \cup {kHScoket}
  /\ inside' = "program" /\ UNCHANGED kHScoket

RegRefused ==
  /\ Handling("Reg") /\ ev.kind \in {"CONNECT_FAILED", "DISCONNECT"}
  /\ kHScoket' = NoHandle /\ inside' = "program" /\ UNCHANGED registered

RegReturnsEarly ==                                                \* mutant
  /\ Handling("Reg") /\ ev.kind \notin {"CONNECT", "CONNECT_FAILED", "DISCONNECT"}
  /\ inside' = "program" /\ UNCHANGED <<kHScoket, registered>>

RegWaits ==
  /\ Handling("Reg") /\ ev.kind \notin {"CONNECT", "CONNECT_FAILED", "DISCONNECT"}
  /\ UNCHANGED clientVars

(* SeMagicNetCRead, after its call to SeNetCoreRead.                       *)
ReadGone ==
  /\ Handling("Read") /\ ev.kind = "DISCONNECT"
  /\ registered' = registered \ {kHScoket}
  /\ kHScoket' = NoHandle /\ inside' = "program"

ReadReturns ==
  /\ Handling("Read") /\ ev.kind # "DISCONNECT"
  /\ inside' = "program" /\ UNCHANGED <<kHScoket, registered>>

-----------------------------------------------------------------------------
Init == /\ Core!Init /\ kHScoket = NoHandle
        /\ inside = "program" /\ work = FALSE /\ registered = {}

Next == \/ RegFails \/ Read \/ Call \/ Returns
        \/ RegConnected \/ RegRefused \/ RegWaits \/ ReadGone \/ ReadReturns
        \/ \E i \in Slots : RegConnects(i) \/ Closes(i) \/ Releases(i)

Spec == Init /\ [][Next]_vars

-----------------------------------------------------------------------------
(* Correctness.                                                            *)

TypeOK ==
  /\ conn \in [Slots -> [stage : {"free", "opening", "open", "closing", "closed"},
                         out : BOOLEAN, h : Handles \cup {NoHandle}]]
  /\ ev.h \in Handles \cup {NoHandle}
  /\ kHScoket \in Handles \cup {NoHandle}
  /\ inside \in {"program", "Reg", "Read"} /\ work \in BOOLEAN
  /\ registered \subseteq Handles

(* The client never loses a connection it opened, and never has two: one   *)
(* that the core has not reported the end of is the one of kHScoket, which *)
(* is forgotten when that end is reported, and then only.                  *)
OneConnection ==
  /\ \A i \in Slots : conn[i].stage \in {"opening", "open", "closing"} => conn[i].h = kHScoket
  /\ kHScoket # NoHandle =>
       \/ \E i \in Slots : /\ conn[i].stage \in {"opening", "open", "closing"}
                           /\ conn[i].h = kHScoket
       \/ work /\ ev.h = kHScoket /\ ev.kind \in {"CONNECT_FAILED", "DISCONNECT"}

(* What the program gets from SeMagicNetCRead comes over a connection that *)
(* is registered: SeMagicNetCReg has said so, or found it so, even when    *)
(* the connection before was lost at any moment.                           *)
ReadIsRegistered ==
  inside = "Read" => kHScoket \in registered /\ registered = {kHScoket}

(* The assertions of SeMagicNetCRead: an event that is neither idle nor    *)
(* the timer's is of the connection to the gateway, and is never the       *)
(* outcome of connecting, which SeMagicNetCReg waits for ("no call here"). *)
ReadExpects ==
  inside = "Read" /\ work /\ ev.kind \notin {"IDLE", "TIMER"} =>
    ev.h = kHScoket /\ ev.kind \in {"DISCONNECT", "RECV_DATA"}

(* The assertion of SeMagicNetCReg: an event that is not idle is of the    *)
(* connection to the gateway.  It overlooks the timer's, which             *)
(* SeMagicNetCRead does not.                                               *)
RegExpects == inside = "Reg" /\ work /\ ev.kind # "IDLE" => ev.h = kHScoket

=============================================================================
