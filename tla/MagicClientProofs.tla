-------------------------- MODULE MagicClientProofs --------------------------
(***************************************************************************)
(* The safety of the service side for every number of slots and ticks, and *)
(* whatever the core does within ConnLifecycle.                            *)
(*                                                                         *)
(* What the program sees depends on where it stands: while SeMagicNetCReg  *)
(* waits there is one connection, still being opened; afterwards it is     *)
(* open, or closing, until its end is returned to SeMagicNetCRead.  That   *)
(* is what Inside adds to the properties.                                  *)
(***************************************************************************)
EXTENDS MagicClient, TLAPS

Live   == {"opening", "open", "closing"}
Quiet  == {"IDLE", "TIMER"}
Ends   == {"CONNECT_FAILED", "DISCONNECT"}

(* A slot in use has a handle with its index.                              *)
OwnHandle == \A i \in Slots : conn[i].stage # "free" => \E t \in Ticks : conn[i].h = <<i, t>>

Registers ==
  /\ kHScoket = NoHandle => inside = "program" /\ registered = {}
  /\ inside = "Reg" => registered = {}
  /\ inside # "Reg" /\ kHScoket # NoHandle => registered = {kHScoket}
  /\ inside = "program" => ~work

Waits ==
  /\ \A i \in Slots : conn[i].stage = "opening" =>
       inside = "Reg" /\ (work => ev.kind \in Quiet)
  /\ inside = "Reg" /\ (work => ev.kind \in Quiet) =>
       \E i \in Slots : conn[i].stage = "opening"

Events ==
  work => \/ ev.kind \in Quiet
          \/ /\ ev.h = kHScoket
             /\ inside = "Reg" => ev.kind \in {"CONNECT", "CONNECT_FAILED"}
             /\ inside = "Read" => ev.kind \in {"DISCONNECT", "RECV_DATA"}
             /\ ev.kind \in Ends => \A i \in Slots : conn[i].stage \notin Live

IInv == TypeOK /\ OneConnection /\ OwnHandle /\ Registers /\ Waits /\ Events

-----------------------------------------------------------------------------
(* Slots.                                                                  *)

LEMMA RealHandle ==
  ASSUME IInv, NEW i \in Slots, conn[i].stage # "free"
  PROVE  conn[i].h \in Handles /\ conn[i].h # NoHandle
<1>1. PICK t \in Ticks : conn[i].h = <<i, t>>
  BY DEF IInv, OwnHandle
<1>2. t \in Nat
  BY ClientAssumption DEF Ticks
<1>3. <<i, t>> \in Slots \X Ticks /\ <<i, t>> \in Slots \X Nat
  BY <1>2
<1>. QED  BY <1>1, <1>3, ClientAssumption DEF Handles

(* Two live connections would have the same handle, so there is one.       *)
LEMMA OneLive ==
  ASSUME IInv, NEW i \in Slots, NEW j \in Slots,
         conn[i].stage \in Live, conn[j].stage \in Live
  PROVE  i = j
<1>1. conn[i].h = conn[j].h
  BY DEF IInv, OneConnection, Live
<1>2. PICK t \in Ticks : conn[i].h = <<i, t>>
  BY DEF IInv, OwnHandle, Live
<1>3. PICK u \in Ticks : conn[j].h = <<j, u>>
  BY DEF IInv, OwnHandle, Live
<1>4. <<i, t>>[1] = i /\ <<j, u>>[1] = j
  OBVIOUS
<1>5. <<i, t>> = <<j, u>>
  BY <1>1, <1>2, <1>3, Zenon
<1>6. <<i, t>>[1] = <<j, u>>[1]
  BY <1>5, Zenon
<1>. QED  BY <1>4, <1>6, Zenon

(* Without a connection to forget there is none.                           *)
LEMMA NoneLive ==
  ASSUME IInv, kHScoket = NoHandle, NEW i \in Slots  PROVE conn[i].stage \notin Live
BY RealHandle DEF IInv, OneConnection, Live

(* A step of the core changes the stage of one slot, ...                   *)
LEMMA StageStep ==
  ASSUME IInv, NEW i \in Slots, NEW s \in {"open", "closing", "closed"},
         conn[i].stage # "free", conn' = Core!Stage(i, s)
  PROVE  /\ conn' \in [Slots -> [stage : {"free", "opening", "open", "closing", "closed"},
                                 out : BOOLEAN, h : Handles \cup {NoHandle}]]
         /\ OwnHandle'
         /\ conn'[i].stage = s
         /\ \A j \in Slots : conn'[j].h = conn[j].h
         /\ \A j \in Slots : j # i => conn'[j] = conn[j]
BY DEF IInv, TypeOK, OwnHandle, Core!Stage

(* ... or frees it.                                                        *)
LEMMA FreeStep ==
  ASSUME IInv, NEW i \in Slots, conn' = [conn EXCEPT ![i] = Core!Free]
  PROVE  /\ conn' \in [Slots -> [stage : {"free", "opening", "open", "closing", "closed"},
                                 out : BOOLEAN, h : Handles \cup {NoHandle}]]
         /\ OwnHandle'
         /\ conn'[i].stage = "free"
         /\ \A j \in Slots : j # i => conn'[j] = conn[j]
<1> DEFINE f == Core!Free
<1>1. /\ f \in [stage : {"free", "opening", "open", "closing", "closed"},
                 out : BOOLEAN, h : Handles \cup {NoHandle}]
      /\ f.stage = "free"
  BY DEF Core!Free
<1>2. conn' = [conn EXCEPT ![i] = f]
  OBVIOUS
<1> HIDE DEF f
<1>. QED  BY <1>1, <1>2 DEF IInv, TypeOK, OwnHandle

-----------------------------------------------------------------------------
(* The actions.                                                            *)

LEMMA RegConnectsOK == ASSUME IInv, NEW i \in Slots, RegConnects(i)  PROVE IInv'
<1>1. PICK t \in Ticks : /\ conn[i] = Core!Free
                         /\ conn' = [conn EXCEPT ![i] = [stage |-> "opening", out |-> TRUE, h |-> <<i, t>>]]
  <2>1. PICK t \in Ticks, out \in BOOLEAN, s \in {"opening", "listening"} :
          conn' = [conn EXCEPT ![i] = [stage |-> s, out |-> out, h |-> <<i, t>>]]
    BY DEF RegConnects, Core!Open
  <2>2. conn'[i] = [stage |-> s, out |-> out, h |-> <<i, t>>]
    BY <2>1 DEF IInv, TypeOK
  <2>3. s = "opening" /\ out = TRUE
    BY <2>2 DEF RegConnects
  <2>. QED  BY <2>1, <2>3 DEF RegConnects, Core!Open
<1> DEFINE c == [stage |-> "opening", out |-> TRUE, h |-> <<i, t>>]
<1>2. <<i, t>> \in Handles /\ <<i, t>> # NoHandle
  BY ClientAssumption DEF Handles, Ticks
<1>3. /\ conn'[i] = c /\ c.stage = "opening" /\ c.h = <<i, t>>
      /\ \A j \in Slots : j # i => conn'[j] = conn[j]
      /\ c \in [stage : {"free", "opening", "open", "closing", "closed"},
                 out : BOOLEAN, h : Handles \cup {NoHandle}]
  BY <1>1, <1>2 DEF IInv, TypeOK
<1>4. /\ ev' = ev /\ work' = work /\ ~work /\ registered = {} /\ registered' = {}
      /\ inside' = "Reg" /\ kHScoket' = <<i, t>> /\ kHScoket = NoHandle
  BY <1>3 DEF RegConnects, Core!Open, IInv, Registers
<1>5. \A j \in Slots : conn[j].stage \notin Live
  BY <1>4, NoneLive
<1>6. conn' = [conn EXCEPT ![i] = c]
  BY <1>1
<1> HIDE DEF c
<1>7. TypeOK'
  BY <1>2, <1>3, <1>4, <1>6 DEF IInv, TypeOK
<1>8. OneConnection'
  BY <1>3, <1>4, <1>5 DEF OneConnection, Live
<1>9. OwnHandle'
  BY <1>3 DEF IInv, OwnHandle
<1>10. Registers' /\ Events'
  BY <1>2, <1>4 DEF Registers, Events
<1>11. Waits'
  BY <1>3, <1>4, <1>5 DEF Waits, Live
<1>. QED  BY <1>7, <1>8, <1>9, <1>10, <1>11 DEF IInv

LEMMA ReadOK == ASSUME IInv, Read  PROVE IInv'
<1>1. /\ UNCHANGED <<conn, ev, kHScoket, work, registered>> /\ inside = "program"
      /\ inside' = "Read" /\ kHScoket # NoHandle /\ ~work
  BY DEF Read, IInv, Registers
<1>2. TypeOK' /\ OneConnection' /\ OwnHandle'
  BY <1>1 DEF IInv, TypeOK, OneConnection, OwnHandle
<1>3. Registers' /\ Waits' /\ Events'
  BY <1>1 DEF IInv, Registers, Waits, Events
<1>. QED  BY <1>2, <1>3 DEF IInv

LEMMA CallOK == ASSUME IInv, Call  PROVE IInv'
<1>1. /\ UNCHANGED <<conn, kHScoket, inside, registered, work>> /\ ~work
      /\ ev' = NoEvent
  BY DEF Call, clientVars, Core!Call
<1>2. ev'.h = NoHandle
  BY <1>1 DEF NoEvent
<1>3. TypeOK' /\ OneConnection' /\ OwnHandle'
  BY <1>1, <1>2 DEF IInv, TypeOK, OneConnection, OwnHandle
<1>4. Registers' /\ Waits' /\ Events'
  BY <1>1 DEF IInv, Registers, Waits, Events
<1>. QED  BY <1>3, <1>4 DEF IInv

(* While a call is served the program waits for an event.                  *)
LEMMA ReadingFacts ==
  ASSUME IInv, Reading
  PROVE  /\ ~work /\ kHScoket # NoHandle /\ inside \in {"Reg", "Read"}
         /\ inside = "Reg" => \A i \in Slots : conn[i].stage \notin {"open", "closing"}
         /\ inside = "Read" => \A i \in Slots : conn[i].stage # "opening"
<1>1. ~work /\ inside \in {"Reg", "Read"} /\ kHScoket # NoHandle
  BY DEF Reading, IInv, TypeOK, Registers
<1>2. ASSUME inside = "Reg", NEW i \in Slots, conn[i].stage \in {"open", "closing"}
      PROVE  FALSE
  <2>1. PICK j \in Slots : conn[j].stage = "opening"
    BY <1>1, <1>2 DEF IInv, Waits
  <2>. QED  BY <1>2, <2>1, OneLive DEF Live
<1>3. inside = "Read" => \A i \in Slots : conn[i].stage # "opening"
  BY DEF IInv, Waits
<1>. QED  BY <1>1, <1>2, <1>3

(* The core closes the connection, and no event tells of it yet.           *)
LEMMA CloseOK ==
  ASSUME IInv, Reading, NEW i \in Slots, Core!Close(i), UNCHANGED clientVars,
         ev'.h \in Handles \cup {NoHandle}, work' \in BOOLEAN, work' => ev'.kind \in Quiet
  PROVE  IInv'
<1>1. conn[i].stage = "open" /\ conn' = Core!Stage(i, "closing")
  BY DEF Core!Close
<1>2. /\ conn' \in [Slots -> [stage : {"free", "opening", "open", "closing", "closed"},
                             out : BOOLEAN, h : Handles \cup {NoHandle}]]
      /\ OwnHandle'
      /\ conn'[i].stage = "closing"
      /\ \A j \in Slots : conn'[j].h = conn[j].h
      /\ \A j \in Slots : j # i => conn'[j] = conn[j]
  BY <1>1, StageStep
<1>3. inside = "Read" /\ kHScoket # NoHandle /\ ~work
  BY <1>1, ReadingFacts
<1>4. TypeOK'
  BY <1>2 DEF IInv, TypeOK, clientVars
<1>5. OneConnection'
  BY <1>1, <1>2, <1>3 DEF IInv, OneConnection, clientVars
<1>6. Registers' /\ Waits' /\ Events'
  BY <1>1, <1>2, <1>3 DEF IInv, Registers, Waits, Events, clientVars
<1>. QED  BY <1>2, <1>4, <1>5, <1>6 DEF IInv

LEMMA ClosesOK == ASSUME IInv, NEW i \in Slots, Closes(i)  PROVE IInv'
<1>1. Reading /\ Core!Close(i) /\ UNCHANGED <<ev, work>> /\ UNCHANGED clientVars
  BY DEF Closes
<1>2. ~work' /\ work' \in BOOLEAN /\ ev'.h \in Handles \cup {NoHandle}
  BY <1>1 DEF Reading, IInv, TypeOK
<1>. QED  BY <1>1, <1>2, CloseOK

LEMMA ReleasesOK == ASSUME IInv, NEW i \in Slots, Releases(i)  PROVE IInv'
<1>1. /\ conn[i].stage = "closed" /\ conn' = [conn EXCEPT ![i] = Core!Free]
      /\ UNCHANGED <<ev, kHScoket, inside, registered, work>>
  BY DEF Releases, Core!Release, clientVars
<1>2. /\ conn' \in [Slots -> [stage : {"free", "opening", "open", "closing", "closed"},
                             out : BOOLEAN, h : Handles \cup {NoHandle}]]
      /\ OwnHandle'
      /\ conn'[i].stage = "free"
      /\ \A j \in Slots : j # i => conn'[j] = conn[j]
  BY <1>1, FreeStep
<1>3. TypeOK' /\ OneConnection'
  BY <1>1, <1>2 DEF IInv, TypeOK, OneConnection
<1>4. Registers' /\ Waits' /\ Events'
  BY <1>1, <1>2 DEF IInv, Registers, Waits, Events, Live
<1>. QED  BY <1>2, <1>3, <1>4 DEF IInv

(* What SeNetCoreRead returns of the connection.                           *)
LEMMA DeliverOK ==
  ASSUME IInv, Reading, NEW i \in Slots, Core!Deliver(i), UNCHANGED clientVars, work' = TRUE
  PROVE  IInv'
<1>1. /\ ~work /\ kHScoket # NoHandle /\ inside \in {"Reg", "Read"}
      /\ inside = "Reg" => \A j \in Slots : conn[j].stage \notin {"open", "closing"}
      /\ inside = "Read" => \A j \in Slots : conn[j].stage # "opening"
  BY ReadingFacts
<1>2. conn[i].stage \in Live => conn[i].h = kHScoket
  BY DEF IInv, OneConnection, Live
<1>3. UNCHANGED <<kHScoket, inside, registered>>
  BY DEF clientVars
<1>4. Registers'
  BY <1>1, <1>3 DEF IInv, Registers
<1>5. CASE Core!Connect(i)
  <2>1. /\ conn[i].stage = "opening" /\ conn' = Core!Stage(i, "open")
        /\ ev'.kind = "CONNECT" /\ ev'.h = conn[i].h
    BY <1>5 DEF Core!Connect, Core!Event
  <2>2. /\ conn' \in [Slots -> [stage : {"free", "opening", "open", "closing", "closed"},
                               out : BOOLEAN, h : Handles \cup {NoHandle}]]
        /\ OwnHandle'
        /\ conn'[i].stage = "open"
        /\ \A j \in Slots : conn'[j].h = conn[j].h
        /\ \A j \in Slots : j # i => conn'[j] = conn[j]
    BY <2>1, StageStep
  <2>3. inside = "Reg" /\ ev'.h = kHScoket /\ \A j \in Slots : conn[j].stage = "opening" => j = i
    BY <1>1, <1>2, <2>1, OneLive DEF Live
  <2>4. TypeOK' /\ OneConnection'
    BY <1>2, <1>3, <2>1, <2>2, <2>3 DEF IInv, TypeOK, OneConnection, Live
  <2>5. Waits' /\ Events'
    BY <1>3, <2>1, <2>2, <2>3 DEF Waits, Events, Ends, Quiet
  <2>. QED  BY <1>4, <2>2, <2>4, <2>5 DEF IInv
<1>6. CASE Core!ConnectFailed(i)
  <2>1. /\ conn[i].stage = "opening" /\ conn' = [conn EXCEPT ![i] = Core!Free]
        /\ ev'.kind = "CONNECT_FAILED" /\ ev'.h = conn[i].h
    BY <1>6 DEF Core!ConnectFailed, Core!Event
  <2>2. /\ conn' \in [Slots -> [stage : {"free", "opening", "open", "closing", "closed"},
                               out : BOOLEAN, h : Handles \cup {NoHandle}]]
        /\ OwnHandle'
        /\ conn'[i].stage = "free"
        /\ \A j \in Slots : j # i => conn'[j] = conn[j]
    BY <2>1, FreeStep
  <2>3. inside = "Reg" /\ ev'.h = kHScoket /\ \A j \in Slots : conn'[j].stage \notin Live
    BY <1>1, <1>2, <2>1, <2>2, OneLive DEF Live
  <2>4. TypeOK' /\ OneConnection'
    BY <1>3, <2>1, <2>2, <2>3 DEF IInv, TypeOK, OneConnection, Live
  <2>5. Waits' /\ Events'
    BY <1>3, <2>1, <2>3 DEF Waits, Events, Quiet, Live
  <2>. QED  BY <1>4, <2>2, <2>4, <2>5 DEF IInv
<1>7. CASE Core!RecvData(i)
  <2>1. conn[i].stage = "open" /\ conn' = conn /\ ev'.kind = "RECV_DATA" /\ ev'.h = conn[i].h
    BY <1>7 DEF Core!RecvData, Core!Event
  <2>2. inside = "Read" /\ ev'.h = kHScoket
    BY <1>1, <1>2, <2>1 DEF Live
  <2>3. TypeOK' /\ OneConnection' /\ OwnHandle'
    BY <1>3, <2>1, <2>2 DEF IInv, TypeOK, OneConnection, OwnHandle
  <2>4. Waits' /\ Events'
    BY <1>1, <1>3, <2>1, <2>2 DEF Waits, Events, Ends, Quiet
  <2>. QED  BY <1>4, <2>3, <2>4 DEF IInv
<1>8. CASE Core!Disconnected(i)
  <2>1. /\ conn[i].stage = "closing" /\ conn' = Core!Stage(i, "closed")
        /\ ev'.kind = "DISCONNECT" /\ ev'.h = conn[i].h
    BY <1>8 DEF Core!Disconnected, Core!Event
  <2>2. /\ conn' \in [Slots -> [stage : {"free", "opening", "open", "closing", "closed"},
                               out : BOOLEAN, h : Handles \cup {NoHandle}]]
        /\ OwnHandle'
        /\ conn'[i].stage = "closed"
        /\ \A j \in Slots : conn'[j].h = conn[j].h
        /\ \A j \in Slots : j # i => conn'[j] = conn[j]
    BY <2>1, StageStep
  <2>3. inside = "Read" /\ ev'.h = kHScoket /\ \A j \in Slots : conn'[j].stage \notin Live
    BY <1>1, <1>2, <2>1, <2>2, OneLive DEF Live
  <2>4. TypeOK' /\ OneConnection'
    BY <1>3, <2>1, <2>2, <2>3 DEF IInv, TypeOK, OneConnection, Live
  <2>5. Waits' /\ Events'
    BY <1>3, <2>1, <2>3 DEF Waits, Events, Quiet, Live
  <2>. QED  BY <1>4, <2>2, <2>4, <2>5 DEF IInv
<1>. QED  BY <1>5, <1>6, <1>7, <1>8 DEF Core!Deliver

LEMMA ReturnsOK == ASSUME IInv, Returns  PROVE IInv'
<1>1. Reading /\ work' = TRUE /\ UNCHANGED clientVars
  BY DEF Returns
<1>2. CASE conn' = conn /\ ev'.kind \in Quiet /\ ev'.h = NoHandle
  <2>1. ~work /\ UNCHANGED <<kHScoket, inside, registered>> /\ inside # "program"
    BY <1>1 DEF Reading, clientVars
  <2>2. TypeOK' /\ OneConnection' /\ OwnHandle'
    BY <1>1, <1>2, <2>1 DEF IInv, TypeOK, OneConnection, OwnHandle
  <2>3. Registers' /\ Waits' /\ Events'
    BY <1>1, <1>2, <2>1 DEF IInv, Registers, Waits, Events
  <2>. QED  BY <2>2, <2>3 DEF IInv
<1>3. CASE Core!Idle
  BY <1>2, <1>3 DEF Core!Idle, Core!Event, Quiet
<1>4. CASE Core!Timer
  <2>1. ev'.kind \in Quiet /\ ev'.h = NoHandle
    BY <1>4 DEF Core!Timer, Core!Event, Quiet
  <2>2. CASE conn' = conn
    BY <1>2, <2>1, <2>2
  <2>3. CASE \E i \in Slots : Core!Close(i)
    BY <1>1, <2>1, <2>3, CloseOK
  <2>. QED  BY <1>4, <2>2, <2>3 DEF Core!Timer
<1>5. CASE \E i \in Slots : Core!Deliver(i)
  BY <1>1, <1>5, DeliverOK
<1>. QED  BY <1>3, <1>4, <1>5 DEF Returns

LEMMA RegConnectedOK == ASSUME IInv, RegConnected  PROVE IInv'
<1>1. /\ inside = "Reg" /\ work /\ ~work' /\ work' \in BOOLEAN /\ UNCHANGED <<conn, ev, kHScoket>>
      /\ ev.kind = "CONNECT" /\ registered' = registered \cup {kHScoket} /\ inside' = "program"
  BY DEF RegConnected, Handling
<1>2. registered = {} /\ kHScoket # NoHandle /\ kHScoket \in Handles
  BY <1>1 DEF IInv, Registers, TypeOK
<1>3. \A i \in Slots : conn[i].stage # "opening"
  BY <1>1 DEF IInv, Waits, Quiet
<1>4. TypeOK' /\ OwnHandle'
  BY <1>1, <1>2 DEF IInv, TypeOK, OwnHandle
<1>5. OneConnection'
  <2>1. ev.kind \notin Ends
    BY <1>1 DEF Ends
  <2>. QED  BY <1>1, <1>2, <2>1 DEF IInv, OneConnection, Ends
<1>6. Registers' /\ Waits' /\ Events'
  BY <1>1, <1>2, <1>3 DEF Registers, Waits, Events
<1>. QED  BY <1>4, <1>5, <1>6 DEF IInv

(* The end of the connection is returned to the function the program is in,*)
(* which forgets it.                                                       *)
LEMMA ForgottenOK ==
  ASSUME IInv, work, ev.kind \in Ends, UNCHANGED <<conn, ev>>, work' = FALSE,
         kHScoket' = NoHandle, inside' = "program", registered' = {}
  PROVE  IInv'
<1>1. \A i \in Slots : conn[i].stage \notin Live
  BY DEF IInv, Events, Ends, Quiet
<1>2. TypeOK' /\ OwnHandle' /\ OneConnection'
  BY <1>1 DEF IInv, TypeOK, OwnHandle, OneConnection, Live
<1>3. Registers' /\ Waits' /\ Events'
  BY <1>1 DEF Registers, Waits, Events, Live
<1>. QED  BY <1>2, <1>3 DEF IInv

LEMMA RegRefusedOK == ASSUME IInv, RegRefused  PROVE IInv'
<1>1. registered = {}
  BY DEF RegRefused, Handling, IInv, Registers
<1>. QED  BY <1>1, ForgottenOK DEF RegRefused, Handling, Ends

LEMMA ReadGoneOK == ASSUME IInv, ReadGone  PROVE IInv'
<1>1. registered \ {kHScoket} = {}
  BY DEF ReadGone, Handling, IInv, Registers
<1>. QED  BY <1>1, ForgottenOK DEF ReadGone, Handling, Ends

LEMMA RegWaitsOK == ASSUME IInv, RegWaits  PROVE IInv'
<1>1. /\ inside = "Reg" /\ work /\ ~work' /\ work' \in BOOLEAN
      /\ UNCHANGED <<conn, ev, kHScoket, inside, registered>>
      /\ ev.kind \notin {"CONNECT", "CONNECT_FAILED", "DISCONNECT"}
  BY DEF RegWaits, Handling, clientVars
<1>2. ev.kind \in Quiet
  BY <1>1 DEF IInv, Events
<1>3. TypeOK' /\ OwnHandle' /\ OneConnection'
  BY <1>1 DEF IInv, TypeOK, OwnHandle, OneConnection
<1>4. Registers' /\ Waits' /\ Events'
  BY <1>1, <1>2 DEF IInv, Registers, Waits, Events
<1>. QED  BY <1>3, <1>4 DEF IInv

LEMMA ReadReturnsOK == ASSUME IInv, ReadReturns  PROVE IInv'
<1>1. /\ inside = "Read" /\ inside' = "program" /\ work /\ ~work' /\ work' \in BOOLEAN
      /\ UNCHANGED <<conn, ev, kHScoket, registered>> /\ ev.kind # "DISCONNECT"
  BY DEF ReadReturns, Handling
<1>2. ev.kind \notin Ends
  BY <1>1 DEF IInv, Events, Ends, Quiet
<1>3. TypeOK' /\ OwnHandle' /\ OneConnection'
  BY <1>1, <1>2 DEF IInv, TypeOK, OwnHandle, OneConnection, Ends
<1>4. Registers' /\ Waits' /\ Events'
  BY <1>1 DEF IInv, Registers, Waits, Events
<1>. QED  BY <1>3, <1>4 DEF IInv

-----------------------------------------------------------------------------
(* The theorems.                                                           *)

LEMMA InitOK == Init => IInv
<1> SUFFICES ASSUME Init  PROVE IInv
  OBVIOUS
<1>1. /\ conn = [i \in Slots |-> Core!Free] /\ ev.h = NoHandle /\ kHScoket = NoHandle
      /\ inside = "program" /\ work = FALSE /\ registered = {}
  BY DEF Init, Core!Init, NoEvent
<1>2. /\ Core!Free \in [stage : {"free", "opening", "open", "closing", "closed"},
                         out : BOOLEAN, h : Handles \cup {NoHandle}]
      /\ Core!Free.stage = "free"
  BY DEF Core!Free
<1>3. TypeOK
  BY <1>1, <1>2 DEF TypeOK
<1>4. \A i \in Slots : conn[i].stage = "free"
  BY <1>1, <1>2
<1>5. OneConnection /\ OwnHandle
  BY <1>1, <1>4 DEF OneConnection, OwnHandle
<1>6. Registers /\ Waits /\ Events
  BY <1>1, <1>4 DEF Registers, Waits, Events
<1>. QED  BY <1>3, <1>5, <1>6 DEF IInv

LEMMA StepOK == IInv /\ [Next]_vars => IInv'
<1> SUFFICES ASSUME IInv, [Next]_vars  PROVE IInv'
  OBVIOUS
<1>1. CASE UNCHANGED vars
  <2>1. TypeOK' /\ OneConnection' /\ OwnHandle'
    BY <1>1 DEF vars, IInv, TypeOK, OneConnection, OwnHandle
  <2>2. Registers' /\ Waits' /\ Events'
    BY <1>1 DEF vars, IInv, Registers, Waits, Events
  <2>. QED  BY <2>1, <2>2 DEF IInv
<1>2. CASE Next
  <2>1. CASE RegFails
    BY <1>1, <2>1 DEF RegFails
  <2>2. CASE Read \/ Call \/ Returns
    BY <2>2, ReadOK, CallOK, ReturnsOK
  <2>3. CASE RegConnected \/ RegRefused \/ RegWaits
    BY <2>3, RegConnectedOK, RegRefusedOK, RegWaitsOK
  <2>4. CASE ReadGone \/ ReadReturns
    BY <2>4, ReadGoneOK, ReadReturnsOK
  <2>5. CASE \E i \in Slots : RegConnects(i) \/ Closes(i) \/ Releases(i)
    BY <2>5, RegConnectsOK, ClosesOK, ReleasesOK
  <2>. QED  BY <1>2, <2>1, <2>2, <2>3, <2>4, <2>5 DEF Next
<1>. QED  BY <1>1, <1>2

(* The inductive invariant holds, with any number of slots.                *)
THEOREM Invariance == Spec => []IInv
BY InitOK, StepOK, PTL DEF Spec

(* SeMagicNetCReg and SeMagicNetCRead neither lose a connection nor hold   *)
(* two.                                                                    *)
THEOREM NeverTwo == Spec => []OneConnection
<1>1. IInv => OneConnection
  BY DEF IInv
<1>. QED  BY <1>1, Invariance, PTL

(* SeMagicNetCRead reads over the registered connection only.              *)
THEOREM ReadsRegistered == Spec => []ReadIsRegistered
<1>1. IInv => ReadIsRegistered
  BY DEF IInv, Registers, ReadIsRegistered
<1>. QED  BY <1>1, Invariance, PTL

(* The assertions of SeMagicNetCRead hold.                                 *)
THEOREM ReadAsserts == Spec => []ReadExpects
<1>1. IInv => ReadExpects
  BY DEF IInv, Events, ReadExpects, Quiet
<1>. QED  BY <1>1, Invariance, PTL

=============================================================================
