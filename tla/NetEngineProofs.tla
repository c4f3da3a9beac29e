---------------------------- MODULE NetEngineProofs ----------------------------
(***************************************************************************)
(* The safety of the engine's objects for every number of slots, ticks,    *)
(* clients and servers, and whatever the core does within ConnLifecycle.   *)
(*                                                                         *)
(* Handles come back: a slot that is taken again within one tick of the    *)
(* clock has the handle it had.  The invariant says why none of the places *)
(* that hold one is ever stale: a handle is held exactly as long as the    *)
(* end of its connection has not been handled, and until then the core     *)
(* does not give the slot away.                                            *)
(*                                                                         *)
(* The other part of the C++ layer with a state of its own is SeTimer.     *)
(* Engine and timers share no variable and no action; the second part of   *)
(* the module is about the specification TimerSpec alone.                  *)
(***************************************************************************)
EXTENDS NetEngine, SeTimer, SequenceTheorems, WellFoundedInduction, TLAPS

ConnRecord ==
  [stage : {"free", "opening", "listening", "open", "closing", "closed"},
   out : BOOLEAN, h : Handles \cup {NoHandle}]

EventRecord ==
  [kind : {"NONE", "IDLE", "TIMER", "CONNECT", "CONNECT_FAILED", "RECV_DATA", "DISCONNECT"},
   h : Handles \cup {NoHandle}]

TypeOK ==
  /\ conn \in [Slots -> ConnRecord] /\ ev \in EventRecord
  /\ belong \in [Slots -> Handles \cup {NoHandle}]
  /\ m_kClient \in [Handles -> Clients \cup {Nobody}]
  /\ m_kListen \in [Handles -> Servers \cup {Nobody}]
  /\ m_kClientList \in Seq(Clients)
  /\ m_bUsed \in [Clients \cup Servers -> BOOLEAN] /\ m_bOnConnect \in [Clients -> BOOLEAN]
  /\ m_kHSocket \in [Clients -> Handles \cup {NoHandle}]
  /\ m_iReConnectNum \in [Clients -> 0 .. ReConnectCount]
  /\ wait \in [Clients -> 0 .. ReConnectCount]
  /\ inRun \in BOOLEAN /\ work \in BOOLEAN
  /\ peers \in [Servers -> SUBSET Handles]

(* What Run has in hand is about the connection h, and of this kind.       *)
Now(kind, h) == work /\ ev = [kind |-> kind, h |-> h]

(* A connection whose end Run has not handled yet.                         *)
Lives(i) == \/ conn[i].stage \in {"opening", "open", "closing"}
            \/ conn[i].stage = "closed" /\ Now("DISCONNECT", conn[i].h)

SlotsOK ==
  \A i \in Slots :
    /\ conn[i].stage = "free" => conn[i] = Core!Free
    /\ conn[i].stage # "free" => \E t \in Ticks : conn[i].h = <<i, t>>

(* The event in hand and the stage of its connection.  A connection that   *)
(* failed has left its slot, and its handle is nobody else's yet.          *)
EventOK ==
  work =>
    /\ inRun /\ ev.kind # "NONE"
    /\ ev.kind \in {"CONNECT", "RECV_DATA"} => \E i \in Slots : conn[i].h = ev.h /\ conn[i].stage = "open"
    /\ ev.kind = "DISCONNECT" => \E i \in Slots : conn[i].h = ev.h /\ conn[i].stage = "closed"
    /\ ev.kind = "CONNECT_FAILED" => ev.h \in Handles /\ \A i \in Slots : conn[i].h # ev.h

(* The places of the engine that know a client.                            *)
MapsOK ==
  \A c \in Clients :
    /\ m_bUsed[c] <=> m_kHSocket[c] # NoHandle
    /\ \A h \in Handles : m_kClient[h] = c <=> m_kHSocket[c] = h
    /\ Places(c) = {} <=> ~m_bUsed[c]
    /\ \A k, m \in Places(c) : k = m

(* A client's handle is that of an outgoing connection whose end it has    *)
(* not been told, and m_bOnConnect says whether it was told of its start.  *)
HeldOK ==
  \A c \in Clients : m_kHSocket[c] # NoHandle =>
    \/ Now("CONNECT_FAILED", m_kHSocket[c])
    \/ \E i \in Slots : conn[i].h = m_kHSocket[c] /\ conn[i].out /\ Lives(i)

OnConnectOK ==
  \A c \in Clients :
    m_bOnConnect[c] <=> \E i \in Slots : conn[i].h = m_kHSocket[c] /\ Announced(i)

OutgoingOK ==
  \A i \in Slots : Lives(i) /\ conn[i].out => \E c \in Clients : m_kHSocket[c] = conn[i].h

(* A listener is never given up, and so every accepted connection can be   *)
(* traced to its server.                                                   *)
ListenersOK ==
  \A i \in Slots : conn[i].stage = "listening" => m_kListen[conn[i].h] \in Servers

AcceptedOK ==
  \A i \in Slots : Lives(i) /\ ~conn[i].out =>
    \E l \in Slots : conn[l].stage = "listening" /\ belong[i] = conn[l].h

PeersOK ==
  \A s \in Servers, h \in Handles :
    h \in peers[s] <=> \E i \in Slots : /\ conn[i].h = h /\ ~conn[i].out /\ Announced(i)
                                        /\ m_kListen[belong[i]] = s

Agreement == /\ MapsOK /\ HeldOK /\ OnConnectOK /\ OutgoingOK
             /\ ListenersOK /\ AcceptedOK /\ PeersOK

IInv == TypeOK /\ SlotsOK /\ EventOK /\ Agreement

-----------------------------------------------------------------------------
(* The list of clients.                                                    *)

(* A list without the element at one position.                             *)
LEMMA RemoveAtList ==
  ASSUME NEW S, NEW l \in Seq(S), NEW k \in 1 .. Len(l)
  PROVE  /\ RemoveAt(l, k) \in Seq(S) /\ Len(RemoveAt(l, k)) = Len(l) - 1
         /\ \A n \in 1 .. Len(l) - 1 :
              RemoveAt(l, k)[n] = IF n < k THEN l[n] ELSE l[n + 1]
<1> DEFINE a == SubSeq(l, 1, k - 1)
           b == SubSeq(l, k + 1, Len(l))
           m == a \o b
<1>1. Len(l) \in Nat /\ DOMAIN l = 1 .. Len(l) /\ \A n \in 1 .. Len(l) : l[n] \in S
  BY LenProperties, ElementOfSeq
<1>2. /\ a \in Seq(S) /\ Len(a) = k - 1
      /\ \A n \in 1 .. k - 1 : a[n] = l[n]
  BY <1>1, SubSeqProperties
<1>3. /\ b \in Seq(S)
      /\ Len(b) = IF k + 1 <= Len(l) THEN Len(l) - (k + 1) + 1 ELSE 0
      /\ \A n \in 1 .. Len(l) - (k + 1) + 1 : b[n] = l[k + 1 + n - 1]
  <2>1. k + 1 \in Int /\ Len(l) \in Int /\ \A n \in k + 1 .. Len(l) : l[n] \in S
    BY <1>1
  <2>. QED  BY <2>1, SubSeqProperties
<1> HIDE DEF a, b
<1>4. Len(b) = Len(l) - k
  <2>1. Len(b) = IF k + 1 <= Len(l) THEN Len(l) - (k + 1) + 1 ELSE 0
    BY <1>3
  <2>2. k \in Int /\ Len(l) \in Int /\ k <= Len(l)
    BY <1>1
  <2>. QED  BY <2>1, <2>2
<1>5. ASSUME NEW n \in 1 .. Len(l) - k  PROVE b[n] = l[n + k]
  <2>1. n \in 1 .. Len(l) - (k + 1) + 1 /\ k + 1 + n - 1 = n + k
    BY <1>1
  <2>. QED  BY <2>1, <1>3
<1>6. /\ m \in Seq(S) /\ Len(m) = Len(a) + Len(b)
      /\ \A n \in 1 .. Len(a) + Len(b) : m[n] = IF n <= Len(a) THEN a[n] ELSE b[n - Len(a)]
  BY <1>2, <1>3, ConcatProperties
<1> HIDE DEF m
<1>7. Len(a) + Len(b) = Len(l) - 1
  BY <1>1, <1>2, <1>4
<1>8. ASSUME NEW n \in 1 .. Len(l) - 1, n < k  PROVE m[n] = l[n]
  BY <1>2, <1>6, <1>7, <1>8
<1>9. ASSUME NEW n \in 1 .. Len(l) - 1, ~(n < k)  PROVE m[n] = l[n + 1]
  <2>1. m[n] = b[n - (k - 1)]
    BY <1>1, <1>2, <1>6, <1>7, <1>9
  <2>2. n - (k - 1) \in 1 .. Len(l) - k /\ n - (k - 1) + k = n + 1
    BY <1>1, <1>9
  <2>. QED  BY <2>1, <2>2, <1>5
<1>10. RemoveAt(l, k) = m
  BY DEF RemoveAt, m, a, b
<1>. QED  BY <1>6, <1>7, <1>8, <1>9, <1>10

LEMMA ListType ==
  ASSUME TypeOK
  PROVE  /\ Len(m_kClientList) \in Nat /\ DOMAIN m_kClientList = 1 .. Len(m_kClientList)
         /\ \A k \in DOMAIN m_kClientList : m_kClientList[k] \in Clients
<1>1. m_kClientList \in Seq(Clients)
  BY DEF TypeOK
<1>. QED  BY <1>1, LenProperties, ElementOfSeq

(* push_back: the client has one place, and the others keep theirs.        *)
LEMMA AddClientToList ==
  ASSUME TypeOK, NEW c \in Clients, Places(c) = {}, m_kClientList' = Append(m_kClientList, c)
  PROVE  /\ m_kClientList' \in Seq(Clients)
         /\ \E k : Places(c)' = {k}
         /\ \A d \in Clients : d # c => Places(d)' = Places(d)
<1> DEFINE l == m_kClientList
           n == Len(l) + 1
<1>1. l \in Seq(Clients) /\ Len(l) \in Nat /\ DOMAIN l = 1 .. Len(l)
  BY ListType DEF TypeOK
<1>2. /\ l' \in Seq(Clients) /\ DOMAIN l' = 1 .. n
      /\ \A k \in 1 .. Len(l) : l'[k] = l[k]
      /\ l'[n] = c
  <2>1. /\ Append(l, c) \in Seq(Clients) /\ Len(Append(l, c)) = Len(l) + 1
        /\ \A k \in 1 .. Len(l) : Append(l, c)[k] = l[k]
        /\ Append(l, c)[Len(l) + 1] = c
    BY <1>1, AppendProperties
  <2>. QED  BY <2>1, LenProperties
<1>3. Places(c)' = {n}
  BY <1>1, <1>2 DEF Places
<1>4. ASSUME NEW d \in Clients, d # c  PROVE Places(d)' = Places(d)
  BY <1>1, <1>2, <1>4 DEF Places
<1>. QED  BY <1>2, <1>3, <1>4

(* DelClientToList: the client, which is in the list once, is in it no     *)
(* more, and the others are as often as before.                            *)
LEMMA DelClientOfList ==
  ASSUME TypeOK, NEW c \in Clients, Places(c) # {}, DelClientToList(c),
         \A d \in Clients : \A k, m \in Places(d) : k = m
  PROVE  /\ m_kClientList' \in Seq(Clients)
         /\ Places(c)' = {}
         /\ \A d \in Clients : d # c => (Places(d)' = {} <=> Places(d) = {})
         /\ \A d \in Clients : \A k, m \in Places(d)' : k = m
<1> DEFINE l == m_kClientList
           j == CHOOSE k \in Places(c) : \A m \in Places(c) : k <= m
           r == RemoveAt(l, j)
           at(n) == IF n < j THEN n ELSE n + 1
<1>1. l \in Seq(Clients) /\ Len(l) \in Nat /\ DOMAIN l = 1 .. Len(l)
  BY ListType DEF TypeOK
<1>2. j \in 1 .. Len(l) /\ l[j] = c
  <2>1. PICK k \in Places(c) : TRUE
    OBVIOUS
  <2>2. \A m \in Places(c) : k <= m
    BY <1>1, <2>1 DEF Places
  <2>3. j \in Places(c)
    BY <2>1, <2>2
  <2>. QED  BY <1>1, <2>3 DEF Places
<1>3. r = RemoveAt(l, j) /\ l' = r
  BY DEF DelClientToList
<1> HIDE DEF j, r
<1>4. /\ r \in Seq(Clients) /\ DOMAIN r = 1 .. Len(l) - 1
      /\ \A n \in 1 .. Len(l) - 1 : r[n] = IF n < j THEN l[n] ELSE l[n + 1]
  <2>1. /\ r \in Seq(Clients) /\ Len(r) = Len(l) - 1
        /\ \A n \in 1 .. Len(l) - 1 : r[n] = IF n < j THEN l[n] ELSE l[n + 1]
    <3>1. PICK q : q = l
      OBVIOUS
    <3>2. PICK k : k = j
      OBVIOUS
    <3>3. q \in Seq(Clients) /\ k \in 1 .. Len(q) /\ r = RemoveAt(q, k)
      BY <1>1, <1>2, <1>3, <3>1, <3>2
    <3>4. /\ r \in Seq(Clients) /\ Len(r) = Len(q) - 1
          /\ \A n \in 1 .. Len(q) - 1 : r[n] = IF n < k THEN q[n] ELSE q[n + 1]
      BY <3>3, RemoveAtList
    <3>. QED  BY <3>1, <3>2, <3>4
  <2>2. DOMAIN r = 1 .. Len(r)
    BY <2>1, LenProperties
  <2>. QED  BY <2>1, <2>2
<1>5. ASSUME NEW n \in DOMAIN r
      PROVE  at(n) \in DOMAIN l /\ at(n) # j /\ r[n] = l[at(n)]
  BY <1>1, <1>2, <1>4
<1>6. ASSUME NEW k \in DOMAIN l, k # j
      PROVE  \E n \in DOMAIN r : r[n] = l[k]
  <2>1. CASE k < j
    <3>1. k \in DOMAIN r /\ r[k] = l[k]
      BY <1>1, <1>2, <1>4, <2>1
    <3>. QED  BY <3>1
  <2>2. CASE k > j
    <3>1. k - 1 \in 1 .. Len(l) - 1 /\ ~(k - 1 < j) /\ k - 1 + 1 = k
      BY <1>1, <1>2, <2>2
    <3>2. r[k - 1] = l[k]
      BY <3>1, <1>4
    <3>. QED  BY <1>4, <3>1, <3>2
  <2>. QED  BY <1>1, <1>2, <1>6, <2>1, <2>2
<1>7. ASSUME NEW n \in DOMAIN r, NEW p \in DOMAIN r, at(n) = at(p)  PROVE n = p
  BY <1>1, <1>2, <1>4, <1>7
<1> HIDE DEF at
<1>8. ASSUME NEW d \in Clients, NEW k \in Places(d)', NEW m \in Places(d)'  PROVE k = m
  <2>1. k \in DOMAIN r /\ m \in DOMAIN r /\ r[k] = d /\ r[m] = d
    BY <1>3 DEF Places
  <2>2. at(k) \in Places(d) /\ at(m) \in Places(d)
    BY <1>5, <2>1 DEF Places
  <2>. QED  BY <1>7, <2>1, <2>2
<1>9. ASSUME NEW k \in Places(c)'  PROVE FALSE
  <2>1. k \in DOMAIN r /\ r[k] = c
    BY <1>3 DEF Places
  <2>2. at(k) \in Places(c) /\ j \in Places(c) /\ at(k) # j
    BY <1>1, <1>2, <1>5, <2>1 DEF Places
  <2>. QED  BY <2>2
<1>10. ASSUME NEW d \in Clients, d # c  PROVE Places(d)' = {} <=> Places(d) = {}
  <2>1. ASSUME NEW k \in Places(d)'  PROVE at(k) \in Places(d)
    BY <1>3, <1>5 DEF Places
  <2>2. ASSUME NEW k \in Places(d)  PROVE \E n : n \in Places(d)'
    <3>1. k \in DOMAIN l /\ l[k] = d /\ k # j
      BY <1>2, <1>10 DEF Places
    <3>2. PICK n \in DOMAIN r : r[n] = l[k]
      BY <1>6, <3>1
    <3>. QED  BY <1>3, <3>1, <3>2 DEF Places
  <2>. QED  BY <2>1, <2>2
<1>. QED  BY <1>3, <1>4, <1>8, <1>9, <1>10

-----------------------------------------------------------------------------
(* Slots and handles.                                                      *)

LEMMA HandleTuple ==
  ASSUME NEW i \in Slots, NEW t \in Ticks
  PROVE  <<i, t>> \in Handles /\ <<i, t>> # NoHandle /\ <<i, t>>[1] = i
<1>1. t \in Nat
  <2>1. MaxTick \in Nat
    BY EngineAssumption, Zenon
  <2>. QED  BY <2>1 DEF Ticks
<1>2. <<i, t>> \in Slots \X Ticks /\ <<i, t>> \in Slots \X Nat
  BY <1>1
<1>3. <<i, t>>[1] = i
  OBVIOUS
<1>4. <<i, t>> # NoHandle
  BY <1>2, EngineAssumption, Zenon
<1>. QED  BY <1>2, <1>3, <1>4 DEF Handles

LEMMA FreeSlot == Core!Free.stage = "free" /\ Core!Free.h = NoHandle /\ Core!Free.out = FALSE
BY DEF Core!Free

LEMMA NoHandleIsNone == \A h \in Handles : h # NoHandle
<1>1. ASSUME NEW h \in Handles  PROVE h # NoHandle
  <2>1. PICK i \in Slots, t \in Ticks : h = <<i, t>>
    BY DEF Handles
  <2>. QED  BY <2>1, HandleTuple
<1>. QED  BY <1>1

LEMMA SlotHandle ==
  ASSUME SlotsOK, NEW i \in Slots
  PROVE  /\ conn[i].stage = "free" <=> conn[i].h = NoHandle
         /\ conn[i].stage # "free" => conn[i].h \in Handles /\ conn[i].h[1] = i
<1>1. CASE conn[i].stage = "free"
  BY <1>1, FreeSlot DEF SlotsOK
<1>2. CASE conn[i].stage # "free"
  <2>1. PICK t \in Ticks : conn[i].h = <<i, t>>
    BY <1>2 DEF SlotsOK
  <2>. QED  BY <1>2, <2>1, HandleTuple
<1>. QED  BY <1>1, <1>2

LEMMA SameHandle ==
  ASSUME SlotsOK, NEW i \in Slots, NEW j \in Slots, conn[i].h = conn[j].h, conn[i].stage # "free"
  PROVE  i = j
<1>1. conn[i].h = conn[j].h /\ conn[i].h # NoHandle /\ conn[i].h[1] = i
  BY SlotHandle
<1>2. conn[j].stage # "free" /\ conn[j].h[1] = j
  BY <1>1, SlotHandle
<1>. QED  BY <1>1, <1>2

LEMMA LivesNotFree ==
  ASSUME NEW i \in Slots
  PROVE  /\ Announced(i) => Lives(i)
         /\ Lives(i) => conn[i].stage \notin {"free", "listening"}
BY DEF Announced, Lives, Now

LEMMA NoClientTypes ==
  Nobody \notin Clients /\ Nobody \notin Servers /\ \A c \in Clients : c \notin Servers
BY EngineAssumption, Zenon

-----------------------------------------------------------------------------
(* Steps that nobody sees: what the engine has, and what of the core it    *)
(* stands for, stays.  They are calls and returns of SeNetCoreRead, the    *)
(* end of a connection until it is reported, and the passing of time.      *)

Unseen ==
  /\ UNCHANGED <<engineVars, m_kHSocket, peers>>
  /\ \A i \in Slots : /\ Lives(i)' <=> Lives(i)
                      /\ Announced(i)' <=> Announced(i)
                      /\ Lives(i) => /\ conn'[i].h = conn[i].h /\ conn'[i].out = conn[i].out
                                     /\ belong'[i] = belong[i]
                      /\ conn'[i].stage = "listening" <=> conn[i].stage = "listening"
                      /\ conn[i].stage = "listening" => conn'[i].h = conn[i].h
  /\ \A h \in Handles : Now("CONNECT_FAILED", h) => Now("CONNECT_FAILED", h)'

LEMMA UnseenOK == ASSUME TypeOK, Agreement, Unseen  PROVE Agreement'
<1>1. /\ UNCHANGED <<m_kClient, m_kListen, m_kClientList, m_bUsed, m_bOnConnect, m_kHSocket, peers>>
      /\ \A i \in Slots : /\ Lives(i)' <=> Lives(i)
                          /\ Announced(i)' <=> Announced(i)
                          /\ Announced(i) => Lives(i)
                          /\ Lives(i) => /\ conn'[i].h = conn[i].h /\ conn'[i].out = conn[i].out
                                         /\ belong'[i] = belong[i]
                          /\ conn'[i].stage = "listening" <=> conn[i].stage = "listening"
                          /\ conn[i].stage = "listening" => conn'[i].h = conn[i].h
  BY LivesNotFree DEF Unseen, engineVars
<1>2. MapsOK'
  BY <1>1 DEF Agreement, MapsOK, Places
<1>3. HeldOK'
  <2> SUFFICES ASSUME NEW c \in Clients, m_kHSocket[c] # NoHandle
               PROVE  \/ Now("CONNECT_FAILED", m_kHSocket[c])'
                      \/ \E i \in Slots : conn'[i].h = m_kHSocket[c] /\ conn'[i].out /\ Lives(i)'
    BY <1>1 DEF HeldOK
  <2>1. CASE Now("CONNECT_FAILED", m_kHSocket[c])
    <3>1. PICK h \in Handles : h = m_kHSocket[c]
      BY DEF TypeOK
    <3>2. Now("CONNECT_FAILED", h)'
      BY <2>1, <3>1 DEF Unseen
    <3>. QED  BY <1>1, <3>1, <3>2 DEF Now
  <2>2. CASE \E i \in Slots : conn[i].h = m_kHSocket[c] /\ conn[i].out /\ Lives(i)
    BY <1>1, <2>2
  <2>. QED  BY <2>1, <2>2 DEF Agreement, HeldOK
<1>4. OnConnectOK'
  BY <1>1 DEF Agreement, OnConnectOK
<1>5. OutgoingOK'
  BY <1>1 DEF Agreement, OutgoingOK
<1>6. ListenersOK' /\ AcceptedOK'
  <2>1. ListenersOK'
    BY <1>1 DEF Agreement, ListenersOK
  <2>2. AcceptedOK'
    BY <1>1 DEF Agreement, AcceptedOK
  <2>. QED  BY <2>1, <2>2
<1>7. PeersOK'
  BY <1>1 DEF Agreement, PeersOK
<1>. QED  BY <1>2, <1>3, <1>4, <1>5, <1>6, <1>7 DEF Agreement

LEMMA LongerType == \A n \in 0 .. ReConnectCount : Longer(n) \in 0 .. ReConnectCount
<1>1. ReConnectCount \in Nat
  BY EngineAssumption, Zenon
<1>. QED  BY <1>1 DEF Longer

(* Run has in hand no event that begins or ends a connection.              *)
Quiet == work => ev.kind \in {"IDLE", "TIMER", "RECV_DATA"}

LEMMA QuietStages ==
  ASSUME Quiet
  PROVE  /\ \A i \in Slots : /\ Lives(i) <=> conn[i].stage \in {"opening", "open", "closing"}
                             /\ Announced(i) <=> conn[i].stage \in {"open", "closing"}
         /\ \A h \in Handles : ~Now("CONNECT_FAILED", h)
<1>1. \A h : ~Now("CONNECT", h) /\ ~Now("DISCONNECT", h) /\ ~Now("CONNECT_FAILED", h)
  BY DEF Quiet, Now
<1>. QED  BY <1>1 DEF Lives, Announced, Now

LEMMA QuietStages2 ==
  ASSUME Quiet'
  PROVE  /\ \A i \in Slots : /\ Lives(i)' <=> conn'[i].stage \in {"opening", "open", "closing"}
                             /\ Announced(i)' <=> conn'[i].stage \in {"open", "closing"}
<1>1. \A h : ~Now("CONNECT", h)' /\ ~Now("DISCONNECT", h)'
  BY DEF Quiet, Now
<1>. QED  BY <1>1 DEF Lives, Announced, Now

LEMMA QuietUnseen ==
  ASSUME Quiet, Quiet', UNCHANGED <<engineVars, m_kHSocket, peers, belong>>,
         \A i \in Slots :
            \/ conn'[i] = conn[i]
            \/ /\ conn[i].stage = "open" /\ conn'[i].stage = "closing"
               /\ conn'[i].h = conn[i].h /\ conn'[i].out = conn[i].out
            \/ conn[i].stage = "closed" /\ conn'[i].stage = "free"
  PROVE  Unseen
BY QuietStages, QuietStages2 DEF Unseen

LEMMA AtRest == ASSUME EventOK, ~inRun \/ Reading  PROVE Quiet /\ ~work
BY DEF EventOK, Quiet, Reading

LEMMA SameSlots == ASSUME SlotsOK, conn' = conn  PROVE SlotsOK'
BY DEF SlotsOK, Core!Free

(* A slot that keeps its handle, or is given back.                         *)
LEMMA StepSlots ==
  ASSUME SlotsOK,
         \A i \in Slots : \/ conn'[i] = conn[i] \/ conn'[i] = Core!Free
                          \/ /\ conn[i].stage # "free" /\ conn'[i].stage # "free"
                             /\ conn'[i].h = conn[i].h
  PROVE  SlotsOK'
<1>1. \A i \in Slots : /\ conn'[i].stage = "free" => conn'[i] = Core!Free
                       /\ conn'[i].stage # "free" => \E t \in Ticks : conn'[i].h = <<i, t>>
  BY FreeSlot DEF SlotsOK
<1>. QED  BY <1>1 DEF SlotsOK, Core!Free

LEMMA CloseStep ==
  ASSUME TypeOK, NEW i \in Slots, Core!Close(i)
  PROVE  /\ conn' \in [Slots -> ConnRecord]
         /\ conn[i].stage = "open" /\ conn'[i].stage = "closing"
         /\ conn'[i].h = conn[i].h /\ conn'[i].out = conn[i].out
         /\ \A j \in Slots : j # i => conn'[j] = conn[j]
BY DEF TypeOK, ConnRecord, Core!Close, Core!Stage

LEMMA ConnectRefusedOK == ASSUME IInv, NEW c \in Clients, ConnectRefused(c)  PROVE IInv'
<1>1. ~inRun /\ m_kHSocket[c] = NoHandle
  BY DEF ConnectRefused, MayConnect
<1>2. /\ UNCHANGED <<coreVars, engineVars, runVars, peers>>
      /\ m_iReConnectNum' = [m_iReConnectNum EXCEPT ![c] = Longer(@)]
      /\ wait' = [wait EXCEPT ![c] = m_iReConnectNum'[c]]
      /\ m_kHSocket' = [m_kHSocket EXCEPT ![c] = NoHandle]
  BY DEF ConnectRefused, BackOff
<1>3. m_kHSocket' = m_kHSocket
  BY <1>1, <1>2 DEF IInv, TypeOK
<1>4. TypeOK'
  BY <1>2, <1>3, LongerType DEF IInv, TypeOK, coreVars, engineVars, runVars
<1>5. SlotsOK' /\ EventOK'
  BY <1>2, SameSlots DEF IInv, EventOK, coreVars, runVars
<1>6. Quiet /\ Quiet'
  BY <1>1, <1>2, AtRest DEF IInv, Quiet, coreVars, runVars
<1>7. Unseen
  BY <1>2, <1>3, <1>6, QuietUnseen DEF coreVars
<1>. QED  BY <1>4, <1>5, <1>7, UnseenOK DEF IInv

LEMMA DisConnectOK ==
  ASSUME IInv, NEW i \in Slots, DisConnect(i) \/ Closes(i)  PROVE IInv'
<1>1. /\ ~inRun \/ Reading
      /\ Core!Close(i)
      /\ UNCHANGED <<ev, belong, engineVars, clientVars, runVars, hearVars>>
  BY DEF DisConnect, Closes
<1>2. /\ conn' \in [Slots -> ConnRecord]
      /\ conn[i].stage = "open" /\ conn'[i].stage = "closing"
      /\ conn'[i].h = conn[i].h /\ conn'[i].out = conn[i].out
      /\ \A j \in Slots : j # i => conn'[j] = conn[j]
  BY <1>1, CloseStep DEF IInv
<1>3. TypeOK'
  BY <1>1, <1>2 DEF IInv, TypeOK, engineVars, clientVars, runVars, hearVars
<1>4. ~work /\ ~work' /\ Quiet /\ Quiet'
  BY <1>1, AtRest DEF IInv, Quiet, runVars
<1>5. SlotsOK' /\ EventOK'
  <2>1. SlotsOK'
    BY <1>2, StepSlots DEF IInv
  <2>2. EventOK'
    BY <1>4 DEF EventOK
  <2>. QED  BY <2>1, <2>2
<1>6. Unseen
  BY <1>1, <1>2, <1>4, QuietUnseen DEF clientVars, hearVars
<1>. QED  BY <1>3, <1>5, <1>6, UnseenOK DEF IInv

LEMMA RunOK == ASSUME IInv, Run  PROVE IInv'
<1>1. /\ ~inRun /\ inRun' = TRUE /\ ev' = NoEvent /\ conn' = conn
      /\ UNCHANGED <<belong, work, engineVars, clientVars, hearVars>>
  BY DEF Run, Core!Call
<1>2. NoEvent \in EventRecord
  BY DEF NoEvent, EventRecord
<1>3. TypeOK'
  BY <1>1, <1>2 DEF IInv, TypeOK, engineVars, clientVars, hearVars
<1>4. ~work /\ ~work' /\ Quiet /\ Quiet'
  BY <1>1, AtRest DEF IInv, Quiet
<1>5. SlotsOK' /\ EventOK'
  <2>1. EventOK'
    BY <1>4 DEF EventOK
  <2>. QED  BY <1>1, <2>1, SameSlots DEF IInv
<1>6. Unseen
  BY <1>1, <1>4, QuietUnseen DEF clientVars, hearVars
<1>. QED  BY <1>3, <1>5, <1>6, UnseenOK DEF IInv

(* SeNetCoreProcess gives a slot back once its end has been handled.       *)
LEMMA ReleasesOK == ASSUME IInv, NEW i \in Slots, Releases(i)  PROVE IInv'
<1>1. /\ Reading /\ ev' = ev
      /\ conn[i].stage = "closed" /\ conn' = [conn EXCEPT ![i] = Core!Free]
      /\ UNCHANGED <<belong, engineVars, clientVars, runVars, hearVars>>
  BY DEF Releases, Core!Release, Core!Free
<1>2. Core!Free \in ConnRecord
  BY DEF Core!Free, ConnRecord
<1>3. /\ conn' \in [Slots -> ConnRecord] /\ conn'[i] = Core!Free
      /\ \A j \in Slots : j # i => conn'[j] = conn[j]
  BY <1>1, <1>2 DEF IInv, TypeOK
<1>4. TypeOK'
  BY <1>1, <1>3 DEF IInv, TypeOK, engineVars, clientVars, runVars, hearVars
<1>5. ~work /\ ~work' /\ Quiet /\ Quiet'
  BY <1>1, AtRest DEF IInv, Quiet, runVars
<1>6. SlotsOK' /\ EventOK'
  <2>1. SlotsOK'
    BY <1>3, StepSlots DEF IInv
  <2>2. EventOK'
    BY <1>5 DEF EventOK
  <2>. QED  BY <2>1, <2>2
<1>7. Unseen
  BY <1>1, <1>3, <1>5, FreeSlot, QuietUnseen DEF clientVars, hearVars
<1>. QED  BY <1>4, <1>6, <1>7, UnseenOK DEF IInv

LEMMA TimePassesOK == ASSUME IInv, TimePasses  PROVE IInv'
<1>1. /\ wait' = [c \in Clients |-> IF wait[c] > 0 THEN wait[c] - 1 ELSE 0]
      /\ UNCHANGED <<conn, ev, belong, engineVars, m_kHSocket, m_iReConnectNum, inRun, work, peers>>
  BY DEF TimePasses, coreVars, runVars, hearVars
<1>2. wait' \in [Clients -> 0 .. ReConnectCount]
  <2>1. ASSUME NEW c \in Clients
        PROVE  (IF wait[c] > 0 THEN wait[c] - 1 ELSE 0) \in 0 .. ReConnectCount
    <3>1. ReConnectCount \in Nat
      BY EngineAssumption, Zenon
    <3>. QED  BY <3>1 DEF IInv, TypeOK
  <2>. QED  BY <1>1, <2>1
<1>3. TypeOK'
  BY <1>1, <1>2 DEF IInv, TypeOK, engineVars
<1>4. SlotsOK' /\ EventOK'
  BY <1>1, SameSlots DEF IInv, EventOK
<1>5. Unseen
  BY <1>1 DEF Unseen, Lives, Announced, Now
<1>. QED  BY <1>3, <1>4, <1>5, UnseenOK DEF IInv

LEMMA StutterOK == ASSUME IInv, UNCHANGED vars  PROVE IInv'
<1>1. UNCHANGED <<conn, ev, belong, engineVars, m_kHSocket, m_iReConnectNum, wait, inRun, work, peers>>
  BY DEF vars, coreVars, clientVars, runVars, hearVars
<1>2. TypeOK'
  BY <1>1 DEF IInv, TypeOK, engineVars
<1>3. SlotsOK' /\ EventOK'
  BY <1>1, SameSlots DEF IInv, EventOK
<1>4. Unseen
  BY <1>1 DEF Unseen, Lives, Announced, Now
<1>. QED  BY <1>2, <1>3, <1>4, UnseenOK DEF IInv

-----------------------------------------------------------------------------
(* SeNetCoreRead returns.                                                  *)

(* Nothing, or the timer, which may have closed a connection.              *)
LEMMA ReturnsNothingOK ==
  ASSUME IInv, Returns, Core!Idle \/ Core!Timer  PROVE IInv'
<1>1. /\ Reading /\ work' = TRUE
      /\ UNCHANGED <<belong, engineVars, clientVars, inRun, hearVars>>
  BY DEF Returns
<1>2. /\ ev' \in EventRecord /\ ev'.kind \in {"IDLE", "TIMER"}
      /\ conn' = conn \/ \E i \in Slots : Core!Close(i)
  BY DEF Core!Idle, Core!Timer, Core!Event, EventRecord
<1>3. /\ conn' \in [Slots -> ConnRecord]
      /\ \A j \in Slots :
           \/ conn'[j] = conn[j]
           \/ /\ conn[j].stage = "open" /\ conn'[j].stage = "closing"
              /\ conn'[j].h = conn[j].h /\ conn'[j].out = conn[j].out
  <2>1. CASE conn' = conn
    BY <2>1 DEF IInv, TypeOK
  <2>2. ASSUME NEW i \in Slots, Core!Close(i)
        PROVE  /\ conn' \in [Slots -> ConnRecord]
               /\ \A j \in Slots :
                    \/ conn'[j] = conn[j]
                    \/ /\ conn[j].stage = "open" /\ conn'[j].stage = "closing"
                       /\ conn'[j].h = conn[j].h /\ conn'[j].out = conn[j].out
    BY <2>2, CloseStep DEF IInv
  <2>. QED  BY <1>2, <2>1, <2>2
<1>4. TypeOK'
  BY <1>1, <1>2, <1>3 DEF IInv, TypeOK, engineVars, clientVars, hearVars
<1>5. SlotsOK' /\ EventOK'
  <2>1. SlotsOK'
    BY <1>3, StepSlots DEF IInv
  <2>2. EventOK'
    BY <1>1, <1>2 DEF EventOK, Reading
  <2>. QED  BY <2>1, <2>2
<1>6. Quiet /\ Quiet'
  BY <1>1, <1>2, AtRest DEF IInv, Quiet
<1>7. Unseen
  BY <1>1, <1>3, <1>6, QuietUnseen DEF clientVars, hearVars
<1>. QED  BY <1>4, <1>5, <1>7, UnseenOK DEF IInv

(* An event of a connection that stays.                                    *)
LEMMA ReturnsEventOK ==
  ASSUME IInv, Returns, NEW i \in Slots,
         Core!Connect(i) \/ Core!RecvData(i) \/ Core!Disconnected(i)
  PROVE  IInv'
<1>1. /\ Reading /\ work' = TRUE
      /\ UNCHANGED <<belong, engineVars, clientVars, inRun, hearVars>>
  BY DEF Returns
<1>2. ~work /\ Quiet
  BY <1>1, AtRest DEF IInv
<1> DEFINE Begins == ev'.kind = "CONNECT" /\ conn[i].stage = "opening" /\ conn'[i].stage = "open"
           Data   == ev'.kind = "RECV_DATA" /\ conn[i].stage = "open" /\ conn'[i].stage = "open"
           Ends   == ev'.kind = "DISCONNECT" /\ conn[i].stage = "closing" /\ conn'[i].stage = "closed"
<1>3. /\ conn' \in [Slots -> ConnRecord] /\ ev' \in EventRecord /\ ev'.h = conn[i].h
      /\ conn'[i].h = conn[i].h /\ conn'[i].out = conn[i].out
      /\ \A j \in Slots : j # i => conn'[j] = conn[j]
      /\ Begins \/ Data \/ Ends
  <2>1. conn \in [Slots -> ConnRecord] /\ conn[i].h \in Handles \cup {NoHandle}
    BY DEF IInv, TypeOK, ConnRecord
  <2>2. CASE Core!Connect(i)
    BY <2>1, <2>2 DEF Core!Connect, Core!Stage, Core!Event, ConnRecord, EventRecord
  <2>3. CASE Core!RecvData(i)
    BY <2>1, <2>3 DEF Core!RecvData, Core!Event, EventRecord
  <2>4. CASE Core!Disconnected(i)
    BY <2>1, <2>4 DEF Core!Disconnected, Core!Stage, Core!Event, ConnRecord, EventRecord
  <2>. QED  BY <2>2, <2>3, <2>4
<1>4. conn[i].stage # "free" /\ conn'[i].stage # "free"
  BY <1>3
<1>5. TypeOK'
  BY <1>1, <1>3 DEF IInv, TypeOK, engineVars, clientVars, hearVars
<1>6. SlotsOK' /\ EventOK'
  <2>1. SlotsOK'
    BY <1>3, <1>4, StepSlots DEF IInv
  <2>2. EventOK'
    BY <1>1, <1>3 DEF EventOK, Reading
  <2>. QED  BY <2>1, <2>2
<1>7. \A j \in Slots : j # i => conn[j].h # ev'.h
  BY <1>3, <1>4, SameHandle DEF IInv
<1>8. ev' = [kind |-> ev'.kind, h |-> ev'.h]
  BY <1>3 DEF EventRecord
<1>9. ASSUME NEW j \in Slots
      PROVE  (Lives(j)' <=> Lives(j)) /\ (Announced(j)' <=> Announced(j))
  <2>1. /\ Lives(j) <=> conn[j].stage \in {"opening", "open", "closing"}
        /\ Announced(j) <=> conn[j].stage \in {"open", "closing"}
    BY <1>2, QuietStages
  <2>2. /\ Lives(j)' <=> \/ conn'[j].stage \in {"opening", "open", "closing"}
                         \/ conn'[j].stage = "closed" /\ ev'.kind = "DISCONNECT" /\ ev'.h = conn'[j].h
        /\ Announced(j)' <=> \/ /\ conn'[j].stage \in {"open", "closing"}
                                /\ ~(ev'.kind = "CONNECT" /\ ev'.h = conn'[j].h)
                             \/ conn'[j].stage = "closed" /\ ev'.kind = "DISCONNECT" /\ ev'.h = conn'[j].h
    BY <1>1, <1>8 DEF Lives, Announced, Now
  <2>3. CASE j = i
    BY <1>3, <2>1, <2>2, <2>3
  <2>4. CASE j # i
    BY <1>3, <1>7, <2>1, <2>2, <2>4
  <2>. QED  BY <2>3, <2>4
<1>10. Unseen
  <2>1. \A h \in Handles : ~Now("CONNECT_FAILED", h)
    BY <1>2, QuietStages
  <2>. QED  BY <1>1, <1>3, <1>9, <2>1 DEF Unseen, clientVars, hearVars
<1>. QED  BY <1>5, <1>6, <1>10, UnseenOK DEF IInv

(* A connection that failed leaves its slot before its client knows.       *)
LEMMA ReturnsFailedOK ==
  ASSUME IInv, Returns, NEW i \in Slots, Core!ConnectFailed(i)  PROVE IInv'
<1>1. /\ Reading /\ work' = TRUE
      /\ UNCHANGED <<belong, inRun, engineVars, clientVars, hearVars>>
  BY DEF Returns
<1>2. /\ conn[i].stage = "opening" /\ conn[i].out
      /\ conn' = [conn EXCEPT ![i] = Core!Free]
      /\ ev' = [kind |-> "CONNECT_FAILED", h |-> conn[i].h]
  BY DEF Core!ConnectFailed, Core!Event, Core!Free
<1>3. Core!Free \in ConnRecord
  BY DEF Core!Free, ConnRecord
<1>4. /\ conn' \in [Slots -> ConnRecord] /\ conn'[i] = Core!Free
      /\ \A j \in Slots : j # i => conn'[j] = conn[j]
  BY <1>2, <1>3 DEF IInv, TypeOK
<1>5. ev' \in EventRecord /\ ev'.h \in Handles /\ ev'.h = conn[i].h /\ ev'.kind = "CONNECT_FAILED"
  BY <1>2, SlotHandle DEF IInv, EventRecord
<1>6. TypeOK'
  BY <1>1, <1>4, <1>5 DEF IInv, TypeOK, engineVars, clientVars, hearVars
<1>7. SlotsOK'
  BY <1>4, StepSlots DEF IInv
<1>8. \A j \in Slots : j # i => conn[j].h # conn[i].h
  BY <1>2, SameHandle DEF IInv
<1>9. EventOK'
  <2>1. \A j \in Slots : conn'[j].h # ev'.h
    BY <1>4, <1>5, <1>8, FreeSlot, NoHandleIsNone
  <2>. QED  BY <1>1, <1>5, <2>1 DEF EventOK, Reading
<1>10. UNCHANGED <<m_kClient, m_kListen, m_kClientList, m_bUsed, m_bOnConnect, m_kHSocket, peers, belong>>
  BY <1>1 DEF engineVars, clientVars, hearVars
<1>11. /\ \A j \in Slots : Lives(j) <=> conn[j].stage \in {"opening", "open", "closing"}
       /\ \A j \in Slots : Announced(j) <=> conn[j].stage \in {"open", "closing"}
       /\ \A h \in Handles : ~Now("CONNECT_FAILED", h)
  BY <1>1, AtRest, QuietStages DEF IInv
<1>12. /\ \A j \in Slots : Lives(j)' <=> conn'[j].stage \in {"opening", "open", "closing"}
       /\ \A j \in Slots : Announced(j)' <=> conn'[j].stage \in {"open", "closing"}
  BY <1>5 DEF Lives, Announced, Now
<1>13. \A j \in Slots : /\ Lives(j)' <=> Lives(j) /\ j # i
                        /\ Announced(j)' <=> Announced(j)
                        /\ Announced(j) => j # i
                        /\ Lives(j)' => conn'[j] = conn[j]
  BY <1>2, <1>4, <1>11, <1>12, FreeSlot
<1>14. MapsOK'
  BY <1>10 DEF IInv, Agreement, MapsOK, Places
<1>15. HeldOK'
  <2> SUFFICES ASSUME NEW c \in Clients, m_kHSocket[c] # NoHandle
               PROVE  \/ Now("CONNECT_FAILED", m_kHSocket[c])'
                      \/ \E j \in Slots : conn'[j].h = m_kHSocket[c] /\ conn'[j].out /\ Lives(j)'
    BY <1>10 DEF HeldOK
  <2>1. m_kHSocket[c] \in Handles
    BY DEF IInv, TypeOK
  <2>2. PICK j \in Slots : conn[j].h = m_kHSocket[c] /\ conn[j].out /\ Lives(j)
    BY <1>11, <2>1 DEF IInv, Agreement, HeldOK
  <2>3. CASE j = i
    BY <1>1, <1>2, <1>10, <2>2, <2>3 DEF Now
  <2>4. CASE j # i
    BY <1>13, <2>2, <2>4
  <2>. QED  BY <2>3, <2>4
<1>16. OnConnectOK'
  BY <1>10, <1>4, <1>13 DEF IInv, Agreement, OnConnectOK
<1>17. OutgoingOK'
  BY <1>10, <1>13 DEF IInv, Agreement, OutgoingOK
<1>18. \A l \in Slots : /\ conn'[l].stage = "listening" <=> conn[l].stage = "listening"
                        /\ conn[l].stage = "listening" => conn'[l] = conn[l]
  BY <1>2, <1>4, FreeSlot
<1>19. ListenersOK' /\ AcceptedOK'
  BY <1>10, <1>13, <1>18 DEF IInv, Agreement, ListenersOK, AcceptedOK
<1>20. PeersOK'
  BY <1>10, <1>4, <1>13 DEF IInv, Agreement, PeersOK
<1>. QED  BY <1>6, <1>7, <1>9, <1>14, <1>15, <1>16, <1>17, <1>19, <1>20 DEF IInv, Agreement

LEMMA ReturnsOK == ASSUME IInv, Returns  PROVE IInv'
<1>1. CASE Core!Idle \/ Core!Timer
  BY <1>1, ReturnsNothingOK
<1>2. ASSUME NEW i \in Slots, Core!Deliver(i)  PROVE IInv'
  <2>1. CASE Core!Connect(i) \/ Core!RecvData(i) \/ Core!Disconnected(i)
    BY <2>1, ReturnsEventOK
  <2>2. CASE Core!ConnectFailed(i)
    BY <2>2, ReturnsFailedOK
  <2>. QED  BY <1>2, <2>1, <2>2 DEF Core!Deliver
<1>. QED  BY <1>1, <1>2 DEF Returns

-----------------------------------------------------------------------------
(* A slot is taken.                                                        *)

LEMMA OpenStep ==
  ASSUME IInv, ~work, NEW i \in Slots, Core!Open(i)
  PROVE  /\ conn' \in [Slots -> ConnRecord] /\ ev' = ev
         /\ conn[i].stage = "free" /\ conn'[i].stage \in {"opening", "listening"}
         /\ \A j \in Slots : j # i => conn'[j] = conn[j]
         /\ SlotsOK' /\ conn'[i].h \in Handles /\ conn'[i].h # NoHandle
         /\ \A j \in Slots : j # i => conn[j].h # conn'[i].h
<1>1. PICK t \in Ticks, out \in BOOLEAN, s \in {"opening", "listening"} :
        conn' = [conn EXCEPT ![i] = [stage |-> s, out |-> out, h |-> <<i, t>>]]
  BY DEF Core!Open
<1>2. conn[i] = Core!Free /\ ev' = ev
  BY DEF Core!Open, Core!Free
<1>3. <<i, t>> \in Handles /\ <<i, t>> # NoHandle /\ <<i, t>>[1] = i
  BY HandleTuple
<1>4. [stage |-> s, out |-> out, h |-> <<i, t>>] \in ConnRecord
  BY <1>3 DEF ConnRecord
<1>5. /\ conn' \in [Slots -> ConnRecord]
      /\ conn'[i].stage = s /\ conn'[i].h = <<i, t>>
      /\ \A j \in Slots : j # i => conn'[j] = conn[j]
  BY <1>1, <1>4 DEF IInv, TypeOK
<1>6. SlotsOK'
  <2>1. ASSUME NEW j \in Slots
        PROVE  /\ conn'[j].stage = "free" => conn'[j] = Core!Free
               /\ conn'[j].stage # "free" => \E u \in Ticks : conn'[j].h = <<j, u>>
    <3>1. CASE j = i
      BY <1>5, <3>1
    <3>2. CASE j # i
      BY <1>5, <3>2 DEF IInv, SlotsOK
    <3>. QED  BY <3>1, <3>2
  <2>. QED  BY <2>1 DEF SlotsOK, Core!Free
<1>7. ASSUME NEW j \in Slots, j # i, conn[j].h = <<i, t>>  PROVE FALSE
  <2>1. conn[j].h[1] = j
    BY <1>3, <1>7, SlotHandle DEF IInv
  <2>. QED  BY <1>3, <1>7, <2>1
<1>. QED  BY <1>2, <1>3, <1>5, <1>6, <1>7, FreeSlot

(* Nobody has the handle of a slot that is free, and a connection that is  *)
(* being opened is not announced.                                          *)
LEMMA Unheld ==
  ASSUME IInv, ~work, NEW i \in Slots, conn[i].stage = "free", NEW h \in Handles,
         \A j \in Slots : j # i => conn[j].h # h
  PROVE  /\ \A c \in Clients : m_kHSocket[c] # h
         /\ \A s \in Servers : h \notin peers[s]
         /\ m_kClient[h] = Nobody
<1>1. Quiet
  BY DEF Quiet
<1>2. \A j \in Slots : conn[j].h = h => ~Lives(j) /\ ~Announced(j)
  BY LivesNotFree
<1>3. \A c \in Clients : m_kHSocket[c] # h
  BY <1>1, <1>2, QuietStages, NoHandleIsNone DEF IInv, Agreement, HeldOK
<1>4. \A s \in Servers : h \notin peers[s]
  BY <1>2 DEF IInv, Agreement, PeersOK
<1>5. m_kClient[h] = Nobody
  BY <1>3 DEF IInv, TypeOK, Agreement, MapsOK
<1>. QED  BY <1>3, <1>4, <1>5

LEMMA ConnectStartsOK ==
  ASSUME IInv, NEW c \in Clients, NEW i \in Slots, ConnectStarts(c, i)  PROVE IInv'
<1> DEFINE h == conn'[i].h
<1>1. /\ ~inRun /\ m_kHSocket[c] = NoHandle /\ ~m_bUsed[c]
      /\ Core!Open(i) /\ conn'[i].stage = "opening" /\ conn'[i].out
      /\ belong' = [belong EXCEPT ![i] = NoHandle]
      /\ m_kHSocket' = [m_kHSocket EXCEPT ![c] = h]
      /\ m_bUsed' = [m_bUsed EXCEPT ![c] = TRUE]
      /\ m_kClient' = [m_kClient EXCEPT ![h] = c]
      /\ m_kClientList' = Append(m_kClientList, c)
      /\ UNCHANGED <<m_kListen, m_bOnConnect, m_iReConnectNum, wait, inRun, work, peers>>
  BY DEF ConnectStarts, MayConnect, runVars, hearVars
<1>2. ~work /\ Quiet
  BY <1>1, AtRest DEF IInv
<1>3. /\ conn' \in [Slots -> ConnRecord] /\ ev' = ev /\ conn[i].stage = "free"
      /\ \A j \in Slots : j # i => conn'[j] = conn[j]
      /\ SlotsOK' /\ h \in Handles /\ h # NoHandle
      /\ \A j \in Slots : j # i => conn[j].h # h
  BY <1>1, <1>2, OpenStep
<1> HIDE DEF h
<1>4. /\ \A d \in Clients : m_kHSocket[d] # h
      /\ \A s \in Servers : h \notin peers[s]
      /\ m_kClient[h] = Nobody
  BY <1>2, <1>3, Unheld
<1>5. Places(c) = {}
  BY <1>1 DEF IInv, Agreement, MapsOK
<1>6. /\ m_kClientList' \in Seq(Clients)
      /\ \E k : Places(c)' = {k}
      /\ \A d \in Clients : d # c => Places(d)' = Places(d)
  BY <1>1, <1>5, AddClientToList DEF IInv
<1>7. TypeOK'
  BY <1>1, <1>3, <1>6 DEF IInv, TypeOK
<1>8. EventOK'
  BY <1>1, <1>2 DEF EventOK
<1>9. /\ \A d \in Clients : d # c => m_kHSocket'[d] = m_kHSocket[d] /\ m_bUsed'[d] = m_bUsed[d]
      /\ m_kHSocket'[c] = h /\ m_bUsed'[c] /\ m_bOnConnect' = m_bOnConnect
      /\ \A x \in Handles : m_kClient'[x] = IF x = h THEN c ELSE m_kClient[x]
      /\ \A j \in Slots : j # i => belong'[j] = belong[j]
  BY <1>1, <1>3 DEF IInv, TypeOK
<1>10. Quiet'
  BY <1>1, <1>2 DEF Quiet
<1>11. \A j \in Slots : /\ Lives(j)' <=> Lives(j) \/ j = i
                        /\ Announced(j)' <=> Announced(j)
                        /\ Announced(j) => Lives(j)
                        /\ Lives(j) => j # i /\ conn[j].h # NoHandle
  <2> SUFFICES ASSUME NEW j \in Slots
               PROVE  /\ Lives(j)' <=> Lives(j) \/ j = i
                      /\ Announced(j)' <=> Announced(j)
                      /\ Announced(j) => Lives(j)
                      /\ Lives(j) => j # i /\ conn[j].h # NoHandle
    OBVIOUS
  <2>1. Lives(j) => j # i /\ conn[j].h # NoHandle
    BY <1>3, LivesNotFree, SlotHandle DEF IInv
  <2>2. CASE j = i
    BY <1>1, <1>2, <1>3, <1>10, <2>1, <2>2, QuietStages, QuietStages2
  <2>3. CASE j # i
    BY <1>2, <1>3, <1>10, <2>1, <2>3, QuietStages, QuietStages2
  <2>. QED  BY <2>2, <2>3
<1>12. MapsOK'
  <2> SUFFICES ASSUME NEW d \in Clients
               PROVE  /\ m_bUsed'[d] <=> m_kHSocket'[d] # NoHandle
                      /\ \A x \in Handles : m_kClient'[x] = d <=> m_kHSocket'[d] = x
                      /\ Places(d)' = {} <=> ~m_bUsed'[d]
                      /\ \A k, m \in Places(d)' : k = m
    BY DEF MapsOK
  <2>1. CASE d = c
    <3>1. \A x \in Handles : m_kClient[x] # c
      BY <1>1, NoHandleIsNone DEF IInv, Agreement, MapsOK
    <3>. QED  BY <1>3, <1>6, <1>9, <2>1, <3>1
  <2>2. CASE d # c
    <3>1. Places(d)' = Places(d)
      BY <1>6, <2>2
    <3>. QED  BY <1>4, <1>9, <2>2, <3>1 DEF IInv, Agreement, MapsOK
  <2>. QED  BY <2>1, <2>2
<1>13. HeldOK'
  <2>1. ASSUME NEW d \in Clients, m_kHSocket'[d] # NoHandle
        PROVE  \E j \in Slots : conn'[j].h = m_kHSocket'[d] /\ conn'[j].out /\ Lives(j)'
    <3>1. CASE d = c
      BY <1>1, <1>9, <1>11, <3>1 DEF h
    <3>2. CASE d # c
      <4>1. m_kHSocket[d] \in Handles
        BY <1>9, <2>1, <3>2 DEF IInv, TypeOK
      <4>2. PICK j \in Slots : conn[j].h = m_kHSocket[d] /\ conn[j].out /\ Lives(j)
        BY <1>2, <4>1, QuietStages, NoHandleIsNone DEF IInv, Agreement, HeldOK
      <4>. QED  BY <1>3, <1>9, <1>11, <3>2, <4>2
    <3>. QED  BY <3>1, <3>2
  <2>. QED  BY <2>1 DEF HeldOK
<1>14. OnConnectOK'
  <2> SUFFICES ASSUME NEW d \in Clients
               PROVE  m_bOnConnect[d] <=> \E j \in Slots : conn'[j].h = m_kHSocket'[d] /\ Announced(j)'
    BY <1>1 DEF OnConnectOK
  <2>1. CASE d = c
    <3>1. ~m_bOnConnect[c]
      BY <1>1, <1>11 DEF IInv, Agreement, OnConnectOK
    <3>2. \A j \in Slots : Announced(j)' => conn'[j].h # h
      BY <1>3, <1>11
    <3>. QED  BY <1>9, <2>1, <3>1, <3>2
  <2>2. CASE d # c
    BY <1>3, <1>9, <1>11, <2>2 DEF IInv, Agreement, OnConnectOK
  <2>. QED  BY <2>1, <2>2
<1>15. OutgoingOK'
  <2> SUFFICES ASSUME NEW j \in Slots, Lives(j)', conn'[j].out
               PROVE  \E d \in Clients : m_kHSocket'[d] = conn'[j].h
    BY DEF OutgoingOK
  <2>1. CASE j = i
    BY <1>9, <2>1 DEF h
  <2>2. CASE j # i
    <3>1. PICK d \in Clients : m_kHSocket[d] = conn[j].h
      BY <1>3, <1>11, <2>2 DEF IInv, Agreement, OutgoingOK
    <3>. QED  BY <1>1, <1>3, <1>9, <1>11, <2>2, <3>1
  <2>. QED  BY <2>1, <2>2
<1>16. ListenersOK' /\ AcceptedOK'
  <2>1. \A l \in Slots : /\ conn'[l].stage = "listening" => conn[l].stage = "listening" /\ conn'[l] = conn[l]
                         /\ conn[l].stage = "listening" => conn'[l] = conn[l]
    BY <1>1, <1>3
  <2>. QED  BY <1>1, <1>3, <1>9, <1>11, <2>1 DEF IInv, Agreement, ListenersOK, AcceptedOK
<1>17. PeersOK'
  BY <1>1, <1>3, <1>9, <1>11 DEF IInv, Agreement, PeersOK
<1>. QED  BY <1>3, <1>7, <1>8, <1>12, <1>13, <1>14, <1>15, <1>16, <1>17 DEF IInv, Agreement

LEMMA ListenOK ==
  ASSUME IInv, NEW s \in Servers, NEW i \in Slots, Listen(s, i)  PROVE IInv'
<1> DEFINE h == conn'[i].h
<1>1. /\ ~inRun /\ Core!Open(i) /\ conn'[i].stage = "listening" /\ ~conn'[i].out
      /\ m_kListen' = [m_kListen EXCEPT ![h] = s]
      /\ m_bUsed' = [m_bUsed EXCEPT ![s] = TRUE]
      /\ belong' = [belong EXCEPT ![i] = NoHandle]
      /\ UNCHANGED <<m_kClient, m_kClientList, m_bOnConnect, m_kHSocket, m_iReConnectNum, wait,
                     inRun, work, peers>>
  BY DEF Listen, clientVars, runVars, hearVars
<1>2. ~work /\ Quiet
  BY <1>1, AtRest DEF IInv
<1>3. /\ conn' \in [Slots -> ConnRecord] /\ ev' = ev /\ conn[i].stage = "free"
      /\ \A j \in Slots : j # i => conn'[j] = conn[j]
      /\ SlotsOK' /\ h \in Handles /\ h # NoHandle
      /\ \A j \in Slots : j # i => conn[j].h # h
  BY <1>1, <1>2, OpenStep
<1> HIDE DEF h
<1>4. TypeOK'
  BY <1>1, <1>3 DEF IInv, TypeOK
<1>5. EventOK' /\ Quiet'
  BY <1>1, <1>2 DEF EventOK, Quiet
<1>6. /\ \A c \in Clients : m_bUsed'[c] = m_bUsed[c]
      /\ \A x \in Handles : m_kListen'[x] = IF x = h THEN s ELSE m_kListen[x]
      /\ \A j \in Slots : j # i => belong'[j] = belong[j]
  BY <1>1, <1>3, NoClientTypes DEF IInv, TypeOK
<1>7. \A j \in Slots : /\ Lives(j)' <=> Lives(j)
                       /\ Announced(j)' <=> Announced(j)
                       /\ Announced(j) => Lives(j)
                       /\ Lives(j) => j # i
  <2> SUFFICES ASSUME NEW j \in Slots
               PROVE  /\ Lives(j)' <=> Lives(j)
                      /\ Announced(j)' <=> Announced(j)
                      /\ Announced(j) => Lives(j)
                      /\ Lives(j) => j # i
    OBVIOUS
  <2>1. Lives(j) => j # i
    BY <1>3, LivesNotFree
  <2>2. CASE j = i
    BY <1>1, <1>2, <1>3, <1>5, <2>1, <2>2, QuietStages, QuietStages2
  <2>3. CASE j # i
    BY <1>2, <1>3, <1>5, <2>1, <2>3, QuietStages, QuietStages2
  <2>. QED  BY <2>2, <2>3
<1>8. MapsOK'
  <2>1. \A c \in Clients : Places(c)' = Places(c)
    BY <1>1 DEF Places
  <2>2. m_kClient' = m_kClient /\ m_kHSocket' = m_kHSocket
    BY <1>1
  <2>3. \A c \in Clients : m_bUsed'[c] <=> m_bUsed[c]
    BY <1>6
  <2> SUFFICES ASSUME NEW c \in Clients
               PROVE  /\ m_bUsed'[c] <=> m_kHSocket[c] # NoHandle
                      /\ \A x \in Handles : m_kClient[x] = c <=> m_kHSocket[c] = x
                      /\ Places(c)' = {} <=> ~m_bUsed'[c]
                      /\ \A k, m \in Places(c)' : k = m
    BY <2>2 DEF MapsOK
  <2>. QED  BY <2>1, <2>3 DEF IInv, Agreement, MapsOK
<1>9. HeldOK'
  <2>1. ASSUME NEW c \in Clients, m_kHSocket[c] # NoHandle
        PROVE  \E j \in Slots : conn'[j].h = m_kHSocket[c] /\ conn'[j].out /\ Lives(j)'
    <3>1. m_kHSocket[c] \in Handles
      BY <2>1 DEF IInv, TypeOK
    <3>2. PICK j \in Slots : conn[j].h = m_kHSocket[c] /\ conn[j].out /\ Lives(j)
      BY <1>2, <3>1, QuietStages, NoHandleIsNone DEF IInv, Agreement, HeldOK
    <3>. QED  BY <1>3, <1>7, <3>2
  <2>. QED  BY <1>1, <2>1 DEF HeldOK
<1>10. OnConnectOK' /\ OutgoingOK'
  <2>1. OnConnectOK'
    BY <1>1, <1>3, <1>7 DEF IInv, Agreement, OnConnectOK
  <2>2. OutgoingOK'
    BY <1>1, <1>3, <1>7 DEF IInv, Agreement, OutgoingOK
  <2>. QED  BY <2>1, <2>2
<1>11. \A l \in Slots : conn[l].stage = "listening" =>
         /\ l # i /\ conn'[l] = conn[l] /\ conn[l].h # h /\ conn[l].h \in Handles
  BY <1>3, SlotHandle DEF IInv
<1>12. ListenersOK'
  <2> SUFFICES ASSUME NEW l \in Slots, conn'[l].stage = "listening"
               PROVE  m_kListen'[conn'[l].h] \in Servers
    BY DEF ListenersOK
  <2>1. CASE l = i
    BY <1>3, <1>6, <2>1 DEF h
  <2>2. CASE l # i
    <3>1. conn[l].stage = "listening" /\ conn'[l] = conn[l]
      BY <1>3, <2>2
    <3>. QED  BY <1>6, <1>11, <3>1 DEF IInv, Agreement, ListenersOK
  <2>. QED  BY <2>1, <2>2
<1>13. AcceptedOK'
  BY <1>3, <1>6, <1>7, <1>11 DEF IInv, Agreement, AcceptedOK
<1>14. PeersOK'
  <2>1. ASSUME NEW j \in Slots, ~conn[j].out, Announced(j)
        PROVE  m_kListen'[belong'[j]] = m_kListen[belong[j]]
    <3>1. PICK l \in Slots : conn[l].stage = "listening" /\ belong[j] = conn[l].h
      BY <1>7, <2>1 DEF IInv, Agreement, AcceptedOK
    <3>2. belong'[j] = belong[j] /\ belong[j] \in Handles /\ belong[j] # h
      BY <1>6, <1>7, <1>11, <2>1, <3>1
    <3>. QED  BY <1>6, <3>2
  <2>. QED  BY <1>1, <1>3, <1>7, <2>1 DEF IInv, Agreement, PeersOK
<1>. QED  BY <1>3, <1>4, <1>5, <1>8, <1>9, <1>10, <1>12, <1>13, <1>14 DEF IInv, Agreement

LEMMA AcceptsOK == ASSUME IInv, NEW i \in Slots, Accepts(i)  PROVE IInv'
<1> DEFINE h == conn'[i].h
<1>1. /\ Reading /\ Core!Open(i) /\ conn'[i].stage = "opening" /\ ~conn'[i].out
      /\ UNCHANGED <<m_kClient, m_kListen, m_kClientList, m_bUsed, m_bOnConnect,
                     m_kHSocket, m_iReConnectNum, wait, inRun, work, peers>>
  BY DEF Accepts, engineVars, clientVars, runVars, hearVars
<1>2. PICK l \in Slots : conn[l].stage = "listening" /\ belong' = [belong EXCEPT ![i] = conn[l].h]
  BY DEF Accepts
<1>3. ~work /\ Quiet
  BY <1>1, AtRest DEF IInv
<1>4. /\ conn' \in [Slots -> ConnRecord] /\ ev' = ev /\ conn[i].stage = "free"
      /\ \A j \in Slots : j # i => conn'[j] = conn[j]
      /\ SlotsOK' /\ h \in Handles /\ h # NoHandle
      /\ \A j \in Slots : j # i => conn[j].h # h
  BY <1>1, <1>3, OpenStep
<1> HIDE DEF h
<1>5. conn[l].h \in Handles
  BY <1>2, SlotHandle DEF IInv
<1>6. TypeOK'
  BY <1>1, <1>2, <1>4, <1>5 DEF IInv, TypeOK
<1>7. EventOK' /\ Quiet'
  BY <1>1, <1>3 DEF EventOK, Quiet
<1>8. belong'[i] = conn[l].h /\ \A j \in Slots : j # i => belong'[j] = belong[j]
  BY <1>2 DEF IInv, TypeOK
<1>9. \A j \in Slots : /\ Lives(j)' <=> Lives(j) \/ j = i
                       /\ Announced(j)' <=> Announced(j)
                       /\ Announced(j) => Lives(j)
                       /\ Lives(j) => j # i
  <2> SUFFICES ASSUME NEW j \in Slots
               PROVE  /\ Lives(j)' <=> Lives(j) \/ j = i
                      /\ Announced(j)' <=> Announced(j)
                      /\ Announced(j) => Lives(j)
                      /\ Lives(j) => j # i
    OBVIOUS
  <2>1. Lives(j) => j # i
    BY <1>4, LivesNotFree
  <2>2. CASE j = i
    BY <1>1, <1>3, <1>4, <1>7, <2>1, <2>2, QuietStages, QuietStages2
  <2>3. CASE j # i
    BY <1>3, <1>4, <1>7, <2>1, <2>3, QuietStages, QuietStages2
  <2>. QED  BY <2>2, <2>3
<1>10. MapsOK'
  BY <1>1 DEF IInv, Agreement, MapsOK, Places
<1>11. HeldOK'
  <2>1. ASSUME NEW c \in Clients, m_kHSocket[c] # NoHandle
        PROVE  \E j \in Slots : conn'[j].h = m_kHSocket[c] /\ conn'[j].out /\ Lives(j)'
    <3>1. m_kHSocket[c] \in Handles
      BY <2>1 DEF IInv, TypeOK
    <3>2. PICK j \in Slots : conn[j].h = m_kHSocket[c] /\ conn[j].out /\ Lives(j)
      BY <1>3, <3>1, QuietStages, NoHandleIsNone DEF IInv, Agreement, HeldOK
    <3>. QED  BY <1>4, <1>9, <3>2
  <2>. QED  BY <1>1, <2>1 DEF HeldOK
<1>12. OnConnectOK' /\ OutgoingOK'
  <2>1. OnConnectOK'
    BY <1>1, <1>4, <1>9 DEF IInv, Agreement, OnConnectOK
  <2>2. OutgoingOK'
    BY <1>1, <1>4, <1>9 DEF IInv, Agreement, OutgoingOK
  <2>. QED  BY <2>1, <2>2
<1>13. \A k \in Slots : /\ conn'[k].stage = "listening" => conn[k].stage = "listening" /\ conn'[k] = conn[k]
                        /\ conn[k].stage = "listening" => conn'[k] = conn[k]
  BY <1>1, <1>4
<1>14. ListenersOK' /\ AcceptedOK'
  <2>1. ListenersOK'
    BY <1>1, <1>13 DEF IInv, Agreement, ListenersOK
  <2>2. AcceptedOK'
    BY <1>2, <1>4, <1>8, <1>9, <1>13 DEF IInv, Agreement, AcceptedOK
  <2>. QED  BY <2>1, <2>2
<1>15. PeersOK'
  BY <1>1, <1>4, <1>8, <1>9 DEF IInv, Agreement, PeersOK
<1>. QED  BY <1>4, <1>6, <1>7, <1>10, <1>11, <1>12, <1>14, <1>15 DEF IInv, Agreement

-----------------------------------------------------------------------------
(* Run handles an event.                                                   *)

LEMMA NowIs ==
  ASSUME TypeOK, NEW kind, NEW h
  PROVE  Now(kind, h) <=> work /\ ev.kind = kind /\ ev.h = h
BY DEF TypeOK, EventRecord, Now

(* The slot that the event in hand is of.                                  *)
LEMMA EventSlot ==
  ASSUME IInv, work, ev.kind \in {"CONNECT", "RECV_DATA", "DISCONNECT"}
  PROVE  \E i \in Slots :
           /\ conn[i].h = ev.h /\ ev.h \in Handles /\ ev.h[1] = i
           /\ conn[i].stage = IF ev.kind = "DISCONNECT" THEN "closed" ELSE "open"
           /\ \A j \in Slots : conn[j].h = ev.h => j = i
           /\ Lives(i) /\ (Announced(i) <=> ev.kind # "CONNECT")
<1>1. PICK i \in Slots : /\ conn[i].h = ev.h
                         /\ conn[i].stage = IF ev.kind = "DISCONNECT" THEN "closed" ELSE "open"
  BY DEF IInv, EventOK
<1>2. conn[i].stage # "free"
  BY <1>1
<1>3. ev.h \in Handles /\ ev.h[1] = i /\ \A j \in Slots : conn[j].h = ev.h => j = i
  BY <1>1, <1>2, SlotHandle, SameHandle DEF IInv
<1>4. ev = [kind |-> ev.kind, h |-> conn[i].h]
  BY <1>1 DEF IInv, TypeOK, EventRecord
<1>5. Lives(i) /\ (Announced(i) <=> ev.kind # "CONNECT")
  BY <1>1, <1>4 DEF Lives, Announced, Now
<1>. QED  BY <1>1, <1>3, <1>5

(* What a handled event leaves: other connections are as they were; the    *)
(* event's is announced after its CONNECT and gone after its DISCONNECT.   *)
LEMMA AfterEvent ==
  ASSUME IInv, work, ~work', conn' = conn
  PROVE  /\ \A i \in Slots : /\ Lives(i)' <=> Lives(i) /\ ~(ev.kind = "DISCONNECT" /\ ev.h = conn[i].h)
                             /\ Announced(i)' <=>
                                  \/ Announced(i) /\ ~(ev.kind = "DISCONNECT" /\ ev.h = conn[i].h)
                                  \/ ev.kind = "CONNECT" /\ ev.h = conn[i].h
         /\ Quiet'
<1>1. Quiet'
  BY DEF Quiet
<1>2. ASSUME NEW i \in Slots
      PROVE  /\ Lives(i)' <=> Lives(i) /\ ~(ev.kind = "DISCONNECT" /\ ev.h = conn[i].h)
             /\ Announced(i)' <=>
                  \/ Announced(i) /\ ~(ev.kind = "DISCONNECT" /\ ev.h = conn[i].h)
                  \/ ev.kind = "CONNECT" /\ ev.h = conn[i].h
  <2>1. /\ Lives(i)' <=> conn[i].stage \in {"opening", "open", "closing"}
        /\ Announced(i)' <=> conn[i].stage \in {"open", "closing"}
    BY <1>1, QuietStages2
  <2>2. /\ Lives(i) <=> \/ conn[i].stage \in {"opening", "open", "closing"}
                        \/ conn[i].stage = "closed" /\ ev.kind = "DISCONNECT" /\ ev.h = conn[i].h
        /\ Announced(i) <=> \/ /\ conn[i].stage \in {"open", "closing"}
                               /\ ~(ev.kind = "CONNECT" /\ ev.h = conn[i].h)
                            \/ conn[i].stage = "closed" /\ ev.kind = "DISCONNECT" /\ ev.h = conn[i].h
    BY NowIs DEF IInv, TypeOK, EventRecord, Lives, Announced, Now
  <2>3. CASE ev.h = conn[i].h /\ ev.kind \in {"CONNECT", "DISCONNECT"}
    <3>1. conn[i].stage = IF ev.kind = "DISCONNECT" THEN "closed" ELSE "open"
      BY <2>3, EventSlot
    <3>. QED  BY <2>1, <2>2, <2>3, <3>1
  <2>4. CASE ~(ev.h = conn[i].h /\ ev.kind \in {"CONNECT", "DISCONNECT"})
    BY <2>1, <2>2, <2>4
  <2>. QED  BY <2>3, <2>4
<1>. QED  BY <1>1, <1>2

(* Data, the timer, nothing: no object changes.                            *)
LEMMA HandlesQuietOK ==
  ASSUME IInv, Handling({"IDLE", "TIMER", "RECV_DATA"}), UNCHANGED <<engineVars, clientVars, peers>>
  PROVE  IInv'
<1>1. /\ work /\ ev.kind \in {"IDLE", "TIMER", "RECV_DATA"} /\ work' = FALSE /\ inRun' = FALSE
      /\ UNCHANGED <<conn, ev, belong>>
  BY DEF Handling, coreVars
<1>2. TypeOK'
  BY <1>1 DEF IInv, TypeOK, engineVars, clientVars
<1>3. SlotsOK' /\ EventOK'
  <2>1. EventOK'
    BY <1>1 DEF EventOK
  <2>. QED  BY <1>1, <2>1, SameSlots DEF IInv
<1>4. Quiet /\ Quiet'
  BY <1>1 DEF Quiet
<1>5. Unseen
  BY <1>1, <1>4, QuietUnseen DEF clientVars
<1>. QED  BY <1>2, <1>3, <1>5, UnseenOK DEF IInv

LEMMA RecvOrUpdateOK ==
  ASSUME IInv, \/ \E c \in Clients : ClientRecv(c)
               \/ \E s \in Servers : ServerRecv(s)
               \/ Update
  PROVE  IInv'
<1>1. /\ Handling({"IDLE", "TIMER"}) \/ Handling({"RECV_DATA"})
      /\ UNCHANGED <<engineVars, clientVars, peers>>
  BY DEF ClientRecv, ServerRecv, Update, ToClient, ToServer, engineVars, clientVars, hearVars
<1>2. Handling({"IDLE", "TIMER", "RECV_DATA"})
  BY <1>1 DEF Handling
<1>. QED  BY <1>1, <1>2, HandlesQuietOK

(* The client that Run finds by the event's handle has that handle, which  *)
(* is of an outgoing connection.                                           *)
LEMMA FoundClient ==
  ASSUME IInv, work, NEW c \in Clients, m_kClient[ev.h] = c, ev.h \in Handles
  PROVE  /\ m_kHSocket[c] = ev.h /\ ev.h # NoHandle /\ m_bUsed[c]
         /\ \A d \in Clients : m_kHSocket[d] = ev.h => d = c
         /\ \A i \in Slots : conn[i].h = ev.h => conn[i].out
<1>1. m_kHSocket[c] = ev.h /\ ev.h # NoHandle /\ m_bUsed[c]
  BY NoHandleIsNone DEF IInv, Agreement, MapsOK
<1>2. ASSUME NEW d \in Clients, m_kHSocket[d] = ev.h  PROVE d = c
  BY <1>2 DEF IInv, Agreement, MapsOK
<1>3. ASSUME NEW i \in Slots, conn[i].h = ev.h  PROVE conn[i].out
  <2>1. CASE Now("CONNECT_FAILED", ev.h)
    BY <1>3, <2>1, NowIs DEF IInv, EventOK
  <2>2. ASSUME NEW j \in Slots, conn[j].h = ev.h, conn[j].out  PROVE conn[i].out
    <3>1. conn[j].stage # "free"
      BY <1>1, <2>2, FreeSlot, SlotHandle DEF IInv
    <3>. QED  BY <1>3, <2>2, <3>1, SameHandle DEF IInv
  <2>. QED  BY <1>1, <2>1, <2>2 DEF IInv, Agreement, HeldOK
<1>. QED  BY <1>1, <1>2, <1>3

LEMMA ClientConnectOK == ASSUME IInv, NEW c \in Clients, ClientConnect(c)  PROVE IInv'
<1>1. /\ work /\ ev.kind = "CONNECT" /\ work' = FALSE /\ inRun' = FALSE
      /\ UNCHANGED <<conn, ev, belong, m_kListen, peers, m_kClient, m_kClientList, m_bUsed, m_kHSocket>>
      /\ m_kClient[ev.h] = c
      /\ m_bOnConnect' = [m_bOnConnect EXCEPT ![c] = TRUE]
      /\ m_iReConnectNum' = [m_iReConnectNum EXCEPT ![c] = 0]
      /\ wait' = [wait EXCEPT ![c] = 0]
  BY DEF ClientConnect, ToClient, Handling, coreVars
<1>2. PICK i \in Slots : /\ conn[i].h = ev.h /\ ev.h \in Handles
                         /\ \A j \in Slots : conn[j].h = ev.h => j = i
  BY <1>1, EventSlot
<1>3. /\ m_kHSocket[c] = ev.h /\ ev.h # NoHandle
      /\ \A d \in Clients : m_kHSocket[d] = ev.h => d = c
      /\ conn[i].out
  BY <1>1, <1>2, FoundClient
<1>4. \A j \in Slots : /\ Lives(j)' <=> Lives(j)
                       /\ Announced(j)' <=> Announced(j) \/ j = i
  BY <1>1, <1>2, AfterEvent
<1>5. TypeOK'
  <2>1. 0 \in 0 .. ReConnectCount
    <3>1. ReConnectCount \in Nat
      BY EngineAssumption, Zenon
    <3>. QED  BY <3>1
  <2>. QED  BY <1>1, <2>1 DEF IInv, TypeOK
<1>6. SlotsOK' /\ EventOK'
  <2>1. EventOK'
    BY <1>1 DEF EventOK
  <2>. QED  BY <1>1, <2>1, SameSlots DEF IInv
<1>7. MapsOK'
  BY <1>1 DEF IInv, Agreement, MapsOK, Places
<1>8. HeldOK'
  <2>1. \A h : ~Now("CONNECT_FAILED", h)
    BY <1>1, NowIs DEF IInv
  <2>. QED  BY <1>1, <1>4, <2>1 DEF IInv, Agreement, HeldOK
<1>9. OnConnectOK'
  <2> SUFFICES ASSUME NEW d \in Clients
               PROVE  m_bOnConnect'[d] <=> \E j \in Slots : conn[j].h = m_kHSocket[d] /\ Announced(j)'
    BY <1>1 DEF OnConnectOK
  <2>1. CASE d = c
    <3>1. m_bOnConnect'[c]
      BY <1>1 DEF IInv, TypeOK
    <3>. QED  BY <1>2, <1>3, <1>4, <2>1, <3>1
  <2>2. CASE d # c
    <3>1. m_bOnConnect'[d] = m_bOnConnect[d] /\ m_kHSocket[d] # conn[i].h
      BY <1>1, <1>2, <1>3, <2>2 DEF IInv, TypeOK
    <3>. QED  BY <1>4, <3>1 DEF IInv, Agreement, OnConnectOK
  <2>. QED  BY <2>1, <2>2
<1>10. OutgoingOK' /\ ListenersOK' /\ AcceptedOK'
  <2>1. OutgoingOK'
    BY <1>1, <1>4 DEF IInv, Agreement, OutgoingOK
  <2>2. ListenersOK' /\ AcceptedOK'
    BY <1>1, <1>4 DEF IInv, Agreement, ListenersOK, AcceptedOK
  <2>. QED  BY <2>1, <2>2
<1>11. PeersOK'
  BY <1>1, <1>3, <1>4 DEF IInv, Agreement, PeersOK
<1>. QED  BY <1>5, <1>6, <1>7, <1>8, <1>9, <1>10, <1>11 DEF IInv, Agreement

(* A client whose connection is gone, which it was told of or could not    *)
(* be, is in no place of the engine any more.                              *)
LEMMA ForgottenOK ==
  ASSUME IInv, NEW c \in Clients, ClientConnectFailed(c) \/ ClientDisConnect(c)  PROVE IInv'
<1>1. /\ work /\ ev.kind \in {"CONNECT_FAILED", "DISCONNECT"} /\ work' = FALSE /\ inRun' = FALSE
      /\ UNCHANGED <<conn, ev, belong, m_kListen, peers>>
      /\ m_kClient[ev.h] = c
      /\ DelClientToList(c)
      /\ m_kClient' = [m_kClient EXCEPT ![ev.h] = Nobody]
      /\ m_bUsed' = [m_bUsed EXCEPT ![c] = FALSE]
      /\ m_bOnConnect' = [m_bOnConnect EXCEPT ![c] = FALSE]
      /\ m_iReConnectNum' = [m_iReConnectNum EXCEPT ![c] = Longer(@)]
      /\ wait' = [wait EXCEPT ![c] = m_iReConnectNum'[c]]
      /\ m_kHSocket' = [m_kHSocket EXCEPT ![c] = NoHandle]
  BY DEF ClientConnectFailed, ClientDisConnect, ToClient, Handling, Forget, BackOff, coreVars
<1>2. ev.h \in Handles
  BY <1>1, EventSlot DEF IInv, EventOK
<1>3. /\ m_kHSocket[c] = ev.h /\ ev.h # NoHandle /\ m_bUsed[c]
      /\ \A d \in Clients : m_kHSocket[d] = ev.h => d = c
      /\ \A i \in Slots : conn[i].h = ev.h => conn[i].out
  BY <1>1, <1>2, FoundClient
<1>4. \A j \in Slots : conn[j].h = ev.h => ev.kind = "DISCONNECT"
  BY <1>1 DEF IInv, EventOK
<1>5. \A j \in Slots : /\ Lives(j)' <=> Lives(j) /\ conn[j].h # ev.h
                       /\ Announced(j)' <=> Announced(j) /\ conn[j].h # ev.h
                       /\ Lives(j) => conn[j].h # NoHandle
                       /\ Announced(j) => Lives(j)
  <2>1. \A j \in Slots : Lives(j) => conn[j].h # NoHandle
    BY LivesNotFree, SlotHandle DEF IInv
  <2>. QED  BY <1>1, <1>4, <2>1, AfterEvent, LivesNotFree
<1>6. /\ m_kClientList' \in Seq(Clients)
      /\ Places(c)' = {}
      /\ \A d \in Clients : d # c => (Places(d)' = {} <=> Places(d) = {})
      /\ \A d \in Clients : \A k, m \in Places(d)' : k = m
  <2>1. Places(c) # {} /\ \A d \in Clients : \A k, m \in Places(d) : k = m
    BY <1>3 DEF IInv, Agreement, MapsOK
  <2>. QED  BY <1>1, <2>1, DelClientOfList DEF IInv
<1>7. TypeOK'
  BY <1>1, <1>2, <1>6, LongerType DEF IInv, TypeOK
<1>8. SlotsOK' /\ EventOK'
  <2>1. EventOK'
    BY <1>1 DEF EventOK
  <2>. QED  BY <1>1, <2>1, SameSlots DEF IInv
<1>9. /\ \A d \in Clients : d # c => /\ m_kHSocket'[d] = m_kHSocket[d] /\ m_bUsed'[d] = m_bUsed[d]
                                     /\ m_bOnConnect'[d] = m_bOnConnect[d]
      /\ m_kHSocket'[c] = NoHandle /\ ~m_bUsed'[c] /\ ~m_bOnConnect'[c]
      /\ \A x \in Handles : m_kClient'[x] = IF x = ev.h THEN Nobody ELSE m_kClient[x]
  BY <1>1, <1>2 DEF IInv, TypeOK
<1>10. MapsOK'
  <2> SUFFICES ASSUME NEW d \in Clients
               PROVE  /\ m_bUsed'[d] <=> m_kHSocket'[d] # NoHandle
                      /\ \A x \in Handles : m_kClient'[x] = d <=> m_kHSocket'[d] = x
                      /\ Places(d)' = {} <=> ~m_bUsed'[d]
                      /\ \A k, m \in Places(d)' : k = m
    BY DEF MapsOK
  <2>1. CASE d = c
    <3>1. \A x \in Handles : m_kClient[x] = c => x = ev.h
      BY <1>3 DEF IInv, Agreement, MapsOK
    <3>. QED  BY <1>6, <1>9, <2>1, <3>1, NoClientTypes, NoHandleIsNone
  <2>2. CASE d # c
    <3>1. /\ m_bUsed[d] <=> m_kHSocket[d] # NoHandle
          /\ \A x \in Handles : m_kClient[x] = d <=> m_kHSocket[d] = x
          /\ Places(d) = {} <=> ~m_bUsed[d]
      BY DEF IInv, Agreement, MapsOK
    <3>. QED  BY <1>3, <1>6, <1>9, <2>2, <3>1, NoClientTypes
  <2>. QED  BY <2>1, <2>2
<1>11. HeldOK'
  <2> SUFFICES ASSUME NEW d \in Clients, m_kHSocket'[d] # NoHandle
               PROVE  \E j \in Slots : conn[j].h = m_kHSocket'[d] /\ conn[j].out /\ Lives(j)'
    BY <1>1 DEF HeldOK
  <2>1. d # c /\ m_kHSocket'[d] = m_kHSocket[d] /\ m_kHSocket[d] # ev.h
    BY <1>3, <1>9
  <2>2. ~Now("CONNECT_FAILED", m_kHSocket[d])
    BY <2>1 DEF Now
  <2>. QED  BY <1>5, <2>1, <2>2 DEF IInv, Agreement, HeldOK
<1>12. OnConnectOK'
  <2> SUFFICES ASSUME NEW d \in Clients
               PROVE  m_bOnConnect'[d] <=> \E j \in Slots : conn[j].h = m_kHSocket'[d] /\ Announced(j)'
    BY <1>1 DEF OnConnectOK
  <2>1. CASE d = c
    BY <1>5, <1>9, <2>1
  <2>2. CASE d # c
    BY <1>3, <1>5, <1>9, <2>2 DEF IInv, Agreement, OnConnectOK
  <2>. QED  BY <2>1, <2>2
<1>13. OutgoingOK'
  <2> SUFFICES ASSUME NEW j \in Slots, Lives(j)', conn[j].out
               PROVE  \E d \in Clients : m_kHSocket'[d] = conn[j].h
    BY <1>1 DEF OutgoingOK
  <2>1. PICK d \in Clients : m_kHSocket[d] = conn[j].h
    BY <1>5 DEF IInv, Agreement, OutgoingOK
  <2>. QED  BY <1>3, <1>5, <1>9, <2>1
<1>14. ListenersOK' /\ AcceptedOK'
  BY <1>1, <1>5 DEF IInv, Agreement, ListenersOK, AcceptedOK
<1>15. PeersOK'
  BY <1>1, <1>3, <1>5 DEF IInv, Agreement, PeersOK
<1>. QED  BY <1>7, <1>8, <1>10, <1>11, <1>12, <1>13, <1>14, <1>15 DEF IInv, Agreement

(* The connection of an event that no client has is an accepted one, and   *)
(* its listener's server is the one that Run finds.                        *)
LEMMA FoundServer ==
  ASSUME IInv, NEW s \in Servers, NEW kinds, ToServer(s, kinds), NEW i \in Slots,
         conn[i].h = ev.h, ev.h \in Handles, ev.h[1] = i, Lives(i)
  PROVE  ~conn[i].out /\ m_kListen[belong[i]] = s
<1>1. m_kClient[ev.h] = Nobody /\ m_kListen[belong[i]] = s
  BY DEF ToServer, ListenerOf
<1>2. conn[i].out \in BOOLEAN
  BY DEF IInv, TypeOK, ConnRecord
<1>3. CASE conn[i].out
  <2>1. PICK c \in Clients : m_kHSocket[c] = conn[i].h
    BY <1>3 DEF IInv, Agreement, OutgoingOK
  <2>2. m_kClient[ev.h] = c
    BY <2>1 DEF IInv, Agreement, MapsOK
  <2>. QED  BY <1>1, <2>2, NoClientTypes
<1>. QED  BY <1>1, <1>2, <1>3

LEMMA ServerOK ==
  ASSUME IInv, NEW s \in Servers, ServerConnect(s) \/ ServerDisConnect(s)  PROVE IInv'
<1>1. /\ work /\ ev.kind \in {"CONNECT", "DISCONNECT"} /\ work' = FALSE /\ inRun' = FALSE
      /\ ToServer(s, {ev.kind})
      /\ UNCHANGED <<conn, ev, belong, m_kListen, m_kClient, m_kClientList, m_bUsed, m_bOnConnect,
                     m_kHSocket, m_iReConnectNum, wait>>
      /\ peers' = [peers EXCEPT ![s] = IF ev.kind = "CONNECT" THEN @ \cup {ev.h} ELSE @ \ {ev.h}]
  BY DEF ServerConnect, ServerDisConnect, ToServer, Handling, coreVars, engineVars, clientVars
<1>2. PICK i \in Slots : /\ conn[i].h = ev.h /\ ev.h \in Handles /\ ev.h[1] = i
                         /\ \A j \in Slots : conn[j].h = ev.h => j = i
                         /\ Lives(i)
  BY <1>1, EventSlot
<1>3. ~conn[i].out /\ m_kListen[belong[i]] = s
  BY <1>1, <1>2, FoundServer
<1>4. \A j \in Slots :
        /\ Lives(j)' <=> Lives(j) /\ ~(ev.kind = "DISCONNECT" /\ j = i)
        /\ Announced(j)' <=> \/ Announced(j) /\ ~(ev.kind = "DISCONNECT" /\ j = i)
                             \/ ev.kind = "CONNECT" /\ j = i
        /\ Announced(j) => Lives(j)
  BY <1>1, <1>2, AfterEvent, LivesNotFree
<1>5. TypeOK'
  BY <1>1, <1>2 DEF IInv, TypeOK
<1>6. SlotsOK' /\ EventOK'
  <2>1. EventOK'
    BY <1>1 DEF EventOK
  <2>. QED  BY <1>1, <2>1, SameSlots DEF IInv
<1>7. MapsOK'
  BY <1>1 DEF IInv, Agreement, MapsOK, Places
<1>8. \A j \in Slots : conn[j].out => j # i
  BY <1>3
<1>9. HeldOK'
  <2>1. \A h : ~Now("CONNECT_FAILED", h)
    BY <1>1, NowIs DEF IInv
  <2>. QED  BY <1>1, <1>4, <1>8, <2>1 DEF IInv, Agreement, HeldOK
<1>10. \A c \in Clients : m_kHSocket[c] # conn[i].h
  <2>1. ASSUME NEW c \in Clients, m_kHSocket[c] = ev.h  PROVE m_kClient[ev.h] = c
    BY <1>2, <2>1 DEF IInv, Agreement, MapsOK
  <2>. QED  BY <1>1, <1>2, <2>1, NoClientTypes DEF ToServer
<1>11. OnConnectOK'
  BY <1>1, <1>4, <1>10 DEF IInv, Agreement, OnConnectOK
<1>12. OutgoingOK' /\ ListenersOK' /\ AcceptedOK'
  <2>1. OutgoingOK'
    BY <1>1, <1>4 DEF IInv, Agreement, OutgoingOK
  <2>2. ListenersOK' /\ AcceptedOK'
    BY <1>1, <1>4 DEF IInv, Agreement, ListenersOK, AcceptedOK
  <2>. QED  BY <2>1, <2>2
<1>13. PeersOK'
  <2> SUFFICES ASSUME NEW r \in Servers, NEW h \in Handles
               PROVE  h \in peers'[r] <=> \E j \in Slots : /\ conn[j].h = h /\ ~conn[j].out
                                                           /\ Announced(j)' /\ m_kListen[belong[j]] = r
    BY <1>1 DEF PeersOK
  <2>1. h \in peers[r] <=> \E j \in Slots : /\ conn[j].h = h /\ ~conn[j].out
                                            /\ Announced(j) /\ m_kListen[belong[j]] = r
    BY DEF IInv, Agreement, PeersOK
  <2>2. h \in peers'[r] <=> IF r = s /\ h = ev.h THEN ev.kind = "CONNECT" ELSE h \in peers[r]
    BY <1>1 DEF IInv, TypeOK
  <2>3. CASE h = ev.h
    <3>1. (\E j \in Slots : /\ conn[j].h = h /\ ~conn[j].out
                            /\ Announced(j)' /\ m_kListen[belong[j]] = r)
            <=> Announced(i)' /\ r = s
      BY <1>2, <1>3, <2>3
    <3>2. Announced(i)' <=> ev.kind = "CONNECT"
      BY <1>1, <1>4
    <3>3. r # s => h \notin peers[r]
      BY <1>2, <1>3, <2>1, <2>3
    <3>. QED  BY <2>2, <2>3, <3>1, <3>2, <3>3
  <2>4. CASE h # ev.h
    BY <1>2, <1>4, <2>1, <2>2, <2>4
  <2>. QED  BY <2>3, <2>4
<1>. QED  BY <1>5, <1>6, <1>7, <1>9, <1>11, <1>12, <1>13 DEF IInv, Agreement

-----------------------------------------------------------------------------
(* The theorems.                                                           *)

LEMMA InitOK == Init => IInv
<1> SUFFICES ASSUME Init  PROVE IInv
  OBVIOUS
<1>1. /\ conn = [i \in Slots |-> Core!Free] /\ ev = NoEvent
      /\ belong = [i \in Slots |-> NoHandle]
      /\ m_kClient = [h \in Handles |-> Nobody] /\ m_kListen = [h \in Handles |-> Nobody]
      /\ m_kClientList = <<>>
      /\ m_bUsed = [o \in Clients \cup Servers |-> FALSE]
      /\ m_bOnConnect = [c \in Clients |-> FALSE]
      /\ m_kHSocket = [c \in Clients |-> NoHandle]
      /\ m_iReConnectNum = [c \in Clients |-> 0] /\ wait = [c \in Clients |-> 0]
      /\ inRun = FALSE /\ work = FALSE /\ peers = [s \in Servers |-> {}]
  BY DEF Init, Core!Init
<1>2. Core!Free \in ConnRecord /\ Core!Free.stage = "free" /\ NoEvent \in EventRecord
  BY DEF Core!Free, ConnRecord, NoEvent, EventRecord
<1>3. /\ \A i \in Slots : conn[i] = Core!Free /\ conn[i].stage = "free"
      /\ \A i \in Slots : ~Lives(i) /\ ~Announced(i)
  BY <1>1, <1>2 DEF Lives, Announced
<1>4. TypeOK
  <2>1. conn \in [Slots -> ConnRecord] /\ ev \in EventRecord
    BY <1>1, <1>2
  <2>2. m_kClientList \in Seq(Clients)
    BY <1>1, EmptySeq
  <2>3. 0 \in 0 .. ReConnectCount
    <3>1. ReConnectCount \in Nat
      BY EngineAssumption, Zenon
    <3>. QED  BY <3>1
  <2>. QED  BY <1>1, <2>1, <2>2, <2>3 DEF TypeOK
<1>5. SlotsOK /\ EventOK
  BY <1>1, <1>3 DEF SlotsOK, EventOK
<1>6. MapsOK
  <2>1. \A c \in Clients : Places(c) = {}
    BY <1>1 DEF Places
  <2>. QED  BY <1>1, <2>1, NoClientTypes, NoHandleIsNone DEF MapsOK
<1>7. HeldOK /\ OnConnectOK /\ OutgoingOK
  BY <1>1, <1>3 DEF HeldOK, OnConnectOK, OutgoingOK
<1>8. ListenersOK /\ AcceptedOK /\ PeersOK
  BY <1>1, <1>3 DEF ListenersOK, AcceptedOK, PeersOK
<1>. QED  BY <1>4, <1>5, <1>6, <1>7, <1>8 DEF IInv, Agreement

LEMMA StepOK == IInv /\ [Next]_vars => IInv'
<1> SUFFICES ASSUME IInv, [Next]_vars  PROVE IInv'
  OBVIOUS
<1>1. CASE UNCHANGED vars
  BY <1>1, StutterOK
<1>2. CASE Run \/ Returns \/ TimePasses
  BY <1>2, RunOK, ReturnsOK, TimePassesOK
<1>3. ASSUME NEW c \in Clients, Connect(c)  PROVE IInv'
  BY <1>3, ConnectRefusedOK, ConnectStartsOK DEF Connect
<1>4. ASSUME NEW i \in Slots, DisConnect(i) \/ Accepts(i) \/ Closes(i) \/ Releases(i)
      PROVE  IInv'
  BY <1>4, DisConnectOK, AcceptsOK, ReleasesOK
<1>5. ASSUME NEW s \in Servers, NEW i \in Slots, Listen(s, i)  PROVE IInv'
  BY <1>5, ListenOK
<1>6. CASE Handle
  BY <1>6, ClientConnectOK, ForgottenOK, ServerOK, RecvOrUpdateOK DEF Handle
<1>. QED  BY <1>1, <1>2, <1>3, <1>4, <1>5, <1>6 DEF Next

(* The inductive invariant holds, with any number of objects.              *)
THEOREM Invariance == Spec => []IInv
BY InitOK, StepOK, PTL DEF Spec

(* The places that say what a client is doing agree, and none is stale.    *)
THEOREM ObjectsAgreeHolds == Spec => []ObjectsAgree
<1>1. IInv => ObjectsAgree
  <2> SUFFICES ASSUME IInv, NEW c \in Clients, NEW h, h = m_kHSocket[c]
               PROVE  /\ m_bUsed[c] <=> h # NoHandle
                      /\ {x \in Handles : m_kClient[x] = c} = {h} \ {NoHandle}
                      /\ Places(c) = {} <=> ~m_bUsed[c]
                      /\ \A k, m \in Places(c) : k = m
                      /\ h # NoHandle =>
                           \/ Ending(h)
                           \/ \E i \in Slots : /\ conn[i].h = h /\ conn[i].out
                                               /\ conn[i].stage \in {"opening", "open", "closing"}
    BY DEF ObjectsAgree
  <2>1. h \in Handles \cup {NoHandle}
    BY DEF IInv, TypeOK
  <2>2. /\ m_bUsed[c] <=> h # NoHandle
        /\ \A x \in Handles : m_kClient[x] = c <=> h = x
        /\ Places(c) = {} <=> ~m_bUsed[c]
        /\ \A k, m \in Places(c) : k = m
    BY DEF IInv, Agreement, MapsOK
  <2>3. {x \in Handles : m_kClient[x] = c} = {h} \ {NoHandle}
    BY <2>1, <2>2, NoHandleIsNone
  <2>4. ASSUME h # NoHandle
        PROVE  \/ Ending(h)
               \/ \E i \in Slots : /\ conn[i].h = h /\ conn[i].out
                                   /\ conn[i].stage \in {"opening", "open", "closing"}
    <3>1. CASE Now("CONNECT_FAILED", h)
      BY <3>1 DEF Now, Ending
    <3>2. ASSUME NEW i \in Slots, conn[i].h = h, conn[i].out, Lives(i)
          PROVE  \/ Ending(h)
                 \/ conn[i].stage \in {"opening", "open", "closing"}
      BY <3>2 DEF Lives, Now, Ending
    <3>. QED  BY <2>4, <3>1, <3>2 DEF IInv, Agreement, HeldOK
  <2>. QED  BY <2>2, <2>3, <2>4
<1>. QED  BY <1>1, Invariance, PTL

(* Every connection is somebody's, and a server knows those announced.     *)
THEOREM NobodyForgottenHolds == Spec => []NobodyForgotten
<1>1. IInv => NobodyForgotten
  <2> SUFFICES ASSUME IInv  PROVE NobodyForgotten
    OBVIOUS
  <2>1. ASSUME NEW i \in Slots, conn[i].out, conn[i].stage \in {"opening", "open", "closing"}
        PROVE  \E c \in Clients : m_kHSocket[c] = conn[i].h
    BY <2>1 DEF IInv, Agreement, OutgoingOK, Lives
  <2>2. ASSUME NEW s \in Servers
        PROVE  peers[s] = {conn[i].h : i \in {j \in Slots : ~conn[j].out /\ Announced(j)
                                                            /\ m_kListen[belong[j]] = s}}
    <3>1. peers[s] \subseteq Handles
      BY DEF IInv, TypeOK
    <3>2. \A i \in Slots : Announced(i) => conn[i].h \in Handles
      BY LivesNotFree, SlotHandle DEF IInv
    <3>3. \A h \in Handles : h \in peers[s] <=>
            \E i \in Slots : conn[i].h = h /\ ~conn[i].out /\ Announced(i) /\ m_kListen[belong[i]] = s
      BY DEF IInv, Agreement, PeersOK
    <3>. QED  BY <3>1, <3>2, <3>3
  <2>. QED  BY <2>1, <2>2 DEF NobodyForgotten
<1>. QED  BY <1>1, Invariance, PTL

(* What the sentence CallbacksInOrder says of one step.                    *)
CalledInOrder ==
  work /\ ~work' /\ ev.kind \notin {"IDLE", "TIMER"} =>
    called'.object # Nobody /\ InOrder(called'.object, called'.f)

LEMMA ClientCalled ==
  ASSUME IInv, NEW c \in Clients,
         ClientConnect(c) \/ ClientRecv(c) \/ ClientConnectFailed(c) \/ ClientDisConnect(c)
  PROVE  CalledInOrder
<1> DEFINE Called(kind, f) == ev.kind = kind /\ called'.object = c /\ called'.f = f
<1>1. /\ work /\ m_kClient[ev.h] = c
      /\ \/ Called("CONNECT", "OnConnect") \/ Called("RECV_DATA", "OnRecv")
         \/ Called("CONNECT_FAILED", "OnConnectFailed") \/ Called("DISCONNECT", "OnDisConnect")
  BY DEF ClientConnect, ClientRecv, ClientConnectFailed, ClientDisConnect, ToClient, Handling,
         BackOff, Callback
<1>2. ev.h \in Handles
  BY <1>1, EventSlot DEF IInv, EventOK
<1>3. m_kHSocket[c] = ev.h /\ m_bUsed[c]
  BY <1>1, <1>2, FoundClient
<1>4. m_bOnConnect[c] <=> \E i \in Slots : conn[i].h = ev.h /\ Announced(i)
  BY <1>3 DEF IInv, Agreement, OnConnectOK
<1>5. m_bOnConnect[c] <=> ev.kind \in {"RECV_DATA", "DISCONNECT"}
  <2>1. CASE ev.kind = "CONNECT_FAILED"
    BY <1>1, <1>4, <2>1 DEF IInv, EventOK
  <2>2. CASE ev.kind # "CONNECT_FAILED"
    <3>1. PICK i \in Slots : /\ conn[i].h = ev.h
                             /\ \A j \in Slots : conn[j].h = ev.h => j = i
                             /\ Announced(i) <=> ev.kind # "CONNECT"
      BY <1>1, <2>2, EventSlot
    <3>. QED  BY <1>1, <1>4, <2>2, <3>1
  <2>. QED  BY <2>1, <2>2
<1>. QED  BY <1>1, <1>3, <1>5, NoClientTypes DEF CalledInOrder, InOrder

LEMMA ServerCalled ==
  ASSUME IInv, NEW s \in Servers, ServerConnect(s) \/ ServerDisConnect(s) \/ ServerRecv(s)
  PROVE  CalledInOrder
<1> DEFINE Called(kind, f) == /\ ev.kind = kind /\ called'.object = s /\ called'.f = f
                              /\ ToServer(s, {kind})
<1>1. /\ work
      /\ \/ Called("CONNECT", "OnConnect") \/ Called("RECV_DATA", "OnRecv")
         \/ Called("DISCONNECT", "OnDisConnect")
  BY DEF ServerConnect, ServerDisConnect, ServerRecv, ToServer, Handling, Callback
<1>2. PICK i \in Slots : /\ conn[i].h = ev.h /\ ev.h \in Handles /\ ev.h[1] = i
                         /\ \A j \in Slots : conn[j].h = ev.h => j = i
                         /\ Lives(i) /\ (Announced(i) <=> ev.kind # "CONNECT")
  BY <1>1, EventSlot
<1>3. ~conn[i].out /\ m_kListen[belong[i]] = s
  BY <1>1, <1>2, FoundServer
<1>4. ev.h \in peers[s] <=> ev.kind # "CONNECT"
  BY <1>2, <1>3 DEF IInv, Agreement, PeersOK
<1>. QED  BY <1>1, <1>4, NoClientTypes DEF CalledInOrder, InOrder

(* An object is called in an order it can rely on, and only for its own.   *)
THEOREM CallbacksInOrderHolds == Spec => CallbacksInOrder
<1>1. ASSUME IInv, [Next]_vars  PROVE [CalledInOrder]_vars
  <2>1. CASE UNCHANGED vars
    BY <2>1
  <2>2. CASE work' = work \/ work' = TRUE \/ Update
    BY <2>2 DEF CalledInOrder, Update, Handling
  <2>3. CASE \/ Run \/ Returns \/ TimePasses
             \/ \E c \in Clients : Connect(c)
             \/ \E i \in Slots : DisConnect(i) \/ Accepts(i) \/ Closes(i) \/ Releases(i)
             \/ \E s \in Servers, i \in Slots : Listen(s, i)
    <3>1. work' = work \/ work' = TRUE
      BY <2>3 DEF Run, Returns, TimePasses, Connect, ConnectRefused, ConnectStarts, DisConnect,
                  Accepts, Closes, Releases, Listen, runVars
    <3>. QED  BY <2>2, <3>1
  <2>4. CASE Handle
    BY <1>1, <2>2, <2>4, ClientCalled, ServerCalled DEF Handle
  <2>. QED  BY <1>1, <2>1, <2>3, <2>4 DEF Next
<1>2. [CalledInOrder]_vars <=>
        [work /\ ~work' /\ ev.kind \notin {"IDLE", "TIMER"} =>
           /\ called'.object # Nobody
           /\ InOrder(called'.object, called'.f)]_vars
  BY DEF CalledInOrder
<1>. QED  BY <1>1, <1>2, Invariance, PTL DEF Spec, CallbacksInOrder


-----------------------------------------------------------------------------
(* The timers of SeTimer.cpp.                                              *)

(* In the order in which they were set.                                    *)
Ordered(s) == \A j, k \in 1 .. Len(s) : j < k => s[j] < s[k]

(* The ids of the map `ids` that are due at time t.                        *)
DueAt(ids, t) == {id \in DOMAIN ids : ids[id] = t}

(* The two maps list the same timers, each list in order; no time is kept  *)
(* without a timer.                                                        *)
Agreeing(mgr, ids, count) ==
  /\ DOMAIN ids \subseteq 1 .. count /\ ids \in [DOMAIN ids -> Nat]
  /\ DOMAIN mgr \subseteq Nat /\ mgr \in [DOMAIN mgr -> Seq(Nat)]
  /\ \A t \in DOMAIN mgr : mgr[t] # <<>> /\ Ordered(mgr[t]) /\ Range(mgr[t]) = DueAt(ids, t)
  /\ \A id \in DOMAIN ids : ids[id] \in DOMAIN mgr

TimerInv ==
  /\ m_llIdCount \in Nat /\ now \in Nat /\ Early <= now
  /\ Agreeing(m_kTimerMgr, m_kTimerIdList, m_llIdCount)

LEMMA IdsOf ==
  ASSUME NEW s \in Seq(Nat)
  PROVE  /\ Len(s) \in Nat /\ DOMAIN s = 1 .. Len(s) /\ \A k \in 1 .. Len(s) : s[k] \in Nat /\ s[k] \in Range(s)
         /\ Range(s) = {s[k] : k \in 1 .. Len(s)}
         /\ \A x \in Range(s) : \E k \in 1 .. Len(s) : s[k] = x
         /\ s = <<>> <=> Len(s) = 0
<1>1. DOMAIN s = 1 .. Len(s) /\ \A k \in 1 .. Len(s) : s[k] \in Nat
  BY LenProperties, ElementOfSeq
<1> QED BY <1>1, LenProperties, EmptySeq DEF Range

(* t is s without its element at i.                                        *)
Shorter(s, i, t) ==
  /\ Len(t) = Len(s) - 1
  /\ \A k \in 1 .. Len(s) - 1 : t[k] = IF k < i THEN s[k] ELSE s[k + 1]

(* A list from which an id was taken is in order and holds the others.     *)
LEMMA TakenAt ==
  ASSUME NEW s \in Seq(Nat), Ordered(s), NEW i \in 1 .. Len(s), NEW t \in Seq(Nat),
         Shorter(s, i, t)
  PROVE  Ordered(t) /\ Range(t) = Range(s) \ {s[i]}
<1> DEFINE L == Len(s)
<1>t. Len(t) = L - 1 /\ \A k \in 1 .. L - 1 : t[k] = IF k < i THEN s[k] ELSE s[k + 1]
  BY DEF Shorter
<1>0. /\ L \in Nat /\ L - 1 \in Nat /\ \A k \in 1 .. L : s[k] \in Nat
      /\ Range(s) = {s[k] : k \in 1 .. L} /\ Range(t) = {t[k] : k \in 1 .. L - 1}
  BY <1>t, IdsOf
<1>n. L \in Nat /\ i \in 1 .. L
  BY <1>0
<1>1. \A j, k \in 1 .. L : j # k => s[j] # s[k]
  <2> SUFFICES ASSUME NEW j \in 1 .. L, NEW k \in 1 .. L, j # k PROVE s[j] # s[k]
    OBVIOUS
  <2>1. j < k \/ k < j
    OBVIOUS
  <2>2. (j < k => s[j] < s[k]) /\ (k < j => s[k] < s[j])
    BY DEF Ordered
  <2>3. s[j] \in Nat /\ s[k] \in Nat
    BY <1>0
  <2> QED BY <2>1, <2>2, <2>3
<1>2. ASSUME NEW k \in 1 .. L - 1 PROVE \E j \in 1 .. L : j # i /\ t[k] = s[j]
  <2>1. CASE k < i
    <3>1. k \in 1 .. L /\ k # i
      BY <2>1, <1>n
    <3>2. t[k] = s[k]
      BY <2>1, <1>t
    <3> QED BY <3>1, <3>2
  <2>2. CASE ~(k < i)
    <3>1. k + 1 \in 1 .. L /\ k + 1 # i
      BY <2>2, <1>n
    <3>2. t[k] = s[k + 1]
      BY <2>2, <1>t
    <3> QED BY <3>1, <3>2
  <2> QED BY <2>1, <2>2
<1>3. ASSUME NEW y \in Range(t) PROVE y \in Range(s) \ {s[i]}
  <2>1. PICK k \in 1 .. L - 1 : y = t[k]
    BY <1>0
  <2>2. PICK j \in 1 .. L : j # i /\ t[k] = s[j]
    BY <1>2
  <2> QED BY <1>0, <1>1, <2>1, <2>2
<1>4. ASSUME NEW y \in Range(s) \ {s[i]} PROVE y \in Range(t)
  <2>1. PICK k \in 1 .. L : y = s[k]
    BY <1>0
  <2>2. CASE k < i
    <3>1. k \in 1 .. L - 1
      BY <2>2, <1>n
    <3>2. t[k] = s[k]
      BY <3>1, <2>2, <1>t
    <3> QED BY <3>1, <3>2, <2>1, <1>0
  <2>3. CASE ~(k < i)
    <3>1. k # i
      BY <2>1
    <3>2. k - 1 \in 1 .. L - 1 /\ ~(k - 1 < i) /\ (k - 1) + 1 = k
      BY <3>1, <2>3, <1>0
    <3>3. t[k - 1] = s[k]
      BY <3>2, <1>t
    <3> QED BY <3>2, <3>3, <2>1, <1>0
  <2> QED BY <2>2, <2>3
<1>5. ASSUME NEW a \in 1 .. Len(t), NEW b \in 1 .. Len(t), a < b PROVE t[a] < t[b]
  <2> DEFINE at(n) == IF n < i THEN n ELSE n + 1
  <2>0. a \in 1 .. L - 1 /\ b \in 1 .. L - 1
    BY <1>t
  <2>1. at(a) \in 1 .. L /\ at(b) \in 1 .. L /\ at(a) < at(b)
    <3>1. \A n \in 1 .. L - 1 : (n < i => n \in 1 .. L) /\ n + 1 \in 1 .. L
      BY <1>n
    <3>2. at(a) \in 1 .. L /\ at(b) \in 1 .. L
      BY <2>0, <3>1
    <3>3. at(a) < at(b)
      <4>1. a \in Int /\ b \in Int /\ i \in Int
        BY <2>0, <1>n
      <4> QED BY ONLY <4>1, <1>5
    <3> QED BY <3>2, <3>3
  <2>2. t[a] = s[at(a)] /\ t[b] = s[at(b)]
    BY <2>0, <1>t
  <2> HIDE DEF at
  <2> QED BY <2>1, <2>2 DEF Ordered
<1> QED BY <1>3, <1>4, <1>5 DEF Ordered

(* Erase takes out the id it is asked to.                                  *)
LEMMA EraseTakes ==
  ASSUME NEW s \in Seq(Nat), Ordered(s), NEW id \in Range(s)
  PROVE  Erase(s, id) \in Seq(Nat) /\ Ordered(Erase(s, id)) /\ Range(Erase(s, id)) = Range(s) \ {id}
<1> DEFINE is(k) == s[k] = id /\ \A j \in 1 .. k - 1 : s[j] # id
           i == CHOOSE k \in DOMAIN s : is(k)
           a == SubSeq(s, 1, i - 1)
           b == SubSeq(s, i + 1, Len(s))
           t == a \o b
<1>0. Len(s) \in Nat /\ DOMAIN s = 1 .. Len(s) /\ \A k \in 1 .. Len(s) : s[k] \in Nat
  BY IdsOf
<1>1. i \in 1 .. Len(s) /\ s[i] = id
  <2>1. PICK k \in 1 .. Len(s) : s[k] = id
    BY IdsOf
  <2>2. ASSUME NEW j \in 1 .. k - 1 PROVE s[j] # id
    <3>1. j \in 1 .. Len(s) /\ j < k
      BY <1>0
    <3>2. s[j] < s[k] /\ s[j] \in Nat /\ s[k] \in Nat
      BY <3>1, <1>0 DEF Ordered
    <3> QED BY <3>2, <2>1
  <2>3. k \in DOMAIN s /\ is(k)
    BY <2>1, <2>2, <1>0
  <2> HIDE DEF is
  <2>4. i \in DOMAIN s /\ is(i)
    BY <2>3
  <2> QED BY <2>4, <1>0 DEF is
<1> HIDE DEF i
<1>2. /\ a \in Seq(Nat) /\ Len(a) = i - 1
      /\ \A n \in 1 .. i - 1 : a[n] = s[n]
  BY <1>0, <1>1, SubSeqProperties
<1>3. /\ b \in Seq(Nat) /\ Len(b) = Len(s) - i
      /\ \A n \in 1 .. Len(s) - i : b[n] = s[n + i]
  <2>1. i + 1 \in Int /\ Len(s) \in Int /\ \A n \in i + 1 .. Len(s) : s[n] \in Nat
    BY <1>0, <1>1
  <2>2. /\ b \in Seq(Nat)
        /\ Len(b) = IF i + 1 <= Len(s) THEN Len(s) - (i + 1) + 1 ELSE 0
        /\ \A n \in 1 .. Len(s) - (i + 1) + 1 : b[n] = s[i + 1 + n - 1]
    BY <2>1, SubSeqProperties
  <2> HIDE DEF b
  <2>3. Len(b) = Len(s) - i
    <3>1. Len(b) = IF i + 1 <= Len(s) THEN Len(s) - (i + 1) + 1 ELSE 0
      BY <2>2
    <3>2. i \in Int /\ Len(s) \in Int /\ i <= Len(s)
      BY <1>0, <1>1
    <3> QED BY <3>1, <3>2
  <2>4. ASSUME NEW n \in 1 .. Len(s) - i PROVE b[n] = s[n + i]
    <3>1. n \in 1 .. Len(s) - (i + 1) + 1 /\ i + 1 + n - 1 = n + i
      BY <1>0, <1>1
    <3> QED BY <3>1, <2>2
  <2> QED BY <2>2, <2>3, <2>4
<1> HIDE DEF a, b
<1>4. /\ t \in Seq(Nat) /\ Len(t) = Len(a) + Len(b)
      /\ \A n \in 1 .. Len(a) + Len(b) : t[n] = IF n <= Len(a) THEN a[n] ELSE b[n - Len(a)]
  BY <1>2, <1>3, ConcatProperties
<1> HIDE DEF t
<1>5. Len(a) + Len(b) = Len(s) - 1
  BY <1>0, <1>1, <1>2, <1>3
<1>6. ASSUME NEW n \in 1 .. Len(s) - 1 PROVE t[n] = IF n < i THEN s[n] ELSE s[n + 1]
  <2>1. CASE n < i
    <3>1. n <= Len(a) /\ n \in 1 .. i - 1 /\ n \in 1 .. Len(a) + Len(b)
      BY <2>1, <1>0, <1>1, <1>2, <1>5
    <3> QED BY <3>1, <2>1, <1>2, <1>4
  <2>2. CASE ~(n < i)
    <3>1. /\ ~(n <= Len(a)) /\ n \in 1 .. Len(a) + Len(b) /\ n - Len(a) \in 1 .. Len(s) - i
          /\ (n - Len(a)) + i = n + 1
      BY <2>2, <1>0, <1>1, <1>2, <1>5
    <3>2. t[n] = b[n - Len(a)] /\ b[n - Len(a)] = s[(n - Len(a)) + i]
      BY <3>1, <1>3, <1>4
    <3> QED BY <3>1, <3>2, <2>2
  <2> QED BY <2>1, <2>2
<1>7. Ordered(t) /\ Range(t) = Range(s) \ {id}
  <2>1. Ordered(t) /\ Range(t) = Range(s) \ {s[i]}
    <3>1. Shorter(s, i, t)
      BY <1>4, <1>5, <1>6 DEF Shorter
    <3> QED BY <3>1, <1>1, <1>4, TakenAt
  <2> QED BY <2>1, <1>1
<1>8. Erase(s, id) = t
  BY DEF Erase, RemoveAt, t, a, b, i
<1> QED BY <1>4, <1>7, <1>8

(* The head is taken out by Tail, and is the first that was set.           *)
LEMMA HeadTaken ==
  ASSUME NEW s \in Seq(Nat), Ordered(s), s # <<>>
  PROVE  /\ Tail(s) \in Seq(Nat) /\ Ordered(Tail(s)) /\ Range(Tail(s)) = Range(s) \ {Head(s)}
         /\ Head(s) \in Range(s) /\ \A id \in Range(s) : Head(s) <= id
<1>0. Len(s) \in Nat /\ 1 \in 1 .. Len(s) /\ Head(s) = s[1] /\ \A k \in 1 .. Len(s) : s[k] \in Nat
  BY IdsOf
<1> DEFINE t == Tail(s)
<1>1. /\ t \in Seq(Nat) /\ Len(t) = Len(s) - 1
      /\ \A k \in 1 .. Len(t) : t[k] = s[k + 1]
  BY HeadTailProperties
<1> HIDE DEF t
<1>2. \A k \in 1 .. Len(s) - 1 : t[k] = IF k < 1 THEN s[k] ELSE s[k + 1]
  BY <1>0, <1>1
<1>3. Ordered(t) /\ Range(t) = Range(s) \ {s[1]}
  <2>1. Shorter(s, 1, t)
    BY <1>1, <1>2 DEF Shorter
  <2> QED BY <2>1, <1>0, <1>1, TakenAt
<1>4. s[1] \in Range(s)
  BY <1>0, IdsOf
<1>5. ASSUME NEW id \in Range(s) PROVE s[1] <= id
  <2>1. PICK k \in 1 .. Len(s) : s[k] = id
    BY IdsOf
  <2>2. CASE k = 1
    BY <2>1, <2>2, <1>0
  <2>3. CASE k # 1
    <3>1. 1 < k
      BY <2>3
    <3>2. s[1] < s[k] /\ s[1] \in Nat /\ s[k] \in Nat
      BY <3>1, <1>0 DEF Ordered
    <3> QED BY <3>2, <2>1
  <2> QED BY <2>2, <2>3
<1> QED BY <1>0, <1>1, <1>3, <1>4, <1>5 DEF t

(* A timer set last comes last.                                            *)
LEMMA LastSet ==
  ASSUME NEW s \in Seq(Nat), Ordered(s), NEW id \in Nat, \A x \in Range(s) : x < id
  PROVE  /\ Append(s, id) \in Seq(Nat) /\ Append(s, id) # <<>> /\ Ordered(Append(s, id))
         /\ Range(Append(s, id)) = Range(s) \cup {id}
<1> DEFINE t == Append(s, id)
<1>0. Len(s) \in Nat /\ \A k \in 1 .. Len(s) : s[k] \in Nat /\ s[k] \in Range(s) /\ s[k] < id
  BY IdsOf
<1>1. /\ t \in Seq(Nat) /\ t # <<>> /\ Len(t) = Len(s) + 1
      /\ \A k \in 1 .. Len(s) : t[k] = s[k]
      /\ t[Len(s) + 1] = id
  BY AppendProperties
<1> HIDE DEF t
<1>2. Range(s) = {s[k] : k \in 1 .. Len(s)} /\ Range(t) = {t[k] : k \in 1 .. Len(s) + 1}
  BY <1>1, IdsOf
<1>3. ASSUME NEW j \in 1 .. Len(t), NEW k \in 1 .. Len(t), j < k PROVE t[j] < t[k]
  <2>0. Len(s) \in Nat /\ Len(t) = Len(s) + 1
    BY <1>0, <1>1
  <2>1. j \in 1 .. Len(s) /\ (k \in 1 .. Len(s) \/ k = Len(s) + 1)
    BY <2>0, <1>3
  <2> QED BY <1>0, <1>1, <1>3, <2>1 DEF Ordered
<1>4. \A y \in Range(t) : y \in Range(s) \cup {id}
  <2> TAKE y \in Range(t)
  <2>1. PICK k \in 1 .. Len(s) + 1 : y = t[k]
    BY <1>2
  <2>2. k = Len(s) + 1 \/ k \in 1 .. Len(s)
    BY <1>0
  <2> QED BY <1>1, <1>2, <2>1, <2>2
<1>5. \A y \in Range(s) : y \in Range(t)
  <2> TAKE y \in Range(s)
  <2>1. PICK k \in 1 .. Len(s) : y = s[k]
    BY <1>2
  <2>2. k \in 1 .. Len(s) + 1
    BY <1>0
  <2> QED BY <1>1, <1>2, <2>1, <2>2
<1>6. id \in Range(t)
  <2>1. Len(s) + 1 \in 1 .. Len(s) + 1
    BY <1>0
  <2> QED BY <1>1, <1>2, <2>1
<1> QED BY <1>1, <1>3, <1>4, <1>5, <1>6 DEF Ordered, t


(* The first of a set of times.                                            *)
LEMMA FirstIs ==
  ASSUME NEW T, T \subseteq Nat, T # {}
  PROVE  First(T) \in T /\ \A u \in T : First(T) <= u
<1> DEFINE R == OpToRel(<, Nat)
           least(t) == \A u \in T : t <= u
<1>1. IsWellFoundedOn(R, Nat)
  BY NatLessThanWellFounded
<1>2. \E x \in T : \A y \in T : <<y, x>> \notin R
  <2> HIDE DEF R
  <2> QED BY <1>1, WFMin, Zenon
<1>3. PICK x \in T : \A y \in T : <<y, x>> \notin R
  BY <1>2
<1>4. ASSUME NEW y \in T PROVE x <= y
  <2>1. ~(y < x)
    <3>1. y \in Nat /\ x \in Nat
      OBVIOUS
    <3> QED BY <3>1, <1>3 DEF OpToRel
  <2> QED BY <2>1
<1>5. least(x)
  BY <1>4
<1>6. First(T) = CHOOSE t \in T : least(t)
  BY DEF First
<1> HIDE DEF least
<1>7. First(T) \in T /\ least(First(T))
  BY <1>5, <1>6
<1> QED BY <1>7 DEF least

(* What the two maps say when a timer has left its list.                   *)
LEMMA Gone ==
  ASSUME TimerInv, NEW id \in Ids, NEW t, t = m_kTimerIdList[id],
         NEW l \in Seq(Nat), Ordered(l), Range(l) = Range(m_kTimerMgr[t]) \ {id}
  PROVE  Agreeing(Leave(t, l), Without(m_kTimerIdList, id), m_llIdCount)
<1> DEFINE ids == m_kTimerIdList
           mgr == m_kTimerMgr
           ids1 == Without(ids, id)
           mgr1 == Leave(t, l)
           D == IF l = <<>> THEN Times \ {t} ELSE Times
<1>1. /\ Ids \subseteq 1 .. m_llIdCount /\ ids \in [Ids -> Nat]
      /\ Times \subseteq Nat /\ mgr \in [Times -> Seq(Nat)]
      /\ \A u \in Times : mgr[u] # <<>> /\ Ordered(mgr[u]) /\ Range(mgr[u]) = DueAt(ids, u)
      /\ \A x \in Ids : ids[x] \in Times
      /\ t \in Times
  BY DEF TimerInv, Agreeing, Ids, Times
<1>2. /\ DOMAIN ids1 = Ids \ {id} /\ \A x \in Ids \ {id} : ids1[x] = ids[x]
      /\ ids1 \in [Ids \ {id} -> Nat]
  <2>1. ids1 = [x \in Ids \ {id} |-> ids[x]]
    BY DEF Without, Restrict, Ids
  <2> HIDE DEF ids1, ids
  <2> QED BY <2>1, <1>1
<1>3. /\ DOMAIN mgr1 = D /\ \A u \in D : mgr1[u] = IF u = t THEN l ELSE mgr[u]
      /\ mgr1 \in [D -> Seq(Nat)]
  <2>1. CASE l = <<>>
    <3>1. mgr1 = [u \in Times \ {t} |-> mgr[u]]
      BY <2>1 DEF Leave, Without, Restrict, Times
    <3> HIDE DEF mgr1, mgr
    <3> QED BY <2>1, <3>1, <1>1
  <2>2. CASE l # <<>>
    <3>1. mgr1 = [u \in Times |-> IF u = t THEN l ELSE mgr[u]]
      <4>1. Times \cup {t} = Times
        BY <1>1
      <4>2. mgr1 = [u \in Times \cup {t} |-> IF u = t THEN l ELSE mgr[u]]
        BY <2>2 DEF Leave, With, Times
      <4> HIDE DEF mgr1, mgr
      <4> QED BY <4>1, <4>2
    <3> HIDE DEF mgr1, mgr
    <3> QED BY <2>2, <3>1, <1>1
  <2> QED BY <2>1, <2>2
<1> HIDE DEF mgr1, ids1
<1>4. Range(<<>>) = {}
  <2>1. <<>> \in Seq(Nat) /\ Len(<<>>) = 0 /\ 1 .. 0 = {}
    BY EmptySeq
  <2> QED BY <2>1, IdsOf
<1>5. ASSUME NEW u \in D PROVE mgr1[u] # <<>> /\ Ordered(mgr1[u]) /\ Range(mgr1[u]) = DueAt(ids1, u)
  <2>0. u \in Times
    OBVIOUS
  <2>1. DueAt(ids1, u) = DueAt(ids, u) \ {id}
    BY <1>2 DEF DueAt, Ids
  <2>2. CASE u = t
    <3>1. mgr1[u] = l /\ l # <<>>
      BY <2>2, <1>3
    <3>2. Range(l) = DueAt(ids, u) \ {id}
      BY <2>0, <2>2, <1>1
    <3> QED BY <3>1, <3>2, <2>1
  <2>3. CASE u # t
    <3>1. id \notin DueAt(ids, u)
      BY <2>3 DEF DueAt
    <3>2. mgr1[u] = mgr[u]
      BY <2>3, <1>3
    <3>3. mgr[u] # <<>> /\ Ordered(mgr[u]) /\ Range(mgr[u]) = DueAt(ids, u)
      BY <2>0, <1>1
    <3> HIDE DEF D, mgr, ids
    <3> QED BY <3>1, <3>2, <3>3, <2>1
  <2> QED BY <2>2, <2>3
<1>6. ASSUME NEW x \in Ids \ {id} PROVE ids1[x] \in D
  <2>1. ids1[x] = ids[x] /\ ids[x] \in Times
    BY <1>1, <1>2
  <2>2. ids[x] = t => x \in Range(l)
    <3>1. ids[x] = t => x \in DueAt(ids, t)
      BY DEF DueAt, Ids
    <3> QED BY <3>1, <1>1
  <2>3. l = <<>> => ids[x] # t
    BY <2>2, <1>4
  <2> QED BY <2>1, <2>3
<1>7. D \subseteq Nat /\ Ids \ {id} \subseteq 1 .. m_llIdCount
  BY <1>1
<1>8. Agreeing(mgr1, ids1, m_llIdCount)
  <2> HIDE DEF D, ids, mgr
  <2> QED BY <1>2, <1>3, <1>5, <1>6, <1>7 DEF Agreeing
<1> QED BY <1>8 DEF mgr1, ids1

(* The timer GetTimeOutId takes is the one due longest, and of those due   *)
(* at one time the one set first.                                          *)
LEMMA Taken ==
  ASSUME TimerInv, TimeOut
  PROVE  /\ TimerInv' /\ got' \in Ids /\ m_kTimerIdList[got'] <= now
         /\ DOMAIN m_kTimerIdList' = Ids \ {got'}
         /\ \A id \in Ids : \/ m_kTimerIdList[id] > m_kTimerIdList[got']
                            \/ m_kTimerIdList[id] = m_kTimerIdList[got'] /\ id >= got'
<1> DEFINE t == First(Times)
           l == m_kTimerMgr[t]
           h == Head(l)
<1>1. /\ Ids \subseteq 1 .. m_llIdCount /\ m_kTimerIdList \in [Ids -> Nat]
      /\ Times \subseteq Nat /\ m_kTimerMgr \in [Times -> Seq(Nat)]
      /\ \A u \in Times : m_kTimerMgr[u] # <<>> /\ Ordered(m_kTimerMgr[u])
                          /\ Range(m_kTimerMgr[u]) = DueAt(m_kTimerIdList, u)
      /\ \A x \in Ids : m_kTimerIdList[x] \in Times
      /\ m_llIdCount \in Nat
  BY DEF TimerInv, Agreeing, Ids, Times
<1>2. Times # {} /\ t <= now
  BY DEF TimeOut, Due
<1>3. t \in Times /\ \A u \in Times : t <= u
  BY <1>1, <1>2, FirstIs
<1>4. /\ got' = h /\ m_kTimerMgr' = Leave(t, Tail(l))
      /\ m_kTimerIdList' = Without(m_kTimerIdList, h)
      /\ m_llIdCount' = m_llIdCount /\ now' = now
  BY DEF TimeOut
<1> HIDE DEF t
<1>5. l \in Seq(Nat) /\ Ordered(l) /\ l # <<>> /\ Range(l) = DueAt(m_kTimerIdList, t)
  BY <1>1, <1>3
<1> HIDE DEF l
<1>6. /\ Tail(l) \in Seq(Nat) /\ Ordered(Tail(l)) /\ Range(Tail(l)) = Range(l) \ {h}
      /\ h \in Range(l) /\ \A id \in Range(l) : h <= id
  BY <1>5, HeadTaken
<1> HIDE DEF h
<1>7. h \in Ids /\ m_kTimerIdList[h] = t
  BY <1>5, <1>6 DEF DueAt, Ids
<1>8. Agreeing(m_kTimerMgr', m_kTimerIdList', m_llIdCount')
  <2>1. /\ TimerInv /\ h \in Ids /\ t = m_kTimerIdList[h]
        /\ Tail(l) \in Seq(Nat) /\ Ordered(Tail(l)) /\ Range(Tail(l)) = Range(m_kTimerMgr[t]) \ {h}
    BY <1>6, <1>7 DEF l
  <2>2. Agreeing(Leave(t, Tail(l)), Without(m_kTimerIdList, h), m_llIdCount)
    BY ONLY <2>1, Gone
  <2> QED BY <2>2, <1>4
<1>9. TimerInv'
  BY <1>4, <1>8 DEF TimerInv
<1>10. DOMAIN m_kTimerIdList' = Ids \ {h}
  BY <1>4 DEF Without, Restrict, Ids
<1>11. ASSUME NEW id \in Ids
       PROVE  \/ m_kTimerIdList[id] > m_kTimerIdList[h]
              \/ m_kTimerIdList[id] = m_kTimerIdList[h] /\ id >= h
  <2>1. m_kTimerIdList[id] \in Times /\ m_kTimerIdList[id] \in Nat /\ t \in Nat /\ id \in Nat /\ h \in Nat
    BY <1>1, <1>3, <1>7
  <2>2. m_kTimerIdList[id] = t => id \in Range(l)
    BY <1>5 DEF DueAt, Ids
  <2>3. m_kTimerIdList[id] = t => h <= id
    BY <2>2, <1>6
  <2>4. t <= m_kTimerIdList[id]
    BY <2>1, <1>3
  <2> QED BY <2>1, <2>3, <2>4, <1>7
<1> QED BY <1>2, <1>4, <1>7, <1>9, <1>10, <1>11

LEMMA SetKeeps ==
  ASSUME TimerInv, NEW d \in Delays, NEW b \in 0 .. Early, SetTimer(d, b)
  PROVE  TimerInv'
<1> DEFINE id   == m_llIdCount + 1
           t    == now + d - b
           ids  == m_kTimerIdList
           mgr  == m_kTimerMgr
           s    == IF t \in Times THEN mgr[t] ELSE <<>>
           ids1 == With(ids, id, t)
           mgr1 == With(mgr, t, Append(s, id))
<1>1. /\ Ids \subseteq 1 .. m_llIdCount /\ ids \in [Ids -> Nat]
      /\ Times \subseteq Nat /\ mgr \in [Times -> Seq(Nat)]
      /\ \A u \in Times : mgr[u] # <<>> /\ Ordered(mgr[u]) /\ Range(mgr[u]) = DueAt(ids, u)
      /\ \A x \in Ids : ids[x] \in Times
      /\ m_llIdCount \in Nat /\ now \in Nat /\ Early <= now
  BY DEF TimerInv, Agreeing, Ids, Times
<1>2. t \in Nat /\ id \in Nat
  <2>1. d \in Nat /\ Early \in Nat
    BY TimerAssumption
  <2> QED BY <1>1, <2>1
<1>3. /\ m_llIdCount' = id /\ m_kTimerIdList' = ids1 /\ m_kTimerMgr' = mgr1 /\ now' = now
  BY DEF SetTimer
<1> HIDE DEF t
<1>4. s \in Seq(Nat) /\ Ordered(s) /\ Range(s) = DueAt(ids, t)
  <2>1. CASE t \in Times
    BY <2>1, <1>1
  <2>2. CASE t \notin Times
    <3>1. <<>> \in Seq(Nat) /\ Len(<<>>) = 0 /\ 1 .. 0 = {}
      BY EmptySeq
    <3>2. Range(<<>>) = {} /\ Ordered(<<>>)
      BY <3>1, IdsOf DEF Ordered
    <3>3. DueAt(ids, t) = {}
      BY <2>2, <1>1 DEF DueAt, Ids
    <3> QED BY <2>2, <3>1, <3>2, <3>3
  <2> QED BY <2>1, <2>2
<1> HIDE DEF s
<1>5. \A x \in Range(s) : x < id
  <2> TAKE x \in Range(s)
  <2>1. x \in Ids
    BY <1>4 DEF DueAt, Ids
  <2>2. x \in 1 .. m_llIdCount
    BY <2>1, <1>1
  <2> QED BY <2>2, <1>1
<1>6. /\ Append(s, id) \in Seq(Nat) /\ Append(s, id) # <<>> /\ Ordered(Append(s, id))
      /\ Range(Append(s, id)) = Range(s) \cup {id}
  <2> HIDE DEF id
  <2> QED BY <1>2, <1>4, <1>5, LastSet
<1>7. id \notin Ids
  BY <1>1
<1>8. /\ DOMAIN ids1 = Ids \cup {id} /\ \A x \in Ids \cup {id} : ids1[x] = IF x = id THEN t ELSE ids[x]
      /\ ids1 \in [Ids \cup {id} -> Nat]
  <2>1. ids1 = [x \in Ids \cup {id} |-> IF x = id THEN t ELSE ids[x]]
    BY DEF With, Ids
  <2> HIDE DEF ids1, ids, id
  <2> QED BY <2>1, <1>1, <1>2
<1> DEFINE a == Append(s, id)
<1>9. /\ DOMAIN mgr1 = Times \cup {t} /\ \A u \in Times \cup {t} : mgr1[u] = IF u = t THEN a ELSE mgr[u]
      /\ mgr1 \in [Times \cup {t} -> Seq(Nat)]
  <2>1. mgr1 = [u \in Times \cup {t} |-> IF u = t THEN a ELSE mgr[u]]
    BY DEF With, Times
  <2>2. a \in Seq(Nat)
    BY <1>6
  <2> HIDE DEF mgr1, mgr, a
  <2> QED BY <2>1, <2>2, <1>1
<1>e. a # <<>> /\ Ordered(a) /\ Range(a) = DueAt(ids, t) \cup {id}
  BY <1>4, <1>6
<1> HIDE DEF mgr1, ids1, a, id, ids, mgr
<1>10. ASSUME NEW u \in Times \cup {t}
       PROVE  mgr1[u] # <<>> /\ Ordered(mgr1[u]) /\ Range(mgr1[u]) = DueAt(ids1, u)
  <2>1. CASE u = t
    <3>1. DueAt(ids1, u) = DueAt(ids, t) \cup {id}
      BY <2>1, <1>7, <1>8 DEF DueAt, Ids, ids
    <3> QED BY <2>1, <3>1, <1>9, <1>e
  <2>2. CASE u # t
    <3>1. DueAt(ids1, u) = DueAt(ids, u)
      BY <2>2, <1>7, <1>8 DEF DueAt, Ids, ids
    <3> QED BY <2>2, <3>1, <1>1, <1>9
  <2> QED BY <2>1, <2>2
<1>11. ASSUME NEW x \in Ids \cup {id} PROVE ids1[x] \in Times \cup {t}
  BY <1>1, <1>8
<1>12. Times \cup {t} \subseteq Nat /\ Ids \cup {id} \subseteq 1 .. id
  <2>1. Ids \cup {id} \subseteq 1 .. id
    BY <1>1 DEF id
  <2> QED BY <2>1, <1>1, <1>2
<1>13. Agreeing(mgr1, ids1, id)
  BY <1>8, <1>9, <1>10, <1>11, <1>12 DEF Agreeing
<1> QED BY <1>1, <1>2, <1>3, <1>13 DEF TimerInv

LEMMA DelKeeps ==
  ASSUME TimerInv, NEW id \in 1 .. MaxTimers, DelTimer(id)
  PROVE  TimerInv'
<1> DEFINE t == m_kTimerIdList[id]
           l == m_kTimerMgr[t]
<1>1. /\ id \in Ids /\ t \in Times /\ l \in Seq(Nat) /\ Ordered(l) /\ id \in Range(l)
  <2>1. id \in Ids
    BY DEF DelTimer
  <2> QED BY <2>1 DEF TimerInv, Agreeing, Ids, Times, DueAt
<1>2. Erase(l, id) \in Seq(Nat) /\ Ordered(Erase(l, id)) /\ Range(Erase(l, id)) = Range(l) \ {id}
  <2> HIDE DEF l
  <2> QED BY <1>1, EraseTakes
<1>3. Agreeing(Leave(t, Erase(l, id)), Without(m_kTimerIdList, id), m_llIdCount)
  <2>1. /\ TimerInv /\ id \in Ids /\ t = m_kTimerIdList[id]
        /\ Erase(l, id) \in Seq(Nat) /\ Ordered(Erase(l, id))
        /\ Range(Erase(l, id)) = Range(m_kTimerMgr[t]) \ {id}
    BY <1>1, <1>2
  <2> HIDE DEF t, l
  <2> QED BY ONLY <2>1, Gone
<1>4. /\ m_kTimerMgr' = Leave(t, Erase(l, id)) /\ m_kTimerIdList' = Without(m_kTimerIdList, id)
      /\ m_llIdCount' = m_llIdCount /\ now' = now
  BY <1>1 DEF DelTimer
<1> QED BY <1>3, <1>4 DEF TimerInv

LEMMA InitTimerInv == TimerInit => TimerInv
<1> SUFFICES ASSUME TimerInit PROVE TimerInv
  OBVIOUS
<1>1. m_kTimerMgr = <<>> /\ m_kTimerIdList = <<>> /\ m_llIdCount = 0 /\ now = Early /\ Early \in Nat
  BY TimerAssumption DEF TimerInit
<1>2. DOMAIN <<>> = {} /\ <<>> \in [{} -> Seq(Nat)] /\ <<>> \in [{} -> Nat]
  <2>1. <<>> \in Seq(Nat) /\ <<>> \in Seq(Seq(Nat)) /\ Len(<<>>) = 0 /\ 1 .. 0 = {}
    BY EmptySeq
  <2>2. /\ DOMAIN <<>> = 1 .. Len(<<>>) /\ <<>> \in [1 .. Len(<<>>) -> Nat]
        /\ <<>> \in [1 .. Len(<<>>) -> Seq(Nat)]
    BY <2>1, LenProperties
  <2> QED BY <2>1, <2>2
<1>3. Agreeing(<<>>, <<>>, 0)
  BY <1>2 DEF Agreeing
<1> QED BY <1>1, <1>3 DEF TimerInv

LEMMA StepTimerInv == TimerInv /\ [TimerNext]_timerVars => TimerInv'
<1> SUFFICES ASSUME TimerInv, [TimerNext]_timerVars PROVE TimerInv'
  OBVIOUS
<1>1. CASE TimeOut
  BY <1>1, Taken
<1>2. CASE NothingDue \/ UNCHANGED timerVars
  BY <1>2 DEF NothingDue, timerVars, TimerInv
<1>3. CASE ClockTick
  BY <1>3, TimerAssumption DEF ClockTick, TimerInv
<1>4. CASE \E d \in Delays, b \in 0 .. Early : SetTimer(d, b)
  BY <1>4, SetKeeps
<1>5. CASE \E id \in 1 .. MaxTimers : DelTimer(id)
  BY <1>5, DelKeeps
<1> QED BY <1>1, <1>2, <1>3, <1>4, <1>5 DEF TimerNext, GetTimeOutId

(* The inductive invariant of the timers: both maps hold the same timers,  *)
(* and each list has them in the order in which they were set.             *)
THEOREM TimerInvariance == TimerSpec => []TimerInv
BY InitTimerInv, StepTimerInv, PTL DEF TimerSpec

LEMMA TimerInvAgrees == TimerInv => MapsAgree
<1> SUFFICES ASSUME TimerInv PROVE MapsAgree
  OBVIOUS
<1>1. \A t \in Times : /\ m_kTimerMgr[t] \in Seq(Nat) /\ m_kTimerMgr[t] # <<>> /\ Ordered(m_kTimerMgr[t])
                       /\ Range(m_kTimerMgr[t]) = DueAt(m_kTimerIdList, t)
  BY DEF TimerInv, Agreeing, Times
<1>2. ASSUME NEW t \in Times
      PROVE  /\ m_kTimerMgr[t] # <<>> /\ IsInjective(m_kTimerMgr[t])
             /\ \A k \in DOMAIN m_kTimerMgr[t] :
                  m_kTimerMgr[t][k] \in Ids /\ m_kTimerIdList[m_kTimerMgr[t][k]] = t
  <2> DEFINE s == m_kTimerMgr[t]
  <2>1. s \in Seq(Nat) /\ s # <<>> /\ Ordered(s) /\ Range(s) = DueAt(m_kTimerIdList, t)
    BY <1>1
  <2> HIDE DEF s
  <2>2. /\ DOMAIN s = 1 .. Len(s) /\ \A k \in 1 .. Len(s) : s[k] \in Nat /\ s[k] \in Range(s)
    BY <2>1, IdsOf
  <2>3. ASSUME NEW j \in 1 .. Len(s), NEW k \in 1 .. Len(s), s[j] = s[k] PROVE j = k
    <3>1. (j < k => s[j] < s[k]) /\ (k < j => s[k] < s[j])
      BY <2>1 DEF Ordered
    <3>2. s[j] \in Nat /\ s[k] \in Nat /\ (j < k \/ k < j \/ j = k)
      BY <2>2
    <3> QED BY <3>1, <3>2, <2>3
  <2>4. IsInjective(s)
    BY <2>2, <2>3 DEF IsInjective
  <2>5. \A k \in DOMAIN s : s[k] \in Ids /\ m_kTimerIdList[s[k]] = t
    BY <2>1, <2>2 DEF DueAt, Ids
  <2> QED BY <2>1, <2>4, <2>5 DEF s
<1>3. ASSUME NEW id \in Ids
      PROVE  m_kTimerIdList[id] \in Times /\ id \in Range(m_kTimerMgr[m_kTimerIdList[id]])
  <2>1. m_kTimerIdList[id] \in Times
    BY DEF TimerInv, Agreeing, Ids, Times
  <2>2. id \in DueAt(m_kTimerIdList, m_kTimerIdList[id])
    BY DEF DueAt, Ids
  <2> QED BY <2>1, <2>2, <1>1
<1> QED BY <1>2, <1>3 DEF MapsAgree

(* The map of due times and the map of ids hold the same timers, each      *)
(* under its due time and once, and no due time is kept without a timer:   *)
(* for any delays, offsets and number of timers.                           *)
THEOREM TimerMapsAgree == TimerSpec => []MapsAgree
BY TimerInvariance, TimerInvAgrees, PTL

(* GetTimeOutId returns a timer that is set and due, the one due longest,  *)
(* and of those due at one time the one set first.                         *)
THEOREM TimersGoOffInOrder == TimerSpec => GoesOffInOrder
<1> DEFINE A == got' # got /\ got' # 0 =>
                  /\ got' \in Ids /\ DOMAIN m_kTimerIdList' = Ids \ {got'}
                  /\ m_kTimerIdList[got'] <= now
                  /\ \A id \in Ids : \/ m_kTimerIdList[id] > m_kTimerIdList[got']
                                     \/ m_kTimerIdList[id] = m_kTimerIdList[got'] /\ id >= got'
<1>1. TimerInv /\ [TimerNext]_timerVars => [A]_timerVars
  <2> SUFFICES ASSUME TimerInv, [TimerNext]_timerVars PROVE [A]_timerVars
    OBVIOUS
  <2>1. CASE TimeOut
    BY <2>1, Taken
  <2>2. CASE ~TimeOut
    <3>1. got' = 0 \/ got' = got
      BY <2>2 DEF TimerNext, GetTimeOutId, NothingDue, ClockTick, SetTimer, DelTimer, timerVars
    <3> QED BY <3>1
  <2> QED BY <2>1, <2>2
<1> QED BY <1>1, TimerInvariance, PTL DEF TimerSpec, GoesOffInOrder

=============================================================================
