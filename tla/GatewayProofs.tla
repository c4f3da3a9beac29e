---------------------------- MODULE GatewayProofs ----------------------------
(***************************************************************************)
(* The safety of the gateway for every number of slots, ticks and names,   *)
(* and whatever the core does within ConnLifecycle.                        *)
(*                                                                         *)
(* The properties say what holds between the registry and what services    *)
(* were told while both are settled.  The invariant says what holds in     *)
(* between: between the moment a connection is closed and the handling of  *)
(* its DISCONNECT, and between an accept and the handling of its CONNECT.  *)
(***************************************************************************)
EXTENDS Gateway, SequenceTheorems, TLAPS

(* The service registered with this name and this handle.                  *)
Entry(n, h) ==
  \E k \in DOMAIN kRegSvrList : kRegSvrList[k].acName = n /\ kRegSvrList[k].kHSocket = h

Distinct ==
  \A k, m \in DOMAIN kRegSvrList :
    k # m => /\ kRegSvrList[k].acName # kRegSvrList[m].acName
             /\ kRegSvrList[k].kHSocket # kRegSvrList[m].kHSocket

(* The gateway has not handled the end of the connection yet.              *)
Present(i) == \/ conn[i].stage \in {"open", "closing"}
              \/ conn[i].stage = "closed" /\ work /\ ev.h = conn[i].h

(* A client whose CONNECT is still to be handled.                          *)
New(c) == work /\ ev.kind = "CONNECT" /\ ev.h = conn[c].h

(* A client that the services that serve it have to know: an active one    *)
(* that was announced, or a closed one if its end will be announced.       *)
Live(c) == /\ belong[c] = "out"
           /\ IF conn[c].stage = "open" THEN ~New(c) ELSE Present(c) /\ Registered(Watchdog)

SlotsOK ==
  \A i \in Slots :
    IF conn[i].stage = "free" THEN conn[i] = Core!Free /\ belong[i] = "none"
                              ELSE belong[i] # "none" /\ \E t \in Ticks : conn[i].h = <<i, t>>

(* The event being handled is of a connection; data comes only when        *)
(* everything else has been reported.                                      *)
EventOK ==
  work => \E i \in Slots :
    /\ ev.h = conn[i].h
    /\ \/ ev.kind = "CONNECT" /\ conn[i].stage = "open"
       \/ /\ ev.kind = "RECV_DATA" /\ conn[i].stage = "open"
          /\ \A j \in Slots : conn[j].stage \in {"free", "open"}
       \/ ev.kind = "DISCONNECT" /\ conn[i].stage = "closed"

NothingSent == ~work /\ ev = NoEvent => sent = {}

EntriesOK ==
  \A n \in Services, h \in Handles :
    Entry(n, h) => \E s \in Slots : conn[s].h = h /\ belong[s] = "in" /\ Present(s)

(* Who was told of whom.                                                   *)
ToldOK ==
  \A s, c \in Slots : told[s][c] # "none" =>
    /\ belong[s] = "in" /\ conn[s].stage # "opening"
    /\ belong[c] = "out" /\ conn[c].stage # "opening" /\ ~New(c)
    /\ Present(s) => RegisteredAt(conn[s].h)

(* A service knows the clients it serves ...                               *)
Hears ==
  \A s, c \in Slots, n \in Services :
    /\ Live(c) /\ conn[s].stage = "open"
    /\ Entry(n, conn[s].h) /\ n \in {Watchdog, acBindSvrName[c]}
    => Knows(s, c)

(* ... and no others.                                                      *)
Bound ==
  \A s, c \in Slots, n \in Services :
    Present(c) /\ told[s][c] # "none" /\ Entry(n, conn[s].h) => n \in {Watchdog, acBindSvrName[c]}

IInv == /\ TypeOK /\ SlotsOK /\ EventOK /\ NothingSent
        /\ Distinct /\ EntriesOK /\ ToldOK /\ Hears /\ Bound

-----------------------------------------------------------------------------
(* The registry.                                                           *)

(* A list without the element at one position.                             *)
LEMMA RemoveAtList ==
  ASSUME NEW S, NEW l \in Seq(S), NEW k \in 1 .. Len(l)
  PROVE  /\ RemoveAt(l, k) \in Seq(S) /\ Len(RemoveAt(l, k)) = Len(l) - 1
         /\ \A n \in 1 .. Len(l) - 1 :
              RemoveAt(l, k)[n] = IF n < k THEN l[n] ELSE l[n + 1]
<1> DEFINE a == SubSeq(l, 1, k - 1)
           b == SubSeq(l, k + 1, Len(l))
           m == a \o b
<1>1. Len(l) \in Nat /\ DOMAIN l = 1 .. Len(l) /\ \A n \in 1 .. Len(l) : l[n] \in S
  BY LenProperties, ElementOfSeq
<1>2. /\ a \in Seq(S) /\ Len(a) = k - 1
      /\ \A n \in 1 .. k - 1 : a[n] = l[n]
  BY <1>1, SubSeqProperties
<1>3. /\ b \in Seq(S)
      /\ Len(b) = IF k + 1 <= Len(l) THEN Len(l) - (k + 1) + 1 ELSE 0
      /\ \A n \in 1 .. Len(l) - (k + 1) + 1 : b[n] = l[k + 1 + n - 1]
  <2>1. k + 1 \in Int /\ Len(l) \in Int /\ \A n \in k + 1 .. Len(l) : l[n] \in S
    BY <1>1
  <2>. QED  BY <2>1, SubSeqProperties
<1> HIDE DEF a, b
<1>4. Len(b) = Len(l) - k
  <2>1. Len(b) = IF k + 1 <= Len(l) THEN Len(l) - (k + 1) + 1 ELSE 0
    BY <1>3
  <2>2. k \in Int /\ Len(l) \in Int /\ k <= Len(l)
    BY <1>1
  <2>. QED  BY <2>1, <2>2
<1>5. ASSUME NEW n \in 1 .. Len(l) - k  PROVE b[n] = l[n + k]
  <2>1. n \in 1 .. Len(l) - (k + 1) + 1 /\ k + 1 + n - 1 = n + k
    BY <1>1
  <2>. QED  BY <2>1, <1>3
<1>6. /\ m \in Seq(S) /\ Len(m) = Len(a) + Len(b)
      /\ \A n \in 1 .. Len(a) + Len(b) : m[n] = IF n <= Len(a) THEN a[n] ELSE b[n - Len(a)]
  BY <1>2, <1>3, ConcatProperties
<1> HIDE DEF m
<1>7. Len(a) + Len(b) = Len(l) - 1
  BY <1>1, <1>2, <1>4
<1>8. ASSUME NEW n \in 1 .. Len(l) - 1, n < k  PROVE m[n] = l[n]
  BY <1>2, <1>6, <1>7, <1>8
<1>9. ASSUME NEW n \in 1 .. Len(l) - 1, ~(n < k)  PROVE m[n] = l[n + 1]
  <2>1. m[n] = b[n - (k - 1)]
    BY <1>1, <1>2, <1>6, <1>7, <1>9
  <2>2. n - (k - 1) \in 1 .. Len(l) - k /\ n - (k - 1) + k = n + 1
    BY <1>1, <1>9
  <2>. QED  BY <2>1, <2>2, <1>5
<1>10. RemoveAt(l, k) = m
  BY DEF RemoveAt, m, a, b
<1>. QED  BY <1>6, <1>7, <1>8, <1>9, <1>10

LEMMA Nodes ==
  ASSUME TypeOK
  PROVE  /\ Len(kRegSvrList) \in Nat /\ DOMAIN kRegSvrList = 1 .. Len(kRegSvrList)
         /\ \A k \in DOMAIN kRegSvrList : /\ kRegSvrList[k].acName \in Services
                                          /\ kRegSvrList[k].kHSocket \in Handles
<1>1. kRegSvrList \in Seq([acName : Services, kHSocket : Handles])
  BY DEF TypeOK
<1>2. /\ Len(kRegSvrList) \in Nat /\ DOMAIN kRegSvrList = 1 .. Len(kRegSvrList)
      /\ \A k \in 1 .. Len(kRegSvrList) :
           kRegSvrList[k] \in [acName : Services, kHSocket : Handles]
  BY <1>1, LenProperties, ElementOfSeq
<1>. QED  BY <1>2

LEMMA EntryType ==
  ASSUME TypeOK, NEW n, NEW h, Entry(n, h)  PROVE n \in Services /\ h \in Handles
BY Nodes DEF Entry

(* A name has one connection, and a connection one name.                   *)
LEMMA EntryUnique ==
  ASSUME Distinct, NEW m, NEW n, NEW g, NEW h, Entry(m, g), Entry(n, h)
  PROVE  m = n <=> g = h
BY DEF Entry, Distinct

LEMMA RegisteredEntry == \A n : Registered(n) <=> \E h : Entry(n, h)
BY DEF Registered, Entry

LEMMA RegisteredAtEntry == \A h : RegisteredAt(h) <=> \E n : Entry(n, h)
BY DEF RegisteredAt, Entry

(* SeGetRegSvrNodeBySvrName.                                               *)
LEMMA SocketOfName ==
  ASSUME TypeOK, Distinct, NEW n, Registered(n)
  PROVE  Entry(n, SocketOf(n))
<1> DEFINE First(k) == /\ kRegSvrList[k].acName = n
                       /\ \A m \in 1 .. k - 1 : kRegSvrList[m].acName # n
<1>1. PICK k \in DOMAIN kRegSvrList : kRegSvrList[k].acName = n
  BY DEF Registered
<1>2. First(k)
  <2>1. \A m \in 1 .. k - 1 : m \in DOMAIN kRegSvrList /\ m # k
    BY Nodes
  <2>. QED  BY <1>1, <2>1 DEF Distinct
<1> DEFINE j == CHOOSE x \in DOMAIN kRegSvrList : First(x)
<1>3. j \in DOMAIN kRegSvrList /\ First(j)
  BY <1>2
<1>4. SocketOf(n) = kRegSvrList[j].kHSocket
  BY DEF SocketOf
<1>5. kRegSvrList[j].acName = n
  BY <1>3
<1> HIDE DEF j
<1>. QED  BY <1>3, <1>4, <1>5 DEF Entry

(* SeDelRegSvrNode takes out the one entry of this connection.             *)
LEMMA WithoutEntry ==
  ASSUME TypeOK, Distinct, NEW h, kRegSvrList' = Without(h)
  PROVE  /\ kRegSvrList' \in Seq([acName : Services, kHSocket : Handles])
         /\ Distinct'
         /\ \A n, g : Entry(n, g)' <=> Entry(n, g) /\ g # h
<1> DEFINE l == kRegSvrList
           S == [acName : Services, kHSocket : Handles]
           First(k) == /\ l[k].kHSocket = h
                       /\ \A m \in 1 .. k - 1 : l[m].kHSocket # h
           j == CHOOSE k \in DOMAIN l : First(k)
<1>1. l \in Seq(S) /\ Len(l) \in Nat /\ DOMAIN l = 1 .. Len(l)
  BY Nodes DEF TypeOK
<1>2. CASE ~RegisteredAt(h)
  <2>1. kRegSvrList' = kRegSvrList
    BY <1>2 DEF Without
  <2>. QED  BY <1>1, <1>2, <2>1 DEF Entry, Distinct, RegisteredAt
<1>3. CASE RegisteredAt(h)
  <2>1. j \in 1 .. Len(l) /\ l[j].kHSocket = h
    <3>1. PICK k \in DOMAIN l : l[k].kHSocket = h
      BY <1>3 DEF RegisteredAt
    <3>2. \A m \in 1 .. k - 1 : m \in DOMAIN l /\ m # k
      BY <1>1
    <3>3. First(k)
      BY <3>1, <3>2 DEF Distinct
    <3>. QED  BY <1>1, <3>3
  <2>2. kRegSvrList' = RemoveAt(l, j)
    BY <1>3 DEF Without
  <2> HIDE DEF j
  <2> DEFINE m == kRegSvrList'
  <2>3. /\ m \in Seq(S) /\ Len(m) = Len(l) - 1
        /\ \A n \in 1 .. Len(l) - 1 : m[n] = IF n < j THEN l[n] ELSE l[n + 1]
    BY <1>1, <2>1, <2>2, RemoveAtList
  <2>4. DOMAIN m = 1 .. Len(l) - 1
    BY <2>3, LenProperties
  <2> HIDE DEF m
  <2> DEFINE at(n) == IF n < j THEN n ELSE n + 1
  <2>5. ASSUME NEW n \in 1 .. Len(l) - 1
        PROVE  at(n) \in DOMAIN l /\ at(n) # j /\ m[n] = l[at(n)]
    BY <1>1, <2>1, <2>3
  <2>6. ASSUME NEW k \in DOMAIN l, k # j
        PROVE  \E n \in 1 .. Len(l) - 1 : m[n] = l[k]
    <3>1. CASE k < j
      <4>1. k \in 1 .. Len(l) - 1 /\ m[k] = l[k]
        BY <1>1, <2>1, <2>3, <3>1
      <4>. QED  BY <4>1
    <3>2. CASE k > j
      <4>1. k - 1 \in 1 .. Len(l) - 1 /\ ~(k - 1 < j) /\ k - 1 + 1 = k
        BY <1>1, <2>1, <3>2
      <4>2. m[k - 1] = l[k]
        BY <4>1, <2>3
      <4>. QED  BY <4>1, <4>2
    <3>. QED  BY <1>1, <2>1, <2>6, <3>1, <3>2
  <2>7. ASSUME NEW n \in 1 .. Len(l) - 1, NEW p \in 1 .. Len(l) - 1, n # p
        PROVE  m[n].acName # m[p].acName /\ m[n].kHSocket # m[p].kHSocket
    <3>1. at(n) # at(p)
      BY <1>1, <2>1, <2>7
    <3> HIDE DEF at
    <3>. QED  BY <2>5, <3>1 DEF Distinct
  <2>8. Distinct'
    BY <2>4, <2>7 DEF Distinct, m
  <2>9. ASSUME NEW n, NEW g, Entry(n, g)'  PROVE Entry(n, g) /\ g # h
    <3>1. PICK k \in 1 .. Len(l) - 1 : m[k].acName = n /\ m[k].kHSocket = g
      BY <2>4, <2>9 DEF Entry, m
    <3> HIDE DEF at
    <3>. QED  BY <1>1, <2>1, <2>5, <3>1 DEF Entry, Distinct
  <2>10. ASSUME NEW n, NEW g, Entry(n, g), g # h  PROVE Entry(n, g)'
    <3>1. PICK k \in DOMAIN l : l[k].acName = n /\ l[k].kHSocket = g
      BY <2>10 DEF Entry
    <3>2. k # j
      BY <2>1, <2>10, <3>1
    <3>. QED  BY <2>4, <2>6, <3>1, <3>2 DEF Entry, m
  <2>. QED  BY <2>3, <2>8, <2>9, <2>10 DEF m
<1>. QED  BY <1>2, <1>3

(* SeAddRegSvrNode.                                                        *)
LEMMA AddEntry ==
  ASSUME TypeOK, Distinct, NEW n \in Services, NEW h \in Handles,
         ~Registered(n), ~RegisteredAt(h), kRegSvrList' = <<Node(n, h)>> \o kRegSvrList
  PROVE  /\ kRegSvrList' \in Seq([acName : Services, kHSocket : Handles])
         /\ Distinct'
         /\ \A m, g : Entry(m, g)' <=> Entry(m, g) \/ (m = n /\ g = h)
<1> DEFINE l == kRegSvrList
           S == [acName : Services, kHSocket : Handles]
           a == <<Node(n, h)>>
           m == a \o l
<1>1. l \in Seq(S) /\ Len(l) \in Nat /\ DOMAIN l = 1 .. Len(l)
  BY Nodes DEF TypeOK
<1>2. a \in Seq(S) /\ Len(a) = 1 /\ a[1].acName = n /\ a[1].kHSocket = h
  BY DEF Node
<1> HIDE DEF a
<1>3. /\ m \in Seq(S) /\ Len(m) = Len(a) + Len(l)
      /\ \A k \in 1 .. Len(a) + Len(l) : m[k] = IF k <= Len(a) THEN a[k] ELSE l[k - Len(a)]
  BY <1>1, <1>2, ConcatProperties
<1>4. kRegSvrList' = m
  BY DEF a
<1> HIDE DEF m
<1>5. DOMAIN m = 1 .. Len(l) + 1
  BY <1>1, <1>2, <1>3, LenProperties
<1>6. m[1].acName = n /\ m[1].kHSocket = h /\ 1 \in DOMAIN m
  BY <1>1, <1>2, <1>3, <1>5
<1>7. ASSUME NEW k \in DOMAIN m, k # 1  PROVE k - 1 \in DOMAIN l /\ m[k] = l[k - 1]
  BY <1>1, <1>2, <1>3, <1>5, <1>7
<1>8. ASSUME NEW k \in DOMAIN l  PROVE k + 1 \in DOMAIN m /\ m[k + 1] = l[k]
  <2>1. k + 1 \in 1 .. Len(a) + Len(l) /\ ~(k + 1 <= Len(a)) /\ k + 1 - Len(a) = k
    BY <1>1, <1>2
  <2>. QED  BY <1>1, <1>2, <1>3, <1>5, <2>1
<1>9. \A k \in DOMAIN l : l[k].acName # n /\ l[k].kHSocket # h
  BY DEF Registered, RegisteredAt
<1>10. ASSUME NEW k \in DOMAIN m, NEW j \in DOMAIN m, k # j
       PROVE  m[k].acName # m[j].acName /\ m[k].kHSocket # m[j].kHSocket
  <2>1. CASE k = 1 \/ j = 1
    BY <1>6, <1>7, <1>9, <1>10, <2>1
  <2>2. CASE k # 1 /\ j # 1
    <3>1. k - 1 # j - 1
      BY <1>1, <1>5, <1>10
    <3>. QED  BY <1>7, <2>2, <3>1 DEF Distinct
  <2>. QED  BY <2>1, <2>2
<1>11. Distinct'
  BY <1>4, <1>10 DEF Distinct
<1>12. ASSUME NEW x, NEW g, Entry(x, g)'  PROVE Entry(x, g) \/ (x = n /\ g = h)
  <2>1. PICK k \in DOMAIN m : m[k].acName = x /\ m[k].kHSocket = g
    BY <1>4, <1>12 DEF Entry
  <2>. QED  BY <1>6, <1>7, <2>1 DEF Entry
<1>13. ASSUME NEW x, NEW g, Entry(x, g) \/ (x = n /\ g = h)  PROVE Entry(x, g)'
  <2>1. CASE Entry(x, g)
    BY <1>4, <1>8, <2>1 DEF Entry
  <2>2. CASE x = n /\ g = h
    BY <1>4, <1>6, <2>2 DEF Entry
  <2>. QED  BY <1>13, <2>1, <2>2
<1>. QED  BY <1>3, <1>4, <1>11, <1>12, <1>13

-----------------------------------------------------------------------------
(* Slots.                                                                  *)

ConnRecord == [stage : {"free", "opening", "open", "closing", "closed"},
               out : {FALSE}, h : Handles \cup {NoHandle}]

LEMMA HandleTuple ==
  ASSUME NEW i \in Slots, NEW t \in Ticks
  PROVE  <<i, t>> \in Handles /\ <<i, t>> # NoHandle /\ <<i, t>>[1] = i
<1>1. t \in Nat
  <2>1. MaxTick \in Nat
    BY GatewayAssumption, Zenon
  <2>. QED  BY <2>1 DEF Ticks
<1>2. <<i, t>> \in Slots \X Ticks /\ <<i, t>> \in Slots \X Nat
  BY <1>1
<1>3. <<i, t>>[1] = i
  OBVIOUS
<1>4. <<i, t>> # NoHandle
  BY <1>2, GatewayAssumption, Zenon
<1>5. <<i, t>> \in Handles
  BY <1>2 DEF Handles
<1>. QED  BY <1>3, <1>4, <1>5

(* A slot in use has a handle with its index.                              *)
LEMMA RealHandle ==
  ASSUME IInv, NEW i \in Slots, conn[i].stage # "free"
  PROVE  /\ conn[i].h \in Handles /\ conn[i].h # NoHandle /\ conn[i].h[1] = i
         /\ belong[i] \in {"in", "out"}
<1>1. PICK t \in Ticks : conn[i].h = <<i, t>>
  BY DEF IInv, SlotsOK
<1>2. belong[i] \in {"in", "out"}
  BY DEF IInv, SlotsOK, TypeOK
<1>3. <<i, t>> \in Handles /\ <<i, t>> # NoHandle /\ <<i, t>>[1] = i
  BY HandleTuple
<1>. QED  BY <1>1, <1>2, <1>3, Zenon

LEMMA FreeSlot ==
  ASSUME IInv, NEW i \in Slots, conn[i].stage = "free"
  PROVE  conn[i].h = NoHandle /\ belong[i] = "none"
BY DEF IInv, SlotsOK, Core!Free

LEMMA SameHandle ==
  ASSUME IInv, NEW i \in Slots, NEW j \in Slots, conn[i].stage # "free", conn[i].h = conn[j].h
  PROVE  i = j
<1>1. conn[j].stage # "free"
  BY RealHandle, FreeSlot
<1>2. conn[i].h[1] = i /\ conn[j].h[1] = j
  BY <1>1, RealHandle
<1>. QED  BY <1>2, Zenon

(* What the slot is like whose event is being handled.                     *)
LEMMA EventSlot ==
  ASSUME IInv, work, NEW i \in Slots, ev.h = conn[i].h
  PROVE  /\ conn[i].stage # "free"
         /\ \/ ev.kind = "CONNECT" /\ conn[i].stage = "open"
            \/ /\ ev.kind = "RECV_DATA" /\ conn[i].stage = "open"
               /\ \A j \in Slots : conn[j].stage \in {"free", "open"}
            \/ ev.kind = "DISCONNECT" /\ conn[i].stage = "closed"
<1>1. PICK j \in Slots :
        /\ ev.h = conn[j].h
        /\ \/ ev.kind = "CONNECT" /\ conn[j].stage = "open"
           \/ /\ ev.kind = "RECV_DATA" /\ conn[j].stage = "open"
              /\ \A k \in Slots : conn[k].stage \in {"free", "open"}
           \/ ev.kind = "DISCONNECT" /\ conn[j].stage = "closed"
  BY DEF IInv, EventOK
<1>2. conn[j].stage # "free"
  BY <1>1
<1>3. j = i
  BY <1>1, <1>2, SameHandle
<1>. QED  BY <1>1, <1>3

(* What a call of the program can do to the connections.                   *)
OnlyCloses ==
  /\ conn' \in [Slots -> ConnRecord]
  /\ \A i \in Slots : conn'[i].h = conn[i].h
  /\ \A i \in Slots : \/ conn'[i] = conn[i]
                      \/ conn[i].stage = "open" /\ conn'[i].stage = "closing"

LEMMA KeepsOnlyCloses == ASSUME TypeOK, UNCHANGED conn  PROVE OnlyCloses
BY DEF TypeOK, OnlyCloses, ConnRecord

LEMMA CloseOnlyCloses == ASSUME TypeOK, NEW i \in Slots, Core!Close(i)  PROVE OnlyCloses
BY DEF TypeOK, OnlyCloses, ConnRecord, Core!Close, Core!Stage

LEMMA DisconnectOnlyCloses == ASSUME TypeOK, NEW h, Disconnect(h)  PROVE OnlyCloses
<1>1. CASE CanSend(h)
  <2>1. \E i \in Slots : Core!Close(i)
    BY <1>1 DEF Disconnect
  <2>. QED  BY <2>1, CloseOnlyCloses
<1>2. CASE ~CanSend(h)
  <2>1. UNCHANGED conn
    BY <1>2 DEF Disconnect
  <2>. QED  BY <2>1, KeepsOnlyCloses
<1>. QED  BY <1>1, <1>2

(* SeNetCoreDisconnect of an active connection.                            *)
LEMMA DisconnectSlot ==
  ASSUME IInv, NEW i \in Slots, conn[i].stage = "open", Disconnect(conn[i].h)
  PROVE  conn'[i].stage = "closing"
<1>1. CanSend(conn[i].h)
  BY DEF CanSend, Holds
<1>2. PICK j \in Slots : Holds(j, conn[i].h) /\ Core!Close(j)
  BY <1>1 DEF Disconnect
<1>3. i = j
  BY <1>2, SameHandle DEF Holds
<1>. QED  BY <1>2, <1>3 DEF IInv, TypeOK, Core!Close, Core!Stage

-----------------------------------------------------------------------------
(* Handlers.  Only the DISCONNECT of a service takes its entry out.        *)

KeepsEntries(listener) ==
  /\ kRegSvrList' \in Seq([acName : Services, kHSocket : Handles])
  /\ Distinct'
  /\ \A n, h : Entry(n, h)' <=>
                 Entry(n, h) /\ ~(listener = "in" /\ ev.kind = "DISCONNECT" /\ h = ev.h)

LEMMA SameEntries ==
  ASSUME IInv, NEW listener, UNCHANGED kRegSvrList, listener = "out" \/ ev.kind # "DISCONNECT"
  PROVE  KeepsEntries(listener)
BY DEF IInv, TypeOK, KeepsEntries, Distinct, Entry

(* What is the same in every handler that adds no service.                 *)
LEMMA BasicsOK ==
  ASSUME IInv, NEW i \in Slots, NEW listener \in {"in", "out"}, Handling(i, listener),
         OnlyCloses, KeepsEntries(listener)
  PROVE  /\ SlotsOK' /\ EventOK' /\ NothingSent' /\ Distinct' /\ EntriesOK'
         /\ \A s \in Slots : Present(s)' => Present(s) /\ conn[s].stage # "closed"
         /\ \A s \in Slots : conn'[s].stage = "open" => conn[s].stage = "open"
         /\ \A s \in Slots : ~New(s)'
         /\ \A s \in Slots : \A n : Present(s)' => (Entry(n, conn[s].h)' <=> Entry(n, conn[s].h))
<1>1. /\ work /\ ~work' /\ ev.h = conn[i].h /\ belong[i] = listener /\ ev' = ev /\ belong' = belong
  BY DEF Handling
<1>2. /\ conn[i].stage # "free"
      /\ \/ ev.kind = "CONNECT" /\ conn[i].stage = "open"
         \/ ev.kind = "RECV_DATA" /\ conn[i].stage = "open"
         \/ ev.kind = "DISCONNECT" /\ conn[i].stage = "closed"
  BY <1>1, EventSlot
<1>3. SlotsOK'
  <2> SUFFICES ASSUME NEW j \in Slots
               PROVE  IF conn'[j].stage = "free"
                        THEN conn'[j] = Core!Free /\ belong'[j] = "none"
                        ELSE belong'[j] # "none" /\ \E t \in Ticks : conn'[j].h = <<j, t>>
    BY DEF SlotsOK, Core!Free
  <2>1. CASE conn'[j] = conn[j]
    BY <1>1, <2>1 DEF IInv, SlotsOK
  <2>2. CASE conn[j].stage = "open" /\ conn'[j].stage = "closing"
    <3>1. belong[j] # "none" /\ \E t \in Ticks : conn[j].h = <<j, t>>
      BY <2>2 DEF IInv, SlotsOK
    <3>. QED  BY <1>1, <2>2, <3>1 DEF OnlyCloses
  <2>. QED  BY <2>1, <2>2 DEF OnlyCloses
<1>4. EventOK' /\ NothingSent'
  BY <1>1, <1>2 DEF EventOK, NothingSent, NoEvent
<1>5. \A s \in Slots : Present(s)' => Present(s) /\ conn[s].stage # "closed"
  BY <1>1 DEF Present, OnlyCloses
<1>6. \A s \in Slots : conn'[s].stage = "open" => conn[s].stage = "open"
  BY DEF OnlyCloses
<1>7. \A s \in Slots : ~New(s)'
  BY <1>1 DEF New
<1>8. ASSUME NEW s \in Slots, NEW n, Present(s)'
      PROVE  Entry(n, conn[s].h)' <=> Entry(n, conn[s].h)
  <2>1. conn'[s].h = conn[s].h
    BY DEF OnlyCloses
  <2>2. ev.kind = "DISCONNECT" => conn[s].h # ev.h
    <3> SUFFICES ASSUME ev.kind = "DISCONNECT", conn[s].h = ev.h  PROVE FALSE
      OBVIOUS
    <3>1. s = i
      BY <1>1, <1>2, SameHandle
    <3>. QED  BY <1>2, <1>5, <1>8, <3>1
  <2>. QED  BY <2>1, <2>2 DEF KeepsEntries
<1>9. EntriesOK'
  <2> SUFFICES ASSUME NEW n \in Services, NEW h \in Handles, Entry(n, h)'
               PROVE  \E s \in Slots : conn'[s].h = h /\ belong'[s] = "in" /\ Present(s)'
    BY DEF EntriesOK, Handles, Ticks
  <2>1. Entry(n, h) /\ ~(listener = "in" /\ ev.kind = "DISCONNECT" /\ h = ev.h)
    BY DEF KeepsEntries
  <2>2. PICK s \in Slots : conn[s].h = h /\ belong[s] = "in" /\ Present(s)
    BY <2>1 DEF IInv, EntriesOK
  <2>3. conn[s].stage \in {"open", "closing"}
    <3> SUFFICES ASSUME conn[s].stage = "closed", ev.h = conn[s].h  PROVE FALSE
      BY <2>2 DEF Present
    <3>1. ev.kind = "DISCONNECT" /\ s = i
      BY <1>1, <1>2, EventSlot, SameHandle
    <3>. QED  BY <1>1, <2>1, <2>2, <3>1
  <2>4. conn'[s].h = h /\ belong'[s] = "in" /\ conn'[s].stage \in {"open", "closing"}
    BY <1>1, <2>2, <2>3 DEF OnlyCloses
  <2>. QED  BY <2>4 DEF Present
<1>. QED  BY <1>3, <1>4, <1>5, <1>6, <1>7, <1>8, <1>9 DEF KeepsEntries

(* A handler after which the services know what they knew before.          *)
LEMMA HandledOK ==
  ASSUME IInv, NEW i \in Slots, NEW listener \in {"in", "out"}, Handling(i, listener),
         OnlyCloses, KeepsEntries(listener), UNCHANGED <<acBindSvrName, told>>,
         listener = "out" => \/ ev.kind = "RECV_DATA"
                             \/ conn'[i].stage # "open" /\ ~Registered(Watchdog)
  PROVE  IInv'
<1>1. /\ SlotsOK' /\ EventOK' /\ NothingSent' /\ Distinct' /\ EntriesOK'
      /\ \A s \in Slots : Present(s)' => Present(s) /\ conn[s].stage # "closed"
      /\ \A s \in Slots : conn'[s].stage = "open" => conn[s].stage = "open"
      /\ \A s \in Slots : ~New(s)'
      /\ \A s \in Slots : \A n : Present(s)' => (Entry(n, conn[s].h)' <=> Entry(n, conn[s].h))
  BY BasicsOK
<1>2. /\ work /\ work' = FALSE /\ ev.h = conn[i].h /\ belong[i] = listener
      /\ ev' = ev /\ belong' = belong
  BY DEF Handling
<1>3. TypeOK'
  BY <1>2 DEF IInv, TypeOK, OnlyCloses, ConnRecord, KeepsEntries
<1>4. ToldOK'
  <2> SUFFICES ASSUME NEW s \in Slots, NEW c \in Slots, told[s][c] # "none"
               PROVE  /\ belong[s] = "in" /\ conn'[s].stage # "opening"
                      /\ belong[c] = "out" /\ conn'[c].stage # "opening"
                      /\ Present(s)' => RegisteredAt(conn[s].h)'
    BY <1>1, <1>2 DEF ToldOK
  <2>1. /\ belong[s] = "in" /\ conn[s].stage # "opening"
        /\ belong[c] = "out" /\ conn[c].stage # "opening"
        /\ Present(s) => RegisteredAt(conn[s].h)
    BY DEF IInv, ToldOK
  <2>2. conn'[s].stage # "opening" /\ conn'[c].stage # "opening"
    BY <2>1 DEF OnlyCloses
  <2>3. ASSUME Present(s)'  PROVE RegisteredAt(conn[s].h)'
    <3>1. PICK n : Entry(n, conn[s].h)
      BY <1>1, <2>1, <2>3, RegisteredAtEntry
    <3>2. Entry(n, conn[s].h)'
      BY <1>1, <2>3, <3>1
    <3>. QED  BY <3>2 DEF Entry, RegisteredAt
  <2>. QED  BY <2>1, <2>2, <2>3
<1>5. Registered(Watchdog)' => Registered(Watchdog)
  <2>1. \A n, h : Entry(n, h)' => Entry(n, h)
    BY DEF KeepsEntries
  <2>. QED  BY <2>1 DEF Registered, Entry
<1>6. Hears'
  <2> SUFFICES ASSUME NEW s \in Slots, NEW c \in Slots, NEW n \in Services,
                      Live(c)', conn'[s].stage = "open",
                      Entry(n, conn[s].h)', n \in {Watchdog, acBindSvrName[c]}
               PROVE  told[s][c] \in {"here", "inherited"}
    BY DEF Hears, Knows
  <2>1. conn[s].stage = "open" /\ Entry(n, conn[s].h)
    <3>1. Present(s)'
      BY DEF Present
    <3>. QED  BY <1>1, <3>1
  <2>2. belong[c] = "out" /\ (conn'[c].stage # "open" => Present(c)' /\ Registered(Watchdog)')
    BY <1>2 DEF Live
  <2>3. Live(c)
    <3>1. CASE conn'[c].stage = "open"
      <4>1. conn[c].stage = "open"
        BY <1>1, <3>1
      <4>2. ~New(c)
        <5> SUFFICES ASSUME New(c)  PROVE FALSE
          OBVIOUS
        <5>1. c = i
          BY <1>2, <4>1, SameHandle DEF New
        <5>. QED  BY <1>2, <2>2, <3>1, <5>1 DEF New
      <4>. QED  BY <2>2, <4>1, <4>2 DEF Live
    <3>2. CASE conn'[c].stage # "open"
      <4>1. Present(c) /\ Registered(Watchdog)
        BY <1>1, <1>5, <2>2, <3>2
      <4>2. CASE conn[c].stage # "open"
        BY <2>2, <4>1, <4>2 DEF Live
      <4>3. CASE conn[c].stage = "open"
        <5>1. ~New(c)
          <6> SUFFICES ASSUME New(c)  PROVE FALSE
            OBVIOUS
          <6>1. c = i
            BY <1>2, <4>3, SameHandle DEF New
          <6>. QED  BY <1>2, <2>2, <4>1, <6>1 DEF New
        <5>. QED  BY <2>2, <4>3, <5>1 DEF Live
      <4>. QED  BY <4>2, <4>3
    <3>. QED  BY <3>1, <3>2
  <2>. QED  BY <2>1, <2>3 DEF IInv, Hears, Knows
<1>7. Bound'
  <2> SUFFICES ASSUME NEW s \in Slots, NEW c \in Slots, NEW n \in Services,
                      Present(c)', told[s][c] # "none", Entry(n, conn[s].h)'
               PROVE  n \in {Watchdog, acBindSvrName[c]}
    BY DEF Bound
  <2>1. conn'[s].h = conn[s].h /\ Entry(n, conn[s].h) /\ Present(c)
    BY <1>1 DEF OnlyCloses, KeepsEntries
  <2>. QED  BY <2>1 DEF IInv, Bound
<1>. QED  BY <1>1, <1>3, <1>4, <1>6, <1>7 DEF IInv

-----------------------------------------------------------------------------
(* Messages about a client.                                                *)

Told(kind, s, c) ==
  IF kind = "CONNECT" THEN "here" ELSE IF kind = "DISCONNECT" THEN "gone" ELSE told[s][c]

(* The services with these handles are told this of client c.              *)
Tells(kind, c, H) ==
  /\ \A h \in H : \E n : Entry(n, h)
  /\ \A m : m \in sent' <=> \E h \in H : m = Msg(kind, h, c) /\ conn[m.to].stage = "open"
  /\ told' = Learning(sent')

LEMMA SendingTells ==
  ASSUME IInv, NEW kind \in {"CONNECT", "DISCONNECT", "DATA"}, NEW c \in Slots, NEW H,
         Tells(kind, c, H)
  PROVE  /\ told' \in [Slots -> [Slots -> {"none", "inherited", "here", "gone"}]]
         /\ \A s, d \in Slots :
              told'[s][d] = IF d = c /\ conn[s].stage = "open" /\ conn[s].h \in H
                              THEN Told(kind, s, c) ELSE told[s][d]
         /\ \A m \in sent' : /\ m.kind = kind /\ m.client = c /\ m.to \in Slots
                             /\ conn[m.to].stage = "open" /\ conn[m.to].h \in H
<1> DEFINE Hit(s, d) == d = c /\ conn[s].stage = "open" /\ conn[s].h \in H
<1>1. ASSUME NEW h \in H  PROVE \E s \in Slots : conn[s].h = h /\ h[1] = s
  <2>1. PICK n : Entry(n, h)
    BY DEF Tells
  <2>2. n \in Services /\ h \in Handles
    BY <2>1, EntryType DEF IInv
  <2>3. PICK s \in Slots : conn[s].h = h /\ Present(s)
    BY <2>1, <2>2 DEF IInv, EntriesOK
  <2>4. conn[s].stage # "free"
    BY <2>3 DEF Present
  <2>. QED  BY <2>3, <2>4, RealHandle
<1>2. ASSUME NEW m \in sent'
      PROVE  /\ m.kind = kind /\ m.client = c /\ m.to \in Slots
             /\ conn[m.to].stage = "open" /\ conn[m.to].h \in H
  <2>1. PICK h \in H : m = Msg(kind, h, c) /\ conn[m.to].stage = "open"
    BY DEF Tells
  <2>2. PICK s \in Slots : conn[s].h = h /\ h[1] = s
    BY <1>1
  <2>3. m.kind = kind /\ m.client = c /\ m.to = s
    BY <2>1, <2>2 DEF Msg
  <2>. QED  BY <2>1, <2>2, <2>3
<1>3. ASSUME NEW s \in Slots, NEW d \in Slots, Hit(s, d)
      PROVE  Says(sent', kind, s, d)
  <2> DEFINE m == Msg(kind, conn[s].h, c)
  <2>1. conn[s].h[1] = s
    BY <1>3, RealHandle
  <2>2. m.to = s /\ m.kind = kind /\ m.client = c
    BY <2>1 DEF Msg
  <2>3. m \in sent'
    BY <1>3, <2>2 DEF Tells
  <2>. QED  BY <1>3, <2>2, <2>3 DEF Says
<1>4. \A k, s, d : Says(sent', k, s, d) => k = kind /\ Hit(s, d)
  BY <1>2 DEF Says
<1>5. told \in [Slots -> [Slots -> {"none", "inherited", "here", "gone"}]]
  BY DEF IInv, TypeOK
<1>6. ASSUME NEW s \in Slots, NEW d \in Slots
      PROVE  told'[s][d] = IF Hit(s, d) THEN Told(kind, s, c) ELSE told[s][d]
  <2>1. told'[s][d] = IF Says(sent', "CONNECT", s, d) THEN "here"
                      ELSE IF Says(sent', "DISCONNECT", s, d) THEN "gone" ELSE told[s][d]
    BY DEF Learning, Tells
  <2>2. CASE Hit(s, d)
    <3>1. Says(sent', kind, s, d)
      BY <1>3, <2>2
    <3>2. CASE kind = "CONNECT"
      BY <2>1, <2>2, <3>1, <3>2 DEF Told
    <3>3. CASE kind # "CONNECT"
      <4>1. ~Says(sent', "CONNECT", s, d)
        BY <1>4, <3>3
      <4>2. kind # "DISCONNECT" => ~Says(sent', "DISCONNECT", s, d)
        BY <1>4
      <4>. QED  BY <2>1, <2>2, <3>1, <3>3, <4>1, <4>2 DEF Told
    <3>. QED  BY <3>2, <3>3
  <2>3. CASE ~Hit(s, d)
    BY <1>4, <2>1, <2>3
  <2>. QED  BY <2>2, <2>3
<1>7. told' \in [Slots -> [Slots -> {"none", "inherited", "here", "gone"}]]
  BY <1>5 DEF Learning, Tells
<1>. QED  BY <1>2, <1>6, <1>7

(* A handler that changes neither connections nor registry.                *)
LEMMA OnlyTellsOK ==
  ASSUME IInv, NEW i \in Slots, NEW listener \in {"in", "out"}, Handling(i, listener),
         UNCHANGED <<conn, kRegSvrList>>, listener = "out" \/ ev.kind # "DISCONNECT",
         acBindSvrName' \in [Slots -> Services \cup {Unbound}],
         told' \in [Slots -> [Slots -> {"none", "inherited", "here", "gone"}]]
  PROVE  /\ TypeOK' /\ SlotsOK' /\ EventOK' /\ NothingSent' /\ Distinct' /\ EntriesOK'
         /\ \A s \in Slots : Present(s)' <=> conn[s].stage \in {"open", "closing"}
         /\ \A s \in Slots : ~New(s)'
         /\ \A n, h : Entry(n, h)' <=> Entry(n, h)
         /\ work /\ ev.h = conn[i].h /\ belong[i] = listener /\ belong' = belong
<1>1. OnlyCloses /\ KeepsEntries(listener)
  BY KeepsOnlyCloses, SameEntries DEF IInv
<1>2. /\ work /\ work' = FALSE /\ ev.h = conn[i].h /\ belong[i] = listener
      /\ ev' = ev /\ belong' = belong /\ conn' = conn /\ kRegSvrList' = kRegSvrList
  BY DEF Handling
<1>3. TypeOK'
  BY <1>2 DEF IInv, TypeOK
<1>4. \A s \in Slots : Present(s)' <=> conn[s].stage \in {"open", "closing"}
  BY <1>2 DEF Present
<1>5. \A n, h : Entry(n, h)' <=> Entry(n, h)
  BY <1>2 DEF Entry
<1>. QED  BY <1>1, <1>2, <1>3, <1>4, <1>5, BasicsOK

(* The registry holds services only, so it does not have a client's handle.*)
LEMMA EntrySlot ==
  ASSUME IInv, NEW n, NEW s \in Slots, conn[s].stage # "free", Entry(n, conn[s].h)
  PROVE  belong[s] = "in" /\ Present(s)
<1>1. n \in Services /\ conn[s].h \in Handles
  BY EntryType DEF IInv
<1>2. PICK r \in Slots : conn[r].h = conn[s].h /\ belong[r] = "in" /\ Present(r)
  BY <1>1 DEF IInv, EntriesOK
<1>3. r = s
  BY <1>2, SameHandle
<1>. QED  BY <1>2, <1>3

(* A handler that changes what is known of one client c, and where its     *)
(* data goes, in a way that the services agree about c.                    *)
TellsOfOne(c) ==
  /\ UNCHANGED <<conn, kRegSvrList>>
  /\ belong[c] = "out" /\ conn[c].stage # "opening"
  /\ acBindSvrName' \in [Slots -> Services \cup {Unbound}]
  /\ told' \in [Slots -> [Slots -> {"none", "inherited", "here", "gone"}]]
  /\ \A d \in Slots : d # c => acBindSvrName'[d] = acBindSvrName[d]
  /\ \A s, d \in Slots : d # c => told'[s][d] = told[s][d]
  /\ \A s \in Slots : told'[s][c] # told[s][c] =>
       conn[s].stage = "open" /\ \E n : Entry(n, conn[s].h)
  /\ \A s \in Slots, n \in Services :
       conn[c].stage \in {"open", "closing"} /\ Entry(n, conn[s].h) =>
         /\ conn[s].stage = "open" /\ n \in {Watchdog, acBindSvrName'[c]} =>
              (Live(c)' => told'[s][c] \in {"here", "inherited"})
         /\ told'[s][c] # "none" => n \in {Watchdog, acBindSvrName'[c]}

LEMMA TellsOfOneOK ==
  ASSUME IInv, NEW i \in Slots, NEW listener \in {"in", "out"}, Handling(i, listener),
         listener = "out" \/ ev.kind # "DISCONNECT",
         NEW c \in Slots, listener = "out" => c = i, TellsOfOne(c)
  PROVE  IInv'
<1>1. /\ TypeOK' /\ SlotsOK' /\ EventOK' /\ NothingSent' /\ Distinct' /\ EntriesOK'
      /\ \A s \in Slots : Present(s)' <=> conn[s].stage \in {"open", "closing"}
      /\ \A s \in Slots : ~New(s)'
      /\ \A n, h : Entry(n, h)' <=> Entry(n, h)
      /\ work /\ ev.h = conn[i].h /\ belong[i] = listener /\ belong' = belong
  BY OnlyTellsOK DEF TellsOfOne
<1>2. UNCHANGED <<conn, kRegSvrList>>
  BY DEF TellsOfOne
<1>3. ToldOK'
  <2>1. ASSUME NEW s \in Slots, NEW d \in Slots, told'[s][d] # "none"
        PROVE  /\ belong[s] = "in" /\ conn[s].stage # "opening"
               /\ belong[d] = "out" /\ conn[d].stage # "opening"
               /\ Present(s)' => RegisteredAt(conn[s].h)
    <3>1. CASE told[s][d] # "none"
      <4>1. Present(s)' => Present(s)
        BY <1>1 DEF Present
      <4>. QED  BY <3>1, <4>1 DEF IInv, ToldOK
    <3>2. CASE told[s][d] = "none"
      <4>1. d = c /\ conn[s].stage = "open"
        BY <2>1, <3>2 DEF TellsOfOne
      <4>2. PICK n : Entry(n, conn[s].h)
        BY <2>1, <3>2, <4>1 DEF TellsOfOne
      <4>3. belong[s] = "in"
        BY <4>1, <4>2, EntrySlot
      <4>. QED  BY <4>1, <4>2, <4>3, RegisteredAtEntry DEF TellsOfOne
    <3>. QED  BY <3>1, <3>2
  <2>2. ASSUME NEW s \in Slots, RegisteredAt(conn[s].h)  PROVE RegisteredAt(conn[s].h)'
    BY <1>2, <2>2 DEF RegisteredAt
  <2>3. belong' = belong /\ \A s \in Slots : ~New(s)'
    BY <1>1
  <2>. QED  BY <1>2, <2>1, <2>2, <2>3 DEF ToldOK
<1>4. Hears'
  <2> SUFFICES ASSUME NEW s \in Slots, NEW d \in Slots, NEW n \in Services,
                      Live(d)', conn[s].stage = "open",
                      Entry(n, conn[s].h), n \in {Watchdog, acBindSvrName'[d]}
               PROVE  told'[s][d] \in {"here", "inherited"}
    BY <1>1, <1>2 DEF Hears, Knows
  <2>1. belong[d] = "out" /\ conn[d].stage \in {"open", "closing"}
    BY <1>1, <1>2 DEF Live
  <2>2. CASE d = c
    BY <2>1, <2>2 DEF TellsOfOne
  <2>3. CASE d # c
    <3>1. ~New(d)
      <4> SUFFICES ASSUME New(d)  PROVE FALSE
        OBVIOUS
      <4>1. conn[d].h = conn[i].h /\ conn[d].stage # "free" /\ belong[i] = listener
        BY <1>1, <2>1 DEF New
      <4>2. d = i
        BY <4>1, SameHandle
      <4>. QED  BY <2>1, <2>3, <4>1, <4>2
    <3>2. Live(d)
      <4>1. Registered(Watchdog)' => Registered(Watchdog)
        BY <1>2 DEF Registered
      <4>. QED  BY <1>2, <2>1, <3>1, <4>1 DEF Live, Present
    <3>. QED  BY <2>3, <3>2 DEF IInv, Hears, Knows, TellsOfOne
  <2>. QED  BY <2>2, <2>3
<1>5. Bound'
  <2> SUFFICES ASSUME NEW s \in Slots, NEW d \in Slots, NEW n \in Services,
                      conn[d].stage \in {"open", "closing"},
                      told'[s][d] # "none", Entry(n, conn[s].h)
               PROVE  n \in {Watchdog, acBindSvrName'[d]}
    BY <1>1, <1>2 DEF Bound
  <2>1. CASE d = c
    BY <2>1 DEF TellsOfOne
  <2>2. CASE d # c
    <3>1. Present(d) /\ told[s][d] # "none"
      BY <2>2 DEF Present, TellsOfOne
    <3>. QED  BY <2>2, <3>1 DEF IInv, Bound, TellsOfOne
  <2>. QED  BY <2>1, <2>2
<1>. QED  BY <1>1, <1>3, <1>4, <1>5 DEF IInv

-----------------------------------------------------------------------------
(* The clients' handlers.                                                  *)

LEMMA ClientRefusedOK == ASSUME IInv, NEW c \in Slots, ClientRefused(c)  PROVE IInv'
<1>1. /\ Handling(c, "out") /\ ~Registered(Watchdog) /\ Disconnect(conn[c].h)
      /\ UNCHANGED <<acBindSvrName, kRegSvrList, told>>
  BY DEF ClientRefused, SendingNothing
<1>2. OnlyCloses /\ KeepsEntries("out")
  <2>1. PICK h : h = conn[c].h
    OBVIOUS
  <2>2. Disconnect(h)
    BY <1>1, <2>1 DEF Disconnect, CanSend, Holds
  <2>. QED  BY <1>1, <2>2, DisconnectOnlyCloses, SameEntries DEF IInv
<1>3. conn'[c].stage # "open"
  <2>1. conn[c].stage \in {"open", "closed"}
    BY <1>1, EventSlot DEF Handling
  <2>2. CASE conn[c].stage = "open"
    BY <1>1, <2>2, DisconnectSlot
  <2>3. CASE conn[c].stage = "closed"
    BY <1>2, <2>3 DEF OnlyCloses
  <2>. QED  BY <2>1, <2>2, <2>3
<1>. QED  BY <1>1, <1>2, <1>3, HandledOK

(* A client is announced to the watchdog.                                  *)
LEMMA ClientConnectTells ==
  ASSUME IInv, NEW c \in Slots, ClientConnect(c)  PROVE Tells("CONNECT", c, {SocketOf(Watchdog)})
<1>1. PICK w : w = SocketOf(Watchdog)
  OBVIOUS
<1>2. Entry(Watchdog, w)
  BY <1>1, SocketOfName DEF IInv, ClientConnect, ClientEvent
<1>3. /\ sent' = {m \in {Msg("CONNECT", w, c)} : conn[m.to].stage = "open"}
      /\ told' = Learning(sent')
  BY <1>1 DEF ClientConnect, Sending
<1>4. \A m : m \in sent' <=> \E h \in {w} : m = Msg("CONNECT", h, c) /\ conn[m.to].stage = "open"
  BY <1>3
<1>5. \A h \in {w} : \E n : Entry(n, h)
  BY <1>2
<1>. QED  BY <1>1, <1>3, <1>4, <1>5 DEF Tells

LEMMA ClientConnectOK == ASSUME IInv, NEW c \in Slots, ClientConnect(c)  PROVE IInv'
<1>1. PICK w : w = SocketOf(Watchdog)
  OBVIOUS
<1>2. /\ Handling(c, "out") /\ Registered(Watchdog) /\ ev.kind = "CONNECT"
      /\ work /\ ev.h = conn[c].h /\ belong[c] = "out"
      /\ UNCHANGED <<conn, kRegSvrList>>
      /\ acBindSvrName' = [acBindSvrName EXCEPT ![c] = Unbound]
  BY DEF ClientConnect, ClientEvent, Handling
<1>3. Entry(Watchdog, w)
  BY <1>1, <1>2, SocketOfName DEF IInv
<1>4. /\ told' \in [Slots -> [Slots -> {"none", "inherited", "here", "gone"}]]
      /\ \A s, d \in Slots :
           told'[s][d] = IF d = c /\ conn[s].stage = "open" /\ conn[s].h \in {w}
                           THEN Told("CONNECT", s, c) ELSE told[s][d]
  <2>1. Tells("CONNECT", c, {w})
    BY <1>1, ClientConnectTells DEF Tells
  <2>. QED  BY <2>1, SendingTells
<1>5. conn[c].stage = "open" /\ \A s \in Slots : told[s][c] = "none"
  BY <1>2, EventSlot DEF New, IInv, ToldOK
<1>6. \A s, d \in Slots :
        /\ d # c => told'[s][d] = told[s][d]
        /\ told'[s][c] = IF conn[s].stage = "open" /\ conn[s].h = w THEN "here" ELSE "none"
  BY <1>4, <1>5 DEF Told
<1>7. /\ acBindSvrName' \in [Slots -> Services \cup {Unbound}] /\ acBindSvrName'[c] = Unbound
      /\ \A d \in Slots : d # c => acBindSvrName'[d] = acBindSvrName[d]
  BY <1>2 DEF IInv, TypeOK
<1>8. ASSUME NEW s \in Slots, NEW n \in Services, Entry(n, conn[s].h)
      PROVE  n \in {Watchdog, acBindSvrName'[c]} <=> conn[s].h = w
  <2>1. n # Unbound
    BY GatewayAssumption, Zenon
  <2>2. n = Watchdog <=> conn[s].h = w
    BY <1>3, <1>8, EntryUnique DEF IInv
  <2>. QED  BY <1>7, <2>1, <2>2
<1>9. \A s \in Slots : told'[s][c] # told[s][c] =>
        conn[s].stage = "open" /\ \E n : Entry(n, conn[s].h)
  BY <1>3, <1>5, <1>6
<1>10. \A s \in Slots, n \in Services :
         conn[c].stage \in {"open", "closing"} /\ Entry(n, conn[s].h) =>
           /\ conn[s].stage = "open" /\ n \in {Watchdog, acBindSvrName'[c]} =>
                told'[s][c] \in {"here", "inherited"}
           /\ told'[s][c] # "none" => n \in {Watchdog, acBindSvrName'[c]}
  BY <1>6, <1>8
<1>11. TellsOfOne(c)
  BY <1>2, <1>4, <1>5, <1>6, <1>7, <1>9, <1>10 DEF TellsOfOne
<1>. QED  BY <1>2, <1>11, TellsOfOneOK

LEMMA BoundToEntries ==
  ASSUME IInv, NEW c \in Slots, NEW h \in BoundTo(c)  PROVE Entry(acBindSvrName[c], h)
BY SocketOfName DEF BoundTo, IInv

(* The end of a client is told to the service it is bound to, and to the   *)
(* watchdog.                                                               *)
LEMMA ClientDisconnectTells ==
  ASSUME IInv, NEW c \in Slots, ClientDisconnect(c)
  PROVE  Tells("DISCONNECT", c, BoundTo(c) \cup {SocketOf(Watchdog)})
<1>1. PICK H : H = BoundTo(c) \cup {SocketOf(Watchdog)}
  OBVIOUS
<1>2. Entry(Watchdog, SocketOf(Watchdog))
  BY SocketOfName DEF IInv, ClientDisconnect, ClientEvent
<1>3. \A h \in H : \E n : Entry(n, h)
  BY <1>1, <1>2, BoundToEntries
<1>4. /\ sent' = {m \in {Msg("DISCONNECT", h, c) : h \in H} : conn[m.to].stage = "open"}
      /\ told' = Learning(sent')
  BY <1>1 DEF ClientDisconnect, Sending
<1>5. \A m : m \in sent' <=> \E h \in H : m = Msg("DISCONNECT", h, c) /\ conn[m.to].stage = "open"
  BY <1>4
<1>. QED  BY <1>1, <1>3, <1>4, <1>5 DEF Tells

LEMMA ClientDisconnectOK == ASSUME IInv, NEW c \in Slots, ClientDisconnect(c)  PROVE IInv'
<1>1. PICK H : H = BoundTo(c) \cup {SocketOf(Watchdog)}
  OBVIOUS
<1>2. /\ Handling(c, "out") /\ ev.kind = "DISCONNECT"
      /\ work /\ ev.h = conn[c].h /\ belong[c] = "out"
      /\ UNCHANGED <<conn, kRegSvrList>>
      /\ acBindSvrName' = [acBindSvrName EXCEPT ![c] = Unbound]
  BY DEF ClientDisconnect, ClientEvent, Handling
<1>3. Tells("DISCONNECT", c, H)
  BY <1>1, ClientDisconnectTells DEF Tells
<1>4. /\ told' \in [Slots -> [Slots -> {"none", "inherited", "here", "gone"}]]
      /\ \A s, d \in Slots :
           told'[s][d] = IF d = c /\ conn[s].stage = "open" /\ conn[s].h \in H
                           THEN Told("DISCONNECT", s, c) ELSE told[s][d]
  BY <1>3, SendingTells
<1>5. conn[c].stage = "closed"
  BY <1>2, EventSlot
<1>6. \A s, d \in Slots : d # c => told'[s][d] = told[s][d]
  BY <1>4
<1>7. /\ acBindSvrName' \in [Slots -> Services \cup {Unbound}]
      /\ \A d \in Slots : d # c => acBindSvrName'[d] = acBindSvrName[d]
  BY <1>2 DEF IInv, TypeOK
<1>8. \A s \in Slots : told'[s][c] # told[s][c] =>
        conn[s].stage = "open" /\ \E n : Entry(n, conn[s].h)
  BY <1>3, <1>4 DEF Tells
<1>9. TellsOfOne(c)
  BY <1>2, <1>4, <1>5, <1>6, <1>7, <1>8 DEF TellsOfOne
<1>. QED  BY <1>2, <1>9, TellsOfOneOK

LEMMA ClientDataTells ==
  ASSUME IInv, NEW c \in Slots, ClientData(c)
  PROVE  Tells("DATA", c, IF BoundTo(c) # {} THEN BoundTo(c) ELSE {SocketOf(Watchdog)})
<1>1. PICK H : H = IF BoundTo(c) # {} THEN BoundTo(c) ELSE {SocketOf(Watchdog)}
  OBVIOUS
<1>2. Entry(Watchdog, SocketOf(Watchdog))
  BY SocketOfName DEF IInv, ClientData, ClientEvent
<1>3. \A h \in H : \E n : Entry(n, h)
  BY <1>1, <1>2, BoundToEntries
<1>4. /\ sent' = {m \in {Msg("DATA", h, c) : h \in H} : conn[m.to].stage = "open"}
      /\ told' = Learning(sent')
  BY <1>1 DEF ClientData, Sending
<1>5. \A m : m \in sent' <=> \E h \in H : m = Msg("DATA", h, c) /\ conn[m.to].stage = "open"
  BY <1>4
<1>. QED  BY <1>1, <1>3, <1>4, <1>5 DEF Tells

LEMMA ClientDataOK == ASSUME IInv, NEW c \in Slots, ClientData(c)  PROVE IInv'
<1>1. PICK H : H = IF BoundTo(c) # {} THEN BoundTo(c) ELSE {SocketOf(Watchdog)}
  OBVIOUS
<1>2. /\ Handling(c, "out") /\ ev.kind = "RECV_DATA" /\ UNCHANGED <<conn, kRegSvrList, acBindSvrName>>
  BY DEF ClientData, ClientEvent
<1>3. /\ told' \in [Slots -> [Slots -> {"none", "inherited", "here", "gone"}]]
      /\ \A s, d \in Slots :
           told'[s][d] = IF d = c /\ conn[s].stage = "open" /\ conn[s].h \in H
                           THEN Told("DATA", s, c) ELSE told[s][d]
  <2>1. Tells("DATA", c, H)
    BY <1>1, ClientDataTells DEF Tells
  <2>. QED  BY <2>1, SendingTells
<1>4. \A s, d \in Slots : told'[s][d] = told[s][d]
  BY <1>3 DEF Told
<1>5. told' = told
  <2>1. \A s \in Slots : told'[s] = told[s]
    BY <1>3, <1>4 DEF IInv, TypeOK
  <2>. QED  BY <1>3, <2>1 DEF IInv, TypeOK
<1>6. OnlyCloses /\ KeepsEntries("out")
  BY <1>2, KeepsOnlyCloses, SameEntries DEF IInv
<1>. QED  BY <1>2, <1>5, <1>6, HandledOK

-----------------------------------------------------------------------------
(* The services' handlers.                                                 *)

(* After which the services know what they knew, and are the same ones.    *)
LEMMA QuietOK ==
  ASSUME IInv, NEW s \in Slots, Handling(s, "in"), ev.kind # "DISCONNECT",
         OnlyCloses, UNCHANGED <<acBindSvrName, kRegSvrList, told>>
  PROVE  IInv'
<1>1. KeepsEntries("in")
  BY SameEntries
<1>. QED  BY <1>1, HandledOK

LEMMA ServiceConnectOK == ASSUME IInv, NEW s \in Slots, ServiceConnect(s)  PROVE IInv'
<1>1. OnlyCloses
  BY KeepsOnlyCloses DEF IInv, ServiceConnect
<1>. QED  BY <1>1, QuietOK DEF ServiceConnect, SendingNothing

LEMMA ServiceActiveOK ==
  ASSUME IInv, NEW s \in Slots, NEW f, ServiceActive(s, f)  PROVE IInv'
<1>1. OnlyCloses
  BY KeepsOnlyCloses DEF IInv, ServiceActive
<1>. QED  BY <1>1, QuietOK DEF ServiceActive, ServiceFrame, SendingNothing

(* Every close in a handler is a SeNetCoreDisconnect.                      *)
LEMMA MaybeDisconnect ==
  ASSUME IInv, NEW s \in Slots, NEW f, \/ UNCHANGED conn \/ Disconnect(f.kHSocket)
                                       \/ Disconnect(conn[s].h)
  PROVE  OnlyCloses
<1>1. CASE UNCHANGED conn
  BY <1>1, KeepsOnlyCloses DEF IInv
<1>2. CASE Disconnect(f.kHSocket)
  BY <1>2, DisconnectOnlyCloses DEF IInv
<1>3. CASE Disconnect(conn[s].h)
  <2>1. PICK h : h = conn[s].h
    OBVIOUS
  <2>2. Disconnect(h)
    BY <1>3, <2>1 DEF Disconnect, CanSend, Holds
  <2>. QED  BY <2>2, DisconnectOnlyCloses DEF IInv
<1>. QED  BY <1>1, <1>2, <1>3

LEMMA CloseClientFrameOK ==
  ASSUME IInv, NEW s \in Slots, NEW f, CloseClientFrame(s, f)  PROVE IInv'
<1>1. OnlyCloses
  BY MaybeDisconnect DEF CloseClientFrame, CloseClient
<1>. QED  BY <1>1, QuietOK DEF CloseClientFrame, ServiceFrame, SendingNothing

LEMMA SendToClientOK ==
  ASSUME IInv, NEW s \in Slots, NEW f, SendToClient(s, f)  PROVE IInv'
<1>1. OnlyCloses
  BY MaybeDisconnect DEF SendToClient
<1>. QED  BY <1>1, QuietOK DEF SendToClient, ServiceFrame, SendingNothing

LEMMA SendToSvrOK ==
  ASSUME IInv, NEW s \in Slots, NEW f, SendToSvr(s, f)  PROVE IInv'
<1>1. OnlyCloses
  BY MaybeDisconnect DEF SendToSvr
<1>. QED  BY <1>1, QuietOK DEF SendToSvr, ServiceFrame, SendingNothing

(* The service's entry goes, whatever else the close is taken for.         *)
LEMMA ServiceDisconnectOK ==
  ASSUME IInv, NEW s \in Slots, NEW left, ServiceDisconnect(s, left)  PROVE IInv'
<1>1. /\ Handling(s, "in") /\ ev.kind = "DISCONNECT" /\ ev.h = conn[s].h
      /\ UNCHANGED <<acBindSvrName, told>>
  BY DEF ServiceDisconnect, SendingNothing, Handling
<1>2. OnlyCloses
  BY MaybeDisconnect DEF ServiceDisconnect
<1>3. KeepsEntries("in")
  <2>1. PICK h : h = conn[s].h
    OBVIOUS
  <2>2. kRegSvrList' = Without(h)
    BY <2>1 DEF ServiceDisconnect, Without, RegisteredAt
  <2>3. /\ kRegSvrList' \in Seq([acName : Services, kHSocket : Handles])
        /\ Distinct'
        /\ \A n, g : Entry(n, g)' <=> Entry(n, g) /\ g # h
    BY <2>2, WithoutEntry DEF IInv
  <2>. QED  BY <1>1, <2>1, <2>3 DEF KeepsEntries
<1>. QED  BY <1>1, <1>2, <1>3, HandledOK

(* The client that is bound, if any, is one that the service has never     *)
(* heard of.                                                               *)
LEMMA BindClientTells ==
  ASSUME IInv, NEW s \in Slots, NEW f, BindClient(s, f), NEW c \in Slots, CanBind(c, f),
         sent' # {} \/ acBindSvrName' # acBindSvrName \/ told' # told
  PROVE  /\ Tells("CONNECT", c, {SocketOf(f.acName)})
         /\ acBindSvrName' = [acBindSvrName EXCEPT ![c] = f.acName]
         /\ Entry(f.acName, SocketOf(f.acName))
<1>1. PICK w : w = SocketOf(f.acName)
  OBVIOUS
<1>2. PICK d \in Slots :
        /\ CanBind(d, f)
        /\ acBindSvrName' = [acBindSvrName EXCEPT ![d] = f.acName]
        /\ Sending({Msg("CONNECT", SocketOf(f.acName), d)})
  BY DEF BindClient
<1>3. c = d
  BY <1>2, SameHandle DEF CanBind, Holds
<1>4. Entry(f.acName, w)
  BY <1>1, SocketOfName DEF IInv, CanBind
<1>5. /\ sent' = {m \in {Msg("CONNECT", w, c)} : conn[m.to].stage = "open"}
      /\ told' = Learning(sent')
  BY <1>1, <1>2, <1>3 DEF Sending
<1>6. \A m : m \in sent' <=> \E h \in {w} : m = Msg("CONNECT", h, c) /\ conn[m.to].stage = "open"
  BY <1>5
<1>7. Tells("CONNECT", c, {SocketOf(f.acName)})
  BY <1>1, <1>4, <1>5, <1>6 DEF Tells
<1>. QED  BY <1>1, <1>2, <1>3, <1>4, <1>7

LEMMA BindClientOK ==
  ASSUME IInv, NEW s \in Slots, NEW f, BindClient(s, f)  PROVE IInv'
<1>1. Handling(s, "in") /\ ev.kind = "RECV_DATA" /\ UNCHANGED <<conn, kRegSvrList>>
  BY DEF BindClient, ServiceFrame
<1>2. CASE UNCHANGED <<acBindSvrName, told>>
  <2>1. OnlyCloses
    BY <1>1, KeepsOnlyCloses DEF IInv
  <2>. QED  BY <1>1, <1>2, <2>1, QuietOK
<1>3. CASE ~UNCHANGED <<acBindSvrName, told>>
  <2>1. PICK c \in Slots : CanBind(c, f)
    BY <1>3 DEF BindClient, SendingNothing
  <2>2. PICK w : w = SocketOf(f.acName)
    OBVIOUS
  <2>3. /\ Tells("CONNECT", c, {SocketOf(f.acName)})
        /\ acBindSvrName' = [acBindSvrName EXCEPT ![c] = f.acName]
        /\ Entry(f.acName, SocketOf(f.acName))
    BY <1>3, <2>1, BindClientTells
  <2>4. Tells("CONNECT", c, {w})
    BY <2>2, <2>3 DEF Tells
  <2>5. /\ told' \in [Slots -> [Slots -> {"none", "inherited", "here", "gone"}]]
        /\ \A r, d \in Slots :
             told'[r][d] = IF d = c /\ conn[r].stage = "open" /\ conn[r].h \in {w}
                             THEN Told("CONNECT", r, c) ELSE told[r][d]
    BY <2>4, SendingTells
  <2>6. \A r, d \in Slots :
          /\ d # c => told'[r][d] = told[r][d]
          /\ told'[r][c] = IF conn[r].stage = "open" /\ conn[r].h = w THEN "here" ELSE told[r][c]
    BY <2>5 DEF Told
  <2>7. /\ conn[c].stage = "open" /\ belong[c] = "out" /\ acBindSvrName[c] = Unbound
        /\ f.acName \in Services
    BY <2>1, <2>3, EntryType DEF CanBind, IInv
  <2>8. /\ acBindSvrName' \in [Slots -> Services \cup {Unbound}] /\ acBindSvrName'[c] = f.acName
        /\ \A d \in Slots : d # c => acBindSvrName'[d] = acBindSvrName[d]
    BY <2>3, <2>7 DEF IInv, TypeOK
  <2>9. ~New(c) /\ Present(c)
    BY <1>1, <2>7 DEF New, Present
  <2>10. ASSUME NEW r \in Slots, NEW n \in Services, Entry(n, conn[r].h)
         PROVE  n = f.acName <=> conn[r].h = w
    BY <2>2, <2>3, <2>10, EntryUnique DEF IInv
  <2>11. ASSUME NEW r \in Slots, NEW n \in Services, Entry(n, conn[r].h),
                conn[r].stage = "open", n = Watchdog
         PROVE  told[r][c] \in {"here", "inherited"}
    <3>1. Live(c)
      BY <2>7, <2>9 DEF Live
    <3>. QED  BY <2>11, <3>1 DEF IInv, Hears, Knows
  <2>12. ASSUME NEW r \in Slots, NEW n \in Services, Entry(n, conn[r].h), told[r][c] # "none"
         PROVE  n = Watchdog
    <3>1. n \in {Watchdog, acBindSvrName[c]}
      BY <2>9, <2>12 DEF IInv, Bound
    <3>2. n # Unbound
      BY GatewayAssumption, Zenon
    <3>. QED  BY <2>7, <3>1, <3>2
  <2>13. \A r \in Slots, n \in Services :
           conn[c].stage \in {"open", "closing"} /\ Entry(n, conn[r].h) =>
             /\ conn[r].stage = "open" /\ n \in {Watchdog, acBindSvrName'[c]} =>
                  told'[r][c] \in {"here", "inherited"}
             /\ told'[r][c] # "none" => n \in {Watchdog, acBindSvrName'[c]}
    <3> SUFFICES ASSUME NEW r \in Slots, NEW n \in Services, Entry(n, conn[r].h)
                 PROVE  /\ conn[r].stage = "open" /\ n \in {Watchdog, acBindSvrName'[c]} =>
                             told'[r][c] \in {"here", "inherited"}
                        /\ told'[r][c] # "none" => n \in {Watchdog, acBindSvrName'[c]}
      OBVIOUS
    <3>1. CASE conn[r].stage = "open" /\ conn[r].h = w
      BY <2>6, <2>8, <2>10, <3>1
    <3>2. CASE ~(conn[r].stage = "open" /\ conn[r].h = w)
      BY <2>6, <2>8, <2>10, <2>11, <2>12, <3>2
    <3>. QED  BY <3>1, <3>2
  <2>14. \A r \in Slots : told'[r][c] # told[r][c] =>
           conn[r].stage = "open" /\ \E n : Entry(n, conn[r].h)
    BY <2>2, <2>3, <2>6
  <2>15. TellsOfOne(c)
    BY <1>1, <2>5, <2>6, <2>7, <2>8, <2>13, <2>14 DEF TellsOfOne
  <2>. QED  BY <1>1, <2>15, TellsOfOneOK
<1>. QED  BY <1>2, <1>3

LEMMA RegSvrName ==
  ASSUME NEW f \in Frames, f.iProco = "REG_SVR", f.ok  PROVE f.acName \in Services
BY DEF Frames, CloseFrames, NoFrame, Frame

(* While data is handled every connection is active, so the service that   *)
(* registers learns of all those that it will be asked about.              *)
LEMMA RegSvrOK == ASSUME IInv, NEW s \in Slots, NEW f \in Frames, RegSvr(s, f)  PROVE IInv'
<1> DEFINE n == f.acName
           inherited(c) == /\ belong[c] = "out" /\ conn[c].stage = "open"
                           /\ n \in {Watchdog, acBindSvrName[c]}
<1>1. /\ Handling(s, "in") /\ ev.kind = "RECV_DATA" /\ f.iProco = "REG_SVR"
      /\ UNCHANGED acBindSvrName
  BY DEF RegSvr, ServiceFrame
<1>2. CASE f.ok /\ ~RegisteredAt(conn[s].h) /\ ~Registered(n)
  <2>1. PICK h : h = conn[s].h
    OBVIOUS
  <2>2. /\ kRegSvrList' = <<Node(n, h)>> \o kRegSvrList
        /\ told' = [told EXCEPT ![s] =
                      [c \in Slots |-> IF inherited(c) THEN "inherited" ELSE "none"]]
        /\ UNCHANGED conn
    BY <1>2, <2>1 DEF RegSvr
  <2>3. /\ work /\ work' = FALSE /\ ev' = ev /\ belong' = belong /\ ev.h = h /\ belong[s] = "in"
    BY <1>1, <2>1 DEF Handling
  <2>4. /\ conn[s].stage = "open" /\ \A j \in Slots : conn[j].stage \in {"free", "open"}
    BY <1>1, <2>1, <2>3, EventSlot
  <2>5. n \in Services /\ h \in Handles
    BY <1>1, <1>2, <2>1, <2>4, RegSvrName, RealHandle
  <2>6. /\ kRegSvrList' \in Seq([acName : Services, kHSocket : Handles])
        /\ Distinct'
        /\ \A m, g : Entry(m, g)' <=> Entry(m, g) \/ (m = n /\ g = h)
    <3>1. ~RegisteredAt(h)
      BY <1>2, <2>1 DEF RegisteredAt
    <3> HIDE DEF n
    <3>. QED  BY <1>2, <2>2, <2>5, <3>1, AddEntry DEF IInv
  <2>7. \A r, c \in Slots :
          /\ r # s => told'[r][c] = told[r][c]
          /\ told'[s][c] = IF inherited(c) THEN "inherited" ELSE "none"
    BY <2>2 DEF IInv, TypeOK
  <2>8. told' \in [Slots -> [Slots -> {"none", "inherited", "here", "gone"}]]
    <3> DEFINE row == [c \in Slots |-> IF inherited(c) THEN "inherited" ELSE "none"]
    <3>1. row \in [Slots -> {"none", "inherited", "here", "gone"}]
      OBVIOUS
    <3>2. told' = [told EXCEPT ![s] = row]
      BY <2>2
    <3> HIDE DEF row
    <3>. QED  BY <3>1, <3>2 DEF IInv, TypeOK
  <2>9. TypeOK'
    BY <1>1, <2>2, <2>3, <2>6, <2>8 DEF IInv, TypeOK
  <2>10. SlotsOK' /\ EventOK' /\ NothingSent'
    <3>1. SlotsOK'
      BY <2>2, <2>3 DEF IInv, SlotsOK, Core!Free
    <3>2. ev # NoEvent
      BY <1>1 DEF NoEvent
    <3>. QED  BY <2>3, <3>1, <3>2 DEF EventOK, NothingSent
  <2>11. \A r \in Slots : /\ Present(r)' <=> conn[r].stage = "open"
                          /\ Present(r) <=> conn[r].stage = "open"
                          /\ ~New(r) /\ ~New(r)'
    BY <1>1, <2>2, <2>3, <2>4 DEF Present, New
  <2>12. \A m, r \in Slots : conn[r].h = h <=> r = s
    BY <2>1, <2>4, SameHandle
  <2>13. \A m : ~Entry(m, h)
    BY <1>2, <2>1, RegisteredAtEntry
  <2>14. \A m, r : r \in Slots => (Entry(m, conn[r].h)' <=> IF r = s THEN m = n ELSE Entry(m, conn[r].h))
    BY <2>2, <2>6, <2>12, <2>13
  <2>15. EntriesOK'
    <3> SUFFICES ASSUME NEW m \in Services, NEW g \in Handles, Entry(m, g)'
                 PROVE  \E r \in Slots : conn[r].h = g /\ belong[r] = "in" /\ Present(r)'
      BY <2>2, <2>3 DEF EntriesOK
    <3>1. CASE Entry(m, g)
      BY <2>11, <3>1 DEF IInv, EntriesOK
    <3>2. CASE ~Entry(m, g)
      <4>1. g = h
        BY <2>6, <3>2
      <4>. QED  BY <2>1, <2>3, <2>4, <2>11, <4>1
    <3>. QED  BY <3>1, <3>2
  <2>16. ToldOK'
    <3>1. ASSUME NEW r \in Slots, NEW c \in Slots, told'[r][c] # "none"
          PROVE  /\ belong[r] = "in" /\ conn[r].stage # "opening"
                 /\ belong[c] = "out" /\ conn[c].stage # "opening"
                 /\ Present(r)' => RegisteredAt(conn[r].h)'
      <4>1. (\E m : Entry(m, conn[r].h)') => RegisteredAt(conn[r].h)'
        BY DEF RegisteredAt, Entry
      <4>2. CASE r = s
        BY <2>3, <2>4, <2>7, <2>14, <3>1, <4>1, <4>2
      <4>3. CASE r # s
        <5>1. /\ belong[r] = "in" /\ conn[r].stage # "opening"
              /\ belong[c] = "out" /\ conn[c].stage # "opening"
              /\ Present(r) => RegisteredAt(conn[r].h)
          BY <2>7, <3>1, <4>3 DEF IInv, ToldOK
        <5>2. Present(r)' => \E m : Entry(m, conn[r].h)
          BY <2>11, <5>1, RegisteredAtEntry
        <5>. QED  BY <2>14, <4>1, <4>3, <5>1, <5>2
      <4>. QED  BY <4>2, <4>3
    <3>2. belong' = belong /\ conn' = conn /\ \A r \in Slots : ~New(r)'
      BY <2>2, <2>3, <2>11
    <3>. QED  BY <3>1, <3>2 DEF ToldOK
  <2>17. Hears'
    <3> SUFFICES ASSUME NEW r \in Slots, NEW c \in Slots, NEW m \in Services,
                        Live(c)', conn[r].stage = "open", Entry(m, conn[r].h)',
                        m \in {Watchdog, acBindSvrName[c]}
                 PROVE  told'[r][c] \in {"here", "inherited"}
      BY <1>1, <2>2 DEF Hears, Knows
    <3>1. belong[c] = "out" /\ conn[c].stage = "open"
      BY <2>2, <2>3, <2>11 DEF Live
    <3>2. CASE r = s
      BY <2>7, <2>14, <3>1, <3>2
    <3>3. CASE r # s
      <4>1. Live(c) /\ Entry(m, conn[r].h)
        BY <2>11, <2>14, <3>1, <3>3 DEF Live
      <4>. QED  BY <2>7, <3>3, <4>1 DEF IInv, Hears, Knows
    <3>. QED  BY <3>2, <3>3
  <2>18. Bound'
    <3> SUFFICES ASSUME NEW r \in Slots, NEW c \in Slots, NEW m \in Services,
                        Present(c)', told'[r][c] # "none", Entry(m, conn[r].h)'
                 PROVE  m \in {Watchdog, acBindSvrName[c]}
      BY <1>1 DEF Bound
    <3>1. CASE r = s
      BY <2>7, <2>14, <3>1
    <3>2. CASE r # s
      <4>1. Present(c) /\ told[r][c] # "none" /\ Entry(m, conn[r].h)
        BY <2>7, <2>11, <2>14, <3>2
      <4>. QED  BY <4>1 DEF IInv, Bound
    <3>. QED  BY <3>1, <3>2
  <2>. QED  BY <2>6, <2>9, <2>10, <2>15, <2>16, <2>17, <2>18 DEF IInv
<1>3. CASE ~(f.ok /\ ~RegisteredAt(conn[s].h) /\ ~Registered(n))
  <2>1. Disconnect(conn[s].h) /\ UNCHANGED <<kRegSvrList, told>>
    BY <1>3 DEF RegSvr
  <2>2. OnlyCloses
    BY <2>1, MaybeDisconnect
  <2>. QED  BY <1>1, <2>1, <2>2, QuietOK
<1>. QED  BY <1>2, <1>3

-----------------------------------------------------------------------------
(* The core.                                                               *)

LEMMA ReadingFacts ==
  ASSUME IInv, ~work
  PROVE  \A i \in Slots : /\ ~New(i)
                          /\ Present(i) <=> conn[i].stage \in {"open", "closing"}
BY DEF New, Present

(* Nothing is returned of any connection; some may be closed.              *)
LEMMA NoEventOK ==
  ASSUME IInv, ~work, work' = work, OnlyCloses, UNCHANGED handlerVars,
         ev' \in [kind : {"NONE", "CONNECT", "RECV_DATA", "DISCONNECT", "TIMER", "IDLE"},
                  h : Handles \cup {NoHandle}],
         ev' = NoEvent => sent' = {}
  PROVE  IInv'
<1>1. UNCHANGED <<belong, acBindSvrName, kRegSvrList, told>> /\ ~work'
  BY DEF handlerVars
<1>2. TypeOK' /\ EventOK' /\ NothingSent' /\ Distinct'
  <2>1. TypeOK'
    BY <1>1 DEF IInv, TypeOK, OnlyCloses, ConnRecord
  <2>2. EventOK' /\ NothingSent'
    BY <1>1 DEF EventOK, NothingSent, NoEvent
  <2>3. Distinct'
    BY <1>1 DEF IInv, Distinct
  <2>. QED  BY <2>1, <2>2, <2>3
<1>3. \A i \in Slots : /\ conn'[i].h = conn[i].h
                       /\ Present(i)' <=> Present(i)
                       /\ ~New(i) /\ ~New(i)'
                       /\ conn'[i].stage = "open" => conn[i].stage = "open"
                       /\ conn'[i].stage = "opening" => conn[i].stage = "opening"
  BY <1>1 DEF OnlyCloses, Present, New
<1>4. SlotsOK'
  <2> SUFFICES ASSUME NEW j \in Slots
               PROVE  IF conn'[j].stage = "free"
                        THEN conn'[j] = Core!Free /\ belong[j] = "none"
                        ELSE belong[j] # "none" /\ \E t \in Ticks : conn'[j].h = <<j, t>>
    BY <1>1 DEF SlotsOK, Core!Free
  <2>1. CASE conn'[j] = conn[j]
    BY <2>1 DEF IInv, SlotsOK
  <2>2. CASE conn[j].stage = "open" /\ conn'[j].stage = "closing"
    <3>1. belong[j] # "none" /\ \E t \in Ticks : conn[j].h = <<j, t>>
      BY <2>2 DEF IInv, SlotsOK
    <3>. QED  BY <1>3, <2>2, <3>1
  <2>. QED  BY <2>1, <2>2 DEF OnlyCloses
<1>5. \A n, h : Entry(n, h)' <=> Entry(n, h)
  BY <1>1 DEF Entry
<1>6. \A i \in Slots : \A n : Entry(n, conn[i].h)' <=> Entry(n, conn[i].h)
  BY <1>3, <1>5
<1>7. EntriesOK'
  BY <1>1, <1>3, <1>5 DEF IInv, EntriesOK
<1>8. ToldOK'
  <2>1. ASSUME NEW s \in Slots, RegisteredAt(conn[s].h)  PROVE RegisteredAt(conn[s].h)'
    BY <1>1, <1>3, <2>1 DEF RegisteredAt
  <2>. QED  BY <1>1, <1>3, <2>1 DEF IInv, ToldOK
<1>9. Hears'
  <2>1. ASSUME NEW c \in Slots, Live(c)'  PROVE Live(c)
    <3>1. Registered(Watchdog)' => Registered(Watchdog)
      BY <1>1 DEF Registered
    <3>2. CASE conn[c].stage = "open"
      BY <1>1, <1>3, <2>1, <3>2 DEF Live
    <3>3. CASE conn[c].stage # "open"
      BY <1>1, <1>3, <2>1, <3>1, <3>3 DEF Live
    <3>. QED  BY <3>2, <3>3
  <2> SUFFICES ASSUME NEW s \in Slots, NEW c \in Slots, NEW n \in Services,
                      Live(c)', conn'[s].stage = "open", Entry(n, conn[s].h)',
                      n \in {Watchdog, acBindSvrName[c]}
               PROVE  told[s][c] \in {"here", "inherited"}
    BY <1>1 DEF Hears, Knows
  <2>. QED  BY <1>3, <1>6, <2>1 DEF IInv, Hears, Knows
<1>10. Bound'
  <2> SUFFICES ASSUME NEW s \in Slots, NEW c \in Slots, NEW n \in Services,
                      Present(c)', told[s][c] # "none", Entry(n, conn[s].h)'
               PROVE  n \in {Watchdog, acBindSvrName[c]}
    BY <1>1 DEF Bound
  <2>. QED  BY <1>3, <1>6 DEF IInv, Bound
<1>. QED  BY <1>2, <1>4, <1>7, <1>8, <1>9, <1>10 DEF IInv

LEMMA CallOK == ASSUME IInv, Call  PROVE IInv'
<1>1. OnlyCloses
  BY KeepsOnlyCloses DEF IInv, Call, Core!Call
<1>. QED  BY <1>1, NoEventOK DEF Call, Core!Call, NoEvent

LEMMA ClosesOK == ASSUME IInv, NEW i \in Slots, Closes(i)  PROVE IInv'
<1>1. OnlyCloses
  BY CloseOnlyCloses DEF IInv, Closes
<1>2. /\ ~work /\ work' = work /\ UNCHANGED handlerVars /\ ev' = ev /\ sent' = sent /\ sent = {}
  BY DEF Closes, Reading, handlerVars, IInv, NothingSent
<1>. QED  BY <1>1, <1>2, NoEventOK DEF IInv, TypeOK

LEMMA ReturnsNothingOK == ASSUME IInv, ReturnsNothing  PROVE IInv'
<1>1. /\ ~work /\ work' = work /\ UNCHANGED handlerVars /\ sent' = sent /\ sent = {}
  BY DEF ReturnsNothing, Reading, handlerVars, IInv, NothingSent
<1>2. OnlyCloses
  BY KeepsOnlyCloses, CloseOnlyCloses DEF IInv, ReturnsNothing, Core!Idle, Core!Timer
<1>3. ev' \in [kind : {"NONE", "CONNECT", "RECV_DATA", "DISCONNECT", "TIMER", "IDLE"},
               h : Handles \cup {NoHandle}]
  BY DEF ReturnsNothing, Core!Idle, Core!Timer, Core!Event
<1>. QED  BY <1>1, <1>2, <1>3, NoEventOK

(* Nobody has heard of a connection that is not there yet.                 *)
LEMMA AcceptOK == ASSUME IInv, NEW i \in Slots, Accept(i)  PROVE IInv'
<1>1. /\ ~work /\ work' = work /\ ev' = ev /\ sent' = sent
      /\ UNCHANGED <<acBindSvrName, kRegSvrList, told>>
  BY DEF Accept, Reading, Core!Open
<1>2. PICK listener \in {"in", "out"} : belong' = [belong EXCEPT ![i] = listener]
  BY DEF Accept
<1>3. conn[i] = Core!Free
  BY DEF Accept, Core!Open
<1>4. conn[i].stage = "free"
  BY <1>3 DEF Core!Free
<1>5. PICK t \in Ticks :
        conn' = [conn EXCEPT ![i] = [stage |-> "opening", out |-> FALSE, h |-> <<i, t>>]]
  <2>1. PICK t \in Ticks, out \in BOOLEAN, s \in {"opening", "listening"} :
          conn' = [conn EXCEPT ![i] = [stage |-> s, out |-> out, h |-> <<i, t>>]]
    BY DEF Accept, Core!Open
  <2>2. conn'[i] = [stage |-> s, out |-> out, h |-> <<i, t>>]
    BY <2>1 DEF IInv, TypeOK
  <2>3. s = "opening" /\ out = FALSE
    BY <2>2 DEF Accept
  <2>. QED  BY <2>1, <2>3
<1>6. <<i, t>> \in Handles /\ <<i, t>> # NoHandle
  BY HandleTuple
<1> DEFINE r == [stage |-> "opening", out |-> FALSE, h |-> <<i, t>>]
<1>7. r \in ConnRecord /\ r.stage = "opening" /\ r.h = <<i, t>>
  BY <1>6 DEF ConnRecord
<1>8. conn' = [conn EXCEPT ![i] = r]
  BY <1>5
<1> HIDE DEF r
<1>9. /\ conn' \in [Slots -> ConnRecord] /\ conn'[i] = r /\ belong'[i] = listener
      /\ \A j \in Slots : j # i => conn'[j] = conn[j] /\ belong'[j] = belong[j]
  BY <1>2, <1>7, <1>8 DEF IInv, TypeOK, ConnRecord
<1>10. TypeOK' /\ EventOK' /\ NothingSent' /\ Distinct'
  <2>1. TypeOK'
    BY <1>1, <1>2, <1>9 DEF IInv, TypeOK, ConnRecord
  <2>2. EventOK' /\ NothingSent' /\ Distinct'
    BY <1>1 DEF IInv, EventOK, NothingSent, Distinct
  <2>. QED  BY <2>1, <2>2
<1>11. \A j \in Slots :
         /\ ~New(j) /\ ~New(j)'
         /\ Present(j)' => Present(j) /\ j # i
         /\ Present(j) => Present(j)' /\ j # i
  BY <1>1, <1>4, <1>7, <1>9 DEF New, Present
<1>12. SlotsOK'
  <2> SUFFICES ASSUME NEW j \in Slots
               PROVE  IF conn'[j].stage = "free"
                        THEN conn'[j] = Core!Free /\ belong'[j] = "none"
                        ELSE belong'[j] # "none" /\ \E u \in Ticks : conn'[j].h = <<j, u>>
    BY DEF SlotsOK, Core!Free
  <2>1. CASE j = i
    BY <1>2, <1>7, <1>9, <2>1
  <2>2. CASE j # i
    BY <1>9, <2>2 DEF IInv, SlotsOK
  <2>. QED  BY <2>1, <2>2
<1>13. \A n, h : Entry(n, h)' <=> Entry(n, h)
  BY <1>1 DEF Entry
<1>14. EntriesOK'
  BY <1>9, <1>11, <1>13 DEF IInv, EntriesOK
<1>15. ASSUME NEW s \in Slots, NEW c \in Slots, told[s][c] # "none"
       PROVE  s # i /\ c # i
  BY <1>4, <1>15, FreeSlot DEF IInv, ToldOK
<1>16. ToldOK'
  <2>1. ASSUME NEW s \in Slots, s # i, RegisteredAt(conn[s].h)  PROVE RegisteredAt(conn[s].h)'
    BY <1>1, <1>9, <2>1 DEF RegisteredAt
  <2>. QED  BY <1>1, <1>9, <1>11, <1>15, <2>1 DEF IInv, ToldOK
<1>17. Hears'
  <2> SUFFICES ASSUME NEW s \in Slots, NEW c \in Slots, NEW n \in Services,
                      Live(c)', conn'[s].stage = "open", Entry(n, conn[s].h)',
                      n \in {Watchdog, acBindSvrName[c]}
               PROVE  told[s][c] \in {"here", "inherited"}
    BY <1>1 DEF Hears, Knows
  <2>1. s # i /\ c # i
    BY <1>7, <1>9, <1>11 DEF Live
  <2>2. Registered(Watchdog)' => Registered(Watchdog)
    BY <1>1 DEF Registered
  <2>3. Live(c)
    BY <1>9, <1>11, <2>1, <2>2 DEF Live
  <2>. QED  BY <1>9, <1>13, <2>1, <2>3 DEF IInv, Hears, Knows
<1>18. Bound'
  <2> SUFFICES ASSUME NEW s \in Slots, NEW c \in Slots, NEW n \in Services,
                      Present(c)', told[s][c] # "none", Entry(n, conn[s].h)'
               PROVE  n \in {Watchdog, acBindSvrName[c]}
    BY <1>1 DEF Bound
  <2>. QED  BY <1>9, <1>11, <1>13, <1>15 DEF IInv, Bound
<1>. QED  BY <1>10, <1>12, <1>14, <1>16, <1>17, <1>18 DEF IInv

LEMMA ReleasesOK == ASSUME IInv, NEW i \in Slots, Releases(i)  PROVE IInv'
<1> DEFINE f == Core!Free
<1>1. /\ ~work /\ work' = work /\ ev' = ev /\ sent' = sent
      /\ UNCHANGED <<acBindSvrName, kRegSvrList>>
      /\ conn[i].stage = "closed" /\ conn' = [conn EXCEPT ![i] = f]
      /\ belong' = [belong EXCEPT ![i] = "none"]
  BY DEF Releases, Reading, Core!Release
<1>2. f \in ConnRecord /\ f.stage = "free"
  BY DEF ConnRecord, Core!Free
<1>3. told' \in [Slots -> [Slots -> {"none", "inherited", "here", "gone"}]]
  BY DEF Releases, IInv, TypeOK
<1>4. \A s, c \in Slots : told'[s][c] = IF i \in {s, c} THEN "none" ELSE told[s][c]
  BY DEF Releases
<1>5. f = Core!Free
  OBVIOUS
<1> HIDE DEF f
<1>6. /\ conn' \in [Slots -> ConnRecord] /\ conn'[i] = f /\ belong'[i] = "none"
      /\ \A j \in Slots : j # i => conn'[j] = conn[j] /\ belong'[j] = belong[j]
  BY <1>1, <1>2 DEF IInv, TypeOK, ConnRecord
<1>7. TypeOK' /\ EventOK' /\ NothingSent' /\ Distinct'
  <2>1. TypeOK'
    BY <1>1, <1>3, <1>6 DEF IInv, TypeOK, ConnRecord
  <2>2. EventOK' /\ NothingSent' /\ Distinct'
    BY <1>1 DEF IInv, EventOK, NothingSent, Distinct
  <2>. QED  BY <2>1, <2>2
<1>8. \A j \in Slots :
        /\ ~New(j) /\ ~New(j)'
        /\ Present(j)' => Present(j) /\ j # i
        /\ Present(j) => Present(j)' /\ j # i
  BY <1>1, <1>2, <1>6 DEF New, Present
<1>9. SlotsOK'
  <2> SUFFICES ASSUME NEW j \in Slots
               PROVE  IF conn'[j].stage = "free"
                        THEN conn'[j] = Core!Free /\ belong'[j] = "none"
                        ELSE belong'[j] # "none" /\ \E u \in Ticks : conn'[j].h = <<j, u>>
    BY DEF SlotsOK, Core!Free
  <2>1. CASE j = i
    BY <1>2, <1>5, <1>6, <2>1
  <2>2. CASE j # i
    BY <1>6, <2>2 DEF IInv, SlotsOK
  <2>. QED  BY <2>1, <2>2
<1>10. \A n, h : Entry(n, h)' <=> Entry(n, h)
  BY <1>1 DEF Entry
<1>11. EntriesOK'
  BY <1>6, <1>8, <1>10 DEF IInv, EntriesOK
<1>12. ASSUME NEW s \in Slots, NEW c \in Slots, s # i, c # i  PROVE told'[s][c] = told[s][c]
  BY <1>4, <1>12
<1>13. ASSUME NEW s \in Slots, NEW c \in Slots, told'[s][c] # "none"
       PROVE  s # i /\ c # i
  BY <1>4, <1>13
<1>14. ToldOK'
  <2>1. ASSUME NEW s \in Slots, s # i, RegisteredAt(conn[s].h)  PROVE RegisteredAt(conn[s].h)'
    BY <1>1, <1>6, <2>1 DEF RegisteredAt
  <2>. QED  BY <1>6, <1>8, <1>12, <1>13, <2>1 DEF IInv, ToldOK
<1>15. Hears'
  <2> SUFFICES ASSUME NEW s \in Slots, NEW c \in Slots, NEW n \in Services,
                      Live(c)', conn'[s].stage = "open", Entry(n, conn[s].h)',
                      n \in {Watchdog, acBindSvrName[c]}
               PROVE  told'[s][c] \in {"here", "inherited"}
    BY <1>1 DEF Hears, Knows
  <2>1. s # i /\ c # i
    BY <1>2, <1>6, <1>8 DEF Live
  <2>2. Registered(Watchdog)' => Registered(Watchdog)
    BY <1>1 DEF Registered
  <2>3. Live(c)
    BY <1>6, <1>8, <2>1, <2>2 DEF Live
  <2>. QED  BY <1>6, <1>10, <1>12, <2>1, <2>3 DEF IInv, Hears, Knows
<1>16. Bound'
  <2> SUFFICES ASSUME NEW s \in Slots, NEW c \in Slots, NEW n \in Services,
                      Present(c)', told'[s][c] # "none", Entry(n, conn[s].h)'
               PROVE  n \in {Watchdog, acBindSvrName[c]}
    BY <1>1 DEF Bound
  <2>. QED  BY <1>6, <1>8, <1>10, <1>12, <1>13 DEF IInv, Bound
<1>. QED  BY <1>7, <1>9, <1>11, <1>14, <1>15, <1>16 DEF IInv

(* An event of slot i is returned: nobody has heard of a new connection    *)
(* yet, and everybody who knew one still does until its end is handled.    *)
LEMMA ReturnsOK == ASSUME IInv, NEW i \in Slots, Returns(i)  PROVE IInv'
<1>1. /\ ~work /\ work' = TRUE /\ sent' = sent
      /\ UNCHANGED <<belong, acBindSvrName, kRegSvrList, told>>
  BY DEF Returns, Reading, handlerVars
<1> DEFINE Begins == ev'.kind = "CONNECT" /\ conn[i].stage = "opening" /\ conn'[i].stage = "open"
           Data   == /\ ev'.kind = "RECV_DATA" /\ conn[i].stage = "open" /\ conn'[i].stage = "open"
                     /\ \A j \in Slots : conn'[j].stage \in {"free", "open"}
           Ends   == ev'.kind = "DISCONNECT" /\ conn[i].stage = "closing" /\ conn'[i].stage = "closed"
<1>2. /\ conn' \in [Slots -> ConnRecord]
      /\ \A j \in Slots : conn'[j].h = conn[j].h /\ (j # i => conn'[j] = conn[j])
      /\ ev'.h = conn[i].h
      /\ ev' \in [kind : {"NONE", "CONNECT", "RECV_DATA", "DISCONNECT", "TIMER", "IDLE"},
                  h : Handles \cup {NoHandle}]
      /\ Begins \/ Data \/ Ends
  <2>1. conn \in [Slots -> ConnRecord] /\ conn[i].h \in Handles \cup {NoHandle}
    BY DEF IInv, TypeOK, ConnRecord
  <2>2. CASE Core!Connect(i)
    BY <2>1, <2>2 DEF Core!Connect, Core!Stage, Core!Event, ConnRecord
  <2>3. CASE Core!RecvData(i)
    <3>1. /\ conn' = conn /\ conn[i].stage = "open" /\ ev'.kind = "RECV_DATA" /\ ev'.h = conn[i].h
          /\ ev' \in [kind : {"NONE", "CONNECT", "RECV_DATA", "DISCONNECT", "TIMER", "IDLE"},
                      h : Handles \cup {NoHandle}]
      BY <2>1, <2>3 DEF Core!RecvData, Core!Event
    <3>2. \A j \in Slots : conn[j].stage \in {"free", "open"}
      BY <2>1, <2>3 DEF Core!RecvData, Core!Reported, ConnRecord
    <3>. QED  BY <2>1, <3>1, <3>2
  <2>4. CASE Core!Disconnected(i)
    BY <2>1, <2>4 DEF Core!Disconnected, Core!Stage, Core!Event, ConnRecord
  <2>. QED  BY <2>2, <2>3, <2>4 DEF Returns
<1>3. conn[i].stage # "free" /\ conn'[i].stage # "free"
  BY <1>2
<1>4. \A j \in Slots : ev'.h = conn[j].h <=> j = i
  BY <1>2, <1>3, SameHandle
<1>5. \A j \in Slots : ~New(j) /\ (New(j)' <=> Begins /\ j = i)
  BY <1>1, <1>2, <1>4 DEF New
<1>6. \A j \in Slots : Present(j)' <=> Present(j) \/ (Begins /\ j = i)
  <2> SUFFICES ASSUME NEW j \in Slots  PROVE Present(j)' <=> Present(j) \/ (Begins /\ j = i)
    OBVIOUS
  <2>1. CASE j = i
    BY <1>1, <1>2, <2>1 DEF Present
  <2>2. CASE j # i
    BY <1>1, <1>2, <1>4, <2>2 DEF Present
  <2>. QED  BY <2>1, <2>2
<1>7. TypeOK'
  BY <1>1, <1>2 DEF IInv, TypeOK, ConnRecord
<1>8. EventOK' /\ NothingSent' /\ Distinct'
  <2>1. EventOK'
    BY <1>2 DEF EventOK
  <2>. QED  BY <1>1, <2>1 DEF IInv, NothingSent, Distinct
<1>9. SlotsOK'
  <2> SUFFICES ASSUME NEW j \in Slots
               PROVE  IF conn'[j].stage = "free"
                        THEN conn'[j] = Core!Free /\ belong[j] = "none"
                        ELSE belong[j] # "none" /\ \E u \in Ticks : conn'[j].h = <<j, u>>
    BY <1>1 DEF SlotsOK, Core!Free
  <2>1. CASE j = i
    BY <1>2, <1>3, <2>1 DEF IInv, SlotsOK
  <2>2. CASE j # i
    BY <1>2, <2>2 DEF IInv, SlotsOK
  <2>. QED  BY <2>1, <2>2
<1>10. \A n, h : Entry(n, h)' <=> Entry(n, h)
  BY <1>1 DEF Entry
<1>11. EntriesOK'
  BY <1>1, <1>2, <1>6, <1>10 DEF IInv, EntriesOK
<1>12. ASSUME Begins, NEW j \in Slots
       PROVE  told[i][j] = "none" /\ told[j][i] = "none" /\ \A n : ~Entry(n, conn[i].h)
  <2>1. told[i][j] = "none" /\ told[j][i] = "none"
    BY <1>12 DEF IInv, ToldOK
  <2>2. ~Present(i)
    BY <1>1, <1>12 DEF Present
  <2>3. \A n : ~Entry(n, conn[i].h)
    BY <1>3, <2>2, EntrySlot
  <2>. QED  BY <2>1, <2>3
<1>13. ToldOK'
  <2>1. ASSUME NEW s \in Slots, NEW c \in Slots, told[s][c] # "none"
        PROVE  /\ belong[s] = "in" /\ conn'[s].stage # "opening"
               /\ belong[c] = "out" /\ conn'[c].stage # "opening" /\ ~New(c)'
               /\ Present(s)' => RegisteredAt(conn[s].h)'
    <3>1. /\ belong[s] = "in" /\ conn[s].stage # "opening"
          /\ belong[c] = "out" /\ conn[c].stage # "opening"
          /\ Present(s) => RegisteredAt(conn[s].h)
      BY <2>1 DEF IInv, ToldOK
    <3>2. ~(Begins /\ (s = i \/ c = i))
      BY <1>12, <2>1
    <3>3. RegisteredAt(conn[s].h) => RegisteredAt(conn[s].h)'
      BY <1>1, <1>2 DEF RegisteredAt
    <3>. QED  BY <1>2, <1>5, <1>6, <3>1, <3>2, <3>3
  <2>. QED  BY <1>1, <2>1 DEF ToldOK
<1>14. Hears'
  <2> SUFFICES ASSUME NEW s \in Slots, NEW c \in Slots, NEW n \in Services,
                      Live(c)', conn'[s].stage = "open", Entry(n, conn[s].h)',
                      n \in {Watchdog, acBindSvrName[c]}
               PROVE  told[s][c] \in {"here", "inherited"}
    BY <1>1 DEF Hears, Knows
  <2>1. Entry(n, conn[s].h)
    BY <1>2, <1>10
  <2>2. conn[s].stage = "open"
    BY <1>2, <1>12, <2>1
  <2>3. Registered(Watchdog)' => Registered(Watchdog)
    BY <1>1 DEF Registered
  <2>4. ~(Begins /\ c = i)
    BY <1>5 DEF Live
  <2>5. Live(c)
    BY <1>1, <1>2, <1>5, <1>6, <2>3, <2>4 DEF Live
  <2>. QED  BY <2>1, <2>2, <2>5 DEF IInv, Hears, Knows
<1>15. Bound'
  <2> SUFFICES ASSUME NEW s \in Slots, NEW c \in Slots, NEW n \in Services,
                      Present(c)', told[s][c] # "none", Entry(n, conn[s].h)'
               PROVE  n \in {Watchdog, acBindSvrName[c]}
    BY <1>1 DEF Bound
  <2>1. Present(c) /\ Entry(n, conn[s].h)
    BY <1>2, <1>6, <1>10, <1>12
  <2>. QED  BY <2>1 DEF IInv, Bound
<1>. QED  BY <1>7, <1>8, <1>9, <1>11, <1>13, <1>14, <1>15 DEF IInv

-----------------------------------------------------------------------------
(* The theorems.                                                           *)

LEMMA InitOK == Init => IInv
<1> SUFFICES ASSUME Init  PROVE IInv
  OBVIOUS
<1>1. /\ conn = [i \in Slots |-> Core!Free] /\ ev = NoEvent /\ ~work /\ work = FALSE /\ sent = {}
      /\ belong = [i \in Slots |-> "none"] /\ kRegSvrList = <<>>
      /\ acBindSvrName \in [Slots -> Services \cup {Unbound}]
      /\ told = [s \in Slots |-> [c \in Slots |-> "none"]]
  BY DEF Init, Core!Init
<1>2. Core!Free \in ConnRecord /\ Core!Free.stage = "free"
  BY DEF Core!Free, ConnRecord
<1>3. \A i \in Slots : conn[i] = Core!Free /\ conn[i].stage = "free" /\ belong[i] = "none"
  BY <1>1, <1>2
<1>4. \A s, c \in Slots : told[s][c] = "none"
  BY <1>1
<1>5. TypeOK
  <2>1. conn \in [Slots -> ConnRecord]
    BY <1>1, <1>2
  <2>2. ev \in [kind : {"NONE", "CONNECT", "RECV_DATA", "DISCONNECT", "TIMER", "IDLE"},
                h : Handles \cup {NoHandle}]
    BY <1>1 DEF NoEvent
  <2>3. kRegSvrList \in Seq([acName : Services, kHSocket : Handles])
    BY <1>1, EmptySeq
  <2>4. told \in [Slots -> [Slots -> {"none", "inherited", "here", "gone"}]]
    BY <1>1
  <2>. QED  BY <1>1, <2>1, <2>2, <2>3, <2>4 DEF TypeOK, ConnRecord
<1>6. SlotsOK
  BY <1>3 DEF SlotsOK
<1>7. EventOK /\ NothingSent
  BY <1>1 DEF EventOK, NothingSent
<1>8. DOMAIN kRegSvrList = {}
  BY <1>1
<1>9. Distinct /\ EntriesOK
  BY <1>8 DEF Distinct, EntriesOK, Entry
<1>10. ToldOK /\ Hears /\ Bound
  BY <1>3, <1>4, <1>8 DEF ToldOK, Hears, Bound, Entry
<1>. QED  BY <1>5, <1>6, <1>7, <1>9, <1>10 DEF IInv

LEMMA OnClientOK == ASSUME IInv, NEW c \in Slots, OnClient(c)  PROVE IInv'
BY ClientRefusedOK, ClientConnectOK, ClientDisconnectOK, ClientDataOK DEF OnClient

LEMMA OnServiceOK == ASSUME IInv, NEW s \in Slots, OnService(s)  PROVE IInv'
<1>1. CASE ServiceConnect(s)
  BY <1>1, ServiceConnectOK
<1>2. CASE \E left \in CloseFrames \cup {NoFrame} : ServiceDisconnect(s, left)
  BY <1>2, ServiceDisconnectOK
<1>3. ASSUME NEW f \in Frames,
             \/ RegSvr(s, f) \/ BindClient(s, f) \/ CloseClientFrame(s, f)
             \/ SendToClient(s, f) \/ SendToSvr(s, f) \/ ServiceActive(s, f)
      PROVE  IInv'
  BY <1>3, RegSvrOK, BindClientOK, CloseClientFrameOK, SendToClientOK, SendToSvrOK, ServiceActiveOK
<1>. QED  BY <1>1, <1>2, <1>3 DEF OnService

LEMMA StepOK == IInv /\ [Next]_vars => IInv'
<1> SUFFICES ASSUME IInv, [Next]_vars  PROVE IInv'
  OBVIOUS
<1>1. CASE UNCHANGED vars
  <2>1. UNCHANGED <<conn, ev, belong, acBindSvrName, kRegSvrList, work, sent, told>>
    BY <1>1 DEF vars
  <2>2. TypeOK' /\ SlotsOK' /\ EventOK' /\ NothingSent' /\ Distinct' /\ EntriesOK'
    <3>1. TypeOK' /\ SlotsOK'
      BY <2>1 DEF IInv, TypeOK, SlotsOK, Core!Free
    <3>2. EventOK' /\ NothingSent' /\ Distinct'
      BY <2>1 DEF IInv, EventOK, NothingSent, Distinct
    <3>3. EntriesOK'
      BY <2>1 DEF IInv, EntriesOK, Entry, Present
    <3>. QED  BY <3>1, <3>2, <3>3
  <2>3. /\ \A n, h : Entry(n, h)' <=> Entry(n, h)
        /\ \A i \in Slots : Present(i)' <=> Present(i)
        /\ \A i \in Slots : New(i)' <=> New(i)
        /\ \A i \in Slots : Live(i)' <=> Live(i)
    BY <2>1 DEF Entry, Present, New, Live, Registered
  <2>4. ToldOK'
    BY <2>1, <2>3 DEF IInv, ToldOK, RegisteredAt
  <2>5. Hears' /\ Bound'
    BY <2>1, <2>3 DEF IInv, Hears, Bound, Knows
  <2>. QED  BY <2>2, <2>4, <2>5 DEF IInv
<1>2. CASE Next
  <2>1. CASE Call \/ ReturnsNothing
    BY <2>1, CallOK, ReturnsNothingOK
  <2>2. ASSUME NEW i \in Slots, Accept(i) \/ Closes(i) \/ Releases(i) \/ Returns(i)
        PROVE  IInv'
    BY <2>2, AcceptOK, ClosesOK, ReleasesOK, ReturnsOK
  <2>3. ASSUME NEW i \in Slots, OnClient(i) \/ OnService(i)
        PROVE  IInv'
    BY <2>3, OnClientOK, OnServiceOK
  <2>. QED  BY <1>2, <2>1, <2>2, <2>3 DEF Next
<1>. QED  BY <1>1, <1>2

(* The inductive invariant holds, with any number of slots and names.      *)
THEOREM Invariance == Spec => []IInv
BY InitOK, StepOK, PTL DEF Spec

(* The list of services names each name and each connection once, and only *)
(* connections of services that the core still knows.                      *)
THEOREM RegistryIsSound == Spec => []RegistrySound
<1>1. IInv => RegistrySound
  <2> SUFFICES ASSUME IInv  PROVE RegistrySound
    OBVIOUS
  <2>1. ASSUME NEW k \in DOMAIN kRegSvrList
        PROVE  \E s \in Slots : /\ Holds(s, kRegSvrList[k].kHSocket) /\ belong[s] = "in"
                                /\ conn[s].stage = "closed" => work
    <3> DEFINE n == kRegSvrList[k].acName
               h == kRegSvrList[k].kHSocket
    <3>1. Entry(n, h) /\ n \in Services /\ h \in Handles
      BY Nodes DEF Entry, IInv
    <3> HIDE DEF n
    <3>2. PICK s \in Slots : conn[s].h = h /\ belong[s] = "in" /\ Present(s)
      BY <3>1 DEF IInv, EntriesOK
    <3>. QED  BY <3>2 DEF Present, Holds
  <2>. QED  BY <2>1 DEF IInv, Distinct, RegistrySound
<1>. QED  BY <1>1, Invariance, PTL

(* What a service other than the watchdog knows, and what the gateway      *)
(* routes by, agree.                                                       *)
THEOREM BindingIsKnown == Spec => []BindingKnown
<1>1. IInv => BindingKnown
  <2> SUFFICES ASSUME IInv, NEW c \in Slots, NEW s \in Slots,
                      conn[c].stage = "open", conn[s].stage = "open", Knows(s, c)
               PROVE  \E k \in DOMAIN kRegSvrList :
                        /\ kRegSvrList[k].kHSocket = conn[s].h
                        /\ kRegSvrList[k].acName \in {Watchdog, acBindSvrName[c]}
    BY DEF BindingKnown
  <2>1. Present(c) /\ Present(s) /\ told[s][c] # "none"
    BY DEF Present, Knows
  <2>2. PICK n : Entry(n, conn[s].h)
    BY <2>1, RegisteredAtEntry DEF IInv, ToldOK
  <2>3. n \in Services
    BY <2>2, EntryType DEF IInv
  <2>4. n \in {Watchdog, acBindSvrName[c]}
    BY <2>1, <2>2, <2>3 DEF IInv, Bound
  <2>. QED  BY <2>2, <2>4 DEF Entry
<1>. QED  BY <1>1, Invariance, PTL

(* What the sentence HeardInOrder says of one step.                        *)
InOrder == \A m \in sent' : IF m.kind = "CONNECT" THEN told[m.to][m.client] = "none"
                                                  ELSE Knows(m.to, m.client)

(* A service that a client's messages go to has its handle in the registry *)
(* under a name that serves the client.                                    *)
LEMMA ServesOf ==
  ASSUME IInv, NEW c \in Slots, Registered(Watchdog),
         NEW s \in Slots, conn[s].stage = "open",
         conn[s].h \in BoundTo(c) \cup {SocketOf(Watchdog)}, Live(c)
  PROVE  Knows(s, c)
<1>1. PICK n : Entry(n, conn[s].h) /\ n \in {Watchdog, acBindSvrName[c]}
  <2>1. Entry(Watchdog, SocketOf(Watchdog))
    BY SocketOfName DEF IInv
  <2>2. CASE conn[s].h \in BoundTo(c)
    BY <2>2, BoundToEntries
  <2>3. CASE conn[s].h = SocketOf(Watchdog)
    <3>1. Entry(Watchdog, conn[s].h)
      BY <2>1, <2>3, Zenon DEF Entry
    <3>. QED  BY <3>1
  <2>. QED  BY <2>2, <2>3
<1>2. n \in Services
  BY <1>1, EntryType DEF IInv
<1>. QED  BY <1>1, <1>2 DEF IInv, Hears

LEMMA ClientTellsInOrder ==
  ASSUME IInv, NEW c \in Slots, OnClient(c)  PROVE InOrder
<1>1. CASE ClientRefused(c)
  BY <1>1 DEF ClientRefused, SendingNothing, InOrder
<1>2. CASE ClientConnect(c)
  <2>1. PICK w : w = SocketOf(Watchdog)
    OBVIOUS
  <2>2. Tells("CONNECT", c, {w})
    BY <1>2, <2>1, ClientConnectTells DEF Tells
  <2>3. \A m \in sent' : m.kind = "CONNECT" /\ m.client = c /\ m.to \in Slots
    BY <2>2, SendingTells
  <2>4. New(c)
    BY <1>2 DEF ClientConnect, ClientEvent, Handling, New
  <2>5. \A s \in Slots : told[s][c] = "none"
    BY <2>4 DEF IInv, ToldOK
  <2>. QED  BY <2>3, <2>5 DEF InOrder
<1>3. CASE ClientDisconnect(c)
  <2>1. PICK H : H = BoundTo(c) \cup {SocketOf(Watchdog)}
    OBVIOUS
  <2>2. Tells("DISCONNECT", c, H)
    BY <1>3, <2>1, ClientDisconnectTells DEF Tells
  <2>3. \A m \in sent' : /\ m.kind = "DISCONNECT" /\ m.client = c /\ m.to \in Slots
                         /\ conn[m.to].stage = "open" /\ conn[m.to].h \in H
    BY <2>2, SendingTells
  <2>4. Live(c) /\ Registered(Watchdog)
    <3>1. /\ work /\ ev.h = conn[c].h /\ ev.kind = "DISCONNECT" /\ belong[c] = "out"
          /\ Registered(Watchdog)
      BY <1>3 DEF ClientDisconnect, ClientEvent, Handling
    <3>2. conn[c].stage = "closed"
      BY <3>1, EventSlot
    <3>. QED  BY <3>1, <3>2 DEF Live, Present
  <2>5. ASSUME NEW m \in sent'  PROVE Knows(m.to, m.client)
    <3>1. PICK s \in Slots : s = m.to
      BY <2>3
    <3>2. conn[s].stage = "open" /\ conn[s].h \in BoundTo(c) \cup {SocketOf(Watchdog)}
      BY <2>1, <2>3, <3>1
    <3>3. Knows(s, c)
      BY <2>4, <3>2, ServesOf
    <3>. QED  BY <2>3, <3>1, <3>3
  <2>. QED  BY <2>3, <2>5 DEF InOrder
<1>4. CASE ClientData(c)
  <2>1. PICK H : H = IF BoundTo(c) # {} THEN BoundTo(c) ELSE {SocketOf(Watchdog)}
    OBVIOUS
  <2>2. Tells("DATA", c, H)
    BY <1>4, <2>1, ClientDataTells DEF Tells
  <2>3. \A m \in sent' : /\ m.kind = "DATA" /\ m.client = c /\ m.to \in Slots
                         /\ conn[m.to].stage = "open" /\ conn[m.to].h \in H
    BY <2>2, SendingTells
  <2>4. Live(c) /\ Registered(Watchdog)
    <3>1. /\ work /\ ev.h = conn[c].h /\ ev.kind = "RECV_DATA" /\ belong[c] = "out"
          /\ Registered(Watchdog)
      BY <1>4 DEF ClientData, ClientEvent, Handling
    <3>2. conn[c].stage = "open" /\ ~New(c)
      BY <3>1, EventSlot DEF New
    <3>. QED  BY <3>1, <3>2 DEF Live
  <2>5. ASSUME NEW m \in sent'  PROVE Knows(m.to, m.client)
    <3>1. PICK s \in Slots : s = m.to
      BY <2>3
    <3>2. conn[s].stage = "open" /\ conn[s].h \in BoundTo(c) \cup {SocketOf(Watchdog)}
      BY <2>1, <2>3, <3>1
    <3>3. Knows(s, c)
      BY <2>4, <3>2, ServesOf
    <3>. QED  BY <2>3, <3>1, <3>3
  <2>. QED  BY <2>3, <2>5 DEF InOrder
<1>. QED  BY <1>1, <1>2, <1>3, <1>4 DEF OnClient

LEMMA BindTellsInOrder ==
  ASSUME IInv, NEW s \in Slots, NEW f, BindClient(s, f), sent' # {}  PROVE InOrder
<1>1. PICK c \in Slots : CanBind(c, f)
  BY DEF BindClient, SendingNothing
<1>2. PICK w : w = SocketOf(f.acName)
  OBVIOUS
<1>3. Tells("CONNECT", c, {SocketOf(f.acName)}) /\ Entry(f.acName, SocketOf(f.acName))
  BY <1>1, BindClientTells
<1>4. Tells("CONNECT", c, {w}) /\ Entry(f.acName, w)
  BY <1>2, <1>3 DEF Tells
<1>5. \A m \in sent' : /\ m.kind = "CONNECT" /\ m.client = c /\ m.to \in Slots
                       /\ conn[m.to].stage = "open" /\ conn[m.to].h = w
  BY <1>4, SendingTells
<1>6. ASSUME NEW r \in Slots, conn[r].h = w, told[r][c] # "none"  PROVE FALSE
  <2>1. Entry(f.acName, conn[r].h) /\ f.acName \in Services
    BY <1>4, <1>6, EntryType DEF IInv
  <2>2. Present(c) /\ acBindSvrName[c] = Unbound /\ f.acName # Watchdog
    BY <1>1 DEF CanBind, Present
  <2>3. f.acName \in {Watchdog, acBindSvrName[c]}
    BY <1>6, <2>1, <2>2 DEF IInv, Bound
  <2>4. f.acName # Unbound
    BY <2>1, GatewayAssumption, Zenon
  <2>. QED  BY <2>2, <2>3, <2>4
<1>. QED  BY <1>5, <1>6 DEF InOrder

LEMMA ServiceTellsInOrder ==
  ASSUME IInv, NEW s \in Slots, OnService(s)  PROVE InOrder
<1>1. CASE sent' = {}
  BY <1>1 DEF InOrder
<1>2. CASE \E f \in Frames : BindClient(s, f)
  BY <1>1, <1>2, BindTellsInOrder
<1>3. CASE /\ ~ServiceConnect(s)
           /\ ~\E left \in CloseFrames \cup {NoFrame} : ServiceDisconnect(s, left)
           /\ ~\E f \in Frames : RegSvr(s, f) \/ CloseClientFrame(s, f) \/ SendToClient(s, f)
                                   \/ SendToSvr(s, f) \/ ServiceActive(s, f)
  BY <1>2, <1>3 DEF OnService
<1>. QED  BY <1>1, <1>3 DEF ServiceConnect, ServiceDisconnect, RegSvr, CloseClientFrame,
            SendToClient, SendToSvr, ServiceActive, SendingNothing

(* A service hears of a client in order: that it is there, then its data,  *)
(* then that it is gone, and nothing more.                                 *)
THEOREM HeardInOrderHolds == Spec => HeardInOrder
<1>1. ASSUME IInv, [Next]_vars  PROVE [InOrder]_vars
  <2>1. CASE UNCHANGED vars
    BY <2>1
  <2>2. CASE Call
    BY <2>2 DEF Call, InOrder
  <2>3. CASE Reading /\ sent' = sent
    BY <1>1, <2>3 DEF IInv, NothingSent, Reading, InOrder
  <2>4. ASSUME NEW i \in Slots, OnClient(i) \/ OnService(i)  PROVE InOrder
    BY <1>1, <2>4, ClientTellsInOrder, ServiceTellsInOrder
  <2>5. CASE ReturnsNothing \/ \E i \in Slots : Accept(i) \/ Closes(i) \/ Releases(i) \/ Returns(i)
    <3>1. Reading /\ sent' = sent
      BY <2>5 DEF ReturnsNothing, Accept, Closes, Releases, Returns
    <3>. QED  BY <2>3, <3>1
  <2>. QED  BY <1>1, <2>1, <2>2, <2>4, <2>5 DEF Next
<1>2. [InOrder]_vars <=> [\A m \in sent' : IF m.kind = "CONNECT" THEN told[m.to][m.client] = "none"
                                            ELSE Knows(m.to, m.client)]_vars
  BY DEF InOrder
<1>. QED  BY <1>1, <1>2, Invariance, PTL DEF Spec, HeardInOrder

(* What the sentence GoneIsTold says of one step.                          *)
Departs == \A c \in Slots : Handled("DISCONNECT", c) /\ Registered(Watchdog) =>
             \A s \in Slots : conn[s].stage = "open" /\ RegisteredAt(conn[s].h) => ~Knows(s, c)'

(* A service that is not told did not know the client.                     *)
LEMMA DisconnectDeparts ==
  ASSUME IInv, NEW c \in Slots, ClientDisconnect(c),
         NEW s \in Slots, conn[s].stage = "open", RegisteredAt(conn[s].h)
  PROVE  ~Knows(s, c)'
<1>1. PICK H : H = BoundTo(c) \cup {SocketOf(Watchdog)}
  OBVIOUS
<1>2. Tells("DISCONNECT", c, H)
  BY <1>1, ClientDisconnectTells DEF Tells
<1>3. told'[s][c] = IF conn[s].h \in H THEN "gone" ELSE told[s][c]
  <2>1. \A r, d \in Slots :
          told'[r][d] = IF d = c /\ conn[r].stage = "open" /\ conn[r].h \in H
                          THEN Told("DISCONNECT", r, c) ELSE told[r][d]
    BY <1>2, SendingTells
  <2>. QED  BY <2>1 DEF Told
<1>4. PICK n : Entry(n, conn[s].h)
  BY RegisteredAtEntry
<1>5. n \in Services
  BY <1>4, EntryType DEF IInv
<1>6. Present(c) /\ Registered(Watchdog)
  <2>1. work /\ ev.h = conn[c].h /\ ev.kind = "DISCONNECT" /\ Registered(Watchdog)
    BY DEF ClientDisconnect, ClientEvent, Handling
  <2>. QED  BY <2>1, EventSlot DEF Present
<1>7. told[s][c] # "none" => conn[s].h \in H
  <2> SUFFICES ASSUME told[s][c] # "none"  PROVE conn[s].h \in H
    OBVIOUS
  <2>1. n \in {Watchdog, acBindSvrName[c]}
    BY <1>4, <1>5, <1>6 DEF IInv, Bound
  <2>2. Registered(n) /\ Entry(n, SocketOf(n))
    BY <1>4, RegisteredEntry, SocketOfName DEF IInv
  <2>3. conn[s].h = SocketOf(n)
    <3>1. PICK h : h = SocketOf(n)
      OBVIOUS
    <3>2. Entry(n, h)
      BY <2>2, <3>1
    <3>. QED  BY <1>4, <3>1, <3>2, EntryUnique DEF IInv
  <2>4. CASE n = Watchdog
    BY <1>1, <2>3, <2>4
  <2>5. CASE n = acBindSvrName[c]
    <3>1. BoundTo(c) = {SocketOf(n)}
      BY <2>2, <2>5 DEF BoundTo
    <3>. QED  BY <1>1, <2>3, <3>1
  <2>. QED  BY <2>1, <2>4, <2>5
<1>. QED  BY <1>3, <1>7 DEF Knows

(* When a client is gone, no registered service still believes it is       *)
(* there, unless there is no watchdog at that moment.                      *)
THEOREM GoneIsToldHolds == Spec => GoneIsTold
<1>1. ASSUME IInv, [Next]_vars  PROVE [Departs]_vars
  <2>1. CASE UNCHANGED vars
    BY <2>1
  <2>2. CASE ~(work /\ ~work')
    BY <2>2 DEF Departs, Handled
  <2>3. ASSUME NEW i \in Slots, Handling(i, "in")  PROVE Departs
    <3> SUFFICES ASSUME NEW c \in Slots, Handled("DISCONNECT", c)  PROVE FALSE
      BY DEF Departs
    <3>1. work /\ ev.h = conn[c].h /\ ev.h = conn[i].h /\ belong[c] = "out" /\ belong[i] = "in"
      BY <2>3 DEF Handling, Handled
    <3>2. c = i
      BY <1>1, <3>1, EventSlot, SameHandle
    <3>. QED  BY <3>1, <3>2
  <2>4. ASSUME NEW i \in Slots, OnClient(i)  PROVE Departs
    <3> SUFFICES ASSUME NEW c \in Slots, Handled("DISCONNECT", c), Registered(Watchdog),
                        NEW s \in Slots, conn[s].stage = "open", RegisteredAt(conn[s].h)
                 PROVE  ~Knows(s, c)'
      BY DEF Departs
    <3>1. work /\ ev.h = conn[c].h /\ ev.kind = "DISCONNECT"
      BY DEF Handled
    <3>2. ev.h = conn[i].h
      BY <2>4 DEF OnClient, ClientRefused, ClientConnect, ClientDisconnect, ClientData,
                  ClientEvent, Handling
    <3>3. c = i
      BY <1>1, <3>1, <3>2, EventSlot, SameHandle
    <3>4. ClientDisconnect(c)
      BY <2>4, <3>1, <3>3 DEF OnClient, ClientRefused, ClientConnect, ClientData, ClientEvent
    <3>. QED  BY <1>1, <3>4, DisconnectDeparts
  <2>5. ASSUME NEW i \in Slots, OnService(i)  PROVE Departs
    <3>1. Handling(i, "in")
      BY <2>5 DEF OnService, ServiceConnect, ServiceDisconnect, RegSvr, BindClient,
                  CloseClientFrame, SendToClient, SendToSvr, ServiceActive, ServiceFrame
    <3>. QED  BY <2>3, <3>1
  <2>6. CASE \/ Call \/ ReturnsNothing
             \/ \E i \in Slots : Accept(i) \/ Closes(i) \/ Releases(i) \/ Returns(i)
    <3>1. ~work
      BY <2>6 DEF Call, ReturnsNothing, Accept, Closes, Releases, Returns, Reading
    <3>. QED  BY <2>2, <3>1
  <2>. QED  BY <1>1, <2>1, <2>4, <2>5, <2>6 DEF Next
<1>2. [Departs]_vars <=>
        [\A c \in Slots : Handled("DISCONNECT", c) /\ Registered(Watchdog) =>
           \A s \in Slots : conn[s].stage = "open" /\ RegisteredAt(conn[s].h) => ~Knows(s, c)']_vars
  BY DEF Departs
<1>. QED  BY <1>1, <1>2, Invariance, PTL DEF Spec, GoneIsTold

=============================================================================
