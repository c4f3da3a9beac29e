--------------------------- MODULE SocketMgrProofs ---------------------------
(***************************************************************************)
(* Lemmas about the operators of SocketMgr: what each operation on a hash  *)
(* list and each operation on the slot table does to the lists' members,   *)
(* and that the table operations keep SlotPartition.                       *)
(***************************************************************************)
EXTENDS SocketMgr, SequenceTheorems, TLAPS

(* A list of slots that links each at most once.                           *)
IsList(l) == l \in Seq(Slots) /\ NoDuplicates(l)

-----------------------------------------------------------------------------
(* A hash list starts empty, and holds only slots.                         *)
LEMMA EmptyList == IsList(<<>>) /\ Members(<<>>) = {}
<1>1. <<>> \in Seq(Slots) /\ DOMAIN <<>> = {}
  BY EmptySeq
<1>. QED  BY <1>1 DEF IsList, NoDuplicates, IsInjective, Members, Range

LEMMA ListMembers ==
  ASSUME NEW l, IsList(l)  PROVE Members(l) \subseteq Slots
BY ElementOfSeq, LenProperties DEF IsList, Members, Range

(* Linking a slot at the tail of a hash list that does not hold it.        *)
LEMMA AppendList ==
  ASSUME NEW l, IsList(l), NEW i \in Slots, i \notin Members(l)
  PROVE  IsList(Append(l, i)) /\ Members(Append(l, i)) = Members(l) \cup {i}
<1> DEFINE m == Append(l, i)
<1>1. l \in Seq(Slots)
  BY DEF IsList
<1>2. /\ m \in Seq(Slots) /\ Len(m) = Len(l) + 1
      /\ \A k \in 1 .. Len(l) : m[k] = l[k]
      /\ m[Len(l) + 1] = i
  BY <1>1, AppendProperties
<1>3. /\ Len(l) \in Nat /\ DOMAIN l = 1 .. Len(l) /\ DOMAIN m = 1 .. Len(l) + 1
  BY <1>1, <1>2, LenProperties
<1>4. NoDuplicates(m)
  BY <1>2, <1>3 DEF IsList, NoDuplicates, IsInjective, Members, Range
<1>5. Members(m) = Members(l) \cup {i}
  BY <1>2, <1>3 DEF Members, Range
<1>. QED  BY <1>2, <1>4, <1>5 DEF IsList

(* SeNetSocketMgrAddSendOrRecvInList: listed afterwards, and only once.    *)
LEMMA AddInListList ==
  ASSUME NEW l, IsList(l), NEW i \in Slots
  PROVE  IsList(AddInList(l, i)) /\ Members(AddInList(l, i)) = Members(l) \cup {i}
BY AppendList DEF AddInList

(* Popping the head of a hash list unlinks just that slot.                 *)
LEMMA TailList ==
  ASSUME NEW l, IsList(l), l # <<>>
  PROVE  /\ IsList(Tail(l)) /\ Members(Tail(l)) = Members(l) \ {Head(l)}
         /\ Head(l) \in Members(l) /\ Head(l) \in Slots
<1>1. l \in Seq(Slots)
  BY DEF IsList
<1>2. /\ Head(l) \in Slots /\ Tail(l) \in Seq(Slots) /\ Len(Tail(l)) = Len(l) - 1
      /\ \A k \in 1 .. Len(Tail(l)) : Tail(l)[k] = l[k + 1]
  BY <1>1, HeadTailProperties
<1>3. /\ Len(l) \in Nat \ {0} /\ DOMAIN l = 1 .. Len(l) /\ Head(l) = l[1]
      /\ DOMAIN Tail(l) = 1 .. Len(l) - 1
  BY <1>1, <1>2, LenProperties, EmptySeq
<1>4. NoDuplicates(Tail(l))
  BY <1>2, <1>3 DEF IsList, NoDuplicates, IsInjective
<1>5. Head(l) \in Members(l)
  BY <1>3 DEF Members, Range
<1>6. ASSUME NEW x \in Members(Tail(l))  PROVE x \in Members(l) /\ x # Head(l)
  BY <1>2, <1>3 DEF Members, Range, IsList, NoDuplicates, IsInjective
<1>7. ASSUME NEW x \in Members(l), x # Head(l)  PROVE x \in Members(Tail(l))
  <2>1. PICK k \in 1 .. Len(l) : x = l[k]
    BY <1>3 DEF Members, Range
  <2>2. k - 1 \in 1 .. Len(l) - 1 /\ Tail(l)[k - 1] = x
    BY <2>1, <1>2, <1>3, <1>7
  <2>. QED  BY <2>2, <1>3 DEF Members, Range
<1>. QED  BY <1>2, <1>4, <1>5, <1>6, <1>7 DEF IsList

(* SeHashRemove unlinks just the slot it is asked to.                      *)
LEMMA UnlinkList ==
  ASSUME NEW l, IsList(l), NEW i
  PROVE  IsList(Unlink(l, i)) /\ Members(Unlink(l, i)) = Members(l) \ {i}
<1>1. CASE i \notin Members(l)
  BY <1>1 DEF Unlink
<1>2. CASE i \in Members(l)
  <2> DEFINE k == CHOOSE n \in DOMAIN l : l[n] = i
             a == SubSeq(l, 1, k - 1)
             b == SubSeq(l, k + 1, Len(l))
             m == a \o b
  <2>1. /\ l \in Seq(Slots) /\ Len(l) \in Nat /\ DOMAIN l = 1 .. Len(l)
        /\ \A n \in 1 .. Len(l) : l[n] \in Slots
    BY LenProperties, ElementOfSeq DEF IsList
  <2>2. k \in 1 .. Len(l) /\ l[k] = i
    BY <1>2, <2>1 DEF Members, Range
  <2> HIDE DEF k
  <2>3. /\ a \in Seq(Slots) /\ Len(a) = k - 1
        /\ \A n \in 1 .. k - 1 : a[n] = l[n]
    BY <2>1, <2>2, SubSeqProperties
  <2>4. /\ b \in Seq(Slots) /\ Len(b) = Len(l) - k
        /\ \A n \in 1 .. Len(l) - k : b[n] = l[n + k]
    <3>1. k + 1 \in Int /\ Len(l) \in Int /\ \A n \in k + 1 .. Len(l) : l[n] \in Slots
      BY <2>1, <2>2
    <3>2. /\ b \in Seq(Slots)
          /\ Len(b) = IF k + 1 <= Len(l) THEN Len(l) - (k + 1) + 1 ELSE 0
          /\ \A n \in 1 .. Len(l) - (k + 1) + 1 : b[n] = l[k + 1 + n - 1]
      BY <3>1, SubSeqProperties
    <3> HIDE DEF b
    <3>3. Len(b) = Len(l) - k
      <4>1. Len(b) = IF k + 1 <= Len(l) THEN Len(l) - (k + 1) + 1 ELSE 0
        BY <3>2
      <4>2. k \in Int /\ Len(l) \in Int /\ k <= Len(l)
        BY <2>1, <2>2
      <4>. QED  BY <4>1, <4>2
    <3>4. ASSUME NEW n \in 1 .. Len(l) - k  PROVE b[n] = l[n + k]
      <4>1. n \in 1 .. Len(l) - (k + 1) + 1 /\ k + 1 + n - 1 = n + k
        BY <2>1, <2>2
      <4>. QED  BY <4>1, <3>2
    <3>. QED  BY <3>2, <3>3, <3>4
  <2> HIDE DEF a, b
  <2>5. /\ m \in Seq(Slots) /\ Len(m) = Len(l) - 1
        /\ \A n \in 1 .. Len(l) - 1 : m[n] = IF n < k THEN l[n] ELSE l[n + 1]
    <3>1. /\ m \in Seq(Slots) /\ Len(m) = Len(a) + Len(b)
          /\ \A n \in 1 .. Len(a) + Len(b) :
               m[n] = IF n <= Len(a) THEN a[n] ELSE b[n - Len(a)]
      BY <2>3, <2>4, ConcatProperties
    <3> HIDE DEF m
    <3>2. Len(a) + Len(b) = Len(l) - 1
      BY <2>1, <2>2, <2>3, <2>4
    <3>3. ASSUME NEW n \in 1 .. Len(l) - 1, n < k  PROVE m[n] = l[n]
      BY <3>1, <3>2, <3>3, <2>2, <2>3
    <3>4. ASSUME NEW n \in 1 .. Len(l) - 1, ~(n < k)  PROVE m[n] = l[n + 1]
      <4>1. m[n] = b[n - (k - 1)]
        BY <3>1, <3>2, <3>4, <2>1, <2>2, <2>3
      <4>2. n - (k - 1) \in 1 .. Len(l) - k /\ n - (k - 1) + k = n + 1
        BY <3>4, <2>1, <2>2
      <4>. QED  BY <4>1, <4>2, <2>4
    <3>. QED  BY <3>1, <3>2, <3>3, <3>4
  <2>6. DOMAIN m = 1 .. Len(l) - 1
    BY <2>5, LenProperties
  <2> HIDE DEF m
  <2>7. NoDuplicates(m)
    <3>1. ASSUME NEW p \in 1 .. Len(l), NEW q \in 1 .. Len(l), l[p] = l[q]  PROVE p = q
      BY <3>1, <2>1 DEF IsList, NoDuplicates, IsInjective
    <3>2. ASSUME NEW p \in 1 .. Len(l) - 1, NEW q \in 1 .. Len(l) - 1, m[p] = m[q]
          PROVE  p = q
      <4> DEFINE at(n) == IF n < k THEN n ELSE n + 1
      <4>1. /\ at(p) \in 1 .. Len(l) /\ m[p] = l[at(p)]
            /\ at(q) \in 1 .. Len(l) /\ m[q] = l[at(q)]
        BY <2>1, <2>2, <2>5
      <4>2. at(p) = at(q)
        BY <4>1, <3>1, <3>2
      <4>. QED  BY <4>2, <2>2
    <3>. QED  BY <3>2, <2>6 DEF NoDuplicates, IsInjective
  <2>8. ASSUME NEW x \in Members(m)  PROVE x \in Members(l) \ {i}
    <3>1. PICK n \in 1 .. Len(l) - 1 : x = m[n]
      BY <2>6 DEF Members, Range
    <3>2. PICK p \in 1 .. Len(l) : x = l[p] /\ p # k
      BY <3>1, <2>1, <2>2, <2>5
    <3>. QED  BY <3>2, <2>1, <2>2 DEF Members, Range, IsList, NoDuplicates, IsInjective
  <2>9. ASSUME NEW x \in Members(l) \ {i}  PROVE x \in Members(m)
    <3>1. PICK n \in 1 .. Len(l) : x = l[n]
      BY <2>1 DEF Members, Range
    <3>2. CASE n < k
      <4>1. n \in 1 .. Len(l) - 1 /\ m[n] = l[n]
        BY <3>2, <2>1, <2>2, <2>5
      <4>. QED  BY <4>1, <3>1, <2>6 DEF Members, Range
    <3>3. CASE n > k
      <4>1. n - 1 \in 1 .. Len(l) - 1 /\ m[n - 1] = l[n]
        BY <3>3, <2>1, <2>2, <2>5
      <4>. QED  BY <4>1, <3>1, <2>6 DEF Members, Range
    <3>. QED  BY <3>1, <3>2, <3>3, <2>1, <2>2, <2>9
  <2>10. Unlink(l, i) = m
    BY <1>2 DEF Unlink, RemoveAt, m, a, b, k
  <2>. QED  BY <2>5, <2>7, <2>8, <2>9, <2>10 DEF IsList
<1>. QED  BY <1>1, <1>2

(* SeHashMoveToEnd changes the order of a list and nothing else.           *)
LEMMA MoveToEndList ==
  ASSUME NEW l, IsList(l), NEW i \in Slots, i \in Members(l)
  PROVE  IsList(MoveToEnd(l, i)) /\ Members(MoveToEnd(l, i)) = Members(l)
<1>1. IsList(Unlink(l, i)) /\ Members(Unlink(l, i)) = Members(l) \ {i}
  BY UnlinkList
<1>2. /\ IsList(Append(Unlink(l, i), i))
      /\ Members(Append(Unlink(l, i), i)) = Members(Unlink(l, i)) \cup {i}
  BY <1>1, AppendList
<1>. QED  BY <1>1, <1>2 DEF MoveToEnd

-----------------------------------------------------------------------------
(* The table operations.  TableOK is what they keep between them.          *)
TableOK == MgrTypeOK /\ SlotPartition /\ FreeSlotsDrained

(* The lists of a well-formed table.                                       *)
LEMMA TableLists ==
  ASSUME TableOK
  PROVE  /\ IsList(kMainList) /\ IsList(kActiveMainList)
         /\ IsList(kSendList) /\ IsList(kRecvList)
BY DEF TableOK, MgrTypeOK, SlotPartition, ListsSimple, IsList

(* A slot that SeNetSocketMgrDel has reset is one that SeNetSocketMgrInit  *)
(* could have made.                                                        *)
LEMMA ResetSlot ==
  ASSUME NEW s \in SlotRecord
  PROVE  LET r == MgrEnd(Reset(s)) IN
         /\ r \in SlotRecord /\ r.usStatus = "INIT" /\ r.iTypeSocket = "NONE"
         /\ r.kHSocket = NoHandle /\ r.kSocket = NoFd /\ r.send = 0 /\ r.recv = 0
BY DEF SlotRecord, MgrEnd, Reset, Statuses, Types, Handles, EventBits

(* The slot SeNetSocketMgrAdd hands out, as its callers complete it.       *)
LEMMA PreparedSlot ==
  ASSUME MgrTypeOK, NEW i \in Slots, NEW fd \in Fds, NEW tick \in Nat,
         NEW type \in Types, NEW status \in Statuses
  PROVE  LET s == [NewSlot(i, fd, type, tick) EXCEPT !.usStatus = status] IN
         /\ s \in SlotRecord /\ s.usStatus = status /\ s.iTypeSocket = type
         /\ s.kSocket = fd /\ s.kHSocket = Handle(i, tick)
         /\ s.send = sock[i].send /\ s.recv = sock[i].recv
<1> DEFINE r == Reset(sock[i])
           n == NewSlot(i, fd, type, tick)
<1>1. /\ sock[i] \in SlotRecord /\ Handle(i, tick) \in Handles
  BY DEF MgrTypeOK, Handles, Handle
<1>2. /\ r \in SlotRecord /\ r.send = sock[i].send /\ r.recv = sock[i].recv
  BY <1>1 DEF SlotRecord, Reset, Statuses, Types, Handles, EventBits
<1>3. n = [r EXCEPT !.kSocket = fd, !.kHSocket = Handle(i, tick),
                    !.iTypeSocket = type, !.llTime = tick]
  BY DEF NewSlot
<1> HIDE DEF r, n
<1>4. /\ n \in SlotRecord /\ n.kSocket = fd /\ n.kHSocket = Handle(i, tick)
      /\ n.iTypeSocket = type /\ n.send = r.send /\ n.recv = r.recv
  BY <1>1, <1>2, <1>3 DEF SlotRecord
<1>5. /\ [n EXCEPT !.usStatus = status] \in SlotRecord
      /\ [n EXCEPT !.usStatus = status].usStatus = status
      /\ [n EXCEPT !.usStatus = status].iTypeSocket = n.iTypeSocket
      /\ [n EXCEPT !.usStatus = status].kSocket = n.kSocket
      /\ [n EXCEPT !.usStatus = status].kHSocket = n.kHSocket
      /\ [n EXCEPT !.usStatus = status].send = n.send
      /\ [n EXCEPT !.usStatus = status].recv = n.recv
  BY <1>4 DEF SlotRecord
<1>. QED  BY <1>2, <1>4, <1>5 DEF n

(* A handle of SeGetHSocket names one of the slots.                        *)
LEMMA HandleIndex ==
  ASSUME NEW h \in Handles  PROVE IndexOf(h) \in Slots
BY SizeAssumption DEF Handles, IndexOf, NoHandle, Slots

(* SeNetSocketMgrInit.                                                     *)
LEMMA MgrInitOK == MgrInit => TableOK
<1> SUFFICES ASSUME MgrInit  PROVE TableOK
  OBVIOUS
<1>1. sock \in [Slots -> SlotRecord]
  BY DEF MgrInit, SlotRecord, Statuses, Types, Handles, EventBits
<1>2. /\ kMainList \in Seq(Slots)
      /\ DOMAIN kMainList = 1 .. MaxSlots
      /\ \A k \in 1 .. MaxSlots : kMainList[k] = k - 1
  <2>1. \A k \in 1 .. MaxSlots : k - 1 \in Slots
    BY SizeAssumption DEF Slots
  <2>. QED  BY <2>1, SizeAssumption, IsASeq DEF MgrInit
<1>3. NoDuplicates(kMainList)
  BY <1>2, SizeAssumption DEF NoDuplicates, IsInjective
<1>4. \A i \in Slots : i \in Members(kMainList)
  <2>1. ASSUME NEW i \in Slots  PROVE i + 1 \in 1 .. MaxSlots /\ kMainList[i + 1] = i
    BY <1>2, SizeAssumption DEF Slots
  <2>. QED  BY <2>1, <1>2 DEF Members, Range
<1>5. \A l \in {kActiveMainList, kSendList, kRecvList} :
        l \in Seq(Slots) /\ NoDuplicates(l) /\ Members(l) = {}
  BY EmptyList DEF MgrInit, IsList
<1>6. MgrTypeOK
  BY <1>1, <1>2, <1>5 DEF MgrTypeOK
<1>7. \A i \in Slots : /\ sock[i].usStatus = "INIT" /\ sock[i].iTypeSocket = "NONE"
                       /\ sock[i].kHSocket = NoHandle /\ sock[i].send = 0 /\ sock[i].recv = 0
  BY DEF MgrInit
<1>8. Members(kMainList) \subseteq Slots
  BY <1>2, <1>3, ListMembers DEF IsList
<1>9. SlotPartition
  BY <1>3, <1>4, <1>5, <1>7, <1>8 DEF SlotPartition, ListsSimple, IsConnection
<1>. QED  BY <1>6, <1>7, <1>8, <1>9 DEF TableOK, FreeSlotsDrained

(* A step that changes only the record of a slot in use, its place in the  *)
(* sweep, and the two work lists.                                          *)
LEMMA SlotStepOK ==
  ASSUME TableOK, NEW i \in Slots, NEW s \in SlotRecord,
         sock[i].usStatus # "INIT", s.usStatus # "INIT",
         s.iTypeSocket = sock[i].iTypeSocket,
         sock' = [sock EXCEPT ![i] = s],
         kMainList' = kMainList,
         IsList(kActiveMainList'), Members(kActiveMainList') = Members(kActiveMainList),
         IsList(kSendList'), Members(kSendList') \subseteq Members(kSendList) \cup {i},
         IsList(kRecvList'), Members(kRecvList') \subseteq Members(kRecvList) \cup {i}
  PROVE  TableOK'
<1>1. MgrTypeOK'
  BY DEF TableOK, MgrTypeOK, IsList
<1>2. \A j \in Slots : /\ sock'[j].usStatus = "INIT" <=> sock[j].usStatus = "INIT"
                       /\ sock'[j].iTypeSocket = sock[j].iTypeSocket
                       /\ j # i => sock'[j] = sock[j]
  BY DEF TableOK, MgrTypeOK
<1>3. ListsSimple'
  BY TableLists DEF ListsSimple, IsList
<1>4. i \notin Members(kMainList) /\ Members(kMainList) \subseteq Slots
  BY DEF TableOK, SlotPartition, MgrTypeOK, Members, Range
<1>5. SlotPartition'
  BY <1>2, <1>3, <1>4 DEF TableOK, SlotPartition, IsConnection
<1>6. FreeSlotsDrained'
  BY <1>2, <1>4 DEF TableOK, FreeSlotsDrained
<1>. QED  BY <1>1, <1>5, <1>6 DEF TableOK

(* SeNetSocketMgrAdd: the head of the free list becomes a slot in use.     *)
LEMMA MgrAddOK ==
  ASSUME TableOK, NEW i, NEW s \in SlotRecord, MgrAdd(i, s),
         s.usStatus # "INIT", s.iTypeSocket # "NONE",
         IsList(kSendList'), Members(kSendList') \subseteq Members(kSendList) \cup {i},
         kRecvList' = kRecvList
  PROVE  TableOK' /\ i \in Slots /\ i \in Members(kMainList)
<1>1. /\ i \in Slots /\ i \in Members(kMainList)
      /\ IsList(kMainList') /\ Members(kMainList') = Members(kMainList) \ {i}
  BY TableLists, TailList DEF MgrAdd, MgrFull, FreeSlot
<1>2. sock[i].iTypeSocket = "NONE" /\ i \notin Members(kActiveMainList)
  BY <1>1 DEF TableOK, SlotPartition, IsConnection
<1>3. /\ IsList(kActiveMainList')
      /\ Members(kActiveMainList') =
           Members(kActiveMainList) \cup (IF IsConnection(s) THEN {i} ELSE {})
  BY <1>1, <1>2, TableLists, AppendList DEF MgrAdd
<1>4. sock' = [sock EXCEPT ![i] = s] /\ sock \in [Slots -> SlotRecord]
  BY DEF MgrAdd, TableOK, MgrTypeOK
<1>5. MgrTypeOK' /\ ListsSimple'
  BY <1>1, <1>3, <1>4, TableLists DEF MgrTypeOK, ListsSimple, IsList
<1>6. SlotPartition'
  <2>1. Members(kMainList) \subseteq Slots
    BY TableLists, ListMembers
  <2>. QED
    BY <1>1, <1>3, <1>4, <1>5, <2>1 DEF TableOK, SlotPartition, IsConnection
<1>7. FreeSlotsDrained'
  <2>1. Members(kMainList) \subseteq Slots
    BY TableLists, ListMembers
  <2>. QED  BY <1>1, <1>4, <2>1 DEF TableOK, FreeSlotsDrained
<1>. QED  BY <1>1, <1>5, <1>6, <1>7 DEF TableOK

(* SeNetSocketMgrDel: a slot in use goes to the tail of the free list.     *)
LEMMA MgrDelOK ==
  ASSUME TableOK, NEW i \in Slots, MgrDel(i), sock[i].usStatus # "INIT"
  PROVE  /\ TableOK'
         /\ Members(kSendList') = Members(kSendList) \ {i}
         /\ \A j \in Slots : j # i => sock'[j] = sock[j]
         /\ sock'[i].usStatus = "INIT" /\ sock'[i].kSocket = NoFd
<1> DEFINE r == MgrEnd(Reset(sock[i]))
<1>1. sock' = [sock EXCEPT ![i] = r] /\ sock \in [Slots -> SlotRecord]
  BY DEF MgrDel, TableOK, MgrTypeOK
<1>2. /\ r \in SlotRecord /\ r.usStatus = "INIT" /\ r.iTypeSocket = "NONE"
      /\ r.kHSocket = NoHandle /\ r.kSocket = NoFd /\ r.send = 0 /\ r.recv = 0
  BY <1>1, ResetSlot
<1> HIDE DEF r
<1>3. /\ IsList(kSendList') /\ Members(kSendList') = Members(kSendList) \ {i}
      /\ IsList(kRecvList') /\ Members(kRecvList') = Members(kRecvList) \ {i}
      /\ IsList(kActiveMainList') /\ Members(kActiveMainList') = Members(kActiveMainList) \ {i}
  BY TableLists, UnlinkList DEF MgrDel
<1>4. i \notin Members(kMainList) /\ Members(kMainList) \subseteq Slots
  BY TableLists, ListMembers DEF TableOK, SlotPartition
<1>5. IsList(kMainList') /\ Members(kMainList') = Members(kMainList) \cup {i}
  BY <1>4, TableLists, AppendList DEF MgrDel
<1>6. MgrTypeOK' /\ ListsSimple'
  BY <1>1, <1>2, <1>3, <1>5 DEF MgrTypeOK, ListsSimple, IsList
<1>7. /\ \A j \in Slots : j # i => sock'[j] = sock[j]
      /\ sock'[i] = r
  BY <1>1
<1>8. SlotPartition'
  BY <1>2, <1>3, <1>4, <1>5, <1>6, <1>7 DEF TableOK, SlotPartition, IsConnection
<1>9. FreeSlotsDrained'
  BY <1>2, <1>4, <1>5, <1>7 DEF TableOK, FreeSlotsDrained
<1>. QED  BY <1>2, <1>3, <1>6, <1>7, <1>8, <1>9 DEF TableOK

(* A slot taken and given back in one call.                                *)
LEMMA MgrAddThenDelOK ==
  ASSUME TableOK, MgrAddThenDel
  PROVE  /\ TableOK'
         /\ \A j \in Slots : /\ sock'[j].usStatus = sock[j].usStatus
                             /\ j \notin Members(kMainList) => sock'[j] = sock[j]
<1> DEFINE i == FreeSlot
           r == MgrEnd(Reset(sock[i]))
<1>1. i \in Slots /\ i \in Members(kMainList) /\ Members(kMainList) \subseteq Slots
  BY TableLists, TailList, ListMembers DEF MgrAddThenDel, MgrFull, FreeSlot
<1>2. sock' = [sock EXCEPT ![i] = r] /\ sock \in [Slots -> SlotRecord]
  BY DEF MgrAddThenDel, TableOK, MgrTypeOK
<1>3. /\ r \in SlotRecord /\ r.usStatus = "INIT" /\ r.iTypeSocket = "NONE"
      /\ r.kHSocket = NoHandle /\ r.send = 0 /\ r.recv = 0
  BY <1>1, <1>2, ResetSlot
<1>4. IsList(kMainList') /\ Members(kMainList') = Members(kMainList)
  BY <1>1, TableLists, MoveToEndList DEF MgrAddThenDel
<1> HIDE DEF r, i
<1>5. kActiveMainList' = kActiveMainList /\ kSendList' = kSendList /\ kRecvList' = kRecvList
  BY DEF MgrAddThenDel
<1>6. /\ sock[i].usStatus = "INIT" /\ sock[i].iTypeSocket = "NONE"
      /\ \A j \in Slots : j # i => sock'[j] = sock[j]
      /\ sock'[i] = r
  BY <1>1, <1>2 DEF TableOK, SlotPartition
<1>7. MgrTypeOK' /\ ListsSimple'
  BY <1>2, <1>3, <1>4, <1>5, TableLists DEF MgrTypeOK, ListsSimple, IsList
<1>8. SlotPartition'
  BY <1>1, <1>3, <1>4, <1>5, <1>6, <1>7 DEF TableOK, SlotPartition, IsConnection
<1>9. FreeSlotsDrained'
  BY <1>1, <1>3, <1>4, <1>6 DEF TableOK, FreeSlotsDrained
<1>. QED  BY <1>1, <1>3, <1>6, <1>7, <1>8, <1>9 DEF TableOK

==============================================================================
