------------------------------ MODULE SlotLists ------------------------------
(***************************************************************************)
(* The four hash lists of the socket manager with their pointers: what     *)
(* SeNetSocket.c asks of src/common/SeHash.c, and SeHash.c of SeList.c.    *)
(* SocketMgr writes a hash list as a sequence of slots; this module shows  *)
(* that the linked structure implements it.                                *)
(*                                                                         *)
(* A hash list (struct SEHASH) is a table of buckets, found from the slot  *)
(* index, and one list in order of insertion; its nodes (SEHASHNODE) hold  *)
(* a SENODE for each.  A slot (struct SESOCKET) holds three hash nodes,    *)
(* and kMainNode serves two lists, kMainList and kActiveMainList.          *)
(***************************************************************************)
EXTENDS SeList

CONSTANTS MaxSlots, MaxFds,  \* see SocketMgr
          max                \* buckets of a hash list (struct SEHASH)

Lists     == {"kMainList", "kActiveMainList", "kSendList", "kRecvList"}
HashNodes == {"kMainNode", "kSendNode", "kRecvNode"}

(* The hash node with which a slot is on a list.                           *)
NodeFor(l) == CASE l \in {"kMainList", "kActiveMainList"} -> "kMainNode"
                [] l = "kSendList" -> "kSendNode"
                [] l = "kRecvList" -> "kRecvNode"

(* The SENODEs of hash node NodeFor(l) of slot i: in its bucket, and in    *)
(* the list.  The roots: the list of l, and its buckets.                   *)
SlotNodes == {"main", "list"} \X HashNodes \X (0 .. MaxSlots - 1)
MainNode(l, i) == <<"main", NodeFor(l), i>>
ListNode(l, i) == <<"list", NodeFor(l), i>>

Order(l)     == <<l, -1>>
Bucket(l, i) == <<l, i % max>>
Roots        == {<<l, b>> : l \in Lists, b \in -1 .. max - 1}

ASSUME HashAssumption ==
  /\ MaxSlots \in Nat \ {0} /\ MaxFds \in Nat \ {0} /\ max \in Nat \ {0}
  /\ Nodes = SlotNodes /\ Null \notin Nodes

VARIABLES heap, sock

vars == <<heap, sock>>

(* The sequence SocketMgr sees.                                            *)
SlotsOf(l) == LET w == Walk(heap, Order(l)) IN [k \in DOMAIN w |-> w[k][3]]

Mgr == INSTANCE SocketMgr WITH
  kMainList <- SlotsOf("kMainList"), kActiveMainList <- SlotsOf("kActiveMainList"),
  kSendList <- SlotsOf("kSendList"), kRecvList <- SlotsOf("kRecvList")

-----------------------------------------------------------------------------
(* SeHash.c.                                                               *)

HashAdd(h, l, i) ==
  LET added == SeListTailAdd(h, Bucket(l, i), MainNode(l, i)) IN
  SeListTailAdd(added, Order(l), ListNode(l, i))

(* SeHashGet finds slot i in its bucket.                                   *)
HashGet(h, l, i) == \E n \in Range(Walk(h, Bucket(l, i))) : n[3] = i

HashRemove(h, l, i) ==
  LET removed == SeListRemove(h, Bucket(l, i), MainNode(l, i)) IN
  SeListRemove(removed, Order(l), ListNode(l, i))

Empty(h, l)       == h.head[Order(l)] = Null
HashGetHead(h, l) == h.head[Order(l)][3]

HashPopKeepsBucket(h, l) == SeListHeadPop(h, Order(l))                  \* mutant
HashPop(h, l) ==
  LET i      == HashGetHead(h, l)
      popped == SeListHeadPop(h, Order(l))
  IN SeListRemove(popped, Bucket(l, i), MainNode(l, i))

HashMoveToEnd(h, l, i) ==
  LET removed == SeListRemove(h, Order(l), ListNode(l, i)) IN
  SeListTailAdd(removed, Order(l), ListNode(l, i))

-----------------------------------------------------------------------------
(* SeNetSocket.c.                                                          *)

Slots == Mgr!Slots

(* SeNetSocketMgrAdd: the first free slot becomes one of this type.        *)
MgrAdd(type) ==
  /\ ~Empty(heap, "kMainList")
  /\ LET i      == HashGetHead(heap, "kMainList")
         popped == HashPop(heap, "kMainList")
     IN /\ sock' = [sock EXCEPT ![i] = Mgr!NewSlot(i, 1, type, 0)]
        /\ heap' = IF type = "LISTEN" THEN popped ELSE HashAdd(popped, "kActiveMainList", i)

(* SeNetSocketMgrGet finds the slot of a handle that names slot i.         *)
MgrGet(i) == ~HashGet(heap, "kMainList", i) /\ sock[i].kHSocket # Mgr!NoHandle

(* SeNetSocketMgrDel.                                                      *)
Off(h, l, i) == IF HashGet(h, l, i) THEN HashRemove(h, l, i) ELSE h
OffBoth(h, i) == Off(Off(h, "kSendList", i), "kRecvList", i)
MgrDelAddsFirst(i) ==                                             \* mutant
  /\ MgrGet(i)
  /\ sock' = [sock EXCEPT ![i] = Mgr!MgrEnd(Mgr!Reset(@))]
  /\ heap' = Off(HashAdd(OffBoth(heap, i), "kMainList", i), "kActiveMainList", i)
MgrDel(i) ==
  /\ MgrGet(i)
  /\ sock' = [sock EXCEPT ![i] = Mgr!MgrEnd(Mgr!Reset(@))]
  /\ heap' = HashAdd(Off(OffBoth(heap, i), "kActiveMainList", i), "kMainList", i)

(* SeNetSocketMgrAddSendOrRecvInList and ...PopSendOrRecvOutList.          *)
AddInList(l, i) ==
  /\ MgrGet(i)
  /\ heap' = IF HashGet(heap, l, i) THEN heap ELSE HashAdd(heap, l, i)
  /\ UNCHANGED sock

PopOutList(l) == ~Empty(heap, l) /\ heap' = HashPop(heap, l) /\ UNCHANGED sock

(* SeNetSocketMgrTimeOut.                                                  *)
TimeOut ==
  /\ ~Empty(heap, "kActiveMainList")
  /\ heap' = HashMoveToEnd(heap, "kActiveMainList", HashGetHead(heap, "kActiveMainList"))
  /\ UNCHANGED sock

(* SeNetSocketMgrInit adds every slot, in order, to kMainList.             *)
InitialHeap ==
  LET added[n \in 0 .. MaxSlots] ==
        IF n = 0 THEN InitHeap(Roots) ELSE HashAdd(added[n - 1], "kMainList", n - 1)
  IN added[MaxSlots]

Init ==
  /\ heap = InitialHeap
  /\ sock = [i \in Slots |-> [usStatus |-> "INIT", iTypeSocket |-> "NONE",
                              kHSocket |-> Mgr!NoHandle, kSocket |-> Mgr!NoFd,
                              iEventSocket |-> {}, llTime |-> 0, send |-> 0, recv |-> 0]]

Next ==
  \/ \E type \in {"LISTEN", "CLIENT", "ACCEPT"} : MgrAdd(type)
  \/ \E i \in Slots : MgrDel(i) \/ \E l \in {"kSendList", "kRecvList"} : AddInList(l, i)
  \/ \E l \in {"kSendList", "kRecvList"} : PopOutList(l)
  \/ TimeOut

Spec == Init /\ [][Next]_vars

-----------------------------------------------------------------------------
(* Correctness.                                                            *)

(* Every list and every bucket is well linked in both directions, no node  *)
(* is on two of them, and a node on none has null pointers: so what        *)
(* SeListTailAdd asserts of a node holds whenever one is added, although   *)
(* kMainNode goes back and forth between two lists and the assertion       *)
(* cannot tell a lone node from a free one.                                *)
WellLinked ==
  LET on == [r \in Roots |-> Walk(heap, r)] IN
  /\ \A r \in Roots : Represents(heap, r, on[r])
  /\ \A r, q \in Roots : r # q => Range(on[r]) \cap Range(on[q]) = {}
  /\ \A n \in Nodes : Detached(heap, n) \/ \E r \in Roots : n \in Range(on[r])

(* The lists are well linked and the buckets agree with them: what         *)
(* SeHashGet finds in its bucket is exactly what the list holds, so no     *)
(* slot is listed twice, missed by a lookup or found after it left.        *)
ListsSound ==
  /\ WellLinked
  /\ \A l \in Lists : \A i \in Slots : HashGet(heap, l, i) <=> i \in Range(SlotsOf(l))

(* Each function of SeNetSocket.c does to the linked lists what SocketMgr  *)
(* says it does to sequences.                                              *)
RestUnchanged(ls) == \A l \in Lists \ ls : UNCHANGED SlotsOf(l)

MgrStep ==
  \/ \E i \in Slots, type \in {"LISTEN", "CLIENT", "ACCEPT"} :
       /\ Mgr!MgrAdd(i, Mgr!NewSlot(i, 1, type, 0))
       /\ RestUnchanged({"kMainList", "kActiveMainList"})
  \/ \E i \in Slots : Mgr!MgrDel(i)
  \/ /\ UNCHANGED sock
     /\ \E l \in Lists \ {"kMainList"} :
          /\ RestUnchanged({l})
          /\ \/ \E i \in Slots : SlotsOf(l)' = Mgr!AddInList(SlotsOf(l), i)
             \/ SlotsOf(l) # <<>> /\ SlotsOf(l)' = Tail(SlotsOf(l))
             \/ SlotsOf(l) # <<>> /\ SlotsOf(l)' = Mgr!MoveToEnd(SlotsOf(l), Head(SlotsOf(l)))

ImplementsSocketMgr == Mgr!MgrInit /\ [][MgrStep]_<<sock, SlotsOf("kMainList"),
  SlotsOf("kActiveMainList"), SlotsOf("kSendList"), SlotsOf("kRecvList")>>

=============================================================================
