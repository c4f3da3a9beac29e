-------------------------------- MODULE SeList --------------------------------
(***************************************************************************)
(* The intrusive doubly linked lists of src/common/SeList.c.  A heap holds *)
(* the roots (struct SELIST: head, tail) and the nodes (struct SENODE:     *)
(* prev, next); each operation of SeList.c is an operator from a heap to   *)
(* the heap it leaves.  Nothing in a node says which list it is on: that   *)
(* the operations keep lists apart is up to their callers.                 *)
(***************************************************************************)
EXTENDS Integers, Sequences, SequencesExt, FiniteSets

CONSTANTS Nodes, Null

Pointers == Nodes \cup {Null}

Heaps(roots) == [head : [roots -> Pointers], tail : [roots -> Pointers],
                 prev : [Nodes -> Pointers], next : [Nodes -> Pointers]]

(* SeListInit of every root, SeListInitNode of every node.                 *)
InitHeap(roots) ==
  [head |-> [r \in roots |-> Null], tail |-> [r \in roots |-> Null],
   prev |-> [m \in Nodes |-> Null], next |-> [m \in Nodes |-> Null]]

(* What SeListHeadAdd and SeListTailAdd assert of the node they are given. *)
(* A node that is alone on a list passes too.                              *)
Detached(h, n) == h.prev[n] = Null /\ h.next[n] = Null

(* p->field = q, when p is not null.                                       *)
Set(field, p, q) == IF p = Null THEN field ELSE [field EXCEPT ![p] = q]

SeListHeadAdd(h, r, n) ==
  [head |-> [h.head EXCEPT ![r] = n],
   tail |-> [h.tail EXCEPT ![r] = IF @ = Null THEN n ELSE @],
   prev |-> Set([h.prev EXCEPT ![n] = Null], h.head[r], n),
   next |-> [h.next EXCEPT ![n] = h.head[r]]]

SeListTailAdd(h, r, n) ==
  [head |-> [h.head EXCEPT ![r] = IF @ = Null THEN n ELSE @],
   tail |-> [h.tail EXCEPT ![r] = n],
   prev |-> [h.prev EXCEPT ![n] = h.tail[r]],
   next |-> Set([h.next EXCEPT ![n] = Null], h.tail[r], n)]

(* SeListRemove unlinks n from its neighbours, and from the ends of the    *)
(* list the caller says it is on.                                          *)
SeListRemoveKeepsTail(h, r, n) ==                                 \* mutant
  [head |-> [h.head EXCEPT ![r] = IF h.prev[n] = Null THEN h.next[n] ELSE @],
   tail |-> h.tail,
   prev |-> [Set(h.prev, h.next[n], h.prev[n]) EXCEPT ![n] = Null],
   next |-> [Set(h.next, h.prev[n], h.next[n]) EXCEPT ![n] = Null]]
SeListRemove(h, r, n) ==
  [head |-> [h.head EXCEPT ![r] = IF h.prev[n] = Null THEN h.next[n] ELSE @],
   tail |-> [h.tail EXCEPT ![r] = IF h.next[n] = Null THEN h.prev[n] ELSE @],
   prev |-> [Set(h.prev, h.next[n], h.prev[n]) EXCEPT ![n] = Null],
   next |-> [Set(h.next, h.prev[n], h.next[n]) EXCEPT ![n] = Null]]

(* SeListHeadPop and SeListTailPop of a list that is not empty.            *)
SeListHeadPop(h, r) == SeListRemove(h, r, h.head[r])
SeListTailPop(h, r) == SeListRemove(h, r, h.tail[r])

(* SeListRemoveEnd cuts the list behind node e and returns what was its    *)
(* head: the chain from there to e stays linked and is on no list.         *)
SeListRemoveEnd(h, r, e) ==
  [head |-> [h.head EXCEPT ![r] = h.next[e]],
   tail |-> [h.tail EXCEPT ![r] = IF h.next[e] = Null THEN Null ELSE @],
   prev |-> Set(h.prev, h.next[e], Null),
   next |-> [h.next EXCEPT ![e] = Null]]

-----------------------------------------------------------------------------
(* What a list is for its users: the sequence of its nodes.                *)

(* The pointers of root r and of the nodes of s are those of the list s.   *)
Represents(h, r, s) ==
  /\ s \in Seq(Nodes)
  /\ \A j, k \in 1 .. Len(s) : s[j] = s[k] => j = k
  /\ h.head[r] = IF s = <<>> THEN Null ELSE s[1]
  /\ h.tail[r] = IF s = <<>> THEN Null ELSE s[Len(s)]
  /\ \A k \in 1 .. Len(s) :
       /\ h.prev[s[k]] = IF k = 1 THEN Null ELSE s[k - 1]
       /\ h.next[s[k]] = IF k = Len(s) THEN Null ELSE s[k + 1]

(* The nodes met from the head on, as SeHashGet and every other reader     *)
(* meets them, behind and with node c[1]; a list that does not end is cut  *)
(* off after c[2] nodes.                                                   *)
Met(h) ==
  LET from[c \in Pointers \X Nat] ==
        IF c[1] = Null \/ c[2] = 0 THEN <<>>
        ELSE <<c[1]>> \o from[<<h.next[c[1]], c[2] - 1>>]
  IN from

Walk(h, r) == Met(h)[<<h.head[r], Cardinality(Nodes) + 1>>]

=============================================================================
