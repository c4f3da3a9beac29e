---------------------------- MODULE SlotListsProofs ----------------------------
(***************************************************************************)
(* The linked lists of SeList.c, and the hash lists the socket manager     *)
(* keeps with them, for any number of nodes, slots and buckets.            *)
(*                                                                         *)
(* First what the operations of SeList.c do to the lists the pointers      *)
(* stand for, for every heap, list and node.  Each has two facts: what it  *)
(* makes of its own list, and that it leaves every other list as it was.   *)
(* Both need what the assertions of SeList.c cannot check: that the node   *)
(* to be added is on no list, and that the node to be removed is on the    *)
(* list named.                                                             *)
(*                                                                         *)
(* Then that a reader meets the list a root stands for (WalkIs), by        *)
(* induction over the number of steps.                                     *)
(*                                                                         *)
(* Last the states of SlotLists.  IInv says that the heap holds some       *)
(* contents q of the four hash lists: it is Linked (no node on two lists,  *)
(* every other node detached), and each hash list is Filed (its list and   *)
(* its buckets both hold exactly q[l]).  One lemma for each function of    *)
(* SeHash.c says which contents it leaves; with these, each function of    *)
(* SeNetSocket.c keeps IInv and is a step of SocketMgr.                    *)
(***************************************************************************)
EXTENDS SlotLists, SequenceTheorems, FiniteSetTheorems, WellFoundedInduction, TLAPS

(* No node of t is in the set S.                                           *)
Avoids(t, S) == \A k \in 1 .. Len(t) : t[k] \notin S

(* s without its element at k, and n before s.                             *)
Without(s, k) == [j \in 1 .. Len(s) - 1 |-> IF j < k THEN s[j] ELSE s[j + 1]]
Before(n, s)  == [j \in 1 .. Len(s) + 1 |-> IF j = 1 THEN n ELSE s[j - 1]]

-----------------------------------------------------------------------------
(* A list a heap represents is made of the pointers at its root and its    *)
(* nodes, so a change that leaves these alone leaves the list.             *)
LEMMA Frame ==
  ASSUME NEW g, NEW h, NEW q, NEW t, Represents(h, q, t),
         g.head[q] = h.head[q], g.tail[q] = h.tail[q],
         \A k \in 1 .. Len(t) : g.prev[t[k]] = h.prev[t[k]] /\ g.next[t[k]] = h.next[t[k]]
  PROVE  Represents(g, q, t)
BY DEF Represents

(* A sequence is empty when its length is zero.                            *)
LEMMA LenZero == ASSUME NEW S, NEW u \in Seq(S) PROVE u = <<>> <=> Len(u) = 0
BY EmptySeq

(* SeListTailAdd appends.                                                  *)
THEOREM TailAddAppends ==
  ASSUME NEW roots, NEW h \in Heaps(roots), NEW r \in roots, NEW s, NEW n \in Nodes,
         Null \notin Nodes, Represents(h, r, s), Avoids(s, {n})
  PROVE  Represents(SeListTailAdd(h, r, n), r, Append(s, n))
<1> DEFINE g == SeListTailAdd(h, r, n)
           u == Append(s, n)
           L == Len(s)
<1>s. s \in Seq(Nodes) /\ L \in Nat /\ \A k \in 1 .. L : s[k] \in Nodes /\ s[k] # n
  BY DEF Represents, Avoids
<1>u. /\ u \in Seq(Nodes) /\ Len(u) = L + 1 /\ u # <<>> /\ u[L + 1] = n
      /\ \A k \in 1 .. L : u[k] = s[k]
  <2>1. u \in Seq(Nodes) /\ Len(u) = L + 1 /\ u[L + 1] = n /\ \A k \in 1 .. L : u[k] = s[k]
    BY <1>s, AppendProperties
  <2> HIDE DEF u
  <2>2. u # <<>>
    BY <2>1, <1>s, LenZero
  <2> QED BY <2>1, <2>2
<1>h. /\ h.head \in [roots -> Pointers] /\ h.tail \in [roots -> Pointers]
      /\ h.prev \in [Nodes -> Pointers] /\ h.next \in [Nodes -> Pointers]
  BY DEF Heaps
<1>g. /\ g.head[r] = IF h.head[r] = Null THEN n ELSE h.head[r]
      /\ g.tail[r] = n
      /\ \A m \in Nodes : g.prev[m] = IF m = n THEN h.tail[r] ELSE h.prev[m]
      /\ \A m \in Nodes : m # n =>
           g.next[m] = IF m = h.tail[r] THEN n ELSE h.next[m]
      /\ h.tail[r] # n => g.next[n] = Null
  BY <1>h DEF SeListTailAdd, Set
<1>e. /\ h.head[r] = IF L = 0 THEN Null ELSE s[1]
      /\ h.tail[r] = IF L = 0 THEN Null ELSE s[L]
      /\ \A j, k \in 1 .. L : s[j] = s[k] => j = k
      /\ \A k \in 1 .. L : /\ h.prev[s[k]] = IF k = 1 THEN Null ELSE s[k - 1]
                           /\ h.next[s[k]] = IF k = L THEN Null ELSE s[k + 1]
  BY <1>s DEF Represents
<1>n. h.tail[r] # n
  BY <1>s, <1>e
<1> HIDE DEF u, g
<1>1. \A j, k \in 1 .. Len(u) : u[j] = u[k] => j = k
  BY <1>s, <1>u, <1>e
<1>2. g.head[r] = u[1] /\ g.tail[r] = u[Len(u)]
  BY <1>s, <1>u, <1>g, <1>e
<1>3. ASSUME NEW k \in 1 .. Len(u)
      PROVE  g.prev[u[k]] = IF k = 1 THEN Null ELSE u[k - 1]
  <2>1. CASE k = L + 1
    BY <2>1, <1>s, <1>u, <1>g, <1>e
  <2>2. CASE k \in 1 .. L
    BY <2>2, <1>s, <1>u, <1>g, <1>e
  <2> QED BY <2>1, <2>2, <1>s, <1>u
<1>4. ASSUME NEW k \in 1 .. Len(u)
      PROVE  g.next[u[k]] = IF k = Len(u) THEN Null ELSE u[k + 1]
  <2>1. CASE k = L + 1
    BY <2>1, <1>u, <1>g, <1>n
  <2>2. CASE k \in 1 .. L
    <3>1. u[k] = s[k] /\ s[k] \in Nodes /\ s[k] # n /\ L # 0 /\ h.tail[r] = s[L] /\ L \in 1 .. L
      BY <2>2, <1>s, <1>u, <1>e
    <3>2. s[k] = s[L] <=> k = L
      BY <2>2, <3>1, <1>e
    <3>3. g.next[s[k]] = IF s[k] = s[L] THEN n ELSE h.next[s[k]]
      BY <3>1, <1>g
    <3>4. g.next[s[k]] = IF k = L THEN n ELSE s[k + 1]
      BY <2>2, <3>2, <3>3, <1>e
    <3> QED BY <2>2, <3>1, <3>4, <1>s, <1>u
  <2> QED BY <2>1, <2>2, <1>s, <1>u
<1>5. Represents(g, r, u)
  BY <1>u, <1>1, <1>2, <1>3, <1>4 DEF Represents
<1> QED BY <1>5 DEF g, u

(* SeListHeadAdd puts the node before the others.                          *)
THEOREM HeadAddPrepends ==
  ASSUME NEW roots, NEW h \in Heaps(roots), NEW r \in roots, NEW s, NEW n \in Nodes,
         Null \notin Nodes, Represents(h, r, s), Avoids(s, {n})
  PROVE  Represents(SeListHeadAdd(h, r, n), r, Before(n, s))
<1> DEFINE g == SeListHeadAdd(h, r, n)
           u == Before(n, s)
           L == Len(s)
<1>s. s \in Seq(Nodes) /\ L \in Nat /\ \A k \in 1 .. L : s[k] \in Nodes /\ s[k] # n
  BY DEF Represents, Avoids
<1>u. /\ u \in Seq(Nodes) /\ Len(u) = L + 1 /\ u # <<>> /\ u[1] = n
      /\ \A k \in 1 .. L : u[k + 1] = s[k]
  <2>1. \A j \in 1 .. L + 1 : (IF j = 1 THEN n ELSE s[j - 1]) \in Nodes
    BY <1>s
  <2>2. u \in Seq(Nodes) /\ Len(u) = L + 1
    BY <2>1, <1>s, IsASeq DEF Before
  <2>3. u[1] = n /\ \A k \in 1 .. L : u[k + 1] = s[k]
    BY <1>s DEF Before
  <2> HIDE DEF u
  <2>4. u # <<>>
    BY <2>2, <1>s, LenZero
  <2> QED BY <2>2, <2>3, <2>4
<1>h. /\ h.head \in [roots -> Pointers] /\ h.tail \in [roots -> Pointers]
      /\ h.prev \in [Nodes -> Pointers] /\ h.next \in [Nodes -> Pointers]
  BY DEF Heaps
<1>g. /\ g.head[r] = n
      /\ g.tail[r] = IF h.tail[r] = Null THEN n ELSE h.tail[r]
      /\ \A m \in Nodes : g.next[m] = IF m = n THEN h.head[r] ELSE h.next[m]
      /\ \A m \in Nodes : m # n =>
           g.prev[m] = IF m = h.head[r] THEN n ELSE h.prev[m]
      /\ h.head[r] # n => g.prev[n] = Null
  BY <1>h DEF SeListHeadAdd, Set
<1>e. /\ h.head[r] = IF L = 0 THEN Null ELSE s[1]
      /\ h.tail[r] = IF L = 0 THEN Null ELSE s[L]
      /\ \A j, k \in 1 .. L : s[j] = s[k] => j = k
      /\ \A k \in 1 .. L : /\ h.prev[s[k]] = IF k = 1 THEN Null ELSE s[k - 1]
                           /\ h.next[s[k]] = IF k = L THEN Null ELSE s[k + 1]
  BY <1>s DEF Represents
<1>n. h.head[r] # n
  BY <1>s, <1>e
<1> HIDE DEF u, g
<1>k. \A k \in 1 .. Len(u) : k = 1 \/ (k - 1 \in 1 .. L /\ u[k] = s[k - 1])
  <2> TAKE k \in 1 .. Len(u)
  <2>1. k = 1 \/ (k - 1 \in 1 .. L /\ k = (k - 1) + 1)
    BY <1>u, <1>s
  <2> QED BY <2>1, <1>u
<1>1. ASSUME NEW j \in 1 .. Len(u), NEW k \in 1 .. Len(u), u[j] = u[k]
      PROVE  j = k
  <2>1. CASE j = 1
    BY <2>1, <1>1, <1>u, <1>k, <1>s
  <2>2. CASE k = 1
    BY <2>2, <1>1, <1>u, <1>k, <1>s
  <2>3. CASE j # 1 /\ k # 1
    <3>1. j - 1 \in 1 .. L /\ k - 1 \in 1 .. L /\ s[j - 1] = s[k - 1]
      BY <2>3, <1>1, <1>k
    <3>2. j - 1 = k - 1
      BY <3>1, <1>e
    <3> QED BY <3>2, <1>u, <1>s
  <2> QED BY <2>1, <2>2, <2>3
<1>2. g.head[r] = u[1] /\ g.tail[r] = u[Len(u)]
  <2>1. CASE L = 0
    BY <2>1, <1>u, <1>g, <1>e
  <2>2. CASE L # 0
    <3>1. L \in 1 .. L /\ u[L + 1] = s[L] /\ s[L] # Null
      BY <2>2, <1>s, <1>u
    <3> QED BY <2>2, <3>1, <1>u, <1>g, <1>e
  <2> QED BY <2>1, <2>2
<1>3. ASSUME NEW k \in 1 .. Len(u)
      PROVE  g.prev[u[k]] = IF k = 1 THEN Null ELSE u[k - 1]
  <2>1. CASE k = 1
    BY <2>1, <1>u, <1>g, <1>n
  <2>2. CASE k - 1 \in 1 .. L /\ u[k] = s[k - 1]
    <3> DEFINE j == k - 1
    <3>1. /\ j \in 1 .. L /\ u[k] = s[j] /\ s[j] \in Nodes /\ s[j] # n
          /\ h.head[r] = s[1] /\ 1 \in 1 .. L
      BY <2>2, <1>s, <1>e
    <3>2. s[j] = s[1] <=> j = 1
      BY <3>1, <1>e
    <3>3. g.prev[s[j]] = IF s[j] = s[1] THEN n ELSE h.prev[s[j]]
      BY <3>1, <1>g
    <3>4. g.prev[s[j]] = IF j = 1 THEN n ELSE s[j - 1]
      BY <3>1, <3>2, <3>3, <1>e
    <3>5. j # 1 => j - 1 \in 1 .. L /\ u[j] = s[j - 1]
      BY <3>1, <1>k, <1>u, <1>s
    <3> QED BY <2>2, <3>1, <3>4, <3>5, <1>u
  <2> QED BY <2>1, <2>2, <1>k
<1>4. ASSUME NEW k \in 1 .. Len(u)
      PROVE  g.next[u[k]] = IF k = Len(u) THEN Null ELSE u[k + 1]
  <2>1. CASE k = 1
    <3>1. L # 0 => u[2] = s[1]
      BY <1>u, <1>s
    <3> QED BY <2>1, <3>1, <1>u, <1>g, <1>e, <1>s
  <2>2. CASE k - 1 \in 1 .. L /\ u[k] = s[k - 1]
    <3>1. g.next[u[k]] = IF k - 1 = L THEN Null ELSE s[(k - 1) + 1]
      BY <2>2, <1>s, <1>g, <1>e
    <3>2. k - 1 # L => k \in 1 .. L /\ u[k + 1] = s[k]
      BY <2>2, <1>s, <1>u
    <3> QED BY <2>2, <3>1, <3>2, <1>s, <1>u
  <2> QED BY <2>1, <2>2, <1>k
<1>5. Represents(g, r, u)
  BY <1>u, <1>1, <1>2, <1>3, <1>4 DEF Represents
<1> QED BY <1>5 DEF g, u

(* SeListRemove takes its node out and leaves it detached, wherever in the *)
(* list it stood.                                                          *)
THEOREM RemoveTakesOut ==
  ASSUME NEW roots, NEW h \in Heaps(roots), NEW r \in roots, NEW s,
         Null \notin Nodes, Represents(h, r, s), NEW i \in 1 .. Len(s)
  PROVE  /\ Represents(SeListRemove(h, r, s[i]), r, Without(s, i))
         /\ Detached(SeListRemove(h, r, s[i]), s[i])
<1> DEFINE n == s[i]
           g == SeListRemove(h, r, n)
           u == Without(s, i)
           L == Len(s)
<1>s. s \in Seq(Nodes) /\ L \in Nat \ {0} /\ \A k \in 1 .. L : s[k] \in Nodes /\ s[k] # Null
  BY DEF Represents
<1>u. /\ u \in Seq(Nodes) /\ Len(u) = L - 1
      /\ \A k \in 1 .. L - 1 : u[k] = IF k < i THEN s[k] ELSE s[k + 1]
  <2>1. \A k \in 1 .. L - 1 : (IF k < i THEN s[k] ELSE s[k + 1]) \in Nodes
    BY <1>s
  <2>2. u \in Seq(Nodes) /\ Len(u) = L - 1
    BY <2>1, <1>s, IsASeq DEF Without
  <2> QED BY <2>2, <1>s DEF Without
<1>h. /\ h.head \in [roots -> Pointers] /\ h.tail \in [roots -> Pointers]
      /\ h.prev \in [Nodes -> Pointers] /\ h.next \in [Nodes -> Pointers]
  BY DEF Heaps
<1>e. /\ h.head[r] = s[1] /\ h.tail[r] = s[L]
      /\ \A j, k \in 1 .. L : s[j] = s[k] => j = k
      /\ \A k \in 1 .. L : /\ h.prev[s[k]] = IF k = 1 THEN Null ELSE s[k - 1]
                           /\ h.next[s[k]] = IF k = L THEN Null ELSE s[k + 1]
  BY <1>s, LenZero DEF Represents
<1>p. /\ h.prev[n] = IF i = 1 THEN Null ELSE s[i - 1]
      /\ h.next[n] = IF i = L THEN Null ELSE s[i + 1]
      /\ n \in Nodes
  BY <1>s, <1>e
<1>g. /\ g.head[r] = IF h.prev[n] = Null THEN h.next[n] ELSE h.head[r]
      /\ g.tail[r] = IF h.next[n] = Null THEN h.prev[n] ELSE h.tail[r]
      /\ g.prev[n] = Null /\ g.next[n] = Null
      /\ \A m \in Nodes : m # n => 
           /\ g.prev[m] = IF m = h.next[n] THEN h.prev[n] ELSE h.prev[m]
           /\ g.next[m] = IF m = h.prev[n] THEN h.next[n] ELSE h.next[m]
  BY <1>h, <1>p DEF SeListRemove, Set
<1> HIDE DEF u, g
<1>1. ASSUME NEW j \in 1 .. Len(u), NEW k \in 1 .. Len(u), u[j] = u[k]
      PROVE  j = k
  <2> DEFINE at(m) == IF m < i THEN m ELSE m + 1
  <2>1. \A m \in 1 .. Len(u) : at(m) \in 1 .. L /\ u[m] = s[at(m)]
    BY <1>u, <1>s
  <2>2. at(j) = at(k)
    <3> HIDE DEF at
    <3>1. at(j) \in 1 .. L /\ at(k) \in 1 .. L /\ s[at(j)] = s[at(k)]
      BY <2>1, <1>1
    <3> QED BY <3>1, <1>e
  <2> QED BY <2>2, <1>u, <1>s
<1>2. /\ g.head[r] = IF u = <<>> THEN Null ELSE u[1]
      /\ g.tail[r] = IF u = <<>> THEN Null ELSE u[Len(u)]
  <2>0. u = <<>> <=> L = 1
    BY <1>u, <1>s, LenZero
  <2>1. CASE L = 1
    BY <2>0, <2>1, <1>g, <1>p
  <2>2. CASE L # 1
    <3>1. u[1] = IF i = 1 THEN s[2] ELSE s[1]
      BY <2>2, <1>u, <1>s
    <3>2. u[L - 1] = IF i = L THEN s[L - 1] ELSE s[L]
      BY <2>2, <1>u, <1>s
    <3>3. g.head[r] = IF i = 1 THEN s[2] ELSE s[1]
      <4>1. CASE i = 1
        <5>1. h.prev[n] = Null /\ h.next[n] = s[1 + 1]
          BY <4>1, <2>2, <1>p
        <5> QED BY <4>1, <5>1, <1>g
      <4>2. CASE i # 1
        <5>1. h.prev[n] = s[i - 1] /\ s[i - 1] # Null
          BY <4>2, <1>p, <1>s
        <5> QED BY <4>2, <5>1, <1>g, <1>e
      <4> QED BY <4>1, <4>2
    <3>4. g.tail[r] = IF i = L THEN s[L - 1] ELSE s[L]
      <4>1. i # L => s[i + 1] # Null
        BY <1>s
      <4> QED BY <4>1, <2>2, <1>g, <1>p, <1>e
    <3> QED BY <2>0, <2>2, <3>1, <3>2, <3>3, <3>4, <1>u
  <2> QED BY <2>1, <2>2
<1>3. ASSUME NEW j \in 1 .. L, j # i
      PROVE  /\ g.prev[s[j]] = IF j = i + 1 THEN h.prev[n] ELSE h.prev[s[j]]
             /\ g.next[s[j]] = IF j = i - 1 THEN h.next[n] ELSE h.next[s[j]]
  <2>1. s[j] # n /\ s[j] \in Nodes
    BY <1>3, <1>s, <1>e
  <2>2. s[j] = h.next[n] <=> j = i + 1
    BY <1>3, <1>p, <1>s, <1>e
  <2>3. s[j] = h.prev[n] <=> j = i - 1
    BY <1>3, <1>p, <1>s, <1>e
  <2> QED BY <2>1, <2>2, <2>3, <1>g
<1>4. ASSUME NEW k \in 1 .. Len(u)
      PROVE  g.prev[u[k]] = IF k = 1 THEN Null ELSE u[k - 1]
  <2>1. CASE k < i
    BY <2>1, <1>3, <1>u, <1>e, <1>s
  <2>2. CASE k >= i
    <3>1. u[k] = s[k + 1] /\ k + 1 \in 1 .. L /\ k + 1 # i
      BY <2>2, <1>u, <1>s
    <3>2. g.prev[u[k]] = IF k = i THEN h.prev[n] ELSE s[k]
      BY <2>2, <3>1, <1>3, <1>e, <1>s
    <3>3. k = i /\ k # 1 => u[k - 1] = s[k - 1]
      BY <1>u, <1>s
    <3>4. k # i => k # 1 /\ u[k - 1] = s[k]
      <4>1. k # i => k # 1 /\ k - 1 \in 1 .. L - 1 /\ ~(k - 1 < i) /\ (k - 1) + 1 = k
        BY <2>2, <1>u, <1>s
      <4> QED BY <4>1, <1>u
    <3> QED BY <3>2, <3>3, <3>4, <1>p
  <2> QED BY <2>1, <2>2
<1>5. ASSUME NEW k \in 1 .. Len(u)
      PROVE  g.next[u[k]] = IF k = Len(u) THEN Null ELSE u[k + 1]
  <2>1. CASE k < i
    <3>1. u[k] = s[k] /\ k \in 1 .. L /\ k # i /\ k # L
      BY <2>1, <1>u, <1>s
    <3>2. g.next[u[k]] = IF k = i - 1 THEN h.next[n] ELSE s[k + 1]
      BY <2>1, <3>1, <1>3, <1>e, <1>s
    <3>3. k = i - 1 => (k = Len(u) <=> i = L) /\ (k # Len(u) => u[k + 1] = s[i + 1])
      BY <1>u, <1>s
    <3>4. k # i - 1 => k # Len(u) /\ u[k + 1] = s[k + 1]
      BY <2>1, <1>u, <1>s
    <3> QED BY <3>2, <3>3, <3>4, <1>p
  <2>2. CASE k >= i
    <3>1. u[k] = s[k + 1] /\ k + 1 \in 1 .. L /\ k + 1 # i /\ k + 1 # i - 1
      BY <2>2, <1>u, <1>s
    <3>2. g.next[u[k]] = IF k + 1 = L THEN Null ELSE s[(k + 1) + 1]
      BY <3>1, <1>3, <1>e
    <3>3. k # Len(u) => k + 1 # L /\ u[k + 1] = s[(k + 1) + 1]
      BY <2>2, <1>u, <1>s
    <3> QED BY <3>2, <3>3, <1>u, <1>s
  <2> QED BY <2>1, <2>2
<1>6. Represents(g, r, u)
  BY <1>u, <1>1, <1>2, <1>4, <1>5 DEF Represents
<1> QED BY <1>6, <1>g DEF g, u, Detached

(* SeListRemoveEnd leaves what follows the node, and returns a chain that  *)
(* runs from the old head to the node and ends there.                      *)
THEOREM RemoveEndCuts ==
  ASSUME NEW roots, NEW h \in Heaps(roots), NEW r \in roots, NEW s,
         Null \notin Nodes, Represents(h, r, s), NEW i \in 1 .. Len(s)
  PROVE  LET g == SeListRemoveEnd(h, r, s[i]) IN
         /\ Represents(g, r, SubSeq(s, i + 1, Len(s)))
         /\ \A k \in 1 .. i : /\ g.prev[s[k]] = IF k = 1 THEN Null ELSE s[k - 1]
                             /\ g.next[s[k]] = IF k = i THEN Null ELSE s[k + 1]
<1> DEFINE n == s[i]
           g == SeListRemoveEnd(h, r, n)
           L == Len(s)
           u == SubSeq(s, i + 1, L)
<1>s. s \in Seq(Nodes) /\ L \in Nat \ {0} /\ \A k \in 1 .. L : s[k] \in Nodes /\ s[k] # Null
  BY DEF Represents
<1>u. /\ u \in Seq(Nodes) /\ Len(u) = L - i
      /\ \A k \in 1 .. L - i : u[k] = s[k + i]
  <2>1. \A k \in i + 1 .. L : s[k] \in Nodes
    BY <1>s
  <2>2. /\ u \in Seq(Nodes) /\ Len(u) = IF i + 1 <= L THEN L - (i + 1) + 1 ELSE 0
        /\ \A k \in 1 .. L - (i + 1) + 1 : u[k] = s[(i + 1) + k - 1]
    BY <2>1, <1>s, SubSeqProperties
  <2> HIDE DEF u
  <2> QED BY <2>2, <1>s
<1>h. /\ h.head \in [roots -> Pointers] /\ h.tail \in [roots -> Pointers]
      /\ h.prev \in [Nodes -> Pointers] /\ h.next \in [Nodes -> Pointers]
  BY DEF Heaps
<1>e. /\ h.head[r] = s[1] /\ h.tail[r] = s[L]
      /\ \A j, k \in 1 .. L : s[j] = s[k] => j = k
      /\ \A k \in 1 .. L : /\ h.prev[s[k]] = IF k = 1 THEN Null ELSE s[k - 1]
                           /\ h.next[s[k]] = IF k = L THEN Null ELSE s[k + 1]
  BY <1>s, LenZero DEF Represents
<1>p. h.next[n] = (IF i = L THEN Null ELSE s[i + 1]) /\ n \in Nodes
  BY <1>s, <1>e
<1>g. /\ g.head[r] = h.next[n]
      /\ g.tail[r] = IF h.next[n] = Null THEN Null ELSE h.tail[r]
      /\ \A m \in Nodes : /\ g.prev[m] = IF m = h.next[n] THEN Null ELSE h.prev[m]
                          /\ g.next[m] = IF m = n THEN Null ELSE h.next[m]
  BY <1>h, <1>p DEF SeListRemoveEnd, Set
<1> HIDE DEF u, g
<1>1. ASSUME NEW j \in 1 .. L
      PROVE  /\ g.prev[s[j]] = IF j = i + 1 THEN Null ELSE h.prev[s[j]]
             /\ g.next[s[j]] = IF j = i THEN Null ELSE h.next[s[j]]
  <2>1. s[j] = h.next[n] <=> j = i + 1
    BY <1>p, <1>s, <1>e
  <2>2. s[j] = n <=> j = i
    BY <1>e
  <2> QED BY <2>1, <2>2, <1>g, <1>s
<1>2. \A j, k \in 1 .. Len(u) : u[j] = u[k] => j = k
  <2>1. \A k \in 1 .. Len(u) : k + i \in 1 .. L /\ u[k] = s[k + i]
    BY <1>u, <1>s
  <2> QED BY <2>1, <1>e, <1>u, <1>s
<1>3. /\ g.head[r] = IF u = <<>> THEN Null ELSE u[1]
      /\ g.tail[r] = IF u = <<>> THEN Null ELSE u[Len(u)]
  <2>1. u = <<>> <=> L = i
    BY <1>u, <1>s, LenZero
  <2>2. L # i => u[1] = s[i + 1] /\ u[L - i] = s[L] /\ s[i + 1] # Null
    BY <1>u, <1>s
  <2> QED BY <2>1, <2>2, <1>g, <1>p, <1>e, <1>u
<1>4. ASSUME NEW k \in 1 .. Len(u)
      PROVE  /\ g.prev[u[k]] = IF k = 1 THEN Null ELSE u[k - 1]
             /\ g.next[u[k]] = IF k = Len(u) THEN Null ELSE u[k + 1]
  <2>1. k + i \in 1 .. L /\ u[k] = s[k + i] /\ k + i # i /\ (k + i = i + 1 <=> k = 1)
    BY <1>u, <1>s
  <2>2. k # 1 => u[k - 1] = s[(k + i) - 1]
    <3>1. k # 1 => k - 1 \in 1 .. L - i /\ (k - 1) + i = (k + i) - 1
      BY <1>u, <1>s
    <3> QED BY <3>1, <1>u
  <2>3. (k = Len(u) <=> k + i = L) /\ (k # Len(u) => u[k + 1] = s[(k + i) + 1])
    <3>0. k \in Nat /\ i \in Nat /\ Len(u) = L - i
      BY <1>u, <1>s
    <3>1. k # Len(u) => k + 1 \in 1 .. L - i
      BY <3>0, <1>s
    <3>2. (k + 1) + i = (k + i) + 1
      BY <3>0
    <3> QED BY <3>0, <3>1, <3>2, <1>u, <1>s
  <2>4. /\ g.prev[s[k + i]] = IF k = 1 THEN Null ELSE s[(k + i) - 1]
        /\ g.next[s[k + i]] = IF k + i = L THEN Null ELSE s[(k + i) + 1]
    <3> DEFINE j == k + i
    <3>1. j \in 1 .. L /\ j # i /\ (j = i + 1 <=> k = 1) /\ j # 1
      BY <2>1, <1>u, <1>s
    <3> HIDE DEF j
    <3>2. /\ g.prev[s[j]] = IF k = 1 THEN Null ELSE s[j - 1]
          /\ g.next[s[j]] = IF j = L THEN Null ELSE s[j + 1]
      BY <3>1, <1>1, <1>e
    <3> QED BY <3>2 DEF j
  <2> QED BY <2>1, <2>2, <2>3, <2>4
<1>5. Represents(g, r, u)
  BY <1>u, <1>2, <1>3, <1>4 DEF Represents
<1>6. \A k \in 1 .. i : /\ g.prev[s[k]] = IF k = 1 THEN Null ELSE s[k - 1]
                       /\ g.next[s[k]] = IF k = i THEN Null ELSE s[k + 1]
  BY <1>1, <1>e, <1>s
<1> QED BY <1>5, <1>6 DEF g, u

-----------------------------------------------------------------------------
(* None of them disturbs another list: q keeps its sequence t when the     *)
(* operation is on r, the nodes of t are none of those of r's list s, and  *)
(* the node added is not in t either.                                      *)
THEOREM OthersKept ==
  ASSUME NEW roots, NEW h \in Heaps(roots), NEW r \in roots, NEW q \in roots, q # r,
         NEW s, NEW t, Null \notin Nodes, Represents(h, r, s), Represents(h, q, t),
         \A k \in 1 .. Len(s) : Avoids(t, {s[k]})
  PROVE  /\ \A n \in Nodes : Avoids(t, {n}) =>
              /\ Represents(SeListHeadAdd(h, r, n), q, t)
              /\ Represents(SeListTailAdd(h, r, n), q, t)
         /\ \A i \in 1 .. Len(s) :
              /\ Represents(SeListRemove(h, r, s[i]), q, t)
              /\ Represents(SeListRemoveEnd(h, r, s[i]), q, t)
<1>s. /\ s \in Seq(Nodes) /\ Len(s) \in Nat /\ \A k \in 1 .. Len(s) : s[k] \in Nodes
      /\ t \in Seq(Nodes) /\ Len(t) \in Nat /\ \A k \in 1 .. Len(t) : t[k] \in Nodes
  BY DEF Represents
<1>h. /\ h.head \in [roots -> Pointers] /\ h.tail \in [roots -> Pointers]
      /\ h.prev \in [Nodes -> Pointers] /\ h.next \in [Nodes -> Pointers]
  BY DEF Heaps
<1>t. \A k \in 1 .. Len(t) : /\ t[k] # Null
                            /\ \A j \in 1 .. Len(s) : t[k] # s[j]
  BY <1>s DEF Avoids
<1>e. /\ h.head[r] = Null \/ (1 \in 1 .. Len(s) /\ h.head[r] = s[1])
      /\ h.tail[r] = Null \/ (Len(s) \in 1 .. Len(s) /\ h.tail[r] = s[Len(s)])
      /\ \A k \in 1 .. Len(s) : 
           /\ h.prev[s[k]] = Null \/ (k - 1 \in 1 .. Len(s) /\ h.prev[s[k]] = s[k - 1])
           /\ h.next[s[k]] = Null \/ (k + 1 \in 1 .. Len(s) /\ h.next[s[k]] = s[k + 1])
  BY <1>s, LenZero DEF Represents
<1>1. ASSUME NEW n \in Nodes, Avoids(t, {n})
      PROVE  Represents(SeListHeadAdd(h, r, n), q, t) /\ Represents(SeListTailAdd(h, r, n), q, t)
  <2>1. \A k \in 1 .. Len(t) : t[k] # n /\ t[k] # h.head[r] /\ t[k] # h.tail[r]
    BY <1>1, <1>t, <1>e DEF Avoids
  <2>2. LET g == SeListHeadAdd(h, r, n) IN
        /\ g.head[q] = h.head[q] /\ g.tail[q] = h.tail[q]
        /\ \A k \in 1 .. Len(t) : g.prev[t[k]] = h.prev[t[k]] /\ g.next[t[k]] = h.next[t[k]]
    BY <2>1, <1>h, <1>s DEF SeListHeadAdd, Set
  <2>3. LET g == SeListTailAdd(h, r, n) IN
        /\ g.head[q] = h.head[q] /\ g.tail[q] = h.tail[q]
        /\ \A k \in 1 .. Len(t) : g.prev[t[k]] = h.prev[t[k]] /\ g.next[t[k]] = h.next[t[k]]
    BY <2>1, <1>h, <1>s DEF SeListTailAdd, Set
  <2> QED BY <2>2, <2>3, Frame
<1>2. ASSUME NEW i \in 1 .. Len(s)
      PROVE  /\ Represents(SeListRemove(h, r, s[i]), q, t)
             /\ Represents(SeListRemoveEnd(h, r, s[i]), q, t)
  <2>1. /\ s[i] \in Nodes
        /\ \A k \in 1 .. Len(t) :
              t[k] # s[i] /\ t[k] # h.prev[s[i]] /\ t[k] # h.next[s[i]]
    BY <1>t, <1>e, <1>s
  <2>2. LET g == SeListRemove(h, r, s[i]) IN
        /\ g.head[q] = h.head[q] /\ g.tail[q] = h.tail[q]
        /\ \A k \in 1 .. Len(t) : g.prev[t[k]] = h.prev[t[k]] /\ g.next[t[k]] = h.next[t[k]]
    BY <2>1, <1>h, <1>s DEF SeListRemove, Set
  <2>3. LET g == SeListRemoveEnd(h, r, s[i]) IN
        /\ g.head[q] = h.head[q] /\ g.tail[q] = h.tail[q]
        /\ \A k \in 1 .. Len(t) : g.prev[t[k]] = h.prev[t[k]] /\ g.next[t[k]] = h.next[t[k]]
    BY <2>1, <1>h, <1>s DEF SeListRemoveEnd, Set
  <2> QED BY <2>2, <2>3, Frame
<1> QED BY <1>1, <1>2

-----------------------------------------------------------------------------
(* Walking a list.                                                         *)

(* A set that holds 0 and, with each number, the next one holds every      *)
(* number.                                                                 *)
LEMMA Numbers ==
  ASSUME NEW T, 0 \in T, \A n \in Nat : n \in T => n + 1 \in T
  PROVE  Nat \subseteq T
<1> DEFINE R == OpToRel(<, Nat)
           U == Nat \ T
<1>1. SUFFICES ASSUME U # {} PROVE FALSE
  OBVIOUS
<1>2. IsWellFoundedOn(R, Nat)
  BY NatLessThanWellFounded
<1>3. \E x \in U : \A y \in U : <<y, x>> \notin R
  <2> HIDE DEF R
  <2> QED BY <1>1, <1>2, WFMin, Zenon
<1>4. PICK x \in U : \A y \in U : <<y, x>> \notin R
  BY <1>3
<1>5. x # 0 /\ x - 1 \in Nat
  OBVIOUS
<1>6. x - 1 \in U
  BY <1>5
<1>7. <<x - 1, x>> \in R
  BY <1>5 DEF OpToRel
<1> QED BY <1>4, <1>6, <1>7

(* What a reader meets from c[1] on, in at most c[2] steps.                *)
Steps       == Pointers \X Nat
MetFrom(h, g, c) ==
  IF c[1] = Null \/ c[2] = 0 THEN <<>> ELSE <<c[1]>> \o g[<<h.next[c[1]], c[2] - 1>>]

LEMMA OneMore ==
  ASSUME NEW S, NEW x \in S, NEW s \in Seq(S)
  PROVE  /\ <<x>> \o s \in Seq(S) /\ Len(<<x>> \o s) = Len(s) + 1
         /\ \A k \in 1 .. Len(s) + 1 : (<<x>> \o s)[k] = IF k = 1 THEN x ELSE s[k - 1]
<1> DEFINE y == <<x>>
<1>1. y \in Seq(S) /\ Len(y) = 1 /\ y[1] = x /\ Len(s) \in Nat
  BY LenProperties
<1> HIDE DEF y
<1>2. /\ y \o s \in Seq(S) /\ Len(y \o s) = Len(y) + Len(s)
      /\ \A k \in 1 .. Len(y) + Len(s) : (y \o s)[k] = IF k <= Len(y) THEN y[k] ELSE s[k - Len(y)]
  BY <1>1, ConcatProperties
<1>3. \A k \in 1 .. Len(s) + 1 : k <= 1 <=> k = 1
  BY <1>1
<1> QED BY <1>1, <1>2, <1>3 DEF y

(* Met, defined by recursion over the number of steps, is well defined.    *)
LEMMA MetDef ==
  ASSUME NEW roots, NEW h \in Heaps(roots)
  PROVE  \A c \in Steps : Met(h)[c] = MetFrom(h, Met(h), c)
<1> DEFINE D(n)   == Pointers \X (0 .. n)
           Sol(g, n) == \A c \in D(n) : g[c] = MetFrom(h, g, c)
           T      == {n \in Nat : \E g \in [D(n) -> Seq(Nodes)] : Sol(g, n)}
<1>h. \A p \in Pointers : p # Null => p \in Nodes /\ h.next[p] \in Pointers
  BY DEF Heaps, Pointers
<1>1. 0 \in T
  <2> DEFINE g == [c \in D(0) |-> <<>>]
  <2>1. g \in [D(0) -> Seq(Nodes)] /\ Sol(g, 0)
    BY EmptySeq DEF MetFrom
  <2> QED BY <2>1
<1>2. ASSUME NEW n \in Nat, n \in T PROVE n + 1 \in T
  <2>1. PICK f \in [D(n) -> Seq(Nodes)] : Sol(f, n)
    BY <1>2
  <2> DEFINE g == [c \in D(n + 1) |-> MetFrom(h, f, c)]
  <2>2. ASSUME NEW c \in D(n + 1), c[1] # Null, c[2] # 0
        PROVE  /\ c[1] \in Nodes /\ <<h.next[c[1]], c[2] - 1>> \in D(n)
    <3>1. c[1] \in Pointers /\ c[2] \in 0 .. n + 1
      OBVIOUS
    <3> QED BY <3>1, <2>2, <1>h
  <2>3. ASSUME NEW c \in D(n + 1) PROVE MetFrom(h, f, c) \in Seq(Nodes)
    <3>1. CASE c[1] = Null \/ c[2] = 0
      BY <3>1, EmptySeq DEF MetFrom
    <3>2. CASE c[1] # Null /\ c[2] # 0
      <4>1. c[1] \in Nodes /\ f[<<h.next[c[1]], c[2] - 1>>] \in Seq(Nodes)
        BY <3>2, <2>2
      <4>2. <<c[1]>> \o f[<<h.next[c[1]], c[2] - 1>>] \in Seq(Nodes)
        BY <4>1, OneMore
      <4> QED BY <3>2, <4>2 DEF MetFrom
    <3> QED BY <3>1, <3>2
  <2>4. g \in [D(n + 1) -> Seq(Nodes)]
    BY <2>3
  <2>5. \A c \in D(n) : c \in D(n + 1) /\ f[c] = g[c]
    BY <2>1
  <2>6. ASSUME NEW c \in D(n + 1) PROVE g[c] = MetFrom(h, g, c)
    <3>1. CASE c[1] = Null \/ c[2] = 0
      BY <3>1 DEF MetFrom
    <3>2. CASE c[1] # Null /\ c[2] # 0
      <4>1. f[<<h.next[c[1]], c[2] - 1>>] = g[<<h.next[c[1]], c[2] - 1>>]
        BY <3>2, <2>2, <2>5
      <4>2. g[c] = MetFrom(h, f, c)
        OBVIOUS
      <4> HIDE DEF g
      <4> QED BY <4>1, <4>2 DEF MetFrom
    <3> QED BY <3>1, <3>2
  <2>7. Sol(g, n + 1)
    BY <2>6
  <2> HIDE DEF g, Sol, D
  <2>8. \E x \in [D(n + 1) -> Seq(Nodes)] : Sol(x, n + 1)
    BY <2>4, <2>7
  <2> QED BY <2>8
<1>3. Nat \subseteq T
  <2> HIDE DEF T
  <2> QED BY <1>1, <1>2, Numbers
<1>4. \A n \in Nat : \E g : Sol(g, n)
  <2> HIDE DEF Sol, D
  <2> QED BY <1>3
<1>5. ASSUME NEW f, NEW g, NEW n \in Nat, NEW m \in Nat, Sol(f, n), Sol(g, m), NEW k \in Nat, k <= n, k <= m
      PROVE  \A p \in Pointers : f[<<p, k>>] = g[<<p, k>>]
  <2> DEFINE E == {j \in Nat : j <= n /\ j <= m => \A p \in Pointers : f[<<p, j>>] = g[<<p, j>>]}
  <2>1. 0 \in E
    <3> SUFFICES ASSUME NEW p \in Pointers PROVE f[<<p, 0>>] = g[<<p, 0>>]
      OBVIOUS
    <3>1. <<p, 0>> \in D(n) /\ <<p, 0>> \in D(m)
      OBVIOUS
    <3> QED BY <3>1, <1>5 DEF MetFrom
  <2>2. ASSUME NEW j \in Nat, j \in E PROVE j + 1 \in E
    <3> SUFFICES ASSUME j + 1 <= n, j + 1 <= m, NEW p \in Pointers
                 PROVE  f[<<p, j + 1>>] = g[<<p, j + 1>>]
      OBVIOUS
    <3> DEFINE c == <<p, j + 1>>
    <3>1. c \in D(n) /\ c \in D(m) /\ c[1] = p /\ c[2] = j + 1 /\ (j + 1) - 1 = j
      OBVIOUS
    <3>2. p # Null => f[<<h.next[p], j>>] = g[<<h.next[p], j>>]
      BY <2>2, <1>h
    <3>3. f[c] = MetFrom(h, f, c) /\ g[c] = MetFrom(h, g, c)
      BY <3>1, <1>5
    <3> HIDE DEF c
    <3>4. MetFrom(h, f, c) = MetFrom(h, g, c)
      BY <3>1, <3>2 DEF MetFrom
    <3> QED BY <3>3, <3>4 DEF c
  <2>3. k \in E
    <3> HIDE DEF E
    <3> QED BY <2>1, <2>2, Numbers
  <2> QED BY <2>3, <1>5
<1> DEFINE F(n) == CHOOSE g : Sol(g, n)
           f == [c \in Steps |-> F(c[2])[c]]
           P(g) == g = [c \in Steps |-> MetFrom(h, g, c)]
<1>6. \A n \in Nat : Sol(F(n), n)
  BY <1>4
<1> HIDE DEF F
<1>7. ASSUME NEW c \in Steps PROVE f[c] = MetFrom(h, f, c)
  <2>1. c[1] \in Pointers /\ c[2] \in Nat /\ c \in D(c[2]) /\ f[c] = F(c[2])[c]
    BY DEF Steps
  <2>2. f[c] = MetFrom(h, F(c[2]), c)
    BY <2>1, <1>6
  <2>3. CASE c[1] = Null \/ c[2] = 0
    BY <2>2, <2>3 DEF MetFrom
  <2>4. CASE c[1] # Null /\ c[2] # 0
    <3> DEFINE d == <<h.next[c[1]], c[2] - 1>>
    <3>1. h.next[c[1]] \in Pointers /\ c[2] - 1 \in Nat /\ c[2] - 1 <= c[2]
      BY <2>1, <2>4, <1>h
    <3>2. d \in Steps /\ f[d] = F(c[2] - 1)[d]
      BY <3>1 DEF Steps
    <3>3. F(c[2] - 1)[d] = F(c[2])[d]
      <4>1. c[2] - 1 <= c[2] - 1
        BY <3>1
      <4> HIDE DEF Sol
      <4> QED BY <2>1, <3>1, <4>1, <1>5, <1>6
    <3> HIDE DEF f
    <3> QED BY <2>2, <2>4, <3>2, <3>3 DEF MetFrom
  <2> QED BY <2>3, <2>4
<1>8. P(f)
  <2> DEFINE g == [c \in Steps |-> MetFrom(h, f, c)]
  <2>1. \A c \in Steps : f[c] = g[c]
    BY <1>7
  <2>2. f = g
    <3>1. f = [c \in Steps |-> f[c]]
      OBVIOUS
    <3> HIDE DEF f
    <3> QED BY <2>1, <3>1
  <2> QED BY <2>2
<1> HIDE DEF f
<1>9. Met(h) = CHOOSE g : P(g)
  BY DEF Met, MetFrom, Steps
<1>10. P(Met(h))
  <2> HIDE DEF P
  <2> QED BY <1>8, <1>9
<1> QED BY <1>10

(* No list that a heap represents is longer than there are nodes.          *)
LEMMA NotTooLong ==
  ASSUME IsFiniteSet(Nodes), NEW s \in Seq(Nodes), \A j, k \in 1 .. Len(s) : s[j] = s[k] => j = k
  PROVE  Len(s) \in Nat /\ Cardinality(Nodes) \in Nat /\ Len(s) <= Cardinality(Nodes)
<1> DEFINE I == 1 .. Len(s)
<1>1. Len(s) \in Nat /\ s \in [I -> Nodes]
  BY LenProperties
<1>2. s \in Injection(I, Nodes)
  BY <1>1 DEF Injection, IsInjective
<1>3. Cardinality(I) <= Cardinality(Nodes)
  <2> HIDE DEF I
  <2> QED BY <1>2, FS_Injection
<1>4. Cardinality(I) = Len(s)
  <2>1. 1 \in Int /\ Len(s) \in Int
    BY <1>1
  <2>2. Cardinality(1 .. Len(s)) = IF 1 > Len(s) THEN 0 ELSE Len(s) - 1 + 1
    BY <2>1, FS_Interval
  <2> QED BY <2>2, <1>1
<1>5. Cardinality(Nodes) \in Nat
  BY FS_CardinalityType
<1> QED BY <1>1, <1>3, <1>4, <1>5

(* A reader that follows the pointers meets the nodes of the list.         *)
THEOREM WalkIs ==
  ASSUME NEW roots, NEW h \in Heaps(roots), NEW r \in roots, NEW s,
         Null \notin Nodes, IsFiniteSet(Nodes), Represents(h, r, s)
  PROVE  Walk(h, r) = s
<1> DEFINE L == Len(s)
           N == Cardinality(Nodes) + 1
           ptr(j) == IF j > L THEN Null ELSE s[j]
           rest(j) == SubSeq(s, j, L)
           T == {n \in Nat : n <= L => \A k \in Nat : n <= k => Met(h)[<<ptr(L + 1 - n), k>>] = rest(L + 1 - n)}
<1>1. /\ s \in Seq(Nodes) /\ L \in Nat /\ \A k \in 1 .. L : s[k] \in Nodes /\ s[k] # Null
      /\ \A j, k \in 1 .. L : s[j] = s[k] => j = k
      /\ \A k \in 1 .. L : h.next[s[k]] = ptr(k + 1)
  BY LenProperties, ElementOfSeq DEF Represents
<1>2. h.head[r] = ptr(1)
  BY <1>1, LenZero DEF Represents
<1>3. L <= N /\ N \in Nat
  BY <1>1, NotTooLong
<1> HIDE DEF N
<1>4. 0 \in T
  <2> SUFFICES ASSUME NEW k \in Nat PROVE Met(h)[<<ptr(L + 1), k>>] = rest(L + 1)
    BY <1>1
  <2>1. ptr(L + 1) = Null /\ rest(L + 1) = <<>>
    BY <1>1, SubSeqEmpty
  <2>2. <<Null, k>> \in Steps
    BY DEF Steps, Pointers
  <2>3. Met(h)[<<Null, k>>] = <<>>
    BY <2>2, MetDef DEF MetFrom
  <2> QED BY <2>1, <2>3
<1>5. ASSUME NEW n \in Nat, n \in T PROVE n + 1 \in T
  <2> SUFFICES ASSUME n + 1 <= L, NEW k \in Nat, n + 1 <= k
               PROVE  Met(h)[<<ptr(L + 1 - (n + 1)), k>>] = rest(L + 1 - (n + 1))
    OBVIOUS
  <2> DEFINE j == L - n
  <2>1. /\ L + 1 - (n + 1) = j /\ L + 1 - n = j + 1 /\ j \in 1 .. L /\ k - 1 \in Nat /\ n <= k - 1
        /\ k # 0 /\ n <= L
    BY <1>1
  <2> HIDE DEF j
  <2>2. ptr(j) = s[j] /\ s[j] \in Nodes /\ s[j] # Null /\ h.next[s[j]] = ptr(j + 1)
    BY <1>1, <2>1
  <2>3. <<s[j], k>> \in Steps
    BY <2>2 DEF Steps, Pointers
  <2>4. Met(h)[<<s[j], k>>] = <<s[j]>> \o Met(h)[<<ptr(j + 1), k - 1>>]
    <3>1. Met(h)[<<s[j], k>>] = MetFrom(h, Met(h), <<s[j], k>>)
      BY <2>3, MetDef
    <3> HIDE DEF ptr
    <3> QED BY <3>1, <2>1, <2>2 DEF MetFrom
  <2>5. Met(h)[<<ptr(j + 1), k - 1>>] = rest(j + 1)
    <3> HIDE DEF ptr, rest
    <3> QED BY <1>5, <2>1
  <2>6. <<s[j]>> \o rest(j + 1) = rest(j)
    <3> DEFINE a == rest(j + 1)
               b == rest(j)
               c == <<s[j]>> \o a
    <3>1. a \in Seq(Nodes) /\ Len(a) = L - j /\ \A i \in 1 .. L - j : a[i] = s[j + i]
      <4>1. j + 1 \in Int /\ L \in Int /\ \A i \in j + 1 .. L : s[i] \in Nodes
        BY <1>1, <2>1
      <4>2. /\ a \in Seq(Nodes) /\ Len(a) = IF j + 1 <= L THEN L - (j + 1) + 1 ELSE 0
            /\ \A i \in 1 .. L - (j + 1) + 1 : a[i] = s[(j + 1) + i - 1]
        BY <4>1, <1>1, SubSeqProperties
      <4> HIDE DEF a
      <4> QED BY <4>2, <1>1, <2>1
    <3>2. b \in Seq(Nodes) /\ Len(b) = L - j + 1 /\ \A i \in 1 .. L - j + 1 : b[i] = s[j + i - 1]
      <4>1. j \in Int /\ L \in Int /\ \A i \in j .. L : s[i] \in Nodes
        BY <1>1, <2>1
      <4>2. /\ b \in Seq(Nodes) /\ Len(b) = IF j <= L THEN L - j + 1 ELSE 0
            /\ \A i \in 1 .. L - j + 1 : b[i] = s[j + i - 1]
        BY <4>1, <1>1, SubSeqProperties
      <4> HIDE DEF b
      <4> QED BY <4>2, <1>1, <2>1
    <3> HIDE DEF a, b
    <3>3. /\ c \in Seq(Nodes) /\ Len(c) = Len(a) + 1
          /\ \A i \in 1 .. Len(a) + 1 : c[i] = IF i = 1 THEN s[j] ELSE a[i - 1]
      BY <2>2, <3>1, OneMore
    <3> HIDE DEF c
    <3>4. Len(c) = Len(b) /\ Len(b) \in Nat
      BY <3>1, <3>2, <3>3, <1>1, <2>1
    <3>5. ASSUME NEW i \in 1 .. Len(c) PROVE c[i] = b[i]
      <4>1. CASE i = 1
        <5>1. j + 1 - 1 = j /\ 1 \in 1 .. L - j + 1 /\ 1 \in 1 .. Len(a) + 1
          BY <3>1, <1>1, <2>1
        <5>2. c[1] = s[j] /\ b[1] = s[j]
          BY <5>1, <3>2, <3>3
        <5> QED BY <4>1, <5>2
      <4>2. CASE i # 1
        <5>1. i - 1 \in 1 .. L - j /\ j + (i - 1) = j + i - 1 /\ i \in 1 .. L - j + 1
          BY <4>2, <3>1, <3>3, <1>1, <2>1
        <5>2. c[i] = a[i - 1] /\ a[i - 1] = s[j + (i - 1)]
          BY <4>2, <5>1, <3>1, <3>3
        <5> QED BY <5>1, <5>2, <3>2
      <4> QED BY <4>1, <4>2
    <3>6. c = b
      BY <3>2, <3>3, <3>4, <3>5, SeqEqual
    <3> QED BY <3>6 DEF a, b, c
  <2> QED BY <2>1, <2>2, <2>4, <2>5, <2>6
<1>6. L \in T
  <2> HIDE DEF T
  <2> QED BY <1>1, <1>4, <1>5, Numbers
<1>7. Met(h)[<<ptr(1), N>>] = rest(1)
  <2>1. L + 1 - L = 1 /\ L <= L
    BY <1>1
  <2> HIDE DEF ptr, rest
  <2> QED BY <1>1, <1>3, <1>6, <2>1
<1>8. rest(1) = s
  BY <1>1, SubSeqFull
<1> QED BY <1>2, <1>7, <1>8 DEF Walk, N

-----------------------------------------------------------------------------
(* Sequences that hold nothing twice.                                      *)

Simple(s) == \A j, k \in 1 .. Len(s) : s[j] = s[k] => j = k

LEMMA RangeIs ==
  ASSUME NEW S, NEW s \in Seq(S)
  PROVE  /\ Range(s) = {s[k] : k \in 1 .. Len(s)} /\ Range(s) \subseteq S
         /\ \A k \in 1 .. Len(s) : s[k] \in Range(s) /\ s[k] \in S
         /\ \A x \in Range(s) : \E k \in 1 .. Len(s) : s[k] = x
<1>1. DOMAIN s = 1 .. Len(s) /\ \A k \in 1 .. Len(s) : s[k] \in S
  BY LenProperties, ElementOfSeq
<1> QED BY <1>1 DEF Range

LEMMA RangeAppend ==
  ASSUME NEW S, NEW s \in Seq(S), NEW x \in S
  PROVE  /\ Append(s, x) \in Seq(S) /\ Len(Append(s, x)) = Len(s) + 1
         /\ \A k \in 1 .. Len(s) : Append(s, x)[k] = s[k]
         /\ Append(s, x)[Len(s) + 1] = x
         /\ Range(Append(s, x)) = Range(s) \cup {x}
<1> DEFINE t == Append(s, x)
<1>1. /\ t \in Seq(S) /\ Len(t) = Len(s) + 1 /\ Len(s) \in Nat
      /\ \A k \in 1 .. Len(s) : t[k] = s[k] 
      /\ t[Len(s) + 1] = x
  BY AppendProperties, LenProperties
<1> HIDE DEF t
<1>2. /\ Range(s) = {s[k] : k \in 1 .. Len(s)}
      /\ Range(t) = {t[k] : k \in 1 .. Len(s) + 1}
  BY <1>1, RangeIs
<1>3. ASSUME NEW y \in Range(t) PROVE y \in Range(s) \cup {x}
  <2>1. PICK k \in 1 .. Len(s) + 1 : y = t[k]
    BY <1>2
  <2>2. k = Len(s) + 1 \/ k \in 1 .. Len(s)
    BY <1>1
  <2> QED BY <1>1, <1>2, <2>1, <2>2
<1>4. ASSUME NEW y \in Range(s) PROVE y \in Range(t)
  <2>1. PICK k \in 1 .. Len(s) : y = s[k]
    BY <1>2
  <2>2. k \in 1 .. Len(s) + 1
    BY <1>1
  <2> QED BY <1>1, <1>2, <2>1, <2>2
<1>5. x \in Range(t)
  <2>1. Len(s) + 1 \in 1 .. Len(s) + 1
    BY <1>1
  <2> QED BY <1>1, <1>2, <2>1
<1>6. Range(t) = Range(s) \cup {x}
  BY <1>3, <1>4, <1>5
<1> QED BY <1>1, <1>6 DEF t

LEMMA RangeWithout ==
  ASSUME NEW S, NEW s \in Seq(S), Simple(s), NEW i \in 1 .. Len(s)
  PROVE  /\ Without(s, i) \in Seq(S) /\ Len(Without(s, i)) = Len(s) - 1
         /\ \A k \in 1 .. Len(s) - 1 : Without(s, i)[k] = IF k < i THEN s[k] ELSE s[k + 1]
         /\ Simple(Without(s, i))
         /\ Range(Without(s, i)) = Range(s) \ {s[i]}
<1> DEFINE t == Without(s, i)
           L == Len(s)
<1>s. L \in Nat /\ L - 1 \in Nat /\ \A k \in 1 .. L : s[k] \in S
  BY LenProperties, ElementOfSeq
<1>1. /\ t \in Seq(S) /\ Len(t) = L - 1
      /\ \A k \in 1 .. L - 1 : t[k] = IF k < i THEN s[k] ELSE s[k + 1]
  <2>1. \A k \in 1 .. L - 1 : (IF k < i THEN s[k] ELSE s[k + 1]) \in S
    BY <1>s
  <2>2. t \in Seq(S)
    BY <2>1, <1>s, IsASeq DEF Without
  <2>3. Len(t) = L - 1
    BY <1>s DEF Without
  <2> QED BY <2>2, <2>3 DEF Without
<1> HIDE DEF t
<1>2. /\ Range(s) = {s[k] : k \in 1 .. L}
      /\ Range(t) = {t[k] : k \in 1 .. L - 1}
  BY <1>1, RangeIs
<1>3. ASSUME NEW k \in 1 .. L - 1 PROVE \E j \in 1 .. L : j # i /\ t[k] = s[j]
  <2>1. CASE k < i
    BY <2>1, <1>1, <1>s
  <2>2. CASE ~(k < i)
    <3>1. k + 1 \in 1 .. L /\ k + 1 # i /\ t[k] = s[k + 1]
      BY <2>2, <1>1, <1>s
    <3> QED BY <3>1
  <2> QED BY <2>1, <2>2
<1>4. ASSUME NEW y \in Range(t) PROVE y \in Range(s) \ {s[i]}
  <2>1. PICK k \in 1 .. L - 1 : y = t[k]
    BY <1>2
  <2>2. PICK j \in 1 .. L : j # i /\ t[k] = s[j]
    BY <1>3
  <2>3. s[j] # s[i]
    BY <2>2 DEF Simple
  <2> QED BY <1>2, <2>1, <2>2, <2>3
<1>5. ASSUME NEW y \in Range(s) \ {s[i]} PROVE y \in Range(t)
  <2>1. PICK k \in 1 .. L : y = s[k]
    BY <1>2
  <2>2. CASE k < i
    <3>1. k \in 1 .. L - 1 /\ t[k] = s[k]
      BY <2>2, <1>1, <1>s
    <3> QED BY <3>1, <2>1, <1>2
  <2>3. CASE ~(k < i)
    <3>1. k # i
      BY <2>1
    <3>2. k - 1 \in 1 .. L - 1 /\ ~(k - 1 < i) /\ (k - 1) + 1 = k
      BY <3>1, <2>3, <1>s
    <3>3. t[k - 1] = s[k]
      BY <3>2, <1>1
    <3> QED BY <3>2, <3>3, <2>1, <1>2
  <2> QED BY <2>2, <2>3
<1>6. Range(t) = Range(s) \ {s[i]}
  BY <1>4, <1>5
<1>7. ASSUME NEW a \in 1 .. L - 1, NEW b \in 1 .. L - 1, t[a] = t[b] PROVE a = b
  <2> DEFINE at(m) == IF m < i THEN m ELSE m + 1
  <2>1. at(a) \in 1 .. L /\ at(b) \in 1 .. L /\ t[a] = s[at(a)] /\ t[b] = s[at(b)]
    BY <1>1, <1>s
  <2>2. at(a) = at(b)
    <3> HIDE DEF at
    <3> QED BY <2>1, <1>7 DEF Simple
  <2> QED BY <2>2, <1>s
<1>8. Simple(t)
  BY <1>1, <1>7 DEF Simple
<1> QED BY <1>1, <1>6, <1>8 DEF t

-----------------------------------------------------------------------------
(* A heap and the list on[r] each of its roots stands for: no node is on   *)
(* two lists, and a node on none is detached.                              *)

Linked(h, on) ==
  /\ h \in Heaps(Roots)
  /\ on \in [Roots -> Seq(Nodes)]
  /\ \A r \in Roots : Represents(h, r, on[r])
  /\ \A r, p \in Roots : r # p => Range(on[r]) \cap Range(on[p]) = {}
  /\ \A n \in Nodes : Detached(h, n) \/ \E r \in Roots : n \in Range(on[r])

LEMMA AvoidsIs ==
  ASSUME NEW s \in Seq(Nodes), NEW n, n \notin Range(s)
  PROVE  Avoids(s, {n})
BY RangeIs DEF Avoids

LEMMA Operations ==
  ASSUME NEW h \in Heaps(Roots), NEW r \in Roots, NEW n \in Nodes
  PROVE  SeListTailAdd(h, r, n) \in Heaps(Roots) /\ SeListRemove(h, r, n) \in Heaps(Roots)
<1>1. /\ h.head \in [Roots -> Pointers] /\ h.tail \in [Roots -> Pointers]
      /\ h.prev \in [Nodes -> Pointers] /\ h.next \in [Nodes -> Pointers]
      /\ n \in Pointers
  BY DEF Heaps, Pointers
<1>2. ASSUME NEW f \in [Nodes -> Pointers], NEW p \in Pointers, NEW q \in Pointers
      PROVE  Set(f, p, q) \in [Nodes -> Pointers]
  BY DEF Set, Pointers
<1>3. ASSUME NEW f \in [Nodes -> Pointers], NEW q \in Pointers
      PROVE  [f EXCEPT ![n] = q] \in [Nodes -> Pointers]
  OBVIOUS
<1>4. ASSUME NEW f \in [Roots -> Pointers], NEW q \in Pointers
      PROVE  [f EXCEPT ![r] = q] \in [Roots -> Pointers]
  OBVIOUS
<1>5. Null \in Pointers /\ h.head[r] \in Pointers /\ h.tail[r] \in Pointers /\ h.next[n] \in Pointers /\ h.prev[n] \in Pointers
  BY <1>1 DEF Pointers
<1>6. SeListTailAdd(h, r, n) \in Heaps(Roots)
  <2>1. [h.head EXCEPT ![r] = IF @ = Null THEN n ELSE @] \in [Roots -> Pointers]
    BY <1>1
  <2>2. [h.tail EXCEPT ![r] = n] \in [Roots -> Pointers]
    BY <1>1
  <2>3. [h.prev EXCEPT ![n] = h.tail[r]] \in [Nodes -> Pointers]
    BY <1>1, <1>5
  <2>4. Set([h.next EXCEPT ![n] = Null], h.tail[r], n) \in [Nodes -> Pointers]
    BY <1>1, <1>2, <1>3, <1>5
  <2> QED BY <2>1, <2>2, <2>3, <2>4 DEF SeListTailAdd, Heaps
<1>7. SeListRemove(h, r, n) \in Heaps(Roots)
  <2>1. [h.head EXCEPT ![r] = IF h.prev[n] = Null THEN h.next[n] ELSE @] \in [Roots -> Pointers]
    BY <1>1, <1>5
  <2>2. [h.tail EXCEPT ![r] = IF h.next[n] = Null THEN h.prev[n] ELSE @] \in [Roots -> Pointers]
    BY <1>1, <1>5
  <2>3. [Set(h.prev, h.next[n], h.prev[n]) EXCEPT ![n] = Null] \in [Nodes -> Pointers]
    BY <1>1, <1>2, <1>3, <1>5
  <2>4. [Set(h.next, h.prev[n], h.next[n]) EXCEPT ![n] = Null] \in [Nodes -> Pointers]
    BY <1>1, <1>2, <1>3, <1>5
  <2> QED BY <2>1, <2>2, <2>3, <2>4 DEF SeListRemove, Heaps
<1> QED BY <1>6, <1>7

(* Adding a node that is on no list.                                       *)
LEMMA AddLinked ==
  ASSUME Null \notin Nodes, NEW h, NEW on, Linked(h, on), NEW r \in Roots, NEW n \in Nodes,
         \A p \in Roots : n \notin Range(on[p])
  PROVE  Linked(SeListTailAdd(h, r, n), [on EXCEPT ![r] = Append(@, n)])
<1> DEFINE g  == SeListTailAdd(h, r, n)
           to == [on EXCEPT ![r] = Append(@, n)]
<1>1. /\ h \in Heaps(Roots) /\ on \in [Roots -> Seq(Nodes)]
      /\ \A p \in Roots : on[p] \in Seq(Nodes) /\ Represents(h, p, on[p])
  BY DEF Linked
<1>2. g \in Heaps(Roots)
  BY <1>1, Operations
<1>3. /\ Append(on[r], n) \in Seq(Nodes)
      /\ Range(Append(on[r], n)) = Range(on[r]) \cup {n}
  BY <1>1, RangeAppend
<1>4. /\ to \in [Roots -> Seq(Nodes)] /\ to[r] = Append(on[r], n)
      /\ \A p \in Roots : p # r => to[p] = on[p]
  BY <1>1, <1>3
<1>5. \A p \in Roots : Range(to[p]) = IF p = r THEN Range(on[p]) \cup {n} ELSE Range(on[p])
  BY <1>3, <1>4
<1> HIDE DEF to, g
<1>6. ASSUME NEW p \in Roots PROVE Represents(g, p, to[p])
  <2>1. Avoids(on[p], {n}) /\ Avoids(on[r], {n})
    BY <1>1, AvoidsIs
  <2>2. CASE p = r
    <3>1. Represents(g, r, Append(on[r], n))
      BY <1>1, <2>1, TailAddAppends DEF g
    <3> QED BY <2>2, <3>1, <1>4
  <2>3. CASE p # r
    <3>1. \A k \in 1 .. Len(on[r]) : Avoids(on[p], {on[r][k]})
      <4> TAKE k \in 1 .. Len(on[r])
      <4>1. on[r][k] \in Range(on[r])
        BY <1>1, RangeIs
      <4>2. on[r][k] \notin Range(on[p])
        BY <4>1, <2>3 DEF Linked
      <4> QED BY <4>2, <1>1, AvoidsIs
    <3>2. Represents(g, p, on[p])
      BY <1>1, <2>1, <2>3, <3>1, OthersKept DEF g
    <3> QED BY <2>3, <3>2, <1>4
  <2> QED BY <2>2, <2>3
<1>7. ASSUME NEW p \in Roots, NEW q \in Roots, p # q
      PROVE  Range(to[p]) \cap Range(to[q]) = {}
  <2>1. Range(on[p]) \cap Range(on[q]) = {}
    BY <1>7 DEF Linked
  <2> QED BY <2>1, <1>5, <1>7
<1>8. ASSUME NEW m \in Nodes PROVE Detached(g, m) \/ \E p \in Roots : m \in Range(to[p])
  <2>1. SUFFICES ASSUME \A p \in Roots : m \notin Range(to[p]) PROVE Detached(g, m)
    OBVIOUS
  <2>2. m # n /\ \A p \in Roots : m \notin Range(on[p])
    BY <2>1, <1>5
  <2>3. Detached(h, m)
    BY <2>2 DEF Linked
  <2>4. m # h.tail[r]
    <3>1. on[r] # <<>> => on[r][Len(on[r])] \in Range(on[r])
      <4>1. on[r] # <<>> => Len(on[r]) \in 1 .. Len(on[r])
        BY <1>1, LenZero, LenProperties
      <4> QED BY <4>1, <1>1, RangeIs
    <3>2. h.tail[r] = IF on[r] = <<>> THEN Null ELSE on[r][Len(on[r])]
      BY <1>1 DEF Represents
    <3> QED BY <3>1, <3>2, <2>2
  <2>5. h.prev \in [Nodes -> Pointers] /\ h.next \in [Nodes -> Pointers]
    BY <1>1 DEF Heaps
  <2> QED BY <2>2, <2>3, <2>4, <2>5 DEF Detached, g, SeListTailAdd, Set
<1>9. Linked(g, to)
  BY <1>2, <1>4, <1>6, <1>7, <1>8 DEF Linked
<1> QED BY <1>9 DEF g, to

(* Taking the node at place k off its list.                                *)
LEMMA RemoveLinked ==
  ASSUME Null \notin Nodes, NEW h, NEW on, Linked(h, on), NEW r \in Roots, NEW k \in 1 .. Len(on[r])
  PROVE  Linked(SeListRemove(h, r, on[r][k]), [on EXCEPT ![r] = Without(@, k)])
<1> DEFINE n  == on[r][k]
           g  == SeListRemove(h, r, n)
           to == [on EXCEPT ![r] = Without(@, k)]
<1>1. /\ h \in Heaps(Roots) /\ on \in [Roots -> Seq(Nodes)]
      /\ \A p \in Roots : on[p] \in Seq(Nodes) /\ Represents(h, p, on[p])
  BY DEF Linked
<1>2. n \in Nodes /\ n \in Range(on[r]) /\ Simple(on[r])
  BY <1>1, RangeIs DEF Represents, Simple
<1>3. g \in Heaps(Roots)
  BY <1>1, <1>2, Operations
<1>4. /\ Without(on[r], k) \in Seq(Nodes)
      /\ Range(Without(on[r], k)) = Range(on[r]) \ {n}
  BY <1>1, <1>2, RangeWithout
<1>5. /\ to \in [Roots -> Seq(Nodes)] /\ to[r] = Without(on[r], k)
      /\ \A p \in Roots : p # r => to[p] = on[p]
  BY <1>1, <1>4
<1>6. \A p \in Roots : Range(to[p]) = IF p = r THEN Range(on[p]) \ {n} ELSE Range(on[p])
  BY <1>4, <1>5
<1>7. Represents(g, r, to[r]) /\ Detached(g, n)
  <2>1. Represents(h, r, on[r])
    BY <1>1
  <2>2. Represents(g, r, Without(on[r], k)) /\ Detached(g, n)
    BY <1>1, <2>1, RemoveTakesOut
  <2> QED BY <2>2, <1>5
<1> HIDE DEF to, g
<1>8. ASSUME NEW p \in Roots, p # r PROVE Represents(g, p, to[p])
  <2>1. \A j \in 1 .. Len(on[r]) : Avoids(on[p], {on[r][j]})
    <3> TAKE j \in 1 .. Len(on[r])
    <3>1. on[r][j] \in Range(on[r])
      BY <1>1, RangeIs
    <3>2. on[r][j] \notin Range(on[p])
      BY <3>1, <1>8 DEF Linked
    <3> QED BY <3>2, <1>1, AvoidsIs
  <2>2. Represents(g, p, on[p])
    BY <1>1, <1>8, <2>1, OthersKept DEF g
  <2> QED BY <2>2, <1>5, <1>8
<1>9. ASSUME NEW p \in Roots, NEW q \in Roots, p # q
      PROVE  Range(to[p]) \cap Range(to[q]) = {}
  <2>1. Range(on[p]) \cap Range(on[q]) = {}
    BY <1>9 DEF Linked
  <2> QED BY <2>1, <1>6, <1>9
<1>10. ASSUME NEW m \in Nodes PROVE Detached(g, m) \/ \E p \in Roots : m \in Range(to[p])
  <2>1. SUFFICES ASSUME \A p \in Roots : m \notin Range(to[p]), m # n PROVE Detached(g, m)
    BY <1>7
  <2>2. \A p \in Roots : m \notin Range(on[p])
    BY <2>1, <1>6
  <2>3. Detached(h, m)
    BY <2>2 DEF Linked
  <2>4. m # h.prev[n] /\ m # h.next[n]
    <3>1. /\ h.prev[n] = IF k = 1 THEN Null ELSE on[r][k - 1]
          /\ h.next[n] = IF k = Len(on[r]) THEN Null ELSE on[r][k + 1]
      BY <1>1 DEF Represents
    <3>2. /\ k # 1 => k - 1 \in 1 .. Len(on[r])
          /\ k # Len(on[r]) => k + 1 \in 1 .. Len(on[r])
      BY <1>1, LenProperties
    <3>3. \A j \in 1 .. Len(on[r]) : on[r][j] # m
      BY <2>2, <1>1, RangeIs
    <3> QED BY <3>1, <3>2, <3>3
  <2>5. h.prev \in [Nodes -> Pointers] /\ h.next \in [Nodes -> Pointers]
    BY <1>1 DEF Heaps
  <2> QED BY <2>1, <2>3, <2>4, <2>5 DEF Detached, g, SeListRemove, Set
<1>11. Linked(g, to)
  BY <1>3, <1>5, <1>7, <1>8, <1>9, <1>10 DEF Linked
<1> QED BY <1>11 DEF g, to

-----------------------------------------------------------------------------
(* Which nodes and roots there are.                                        *)

LEMMA SlotsAre == Slots = 0 .. MaxSlots - 1
BY DEF Slots, Mgr!Slots

LEMMA NodesFinite == IsFiniteSet(Nodes) /\ Null \notin Nodes
<1> DEFINE A == {"main", "list"} \X HashNodes
           B == 0 .. MaxSlots - 1
           C == A \X B
           f == [c \in C |-> <<c[1][1], c[1][2], c[2]>>]
<1>1. Nodes = SlotNodes /\ Null \notin Nodes /\ MaxSlots \in Nat
  BY HashAssumption
<1>2. IsFiniteSet({"main", "list"}) /\ IsFiniteSet(HashNodes)
  <2>1. {"main", "list"} = {"main"} \cup {"list"} /\ HashNodes = ({"kMainNode"} \cup {"kSendNode"}) \cup {"kRecvNode"}
    BY DEF HashNodes
  <2>2. IsFiniteSet({"main"}) /\ IsFiniteSet({"kMainNode"})
    BY FS_Singleton
  <2>3. IsFiniteSet({"main"} \cup {"list"}) /\ IsFiniteSet({"kMainNode"} \cup {"kSendNode"})
    BY <2>2, FS_AddElement
  <2>4. IsFiniteSet(({"kMainNode"} \cup {"kSendNode"}) \cup {"kRecvNode"})
    BY <2>3, FS_AddElement
  <2> QED BY <2>1, <2>3, <2>4
<1>3. IsFiniteSet(A)
  BY <1>2, FS_Product
<1>4. IsFiniteSet(B)
  <2>1. 0 \in Int /\ MaxSlots - 1 \in Int
    BY <1>1
  <2> QED BY <2>1, FS_Interval
<1>5. IsFiniteSet(C)
  <2> HIDE DEF A, B
  <2> QED BY <1>3, <1>4, FS_Product
<1>6. f \in Surjection(C, SlotNodes)
  <2>1. f \in [C -> SlotNodes]
    BY DEF SlotNodes
  <2>2. ASSUME NEW n \in SlotNodes PROVE \E c \in C : f[c] = n
    <3>1. PICK a \in {"main", "list"}, b \in HashNodes, i \in B : n = <<a, b, i>>
      BY DEF SlotNodes
    <3>2. <<<<a, b>>, i>> \in C /\ f[<<<<a, b>>, i>>] = n
      BY <3>1
    <3> QED BY <3>2
  <2> QED BY <2>1, <2>2 DEF Surjection
<1>7. IsFiniteSet(SlotNodes)
  <2> HIDE DEF C, f
  <2> QED BY <1>5, <1>6, FS_Surjection
<1> QED BY <1>1, <1>7

LEMMA Layout ==
  ASSUME NEW l \in Lists, NEW i \in Slots
  PROVE  /\ Order(l) \in Roots /\ Bucket(l, i) \in Roots
         /\ (i % max) \in 0 .. max - 1
         /\ MainNode(l, i) \in Nodes /\ ListNode(l, i) \in Nodes
         /\ MainNode(l, i)[3] = i /\ ListNode(l, i)[3] = i
         /\ \A m \in Lists, j \in Slots :
              /\ Order(l) # Bucket(m, j)
              /\ MainNode(l, i) # ListNode(m, j)
              /\ MainNode(l, i) = MainNode(m, j) <=> NodeFor(l) = NodeFor(m) /\ i = j
              /\ ListNode(l, i) = ListNode(m, j) <=> NodeFor(l) = NodeFor(m) /\ i = j
<1>1. max \in Nat \ {0} /\ MaxSlots \in Nat \ {0} /\ Nodes = SlotNodes
  BY HashAssumption
<1>2. \A j \in Slots : j \in 0 .. MaxSlots - 1 /\ (j % max) \in 0 .. max - 1
  BY <1>1, SlotsAre
<1>3. NodeFor(l) \in HashNodes
  BY DEF NodeFor, HashNodes, Lists
<1>4. \A j \in Slots : (j % max) # -1
  BY <1>2, <1>1
<1>5. Order(l) \in Roots /\ Bucket(l, i) \in Roots
  <2>1. -1 \in -1 .. max - 1 /\ (i % max) \in -1 .. max - 1
    BY <1>1, <1>2
  <2> QED BY <2>1 DEF Order, Bucket, Roots
<1>6. MainNode(l, i) \in Nodes /\ ListNode(l, i) \in Nodes
  BY <1>1, <1>2, <1>3, Zenon DEF MainNode, ListNode, SlotNodes
<1>7. ASSUME NEW m \in Lists, NEW j \in Slots
      PROVE  /\ Order(l) # Bucket(m, j)
             /\ MainNode(l, i) # ListNode(m, j)
             /\ MainNode(l, i) = MainNode(m, j) <=> NodeFor(l) = NodeFor(m) /\ i = j
             /\ ListNode(l, i) = ListNode(m, j) <=> NodeFor(l) = NodeFor(m) /\ i = j
  <2>1. Order(l) # Bucket(m, j)
    BY <1>4, Zenon DEF Order, Bucket
  <2>2. MainNode(l, i) # ListNode(m, j)
    BY DEF MainNode, ListNode
  <2>3. MainNode(l, i) = MainNode(m, j) <=> NodeFor(l) = NodeFor(m) /\ i = j
    BY DEF MainNode
  <2>4. ListNode(l, i) = ListNode(m, j) <=> NodeFor(l) = NodeFor(m) /\ i = j
    BY DEF ListNode
  <2> QED BY <2>1, <2>2, <2>3, <2>4
<1>8. MainNode(l, i)[3] = i /\ ListNode(l, i)[3] = i
  BY DEF MainNode, ListNode
<1> QED BY <1>2, <1>5, <1>6, <1>7, <1>8

-----------------------------------------------------------------------------
(* Hash list l files the slots of u: its list links their list nodes in    *)
(* this order, and each bucket the main nodes of those that hash to it.    *)

Filed(on, l, u) ==
  /\ u \in Seq(Slots)
  /\ Len(on[Order(l)]) = Len(u)
  /\ \A k \in 1 .. Len(u) : on[Order(l)][k] = ListNode(l, u[k])
  /\ \A i \in Slots : i \in Range(u) <=> MainNode(l, i) \in Range(on[Bucket(l, i)])
  /\ \A b \in 0 .. max - 1 : \A n \in Range(on[<<l, b>>]) :
       \E i \in Slots : n = MainNode(l, i) /\ b = (i % max)

(* The heap holds the four hash lists with the contents q.                 *)
Links(h, on, q) ==
  /\ q \in [Lists -> Seq(Slots)]
  /\ Linked(h, on)
  /\ \A l \in Lists : Filed(on, l, q[l])

Holds(h, q) == \E on : Links(h, on, q)

(* A hash list that only changed what it says of slot i.                   *)
LEMMA Refiled ==
  ASSUME NEW on, NEW to, NEW l \in Lists, NEW i \in Slots, NEW u, NEW v,
         Filed(on, l, u), v \in Seq(Slots),
         Len(to[Order(l)]) = Len(v),
         \A k \in 1 .. Len(v) : to[Order(l)][k] = ListNode(l, v[k]),
         \A b \in 0 .. max - 1 : b # (i % max) => to[<<l, b>>] = on[<<l, b>>],
         \A n : n \in Range(to[Bucket(l, i)]) <=>
                IF n = MainNode(l, i) THEN i \in Range(v) ELSE n \in Range(on[Bucket(l, i)]),
         \A j \in Slots : j # i => (j \in Range(v) <=> j \in Range(u))
  PROVE  Filed(to, l, v)
<1>1. ASSUME NEW j \in Slots
      PROVE  j \in Range(v) <=> MainNode(l, j) \in Range(to[Bucket(l, j)])
  <2>1. CASE j = i
    BY <2>1
  <2>2. CASE j # i
    <3>1. (j % max) \in 0 .. max - 1 /\ (MainNode(l, i) = MainNode(l, j) <=> i = j)
      BY Layout
    <3>2. j \in Range(v) <=> MainNode(l, j) \in Range(on[Bucket(l, j)])
      BY <2>2 DEF Filed
    <3>3. CASE (j % max) = (i % max)
      <4>1. Bucket(l, j) = Bucket(l, i)
        BY <3>3 DEF Bucket
      <4> QED BY <4>1, <3>1, <3>2, <2>2
    <3>4. CASE (j % max) # (i % max)
      <4>1. to[Bucket(l, j)] = on[Bucket(l, j)]
        BY <3>1, <3>4 DEF Bucket
      <4> QED BY <4>1, <3>2
    <3> QED BY <3>3, <3>4
  <2> QED BY <2>1, <2>2
<1>2. ASSUME NEW b \in 0 .. max - 1, NEW n \in Range(to[<<l, b>>])
      PROVE  \E j \in Slots : n = MainNode(l, j) /\ b = (j % max)
  <2>1. CASE b # (i % max) \/ n # MainNode(l, i)
    <3>1. n \in Range(on[<<l, b>>])
      BY <2>1, <1>2 DEF Bucket
    <3> QED BY <3>1 DEF Filed
  <2>2. CASE b = (i % max) /\ n = MainNode(l, i)
    BY <2>2
  <2> QED BY <2>1, <2>2
<1> QED BY <1>1, <1>2 DEF Filed

-----------------------------------------------------------------------------
(* What the functions of SeHash.c read.                                    *)

Contents(h, l) == LET w == Walk(h, Order(l)) IN [k \in DOMAIN w |-> w[k][3]]

(* Each root's reader meets the list the root stands for.                  *)
LEMMA WalkLinked ==
  ASSUME NEW h, NEW on, Linked(h, on), NEW r \in Roots
  PROVE  Walk(h, r) = on[r]
<1>1. h \in Heaps(Roots) /\ Represents(h, r, on[r])
  BY DEF Linked
<1> QED BY <1>1, NodesFinite, WalkIs

LEMMA LinkedLists ==
  ASSUME NEW h, NEW on, NEW q, Links(h, on, q), NEW l \in Lists
  PROVE  /\ on \in [Roots -> Seq(Nodes)] /\ \A r \in Roots : on[r] \in Seq(Nodes)
         /\ q[l] \in Seq(Slots) /\ Filed(on, l, q[l]) /\ Simple(q[l])
         /\ Len(q[l]) \in Nat /\ \A k \in 1 .. Len(q[l]) : q[l][k] \in Slots
<1>1. on \in [Roots -> Seq(Nodes)] /\ q[l] \in Seq(Slots) /\ Filed(on, l, q[l])
  BY DEF Links, Linked
<1>2. /\ Len(q[l]) \in Nat /\ \A k \in 1 .. Len(q[l]) : q[l][k] \in Slots
  BY <1>1, LenProperties, ElementOfSeq
<1>3. Order(l) \in Roots
  BY HashAssumption DEF Order, Roots
<1>4. Simple(on[Order(l)])
  BY <1>3 DEF Links, Linked, Represents, Simple
<1>5. Simple(q[l])
  BY <1>1, <1>4 DEF Simple, Filed
<1> QED BY <1>1, <1>2, <1>5

LEMMA Reads ==
  ASSUME NEW h, NEW q, Holds(h, q), NEW l \in Lists
  PROVE  /\ Contents(h, l) = q[l]
         /\ Empty(h, l) <=> q[l] = <<>>
         /\ q[l] # <<>> => HashGetHead(h, l) = q[l][1] /\ 1 \in 1 .. Len(q[l])
         /\ \A i \in Slots : HashGet(h, l, i) <=> i \in Range(q[l])
<1>0. PICK on : Links(h, on, q)
  BY DEF Holds
<1>1. /\ on \in [Roots -> Seq(Nodes)] /\ q[l] \in Seq(Slots) /\ Filed(on, l, q[l])
      /\ Len(q[l]) \in Nat /\ \A k \in 1 .. Len(q[l]) : q[l][k] \in Slots
  BY <1>0, LinkedLists
<1>2. Order(l) \in Roots
  BY HashAssumption DEF Order, Roots
<1>3. /\ Len(on[Order(l)]) = Len(q[l])
      /\ \A k \in 1 .. Len(q[l]) : on[Order(l)][k] = ListNode(l, q[l][k]) /\ on[Order(l)][k][3] = q[l][k]
  <2>1. \A k \in 1 .. Len(q[l]) : ListNode(l, q[l][k])[3] = q[l][k]
    BY <1>1, Layout
  <2> QED BY <1>1, <2>1 DEF Filed
<1>4. Linked(h, on)
  BY <1>0 DEF Links
<1>5. Contents(h, l) = q[l]
  <2> DEFINE w == on[Order(l)]
             c == [k \in DOMAIN w |-> w[k][3]]
  <2>1. Walk(h, Order(l)) = w
    BY <1>2, <1>4, WalkLinked
  <2>2. DOMAIN w = 1 .. Len(q[l])
    BY <1>1, <1>2, <1>3, LenProperties
  <2>3. DOMAIN q[l] = 1 .. Len(q[l]) /\ q[l] \in [1 .. Len(q[l]) -> Slots]
    BY <1>1, LenProperties
  <2>4. c = [k \in 1 .. Len(q[l]) |-> q[l][k]]
    BY <2>2, <1>3
  <2>5. c = q[l]
    BY <2>3, <2>4
  <2> QED BY <2>1, <2>5 DEF Contents
<1>6. on[Order(l)] \in Seq(Nodes) /\ (q[l] = <<>> <=> Len(q[l]) = 0) /\ (on[Order(l)] = <<>> <=> Len(q[l]) = 0)
  BY <1>1, <1>2, <1>3, LenZero
<1>7. h.head[Order(l)] = IF on[Order(l)] = <<>> THEN Null ELSE on[Order(l)][1]
  BY <1>2, <1>4 DEF Linked, Represents
<1>8. q[l] # <<>> => 1 \in 1 .. Len(q[l]) /\ on[Order(l)][1] # Null /\ on[Order(l)][1][3] = q[l][1]
  <2>1. q[l] # <<>> => 1 \in 1 .. Len(q[l])
    BY <1>1, <1>6
  <2>2. 1 \in 1 .. Len(q[l]) => on[Order(l)][1] \in Nodes
    BY <1>3, <1>6, ElementOfSeq
  <2> QED BY <2>1, <2>2, <1>3, NodesFinite
<1>9. ASSUME NEW i \in Slots PROVE HashGet(h, l, i) <=> i \in Range(q[l])
  <2>1. Bucket(l, i) \in Roots /\ (i % max) \in 0 .. max - 1 /\ MainNode(l, i)[3] = i
    BY Layout
  <2>2. Walk(h, Bucket(l, i)) = on[Bucket(l, i)]
    BY <2>1, <1>4, WalkLinked
  <2>3. ASSUME NEW n \in Range(on[Bucket(l, i)]), n[3] = i PROVE n = MainNode(l, i)
    <3>1. PICK j \in Slots : n = MainNode(l, j)
      BY <2>1, <1>1 DEF Filed, Bucket
    <3>2. n[3] = j
      BY <3>1, Layout
    <3> QED BY <3>1, <3>2, <2>3
  <2>4. HashGet(h, l, i) <=> MainNode(l, i) \in Range(on[Bucket(l, i)])
    BY <2>1, <2>2, <2>3 DEF HashGet
  <2> QED BY <2>4, <1>1 DEF Filed
<1> QED BY <1>5, <1>6, <1>7, <1>8, <1>9 DEF Empty, HashGetHead

(* A slot is on one of the two lists that share its kMainNode.             *)
LEMMA Apart ==
  ASSUME NEW h, NEW q, Holds(h, q), NEW l \in Lists, NEW m \in Lists, l # m, NodeFor(l) = NodeFor(m)
  PROVE  Range(q[l]) \cap Range(q[m]) = {}
<1> SUFFICES ASSUME NEW i \in Range(q[l]), i \in Range(q[m]) PROVE FALSE
  OBVIOUS
<1>0. PICK on : Links(h, on, q)
  BY DEF Holds
<1>1. i \in Slots /\ Filed(on, l, q[l]) /\ Filed(on, m, q[m])
  BY <1>0, LinkedLists, RangeIs
<1>2. MainNode(l, i) \in Range(on[Bucket(l, i)]) /\ MainNode(m, i) \in Range(on[Bucket(m, i)])
  BY <1>1 DEF Filed
<1>3. Bucket(l, i) \in Roots /\ Bucket(m, i) \in Roots /\ MainNode(l, i) = MainNode(m, i)
  BY <1>1, Layout
<1>4. Bucket(l, i) # Bucket(m, i)
  BY DEF Bucket
<1>5. Range(on[Bucket(l, i)]) \cap Range(on[Bucket(m, i)]) = {}
  BY <1>0, <1>3, <1>4 DEF Links, Linked
<1> QED BY <1>2, <1>3, <1>5

-----------------------------------------------------------------------------
(* What the functions of SeHash.c do.                                      *)

(* Slot i is on none of the lists that use the hash node of l.             *)
Unlisted(q, l, i) == \A m \in Lists : NodeFor(m) = NodeFor(l) => i \notin Range(q[m])

LEMMA FreeNodes ==
  ASSUME NEW h, NEW on, NEW q, Links(h, on, q), NEW l \in Lists, NEW i \in Slots,
         Unlisted(q, l, i), NEW r \in Roots
  PROVE  MainNode(l, i) \notin Range(on[r]) /\ ListNode(l, i) \notin Range(on[r])
<1>1. PICK m \in Lists, b \in -1 .. max - 1 : r = <<m, b>>
  BY DEF Roots
<1>2. Filed(on, m, q[m]) /\ on[r] \in Seq(Nodes) /\ \A k \in 1 .. Len(q[m]) : q[m][k] \in Slots
  BY LinkedLists
<1>3. CASE b = -1
  <2>1. \A n \in Range(on[r]) : \E k \in 1 .. Len(q[m]) : n = ListNode(m, q[m][k])
    <3>1. r = Order(m)
      BY <1>1, <1>3 DEF Order
    <3>2. Len(on[r]) = Len(q[m]) /\ \A k \in 1 .. Len(q[m]) : on[r][k] = ListNode(m, q[m][k])
      BY <3>1, <1>2 DEF Filed
    <3>3. \A n \in Range(on[r]) : \E k \in 1 .. Len(on[r]) : on[r][k] = n
      BY <1>2, RangeIs
    <3> QED BY <3>2, <3>3
  <2>2. \A n \in Range(on[r]) : n # MainNode(l, i)
    BY <1>2, <2>1, Layout
  <2>3. ASSUME ListNode(l, i) \in Range(on[r]) PROVE FALSE
    <3>1. PICK k \in 1 .. Len(q[m]) : ListNode(l, i) = ListNode(m, q[m][k])
      BY <2>1, <2>3
    <3>2. NodeFor(l) = NodeFor(m) /\ i = q[m][k]
      BY <1>2, <3>1, Layout
    <3>3. q[m] \in Seq(Slots)
      BY LinkedLists
    <3>4. i \in Range(q[m])
      BY <3>2, <3>3, RangeIs
    <3> QED BY <3>2, <3>4 DEF Unlisted
  <2> QED BY <2>2, <2>3
<1>4. CASE b # -1
  <2>0. b \in 0 .. max - 1
    BY <1>4, HashAssumption
  <2>1. \A n \in Range(on[r]) : \E j \in Slots : n = MainNode(m, j) /\ b = (j % max)
    BY <2>0, <1>1, <1>2 DEF Filed
  <2>2. \A n \in Range(on[r]) : n # ListNode(l, i)
    BY <2>1, Layout
  <2>3. ASSUME MainNode(l, i) \in Range(on[r]) PROVE FALSE
    <3>1. PICK j \in Slots : MainNode(l, i) = MainNode(m, j) /\ b = (j % max)
      BY <2>1, <2>3
    <3>2. NodeFor(l) = NodeFor(m) /\ i = j
      BY <3>1, Layout
    <3>3. r = Bucket(m, i) /\ MainNode(m, i) \in Range(on[r])
      BY <3>1, <3>2, <2>3, <1>1 DEF Bucket
    <3>4. i \in Range(q[m])
      BY <3>3, <1>2 DEF Filed
    <3> QED BY <3>2, <3>4 DEF Unlisted
  <2> QED BY <2>2, <2>3
<1> QED BY <1>3, <1>4

(* Another hash list is filed as before.                                   *)
LEMMA SameFiles ==
  ASSUME NEW on, NEW to, NEW m \in Lists, NEW u, Filed(on, m, u),
         \A b \in -1 .. max - 1 : to[<<m, b>>] = on[<<m, b>>]
  PROVE  Filed(to, m, u)
<1>1. to[Order(m)] = on[Order(m)]
  <2>1. -1 \in -1 .. max - 1
    BY HashAssumption
  <2> QED BY <2>1 DEF Order
<1>2. \A b \in 0 .. max - 1 : to[<<m, b>>] = on[<<m, b>>]
  BY HashAssumption
<1>3. \A i \in Slots : to[Bucket(m, i)] = on[Bucket(m, i)]
  BY <1>2, Layout DEF Bucket
<1> QED BY <1>1, <1>2, <1>3 DEF Filed

LEMMA HashAddHolds ==
  ASSUME NEW h, NEW q, Holds(h, q), NEW l \in Lists, NEW i \in Slots, Unlisted(q, l, i)
  PROVE  Holds(HashAdd(h, l, i), [q EXCEPT ![l] = Append(@, i)])
<1>0. PICK on : Links(h, on, q)
  BY DEF Holds
<1> DEFINE B  == Bucket(l, i)
           O  == Order(l)
           M  == MainNode(l, i)
           N  == ListNode(l, i)
           h1 == SeListTailAdd(h, B, M)
           o1 == [on EXCEPT ![B] = Append(@, M)]
           o2 == [o1 EXCEPT ![O] = Append(@, N)]
           v  == Append(q[l], i)
           p  == [q EXCEPT ![l] = v]
<1>1. /\ on \in [Roots -> Seq(Nodes)] /\ \A r \in Roots : on[r] \in Seq(Nodes)
      /\ q \in [Lists -> Seq(Slots)] /\ \A m \in Lists : q[m] \in Seq(Slots) /\ Filed(on, m, q[m])
      /\ Linked(h, on) /\ Null \notin Nodes
  BY <1>0, LinkedLists, NodesFinite DEF Links
<1>2. O \in Roots /\ B \in Roots /\ O # B /\ M \in Nodes /\ N \in Nodes /\ M # N
  BY Layout
<1>3. \A r \in Roots : M \notin Range(on[r]) /\ N \notin Range(on[r])
  BY <1>0, FreeNodes
<1>4. Linked(h1, o1)
  <2> HIDE DEF B, M
  <2> QED BY <1>1, <1>2, <1>3, AddLinked
<1>5. /\ o1 \in [Roots -> Seq(Nodes)] /\ o1[B] = Append(on[B], M)
      /\ \A r \in Roots : r # B => o1[r] = on[r]
      /\ Range(o1[B]) = Range(on[B]) \cup {M}
  <2> HIDE DEF B, M, O, N
  <2>1. Append(on[B], M) \in Seq(Nodes) /\ Range(Append(on[B], M)) = Range(on[B]) \cup {M}
    BY <1>1, <1>2, RangeAppend
  <2> QED BY <1>1, <1>2, <2>1
<1>6. \A r \in Roots : N \notin Range(o1[r])
  <2> HIDE DEF B, M, O, N, o1
  <2> QED BY <1>2, <1>3, <1>5
<1>7. Linked(SeListTailAdd(h1, O, N), o2)
  <2> HIDE DEF B, M, O, N, o1, h1
  <2> QED BY <1>1, <1>2, <1>4, <1>6, AddLinked
<1>8. /\ \A r \in Roots : r # O => o2[r] = o1[r]
      /\ o2[O] = Append(on[O], N) /\ Len(o2[O]) = Len(on[O]) + 1
      /\ \A k \in 1 .. Len(on[O]) : o2[O][k] = on[O][k]
      /\ o2[O][Len(on[O]) + 1] = N
  <2> HIDE DEF B, M, O, N
  <2>1. /\ Len(Append(on[O], N)) = Len(on[O]) + 1
        /\ \A k \in 1 .. Len(on[O]) : Append(on[O], N)[k] = on[O][k]
        /\ Append(on[O], N)[Len(on[O]) + 1] = N
    BY <1>1, <1>2, RangeAppend
  <2>2. o1[O] = on[O]
    BY <1>2, <1>5
  <2> HIDE DEF o1
  <2>3. o2[O] = Append(on[O], N) /\ \A r \in Roots : r # O => o2[r] = o1[r]
    BY <1>2, <1>5, <2>2
  <2> HIDE DEF o2
  <2> QED BY <2>1, <2>3
<1>9. /\ v \in Seq(Slots) /\ Len(v) = Len(q[l]) + 1 /\ \A k \in 1 .. Len(q[l]) : v[k] = q[l][k]
      /\ v[Len(q[l]) + 1] = i /\ Range(v) = Range(q[l]) \cup {i} /\ Len(q[l]) \in Nat
  BY <1>1, RangeAppend, LenProperties
<1> HIDE DEF h1, o1, o2, v
<1>10. Filed(o2, l, v)
  <2>1. Len(o2[O]) = Len(v) /\ Len(on[O]) = Len(q[l])
    BY <1>1, <1>8, <1>9 DEF Filed
  <2>2. ASSUME NEW k \in 1 .. Len(v) PROVE o2[O][k] = ListNode(l, v[k])
    <3>1. CASE k = Len(q[l]) + 1
      BY <3>1, <2>1, <1>8, <1>9
    <3>2. CASE k \in 1 .. Len(q[l])
      <4>1. on[O][k] = ListNode(l, q[l][k])
        BY <3>2, <1>1 DEF Filed
      <4> HIDE DEF O
      <4> QED BY <3>2, <4>1, <2>1, <1>8, <1>9
    <3> QED BY <3>1, <3>2, <1>9
  <2>3. \A b \in 0 .. max - 1 : b # (i % max) => o2[<<l, b>>] = on[<<l, b>>]
    <3> TAKE b \in 0 .. max - 1
    <3>1. <<l, b>> \in Roots /\ <<l, b>> # O
      BY HashAssumption DEF Roots, Order
    <3>2. b # (i % max) => <<l, b>> # B
      BY DEF Bucket
    <3> HIDE DEF O, B
    <3> QED BY <3>1, <3>2, <1>5, <1>8
  <2>4. \A n : n \in Range(o2[B]) <=> IF n = M THEN i \in Range(v) ELSE n \in Range(on[B])
    <3>1. Range(o2[B]) = Range(on[B]) \cup {M}
      BY <1>2, <1>5, <1>8
    <3> QED BY <3>1, <1>9
  <2>5. \A j \in Slots : j # i => (j \in Range(v) <=> j \in Range(q[l]))
    BY <1>9
  <2>6. Filed(on, l, q[l])
    BY <1>1
  <2>7. /\ l \in Lists /\ i \in Slots /\ Filed(on, l, q[l]) /\ v \in Seq(Slots)
        /\ Len(o2[Order(l)]) = Len(v)
        /\ \A k \in 1 .. Len(v) : o2[Order(l)][k] = ListNode(l, v[k])
        /\ \A b \in 0 .. max - 1 : b # (i % max) => o2[<<l, b>>] = on[<<l, b>>]
        /\ \A n : n \in Range(o2[Bucket(l, i)]) <=>
                  IF n = MainNode(l, i) THEN i \in Range(v) ELSE n \in Range(on[Bucket(l, i)])
        /\ \A j \in Slots : j # i => (j \in Range(v) <=> j \in Range(q[l]))
    BY <2>1, <2>2, <2>3, <2>4, <2>5, <2>6, <1>9
  <2> QED BY ONLY <2>7, Refiled
<1>11. ASSUME NEW m \in Lists, m # l PROVE Filed(o2, m, p[m])
  <2>1. p[m] = q[m] /\ Filed(on, m, q[m])
    BY <1>1, <1>11
  <2>2. \A b \in -1 .. max - 1 : o2[<<m, b>>] = on[<<m, b>>]
    <3> TAKE b \in -1 .. max - 1
    <3>1. <<m, b>> \in Roots /\ <<m, b>> # O /\ <<m, b>> # B
      BY <1>11 DEF Roots, Order, Bucket
    <3> HIDE DEF O, B
    <3> QED BY <3>1, <1>5, <1>8
  <2> QED BY <2>1, <2>2, SameFiles
<1>12. p \in [Lists -> Seq(Slots)] /\ p[l] = v
  BY <1>1, <1>9
<1>13. Links(SeListTailAdd(h1, O, N), o2, p)
  BY <1>7, <1>10, <1>11, <1>12 DEF Links
<1>14. HashAdd(h, l, i) = SeListTailAdd(h1, O, N)
  BY DEF HashAdd, h1
<1>15. Holds(HashAdd(h, l, i), p)
  BY <1>13, <1>14 DEF Holds
<1> QED BY <1>15 DEF v

(* Slot i has left hash list l when its list node is taken from the list   *)
(* and its main node from the bucket, in whichever order.                  *)
LEMMA TakenOut ==
  ASSUME NEW h, NEW on, NEW q, Links(h, on, q), NEW l \in Lists, NEW j \in 1 .. Len(q[l]),
         NEW k \in 1 .. Len(on[Bucket(l, q[l][j])]),
         on[Bucket(l, q[l][j])][k] = MainNode(l, q[l][j]),
         NEW g, NEW to, Linked(g, to),
         to[Order(l)] = Without(on[Order(l)], j),
         to[Bucket(l, q[l][j])] = Without(on[Bucket(l, q[l][j])], k),
         \A r \in Roots : r # Order(l) /\ r # Bucket(l, q[l][j]) => to[r] = on[r]
  PROVE  Holds(g, [q EXCEPT ![l] = Without(@, j)])
<1> DEFINE i == q[l][j]
           B == Bucket(l, i)
           O == Order(l)
           M == MainNode(l, i)
           v == Without(q[l], j)
           p == [q EXCEPT ![l] = v]
<1>1. /\ on \in [Roots -> Seq(Nodes)] /\ \A r \in Roots : on[r] \in Seq(Nodes)
      /\ q \in [Lists -> Seq(Slots)] /\ \A m \in Lists : q[m] \in Seq(Slots) /\ Filed(on, m, q[m])
      /\ Linked(h, on) /\ i \in Slots /\ Simple(q[l]) /\ Len(q[l]) \in Nat
  BY LinkedLists DEF Links
<1>2. O \in Roots /\ B \in Roots /\ O # B
  BY <1>1, Layout
<1>3. Simple(on[O]) /\ Simple(on[B])
  <2> HIDE DEF O, B
  <2> QED BY <1>1, <1>2 DEF Linked, Represents, Simple
<1>4. Len(on[O]) = Len(q[l]) /\ \A n \in 1 .. Len(q[l]) : on[O][n] = ListNode(l, q[l][n])
  BY <1>1 DEF Filed
<1>5. /\ Len(to[O]) = Len(q[l]) - 1
      /\ \A n \in 1 .. Len(q[l]) - 1 : to[O][n] = IF n < j THEN on[O][n] ELSE on[O][n + 1]
  <2> HIDE DEF O
  <2> QED BY <1>1, <1>2, <1>3, <1>4, RangeWithout DEF O
<1>6. Range(to[B]) = Range(on[B]) \ {M}
  <2>1. Range(Without(on[B], k)) = Range(on[B]) \ {on[B][k]}
    <3> DEFINE s == on[B]
    <3>1. s \in Seq(Nodes) /\ Simple(s) /\ k \in 1 .. Len(s)
      BY <1>1, <1>2, <1>3
    <3> HIDE DEF s
    <3>2. Range(Without(s, k)) = Range(s) \ {s[k]}
      BY <3>1, RangeWithout
    <3> QED BY <3>2 DEF s
  <2> QED BY <2>1
<1>7. /\ v \in Seq(Slots) /\ Len(v) = Len(q[l]) - 1 /\ Range(v) = Range(q[l]) \ {i}
      /\ \A n \in 1 .. Len(q[l]) - 1 : v[n] = IF n < j THEN q[l][n] ELSE q[l][n + 1]
  <2> DEFINE s == q[l]
  <2>1. s \in Seq(Slots) /\ Simple(s) /\ j \in 1 .. Len(s)
    BY <1>1
  <2> HIDE DEF s
  <2>2. /\ Without(s, j) \in Seq(Slots) /\ Len(Without(s, j)) = Len(s) - 1
        /\ Range(Without(s, j)) = Range(s) \ {s[j]}
        /\ \A n \in 1 .. Len(s) - 1 : Without(s, j)[n] = IF n < j THEN s[n] ELSE s[n + 1]
    BY <2>1, RangeWithout
  <2> QED BY <2>2 DEF s
<1> HIDE DEF v
<1>8. Filed(to, l, v)
  <2>1. Len(to[O]) = Len(v)
    BY <1>5, <1>7
  <2>2. ASSUME NEW n \in 1 .. Len(v) PROVE to[O][n] = ListNode(l, v[n])
    <3>1. n \in 1 .. Len(q[l]) - 1 /\ n \in 1 .. Len(q[l]) /\ n + 1 \in 1 .. Len(q[l])
      BY <1>1, <1>7
    <3> HIDE DEF O, i
    <3> QED BY <3>1, <1>4, <1>5, <1>7
  <2>3. \A b \in 0 .. max - 1 : b # (i % max) => to[<<l, b>>] = on[<<l, b>>]
    <3> TAKE b \in 0 .. max - 1
    <3>1. <<l, b>> \in Roots /\ <<l, b>> # O
      BY HashAssumption DEF Roots, Order
    <3>2. b # (i % max) => <<l, b>> # B
      BY DEF Bucket
    <3> QED BY <3>1, <3>2
  <2>4. \A n : n \in Range(to[B]) <=> IF n = M THEN i \in Range(v) ELSE n \in Range(on[B])
    BY <1>6, <1>7
  <2>5. \A m \in Slots : m # i => (m \in Range(v) <=> m \in Range(q[l]))
    BY <1>7
  <2>7. /\ l \in Lists /\ i \in Slots /\ Filed(on, l, q[l]) /\ v \in Seq(Slots)
        /\ Len(to[Order(l)]) = Len(v)
        /\ \A n \in 1 .. Len(v) : to[Order(l)][n] = ListNode(l, v[n])
        /\ \A b \in 0 .. max - 1 : b # (i % max) => to[<<l, b>>] = on[<<l, b>>]
        /\ \A n : n \in Range(to[Bucket(l, i)]) <=>
                  IF n = MainNode(l, i) THEN i \in Range(v) ELSE n \in Range(on[Bucket(l, i)])
        /\ \A m \in Slots : m # i => (m \in Range(v) <=> m \in Range(q[l]))
    BY <2>1, <2>2, <2>3, <2>4, <2>5, <1>1, <1>7
  <2> HIDE DEF i
  <2> QED BY ONLY <2>7, Refiled
<1>9. ASSUME NEW m \in Lists, m # l PROVE Filed(to, m, p[m])
  <2>1. p[m] = q[m] /\ Filed(on, m, q[m])
    BY <1>1, <1>9
  <2>2. \A b \in -1 .. max - 1 : to[<<m, b>>] = on[<<m, b>>]
    <3> TAKE b \in -1 .. max - 1
    <3>1. <<m, b>> \in Roots /\ <<m, b>> # O /\ <<m, b>> # B
      BY <1>9 DEF Roots, Order, Bucket
    <3> QED BY <3>1
  <2> QED BY <2>1, <2>2, SameFiles
<1>10. p \in [Lists -> Seq(Slots)] /\ p[l] = v
  BY <1>1, <1>7
<1>11. Links(g, to, p)
  BY <1>8, <1>9, <1>10 DEF Links
<1>12. Holds(g, p)
  BY <1>11 DEF Holds
<1> QED BY <1>12 DEF v

(* A slot that is listed has a node in its bucket.                         *)
LEMMA InBucket ==
  ASSUME NEW h, NEW on, NEW q, Links(h, on, q), NEW l \in Lists, NEW j \in 1 .. Len(q[l])
  PROVE  /\ \E k \in 1 .. Len(on[Bucket(l, q[l][j])]) :
              on[Bucket(l, q[l][j])][k] = MainNode(l, q[l][j])
         /\ Len(on[Order(l)]) = Len(q[l]) /\ on[Order(l)][j] = ListNode(l, q[l][j])
         /\ q[l][j] \in Slots
<1>1. q[l] \in Seq(Slots) /\ Filed(on, l, q[l]) /\ q[l][j] \in Slots /\ \A r \in Roots : on[r] \in Seq(Nodes)
  BY LinkedLists
<1>2. q[l][j] \in Range(q[l]) /\ Bucket(l, q[l][j]) \in Roots
  BY <1>1, RangeIs, Layout
<1>3. MainNode(l, q[l][j]) \in Range(on[Bucket(l, q[l][j])])
  BY <1>1, <1>2 DEF Filed
<1>4. \E k \in 1 .. Len(on[Bucket(l, q[l][j])]) : on[Bucket(l, q[l][j])][k] = MainNode(l, q[l][j])
  BY <1>1, <1>2, <1>3, RangeIs
<1> QED BY <1>1, <1>4 DEF Filed

LEMMA HashRemoveHolds ==
  ASSUME NEW h, NEW q, Holds(h, q), NEW l \in Lists, NEW j \in 1 .. Len(q[l])
  PROVE  Holds(HashRemove(h, l, q[l][j]), [q EXCEPT ![l] = Without(@, j)])
<1>0. PICK on : Links(h, on, q)
  BY DEF Holds
<1> DEFINE i  == q[l][j]
           B  == Bucket(l, i)
           O  == Order(l)
           M  == MainNode(l, i)
           N  == ListNode(l, i)
<1>1. PICK k \in 1 .. Len(on[B]) : on[B][k] = M
  BY <1>0, InBucket
<1>2. Len(on[O]) = Len(q[l]) /\ on[O][j] = N /\ i \in Slots
  BY <1>0, InBucket
<1>3. O \in Roots /\ B \in Roots /\ O # B
  BY <1>2, Layout
<1>4. Linked(h, on) /\ on \in [Roots -> Seq(Nodes)] /\ Null \notin Nodes
  BY <1>0, NodesFinite DEF Links, Linked
<1> DEFINE h1 == SeListRemove(h, B, M)
           o1 == [on EXCEPT ![B] = Without(@, k)]
           h2 == SeListRemove(h1, O, N)
           o2 == [o1 EXCEPT ![O] = Without(@, j)]
<1>5. Linked(h1, o1)
  <2> HIDE DEF B, M
  <2> QED BY <1>1, <1>3, <1>4, RemoveLinked
<1>6. o1[O] = on[O] /\ o1[B] = Without(on[B], k) /\ \A r \in Roots : r # B => o1[r] = on[r]
  <2> HIDE DEF B, O
  <2> QED BY <1>3, <1>4
<1>7. o1 \in [Roots -> Seq(Nodes)]
  BY <1>5 DEF Linked
<1> HIDE DEF h1, o1
<1>8. Linked(h2, o2)
  <2>1. j \in 1 .. Len(o1[O]) /\ o1[O][j] = N
    BY <1>2, <1>6
  <2> HIDE DEF O, N
  <2> QED BY <2>1, <1>3, <1>4, <1>5, RemoveLinked
<1>9. /\ o2[O] = Without(on[O], j) /\ o2[B] = Without(on[B], k)
      /\ \A r \in Roots : r # O /\ r # B => o2[r] = on[r]
  <2> HIDE DEF O, B
  <2> QED BY <1>3, <1>6, <1>7
<1> HIDE DEF h2, o2
<1>10. Holds(h2, [q EXCEPT ![l] = Without(@, j)])
  BY <1>0, <1>1, <1>8, <1>9, TakenOut
<1> QED BY <1>10 DEF h1, h2, HashRemove

LEMMA HashPopHolds ==
  ASSUME NEW h, NEW q, Holds(h, q), NEW l \in Lists, q[l] # <<>>
  PROVE  Holds(HashPop(h, l), [q EXCEPT ![l] = Without(@, 1)])
<1>0. PICK on : Links(h, on, q)
  BY DEF Holds
<1> DEFINE i  == q[l][1]
           B  == Bucket(l, i)
           O  == Order(l)
           M  == MainNode(l, i)
           N  == ListNode(l, i)
<1>a. 1 \in 1 .. Len(q[l]) /\ HashGetHead(h, l) = i
  BY Reads
<1>1. PICK k \in 1 .. Len(on[B]) : on[B][k] = M
  BY <1>0, <1>a, InBucket
<1>2. Len(on[O]) = Len(q[l]) /\ on[O][1] = N /\ i \in Slots
  BY <1>0, <1>a, InBucket
<1>3. O \in Roots /\ B \in Roots /\ O # B
  BY <1>2, Layout
<1>4. Linked(h, on) /\ on \in [Roots -> Seq(Nodes)] /\ Null \notin Nodes
  BY <1>0, NodesFinite DEF Links, Linked
<1>b. h.head[O] = N
  <2>1. Represents(h, O, on[O]) /\ on[O] \in Seq(Nodes)
    BY <1>3, <1>4 DEF Linked
  <2>2. on[O] # <<>>
    <3> HIDE DEF O
    <3> QED BY <2>1, <1>a, <1>2, LenZero
  <2> HIDE DEF O
  <2> QED BY <2>1, <2>2, <1>2 DEF Represents
<1> DEFINE h1 == SeListRemove(h, O, N)
           o1 == [on EXCEPT ![O] = Without(@, 1)]
           h2 == SeListRemove(h1, B, M)
           o2 == [o1 EXCEPT ![B] = Without(@, k)]
<1>5. Linked(h1, o1)
  <2> HIDE DEF O, N
  <2> QED BY <1>a, <1>2, <1>3, <1>4, RemoveLinked
<1>6. o1[B] = on[B] /\ o1[O] = Without(on[O], 1) /\ \A r \in Roots : r # O => o1[r] = on[r]
  <2> HIDE DEF B, O
  <2> QED BY <1>3, <1>4
<1>7. o1 \in [Roots -> Seq(Nodes)]
  BY <1>5 DEF Linked
<1> HIDE DEF h1, o1
<1>8. Linked(h2, o2)
  <2>1. k \in 1 .. Len(o1[B]) /\ o1[B][k] = M
    BY <1>1, <1>6
  <2> HIDE DEF B, M
  <2> QED BY <2>1, <1>3, <1>4, <1>5, RemoveLinked
<1>9. /\ o2[O] = Without(on[O], 1) /\ o2[B] = Without(on[B], k)
      /\ \A r \in Roots : r # O /\ r # B => o2[r] = on[r]
  <2> HIDE DEF O, B
  <2> QED BY <1>3, <1>6, <1>7
<1> HIDE DEF h2, o2
<1>10. Holds(h2, [q EXCEPT ![l] = Without(@, 1)])
  <2>1. /\ Links(h, on, q) /\ l \in Lists /\ 1 \in 1 .. Len(q[l])
        /\ k \in 1 .. Len(on[Bucket(l, q[l][1])])
        /\ on[Bucket(l, q[l][1])][k] = MainNode(l, q[l][1])
        /\ Linked(h2, o2)
        /\ o2[Order(l)] = Without(on[Order(l)], 1)
        /\ o2[Bucket(l, q[l][1])] = Without(on[Bucket(l, q[l][1])], k)
        /\ \A r \in Roots : r # Order(l) /\ r # Bucket(l, q[l][1]) => o2[r] = on[r]
    BY <1>0, <1>1, <1>8, <1>9, <1>a
  <2> QED BY ONLY <2>1, TakenOut
<1>11. HashPop(h, l) = h2
  BY <1>a, <1>b DEF h1, h2, HashPop, SeListHeadPop
<1> QED BY <1>10, <1>11

LEMMA HashMoveToEndHolds ==
  ASSUME NEW h, NEW q, Holds(h, q), NEW l \in Lists, NEW j \in 1 .. Len(q[l])
  PROVE  Holds(HashMoveToEnd(h, l, q[l][j]), [q EXCEPT ![l] = Append(Without(@, j), q[l][j])])
<1>0. PICK on : Links(h, on, q)
  BY DEF Holds
<1> DEFINE i  == q[l][j]
           B  == Bucket(l, i)
           O  == Order(l)
           N  == ListNode(l, i)
           w  == Without(q[l], j)
           v  == Append(w, i)
           p  == [q EXCEPT ![l] = v]
           x  == Without(on[O], j)
           y  == Append(x, N)
<1>1. /\ on \in [Roots -> Seq(Nodes)] /\ \A r \in Roots : on[r] \in Seq(Nodes)
      /\ q \in [Lists -> Seq(Slots)] /\ \A m \in Lists : q[m] \in Seq(Slots) /\ Filed(on, m, q[m])
      /\ Linked(h, on) /\ Null \notin Nodes /\ Simple(q[l]) /\ Len(q[l]) \in Nat
  BY <1>0, LinkedLists, NodesFinite DEF Links
<1>2. Len(on[O]) = Len(q[l]) /\ on[O][j] = N /\ i \in Slots
  BY <1>0, InBucket
<1>3. O \in Roots /\ B \in Roots /\ O # B /\ N \in Nodes
  BY <1>2, Layout
<1>4. Simple(on[O])
  <2> HIDE DEF O
  <2> QED BY <1>1, <1>3 DEF Linked, Represents, Simple
<1>5. /\ w \in Seq(Slots) /\ Len(w) = Len(q[l]) - 1 /\ Range(w) = Range(q[l]) \ {i}
      /\ \A n \in 1 .. Len(q[l]) - 1 : w[n] = IF n < j THEN q[l][n] ELSE q[l][n + 1]
  <2> DEFINE s == q[l]
  <2>1. s \in Seq(Slots) /\ Simple(s) /\ j \in 1 .. Len(s)
    BY <1>1
  <2> HIDE DEF s
  <2>2. /\ Without(s, j) \in Seq(Slots) /\ Len(Without(s, j)) = Len(s) - 1
        /\ Range(Without(s, j)) = Range(s) \ {s[j]}
        /\ \A n \in 1 .. Len(s) - 1 : Without(s, j)[n] = IF n < j THEN s[n] ELSE s[n + 1]
    BY <2>1, RangeWithout
  <2> QED BY <2>2 DEF s
<1>6. /\ x \in Seq(Nodes) /\ Len(x) = Len(on[O]) - 1 /\ Range(x) = Range(on[O]) \ {N}
      /\ \A n \in 1 .. Len(on[O]) - 1 : x[n] = IF n < j THEN on[O][n] ELSE on[O][n + 1]
  <2> DEFINE s == on[O]
  <2>1. s \in Seq(Nodes) /\ Simple(s) /\ j \in 1 .. Len(s)
    BY <1>1, <1>2, <1>3, <1>4
  <2> HIDE DEF s
  <2>2. /\ Without(s, j) \in Seq(Nodes) /\ Len(Without(s, j)) = Len(s) - 1
        /\ Range(Without(s, j)) = Range(s) \ {s[j]}
        /\ \A n \in 1 .. Len(s) - 1 : Without(s, j)[n] = IF n < j THEN s[n] ELSE s[n + 1]
    BY <2>1, RangeWithout
  <2>3. s[j] = N
    BY <1>2 DEF s
  <2> HIDE DEF N
  <2> QED BY <2>2, <2>3 DEF s
<1>e. \A n \in 1 .. Len(q[l]) - 1 : w[n] \in Slots /\ x[n] = ListNode(l, w[n])
  <2> TAKE n \in 1 .. Len(q[l]) - 1
  <2>1. n \in 1 .. Len(q[l]) /\ n + 1 \in 1 .. Len(q[l]) /\ n \in 1 .. Len(w)
    BY <1>1, <1>5
  <2>2. w[n] \in Slots
    BY <2>1, <1>5, ElementOfSeq
  <2>3. on[O][n] = ListNode(l, q[l][n]) /\ on[O][n + 1] = ListNode(l, q[l][n + 1])
    BY <2>1, <1>1 DEF Filed
  <2> HIDE DEF O, w, x
  <2> QED BY <2>2, <2>3, <1>2, <1>5, <1>6
<1> HIDE DEF w, x
<1>7. /\ v \in Seq(Slots) /\ Len(v) = Len(w) + 1 /\ Range(v) = Range(w) \cup {i}
      /\ v[Len(w) + 1] = i /\ \A n \in 1 .. Len(w) : v[n] = w[n]
  BY <1>2, <1>5, RangeAppend
<1>8. /\ y \in Seq(Nodes) /\ Len(y) = Len(x) + 1
      /\ y[Len(x) + 1] = N /\ \A n \in 1 .. Len(x) : y[n] = x[n]
  <2> HIDE DEF N
  <2> QED BY <1>3, <1>6, RangeAppend
<1> HIDE DEF v, y
<1>9. i \in Range(q[l])
  BY <1>1, RangeIs
<1>10. Range(v) = Range(q[l])
  BY <1>5, <1>7, <1>9
<1> DEFINE h1 == SeListRemove(h, O, N)
           o1 == [on EXCEPT ![O] = Without(@, j)]
           h2 == SeListTailAdd(h1, O, N)
           o2 == [o1 EXCEPT ![O] = Append(@, N)]
<1>11. Linked(h1, o1)
  <2> HIDE DEF O, N
  <2> QED BY <1>1, <1>2, <1>3, RemoveLinked
<1>12. o1 \in [Roots -> Seq(Nodes)] /\ o1[O] = x /\ \A r \in Roots : r # O => o1[r] = on[r]
  <2>1. o1 \in [Roots -> Seq(Nodes)]
    BY <1>11 DEF Linked
  <2> HIDE DEF O
  <2> QED BY <2>1, <1>1, <1>3 DEF x
<1> HIDE DEF h1, o1
<1>13. \A r \in Roots : N \notin Range(o1[r])
  <2> TAKE r \in Roots
  <2>1. CASE r = O
    BY <2>1, <1>6, <1>12
  <2>2. CASE r # O
    <3> DEFINE s == on[O]
    <3>1. s \in Seq(Nodes) /\ j \in 1 .. Len(s) /\ s[j] = N
      BY <1>1, <1>2, <1>3
    <3> HIDE DEF s
    <3>2. s[j] \in Range(s)
      BY <3>1, RangeIs
    <3>3. Range(on[O]) \cap Range(on[r]) = {}
      <4> HIDE DEF O
      <4> QED BY <2>2, <1>1, <1>3 DEF Linked
    <3>4. o1[r] = on[r]
      BY <2>2, <1>12
    <3> HIDE DEF N, O
    <3> QED BY <3>1, <3>2, <3>3, <3>4 DEF s
  <2> QED BY <2>1, <2>2
<1>14. Linked(h2, o2)
  <2> HIDE DEF O, N
  <2> QED BY <1>1, <1>3, <1>11, <1>13, AddLinked
<1>15. o2[O] = y /\ \A r \in Roots : r # O => o2[r] = on[r]
  <2> HIDE DEF O, N
  <2> QED BY <1>3, <1>12 DEF y
<1> HIDE DEF h2, o2
<1>16. Filed(o2, l, v)
  <2>1. Len(o2[O]) = Len(v)
    BY <1>2, <1>5, <1>6, <1>7, <1>8, <1>15
  <2>2. ASSUME NEW n \in 1 .. Len(v) PROVE o2[O][n] = ListNode(l, v[n])
    <3>0. Len(x) = Len(w) /\ Len(w) \in Nat
      BY <1>2, <1>5, <1>6, <1>1
    <3>1. CASE n = Len(w) + 1
      BY <3>0, <3>1, <1>7, <1>8, <1>15
    <3>2. CASE n \in 1 .. Len(w)
      <4>1. x[n] = ListNode(l, w[n])
        BY <3>2, <1>e, <1>5
      <4> HIDE DEF O, N
      <4> QED BY <4>1, <3>0, <3>2, <1>7, <1>8, <1>15
    <3> QED BY <3>0, <3>1, <3>2, <1>7
  <2>3. \A b \in 0 .. max - 1 : o2[<<l, b>>] = on[<<l, b>>]
    <3> TAKE b \in 0 .. max - 1
    <3>1. <<l, b>> \in Roots /\ <<l, b>> # O
      BY HashAssumption DEF Roots, Order
    <3> QED BY <3>1, <1>15
  <2>4. \A n : n \in Range(o2[B]) <=> IF n = MainNode(l, i) THEN i \in Range(v) ELSE n \in Range(on[B])
    <3>1. o2[B] = on[B]
      BY <1>3, <1>15
    <3>2. Filed(on, l, q[l])
      BY <1>1
    <3>3. i \in Range(q[l]) <=> MainNode(l, i) \in Range(on[B])
      BY <3>2, <1>2 DEF Filed
    <3> HIDE DEF i, B
    <3> QED BY <3>1, <3>3, <1>10
  <2>7. /\ l \in Lists /\ i \in Slots /\ Filed(on, l, q[l]) /\ v \in Seq(Slots)
        /\ Len(o2[Order(l)]) = Len(v)
        /\ \A n \in 1 .. Len(v) : o2[Order(l)][n] = ListNode(l, v[n])
        /\ \A b \in 0 .. max - 1 : b # (i % max) => o2[<<l, b>>] = on[<<l, b>>]
        /\ \A n : n \in Range(o2[Bucket(l, i)]) <=>
                  IF n = MainNode(l, i) THEN i \in Range(v) ELSE n \in Range(on[Bucket(l, i)])
        /\ \A m \in Slots : m # i => (m \in Range(v) <=> m \in Range(q[l]))
    BY <2>1, <2>2, <2>3, <2>4, <1>1, <1>2, <1>7, <1>10
  <2> HIDE DEF i
  <2> QED BY ONLY <2>7, Refiled
<1>17. ASSUME NEW m \in Lists, m # l PROVE Filed(o2, m, p[m])
  <2>1. p[m] = q[m] /\ Filed(on, m, q[m])
    BY <1>1, <1>17
  <2>2. \A b \in -1 .. max - 1 : o2[<<m, b>>] = on[<<m, b>>]
    <3> TAKE b \in -1 .. max - 1
    <3>1. <<m, b>> \in Roots /\ <<m, b>> # O
      BY <1>17 DEF Roots, Order
    <3> QED BY <3>1, <1>15
  <2> QED BY <2>1, <2>2, SameFiles
<1>18. p \in [Lists -> Seq(Slots)] /\ p[l] = v
  BY <1>1, <1>7
<1>19. Links(h2, o2, p)
  BY <1>14, <1>16, <1>17, <1>18 DEF Links
<1>20. HashMoveToEnd(h, l, i) = h2
  BY DEF HashMoveToEnd, h1, h2
<1>21. Holds(HashMoveToEnd(h, l, i), p)
  BY <1>19, <1>20 DEF Holds
<1> QED BY <1>21 DEF v, w

-----------------------------------------------------------------------------
(* The sequences of SocketMgr.                                             *)

LEMMA TailIs ==
  ASSUME NEW S, NEW s \in Seq(S), Simple(s), s # <<>>
  PROVE  Without(s, 1) = Tail(s)
<1>1. /\ Tail(s) \in Seq(S) /\ Len(Tail(s)) = Len(s) - 1
      /\ \A k \in 1 .. Len(Tail(s)) : Tail(s)[k] = s[k + 1]
  BY HeadTailProperties
<1>2. 1 \in 1 .. Len(s) /\ Len(s) \in Nat
  BY LenZero, LenProperties
<1> DEFINE t == Tail(s)
           w == Without(s, 1)
<1>3. /\ w \in Seq(S) /\ Len(w) = Len(s) - 1
      /\ \A k \in 1 .. Len(s) - 1 : w[k] = IF k < 1 THEN s[k] ELSE s[k + 1]
  BY <1>2, RangeWithout
<1>4. t \in Seq(S) /\ Len(t) = Len(w) /\ \A k \in 1 .. Len(w) : t[k] = w[k]
  <2> HIDE DEF w
  <2> QED BY <1>1, <1>2, <1>3
<1> HIDE DEF t, w
<1>5. w = t
  BY <1>3, <1>4, SeqEqual
<1> QED BY <1>5 DEF w, t

LEMMA UnlinkIs ==
  ASSUME NEW s \in Seq(Slots), Simple(s)
  PROVE  /\ \A j \in 1 .. Len(s) : Mgr!Unlink(s, s[j]) = Without(s, j)
         /\ \A i : i \notin Range(s) => Mgr!Unlink(s, i) = s
<1>0. /\ Len(s) \in Nat /\ DOMAIN s = 1 .. Len(s) /\ \A k \in 1 .. Len(s) : s[k] \in Slots
  BY LenProperties, ElementOfSeq
<1>1. ASSUME NEW j \in 1 .. Len(s) PROVE Mgr!Unlink(s, s[j]) = Without(s, j)
  <2> DEFINE a == SubSeq(s, 1, j - 1)
             b == SubSeq(s, j + 1, Len(s))
             m == a \o b
             w == Without(s, j)
  <2>1. /\ a \in Seq(Slots) /\ Len(a) = j - 1
        /\ \A n \in 1 .. j - 1 : a[n] = s[n]
    BY <1>0, SubSeqProperties
  <2>2. /\ b \in Seq(Slots) /\ Len(b) = Len(s) - j
        /\ \A n \in 1 .. Len(s) - j : b[n] = s[n + j]
    <3>1. j + 1 \in Int /\ Len(s) \in Int /\ \A n \in j + 1 .. Len(s) : s[n] \in Slots
      BY <1>0
    <3>2. /\ b \in Seq(Slots)
          /\ Len(b) = IF j + 1 <= Len(s) THEN Len(s) - (j + 1) + 1 ELSE 0
          /\ \A n \in 1 .. Len(s) - (j + 1) + 1 : b[n] = s[j + 1 + n - 1]
      BY <3>1, SubSeqProperties
    <3> HIDE DEF b
    <3>3. Len(b) = Len(s) - j
      <4>1. Len(b) = IF j + 1 <= Len(s) THEN Len(s) - (j + 1) + 1 ELSE 0
        BY <3>2
      <4>2. j \in Int /\ Len(s) \in Int /\ j <= Len(s)
        BY <1>0
      <4> QED BY <4>1, <4>2
    <3>4. ASSUME NEW n \in 1 .. Len(s) - j PROVE b[n] = s[n + j]
      <4>1. n \in 1 .. Len(s) - (j + 1) + 1 /\ j + 1 + n - 1 = n + j
        BY <1>0
      <4> QED BY <4>1, <3>2
    <3> QED BY <3>2, <3>3, <3>4
  <2> HIDE DEF a, b
  <2>3. /\ m \in Seq(Slots) /\ Len(m) = Len(a) + Len(b)
        /\ \A n \in 1 .. Len(a) + Len(b) : m[n] = IF n <= Len(a) THEN a[n] ELSE b[n - Len(a)]
    BY <2>1, <2>2, ConcatProperties
  <2> HIDE DEF m
  <2>4. Len(m) = Len(s) - 1 /\ Len(a) + Len(b) = Len(s) - 1
    BY <1>0, <2>1, <2>2, <2>3
  <2>5. /\ w \in Seq(Slots) /\ Len(w) = Len(s) - 1
        /\ \A n \in 1 .. Len(s) - 1 : w[n] = IF n < j THEN s[n] ELSE s[n + 1]
    BY RangeWithout
  <2> HIDE DEF w
  <2>6. ASSUME NEW n \in 1 .. Len(s) - 1 PROVE m[n] = w[n]
    <3>1. CASE n < j
      <4>1. n <= Len(a) /\ n \in 1 .. j - 1 /\ n \in 1 .. Len(a) + Len(b)
        BY <3>1, <1>0, <2>1, <2>4
      <4> QED BY <4>1, <3>1, <2>1, <2>3, <2>5
    <3>2. CASE ~(n < j)
      <4>1. /\ ~(n <= Len(a)) /\ n \in 1 .. Len(a) + Len(b) /\ n - Len(a) \in 1 .. Len(s) - j
            /\ (n - Len(a)) + j = n + 1
        BY <3>2, <1>0, <2>1, <2>4
      <4>2. m[n] = b[n - Len(a)] /\ b[n - Len(a)] = s[(n - Len(a)) + j]
        BY <4>1, <2>2, <2>3
      <4> QED BY <4>1, <4>2, <3>2, <2>5
    <3> QED BY <3>1, <3>2
  <2>7. m = w
    BY <2>3, <2>4, <2>5, <2>6, SeqEqual
  <2>8. Mgr!Unlink(s, s[j]) = m
    <3>1. s[j] \in Mgr!Members(s)
      BY RangeIs DEF Mgr!Members, Mgr!Range, Range
    <3>2. (CHOOSE k \in DOMAIN s : s[k] = s[j]) = j
      <4>1. \A k \in DOMAIN s : s[k] = s[j] <=> k = j
        BY <1>0 DEF Simple
      <4>2. j \in DOMAIN s
        BY <1>0
      <4> QED BY <4>1, <4>2
    <3>3. Mgr!RemoveAt(s, j) = m
      BY DEF Mgr!RemoveAt, m, a, b
    <3> QED BY <3>1, <3>2, <3>3 DEF Mgr!Unlink
  <2> QED BY <2>7, <2>8 DEF w
<1>2. ASSUME NEW i, i \notin Range(s) PROVE Mgr!Unlink(s, i) = s
  BY <1>2 DEF Mgr!Unlink, Mgr!Members, Mgr!Range, Range
<1> QED BY <1>1, <1>2

(* Off takes slot i off a list if it is there: SocketMgr's Unlink.         *)
LEMMA OffHolds ==
  ASSUME NEW h, NEW q, Holds(h, q), NEW l \in Lists, NEW i \in Slots
  PROVE  /\ Holds(Off(h, l, i), [q EXCEPT ![l] = Mgr!Unlink(@, i)])
         /\ Mgr!Unlink(q[l], i) \in Seq(Slots) /\ i \notin Range(Mgr!Unlink(q[l], i))
<1>1. /\ q \in [Lists -> Seq(Slots)] /\ q[l] \in Seq(Slots) /\ Simple(q[l])
      /\ HashGet(h, l, i) <=> i \in Range(q[l])
  BY LinkedLists, Reads DEF Holds, Links
<1>2. CASE i \in Range(q[l])
  <2> DEFINE s == q[l]
  <2>0. s \in Seq(Slots) /\ Simple(s)
    BY <1>1
  <2>1. PICK j \in 1 .. Len(q[l]) : q[l][j] = i
    BY <1>1, <1>2, RangeIs
  <2>2. Holds(HashRemove(h, l, i), [q EXCEPT ![l] = Without(@, j)])
    BY <2>1, HashRemoveHolds
  <2>3. Mgr!Unlink(q[l], i) = Without(q[l], j)
    BY <1>1, <2>1, UnlinkIs
  <2>4. Off(h, l, i) = HashRemove(h, l, i)
    BY <1>1, <1>2 DEF Off
  <2>5. Without(q[l], j) \in Seq(Slots) /\ i \notin Range(Without(q[l], j))
    <3>1. j \in 1 .. Len(s) /\ s[j] = i
      BY <2>1
    <3> HIDE DEF s
    <3>2. Without(s, j) \in Seq(Slots) /\ i \notin Range(Without(s, j))
      BY <2>0, <3>1, RangeWithout
    <3> QED BY <3>2 DEF s
  <2> QED BY <2>2, <2>3, <2>4, <2>5
<1>3. CASE i \notin Range(q[l])
  <2>1. Mgr!Unlink(q[l], i) = q[l] /\ Off(h, l, i) = h
    BY <1>1, <1>3, UnlinkIs DEF Off
  <2>2. [q EXCEPT ![l] = q[l]] = q
    BY <1>1
  <2> QED BY <1>1, <1>3, <2>1, <2>2
<1> QED BY <1>2, <1>3

-----------------------------------------------------------------------------
(* SeNetSocketMgrInit.                                                     *)

(* The lists when the first n slots have been added.                       *)
FirstSlots(n) == [k \in 1 .. n |-> k - 1]
AddedSlots(n) == [l \in Lists |-> IF l = "kMainList" THEN FirstSlots(n) ELSE <<>>]

LEMMA FirstSlotsAre ==
  ASSUME NEW n \in 0 .. MaxSlots
  PROVE  /\ FirstSlots(n) \in Seq(Slots) /\ Len(FirstSlots(n)) = n
         /\ \A k \in 1 .. n : FirstSlots(n)[k] = k - 1
         /\ \A i \in Range(FirstSlots(n)) : i < n
         /\ AddedSlots(n) \in [Lists -> Seq(Slots)]
<1>1. n \in Nat /\ \A k \in 1 .. n : k - 1 \in Slots
  BY HashAssumption, SlotsAre
<1>2. FirstSlots(n) \in Seq(Slots)
  BY <1>1, IsASeq DEF FirstSlots
<1>3. Len(FirstSlots(n)) = n
  BY <1>1 DEF FirstSlots
<1>4. \A k \in 1 .. n : FirstSlots(n)[k] = k - 1
  BY DEF FirstSlots
<1>5. \A i \in Range(FirstSlots(n)) : i < n
  <2> TAKE i \in Range(FirstSlots(n))
  <2>1. PICK k \in 1 .. n : FirstSlots(n)[k] = i
    BY <1>2, <1>3, RangeIs
  <2> QED BY <2>1, <1>1, <1>4
<1>6. <<>> \in Seq(Slots)
  BY EmptySeq
<1>7. AddedSlots(n) \in [Lists -> Seq(Slots)]
  BY <1>2, <1>6 DEF AddedSlots
<1> QED BY <1>2, <1>3, <1>4, <1>5, <1>7

LEMMA EmptyHolds == Holds(InitHeap(Roots), AddedSlots(0))
<1> DEFINE h  == InitHeap(Roots)
           on == [r \in Roots |-> <<>>]
           q  == AddedSlots(0)
<1>0. /\ <<>> \in Seq(Nodes) /\ Len(<<>>) = 0 /\ 1 .. 0 = {}
      /\ 0 \in 0 .. MaxSlots
  BY EmptySeq, HashAssumption
<1>e. Range(<<>>) = {}
  BY <1>0, RangeIs
<1>1. q \in [Lists -> Seq(Slots)] /\ FirstSlots(0) \in Seq(Slots) /\ Len(FirstSlots(0)) = 0
  BY <1>0, FirstSlotsAre
<1>2. FirstSlots(0) = <<>>
  BY <1>1, LenZero
<1>3. \A l \in Lists : q[l] = <<>>
  BY <1>2 DEF AddedSlots
<1>4. /\ h.head = [r \in Roots |-> Null] /\ h.tail = [r \in Roots |-> Null]
      /\ h.prev = [m \in Nodes |-> Null] /\ h.next = [m \in Nodes |-> Null]
      /\ h \in Heaps(Roots)
  BY DEF InitHeap, Heaps, Pointers
<1>5. on \in [Roots -> Seq(Nodes)] /\ \A r \in Roots : on[r] = <<>>
  BY <1>0
<1> HIDE DEF h, on, q
<1>6. ASSUME NEW r \in Roots PROVE Represents(h, r, on[r])
  <2>1. Represents(h, r, <<>>)
    BY <1>0, <1>4 DEF Represents
  <2> QED BY <2>1, <1>5
<1>7. \A n \in Nodes : Detached(h, n)
  BY <1>4 DEF Detached
<1>8. Linked(h, on)
  BY <1>4, <1>5, <1>6, <1>7, <1>e DEF Linked
<1>9. ASSUME NEW l \in Lists PROVE Filed(on, l, q[l])
  <2>1. q[l] = <<>> /\ q[l] \in Seq(Slots)
    BY <1>1, <1>3 DEF q
  <2>2. on[Order(l)] = <<>>
    BY <1>5, HashAssumption DEF Order, Roots
  <2>3. \A b \in 0 .. max - 1 : on[<<l, b>>] = <<>>
    BY <1>5, HashAssumption DEF Roots
  <2>4. \A i \in Slots : on[Bucket(l, i)] = <<>>
    BY <1>5, Layout
  <2>5. Range(<<>>) = {} /\ Len(<<>>) = 0 /\ 1 .. 0 = {}
    BY <1>0, <1>e
  <2> QED BY <2>1, <2>2, <2>3, <2>4, <2>5, Zenon DEF Filed
<1>10. Links(h, on, q)
  BY <1>1, <1>8, <1>9 DEF Links, q
<1>11. Holds(h, q)
  BY <1>10 DEF Holds
<1> QED BY <1>11 DEF h, q

LEMMA OneMoreSlot ==
  ASSUME NEW n \in Nat, n + 1 <= MaxSlots, NEW h, Holds(h, AddedSlots(n))
  PROVE  Holds(HashAdd(h, "kMainList", n), AddedSlots(n + 1))
<1> DEFINE q == AddedSlots(n)
           p == [q EXCEPT !["kMainList"] = Append(@, n)]
           s == FirstSlots(n)
           t == FirstSlots(n + 1)
           a == Append(s, n)
<1>1. n \in Slots /\ n \in 0 .. MaxSlots /\ n + 1 \in 0 .. MaxSlots /\ "kMainList" \in Lists
  BY HashAssumption, SlotsAre DEF Lists
<1>2. /\ q \in [Lists -> Seq(Slots)] /\ s \in Seq(Slots) /\ Len(s) = n
      /\ \A k \in 1 .. n : s[k] = k - 1
      /\ \A i \in Range(s) : i < n
  BY <1>1, FirstSlotsAre
<1>3. /\ t \in Seq(Slots) /\ Len(t) = n + 1 /\ \A k \in 1 .. n + 1 : t[k] = k - 1
      /\ AddedSlots(n + 1) \in [Lists -> Seq(Slots)]
  BY <1>1, FirstSlotsAre
<1>4. /\ \A l \in Lists : q[l] = IF l = "kMainList" THEN s ELSE <<>>
      /\ \A l \in Lists : AddedSlots(n + 1)[l] = IF l = "kMainList" THEN t ELSE <<>>
  BY DEF AddedSlots
<1> HIDE DEF q, s, t
<1>5. Range(<<>>) = {}
  <2>1. <<>> \in Seq(Slots) /\ Len(<<>>) = 0 /\ 1 .. 0 = {}
    BY EmptySeq
  <2> QED BY <2>1, RangeIs
<1>6. n \notin Range(s)
  BY <1>2
<1>7. Unlisted(q, "kMainList", n)
  BY <1>1, <1>4, <1>5, <1>6 DEF Unlisted
<1>8. Holds(HashAdd(h, "kMainList", n), p)
  BY <1>1, <1>7, HashAddHolds DEF q
<1>9. a \in Seq(Slots) /\ Len(a) = n + 1 /\ a[n + 1] = n /\ \A k \in 1 .. n : a[k] = s[k]
  <2>1. /\ Append(s, n) \in Seq(Slots) /\ Len(Append(s, n)) = Len(s) + 1
        /\ \A k \in 1 .. Len(s) : Append(s, n)[k] = s[k]
        /\ Append(s, n)[Len(s) + 1] = n
    BY <1>1, <1>2, RangeAppend
  <2> HIDE DEF a
  <2> QED BY <1>2, <2>1 DEF a
<1> HIDE DEF a
<1>10. ASSUME NEW k \in 1 .. n + 1 PROVE a[k] = t[k]
  <2>1. k = n + 1 \/ k \in 1 .. n
    OBVIOUS
  <2>2. CASE k = n + 1
    <3>1. t[n + 1] = (n + 1) - 1 /\ (n + 1) - 1 = n
      BY <1>3
    <3> QED BY <2>2, <3>1, <1>9
  <2> QED BY <2>1, <2>2, <1>2, <1>3, <1>9
<1>11. a = t
  BY <1>3, <1>9, <1>10, SeqEqual
<1>12. p = AddedSlots(n + 1)
  <2>1. \A l \in Lists : p[l] = AddedSlots(n + 1)[l]
    BY <1>1, <1>2, <1>4, <1>11 DEF a
  <2>2. p = [l \in Lists |-> p[l]] /\ AddedSlots(n + 1) = [l \in Lists |-> AddedSlots(n + 1)[l]]
    BY <1>2, <1>3
  <2> HIDE DEF p
  <2> QED BY <2>1, <2>2
<1> QED BY <1>8, <1>12

LEMMA InitialHolds == Holds(InitialHeap, AddedSlots(MaxSlots))
<1> DEFINE D      == 0 .. MaxSlots
           st(g, n) == IF n = 0 THEN InitHeap(Roots) ELSE HashAdd(g[n - 1], "kMainList", n - 1)
           P(g)   == g = [n \in D |-> st(g, n)]
           Sol(g, m) == \A n \in 0 .. m : g[n] = st(g, n)
           T      == {m \in Nat : \E g : Sol(g, m)}
<1>0. MaxSlots \in Nat
  BY HashAssumption
<1>1. 0 \in T
  <2> DEFINE g == [n \in {0} |-> InitHeap(Roots)]
  <2>1. Sol(g, 0)
    OBVIOUS
  <2> HIDE DEF Sol, g
  <2> QED BY <2>1
<1>2. ASSUME NEW m \in Nat, m \in T PROVE m + 1 \in T
  <2>1. PICK f : Sol(f, m)
    BY <1>2
  <2> DEFINE g == [n \in 0 .. m + 1 |-> st(f, n)]
  <2>2. \A n \in 0 .. m : g[n] = f[n]
    BY <2>1
  <2>3. ASSUME NEW n \in 0 .. m + 1 PROVE g[n] = st(g, n)
    <3>1. n # 0 => n - 1 \in 0 .. m
      OBVIOUS
    <3>2. g[n] = st(f, n)
      OBVIOUS
    <3>3. n # 0 => g[n - 1] = f[n - 1]
      BY <3>1, <2>2
    <3> HIDE DEF g
    <3> QED BY <3>2, <3>3
  <2>4. Sol(g, m + 1)
    BY <2>3
  <2> HIDE DEF Sol, g
  <2> QED BY <2>4
<1>3. PICK f : Sol(f, MaxSlots)
  <2>1. Nat \subseteq T
    <3> HIDE DEF T
    <3> QED BY <1>1, <1>2, Numbers
  <2> HIDE DEF Sol
  <2> QED BY <2>1, <1>0
<1> DEFINE F == [n \in D |-> f[n]]
<1>4. P(F)
  <2>1. \A n \in D : F[n] = st(F, n)
    <3> TAKE n \in D
    <3>1. f[n] = st(f, n) /\ F[n] = f[n]
      BY <1>3
    <3>2. n # 0 => n - 1 \in D
      BY <1>0
    <3>3. n # 0 => F[n - 1] = f[n - 1]
      BY <3>2
    <3> HIDE DEF F, D
    <3> QED BY <3>1, <3>3
  <2>2. F = [n \in D |-> F[n]]
    OBVIOUS
  <2> HIDE DEF F, D
  <2>3. [n \in D |-> F[n]] = [n \in D |-> st(F, n)]
    BY <2>1
  <2> QED BY <2>2, <2>3
<1> DEFINE G == CHOOSE g : P(g)
<1>5. P(G)
  <2> HIDE DEF P
  <2> QED BY <1>4
<1>6. InitialHeap = G[MaxSlots]
  BY DEF InitialHeap
<1> HIDE DEF G
<1>7. \A n \in D : G[n] = st(G, n)
  <2> DEFINE W == [n \in D |-> st(G, n)]
  <2>1. \A n \in D : W[n] = st(G, n)
    OBVIOUS
  <2>2. G = W
    BY <1>5
  <2> HIDE DEF W, st
  <2> QED BY <2>1, <2>2
<1> DEFINE E == {n \in Nat : n <= MaxSlots => Holds(G[n], AddedSlots(n))}
<1>8. 0 \in E
  <2>1. G[0] = InitHeap(Roots)
    BY <1>0, <1>7
  <2> QED BY <2>1, EmptyHolds
<1>9. ASSUME NEW n \in Nat, n \in E PROVE n + 1 \in E
  <2> SUFFICES ASSUME n + 1 <= MaxSlots PROVE Holds(G[n + 1], AddedSlots(n + 1))
    OBVIOUS
  <2>1. n + 1 \in D /\ n + 1 # 0 /\ (n + 1) - 1 = n /\ n <= MaxSlots
    BY <1>0
  <2>2. G[n + 1] = HashAdd(G[n], "kMainList", n)
    <3>1. G[n + 1] = HashAdd(G[(n + 1) - 1], "kMainList", (n + 1) - 1)
      BY <2>1, <1>7
    <3> QED BY <3>1, <2>1
  <2>3. Holds(G[n], AddedSlots(n))
    BY <1>9, <2>1
  <2> QED BY <2>2, <2>3, OneMoreSlot
<1>10. MaxSlots \in E
  <2> HIDE DEF E
  <2> QED BY <1>0, <1>8, <1>9, Numbers
<1> QED BY <1>0, <1>6, <1>10

-----------------------------------------------------------------------------
(* The functions of SeNetSocket.c.                                         *)

(* What every state of Spec is: the heap holds some contents of the four   *)
(* hash lists.                                                             *)
IInv ==
  /\ sock \in [Slots -> Mgr!SlotRecord]
  /\ \E q \in [Lists -> Seq(Slots)] : Holds(heap, q)

LEMMA Names ==
  /\ {"kMainList", "kActiveMainList", "kSendList", "kRecvList"} = Lists
  /\ NodeFor("kMainList") = NodeFor("kActiveMainList")
  /\ \A l \in {"kSendList", "kRecvList"}, m \in Lists : NodeFor(l) = NodeFor(m) => l = m
  /\ \A m \in Lists : NodeFor(m) = NodeFor("kMainList") => m \in {"kMainList", "kActiveMainList"}
BY DEF Lists, NodeFor

(* The records of a slot that is taken, and of one that is freed.          *)
LEMMA Records ==
  ASSUME sock \in [Slots -> Mgr!SlotRecord], NEW i \in Slots
  PROVE  /\ \A type \in {"LISTEN", "CLIENT", "ACCEPT"} :
              /\ Mgr!NewSlot(i, 1, type, 0) \in Mgr!SlotRecord
              /\ Mgr!NewSlot(i, 1, type, 0).iTypeSocket = type
         /\ Mgr!MgrEnd(Mgr!Reset(sock[i])) \in Mgr!SlotRecord
<1>1. sock[i] \in Mgr!SlotRecord
  OBVIOUS
<1>2. /\ Mgr!Reset(sock[i]) \in Mgr!SlotRecord
      /\ Mgr!MgrEnd(Mgr!Reset(sock[i])) \in Mgr!SlotRecord
  BY <1>1 DEF Mgr!SlotRecord, Mgr!MgrEnd, Mgr!Reset, Mgr!Statuses, Mgr!Types, Mgr!Handles, Mgr!EventBits
<1> DEFINE r == Mgr!Reset(sock[i])
<1>3. ASSUME NEW type \in {"LISTEN", "CLIENT", "ACCEPT"}
      PROVE  /\ Mgr!NewSlot(i, 1, type, 0) \in Mgr!SlotRecord
             /\ Mgr!NewSlot(i, 1, type, 0).iTypeSocket = type
  <2>1. Mgr!Handle(i, 0) \in Mgr!Handles /\ 1 \in Mgr!Fds \cup {Mgr!NoFd} /\ type \in Mgr!Types /\ 0 \in Nat
    BY HashAssumption DEF Mgr!Handle, Mgr!Handles, Mgr!Fds, Mgr!Types, Slots
  <2>2. Mgr!NewSlot(i, 1, type, 0) =
          [r EXCEPT !.kSocket = 1, !.kHSocket = Mgr!Handle(i, 0), !.iTypeSocket = type, !.llTime = 0]
    BY DEF Mgr!NewSlot
  <2> HIDE DEF r
  <2>3. r \in Mgr!SlotRecord
    BY <1>2 DEF r
  <2> QED BY <2>1, <2>2, <2>3 DEF Mgr!SlotRecord
<1> QED BY <1>2, <1>3

(* SeNetSocketMgrAdd.                                                      *)
LEMMA AddStep ==
  ASSUME IInv, NEW type \in {"LISTEN", "CLIENT", "ACCEPT"}, MgrAdd(type)
  PROVE  IInv' /\ MgrStep
<1>1. PICK q \in [Lists -> Seq(Slots)] : Holds(heap, q)
  BY DEF IInv
<1> DEFINE A  == "kMainList"
           C  == "kActiveMainList"
           i  == q[A][1]
           q1 == [q EXCEPT ![A] = Without(@, 1)]
           q2 == [q1 EXCEPT ![C] = Append(@, i)]
           s  == q[A]
<1>2. A \in Lists /\ C \in Lists /\ A # C
  BY Names
<1>3. q[A] # <<>>
  BY <1>1, <1>2, Reads DEF MgrAdd
<1>4. HashGetHead(heap, A) = i /\ 1 \in 1 .. Len(s)
  BY <1>1, <1>2, <1>3, Reads
<1>5. s \in Seq(Slots) /\ Simple(s) /\ i \in Slots /\ i \in Range(s) /\ s # <<>>
  BY <1>1, <1>2, <1>3, <1>4, LinkedLists, RangeIs DEF Holds
<1>6. Holds(HashPop(heap, A), q1)
  BY <1>1, <1>2, <1>3, HashPopHolds
<1> HIDE DEF s
<1>7. Without(s, 1) = Tail(s) /\ Without(s, 1) \in Seq(Slots) /\ i \notin Range(Without(s, 1)) /\ Head(s) = i
  <2>1. s[1] = i
    BY DEF s
  <2> HIDE DEF i
  <2> QED BY <2>1, <1>4, <1>5, TailIs, RangeWithout
<1>8. q1[A] = Without(s, 1) /\ q1 \in [Lists -> Seq(Slots)] /\ \A l \in Lists : l # A => q1[l] = q[l]
  BY <1>2, <1>7 DEF s
<1>9. i \notin Range(q[C])
  <2>1. Range(q[A]) \cap Range(q[C]) = {}
    BY <1>1, <1>2, Names, Apart
  <2> QED BY <2>1, <1>5 DEF s
<1>10. Unlisted(q1, C, i)
  BY <1>2, <1>7, <1>8, <1>9, Names DEF Unlisted
<1>11. Holds(HashAdd(HashPop(heap, A), C, i), q2)
  BY <1>2, <1>5, <1>6, <1>10, HashAddHolds
<1> HIDE DEF q1
<1>12. /\ q2[C] = Append(q[C], i) /\ q2 \in [Lists -> Seq(Slots)] /\ \A l \in Lists : l # C => q2[l] = q1[l]
  <2>1. Append(q[C], i) \in Seq(Slots)
    BY <1>2, <1>5, RangeAppend
  <2> QED BY <2>1, <1>2, <1>8
<1> HIDE DEF q2
<1>13. /\ sock' = [sock EXCEPT ![i] = Mgr!NewSlot(i, 1, type, 0)]
       /\ heap' = IF type = "LISTEN" THEN HashPop(heap, A) ELSE HashAdd(HashPop(heap, A), C, i)
  BY <1>4 DEF MgrAdd
<1> DEFINE p == IF type = "LISTEN" THEN q1 ELSE q2
<1>14. Holds(heap', p) /\ p \in [Lists -> Seq(Slots)]
  BY <1>6, <1>8, <1>11, <1>12, <1>13
<1>15. /\ p[A] = Tail(s) /\ p[C] = IF type = "LISTEN" THEN q[C] ELSE Append(q[C], i)
       /\ \A l \in Lists : l # A /\ l # C => p[l] = q[l]
  BY <1>2, <1>7, <1>8, <1>12
<1> HIDE DEF p
<1>16. \A l \in Lists : Contents(heap, l) = q[l] /\ Contents(heap', l) = p[l]
  BY <1>1, <1>14, Reads
<1>17. \A l \in Lists : SlotsOf(l) = q[l] /\ SlotsOf(l)' = p[l]
  BY <1>16 DEF SlotsOf, Contents
<1>18. /\ Mgr!NewSlot(i, 1, type, 0) \in Mgr!SlotRecord
       /\ Mgr!NewSlot(i, 1, type, 0).iTypeSocket = type
       /\ sock \in [Slots -> Mgr!SlotRecord]
  <2> HIDE DEF i
  <2> QED BY <1>5, Records DEF IInv
<1>19. IInv'
  <2>1. sock' \in [Slots -> Mgr!SlotRecord]
    <3> HIDE DEF i
    <3> QED BY <1>13, <1>18
  <2> QED BY <2>1, <1>14 DEF IInv
<1>20. Mgr!MgrAdd(i, Mgr!NewSlot(i, 1, type, 0))
  <2> DEFINE n == Mgr!NewSlot(i, 1, type, 0)
  <2>1. Mgr!IsConnection(n) <=> type # "LISTEN"
    BY <1>18 DEF Mgr!IsConnection
  <2>2. SlotsOf(A) = s /\ SlotsOf(A)' = Tail(s) /\ SlotsOf(C) = q[C]
        /\ SlotsOf(C)' = IF type = "LISTEN" THEN q[C] ELSE Append(q[C], i)
    BY <1>2, <1>15, <1>17 DEF s
  <2>3. ~Mgr!MgrFull /\ i = Mgr!FreeSlot
    BY <2>2, <1>5, <1>7 DEF Mgr!MgrFull, Mgr!FreeSlot
  <2>4. sock' = [sock EXCEPT ![i] = n]
    BY <1>13
  <2>5. SlotsOf(A)' = Tail(SlotsOf(A))
    BY <2>2
  <2>6. SlotsOf(C)' = IF Mgr!IsConnection(n) THEN Append(SlotsOf(C), i) ELSE SlotsOf(C)
    <3> HIDE DEF n, i
    <3> QED BY <2>1, <2>2
  <2>7. Mgr!MgrAdd(i, n)
    <3> HIDE DEF n, i
    <3> QED BY <2>3, <2>4, <2>5, <2>6 DEF Mgr!MgrAdd
  <2> QED BY <2>7
<1>21. RestUnchanged({A, C})
  BY <1>15, <1>17 DEF RestUnchanged
<1>22. MgrStep
  <2> HIDE DEF i
  <2> QED BY <1>5, <1>20, <1>21 DEF MgrStep
<1> QED BY <1>19, <1>22

(* SeNetSocketMgrDel.                                                      *)
LEMMA DelStep ==
  ASSUME IInv, NEW i \in Slots, MgrDel(i)
  PROVE  IInv' /\ MgrStep
<1>1. PICK q \in [Lists -> Seq(Slots)] : Holds(heap, q)
  BY DEF IInv
<1> DEFINE A  == "kMainList"
           C  == "kActiveMainList"
           S  == "kSendList"
           R  == "kRecvList"
           h1 == Off(heap, S, i)
           h2 == Off(h1, R, i)
           h3 == Off(h2, C, i)
           h4 == HashAdd(h3, A, i)
           q1 == [q EXCEPT ![S] = Mgr!Unlink(@, i)]
           q2 == [q1 EXCEPT ![R] = Mgr!Unlink(@, i)]
           q3 == [q2 EXCEPT ![C] = Mgr!Unlink(@, i)]
           q4 == [q3 EXCEPT ![A] = Append(@, i)]
<1>2. /\ A \in Lists /\ C \in Lists /\ S \in Lists /\ R \in Lists
      /\ \A l \in Lists : l \in {A, C, S, R}
  BY Names
<1>3. heap' = h4 /\ sock' = [sock EXCEPT ![i] = Mgr!MgrEnd(Mgr!Reset(@))]
  BY DEF MgrDel, OffBoth
<1>4. i \notin Range(q[A])
  BY <1>1, <1>2, Reads DEF MgrDel, MgrGet
<1>5. /\ Holds(h1, q1) /\ Mgr!Unlink(q[S], i) \in Seq(Slots)
  BY <1>1, <1>2, OffHolds
<1>6. /\ q1 \in [Lists -> Seq(Slots)] /\ q1[S] = Mgr!Unlink(q[S], i)
      /\ \A l \in Lists : l # S => q1[l] = q[l]
  BY <1>2, <1>5
<1> HIDE DEF h1, q1
<1>7. /\ Holds(h2, q2) /\ Mgr!Unlink(q1[R], i) \in Seq(Slots)
  BY <1>2, <1>5, OffHolds
<1>8. /\ q2 \in [Lists -> Seq(Slots)] /\ q2[R] = Mgr!Unlink(q1[R], i)
      /\ \A l \in Lists : l # R => q2[l] = q1[l]
  BY <1>2, <1>6, <1>7
<1> HIDE DEF h2, q2
<1>9. /\ Holds(h3, q3) /\ Mgr!Unlink(q2[C], i) \in Seq(Slots) /\ i \notin Range(Mgr!Unlink(q2[C], i))
  BY <1>2, <1>7, OffHolds
<1>10. /\ q3 \in [Lists -> Seq(Slots)] /\ q3[C] = Mgr!Unlink(q2[C], i)
       /\ \A l \in Lists : l # C => q3[l] = q2[l]
  BY <1>2, <1>8, <1>9
<1> HIDE DEF h3, q3
<1>11. q3[A] = q[A] /\ q3[C] = Mgr!Unlink(q[C], i)
  BY <1>2, <1>6, <1>8, <1>10
<1>12. Unlisted(q3, A, i)
  <2>1. i \notin Range(q3[A]) /\ i \notin Range(q3[C])
    BY <1>4, <1>9, <1>10, <1>11
  <2> QED BY <2>1, Names DEF Unlisted
<1>13. Holds(h4, q4)
  BY <1>2, <1>9, <1>12, HashAddHolds
<1>14. q4 \in [Lists -> Seq(Slots)] /\ q4[A] = Append(q3[A], i) /\ \A l \in Lists : l # A => q4[l] = q3[l]
  <2>1. Append(q3[A], i) \in Seq(Slots)
    BY <1>2, <1>10, RangeAppend
  <2> QED BY <2>1, <1>2, <1>10
<1> HIDE DEF h4, q4
<1>15. /\ q4[A] = Append(q[A], i) /\ q4[C] = Mgr!Unlink(q[C], i)
       /\ q4[S] = Mgr!Unlink(q[S], i) /\ q4[R] = Mgr!Unlink(q[R], i)
  BY <1>2, <1>6, <1>8, <1>10, <1>11, <1>14
<1>16. \A l \in Lists : Contents(heap, l) = q[l] /\ Contents(heap', l) = q4[l]
  BY <1>1, <1>3, <1>13, Reads
<1>17. \A l \in Lists : SlotsOf(l) = q[l] /\ SlotsOf(l)' = q4[l]
  BY <1>16 DEF SlotsOf, Contents
<1>18. IInv'
  <2>1. Mgr!MgrEnd(Mgr!Reset(sock[i])) \in Mgr!SlotRecord /\ sock \in [Slots -> Mgr!SlotRecord]
    BY Records DEF IInv
  <2>2. sock' \in [Slots -> Mgr!SlotRecord]
    BY <2>1, <1>3
  <2> QED BY <2>2, <1>3, <1>13, <1>14 DEF IInv
<1>19. Mgr!MgrDel(i)
  <2>1. /\ SlotsOf(A)' = Append(SlotsOf(A), i)
        /\ SlotsOf(C)' = Mgr!Unlink(SlotsOf(C), i)
        /\ SlotsOf(S)' = Mgr!Unlink(SlotsOf(S), i)
        /\ SlotsOf(R)' = Mgr!Unlink(SlotsOf(R), i)
    BY <1>2, <1>15, <1>17
  <2> QED BY <2>1, <1>3 DEF Mgr!MgrDel
<1> QED BY <1>18, <1>19 DEF MgrStep

(* SeNetSocketMgrAddSendOrRecvInList.                                      *)
LEMMA InListStep ==
  ASSUME IInv, NEW i \in Slots, NEW l \in {"kSendList", "kRecvList"}, AddInList(l, i)
  PROVE  IInv' /\ MgrStep
<1>1. PICK q \in [Lists -> Seq(Slots)] : Holds(heap, q)
  BY DEF IInv
<1> DEFINE p == [q EXCEPT ![l] = Mgr!AddInList(@, i)]
<1>2. l \in Lists /\ l # "kMainList" /\ q[l] \in Seq(Slots)
  BY Names
<1>3. HashGet(heap, l, i) <=> i \in Range(q[l])
  BY <1>1, <1>2, Reads
<1>4. /\ i \in Range(q[l]) => Mgr!AddInList(q[l], i) = q[l]
      /\ i \notin Range(q[l]) => Mgr!AddInList(q[l], i) = Append(q[l], i)
  BY DEF Mgr!AddInList, Mgr!Members, Mgr!Range, Range
<1>5. Holds(heap', p) /\ p \in [Lists -> Seq(Slots)]
  <2>1. CASE i \in Range(q[l])
    <3>1. heap' = heap
      BY <2>1, <1>3 DEF AddInList
    <3>2. p = q
      BY <2>1, <1>4
    <3> QED BY <3>1, <3>2, <1>1
  <2>2. CASE i \notin Range(q[l])
    <3>1. heap' = HashAdd(heap, l, i)
      BY <2>2, <1>3 DEF AddInList
    <3>2. Unlisted(q, l, i)
      BY <2>2, Names DEF Unlisted
    <3>3. Holds(HashAdd(heap, l, i), [q EXCEPT ![l] = Append(@, i)])
      BY <3>2, <1>1, <1>2, HashAddHolds
    <3>4. Append(q[l], i) \in Seq(Slots)
      BY <1>2, RangeAppend
    <3>5. p = [q EXCEPT ![l] = Append(@, i)] /\ p \in [Lists -> Seq(Slots)]
      BY <2>2, <1>2, <1>4, <3>4
    <3> QED BY <3>1, <3>3, <3>5
  <2> QED BY <2>1, <2>2
<1>6. p[l] = Mgr!AddInList(q[l], i) /\ \A m \in Lists : m # l => p[m] = q[m]
  BY <1>2
<1> HIDE DEF p
<1>7. \A m \in Lists : Contents(heap, m) = q[m] /\ Contents(heap', m) = p[m]
  BY <1>1, <1>5, Reads
<1>8. \A m \in Lists : SlotsOf(m) = q[m] /\ SlotsOf(m)' = p[m]
  BY <1>7 DEF SlotsOf, Contents
<1>9. IInv'
  BY <1>5 DEF IInv, AddInList
<1>10. SlotsOf(l)' = Mgr!AddInList(SlotsOf(l), i)
  BY <1>2, <1>6, <1>8
<1>11. RestUnchanged({l})
  BY <1>6, <1>8 DEF RestUnchanged
<1>12. UNCHANGED sock
  BY DEF AddInList
<1>13. MgrStep
  BY <1>2, <1>10, <1>11, <1>12 DEF MgrStep
<1> QED BY <1>9, <1>13

(* SeNetSocketMgrPopSendOrRecvOutList.                                     *)
LEMMA OutListStep ==
  ASSUME IInv, NEW l \in {"kSendList", "kRecvList"}, PopOutList(l)
  PROVE  IInv' /\ MgrStep
<1>1. PICK q \in [Lists -> Seq(Slots)] : Holds(heap, q)
  BY DEF IInv
<1> DEFINE p == [q EXCEPT ![l] = Without(@, 1)]
           s == q[l]
<1>2. l \in Lists /\ l # "kMainList" /\ s \in Seq(Slots) /\ Simple(s)
  <2>1. l \in Lists /\ l # "kMainList"
    BY Names
  <2> QED BY <2>1, <1>1, LinkedLists DEF Holds
<1>3. s # <<>>
  BY <1>1, <1>2, Reads DEF PopOutList
<1>4. Holds(heap', p)
  BY <1>1, <1>2, <1>3, HashPopHolds DEF PopOutList
<1>5. Without(s, 1) = Tail(s) /\ Tail(s) \in Seq(Slots)
  <2> HIDE DEF s
  <2> QED BY <1>2, <1>3, TailIs, HeadTailProperties
<1>6. p \in [Lists -> Seq(Slots)] /\ p[l] = Tail(s) /\ \A m \in Lists : m # l => p[m] = q[m]
  BY <1>2, <1>5
<1> HIDE DEF p, s
<1>7. \A m \in Lists : Contents(heap, m) = q[m] /\ Contents(heap', m) = p[m]
  BY <1>1, <1>4, Reads
<1>8. \A m \in Lists : SlotsOf(m) = q[m] /\ SlotsOf(m)' = p[m]
  BY <1>7 DEF SlotsOf, Contents
<1>9. IInv'
  BY <1>4, <1>6 DEF IInv, PopOutList
<1>10. SlotsOf(l) # <<>> /\ SlotsOf(l)' = Tail(SlotsOf(l))
  BY <1>2, <1>3, <1>6, <1>8 DEF s
<1>11. RestUnchanged({l})
  BY <1>6, <1>8 DEF RestUnchanged
<1>12. UNCHANGED sock
  BY DEF PopOutList
<1>13. MgrStep
  BY <1>2, <1>10, <1>11, <1>12 DEF MgrStep
<1> QED BY <1>9, <1>13

(* SeNetSocketMgrTimeOut.                                                  *)
LEMMA TimeOutStep ==
  ASSUME IInv, TimeOut
  PROVE  IInv' /\ MgrStep
<1>1. PICK q \in [Lists -> Seq(Slots)] : Holds(heap, q)
  BY DEF IInv
<1> DEFINE l == "kActiveMainList"
           s == q[l]
           i == q[l][1]
           w == Append(Without(s, 1), i)
           p == [q EXCEPT ![l] = Append(Without(@, 1), i)]
<1>2. l \in Lists /\ l # "kMainList" /\ s \in Seq(Slots) /\ Simple(s)
  <2>1. l \in Lists /\ l # "kMainList"
    BY Names
  <2> QED BY <2>1, <1>1, LinkedLists DEF Holds
<1>3. s # <<>>
  BY <1>1, <1>2, Reads DEF TimeOut
<1>4. HashGetHead(heap, l) = i /\ 1 \in 1 .. Len(s)
  BY <1>1, <1>2, <1>3, Reads
<1>5. Holds(heap', p)
  <2>1. Holds(HashMoveToEnd(heap, l, i), p)
    BY <1>1, <1>2, <1>4, HashMoveToEndHolds
  <2>2. heap' = HashMoveToEnd(heap, l, i)
    BY <1>4 DEF TimeOut
  <2> QED BY <2>1, <2>2
<1> HIDE DEF s
<1>6. s[1] = i
  BY DEF s
<1> HIDE DEF i
<1>7. Without(s, 1) \in Seq(Slots) /\ i \in Slots /\ Head(s) = i /\ Mgr!Unlink(s, i) = Without(s, 1)
  <2>1. Without(s, 1) \in Seq(Slots)
    BY <1>2, <1>4, RangeWithout
  <2>2. i \in Slots /\ Head(s) = i
    BY <1>2, <1>3, <1>4, <1>6, RangeIs
  <2>3. Mgr!Unlink(s, s[1]) = Without(s, 1)
    BY <1>2, <1>4, UnlinkIs
  <2> QED BY <2>1, <2>2, <2>3, <1>6
<1>8. w \in Seq(Slots) /\ w = Mgr!MoveToEnd(s, Head(s))
  BY <1>7, RangeAppend DEF Mgr!MoveToEnd
<1>9. p \in [Lists -> Seq(Slots)] /\ p[l] = w /\ \A m \in Lists : m # l => p[m] = q[m]
  <2>1. p = [q EXCEPT ![l] = w]
    BY DEF s
  <2> HIDE DEF w, p
  <2> QED BY <2>1, <1>2, <1>8
<1> HIDE DEF p, w
<1>10. \A m \in Lists : Contents(heap, m) = q[m] /\ Contents(heap', m) = p[m]
  BY <1>1, <1>5, Reads
<1>11. \A m \in Lists : SlotsOf(m) = q[m] /\ SlotsOf(m)' = p[m]
  BY <1>10 DEF SlotsOf, Contents
<1>12. IInv'
  BY <1>5, <1>9 DEF IInv, TimeOut
<1>13. SlotsOf(l) # <<>> /\ SlotsOf(l)' = Mgr!MoveToEnd(SlotsOf(l), Head(SlotsOf(l)))
  BY <1>2, <1>3, <1>8, <1>9, <1>11 DEF s
<1>14. RestUnchanged({l})
  BY <1>9, <1>11 DEF RestUnchanged
<1>15. UNCHANGED sock
  BY DEF TimeOut
<1>16. MgrStep
  BY <1>2, <1>13, <1>14, <1>15 DEF MgrStep
<1> QED BY <1>12, <1>16

-----------------------------------------------------------------------------
(* The theorems.                                                           *)

LEMMA InitIInv == Init => IInv /\ Mgr!MgrInit
<1> SUFFICES ASSUME Init PROVE IInv /\ Mgr!MgrInit
  OBVIOUS
<1> DEFINE q == AddedSlots(MaxSlots)
           r == [usStatus |-> "INIT", iTypeSocket |-> "NONE",
                 kHSocket |-> Mgr!NoHandle, kSocket |-> Mgr!NoFd,
                 iEventSocket |-> {}, llTime |-> 0, send |-> 0, recv |-> 0]
<1>1. MaxSlots \in 0 .. MaxSlots
  BY HashAssumption
<1>2. Holds(heap, q) /\ q \in [Lists -> Seq(Slots)]
  BY <1>1, InitialHolds, FirstSlotsAre DEF Init
<1>3. sock = [i \in Slots |-> r]
  BY DEF Init
<1>4. sock \in [Slots -> Mgr!SlotRecord]
  <2>1. r \in Mgr!SlotRecord
    BY DEF Mgr!SlotRecord, Mgr!Statuses, Mgr!Types, Mgr!Handles, Mgr!EventBits
  <2> HIDE DEF r
  <2> QED BY <2>1, <1>3
<1>5. \A l \in Lists : SlotsOf(l) = q[l]
  <2>1. \A l \in Lists : Contents(heap, l) = q[l]
    BY <1>2, Reads
  <2> QED BY <2>1 DEF SlotsOf, Contents
<1>6. /\ SlotsOf("kMainList") = [k \in 1 .. MaxSlots |-> k - 1]
      /\ SlotsOf("kActiveMainList") = <<>> /\ SlotsOf("kSendList") = <<>> /\ SlotsOf("kRecvList") = <<>>
  <2>1. \A l \in Lists : q[l] = IF l = "kMainList" THEN FirstSlots(MaxSlots) ELSE <<>>
    BY DEF AddedSlots
  <2> HIDE DEF q
  <2> QED BY <2>1, <1>5, Names DEF FirstSlots
<1>7. Mgr!MgrInit
  BY <1>3, <1>6 DEF Mgr!MgrInit, Slots
<1> QED BY <1>2, <1>4, <1>7 DEF IInv

LEMMA StepIInv == IInv /\ Next => IInv' /\ MgrStep
<1> SUFFICES ASSUME IInv, Next PROVE IInv' /\ MgrStep
  OBVIOUS
<1>1. CASE \E type \in {"LISTEN", "CLIENT", "ACCEPT"} : MgrAdd(type)
  BY <1>1, AddStep
<1>2. CASE \E i \in Slots : MgrDel(i)
  BY <1>2, DelStep
<1>3. CASE \E i \in Slots : \E l \in {"kSendList", "kRecvList"} : AddInList(l, i)
  BY <1>3, InListStep
<1>4. CASE \E l \in {"kSendList", "kRecvList"} : PopOutList(l)
  BY <1>4, OutListStep
<1>5. CASE TimeOut
  BY <1>5, TimeOutStep
<1> QED BY <1>1, <1>2, <1>3, <1>4, <1>5 DEF Next

LEMMA SameIInv ==
  IInv /\ UNCHANGED vars => IInv' /\ UNCHANGED <<sock, SlotsOf("kMainList"),
    SlotsOf("kActiveMainList"), SlotsOf("kSendList"), SlotsOf("kRecvList")>>
<1> SUFFICES ASSUME IInv, heap' = heap, sock' = sock
             PROVE  IInv' /\ UNCHANGED <<sock, SlotsOf("kMainList"),
                      SlotsOf("kActiveMainList"), SlotsOf("kSendList"), SlotsOf("kRecvList")>>
  BY DEF vars
<1>1. IInv'
  BY DEF IInv
<1>2. \A l \in Lists : SlotsOf(l)' = SlotsOf(l)
  BY DEF SlotsOf
<1> QED BY <1>1, <1>2, Names

(* The inductive invariant holds: after any calls of SeNetSocket.c the     *)
(* pointers stand for some contents of the four hash lists.                *)
THEOREM Invariance == Spec => []IInv
<1>1. Init => IInv
  BY InitIInv
<1>2. IInv /\ [Next]_vars => IInv'
  BY StepIInv, SameIInv
<1> QED BY <1>1, <1>2, PTL DEF Spec

LEMMA IInvSound == IInv => ListsSound
<1> SUFFICES ASSUME IInv PROVE ListsSound
  OBVIOUS
<1>1. PICK q \in [Lists -> Seq(Slots)] : Holds(heap, q)
  BY DEF IInv
<1>2. PICK on : Links(heap, on, q)
  BY <1>1 DEF Holds
<1>3. Linked(heap, on)
  BY <1>2 DEF Links
<1>4. \A r \in Roots : Walk(heap, r) = on[r]
  BY <1>3, WalkLinked
<1>5. WellLinked
  <2> DEFINE w == [r \in Roots |-> Walk(heap, r)]
  <2>1. \A r \in Roots : w[r] = on[r]
    BY <1>4
  <2> HIDE DEF w
  <2>2. \A r \in Roots : Represents(heap, r, w[r])
    BY <2>1, <1>3 DEF Linked
  <2>3. \A r, p \in Roots : r # p => Range(w[r]) \cap Range(w[p]) = {}
    BY <2>1, <1>3 DEF Linked
  <2>4. \A n \in Nodes : Detached(heap, n) \/ \E r \in Roots : n \in Range(w[r])
    BY <2>1, <1>3 DEF Linked
  <2> QED BY <2>2, <2>3, <2>4 DEF WellLinked, w
<1>6. ASSUME NEW l \in Lists, NEW i \in Slots
      PROVE  HashGet(heap, l, i) <=> i \in Range(SlotsOf(l))
  <2>1. Contents(heap, l) = q[l] /\ (HashGet(heap, l, i) <=> i \in Range(q[l]))
    BY <1>1, Reads
  <2>2. SlotsOf(l) = q[l]
    BY <2>1 DEF SlotsOf, Contents
  <2> QED BY <2>1, <2>2
<1> QED BY <1>5, <1>6 DEF ListsSound

(* In every state the pointers of the four hash lists and of their buckets *)
(* are well linked in both directions, no node is on two lists, a node on  *)
(* none is detached (what SeListTailAdd asserts), and SeHashGet finds in   *)
(* its bucket exactly the slots the list holds: for any number of slots    *)
(* and buckets.                                                            *)
THEOREM ListsStaySound == Spec => []ListsSound
BY Invariance, IInvSound, PTL

(* SeNetSocket.c on linked lists does what SocketMgr says it does on       *)
(* sequences: its first state is that of SocketMgr, and each function is   *)
(* the one of the same name, or the change of one list that it stands for. *)
THEOREM SlotListsImplementSocketMgr == Spec => ImplementsSocketMgr
<1>1. IInv /\ [Next]_vars => [MgrStep]_<<sock, SlotsOf("kMainList"),
        SlotsOf("kActiveMainList"), SlotsOf("kSendList"), SlotsOf("kRecvList")>>
  BY StepIInv, SameIInv
<1>2. Init => Mgr!MgrInit
  BY InitIInv
<1> QED BY <1>1, <1>2, Invariance, PTL DEF Spec, ImplementsSocketMgr

=============================================================================
