-------------------------- MODULE FramePipeProofs --------------------------
(***************************************************************************)
(* That the byte streams carry frames, for every size of a node, of a      *)
(* header and of a frame, and for every bound of FramePipe.                *)
(*                                                                         *)
(* The loops of SeNetStream.c are recursive functions.  Recursion says     *)
(* that the equations of one have exactly one solution when every round    *)
(* makes a number smaller, SetInduction that a set closed under + 1 holds  *)
(* every number; all that is said of a loop follows from the two, and is   *)
(* stated as a set of numbers or of byte sequences, never as a predicate   *)
(* the provers would have to instantiate.                                  *)
(*                                                                         *)
(* Sound is what a stream is between two calls.  WriteLenAppends and       *)
(* ReadLenTakes say what the two loops over nodes do to its contents,      *)
(* HeaderRoundTrip that a length survives its header, SendWritesFrame that *)
(* the pool topped up for a length is large enough for the frame.  IInv of *)
(* the pipe adds that what is under way, from the receive stream over the  *)
(* wire to the send stream, is whole frames (Wholes).                      *)
(***************************************************************************)
EXTENDS FramePipe, WellFoundedInduction, SequenceTheorems, TLAPS

-----------------------------------------------------------------------------
(* Induction and recursion.                                                *)

(* A set that holds 0 and, with each number, the next one holds every      *)
(* number.                                                                 *)
LEMMA SetInduction ==
  ASSUME NEW T, 0 \in T, \A n \in Nat : n \in T => n + 1 \in T
  PROVE  Nat \subseteq T
<1> DEFINE R == OpToRel(<, Nat)
           U == Nat \ T
<1>1. SUFFICES ASSUME U # {} PROVE FALSE
  OBVIOUS
<1>2. IsWellFoundedOn(R, Nat)
  BY NatLessThanWellFounded
<1>3. \E x \in U : \A y \in U : <<y, x>> \notin R
  <2> HIDE DEF R
  <2> QED BY <1>1, <1>2, WFMin, Zenon
<1>4. PICK x \in U : \A y \in U : <<y, x>> \notin R
  BY <1>3
<1>5. x # 0 /\ x - 1 \in Nat
  OBVIOUS
<1>6. x - 1 \in U
  BY <1>5
<1>7. <<x - 1, x>> \in R
  BY <1>5 DEF OpToRel
<1> QED BY <1>4, <1>6, <1>7

(* The equation of a recursive function at x, when its value at step[x] is *)
(* v.                                                                      *)
Value(stop, end, comb, x, v) == IF x \in stop THEN end[x] ELSE comb[<<x, v>>]

(* The parts of a recursion over X with values in V: where it stops, with  *)
(* which value, where it goes on otherwise, and what it makes of the value *)
(* there.  Every step makes m smaller.                                     *)
Recursive(X, V, m, stop, end, step, comb) ==
  /\ m \in [X -> Nat] /\ end \in [X -> V] /\ step \in [X -> X] /\ comb \in [X \X V -> V]
  /\ \A x \in X : x \notin stop => m[step[x]] < m[x]

(* f solves its equations, and no other function does.                     *)
Solves(X, V, stop, end, step, comb, f) ==
  /\ f \in [X -> V]
  /\ \A x \in X : f[x] = Value(stop, end, comb, x, f[step[x]])
  /\ \A g : (\A x \in X : x \in stop \/ g[step[x]] \in V =>
                            g[x] = Value(stop, end, comb, x, g[step[x]]))
            => \A x \in X : g[x] = f[x]

LEMMA Recursion ==
  ASSUME NEW X, NEW V, NEW m, NEW stop, NEW end, NEW step, NEW comb,
         Recursive(X, V, m, stop, end, step, comb)
  PROVE  \E f : Solves(X, V, stop, end, step, comb, f)
<1>0. /\ m \in [X -> Nat] /\ end \in [X -> V] /\ step \in [X -> X] /\ comb \in [X \X V -> V]
      /\ \A x \in X : x \notin stop => m[step[x]] < m[x]
  BY DEF Recursive
<1> DEFINE D(n)    == {x \in X : m[x] < n}
           Sol(f, n) == \A x \in D(n) : f[x] = Value(stop, end, comb, x, f[step[x]])
           T == {n \in Nat : \E f \in [D(n) -> V] : Sol(f, n)}
<1>1. 0 \in T
  <2>1. D(0) = {}
    BY <1>0
  <2>2. [x \in {} |-> x] \in [D(0) -> V]
    BY <2>1
  <2> QED BY <2>1, <2>2
<1>2. ASSUME NEW n \in Nat, n \in T PROVE n + 1 \in T
  <2>1. PICK f \in [D(n) -> V] : Sol(f, n)
    BY <1>2
  <2> DEFINE F == [x \in D(n + 1) |-> Value(stop, end, comb, x, f[step[x]])]
  <2>2. ASSUME NEW x \in D(n + 1), x \notin stop PROVE step[x] \in D(n)
    <3>1. step[x] \in X /\ m[step[x]] < m[x] /\ m[x] \in Nat /\ m[step[x]] \in Nat
      BY <1>0, <2>2
    <3> QED BY <3>1, <2>2
  <2>3. \A x \in D(n + 1) : F[x] \in V
    BY <1>0, <2>1, <2>2 DEF Value
  <2>4. ASSUME NEW x \in D(n) PROVE x \in D(n + 1) /\ F[x] = f[x]
    BY <1>0, <2>1
  <2>5. Sol(F, n + 1)
    BY <2>2, <2>4 DEF Value
  <2>6. F \in [D(n + 1) -> V]
    BY <2>3
  <2> HIDE DEF F, D, Sol
  <2> QED BY <2>5, <2>6
<1> HIDE DEF T
<1>3. Nat \subseteq T
  BY <1>1, <1>2, SetInduction
<1>4. \A n \in Nat : \E f \in [D(n) -> V] : Sol(f, n)
  <2> HIDE DEF D, Sol
  <2> QED BY <1>3 DEF T
<1>5. PICK A : \A n \in Nat : A[n] \in [D(n) -> V] /\ Sol(A[n], n)
  <2> DEFINE A == [n \in Nat |-> CHOOSE f : f \in [D(n) -> V] /\ Sol(f, n)]
  <2> HIDE DEF D, Sol
  <2>1. \A n \in Nat : A[n] \in [D(n) -> V] /\ Sol(A[n], n)
    BY <1>4
  <2> QED BY <2>1
<1>6. ASSUME NEW n \in Nat, NEW k \in Nat, n <= k, NEW x \in X, m[x] < n
      PROVE  A[n][x] = A[k][x]
  <2> DEFINE S == {j \in Nat : \A y \in X : m[y] < n /\ m[y] < j => A[n][y] = A[k][y]}
  <2>1. 0 \in S
    BY <1>0
  <2>2. ASSUME NEW j \in Nat, j \in S PROVE j + 1 \in S
    <3> SUFFICES ASSUME NEW y \in X, m[y] < n, m[y] < j + 1 PROVE A[n][y] = A[k][y]
      OBVIOUS
    <3>1. /\ A[n][y] = Value(stop, end, comb, y, A[n][step[y]])
          /\ A[k][y] = Value(stop, end, comb, y, A[k][step[y]])
      <4>1. y \in D(n) /\ y \in D(k)
        BY <1>0, <1>6
      <4>2. Sol(A[n], n) /\ Sol(A[k], k)
        BY <1>5
      <4> QED BY <4>1, <4>2
    <3>2. CASE y \in stop
      BY <3>1, <3>2 DEF Value
    <3>3. CASE y \notin stop
      <4>1. step[y] \in X /\ m[step[y]] < m[y] /\ m[y] \in Nat /\ m[step[y]] \in Nat
        BY <1>0, <3>3
      <4>2. A[n][step[y]] = A[k][step[y]]
        BY <4>1, <2>2
      <4> QED BY <4>2, <3>1
    <3> QED BY <3>2, <3>3
  <2> HIDE DEF S
  <2>3. Nat \subseteq S
    BY <2>1, <2>2, SetInduction
  <2>4. n \in S
    BY <2>3
  <2> QED BY <2>4, <1>6 DEF S
<1> DEFINE f == [x \in X |-> A[m[x] + 1][x]]
<1>7. f \in [X -> V]
  <2> SUFFICES ASSUME NEW x \in X PROVE A[m[x] + 1][x] \in V
    OBVIOUS
  <2>1. m[x] + 1 \in Nat /\ x \in D(m[x] + 1)
    BY <1>0
  <2> QED BY <2>1, <1>5
<1>8. ASSUME NEW x \in X PROVE f[x] = Value(stop, end, comb, x, f[step[x]])
  <2>1. m[x] + 1 \in Nat /\ x \in D(m[x] + 1)
    BY <1>0
  <2>2. A[m[x] + 1][x] = Value(stop, end, comb, x, A[m[x] + 1][step[x]])
    BY <2>1, <1>5
  <2>3. CASE x \in stop
    BY <2>2, <2>3 DEF Value
  <2>4. CASE x \notin stop
    <3>1. step[x] \in X /\ m[step[x]] < m[x] /\ m[x] \in Nat /\ m[step[x]] \in Nat
      BY <1>0, <2>4
    <3>2. A[m[step[x]] + 1][step[x]] = A[m[x] + 1][step[x]]
      BY <3>1, <1>6
    <3> QED BY <2>2, <3>1, <3>2
  <2> QED BY <2>3, <2>4
<1> HIDE DEF f
<1>9. ASSUME NEW g, \A x \in X : x \in stop \/ g[step[x]] \in V =>
                                  g[x] = Value(stop, end, comb, x, g[step[x]]),
             NEW x \in X
      PROVE  g[x] = f[x]
  <2> DEFINE S == {n \in Nat : \A y \in X : m[y] < n => g[y] = f[y]}
  <2>1. 0 \in S
    BY <1>0
  <2>2. ASSUME NEW n \in Nat, n \in S PROVE n + 1 \in S
    <3> SUFFICES ASSUME NEW y \in X, m[y] < n + 1 PROVE g[y] = f[y]
      OBVIOUS
    <3>1. CASE y \in stop
      BY <3>1, <1>8, <1>9 DEF Value
    <3>2. CASE y \notin stop
      <4>1. step[y] \in X /\ m[step[y]] < m[y] /\ m[y] \in Nat /\ m[step[y]] \in Nat
        BY <1>0, <3>2
      <4>2. g[step[y]] = f[step[y]]
        BY <4>1, <2>2
      <4>3. g[step[y]] \in V
        BY <4>1, <4>2, <1>7
      <4> QED BY <4>2, <4>3, <1>8, <1>9
    <3> QED BY <3>1, <3>2
  <2> HIDE DEF S
  <2>3. Nat \subseteq S
    BY <2>1, <2>2, SetInduction
  <2>4. m[x] + 1 \in S
    BY <1>0, <2>3
  <2> QED BY <1>0, <2>4 DEF S
<1> QED BY <1>7, <1>8, <1>9 DEF Solves

-----------------------------------------------------------------------------
(* Sequences of bytes: what From and the beginning of one are.             *)

LEMMA FromProperties ==
  ASSUME NEW l \in Seq(Byte), NEW n \in Nat
  PROVE  /\ From(l, n) \in Seq(Byte)
         /\ Len(From(l, n)) = IF n <= Len(l) THEN Len(l) - n ELSE 0
         /\ \A i \in 1 .. Len(l) - n : From(l, n)[i] = l[n + i]
<1>1. Len(l) \in Nat /\ \A i \in 1 .. Len(l) : l[i] \in Byte
  BY LenProperties, ElementOfSeq
<1>2. n + 1 \in Int /\ Len(l) \in Int /\ \A i \in n + 1 .. Len(l) : l[i] \in Byte
  BY <1>1
<1>3. /\ SubSeq(l, n + 1, Len(l)) \in Seq(Byte)
      /\ Len(SubSeq(l, n + 1, Len(l))) =
           IF n + 1 <= Len(l) THEN Len(l) - (n + 1) + 1 ELSE 0
      /\ \A i \in 1 .. Len(l) - (n + 1) + 1 :
           SubSeq(l, n + 1, Len(l))[i] = l[(n + 1) + i - 1]
  BY <1>2, SubSeqProperties
<1> QED BY <1>1, <1>3 DEF From

LEMMA PrefixProperties ==
  ASSUME NEW l \in Seq(Byte), NEW n \in 0 .. Len(l)
  PROVE  /\ SubSeq(l, 1, n) \in Seq(Byte)
         /\ Len(SubSeq(l, 1, n)) = n
         /\ \A i \in 1 .. n : SubSeq(l, 1, n)[i] = l[i]
<1>1. Len(l) \in Nat /\ \A i \in 1 .. Len(l) : l[i] \in Byte
  BY LenProperties, ElementOfSeq
<1>2. \A i \in 1 .. n : l[i] \in Byte
  BY <1>1
<1>3. /\ SubSeq(l, 1, n) \in Seq(Byte)
      /\ Len(SubSeq(l, 1, n)) = IF 1 <= n THEN n - 1 + 1 ELSE 0
      /\ \A i \in 1 .. n - 1 + 1 : SubSeq(l, 1, n)[i] = l[1 + i - 1]
  BY <1>1, <1>2, SubSeqProperties
<1> QED BY <1>1, <1>3

LEMMA CutJoin ==
  ASSUME NEW l \in Seq(Byte), NEW n \in 0 .. Len(l)
  PROVE  SubSeq(l, 1, n) \o From(l, n) = l
<1>0. Len(l) \in Nat /\ n \in Nat
  BY LenProperties
<1> DEFINE a == SubSeq(l, 1, n)
           b == From(l, n)
<1>1. a \in Seq(Byte) /\ Len(a) = n /\ \A i \in 1 .. n : a[i] = l[i]
  BY PrefixProperties
<1>2. b \in Seq(Byte) /\ Len(b) = Len(l) - n /\ \A i \in 1 .. Len(l) - n : b[i] = l[n + i]
  BY <1>0, FromProperties
<1> HIDE DEF a, b
<1>3. /\ a \o b \in Seq(Byte) /\ Len(a \o b) = Len(l)
      /\ \A i \in 1 .. Len(l) : (a \o b)[i] = IF i <= n THEN a[i] ELSE b[i - n]
  BY <1>0, <1>1, <1>2, ConcatProperties
<1>4. ASSUME NEW i \in 1 .. Len(l) PROVE (a \o b)[i] = l[i]
  <2>1. CASE i <= n
    BY <2>1, <1>0, <1>1, <1>3
  <2>2. CASE ~(i <= n)
    <3>1. i - n \in 1 .. Len(l) - n /\ n + (i - n) = i
      BY <2>2, <1>0
    <3> QED BY <2>2, <3>1, <1>2, <1>3
  <2> QED BY <2>1, <2>2
<1>5. a \o b = l
  BY <1>3, <1>4, SeqEqual
<1> QED BY <1>5 DEF a, b

(* A sequence of which r is what remains behind its first n elements.      *)
LEMMA FromOfConcat ==
  ASSUME NEW l \in Seq(Byte), NEW r \in Seq(Byte), NEW n \in 0 .. Len(l)
  PROVE  /\ From(l \o r, n) = From(l, n) \o r
         /\ SubSeq(l \o r, 1, n) = SubSeq(l, 1, n)
<1>0. Len(l) \in Nat /\ Len(r) \in Nat /\ n \in Nat
  BY LenProperties
<1> DEFINE c == l \o r
           a == From(c, n)
           b == From(l, n)
           d == b \o r
           p == SubSeq(c, 1, n)
           q == SubSeq(l, 1, n)
<1>1. /\ c \in Seq(Byte) /\ Len(c) = Len(l) + Len(r)
      /\ \A i \in 1 .. Len(l) + Len(r) : c[i] = IF i <= Len(l) THEN l[i] ELSE r[i - Len(l)]
  BY ConcatProperties
<1>2. b \in Seq(Byte) /\ Len(b) = Len(l) - n /\ \A i \in 1 .. Len(l) - n : b[i] = l[n + i]
  BY <1>0, FromProperties
<1>q. q \in Seq(Byte) /\ Len(q) = n /\ \A i \in 1 .. n : q[i] = l[i]
  BY PrefixProperties
<1> HIDE DEF c, b, q
<1>p. p \in Seq(Byte) /\ Len(p) = n /\ \A i \in 1 .. n : p[i] = c[i]
  BY <1>0, <1>1, PrefixProperties
<1>3. a \in Seq(Byte) /\ Len(a) = Len(c) - n /\ \A i \in 1 .. Len(c) - n : a[i] = c[n + i]
  <2>1. c \in Seq(Byte) /\ n \in Nat /\ n <= Len(c) /\ Len(c) \in Nat
    BY <1>0, <1>1
  <2> QED BY ONLY <2>1, FromProperties
<1>4. /\ d \in Seq(Byte) /\ Len(d) = Len(b) + Len(r)
      /\ \A i \in 1 .. Len(b) + Len(r) : d[i] = IF i <= Len(b) THEN b[i] ELSE r[i - Len(b)]
  BY <1>2, ConcatProperties
<1> HIDE DEF a, d, p
<1>5. ASSUME NEW i \in 1 .. Len(a) PROVE a[i] = d[i]
  <2>1. i \in 1 .. Len(l) + Len(r) - n /\ n + i \in 1 .. Len(l) + Len(r)
    BY <1>0, <1>1, <1>3
  <2>2. a[i] = IF n + i <= Len(l) THEN l[n + i] ELSE r[(n + i) - Len(l)]
    BY <2>1, <1>1, <1>3
  <2>3. d[i] = IF i <= Len(l) - n THEN b[i] ELSE r[i - (Len(l) - n)]
    BY <2>1, <1>0, <1>2, <1>4
  <2>4. (n + i) - Len(l) = i - (Len(l) - n) /\ (n + i <= Len(l) <=> i <= Len(l) - n)
    BY <2>1, <1>0
  <2> QED BY <2>1, <2>2, <2>3, <2>4, <1>2
<1>6. a = d
  <2>1. Len(a) = Len(d)
    BY <1>0, <1>1, <1>2, <1>3, <1>4
  <2> QED BY <1>3, <1>4, <1>5, <2>1, SeqEqual
<1>7. \A i \in 1 .. Len(p) : p[i] = q[i]
  BY <1>0, <1>1, <1>p, <1>q
<1>8. p = q
  BY <1>p, <1>q, <1>7, SeqEqual
<1> QED BY <1>6, <1>8 DEF a, b, c, d, p, q

LEMMA FromOfFrom ==
  ASSUME NEW l \in Seq(Byte), NEW n \in 0 .. Len(l), NEW k \in 0 .. Len(l) - n
  PROVE  From(From(l, n), k) = From(l, n + k)
<1>0. /\ Len(l) \in Nat /\ n \in Nat /\ k \in Nat
      /\ n + k \in Nat /\ n <= Len(l) /\ n + k <= Len(l)
  BY LenProperties
<1> DEFINE a == From(l, n)
           b == From(a, k)
           c == From(l, n + k)
<1>1. a \in Seq(Byte) /\ Len(a) = Len(l) - n /\ \A i \in 1 .. Len(l) - n : a[i] = l[n + i]
  BY <1>0, FromProperties
<1>2. c \in Seq(Byte) /\ Len(c) = Len(l) - (n + k)
      /\ \A i \in 1 .. Len(l) - (n + k) : c[i] = l[(n + k) + i]
  <2>1. l \in Seq(Byte)
    OBVIOUS
  <2> QED BY ONLY <1>0, <2>1, FromProperties
<1> HIDE DEF a, c
<1>3. b \in Seq(Byte) /\ Len(b) = Len(a) - k /\ \A i \in 1 .. Len(a) - k : b[i] = a[k + i]
  <2>1. a \in Seq(Byte) /\ k \in Nat /\ k <= Len(a) /\ Len(a) \in Nat
    BY <1>0, <1>1
  <2> QED BY ONLY <2>1, FromProperties
<1> HIDE DEF b
<1>4. ASSUME NEW i \in 1 .. Len(b) PROVE b[i] = c[i]
  <2>0. i \in 1 .. Len(l) - n - k
    BY <1>0, <1>1, <1>3
  <2>1. i \in 1 .. Len(l) - (n + k) /\ k + i \in 1 .. Len(l) - n /\ n + (k + i) = (n + k) + i
    BY <1>0, <2>0
  <2> QED BY <2>1, <1>1, <1>2, <1>3
<1>5. Len(b) = Len(c)
  BY <1>0, <1>1, <1>2, <1>3
<1>6. b = c
  BY <1>2, <1>3, <1>4, <1>5, SeqEqual
<1> QED BY <1>6 DEF a, b, c

LEMMA SliceOfFrom ==
  ASSUME NEW l \in Seq(Byte), NEW p \in Nat, NEW n \in Nat, p + n <= Len(l)
  PROVE  SubSeq(l, p + 1, p + n) = SubSeq(From(l, p), 1, n)
<1>0. Len(l) \in Nat /\ \A i \in 1 .. Len(l) : l[i] \in Byte
  BY LenProperties, ElementOfSeq
<1> DEFINE a == SubSeq(l, p + 1, p + n)
           f == From(l, p)
           b == SubSeq(f, 1, n)
<1>1. /\ a \in Seq(Byte) /\ Len(a) = n
      /\ \A i \in 1 .. n : a[i] = l[p + i]
  <2>1. p + 1 \in Int /\ p + n \in Int /\ \A i \in p + 1 .. p + n : l[i] \in Byte
    BY <1>0
  <2>2. /\ a \in Seq(Byte)
        /\ Len(a) = IF p + 1 <= p + n THEN (p + n) - (p + 1) + 1 ELSE 0
        /\ \A i \in 1 .. (p + n) - (p + 1) + 1 : a[i] = l[(p + 1) + i - 1]
    BY <2>1, SubSeqProperties
  <2> QED BY <2>2
<1>2. f \in Seq(Byte) /\ Len(f) = Len(l) - p /\ \A i \in 1 .. Len(l) - p : f[i] = l[p + i]
  <2>1. l \in Seq(Byte) /\ p \in Nat /\ p <= Len(l) /\ Len(l) \in Nat
    BY <1>0
  <2> QED BY ONLY <2>1, FromProperties
<1> HIDE DEF a, f
<1>3. b \in Seq(Byte) /\ Len(b) = n /\ \A i \in 1 .. n : b[i] = f[i]
  <2>1. f \in Seq(Byte) /\ n \in 0 .. Len(f)
    BY <1>0, <1>2
  <2> QED BY ONLY <2>1, PrefixProperties
<1> HIDE DEF b
<1>4. \A i \in 1 .. Len(a) : a[i] = b[i]
  BY <1>0, <1>1, <1>2, <1>3
<1>5. a = b
  BY <1>1, <1>3, <1>4, SeqEqual
<1> QED BY <1>5 DEF a, b, f

LEMMA Grouping ==
  ASSUME NEW a \in Seq(Byte), NEW b \in Seq(Byte), NEW c \in Seq(Byte)
  PROVE  a \o (b \o c) = (a \o b) \o c
BY ConcatAssociative

(* Nothing is behind all of it, and all of it behind nothing.              *)
LEMMA FromEnds ==
  ASSUME NEW l \in Seq(Byte)
  PROVE  From(l, 0) = l /\ From(l, Len(l)) = <<>>
<1>0. Len(l) \in Nat
  BY LenProperties
<1>1. SubSeq(l, 1, Len(l)) = l
  BY SubSeqFull
<1>2. SubSeq(l, Len(l) + 1, Len(l)) = <<>>
  BY <1>0, SubSeqEmpty
<1> QED BY <1>0, <1>1, <1>2 DEF From

-----------------------------------------------------------------------------
(* Nodes and the bytes in them.                                            *)

(* The bytes of one node still to be read.                                 *)
Rest(n) == From(n.buf, n.usReadPos)

LEMMA NodeFields ==
  ASSUME NEW n \in Node
  PROVE  /\ n.buf \in Seq(Byte) /\ n.usReadPos \in Nat /\ Len(n.buf) \in Nat
         /\ Left(n) \in Int /\ Room(n) = Cap - Len(n.buf)
         /\ Rest(n) \in Seq(Byte)
         /\ Left(n) >= 0 => Len(Rest(n)) = Left(n)
<1>1. n.buf \in Seq(Byte) /\ n.usReadPos \in Nat
  BY DEF Node
<1>2. Len(n.buf) \in Nat
  BY <1>1, LenProperties
<1>3. Rest(n) \in Seq(Byte)
  BY <1>1, FromProperties DEF Rest
<1>4. Len(Rest(n)) = IF n.usReadPos <= Len(n.buf) THEN Len(n.buf) - n.usReadPos ELSE 0
  BY <1>1, FromProperties DEF Rest
<1> QED BY <1>1, <1>2, <1>3, <1>4 DEF Left, Room

(* What Unread, defined by recursion over the nodes, is.                   *)
LEMMA UnreadDef ==
  /\ Unread \in [Seq(Node) -> Seq(Byte)]
  /\ \A ns \in Seq(Node) :
       Unread[ns] = IF ns = <<>> THEN <<>> ELSE Rest(Head(ns)) \o Unread[Tail(ns)]
<1> DEFINE X == Seq(Node)
           V == Seq(Byte)
           m == [ns \in X |-> Len(ns)]
           stop == {<<>>}
           end == [ns \in X |-> <<>>]
           step == [ns \in X |-> IF ns = <<>> THEN ns ELSE Tail(ns)]
           comb == [p \in X \X V |-> IF p[1] = <<>> THEN <<>> ELSE Rest(Head(p[1])) \o p[2]]
           P(g) == g = [ns \in X |-> IF ns = <<>> THEN <<>>
                                     ELSE From(Head(ns).buf, Head(ns).usReadPos) \o g[Tail(ns)]]
<1>1. \A ns \in X : Len(ns) \in Nat
  BY LenProperties
<1>2. \A ns \in X : ns # <<>> => Head(ns) \in Node /\ Tail(ns) \in X /\ Len(Tail(ns)) = Len(ns) - 1
  BY HeadTailProperties
<1>3. m \in [X -> Nat] /\ end \in [X -> V] /\ step \in [X -> X]
  BY <1>1, <1>2, EmptySeq
<1>4. \A ns \in X : ns # <<>> => Rest(Head(ns)) \in V
  BY <1>2, NodeFields
<1>5. comb \in [X \X V -> V]
  BY <1>4, ConcatProperties, EmptySeq
<1>6. Recursive(X, V, m, stop, end, step, comb)
  BY <1>1, <1>2, <1>3, <1>5 DEF Recursive
<1>7. PICK f : Solves(X, V, stop, end, step, comb, f)
  <2> HIDE DEF X, V, m, stop, end, step, comb
  <2> QED BY <1>6, Recursion
<1>8. ASSUME NEW ns \in X
      PROVE  f[ns] = IF ns = <<>> THEN <<>> ELSE Rest(Head(ns)) \o f[Tail(ns)]
  BY <1>2, <1>7 DEF Solves, Value
<1>9. P(f)
  BY <1>7, <1>8 DEF Solves, Rest
<1>10. P(Unread)
  <2>1. Unread = CHOOSE g : P(g)
    BY DEF Unread
  <2>2. (\E g : P(g)) => P(CHOOSE g : P(g))
    <3> HIDE DEF P
    <3> QED OBVIOUS
  <2> QED BY <1>9, <2>1, <2>2, Zenon
<1>11. \A x \in X : x \in stop \/ Unread[step[x]] \in V =>
                       Unread[x] = Value(stop, end, comb, x, Unread[step[x]])
  BY <1>2, <1>10 DEF Value, Rest
<1>12. \A x \in X : Unread[x] = f[x]
  <2> HIDE DEF X, V, stop, end, step, comb, P
  <2> QED BY <1>7, <1>11 DEF Solves
<1>13. Unread \in [X -> V]
  BY <1>7, <1>10, <1>12 DEF Solves
<1>14. ASSUME NEW ns \in X
       PROVE  Unread[ns] = IF ns = <<>> THEN <<>> ELSE Rest(Head(ns)) \o Unread[Tail(ns)]
  BY <1>2, <1>8, <1>12
<1> QED BY <1>13, <1>14

LEMMA UnreadEmpty == Unread[<<>>] = <<>>
BY UnreadDef, EmptySeq

(* A node in front of the others.                                          *)
LEMMA UnreadCons ==
  ASSUME NEW n \in Node, NEW ns \in Seq(Node)
  PROVE  /\ <<n>> \o ns \in Seq(Node)
         /\ Unread[<<n>> \o ns] = Rest(n) \o Unread[ns]
<1> DEFINE c == <<n>> \o ns
<1>1. <<n>> \in Seq(Node) /\ Len(<<n>>) = 1 /\ <<n>>[1] = n
  OBVIOUS
<1>2. /\ c \in Seq(Node) /\ Len(c) = 1 + Len(ns) /\ Len(ns) \in Nat
      /\ \A i \in 1 .. 1 + Len(ns) : c[i] = IF i <= 1 THEN <<n>>[i] ELSE ns[i - 1]
  <2>1. Len(ns) \in Nat
    BY LenProperties
  <2>2. /\ c \in Seq(Node) /\ Len(c) = Len(<<n>>) + Len(ns)
        /\ \A i \in 1 .. Len(<<n>>) + Len(ns) :
             c[i] = IF i <= Len(<<n>>) THEN <<n>>[i] ELSE ns[i - Len(<<n>>)]
    BY <1>1, ConcatProperties
  <2> QED BY <2>1, <2>2, <1>1
<1> HIDE DEF c
<1>3. c # <<>>
  BY <1>2, EmptySeq
<1>4. /\ Head(c) = n /\ Tail(c) \in Seq(Node) /\ Len(Tail(c)) = Len(ns)
      /\ \A i \in 1 .. Len(Tail(c)) : Tail(c)[i] = c[i + 1]
  <2>1. c[1] = n
    BY <1>1, <1>2
  <2>2. Head(c) = c[1]
    BY <1>2, <1>3
  <2> QED BY <1>2, <1>3, <2>1, <2>2, HeadTailProperties
<1>5. \A i \in 1 .. Len(ns) : Tail(c)[i] = ns[i]
  BY <1>2, <1>4
<1>6. Tail(c) = ns
  BY <1>4, <1>5, SeqEqual
<1>7. Unread[c] = Rest(n) \o Unread[ns]
  BY <1>2, <1>3, <1>4, <1>6, UnreadDef
<1> QED BY <1>2, <1>7 DEF c

(* A node behind the others.                                               *)
LEMMA UnreadAppend ==
  ASSUME NEW n \in Node, NEW ns \in Seq(Node)
  PROVE  Unread[Append(ns, n)] = Unread[ns] \o Rest(n)
<1> DEFINE T == {k \in Nat : \A ms \in Seq(Node) : Len(ms) = k =>
                   Unread[Append(ms, n)] = Unread[ms] \o Rest(n)}
<1>r. Rest(n) \in Seq(Byte) /\ \A ms \in Seq(Node) : Unread[ms] \in Seq(Byte)
  BY NodeFields, UnreadDef
<1>1. 0 \in T
  <2> SUFFICES ASSUME NEW ms \in Seq(Node), Len(ms) = 0
               PROVE  Unread[Append(ms, n)] = Unread[ms] \o Rest(n)
    OBVIOUS
  <2>1. ms = <<>>
    BY EmptySeq
  <2>2. Append(<<>>, n) = <<n>> \o <<>> /\ <<>> \in Seq(Node)
    OBVIOUS
  <2>3. Unread[<<n>> \o <<>>] = Rest(n) \o Unread[<<>>]
    BY <2>2, UnreadCons
  <2> QED BY <2>1, <2>2, <2>3, <1>r, UnreadEmpty, ConcatEmptySeq
<1>2. ASSUME NEW k \in Nat, k \in T PROVE k + 1 \in T
  <2> SUFFICES ASSUME NEW ms \in Seq(Node), Len(ms) = k + 1
               PROVE  Unread[Append(ms, n)] = Unread[ms] \o Rest(n)
    OBVIOUS
  <2>1. ms # <<>>
    BY EmptySeq
  <2>2. Head(ms) \in Node /\ Tail(ms) \in Seq(Node) /\ Len(Tail(ms)) = k
    BY <2>1, HeadTailProperties
  <2>3. Head(Append(ms, n)) = Head(ms) /\ Tail(Append(ms, n)) = Append(Tail(ms), n)
    BY <2>1, HeadTailAppend
  <2>4. Append(ms, n) \in Seq(Node) /\ Append(ms, n) # <<>>
    BY AppendProperties
  <2>5. Unread[Append(ms, n)] = Rest(Head(ms)) \o Unread[Append(Tail(ms), n)]
    BY <2>3, <2>4, UnreadDef
  <2>6. Unread[Append(Tail(ms), n)] = Unread[Tail(ms)] \o Rest(n)
    BY <2>2, <1>2
  <2>7. Rest(Head(ms)) \in Seq(Byte)
    BY <2>2, NodeFields
  <2>8. Rest(Head(ms)) \o (Unread[Tail(ms)] \o Rest(n)) =
        (Rest(Head(ms)) \o Unread[Tail(ms)]) \o Rest(n)
    <3>1. Rest(Head(ms)) \in Seq(Byte) /\ Unread[Tail(ms)] \in Seq(Byte) /\ Rest(n) \in Seq(Byte)
      BY <2>2, <2>7, <1>r
    <3> QED BY ONLY <3>1, Grouping
  <2>9. Unread[ms] = Rest(Head(ms)) \o Unread[Tail(ms)]
    BY <2>1, UnreadDef
  <2> QED BY <2>5, <2>6, <2>8, <2>9
<1> HIDE DEF T
<1>3. Nat \subseteq T
  BY <1>1, <1>2, SetInduction
<1>4. Len(ns) \in T
  BY <1>3, LenProperties
<1> QED BY <1>4 DEF T

-----------------------------------------------------------------------------
(* Sound streams.                                                          *)

LEMMA Sizes ==
  /\ Cap \in Nat /\ HeaderLen \in Nat /\ Base \in Nat /\ MaxFrame \in Nat /\ Overhead \in Nat
  /\ HeaderLen > 0 /\ Cap > HeaderLen /\ Base > 1 /\ MaxFrame < Weight[HeaderLen]
BY StreamAssumption

Sound(s) == PositionsSound(s) /\ NodesSound(s) /\ SizeExact(s)

(* What Sound says of the nodes alone.                                     *)
NodesOK(ns) ==
  /\ ns \in Seq(Node)
  /\ \A k \in 1 .. Len(ns) :
       /\ Left(ns[k]) > 0 /\ Len(ns[k].buf) <= Cap
       /\ k > 1 => ns[k].usReadPos = 0
       /\ k < Len(ns) => Room(ns[k]) = 0

LEMMA SoundStream ==
  ASSUME NEW s
  PROVE  Sound(s) <=> s \in Stream /\ NodesOK(s.nodes) /\ s.llSize = Len(Unread[s.nodes])
<1>1. ASSUME s \in Stream
      PROVE  (PositionsSound(s) /\ NodesSound(s)) <=> NodesOK(s.nodes)
  <2>1. s.nodes \in Seq(Node)
    BY <1>1 DEF Stream
  <2>2. DOMAIN s.nodes = 1 .. Len(s.nodes) /\ \A k \in 1 .. Len(s.nodes) : s.nodes[k] \in Node
    BY <2>1, LenProperties, ElementOfSeq
  <2>3. \A k \in 1 .. Len(s.nodes) : Left(s.nodes[k]) \in Int
    BY <2>2, NodeFields
  <2> QED BY <1>1, <2>1, <2>2, <2>3 DEF PositionsSound, NodesSound, NodesOK
<1> QED BY <1>1 DEF Sound, SizeExact, Contents, PositionsSound

LEMMA NodesHead ==
  ASSUME NEW ns, NodesOK(ns), ns # <<>>
  PROVE  /\ Head(ns) \in Node /\ Head(ns) = ns[1] /\ Len(ns) \in Nat \ {0}
         /\ Left(Head(ns)) \in Nat \ {0} /\ Len(Head(ns).buf) <= Cap
         /\ NodesOK(Tail(ns)) /\ Len(Tail(ns)) = Len(ns) - 1
         /\ \A k \in 1 .. Len(Tail(ns)) : Tail(ns)[k] = ns[k + 1]
<1>1. /\ ns \in Seq(Node)
      /\ \A k \in 1 .. Len(ns) : /\ Left(ns[k]) > 0 /\ Len(ns[k].buf) <= Cap
                                 /\ k > 1 => ns[k].usReadPos = 0
                                 /\ k < Len(ns) => Room(ns[k]) = 0
  BY DEF NodesOK
<1>2. /\ Head(ns) \in Node /\ Tail(ns) \in Seq(Node) /\ Len(Tail(ns)) = Len(ns) - 1
      /\ \A k \in 1 .. Len(Tail(ns)) : Tail(ns)[k] = ns[k + 1]
  BY <1>1, HeadTailProperties
<1>3. Head(ns) = ns[1] /\ Len(ns) \in Nat \ {0}
  BY <1>1, EmptySeq
<1>4. Left(Head(ns)) \in Nat \ {0} /\ Len(Head(ns).buf) <= Cap
  <2>1. Left(Head(ns)) \in Int
    BY <1>2, NodeFields
  <2>2. Left(ns[1]) > 0 /\ Len(ns[1].buf) <= Cap
    BY <1>1, <1>3
  <2> QED BY <2>1, <2>2, <1>3
<1>5. NodesOK(Tail(ns))
  <2> SUFFICES ASSUME NEW k \in 1 .. Len(Tail(ns))
               PROVE  /\ Left(Tail(ns)[k]) > 0 /\ Len(Tail(ns)[k].buf) <= Cap
                      /\ k > 1 => Tail(ns)[k].usReadPos = 0
                      /\ k < Len(Tail(ns)) => Room(Tail(ns)[k]) = 0
    BY <1>2 DEF NodesOK
  <2>1. k + 1 \in 1 .. Len(ns) /\ k + 1 > 1 /\ (k < Len(Tail(ns)) => k + 1 < Len(ns))
    BY <1>2, <1>3
  <2> QED BY <2>1, <1>1, <1>2
<1> QED BY <1>2, <1>3, <1>4, <1>5

(* Another node, with the same room, in the place of the first one.        *)
LEMMA NodesReplace ==
  ASSUME NEW ns, NodesOK(ns), ns # <<>>, NEW n \in Node, n.buf = Head(ns).buf, Left(n) > 0
  PROVE  NodesOK(<<n>> \o Tail(ns))
<1> DEFINE c == <<n>> \o Tail(ns)
<1>1. /\ Len(ns) \in Nat \ {0} /\ Head(ns) = ns[1] /\ Tail(ns) \in Seq(Node)
      /\ Len(Tail(ns)) = Len(ns) - 1 /\ Len(n.buf) <= Cap
      /\ \A k \in 1 .. Len(Tail(ns)) : Tail(ns)[k] = ns[k + 1]
  BY NodesHead DEF NodesOK
<1>2. <<n>> \in Seq(Node) /\ Len(<<n>>) = 1 /\ <<n>>[1] = n
  OBVIOUS
<1>3. /\ c \in Seq(Node) /\ Len(c) = Len(<<n>>) + Len(Tail(ns))
      /\ \A i \in 1 .. Len(<<n>>) + Len(Tail(ns)) :
             c[i] = IF i <= Len(<<n>>) THEN <<n>>[i] ELSE Tail(ns)[i - Len(<<n>>)]
  BY <1>1, <1>2, ConcatProperties
<1> HIDE DEF c
<1>4. Len(c) = Len(ns) /\ c[1] = n /\ \A k \in 2 .. Len(ns) : c[k] = ns[k]
  <2>1. Len(c) = Len(ns) /\ c[1] = n
    BY <1>1, <1>2, <1>3
  <2>2. ASSUME NEW k \in 2 .. Len(ns) PROVE c[k] = ns[k]
    <3>1. k - 1 \in 1 .. Len(Tail(ns)) /\ ~(k <= 1) /\ k \in 1 .. 1 + Len(Tail(ns)) /\ (k - 1) + 1 = k
      BY <1>1
    <3> QED BY <3>1, <1>1, <1>2, <1>3
  <2> QED BY <2>1, <2>2
<1>5. ASSUME NEW k \in 1 .. Len(c)
      PROVE  /\ Left(c[k]) > 0 /\ Len(c[k].buf) <= Cap
             /\ k > 1 => c[k].usReadPos = 0
             /\ k < Len(c) => Room(c[k]) = 0
  <2>1. CASE k = 1
    <3>1. 1 < Len(ns) => Room(ns[1]) = 0
      BY <1>1 DEF NodesOK
    <3>2. Room(n) = Room(ns[1])
      BY <1>1 DEF Room
    <3> QED BY <2>1, <3>1, <3>2, <1>1, <1>4
  <2>2. CASE k # 1
    <3>1. k \in 2 .. Len(ns) /\ k \in 1 .. Len(ns) /\ c[k] = ns[k]
      BY <2>2, <1>4
    <3> QED BY <3>1, <1>4 DEF NodesOK
  <2> QED BY <2>1, <2>2
<1>6. NodesOK(c)
  BY <1>3, <1>5 DEF NodesOK
<1> QED BY <1>6 DEF c

(* Reading n bytes of the first node takes the first n bytes of the stream *)
(* off, and the pool does not shrink.                                      *)
LEMMA TakenTakes ==
  ASSUME NEW s, Sound(s), s.nodes # <<>>, NEW pool \in Nat, NEW n \in 1 .. Left(Head(s.nodes))
  PROVE  LET r == Taken(s, pool, n) IN
         /\ r.ok = TRUE /\ Sound(r.s) /\ r.pool \in Nat /\ r.pool >= pool
         /\ n \in 0 .. Len(Contents(s)) /\ Contents(s) \in Seq(Byte)
         /\ r.bytes = SubSeq(Contents(s), 1, n)
         /\ Contents(r.s) = From(Contents(s), n)
         /\ Len(r.s.nodes) <= Len(s.nodes)
<1> DEFINE ns   == s.nodes
           node == Head(ns)
           rest == Tail(ns)
           new  == [node EXCEPT !.usReadPos = @ + n]
<1>1. s \in Stream /\ NodesOK(ns) /\ s.llSize = Len(Unread[ns])
  BY SoundStream
<1>2. /\ node \in Node /\ Left(node) \in Nat \ {0} /\ Len(node.buf) <= Cap /\ NodesOK(rest)
      /\ Len(ns) \in Nat \ {0} /\ Len(rest) = Len(ns) - 1
  BY <1>1, NodesHead
<1>3. /\ node.buf \in Seq(Byte) /\ node.usReadPos \in Nat /\ Len(node.buf) \in Nat
      /\ Rest(node) \in Seq(Byte) /\ Len(Rest(node)) = Left(node)
      /\ Left(node) = Len(node.buf) - node.usReadPos
  BY <1>2, NodeFields DEF Left
<1>4. n \in Nat /\ n <= Left(node) /\ node.usReadPos + n <= Len(node.buf)
  BY <1>3
<1>5. ns \in Seq(Node) /\ rest \in Seq(Node) /\ Unread[rest] \in Seq(Byte) /\ Len(Unread[rest]) \in Nat
  <2>1. ns \in Seq(Node) /\ rest \in Seq(Node)
    BY <1>1, <1>2 DEF NodesOK
  <2> QED BY <2>1, UnreadDef, LenProperties
<1>6. /\ Contents(s) = Rest(node) \o Unread[rest] /\ Contents(s) \in Seq(Byte)
      /\ Len(Contents(s)) = Left(node) + Len(Unread[rest])
  <2>1. Unread[ns] = Rest(node) \o Unread[rest]
    BY <1>5, UnreadDef
  <2>2. /\ Rest(node) \o Unread[rest] \in Seq(Byte)
        /\ Len(Rest(node) \o Unread[rest]) = Len(Rest(node)) + Len(Unread[rest])
    BY <1>3, <1>5, ConcatProperties
  <2> QED BY <2>1, <2>2, <1>3 DEF Contents
<1>7. n \in 0 .. Len(Rest(node)) /\ n \in 0 .. Len(Contents(s))
  <2> HIDE DEF ns, node, rest
  <2> QED BY <1>3, <1>4, <1>5, <1>6
<1>8. /\ From(Contents(s), n) = From(Rest(node), n) \o Unread[rest]
      /\ SubSeq(Contents(s), 1, n) = SubSeq(Rest(node), 1, n)
  <2>1. /\ From(Rest(node) \o Unread[rest], n) = From(Rest(node), n) \o Unread[rest]
        /\ SubSeq(Rest(node) \o Unread[rest], 1, n) = SubSeq(Rest(node), 1, n)
    BY <1>3, <1>5, <1>7, FromOfConcat
  <2> QED BY <2>1, <1>6
<1>9. SubSeq(node.buf, node.usReadPos + 1, node.usReadPos + n) = SubSeq(Contents(s), 1, n)
  <2>1. SubSeq(node.buf, node.usReadPos + 1, node.usReadPos + n) = SubSeq(Rest(node), 1, n)
    BY <1>3, <1>4, SliceOfFrom DEF Rest
  <2> QED BY <2>1, <1>8
<1> DEFINE r == Taken(s, pool, n)
<1>a. n = Left(node) =>
        /\ r.s = [nodes |-> rest, llSize |-> s.llSize - Left(node)]
        /\ r.ok = TRUE /\ r.pool = pool + 1 /\ r.bytes = SubSeq(Contents(s), 1, n)
  BY <1>9 DEF Taken, Result, HeadPop
<1>b. n # Left(node) =>
        /\ r.s = [nodes |-> <<new>> \o rest, llSize |-> (s.llSize - Left(node)) + Left(new)]
        /\ r.ok = TRUE /\ r.pool = pool /\ r.bytes = SubSeq(Contents(s), 1, n)
  BY <1>9 DEF Taken, Result, HeadPop, HeadAdd
<1>c. n # Left(node) =>
        /\ new \in Node /\ new.buf = node.buf /\ new.usReadPos = node.usReadPos + n
        /\ Left(new) = Left(node) - n /\ Left(new) > 0
  <2>1. node \in [buf : Seq(Byte), usReadPos : Nat]
    BY <1>2 DEF Node
  <2> HIDE DEF node
  <2>2. new.buf = node.buf /\ new.usReadPos = node.usReadPos + n
    BY <2>1
  <2>3. new \in Node
    BY <2>1, <1>4 DEF Node
  <2> HIDE DEF new
  <2> QED BY <2>2, <2>3, <1>3, <1>4 DEF Left
<1>d. s.nodes = ns /\ Head(s.nodes) = node
  OBVIOUS
<1> HIDE DEF ns, node, rest, new, r
<1>10. CASE n = Left(node)
  <2>2. r.s = [nodes |-> rest, llSize |-> s.llSize - Left(node)]
    BY <1>10, <1>a
  <2>3. r.ok = TRUE /\ r.pool = pool + 1 /\ r.bytes = SubSeq(Contents(s), 1, n)
    BY <1>10, <1>a
  <2>4. From(Contents(s), n) = Unread[rest]
    <3>1. From(Rest(node), n) = <<>>
      BY <1>3, <1>10, FromEnds
    <3> QED BY <3>1, <1>5, <1>8, ConcatEmptySeq
  <2>5. r.s.nodes = rest /\ r.s.llSize = Len(Unread[rest]) /\ r.s \in Stream
    <3>1. s.llSize = Left(node) + Len(Unread[rest])
      BY <1>1, <1>6, <1>d DEF Contents
    <3>2. s.llSize - Left(node) = Len(Unread[rest])
      BY <3>1, <1>2, <1>5
    <3> QED BY <2>2, <3>2, <1>5 DEF Stream
  <2>6. Sound(r.s) /\ Contents(r.s) = Unread[rest]
    BY <2>5, <1>2, SoundStream DEF Contents
  <2>7. Len(r.s.nodes) <= Len(s.nodes)
    BY <2>5, <1>2, <1>d
  <2> QED BY <2>3, <2>4, <2>6, <2>7, <1>6, <1>7 DEF r
<1>11. CASE n # Left(node)
  <2>2. r.s = [nodes |-> <<new>> \o rest, llSize |-> (s.llSize - Left(node)) + Left(new)]
    BY <1>11, <1>b
  <2>3. r.ok = TRUE /\ r.pool = pool /\ r.bytes = SubSeq(Contents(s), 1, n)
    BY <1>11, <1>b
  <2>4. /\ new \in Node /\ new.buf = node.buf /\ new.usReadPos = node.usReadPos + n
        /\ Left(new) = Left(node) - n /\ Left(new) > 0
    BY <1>11, <1>c
  <2>5. Rest(new) = From(Rest(node), n) /\ Rest(new) \in Seq(Byte) /\ Len(Rest(new)) = Left(new)
    <3>1. node.usReadPos \in 0 .. Len(node.buf) /\ n \in 0 .. Len(node.buf) - node.usReadPos
      BY <1>3, <1>4
    <3>2. From(From(node.buf, node.usReadPos), n) = From(node.buf, node.usReadPos + n)
      BY <3>1, <1>3, FromOfFrom
    <3>3. Rest(new) \in Seq(Byte) /\ Len(Rest(new)) = Left(new)
      BY <2>4, NodeFields
    <3> QED BY <3>2, <3>3, <2>4 DEF Rest
  <2>6. /\ NodesOK(<<new>> \o rest)
        /\ Unread[<<new>> \o rest] = From(Contents(s), n)
        /\ Len(Unread[<<new>> \o rest]) = Left(new) + Len(Unread[rest])
        /\ Len(<<new>> \o rest) = 1 + Len(rest)
    <3>1. NodesOK(<<new>> \o rest)
      BY <2>4, <1>1, <1>5, NodesReplace DEF node, rest
    <3>2. Unread[<<new>> \o rest] = Rest(new) \o Unread[rest]
      BY <2>4, <1>5, UnreadCons
    <3>3. Len(Rest(new) \o Unread[rest]) = Len(Rest(new)) + Len(Unread[rest])
      BY <2>5, <1>5, ConcatProperties
    <3>4. Len(<<new>> \o rest) = Len(<<new>>) + Len(rest) /\ Len(<<new>>) = 1
      <4>1. <<new>> \in Seq(Node) /\ Len(<<new>>) = 1
        BY <2>4
      <4> QED BY <4>1, <1>5, ConcatProperties
    <3> QED BY <3>1, <3>2, <3>3, <3>4, <2>5, <1>8
  <2>7. /\ r.s.nodes = <<new>> \o rest /\ r.s.llSize = Len(Unread[<<new>> \o rest])
        /\ r.s \in Stream
    <3>1. s.llSize = Left(node) + Len(Unread[rest])
      BY <1>1, <1>6, <1>d DEF Contents
    <3>2. (s.llSize - Left(node)) + Left(new) = Left(new) + Len(Unread[rest])
      BY <3>1, <1>2, <1>4, <1>5, <2>4
    <3>3. <<new>> \o rest \in Seq(Node)
      BY <2>6 DEF NodesOK
    <3>4. Left(new) + Len(Unread[rest]) \in Int
      BY <1>2, <1>4, <1>5, <2>4
    <3> QED BY <2>2, <2>6, <3>2, <3>3, <3>4 DEF Stream
  <2>8. Sound(r.s) /\ Contents(r.s) = From(Contents(s), n)
    BY <2>6, <2>7, SoundStream DEF Contents
  <2>9. Len(r.s.nodes) <= Len(s.nodes)
    BY <2>6, <2>7, <1>2, <1>d
  <2> QED BY <2>3, <2>8, <2>9, <1>6, <1>7 DEF r
<1> QED BY <1>10, <1>11

(* The nodes but the last one.                                             *)
LEMMA NodesFront ==
  ASSUME NEW ns, NodesOK(ns), ns # <<>>
  PROVE  /\ Last(ns) \in Node /\ Last(ns) = ns[Len(ns)] /\ Len(ns) \in Nat \ {0}
         /\ Left(Last(ns)) \in Nat \ {0} /\ Room(Last(ns)) \in Nat
         /\ NodesOK(Front(ns)) /\ Len(Front(ns)) = Len(ns) - 1
         /\ Front(ns) # <<>> => /\ Last(ns).usReadPos = 0
                                /\ Room(Last(Front(ns))) = 0
         /\ Append(Front(ns), Last(ns)) = ns
<1> DEFINE fr == Front(ns)
           la == Last(ns)
<1>1. /\ ns \in Seq(Node)
      /\ \A k \in 1 .. Len(ns) : /\ Left(ns[k]) > 0 /\ Len(ns[k].buf) <= Cap
                                 /\ k > 1 => ns[k].usReadPos = 0
                                 /\ k < Len(ns) => Room(ns[k]) = 0
  BY DEF NodesOK
<1>2. Len(ns) \in Nat \ {0} /\ \A k \in 1 .. Len(ns) : ns[k] \in Node
  BY <1>1, EmptySeq, ElementOfSeq
<1>3. la = ns[Len(ns)] /\ Len(ns) \in 1 .. Len(ns)
  BY <1>2 DEF Last
<1>4. la \in Node /\ Left(la) \in Nat \ {0} /\ Room(la) \in Nat
  <2>1. la \in Node /\ Left(la) > 0 /\ Len(la.buf) <= Cap
    BY <1>1, <1>2, <1>3
  <2>2. Left(la) \in Int /\ Room(la) = Cap - Len(la.buf) /\ Len(la.buf) \in Nat
    BY <2>1, NodeFields
  <2> QED BY <2>1, <2>2, Sizes
<1>5. /\ fr \in Seq(Node) /\ Len(fr) = Len(ns) - 1
      /\ \A k \in 1 .. Len(ns) - 1 : fr[k] = ns[k]
  <2>1. 1 \in Int /\ Len(ns) - 1 \in Int /\ \A k \in 1 .. Len(ns) - 1 : ns[k] \in Node
    BY <1>2
  <2>2. fr = SubSeq(ns, 1, Len(ns) - 1)
    BY DEF Front
  <2> HIDE DEF fr
  <2>3. /\ fr \in Seq(Node)
        /\ Len(fr) = IF 1 <= Len(ns) - 1 THEN (Len(ns) - 1) - 1 + 1 ELSE 0
        /\ \A k \in 1 .. (Len(ns) - 1) - 1 + 1 : fr[k] = ns[1 + k - 1]
    BY <2>1, <2>2, SubSeqProperties
  <2>4. Len(fr) = Len(ns) - 1
    <3> DEFINE L == Len(ns)
               F == Len(fr)
    <3>1. L \in Nat /\ L # 0 /\ F = IF 1 <= L - 1 THEN (L - 1) - 1 + 1 ELSE 0
      BY <2>3, <1>2
    <3> HIDE DEF L, F
    <3>2. F = L - 1
      BY ONLY <3>1
    <3> QED BY <3>2 DEF L, F
  <2>5. ASSUME NEW k \in 1 .. Len(ns) - 1 PROVE fr[k] = ns[k]
    <3>1. 1 + k - 1 = k /\ k \in 1 .. (Len(ns) - 1) - 1 + 1
      BY <1>2
    <3> QED BY <3>1, <2>3
  <2> QED BY <2>3, <2>4, <2>5
<1> HIDE DEF fr, la
<1>6. NodesOK(fr)
  BY <1>1, <1>2, <1>5 DEF NodesOK
<1>7. ASSUME fr # <<>> PROVE la.usReadPos = 0 /\ Room(Last(fr)) = 0
  <2>1. Len(fr) > 0 /\ Len(fr) \in 1 .. Len(ns) - 1
    BY <1>7, <1>2, <1>5, EmptySeq
  <2>2. Last(fr) = ns[Len(fr)] /\ Len(fr) < Len(ns) /\ Len(fr) \in 1 .. Len(ns) /\ Len(ns) > 1
    BY <2>1, <1>2, <1>5 DEF Last
  <2> QED BY <2>2, <1>1, <1>2, <1>3
<1>8. Append(fr, la) = ns
  <2>1. /\ Append(fr, la) \in Seq(Node) /\ Len(Append(fr, la)) = Len(fr) + 1
        /\ \A k \in 1 .. Len(fr) : Append(fr, la)[k] = fr[k]
        /\ Append(fr, la)[Len(fr) + 1] = la
    BY <1>4, <1>5, AppendProperties
  <2>2. ASSUME NEW k \in 1 .. Len(ns) PROVE Append(fr, la)[k] = ns[k]
    <3>1. CASE k = Len(ns)
      BY <3>1, <2>1, <1>2, <1>3, <1>5
    <3>2. CASE k # Len(ns)
      BY <3>2, <2>1, <1>2, <1>5
    <3> QED BY <3>1, <3>2
  <2>3. Len(Append(fr, la)) = Len(ns)
    BY <2>1, <1>2, <1>5
  <2> QED BY <1>1, <2>1, <2>2, <2>3, SeqEqual
<1> QED BY <1>2, <1>3, <1>4, <1>5, <1>6, <1>7, <1>8 DEF fr, la

(* A node behind nodes that are full.                                      *)
LEMMA NodesAppend ==
  ASSUME NEW ns, NodesOK(ns), NEW n \in Node, Left(n) > 0, Len(n.buf) <= Cap,
         ns # <<>> => n.usReadPos = 0 /\ Room(Last(ns)) = 0
  PROVE  NodesOK(Append(ns, n)) /\ Last(Append(ns, n)) = n /\ Append(ns, n) # <<>>
<1> DEFINE c == Append(ns, n)
<1>1. /\ ns \in Seq(Node) /\ Len(ns) \in Nat
      /\ \A k \in 1 .. Len(ns) : /\ Left(ns[k]) > 0 /\ Len(ns[k].buf) <= Cap
                                 /\ k > 1 => ns[k].usReadPos = 0
                                 /\ k < Len(ns) => Room(ns[k]) = 0
  BY LenProperties DEF NodesOK
<1>2. /\ c \in Seq(Node) /\ Len(c) = Len(ns) + 1 /\ c # <<>>
      /\ \A k \in 1 .. Len(ns) : c[k] = ns[k]
      /\ c[Len(ns) + 1] = n
  BY <1>1, AppendProperties
<1> HIDE DEF c
<1>3. ASSUME NEW k \in 1 .. Len(c)
      PROVE  /\ Left(c[k]) > 0 /\ Len(c[k].buf) <= Cap
             /\ k > 1 => c[k].usReadPos = 0
             /\ k < Len(c) => Room(c[k]) = 0
  <2>1. CASE k = Len(ns) + 1
    <3>1. k > 1 => ns # <<>>
      BY <2>1, <1>1, EmptySeq
    <3> QED BY <2>1, <3>1, <1>1, <1>2
  <2>2. CASE k = Len(ns)
    <3>1. ns # <<>> /\ Last(ns) = ns[k] /\ k \in 1 .. Len(ns)
      BY <2>2, <1>1, <1>2, EmptySeq DEF Last
    <3> QED BY <3>1, <1>1, <1>2
  <2>3. CASE k < Len(ns)
    BY <2>3, <1>1, <1>2
  <2> QED BY <2>1, <2>2, <2>3, <1>1, <1>2
<1>4. Last(c) = n
  BY <1>1, <1>2 DEF Last
<1> QED BY <1>2, <1>3, <1>4 DEF NodesOK, c

(* SeNetSreamTailAdd and SeNetSreamTailPop of sound streams.               *)
LEMMA TailAddSound ==
  ASSUME NEW q, Sound(q), NEW n \in Node, Left(n) > 0, Len(n.buf) <= Cap,
         q.nodes # <<>> => n.usReadPos = 0 /\ Room(Last(q.nodes)) = 0
  PROVE  /\ Sound(TailAdd(q, n))
         /\ Contents(TailAdd(q, n)) = Contents(q) \o Rest(n)
         /\ TailAdd(q, n).nodes # <<>> /\ Last(TailAdd(q, n).nodes) = n
<1> DEFINE c == TailAdd(q, n)
<1>1. q \in Stream /\ NodesOK(q.nodes) /\ q.llSize = Len(Unread[q.nodes]) /\ q.nodes \in Seq(Node)
  BY SoundStream DEF NodesOK
<1>2. c.nodes = Append(q.nodes, n) /\ c.llSize = q.llSize + Left(n)
  BY DEF TailAdd
<1>3. NodesOK(c.nodes) /\ Last(c.nodes) = n /\ c.nodes # <<>>
  BY <1>1, <1>2, NodesAppend
<1>4. Unread[c.nodes] = Unread[q.nodes] \o Rest(n)
  BY <1>1, <1>2, UnreadAppend
<1>5. /\ Rest(n) \in Seq(Byte) /\ Len(Rest(n)) = Left(n) /\ Left(n) \in Int
      /\ Unread[q.nodes] \in Seq(Byte) /\ Len(Unread[q.nodes]) \in Nat
  BY <1>1, NodeFields, UnreadDef, LenProperties
<1>6. Len(Unread[q.nodes] \o Rest(n)) = Len(Unread[q.nodes]) + Len(Rest(n))
  BY <1>5, ConcatProperties
<1>7. c \in Stream
  <2>1. c = [nodes |-> Append(q.nodes, n), llSize |-> q.llSize + Left(n)]
    BY DEF TailAdd
  <2>2. Append(q.nodes, n) \in Seq(Node) /\ q.llSize + Left(n) \in Int
    BY <1>1, <1>5, AppendProperties
  <2> QED BY <2>1, <2>2 DEF Stream
<1> HIDE DEF c
<1>8. Sound(c)
  BY <1>1, <1>2, <1>3, <1>4, <1>5, <1>6, <1>7, SoundStream
<1>9. Contents(c) = Contents(q) \o Rest(n)
  BY <1>4 DEF Contents
<1> QED BY <1>3, <1>8, <1>9 DEF c

LEMMA TailPopSound ==
  ASSUME NEW s, Sound(s), s.nodes # <<>>
  PROVE  /\ Sound(TailPop(s))
         /\ TailPop(s).nodes = Front(s.nodes)
         /\ Contents(s) = Contents(TailPop(s)) \o Rest(Last(s.nodes))
<1> DEFINE q  == TailPop(s)
           la == Last(s.nodes)
<1>1. s \in Stream /\ NodesOK(s.nodes) /\ s.llSize = Len(Unread[s.nodes])
  BY SoundStream
<1>2. /\ la \in Node /\ Left(la) \in Nat \ {0} /\ NodesOK(Front(s.nodes))
      /\ Append(Front(s.nodes), la) = s.nodes
  BY <1>1, NodesFront
<1>3. Front(s.nodes) \in Seq(Node)
  BY <1>2 DEF NodesOK
<1>4. q.nodes = Front(s.nodes) /\ q.llSize = s.llSize - Left(la)
  BY DEF TailPop
<1>5. Unread[s.nodes] = Unread[q.nodes] \o Rest(la)
  <2>1. Unread[Append(Front(s.nodes), la)] = Unread[Front(s.nodes)] \o Rest(la)
    BY <1>2, <1>3, UnreadAppend
  <2> QED BY <2>1, <1>2, <1>4
<1>6. /\ Rest(la) \in Seq(Byte) /\ Len(Rest(la)) = Left(la)
      /\ Unread[q.nodes] \in Seq(Byte) /\ Len(Unread[q.nodes]) \in Nat
  BY <1>2, <1>3, <1>4, NodeFields, UnreadDef, LenProperties
<1>7. Len(Unread[q.nodes] \o Rest(la)) = Len(Unread[q.nodes]) + Len(Rest(la))
  BY <1>6, ConcatProperties
<1>8. q.llSize = Len(Unread[q.nodes])
  BY <1>1, <1>2, <1>4, <1>5, <1>6, <1>7
<1>9. q \in Stream
  <2>1. q = [nodes |-> Front(s.nodes), llSize |-> s.llSize - Left(la)]
    BY DEF TailPop
  <2>2. s.llSize - Left(la) \in Int
    BY <1>4, <1>6, <1>8
  <2> QED BY <2>1, <2>2, <1>3 DEF Stream
<1> HIDE DEF q, la
<1>10. Sound(q)
  BY <1>2, <1>4, <1>8, <1>9, SoundStream
<1> QED BY <1>4, <1>5, <1>10 DEF Contents, q, la

(* The bytes that can still be written: in the last node of the stream and *)
(* in the nodes of the pool.                                               *)
Space(s, pool) == pool * Cap + IF s.nodes = <<>> THEN 0 ELSE Room(Last(s.nodes))

LEMMA SpaceNat ==
  ASSUME NEW s, Sound(s), NEW pool \in Nat
  PROVE  Space(s, pool) \in Nat /\ Space(s, pool) >= pool * Cap
<1>1. NodesOK(s.nodes)
  BY SoundStream
<1>2. s.nodes # <<>> => Room(Last(s.nodes)) \in Nat
  BY <1>1, NodesFront
<1>3. pool * Cap \in Nat
  BY Sizes
<1> QED BY <1>2, <1>3 DEF Space

(* The node a write fills next has room, unless there is no space at all.  *)
LEMMA WritableRoom ==
  ASSUME NEW s, Sound(s), NEW pool \in Nat
  PROVE  LET w == Writable(s, pool) IN
         \/ w.ok = TRUE /\ Room(w.node) \in Nat \ {0} /\ w.pool \in Nat
         \/ w.ok = FALSE /\ Space(s, pool) = 0
<1> DEFINE w == Writable(s, pool)
<1>1. NodesOK(s.nodes)
  BY SoundStream
<1>2. s.nodes # <<>> => Room(Last(s.nodes)) \in Nat
  BY <1>1, NodesFront
<1>3. CASE s.nodes # <<>> /\ Room(Last(s.nodes)) > 0
  <2>1. w.ok = TRUE /\ w.node = Last(s.nodes) /\ w.pool = pool
    BY <1>3 DEF Writable
  <2> HIDE DEF w
  <2>2. w.ok = TRUE /\ Room(w.node) \in Nat \ {0} /\ w.pool \in Nat
    BY <2>1, <1>2, <1>3
  <2> QED BY <2>2 DEF w
<1>4. CASE ~(s.nodes # <<>> /\ Room(Last(s.nodes)) > 0)
  <2>1. w = [ok |-> pool > 0, node |-> FreshNode, rest |-> s, pool |-> pool - 1]
    BY <1>4 DEF Writable
  <2> HIDE DEF w
  <2>2. Room(FreshNode) = Cap
    BY EmptySeq, Sizes DEF FreshNode, Room
  <2>3. CASE pool > 0
    <3>1. (pool > 0) = TRUE
      BY <2>3, Zenon
    <3>2. w = [ok |-> TRUE, node |-> FreshNode, rest |-> s, pool |-> pool - 1]
      BY <2>1, <3>1, Zenon
    <3>3. w.ok = TRUE /\ Room(w.node) \in Nat \ {0} /\ w.pool \in Nat
      BY <3>2, <2>2, <2>3, Sizes
    <3> QED BY <3>3 DEF w
  <2>4. CASE ~(pool > 0)
    <3>0. (pool > 0) = FALSE
      BY <2>4
    <3>a. w = [ok |-> FALSE, node |-> FreshNode, rest |-> s, pool |-> pool - 1]
      BY <2>1, <3>0, Zenon
    <3>1. w.ok = FALSE
      BY <3>a
    <3>2. Space(s, pool) = 0
      BY <2>4, <1>2, <1>4, Sizes DEF Space
    <3> QED BY <3>1, <3>2 DEF w
  <2> QED BY <2>3, <2>4
<1> QED BY <1>3, <1>4

(* m is n with more bytes written to it.                                   *)
Longer(m, n, bytes) == m = [n EXCEPT !.buf = @ \o bytes]

LEMMA NodeFilled ==
  ASSUME NEW n \in Node, Left(n) >= 0, NEW bytes \in Seq(Byte),
         NEW m, Longer(m, n, bytes)
  PROVE  /\ m \in Node /\ m.usReadPos = n.usReadPos
         /\ Left(m) = Left(n) + Len(bytes) /\ Room(m) = Room(n) - Len(bytes)
         /\ Len(m.buf) = Len(n.buf) + Len(bytes)
         /\ Rest(m) = Rest(n) \o bytes
<1>1. /\ n.buf \in Seq(Byte) /\ n.usReadPos \in Nat /\ Len(n.buf) \in Nat
      /\ Left(n) = Len(n.buf) - n.usReadPos /\ Room(n) = Cap - Len(n.buf)
      /\ Len(bytes) \in Nat
  BY NodeFields, LenProperties DEF Left
<1>2. n.buf \o bytes \in Seq(Byte) /\ Len(n.buf \o bytes) = Len(n.buf) + Len(bytes)
  BY <1>1, ConcatProperties
<1>3. m.buf = n.buf \o bytes /\ m.usReadPos = n.usReadPos /\ m \in Node
  BY <1>1, <1>2 DEF Node, Longer
<1>4. /\ Left(m) = Left(n) + Len(bytes) /\ Room(m) = Room(n) - Len(bytes)
      /\ Len(m.buf) = Len(n.buf) + Len(bytes)
  <2>1. Len(m.buf) = Len(n.buf) + Len(bytes)
    BY <1>2, <1>3
  <2>2. Left(m) = Len(m.buf) - m.usReadPos /\ Room(m) = Cap - Len(m.buf)
    BY DEF Left, Room
  <2> QED BY <2>1, <2>2, <1>1, <1>3, Sizes
<1>5. Rest(m) = Rest(n) \o bytes
  <2>1. n.usReadPos \in 0 .. Len(n.buf)
    BY <1>1
  <2>2. From(n.buf \o bytes, n.usReadPos) = From(n.buf, n.usReadPos) \o bytes
    BY <2>1, <1>1, FromOfConcat
  <2> QED BY <2>2, <1>3 DEF Rest
<1> QED BY <1>3, <1>4, <1>5

(* One round of SeNetSreamWriteLen, and of SeNetCoreRecvBuf: the bytes end *)
(* up behind those of the stream, and take as much space as they are long. *)
LEMMA FilledAdds ==
  ASSUME NEW s, Sound(s), NEW pool \in Nat, Writable(s, pool).ok = TRUE,
         NEW bytes \in Seq(Byte), Len(bytes) \in 1 .. Room(Writable(s, pool).node)
  PROVE  LET w == Writable(s, pool)
             f == Filled(w, bytes)
         IN /\ Sound(f) /\ w.pool \in Nat
            /\ Contents(f) = Contents(s) \o bytes
            /\ Space(f, w.pool) = Space(s, pool) - Len(bytes)
<1> DEFINE w  == Writable(s, pool)
           f  == Filled(w, bytes)
           la == Last(s.nodes)
           m  == [w.node EXCEPT !.buf = @ \o bytes]
<1>1. NodesOK(s.nodes) /\ s.nodes \in Seq(Node) /\ Contents(s) \in Seq(Byte)
  <2>1. NodesOK(s.nodes) /\ s.nodes \in Seq(Node)
    BY SoundStream DEF NodesOK
  <2> QED BY <2>1, UnreadDef DEF Contents
<1>2. w.pool \in Nat
  <2> HIDE DEF w
  <2>1. \/ w.ok = TRUE /\ Room(w.node) \in Nat \ {0} /\ w.pool \in Nat
        \/ w.ok = FALSE /\ Space(s, pool) = 0
    BY WritableRoom DEF w
  <2>2. w.ok = TRUE
    BY DEF w
  <2> QED BY <2>1, <2>2
<1>3. f = TailAdd(w.rest, m)
  BY DEF Filled
<1>4. Len(bytes) \in Nat /\ Len(bytes) > 0 /\ Len(bytes) \in 1 .. Room(w.node)
  BY LenProperties
<1>5. CASE s.nodes # <<>> /\ Room(la) > 0
  <2>1. w.node = la /\ w.rest = TailPop(s) /\ w.pool = pool
    BY <1>5 DEF Writable
  <2>2. /\ la \in Node /\ Left(la) \in Nat \ {0} /\ Room(la) \in Nat /\ Len(la.buf) \in Nat
        /\ Rest(la) \in Seq(Byte)
        /\ Front(s.nodes) # <<>> => la.usReadPos = 0 /\ Room(Last(Front(s.nodes))) = 0
    BY <1>1, <1>5, NodesFront, NodeFields
  <2>3. /\ Sound(TailPop(s)) /\ TailPop(s).nodes = Front(s.nodes)
        /\ Contents(s) = Contents(TailPop(s)) \o Rest(la)
    BY <1>5, TailPopSound
  <2>4. /\ m \in Node /\ m.usReadPos = la.usReadPos
        /\ Left(m) = Left(la) + Len(bytes) /\ Room(m) = Room(la) - Len(bytes)
        /\ Rest(m) = Rest(la) \o bytes
    <3>1. Longer(m, la, bytes)
      BY <2>1 DEF Longer
    <3> HIDE DEF m, la
    <3>2. Left(la) >= 0
      BY <2>2
    <3> QED BY <3>1, <3>2, <2>2, NodeFilled
  <2> HIDE DEF m, la, w, f
  <2>5. Left(m) > 0 /\ Len(m.buf) <= Cap
    <3>1. Room(m) = Cap - Len(m.buf) /\ Len(m.buf) \in Nat
      BY <2>4, NodeFields
    <3> QED BY <3>1, <2>1, <2>2, <2>4, <1>4, Sizes
  <2>6. /\ Sound(f) /\ Contents(f) = Contents(TailPop(s)) \o Rest(m)
        /\ f.nodes # <<>> /\ Last(f.nodes) = m
    <3>1. f = TailAdd(TailPop(s), m)
      BY <1>3, <2>1
    <3>2. TailPop(s).nodes # <<>> => m.usReadPos = 0 /\ Room(Last(TailPop(s).nodes)) = 0
      BY <2>2, <2>3, <2>4
    <3> QED BY <3>1, <3>2, <2>3, <2>4, <2>5, TailAddSound
  <2>7. Contents(f) = Contents(s) \o bytes
    <3>1. Contents(TailPop(s)) \in Seq(Byte)
      <4>1. TailPop(s).nodes \in Seq(Node)
        BY <2>3, SoundStream DEF NodesOK
      <4> QED BY <4>1, UnreadDef DEF Contents
    <3>2. Contents(TailPop(s)) \o (Rest(la) \o bytes) = (Contents(TailPop(s)) \o Rest(la)) \o bytes
      BY <3>1, <2>2, Grouping
    <3> QED BY <3>2, <2>3, <2>4, <2>6
  <2>8. Space(f, w.pool) = Space(s, pool) - Len(bytes)
    <3>1. Space(f, w.pool) = pool * Cap + Room(m)
      BY <2>1, <2>6 DEF Space
    <3>2. Space(s, pool) = pool * Cap + Room(la)
      BY <1>5 DEF Space, la
    <3>3. pool * Cap \in Nat
      BY Sizes
    <3> QED BY <3>1, <3>2, <3>3, <2>2, <2>4, <1>4
  <2> QED BY <1>2, <2>6, <2>7, <2>8 DEF w, f
<1>6. CASE ~(s.nodes # <<>> /\ Room(la) > 0)
  <2>1. w.node = FreshNode /\ w.rest = s /\ w.pool = pool - 1
    BY <1>6 DEF Writable
  <2>2. /\ FreshNode \in Node /\ Left(FreshNode) = 0 /\ Room(FreshNode) = Cap
        /\ FreshNode.usReadPos = 0
        /\ Rest(FreshNode) = <<>>
    <3>1. FreshNode.buf = <<>> /\ FreshNode.usReadPos = 0 /\ FreshNode \in Node
      BY EmptySeq DEF FreshNode, Node
    <3>2. From(<<>>, 0) = <<>> /\ Len(<<>>) = 0
      BY FromEnds, EmptySeq
    <3> QED BY <3>1, <3>2, Sizes DEF Left, Room, Rest
  <2>3. s.nodes # <<>> => Room(la) = 0
    <3>1. s.nodes # <<>> => Room(la) \in Nat
      BY <1>1, NodesFront
    <3> QED BY <3>1, <1>6
  <2>4. /\ m \in Node /\ m.usReadPos = 0
        /\ Left(m) = Len(bytes) /\ Room(m) = Cap - Len(bytes)
        /\ Rest(m) = bytes
    <3>1. /\ m \in Node /\ m.usReadPos = FreshNode.usReadPos
          /\ Left(m) = Left(FreshNode) + Len(bytes) /\ Room(m) = Room(FreshNode) - Len(bytes)
          /\ Rest(m) = Rest(FreshNode) \o bytes
      <4>1. Longer(m, FreshNode, bytes)
        BY <2>1 DEF Longer
      <4> HIDE DEF m
      <4>2. Left(FreshNode) >= 0
        BY <2>2
      <4> QED BY <4>1, <4>2, <2>2, NodeFilled
    <3>2. <<>> \o bytes = bytes
      BY ConcatEmptySeq
    <3> HIDE DEF m
    <3> QED BY <3>1, <3>2, <2>2, <1>4
  <2>5. Len(bytes) <= Cap
    BY <2>1, <2>2, <1>4
  <2> HIDE DEF m, la, w, f
  <2>6. Left(m) > 0 /\ Len(m.buf) <= Cap
    <3>1. Room(m) = Cap - Len(m.buf) /\ Len(m.buf) \in Nat
      BY <2>4, NodeFields
    <3> QED BY <3>1, <2>4, <2>5, <1>4, Sizes
  <2>7. /\ Sound(f) /\ Contents(f) = Contents(s) \o Rest(m)
        /\ f.nodes # <<>> /\ Last(f.nodes) = m
    BY <1>3, <2>1, <2>3, <2>4, <2>6, TailAddSound DEF la
  <2>8. Space(f, w.pool) = Space(s, pool) - Len(bytes)
    <3>1. Space(f, w.pool) = (pool - 1) * Cap + Room(m)
      BY <2>1, <2>7 DEF Space
    <3>2. Space(s, pool) = pool * Cap
      BY <2>3, Sizes DEF Space, la
    <3>3. (pool - 1) * Cap = pool * Cap - Cap /\ pool * Cap \in Nat
      BY Sizes
    <3> QED BY <3>1, <3>2, <3>3, <2>4, <1>4, Sizes
  <2> QED BY <1>2, <2>4, <2>7, <2>8 DEF w, f
<1> QED BY <1>5, <1>6

-----------------------------------------------------------------------------
(* SeNetSreamWriteLen.                                                     *)

(* What a call returns.                                                    *)
Results == [ok : BOOLEAN, s : Stream, pool : Nat, bytes : Seq(Byte)]

LEMMA ResultType ==
  ASSUME NEW ok \in BOOLEAN, NEW s \in Stream, NEW pool \in Nat, NEW bytes \in Seq(Byte)
  PROVE  /\ Result(ok, s, pool, bytes) \in Results
         /\ Result(ok, s, pool, bytes).ok = ok /\ Result(ok, s, pool, bytes).s = s
         /\ Result(ok, s, pool, bytes).pool = pool
         /\ Result(ok, s, pool, bytes).bytes = bytes
BY DEF Result, Results

(* Writable and Filled of any stream, sound or not.                        *)
LEMMA WritableType ==
  ASSUME NEW s \in Stream, NEW pool \in Nat
  PROVE  LET w == Writable(s, pool) IN
         \/ w.ok = FALSE
         \/ /\ w.ok = TRUE /\ w.node \in Node /\ Room(w.node) \in Nat \ {0}
            /\ w.rest \in Stream /\ w.pool \in Nat
<1> DEFINE w == Writable(s, pool)
<1>1. s.nodes \in Seq(Node) /\ s.llSize \in Int
  BY DEF Stream
<1>2. CASE s.nodes # <<>> /\ Room(Last(s.nodes)) > 0
  <2>1. w = [ok |-> TRUE, node |-> Last(s.nodes), rest |-> TailPop(s), pool |-> pool]
    BY <1>2 DEF Writable
  <2>2. Len(s.nodes) \in Nat \ {0} /\ \A k \in 1 .. Len(s.nodes) : s.nodes[k] \in Node
    BY <1>1, <1>2, EmptySeq, ElementOfSeq
  <2>3. Last(s.nodes) \in Node
    BY <2>2 DEF Last
  <2>4. Room(Last(s.nodes)) \in Nat \ {0} /\ Left(Last(s.nodes)) \in Int
    BY <2>3, <1>2, NodeFields, Sizes
  <2>5. Front(s.nodes) \in Seq(Node)
    <3>1. 1 \in Int /\ Len(s.nodes) - 1 \in Int /\ \A k \in 1 .. Len(s.nodes) - 1 : s.nodes[k] \in Node
      BY <2>2
    <3> QED BY <3>1, SubSeqProperties DEF Front
  <2>6. TailPop(s) \in Stream
    BY <1>1, <2>4, <2>5 DEF TailPop, Stream
  <2> HIDE DEF w
  <2>7. w.ok = TRUE /\ w.node \in Node /\ Room(w.node) \in Nat \ {0} /\ w.rest \in Stream /\ w.pool \in Nat
    BY <2>1, <2>3, <2>4, <2>6
  <2> QED BY <2>7 DEF w
<1>3. CASE ~(s.nodes # <<>> /\ Room(Last(s.nodes)) > 0)
  <2>1. w = [ok |-> pool > 0, node |-> FreshNode, rest |-> s, pool |-> pool - 1]
    BY <1>3 DEF Writable
  <2> HIDE DEF w
  <2>2. Room(FreshNode) = Cap /\ FreshNode \in Node
    BY EmptySeq, Sizes DEF FreshNode, Room, Node
  <2>3. CASE pool > 0
    <3>1. (pool > 0) = TRUE
      BY <2>3, Zenon
    <3>2. w = [ok |-> TRUE, node |-> FreshNode, rest |-> s, pool |-> pool - 1]
      BY <2>1, <3>1, Zenon
    <3>3. w.ok = TRUE /\ w.node \in Node /\ Room(w.node) \in Nat \ {0} /\ w.rest \in Stream /\ w.pool \in Nat
      BY <3>2, <2>2, <2>3, Sizes
    <3> QED BY <3>3 DEF w
  <2>4. CASE ~(pool > 0)
    <3>1. (pool > 0) = FALSE
      BY <2>4
    <3>2. w = [ok |-> FALSE, node |-> FreshNode, rest |-> s, pool |-> pool - 1]
      BY <2>1, <3>1, Zenon
    <3>3. w.ok = FALSE
      BY <3>2
    <3> QED BY <3>3 DEF w
  <2> QED BY <2>3, <2>4
<1> QED BY <1>2, <1>3

LEMMA FilledType ==
  ASSUME NEW w, w.node \in Node, w.rest \in Stream, NEW bytes \in Seq(Byte)
  PROVE  Filled(w, bytes) \in Stream
<1> DEFINE m == [w.node EXCEPT !.buf = @ \o bytes]
<1>1. m \in Node
  <2>1. w.node \in [buf : Seq(Byte), usReadPos : Nat]
    BY DEF Node
  <2>2. w.node.buf \o bytes \in Seq(Byte)
    BY <2>1, ConcatProperties
  <2> QED BY <2>1, <2>2 DEF Node
<1>2. Filled(w, bytes) = [nodes |-> Append(w.rest.nodes, m), llSize |-> w.rest.llSize + Left(m)]
  BY DEF Filled, TailAdd
<1> HIDE DEF m
<1>3. Append(w.rest.nodes, m) \in Seq(Node) /\ w.rest.llSize + Left(m) \in Int
  <2>1. w.rest.nodes \in Seq(Node) /\ w.rest.llSize \in Int /\ Left(m) \in Int
    BY <1>1, NodeFields DEF Stream
  <2> QED BY <2>1, <1>1, AppendProperties
<1> QED BY <1>2, <1>3 DEF Stream

(* The arguments of SeNetSreamWriteLen, and what one round makes of them.  *)
Writes    == Stream \X Nat \X Seq(Byte)
CopyLen(c) == Lesser(Room(Writable(c[1], c[2]).node), Len(c[3]))
Round(c)  == <<Filled(Writable(c[1], c[2]), SubSeq(c[3], 1, CopyLen(c))),
               Writable(c[1], c[2]).pool, From(c[3], CopyLen(c))>>

LEMMA RoundType ==
  ASSUME NEW c \in Writes, c[3] # <<>>, Writable(c[1], c[2]).ok = TRUE
  PROVE  /\ Round(c) \in Writes /\ Len(c[3]) \in Nat /\ Len(Round(c)[3]) \in Nat
         /\ Len(Round(c)[3]) < Len(c[3])
         /\ CopyLen(c) \in 1 .. Len(c[3]) /\ CopyLen(c) <= Room(Writable(c[1], c[2]).node)
<1> DEFINE w == Writable(c[1], c[2])
           n == CopyLen(c)
<1>1. c[1] \in Stream /\ c[2] \in Nat /\ c[3] \in Seq(Byte) /\ Len(c[3]) \in Nat \ {0}
  BY EmptySeq DEF Writes
<1>2. /\ w.node \in Node /\ Room(w.node) \in Nat \ {0}
      /\ w.rest \in Stream /\ w.pool \in Nat
  BY <1>1, WritableType
<1> HIDE DEF w
<1>3. n \in 1 .. Len(c[3]) /\ n <= Room(w.node)
  BY <1>1, <1>2 DEF CopyLen, Lesser, w
<1> HIDE DEF n
<1>4. SubSeq(c[3], 1, n) \in Seq(Byte)
  BY <1>1, <1>3, PrefixProperties
<1>5. From(c[3], n) \in Seq(Byte) /\ Len(From(c[3], n)) = Len(c[3]) - n
  <2>1. c[3] \in Seq(Byte) /\ n \in Nat /\ n <= Len(c[3])
    BY <1>1, <1>3
  <2> QED BY ONLY <2>1, FromProperties
<1>6. Filled(w, SubSeq(c[3], 1, n)) \in Stream
  BY <1>2, <1>4, FilledType
<1>7. Round(c) = <<Filled(w, SubSeq(c[3], 1, n)), w.pool, From(c[3], n)>>
  BY DEF Round, w, n
<1> QED BY <1>1, <1>2, <1>3, <1>5, <1>6, <1>7 DEF Writes, n, w

(* What WriteLen, defined by recursion over the bytes, is.                 *)
LEMMA WriteLenDef ==
  /\ WriteLen \in [Writes -> Results]
  /\ \A c \in Writes :
       /\ c[3] = <<>> => WriteLen[c] = Result(TRUE, c[1], c[2], <<>>)
       /\ c[3] # <<>> /\ Writable(c[1], c[2]).ok = FALSE =>
            WriteLen[c] = Result(FALSE, c[1], c[2], <<>>)
       /\ c[3] # <<>> /\ Writable(c[1], c[2]).ok = TRUE => WriteLen[c] = WriteLen[Round(c)]
<1> DEFINE X == Writes
           V == Results
           m == [c \in X |-> Len(c[3])]
           stop == {c \in X : c[3] = <<>> \/ Writable(c[1], c[2]).ok = FALSE}
           end == [c \in X |-> IF c[3] = <<>> THEN Result(TRUE, c[1], c[2], <<>>)
                               ELSE Result(FALSE, c[1], c[2], <<>>)]
           step == [c \in X |-> IF c \in stop THEN c ELSE Round(c)]
           comb == [p \in X \X V |-> p[2]]
           P(g) == g = [c \in X |-> IF c[3] = <<>> THEN Result(TRUE, c[1], c[2], <<>>)
                                    ELSE IF ~Writable(c[1], c[2]).ok
                                      THEN Result(FALSE, c[1], c[2], <<>>)
                                    ELSE g[Round(c)]]
<1>1. \A c \in X : /\ c[1] \in Stream /\ c[2] \in Nat /\ c[3] \in Seq(Byte) /\ Len(c[3]) \in Nat
                   /\ \/ Writable(c[1], c[2]).ok = TRUE /\ ~(Writable(c[1], c[2]).ok = FALSE)
                      \/ Writable(c[1], c[2]).ok = FALSE
  <2> SUFFICES ASSUME NEW c \in X
               PROVE  /\ c[1] \in Stream /\ c[2] \in Nat /\ c[3] \in Seq(Byte) /\ Len(c[3]) \in Nat
                      /\ \/ Writable(c[1], c[2]).ok = TRUE /\ ~(Writable(c[1], c[2]).ok = FALSE)
                         \/ Writable(c[1], c[2]).ok = FALSE
    OBVIOUS
  <2>1. c[1] \in Stream /\ c[2] \in Nat /\ c[3] \in Seq(Byte) /\ Len(c[3]) \in Nat
    BY LenProperties DEF Writes
  <2>2. Writable(c[1], c[2]).ok = TRUE \/ Writable(c[1], c[2]).ok = FALSE
    BY <2>1, WritableType
  <2> QED BY <2>1, <2>2
<1>2. \A c \in X : c \notin stop => /\ c[3] # <<>> /\ Writable(c[1], c[2]).ok = TRUE
                                    /\ Round(c) \in X /\ Len(Round(c)[3]) < Len(c[3])
  BY <1>1, RoundType
<1>3. m \in [X -> Nat] /\ step \in [X -> X] /\ comb \in [X \X V -> V]
  BY <1>1, <1>2
<1>4. end \in [X -> V]
  BY <1>1, EmptySeq, ResultType
<1>5. \A c \in X : c \notin stop => m[step[c]] < m[c]
  BY <1>1, <1>2
<1>6. Recursive(X, V, m, stop, end, step, comb)
  BY <1>3, <1>4, <1>5 DEF Recursive
<1>7. PICK f : Solves(X, V, stop, end, step, comb, f)
  <2> HIDE DEF X, V, m, stop, end, step, comb
  <2> QED BY <1>6, Recursion
<1>8. f \in [X -> V] /\ \A c \in X : f[c] = Value(stop, end, comb, c, f[step[c]])
  BY <1>7 DEF Solves
<1>9. ASSUME NEW c \in X
      PROVE  f[c] = IF c[3] = <<>> THEN Result(TRUE, c[1], c[2], <<>>)
                    ELSE IF ~Writable(c[1], c[2]).ok
                      THEN Result(FALSE, c[1], c[2], <<>>)
                    ELSE f[Round(c)]
  <2>1. CASE c[3] = <<>>
    BY <2>1, <1>8 DEF Value
  <2>2. CASE c[3] # <<>> /\ Writable(c[1], c[2]).ok = FALSE
    <3>1. ~Writable(c[1], c[2]).ok
      BY <2>2
    <3> QED BY <2>2, <3>1, <1>8 DEF Value
  <2>3. CASE c[3] # <<>> /\ Writable(c[1], c[2]).ok = TRUE
    <3>1. c \notin stop /\ step[c] = Round(c) /\ Round(c) \in X
      BY <2>3, <1>1, <1>2
    <3>2. f[c] = comb[<<c, f[Round(c)]>>] /\ f[Round(c)] \in V
      BY <3>1, <1>8 DEF Value
    <3>3. f[c] = f[Round(c)]
      BY <3>2
    <3> QED BY <2>3, <3>3
  <2> QED BY <2>1, <2>2, <2>3, <1>1
<1>10. P(f)
  <2> HIDE DEF X
  <2> QED BY <1>8, <1>9
<1>11. P(WriteLen)
  <2>1. WriteLen = CHOOSE g : P(g)
    BY DEF WriteLen, Writes, Round, CopyLen
  <2>2. (\E g : P(g)) => P(CHOOSE g : P(g))
    <3> HIDE DEF P
    <3> QED OBVIOUS
  <2> QED BY <1>10, <2>1, <2>2, Zenon
<1>12. ASSUME NEW c \in X
       PROVE  /\ c[3] = <<>> => WriteLen[c] = Result(TRUE, c[1], c[2], <<>>)
              /\ c[3] # <<>> /\ Writable(c[1], c[2]).ok = FALSE =>
                   WriteLen[c] = Result(FALSE, c[1], c[2], <<>>)
              /\ c[3] # <<>> /\ Writable(c[1], c[2]).ok = TRUE => WriteLen[c] = WriteLen[Round(c)]
  BY <1>11
<1>13. \A c \in X : c \in stop \/ WriteLen[step[c]] \in V =>
                       WriteLen[c] = Value(stop, end, comb, c, WriteLen[step[c]])
  BY <1>2, <1>12 DEF Value
<1>14. \A c \in X : WriteLen[c] = f[c]
  <2> HIDE DEF X, V, stop, end, step, comb, P
  <2> QED BY <1>7, <1>13 DEF Solves
<1>15. WriteLen \in [X -> V]
  BY <1>8, <1>11, <1>14
<1> QED BY <1>12, <1>15

(* The call succeeded, and put the bytes behind those of the stream.       *)
Written(c, r) ==
  /\ r.ok = TRUE /\ Sound(r.s) /\ r.s \in Stream /\ r.pool \in Nat
  /\ Contents(r.s) = Contents(c[1]) \o c[3]
  /\ Space(r.s, r.pool) = Space(c[1], c[2]) - Len(c[3])

LEMMA RoundWrites ==
  ASSUME NEW c \in Writes, Sound(c[1]), c[3] # <<>>, Writable(c[1], c[2]).ok = TRUE
  PROVE  LET d == Round(c) IN
         /\ Sound(d[1])
         /\ Contents(d[1]) \o d[3] = Contents(c[1]) \o c[3]
         /\ Space(d[1], d[2]) - Len(d[3]) = Space(c[1], c[2]) - Len(c[3])
<1> DEFINE w == Writable(c[1], c[2])
           n == CopyLen(c)
           head == SubSeq(c[3], 1, n)
           d == Round(c)
<1>1. c[1] \in Stream /\ c[2] \in Nat /\ c[3] \in Seq(Byte) /\ Len(c[3]) \in Nat
  BY LenProperties DEF Writes
<1>2. n \in 1 .. Len(c[3]) /\ n \in 0 .. Len(c[3]) /\ n \in Nat /\ n <= Room(w.node)
  <2>1. n \in 1 .. Len(c[3]) /\ n <= Room(w.node)
    BY RoundType
  <2> HIDE DEF n, w
  <2> QED BY <2>1, <1>1
<1>3. d[1] = Filled(w, head) /\ d[2] = w.pool /\ d[3] = From(c[3], n)
  BY DEF Round
<1> HIDE DEF n, d
<1>4. head \in Seq(Byte) /\ Len(head) = n
  BY <1>1, <1>2, PrefixProperties
<1>5. Len(head) \in 1 .. Room(w.node)
  <2>1. Room(w.node) \in Nat
    BY <1>1, WritableType
  <2> HIDE DEF w, head
  <2> QED BY <2>1, <1>2, <1>4
<1> HIDE DEF head
<1>6. /\ Sound(Filled(w, head))
      /\ Contents(Filled(w, head)) = Contents(c[1]) \o head
      /\ Space(Filled(w, head), w.pool) = Space(c[1], c[2]) - Len(head)
  BY <1>1, <1>4, <1>5, FilledAdds
<1>7. d[3] \in Seq(Byte) /\ Len(d[3]) = Len(c[3]) - n
  <2>1. c[3] \in Seq(Byte) /\ n \in Nat /\ n <= Len(c[3])
    BY <1>1, <1>2
  <2>2. From(c[3], n) \in Seq(Byte) /\ Len(From(c[3], n)) = Len(c[3]) - n
    BY ONLY <2>1, FromProperties
  <2> QED BY <2>2, <1>3
<1>8. Contents(c[1]) \in Seq(Byte) /\ Space(c[1], c[2]) \in Nat
  <2>1. c[1].nodes \in Seq(Node)
    BY <1>1 DEF Stream
  <2> QED BY <2>1, <1>1, UnreadDef, SpaceNat DEF Contents
<1>9. head \o d[3] = c[3]
  <2>1. SubSeq(c[3], 1, n) \o From(c[3], n) = c[3]
    BY <1>1, <1>2, CutJoin
  <2> QED BY <2>1, <1>3 DEF head
<1>10. Contents(d[1]) \o d[3] = Contents(c[1]) \o c[3]
  <2>1. Contents(c[1]) \o (head \o d[3]) = (Contents(c[1]) \o head) \o d[3]
    BY <1>4, <1>7, <1>8, Grouping
  <2> QED BY <2>1, <1>3, <1>6, <1>9
<1>11. Space(d[1], d[2]) - Len(d[3]) = Space(c[1], c[2]) - Len(c[3])
  BY <1>1, <1>2, <1>3, <1>4, <1>6, <1>7, <1>8
<1> QED BY <1>3, <1>6, <1>10, <1>11 DEF d

(* SeNetSreamWriteLen of no more bytes than there is space for succeeds,   *)
(* and appends them: its assertions hold, no byte is lost or left out, and *)
(* the stream is sound again.                                              *)
THEOREM WriteLenAppends ==
  ASSUME NEW c \in Writes, Sound(c[1]), Len(c[3]) <= Space(c[1], c[2])
  PROVE  Written(c, WriteLen[c])
<1> DEFINE T == {k \in Nat : \A d \in Writes :
                   Len(d[3]) < k /\ Sound(d[1]) /\ Len(d[3]) <= Space(d[1], d[2])
                     => Written(d, WriteLen[d])}
<1>1. \A d \in Writes : /\ d[1] \in Stream /\ d[2] \in Nat /\ d[3] \in Seq(Byte) /\ Len(d[3]) \in Nat
  BY LenProperties DEF Writes
<1>2. 0 \in T
  BY <1>1
<1>3. ASSUME NEW k \in Nat, k \in T PROVE k + 1 \in T
  <2> SUFFICES ASSUME NEW d \in Writes, Len(d[3]) < k + 1, Sound(d[1]),
                      Len(d[3]) <= Space(d[1], d[2])
               PROVE  Written(d, WriteLen[d])
    OBVIOUS
  <2>1. d[1] \in Stream /\ d[2] \in Nat /\ d[3] \in Seq(Byte) /\ Len(d[3]) \in Nat
    BY <1>1
  <2>2. Contents(d[1]) \in Seq(Byte) /\ Space(d[1], d[2]) \in Nat
    <3>1. d[1].nodes \in Seq(Node)
      BY <2>1 DEF Stream
    <3> QED BY <3>1, <2>1, UnreadDef, SpaceNat DEF Contents
  <2>3. CASE d[3] = <<>>
    <3>1. WriteLen[d] = Result(TRUE, d[1], d[2], <<>>)
      BY <2>3, WriteLenDef
    <3>2. /\ WriteLen[d].ok = TRUE /\ WriteLen[d].s = d[1] /\ WriteLen[d].pool = d[2]
      BY <3>1 DEF Result
    <3>3. Contents(d[1]) \o d[3] = Contents(d[1]) /\ Len(d[3]) = 0
      BY <2>2, <2>3, ConcatEmptySeq, EmptySeq
    <3> QED BY <3>2, <3>3, <2>1, <2>2 DEF Written
  <2>4. CASE d[3] # <<>>
    <3>1. Len(d[3]) > 0
      BY <2>1, <2>4, EmptySeq
    <3>2. Writable(d[1], d[2]).ok = TRUE
      <4>1. Space(d[1], d[2]) # 0
        BY <3>1, <2>1, <2>2
      <4> QED BY <4>1, <2>1, WritableRoom
    <3>3. WriteLen[d] = WriteLen[Round(d)]
      BY <3>2, <2>4, WriteLenDef
    <3> DEFINE e == Round(d)
    <3>4. e \in Writes /\ Len(e[3]) \in Nat /\ Len(e[3]) < Len(d[3])
      BY <3>2, <2>4, RoundType
    <3>5. /\ Sound(e[1])
          /\ Contents(e[1]) \o e[3] = Contents(d[1]) \o d[3]
          /\ Space(e[1], e[2]) - Len(e[3]) = Space(d[1], d[2]) - Len(d[3])
      BY <3>2, <2>4, RoundWrites
    <3>6. Space(e[1], e[2]) \in Nat
      <4>1. e[2] \in Nat
        BY <3>4, <1>1
      <4> QED BY <4>1, <3>5, SpaceNat
    <3> HIDE DEF e
    <3>7. Len(e[3]) < k /\ Len(e[3]) <= Space(e[1], e[2])
      BY <3>4, <3>5, <3>6, <2>1, <2>2
    <3>8. Written(e, WriteLen[e])
      BY <3>4, <3>5, <3>7, <1>3
    <3>9. WriteLen[d] = WriteLen[e]
      BY <3>3 DEF e
    <3> QED BY <3>5, <3>8, <3>9 DEF Written
  <2> QED BY <2>3, <2>4
<1> HIDE DEF T
<1>4. Nat \subseteq T
  BY <1>2, <1>3, SetInduction
<1>5. Len(c[3]) + 1 \in T
  BY <1>1, <1>4
<1> QED BY <1>1, <1>5 DEF T

-----------------------------------------------------------------------------
(* SeNetSreamReadLen.                                                      *)

(* The arguments of its loop, the node a round reads, and what the round   *)
(* makes of the arguments.                                                 *)
Reads     == Stream \X Nat \X Nat \X Seq(Byte)
Copied(c) == Lesser(c[3], Left(Head(c[1].nodes)))
Turn(c)   == LET r == Taken(c[1], c[2], Copied(c)) IN
             <<r.s, r.pool, c[3] - Len(r.bytes), c[4] \o r.bytes>>
Unfinished(c) == c[3] + Len(c[1].nodes)

LEMMA InReads ==
  ASSUME NEW s \in Stream, NEW pool \in Nat, NEW n \in Nat, NEW got \in Seq(Byte)
  PROVE  <<s, pool, n, got>> \in Reads
BY DEF Reads

LEMMA TurnType ==
  ASSUME NEW c \in Reads, c[3] # 0, c[1].nodes # <<>>
  PROVE  Turn(c) \in Reads /\ Unfinished(Turn(c)) < Unfinished(c)
<1> DEFINE s    == c[1]
           ns   == s.nodes
           node == Head(ns)
           rest == Tail(ns)
           n    == c[3]
           k    == Copied(c)
           bytes == SubSeq(node.buf, node.usReadPos + 1, node.usReadPos + k)
           new  == [node EXCEPT !.usReadPos = @ + k]
           r    == Taken(s, c[2], k)
<1>1. s \in Stream /\ c[2] \in Nat /\ n \in Nat \ {0} /\ c[4] \in Seq(Byte)
  BY DEF Reads
<1>2. ns \in Seq(Node) /\ s.llSize \in Int
  BY <1>1 DEF Stream
<1>3. node \in Node /\ rest \in Seq(Node) /\ Len(rest) = Len(ns) - 1 /\ Len(ns) \in Nat
  BY <1>2, HeadTailProperties, LenProperties
<1>4. /\ node.buf \in Seq(Byte) /\ node.usReadPos \in Nat /\ Len(node.buf) \in Nat
      /\ Left(node) = Len(node.buf) - node.usReadPos /\ Left(node) \in Int
  BY <1>3, NodeFields DEF Left
<1>a. k = Left(node) => r = Result(TRUE, [nodes |-> rest, llSize |-> s.llSize - Left(node)],
                                   c[2] + 1, bytes)
  BY DEF Taken, HeadPop
<1>b. k # Left(node) => r = Result(TRUE, [nodes |-> <<new>> \o rest,
                                          llSize |-> (s.llSize - Left(node)) + Left(new)],
                                   c[2], bytes)
  BY DEF Taken, HeadPop, HeadAdd
<1>c. k = IF n < Left(node) THEN n ELSE Left(node)
  BY DEF Copied, Lesser
<1>d. Turn(c) = <<r.s, r.pool, n - Len(r.bytes), c[4] \o r.bytes>>
  BY DEF Turn
<1>e. Unfinished(c) = n + Len(ns)
  BY DEF Unfinished
<1>f. s.nodes = ns /\ node.usReadPos \in Nat /\ node \in [buf : Seq(Byte), usReadPos : Nat]
  BY <1>3, <1>4 DEF Node
<1>g. bytes = SubSeq(node.buf, node.usReadPos + 1, node.usReadPos + k)
  OBVIOUS
<1>h. k \in Nat => new \in Node
  <2> HIDE DEF node, k
  <2> QED BY <1>f DEF Node
<1> HIDE DEF s, ns, node, rest, n, k, bytes, new, r
<1>5. CASE n < Left(node)
  <2>1. k = n /\ k # Left(node) /\ node.usReadPos + k <= Len(node.buf) /\ k \in Nat
    BY <1>5, <1>1, <1>4, <1>c
  <2>2. bytes \in Seq(Byte) /\ Len(bytes) = n
    <3>1. From(node.buf, node.usReadPos) \in Seq(Byte)
          /\ Len(From(node.buf, node.usReadPos)) = Len(node.buf) - node.usReadPos
      <4>1. node.buf \in Seq(Byte) /\ node.usReadPos \in Nat /\ node.usReadPos <= Len(node.buf)
            /\ Len(node.buf) \in Nat
        BY <2>1, <1>4, <1>1
      <4> QED BY ONLY <4>1, FromProperties
    <3>2. bytes = SubSeq(From(node.buf, node.usReadPos), 1, k)
      BY <2>1, <1>4, <1>g, SliceOfFrom
    <3>3. k \in 0 .. Len(From(node.buf, node.usReadPos))
      BY <2>1, <3>1, <1>4, <1>1
    <3> QED BY <2>1, <3>1, <3>2, <3>3, PrefixProperties
  <2>3. new \in Node /\ Left(new) \in Int
    <3>1. new \in Node
      BY <1>h, <2>1
    <3> QED BY <3>1, NodeFields
  <2>4. <<new>> \o rest \in Seq(Node) /\ Len(<<new>> \o rest) = 1 + Len(rest)
    <3>1. <<new>> \in Seq(Node) /\ Len(<<new>>) = 1
      BY <2>3
    <3> QED BY <3>1, <1>3, ConcatProperties
  <2>5. /\ r.s \in Stream /\ Len(r.s.nodes) = Len(ns) /\ r.pool \in Nat
        /\ r.bytes = bytes
    <3>1. [nodes |-> <<new>> \o rest, llSize |-> (s.llSize - Left(node)) + Left(new)] \in Stream
      BY <1>2, <1>4, <2>3, <2>4 DEF Stream
    <3>2. /\ r.s = [nodes |-> <<new>> \o rest, llSize |-> (s.llSize - Left(node)) + Left(new)]
          /\ r.pool = c[2] /\ r.bytes = bytes
      BY <1>b, <2>1 DEF Result
    <3>3. r.s.nodes = <<new>> \o rest
      BY <3>2
    <3>4. Len(r.s.nodes) = Len(ns)
      BY <3>3, <2>4, <1>3
    <3> QED BY <3>1, <3>2, <3>4, <1>1
  <2>6. c[4] \o bytes \in Seq(Byte)
    BY <1>1, <2>2, ConcatProperties
  <2>7. n - Len(bytes) = 0
    BY <2>2, <1>1
  <2>8. Turn(c) = <<r.s, r.pool, 0, c[4] \o bytes>>
    BY <1>d, <2>5, <2>7
  <2>9. Turn(c) \in Reads /\ Unfinished(Turn(c)) = 0 + Len(ns)
    <3>1. Turn(c)[1] = r.s /\ Turn(c)[3] = 0
      BY <2>8
    <3>2. Turn(c) \in Reads
      <4>1. <<r.s, r.pool, 0, c[4] \o bytes>> \in Reads
        BY <2>5, <2>6, InReads
      <4> QED BY <4>1, <2>8, Zenon
    <3> QED BY <3>1, <3>2, <2>5 DEF Unfinished
  <2> QED BY <2>9, <1>e, <1>1, <1>3
<1>6. CASE ~(n < Left(node))
  <2>1. k = Left(node) /\ node.usReadPos + k = Len(node.buf)
    BY <1>6, <1>1, <1>4, <1>c
  <2>2. bytes \in Seq(Byte) /\ Len(bytes) \in Nat /\ Len(bytes) <= n
    <3>1. bytes = From(node.buf, node.usReadPos)
      BY <2>1, <1>g DEF From
    <3>2. bytes \in Seq(Byte)
          /\ Len(bytes) = IF node.usReadPos <= Len(node.buf)
                          THEN Len(node.buf) - node.usReadPos ELSE 0
      <4>1. node.buf \in Seq(Byte) /\ node.usReadPos \in Nat
        BY <1>4
      <4> QED BY ONLY <3>1, <4>1, FromProperties
    <3> QED BY <3>2, <1>4, <1>6, <1>1
  <2>3. /\ r.s \in Stream /\ Len(r.s.nodes) = Len(ns) - 1 /\ r.pool \in Nat
        /\ r.bytes = bytes
    <3>1. [nodes |-> rest, llSize |-> s.llSize - Left(node)] \in Stream
      BY <1>2, <1>3, <1>4 DEF Stream
    <3> QED BY <1>a, <2>1, <3>1, <1>1, <1>3 DEF Result
  <2>4. c[4] \o bytes \in Seq(Byte)
    BY <1>1, <2>2, ConcatProperties
  <2>5. Turn(c) = <<r.s, r.pool, n - Len(bytes), c[4] \o bytes>> /\ n - Len(bytes) \in Nat
    BY <1>d, <2>2, <2>3, <1>1
  <2>6. Turn(c) \in Reads /\ Unfinished(Turn(c)) = (n - Len(bytes)) + (Len(ns) - 1)
    <3>1. Turn(c)[1] = r.s /\ Turn(c)[3] = n - Len(bytes)
      BY <2>5
    <3>2. Turn(c) \in Reads
      <4>1. <<r.s, r.pool, n - Len(bytes), c[4] \o bytes>> \in Reads
        BY <2>3, <2>4, <2>5, InReads
      <4> QED BY <4>1, <2>5, Zenon
    <3> QED BY <3>1, <3>2, <2>3 DEF Unfinished
  <2> QED BY <2>2, <2>6, <1>e, <1>1, <1>3
<1> QED BY <1>5, <1>6

(* What ReadNodes, defined by recursion over what is still to be read, is. *)
LEMMA ReadNodesDef ==
  /\ ReadNodes \in [Reads -> Results]
  /\ \A c \in Reads :
       /\ c[3] = 0 => ReadNodes[c] = Result(TRUE, c[1], c[2], c[4])
       /\ c[3] # 0 /\ c[1].nodes = <<>> => ReadNodes[c] = Result(FALSE, c[1], c[2], c[4])
       /\ c[3] # 0 /\ c[1].nodes # <<>> => ReadNodes[c] = ReadNodes[Turn(c)]
<1> DEFINE X == Reads
           V == Results
           m == [c \in X |-> Unfinished(c)]
           stop == {c \in X : c[3] = 0 \/ c[1].nodes = <<>>}
           end == [c \in X |-> IF c[3] = 0 THEN Result(TRUE, c[1], c[2], c[4])
                               ELSE Result(FALSE, c[1], c[2], c[4])]
           step == [c \in X |-> IF c \in stop THEN c ELSE Turn(c)]
           comb == [p \in X \X V |-> p[2]]
           P(g) == g = [c \in X |-> IF c[3] = 0 THEN Result(TRUE, c[1], c[2], c[4])
                                    ELSE IF c[1].nodes = <<>>
                                      THEN Result(FALSE, c[1], c[2], c[4])
                                    ELSE g[Turn(c)]]
<1>1. \A c \in X : /\ c[1] \in Stream /\ c[2] \in Nat /\ c[3] \in Nat /\ c[4] \in Seq(Byte)
                   /\ Unfinished(c) \in Nat
  <2> SUFFICES ASSUME NEW c \in X
               PROVE  /\ c[1] \in Stream /\ c[2] \in Nat /\ c[3] \in Nat /\ c[4] \in Seq(Byte)
                      /\ Unfinished(c) \in Nat
    OBVIOUS
  <2>1. c[1] \in Stream /\ c[2] \in Nat /\ c[3] \in Nat /\ c[4] \in Seq(Byte)
    BY DEF Reads
  <2>2. Len(c[1].nodes) \in Nat
    BY <2>1, LenProperties DEF Stream
  <2> QED BY <2>1, <2>2 DEF Unfinished
<1>2. \A c \in X : c \notin stop => /\ c[3] # 0 /\ c[1].nodes # <<>>
                                    /\ Turn(c) \in X /\ Unfinished(Turn(c)) < Unfinished(c)
  BY TurnType
<1>3. m \in [X -> Nat] /\ step \in [X -> X] /\ comb \in [X \X V -> V]
  BY <1>1, <1>2
<1>4. end \in [X -> V]
  <2>1. ASSUME NEW c \in X
        PROVE  Result(TRUE, c[1], c[2], c[4]) \in V /\ Result(FALSE, c[1], c[2], c[4]) \in V
    <3>1. /\ c[1] \in Stream /\ c[2] \in Nat /\ c[4] \in Seq(Byte)
          /\ TRUE \in BOOLEAN /\ FALSE \in BOOLEAN
      BY <1>1
    <3> QED BY <3>1 DEF Result, Results
  <2> HIDE DEF V
  <2> QED BY <2>1
<1>5. \A c \in X : c \notin stop => m[step[c]] < m[c]
  BY <1>1, <1>2
<1>6. Recursive(X, V, m, stop, end, step, comb)
  BY <1>3, <1>4, <1>5 DEF Recursive
<1>7. PICK f : Solves(X, V, stop, end, step, comb, f)
  <2> HIDE DEF X, V, m, stop, end, step, comb
  <2> QED BY <1>6, Recursion
<1>8. f \in [X -> V] /\ \A c \in X : f[c] = Value(stop, end, comb, c, f[step[c]])
  BY <1>7 DEF Solves
<1>9. ASSUME NEW c \in X
      PROVE  f[c] = IF c[3] = 0 THEN Result(TRUE, c[1], c[2], c[4])
                    ELSE IF c[1].nodes = <<>>
                      THEN Result(FALSE, c[1], c[2], c[4])
                    ELSE f[Turn(c)]
  <2>1. CASE c[3] = 0
    BY <2>1, <1>8 DEF Value
  <2>2. CASE c[3] # 0 /\ c[1].nodes = <<>>
    BY <2>2, <1>8 DEF Value
  <2>3. CASE c[3] # 0 /\ c[1].nodes # <<>>
    <3>1. c \notin stop /\ step[c] = Turn(c) /\ Turn(c) \in X
      BY <2>3, <1>1, <1>2
    <3>2. f[c] = comb[<<c, f[Turn(c)]>>] /\ f[Turn(c)] \in V
      BY <3>1, <1>8 DEF Value
    <3>3. f[c] = f[Turn(c)]
      BY <3>2
    <3> QED BY <2>3, <3>3
  <2> QED BY <2>1, <2>2, <2>3
<1>10. P(f)
  <2> HIDE DEF X
  <2> QED BY <1>8, <1>9
<1>11. P(ReadNodes)
  <2>1. ReadNodes = CHOOSE g : P(g)
    BY DEF ReadNodes, Reads, Turn, Copied
  <2>2. (\E g : P(g)) => P(CHOOSE g : P(g))
    <3> HIDE DEF P
    <3> QED OBVIOUS
  <2> QED BY <1>10, <2>1, <2>2, Zenon
<1>12. ASSUME NEW c \in X
       PROVE  /\ c[3] = 0 => ReadNodes[c] = Result(TRUE, c[1], c[2], c[4])
              /\ c[3] # 0 /\ c[1].nodes = <<>> => ReadNodes[c] = Result(FALSE, c[1], c[2], c[4])
              /\ c[3] # 0 /\ c[1].nodes # <<>> => ReadNodes[c] = ReadNodes[Turn(c)]
  BY <1>11
<1>13. \A c \in X : c \in stop \/ ReadNodes[step[c]] \in V =>
                       ReadNodes[c] = Value(stop, end, comb, c, ReadNodes[step[c]])
  BY <1>2, <1>12 DEF Value
<1>14. \A c \in X : ReadNodes[c] = f[c]
  <2> HIDE DEF X, V, stop, end, step, comb, P
  <2> QED BY <1>7, <1>13 DEF Solves
<1>15. ReadNodes \in [X -> V]
  BY <1>8, <1>11, <1>14
<1> QED BY <1>12, <1>15

LEMMA PrefixSplit ==
  ASSUME NEW l \in Seq(Byte), NEW n \in 0 .. Len(l), NEW k \in 0 .. n
  PROVE  SubSeq(l, 1, k) \o SubSeq(From(l, k), 1, n - k) = SubSeq(l, 1, n)
<1> DEFINE p == SubSeq(l, 1, n)
           r == From(l, n)
           q == From(p, k)
<1>0. Len(l) \in Nat /\ n \in Nat /\ k \in Nat /\ n <= Len(l) /\ k <= n
  BY LenProperties
<1>1. p \in Seq(Byte) /\ Len(p) = n /\ r \in Seq(Byte) /\ p \o r = l
  BY <1>0, PrefixProperties, FromProperties, CutJoin
<1> HIDE DEF p, r
<1>2. SubSeq(p, 1, k) \o q = p
  BY <1>0, <1>1, CutJoin
<1>3. q \in Seq(Byte) /\ Len(q) = n - k
  <2>1. p \in Seq(Byte) /\ k \in Nat /\ k <= Len(p) /\ Len(p) = n
    BY <1>0, <1>1
  <2> QED BY ONLY <2>1, FromProperties
<1>4. From(p \o r, k) = q \o r /\ SubSeq(p \o r, 1, k) = SubSeq(p, 1, k)
  <2>1. p \in Seq(Byte) /\ r \in Seq(Byte) /\ k \in 0 .. Len(p)
    BY <1>0, <1>1
  <2> QED BY ONLY <2>1, FromOfConcat
<1> HIDE DEF q
<1>5. SubSeq(q \o r, 1, n - k) = q
  <2>1. q \in Seq(Byte) /\ r \in Seq(Byte) /\ n - k \in 0 .. Len(q)
    BY <1>0, <1>1, <1>3
  <2>2. SubSeq(q \o r, 1, n - k) = SubSeq(q, 1, n - k)
    BY ONLY <2>1, FromOfConcat
  <2>3. SubSeq(q, 1, Len(q)) = q
    BY <1>3, SubSeqFull
  <2> QED BY <2>2, <2>3, <1>3
<1> QED BY <1>1, <1>2, <1>4, <1>5 DEF p

(* The call succeeded, and took as many bytes as it was asked for.         *)
Fetched(c, r) ==
  /\ r.ok = TRUE /\ Sound(r.s) /\ r.s \in Stream /\ r.pool \in Nat /\ r.pool >= c[2]
  /\ r.bytes = c[4] \o SubSeq(Contents(c[1]), 1, c[3])
  /\ Contents(r.s) = From(Contents(c[1]), c[3])

LEMMA TurnReads ==
  ASSUME NEW c \in Reads, Sound(c[1]), c[3] # 0, c[3] <= Len(Contents(c[1]))
  PROVE  LET d == Turn(c) IN
         /\ c[1].nodes # <<>> /\ d \in Reads /\ Sound(d[1]) /\ d[2] >= c[2]
         /\ d[3] < c[3] /\ d[3] <= Len(Contents(d[1]))
         /\ d[4] \o SubSeq(Contents(d[1]), 1, d[3]) = c[4] \o SubSeq(Contents(c[1]), 1, c[3])
         /\ From(Contents(d[1]), d[3]) = From(Contents(c[1]), c[3])
<1> DEFINE s == c[1]
           C == Contents(s)
           n == c[3]
           k == Copied(c)
           r == Taken(s, c[2], k)
           d == Turn(c)
           h == SubSeq(C, 1, k)
<1>1. s \in Stream /\ c[2] \in Nat /\ n \in Nat \ {0} /\ c[4] \in Seq(Byte)
  BY DEF Reads
<1>2. C \in Seq(Byte) /\ Len(C) \in Nat
  <2>1. s.nodes \in Seq(Node)
    BY <1>1 DEF Stream
  <2> QED BY <2>1, UnreadDef, LenProperties DEF Contents
<1>3. s.nodes # <<>>
  <2>1. s.nodes = <<>> => Len(C) = 0
    BY UnreadEmpty, EmptySeq DEF Contents
  <2> QED BY <2>1, <1>1
<1>4. d \in Reads
  BY <1>1, <1>3, TurnType
<1>5. Left(Head(s.nodes)) \in Nat \ {0}
  <2>1. NodesOK(s.nodes)
    BY SoundStream
  <2> QED BY <2>1, <1>3, NodesHead
<1>6. k \in 1 .. Left(Head(s.nodes)) /\ k \in 1 .. n
  BY <1>1, <1>5 DEF Copied, Lesser
<1> HIDE DEF k
<1>7. /\ Sound(r.s) /\ r.pool \in Nat /\ r.pool >= c[2]
      /\ k \in 0 .. Len(C) /\ r.bytes = h /\ Contents(r.s) = From(C, k)
  <2> HIDE DEF s
  <2>1. /\ r.ok = TRUE /\ Sound(r.s) /\ r.pool \in Nat /\ r.pool >= c[2]
        /\ k \in 0 .. Len(Contents(s)) /\ r.bytes = SubSeq(Contents(s), 1, k)
        /\ Contents(r.s) = From(Contents(s), k)
    <3>1. Sound(s) /\ s.nodes # <<>> /\ c[2] \in Nat /\ k \in 1 .. Left(Head(s.nodes))
      BY <1>1, <1>3, <1>6 DEF s
    <3> QED BY ONLY <3>1, TakenTakes
  <2> QED BY <2>1
<1>8. d = <<r.s, r.pool, n - Len(r.bytes), c[4] \o r.bytes>>
  BY DEF Turn, k
<1> HIDE DEF r, d
<1>9. h \in Seq(Byte) /\ Len(h) = k
  BY <1>2, <1>7, PrefixProperties
<1> HIDE DEF h
<1>10. d[1] = r.s /\ d[2] = r.pool /\ d[3] = n - k /\ d[4] = c[4] \o h
  BY <1>7, <1>8, <1>9
<1>11. d[3] < n /\ d[3] \in 0 .. Len(C) - k /\ k \in 0 .. n /\ n \in 0 .. Len(C) /\ k \in Nat
       /\ k + d[3] = n
  BY <1>1, <1>2, <1>6, <1>7, <1>10
<1>12. Len(Contents(d[1])) = Len(C) - k
  <2>1. C \in Seq(Byte) /\ k \in Nat /\ k <= Len(C)
    BY <1>2, <1>11, <1>7
  <2>2. Len(From(C, k)) = Len(C) - k
    BY ONLY <2>1, FromProperties
  <2> QED BY <2>2, <1>7, <1>10
<1>13. From(Contents(d[1]), d[3]) = From(C, n)
  <2>1. From(From(C, k), d[3]) = From(C, k + d[3])
    BY <1>2, <1>7, <1>11, FromOfFrom
  <2> QED BY <2>1, <1>7, <1>10, <1>11
<1>14. d[4] \o SubSeq(Contents(d[1]), 1, d[3]) = c[4] \o SubSeq(C, 1, n)
  <2> DEFINE b == SubSeq(From(C, k), 1, n - k)
  <2>1. h \o b = SubSeq(C, 1, n)
    BY <1>2, <1>11, PrefixSplit DEF h
  <2>2. b \in Seq(Byte)
    <3>1. From(C, k) \in Seq(Byte) /\ n - k \in 0 .. Len(From(C, k))
      <4>1. C \in Seq(Byte) /\ k \in Nat /\ k <= Len(C)
        BY <1>2, <1>11, <1>7
      <4>2. From(C, k) \in Seq(Byte)
        BY ONLY <4>1, FromProperties
      <4> QED BY <4>2, <1>7, <1>10, <1>11, <1>12
    <3> QED BY ONLY <3>1, PrefixProperties
  <2>3. SubSeq(Contents(d[1]), 1, d[3]) = b
    BY <1>7, <1>10
  <2> HIDE DEF b
  <2>4. c[4] \o (h \o b) = (c[4] \o h) \o b
    BY <1>1, <1>9, <2>2, Grouping
  <2> QED BY <2>1, <2>3, <2>4, <1>10
<1>15. d[3] <= Len(Contents(d[1])) /\ d[2] >= c[2] /\ Sound(d[1])
  BY <1>7, <1>10, <1>11, <1>12
<1> QED BY <1>3, <1>4, <1>11, <1>13, <1>14, <1>15 DEF d

LEMMA ReadNodesFetches ==
  ASSUME NEW c \in Reads, Sound(c[1]), c[3] <= Len(Contents(c[1]))
  PROVE  Fetched(c, ReadNodes[c])
<1> DEFINE T == {k \in Nat : \A d \in Reads :
                   d[3] < k /\ Sound(d[1]) /\ d[3] <= Len(Contents(d[1]))
                     => Fetched(d, ReadNodes[d])}
<1>1. \A d \in Reads : d[1] \in Stream /\ d[2] \in Nat /\ d[3] \in Nat /\ d[4] \in Seq(Byte)
  BY DEF Reads
<1>2. 0 \in T
  BY <1>1
<1>3. ASSUME NEW k \in Nat, k \in T PROVE k + 1 \in T
  <2> SUFFICES ASSUME NEW d \in Reads, d[3] < k + 1, Sound(d[1]), d[3] <= Len(Contents(d[1]))
               PROVE  Fetched(d, ReadNodes[d])
    OBVIOUS
  <2>1. d[1] \in Stream /\ d[2] \in Nat /\ d[3] \in Nat /\ d[4] \in Seq(Byte)
    BY <1>1
  <2>2. CASE d[3] = 0
    <3>1. ReadNodes[d] = Result(TRUE, d[1], d[2], d[4])
      BY <2>2, ReadNodesDef
    <3>2. /\ ReadNodes[d].ok = TRUE /\ ReadNodes[d].s = d[1] /\ ReadNodes[d].pool = d[2]
          /\ ReadNodes[d].bytes = d[4]
      BY <3>1 DEF Result
    <3>3. Contents(d[1]) \in Seq(Byte)
      <4>1. d[1].nodes \in Seq(Node)
        BY <2>1 DEF Stream
      <4> QED BY <4>1, UnreadDef DEF Contents
    <3>4. SubSeq(Contents(d[1]), 1, 0) = <<>> /\ From(Contents(d[1]), 0) = Contents(d[1])
      BY <3>3, SubSeqEmpty, FromEnds
    <3>5. d[4] \o <<>> = d[4]
      BY <2>1, ConcatEmptySeq
    <3> QED BY <3>2, <3>4, <3>5, <2>1, <2>2 DEF Fetched
  <2>3. CASE d[3] # 0
    <3> DEFINE e == Turn(d)
    <3>1. /\ d[1].nodes # <<>> /\ e \in Reads /\ Sound(e[1]) /\ e[2] >= d[2]
          /\ e[3] < d[3] /\ e[3] <= Len(Contents(e[1]))
          /\ e[4] \o SubSeq(Contents(e[1]), 1, e[3]) = d[4] \o SubSeq(Contents(d[1]), 1, d[3])
          /\ From(Contents(e[1]), e[3]) = From(Contents(d[1]), d[3])
      BY <2>3, TurnReads
    <3>2. ReadNodes[d] = ReadNodes[e]
      BY <2>3, <3>1, ReadNodesDef
    <3> HIDE DEF e
    <3>3. e[3] < k /\ e[2] \in Nat
      BY <3>1, <2>1, <1>1
    <3>4. Fetched(e, ReadNodes[e])
      BY <3>1, <3>3, <1>3
    <3>5. /\ ReadNodes[e].pool \in Nat /\ ReadNodes[e].pool >= e[2]
          /\ ReadNodes[e].ok = TRUE /\ Sound(ReadNodes[e].s) /\ ReadNodes[e].s \in Stream
          /\ ReadNodes[e].bytes = d[4] \o SubSeq(Contents(d[1]), 1, d[3])
          /\ Contents(ReadNodes[e].s) = From(Contents(d[1]), d[3])
      BY <3>1, <3>4, Zenon DEF Fetched
    <3>6. ReadNodes[e].pool >= d[2]
      <4>1. /\ ReadNodes[e].pool \in Nat /\ ReadNodes[e].pool >= e[2]
            /\ e[2] >= d[2] /\ e[2] \in Nat /\ d[2] \in Nat
        BY <3>1, <3>3, <3>5, <2>1, Zenon
      <4> QED BY ONLY <4>1
    <3> QED BY <3>2, <3>5, <3>6, Zenon DEF Fetched
  <2> QED BY <2>2, <2>3
<1> HIDE DEF T
<1>4. Nat \subseteq T
  BY <1>2, <1>3, SetInduction
<1>5. c[3] + 1 \in T
  BY <1>1, <1>4
<1> QED BY <1>1, <1>5 DEF T

(* SeNetSreamReadLen of no more bytes than llSize counts succeeds and      *)
(* takes the first of them: its assertions hold, what is left is in order, *)
(* the stream is sound again and the nodes it emptied are in the pool.     *)
THEOREM ReadLenTakes ==
  ASSUME NEW s, Sound(s), NEW pool \in Nat, NEW n \in Nat, n <= s.llSize
  PROVE  LET r == ReadLen(s, pool, n) IN
         /\ r.ok = TRUE /\ Sound(r.s) /\ r.pool \in Nat /\ r.pool >= pool
         /\ r.bytes = SubSeq(Contents(s), 1, n)
         /\ Contents(r.s) = From(Contents(s), n)
<1> DEFINE c == <<s, pool, n, <<>>>>
<1>1. s \in Stream /\ s.llSize = Len(Contents(s)) /\ s.nodes \in Seq(Node)
  BY SoundStream DEF Contents, NodesOK
<1>2. Contents(s) \in Seq(Byte) /\ Len(Contents(s)) \in Nat
  BY <1>1, UnreadDef, LenProperties DEF Contents
<1>3. c \in Reads /\ c[1] = s /\ c[2] = pool /\ c[3] = n /\ c[4] = <<>>
  <2>1. s \in Stream /\ pool \in Nat /\ n \in Nat /\ <<>> \in Seq(Byte)
    BY <1>1, EmptySeq
  <2>2. c \in Reads
    BY ONLY <2>1, InReads
  <2> QED BY <2>2
<1>4. ReadLen(s, pool, n) = ReadNodes[c]
  <2>1. ~(s.llSize < n)
    BY <1>1, <1>2
  <2> QED BY <2>1, Zenon DEF ReadLen
<1> HIDE DEF c
<1>5. Fetched(c, ReadNodes[c])
  BY <1>1, <1>3, ReadNodesFetches
<1>6. SubSeq(Contents(s), 1, n) \in Seq(Byte)
  <2>1. n \in 0 .. Len(Contents(s))
    BY <1>1, <1>2
  <2> QED BY ONLY <2>1, <1>2, PrefixProperties
<1>7. <<>> \o SubSeq(Contents(s), 1, n) = SubSeq(Contents(s), 1, n)
  BY <1>6, ConcatEmptySeq
<1> QED BY <1>3, <1>4, <1>5, <1>7 DEF Fetched

-----------------------------------------------------------------------------
(* SeNetSreamWrite and SeNetSreamWriteExtend.                              *)

(* The arguments of the loop over the buffers, and the loop after one.     *)
Jobs    == Stream \X Nat \X Seq(Seq(Byte))
One(c)  == WriteLen[<<c[1], c[2], Head(c[3])>>]
Next1(c) == <<One(c).s, One(c).pool, Tail(c[3])>>

LEMMA JobType ==
  ASSUME NEW c \in Jobs, c[3] # <<>>
  PROVE  /\ Head(c[3]) \in Seq(Byte) /\ <<c[1], c[2], Head(c[3])>> \in Writes
         /\ One(c) \in Results /\ (One(c).ok = TRUE \/ One(c).ok = FALSE)
         /\ Next1(c) \in Jobs /\ Len(Next1(c)[3]) = Len(c[3]) - 1
<1>1. c[1] \in Stream /\ c[2] \in Nat /\ c[3] \in Seq(Seq(Byte))
  BY DEF Jobs
<1>2. Head(c[3]) \in Seq(Byte) /\ Tail(c[3]) \in Seq(Seq(Byte)) /\ Len(Tail(c[3])) = Len(c[3]) - 1
  BY <1>1, HeadTailProperties
<1>3. <<c[1], c[2], Head(c[3])>> \in Writes
  BY <1>1, <1>2 DEF Writes
<1>4. One(c) \in Results
  BY <1>3, WriteLenDef DEF One
<1>5. One(c).s \in Stream /\ One(c).pool \in Nat /\ One(c).ok \in BOOLEAN
  BY <1>4 DEF Results
<1>6. Next1(c) \in Jobs /\ Next1(c)[3] = Tail(c[3])
  BY <1>2, <1>5 DEF Next1, Jobs
<1> QED BY <1>2, <1>3, <1>4, <1>5, <1>6

(* What WriteAll, defined by recursion over the buffers, is.               *)
LEMMA WriteAllDef ==
  \A c \in Jobs :
    /\ c[3] = <<>> => WriteAll[c] = Result(TRUE, c[1], c[2], <<>>)
    /\ c[3] # <<>> /\ One(c).ok = TRUE => WriteAll[c] = WriteAll[Next1(c)]
<1> DEFINE X == Jobs
           V == Results
           m == [c \in X |-> Len(c[3])]
           stop == {c \in X : c[3] = <<>> \/ One(c).ok = FALSE}
           end == [c \in X |-> IF c[3] = <<>> THEN Result(TRUE, c[1], c[2], <<>>) ELSE One(c)]
           step == [c \in X |-> IF c \in stop THEN c ELSE Next1(c)]
           comb == [p \in X \X V |-> p[2]]
           P(g) == g = [c \in X |-> IF c[3] = <<>> THEN Result(TRUE, c[1], c[2], <<>>)
                                    ELSE IF One(c).ok THEN g[Next1(c)]
                                    ELSE One(c)]
<1>1. \A c \in X : c[1] \in Stream /\ c[2] \in Nat /\ c[3] \in Seq(Seq(Byte)) /\ Len(c[3]) \in Nat
  BY LenProperties DEF Jobs
<1>2. \A c \in X : c[3] # <<>> =>
        /\ One(c) \in V /\ (One(c).ok = TRUE \/ One(c).ok = FALSE)
        /\ Next1(c) \in X /\ Len(Next1(c)[3]) < Len(c[3])
  <2> SUFFICES ASSUME NEW c \in Jobs, c[3] # <<>>
               PROVE  /\ One(c) \in Results /\ (One(c).ok = TRUE \/ One(c).ok = FALSE)
                      /\ Next1(c) \in Jobs /\ Len(Next1(c)[3]) < Len(c[3])
    OBVIOUS
  <2>1. /\ One(c) \in Results /\ (One(c).ok = TRUE \/ One(c).ok = FALSE)
        /\ Next1(c) \in Jobs /\ Len(Next1(c)[3]) = Len(c[3]) - 1
    BY JobType
  <2> QED BY <1>1, <2>1
<1>3. m \in [X -> Nat] /\ step \in [X -> X] /\ comb \in [X \X V -> V]
  BY <1>1, <1>2
<1>4. end \in [X -> V]
  <2>1. ASSUME NEW c \in X PROVE Result(TRUE, c[1], c[2], <<>>) \in V
    <3>1. c[1] \in Stream /\ c[2] \in Nat /\ <<>> \in Seq(Byte) /\ TRUE \in BOOLEAN
      BY <1>1, EmptySeq
    <3> QED BY <3>1 DEF Result, Results
  <2> HIDE DEF V
  <2> QED BY <1>2, <2>1
<1>5. \A c \in X : c \notin stop => m[step[c]] < m[c]
  BY <1>1, <1>2
<1>6. Recursive(X, V, m, stop, end, step, comb)
  BY <1>3, <1>4, <1>5 DEF Recursive
<1>7. PICK f : Solves(X, V, stop, end, step, comb, f)
  <2> HIDE DEF X, V, m, stop, end, step, comb
  <2> QED BY <1>6, Recursion
<1>8. f \in [X -> V] /\ \A c \in X : f[c] = Value(stop, end, comb, c, f[step[c]])
  BY <1>7 DEF Solves
<1>9. ASSUME NEW c \in X
      PROVE  f[c] = IF c[3] = <<>> THEN Result(TRUE, c[1], c[2], <<>>)
                    ELSE IF One(c).ok THEN f[Next1(c)]
                    ELSE One(c)
  <2>1. CASE c[3] = <<>>
    BY <2>1, <1>8 DEF Value
  <2>2. CASE c[3] # <<>> /\ One(c).ok = FALSE
    <3>1. ~One(c).ok
      BY <2>2
    <3> QED BY <2>2, <3>1, <1>8 DEF Value
  <2>3. CASE c[3] # <<>> /\ One(c).ok = TRUE
    <3>0. ~(One(c).ok = FALSE) /\ One(c).ok
      BY <2>3
    <3>1. c \notin stop /\ step[c] = Next1(c) /\ Next1(c) \in X
      BY <2>3, <3>0, <1>2
    <3>2. f[c] = comb[<<c, f[Next1(c)]>>] /\ f[Next1(c)] \in V
      BY <3>1, <1>8 DEF Value
    <3>3. f[c] = f[Next1(c)]
      BY <3>2
    <3> QED BY <2>3, <3>0, <3>3
  <2> QED BY <2>1, <2>2, <2>3, <1>2
<1>10. P(f)
  <2> HIDE DEF X
  <2> QED BY <1>8, <1>9
<1>11. P(WriteAll)
  <2>1. WriteAll = CHOOSE g : P(g)
    BY DEF WriteAll, Jobs, One, Next1
  <2>2. (\E g : P(g)) => P(CHOOSE g : P(g))
    <3> HIDE DEF P
    <3> QED OBVIOUS
  <2> QED BY <1>10, <2>1, <2>2, Zenon
<1> QED BY <1>11

(* One buffer that fits is written, and the next ones follow it.           *)
LEMMA OneWritten ==
  ASSUME NEW c \in Jobs, c[3] # <<>>, Sound(c[1]), Len(Head(c[3])) <= Space(c[1], c[2])
  PROVE  LET d == Next1(c) IN
         /\ WriteAll[c] = WriteAll[d] /\ d \in Jobs /\ d[3] = Tail(c[3]) /\ Sound(d[1])
         /\ Contents(d[1]) = Contents(c[1]) \o Head(c[3])
         /\ Space(d[1], d[2]) = Space(c[1], c[2]) - Len(Head(c[3]))
<1> DEFINE d == Next1(c)
           a == <<c[1], c[2], Head(c[3])>>
<1>1. a \in Writes /\ d \in Jobs
  BY JobType
<1>2. a[1] = c[1] /\ a[2] = c[2] /\ a[3] = Head(c[3]) /\ WriteLen[a] = One(c)
  BY DEF One
<1> HIDE DEF a
<1>3. Written(a, One(c))
  BY <1>1, <1>2, WriteLenAppends
<1>4. One(c).ok = TRUE
  BY <1>3 DEF Written
<1>5. WriteAll[c] = WriteAll[d]
  BY <1>4, WriteAllDef
<1>6. d[1] = One(c).s /\ d[2] = One(c).pool /\ d[3] = Tail(c[3])
  BY DEF Next1
<1> QED BY <1>1, <1>2, <1>3, <1>5, <1>6 DEF Written

(* The call succeeded, and put b behind the contents of the stream.        *)
Appended(s, b, r) ==
  r.ok = TRUE /\ Sound(r.s) /\ r.pool \in Nat /\ Contents(r.s) = Contents(s) \o b

(* The loops of SeNetSreamWrite, over the header and one buffer, and of    *)
(* SeNetSreamWriteExtend, over the header and two: when there is space for *)
(* all of them none fails half way, and they are in the stream in order.   *)
LEMMA Lists ==
  ASSUME NEW a \in Seq(Byte), NEW b \in Seq(Byte), NEW c \in Seq(Byte)
  PROVE  <<a, b>> \in Seq(Seq(Byte)) /\ <<a, b, c>> \in Seq(Seq(Byte))
<1> DEFINE B == Seq(Byte)
<1> HIDE DEF B
<1>1. ASSUME NEW x \in B, NEW y \in B, NEW z \in B
      PROVE  <<x, y>> \in Seq(B) /\ <<x, y, z>> \in Seq(B)
  OBVIOUS
<1> QED BY <1>1 DEF B

LEMMA WriteTwo ==
  ASSUME NEW s, Sound(s), NEW pool \in Nat, NEW a \in Seq(Byte), NEW b \in Seq(Byte),
         Len(a) + Len(b) <= Space(s, pool)
  PROVE  Appended(s, a \o b, WriteAll[<<s, pool, <<a, b>>>>])
<1>0. s \in Stream /\ Len(a) \in Nat /\ Len(b) \in Nat /\ Contents(s) \in Seq(Byte)
  <2>1. s \in Stream /\ s.nodes \in Seq(Node)
    BY SoundStream DEF NodesOK
  <2> QED BY <2>1, LenProperties, UnreadDef DEF Contents
<1> DEFINE c == <<s, pool, <<a, b>>>>
           d == Next1(c)
           e == Next1(d)
<1>1. c \in Jobs /\ c[1] = s /\ c[2] = pool /\ c[3] = <<a, b>>
  <2>1. <<a, b>> \in Seq(Seq(Byte))
    BY Lists
  <2> QED BY <1>0, <2>1 DEF Jobs
<1>2. <<a, b>> # <<>> /\ Head(<<a, b>>) = a /\ Tail(<<a, b>>) = <<b>>
  OBVIOUS
<1>3. <<b>> # <<>> /\ Head(<<b>>) = b /\ Tail(<<b>>) = <<>>
  OBVIOUS
<1> HIDE DEF c
<1>4. /\ WriteAll[c] = WriteAll[d] /\ d \in Jobs /\ d[3] = <<b>> /\ Sound(d[1])
      /\ Contents(d[1]) = Contents(s) \o a
      /\ Space(d[1], d[2]) = Space(s, pool) - Len(a)
  <2>1. Len(Head(c[3])) <= Space(c[1], c[2])
    <3>1. Space(s, pool) \in Nat
      BY SpaceNat
    <3> QED BY <3>1, <1>0, <1>1, <1>2
  <2> QED BY <2>1, <1>1, <1>2, OneWritten
<1> HIDE DEF d
<1>5. /\ WriteAll[d] = WriteAll[e] /\ e \in Jobs /\ e[3] = <<>> /\ Sound(e[1])
      /\ Contents(e[1]) = Contents(d[1]) \o b
  <2>1. Len(Head(d[3])) <= Space(d[1], d[2])
    <3>1. Space(s, pool) \in Nat
      BY SpaceNat
    <3> QED BY <3>1, <1>0, <1>3, <1>4
  <2> QED BY <2>1, <1>3, <1>4, OneWritten
<1> HIDE DEF e
<1>6. WriteAll[e] = Result(TRUE, e[1], e[2], <<>>) /\ e[2] \in Nat
  BY <1>5, WriteAllDef DEF Jobs
<1>7. WriteAll[c].ok = TRUE /\ WriteAll[c].s = e[1] /\ WriteAll[c].pool = e[2]
  BY <1>4, <1>5, <1>6 DEF Result
<1>8. Contents(s) \o (a \o b) = (Contents(s) \o a) \o b
  BY <1>0, Grouping
<1> QED BY <1>4, <1>5, <1>6, <1>7, <1>8 DEF Appended, c

LEMMA WriteThree ==
  ASSUME NEW s, Sound(s), NEW pool \in Nat,
         NEW h \in Seq(Byte), NEW a \in Seq(Byte), NEW b \in Seq(Byte),
         Len(h) + Len(a) + Len(b) <= Space(s, pool)
  PROVE  Appended(s, h \o (a \o b), WriteAll[<<s, pool, <<h, a, b>>>>])
<1>0. /\ s \in Stream /\ Contents(s) \in Seq(Byte) /\ Space(s, pool) \in Nat
      /\ Len(h) \in Nat /\ Len(a) \in Nat /\ Len(b) \in Nat
  <2>1. s \in Stream /\ s.nodes \in Seq(Node)
    BY SoundStream DEF NodesOK
  <2> QED BY <2>1, LenProperties, UnreadDef, SpaceNat DEF Contents
<1> DEFINE c == <<s, pool, <<h, a, b>>>>
           d == Next1(c)
<1>1. c \in Jobs /\ c[1] = s /\ c[2] = pool /\ c[3] = <<h, a, b>>
  <2>1. <<h, a, b>> \in Seq(Seq(Byte))
    BY Lists
  <2> QED BY <1>0, <2>1 DEF Jobs
<1>2. <<h, a, b>> # <<>> /\ Head(<<h, a, b>>) = h /\ Tail(<<h, a, b>>) = <<a, b>>
  OBVIOUS
<1> HIDE DEF c
<1>3. Len(Head(c[3])) <= Space(c[1], c[2])
  BY <1>0, <1>1, <1>2
<1>4. /\ WriteAll[c] = WriteAll[d] /\ d \in Jobs /\ d[3] = <<a, b>> /\ Sound(d[1])
      /\ Contents(d[1]) = Contents(s) \o h
      /\ Space(d[1], d[2]) = Space(s, pool) - Len(h)
  BY <1>1, <1>2, <1>3, OneWritten
<1>5. d = <<d[1], d[2], d[3]>>
  BY DEF Next1
<1> HIDE DEF d
<1>t. d[2] \in Nat
  BY <1>4 DEF Jobs
<1>6. Len(a) + Len(b) <= Space(d[1], d[2])
  BY <1>0, <1>4
<1>7. Appended(d[1], a \o b, WriteAll[<<d[1], d[2], <<a, b>>>>])
  BY <1>4, <1>t, <1>6, WriteTwo
<1>8. Contents(s) \o (h \o (a \o b)) = (Contents(s) \o h) \o (a \o b)
  <2>1. \A x, y \in Seq(Byte) : x \o (h \o y) = (x \o h) \o y
    BY Grouping
  <2>2. a \o b \in Seq(Byte)
    BY ConcatProperties
  <2> QED BY <1>0, <2>1, <2>2
<1>9. WriteAll[c] = WriteAll[<<d[1], d[2], <<a, b>>>>]
  BY <1>4, <1>5, Zenon
<1> QED BY <1>4, <1>7, <1>8, <1>9 DEF Appended, c

-----------------------------------------------------------------------------
(* Headers.                                                                *)

LEMMA WeightDef ==
  /\ Weight \in [Nat -> Nat] /\ Weight[0] = 1
  /\ \A k \in Nat : Weight[k + 1] = Base * Weight[k]
<1> DEFINE X == Nat
           V == Nat
           m == [k \in X |-> k]
           stop == {0}
           end == [k \in X |-> 1]
           step == [k \in X |-> IF k = 0 THEN 0 ELSE k - 1]
           comb == [p \in X \X V |-> Base * p[2]]
           P(g) == g = [k \in X |-> IF k = 0 THEN 1 ELSE Base * g[k - 1]]
<1>1. m \in [X -> Nat] /\ end \in [X -> V] /\ step \in [X -> X] /\ comb \in [X \X V -> V]
  BY Sizes
<1>2. \A k \in X : k \notin stop => m[step[k]] < m[k]
  OBVIOUS
<1>3. Recursive(X, V, m, stop, end, step, comb)
  BY <1>1, <1>2 DEF Recursive
<1>4. PICK f : Solves(X, V, stop, end, step, comb, f)
  <2> HIDE DEF X, V, m, stop, end, step, comb
  <2> QED BY <1>3, Recursion
<1>5. f \in [X -> V] /\ \A k \in X : f[k] = Value(stop, end, comb, k, f[step[k]])
  BY <1>4 DEF Solves
<1>6. ASSUME NEW k \in X PROVE f[k] = IF k = 0 THEN 1 ELSE Base * f[k - 1]
  <2>1. CASE k = 0
    BY <2>1, <1>5 DEF Value
  <2>2. CASE k # 0
    <3>1. step[k] = k - 1 /\ k - 1 \in X /\ k \notin stop
      BY <2>2
    <3>2. f[k] = comb[<<k, f[k - 1]>>] /\ f[k - 1] \in V
      BY <3>1, <1>5 DEF Value
    <3> QED BY <2>2, <3>2
  <2> QED BY <2>1, <2>2
<1>7. P(f)
  <2> HIDE DEF X
  <2> QED BY <1>5, <1>6
<1>8. P(Weight)
  <2>1. Weight = CHOOSE g : P(g)
    BY DEF Weight
  <2>2. (\E g : P(g)) => P(CHOOSE g : P(g))
    <3> HIDE DEF P
    <3> QED OBVIOUS
  <2> QED BY <1>7, <2>1, <2>2, Zenon
<1>9. \A k \in X : Weight[k] = IF k = 0 THEN 1 ELSE Base * Weight[k - 1]
  BY <1>8
<1>10. \A k \in X : k \in stop \/ Weight[step[k]] \in V =>
                       Weight[k] = Value(stop, end, comb, k, Weight[step[k]])
  BY <1>9 DEF Value
<1>11. \A k \in X : Weight[k] = f[k]
  <2> HIDE DEF X, V, stop, end, step, comb, P
  <2> QED BY <1>4, <1>10 DEF Solves
<1>12. Weight \in [X -> V]
  BY <1>5, <1>8, <1>11
<1> QED BY <1>9, <1>12

LEMMA WeightPositive == \A k \in Nat : Weight[k] \in Nat \ {0}
<1> DEFINE T == {k \in Nat : Weight[k] \in Nat \ {0}}
<1>1. 0 \in T
  BY WeightDef
<1>2. ASSUME NEW k \in Nat, k \in T PROVE k + 1 \in T
  <2>1. Weight[k + 1] = Base * Weight[k] /\ Weight[k] \in Nat \ {0} /\ Base \in Nat \ {0}
    BY <1>2, WeightDef, Sizes
  <2>2. \A a, b \in Nat \ {0} : a * b \in Nat \ {0}
    OBVIOUS
  <2> QED BY <2>1, <2>2
<1> HIDE DEF T
<1>3. Nat \subseteq T
  BY <1>1, <1>2, SetInduction
<1> QED BY <1>3 DEF T

(* Division is the only way to write a number like this.                   *)
LEMMA Unique ==
  ASSUME NEW b \in Nat \ {0}, NEW p \in Nat, NEW q \in Nat,
         NEW r \in 0 .. b - 1, NEW t \in 0 .. b - 1, b * p + t = b * q + r
  PROVE  p = q
<1>1. \A x, y \in Nat : x < y => b * x + b <= b * y
  <2> SUFFICES ASSUME NEW x \in Nat, NEW y \in Nat, x < y PROVE b * x + b <= b * y
    OBVIOUS
  <2>1. PICK z \in Nat : y = x + 1 + z
    <3>1. y - x - 1 \in Nat /\ y = x + 1 + (y - x - 1)
      OBVIOUS
    <3> QED BY <3>1
  <2>2. b * y = b * x + b + b * z
    BY <2>1
  <2>3. b * z \in Nat /\ b * x \in Nat
    OBVIOUS
  <2> QED BY <2>2, <2>3
<1>2. b * p \in Nat /\ b * q \in Nat
  OBVIOUS
<1>3. ~(p < q)
  BY <1>1, <1>2
<1>4. ~(q < p)
  BY <1>1, <1>2
<1> QED BY <1>3, <1>4

LEMMA Quotient ==
  ASSUME NEW a \in Nat, NEW b \in Nat \ {0}
  PROVE  a \div b \in Nat /\ a % b \in 0 .. b - 1 /\ a = b * (a \div b) + (a % b)
<1>1. a \div b \in Nat
  OBVIOUS
<1>2. a % b \in 0 .. b - 1
  OBVIOUS
<1>3. a = b * (a \div b) + (a % b)
  OBVIOUS
<1> QED BY <1>1, <1>2, <1>3

(* The digits above the k-th: of the digits above the next one, all but    *)
(* the last.                                                               *)
LEMMA QuotientStep ==
  ASSUME NEW a \in Nat, NEW b \in Nat \ {0}, NEW w \in Nat \ {0}
  PROVE  /\ b * w \in Nat \ {0}
         /\ a \div w = b * (a \div (b * w)) + ((a \div w) % b)
<1> DEFINE q == a \div w
           r == a % w
           p == q \div b
           t == q % b
           u == w * t + r
<1>1. q \in Nat /\ r \in 0 .. w - 1 /\ a = w * q + r
  BY Quotient
<1> HIDE DEF q, r
<1>2. p \in Nat /\ t \in 0 .. b - 1 /\ q = b * p + t
  BY <1>1, Quotient
<1> HIDE DEF p, t
<1>3. b * w \in Nat \ {0}
  OBVIOUS
<1>4. a = (b * w) * p + u
  <2>1. w * (b * p + t) = (b * w) * p + w * t
    BY <1>2
  <2>2. w * q = (b * w) * p + w * t
    BY <2>1, <1>2
  <2>3. (b * w) * p \in Int /\ w * t \in Int /\ w * q \in Int
    BY <1>1, <1>2
  <2> QED BY <2>2, <2>3, <1>1
<1>5. u \in 0 .. (b * w) - 1
  <2>1. PICK z \in Nat : b = t + 1 + z
    <3>1. b - t - 1 \in Nat /\ b = t + 1 + (b - t - 1)
      BY <1>2
    <3> QED BY <3>1
  <2>2. b * w = w * t + w + z * w
    BY <2>1, <1>2
  <2>3. z * w \in Nat /\ w * t \in Nat /\ b * w \in Nat
    BY <1>2, <2>1
  <2> QED BY <2>2, <2>3, <1>1
<1> DEFINE c == b * w
           d == a \div c
           e == a % c
<1> HIDE DEF u
<1>6. c \in Nat \ {0} /\ a = c * p + u /\ u \in 0 .. c - 1
  BY <1>3, <1>4, <1>5
<1> HIDE DEF c
<1>7. d \in Nat /\ e \in 0 .. c - 1 /\ a = c * d + e
  BY <1>6, Quotient
<1> HIDE DEF d, e
<1>8. d = p
  <2>1. c * d + e = c * p + u
    BY <1>6, <1>7
  <2> QED BY <2>1, <1>2, <1>6, <1>7, Unique
<1>9. q = b * d + t
  BY <1>2, <1>8
<1> QED BY <1>3, <1>9 DEF q, d, c, t

(* What Digits, defined by recursion from the last digit, is.              *)
LEMMA DigitsDef ==
  /\ Digits \in [Seq(Byte) -> Nat] /\ Digits[<<>>] = 0
  /\ \A h \in Seq(Byte) : h # <<>> => Digits[h] = Base * Digits[Front(h)] + Last(h)
<1> DEFINE X == Seq(Byte)
           V == Nat
           m == [h \in X |-> Len(h)]
           stop == {<<>>}
           end == [h \in X |-> 0]
           step == [h \in X |-> IF h = <<>> THEN h ELSE Front(h)]
           comb == [p \in X \X V |-> IF p[1] = <<>> THEN 0 ELSE Base * p[2] + Last(p[1])]
           P(g) == g = [h \in X |-> IF h = <<>> THEN 0 ELSE Base * g[Front(h)] + Last(h)]
<1>0. \A h \in X : Len(h) \in Nat
  BY LenProperties
<1>1. \A h \in X : h # <<>> => Front(h) \in X /\ Len(Front(h)) < Len(h) /\ Last(h) \in Nat
  <2> SUFFICES ASSUME NEW h \in Seq(Byte), h # <<>>
               PROVE  Front(h) \in Seq(Byte) /\ Len(Front(h)) < Len(h) /\ Last(h) \in Nat
    OBVIOUS
  <2>1. Len(h) \in Nat \ {0} /\ \A k \in 1 .. Len(h) : h[k] \in Byte
    BY EmptySeq, ElementOfSeq
  <2>2. Front(h) \in Seq(Byte) /\ Len(Front(h)) = Len(h) - 1
    <3>1. 1 \in Int /\ Len(h) - 1 \in Int /\ \A k \in 1 .. Len(h) - 1 : h[k] \in Byte
      BY <2>1
    <3>2. /\ SubSeq(h, 1, Len(h) - 1) \in Seq(Byte)
          /\ Len(SubSeq(h, 1, Len(h) - 1)) = IF 1 <= Len(h) - 1 THEN Len(h) - 1 - 1 + 1 ELSE 0
      BY ONLY <3>1, SubSeqProperties
    <3>3. Front(h) = SubSeq(h, 1, Len(h) - 1)
      BY DEF Front
    <3> DEFINE f == SubSeq(h, 1, Len(h) - 1)
               n == Len(h)
    <3> HIDE DEF f, n
    <3>4. n \in Nat \ {0} /\ Len(f) = IF 1 <= n - 1 THEN n - 1 - 1 + 1 ELSE 0
      BY <2>1, <3>2 DEF f, n
    <3>5. Len(f) = n - 1
      BY ONLY <3>4
    <3> QED BY <3>2, <3>3, <3>5, Zenon DEF f, n
  <2>3. Last(h) \in Byte
    BY <2>1 DEF Last
  <2> QED BY <2>1, <2>2, <2>3, Sizes DEF Byte
<1>2. m \in [X -> Nat] /\ end \in [X -> V] /\ step \in [X -> X]
  BY <1>0, <1>1
<1>3. comb \in [X \X V -> V]
  <2>1. \A n \in Nat : Base * n \in Nat
    BY Sizes
  <2>2. \A p \in X \X V : p[1] # <<>> => Base * p[2] \in Nat /\ Last(p[1]) \in Nat
    BY <1>1, <2>1
  <2>3. \A a, b \in Nat : a + b \in Nat
    OBVIOUS
  <2> QED BY <2>2, <2>3
<1>4. Recursive(X, V, m, stop, end, step, comb)
  BY <1>1, <1>2, <1>3 DEF Recursive
<1>5. PICK f : Solves(X, V, stop, end, step, comb, f)
  <2> HIDE DEF X, V, m, stop, end, step, comb
  <2> QED BY <1>4, Recursion
<1>6. f \in [X -> V] /\ \A h \in X : f[h] = Value(stop, end, comb, h, f[step[h]])
  BY <1>5 DEF Solves
<1>7. ASSUME NEW h \in X PROVE f[h] = IF h = <<>> THEN 0 ELSE Base * f[Front(h)] + Last(h)
  <2>1. CASE h = <<>>
    BY <2>1, <1>6 DEF Value
  <2>2. CASE h # <<>>
    <3>1. step[h] = Front(h) /\ Front(h) \in X /\ h \notin stop
      BY <2>2, <1>1
    <3>2. f[h] = comb[<<h, f[Front(h)]>>] /\ f[Front(h)] \in V
      BY <3>1, <1>6 DEF Value
    <3>3. f[h] = Base * f[Front(h)] + Last(h)
      BY <2>2, <3>2
    <3> QED BY <2>2, <3>3
  <2> QED BY <2>1, <2>2
<1>8. P(f)
  <2> HIDE DEF X
  <2> QED BY <1>6, <1>7
<1>9. P(Digits)
  <2>1. Digits = CHOOSE g : P(g)
    BY DEF Digits
  <2>2. (\E g : P(g)) => P(CHOOSE g : P(g))
    <3> HIDE DEF P
    <3> QED OBVIOUS
  <2> QED BY <1>8, <2>1, <2>2, Zenon
<1>10. \A h \in X : Digits[h] = IF h = <<>> THEN 0 ELSE Base * Digits[Front(h)] + Last(h)
  BY <1>9
<1>11. \A h \in X : h \in stop \/ Digits[step[h]] \in V =>
                       Digits[h] = Value(stop, end, comb, h, Digits[step[h]])
  BY <1>10 DEF Value
<1>12. \A h \in X : Digits[h] = f[h]
  <2> HIDE DEF X, V, stop, end, step, comb, P
  <2> QED BY <1>5, <1>11 DEF Solves
<1>13. Digits \in [X -> V]
  BY <1>6, <1>9, <1>12
<1> QED BY <1>10, <1>13, EmptySeq

(* The header is HeaderLen bytes.                                          *)
LEMMA HeaderType ==
  ASSUME NEW len \in 0 .. MaxFrame
  PROVE  len \in Nat /\ SetHeader(len) \in Seq(Byte) /\ Len(SetHeader(len)) = HeaderLen
<1>0. len \in Nat /\ HeaderLen \in Nat /\ Base \in Nat \ {0}
  BY Sizes
<1>1. \A k \in 1 .. HeaderLen : (len \div Weight[HeaderLen - k]) % Base \in Byte
  <2> SUFFICES ASSUME NEW k \in 1 .. HeaderLen
               PROVE  (len \div Weight[HeaderLen - k]) % Base \in Byte
    OBVIOUS
  <2> DEFINE q == len \div Weight[HeaderLen - k]
  <2>1. Weight[HeaderLen - k] \in Nat \ {0}
    <3>1. HeaderLen - k \in Nat
      BY <1>0
    <3> QED BY <3>1, WeightPositive
  <2>2. q \in Nat
    BY <2>1, <1>0, Quotient
  <2> HIDE DEF q
  <2>3. q % Base \in 0 .. Base - 1
    BY <2>2, <1>0, Quotient
  <2> QED BY <2>3 DEF q, Byte
<1>2. SetHeader(len) = [k \in 1 .. HeaderLen |-> (len \div Weight[HeaderLen - k]) % Base]
  BY DEF SetHeader
<1>3. SetHeader(len) \in [1 .. HeaderLen -> Byte]
  BY <1>1, <1>2
<1>4. DOMAIN SetHeader(len) = 1 .. HeaderLen
  BY <1>2
<1>5. SetHeader(len) \in Seq(Byte)
  BY <1>0, <1>3
<1> QED BY <1>0, <1>4, <1>5, LenProperties

(* The first j digits of a header say the length up to what the others     *)
(* count.                                                                  *)
LEMMA DigitsOfHeader ==
  ASSUME NEW len \in 0 .. MaxFrame, NEW j \in 0 .. HeaderLen
  PROVE  Digits[SubSeq(SetHeader(len), 1, j)] = len \div Weight[HeaderLen - j]
<1> DEFINE H == SetHeader(len)
           T == {k \in Nat : k <= HeaderLen =>
                   Digits[SubSeq(H, 1, k)] = len \div Weight[HeaderLen - k]}
<1>0. len \in Nat /\ H \in Seq(Byte) /\ Len(H) = HeaderLen
  BY HeaderType
<1>1. 0 \in T
  <2>1. SubSeq(H, 1, 0) = <<>>
    BY <1>0, SubSeqEmpty
  <2>2. len < Weight[HeaderLen] /\ Weight[HeaderLen] \in Nat \ {0}
    BY Sizes, WeightPositive
  <2>3. len \div Weight[HeaderLen] = 0
    <3> DEFINE w == Weight[HeaderLen]
               q == len \div w
               r == len % w
    <3>1. w \in Nat \ {0} /\ len < w
      BY <2>2
    <3> HIDE DEF w
    <3>2. q \in Nat /\ r \in 0 .. w - 1 /\ len = w * q + r
      BY <3>1, <1>0, Quotient
    <3> HIDE DEF q, r
    <3>3. w * 0 + len = w * q + r /\ len \in 0 .. w - 1
      BY <3>1, <3>2, <1>0
    <3>4. 0 = q
      BY <3>1, <3>2, <3>3, Unique
    <3> QED BY <3>4 DEF q, w
  <2>4. Digits[SubSeq(H, 1, 0)] = len \div Weight[HeaderLen - 0]
    <3>1. HeaderLen - 0 = HeaderLen
      BY Sizes
    <3> QED BY <2>1, <2>3, <3>1, DigitsDef, Zenon
  <2> QED BY <2>4
<1>2. ASSUME NEW k \in Nat, k \in T PROVE k + 1 \in T
  <2> SUFFICES ASSUME k + 1 <= HeaderLen
               PROVE  Digits[SubSeq(H, 1, k + 1)] = len \div Weight[HeaderLen - (k + 1)]
    OBVIOUS
  <2> DEFINE p == SubSeq(H, 1, k + 1)
             w == Weight[HeaderLen - (k + 1)]
  <2>1. Digits[SubSeq(H, 1, k)] = len \div Weight[HeaderLen - k]
    BY <1>2, Sizes
  <2>2. w \in Nat \ {0} /\ Weight[HeaderLen - k] = Base * w
    <3>1. HeaderLen - (k + 1) \in Nat /\ (HeaderLen - (k + 1)) + 1 = HeaderLen - k
      BY Sizes
    <3> QED BY <3>1, WeightDef, WeightPositive
  <2>3. p \in Seq(Byte) /\ Len(p) = k + 1 /\ \A i \in 1 .. k + 1 : p[i] = H[i]
    <3>1. H \in Seq(Byte) /\ k + 1 \in 0 .. Len(H)
      BY <1>0
    <3> QED BY ONLY <3>1, PrefixProperties
  <2> HIDE DEF p
  <2>4. p # <<>> /\ Last(p) = H[k + 1]
    <3>1. k + 1 \in 1 .. k + 1 /\ Last(p) = p[Len(p)]
      BY DEF Last
    <3>2. Len(<<>>) = 0 /\ k + 1 # 0
      BY EmptySeq
    <3> QED BY <2>3, <3>1, <3>2
  <2>5. Front(p) = SubSeq(H, 1, k)
    <3>0. SubSeq(H, 1, k + 1) = p
      BY DEF p
    <3>1. Front(p) = SubSeq(p, 1, k)
      <4>1. Len(p) - 1 = k /\ Front(p) = SubSeq(p, 1, Len(p) - 1)
        BY <2>3 DEF Front
      <4> QED BY <4>1, Zenon
    <3>2. SubSeq(H, 1, k + 1) \o From(H, k + 1) = H
      <4>1. H \in Seq(Byte) /\ k + 1 \in 0 .. Len(H)
        BY <1>0
      <4> QED BY ONLY <4>1, CutJoin
    <3>3. From(H, k + 1) \in Seq(Byte)
      BY <1>0, FromProperties
    <3>4. SubSeq(p \o From(H, k + 1), 1, k) = SubSeq(p, 1, k)
      BY <2>3, <3>3, FromOfConcat
    <3> QED BY <3>0, <3>1, <3>2, <3>4
  <2>6. H[k + 1] = (len \div w) % Base
    <3>1. k + 1 \in 1 .. HeaderLen
      BY Sizes
    <3> QED BY <3>1 DEF SetHeader
  <2>7. Digits[p] = Base * (len \div (Base * w)) + ((len \div w) % Base)
    <3>1. Digits[p] = Base * Digits[Front(p)] + Last(p)
      BY <2>3, <2>4, DigitsDef
    <3> QED BY <3>1, <2>1, <2>2, <2>4, <2>5, <2>6
  <2>8. len \div w = Base * (len \div (Base * w)) + ((len \div w) % Base)
    <3>1. Base \in Nat \ {0}
      BY Sizes
    <3> HIDE DEF w
    <3> QED BY <2>2, <3>1, <1>0, QuotientStep
  <2> QED BY <2>7, <2>8 DEF p
<1> HIDE DEF T
<1>3. Nat \subseteq T
  BY <1>1, <1>2, SetInduction
<1>4. j \in T
  BY <1>3
<1> QED BY <1>4 DEF T

(* SeNetSreamGetHeader gives the length SeNetSreamSetHeader was given:     *)
(* every length up to MaxFrame survives the header, in the number of bytes *)
(* it has.                                                                 *)
THEOREM HeaderRoundTrip ==
  ASSUME NEW len \in 0 .. MaxFrame
  PROVE  GetHeader(SetHeader(len)) = len
<1> DEFINE H == SetHeader(len)
<1>0. len \in Nat /\ H \in Seq(Byte) /\ Len(H) = HeaderLen
  BY HeaderType
<1>1. Digits[SubSeq(H, 1, HeaderLen)] = len \div Weight[HeaderLen - HeaderLen]
  BY Sizes, DigitsOfHeader
<1>2. SubSeq(H, 1, HeaderLen) = H
  BY <1>0, SubSeqFull
<1>3. Weight[HeaderLen - HeaderLen] = 1
  BY Sizes, WeightDef
<1>4. len \div 1 = len
  BY <1>0
<1> QED BY <1>1, <1>2, <1>3, <1>4 DEF GetHeader

-----------------------------------------------------------------------------
(* Frames.                                                                 *)

LEMMA ListJoin ==
  ASSUME NEW a \in Seq(Byte), NEW b \in Seq(Byte), NEW c \in Seq(Byte)
  PROVE  <<a>> \o <<b>> = <<a, b>> /\ <<a>> \o <<b, c>> = <<a, b, c>>
<1> DEFINE B == Seq(Byte)
           x == <<a>>
           y == <<b>>
           z == <<b, c>>
           l == <<a, b>>
           m == <<a, b, c>>
<1>0. a \in B /\ b \in B /\ c \in B
  OBVIOUS
<1> HIDE DEF B
<1>1. /\ x \in Seq(B) /\ Len(x) = 1 /\ x[1] = a
      /\ y \in Seq(B) /\ Len(y) = 1 /\ y[1] = b
      /\ z \in Seq(B) /\ Len(z) = 2 /\ z[1] = b /\ z[2] = c
      /\ l \in Seq(B) /\ Len(l) = 2 /\ l[1] = a /\ l[2] = b
      /\ m \in Seq(B) /\ Len(m) = 3 /\ m[1] = a /\ m[2] = b /\ m[3] = c
  BY <1>0
<1> HIDE DEF x, y, z, l, m
<1>2. /\ x \o y \in Seq(B) /\ Len(x \o y) = 2
      /\ \A i \in 1 .. 2 : (x \o y)[i] = IF i <= 1 THEN x[i] ELSE y[i - 1]
  <2>1. /\ x \o y \in Seq(B) /\ Len(x \o y) = Len(x) + Len(y)
        /\ \A i \in 1 .. Len(x) + Len(y) :
              (x \o y)[i] = IF i <= Len(x) THEN x[i] ELSE y[i - Len(x)]
    BY <1>1, ConcatProperties
  <2> QED BY <2>1, <1>1
<1>3. /\ x \o z \in Seq(B) /\ Len(x \o z) = 3
      /\ \A i \in 1 .. 3 : (x \o z)[i] = IF i <= 1 THEN x[i] ELSE z[i - 1]
  <2>1. /\ x \o z \in Seq(B) /\ Len(x \o z) = Len(x) + Len(z)
        /\ \A i \in 1 .. Len(x) + Len(z) :
              (x \o z)[i] = IF i <= Len(x) THEN x[i] ELSE z[i - Len(x)]
    BY <1>1, ConcatProperties
  <2> QED BY <2>1, <1>1
<1>4. (x \o y)[1] = a /\ (x \o y)[2] = b
  BY <1>1, <1>2
<1>5. (x \o z)[1] = a /\ (x \o z)[2] = b /\ (x \o z)[3] = c
  BY <1>1, <1>3
<1>6. x \o y = l
  <2>1. \A i \in 1 .. Len(x \o y) : (x \o y)[i] = l[i]
    BY <1>1, <1>2, <1>4
  <2> QED BY <2>1, <1>1, <1>2, SeqEqual
<1>7. x \o z = m
  <2>1. \A i \in 1 .. Len(x \o z) : (x \o z)[i] = m[i]
    BY <1>1, <1>3, <1>5
  <2>2. x \o z \in Seq(B) /\ m \in Seq(B) /\ Len(x \o z) = Len(m)
    BY <1>1, <1>3
  <2> DEFINE u == x \o z
  <2> HIDE DEF u
  <2>3. u \in Seq(B) /\ m \in Seq(B) /\ Len(u) = Len(m) /\ \A i \in 1 .. Len(u) : u[i] = m[i]
    BY <2>1, <2>2 DEF u
  <2>4. u = m
    BY ONLY <2>3, SeqEqual
  <2> QED BY <2>4 DEF u
<1> QED BY <1>6, <1>7 DEF x, y, z, l, m

(* The pool topped up for a length has nodes for the header and as many    *)
(* bytes, whatever room the last node of the stream has.                   *)
LEMMA PoolSuffices ==
  ASSUME NEW pool \in Nat, NEW len \in Nat
  PROVE  UpdateIdle(pool, len) \in Nat /\ UpdateIdle(pool, len) * Cap >= HeaderLen + len
<1> DEFINE i == Cap - HeaderLen
           l == IF len <= 0 THEN Cap + Overhead ELSE len
           x == l + (i - 1)
           q == x \div i
           r == x % i
           N == NodesFor(len)
<1>1. i \in Nat \ {0} /\ l \in Nat \ {0} /\ l >= len /\ x \in Nat /\ Cap = i + HeaderLen
      /\ HeaderLen \in Nat /\ Cap \in Nat
  BY Sizes
<1>2. N = q * 2
  BY DEF NodesFor
<1>a. x = l + (i - 1)
  OBVIOUS
<1> HIDE DEF i, l, x, N
<1>3. q \in Nat /\ r \in 0 .. i - 1 /\ x = i * q + r
  BY <1>1, Quotient
<1> HIDE DEF q, r
<1>4. i * q >= l /\ i * q \in Nat
  <2>1. i * q \in Nat
    BY <1>1, <1>3
  <2> QED BY <2>1, <1>1, <1>3, <1>a
<1>5. q # 0
  BY <1>1, <1>3, <1>4
<1>6. HeaderLen * q >= HeaderLen /\ HeaderLen * q \in Nat
  <2>1. PICK z \in Nat : q = z + 1
    <3>1. q - 1 \in Nat /\ q = (q - 1) + 1
      BY <1>3, <1>5
    <3> QED BY <3>1
  <2>2. HeaderLen * q = HeaderLen * z + HeaderLen
    BY <2>1, <1>1
  <2>3. HeaderLen * z \in Nat
    BY <1>1
  <2> QED BY <2>2, <2>3, <1>1
<1>7. N \in Nat /\ N * Cap >= HeaderLen + len
  <2>1. N \in Nat
    BY <1>2, <1>3
  <2>2. N * Cap = 2 * (i * q) + 2 * (HeaderLen * q)
    BY <1>1, <1>2, <1>3
  <2> QED BY <2>1, <2>2, <1>1, <1>4, <1>6
<1>8. UpdateIdle(pool, len) = IF pool >= N THEN pool ELSE pool + N
  BY DEF UpdateIdle, N
<1>9. ASSUME NEW k \in Nat, k >= N PROVE k * Cap >= HeaderLen + len
  <2>1. PICK z \in Nat : k = N + z
    <3>1. k - N \in Nat /\ k = N + (k - N)
      BY <1>7, <1>9
    <3> QED BY <3>1
  <2>2. k * Cap = N * Cap + z * Cap
    BY <2>1, <1>1, <1>7
  <2>3. z * Cap \in Nat /\ N * Cap \in Nat
    BY <1>1, <1>7
  <2> QED BY <2>2, <2>3, <1>1, <1>7
<1>10. UpdateIdle(pool, len) \in Nat /\ UpdateIdle(pool, len) >= N
  BY <1>7, <1>8
<1> QED BY <1>9, <1>10

(* The frame of these contents.                                            *)
Frame(f) == SetHeader(Len(f)) \o f

(* What a program may send: what a header can count.                       *)
Sent == {f \in Seq(Byte) : Len(f) <= MaxFrame}

LEMMA FrameType ==
  ASSUME NEW f \in Sent
  PROVE  /\ f \in Seq(Byte) /\ Len(f) \in 0 .. MaxFrame
         /\ SetHeader(Len(f)) \in Seq(Byte) /\ Len(SetHeader(Len(f))) = HeaderLen
         /\ Frame(f) \in Seq(Byte) /\ Len(Frame(f)) = HeaderLen + Len(f)
<1>1. f \in Seq(Byte) /\ Len(f) \in 0 .. MaxFrame
  BY LenProperties, Sizes DEF Sent
<1>2. SetHeader(Len(f)) \in Seq(Byte) /\ Len(SetHeader(Len(f))) = HeaderLen
  BY <1>1, HeaderType
<1> QED BY <1>1, <1>2, ConcatProperties DEF Frame

(* SeNetCoreSend of any contents a header can count, whatever is in the    *)
(* stream and in the pool: once the pool is topped up, the whole frame is  *)
(* written, behind what was there.                                         *)
THEOREM SendWritesFrame ==
  ASSUME NEW s, Sound(s), NEW pool \in Nat, NEW f \in Sent
  PROVE  Appended(s, Frame(f), WriteFrame(s, UpdateIdle(pool, Len(f)), <<f>>, Len(f)))
<1> DEFINE h == SetHeader(Len(f))
           n == UpdateIdle(pool, Len(f))
<1>1. f \in Seq(Byte) /\ Len(f) \in Nat /\ h \in Seq(Byte) /\ Len(h) = HeaderLen /\ HeaderLen \in Nat
  BY FrameType, Sizes
<1>2. n \in Nat /\ n * Cap >= HeaderLen + Len(f)
  BY <1>1, PoolSuffices
<1>3. <<h>> \o <<f>> = <<h, f>>
  <2> HIDE DEF h
  <2> QED BY <1>1, ListJoin
<1>4. WriteFrame(s, n, <<f>>, Len(f)) = WriteAll[<<s, n, <<h, f>>>>]
  BY <1>3, Zenon DEF WriteFrame
<1>5. Frame(f) = h \o f
  BY DEF Frame
<1> HIDE DEF h, n
<1>6. Len(h) + Len(f) <= Space(s, n)
  <2>1. Space(s, n) \in Nat /\ Space(s, n) >= n * Cap
    BY <1>2, SpaceNat
  <2>2. n * Cap \in Nat
    BY <1>2, Sizes
  <2> QED BY <2>1, <2>2, <1>1, <1>2
<1>7. Appended(s, h \o f, WriteAll[<<s, n, <<h, f>>>>])
  BY <1>1, <1>2, <1>6, WriteTwo
<1> QED BY <1>4, <1>5, <1>7 DEF n

(* SeNetCoreSendExtend of the same contents in two buffers writes the same *)
(* frame.                                                                  *)
THEOREM SendExtendWritesFrame ==
  ASSUME NEW s, Sound(s), NEW pool \in Nat, NEW a \in Seq(Byte), NEW b \in Seq(Byte),
         a \o b \in Sent
  PROVE  Appended(s, Frame(a \o b),
                  WriteFrame(s, UpdateIdle(pool, Len(a \o b)), <<a, b>>, Len(a \o b)))
<1> DEFINE f == a \o b
           h == SetHeader(Len(f))
           n == UpdateIdle(pool, Len(f))
<1>1. /\ f \in Seq(Byte) /\ Len(f) \in Nat /\ h \in Seq(Byte) /\ Len(h) = HeaderLen
      /\ HeaderLen \in Nat
  <2>1. f \in Sent
    OBVIOUS
  <2> HIDE DEF f
  <2> QED BY <2>1, FrameType, Sizes
<1>a. Len(f) = Len(a) + Len(b) /\ Len(a) \in Nat /\ Len(b) \in Nat
  BY ConcatProperties, LenProperties
<1>2. n \in Nat /\ n * Cap >= HeaderLen + Len(f)
  <2> HIDE DEF f
  <2> QED BY <1>1, PoolSuffices
<1>3. <<h>> \o <<a, b>> = <<h, a, b>>
  <2> HIDE DEF h
  <2> QED BY <1>1, ListJoin
<1>4. WriteFrame(s, n, <<a, b>>, Len(f)) = WriteAll[<<s, n, <<h, a, b>>>>]
  BY <1>3, Zenon DEF WriteFrame
<1>5. Frame(f) = h \o (a \o b)
  BY DEF Frame
<1> HIDE DEF h, n, f
<1>6. Len(h) + Len(a) + Len(b) <= Space(s, n)
  <2>1. Space(s, n) \in Nat /\ Space(s, n) >= n * Cap
    BY <1>2, SpaceNat
  <2>2. n * Cap \in Nat
    BY <1>2, Sizes
  <2> QED BY <2>1, <2>2, <1>1, <1>2, <1>a
<1>7. Appended(s, h \o (a \o b), WriteAll[<<s, n, <<h, a, b>>>>])
  BY <1>1, <1>2, <1>6, WriteThree
<1> QED BY <1>4, <1>5, <1>7 DEF n, f

(* The length in the header at the beginning, whether all of that frame is *)
(* there, what it holds and what is behind it.                             *)
HeadLen(b)  == GetHeader(SubSeq(b, 1, HeaderLen))
Whole1(b)   == ~(Len(b) < HeaderLen) /\ ~(Len(b) < HeaderLen + HeadLen(b))
First(b)    == SubSeq(b, HeaderLen + 1, HeaderLen + HeadLen(b))
Behind(b)   == From(b, HeaderLen + HeadLen(b))

LEMMA FirstType ==
  ASSUME NEW b \in Seq(Byte), Whole1(b)
  PROVE  /\ HeadLen(b) \in Nat /\ First(b) \in Seq(Byte) /\ Behind(b) \in Seq(Byte)
         /\ Len(Behind(b)) \in Nat /\ Len(Behind(b)) < Len(b) /\ Len(b) \in Nat
<1> DEFINE H == HeaderLen
           n == HeadLen(b)
<1>1. Len(b) \in Nat /\ H \in Nat \ {0} /\ H \in 0 .. Len(b)
  BY LenProperties, Sizes DEF Whole1
<1>2. n \in Nat
  <2>1. SubSeq(b, 1, H) \in Seq(Byte)
    BY <1>1, PrefixProperties
  <2> QED BY <2>1, DigitsDef DEF HeadLen, GetHeader
<1>3. ~(Len(b) < H + n) /\ First(b) = SubSeq(b, H + 1, H + n) /\ Behind(b) = From(b, H + n)
  BY DEF Whole1, First, Behind
<1> HIDE DEF n
<1>4. H + n \in Nat /\ H + n <= Len(b) /\ H \in Nat /\ n \in 0 .. Len(b) - H
  BY <1>1, <1>2, <1>3
<1>5. Behind(b) \in Seq(Byte) /\ Len(Behind(b)) = Len(b) - (H + n)
  <2>1. From(b, H + n) \in Seq(Byte) /\ Len(From(b, H + n)) = Len(b) - (H + n)
    <3>1. b \in Seq(Byte) /\ H + n \in Nat /\ H + n <= Len(b)
      BY <1>4
    <3> QED BY ONLY <3>1, FromProperties
  <2> QED BY <2>1, <1>3
<1>6. First(b) \in Seq(Byte)
  <2>1. SubSeq(b, H + 1, H + n) = SubSeq(From(b, H), 1, n)
    BY <1>4, <1>2, SliceOfFrom
  <2>2. From(b, H) \in Seq(Byte) /\ Len(From(b, H)) = Len(b) - H
    <3>1. b \in Seq(Byte) /\ H \in Nat /\ H <= Len(b)
      BY <1>1
    <3> QED BY ONLY <3>1, FromProperties
  <2>3. n \in 0 .. Len(From(b, H))
    BY <1>4, <2>2
  <2>4. SubSeq(From(b, H), 1, n) \in Seq(Byte)
    BY <2>2, <2>3, PrefixProperties
  <2> QED BY <2>1, <2>4, <1>3
<1>7. Len(Behind(b)) < Len(b) /\ Len(Behind(b)) \in Nat
  BY <1>1, <1>2, <1>4, <1>5
<1> QED BY <1>1, <1>2, <1>5, <1>6, <1>7 DEF n

(* What Frames, defined by recursion over the bytes, is.                   *)
LEMMA FramesDef ==
  /\ Frames \in [Seq(Byte) -> Seq(Seq(Byte))]
  /\ \A b \in Seq(Byte) :
       Frames[b] = IF Whole1(b) THEN <<First(b)>> \o Frames[Behind(b)] ELSE <<>>
<1> DEFINE X == Seq(Byte)
           V == Seq(Seq(Byte))
           m == [b \in X |-> Len(b)]
           stop == {b \in X : ~Whole1(b)}
           end == [b \in X |-> <<>>]
           step == [b \in X |-> IF Whole1(b) THEN Behind(b) ELSE b]
           comb == [p \in X \X V |-> IF Whole1(p[1]) THEN <<First(p[1])>> \o p[2] ELSE <<>>]
           P(g) == g = [b \in X |-> IF Len(b) < HeaderLen THEN <<>>
                                    ELSE IF Len(b) < HeaderLen + HeadLen(b) THEN <<>>
                                    ELSE <<First(b)>> \o g[Behind(b)]]
<1>1. \A b \in X : Len(b) \in Nat
  BY LenProperties
<1>2. \A b \in X : Whole1(b) => /\ First(b) \in X /\ Behind(b) \in X
                                 /\ Len(Behind(b)) < Len(b)
  BY FirstType
<1>3. \A x \in X : \A l \in V : <<x>> \o l \in V
  <2> HIDE DEF X
  <2>1. V = Seq(X)
    BY DEF X
  <2> HIDE DEF V
  <2> SUFFICES ASSUME NEW x \in X, NEW l \in Seq(X) PROVE <<x>> \o l \in Seq(X)
    BY <2>1
  <2>2. <<x>> \in Seq(X)
    OBVIOUS
  <2> QED BY <2>2, ConcatProperties
<1>4. <<>> \in V
  OBVIOUS
<1>5. m \in [X -> Nat] /\ end \in [X -> V] /\ step \in [X -> X] /\ comb \in [X \X V -> V]
  <2> HIDE DEF X, V
  <2> QED BY <1>1, <1>2, <1>3, <1>4
<1>6. Recursive(X, V, m, stop, end, step, comb)
  <2>1. \A b \in X : b \notin stop => m[step[b]] < m[b]
    <3> HIDE DEF X, V
    <3> QED BY <1>2
  <2> QED BY <1>5, <2>1 DEF Recursive
<1>7. PICK f : Solves(X, V, stop, end, step, comb, f)
  <2> HIDE DEF X, V, m, stop, end, step, comb
  <2> QED BY <1>6, Recursion
<1>8. f \in [X -> V] /\ \A b \in X : f[b] = Value(stop, end, comb, b, f[step[b]])
  BY <1>7 DEF Solves
<1>9. ASSUME NEW b \in X
      PROVE  f[b] = IF Whole1(b) THEN <<First(b)>> \o f[Behind(b)] ELSE <<>>
  <2> HIDE DEF X, V
  <2>1. CASE ~Whole1(b)
    BY <2>1, <1>8 DEF Value
  <2>2. CASE Whole1(b)
    <3>1. step[b] = Behind(b) /\ Behind(b) \in X /\ b \notin stop
      BY <2>2, <1>2
    <3>2. f[b] = comb[<<b, f[Behind(b)]>>] /\ f[Behind(b)] \in V
      BY <3>1, <1>8 DEF Value
    <3>3. f[b] = <<First(b)>> \o f[Behind(b)]
      BY <2>2, <3>2
    <3> QED BY <2>2, <3>3
  <2> QED BY <2>1, <2>2
<1>10. P(f)
  <2>1. \A b \in X : f[b] = IF Len(b) < HeaderLen THEN <<>>
                            ELSE IF Len(b) < HeaderLen + HeadLen(b) THEN <<>>
                            ELSE <<First(b)>> \o f[Behind(b)]
    <3> HIDE DEF X
    <3> QED BY <1>9, Zenon DEF Whole1
  <2> HIDE DEF X
  <2> QED BY <1>8, <2>1
<1>11. P(Frames)
  <2>1. Frames = CHOOSE g : P(g)
    BY DEF Frames, HeadLen, First, Behind
  <2>2. (\E g : P(g)) => P(CHOOSE g : P(g))
    <3> HIDE DEF P
    <3> QED OBVIOUS
  <2> QED BY <1>10, <2>1, <2>2, Zenon
<1>12. ASSUME NEW b \in X
       PROVE  Frames[b] = IF Whole1(b) THEN <<First(b)>> \o Frames[Behind(b)] ELSE <<>>
  <2>1. Frames[b] = IF Len(b) < HeaderLen THEN <<>>
                    ELSE IF Len(b) < HeaderLen + HeadLen(b) THEN <<>>
                    ELSE <<First(b)>> \o Frames[Behind(b)]
    <3> HIDE DEF X
    <3> QED BY <1>11
  <2> QED BY <2>1, Zenon DEF Whole1
<1>13. \A b \in X : b \in stop \/ Frames[step[b]] \in V =>
                       Frames[b] = Value(stop, end, comb, b, Frames[step[b]])
  <2> HIDE DEF X, V
  <2> QED BY <1>2, <1>12 DEF Value
<1>14. \A b \in X : Frames[b] = f[b]
  <2> HIDE DEF X, V, stop, end, step, comb, P
  <2> QED BY <1>7, <1>13 DEF Solves
<1>15. Frames \in [X -> V]
  <2> HIDE DEF X, V
  <2> QED BY <1>8, <1>11, <1>14
<1> QED BY <1>12, <1>15

(* The parts of bytes that begin with a frame.                             *)
LEMMA FrameParts ==
  ASSUME NEW f \in Sent, NEW w \in Seq(Byte), NEW b, b = Frame(f) \o w
  PROVE  /\ b \in Seq(Byte) /\ Len(b) = HeaderLen + Len(f) + Len(w)
         /\ HeadLen(b) = Len(f) /\ Whole1(b) /\ First(b) = f /\ Behind(b) = w
         /\ From(b, HeaderLen) = f \o w
<1> DEFINE h == SetHeader(Len(f))
           g == f \o w
           H == HeaderLen
           n == Len(f)
<1>1. /\ f \in Seq(Byte) /\ n \in 0 .. MaxFrame /\ n \in Nat /\ h \in Seq(Byte) /\ Len(h) = H
      /\ Frame(f) = h \o f /\ H \in Nat /\ Len(w) \in Nat
  BY FrameType, Sizes, LenProperties DEF Frame
<1>2. g \in Seq(Byte) /\ Len(g) = n + Len(w)
  BY <1>1, ConcatProperties
<1>h. GetHeader(h) = n
  BY <1>1, HeaderRoundTrip
<1>3. b = h \o g
  <2>1. h \o (f \o w) = (h \o f) \o w
    BY <1>1, Grouping
  <2> QED BY <2>1, <1>1
<1> HIDE DEF h, g, n
<1>4. b \in Seq(Byte) /\ Len(b) = H + n + Len(w)
  <2>1. h \o g \in Seq(Byte) /\ Len(h \o g) = Len(h) + Len(g)
    BY <1>1, <1>2, ConcatProperties
  <2>2. b \in Seq(Byte) /\ Len(b) = H + (n + Len(w))
    BY <2>1, <1>1, <1>2, <1>3, Zenon
  <2>3. H + (n + Len(w)) = H + n + Len(w)
    BY <1>1
  <2> QED BY <2>2, <2>3, Zenon
<1>5. From(b, H) = g /\ SubSeq(b, 1, H) = h
  <2>1. From(h \o g, H) = From(h, H) \o g /\ SubSeq(h \o g, 1, H) = SubSeq(h, 1, H)
    <3>1. h \in Seq(Byte) /\ g \in Seq(Byte) /\ H \in 0 .. Len(h)
      BY <1>1, <1>2
    <3> QED BY ONLY <3>1, FromOfConcat
  <2>2. From(h, Len(h)) = <<>>
    BY <1>1, FromEnds
  <2>3. SubSeq(h, 1, Len(h)) = h
    BY <1>1, SubSeqFull
  <2>4. <<>> \o g = g
    BY <1>2, ConcatEmptySeq
  <2> QED BY <2>1, <2>2, <2>3, <2>4, <1>1, <1>3
<1>6. HeadLen(b) = n
  BY <1>5, <1>h, Zenon DEF HeadLen
<1>7. Whole1(b)
  BY <1>1, <1>4, <1>6 DEF Whole1
<1>8. From(g, n) = w /\ SubSeq(g, 1, n) = f
  <2>1. From(f \o w, n) = From(f, n) \o w /\ SubSeq(f \o w, 1, n) = SubSeq(f, 1, n)
    <3>1. f \in Seq(Byte) /\ w \in Seq(Byte) /\ n \in 0 .. Len(f)
      BY <1>1 DEF n
    <3> QED BY ONLY <3>1, FromOfConcat
  <2>2. From(f, n) = <<>>
    BY <1>1, FromEnds DEF n
  <2>3. SubSeq(f, 1, n) = f
    BY <1>1, SubSeqFull DEF n
  <2>4. <<>> \o w = w
    BY ConcatEmptySeq
  <2> QED BY <2>1, <2>2, <2>3, <2>4 DEF g
<1>9. First(b) = f
  <2>1. SubSeq(b, H + 1, H + n) = SubSeq(From(b, H), 1, n)
    <3>1. b \in Seq(Byte) /\ H \in Nat /\ n \in Nat /\ H + n <= Len(b)
      BY <1>1, <1>4
    <3> QED BY ONLY <3>1, SliceOfFrom
  <2> QED BY <2>1, <1>5, <1>6, <1>8 DEF First
<1>10. Behind(b) = w
  <2>1. From(From(b, H), n) = From(b, H + n)
    <3>1. b \in Seq(Byte) /\ H \in 0 .. Len(b) /\ n \in 0 .. Len(b) - H
      BY <1>1, <1>4
    <3> QED BY ONLY <3>1, FromOfFrom
  <2> QED BY <2>1, <1>5, <1>6, <1>8 DEF Behind
<1> QED BY <1>4, <1>5, <1>6, <1>7, <1>9, <1>10 DEF n, g

LEMMA FramesHead ==
  ASSUME NEW f \in Sent, NEW w \in Seq(Byte)
  PROVE  Frame(f) \o w \in Seq(Byte) /\ Frames[Frame(f) \o w] = <<f>> \o Frames[w]
<1> DEFINE b == Frame(f) \o w
<1>1. b = Frame(f) \o w
  OBVIOUS
<1> HIDE DEF b
<1>2. b \in Seq(Byte) /\ Whole1(b) /\ First(b) = f /\ Behind(b) = w
  BY <1>1, FrameParts
<1>3. Frames[b] = <<f>> \o Frames[w]
  BY <1>2, FramesDef
<1> QED BY <1>1, <1>2, <1>3

(* Lists of frames.                                                        *)
LEMMA OneFrame ==
  ASSUME NEW g \in Seq(Byte), NEW f \in Seq(Byte), NEW q \in Seq(Seq(Byte))
  PROVE  /\ <<g>> \o <<>> = <<g>>
         /\ <<g>> \o Append(q, f) = Append(<<g>> \o q, f)
         /\ Head(<<g>> \o q) = g /\ Tail(<<g>> \o q) = q /\ <<g>> \o q # <<>>
<1> DEFINE B == Seq(Byte)
           x == <<g>>
<1>0. g \in B /\ f \in B /\ q \in Seq(B)
  OBVIOUS
<1> HIDE DEF B
<1>1. x \in Seq(B) /\ Len(x) = 1 /\ x[1] = g /\ x # <<>>
  BY <1>0
<1> HIDE DEF x
<1>2. x \o <<>> = x
  BY <1>1, ConcatEmptySeq
<1>3. x \o Append(q, f) = Append(x \o q, f)
  <2>1. Append(q, f) = q \o <<f>>
    BY <1>0, AppendIsConcat
  <2>2. x \o q \in Seq(B) /\ <<f>> \in Seq(B)
    BY <1>0, <1>1, ConcatProperties
  <2>3. Append(x \o q, f) = (x \o q) \o <<f>>
    <3> DEFINE u == x \o q
    <3> HIDE DEF u
    <3>1. u \in Seq(B) /\ f \in B
      BY <1>0, <2>2 DEF u
    <3>2. Append(u, f) = u \o <<f>>
      BY ONLY <3>1, AppendIsConcat
    <3> QED BY <3>2 DEF u
  <2>4. (x \o q) \o <<f>> = x \o (q \o <<f>>)
    <3> DEFINE v == <<f>>
    <3> HIDE DEF v
    <3>1. x \in Seq(B) /\ q \in Seq(B) /\ v \in Seq(B)
      BY <1>0, <1>1, <2>2 DEF v
    <3>2. (x \o q) \o v = x \o (q \o v)
      BY ONLY <3>1
    <3> QED BY <3>2 DEF v
  <2> QED BY <2>1, <2>3, <2>4
<1> DEFINE c == x \o q
<1>4. /\ c \in Seq(B) /\ Len(c) = 1 + Len(q) /\ Len(q) \in Nat
      /\ \A i \in 1 .. 1 + Len(q) : c[i] = IF i <= 1 THEN x[i] ELSE q[i - 1]
  <2>1. Len(q) \in Nat
    BY <1>0, LenProperties
  <2>2. /\ c \in Seq(B) /\ Len(c) = Len(x) + Len(q)
        /\ \A i \in 1 .. Len(x) + Len(q) :
              c[i] = IF i <= Len(x) THEN x[i] ELSE q[i - Len(x)]
    BY <1>0, <1>1, ConcatProperties
  <2> QED BY <2>1, <2>2, <1>1
<1> HIDE DEF c
<1>5. c # <<>> /\ Head(c) = g
  <2>1. c # <<>>
    BY <1>4, EmptySeq
  <2>2. c[1] = g
    BY <1>1, <1>4
  <2> QED BY <2>1, <2>2, <1>4
<1>6. Tail(c) = q
  <2>1. /\ Tail(c) \in Seq(B) /\ Len(Tail(c)) = Len(c) - 1
        /\ \A i \in 1 .. Len(Tail(c)) : Tail(c)[i] = c[i + 1]
    BY <1>4, <1>5, HeadTailProperties
  <2>2. Len(Tail(c)) = Len(q)
    BY <1>4, <2>1
  <2>3. \A i \in 1 .. Len(Tail(c)) : Tail(c)[i] = q[i]
    BY <1>4, <2>1, <2>2
  <2> DEFINE u == Tail(c)
  <2> HIDE DEF u
  <2>4. u \in Seq(B) /\ q \in Seq(B) /\ Len(u) = Len(q) /\ \A i \in 1 .. Len(u) : u[i] = q[i]
    BY <1>0, <2>1, <2>2, <2>3 DEF u
  <2>5. u = q
    BY ONLY <2>4, SeqEqual
  <2> QED BY <2>5 DEF u
<1> QED BY <1>2, <1>3, <1>5, <1>6 DEF x, c

(* Bytes that are frames from the first to the last one: nothing is half   *)
(* written and nothing was lost.                                           *)
Closed(T) == T \subseteq Seq(Byte) /\ <<>> \in T /\ \A f \in Sent : \A w \in T : Frame(f) \o w \in T
Wholes    == {b \in Seq(Byte) : \A T \in SUBSET Seq(Byte) : Closed(T) => b \in T}

LEMMA WholesClosed == Closed(Wholes)
<1>1. <<>> \in Wholes
  BY EmptySeq DEF Wholes, Closed
<1>2. ASSUME NEW f \in Sent, NEW w \in Wholes PROVE Frame(f) \o w \in Wholes
  <2>1. w \in Seq(Byte) /\ \A T \in SUBSET Seq(Byte) : Closed(T) => w \in T
    BY DEF Wholes
  <2>2. Frame(f) \o w \in Seq(Byte)
    BY <2>1, FramesHead
  <2>3. ASSUME NEW T \in SUBSET Seq(Byte), Closed(T) PROVE Frame(f) \o w \in T
    BY <2>1, <2>3 DEF Closed
  <2> QED BY <2>2, <2>3 DEF Wholes
<1> QED BY <1>1, <1>2 DEF Closed, Wholes

(* The bytes of a closed set are all the whole frames there are.           *)
LEMMA WholesLeast ==
  ASSUME NEW T, Closed(T)
  PROVE  Wholes \subseteq T
BY DEF Wholes, Closed

(* They are nothing, or begin with a frame and go on with whole frames.    *)
LEMMA WholesCases ==
  ASSUME NEW b \in Wholes, b # <<>>
  PROVE  \E f \in Sent : \E w \in Wholes : b = Frame(f) \o w
<1> DEFINE T == {c \in Wholes : c = <<>> \/ \E f \in Sent : \E w \in Wholes : c = Frame(f) \o w}
<1>1. Closed(T)
  BY WholesClosed DEF Closed
<1>2. Wholes \subseteq T
  <2> HIDE DEF T
  <2> QED BY <1>1, WholesLeast
<1> QED BY <1>2

LEMMA NoFrames == Frames[<<>>] = <<>>
<1>1. <<>> \in Seq(Byte) /\ Len(<<>>) = 0
  BY EmptySeq
<1>2. ~Whole1(<<>>)
  BY <1>1, Sizes DEF Whole1
<1> QED BY <1>1, <1>2, FramesDef

(* One more frame behind whole frames is one more frame in the queue.      *)
LEMMA FramesAppend ==
  ASSUME NEW f \in Sent, NEW b \in Wholes
  PROVE  b \o Frame(f) \in Wholes /\ Frames[b \o Frame(f)] = Append(Frames[b], f)
<1> DEFINE F == Frame(f)
           T == {c \in Seq(Byte) : c \o F \in Wholes /\ Frames[c \o F] = Append(Frames[c], f)}
<1>1. F \in Seq(Byte) /\ f \in Seq(Byte) /\ F = Frame(f)
  BY FrameType
<1> HIDE DEF F
<1>2. F \in Wholes /\ Frames[F] = <<f>>
  <2>1. F \o <<>> = F
    BY <1>1, ConcatEmptySeq
  <2>2. F \o <<>> \in Wholes
    BY <1>1, WholesClosed DEF Closed
  <2>3. Frames[F \o <<>>] = <<f>> \o Frames[<<>>]
    BY <1>1, EmptySeq, FramesHead
  <2>4. <<f>> \o <<>> = <<f>>
    BY <1>1, OneFrame
  <2> QED BY <2>1, <2>2, <2>3, <2>4, NoFrames
<1>3. <<>> \in T
  <2>1. <<>> \o F = F
    BY <1>1, ConcatEmptySeq
  <2>2. Append(Frames[<<>>], f) = <<f>>
    BY NoFrames
  <2> QED BY <2>1, <2>2, <1>2, EmptySeq
<1>4. ASSUME NEW g \in Sent, NEW w \in T PROVE Frame(g) \o w \in T
  <2> DEFINE G == Frame(g)
  <2>1. /\ w \in Seq(Byte) /\ w \o F \in Wholes /\ w \o F \in Seq(Byte)
        /\ Frames[w \o F] = Append(Frames[w], f)
        /\ Frames[w] \in Seq(Seq(Byte))
    BY FramesDef DEF Wholes
  <2>2. G \in Seq(Byte) /\ G = Frame(g)
    BY FrameType
  <2> HIDE DEF G
  <2>3. G \o (w \o F) = (G \o w) \o F
    <3>1. \A x, y, z \in Seq(Byte) : x \o (y \o z) = (x \o y) \o z
      BY Grouping
    <3>2. G \in Seq(Byte) /\ w \in Seq(Byte) /\ F \in Seq(Byte)
      BY <1>1, <2>1, <2>2
    <3> QED BY ONLY <3>1, <3>2
  <2>4. (G \o w) \o F \in Wholes
    <3>1. G \o (w \o F) \in Wholes
      BY <2>1, <2>2, WholesClosed DEF Closed
    <3> QED BY <2>3, <3>1
  <2>5. G \o w \in Seq(Byte) /\ Frames[G \o w] = <<g>> \o Frames[w]
    BY <2>1, <2>2, FramesHead
  <2>6. Frames[G \o (w \o F)] = <<g>> \o Frames[w \o F]
    BY <2>1, <2>2, FramesHead
  <2>7. <<g>> \o Append(Frames[w], f) = Append(<<g>> \o Frames[w], f)
    <3> DEFINE q == Frames[w]
    <3>1. g \in Seq(Byte) /\ f \in Seq(Byte) /\ q \in Seq(Seq(Byte))
      BY <1>1, <2>1 DEF Sent
    <3> HIDE DEF q
    <3>2. <<g>> \o Append(q, f) = Append(<<g>> \o q, f)
      BY ONLY <3>1, OneFrame
    <3> QED BY <3>2 DEF q
  <2>8. Frames[(G \o w) \o F] = Append(Frames[G \o w], f)
    BY <2>1, <2>3, <2>5, <2>6, <2>7
  <2> QED BY <2>4, <2>5, <2>8 DEF G
<1>5. Closed(T)
  BY <1>3, <1>4 DEF Closed
<1> HIDE DEF T
<1>6. b \in T
  BY <1>5, WholesLeast
<1> QED BY <1>6, <1>1 DEF T

-----------------------------------------------------------------------------
(* The pipe: the inductive invariant.                                      *)

Bytes(r, w, t) == Contents(r) \o w \o Contents(t)

(* Both streams are sound, and all that is under way, the receive stream,  *)
(* the wire and the send stream one behind the other, is whole frames.     *)
Good(t, tp, w, r, rp) ==
  /\ Sound(t) /\ Sound(r) /\ tp \in Nat /\ rp \in Nat /\ w \in Seq(Byte)
  /\ Bytes(r, w, t) \in Wholes

IInv == Good(tx, txPool, wire, rx, rxPool) /\ up = TRUE

LEMMA ContentsType ==
  ASSUME NEW s, Sound(s)
  PROVE  /\ s \in Stream /\ s.nodes \in Seq(Node) /\ Contents(s) \in Seq(Byte)
         /\ Len(Contents(s)) \in Nat /\ s.llSize = Len(Contents(s))
<1>1. s \in Stream /\ s.nodes \in Seq(Node) /\ s.llSize = Len(Contents(s))
  BY SoundStream DEF NodesOK, Contents
<1> QED BY <1>1, UnreadDef, LenProperties DEF Contents

(* A frame written to the send stream.                                     *)
LEMMA SendGood ==
  ASSUME NEW t, NEW tp, NEW w, NEW r, NEW rp, Good(t, tp, w, r, rp),
         NEW f \in Sent, NEW res, Appended(t, Frame(f), res)
  PROVE  /\ Good(res.s, res.pool, w, r, rp)
         /\ Frames[Bytes(r, w, res.s)] = Append(Frames[Bytes(r, w, t)], f)
<1> DEFINE a == Contents(r) \o w
           b == Contents(t)
           F == Frame(f)
<1>1. /\ Sound(t) /\ Sound(r) /\ rp \in Nat /\ w \in Seq(Byte) /\ a \o b \in Wholes
      /\ Sound(res.s) /\ res.pool \in Nat /\ Contents(res.s) = b \o F
  BY DEF Good, Appended, Bytes
<1>2. a \in Seq(Byte) /\ b \in Seq(Byte) /\ F \in Seq(Byte)
  <2>1. Contents(r) \in Seq(Byte) /\ b \in Seq(Byte)
    BY <1>1, ContentsType
  <2>2. F \in Seq(Byte)
    BY FrameType
  <2> QED BY <1>1, <2>1, <2>2, ConcatProperties
<1>3. Bytes(r, w, t) = a \o b /\ Bytes(r, w, res.s) = a \o (b \o F)
  BY <1>1 DEF Bytes
<1>4. (a \o b) \o F \in Wholes /\ Frames[(a \o b) \o F] = Append(Frames[a \o b], f)
  BY <1>1, FramesAppend
<1> HIDE DEF a, b, F
<1>5. a \o (b \o F) = (a \o b) \o F
  BY ONLY <1>2
<1>6. /\ Bytes(r, w, res.s) \in Wholes
      /\ Frames[Bytes(r, w, res.s)] = Append(Frames[Bytes(r, w, t)], f)
  BY <1>3, <1>4, <1>5
<1> QED BY <1>1, <1>6 DEF Good

(* Bytes of the first node sent: the same bytes are under way.             *)
LEMMA SendNodeGood ==
  ASSUME NEW t, NEW tp, NEW w, NEW r, NEW rp, Good(t, tp, w, r, rp),
         t.nodes # <<>>, NEW n \in 1 .. Left(Head(t.nodes))
  PROVE  LET res == Taken(t, tp, n) IN
         /\ Good(res.s, res.pool, w \o res.bytes, r, rp)
         /\ Bytes(r, w \o res.bytes, res.s) = Bytes(r, w, t)
<1> DEFINE res == Taken(t, tp, n)
           a == Contents(r)
           b == Contents(t)
           h == SubSeq(b, 1, n)
           l == From(b, n)
<1>1. Sound(t) /\ Sound(r) /\ tp \in Nat /\ rp \in Nat /\ w \in Seq(Byte) /\ Bytes(r, w, t) \in Wholes
  BY DEF Good
<1>2. /\ Sound(res.s) /\ res.pool \in Nat /\ n \in 0 .. Len(b) /\ b \in Seq(Byte)
      /\ res.bytes = h /\ Contents(res.s) = l
  <2>1. /\ res.ok = TRUE /\ Sound(res.s) /\ res.pool \in Nat /\ res.pool >= tp
        /\ n \in 0 .. Len(Contents(t)) /\ Contents(t) \in Seq(Byte)
        /\ res.bytes = SubSeq(Contents(t), 1, n)
        /\ Contents(res.s) = From(Contents(t), n)
    BY <1>1, TakenTakes
  <2> QED BY <2>1
<1> HIDE DEF res
<1>3. a \in Seq(Byte) /\ h \in Seq(Byte) /\ l \in Seq(Byte) /\ h \o l = b
  <2>1. a \in Seq(Byte)
    BY <1>1, ContentsType
  <2>2. h \o l = b
    BY <1>2, CutJoin
  <2>3. h \in Seq(Byte)
    BY <1>2, PrefixProperties
  <2>4. l \in Seq(Byte)
    <3>1. b \in Seq(Byte) /\ n \in Nat
      BY <1>2
    <3> QED BY ONLY <3>1, FromProperties
  <2> QED BY <2>1, <2>2, <2>3, <2>4
<1>4. /\ Bytes(r, w \o res.bytes, res.s) = (a \o (w \o h)) \o l
      /\ Bytes(r, w, t) = (a \o w) \o b
  BY <1>2 DEF Bytes
<1>5. w \o res.bytes \in Seq(Byte)
  BY <1>1, <1>2, <1>3, ConcatProperties
<1> HIDE DEF a, b, h, l
<1>6. (a \o (w \o h)) \o l = (a \o w) \o (h \o l)
  <2>1. a \in Seq(Byte) /\ w \in Seq(Byte) /\ h \in Seq(Byte) /\ l \in Seq(Byte)
    BY <1>1, <1>3
  <2>2. a \o (w \o h) = (a \o w) \o h
    BY ONLY <2>1
  <2> DEFINE c == a \o w
  <2>3. c \in Seq(Byte)
    BY <2>1, ConcatProperties
  <2> HIDE DEF c
  <2>4. c \o (h \o l) = (c \o h) \o l
    BY ONLY <2>1, <2>3
  <2> QED BY <2>2, <2>4 DEF c
<1>7. Bytes(r, w \o res.bytes, res.s) = Bytes(r, w, t)
  BY <1>3, <1>4, <1>6
<1>8. Good(res.s, res.pool, w \o res.bytes, r, rp)
  BY <1>1, <1>2, <1>5, <1>7 DEF Good
<1> QED BY <1>7, <1>8 DEF res

(* Bytes from the wire put into the receive stream: there is room, and the *)
(* same bytes are under way.                                               *)
Receives(t, tp, w, r, wr) ==
  /\ wr.ok = TRUE
  /\ \A n \in 1 .. Lesser(Room(wr.node), Len(w)) :
       LET to == Filled(wr, SubSeq(w, 1, n)) IN
       /\ Good(t, tp, From(w, n), to, wr.pool)
       /\ Bytes(to, From(w, n), t) = Bytes(r, w, t)

LEMMA RecvGood ==
  ASSUME NEW t, NEW tp, NEW w, NEW r, NEW rp, Good(t, tp, w, r, rp),
         NEW pool \in Nat, pool > 0
  PROVE  Receives(t, tp, w, r, Writable(r, pool))
<1> DEFINE wr == Writable(r, pool)
           a == Contents(r)
           b == Contents(t)
<1>1. Sound(t) /\ Sound(r) /\ tp \in Nat /\ rp \in Nat /\ w \in Seq(Byte) /\ Bytes(r, w, t) \in Wholes
  BY DEF Good
<1>2. wr.ok = TRUE /\ Room(wr.node) \in Nat
  <2>1. Space(r, pool) \in Nat /\ Space(r, pool) >= pool * Cap
    BY <1>1, SpaceNat
  <2>2. pool * Cap \in Nat /\ pool * Cap # 0
    <3>1. Cap \in Nat \ {0}
      BY Sizes
    <3> QED BY <3>1
  <2>3. Space(r, pool) # 0
    BY <2>1, <2>2
  <2>4. \/ wr.ok = TRUE /\ Room(wr.node) \in Nat \ {0} /\ wr.pool \in Nat
        \/ wr.ok = FALSE /\ Space(r, pool) = 0
    BY <1>1, WritableRoom
  <2> HIDE DEF wr
  <2> QED BY <2>3, <2>4
<1>3. ASSUME NEW n \in 1 .. Lesser(Room(wr.node), Len(w))
      PROVE  LET to == Filled(wr, SubSeq(w, 1, n)) IN
             /\ Good(t, tp, From(w, n), to, wr.pool)
             /\ Bytes(to, From(w, n), t) = Bytes(r, w, t)
  <2> DEFINE h  == SubSeq(w, 1, n)
             l  == From(w, n)
             to == Filled(wr, h)
  <2>1. n \in 1 .. Len(w) /\ n \in 1 .. Room(wr.node) /\ n \in 0 .. Len(w) /\ n \in Nat
    <3>1. Len(w) \in Nat
      BY <1>1, LenProperties
    <3> HIDE DEF wr
    <3> QED BY <3>1, <1>2 DEF Lesser
  <2>2. h \in Seq(Byte) /\ Len(h) = n /\ l \in Seq(Byte) /\ h \o l = w
    <3>1. h \o l = w
      BY <1>1, <2>1, CutJoin
    <3>2. h \in Seq(Byte) /\ Len(h) = n
      BY <1>1, <2>1, PrefixProperties
    <3>3. l \in Seq(Byte)
      <4>1. w \in Seq(Byte) /\ n \in Nat
        BY <1>1, <2>1
      <4> QED BY ONLY <4>1, FromProperties
    <3> QED BY <3>1, <3>2, <3>3
  <2> HIDE DEF h, l
  <2>3. Len(h) \in 1 .. Room(wr.node)
    <3> HIDE DEF wr
    <3> QED BY <2>1, <2>2
  <2>4. Sound(to) /\ wr.pool \in Nat /\ Contents(to) = a \o h
    BY <1>1, <1>2, <2>2, <2>3, FilledAdds
  <2> HIDE DEF to
  <2>5. Bytes(to, l, t) = ((a \o h) \o l) \o b /\ Bytes(r, w, t) = (a \o w) \o b
    BY <2>4 DEF Bytes
  <2>6. (a \o h) \o l = a \o w
    <3>1. a \in Seq(Byte) /\ h \in Seq(Byte) /\ l \in Seq(Byte)
      BY <1>1, <2>2, ContentsType
    <3> HIDE DEF a
    <3>2. a \o (h \o l) = (a \o h) \o l
      BY ONLY <3>1
    <3> QED BY <2>2, <3>2
  <2>7. Bytes(to, l, t) = Bytes(r, w, t)
    BY <2>5, <2>6
  <2>8. Good(t, tp, l, to, wr.pool)
    BY <1>1, <2>2, <2>4, <2>7 DEF Good
  <2> QED BY <2>7, <2>8 DEF to, h, l
<1> QED BY <1>2, <1>3 DEF Receives

(* A frame read: SeNetSreamRead succeeds whenever SeNetSreamCanRead said   *)
(* so, and what it gives and leaves are the first of the frames under way  *)
(* and the others.                                                         *)
Reads1(t, tp, w, r, res) ==
  /\ res.ok = TRUE /\ Good(t, tp, w, res.s, res.pool)
  /\ Frames[Bytes(r, w, t)] # <<>>
  /\ res.bytes = Head(Frames[Bytes(r, w, t)])
  /\ Frames[Bytes(res.s, w, t)] = Tail(Frames[Bytes(r, w, t)])

LEMMA ReadGood ==
  ASSUME NEW t, NEW tp, NEW w, NEW r, NEW rp, Good(t, tp, w, r, rp), CanRead(r)
  PROVE  Reads1(t, tp, w, r, ReadFrame(r, rp))
<1> DEFINE C   == Contents(r)
           b   == Contents(t)
           x   == w \o b
           h   == ReadLen(r, rp, HeaderLen)
           len == GetHeader(h.bytes)
           D   == From(C, HeaderLen)
           res == ReadFrame(r, rp)
<1>1. Sound(t) /\ Sound(r) /\ tp \in Nat /\ rp \in Nat /\ w \in Seq(Byte) /\ Bytes(r, w, t) \in Wholes
  BY DEF Good
<1>2. C \in Seq(Byte) /\ b \in Seq(Byte) /\ Len(C) \in Nat /\ r.llSize = Len(C)
  BY <1>1, ContentsType
<1>3. x \in Seq(Byte) /\ HeaderLen \in Nat \ {0}
  BY <1>1, <1>2, ConcatProperties, Sizes
<1>4. HeaderLen <= r.llSize /\ HeaderLen \in 0 .. Len(C)
  BY <1>2, <1>3 DEF CanRead
<1>5. /\ h.ok = TRUE /\ Sound(h.s) /\ h.pool \in Nat
      /\ h.bytes = SubSeq(C, 1, HeaderLen) /\ Contents(h.s) = D
  <2>1. HeaderLen \in Nat
    BY <1>3
  <2> QED BY <1>1, <1>4, <2>1, ReadLenTakes
<1>6. D \in Seq(Byte) /\ Len(D) = Len(C) - HeaderLen
  <2>1. C \in Seq(Byte) /\ HeaderLen \in Nat /\ HeaderLen <= Len(C)
    BY <1>2, <1>3, <1>4
  <2> QED BY ONLY <2>1, FromProperties
<1>7. Sendable(len) /\ r.llSize >= HeaderLen + len
  BY <1>5 DEF CanRead
<1> DEFINE B == C \o x
<1>8. B \in Seq(Byte) /\ Len(B) = Len(C) + Len(x) /\ Bytes(r, w, t) = B
  <2>1. C \o x \in Seq(Byte) /\ Len(C \o x) = Len(C) + Len(x)
    BY <1>2, <1>3, ConcatProperties
  <2>2. C \o (w \o b) = (C \o w) \o b
    BY <1>1, <1>2, Grouping
  <2> QED BY <2>1, <2>2 DEF Bytes
<1>9. SubSeq(B, 1, HeaderLen) = SubSeq(C, 1, HeaderLen)
  <2>1. C \in Seq(Byte) /\ x \in Seq(Byte) /\ HeaderLen \in 0 .. Len(C)
    BY <1>2, <1>3, <1>4
  <2> HIDE DEF C, x
  <2> QED BY ONLY <2>1, FromOfConcat
<1>10. HeadLen(B) = len
  BY <1>5, <1>9, Zenon DEF HeadLen
<1>11. B # <<>>
  <2>1. Len(B) # 0
    <3>1. Len(x) \in Nat
      BY <1>3, LenProperties
    <3> HIDE DEF B, x, C
    <3> QED BY <3>1, <1>2, <1>3, <1>4, <1>8
  <2> HIDE DEF B
  <2> QED BY <2>1, EmptySeq
<1>12. PICK f \in Sent : \E v \in Wholes : B = Frame(f) \o v
  <2>1. B \in Wholes
    BY <1>1, <1>8
  <2> HIDE DEF B
  <2> QED BY <2>1, <1>11, WholesCases
<1>13. PICK v \in Wholes : B = Frame(f) \o v
  BY <1>12
<1>14. v \in Seq(Byte)
  BY DEF Wholes
<1>15. HeadLen(B) = Len(f) /\ From(B, HeaderLen) = f \o v /\ Behind(B) = v
  <2> DEFINE BB == B
  <2>1. BB = Frame(f) \o v
    BY <1>13
  <2> HIDE DEF BB
  <2>2. HeadLen(BB) = Len(f) /\ From(BB, HeaderLen) = f \o v /\ Behind(BB) = v
    BY <1>14, <2>1, FrameParts
  <2> QED BY <2>2 DEF BB
<1>16. f \in Seq(Byte) /\ Len(f) \in Nat /\ len = Len(f)
  BY <1>10, <1>15, FrameType
<1> HIDE DEF h, len, res, B, C, x, D
<1>17. Len(f) <= Len(D) /\ Len(f) \in 0 .. Len(D) /\ HeaderLen + Len(f) \in 0 .. Len(C)
  BY <1>2, <1>3, <1>6, <1>7, <1>16
<1>18. /\ res.ok = TRUE /\ Sound(res.s) /\ res.pool \in Nat
       /\ res.bytes = SubSeq(D, 1, Len(f)) /\ Contents(res.s) = From(D, Len(f))
  <2>1. res = ReadLen(h.s, h.pool, len)
    BY <1>5, <1>7, Zenon DEF res, ReadFrame, h, len
  <2>2. Sound(h.s) /\ h.pool \in Nat /\ len \in Nat /\ len <= h.s.llSize
    <3>1. h.s.llSize = Len(D)
      BY <1>5, ContentsType
    <3> QED BY <3>1, <1>5, <1>16, <1>17
  <2>3. LET q == ReadLen(h.s, h.pool, len) IN
        /\ q.ok = TRUE /\ Sound(q.s) /\ q.pool \in Nat
        /\ q.bytes = SubSeq(Contents(h.s), 1, len) /\ Contents(q.s) = From(Contents(h.s), len)
    BY <2>2, ReadLenTakes
  <2> QED BY <2>1, <2>3, <1>5, <1>16
<1>19. D \o x = f \o v
  <2>1. From(C \o x, HeaderLen) = From(C, HeaderLen) \o x
    <3>1. C \in Seq(Byte) /\ x \in Seq(Byte) /\ HeaderLen \in 0 .. Len(C)
      BY <1>2, <1>3, <1>4
    <3> QED BY ONLY <3>1, FromOfConcat
  <2> QED BY <2>1, <1>15 DEF B, D
<1>20. res.bytes = f /\ From(D, Len(f)) \o x = v
  <2>1. From(D \o x, Len(f)) = From(D, Len(f)) \o x /\ SubSeq(D \o x, 1, Len(f)) = SubSeq(D, 1, Len(f))
    <3>1. D \in Seq(Byte) /\ x \in Seq(Byte) /\ Len(f) \in 0 .. Len(D)
      BY <1>3, <1>6, <1>17
    <3> QED BY ONLY <3>1, FromOfConcat
  <2>2. From(f \o v, Len(f)) = v /\ SubSeq(f \o v, 1, Len(f)) = f
    <3>1. From(f \o v, Len(f)) = From(f, Len(f)) \o v /\ SubSeq(f \o v, 1, Len(f)) = SubSeq(f, 1, Len(f))
      <4>1. f \in Seq(Byte) /\ v \in Seq(Byte) /\ Len(f) \in 0 .. Len(f)
        BY <1>14, <1>16
      <4> QED BY ONLY <4>1, FromOfConcat
    <3>2. From(f, Len(f)) = <<>>
      BY <1>16, FromEnds
    <3>3. SubSeq(f, 1, Len(f)) = f
      BY <1>16, SubSeqFull
    <3>4. <<>> \o v = v
      BY <1>14, ConcatEmptySeq
    <3> QED BY <3>1, <3>2, <3>3, <3>4
  <2> QED BY <2>1, <2>2, <1>18, <1>19
<1>21. Bytes(res.s, w, t) = v
  <2> DEFINE d == From(D, Len(f))
  <2>1. d \in Seq(Byte) /\ Contents(res.s) = d
    <3>1. D \in Seq(Byte) /\ Len(f) \in Nat
      BY <1>6, <1>16
    <3>2. From(D, Len(f)) \in Seq(Byte)
      BY ONLY <3>1, FromProperties
    <3> QED BY <3>2, <1>18
  <2> HIDE DEF d
  <2>2. d \o (w \o b) = (d \o w) \o b
    <3>1. d \in Seq(Byte) /\ w \in Seq(Byte) /\ b \in Seq(Byte)
      BY <1>1, <1>2, <2>1
    <3> HIDE DEF b
    <3> QED BY ONLY <3>1, Grouping
  <2> QED BY <2>1, <2>2, <1>20 DEF d, x, Bytes
<1>22. Good(t, tp, w, res.s, res.pool)
  BY <1>1, <1>18, <1>21 DEF Good
<1>23. Frames[Bytes(r, w, t)] = <<f>> \o Frames[v]
  BY <1>8, <1>13, <1>14, FramesHead
<1>24. /\ Head(<<f>> \o Frames[v]) = f /\ Tail(<<f>> \o Frames[v]) = Frames[v]
       /\ <<f>> \o Frames[v] # <<>>
  <2> DEFINE q == Frames[v]
  <2>1. f \in Seq(Byte) /\ q \in Seq(Seq(Byte))
    BY <1>14, <1>16, FramesDef
  <2> HIDE DEF q
  <2>2. Head(<<f>> \o q) = f /\ Tail(<<f>> \o q) = q /\ <<f>> \o q # <<>>
    BY ONLY <2>1, OneFrame
  <2> QED BY <2>2 DEF q
<1> QED BY <1>18, <1>20, <1>21, <1>22, <1>23, <1>24 DEF res, Reads1

-----------------------------------------------------------------------------
(* What the programs send.                                                 *)

Payloads == {Payload(len) : len \in 0 .. MaxFrame}

LEMMA PayloadSent ==
  ASSUME NEW len \in Nat
  PROVE  /\ Payload(len) \in Seq(Byte) /\ Len(Payload(len)) = len
         /\ len <= MaxFrame => Payload(len) \in Sent /\ Payload(len) \in Payloads
<1>1. \A k \in 1 .. len : (k + len) % Base \in Byte
  <2>1. Base \in Nat \ {0}
    BY Sizes
  <2>2. ASSUME NEW k \in 1 .. len PROVE (k + len) % Base \in 0 .. Base - 1
    <3>1. k + len \in Nat
      OBVIOUS
    <3> QED BY <2>1, <3>1, Quotient
  <2> QED BY <2>2 DEF Byte
<1>2. Payload(len) \in [1 .. len -> Byte] /\ DOMAIN Payload(len) = 1 .. len
  BY <1>1 DEF Payload
<1>3. Payload(len) \in Seq(Byte)
  BY <1>2
<1>4. Len(Payload(len)) = len
  BY <1>2, <1>3, LenProperties
<1>5. len <= MaxFrame => Payload(len) \in Payloads
  BY Sizes DEF Payloads
<1> QED BY <1>3, <1>4, <1>5 DEF Sent

(* The pool RecvBuf tops up is never empty.                                *)
LEMMA PoolForRead ==
  ASSUME NEW pool \in Nat
  PROVE  UpdateIdle(pool, 0) \in Nat /\ UpdateIdle(pool, 0) > 0
<1>1. UpdateIdle(pool, 0) \in Nat /\ UpdateIdle(pool, 0) * Cap >= HeaderLen + 0
  BY PoolSuffices
<1>2. Cap \in Nat /\ HeaderLen \in Nat /\ HeaderLen > 0
  BY Sizes
<1>3. UpdateIdle(pool, 0) # 0
  <2>1. 0 * Cap = 0
    BY <1>2
  <2> QED BY <1>1, <1>2, <2>1
<1> QED BY <1>1, <1>3

-----------------------------------------------------------------------------
(* The pipe.                                                               *)


LEMMA InitInv ==
  ASSUME Init
  PROVE  IInv /\ InFlight = <<>>
<1>1. Sound(NewStream)
  <2>1. <<>> \in Seq(Node) /\ Len(<<>>) = 0 /\ Len(Unread[<<>>]) = 0
    BY UnreadEmpty, EmptySeq
  <2>2. NewStream \in Stream /\ NodesOK(NewStream.nodes)
    BY <2>1 DEF NewStream, Stream, NodesOK
  <2>3. NewStream.llSize = 0 /\ NewStream.nodes = <<>>
    BY DEF NewStream
  <2>4. NewStream.llSize = Len(Unread[NewStream.nodes])
    BY <2>1, <2>3
  <2> QED BY <2>2, <2>4, SoundStream
<1>2. Contents(NewStream) = <<>>
  BY UnreadEmpty DEF Contents, NewStream
<1>3. <<>> \o <<>> = <<>> /\ <<>> \in Seq(Byte)
  BY EmptySeq, ConcatEmptySeq
<1>4. Bytes(rx, wire, tx) = <<>>
  BY <1>2, <1>3 DEF Init, Bytes
<1>5. <<>> \in Wholes
  BY WholesClosed DEF Closed
<1>6. InFlight = Bytes(rx, wire, tx)
  BY DEF InFlight, Bytes
<1> QED BY <1>1, <1>3, <1>4, <1>5, <1>6 DEF Init, IInv, Good

(* SeNetCoreSend and SeNetCoreSendExtend: the frame joins the queue, or is *)
(* too long and nothing is written.                                        *)
LEMMA SendBufsInv ==
  ASSUME IInv, NEW len \in Nat, NEW bufs, SendBufs(bufs, len),
         Sendable(len) =>
           Appended(tx, Frame(Payload(len)), WriteFrame(tx, UpdateIdle(txPool, len), bufs, len))
  PROVE  /\ IInv' /\ out' = out
         /\ \/ InFlight' = InFlight
            \/ Payload(len) \in Payloads /\ Frames[InFlight'] = Append(Frames[InFlight], Payload(len))
<1> DEFINE pool == UpdateIdle(txPool, len)
           r    == WriteFrame(tx, pool, bufs, len)
<1>1. Good(tx, txPool, wire, rx, rxPool) /\ up = TRUE
  BY DEF IInv
<1>2. /\ IF Sendable(len) THEN tx' = r.s /\ txPool' = r.pool /\ up' = r.ok
                          ELSE txPool' = pool /\ tx' = tx /\ up' = up
      /\ wire' = wire /\ rx' = rx /\ rxPool' = rxPool /\ out' = out
  BY DEF SendBufs
<1>3. InFlight = Bytes(rx, wire, tx) /\ InFlight' = Bytes(rx', wire', tx')
  BY DEF InFlight, Bytes
<1>4. pool \in Nat
  BY <1>1, PoolSuffices DEF Good
<1>5. CASE Sendable(len)
  <2>1. Payload(len) \in Sent /\ Payload(len) \in Payloads
    BY <1>5, PayloadSent DEF Sendable
  <2>2. Appended(tx, Frame(Payload(len)), r) /\ r.ok = TRUE
    BY <1>5 DEF Appended
  <2> HIDE DEF r
  <2>3. /\ Good(r.s, r.pool, wire, rx, rxPool)
        /\ Frames[Bytes(rx, wire, r.s)] = Append(Frames[Bytes(rx, wire, tx)], Payload(len))
    BY <1>1, <2>1, <2>2, SendGood
  <2>4. tx' = r.s /\ txPool' = r.pool /\ up' = TRUE
    BY <1>2, <1>5, <2>2
  <2> QED BY <1>2, <1>3, <2>1, <2>3, <2>4 DEF IInv
<1>6. CASE ~Sendable(len)
  <2>1. txPool' = pool /\ tx' = tx /\ up' = up
    BY <1>2, <1>6
  <2>2. Good(tx, pool, wire, rx, rxPool)
    BY <1>1, <1>4 DEF Good
  <2> QED BY <1>1, <1>2, <1>3, <2>1, <2>2 DEF IInv
<1> QED BY <1>5, <1>6

LEMMA SendInv ==
  ASSUME IInv, Send
  PROVE  /\ IInv' /\ out' = out
         /\ \/ InFlight' = InFlight
            \/ \E f \in Payloads : Frames[InFlight'] = Append(Frames[InFlight], f)
<1>1. PICK len \in 0 .. MaxFrame + 1 : SendBufs(<<Payload(len)>>, len)
  BY DEF Send
<1>2. len \in Nat
  BY Sizes
<1> DEFINE f == Payload(len)
<1>3. ASSUME Sendable(len)
      PROVE  Appended(tx, Frame(f), WriteFrame(tx, UpdateIdle(txPool, len), <<f>>, len))
  <2>1. f \in Sent /\ Len(f) = len
    BY <1>2, <1>3, PayloadSent DEF Sendable
  <2>2. Sound(tx) /\ txPool \in Nat
    BY DEF IInv, Good
  <2> HIDE DEF f
  <2>3. Appended(tx, Frame(f), WriteFrame(tx, UpdateIdle(txPool, Len(f)), <<f>>, Len(f)))
    BY <2>1, <2>2, SendWritesFrame
  <2> QED BY <2>1, <2>3
<1> QED BY <1>1, <1>2, <1>3, SendBufsInv

LEMMA SendExtendInv ==
  ASSUME IInv, SendExtend
  PROVE  /\ IInv' /\ out' = out
         /\ \/ InFlight' = InFlight
            \/ \E f \in Payloads : Frames[InFlight'] = Append(Frames[InFlight], f)
<1>0. PICK len \in 0 .. MaxFrame + 1 : \E cut \in 0 .. len :
        SendBufs(<<SubSeq(Payload(len), 1, cut), From(Payload(len), cut)>>, len)
  BY DEF SendExtend
<1>1. PICK cut \in 0 .. len :
        SendBufs(<<SubSeq(Payload(len), 1, cut), From(Payload(len), cut)>>, len)
  BY <1>0
<1>2. len \in Nat
  BY Sizes
<1> DEFINE f == Payload(len)
           a == SubSeq(f, 1, cut)
           b == From(f, cut)
<1>3. ASSUME Sendable(len)
      PROVE  Appended(tx, Frame(f), WriteFrame(tx, UpdateIdle(txPool, len), <<a, b>>, len))
  <2>1. f \in Sent /\ Len(f) = len /\ f \in Seq(Byte)
    BY <1>2, <1>3, PayloadSent DEF Sendable
  <2>2. Sound(tx) /\ txPool \in Nat
    BY DEF IInv, Good
  <2> HIDE DEF f
  <2>3. cut \in 0 .. Len(f) /\ cut \in Nat
    BY <1>2, <2>1
  <2>4. a \in Seq(Byte) /\ b \in Seq(Byte) /\ a \o b = f
    <3>1. a \in Seq(Byte)
      BY <2>1, <2>3, PrefixProperties
    <3>2. b \in Seq(Byte)
      <4>1. f \in Seq(Byte) /\ cut \in Nat
        BY <2>1, <2>3
      <4> QED BY ONLY <4>1, FromProperties
    <3>3. a \o b = f
      BY <2>1, <2>3, CutJoin
    <3> QED BY <3>1, <3>2, <3>3
  <2> HIDE DEF a, b
  <2>5. a \o b \in Sent
    BY <2>1, <2>4
  <2>6. Appended(tx, Frame(a \o b),
                 WriteFrame(tx, UpdateIdle(txPool, Len(a \o b)), <<a, b>>, Len(a \o b)))
    BY <2>2, <2>4, <2>5, SendExtendWritesFrame
  <2> QED BY <2>1, <2>4, <2>6
<1> QED BY <1>1, <1>2, <1>3, SendBufsInv

(* Bytes move to the wire, and from it: the frames under way are the same. *)
LEMMA SendNodeInv ==
  ASSUME IInv, SendNode
  PROVE  IInv' /\ out' = out /\ InFlight' = InFlight
<1>1. Good(tx, txPool, wire, rx, rxPool) /\ up = TRUE
  BY DEF IInv
<1>2. PICK n \in 1 .. Lesser(Left(Head(tx.nodes)), WireMax - Len(wire)) :
        LET r == Taken(tx, txPool, n) IN
        tx' = r.s /\ txPool' = r.pool /\ wire' = wire \o r.bytes
  BY DEF SendNode
<1>3. tx.nodes # <<>> /\ rx' = rx /\ rxPool' = rxPool /\ up' = up /\ out' = out
  BY DEF SendNode
<1>4. n \in 1 .. Left(Head(tx.nodes))
  <2>1. Left(Head(tx.nodes)) \in Int /\ WireMax - Len(wire) \in Int
    <3>1. Head(tx.nodes) \in Node
      <4>1. tx.nodes \in Seq(Node)
        BY <1>1, ContentsType DEF Good
      <4> QED BY <4>1, <1>3, HeadTailProperties
    <3>2. Left(Head(tx.nodes)) \in Int
      BY <3>1, NodeFields
    <3>3. Len(wire) \in Nat
      BY <1>1, LenProperties DEF Good
    <3> QED BY <3>2, <3>3, PipeAssumption
  <2> QED BY <2>1 DEF Lesser
<1> DEFINE r == Taken(tx, txPool, n)
<1>5. /\ Good(r.s, r.pool, wire \o r.bytes, rx, rxPool)
      /\ Bytes(rx, wire \o r.bytes, r.s) = Bytes(rx, wire, tx)
  BY <1>1, <1>3, <1>4, SendNodeGood
<1>6. tx' = r.s /\ txPool' = r.pool /\ wire' = wire \o r.bytes
  BY <1>2
<1>7. InFlight = Bytes(rx, wire, tx) /\ InFlight' = Bytes(rx', wire', tx')
  BY DEF InFlight, Bytes
<1> HIDE DEF r
<1> QED BY <1>1, <1>3, <1>5, <1>6, <1>7 DEF IInv

LEMMA RecvNodeInv ==
  ASSUME IInv, RecvNode
  PROVE  IInv' /\ out' = out /\ InFlight' = InFlight
<1> DEFINE pool == UpdateIdle(rxPool, 0)
           w    == Writable(rx, pool)
<1>1. Good(tx, txPool, wire, rx, rxPool) /\ up = TRUE
  BY DEF IInv
<1>2. pool \in Nat /\ pool > 0
  BY <1>1, PoolForRead DEF Good
<1>3. Receives(tx, txPool, wire, rx, w)
  <2> HIDE DEF pool
  <2> QED BY <1>1, <1>2, RecvGood
<1>4. tx' = tx /\ txPool' = txPool /\ out' = out
  BY DEF RecvNode
<1>5. PICK n \in 1 .. Lesser(Room(w.node), Len(wire)) :
        /\ rx' = Filled(w, SubSeq(wire, 1, n)) /\ rxPool' = w.pool
        /\ wire' = From(wire, n) /\ up' = up
  BY <1>3 DEF RecvNode, Receives
<1>6. InFlight = Bytes(rx, wire, tx) /\ InFlight' = Bytes(rx', wire', tx')
  BY DEF InFlight, Bytes
<1>7. /\ Good(tx, txPool, From(wire, n), Filled(w, SubSeq(wire, 1, n)), w.pool)
      /\ Bytes(Filled(w, SubSeq(wire, 1, n)), From(wire, n), tx) = Bytes(rx, wire, tx)
  BY <1>3 DEF Receives
<1> HIDE DEF w, pool
<1> QED BY <1>1, <1>4, <1>5, <1>6, <1>7 DEF IInv

(* The program gets the first of the frames.                               *)
LEMMA ReadInv ==
  ASSUME IInv, Read
  PROVE  /\ IInv' /\ Frames[InFlight] # <<>> /\ out' = Head(Frames[InFlight])
         /\ Frames[InFlight'] = Tail(Frames[InFlight])
<1> DEFINE r == ReadFrame(rx, rxPool)
<1>1. Good(tx, txPool, wire, rx, rxPool) /\ CanRead(rx)
  BY DEF IInv, Read
<1>2. /\ rx' = r.s /\ rxPool' = r.pool /\ up' = r.ok /\ out' = IF r.ok THEN r.bytes ELSE out
      /\ tx' = tx /\ txPool' = txPool /\ wire' = wire
  BY DEF Read
<1>3. InFlight = Bytes(rx, wire, tx) /\ InFlight' = Bytes(rx', wire', tx')
  BY DEF InFlight, Bytes
<1>a. Reads1(tx, txPool, wire, rx, r)
  BY <1>1, ReadGood
<1> HIDE DEF r
<1>4. /\ r.ok = TRUE /\ Good(tx, txPool, wire, r.s, r.pool)
      /\ Frames[Bytes(rx, wire, tx)] # <<>>
      /\ r.bytes = Head(Frames[Bytes(rx, wire, tx)])
      /\ Frames[Bytes(r.s, wire, tx)] = Tail(Frames[Bytes(rx, wire, tx)])
  BY <1>a DEF Reads1
<1>5. up' = TRUE /\ out' = r.bytes
  BY <1>2, <1>4
<1>6. IInv'
  BY <1>2, <1>4, <1>5 DEF IInv
<1> QED BY <1>2, <1>3, <1>4, <1>5, <1>6

LEMMA StepInv ==
  ASSUME IInv, [Next]_vars
  PROVE  IInv'
<1>1. CASE UNCHANGED vars
  BY <1>1 DEF vars, IInv, Good, Bytes
<1>2. CASE Next
  BY <1>2, SendInv, SendExtendInv, SendNodeInv, RecvNodeInv, ReadInv DEF Next
<1> QED BY <1>1, <1>2

(* The inductive invariant holds, wherever send() and recv() cut.          *)
THEOREM Invariance == Spec => []IInv
<1>1. Init => IInv
  BY InitInv
<1>2. IInv /\ [Next]_vars => IInv'
  BY StepInv
<1> QED BY <1>1, <1>2, PTL DEF Spec

(* Types, and what the assertions of SeNetStream.c say of every node.      *)
THEOREM TypesHold == Spec => []TypeOK
<1>1. IInv => TypeOK
  BY DEF IInv, Good, Sound, TypeOK
<1> QED BY <1>1, Invariance, PTL

(* However reads, writes, send() and recv() cut the nodes, for every size  *)
(* of a node and of a header: no stream holds an empty node or a hole, and *)
(* the count CanRead trusts is the number of bytes there.                  *)
THEOREM StreamsStaySound == Spec => []StreamsSound
<1>1. IInv => StreamsSound
  BY DEF IInv, Good, Sound, StreamsSound
<1> QED BY <1>1, Invariance, PTL

(* Nothing closes the connection: the pool is always large enough, no      *)
(* frame is half written, and one CanRead has seen can be read.            *)
THEOREM PipeStaysUp == Spec => []StaysUp
<1>1. IInv => StaysUp
  BY DEF IInv, StaysUp
<1> QED BY <1>1, Invariance, PTL

(* The pipe implements the channel of frames: the frames the bytes under   *)
(* way hold are its queue.  A send puts one there, a read takes the first, *)
(* and what the kernels and the network move is a stutter.                 *)
THEOREM PipeImplementsChannel == Spec => ImplementsChannel
<1>1. Init => Channel!Init
  BY InitInv, NoFrames DEF Init, Channel!Init
<1>2. ASSUME IInv, [Next]_vars
      PROVE  [Channel!Put \/ Channel!Get]_<<Frames[InFlight], out>>
  <2>1. CASE InFlight' = InFlight /\ out' = out
    BY <2>1
  <2>2. CASE out' = out /\ \E f \in Payloads : Frames[InFlight'] = Append(Frames[InFlight], f)
    BY <2>2 DEF Channel!Put, Payloads
  <2>3. CASE /\ Frames[InFlight] # <<>> /\ out' = Head(Frames[InFlight])
             /\ Frames[InFlight'] = Tail(Frames[InFlight])
    BY <2>3 DEF Channel!Get
  <2>4. CASE UNCHANGED vars
    BY <2>1, <2>4 DEF vars, InFlight
  <2>5. CASE Next
    BY <1>2, <2>1, <2>2, <2>3, <2>5, SendInv, SendExtendInv, SendNodeInv, RecvNodeInv, ReadInv
       DEF Next
  <2> QED BY <1>2, <2>4, <2>5
<1> QED BY <1>1, <1>2, Invariance, PTL DEF Spec, ImplementsChannel, Channel!Spec

=============================================================================
