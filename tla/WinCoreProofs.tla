---------------------------- MODULE WinCoreProofs ----------------------------
(***************************************************************************)
(* The safety of WinCore for every number of slots and sockets, every      *)
(* length, share of accepts and time-out, with assertions and without, and *)
(* that it implements ConnLifecycle.                                       *)
(*                                                                         *)
(* An operation names its slot only by a handle.  What ties the two is     *)
(* that a slot's handle has the slot's index, so that an operation started *)
(* or ended for one slot says nothing of another (MatchStep).  What it     *)
(* says of its own slot depends on how the slot was taken.  Where no       *)
(* operation of an earlier use had its handle, the operations outstanding  *)
(* are exactly those its record tells of (Exact).  Where one had (the slot *)
(* is in `retaken`), any others may be outstanding as well, and end as if  *)
(* they were the slot's; what remains is that nothing the record tells of  *)
(* is missing (Backed).  Accepts are tied to their listeners (ListenOK)    *)
(* and to their sockets (Ownership) as a set, as long as no listener was   *)
(* opened in a slot retaken.                                               *)
(***************************************************************************)
EXTENDS WinCore, SocketMgrProofs, FiniteSetTheorems

LEMMA Bounds ==
  /\ Backlog \in Nat /\ Backlog # 0 /\ DataLen \in Nat /\ DataLen # 0
  /\ MaxClock \in Nat /\ MaxIn \in Nat /\ MaxOut \in Nat
  /\ FrameLen \in Nat /\ FrameLen # 0
BY WinAssumption, Zenon

OpenStates == {"CONNECTING", "CONNECTED", "ACTIVECONNECT"}
MustReport == {"CONNECTED", "CONNECTED_FAILED", "DISCONNECT", "COMM_IDLE"}

(* A slot in use, on kSendList or not.  One that is not `sure` may have    *)
(* been announced twice.                                                   *)
StatusFits(s, listed, sure) ==
  /\ s.usStatus # "INIT" /\ s.iTypeSocket # "NONE"
  /\ s.usStatus \in MustReport => listed
  /\ listed => IsConnection(s) /\ s.usStatus # "CONNECTING"
  /\ s.usStatus \in {"CONNECTING", "CONNECTED_FAILED"} => s.iTypeSocket = "CLIENT"
  /\ s.usStatus = "CONNECTING" \/ (sure /\ s.usStatus = "CONNECTED") => s.send = 0
  /\ s.iTypeSocket = "LISTEN" => s.usStatus = "ACTIVECONNECT"
  /\ sure /\ IsConnection(s) /\ s.usStatus = "ACTIVECONNECT" /\ s.send > 0 =>
       listed \/ HasEvent(s, "WRITE")

StatusOK ==
  /\ \A i \in Slots : sock[i].usStatus # "INIT" =>
       StatusFits(sock[i], i \in Members(kSendList), Sure(i))
  /\ \A i \in Slots : sock[i].usStatus # "INIT" =>
       \E t \in 0 .. MaxClock : sock[i].kHSocket = Handle(i, t)
  /\ \A i \in Members(kRecvList) : IsConnection(sock[i])

(* The operations by themselves.                                           *)
AcceptsIn(o)     == {x \in DOMAIN o : x.iOPType = "ACCEPT"}
Has(o, type, h)  == \E x \in DOMAIN o : x.iOPType = type /\ x.kHScoket = h
IOTypes          == {"SEND", "RECV", "CONNECT"}

OpsOK(o) ==
  /\ DOMAIN o \subseteq OperationRecord /\ IsFiniteSet(DOMAIN o)
  /\ o \in [DOMAIN o -> Nat \ {0}]

(* With handle h there is one of a type at most.                           *)
Unique(o, h) ==
  \A x \in DOMAIN o : x.kHScoket = h /\ x.iOPType # "ACCEPT" =>
    /\ o[x] = 1
    /\ \A y \in DOMAIN o : y.iOPType = x.iOPType /\ y.kHScoket = h => y = x

(* Those of a slot in use whose record is s: none it tells of is missing,  *)
(* and, where its handle is its own, there are no others.                  *)
Backed(s, o) ==
  /\ IsConnection(s) /\ s.usStatus \in {"CONNECTING", "ACTIVECONNECT"} =>
       /\ HasEvent(s, "READ") => Has(o, "RECV", s.kHSocket)
       /\ HasEvent(s, "WRITE") => Has(o, "SEND", s.kHSocket)
  /\ s.usStatus = "CONNECTING" => Has(o, "CONNECT", s.kHSocket)

Exact(s, o) ==
  s.usStatus \in OpenStates =>
    /\ Unique(o, s.kHSocket)
    /\ s.usStatus \in {"CONNECTED", "ACTIVECONNECT"} => ~Has(o, "CONNECT", s.kHSocket)
    /\ s.usStatus \in {"CONNECTING", "CONNECTED"} => s.recv = 0
    /\ s.usStatus \in {"CONNECTING", "CONNECTED"} \/ s.iTypeSocket = "LISTEN" =>
         ~Has(o, "SEND", s.kHSocket) /\ ~Has(o, "RECV", s.kHSocket)
    /\ s.usStatus = "ACTIVECONNECT" /\ IsConnection(s) =>
         /\ Has(o, "RECV", s.kHSocket) <=> HasEvent(s, "READ")
         /\ Has(o, "SEND", s.kHSocket) <=> HasEvent(s, "WRITE")
         /\ ~HasEvent(s, "READ") => s.recv = 0

MatchOK(s, o, own) == Backed(s, o) /\ (own => Exact(s, o))

Match == \A i \in Slots : sock[i].usStatus # "INIT" => MatchOK(sock[i], ops, i \notin retaken)

(* The sockets `fds` are held by slots (own maps each to its socket) and   *)
(* by accepts, each by one.                                                *)
Ownership(own, acc, fds) ==
  /\ fds = {own[i] : i \in DOMAIN own} \cup {o.kSocket : o \in acc}
  /\ \A i, j \in DOMAIN own : own[i] = own[j] => i = j
  /\ \A o, p \in acc : o.kSocket = p.kSocket => o = p
  /\ \A i \in DOMAIN own, o \in acc : own[i] # o.kSocket

Own == [i \in Owning |-> sock[i].kSocket]

SingleAccepts(o) == \A x \in AcceptsIn(o) : o[x] = 1

SocketsOK == Ownership(Own, AcceptsIn(ops), open) /\ SingleAccepts(ops)

(* The listeners and their accepts.                                        *)
ListenRecord == [kHScoket : Handles, iBacklog : Int]
OfListener(acc, h) == {x \in acc : x.kHScoket = h}

ListenOK(l, acc) ==
  /\ \A k, m \in DOMAIN l : l[k].kHScoket = l[m].kHScoket => k = m
  /\ \A k \in DOMAIN l : /\ l[k].iBacklog = Cardinality(OfListener(acc, l[k].kHScoket))
                         /\ l[k].iBacklog \in 0 .. Backlog

Listening(table, h) ==
  \E i \in Slots : table[i].iTypeSocket = "LISTEN" /\ table[i].kHSocket = h

ListenersOK ==
  /\ kListenList \in Seq(ListenRecord) /\ open \subseteq Fds /\ retaken \subseteq Slots
  /\ \A k \in DOMAIN kListenList : Listening(sock, kListenList[k].kHScoket)
  /\ \A x \in AcceptsIn(ops) : Listening(sock, x.kHScoket)

AcceptsOK == ListenersSure => SocketsOK /\ ListenOK(kListenList, AcceptsIn(ops))

CtlOK ==
  /\ clock \in 0 .. MaxClock /\ pc \in {"app", "process", "wait", "abort"} /\ pass \in {1, 2}
  /\ ev \in [kind : EventKinds, h : Handles]
  /\ ev # NoEvent => pc = "app"

SlotInv == TableOK /\ StatusOK /\ OpsOK(ops) /\ Match /\ ListenersOK /\ AcceptsOK

IInv == SlotInv /\ CtlOK

-----------------------------------------------------------------------------
(* Operations started and ended.                                           *)

(* One operation more ...                                                  *)
LEMMA StartOK ==
  ASSUME NEW o, OpsOK(o), NEW x \in OperationRecord
  PROVE  /\ OpsOK(Start(o, x)) /\ DOMAIN Start(o, x) = DOMAIN o \cup {x}
         /\ \A y \in DOMAIN o \ {x} : Start(o, x)[y] = o[y]
         /\ x \notin DOMAIN o => Start(o, x)[x] = 1
<1> DEFINE p == Start(o, x)
           count(B, y) == IF y \in DOMAIN B THEN B[y] ELSE 0
           one == [y \in {x} |-> 1]
<1>1. p = [y \in DOMAIN o \cup {x} |-> count(o, y) + count(one, y)]
  BY DEF Start, (+), SetToBag
<1>2. \A y : /\ y = x => count(one, y) = 1
             /\ y # x => count(one, y) = 0
             /\ y \in DOMAIN o => count(o, y) = o[y] /\ o[y] \in Nat \ {0}
             /\ y \notin DOMAIN o => count(o, y) = 0
  BY DEF OpsOK
<1> HIDE DEF p, count, one
<1>3. ASSUME NEW y \in DOMAIN o \cup {x}
      PROVE  /\ p[y] \in Nat \ {0}
             /\ y # x => p[y] = o[y]
             /\ y = x /\ x \notin DOMAIN o => p[y] = 1
  <2>1. p[y] = count(o, y) + count(one, y)
    BY <1>1
  <2>2. CASE y # x
    BY <1>2, <2>1, <2>2
  <2>3. CASE y = x
    <3>1. p[y] = count(o, y) + 1 /\ count(o, y) \in Nat
      BY <1>2, <2>1, <2>3
    <3>. QED  BY <1>2, <2>3, <3>1
  <2>. QED  BY <2>2, <2>3
<1>4. DOMAIN p = DOMAIN o \cup {x} /\ p \in [DOMAIN p -> Nat \ {0}]
  BY <1>1, <1>3
<1>5. IsFiniteSet(DOMAIN p)
  BY <1>4, FS_AddElement DEF OpsOK
<1>6. OpsOK(p)
  BY <1>4, <1>5 DEF OpsOK
<1>. QED  BY <1>3, <1>4, <1>6 DEF p

(* ... and one less.                                                       *)
LEMMA FinishOK ==
  ASSUME NEW o, OpsOK(o), NEW x \in DOMAIN o
  PROVE  /\ OpsOK(Finish(o, x)) /\ DOMAIN Finish(o, x) \subseteq DOMAIN o
         /\ \A y \in DOMAIN o \ {x} : y \in DOMAIN Finish(o, x) /\ Finish(o, x)[y] = o[y]
         /\ o[x] = 1 => x \notin DOMAIN Finish(o, x)
<1> DEFINE p == Finish(o, x)
           b == [e \in DOMAIN o |-> IF e \in {x} THEN o[e] - 1 ELSE o[e]]
           D == {d \in DOMAIN o : b[d] > 0}
<1>1. p = [e \in {d \in DOMAIN b : b[d] > 0} |-> b[e]]
  BY DEF Finish, (-), SetToBag
<1>2. \A e \in DOMAIN o : /\ o[e] \in Nat \ {0} /\ b[e] \in Nat
                          /\ e # x => b[e] = o[e] /\ b[e] > 0
                          /\ e = x => b[e] = o[e] - 1
  BY DEF OpsOK
<1>3. DOMAIN b = DOMAIN o
  OBVIOUS
<1> HIDE DEF p, b
<1>4. p = [e \in D |-> b[e]]
  BY <1>1, <1>3
<1>5. DOMAIN p = D /\ D \subseteq DOMAIN o /\ \A e \in D : p[e] = b[e] /\ b[e] \in Nat \ {0}
  BY <1>2, <1>4
<1>6. p \in [DOMAIN p -> Nat \ {0}]
  BY <1>4, <1>5
<1>7. IsFiniteSet(DOMAIN p)
  BY <1>5, FS_Subset DEF OpsOK
<1>8. OpsOK(p)
  BY <1>5, <1>6, <1>7 DEF OpsOK
<1>9. \A y \in DOMAIN o \ {x} : y \in D /\ p[y] = o[y]
  BY <1>2, <1>5
<1>10. o[x] = 1 => x \notin D
  BY <1>2
<1>. QED  BY <1>5, <1>8, <1>9, <1>10 DEF p

(* o and p differ at most in operations of slot i that are not accepts ... *)
SameBut(o, p, i) ==
  \A x \in (DOMAIN o) \cup (DOMAIN p) :
    \/ x \in DOMAIN o /\ x \in DOMAIN p /\ p[x] = o[x]
    \/ IndexOf(x.kHScoket) = i /\ x.iOPType # "ACCEPT"

(* ... or in accepts and in operations of slots in Z.                      *)
SameApart(o, p, Z) ==
  \A x \in (DOMAIN o) \cup (DOMAIN p) :
    \/ x \in DOMAIN o /\ x \in DOMAIN p /\ p[x] = o[x]
    \/ IndexOf(x.kHScoket) \in Z
    \/ x.iOPType = "ACCEPT"

LEMMA SameButItself == ASSUME NEW o, NEW i  PROVE SameBut(o, o, i)
BY DEF SameBut

LEMMA ButTrans ==
  ASSUME NEW o, NEW p, NEW q, NEW i, SameBut(o, p, i), SameBut(p, q, i)  PROVE SameBut(o, q, i)
BY DEF SameBut

LEMMA ApartFromBut ==
  ASSUME NEW o, NEW p, NEW i, SameBut(o, p, i)
  PROVE  /\ SameApart(o, p, {i}) /\ AcceptsIn(p) = AcceptsIn(o)
         /\ SingleAccepts(o) => SingleAccepts(p)
BY DEF SameBut, SameApart, AcceptsIn, SingleAccepts

(* An operation of this type has been started with handle h.               *)
Started(o, p, type, h) ==
  /\ OpsOK(p) /\ SameBut(o, p, IndexOf(h)) /\ Has(p, type, h)
  /\ \A t \in IOTypes \ {type} : Has(p, t, h) <=> Has(o, t, h)
  /\ Unique(o, h) /\ ~Has(o, type, h) => Unique(p, h)

LEMMA StartedOK ==
  ASSUME NEW o, OpsOK(o), NEW x \in OperationRecord, x.iOPType # "ACCEPT"
  PROVE  Started(o, Start(o, x), x.iOPType, x.kHScoket)
<1> DEFINE p == Start(o, x)
<1>1. /\ OpsOK(p) /\ DOMAIN p = DOMAIN o \cup {x}
      /\ \A y \in DOMAIN o \ {x} : p[y] = o[y]
      /\ x \notin DOMAIN o => p[x] = 1
  BY StartOK
<1> HIDE DEF p
<1>2. SameBut(o, p, IndexOf(x.kHScoket))
  BY <1>1 DEF SameBut
<1>3. /\ Has(p, x.iOPType, x.kHScoket)
      /\ \A t \in IOTypes \ {x.iOPType} : Has(p, t, x.kHScoket) <=> Has(o, t, x.kHScoket)
  BY <1>1 DEF Has
<1>4. ASSUME Unique(o, x.kHScoket), ~Has(o, x.iOPType, x.kHScoket)  PROVE Unique(p, x.kHScoket)
  <2>1. \A y \in DOMAIN o : y.kHScoket = x.kHScoket => y.iOPType # x.iOPType
    BY <1>4 DEF Has
  <2>2. x \notin DOMAIN o /\ p[x] = 1
    BY <1>1, <2>1
  <2>. QED  BY <1>1, <1>4, <2>1, <2>2 DEF Unique
<1>. QED  BY <1>1, <1>2, <1>3, <1>4 DEF Started, p

(* Operation x, which is no accept, has ended.                             *)
EndedOne(o, p, x) ==
  /\ OpsOK(p) /\ SameBut(o, p, IndexOf(x.kHScoket))
  /\ \A t \in IOTypes, h \in Handles :
       t # x.iOPType \/ h # x.kHScoket => (Has(p, t, h) <=> Has(o, t, h))
  /\ Unique(o, x.kHScoket) => Unique(p, x.kHScoket) /\ ~Has(p, x.iOPType, x.kHScoket)

LEMMA EndedOK ==
  ASSUME NEW o, OpsOK(o), NEW x \in DOMAIN o, x.iOPType # "ACCEPT"
  PROVE  EndedOne(o, Finish(o, x), x)
<1> DEFINE p == Finish(o, x)
<1>1. /\ OpsOK(p) /\ DOMAIN p \subseteq DOMAIN o
      /\ \A y \in DOMAIN o \ {x} : y \in DOMAIN p /\ p[y] = o[y]
      /\ o[x] = 1 => x \notin DOMAIN p
  BY FinishOK
<1> HIDE DEF p
<1>2. SameBut(o, p, IndexOf(x.kHScoket))
  BY <1>1 DEF SameBut
<1>3. \A t \in IOTypes, h \in Handles :
        t # x.iOPType \/ h # x.kHScoket => (Has(p, t, h) <=> Has(o, t, h))
  BY <1>1 DEF Has
<1>4. ASSUME Unique(o, x.kHScoket)
      PROVE  Unique(p, x.kHScoket) /\ ~Has(p, x.iOPType, x.kHScoket)
  <2>1. o[x] = 1 /\ x \notin DOMAIN p
    BY <1>1, <1>4 DEF Unique
  <2>2. \A y \in DOMAIN p : y \in DOMAIN o /\ p[y] = o[y]
    BY <1>1, <2>1
  <2>3. \A y \in DOMAIN o : y.iOPType = x.iOPType /\ y.kHScoket = x.kHScoket => y = x
    BY <1>4 DEF Unique
  <2>4. ~Has(p, x.iOPType, x.kHScoket)
    BY <2>1, <2>2, <2>3 DEF Has
  <2>. QED  BY <1>4, <2>2, <2>4 DEF Unique
<1>. QED  BY <1>1, <1>2, <1>3, <1>4 DEF EndedOne, p

(* The bits and lengths of a slot change, not what it is.                  *)
SameIdentity(s, t) ==
  /\ t.usStatus = s.usStatus /\ t.iTypeSocket = s.iTypeSocket
  /\ t.kSocket = s.kSocket /\ t.kHSocket = s.kHSocket

LEMMA EventBitsOK ==
  ASSUME NEW s \in SlotRecord, NEW e \in EventBits
  PROVE  /\ AddEvent(s, e) \in SlotRecord /\ SameIdentity(s, AddEvent(s, e))
         /\ ClearEvent(s, e) \in SlotRecord /\ SameIdentity(s, ClearEvent(s, e))
         /\ HasEvent(AddEvent(s, e), e) /\ ~HasEvent(ClearEvent(s, e), e)
         /\ \A f \in EventBits \ {e} : /\ HasEvent(AddEvent(s, e), f) <=> HasEvent(s, f)
                                       /\ HasEvent(ClearEvent(s, e), f) <=> HasEvent(s, f)
         /\ AddEvent(s, e).recv = s.recv /\ AddEvent(s, e).send = s.send
         /\ ClearEvent(s, e).recv = s.recv /\ ClearEvent(s, e).send = s.send
BY DEF SlotRecord, AddEvent, ClearEvent, HasEvent, SameIdentity

(* What a call that starts an operation leaves of the slot whose record is *)
(* s and of the operations o.                                              *)
Called(s, o, r) ==
  /\ r.s \in SlotRecord /\ SameIdentity(s, r.s) /\ r.s.recv = s.recv
  /\ OpsOK(r.ops) /\ SameBut(o, r.ops, IndexOf(s.kHSocket))
  /\ Has(r.ops, "CONNECT", s.kHSocket) <=> Has(o, "CONNECT", s.kHSocket)

(* The bit says no more than is so; or just what is.                       *)
BitBacked(s, o, bit, type) == HasEvent(s, bit) => Has(o, type, s.kHSocket)
BitExact(s, o, bit, type)  == Unique(o, s.kHSocket)
                              /\ (Has(o, type, s.kHSocket) <=> HasEvent(s, bit))

LEMMA RecvBufOK ==
  ASSUME NEW s \in SlotRecord, NEW o, OpsOK(o), NEW r \in RecvBuf(s, o)
  PROVE  /\ Called(s, o, r) /\ r.s.send = s.send
         /\ HasEvent(r.s, "WRITE") <=> HasEvent(s, "WRITE")
         /\ Has(r.ops, "SEND", s.kHSocket) <=> Has(o, "SEND", s.kHSocket)
         /\ r.ok => HasEvent(r.s, "READ")
         /\ ~r.ok => r.s = s /\ r.ops = o /\ ~HasEvent(s, "READ")
         /\ BitBacked(s, o, "READ", "RECV") => BitBacked(r.s, r.ops, "READ", "RECV")
         /\ BitExact(s, o, "READ", "RECV") => BitExact(r.s, r.ops, "READ", "RECV")
<1> DEFINE x == Operation("RECV", s.kHSocket, NoFd, 0)
           h == s.kHSocket
<1>1. \/ HasEvent(s, "READ") /\ r = Result(TRUE, s, o)
      \/ ~HasEvent(s, "READ") /\ r = Result(TRUE, AddEvent(s, "READ"), Start(o, x))
      \/ ~HasEvent(s, "READ") /\ r = Result(FALSE, s, o)
  BY DEF RecvBuf
<1>2. \/ HasEvent(s, "READ") /\ r.ok = TRUE /\ r.s = s /\ r.ops = o
      \/ ~HasEvent(s, "READ") /\ r.ok = TRUE /\ r.s = AddEvent(s, "READ") /\ r.ops = Start(o, x)
      \/ ~HasEvent(s, "READ") /\ r.ok = FALSE /\ r.s = s /\ r.ops = o
  BY <1>1 DEF Result
<1>3. CASE r.s = s /\ r.ops = o /\ (r.ok => HasEvent(s, "READ")) /\ (~r.ok => ~HasEvent(s, "READ"))
  <2>1. Called(s, o, r)
    BY <1>3, SameButItself DEF Called, SameIdentity
  <2>. QED  BY <1>3, <2>1
<1>4. CASE /\ ~HasEvent(s, "READ") /\ r.ok = TRUE /\ r.s = AddEvent(s, "READ")
           /\ r.ops = Start(o, x)
  <2>1. x \in OperationRecord /\ x.iOPType = "RECV" /\ x.kHScoket = h
    BY WinAssumption DEF Operation, OperationRecord, OpTypes, SlotRecord
  <2> HIDE DEF x
  <2>2. Started(o, r.ops, "RECV", h)
    BY <1>4, <2>1, StartedOK
  <2>3. /\ r.s \in SlotRecord /\ SameIdentity(s, r.s) /\ HasEvent(r.s, "READ")
        /\ HasEvent(r.s, "WRITE") <=> HasEvent(s, "WRITE")
        /\ r.s.recv = s.recv /\ r.s.send = s.send
    BY <1>4, EventBitsOK DEF EventBits
  <2>4. Called(s, o, r) /\ (Has(r.ops, "SEND", h) <=> Has(o, "SEND", h))
    BY <2>2, <2>3 DEF Called, Started, IOTypes
  <2>5. Has(r.ops, "RECV", h) /\ r.s.kHSocket = h
        /\ (Unique(o, h) /\ ~Has(o, "RECV", h) => Unique(r.ops, h))
    BY <2>2, <2>3 DEF Started, SameIdentity
  <2>. QED  BY <1>4, <2>3, <2>4, <2>5 DEF BitBacked, BitExact
<1>. QED  BY <1>2, <1>3, <1>4

LEMMA ChunkOK ==
  ASSUME NEW s \in SlotRecord  PROVE Chunk(s) \in 0 .. DataLen /\ s.send - Chunk(s) \in Nat
BY WinAssumption DEF Chunk, SlotRecord

LEMMA SendBufOK ==
  ASSUME NEW s \in SlotRecord, NEW o, OpsOK(o), NEW r \in SendBuf(s, o)
  PROVE  /\ Called(s, o, r)
         /\ HasEvent(r.s, "READ") <=> HasEvent(s, "READ")
         /\ Has(r.ops, "RECV", s.kHSocket) <=> Has(o, "RECV", s.kHSocket)
         /\ r.ok /\ r.s.send > 0 => HasEvent(r.s, "WRITE")
         /\ s.send = 0 => r.s.send = 0
         /\ BitBacked(s, o, "WRITE", "SEND") => BitBacked(r.s, r.ops, "WRITE", "SEND")
         /\ BitExact(s, o, "WRITE", "SEND") => BitExact(r.s, r.ops, "WRITE", "SEND")
<1> DEFINE x == Operation("SEND", s.kHSocket, NoFd, Chunk(s))
           h == s.kHSocket
           n == s.send - Chunk(s)
           rest == [s EXCEPT !.send = n]
<1>0. n \in Nat /\ Chunk(s) \in 0 .. DataLen
  BY ChunkOK
<1>1. \/ (HasEvent(s, "WRITE") \/ s.send = 0) /\ r = Result(TRUE, s, o)
      \/ /\ ~HasEvent(s, "WRITE") /\ s.send # 0
         /\ r = Result(TRUE, AddEvent(rest, "WRITE"), Start(o, x))
      \/ /\ ~HasEvent(s, "WRITE") /\ s.send # 0
         /\ r = Result(FALSE, rest, o)
  BY DEF SendBuf
<1>2. /\ rest \in SlotRecord /\ SameIdentity(s, rest) /\ rest.recv = s.recv
      /\ rest.iEventSocket = s.iEventSocket
  BY <1>0 DEF SlotRecord, SameIdentity
<1> HIDE DEF rest
<1>3. CASE (HasEvent(s, "WRITE") \/ s.send = 0) /\ r = Result(TRUE, s, o)
  <2>1. r.s = s /\ r.ops = o /\ r.ok = TRUE
    BY <1>3 DEF Result
  <2>2. Called(s, o, r)
    BY <2>1, SameButItself DEF Called, SameIdentity
  <2>3. s.send > 0 => HasEvent(s, "WRITE")
    BY <1>3 DEF SlotRecord
  <2>. QED  BY <2>1, <2>2, <2>3
<1>4. CASE /\ ~HasEvent(s, "WRITE") /\ s.send # 0
           /\ r = Result(TRUE, AddEvent(rest, "WRITE"), Start(o, x))
  <2>1. r.s = AddEvent(rest, "WRITE") /\ r.ops = Start(o, x) /\ r.ok = TRUE
    BY <1>4 DEF Result
  <2>2. x \in OperationRecord /\ x.iOPType = "SEND" /\ x.kHScoket = h
    BY <1>0 DEF Operation, OperationRecord, OpTypes, SlotRecord
  <2> HIDE DEF x
  <2>3. Started(o, r.ops, "SEND", h)
    BY <2>1, <2>2, StartedOK
  <2>4. /\ r.s \in SlotRecord /\ SameIdentity(rest, r.s) /\ HasEvent(r.s, "WRITE")
        /\ HasEvent(r.s, "READ") <=> HasEvent(rest, "READ")
        /\ r.s.recv = rest.recv
    BY <1>2, <2>1, EventBitsOK DEF EventBits
  <2>5. SameIdentity(s, r.s) /\ (HasEvent(r.s, "READ") <=> HasEvent(s, "READ"))
    BY <1>2, <2>4 DEF SameIdentity, HasEvent
  <2>6. Called(s, o, r) /\ (Has(r.ops, "RECV", h) <=> Has(o, "RECV", h))
    BY <1>2, <2>3, <2>4, <2>5 DEF Called, Started, IOTypes
  <2>7. Has(r.ops, "SEND", h) /\ r.s.kHSocket = h
        /\ (Unique(o, h) /\ ~Has(o, "SEND", h) => Unique(r.ops, h))
    BY <2>3, <2>5 DEF Started, SameIdentity
  <2>. QED  BY <1>4, <2>4, <2>5, <2>6, <2>7 DEF BitBacked, BitExact
<1>5. CASE /\ ~HasEvent(s, "WRITE") /\ s.send # 0
           /\ r = Result(FALSE, rest, o)
  <2>1. r.s = rest /\ r.ops = o /\ r.ok = FALSE
    BY <1>5 DEF Result
  <2>2. Called(s, o, r)
    BY <1>2, <2>1, SameButItself DEF Called
  <2>3. \A e : HasEvent(r.s, e) <=> HasEvent(s, e)
    BY <1>2, <2>1 DEF HasEvent
  <2>4. r.s.kHSocket = s.kHSocket
    BY <1>2, <2>1 DEF SameIdentity
  <2>. QED  BY <1>5, <2>1, <2>2, <2>3, <2>4 DEF BitBacked, BitExact
<1>. QED  BY <1>1, <1>3, <1>4, <1>5

-----------------------------------------------------------------------------
(* Sockets change hands.                                                   *)

(* A slot's socket is closed ...                                           *)
LEMMA SlotCloses ==
  ASSUME NEW own, NEW acc, NEW fds, Ownership(own, acc, fds), NEW i \in DOMAIN own
  PROVE  Ownership([j \in DOMAIN own \ {i} |-> own[j]], acc, fds \ {own[i]})
<1> DEFINE p == [j \in DOMAIN own \ {i} |-> own[j]]
<1>1. DOMAIN p = DOMAIN own \ {i} /\ \A j \in DOMAIN own \ {i} : p[j] = own[j]
  OBVIOUS
<1> HIDE DEF p
<1>2. {p[j] : j \in DOMAIN p} = {own[j] : j \in DOMAIN own} \ {own[i]}
  BY <1>1 DEF Ownership
<1>3. own[i] \notin {o.kSocket : o \in acc}
  BY DEF Ownership
<1>4. fds \ {own[i]} = {p[j] : j \in DOMAIN p} \cup {o.kSocket : o \in acc}
  BY <1>2, <1>3 DEF Ownership
<1>5. Ownership(p, acc, fds \ {own[i]})
  BY <1>1, <1>4 DEF Ownership
<1>. QED  BY <1>5 DEF p

(* ... or a slot gets one nobody holds.                                    *)
LEMMA SlotGets ==
  ASSUME NEW own, NEW acc, NEW fds, Ownership(own, acc, fds), NEW i, i \notin DOMAIN own,
         NEW fd, fd \notin fds
  PROVE  Ownership([j \in DOMAIN own \cup {i} |-> IF j = i THEN fd ELSE own[j]], acc,
                   fds \cup {fd})
<1> DEFINE p == [j \in DOMAIN own \cup {i} |-> IF j = i THEN fd ELSE own[j]]
<1>1. /\ DOMAIN p = DOMAIN own \cup {i} /\ p[i] = fd
      /\ \A j \in DOMAIN own : p[j] = own[j]
  OBVIOUS
<1> HIDE DEF p
<1>2. {p[j] : j \in DOMAIN p} = {own[j] : j \in DOMAIN own} \cup {fd}
  BY <1>1
<1>3. /\ \A j \in DOMAIN own : own[j] # fd
      /\ \A o \in acc : o.kSocket # fd
  BY DEF Ownership
<1>4. fds \cup {fd} = {p[j] : j \in DOMAIN p} \cup {o.kSocket : o \in acc}
  BY <1>2 DEF Ownership
<1>5. Ownership(p, acc, fds \cup {fd})
  BY <1>1, <1>3, <1>4 DEF Ownership
<1>. QED  BY <1>5 DEF p

(* An accept with a new socket is started ...                              *)
LEMMA AcceptGets ==
  ASSUME NEW own, NEW acc, NEW fds, Ownership(own, acc, fds), NEW x, x.kSocket \notin fds
  PROVE  Ownership(own, acc \cup {x}, fds \cup {x.kSocket})
BY DEF Ownership

(* ... and one ends, whatever becomes of its socket.                       *)
LEMMA AcceptGives ==
  ASSUME NEW own, NEW acc, NEW fds, Ownership(own, acc, fds), NEW x \in acc
  PROVE  Ownership(own, acc \ {x}, fds \ {x.kSocket})
<1>1. {o.kSocket : o \in acc \ {x}} = {o.kSocket : o \in acc} \ {x.kSocket}
  BY DEF Ownership
<1>2. x.kSocket \notin {own[i] : i \in DOMAIN own}
  BY DEF Ownership
<1>. QED  BY <1>1, <1>2 DEF Ownership

-----------------------------------------------------------------------------
(* The listeners' accepts.                                                 *)

LEMMA ListenItems ==
  ASSUME NEW l \in Seq(ListenRecord)
  PROVE  /\ Len(l) \in Nat /\ DOMAIN l = 1 .. Len(l)
         /\ \A k \in DOMAIN l : /\ l[k] \in ListenRecord /\ l[k].iBacklog \in Int
                                /\ l[k].kHScoket \in Handles
<1>1. Len(l) \in Nat /\ DOMAIN l = 1 .. Len(l) /\ \A k \in DOMAIN l : l[k] \in ListenRecord
  BY LenProperties, ElementOfSeq
<1>. QED  BY <1>1 DEF ListenRecord

(* An operation that listener h takes for an accept ends ...               *)
LEMMA AcceptEndedList ==
  ASSUME NEW l \in Seq(ListenRecord), NEW h
  PROVE  LET m == AcceptEnded(l, h) IN
         /\ m \in Seq(ListenRecord) /\ DOMAIN m = DOMAIN l
         /\ \A k \in DOMAIN l : /\ m[k].kHScoket = l[k].kHScoket
                                /\ m[k].iBacklog = IF l[k].kHScoket = h THEN l[k].iBacklog - 1
                                                   ELSE l[k].iBacklog
<1> DEFINE m == AcceptEnded(l, h)
<1>1. /\ Len(l) \in Nat /\ DOMAIN l = 1 .. Len(l)
      /\ \A k \in DOMAIN l : l[k] \in ListenRecord
  BY ListenItems
<1>2. /\ m = [k \in 1 .. Len(l) |-> m[k]]
      /\ \A k \in 1 .. Len(l) :
           m[k] = IF l[k].kHScoket = h THEN [l[k] EXCEPT !.iBacklog = l[k].iBacklog - 1] ELSE l[k]
  BY <1>1 DEF AcceptEnded
<1> HIDE DEF m
<1>3. ASSUME NEW k \in 1 .. Len(l)
      PROVE  /\ m[k] \in ListenRecord /\ m[k].kHScoket = l[k].kHScoket
             /\ m[k].iBacklog = IF l[k].kHScoket = h THEN l[k].iBacklog - 1 ELSE l[k].iBacklog
  <2>1. l[k].kHScoket \in Handles /\ l[k].iBacklog \in Int
    BY <1>1 DEF ListenRecord
  <2>2. l[k] = [kHScoket |-> l[k].kHScoket, iBacklog |-> l[k].iBacklog]
    BY <1>1 DEF ListenRecord
  <2>3. CASE l[k].kHScoket = h
    <3>1. m[k] = [l[k] EXCEPT !.iBacklog = l[k].iBacklog - 1]
      BY <1>2, <2>3
    <3>2. m[k] = [kHScoket |-> l[k].kHScoket, iBacklog |-> l[k].iBacklog - 1]
      BY <2>2, <3>1
    <3>. QED  BY <2>1, <2>3, <3>2 DEF ListenRecord
  <2>4. CASE l[k].kHScoket # h
    BY <1>1, <1>2, <2>4
  <2>. QED  BY <2>3, <2>4
<1>4. m \in [1 .. Len(l) -> ListenRecord] /\ DOMAIN m = 1 .. Len(l)
  BY <1>2, <1>3
<1>5. m \in Seq(ListenRecord)
  BY <1>1, <1>4, SeqDef
<1>. QED  BY <1>1, <1>3, <1>4, <1>5 DEF m

(* ... and where it is one, the count is right.                            *)
LEMMA AcceptEndedOK ==
  ASSUME NEW l \in Seq(ListenRecord), NEW acc, ListenOK(l, acc), IsFiniteSet(acc), NEW x \in acc
  PROVE  ListenOK(AcceptEnded(l, x.kHScoket), acc \ {x})
<1> DEFINE h == x.kHScoket
           m == AcceptEnded(l, h)
<1>1. /\ DOMAIN m = DOMAIN l
      /\ \A k \in DOMAIN l : /\ m[k].kHScoket = l[k].kHScoket
                             /\ m[k].iBacklog = IF l[k].kHScoket = h THEN l[k].iBacklog - 1
                                                ELSE l[k].iBacklog
  BY AcceptEndedList
<1> HIDE DEF m
<1>2. \A k \in DOMAIN l : OfListener(acc \ {x}, l[k].kHScoket) =
        IF l[k].kHScoket = h THEN OfListener(acc, h) \ {x} ELSE OfListener(acc, l[k].kHScoket)
  BY DEF OfListener
<1>3. /\ Cardinality(OfListener(acc, h) \ {x}) = Cardinality(OfListener(acc, h)) - 1
      /\ Cardinality(OfListener(acc, h)) \in Nat \ {0}
  <2>1. IsFiniteSet(OfListener(acc, h)) /\ x \in OfListener(acc, h)
    BY FS_Subset DEF OfListener
  <2>. QED  BY <2>1, FS_RemoveElement, FS_CardinalityType, FS_EmptySet
<1>4. ASSUME NEW k \in DOMAIN l
      PROVE  /\ m[k].iBacklog = Cardinality(OfListener(acc \ {x}, m[k].kHScoket))
             /\ m[k].iBacklog \in 0 .. Backlog
  <2>1. /\ l[k].iBacklog = Cardinality(OfListener(acc, l[k].kHScoket))
        /\ l[k].iBacklog \in 0 .. Backlog
    BY DEF ListenOK
  <2>2. CASE l[k].kHScoket = h
    <3>1. l[k].iBacklog # 0 /\ m[k].iBacklog = l[k].iBacklog - 1
      BY <1>1, <1>3, <2>1, <2>2
    <3>2. l[k].iBacklog - 1 \in 0 .. Backlog
      BY <2>1, <3>1, Bounds
    <3>. QED  BY <1>1, <1>2, <1>3, <2>1, <2>2, <3>1, <3>2
  <2>3. CASE l[k].kHScoket # h
    BY <1>1, <1>2, <2>1, <2>3
  <2>. QED  BY <2>2, <2>3
<1>5. ListenOK(m, acc \ {x})
  BY <1>1, <1>4 DEF ListenOK
<1>. QED  BY <1>5 DEF m

(* The listener whose turn it is goes to the end of the line.              *)
LEMMA TurnOver ==
  ASSUME NEW l \in Seq(ListenRecord), l # <<>>, NEW e \in ListenRecord
  PROVE  LET m == Append(Tail(l), e) IN
         /\ m \in Seq(ListenRecord) /\ DOMAIN m = DOMAIN l
         /\ Len(l) \in Nat \ {0} /\ DOMAIN l = 1 .. Len(l) /\ Head(l) = l[1]
         /\ \A k \in 1 .. Len(l) - 1 : m[k] = l[k + 1]
         /\ m[Len(l)] = e
<1>1. /\ Tail(l) \in Seq(ListenRecord) /\ Len(Tail(l)) = Len(l) - 1
      /\ \A k \in 1 .. Len(Tail(l)) : Tail(l)[k] = l[k + 1]
  BY HeadTailProperties
<1>2. Len(l) \in Nat \ {0} /\ DOMAIN l = 1 .. Len(l) /\ Head(l) = l[1]
  BY LenProperties, EmptySeq
<1>3. /\ Append(Tail(l), e) \in Seq(ListenRecord)
      /\ Len(Append(Tail(l), e)) = Len(l)
      /\ \A k \in 1 .. Len(l) - 1 : Append(Tail(l), e)[k] = Tail(l)[k]
      /\ Append(Tail(l), e)[Len(l)] = e
  BY <1>1, <1>2, AppendProperties
<1>4. DOMAIN Append(Tail(l), e) = DOMAIN l
  BY <1>2, <1>3, LenProperties
<1>. QED  BY <1>1, <1>2, <1>3, <1>4

LEMMA NotLast ==
  ASSUME NEW n \in Nat \ {0}, NEW k \in 1 .. n
  PROVE  /\ k \in Nat \ {0} /\ k + 1 # 1
         /\ k # n => k \in 1 .. n - 1 /\ k + 1 \in 1 .. n
OBVIOUS

SameHandles(l, m) == \A k \in DOMAIN m : \E n \in DOMAIN l : m[k].kHScoket = l[n].kHScoket

LEMMA TurnOverOK ==
  ASSUME NEW l \in Seq(ListenRecord), l # <<>>, NEW e \in ListenRecord,
         e.kHScoket = Head(l).kHScoket
  PROVE  LET m == Append(Tail(l), e) IN
         /\ m \in Seq(ListenRecord) /\ SameHandles(l, m)
         /\ \A acc, acc2 :
              /\ ListenOK(l, acc) /\ e.iBacklog \in 0 .. Backlog
              /\ e.iBacklog = Cardinality(OfListener(acc2, e.kHScoket))
              /\ \A k \in DOMAIN l : l[k].kHScoket # e.kHScoket =>
                   OfListener(acc2, l[k].kHScoket) = OfListener(acc, l[k].kHScoket)
              => ListenOK(m, acc2)
<1> DEFINE m == Append(Tail(l), e)
           from(k) == IF k = Len(l) THEN 1 ELSE k + 1
<1>1. /\ m \in Seq(ListenRecord) /\ DOMAIN m = DOMAIN l
      /\ Len(l) \in Nat \ {0} /\ DOMAIN l = 1 .. Len(l) /\ Head(l) = l[1]
      /\ \A k \in 1 .. Len(l) - 1 : m[k] = l[k + 1]
      /\ m[Len(l)] = e
  BY TurnOver
<1> HIDE DEF m
<1> HIDE DEF from
<1>2. ASSUME NEW k \in 1 .. Len(l)
      PROVE  /\ from(k) \in 1 .. Len(l) /\ m[k].kHScoket = l[from(k)].kHScoket
             /\ from(k) = IF k = Len(l) THEN 1 ELSE k + 1
  <2>1. from(k) = IF k = Len(l) THEN 1 ELSE k + 1
    BY DEF from
  <2>2. CASE k = Len(l)
    BY <1>1, <2>1, <2>2
  <2>3. CASE k # Len(l)
    <3>1. k \in 1 .. Len(l) - 1 /\ k + 1 \in 1 .. Len(l)
      BY <1>1, <1>2, <2>3, NotLast
    <3>2. from(k) = k + 1
      BY <2>1, <2>3
    <3>3. m[k] = l[k + 1]
      BY <1>1, <3>1
    <3>. QED  BY <2>1, <3>1, <3>2, <3>3
  <2>. QED  BY <2>2, <2>3
<1>3. ASSUME NEW k \in 1 .. Len(l), NEW n \in 1 .. Len(l), from(k) = from(n)  PROVE k = n
  <2>1. /\ from(k) = IF k = Len(l) THEN 1 ELSE k + 1
        /\ from(n) = IF n = Len(l) THEN 1 ELSE n + 1
    BY <1>2
  <2>2. k \in Nat \ {0} /\ n \in Nat \ {0} /\ k + 1 # 1 /\ n + 1 # 1
    BY <1>1, <1>3, NotLast
  <2>3. CASE k = Len(l) \/ n = Len(l)
    BY <1>3, <2>1, <2>2, <2>3, Zenon
  <2>4. CASE k # Len(l) /\ n # Len(l)
    <3>1. k + 1 = n + 1
      BY <1>3, <2>1, <2>4, Zenon
    <3>. QED  BY <2>2, <3>1
  <2>. QED  BY <2>3, <2>4
<1>4. SameHandles(l, m)
  BY <1>1, <1>2 DEF SameHandles
<1>5. ASSUME NEW acc, ListenOK(l, acc), NEW acc2, e.iBacklog \in 0 .. Backlog,
             e.iBacklog = Cardinality(OfListener(acc2, e.kHScoket)),
             \A k \in DOMAIN l : l[k].kHScoket # e.kHScoket =>
                OfListener(acc2, l[k].kHScoket) = OfListener(acc, l[k].kHScoket)
      PROVE  ListenOK(m, acc2)
  <2>1. ASSUME NEW k \in DOMAIN m, NEW n \in DOMAIN m, m[k].kHScoket = m[n].kHScoket
        PROVE  k = n
    <3>1. /\ from(k) \in DOMAIN l /\ from(n) \in DOMAIN l
          /\ l[from(k)].kHScoket = l[from(n)].kHScoket
      BY <1>1, <1>2, <2>1
    <3>2. from(k) = from(n)
      BY <1>5, <3>1 DEF ListenOK
    <3>. QED  BY <1>1, <1>3, <3>2
  <2>2. ASSUME NEW k \in DOMAIN m
        PROVE  /\ m[k].iBacklog = Cardinality(OfListener(acc2, m[k].kHScoket))
               /\ m[k].iBacklog \in 0 .. Backlog
    <3>1. CASE k = Len(l)
      BY <1>1, <1>5, <3>1
    <3>2. CASE k # Len(l)
      <4>1. k \in 1 .. Len(l) - 1 /\ k + 1 \in 1 .. Len(l) /\ k + 1 # 1 /\ m[k] = l[k + 1]
        BY <1>1, <2>2, <3>2
      <4>2. l[k + 1].kHScoket # e.kHScoket
        BY <1>1, <1>5, <4>1 DEF ListenOK
      <4>3. /\ l[k + 1].iBacklog = Cardinality(OfListener(acc, l[k + 1].kHScoket))
            /\ l[k + 1].iBacklog \in 0 .. Backlog
        BY <1>1, <1>5, <4>1 DEF ListenOK
      <4>. QED  BY <1>1, <1>5, <4>1, <4>2, <4>3
    <3>. QED  BY <3>1, <3>2
  <2>. QED  BY <2>1, <2>2 DEF ListenOK
<1>. QED  BY <1>1, <1>4, <1>5 DEF m

(* SeSetAcceptSocket starts one accept or none, with a socket of its own.  *)
Posted(l, o, fds, r, x) ==
  /\ x \in OperationRecord /\ x.iOPType = "ACCEPT"
  /\ x.kSocket \in Fds \ fds /\ \E k \in DOMAIN l : x.kHScoket = l[k].kHScoket
  /\ r.ops = Start(o, x) /\ r.open = fds \cup {x.kSocket}

SetAcceptOK(l, o, fds, r) ==
  /\ OpsOK(r.ops) /\ r.list \in Seq(ListenRecord) /\ SameHandles(l, r.list)
  /\ (r.ops = o /\ r.open = fds) \/ \E x : Posted(l, o, fds, r, x)
  /\ ListenOK(l, AcceptsIn(o)) /\ (\A x \in AcceptsIn(o) : x.kSocket \in fds) =>
       ListenOK(r.list, AcceptsIn(r.ops))

LEMMA AcceptsFinite ==
  ASSUME NEW o, OpsOK(o)  PROVE IsFiniteSet(AcceptsIn(o))
BY FS_Subset DEF OpsOK, AcceptsIn

LEMMA SetAcceptSocketOK ==
  ASSUME NEW l \in Seq(ListenRecord), NEW o, NEW fds, OpsOK(o),
         NEW r \in SetAcceptSocket(l, o, fds)
  PROVE  SetAcceptOK(l, o, fds, r)
<1> DEFINE turn == Head(l)
           h == Head(l).kHScoket
           back(n) == Append(Tail(l), [Head(l) EXCEPT !.iBacklog = n])
<1>1. CASE l = <<>>
  <2>1. r = AcceptResult(l, o, fds)
    BY <1>1 DEF SetAcceptSocket
  <2>2. r.list = l /\ r.ops = o /\ r.open = fds
    BY <2>1 DEF AcceptResult
  <2>. QED  BY <2>2 DEF SetAcceptOK, SameHandles
<1>2. CASE l # <<>>
  <2>1. /\ Len(l) \in Nat \ {0} /\ 1 \in DOMAIN l /\ DOMAIN l = 1 .. Len(l) /\ Head(l) = l[1]
        /\ turn \in ListenRecord
    BY <1>2, ListenItems, EmptySeq, LenProperties
  <2>2. h \in Handles /\ turn.iBacklog \in Int
    BY <2>1 DEF ListenRecord
  <2>3. \/ r = AcceptResult(back(turn.iBacklog), o, fds)
        \/ \E fd \in Fds \ fds :
             /\ turn.iBacklog < Backlog
             /\ r = AcceptResult(back(turn.iBacklog + 1),
                                 Start(o, Operation("ACCEPT", h, fd, 0)), fds \cup {fd})
    BY <1>2 DEF SetAcceptSocket
  <2>4. ASSUME NEW n \in Int
        PROVE  /\ [turn EXCEPT !.iBacklog = n] \in ListenRecord
               /\ [turn EXCEPT !.iBacklog = n].kHScoket = h
               /\ [turn EXCEPT !.iBacklog = n].iBacklog = n
    BY <2>1, <2>4 DEF ListenRecord
  <2>5. CASE r = AcceptResult(back(turn.iBacklog), o, fds)
    <3>1. r.list = back(turn.iBacklog) /\ r.ops = o /\ r.open = fds
      BY <2>5 DEF AcceptResult
    <3>. DEFINE e == [turn EXCEPT !.iBacklog = turn.iBacklog]
    <3>2. e \in ListenRecord /\ e.kHScoket = h /\ e.iBacklog = turn.iBacklog
      BY <2>2, <2>4
    <3>3. r.list = Append(Tail(l), e)
      BY <3>1
    <3>. HIDE DEF e
    <3>4. r.list \in Seq(ListenRecord) /\ SameHandles(l, r.list)
      BY <1>2, <3>2, <3>3, TurnOverOK
    <3>5. ASSUME ListenOK(l, AcceptsIn(o))  PROVE ListenOK(r.list, AcceptsIn(r.ops))
      <4>1. /\ e.iBacklog = Cardinality(OfListener(AcceptsIn(o), e.kHScoket))
            /\ e.iBacklog \in 0 .. Backlog
        BY <2>1, <3>2, <3>5 DEF ListenOK
      <4>2. \A acc, acc2 :
              /\ ListenOK(l, acc) /\ e.iBacklog \in 0 .. Backlog
              /\ e.iBacklog = Cardinality(OfListener(acc2, e.kHScoket))
              /\ \A k \in DOMAIN l : l[k].kHScoket # e.kHScoket =>
                   OfListener(acc2, l[k].kHScoket) = OfListener(acc, l[k].kHScoket)
              => ListenOK(r.list, acc2)
        BY <1>2, <3>2, <3>3, TurnOverOK
      <4>. QED  BY <3>1, <3>5, <4>1, <4>2
    <3>. QED  BY <3>1, <3>4, <3>5 DEF SetAcceptOK
  <2>6. ASSUME NEW fd \in Fds \ fds, turn.iBacklog < Backlog,
               r = AcceptResult(back(turn.iBacklog + 1),
                                Start(o, Operation("ACCEPT", h, fd, 0)), fds \cup {fd})
        PROVE  SetAcceptOK(l, o, fds, r)
    <3>. DEFINE x == Operation("ACCEPT", h, fd, 0)
                e == [turn EXCEPT !.iBacklog = turn.iBacklog + 1]
    <3>1. r.list = Append(Tail(l), e) /\ r.ops = Start(o, x) /\ r.open = fds \cup {fd}
      BY <2>6 DEF AcceptResult
    <3>2. /\ x \in OperationRecord /\ x.iOPType = "ACCEPT" /\ x.kHScoket = h
          /\ x.kSocket = fd
      BY <2>2, Bounds DEF Operation, OperationRecord, OpTypes
    <3>3. e \in ListenRecord /\ e.kHScoket = h /\ e.iBacklog = turn.iBacklog + 1
      <4>1. turn.iBacklog + 1 \in Int
        BY <2>2
      <4>. QED  BY <2>4, <4>1
    <3>. HIDE DEF e, x
    <3>4. OpsOK(r.ops) /\ DOMAIN r.ops = DOMAIN o \cup {x}
      <4>1. x \in OperationRecord
        BY <3>2
      <4>2. OpsOK(Start(o, x)) /\ DOMAIN Start(o, x) = DOMAIN o \cup {x}
        BY <4>1, StartOK
      <4>. QED  BY <3>1, <4>2
    <3>5. /\ r.list \in Seq(ListenRecord) /\ SameHandles(l, r.list)
          /\ \A acc, acc2 :
              /\ ListenOK(l, acc) /\ e.iBacklog \in 0 .. Backlog
              /\ e.iBacklog = Cardinality(OfListener(acc2, e.kHScoket))
              /\ \A k \in DOMAIN l : l[k].kHScoket # e.kHScoket =>
                   OfListener(acc2, l[k].kHScoket) = OfListener(acc, l[k].kHScoket)
              => ListenOK(r.list, acc2)
      BY <1>2, <3>1, <3>3, TurnOverOK
    <3>6. Posted(l, o, fds, r, x)
      BY <2>1, <3>1, <3>2 DEF Posted
    <3>7. ASSUME ListenOK(l, AcceptsIn(o)), \A y \in AcceptsIn(o) : y.kSocket \in fds
          PROVE  ListenOK(r.list, AcceptsIn(r.ops))
      <4>1. x \notin AcceptsIn(o)
        BY <3>2, <3>7
      <4>2. AcceptsIn(r.ops) = AcceptsIn(o) \cup {x}
        BY <3>2, <3>4 DEF AcceptsIn
      <4>3. /\ OfListener(AcceptsIn(r.ops), h) = OfListener(AcceptsIn(o), h) \cup {x}
            /\ \A k \in DOMAIN l : l[k].kHScoket # h =>
                 OfListener(AcceptsIn(r.ops), l[k].kHScoket) = OfListener(AcceptsIn(o), l[k].kHScoket)
            /\ x \notin OfListener(AcceptsIn(o), h)
        BY <3>2, <4>1, <4>2 DEF OfListener
      <4>4. IsFiniteSet(OfListener(AcceptsIn(o), h))
        BY AcceptsFinite, FS_Subset DEF OfListener
      <4>5. /\ turn.iBacklog = Cardinality(OfListener(AcceptsIn(o), h))
            /\ turn.iBacklog \in 0 .. Backlog
        BY <2>1, <3>7 DEF ListenOK
      <4>6. Cardinality(OfListener(AcceptsIn(r.ops), h)) = turn.iBacklog + 1
        BY <4>3, <4>4, <4>5, FS_AddElement
      <4>7. turn.iBacklog + 1 \in 0 .. Backlog
        BY <2>6, <4>5, Bounds
      <4>. QED  BY <3>3, <3>5, <3>7, <4>3, <4>6, <4>7
    <3>. QED  BY <3>4, <3>5, <3>6, <3>7 DEF SetAcceptOK
  <2>. QED  BY <2>3, <2>5, <2>6
<1>. QED  BY <1>1, <1>2

(* Whatever it did, no slot's operations are touched, and a new accept's   *)
(* socket is its own.                                                      *)
LEMMA AcceptsPosted ==
  ASSUME NEW l, NEW o, NEW fds, NEW r, OpsOK(o), SetAcceptOK(l, o, fds, r), fds \subseteq Fds
  PROVE  /\ r.open \subseteq Fds /\ fds \subseteq r.open
         /\ \A Z : SameApart(o, r.ops, Z)
         /\ \A x \in AcceptsIn(r.ops) :
              x \in AcceptsIn(o) \/ \E k \in DOMAIN l : x.kHScoket = l[k].kHScoket
         /\ \A own :
              /\ Ownership(own, AcceptsIn(o), fds) /\ SingleAccepts(o)
              /\ ListenOK(l, AcceptsIn(o))
              => /\ Ownership(own, AcceptsIn(r.ops), r.open) /\ SingleAccepts(r.ops)
                 /\ ListenOK(r.list, AcceptsIn(r.ops))
<1>1. ASSUME NEW own, Ownership(own, AcceptsIn(o), fds), ListenOK(l, AcceptsIn(o))
      PROVE  ListenOK(r.list, AcceptsIn(r.ops))
  <2>1. \A x \in AcceptsIn(o) : x.kSocket \in fds
    BY <1>1 DEF Ownership
  <2>. QED  BY <1>1, <2>1 DEF SetAcceptOK
<1>2. CASE r.ops = o /\ r.open = fds
  BY <1>1, <1>2 DEF SameApart
<1>3. ASSUME NEW x, Posted(l, o, fds, r, x)
      PROVE  /\ r.open = fds \cup {x.kSocket} /\ x.kSocket \in Fds
             /\ \A Z : SameApart(o, r.ops, Z)
             /\ \A y \in AcceptsIn(r.ops) : y = x \/ y \in AcceptsIn(o)
             /\ \E k \in DOMAIN l : x.kHScoket = l[k].kHScoket
             /\ \A own : Ownership(own, AcceptsIn(o), fds) /\ SingleAccepts(o)
                  => Ownership(own, AcceptsIn(r.ops), r.open) /\ SingleAccepts(r.ops)
  <2>1. /\ x \in OperationRecord /\ x.iOPType = "ACCEPT" /\ x.kSocket \in Fds \ fds
        /\ \E k \in DOMAIN l : x.kHScoket = l[k].kHScoket
        /\ r.ops = Start(o, x) /\ r.open = fds \cup {x.kSocket}
    BY <1>3 DEF Posted
  <2>2. /\ DOMAIN r.ops = DOMAIN o \cup {x} /\ \A y \in DOMAIN o \ {x} : r.ops[y] = o[y]
        /\ x \notin DOMAIN o => r.ops[x] = 1
    BY <2>1, StartOK
  <2>3. \A Z : SameApart(o, r.ops, Z)
    BY <2>1, <2>2 DEF SameApart
  <2>4. AcceptsIn(r.ops) = AcceptsIn(o) \cup {x}
    BY <2>1, <2>2 DEF AcceptsIn
  <2>5. ASSUME NEW own, Ownership(own, AcceptsIn(o), fds), SingleAccepts(o)
        PROVE  Ownership(own, AcceptsIn(r.ops), r.open) /\ SingleAccepts(r.ops)
    <3>1. x.kSocket \notin fds /\ x \notin DOMAIN o
      BY <2>1, <2>5 DEF Ownership, AcceptsIn
    <3>2. Ownership(own, AcceptsIn(r.ops), r.open)
      BY <2>1, <2>4, <2>5, <3>1, AcceptGets
    <3>3. SingleAccepts(r.ops)
      BY <2>2, <2>4, <2>5, <3>1 DEF SingleAccepts, AcceptsIn
    <3>. QED  BY <3>2, <3>3
  <2>. QED  BY <2>1, <2>3, <2>4, <2>5
<1>4. CASE \E x : Posted(l, o, fds, r, x)
  <2>1. PICK x : Posted(l, o, fds, r, x)
    BY <1>4
  <2>2. /\ r.open = fds \cup {x.kSocket} /\ x.kSocket \in Fds
        /\ \A Z : SameApart(o, r.ops, Z)
        /\ \A y \in AcceptsIn(r.ops) : y = x \/ y \in AcceptsIn(o)
        /\ \E k \in DOMAIN l : x.kHScoket = l[k].kHScoket
        /\ \A own : Ownership(own, AcceptsIn(o), fds) /\ SingleAccepts(o)
             => Ownership(own, AcceptsIn(r.ops), r.open) /\ SingleAccepts(r.ops)
    BY <1>3, <2>1
  <2>. QED  BY <1>1, <2>2
<1>. QED  BY <1>2, <1>4 DEF SetAcceptOK

-----------------------------------------------------------------------------
(* Parts of a step.                                                        *)

(* A slot in use has a handle of its own, which names it.                  *)
LEMMA HandleNames ==
  ASSUME StatusOK, NEW i \in Slots, sock[i].usStatus # "INIT"
  PROVE  IndexOf(sock[i].kHSocket) = i /\ sock[i].kHSocket \in Handles
<1>1. PICK t \in 0 .. MaxClock : sock[i].kHSocket = Handle(i, t)
  BY DEF StatusOK
<1>. QED  BY <1>1, Bounds DEF Handle, Handles, IndexOf

(* ... and a free one has the handle of none.                              *)
LEMMA FreeSlotFacts ==
  ASSUME TableOK, NEW i \in Slots
  PROVE  /\ i \in Members(kMainList) <=> sock[i].usStatus = "INIT"
         /\ sock[i].usStatus = "INIT" =>
              /\ sock[i].iTypeSocket = "NONE" /\ i \notin Members(kSendList)
              /\ i \notin Members(kRecvList)
              /\ sock[i].send = 0 /\ sock[i].recv = 0
BY DEF TableOK, SlotPartition, FreeSlotsDrained

(* What a handler may do to the rest of a table while it works on slot i.  *)
OthersKept(i) ==
  /\ kMainList' = kMainList
  /\ IsList(kActiveMainList') /\ Members(kActiveMainList') = Members(kActiveMainList)
  /\ IsList(kSendList')
  /\ Members(kSendList') \subseteq Members(kSendList) \cup {i}
  /\ Members(kSendList) \ {i} \subseteq Members(kSendList')
  /\ IsList(kRecvList') /\ Members(kRecvList') \subseteq Members(kRecvList) \cup {i}

(* Slot i goes from one state to another.                                  *)
LEMMA SlotUpdate ==
  ASSUME TableOK, StatusOK, NEW i \in Slots, NEW s \in SlotRecord, sock[i].usStatus # "INIT",
         s.iTypeSocket = sock[i].iTypeSocket, s.kHSocket = sock[i].kHSocket,
         sock' = [sock EXCEPT ![i] = s],
         OthersKept(i), StatusFits(s, i \in Members(kSendList'), Sure(i)),
         i \in Members(kRecvList') => IsConnection(s), retaken' = retaken
  PROVE  /\ TableOK' /\ StatusOK'
         /\ \A j \in Slots : j # i => sock'[j] = sock[j]
         /\ sock'[i] = s
<1>1. TableOK'
  BY SlotStepOK DEF OthersKept, StatusFits
<1>2. /\ \A j \in Slots : j # i => sock'[j] = sock[j]
      /\ sock'[i] = s
  BY DEF TableOK, MgrTypeOK
<1>3. \A j \in Slots : j # i => (j \in Members(kSendList') <=> j \in Members(kSendList))
  BY DEF OthersKept
<1>4. ASSUME NEW j \in Slots, sock'[j].usStatus # "INIT"
      PROVE  StatusFits(sock'[j], j \in Members(kSendList'), Sure(j)')
  <2>0. Sure(j)' = Sure(j)
    BY DEF Sure
  <2>1. CASE j = i
    BY <1>2, <2>0, <2>1
  <2>2. CASE j # i
    <3>1. sock'[j] = sock[j] /\ sock[j].usStatus # "INIT"
      BY <1>2, <1>4, <2>2
    <3>2. StatusFits(sock[j], j \in Members(kSendList), Sure(j))
      BY <3>1 DEF StatusOK
    <3>. QED  BY <1>3, <2>0, <2>2, <3>1, <3>2 DEF StatusFits
  <2>. QED  BY <2>1, <2>2
<1>5. \A j \in Slots : sock'[j].usStatus # "INIT" =>
        \E t \in 0 .. MaxClock : sock'[j].kHSocket = Handle(j, t)
  BY <1>2 DEF StatusOK
<1>6. \A j \in Members(kRecvList') : IsConnection(sock'[j])
  <2>1. Members(kRecvList') \subseteq Slots
    BY ListMembers DEF OthersKept
  <2>. QED  BY <1>2, <2>1 DEF StatusOK, OthersKept
<1>7. StatusOK'
  BY <1>4, <1>5, <1>6 DEF StatusOK
<1>. QED  BY <1>1, <1>2, <1>7

(* A slot is taken.                                                        *)
LEMMA SlotAdded ==
  ASSUME TableOK, StatusOK, NEW i, NEW s \in SlotRecord, MgrAdd(i, s),
         NEW t \in 0 .. MaxClock, s.kHSocket = Handle(i, t),
         IsList(kSendList'),
         Members(kSendList') = Members(kSendList) \cup
                                 (IF s.usStatus = "CONNECTED" THEN {i} ELSE {}),
         kRecvList' = kRecvList, StatusFits(s, s.usStatus = "CONNECTED", TRUE),
         \A j \in Slots \ {i} : j \in retaken' <=> j \in retaken
  PROVE  /\ TableOK' /\ StatusOK' /\ i \in Slots /\ sock[i].usStatus = "INIT"
         /\ \A j \in Slots : j # i => sock'[j] = sock[j]
         /\ sock'[i] = s
<1>1. TableOK' /\ i \in Slots /\ i \in Members(kMainList)
  BY MgrAddOK DEF StatusFits
<1>2. sock[i].usStatus = "INIT" /\ i \notin Members(kSendList) /\ i \notin Members(kRecvList)
  BY <1>1, FreeSlotFacts
<1>3. /\ \A j \in Slots : j # i => sock'[j] = sock[j]
      /\ sock'[i] = s
  BY <1>1 DEF MgrAdd, TableOK, MgrTypeOK
<1>4. ASSUME NEW j \in Slots, sock'[j].usStatus # "INIT"
      PROVE  StatusFits(sock'[j], j \in Members(kSendList'), Sure(j)')
  <2>1. CASE j = i
    <3>1. j \in Members(kSendList') <=> s.usStatus = "CONNECTED"
      BY <1>2, <2>1
    <3>. QED  BY <1>3, <2>1, <3>1 DEF StatusFits
  <2>2. CASE j # i
    <3>1. sock'[j] = sock[j] /\ sock[j].usStatus # "INIT"
      BY <1>3, <1>4, <2>2
    <3>2. StatusFits(sock[j], j \in Members(kSendList), Sure(j))
      BY <3>1 DEF StatusOK
    <3>3. j \in Members(kSendList') <=> j \in Members(kSendList)
      BY <2>2
    <3>4. Sure(j)' = Sure(j)
      BY <2>2 DEF Sure
    <3>. QED  BY <3>1, <3>2, <3>3, <3>4 DEF StatusFits
  <2>. QED  BY <2>1, <2>2
<1>5. \A j \in Slots : sock'[j].usStatus # "INIT" =>
        \E u \in 0 .. MaxClock : sock'[j].kHSocket = Handle(j, u)
  BY <1>3 DEF StatusOK
<1>6. \A j \in Members(kRecvList') : IsConnection(sock'[j])
  <2>1. Members(kRecvList) \subseteq Slots
    BY TableLists, ListMembers
  <2>. QED  BY <1>2, <1>3, <2>1 DEF StatusOK
<1>7. StatusOK'
  BY <1>4, <1>5, <1>6 DEF StatusOK
<1>. QED  BY <1>1, <1>2, <1>3, <1>7

(* A slot is freed.                                                        *)
LEMMA SlotFreed ==
  ASSUME TableOK, StatusOK, NEW i \in Slots, MgrDel(i), sock[i].usStatus # "INIT",
         retaken' = retaken
  PROVE  /\ TableOK' /\ StatusOK'
         /\ \A j \in Slots : j # i => sock'[j] = sock[j]
         /\ sock'[i].usStatus = "INIT"
<1>1. /\ TableOK'
      /\ Members(kSendList') = Members(kSendList) \ {i}
      /\ \A j \in Slots : j # i => sock'[j] = sock[j]
      /\ sock'[i].usStatus = "INIT"
  BY MgrDelOK
<1>2. Members(kRecvList') = Members(kRecvList) \ {i} /\ Members(kRecvList) \subseteq Slots
  BY UnlinkList, TableLists, ListMembers DEF MgrDel
<1>3. ASSUME NEW j \in Slots, sock'[j].usStatus # "INIT"
      PROVE  StatusFits(sock'[j], j \in Members(kSendList'), Sure(j)')
  <2>1. j # i /\ sock'[j] = sock[j] /\ sock[j].usStatus # "INIT"
    BY <1>1, <1>3
  <2>2. StatusFits(sock[j], j \in Members(kSendList), Sure(j))
    BY <2>1 DEF StatusOK
  <2>3. j \in Members(kSendList') <=> j \in Members(kSendList)
    BY <1>1, <2>1
  <2>4. Sure(j)' = Sure(j)
    BY DEF Sure
  <2>. QED  BY <2>1, <2>2, <2>3, <2>4 DEF StatusFits
<1>4. \A j \in Slots : sock'[j].usStatus # "INIT" =>
        \E u \in 0 .. MaxClock : sock'[j].kHSocket = Handle(j, u)
  BY <1>1 DEF StatusOK
<1>5. \A j \in Members(kRecvList') : IsConnection(sock'[j])
  BY <1>1, <1>2 DEF StatusOK
<1>. QED  BY <1>1, <1>3, <1>4, <1>5 DEF StatusOK

(* As long as the operations with a slot's handle stay, it matches them.   *)
LEMMA MatchSame ==
  ASSUME NEW s, NEW o, NEW p, NEW own, MatchOK(s, o, own),
         \A x : x.kHScoket = s.kHSocket /\ x.iOPType # "ACCEPT" =>
           /\ x \in DOMAIN o <=> x \in DOMAIN p
           /\ x \in DOMAIN o => p[x] = o[x]
  PROVE  MatchOK(s, p, own)
<1>1. \A type \in IOTypes : Has(p, type, s.kHSocket) <=> Has(o, type, s.kHSocket)
  BY DEF Has, IOTypes
<1>2. Unique(o, s.kHSocket) => Unique(p, s.kHSocket)
  BY DEF Unique
<1>3. Backed(s, p)
  BY <1>1 DEF MatchOK, Backed, IOTypes
<1>4. ASSUME own  PROVE Exact(s, p)
  BY <1>1, <1>2, <1>4 DEF MatchOK, Exact, IOTypes
<1>. QED  BY <1>3, <1>4 DEF MatchOK

(* Operations of slots in Z, and accepts, come and go: for the other slots *)
(* all is as it was.                                                       *)
LEMMA MatchKept ==
  ASSUME NEW s, NEW o, NEW p, NEW Z, SameApart(o, p, Z), IndexOf(s.kHSocket) \notin Z,
         NEW own, MatchOK(s, o, own)
  PROVE  MatchOK(s, p, own)
<1>1. \A x : x.kHScoket = s.kHSocket /\ x.iOPType # "ACCEPT" =>
        /\ x \in DOMAIN o <=> x \in DOMAIN p
        /\ x \in DOMAIN o => p[x] = o[x]
  BY DEF SameApart
<1>. QED  BY <1>1, MatchSame

LEMMA MatchStep ==
  ASSUME StatusOK, Match, NEW Z,
         \A j \in Slots \ Z : sock'[j] = sock[j] /\ (j \in retaken' <=> j \in retaken),
         SameApart(ops, ops', Z),
         \A j \in Slots \cap Z :
           sock'[j].usStatus # "INIT" => MatchOK(sock'[j], ops', j \notin retaken')
  PROVE  Match'
<1> SUFFICES ASSUME NEW j \in Slots, sock'[j].usStatus # "INIT"
             PROVE  MatchOK(sock'[j], ops', j \notin retaken')
  BY DEF Match
<1>1. CASE j \in Z
  BY <1>1
<1>2. CASE j \notin Z
  <2>1. sock'[j] = sock[j] /\ (j \notin retaken') = (j \notin retaken)
    BY <1>2
  <2>2. IndexOf(sock[j].kHSocket) \notin Z /\ MatchOK(sock[j], ops, j \notin retaken)
    BY <1>2, <2>1, HandleNames DEF Match
  <2>3. MatchOK(sock[j], ops', j \notin retaken)
    BY <2>2, MatchKept
  <2>. QED  BY <2>1, <2>3
<1>. QED  BY <1>1, <1>2

(* No listener goes, and none has its slot from now on retaken no more.    *)
SameListeners ==
  \A j \in Slots : sock[j].iTypeSocket = "LISTEN" =>
    /\ sock'[j].iTypeSocket = "LISTEN" /\ sock'[j].kHSocket = sock[j].kHSocket
    /\ j \in retaken => j \in retaken'

LEMMA SureBefore ==
  ASSUME SameListeners, retaken \subseteq Slots, ListenersSure'  PROVE ListenersSure
BY DEF SameListeners, ListenersSure

LEMMA StillListening ==
  ASSUME SameListeners, NEW h, Listening(sock, h)  PROVE Listening(sock', h)
BY DEF SameListeners, Listening

LEMMA ListenersKept ==
  ASSUME ListenersOK, SameListeners, kListenList' = kListenList,
         AcceptsIn(ops') = AcceptsIn(ops), open' \subseteq Fds, retaken' \subseteq Slots
  PROVE  ListenersOK'
BY StillListening DEF ListenersOK

(* Who owns which socket stays so.                                         *)
LEMMA SocketsKept ==
  ASSUME SocketsOK, AcceptsIn(ops') = AcceptsIn(ops), SingleAccepts(ops'),
         open' = open,
         \A j \in Slots :
           /\ sock'[j].usStatus \in OpenStates <=> sock[j].usStatus \in OpenStates
           /\ sock[j].usStatus \in OpenStates => sock'[j].kSocket = sock[j].kSocket
  PROVE  SocketsOK'
<1>1. Owning' = Owning
  BY DEF Owning, OpenStates
<1>2. \A j \in Owning : j \in Slots /\ sock'[j].kSocket = sock[j].kSocket
  BY DEF Owning, OpenStates
<1>3. Own' = Own
  BY <1>1, <1>2 DEF Own
<1>. QED  BY <1>3 DEF SocketsOK

OwnWithout(i) == [j \in DOMAIN Own \ {i} |-> Own[j]]

LEMMA OwnGives ==
  ASSUME NEW i \in Slots, sock[i].usStatus \in OpenStates,
         sock'[i].usStatus \notin OpenStates,
         \A j \in Slots : j # i => sock'[j] = sock[j]
  PROVE  i \in DOMAIN Own /\ Own[i] = sock[i].kSocket /\ Own' = OwnWithout(i)
<1>1. i \in Owning /\ Owning' = Owning \ {i} /\ Owning \subseteq Slots
  BY DEF Owning, OpenStates
<1>. QED  BY <1>1 DEF Own, OwnWithout

(* Slot i closes its socket.                                               *)
LEMMA SocketsClose ==
  ASSUME SocketsOK, AcceptsIn(ops') = AcceptsIn(ops), SingleAccepts(ops'),
         NEW i \in Slots,
         sock[i].usStatus \in OpenStates, sock'[i].usStatus \notin OpenStates,
         \A j \in Slots : j # i => sock'[j] = sock[j],
         open' = open \ {sock[i].kSocket}
  PROVE  SocketsOK'
<1>1. i \in DOMAIN Own /\ Own[i] = sock[i].kSocket /\ Own' = OwnWithout(i)
  BY OwnGives
<1>2. Ownership(OwnWithout(i), AcceptsIn(ops), open \ {sock[i].kSocket})
  BY <1>1, SlotCloses DEF SocketsOK, OwnWithout
<1>. QED  BY <1>1, <1>2 DEF SocketsOK

OwnWith(i, fd) == [j \in DOMAIN Own \cup {i} |-> IF j = i THEN fd ELSE Own[j]]

LEMMA OwnGets ==
  ASSUME NEW i \in Slots, sock[i].usStatus = "INIT", sock'[i].usStatus \in OpenStates,
         \A j \in Slots : j # i => sock'[j] = sock[j]
  PROVE  i \notin DOMAIN Own /\ Own' = OwnWith(i, sock'[i].kSocket)
<1>1. i \notin Owning /\ Owning' = Owning \cup {i} /\ Owning \subseteq Slots
  BY DEF Owning, OpenStates
<1>2. DOMAIN Own = Owning /\ DOMAIN Own' = Owning'
  BY DEF Own
<1>3. \A j \in Owning' : Own'[j] = IF j = i THEN sock'[i].kSocket ELSE Own[j]
  BY <1>1 DEF Own
<1>4. Own' = [j \in Owning' |-> Own'[j]]
  BY DEF Own
<1>. QED  BY <1>1, <1>2, <1>3, <1>4 DEF OwnWith

(* A slot is taken for a socket just made.                                 *)
LEMMA SocketsAdd ==
  ASSUME SocketsOK, AcceptsIn(ops') = AcceptsIn(ops), SingleAccepts(ops'),
         NEW i \in Slots,
         sock[i].usStatus = "INIT", sock'[i].usStatus \in OpenStates,
         \A j \in Slots : j # i => sock'[j] = sock[j],
         sock'[i].kSocket \in Fds \ open, open' = open \cup {sock'[i].kSocket}
  PROVE  SocketsOK'
<1>1. i \notin DOMAIN Own /\ Own' = OwnWith(i, sock'[i].kSocket)
  BY OwnGets
<1>2. Ownership(OwnWith(i, sock'[i].kSocket), AcceptsIn(ops), open \cup {sock'[i].kSocket})
  BY <1>1, SlotGets DEF SocketsOK, OwnWith
<1>. QED  BY <1>1, <1>2 DEF SocketsOK

(* Everything a handler may do that works on one slot and its operations,  *)
(* and neither takes nor frees it: s is the slot's new record, and its     *)
(* socket is closed if s is in a state without one.                        *)
SlotMove(i, s) ==
  /\ s \in SlotRecord /\ sock[i].usStatus # "INIT"
  /\ s.iTypeSocket = sock[i].iTypeSocket /\ s.kSocket = sock[i].kSocket
  /\ s.kHSocket = sock[i].kHSocket
  /\ s.usStatus \in OpenStates => sock[i].usStatus \in OpenStates
  /\ sock' = [sock EXCEPT ![i] = s] /\ OthersKept(i)
  /\ StatusFits(s, i \in Members(kSendList'), Sure(i)) /\ retaken' = retaken
  /\ i \in Members(kRecvList') => IsConnection(s)
  /\ OpsOK(ops') /\ SameBut(ops, ops', i) /\ MatchOK(s, ops', i \notin retaken)
  /\ kListenList' = kListenList
  /\ open' = IF sock[i].usStatus \in OpenStates /\ s.usStatus \notin OpenStates
               THEN open \ {sock[i].kSocket} ELSE open

LEMMA SlotMoveOK ==
  ASSUME SlotInv, NEW i \in Slots, NEW s, SlotMove(i, s)  PROVE SlotInv'
<1>1. /\ TableOK' /\ StatusOK'
      /\ \A j \in Slots : j # i => sock'[j] = sock[j]
      /\ sock'[i] = s
  BY SlotUpdate DEF SlotInv, SlotMove
<1>2. /\ SameApart(ops, ops', {i}) /\ AcceptsIn(ops') = AcceptsIn(ops)
      /\ SingleAccepts(ops) => SingleAccepts(ops')
  BY ApartFromBut DEF SlotMove
<1>3. Match'
  <2>1. /\ \A j \in Slots \ {i} : sock'[j] = sock[j] /\ (j \in retaken' <=> j \in retaken)
        /\ \A j \in Slots \cap {i} : MatchOK(sock'[j], ops', j \notin retaken')
    BY <1>1 DEF SlotMove
  <2>. QED  BY <1>2, <2>1, MatchStep DEF SlotInv
<1>4. SameListeners
  BY <1>1 DEF SameListeners, SlotMove
<1>5. ListenersOK'
  <2>1. open' \subseteq Fds /\ retaken' \subseteq Slots
    BY DEF SlotInv, ListenersOK, SlotMove
  <2>. QED  BY <1>2, <1>4, <2>1, ListenersKept DEF SlotInv, SlotMove
<1>6. ASSUME ListenersSure'  PROVE SocketsOK' /\ ListenOK(kListenList', AcceptsIn(ops'))
  <2>1. SocketsOK /\ ListenOK(kListenList, AcceptsIn(ops)) /\ SingleAccepts(ops')
    BY <1>2, <1>4, <1>6, SureBefore DEF SlotInv, ListenersOK, AcceptsOK, SocketsOK
  <2>2. CASE sock[i].usStatus \in OpenStates /\ s.usStatus \notin OpenStates
    <3>1. SocketsOK'
      BY <1>1, <1>2, <2>1, <2>2, SocketsClose DEF SlotMove
    <3>. QED  BY <1>2, <2>1, <3>1 DEF SlotMove
  <2>3. CASE ~(sock[i].usStatus \in OpenStates /\ s.usStatus \notin OpenStates)
    <3>1. \A j \in Slots :
           /\ sock'[j].usStatus \in OpenStates <=> sock[j].usStatus \in OpenStates
           /\ sock'[j].kSocket = sock[j].kSocket
      BY <1>1, <2>3 DEF SlotMove
    <3>2. SocketsOK'
      BY <1>2, <2>1, <2>3, <3>1, SocketsKept DEF SlotMove
    <3>. QED  BY <1>2, <2>1, <3>2 DEF SlotMove
  <2>. QED  BY <2>2, <2>3
<1>7. AcceptsOK'
  BY <1>6 DEF AcceptsOK
<1>. QED  BY <1>1, <1>3, <1>5, <1>7 DEF SlotInv, SlotMove

(* SeNetCoreDisconnect from a handler that found the slot open and left    *)
(* its record, by now, as s.                                               *)
LEMMA DisconnectOK ==
  ASSUME SlotInv, NEW i \in Slots, NEW s \in SlotRecord, SameIdentity(sock[i], s),
         MayDisconnect(sock[i]),
         NEW sendList, IsList(sendList), Members(sendList) \subseteq Members(kSendList),
         Members(kSendList) \ {i} \subseteq Members(sendList),
         Disconnect(i, s, sendList),
         kMainList' = kMainList, kActiveMainList' = kActiveMainList,
         IsList(kRecvList'), Members(kRecvList') \subseteq Members(kRecvList) \cup {i},
         OpsOK(ops'), SameBut(ops, ops', i), kListenList' = kListenList,
         retaken' = retaken
  PROVE  SlotInv'
<1> DEFINE t == Disconnected(s)
<1>1. /\ t \in SlotRecord /\ t.iTypeSocket = sock[i].iTypeSocket
      /\ t.kSocket = sock[i].kSocket /\ t.kHSocket = sock[i].kHSocket
      /\ t.usStatus \in {"CONNECTED_FAILED", "DISCONNECT"}
      /\ t.usStatus = "CONNECTED_FAILED" => sock[i].usStatus = "CONNECTING"
  BY DEF Disconnected, SlotRecord, SameIdentity, Statuses
<1>2. /\ sock' = [sock EXCEPT ![i] = t] /\ kSendList' = AddInList(sendList, i)
      /\ open' = open \ {sock[i].kSocket}
  BY DEF Disconnect, SameIdentity
<1> HIDE DEF t
<1>3. /\ sock[i].usStatus \in {"CONNECTING", "ACTIVECONNECT"} /\ IsConnection(sock[i])
      /\ StatusFits(sock[i], i \in Members(kSendList), Sure(i))
  BY DEF MayDisconnect, SlotInv, StatusOK
<1>4. IsList(kSendList') /\ Members(kSendList') = Members(sendList) \cup {i}
  BY <1>2, AddInListList
<1>5. OthersKept(i)
  BY <1>4, TableLists DEF OthersKept, SlotInv
<1>6. StatusFits(t, i \in Members(kSendList'), Sure(i)) /\ IsConnection(t)
  BY <1>1, <1>3, <1>4 DEF StatusFits, IsConnection
<1>7. MatchOK(t, ops', i \notin retaken)
  BY <1>1 DEF MatchOK, Backed, Exact, OpenStates
<1>8. SlotMove(i, t)
  BY <1>1, <1>2, <1>3, <1>5, <1>6, <1>7 DEF SlotMove, OpenStates
<1>. QED  BY <1>8, SlotMoveOK

(* A handler has called a function that starts an operation, and closes    *)
(* the connection if it could not.                                         *)
LEMMA SettleOK ==
  ASSUME SlotInv, NEW i \in Slots, MayDisconnect(sock[i]),
         NEW r, r.s \in SlotRecord, SameIdentity(sock[i], r.s),
         OpsOK(r.ops), SameBut(ops, r.ops, i),
         r.ok => MatchOK(r.s, r.ops, i \notin retaken),
         NEW sendList, IsList(sendList), Members(sendList) \subseteq Members(kSendList),
         Members(kSendList) \ {i} \subseteq Members(sendList),
         r.ok => StatusFits(r.s, i \in Members(sendList), Sure(i)),
         Settle(i, r, sendList),
         kMainList' = kMainList, kActiveMainList' = kActiveMainList,
         IsList(kRecvList'), Members(kRecvList') \subseteq Members(kRecvList) \cup {i},
         kListenList' = kListenList,
         retaken' = retaken
  PROVE  SlotInv'
<1>1. CASE ~r.ok /\ Disconnect(i, r.s, sendList)
  BY <1>1, DisconnectOK DEF Settle
<1>2. CASE r.ok /\ sock' = [sock EXCEPT ![i] = r.s] /\ kSendList' = sendList /\ open' = open
  <2>1. /\ sock[i].usStatus # "INIT" /\ IsConnection(r.s)
        /\ r.s.usStatus = sock[i].usStatus
        /\ r.s.iTypeSocket = sock[i].iTypeSocket /\ r.s.kSocket = sock[i].kSocket
        /\ r.s.kHSocket = sock[i].kHSocket
    BY DEF SameIdentity, MayDisconnect, IsConnection
  <2>2. StatusFits(r.s, i \in Members(kSendList'), Sure(i))
    BY <1>2
  <2>3. OthersKept(i)
    BY <1>2, TableLists DEF OthersKept, SlotInv
  <2>4. SlotMove(i, r.s)
    BY <1>2, <2>1, <2>2, <2>3 DEF SlotMove, OpenStates, Settle
  <2>. QED  BY <2>4, SlotMoveOK
<1>. QED  BY <1>1, <1>2 DEF Settle

LEMMA SlotFacts ==
  ASSUME SlotInv, NEW i \in Slots
  PROVE  /\ sock[i] \in SlotRecord /\ SameIdentity(sock[i], sock[i])
         /\ sock[i].usStatus # "INIT" =>
              /\ StatusFits(sock[i], i \in Members(kSendList), Sure(i))
              /\ MatchOK(sock[i], ops, i \notin retaken)
              /\ IndexOf(sock[i].kHSocket) = i /\ sock[i].kHSocket \in Handles
BY HandleNames DEF SlotInv, TableOK, MgrTypeOK, StatusOK, Match, SameIdentity

LEMMA OthersStay ==
  ASSUME SlotInv, NEW i \in Slots, kMainList' = kMainList, kActiveMainList' = kActiveMainList,
         IsList(kSendList'), Members(kSendList') \subseteq Members(kSendList) \cup {i},
         Members(kSendList) \ {i} \subseteq Members(kSendList'),
         IsList(kRecvList'), Members(kRecvList') \subseteq Members(kRecvList) \cup {i}
  PROVE  OthersKept(i)
BY TableLists DEF OthersKept, SlotInv

(* A connection that is open, or waits to be, bit by bit.                  *)
BitsOK(s, o, own) ==
  /\ BitBacked(s, o, "READ", "RECV") /\ BitBacked(s, o, "WRITE", "SEND")
  /\ s.usStatus = "CONNECTING" => Has(o, "CONNECT", s.kHSocket)
  /\ own => /\ BitExact(s, o, "READ", "RECV") /\ BitExact(s, o, "WRITE", "SEND")
            /\ ~Has(o, "CONNECT", s.kHSocket)

LEMMA BitsMatch ==
  ASSUME NEW s, NEW o, NEW own, IsConnection(s),
         s.usStatus \in {"CONNECTING", "ACTIVECONNECT"}, own => s.usStatus = "ACTIVECONNECT"
  PROVE  MatchOK(s, o, own) <=>
           BitsOK(s, o, own) /\ (own /\ ~HasEvent(s, "READ") => s.recv = 0)
BY DEF MatchOK, Backed, Exact, BitsOK, BitBacked, BitExact, OpenStates, IsConnection

-----------------------------------------------------------------------------
(* Calls of the program.                                                   *)

LEMMA OpensFree ==
  ASSUME SlotInv, CtlOK, CanOpen
  PROVE  /\ NewFd \in Fds \ open /\ FreeSlot \in Slots
         /\ clock \in 0 .. MaxClock /\ clock \in Nat
<1>1. open \subseteq Fds /\ open # Fds
  BY DEF CanOpen, SlotInv, ListenersOK
<1>2. NewFd \in Fds \ open
  BY <1>1 DEF NewFd
<1>3. FreeSlot \in Slots
  BY TableLists, TailList DEF CanOpen, MgrFull, FreeSlot, SlotInv
<1>4. clock \in 0 .. MaxClock /\ clock \in Nat
  BY Bounds DEF CtlOK
<1>. QED  BY <1>2, <1>3, <1>4

(* No operation carries the handle of a slot about to be taken, or the     *)
(* slot is remembered as retaken.                                          *)
Unused(o, h) == \A x \in DOMAIN o : x.kHScoket # h

LEMMA RetakeOK ==
  ASSUME NEW i \in Slots, Retake(i), retaken \subseteq Slots
  PROVE  /\ i \notin retaken' => Unused(ops, Handle(i, clock))
         /\ \A j : j # i => (j \in retaken' <=> j \in retaken)
         /\ retaken' \subseteq Slots
BY DEF Retake, Fresh, Unused, BagToSet

LEMMA TCPListenOK == ASSUME SlotInv, CtlOK, TCPListen  PROVE SlotInv'
<1> DEFINE i == FreeSlot
           s == [NewSlot(i, NewFd, "LISTEN", clock) EXCEPT !.usStatus = "ACTIVECONNECT"]
           e == [kHScoket |-> s.kHSocket, iBacklog |-> 0]
<1>1. NewFd \in Fds \ open /\ i \in Slots /\ clock \in 0 .. MaxClock /\ clock \in Nat
  BY OpensFree DEF TCPListen
<1>2. /\ MgrAdd(i, s) /\ Retake(i) /\ kListenList' = Append(kListenList, e)
      /\ open' = open \cup {NewFd} /\ kSendList' = kSendList /\ kRecvList' = kRecvList
      /\ ops' = ops
  BY DEF TCPListen
<1>3. /\ s \in SlotRecord /\ s.usStatus = "ACTIVECONNECT" /\ s.iTypeSocket = "LISTEN"
      /\ s.kSocket = NewFd /\ s.kHSocket = Handle(i, clock)
  <2>1. MgrTypeOK /\ "LISTEN" \in Types /\ "ACTIVECONNECT" \in Statuses
    BY DEF SlotInv, TableOK, Types, Statuses
  <2>. QED  BY <1>1, <2>1, PreparedSlot
<1>4. e.kHScoket = Handle(i, clock) /\ e \in ListenRecord /\ e.iBacklog = 0
  BY <1>1, <1>3 DEF ListenRecord, Handles, Handle
<1> HIDE DEF s, e
<1>5. StatusFits(s, s.usStatus = "CONNECTED", TRUE)
  BY <1>3 DEF StatusFits, MustReport, IsConnection
<1>0. /\ i \notin retaken' => Unused(ops, Handle(i, clock))
      /\ \A j : j # i => (j \in retaken' <=> j \in retaken)
      /\ retaken' \subseteq Slots
  BY <1>1, <1>2, RetakeOK DEF SlotInv, ListenersOK
<1>6. /\ TableOK' /\ StatusOK' /\ i \in Slots /\ sock[i].usStatus = "INIT"
      /\ \A j \in Slots : j # i => sock'[j] = sock[j]
      /\ sock'[i] = s
  <2>1. /\ TableOK /\ StatusOK /\ s \in SlotRecord /\ MgrAdd(i, s)
        /\ clock \in 0 .. MaxClock /\ s.kHSocket = Handle(i, clock) /\ IsList(kSendList')
        /\ Members(kSendList') = Members(kSendList) \cup
                                   (IF s.usStatus = "CONNECTED" THEN {i} ELSE {})
        /\ kRecvList' = kRecvList /\ StatusFits(s, s.usStatus = "CONNECTED", TRUE)
        /\ \A j \in Slots \ {i} : j \in retaken' <=> j \in retaken
    BY <1>0, <1>1, <1>2, <1>3, <1>5, TableLists DEF SlotInv
  <2>. HIDE DEF i
  <2>. QED  BY ONLY <2>1, SlotAdded
<1>7. Match'
  <2>1. MatchOK(s, ops', i \notin retaken')
    BY <1>0, <1>2, <1>3 DEF MatchOK, Backed, Exact, Unique, Has, Unused, IsConnection
  <2>2. SameApart(ops, ops', {i})
    BY <1>2 DEF SameApart
  <2>3. /\ \A j \in Slots \ {i} : sock'[j] = sock[j] /\ (j \in retaken' <=> j \in retaken)
        /\ \A j \in Slots \cap {i} : MatchOK(sock'[j], ops', j \notin retaken')
    BY <1>0, <1>6, <2>1
  <2>. QED  BY <2>2, <2>3, MatchStep DEF SlotInv
<1>8. SameListeners
  BY <1>0, <1>6, FreeSlotFacts DEF SameListeners, SlotInv
<1>9. kListenList \in Seq(ListenRecord) /\ retaken \subseteq Slots
  BY DEF SlotInv, ListenersOK
<1>10. /\ kListenList' \in Seq(ListenRecord) /\ Len(kListenList) \in Nat
       /\ DOMAIN kListenList = 1 .. Len(kListenList)
       /\ DOMAIN kListenList' = 1 .. Len(kListenList) + 1
       /\ \A k \in 1 .. Len(kListenList) : kListenList'[k] = kListenList[k]
       /\ kListenList'[Len(kListenList) + 1] = e
  BY <1>2, <1>4, <1>9, AppendProperties, LenProperties
<1>11. ListenersOK'
  <2>1. Listening(sock', Handle(i, clock))
    BY <1>3, <1>6 DEF Listening
  <2>2. \A k \in DOMAIN kListenList : Listening(sock', kListenList'[k].kHScoket)
    BY <1>8, <1>10, StillListening DEF SlotInv, ListenersOK
  <2>3. \A k \in DOMAIN kListenList' : Listening(sock', kListenList'[k].kHScoket)
    BY <1>4, <1>10, <2>1, <2>2
  <2>4. \A x \in AcceptsIn(ops') : Listening(sock', x.kHScoket)
    BY <1>2, <1>8, StillListening DEF SlotInv, ListenersOK
  <2>5. open' \subseteq Fds
    BY <1>1, <1>2 DEF SlotInv, ListenersOK
  <2>. QED  BY <1>0, <1>10, <2>3, <2>4, <2>5 DEF ListenersOK
<1>12. ASSUME ListenersSure'  PROVE SocketsOK' /\ ListenOK(kListenList', AcceptsIn(ops'))
  <2>1. SocketsOK /\ ListenOK(kListenList, AcceptsIn(ops))
    BY <1>8, <1>9, <1>12, SureBefore DEF SlotInv, AcceptsOK
  <2>2. Unused(ops, Handle(i, clock))
    BY <1>0, <1>3, <1>6, <1>12 DEF ListenersSure
  <2>3. SocketsOK'
    BY <1>1, <1>2, <1>3, <1>6, <2>1, SocketsAdd DEF OpenStates, SocketsOK
  <2>4. ASSUME NEW k \in DOMAIN kListenList  PROVE kListenList[k].kHScoket # Handle(i, clock)
    <3>1. PICK j \in Slots : sock[j].iTypeSocket = "LISTEN"
                             /\ sock[j].kHSocket = kListenList[k].kHScoket
      BY DEF Listening, SlotInv, ListenersOK
    <3>2. sock[j].usStatus # "INIT"
      BY <3>1, FreeSlotFacts DEF SlotInv
    <3>3. IndexOf(sock[j].kHSocket) = j /\ j # i
      BY <1>6, <3>2, HandleNames DEF SlotInv
    <3>. QED  BY <3>1, <3>3 DEF Handle, IndexOf
  <2>5. \A k, m \in DOMAIN kListenList' :
          kListenList'[k].kHScoket = kListenList'[m].kHScoket => k = m
    BY <1>4, <1>10, <2>1, <2>4 DEF ListenOK
  <2>6. OfListener(AcceptsIn(ops), Handle(i, clock)) = {}
    BY <2>2 DEF OfListener, AcceptsIn, Unused
  <2>7. ASSUME NEW k \in DOMAIN kListenList'
        PROVE  /\ kListenList'[k].iBacklog
                    = Cardinality(OfListener(AcceptsIn(ops'), kListenList'[k].kHScoket))
               /\ kListenList'[k].iBacklog \in 0 .. Backlog
    <3>1. CASE k \in DOMAIN kListenList
      <4>1. /\ kListenList[k].iBacklog
                 = Cardinality(OfListener(AcceptsIn(ops), kListenList[k].kHScoket))
            /\ kListenList[k].iBacklog \in 0 .. Backlog
        BY <2>1, <3>1 DEF ListenOK
      <4>. QED  BY <1>2, <1>10, <3>1, <4>1
    <3>2. CASE k \notin DOMAIN kListenList
      <4>1. kListenList'[k] = e
        BY <1>10, <2>7, <3>2
      <4>2. 0 \in 0 .. Backlog
        BY Bounds
      <4>. QED  BY <1>2, <1>4, <2>6, <4>1, <4>2, FS_EmptySet
    <3>. QED  BY <3>1, <3>2
  <2>8. ListenOK(kListenList', AcceptsIn(ops'))
    BY <2>5, <2>7 DEF ListenOK
  <2>. QED  BY <2>3, <2>8
<1>13. OpsOK(ops') /\ AcceptsOK'
  BY <1>2, <1>12 DEF SlotInv, AcceptsOK
<1>. QED  BY <1>6, <1>7, <1>11, <1>13 DEF SlotInv

LEMMA TCPClientOK == ASSUME SlotInv, CtlOK, TCPClient  PROVE SlotInv'
<1> DEFINE i == FreeSlot
           s == [NewSlot(i, NewFd, "CLIENT", clock) EXCEPT !.usStatus = "CONNECTING"]
           x == Operation("CONNECT", s.kHSocket, NoFd, 0)
<1>1. NewFd \in Fds \ open /\ i \in Slots /\ clock \in 0 .. MaxClock /\ clock \in Nat
  BY OpensFree DEF TCPClient
<1>2. /\ MgrAdd(i, s) /\ Retake(i) /\ ops' = Start(ops, x) /\ kListenList' = kListenList
      /\ open' = open \cup {NewFd} /\ kSendList' = kSendList /\ kRecvList' = kRecvList
  BY DEF TCPClient
<1>3. /\ s \in SlotRecord /\ s.usStatus = "CONNECTING" /\ s.iTypeSocket = "CLIENT"
      /\ s.kSocket = NewFd /\ s.kHSocket = Handle(i, clock)
      /\ s.recv = sock[i].recv /\ s.send = sock[i].send
  <2>1. MgrTypeOK /\ "CLIENT" \in Types /\ "CONNECTING" \in Statuses
    BY DEF SlotInv, TableOK, Types, Statuses
  <2>. QED  BY <1>1, <2>1, PreparedSlot
<1>20. ~HasEvent(s, "READ") /\ ~HasEvent(s, "WRITE")
  <2>1. sock[i] \in SlotRecord
    BY <1>1 DEF SlotInv, TableOK, MgrTypeOK
  <2>. QED  BY <2>1 DEF HasEvent, NewSlot, Reset, SlotRecord
<1>4. x \in OperationRecord /\ x.iOPType = "CONNECT" /\ x.kHScoket = Handle(i, clock)
  BY <1>1, <1>3, Bounds DEF Operation, OperationRecord, OpTypes, Handles, Handle
<1> HIDE DEF s, x
<1>5. sock[i].recv = 0 /\ sock[i].send = 0
  <2>1. i \in Members(kMainList)
    BY <1>2, TableLists, TailList DEF MgrAdd, MgrFull, FreeSlot, SlotInv
  <2>. QED  BY <1>1, <2>1, FreeSlotFacts DEF SlotInv
<1>6. StatusFits(s, s.usStatus = "CONNECTED", TRUE)
  BY <1>3, <1>5 DEF StatusFits, MustReport, IsConnection
<1>0. /\ i \notin retaken' => Unused(ops, Handle(i, clock))
      /\ \A j : j # i => (j \in retaken' <=> j \in retaken)
      /\ retaken' \subseteq Slots
  BY <1>1, <1>2, RetakeOK DEF SlotInv, ListenersOK
<1>7. /\ TableOK' /\ StatusOK' /\ i \in Slots /\ sock[i].usStatus = "INIT"
      /\ \A j \in Slots : j # i => sock'[j] = sock[j]
      /\ sock'[i] = s
  <2>1. /\ TableOK /\ StatusOK /\ s \in SlotRecord /\ MgrAdd(i, s)
        /\ clock \in 0 .. MaxClock /\ s.kHSocket = Handle(i, clock) /\ IsList(kSendList')
        /\ Members(kSendList') = Members(kSendList) \cup
                                   (IF s.usStatus = "CONNECTED" THEN {i} ELSE {})
        /\ kRecvList' = kRecvList /\ StatusFits(s, s.usStatus = "CONNECTED", TRUE)
        /\ \A j \in Slots \ {i} : j \in retaken' <=> j \in retaken
    BY <1>0, <1>1, <1>2, <1>3, <1>6, TableLists DEF SlotInv
  <2>. HIDE DEF i
  <2>. QED  BY ONLY <2>1, SlotAdded
<1>8. IndexOf(x.kHScoket) = i
  BY <1>4 DEF IndexOf, Handle
<1>9. Started(ops, ops', "CONNECT", Handle(i, clock))
  BY <1>2, <1>4, StartedOK DEF SlotInv
<1>10. /\ SameApart(ops, ops', {i}) /\ AcceptsIn(ops') = AcceptsIn(ops)
       /\ SingleAccepts(ops) => SingleAccepts(ops')
  BY <1>4, <1>8, <1>9, ApartFromBut DEF Started
<1>11. Match'
  <2>1. Backed(s, ops')
    BY <1>3, <1>9, <1>20 DEF Backed, Started
  <2>2. ASSUME i \notin retaken'  PROVE Exact(s, ops')
    <3>1. /\ Unique(ops, Handle(i, clock))
          /\ \A t \in IOTypes : ~Has(ops, t, Handle(i, clock))
      BY <1>0, <2>2 DEF Unique, Has, Unused
    <3>2. /\ Unique(ops', Handle(i, clock)) /\ ~Has(ops', "SEND", Handle(i, clock))
          /\ ~Has(ops', "RECV", Handle(i, clock))
      BY <1>9, <3>1 DEF Started, IOTypes
    <3>. QED  BY <1>3, <1>5, <3>2 DEF Exact
  <2>3. MatchOK(s, ops', i \notin retaken')
    BY <2>1, <2>2 DEF MatchOK
  <2>4. /\ \A j \in Slots \ {i} : sock'[j] = sock[j] /\ (j \in retaken' <=> j \in retaken)
        /\ \A j \in Slots \cap {i} : MatchOK(sock'[j], ops', j \notin retaken')
    BY <1>0, <1>7, <2>3
  <2>. QED  BY <1>10, <2>4, MatchStep DEF SlotInv
<1>12. SameListeners
  BY <1>0, <1>7, FreeSlotFacts DEF SameListeners, SlotInv
<1>13. ListenersOK'
  <2>1. open' \subseteq Fds
    BY <1>1, <1>2 DEF SlotInv, ListenersOK
  <2>. QED  BY <1>0, <1>2, <1>10, <1>12, <2>1, ListenersKept DEF SlotInv
<1>14. ASSUME ListenersSure'  PROVE SocketsOK' /\ ListenOK(kListenList', AcceptsIn(ops'))
  <2>1. SocketsOK /\ ListenOK(kListenList, AcceptsIn(ops))
    BY <1>12, <1>14, SureBefore DEF SlotInv, AcceptsOK, ListenersOK
  <2>2. SocketsOK'
    BY <1>1, <1>2, <1>3, <1>7, <1>10, <2>1, SocketsAdd DEF OpenStates, SocketsOK
  <2>. QED  BY <1>2, <1>10, <2>1, <2>2
<1>15. OpsOK(ops') /\ AcceptsOK'
  BY <1>9, <1>14 DEF Started, AcceptsOK
<1>. QED  BY <1>7, <1>11, <1>13, <1>15 DEF SlotInv

(* Nothing of a slot in use changes, nor of operations and sockets.        *)
LEMMA UsedKept ==
  ASSUME SlotInv, TableOK', UNCHANGED ioVars, retaken' = retaken,
         kSendList' = kSendList, kRecvList' = kRecvList,
         \A j \in Slots : /\ sock[j].usStatus # "INIT" => sock'[j] = sock[j]
                          /\ sock'[j].usStatus = "INIT" <=> sock[j].usStatus = "INIT"
  PROVE  SlotInv'
<1>1. ops' = ops /\ open' = open /\ kListenList' = kListenList
  BY DEF ioVars
<1>2. StatusOK'
  <2>1. \A j \in Slots : j \in Members(kRecvList) => sock[j].usStatus # "INIT"
    BY FreeSlotFacts DEF SlotInv
  <2>2. Members(kRecvList) \subseteq Slots
    BY TableLists, ListMembers DEF SlotInv
  <2>3. \A j \in Slots : Sure(j)' = Sure(j)
    BY DEF Sure
  <2>. QED  BY <2>1, <2>2, <2>3 DEF SlotInv, StatusOK
<1>3. Match'
  BY <1>1 DEF SlotInv, Match
<1>4. SameListeners
  BY FreeSlotFacts DEF SameListeners, SlotInv
<1>5. ListenersOK'
  BY <1>1, <1>4, ListenersKept DEF SlotInv, ListenersOK
<1>6. ASSUME ListenersSure'  PROVE SocketsOK' /\ ListenOK(kListenList', AcceptsIn(ops'))
  <2>1. SocketsOK /\ ListenOK(kListenList, AcceptsIn(ops)) /\ SingleAccepts(ops')
    BY <1>1, <1>4, <1>6, SureBefore DEF SlotInv, AcceptsOK, ListenersOK, SocketsOK
  <2>2. SocketsOK'
    BY <1>1, <2>1, SocketsKept DEF OpenStates
  <2>. QED  BY <1>1, <2>1, <2>2
<1>7. AcceptsOK'
  BY <1>6 DEF AcceptsOK
<1>. QED  BY <1>1, <1>2, <1>3, <1>5, <1>7 DEF SlotInv

LEMMA UnchangedOK ==
  ASSUME SlotInv, UNCHANGED mgrVars, UNCHANGED ioVars, retaken' = retaken  PROVE SlotInv'
<1>1. /\ sock' = sock /\ kMainList' = kMainList /\ kActiveMainList' = kActiveMainList
      /\ kSendList' = kSendList /\ kRecvList' = kRecvList
  BY DEF mgrVars, listVars
<1>2. TableOK'
  BY <1>1 DEF SlotInv, TableOK, MgrTypeOK, SlotPartition, ListsSimple, FreeSlotsDrained
<1>. QED  BY <1>1, <1>2, UsedKept

LEMMA TCPClientFailsOK == ASSUME SlotInv, TCPClientFails  PROVE SlotInv'
<1>1. MgrAddThenDel /\ UNCHANGED ioVars /\ kSendList' = kSendList /\ kRecvList' = kRecvList
      /\ retaken' = retaken
  BY DEF TCPClientFails, MgrAddThenDel
<1>2. /\ TableOK'
      /\ \A j \in Slots : /\ sock'[j].usStatus = sock[j].usStatus
                          /\ j \notin Members(kMainList) => sock'[j] = sock[j]
  BY <1>1, MgrAddThenDelOK DEF SlotInv
<1>3. \A j \in Slots : sock[j].usStatus # "INIT" => sock'[j] = sock[j]
  BY <1>2, FreeSlotFacts DEF SlotInv
<1>. QED  BY <1>1, <1>2, <1>3, UsedKept

LEMMA SendOK == ASSUME SlotInv, NEW i \in Slots, Send(i)  PROVE SlotInv'
<1>1. PICK n \in 0 .. MaxOut - sock[i].send : sock' = [sock EXCEPT ![i].send = @ + n]
  BY DEF Send
<1> DEFINE s == [sock[i] EXCEPT !.send = sock[i].send + n]
<1>2. /\ sock[i] \in SlotRecord /\ IsConnection(sock[i]) /\ sock[i].usStatus = "ACTIVECONNECT"
      /\ StatusFits(sock[i], i \in Members(kSendList), Sure(i))
      /\ MatchOK(sock[i], ops, i \notin retaken)
  BY SlotFacts DEF Send
<1>3. sock[i].send + n \in Nat
  BY <1>2, Bounds DEF SlotRecord
<1>4. /\ s \in SlotRecord /\ SameIdentity(sock[i], s) /\ s.recv = sock[i].recv
      /\ s.iEventSocket = sock[i].iEventSocket
      /\ sock' = [sock EXCEPT ![i] = s]
  BY <1>1, <1>2, <1>3 DEF SlotRecord, SameIdentity, SlotInv, TableOK, MgrTypeOK
<1> HIDE DEF s
<1>5. /\ IsList(kSendList') /\ Members(kSendList') \subseteq Members(kSendList) \cup {i}
      /\ Members(kSendList) \ {i} \subseteq Members(kSendList')
      /\ i \in Members(kSendList') \/ HasEvent(s, "WRITE")
  BY <1>4, TableLists, AddInListList DEF Send, SlotInv, HasEvent
<1>6. OthersKept(i)
  BY <1>5, TableLists, OthersStay DEF Send, SlotInv
<1>7. StatusFits(s, i \in Members(kSendList'), Sure(i))
  BY <1>2, <1>4, <1>5 DEF StatusFits, SameIdentity, IsConnection, MustReport
<1>8. MatchOK(s, ops, i \notin retaken)
  BY <1>2, <1>4 DEF MatchOK, Backed, Exact, SameIdentity, IsConnection, HasEvent
<1>9. /\ ops' = ops /\ open' = open /\ kListenList' = kListenList /\ retaken' = retaken
  BY DEF Send, ioVars
<1>10. SlotMove(i, s)
  BY <1>2, <1>4, <1>6, <1>7, <1>8, <1>9, SameButItself
     DEF SlotMove, SameIdentity, OpenStates, SlotInv, IsConnection
<1>. QED  BY <1>10, SlotMoveOK

LEMMA AppDisconnectOK == ASSUME SlotInv, NEW i \in Slots, AppDisconnect(i)  PROVE SlotInv'
<1>1. /\ MayDisconnect(sock[i]) /\ Disconnect(i, sock[i], kSendList)
      /\ kMainList' = kMainList /\ kActiveMainList' = kActiveMainList
      /\ kRecvList' = kRecvList /\ ops' = ops /\ kListenList' = kListenList
      /\ retaken' = retaken
  BY DEF AppDisconnect
<1>2. IsList(kSendList) /\ IsList(kRecvList) /\ OpsOK(ops)
  BY TableLists DEF SlotInv
<1>. QED  BY <1>1, <1>2, SlotFacts, SameButItself, DisconnectOK

-----------------------------------------------------------------------------
(* SeNetCoreProcess.                                                       *)

LEMMA PoppedFacts ==
  ASSUME SlotInv, NEW i \in Slots, NEW status, Popping(i, status)
  PROVE  /\ IsList(Tail(kSendList)) /\ Members(Tail(kSendList)) = Members(kSendList) \ {i}
         /\ i \in Members(kSendList) /\ sock[i].usStatus = status /\ status # "INIT"
         /\ StatusFits(sock[i], TRUE, Sure(i)) /\ IsConnection(sock[i]) /\ sock[i].usStatus # "CONNECTING"
         /\ MatchOK(sock[i], ops, i \notin retaken) /\ sock[i] \in SlotRecord
         /\ IndexOf(sock[i].kHSocket) = i /\ sock[i].kHSocket \in Handles
<1>1. /\ IsList(Tail(kSendList)) /\ Members(Tail(kSendList)) = Members(kSendList) \ {i}
      /\ i \in Members(kSendList) /\ sock[i].usStatus = status
  BY TableLists, TailList DEF Popping, SlotInv
<1>2. sock[i].usStatus # "INIT"
  BY <1>1, FreeSlotFacts DEF SlotInv
<1>3. StatusFits(sock[i], TRUE, Sure(i))
  BY <1>1, <1>2, SlotFacts DEF StatusFits
<1>. QED  BY <1>1, <1>2, <1>3, SlotFacts DEF StatusFits

LEMMA ProcessConnectedOK ==
  ASSUME SlotInv, CtlOK, NEW i \in Slots, ProcessConnected(i)  PROVE SlotInv'
<1> DEFINE a == ClearEvent(sock[i], "READ")
           b == ClearEvent(a, "WRITE")
           s == [b EXCEPT !.usStatus = "ACTIVECONNECT", !.llTime = clock]
<1>1. PICK r \in RecvBuf(s, ops) : sock' = [sock EXCEPT ![i] = r.s] /\ ops' = r.ops
  BY DEF ProcessConnected
<1>2. /\ IsList(Tail(kSendList)) /\ Members(Tail(kSendList)) = Members(kSendList) \ {i}
      /\ sock[i].usStatus = "CONNECTED" /\ sock[i] \in SlotRecord /\ IsConnection(sock[i])
      /\ StatusFits(sock[i], TRUE, Sure(i)) /\ MatchOK(sock[i], ops, i \notin retaken)
      /\ IndexOf(sock[i].kHSocket) = i
  BY PoppedFacts DEF ProcessConnected
<1>3. /\ a \in SlotRecord /\ SameIdentity(sock[i], a) /\ ~HasEvent(a, "READ")
      /\ a.recv = sock[i].recv /\ a.send = sock[i].send
  BY <1>2, EventBitsOK DEF EventBits
<1>4. /\ b \in SlotRecord /\ SameIdentity(a, b) /\ ~HasEvent(b, "READ") /\ ~HasEvent(b, "WRITE")
      /\ b.recv = a.recv /\ b.send = a.send
  BY <1>3, EventBitsOK DEF EventBits
<1> HIDE DEF a, b
<1>5. /\ s \in SlotRecord /\ s.usStatus = "ACTIVECONNECT" /\ s.iTypeSocket = sock[i].iTypeSocket
      /\ s.kSocket = sock[i].kSocket /\ s.kHSocket = sock[i].kHSocket
      /\ ~HasEvent(s, "READ") /\ ~HasEvent(s, "WRITE")
      /\ s.recv = sock[i].recv /\ s.send = sock[i].send
  <2>1. clock \in Nat /\ "ACTIVECONNECT" \in Statuses
    BY Bounds DEF CtlOK, Statuses
  <2>2. /\ s \in SlotRecord /\ s.usStatus = "ACTIVECONNECT" /\ s.iTypeSocket = b.iTypeSocket
        /\ s.kSocket = b.kSocket /\ s.kHSocket = b.kHSocket /\ s.recv = b.recv /\ s.send = b.send
        /\ s.iEventSocket = b.iEventSocket
    BY <1>4, <2>1 DEF SlotRecord
  <2>. HIDE DEF s
  <2>. QED  BY <1>3, <1>4, <2>2 DEF SameIdentity, HasEvent
<1> HIDE DEF s
<1>6. IsConnection(s) /\ IsConnection(sock[i])
  BY <1>2, <1>5 DEF IsConnection
<1>7. MatchOK(s, ops, i \notin retaken)
  <2>1. ASSUME i \notin retaken
        PROVE  /\ Unique(ops, s.kHSocket) /\ ~Has(ops, "CONNECT", s.kHSocket) /\ s.recv = 0
               /\ ~Has(ops, "SEND", s.kHSocket) /\ ~Has(ops, "RECV", s.kHSocket)
    BY <1>2, <1>5, <2>1 DEF MatchOK, Exact, OpenStates
  <2>. QED  BY <1>5, <1>6, <2>1 DEF MatchOK, Backed, Exact
<1>8. /\ Called(s, ops, r) /\ r.s.send = s.send
      /\ HasEvent(r.s, "WRITE") <=> HasEvent(s, "WRITE")
      /\ Has(r.ops, "SEND", s.kHSocket) <=> Has(ops, "SEND", s.kHSocket)
      /\ ~r.ok => r.s = s
      /\ BitBacked(s, ops, "READ", "RECV") => BitBacked(r.s, r.ops, "READ", "RECV")
      /\ BitExact(s, ops, "READ", "RECV") => BitExact(r.s, r.ops, "READ", "RECV")
  BY <1>5, RecvBufOK DEF SlotInv
<1>9. /\ kSendList' = Tail(kSendList) /\ kMainList' = kMainList /\ open' = open
      /\ kActiveMainList' = kActiveMainList /\ kRecvList' = kRecvList
      /\ kListenList' = kListenList /\ retaken' = retaken
  BY DEF ProcessConnected
<1>10. OthersKept(i)
  BY <1>2, <1>9, TableLists, OthersStay DEF SlotInv
<1>13. /\ r.s \in SlotRecord /\ SameIdentity(s, r.s) /\ OpsOK(r.ops) /\ SameBut(ops, r.ops, i)
       /\ IsConnection(r.s) /\ r.s.usStatus = "ACTIVECONNECT" /\ r.s.kHSocket = s.kHSocket
  BY <1>2, <1>5, <1>6, <1>8 DEF Called, SameIdentity, IsConnection
<1>11. StatusFits(r.s, i \in Members(kSendList'), Sure(i))
  <2>1. Sure(i) => r.s.send = 0
    BY <1>2, <1>5, <1>8 DEF StatusFits
  <2>. QED  BY <1>2, <1>9, <1>13, <2>1 DEF StatusFits, MustReport, IsConnection
<1>14. MatchOK(r.s, r.ops, i \notin retaken)
  <2>1. /\ BitBacked(s, ops, "READ", "RECV") /\ BitBacked(s, ops, "WRITE", "SEND")
        /\ i \notin retaken => /\ BitExact(s, ops, "READ", "RECV")
                               /\ BitExact(s, ops, "WRITE", "SEND")
                               /\ ~Has(ops, "CONNECT", s.kHSocket) /\ s.recv = 0
    BY <1>5, <1>6, <1>7, BitsMatch DEF BitsOK
  <2>2. BitBacked(r.s, r.ops, "READ", "RECV") /\ BitBacked(r.s, r.ops, "WRITE", "SEND")
    BY <1>5, <1>8, <2>1 DEF BitBacked
  <2>3. i \notin retaken => /\ BitExact(r.s, r.ops, "READ", "RECV")
                            /\ BitExact(r.s, r.ops, "WRITE", "SEND")
                            /\ ~Has(r.ops, "CONNECT", r.s.kHSocket) /\ r.s.recv = 0
    BY <1>8, <1>13, <2>1 DEF BitExact, Called
  <2>. QED  BY <1>13, <2>2, <2>3, BitsMatch DEF BitsOK
<1>12. SlotMove(i, r.s)
  BY <1>1, <1>2, <1>5, <1>9, <1>10, <1>11, <1>13, <1>14 DEF SlotMove, SameIdentity, OpenStates
<1>. QED  BY <1>12, SlotMoveOK

(* A slot that owns no socket is freed.                                    *)
LEMMA FreedOK ==
  ASSUME SlotInv, NEW i \in Slots, MgrDel(i), retaken' = retaken,
         sock[i].usStatus \notin OpenStates, sock[i].usStatus # "INIT", UNCHANGED ioVars
  PROVE  SlotInv'
<1>1. /\ TableOK' /\ StatusOK'
      /\ \A j \in Slots : j # i => sock'[j] = sock[j]
      /\ sock'[i].usStatus = "INIT"
  BY SlotFreed DEF SlotInv
<1>2. ops' = ops /\ open' = open /\ kListenList' = kListenList
  BY DEF ioVars
<1>3. Match'
  <2>1. /\ \A j \in Slots \ {i} : sock'[j] = sock[j] /\ (j \in retaken' <=> j \in retaken)
        /\ SameApart(ops, ops', {i})
        /\ \A j \in Slots \cap {i} :
             sock'[j].usStatus # "INIT" => MatchOK(sock'[j], ops', j \notin retaken')
    BY <1>1, <1>2 DEF SameApart
  <2>. QED  BY <2>1, MatchStep DEF SlotInv
<1>4. SameListeners
  <2>1. sock[i].iTypeSocket # "LISTEN"
    BY SlotFacts DEF StatusFits, OpenStates
  <2>. QED  BY <1>1, <2>1 DEF SameListeners
<1>5. ListenersOK'
  BY <1>2, <1>4, ListenersKept DEF SlotInv, ListenersOK
<1>6. ASSUME ListenersSure'  PROVE SocketsOK' /\ ListenOK(kListenList', AcceptsIn(ops'))
  <2>1. SocketsOK /\ ListenOK(kListenList, AcceptsIn(ops)) /\ SingleAccepts(ops')
    BY <1>2, <1>4, <1>6, SureBefore DEF SlotInv, AcceptsOK, ListenersOK, SocketsOK
  <2>2. SocketsOK'
    BY <1>1, <1>2, <2>1, SocketsKept DEF OpenStates
  <2>. QED  BY <1>2, <2>1, <2>2
<1>7. AcceptsOK'
  BY <1>6 DEF AcceptsOK
<1>. QED  BY <1>1, <1>2, <1>3, <1>5, <1>7 DEF SlotInv

LEMMA ProcessConnectFailedOK ==
  ASSUME SlotInv, NEW i \in Slots, ProcessConnectFailed(i)  PROVE SlotInv'
BY FreedOK DEF ProcessConnectFailed, Popping, OpenStates

LEMMA ProcessCommIdleOK ==
  ASSUME SlotInv, NEW i \in Slots, ProcessCommIdle(i)  PROVE SlotInv'
BY FreedOK DEF ProcessCommIdle, Popping, OpenStates

LEMMA ProcessDisconnectOK ==
  ASSUME SlotInv, NEW i \in Slots, ProcessDisconnect(i)  PROVE SlotInv'
<1> DEFINE s == [sock[i] EXCEPT !.usStatus = "COMM_IDLE"]
<1>1. /\ IsList(Tail(kSendList)) /\ Members(Tail(kSendList)) = Members(kSendList) \ {i}
      /\ sock[i].usStatus = "DISCONNECT" /\ sock[i] \in SlotRecord /\ IsConnection(sock[i])
      /\ StatusFits(sock[i], TRUE, Sure(i)) /\ MatchOK(sock[i], ops, i \notin retaken)
  BY PoppedFacts DEF ProcessDisconnect
<1>2. /\ s \in SlotRecord /\ s.usStatus = "COMM_IDLE" /\ s.iTypeSocket = sock[i].iTypeSocket
      /\ s.kSocket = sock[i].kSocket /\ s.kHSocket = sock[i].kHSocket
  BY <1>1 DEF SlotRecord, Statuses
<1>3. /\ sock' = [sock EXCEPT ![i] = s] /\ kSendList' = AddInList(Tail(kSendList), i)
      /\ kMainList' = kMainList /\ kActiveMainList' = kActiveMainList /\ kRecvList' = kRecvList
      /\ ops' = ops /\ open' = open /\ kListenList' = kListenList /\ retaken' = retaken
  BY DEF ProcessDisconnect, ioVars, SlotInv, TableOK, MgrTypeOK
<1> HIDE DEF s
<1>4. IsList(kSendList') /\ Members(kSendList') = (Members(kSendList) \ {i}) \cup {i}
  BY <1>1, <1>3, AddInListList
<1>5. OthersKept(i)
  BY <1>3, <1>4, TableLists, OthersStay DEF SlotInv
<1>6. /\ StatusFits(s, i \in Members(kSendList'), Sure(i)) /\ IsConnection(s)
      /\ MatchOK(s, ops, i \notin retaken)
  BY <1>1, <1>2, <1>4 DEF StatusFits, MatchOK, Backed, Exact, OpenStates, IsConnection
<1>7. SlotMove(i, s)
  BY <1>1, <1>2, <1>3, <1>5, <1>6, SameButItself DEF SlotMove, OpenStates, SlotInv
<1>. QED  BY <1>7, SlotMoveOK

(* What SendBuf or RecvBuf leaves of a connection whose bits were right is *)
(* right again: `bit` is the one it is about, and `other` the other.       *)
LEMMA CalledBits ==
  ASSUME NEW s, NEW o, NEW r, NEW own, Called(s, o, r), BitsOK(s, o, own),
         NEW bit, NEW type, NEW other, NEW otherType,
         \/ bit = "READ" /\ type = "RECV" /\ other = "WRITE" /\ otherType = "SEND"
         \/ bit = "WRITE" /\ type = "SEND" /\ other = "READ" /\ otherType = "RECV",
         BitBacked(s, o, bit, type) => BitBacked(r.s, r.ops, bit, type),
         BitExact(s, o, bit, type) => BitExact(r.s, r.ops, bit, type),
         HasEvent(r.s, other) <=> HasEvent(s, other),
         Has(r.ops, otherType, s.kHSocket) <=> Has(o, otherType, s.kHSocket)
  PROVE  BitsOK(r.s, r.ops, own)
<1>1. /\ r.s.kHSocket = s.kHSocket /\ r.s.usStatus = s.usStatus
      /\ Has(r.ops, "CONNECT", s.kHSocket) <=> Has(o, "CONNECT", s.kHSocket)
  BY DEF Called, SameIdentity
<1>2. BitBacked(r.s, r.ops, bit, type) /\ BitBacked(r.s, r.ops, other, otherType)
  BY <1>1 DEF BitsOK, BitBacked
<1>3. own => BitExact(r.s, r.ops, bit, type) /\ BitExact(r.s, r.ops, other, otherType)
  BY <1>1 DEF BitsOK, BitExact
<1>. QED  BY <1>1, <1>2, <1>3 DEF BitsOK

LEMMA ProcessSendOK ==
  ASSUME SlotInv, NEW i \in Slots, ProcessSend(i)  PROVE SlotInv'
<1> DEFINE s == sock[i]
           own == i \notin retaken
<1>1. PICK r \in SendBuf(s, ops) : Settle(i, r, Tail(kSendList))
  BY DEF ProcessSend
<1>2. /\ IsList(Tail(kSendList)) /\ Members(Tail(kSendList)) = Members(kSendList) \ {i}
      /\ s.usStatus = "ACTIVECONNECT" /\ s \in SlotRecord /\ IsConnection(s)
      /\ MatchOK(s, ops, own) /\ IndexOf(s.kHSocket) = i
  BY PoppedFacts DEF ProcessSend
<1>3. OpsOK(ops) /\ MayDisconnect(s)
  BY <1>2 DEF MayDisconnect, SlotInv
<1> HIDE DEF s, own
<1>4. /\ Called(s, ops, r)
      /\ HasEvent(r.s, "READ") <=> HasEvent(s, "READ")
      /\ Has(r.ops, "RECV", s.kHSocket) <=> Has(ops, "RECV", s.kHSocket)
      /\ r.ok /\ r.s.send > 0 => HasEvent(r.s, "WRITE")
      /\ BitBacked(s, ops, "WRITE", "SEND") => BitBacked(r.s, r.ops, "WRITE", "SEND")
      /\ BitExact(s, ops, "WRITE", "SEND") => BitExact(r.s, r.ops, "WRITE", "SEND")
  BY <1>2, <1>3, SendBufOK
<1>5. BitsOK(s, ops, own) /\ (own /\ ~HasEvent(s, "READ") => s.recv = 0)
  BY <1>2, BitsMatch
<1>10. BitsOK(r.s, r.ops, own)
  BY <1>4, <1>5, CalledBits
<1>6. /\ r.s \in SlotRecord /\ SameIdentity(s, r.s) /\ OpsOK(r.ops) /\ SameBut(ops, r.ops, i)
      /\ IsConnection(r.s) /\ r.s.usStatus = "ACTIVECONNECT"
  BY <1>2, <1>4 DEF Called, SameIdentity, IsConnection
<1>11. MatchOK(r.s, r.ops, own)
  BY <1>4, <1>5, <1>6, <1>10, BitsMatch DEF Called
<1>7. r.ok => StatusFits(r.s, i \in Members(Tail(kSendList)), Sure(i))
  BY <1>2, <1>4, <1>6 DEF StatusFits, MustReport, IsConnection
<1>8. /\ kMainList' = kMainList /\ kActiveMainList' = kActiveMainList
      /\ kRecvList' = kRecvList /\ kListenList' = kListenList /\ retaken' = retaken
  BY DEF ProcessSend
<1>9. /\ IsList(kRecvList') /\ Members(kRecvList') \subseteq Members(kRecvList) \cup {i}
      /\ Members(Tail(kSendList)) \subseteq Members(kSendList)
      /\ Members(kSendList) \ {i} \subseteq Members(Tail(kSendList))
  BY <1>2, <1>8, TableLists DEF SlotInv
<1>. QED  BY <1>1, <1>2, <1>3, <1>6, <1>7, <1>8, <1>9, <1>11, SettleOK DEF s, own

LEMMA ProcessRecvOK ==
  ASSUME SlotInv, NEW i \in Slots, ProcessRecv(i)  PROVE SlotInv'
<1> DEFINE s == [sock[i] EXCEPT !.recv = sock[i].recv - FrameLen]
<1>1. /\ IsList(Tail(kRecvList)) /\ Members(Tail(kRecvList)) = Members(kRecvList) \ {i}
      /\ i \in Members(kRecvList) /\ IsConnection(sock[i])
      /\ sock[i].usStatus = "ACTIVECONNECT" /\ sock[i] \in SlotRecord
      /\ StatusFits(sock[i], i \in Members(kSendList), Sure(i))
      /\ MatchOK(sock[i], ops, i \notin retaken)
  BY TableLists, TailList, SlotFacts DEF ProcessRecv, Reading, SlotInv, StatusOK
<1>2. sock[i].recv - FrameLen \in Nat /\ sock[i].recv # 0
  BY <1>1, Bounds DEF ProcessRecv, CanRead, SlotRecord
<1>3. /\ s \in SlotRecord /\ SameIdentity(sock[i], s) /\ s.send = sock[i].send
      /\ s.iEventSocket = sock[i].iEventSocket
  BY <1>1, <1>2 DEF SlotRecord, SameIdentity
<1>4. /\ sock' = [sock EXCEPT ![i] = s]
      /\ kRecvList' \in {AddInList(Tail(kRecvList), i), Tail(kRecvList)}
      /\ kMainList' = kMainList /\ kActiveMainList' = kActiveMainList /\ kSendList' = kSendList
      /\ ops' = ops /\ open' = open /\ kListenList' = kListenList /\ retaken' = retaken
  BY DEF ProcessRecv, ioVars, SlotInv, TableOK, MgrTypeOK
<1> HIDE DEF s
<1>5. IsList(kRecvList') /\ Members(kRecvList') \subseteq Members(kRecvList) \cup {i}
  <2>1. /\ IsList(AddInList(Tail(kRecvList), i))
        /\ Members(AddInList(Tail(kRecvList), i)) = Members(Tail(kRecvList)) \cup {i}
    BY <1>1, AddInListList
  <2>. QED  BY <1>1, <1>4, <2>1
<1>6. OthersKept(i)
  BY <1>4, <1>5, TableLists, OthersStay DEF SlotInv
<1>7. StatusFits(s, i \in Members(kSendList'), Sure(i))
  BY <1>1, <1>3, <1>4 DEF StatusFits, SameIdentity, IsConnection, HasEvent
<1>8. MatchOK(s, ops, i \notin retaken)
  <2>1. IsConnection(s) /\ s.kHSocket = sock[i].kHSocket /\ s.usStatus = "ACTIVECONNECT"
    BY <1>1, <1>3 DEF SameIdentity, IsConnection
  <2>2. /\ BitBacked(sock[i], ops, "READ", "RECV") /\ BitBacked(sock[i], ops, "WRITE", "SEND")
        /\ i \notin retaken => /\ BitExact(sock[i], ops, "READ", "RECV")
                               /\ BitExact(sock[i], ops, "WRITE", "SEND")
                               /\ ~Has(ops, "CONNECT", sock[i].kHSocket)
                               /\ HasEvent(sock[i], "READ")
    BY <1>1, <1>2, BitsMatch DEF BitsOK
  <2>3. HasEvent(s, "READ") <=> HasEvent(sock[i], "READ")
    BY <1>3 DEF HasEvent
  <2>4. HasEvent(s, "WRITE") <=> HasEvent(sock[i], "WRITE")
    BY <1>3 DEF HasEvent
  <2>. QED  BY <2>1, <2>2, <2>3, <2>4, BitsMatch DEF BitsOK, BitBacked, BitExact
<1>9. SlotMove(i, s)
  BY <1>1, <1>3, <1>4, <1>6, <1>7, <1>8, SameButItself
     DEF SlotMove, SameIdentity, OpenStates, SlotInv, IsConnection
<1>. QED  BY <1>9, SlotMoveOK

LEMMA ProcessRecvSkipsOK ==
  ASSUME SlotInv, NEW i \in Slots, ProcessRecvSkips(i)  PROVE SlotInv'
<1>1. /\ IsList(Tail(kRecvList)) /\ Members(Tail(kRecvList)) = Members(kRecvList) \ {i}
      /\ i \in Members(kRecvList) /\ IsConnection(sock[i])
  BY TableLists, TailList DEF ProcessRecvSkips, Reading, SlotInv, StatusOK
<1>2. sock[i].usStatus # "INIT"
  BY <1>1, FreeSlotFacts DEF SlotInv
<1>3. /\ sock[i] \in SlotRecord /\ StatusFits(sock[i], i \in Members(kSendList), Sure(i))
      /\ MatchOK(sock[i], ops, i \notin retaken)
  BY <1>2, SlotFacts
<1>4. /\ sock' = [sock EXCEPT ![i] = sock[i]]
      /\ kRecvList' = Tail(kRecvList)
      /\ kMainList' = kMainList /\ kActiveMainList' = kActiveMainList /\ kSendList' = kSendList
      /\ ops' = ops /\ open' = open /\ kListenList' = kListenList /\ retaken' = retaken
  BY DEF ProcessRecvSkips, ioVars, SlotInv, TableOK, MgrTypeOK
<1>5. OthersKept(i)
  BY <1>1, <1>4, TableLists, OthersStay DEF SlotInv
<1>6. SlotMove(i, sock[i])
  BY <1>1, <1>2, <1>3, <1>4, <1>5, SameButItself DEF SlotMove, SlotInv
<1>. QED  BY <1>6, SlotMoveOK

-----------------------------------------------------------------------------
(* Completions.                                                            *)

(* Operation o has ended, and its handle names slot i.                     *)
LEMMA CompletedFacts ==
  ASSUME SlotInv, NEW o, NEW i \in Slots, NEW types, NEW statuses,
         Completed(o, i, types, statuses)
  PROVE  /\ o \in DOMAIN ops /\ o \in OperationRecord /\ o.kHScoket = sock[i].kHSocket
         /\ IndexOf(o.kHScoket) = i /\ sock[i].usStatus # "INIT"
         /\ sock[i].usStatus \in statuses /\ sock[i].iTypeSocket \in types
         /\ OpsOK(ops) /\ StatusFits(sock[i], i \in Members(kSendList), Sure(i))
         /\ MatchOK(sock[i], ops, i \notin retaken)
         /\ sock[i] \in SlotRecord /\ sock[i].kHSocket \in Handles
<1>1. o \in DOMAIN ops
  BY DEF Completed, Ended, BagIn, BagToSet
<1>2. OpsOK(ops) /\ o \in OperationRecord
  BY <1>1 DEF SlotInv, OpsOK
<1>3. /\ o.kHScoket = sock[i].kHSocket /\ i \notin Members(kMainList)
      /\ sock[i].usStatus \in statuses /\ sock[i].iTypeSocket \in types
  BY DEF Completed, Found
<1>4. sock[i].usStatus # "INIT"
  BY <1>3, FreeSlotFacts DEF SlotInv
<1>. QED  BY <1>1, <1>2, <1>3, <1>4, SlotFacts

(* Only a listener's operations are accepts ...                            *)
LEMMA AcceptOfListener ==
  ASSUME SlotInv, NEW o \in DOMAIN ops, NEW i \in Slots, o.iOPType = "ACCEPT",
         o.kHScoket = sock[i].kHSocket, sock[i].usStatus # "INIT"
  PROVE  sock[i].iTypeSocket = "LISTEN"
<1>1. PICK j \in Slots : sock[j].iTypeSocket = "LISTEN" /\ sock[j].kHSocket = o.kHScoket
  BY DEF SlotInv, ListenersOK, Listening, AcceptsIn
<1>2. sock[j].usStatus # "INIT"
  BY <1>1, FreeSlotFacts DEF SlotInv
<1>3. j = i
  BY <1>1, <1>2, HandleNames DEF SlotInv
<1>. QED  BY <1>1, <1>3

(* ... and all of a listener's are, unless its slot was retaken.           *)
LEMMA ListenerAccepts ==
  ASSUME SlotInv, NEW o \in DOMAIN ops, NEW i \in Slots, sock[i].iTypeSocket = "LISTEN",
         o.kHScoket = sock[i].kHSocket, sock[i].usStatus # "INIT", i \notin retaken
  PROVE  o.iOPType = "ACCEPT"
<1>1. /\ ~Has(ops, "SEND", sock[i].kHSocket) /\ ~Has(ops, "RECV", sock[i].kHSocket)
      /\ ~Has(ops, "CONNECT", sock[i].kHSocket)
  <2>1. Exact(sock[i], ops) /\ sock[i].usStatus = "ACTIVECONNECT"
    BY SlotFacts DEF MatchOK, StatusFits
  <2>. QED  BY <2>1 DEF Exact, OpenStates
<1>2. o.iOPType \in {"SEND", "RECV", "CONNECT", "ACCEPT"}
  BY DEF SlotInv, OpsOK, OperationRecord, OpTypes
<1>. QED  BY <1>1, <1>2 DEF Has

(* A completion found by a connection that is open, or waits to be: the    *)
(* operation is no longer outstanding.                                     *)
IOFacts(o, i) ==
  /\ o \in DOMAIN ops /\ o \in OperationRecord /\ o.kHScoket = sock[i].kHSocket
  /\ IndexOf(sock[i].kHSocket) = i /\ o.iOPType \in IOTypes
  /\ EndedOne(ops, Finish(ops, o), o)
  /\ OpsOK(Finish(ops, o)) /\ SameBut(ops, Finish(ops, o), i)
  /\ MayDisconnect(sock[i]) /\ IsConnection(sock[i])
  /\ sock[i].usStatus \in {"CONNECTING", "ACTIVECONNECT"}
  /\ StatusFits(sock[i], i \in Members(kSendList), Sure(i))
  /\ MatchOK(sock[i], ops, i \notin retaken)
  /\ sock[i] \in SlotRecord /\ sock[i].kHSocket \in Handles
  /\ SameIdentity(sock[i], sock[i])
  /\ IsList(kSendList) /\ IsList(kRecvList)
  /\ i \notin retaken /\ o.iOPType \in {"SEND", "RECV"} => sock[i].usStatus = "ACTIVECONNECT"
  /\ i \notin retaken /\ o.iOPType = "CONNECT" => sock[i].usStatus = "CONNECTING"

LEMMA IOCompleted ==
  ASSUME SlotInv, NEW o, NEW i \in Slots, NEW types, NEW statuses,
         Completed(o, i, types, statuses),
         types \subseteq {"CLIENT", "ACCEPT"}, statuses \subseteq {"CONNECTING", "ACTIVECONNECT"}
  PROVE  IOFacts(o, i)
<1>1. /\ o \in DOMAIN ops /\ o \in OperationRecord /\ o.kHScoket = sock[i].kHSocket
      /\ IndexOf(o.kHScoket) = i /\ sock[i].usStatus # "INIT"
      /\ sock[i].usStatus \in {"CONNECTING", "ACTIVECONNECT"}
      /\ sock[i].iTypeSocket \in {"CLIENT", "ACCEPT"}
      /\ OpsOK(ops) /\ StatusFits(sock[i], i \in Members(kSendList), Sure(i))
      /\ MatchOK(sock[i], ops, i \notin retaken)
      /\ sock[i] \in SlotRecord /\ sock[i].kHSocket \in Handles
  BY CompletedFacts
<1>2. o.iOPType # "ACCEPT" /\ o.iOPType \in IOTypes
  <2>1. o.iOPType # "ACCEPT"
    BY <1>1, AcceptOfListener
  <2>. QED  BY <1>1, <2>1 DEF OperationRecord, OpTypes, IOTypes
<1>3. IsConnection(sock[i]) /\ MayDisconnect(sock[i])
  BY <1>1 DEF IsConnection, MayDisconnect
<1>4. EndedOne(ops, Finish(ops, o), o)
  BY <1>1, <1>2, EndedOK
<1>5. OpsOK(Finish(ops, o)) /\ SameBut(ops, Finish(ops, o), i)
  BY <1>1, <1>4 DEF EndedOne
<1>6. IsList(kSendList) /\ IsList(kRecvList) /\ SameIdentity(sock[i], sock[i])
  BY TableLists DEF SlotInv, SameIdentity
<1>7. Has(ops, o.iOPType, sock[i].kHSocket)
  BY <1>1 DEF Has
<1>8. /\ i \notin retaken /\ o.iOPType \in {"SEND", "RECV"} => sock[i].usStatus = "ACTIVECONNECT"
      /\ i \notin retaken /\ o.iOPType = "CONNECT" => sock[i].usStatus = "CONNECTING"
  BY <1>1, <1>7 DEF MatchOK, Exact, OpenStates
<1>. QED  BY <1>1, <1>2, <1>3, <1>4, <1>5, <1>6, <1>8 DEF IOFacts

LEMMA IsIOFacts == ASSUME SlotInv, NEW o, NEW i \in Slots, IsIO(o, i)  PROVE IOFacts(o, i)
<1>1. CASE Completed(o, i, {"CLIENT"}, {"CONNECTING", "ACTIVECONNECT"})
  BY <1>1, IOCompleted
<1>2. CASE Completed(o, i, {"ACCEPT"}, {"ACTIVECONNECT"})
  BY <1>2, IOCompleted
<1>. QED  BY <1>1, <1>2 DEF IsIO

LEMMA ConnectedOK == ASSUME SlotInv, CtlOK, NEW o, NEW i \in Slots, Connected(o, i)  PROVE SlotInv'
<1> DEFINE p == Finish(ops, o)
<1>1. IOFacts(o, i) /\ o.iOPType = "CONNECT" /\ sock[i].iTypeSocket = "CLIENT"
  <2>1. Completed(o, i, {"CLIENT"}, {"CONNECTING", "ACTIVECONNECT"}) /\ o.iOPType = "CONNECT"
    BY DEF Connected
  <2>. QED  BY <2>1, IOCompleted DEF Completed
<1>2. /\ kMainList' = kMainList /\ kActiveMainList' = kActiveMainList /\ ops' = p
      /\ kRecvList' = kRecvList /\ kListenList' = kListenList /\ retaken' = retaken
      /\ Asserts => sock[i].usStatus = "CONNECTING"
  BY DEF Connected
<1> HIDE DEF p
<1>3. OpsOK(p) /\ SameBut(ops, p, i)
  BY <1>1 DEF IOFacts, p
<1>4. CASE Disconnect(i, sock[i], kSendList)
  <2>1. /\ MayDisconnect(sock[i]) /\ SameIdentity(sock[i], sock[i]) /\ sock[i] \in SlotRecord
        /\ IsList(kSendList) /\ IsList(kRecvList')
    BY <1>1, <1>2 DEF IOFacts
  <2>. QED  BY <1>2, <1>3, <1>4, <2>1, DisconnectOK
<1>5. CASE /\ sock' = [sock EXCEPT ![i].usStatus = "CONNECTED", ![i].llTime = clock]
           /\ kSendList' = AddInList(kSendList, i) /\ open' = open
  <2> DEFINE s == [sock[i] EXCEPT !.usStatus = "CONNECTED", !.llTime = clock]
  <2>1. clock \in Nat /\ "CONNECTED" \in Statuses /\ sock[i] \in SlotRecord
    BY <1>1, Bounds DEF CtlOK, Statuses, IOFacts
  <2>2. /\ s \in SlotRecord /\ s.usStatus = "CONNECTED" /\ s.iTypeSocket = sock[i].iTypeSocket
        /\ s.kSocket = sock[i].kSocket /\ s.kHSocket = sock[i].kHSocket
        /\ s.recv = sock[i].recv /\ s.send = sock[i].send
    BY <2>1 DEF SlotRecord
  <2>3. sock' = [sock EXCEPT ![i] = s]
    BY <1>5 DEF SlotInv, TableOK, MgrTypeOK
  <2> HIDE DEF s
  <2>4. IsList(kSendList') /\ Members(kSendList') = Members(kSendList) \cup {i}
    BY <1>5, TableLists, AddInListList DEF SlotInv
  <2>5. OthersKept(i)
    BY <1>2, <2>4, TableLists, OthersStay DEF SlotInv
  <2>6. Sure(i) => sock[i].usStatus = "CONNECTING"
    BY <1>1, <1>2 DEF Sure, IOFacts
  <2>7. StatusFits(s, i \in Members(kSendList'), Sure(i)) /\ IsConnection(s)
    BY <1>1, <2>2, <2>4, <2>6 DEF StatusFits, IOFacts, IsConnection
  <2>8. MatchOK(s, p, i \notin retaken)
    <3>1. ASSUME i \notin retaken
          PROVE  /\ Unique(p, s.kHSocket) /\ s.recv = 0 /\ ~Has(p, "CONNECT", s.kHSocket)
                 /\ ~Has(p, "SEND", s.kHSocket) /\ ~Has(p, "RECV", s.kHSocket)
      <4>1. sock[i].usStatus = "CONNECTING" /\ Exact(sock[i], ops)
        BY <1>1, <3>1 DEF IOFacts, MatchOK
      <4>2. EndedOne(ops, p, o) /\ o.kHScoket = s.kHSocket /\ s.kHSocket \in Handles
        BY <1>1, <2>2 DEF IOFacts, p
      <4>3. /\ Unique(ops, s.kHSocket) /\ s.recv = 0
            /\ ~Has(ops, "SEND", s.kHSocket) /\ ~Has(ops, "RECV", s.kHSocket)
        BY <2>2, <4>1 DEF Exact, OpenStates
      <4>4. Unique(p, s.kHSocket) /\ ~Has(p, "CONNECT", s.kHSocket)
        BY <1>1, <4>2, <4>3 DEF EndedOne
      <4>5. /\ Has(p, "SEND", s.kHSocket) <=> Has(ops, "SEND", s.kHSocket)
            /\ Has(p, "RECV", s.kHSocket) <=> Has(ops, "RECV", s.kHSocket)
        BY <1>1, <4>2 DEF EndedOne, IOTypes
      <4>. QED  BY <4>3, <4>4, <4>5
    <3>2. s.iTypeSocket # "LISTEN"
      BY <1>1, <2>2
    <3>. QED  BY <2>2, <3>1, <3>2 DEF MatchOK, Backed, Exact
  <2>9. SlotMove(i, s)
    BY <1>1, <1>2, <1>3, <1>5, <2>2, <2>3, <2>5, <2>7, <2>8 DEF SlotMove, OpenStates, IOFacts
  <2>. QED  BY <2>9, SlotMoveOK
<1>. QED  BY <1>4, <1>5 DEF Connected

(* A send or a receive has ended: with its bit cleared the connection      *)
(* matches what is left.                                                   *)
LEMMA ClearedBits ==
  ASSUME NEW o, NEW i, IOFacts(o, i), NEW bit, NEW s,
         \/ bit = "READ" /\ o.iOPType = "RECV"
         \/ bit = "WRITE" /\ o.iOPType = "SEND",
         s.kHSocket = sock[i].kHSocket, s.usStatus = sock[i].usStatus,
         ~HasEvent(s, bit),
         \A e \in {"READ", "WRITE"} \ {bit} : HasEvent(s, e) <=> HasEvent(sock[i], e)
  PROVE  /\ BitsOK(s, Finish(ops, o), i \notin retaken)
         /\ i \notin retaken => sock[i].usStatus = "ACTIVECONNECT"
<1> DEFINE h == sock[i].kHSocket
           own == i \notin retaken
           p == Finish(ops, o)
<1>0. own => sock[i].usStatus = "ACTIVECONNECT"
  BY DEF IOFacts
<1>1. BitsOK(sock[i], ops, own)
  BY <1>0, BitsMatch DEF IOFacts
<1>2. /\ \A t \in IOTypes \ {o.iOPType} : Has(p, t, h) <=> Has(ops, t, h)
      /\ Unique(ops, h) => Unique(p, h) /\ ~Has(p, o.iOPType, h)
  BY DEF IOFacts, EndedOne
<1> HIDE DEF p
<1>3. BitBacked(s, p, "READ", "RECV") /\ BitBacked(s, p, "WRITE", "SEND")
  BY <1>1, <1>2 DEF BitsOK, BitBacked, IOTypes
<1>4. own => BitExact(s, p, "READ", "RECV") /\ BitExact(s, p, "WRITE", "SEND")
  BY <1>1, <1>2 DEF BitsOK, BitExact, IOTypes
<1>5. Has(p, "CONNECT", h) <=> Has(ops, "CONNECT", h)
  BY <1>2 DEF IOTypes
<1>. QED  BY <1>0, <1>1, <1>3, <1>4, <1>5 DEF BitsOK, p

LEMMA SentOK == ASSUME SlotInv, NEW o, NEW i \in Slots, Sent(o, i)  PROVE SlotInv'
<1> DEFINE s == ClearEvent(sock[i], "WRITE")
           p == Finish(ops, o)
           own == i \notin retaken
<1>1. PICK r \in SendBuf(s, p) : Settle(i, r, kSendList)
  BY DEF Sent
<1>2. IOFacts(o, i) /\ o.iOPType = "SEND"
  BY IsIOFacts DEF Sent, IsOp
<1>3. /\ s \in SlotRecord /\ SameIdentity(sock[i], s) /\ ~HasEvent(s, "WRITE")
      /\ HasEvent(s, "READ") <=> HasEvent(sock[i], "READ")
      /\ s.recv = sock[i].recv /\ s.send = sock[i].send
  BY <1>2, EventBitsOK DEF EventBits, IOFacts
<1> HIDE DEF s
<1>4. BitsOK(s, p, own) /\ (own => sock[i].usStatus = "ACTIVECONNECT")
  <2>1. s.kHSocket = sock[i].kHSocket /\ s.usStatus = sock[i].usStatus
    BY <1>3 DEF SameIdentity
  <2>. QED  BY <1>2, <1>3, <2>1, ClearedBits
<1>5. OpsOK(p) /\ SameBut(ops, p, i)
  BY <1>2 DEF IOFacts
<1> HIDE DEF p
<1>6. /\ Called(s, p, r)
      /\ HasEvent(r.s, "READ") <=> HasEvent(s, "READ")
      /\ Has(r.ops, "RECV", s.kHSocket) <=> Has(p, "RECV", s.kHSocket)
      /\ r.ok /\ r.s.send > 0 => HasEvent(r.s, "WRITE")
      /\ s.send = 0 => r.s.send = 0
      /\ BitBacked(s, p, "WRITE", "SEND") => BitBacked(r.s, r.ops, "WRITE", "SEND")
      /\ BitExact(s, p, "WRITE", "SEND") => BitExact(r.s, r.ops, "WRITE", "SEND")
  BY <1>3, <1>5, SendBufOK
<1>7. BitsOK(r.s, r.ops, own)
  BY <1>4, <1>6, CalledBits
<1>8. /\ r.s \in SlotRecord /\ SameIdentity(sock[i], r.s) /\ OpsOK(r.ops)
      /\ SameBut(p, r.ops, i) /\ r.s.recv = sock[i].recv /\ IsConnection(r.s)
      /\ r.s.usStatus = sock[i].usStatus
  BY <1>2, <1>3, <1>6 DEF Called, SameIdentity, IOFacts, IsConnection
<1>9. SameBut(ops, r.ops, i)
  BY <1>5, <1>8, ButTrans
<1>10. MatchOK(r.s, r.ops, own)
  <2>1. own /\ ~HasEvent(sock[i], "READ") => sock[i].recv = 0
    BY <1>2, <1>4, BitsMatch DEF IOFacts
  <2>. QED  BY <1>2, <1>3, <1>4, <1>6, <1>7, <1>8, <2>1, BitsMatch DEF IOFacts
<1>11. r.ok => StatusFits(r.s, i \in Members(kSendList), Sure(i))
  BY <1>2, <1>3, <1>6, <1>8 DEF StatusFits, MustReport, IsConnection, SameIdentity, IOFacts
<1>12. /\ kMainList' = kMainList /\ kActiveMainList' = kActiveMainList
       /\ kRecvList' = kRecvList /\ kListenList' = kListenList /\ retaken' = retaken
  BY DEF Sent
<1>13. MayDisconnect(sock[i]) /\ IsList(kSendList) /\ IsList(kRecvList)
  BY <1>2 DEF IOFacts
<1>. QED  BY <1>1, <1>8, <1>9, <1>10, <1>11, <1>12, <1>13, SettleOK

LEMMA SentPartlyOK == ASSUME SlotInv, NEW o, NEW i \in Slots, SentPartly(o, i)  PROVE SlotInv'
<1> DEFINE p == Finish(ops, o)
           own == i \notin retaken
           h == sock[i].kHSocket
           x(n) == [o EXCEPT !.len = o.len - n]
<1>1. PICK n \in 1 .. o.len - 1 :
        \/ Settle(i, Result(TRUE, sock[i], Resend(o, n)), kSendList)
        \/ Settle(i, Result(FALSE, sock[i], p), kSendList)
  BY DEF SentPartly
<1>2. IOFacts(o, i) /\ o.iOPType = "SEND"
  BY IsIOFacts DEF SentPartly, IsOp
<1>3. /\ o \in OperationRecord /\ o.kHScoket = h /\ OpsOK(p) /\ SameBut(ops, p, i)
      /\ EndedOne(ops, p, o) /\ h \in Handles /\ IndexOf(h) = i
  BY <1>2 DEF IOFacts
<1>4. o.len - n \in 0 .. DataLen
  BY <1>3, Bounds DEF OperationRecord
<1>5. /\ x(n) \in OperationRecord /\ x(n).iOPType = "SEND" /\ x(n).kHScoket = h
      /\ Resend(o, n) = Start(p, x(n))
  BY <1>2, <1>3, <1>4 DEF OperationRecord, Resend
<1> HIDE DEF p, x
<1>6. PICK q : q = Start(p, x(n))
  OBVIOUS
<1>7. Started(p, q, "SEND", h)
  BY <1>3, <1>5, <1>6, StartedOK
<1>8. OpsOK(q) /\ SameBut(ops, q, i)
  BY <1>3, <1>7, ButTrans DEF Started
<1>9. own => sock[i].usStatus = "ACTIVECONNECT"
  BY <1>2 DEF IOFacts
<1>10. MatchOK(sock[i], q, own)
  <2>1. BitsOK(sock[i], ops, own) /\ (own /\ ~HasEvent(sock[i], "READ") => sock[i].recv = 0)
    BY <1>2, <1>9, BitsMatch DEF IOFacts
  <2>2. /\ Has(q, "SEND", h) /\ Has(ops, "SEND", h)
        /\ Has(q, "RECV", h) <=> Has(ops, "RECV", h)
        /\ Has(q, "CONNECT", h) <=> Has(ops, "CONNECT", h)
    <3>1. Has(ops, "SEND", h)
      BY <1>2 DEF Has, IOFacts
    <3>. QED  BY <1>2, <1>3, <1>7, <3>1 DEF EndedOne, Started, IOTypes
  <2>3. Unique(ops, h) => Unique(q, h)
    BY <1>2, <1>3, <1>7 DEF EndedOne, Started
  <2>4. BitsOK(sock[i], q, own)
    BY <2>1, <2>2, <2>3 DEF BitsOK, BitBacked, BitExact
  <2>. QED  BY <1>2, <1>9, <2>1, <2>4, BitsMatch DEF IOFacts
<1>11. /\ kMainList' = kMainList /\ kActiveMainList' = kActiveMainList
       /\ kRecvList' = kRecvList /\ kListenList' = kListenList /\ retaken' = retaken
  BY DEF SentPartly
<1>12. /\ sock[i] \in SlotRecord /\ SameIdentity(sock[i], sock[i]) /\ MayDisconnect(sock[i])
       /\ IsList(kSendList) /\ IsList(kRecvList)
       /\ StatusFits(sock[i], i \in Members(kSendList), Sure(i))
  BY <1>2 DEF IOFacts
<1>13. CASE Settle(i, Result(TRUE, sock[i], q), kSendList)
  <2>1. PICK r : r = Result(TRUE, sock[i], q)
    OBVIOUS
  <2>2. r.s = sock[i] /\ r.ops = q /\ Settle(i, r, kSendList)
    BY <1>13, <2>1 DEF Result
  <2>. QED  BY <1>8, <1>10, <1>11, <1>12, <2>2, SettleOK
<1>14. CASE Settle(i, Result(FALSE, sock[i], p), kSendList)
  <2>1. PICK r : r = Result(FALSE, sock[i], p)
    OBVIOUS
  <2>2. r.s = sock[i] /\ r.ops = p /\ Settle(i, r, kSendList) /\ ~r.ok
    BY <1>14, <2>1 DEF Result
  <2>. QED  BY <1>3, <1>11, <1>12, <2>2, SettleOK
<1>. QED  BY <1>1, <1>5, <1>6, <1>13, <1>14

LEMMA NoBytesOK == ASSUME SlotInv, NEW o, NEW i \in Slots, NoBytes(o, i)  PROVE SlotInv'
<1>1. IOFacts(o, i)
  BY IsIOFacts DEF NoBytes
<1>2. /\ MayDisconnect(sock[i]) /\ OpsOK(Finish(ops, o)) /\ SameBut(ops, Finish(ops, o), i)
      /\ IsList(kSendList) /\ IsList(kRecvList) /\ sock[i] \in SlotRecord
      /\ SameIdentity(sock[i], sock[i])
  BY <1>1 DEF IOFacts
<1>3. /\ Disconnect(i, sock[i], kSendList) /\ ops' = Finish(ops, o)
      /\ kMainList' = kMainList /\ kActiveMainList' = kActiveMainList
      /\ kRecvList' = kRecvList /\ kListenList' = kListenList /\ retaken' = retaken
  BY DEF NoBytes
<1>. QED  BY <1>2, <1>3, DisconnectOK

LEMMA ReceivedOK == ASSUME SlotInv, CtlOK, NEW o, NEW i \in Slots, Received(o, i)  PROVE SlotInv'
<1> DEFINE c == ClearEvent(sock[i], "READ")
           p == Finish(ops, o)
           own == i \notin retaken
           s(n) == [c EXCEPT !.recv = c.recv + n, !.llTime = clock]
<1>1. PICK n \in 1 .. (MaxIn - sock[i].recv) : \E r \in RecvBuf(s(n), p) :
        /\ Settle(i, r, kSendList)
        /\ kRecvList' = IF r.ok /\ CanRead(s(n)) THEN AddInList(kRecvList, i) ELSE kRecvList
  BY DEF Received
<1> DEFINE t == s(n)
<1>2. PICK r \in RecvBuf(t, p) :
        /\ Settle(i, r, kSendList)
        /\ kRecvList' \in {AddInList(kRecvList, i), kRecvList}
  BY <1>1
<1>3. IOFacts(o, i) /\ o.iOPType = "RECV"
  BY IsIOFacts DEF Received, IsOp
<1>4. /\ c \in SlotRecord /\ SameIdentity(sock[i], c) /\ ~HasEvent(c, "READ")
      /\ HasEvent(c, "WRITE") <=> HasEvent(sock[i], "WRITE")
      /\ c.recv = sock[i].recv /\ c.send = sock[i].send
  BY <1>3, EventBitsOK DEF EventBits, IOFacts
<1> HIDE DEF c
<1>5. clock \in Nat /\ c.recv + n \in Nat
  BY <1>4, Bounds DEF CtlOK, SlotRecord
<1>6. /\ t \in SlotRecord /\ SameIdentity(c, t) /\ t.send = c.send
      /\ t.iEventSocket = c.iEventSocket
  BY <1>4, <1>5 DEF SlotRecord, SameIdentity
<1> HIDE DEF t
<1>7. /\ SameIdentity(sock[i], t) /\ ~HasEvent(t, "READ") /\ t.usStatus = sock[i].usStatus
      /\ HasEvent(t, "WRITE") <=> HasEvent(sock[i], "WRITE")
      /\ t.send = sock[i].send /\ t.kHSocket = sock[i].kHSocket
  BY <1>4, <1>6 DEF SameIdentity, HasEvent
<1>8. BitsOK(t, p, own) /\ (own => sock[i].usStatus = "ACTIVECONNECT")
  BY <1>3, <1>7, ClearedBits
<1>9. OpsOK(p) /\ SameBut(ops, p, i)
  BY <1>3 DEF IOFacts
<1> HIDE DEF p
<1>10. /\ Called(t, p, r) /\ r.s.send = t.send
       /\ HasEvent(r.s, "WRITE") <=> HasEvent(t, "WRITE")
       /\ Has(r.ops, "SEND", t.kHSocket) <=> Has(p, "SEND", t.kHSocket)
       /\ r.ok => HasEvent(r.s, "READ")
       /\ BitBacked(t, p, "READ", "RECV") => BitBacked(r.s, r.ops, "READ", "RECV")
       /\ BitExact(t, p, "READ", "RECV") => BitExact(r.s, r.ops, "READ", "RECV")
  BY <1>2, <1>6, <1>9, RecvBufOK
<1>11. BitsOK(r.s, r.ops, own)
  BY <1>8, <1>10, CalledBits
<1>12. /\ r.s \in SlotRecord /\ SameIdentity(sock[i], r.s) /\ OpsOK(r.ops)
       /\ SameBut(p, r.ops, i) /\ IsConnection(r.s) /\ r.s.usStatus = sock[i].usStatus
       /\ r.s.send = sock[i].send
  BY <1>3, <1>7, <1>10 DEF Called, SameIdentity, IOFacts, IsConnection
<1>13. SameBut(ops, r.ops, i)
  BY <1>9, <1>12, ButTrans
<1>14. r.ok => MatchOK(r.s, r.ops, own)
  BY <1>3, <1>8, <1>10, <1>11, <1>12, BitsMatch DEF IOFacts
<1>15. r.ok => StatusFits(r.s, i \in Members(kSendList), Sure(i))
  BY <1>3, <1>7, <1>10, <1>12 DEF StatusFits, MustReport, IsConnection, SameIdentity, IOFacts
<1>16. /\ MayDisconnect(sock[i]) /\ IsList(kSendList) /\ IsList(kRecvList)
  BY <1>3 DEF IOFacts
<1>17. IsList(kRecvList') /\ Members(kRecvList') \subseteq Members(kRecvList) \cup {i}
  <2>1. /\ IsList(AddInList(kRecvList, i))
        /\ Members(AddInList(kRecvList, i)) = Members(kRecvList) \cup {i}
    BY <1>16, AddInListList
  <2>. QED  BY <1>2, <1>16, <2>1
<1>18. /\ kMainList' = kMainList /\ kActiveMainList' = kActiveMainList
       /\ kListenList' = kListenList /\ retaken' = retaken
  BY DEF Received
<1>. QED  BY <1>2, <1>12, <1>13, <1>14, <1>15, <1>16, <1>17, <1>18, SettleOK


LEMMA DroppedOK == ASSUME SlotInv, NEW o, Dropped(o)  PROVE SlotInv'
<1> DEFINE i == IndexOf(o.kHScoket)
<1>1. /\ o \in DOMAIN ops /\ ops' = Finish(ops, o) /\ sock' = sock
      /\ kMainList' = kMainList /\ kActiveMainList' = kActiveMainList
      /\ kSendList' = kSendList /\ kRecvList' = kRecvList
      /\ open' = open /\ kListenList' = kListenList /\ retaken' = retaken
  BY DEF Dropped, Ended, BagIn, BagToSet, mgrVars, listVars
<1>2. o \in OperationRecord /\ o.kHScoket \in Handles /\ i \in Slots /\ OpsOK(ops)
  <2>1. o \in OperationRecord /\ OpsOK(ops)
    BY <1>1 DEF SlotInv, OpsOK
  <2>2. o.kHScoket \in Handles
    BY <2>1 DEF OperationRecord
  <2>. QED  BY <2>1, <2>2, HandleIndex
<1>3. ASSUME sock[i].usStatus # "INIT", sock[i].kHSocket = o.kHScoket
      PROVE  sock[i].usStatus \in MustReport
  <2>1. Found(o.kHScoket)
    BY <1>2, <1>3, FreeSlotFacts DEF Found, SlotInv
  <2>. QED  BY <2>1 DEF Dropped, MustReport
<1>4. o.iOPType # "ACCEPT"
  <2>1. SUFFICES ASSUME o.iOPType = "ACCEPT"  PROVE FALSE
    OBVIOUS
  <2>2. PICK j \in Slots : sock[j].iTypeSocket = "LISTEN" /\ sock[j].kHSocket = o.kHScoket
    BY <1>1, <2>1 DEF SlotInv, ListenersOK, Listening, AcceptsIn
  <2>3. sock[j].usStatus # "INIT" /\ sock[j].usStatus = "ACTIVECONNECT"
    BY <2>2, FreeSlotFacts, SlotFacts DEF SlotInv, StatusFits
  <2>4. j = i
    BY <2>2, <2>3, HandleNames DEF SlotInv
  <2>. QED  BY <1>3, <2>2, <2>3, <2>4 DEF MustReport
<1>5. EndedOne(ops, ops', o) /\ DOMAIN ops' \subseteq DOMAIN ops
      /\ \A y \in DOMAIN ops \ {o} : y \in DOMAIN ops' /\ ops'[y] = ops[y]
  BY <1>1, <1>2, <1>4, EndedOK, FinishOK
<1>6. /\ OpsOK(ops') /\ SameApart(ops, ops', {i}) /\ AcceptsIn(ops') = AcceptsIn(ops)
      /\ SingleAccepts(ops) => SingleAccepts(ops')
  BY <1>5, ApartFromBut DEF EndedOne
<1>7. ASSUME sock[i].usStatus # "INIT"  PROVE MatchOK(sock[i], ops', i \notin retaken)
  <2>1. MatchOK(sock[i], ops, i \notin retaken) /\ StatusFits(sock[i], i \in Members(kSendList), Sure(i))
    BY <1>2, <1>7, SlotFacts
  <2>2. CASE sock[i].kHSocket # o.kHScoket
    <3>1. \A x : x.kHScoket = sock[i].kHSocket /\ x.iOPType # "ACCEPT" =>
            /\ x \in DOMAIN ops <=> x \in DOMAIN ops'
            /\ x \in DOMAIN ops => ops'[x] = ops[x]
      BY <1>5, <2>2
    <3>. QED  BY <2>1, <3>1, MatchSame
  <2>3. CASE sock[i].kHSocket = o.kHScoket
    <3>1. sock[i].usStatus \in MustReport
      BY <1>3, <1>7, <2>3
    <3>2. \A type : Has(ops', type, sock[i].kHSocket) => Has(ops, type, sock[i].kHSocket)
      BY <1>5 DEF Has
    <3>3. Unique(ops, sock[i].kHSocket) => Unique(ops', sock[i].kHSocket)
      BY <1>5, <2>3 DEF EndedOne
    <3>4. sock[i].iTypeSocket # "LISTEN"
      BY <2>1, <3>1 DEF StatusFits, MustReport
    <3>. QED  BY <2>1, <3>1, <3>2, <3>3, <3>4 DEF MatchOK, Backed, Exact, MustReport, OpenStates
  <2>. QED  BY <2>2, <2>3
<1>8. Match'
  <2>1. /\ \A j \in Slots \ {i} : sock'[j] = sock[j] /\ (j \in retaken' <=> j \in retaken)
        /\ \A j \in Slots \cap {i} :
             sock'[j].usStatus # "INIT" => MatchOK(sock'[j], ops', j \notin retaken')
    BY <1>1, <1>7
  <2>. QED  BY <1>6, <2>1, MatchStep DEF SlotInv
<1>9. TableOK' /\ StatusOK'
  BY <1>1 DEF SlotInv, TableOK, MgrTypeOK, SlotPartition, ListsSimple, FreeSlotsDrained, StatusOK, Sure
<1>10. SameListeners
  BY <1>1 DEF SameListeners
<1>11. ListenersOK'
  <2>1. open' \subseteq Fds /\ retaken' \subseteq Slots
    BY <1>1 DEF SlotInv, ListenersOK
  <2>. QED  BY <1>1, <1>6, <1>10, <2>1, ListenersKept DEF SlotInv
<1>12. ASSUME ListenersSure'  PROVE SocketsOK' /\ ListenOK(kListenList', AcceptsIn(ops'))
  <2>1. SocketsOK /\ ListenOK(kListenList, AcceptsIn(ops)) /\ SingleAccepts(ops')
    BY <1>6, <1>10, <1>12, SureBefore DEF SlotInv, ListenersOK, AcceptsOK, SocketsOK
  <2>2. SocketsOK'
    BY <1>1, <1>6, <2>1, SocketsKept
  <2>. QED  BY <1>1, <1>6, <2>1, <2>2
<1>13. AcceptsOK'
  BY <1>12 DEF AcceptsOK
<1>. QED  BY <1>6, <1>8, <1>9, <1>11, <1>13 DEF SlotInv

-----------------------------------------------------------------------------
(* Accepts come and go.                                                    *)

LEMMA ListenersStep ==
  ASSUME ListenersOK, SameListeners, kListenList' \in Seq(ListenRecord),
         SameHandles(kListenList, kListenList'), open' \subseteq Fds, retaken' \subseteq Slots,
         \A x \in AcceptsIn(ops') :
           \/ x \in AcceptsIn(ops)
           \/ \E n \in DOMAIN kListenList : x.kHScoket = kListenList[n].kHScoket
  PROVE  ListenersOK'
<1>1. \A h : Listening(sock, h) => Listening(sock', h)
  BY StillListening
<1>2. \A k \in DOMAIN kListenList : Listening(sock', kListenList[k].kHScoket)
  BY <1>1 DEF ListenersOK
<1>3. \A k \in DOMAIN kListenList' : Listening(sock', kListenList'[k].kHScoket)
  BY <1>2 DEF SameHandles
<1>4. \A x \in AcceptsIn(ops') : Listening(sock', x.kHScoket)
  BY <1>1, <1>2 DEF ListenersOK
<1>. QED  BY <1>3, <1>4 DEF ListenersOK

(* Of a caller that still holds the sockets `gone`, which nobody owns.     *)
LEMMA HeldApart ==
  ASSUME NEW l, NEW o, NEW fds, NEW r, SetAcceptOK(l, o, fds, r), NEW gone, gone \subseteq fds
  PROVE  SetAcceptOK(l, o, fds \ gone, AcceptResult(r.list, r.ops, r.open \ gone))
<1>1. PICK q : q = AcceptResult(r.list, r.ops, r.open \ gone)
  OBVIOUS
<1>2. q.list = r.list /\ q.ops = r.ops /\ q.open = r.open \ gone
  BY <1>1 DEF AcceptResult
<1>3. ASSUME NEW x, Posted(l, o, fds, r, x)  PROVE Posted(l, o, fds \ gone, q, x)
  BY <1>2, <1>3 DEF Posted
<1>4. (q.ops = o /\ q.open = fds \ gone) \/ \E x : Posted(l, o, fds \ gone, q, x)
  BY <1>2, <1>3 DEF SetAcceptOK
<1>5. SetAcceptOK(l, o, fds \ gone, q)
  BY <1>2, <1>4 DEF SetAcceptOK
<1>. QED  BY <1>1, <1>5

(* A listener takes operation o for an accept that ended, and another is   *)
(* posted.                                                                 *)
AcceptTaken(o, i, r) ==
  /\ OpsOK(r.ops) /\ r.list \in Seq(ListenRecord) /\ SameHandles(kListenList, r.list)
  /\ r.open \subseteq Fds /\ open \subseteq r.open
  /\ \A x \in DOMAIN r.ops : x.iOPType # "ACCEPT" => x \in DOMAIN ops
  /\ \A x \in AcceptsIn(r.ops) :
       x \in AcceptsIn(ops) \/ \E k \in DOMAIN kListenList : x.kHScoket = kListenList[k].kHScoket
  /\ SameApart(ops, r.ops, {i})
  /\ o.iOPType = "ACCEPT" => SameApart(ops, r.ops, {})

AcceptCounted(o, r) ==
  /\ Ownership(Own, AcceptsIn(r.ops), r.open \ {o.kSocket}) /\ o.kSocket \in open
  /\ SingleAccepts(r.ops) /\ ListenOK(r.list, AcceptsIn(r.ops))

LEMMA AcceptTakenOK ==
  ASSUME SlotInv, NEW o \in DOMAIN ops, NEW i, IndexOf(o.kHScoket) = i,
         NEW r \in SetAcceptSocket(AcceptEnded(kListenList, o.kHScoket), Finish(ops, o), open)
  PROVE  /\ AcceptTaken(o, i, r)
         /\ ListenersSure /\ o.iOPType = "ACCEPT" => AcceptCounted(o, r)
<1> DEFINE l == AcceptEnded(kListenList, o.kHScoket)
           p == Finish(ops, o)
<1>1. /\ OpsOK(ops) /\ kListenList \in Seq(ListenRecord) /\ open \subseteq Fds
  BY DEF SlotInv, ListenersOK
<1>2. /\ l \in Seq(ListenRecord) /\ DOMAIN l = DOMAIN kListenList
      /\ \A k \in DOMAIN kListenList : l[k].kHScoket = kListenList[k].kHScoket
  BY <1>1, AcceptEndedList
<1>3. /\ OpsOK(p) /\ DOMAIN p \subseteq DOMAIN ops
      /\ \A y \in DOMAIN ops \ {o} : y \in DOMAIN p /\ p[y] = ops[y]
      /\ ops[o] = 1 => o \notin DOMAIN p
  BY <1>1, FinishOK
<1>4. r \in SetAcceptSocket(l, p, open)
  OBVIOUS
<1> HIDE DEF l, p
<1>5. SetAcceptOK(l, p, open, r)
  BY <1>2, <1>3, <1>4, SetAcceptSocketOK
<1>6. /\ r.open \subseteq Fds /\ open \subseteq r.open
      /\ \A Z : SameApart(p, r.ops, Z)
      /\ \A x \in AcceptsIn(r.ops) :
           x \in AcceptsIn(p) \/ \E k \in DOMAIN l : x.kHScoket = l[k].kHScoket
  BY <1>1, <1>3, <1>5, AcceptsPosted
<1>7. \A x \in DOMAIN r.ops : x.iOPType # "ACCEPT" => x \in DOMAIN ops
  <2>1. SameApart(p, r.ops, {})
    BY <1>6
  <2>. QED  BY <1>3, <2>1 DEF SameApart
<1>8. SameApart(ops, p, {i}) /\ (o.iOPType = "ACCEPT" => SameApart(ops, p, {}))
  BY <1>3 DEF SameApart
<1>9. SameApart(ops, r.ops, {i}) /\ (o.iOPType = "ACCEPT" => SameApart(ops, r.ops, {}))
  <2>1. \A Z : SameApart(ops, p, Z) /\ SameApart(p, r.ops, Z) => SameApart(ops, r.ops, Z)
    BY DEF SameApart
  <2>. QED  BY <1>6, <1>8, <2>1
<1>10. AcceptTaken(o, i, r)
  <2>1. OpsOK(r.ops) /\ r.list \in Seq(ListenRecord) /\ SameHandles(l, r.list)
    BY <1>5 DEF SetAcceptOK
  <2>2. SameHandles(kListenList, r.list)
    BY <1>2, <2>1 DEF SameHandles
  <2>3. AcceptsIn(p) \subseteq AcceptsIn(ops)
    BY <1>3 DEF AcceptsIn
  <2>. QED  BY <1>2, <1>6, <1>7, <1>9, <2>1, <2>2, <2>3 DEF AcceptTaken
<1>11. ASSUME ListenersSure, o.iOPType = "ACCEPT"  PROVE AcceptCounted(o, r)
  <2>1. SocketsOK /\ ListenOK(kListenList, AcceptsIn(ops)) /\ o \in AcceptsIn(ops)
    BY <1>11 DEF SlotInv, AcceptsOK, AcceptsIn
  <2>2. ops[o] = 1
    BY <2>1 DEF SocketsOK, SingleAccepts
  <2>3. AcceptsIn(p) = AcceptsIn(ops) \ {o} /\ SingleAccepts(p)
    BY <1>3, <2>1, <2>2 DEF AcceptsIn, SocketsOK, SingleAccepts
  <2>4. ListenOK(l, AcceptsIn(p))
    <3>1. IsFiniteSet(AcceptsIn(ops))
      BY <1>1, AcceptsFinite
    <3>. QED  BY <1>1, <2>1, <2>3, <3>1, AcceptEndedOK DEF l
  <2>5. Ownership(Own, AcceptsIn(ops), open) /\ o.kSocket \in open
    BY <2>1 DEF SocketsOK, Ownership
  <2>6. PICK gone : gone = {o.kSocket}
    OBVIOUS
  <2>7. Ownership(Own, AcceptsIn(p), open \ gone) /\ gone \subseteq open
    BY <2>1, <2>3, <2>5, <2>6, AcceptGives
  <2>8. PICK q : q = AcceptResult(r.list, r.ops, r.open \ gone)
    OBVIOUS
  <2>9. q.list = r.list /\ q.ops = r.ops /\ q.open = r.open \ gone
    BY <2>8 DEF AcceptResult
  <2>10. SetAcceptOK(l, p, open \ gone, q)
    BY <1>5, <2>7, <2>8, HeldApart
  <2>11. open \ gone \subseteq Fds
    BY <1>1
  <2>12. /\ Ownership(Own, AcceptsIn(q.ops), q.open) /\ SingleAccepts(q.ops)
         /\ ListenOK(q.list, AcceptsIn(q.ops))
    BY <1>3, <2>3, <2>4, <2>7, <2>10, <2>11, AcceptsPosted
  <2>. QED  BY <2>5, <2>6, <2>9, <2>12 DEF AcceptCounted
<1>. QED  BY <1>10, <1>11

LEMMA AcceptOK == ASSUME SlotInv, CtlOK, NEW o, NEW i \in Slots, Accept(o, i)  PROVE SlotInv'
<1>1. PICK r \in SetAcceptSocket(AcceptEnded(kListenList, o.kHScoket), Finish(ops, o), open) :
       \E fd \in AcceptedBy(o) :
       /\ kListenList' = r.list /\ ops' = r.ops
       /\ \/ /\ ~MgrFull /\ fd \in r.open
             /\ LET j == FreeSlot
                    s == [NewSlot(j, fd, "ACCEPT", clock) EXCEPT !.usStatus = "CONNECTED"]
                IN MgrAdd(j, s) /\ Retake(j) /\ kSendList' = AddInList(kSendList, j)
             /\ open' = r.open
          \/ /\ open' = r.open \ {fd}
             /\ UNCHANGED <<sock, kMainList, kActiveMainList, kSendList, retaken>>
  BY DEF Accept
<1>2. PICK fd \in AcceptedBy(o) :
       /\ kListenList' = r.list /\ ops' = r.ops
       /\ \/ /\ ~MgrFull /\ fd \in r.open
             /\ LET j == FreeSlot
                    s == [NewSlot(j, fd, "ACCEPT", clock) EXCEPT !.usStatus = "CONNECTED"]
                IN MgrAdd(j, s) /\ Retake(j) /\ kSendList' = AddInList(kSendList, j)
             /\ open' = r.open
          \/ /\ open' = r.open \ {fd}
             /\ UNCHANGED <<sock, kMainList, kActiveMainList, kSendList, retaken>>
  BY <1>1
<1>3. /\ o \in DOMAIN ops /\ o.kHScoket = sock[i].kHSocket /\ IndexOf(o.kHScoket) = i
      /\ sock[i].usStatus = "ACTIVECONNECT" /\ sock[i].iTypeSocket = "LISTEN"
      /\ kRecvList' = kRecvList
  <2>1. Completed(o, i, {"LISTEN"}, {"ACTIVECONNECT"}) /\ kRecvList' = kRecvList
    BY DEF Accept
  <2>2. /\ o \in DOMAIN ops /\ o.kHScoket = sock[i].kHSocket /\ IndexOf(o.kHScoket) = i
        /\ sock[i].usStatus \in {"ACTIVECONNECT"} /\ sock[i].iTypeSocket \in {"LISTEN"}
    BY <2>1, CompletedFacts
  <2>. QED  BY <2>1, <2>2
<1>4. AcceptTaken(o, i, r) /\ (ListenersSure /\ o.iOPType = "ACCEPT" => AcceptCounted(o, r))
  BY <1>1, <1>3, AcceptTakenOK
<1>5. i \notin retaken => o.iOPType = "ACCEPT"
  BY <1>3, ListenerAccepts
<1>6. ListenersSure => o.iOPType = "ACCEPT" /\ fd = o.kSocket /\ AcceptCounted(o, r)
  <2>1. ListenersSure => o.iOPType = "ACCEPT"
    BY <1>3, <1>5 DEF ListenersSure
  <2>. QED  BY <1>2, <1>4, <2>1 DEF AcceptedBy
<1>7. MatchOK(sock[i], ops', i \notin retaken)
  <2>1. MatchOK(sock[i], ops, i \notin retaken)
    BY <1>3, SlotFacts
  <2>2. CASE o.iOPType = "ACCEPT"
    <3>1. SameApart(ops, ops', {}) /\ IndexOf(sock[i].kHSocket) \notin {}
      BY <1>2, <1>4, <2>2 DEF AcceptTaken
    <3>. QED  BY <2>1, <3>1, MatchKept
  <2>3. CASE o.iOPType # "ACCEPT"
    BY <1>3, <1>5, <2>3 DEF MatchOK, Backed, IsConnection
  <2>. QED  BY <2>2, <2>3
<1>8. OpsOK(ops') /\ SameApart(ops, ops', {i})
  BY <1>2, <1>4 DEF AcceptTaken
<1>9. ASSUME SameListeners, open' \subseteq Fds, retaken' \subseteq Slots  PROVE ListenersOK'
  <2>1. /\ kListenList' \in Seq(ListenRecord) /\ SameHandles(kListenList, kListenList')
        /\ \A x \in AcceptsIn(ops') :
             \/ x \in AcceptsIn(ops)
             \/ \E n \in DOMAIN kListenList : x.kHScoket = kListenList[n].kHScoket
    BY <1>2, <1>4 DEF AcceptTaken
  <2>. QED  BY <1>9, <2>1, ListenersStep DEF SlotInv
<1>10. retaken \subseteq Slots
  BY DEF SlotInv, ListenersOK
<1>11. CASE /\ open' = r.open \ {fd}
            /\ UNCHANGED <<sock, kMainList, kActiveMainList, kSendList, retaken>>
  <2>1. /\ sock' = sock /\ kMainList' = kMainList /\ kActiveMainList' = kActiveMainList
        /\ kSendList' = kSendList /\ kRecvList' = kRecvList /\ retaken' = retaken
    BY <1>3, <1>11
  <2>2. TableOK' /\ StatusOK'
    BY <2>1 DEF SlotInv, TableOK, MgrTypeOK, SlotPartition, ListsSimple, FreeSlotsDrained,
                StatusOK, Sure
  <2>3. Match'
    <3>1. /\ \A j \in Slots \ {i} : sock'[j] = sock[j] /\ (j \in retaken' <=> j \in retaken)
          /\ \A j \in Slots \cap {i} :
               sock'[j].usStatus # "INIT" => MatchOK(sock'[j], ops', j \notin retaken')
      BY <1>7, <2>1
    <3>. QED  BY <1>8, <3>1, MatchStep DEF SlotInv
  <2>4. SameListeners
    BY <2>1 DEF SameListeners
  <2>5. ListenersOK'
    BY <1>4, <1>9, <1>10, <1>11, <2>1, <2>4 DEF AcceptTaken
  <2>6. AcceptsOK'
    <3>1. SUFFICES ASSUME ListenersSure'
                   PROVE  SocketsOK' /\ ListenOK(kListenList', AcceptsIn(ops'))
      BY DEF AcceptsOK
    <3>2. fd = o.kSocket /\ AcceptCounted(o, r)
      BY <1>6, <1>10, <2>4, <3>1, SureBefore
    <3>3. Own' = Own
      BY <2>1 DEF Own, Owning
    <3>. QED  BY <1>2, <1>11, <3>2, <3>3 DEF AcceptCounted, SocketsOK
  <2>. QED  BY <1>8, <2>2, <2>3, <2>5, <2>6 DEF SlotInv
<1>12. CASE /\ ~MgrFull /\ fd \in r.open
            /\ LET j == FreeSlot
                   s == [NewSlot(j, fd, "ACCEPT", clock) EXCEPT !.usStatus = "CONNECTED"]
               IN MgrAdd(j, s) /\ Retake(j) /\ kSendList' = AddInList(kSendList, j)
            /\ open' = r.open
  <2> DEFINE j == FreeSlot
             s == [NewSlot(j, fd, "ACCEPT", clock) EXCEPT !.usStatus = "CONNECTED"]
  <2>1. MgrAdd(j, s) /\ Retake(j) /\ kSendList' = AddInList(kSendList, j) /\ open' = r.open
    BY <1>12
  <2>2. j \in Slots /\ j \in Members(kMainList)
    BY <1>12, TableLists, TailList DEF MgrFull, FreeSlot, SlotInv
  <2>3. /\ clock \in 0 .. MaxClock /\ clock \in Nat /\ fd \in Fds
        /\ sock[j].send = 0 /\ sock[j].recv = 0
        /\ j \notin retaken' => Unused(ops, Handle(j, clock))
        /\ \A m : m # j => (m \in retaken' <=> m \in retaken)
        /\ retaken' \subseteq Slots
    <3>1. clock \in 0 .. MaxClock /\ clock \in Nat
      BY Bounds DEF CtlOK
    <3>2. sock[j].send = 0 /\ sock[j].recv = 0
      BY <2>2, FreeSlotFacts DEF SlotInv
    <3>3. fd \in Fds
      BY <1>4, <1>12 DEF AcceptTaken
    <3>4. /\ j \notin retaken' => Unused(ops, Handle(j, clock))
          /\ \A m : m # j => (m \in retaken' <=> m \in retaken)
          /\ retaken' \subseteq Slots
      BY <1>10, <2>1, <2>2, RetakeOK
    <3>. QED  BY <3>1, <3>2, <3>3, <3>4
  <2>4. /\ s \in SlotRecord /\ s.usStatus = "CONNECTED" /\ s.iTypeSocket = "ACCEPT"
        /\ s.kSocket = fd /\ s.kHSocket = Handle(j, clock)
        /\ s.recv = sock[j].recv /\ s.send = sock[j].send
    <3>1. MgrTypeOK /\ "ACCEPT" \in Types /\ "CONNECTED" \in Statuses
      BY DEF SlotInv, TableOK, Types, Statuses
    <3>. QED  BY <2>2, <2>3, <3>1, PreparedSlot
  <2> HIDE DEF s, j
  <2>5. IsList(kSendList') /\ Members(kSendList') = Members(kSendList) \cup {j}
    BY <2>1, <2>2, TableLists, AddInListList DEF SlotInv
  <2>6. StatusFits(s, s.usStatus = "CONNECTED", TRUE)
    BY <2>3, <2>4 DEF StatusFits, MustReport, IsConnection
  <2>7. /\ TableOK' /\ StatusOK' /\ sock[j].usStatus = "INIT"
        /\ \A m \in Slots : m # j => sock'[m] = sock[m]
        /\ sock'[j] = s
    <3>1. /\ TableOK /\ StatusOK /\ s \in SlotRecord /\ MgrAdd(j, s)
          /\ clock \in 0 .. MaxClock /\ s.kHSocket = Handle(j, clock) /\ IsList(kSendList')
          /\ Members(kSendList') = Members(kSendList) \cup
                                     (IF s.usStatus = "CONNECTED" THEN {j} ELSE {})
          /\ kRecvList' = kRecvList /\ StatusFits(s, s.usStatus = "CONNECTED", TRUE)
          /\ \A m \in Slots \ {j} : m \in retaken' <=> m \in retaken
      BY <1>3, <2>1, <2>3, <2>4, <2>5, <2>6 DEF SlotInv
    <3>. QED  BY ONLY <3>1, SlotAdded
  <2>8. Match'
    <3>1. ASSUME j \notin retaken'  PROVE Exact(s, ops')
      <4>1. \A x \in DOMAIN ops' : x.iOPType # "ACCEPT" => x.kHScoket # s.kHSocket
        BY <1>2, <1>4, <2>3, <2>4, <3>1 DEF AcceptTaken, Unused
      <4>2. /\ Unique(ops', s.kHSocket)
            /\ \A t \in IOTypes : ~Has(ops', t, s.kHSocket)
        BY <4>1 DEF Unique, Has, IOTypes
      <4>. QED  BY <2>3, <2>4, <4>2 DEF Exact, IOTypes
    <3>2. MatchOK(s, ops', j \notin retaken')
      BY <2>4, <3>1 DEF MatchOK, Backed
    <3>3. i # j /\ sock'[i] = sock[i] /\ (i \in retaken' <=> i \in retaken)
      BY <1>3, <2>3, <2>7
    <3>4. MatchOK(sock'[i], ops', i \notin retaken')
      <4>1. (i \notin retaken') = (i \notin retaken)
        BY <3>3
      <4>. QED  BY <1>7, <3>3, <4>1
    <3>5. PICK Z : Z = {i, j}
      OBVIOUS
    <3>6. SameApart(ops, ops', Z)
      BY <1>8, <3>5 DEF SameApart
    <3>7. /\ \A m \in Slots \ Z : sock'[m] = sock[m] /\ (m \in retaken' <=> m \in retaken)
          /\ \A m \in Slots \cap Z :
               sock'[m].usStatus # "INIT" => MatchOK(sock'[m], ops', m \notin retaken')
      BY <2>3, <2>7, <3>2, <3>4, <3>5
    <3>. QED  BY <3>6, <3>7, MatchStep DEF SlotInv
  <2>9. SameListeners
    BY <2>2, <2>3, <2>7, FreeSlotFacts DEF SameListeners, SlotInv
  <2>10. ListenersOK'
    BY <1>4, <1>9, <2>1, <2>3, <2>9 DEF AcceptTaken
  <2>11. AcceptsOK'
    <3>1. SUFFICES ASSUME ListenersSure'
                   PROVE  SocketsOK' /\ ListenOK(kListenList', AcceptsIn(ops'))
      BY DEF AcceptsOK
    <3>2. fd = o.kSocket /\ AcceptCounted(o, r)
      BY <1>6, <1>10, <2>9, <3>1, SureBefore
    <3>3. j \notin DOMAIN Own /\ Own' = OwnWith(j, fd)
      BY <2>2, <2>4, <2>7, OwnGets DEF OpenStates
    <3>4. PICK fds : fds = r.open \ {fd}
      OBVIOUS
    <3>5. Ownership(Own, AcceptsIn(ops'), fds) /\ fd \notin fds
      BY <1>2, <3>2, <3>4 DEF AcceptCounted
    <3>6. Ownership(OwnWith(j, fd), AcceptsIn(ops'), fds \cup {fd})
      BY <3>3, <3>5, SlotGets DEF OwnWith
    <3>7. fds \cup {fd} = open'
      BY <1>4, <2>1, <3>2, <3>4 DEF AcceptTaken, AcceptCounted
    <3>. QED  BY <1>2, <3>2, <3>3, <3>6, <3>7 DEF AcceptCounted, SocketsOK
  <2>. QED  BY <1>8, <2>7, <2>8, <2>10, <2>11 DEF SlotInv
<1>. QED  BY <1>2, <1>11, <1>12

(* The timer's turn on the active list: its members stay the same.         *)
LEMMA TurnActive ==
  ASSUME TableOK,
         kActiveMainList' = IF kActiveMainList = <<>> THEN <<>>
                            ELSE MoveToEnd(kActiveMainList, Head(kActiveMainList))
  PROVE  /\ IsList(kActiveMainList') /\ Members(kActiveMainList') = Members(kActiveMainList)
         /\ kActiveMainList # <<>> => Head(kActiveMainList) \in Slots
<1>1. CASE kActiveMainList = <<>>
  BY <1>1, EmptyList
<1>2. CASE kActiveMainList # <<>>
  <2>1. Head(kActiveMainList) \in Slots /\ Head(kActiveMainList) \in Members(kActiveMainList)
    BY <1>2, TableLists, TailList
  <2>2. kActiveMainList' = MoveToEnd(kActiveMainList, Head(kActiveMainList))
    BY <1>2
  <2>3. /\ IsList(MoveToEnd(kActiveMainList, Head(kActiveMainList)))
        /\ Members(MoveToEnd(kActiveMainList, Head(kActiveMainList))) = Members(kActiveMainList)
    BY <2>1, TableLists, MoveToEndList
  <2>. QED  BY <2>1, <2>2, <2>3
<1>. QED  BY <1>1, <1>2


(* The part of a step that SeSetAcceptSocket took, from sockets `fds`.     *)
LEMMA AcceptStep ==
  ASSUME SlotInv, NEW fds, fds \subseteq Fds,
         NEW r \in SetAcceptSocket(kListenList, ops, fds),
         kListenList' = r.list, ops' = r.ops, open' = r.open, SameListeners, retaken' = retaken
  PROVE  /\ OpsOK(ops') /\ ListenersOK' /\ SameApart(ops, ops', {})
         /\ \A own : /\ ListenersSure /\ Ownership(own, AcceptsIn(ops), fds)
                     => /\ Ownership(own, AcceptsIn(ops'), open') /\ SingleAccepts(ops')
                        /\ ListenOK(kListenList', AcceptsIn(ops'))
<1>1. OpsOK(ops) /\ kListenList \in Seq(ListenRecord) /\ retaken \subseteq Slots
  BY DEF SlotInv, ListenersOK
<1>2. SetAcceptOK(kListenList, ops, fds, r)
  BY <1>1, SetAcceptSocketOK
<1>3. /\ open' \subseteq Fds /\ SameApart(ops, ops', {})
      /\ \A x \in AcceptsIn(ops') :
           x \in AcceptsIn(ops) \/ \E k \in DOMAIN kListenList : x.kHScoket = kListenList[k].kHScoket
      /\ \A own :
           /\ Ownership(own, AcceptsIn(ops), fds) /\ SingleAccepts(ops)
           /\ ListenOK(kListenList, AcceptsIn(ops))
           => /\ Ownership(own, AcceptsIn(ops'), open') /\ SingleAccepts(ops')
              /\ ListenOK(kListenList', AcceptsIn(ops'))
  BY <1>1, <1>2, AcceptsPosted
<1>4. /\ OpsOK(ops') /\ kListenList' \in Seq(ListenRecord)
      /\ SameHandles(kListenList, kListenList')
  BY <1>2 DEF SetAcceptOK
<1>5. ListenersOK'
  BY <1>1, <1>3, <1>4, ListenersStep DEF SlotInv
<1>6. ListenersSure => SingleAccepts(ops) /\ ListenOK(kListenList, AcceptsIn(ops))
  BY DEF SlotInv, AcceptsOK, SocketsOK
<1>. QED  BY <1>3, <1>4, <1>5, <1>6

LEMMA TimerOK == ASSUME SlotInv, Timer  PROVE SlotInv'
<1> DEFINE i == Head(kActiveMainList)
<1>1. /\ kMainList' = kMainList /\ kRecvList' = kRecvList /\ retaken' = retaken
      /\ IsList(kActiveMainList') /\ Members(kActiveMainList') = Members(kActiveMainList)
      /\ kActiveMainList # <<>> => i \in Slots
  BY TurnActive DEF Timer, SlotInv
<1>0. open \subseteq Fds /\ retaken \subseteq Slots
  BY DEF SlotInv, ListenersOK
<1>2. CASE kActiveMainList # <<>> /\ Expired(sock[i])
  <2> DEFINE fds == open \ {sock[i].kSocket}
             s == Disconnected(sock[i])
  <2>1. PICK r \in SetAcceptSocket(kListenList, ops, fds) :
          /\ sock' = [sock EXCEPT ![i] = s]
          /\ kSendList' = AddInList(kSendList, i)
          /\ kListenList' = r.list /\ ops' = r.ops /\ open' = r.open
    BY <1>2 DEF Timer
  <2>2. /\ i \in Slots /\ MayDisconnect(sock[i]) /\ IsConnection(sock[i])
        /\ sock[i].usStatus \in {"CONNECTING", "ACTIVECONNECT"} /\ sock[i].usStatus # "INIT"
        /\ sock[i] \in SlotRecord /\ StatusFits(sock[i], i \in Members(kSendList), Sure(i))
    BY <1>1, <1>2, SlotFacts DEF Expired, MayDisconnect
  <2>3. /\ s \in SlotRecord /\ s.iTypeSocket = sock[i].iTypeSocket /\ IsConnection(s)
        /\ s.kHSocket = sock[i].kHSocket
        /\ s.usStatus \in {"CONNECTED_FAILED", "DISCONNECT"}
        /\ s.usStatus = "CONNECTED_FAILED" => sock[i].usStatus = "CONNECTING"
    BY <2>2 DEF Disconnected, SlotRecord, Statuses, IsConnection
  <2> HIDE DEF s, i
  <2>4. IsList(kSendList') /\ Members(kSendList') = Members(kSendList) \cup {i}
    BY <2>1, <2>2, TableLists, AddInListList DEF SlotInv
  <2>5. OthersKept(i)
    BY <1>1, <2>4, TableLists DEF OthersKept, SlotInv
  <2>6. StatusFits(s, i \in Members(kSendList'), Sure(i))
    BY <2>2, <2>3, <2>4 DEF StatusFits, IsConnection
  <2>7. /\ TableOK' /\ StatusOK'
        /\ \A j \in Slots : j # i => sock'[j] = sock[j]
        /\ sock'[i] = s
    <3>1. /\ TableOK /\ StatusOK /\ i \in Slots /\ s \in SlotRecord /\ sock[i].usStatus # "INIT"
          /\ s.iTypeSocket = sock[i].iTypeSocket /\ s.kHSocket = sock[i].kHSocket
          /\ sock' = [sock EXCEPT ![i] = s]
          /\ OthersKept(i) /\ StatusFits(s, i \in Members(kSendList'), Sure(i))
          /\ (i \in Members(kRecvList') => IsConnection(s)) /\ retaken' = retaken
      BY <1>1, <2>1, <2>2, <2>3, <2>5, <2>6 DEF SlotInv
    <3>. QED  BY ONLY <3>1, SlotUpdate
  <2>8. SameListeners
    BY <1>1, <2>2, <2>7 DEF SameListeners, IsConnection
  <2>9. fds \subseteq Fds
    BY <1>0
  <2>10. ASSUME SocketsOK  PROVE Ownership(Own', AcceptsIn(ops), fds)
    <3>1. i \in DOMAIN Own /\ Own[i] = sock[i].kSocket /\ Own' = OwnWithout(i)
      BY <2>2, <2>3, <2>7, OwnGives DEF OpenStates
    <3>. QED  BY <2>10, <3>1, SlotCloses DEF SocketsOK, OwnWithout
  <2> HIDE DEF fds
  <2>11. /\ OpsOK(ops') /\ ListenersOK' /\ SameApart(ops, ops', {})
         /\ \A own : /\ ListenersSure /\ Ownership(own, AcceptsIn(ops), fds)
                     => /\ Ownership(own, AcceptsIn(ops'), open') /\ SingleAccepts(ops')
                        /\ ListenOK(kListenList', AcceptsIn(ops'))
    BY <1>1, <2>1, <2>8, <2>9, AcceptStep
  <2>12. AcceptsOK'
    <3>1. SUFFICES ASSUME ListenersSure'
                   PROVE  SocketsOK' /\ ListenOK(kListenList', AcceptsIn(ops'))
      BY DEF AcceptsOK
    <3>2. ListenersSure /\ SocketsOK
      BY <1>0, <2>8, <3>1, SureBefore DEF SlotInv, AcceptsOK
    <3>. QED  BY <2>10, <2>11, <3>2 DEF SocketsOK
  <2>13. MatchOK(sock'[i], ops', i \notin retaken')
    BY <2>3, <2>7 DEF MatchOK, Backed, Exact, OpenStates
  <2>14. Match'
    <3>1. SameApart(ops, ops', {i})
      BY <2>11 DEF SameApart
    <3>2. /\ \A j \in Slots \ {i} : sock'[j] = sock[j] /\ (j \in retaken' <=> j \in retaken)
          /\ \A j \in Slots \cap {i} :
               sock'[j].usStatus # "INIT" => MatchOK(sock'[j], ops', j \notin retaken')
      BY <1>1, <2>7, <2>13
    <3>. QED  BY <3>1, <3>2, MatchStep DEF SlotInv
  <2>. QED  BY <2>7, <2>11, <2>12, <2>14 DEF SlotInv
<1>3. CASE ~(kActiveMainList # <<>> /\ Expired(sock[i]))
  <2>1. PICK r \in SetAcceptSocket(kListenList, ops, open) :
          /\ kListenList' = r.list /\ ops' = r.ops /\ open' = r.open
          /\ sock' = sock /\ kSendList' = kSendList
    BY <1>3 DEF Timer
  <2>2. SameListeners
    BY <1>1, <2>1 DEF SameListeners
  <2>3. /\ OpsOK(ops') /\ ListenersOK' /\ SameApart(ops, ops', {})
        /\ \A own : /\ ListenersSure /\ Ownership(own, AcceptsIn(ops), open)
                    => /\ Ownership(own, AcceptsIn(ops'), open') /\ SingleAccepts(ops')
                       /\ ListenOK(kListenList', AcceptsIn(ops'))
    BY <1>0, <1>1, <2>1, <2>2, AcceptStep
  <2>4. TableOK' /\ StatusOK'
    BY <1>1, <2>1 DEF SlotInv, TableOK, MgrTypeOK, SlotPartition, ListsSimple, FreeSlotsDrained,
                      StatusOK, IsList, Sure
  <2>5. AcceptsOK'
    <3>1. SUFFICES ASSUME ListenersSure'
                   PROVE  SocketsOK' /\ ListenOK(kListenList', AcceptsIn(ops'))
      BY DEF AcceptsOK
    <3>2. ListenersSure /\ SocketsOK
      BY <1>0, <2>2, <3>1, SureBefore DEF SlotInv, AcceptsOK
    <3>3. Own' = Own
      BY <2>1 DEF Own, Owning
    <3>. QED  BY <2>3, <3>2, <3>3 DEF SocketsOK
  <2>6. Match'
    <3>1. /\ \A j \in Slots \ {} : sock'[j] = sock[j] /\ (j \in retaken' <=> j \in retaken)
          /\ \A j \in Slots \cap {} :
               sock'[j].usStatus # "INIT" => MatchOK(sock'[j], ops', j \notin retaken')
      BY <1>1, <2>1
    <3>. QED  BY <2>3, <3>1, MatchStep DEF SlotInv
  <2>. QED  BY <2>3, <2>4, <2>5, <2>6 DEF SlotInv
<1>. QED  BY <1>2, <1>3

-----------------------------------------------------------------------------
(* The calls of SeNetCoreRead.                                             *)

LEMMA NoEventType == NoHandle \in Handles /\ NoEvent \in [kind : EventKinds, h : Handles]
BY DEF NoEvent, Event, EventKinds, Handles

LEMMA ReturnOK ==
  ASSUME CtlOK, clock' = clock, NEW kind \in EventKinds, NEW h \in Handles,
         Return(Event(kind, h))
  PROVE  CtlOK'
BY DEF CtlOK, Return, Event

LEMMA GoOnOK == ASSUME CtlOK, clock' = clock, pc = "wait", GoOn  PROVE CtlOK'
<1>1. ev = NoEvent /\ ev' = ev
  BY DEF CtlOK, GoOn
<1>. QED  BY <1>1 DEF CtlOK, GoOn

LEMMA CtlKept == ASSUME CtlOK, clock' = clock, UNCHANGED ctlVars  PROVE CtlOK'
BY DEF CtlOK, ctlVars

LEMMA ProgramOK == ASSUME IInv, Program  PROVE IInv'
<1>0. SlotInv /\ CtlOK
  BY DEF IInv
<1>1. CASE TCPListen
  <2>1. clock' = clock /\ UNCHANGED ctlVars
    BY <1>1 DEF TCPListen
  <2>. QED  BY <1>0, <1>1, <2>1, TCPListenOK, CtlKept DEF IInv
<1>2. CASE TCPClient
  <2>1. clock' = clock /\ UNCHANGED ctlVars
    BY <1>2 DEF TCPClient
  <2>. QED  BY <1>0, <1>2, <2>1, TCPClientOK, CtlKept DEF IInv
<1>3. CASE TCPClientFails
  <2>1. clock' = clock /\ UNCHANGED ctlVars
    BY <1>3 DEF TCPClientFails
  <2>. QED  BY <1>0, <1>3, <2>1, TCPClientFailsOK, CtlKept DEF IInv
<1>4. ASSUME NEW i \in Slots, Send(i)  PROVE IInv'
  <2>1. clock' = clock /\ UNCHANGED ctlVars
    BY <1>4 DEF Send
  <2>. QED  BY <1>0, <1>4, <2>1, SendOK, CtlKept DEF IInv
<1>5. ASSUME NEW i \in Slots, AppDisconnect(i)  PROVE IInv'
  <2>1. clock' = clock /\ UNCHANGED ctlVars
    BY <1>5 DEF AppDisconnect
  <2>. QED  BY <1>0, <1>5, <2>1, AppDisconnectOK, CtlKept DEF IInv
<1>. QED  BY <1>1, <1>2, <1>3, <1>4, <1>5 DEF Program

LEMMA ProcessOK == ASSUME IInv, NEW i \in Slots, Process(i)  PROVE IInv'
<1>0. SlotInv /\ CtlOK
  BY DEF IInv
<1>1. CASE ProcessConnected(i)
  <2>1. /\ clock' = clock /\ sock[i].kHSocket \in Handles
        /\ Return(Event("CONNECT", sock[i].kHSocket)) /\ "CONNECT" \in EventKinds
    BY <1>0, <1>1, PoppedFacts DEF ProcessConnected, EventKinds
  <2>. QED  BY <1>0, <1>1, <2>1, ProcessConnectedOK, ReturnOK DEF IInv
<1>2. CASE ProcessConnectFailed(i)
  <2>1. /\ clock' = clock /\ sock[i].kHSocket \in Handles
        /\ Return(Event("CONNECT_FAILED", sock[i].kHSocket)) /\ "CONNECT_FAILED" \in EventKinds
    BY <1>0, <1>2, PoppedFacts DEF ProcessConnectFailed, EventKinds
  <2>. QED  BY <1>0, <1>2, <2>1, ProcessConnectFailedOK, ReturnOK DEF IInv
<1>3. CASE ProcessDisconnect(i)
  <2>1. /\ clock' = clock /\ sock[i].kHSocket \in Handles
        /\ Return(Event("DISCONNECT", sock[i].kHSocket)) /\ "DISCONNECT" \in EventKinds
    BY <1>0, <1>3, PoppedFacts DEF ProcessDisconnect, EventKinds
  <2>. QED  BY <1>0, <1>3, <2>1, ProcessDisconnectOK, ReturnOK DEF IInv
<1>4. CASE ProcessCommIdle(i)
  <2>1. clock' = clock /\ UNCHANGED ctlVars
    BY <1>4 DEF ProcessCommIdle
  <2>. QED  BY <1>0, <1>4, <2>1, ProcessCommIdleOK, CtlKept DEF IInv
<1>5. CASE ProcessSend(i)
  <2>1. clock' = clock /\ UNCHANGED ctlVars
    BY <1>5 DEF ProcessSend
  <2>. QED  BY <1>0, <1>5, <2>1, ProcessSendOK, CtlKept DEF IInv
<1>6. CASE ProcessRecv(i)
  <2>1. /\ clock' = clock /\ sock[i].kHSocket \in Handles
        /\ Return(Event("RECV_DATA", sock[i].kHSocket)) /\ "RECV_DATA" \in EventKinds
    <3>1. clock' = clock /\ sock[i].usStatus = "ACTIVECONNECT" /\ "RECV_DATA" \in EventKinds
      BY <1>6 DEF ProcessRecv, EventKinds
    <3>2. sock[i].kHSocket \in Handles /\ sock[i] \in SlotRecord
      BY <1>0, <3>1, SlotFacts
    <3>3. [sock[i] EXCEPT !.recv = @ - FrameLen].kHSocket = sock[i].kHSocket
      BY <3>2 DEF SlotRecord
    <3>. QED  BY <1>6, <3>1, <3>2, <3>3 DEF ProcessRecv
  <2>. QED  BY <1>0, <1>6, <2>1, ProcessRecvOK, ReturnOK DEF IInv
<1>7. CASE ProcessRecvSkips(i)
  <2>1. clock' = clock /\ UNCHANGED ctlVars
    BY <1>7 DEF ProcessRecvSkips
  <2>. QED  BY <1>0, <1>7, <2>1, ProcessRecvSkipsOK, CtlKept DEF IInv
<1>. QED  BY <1>1, <1>2, <1>3, <1>4, <1>5, <1>6, <1>7 DEF Process

LEMMA CompleteOK == ASSUME IInv, NEW o, NEW i \in Slots, Complete(o, i)  PROVE IInv'
<1>0. SlotInv /\ CtlOK
  BY DEF IInv
<1>1. CASE Accept(o, i)
  <2>1. pc = "wait" /\ GoOn /\ clock' = clock
    BY <1>1 DEF Accept, Completed, Ended
  <2>. QED  BY <1>0, <1>1, <2>1, AcceptOK, GoOnOK DEF IInv
<1>2. CASE Connected(o, i)
  <2>1. pc = "wait" /\ GoOn /\ clock' = clock
    BY <1>2 DEF Connected, Completed, Ended
  <2>. QED  BY <1>0, <1>2, <2>1, ConnectedOK, GoOnOK DEF IInv
<1>3. CASE Sent(o, i)
  <2>1. pc = "wait" /\ GoOn /\ clock' = clock
    BY <1>3 DEF Sent, IsOp, IsIO, Completed, Ended
  <2>. QED  BY <1>0, <1>3, <2>1, SentOK, GoOnOK DEF IInv
<1>4. CASE SentPartly(o, i)
  <2>1. pc = "wait" /\ GoOn /\ clock' = clock
    BY <1>4 DEF SentPartly, IsOp, IsIO, Completed, Ended
  <2>. QED  BY <1>0, <1>4, <2>1, SentPartlyOK, GoOnOK DEF IInv
<1>5. CASE Received(o, i)
  <2>1. pc = "wait" /\ GoOn /\ clock' = clock
    BY <1>5 DEF Received, IsOp, IsIO, Completed, Ended
  <2>. QED  BY <1>0, <1>5, <2>1, ReceivedOK, GoOnOK DEF IInv
<1>6. CASE NoBytes(o, i)
  <2>1. pc = "wait" /\ GoOn /\ clock' = clock
    BY <1>6 DEF NoBytes, IsIO, Completed, Ended
  <2>. QED  BY <1>0, <1>6, <2>1, NoBytesOK, GoOnOK DEF IInv
<1>. QED  BY <1>1, <1>2, <1>3, <1>4, <1>5, <1>6 DEF Complete

LEMMA StutterOK == ASSUME IInv, UNCHANGED vars  PROVE IInv'
<1>1. UNCHANGED mgrVars /\ UNCHANGED ioVars /\ clock' = clock /\ retaken' = retaken /\ UNCHANGED ctlVars
  BY DEF vars
<1>. QED  BY <1>1, UnchangedOK, CtlKept DEF IInv

LEMMA ReadOK == ASSUME IInv, Read  PROVE IInv'
<1>0. SlotInv /\ CtlOK
  BY DEF IInv
<1>1. CASE Call
  <2>1. UNCHANGED mgrVars /\ UNCHANGED ioVars /\ clock' = clock /\ retaken' = retaken
    BY <1>1 DEF Call
  <2>2. CtlOK'
    BY <1>0, <1>1, <2>1, NoEventType DEF CtlOK, Call
  <2>. QED  BY <1>0, <2>1, <2>2, UnchangedOK DEF IInv
<1>2. CASE ProcessDone
  <2>1. UNCHANGED mgrVars /\ UNCHANGED ioVars /\ clock' = clock /\ retaken' = retaken
    BY <1>2 DEF ProcessDone
  <2>2. CASE pass = 1 /\ pc' = "wait" /\ UNCHANGED <<pass, ev>>
    <3>1. ev = NoEvent
      BY <1>0, <1>2 DEF CtlOK, ProcessDone
    <3>2. CtlOK'
      BY <1>0, <2>1, <2>2, <3>1 DEF CtlOK
    <3>. QED  BY <1>0, <2>1, <3>2, UnchangedOK DEF IInv
  <2>3. CASE pass = 2 /\ Return(Event("IDLE", NoHandle))
    <3>1. CtlOK'
      BY <1>0, <2>1, <2>3, NoEventType, ReturnOK DEF EventKinds
    <3>. QED  BY <1>0, <2>1, <3>1, UnchangedOK DEF IInv
  <2>. QED  BY <1>2, <2>2, <2>3 DEF ProcessDone
<1>3. CASE NothingEnded
  <2>1. UNCHANGED mgrVars /\ UNCHANGED ioVars /\ clock' = clock /\ retaken' = retaken /\ pc = "wait" /\ GoOn
    BY <1>3 DEF NothingEnded
  <2>. QED  BY <1>0, <2>1, UnchangedOK, GoOnOK DEF IInv
<1>4. CASE Timer
  <2>1. clock' = clock /\ Return(Event("TIMER", NoHandle)) /\ "TIMER" \in EventKinds
    BY <1>4 DEF Timer, EventKinds
  <2>. QED  BY <1>0, <1>4, <2>1, TimerOK, NoEventType, ReturnOK DEF IInv
<1>5. ASSUME NEW o, Dropped(o)  PROVE IInv'
  <2>1. pc = "wait" /\ GoOn /\ clock' = clock
    BY <1>5 DEF Dropped, Ended
  <2>. QED  BY <1>0, <1>5, <2>1, DroppedOK, GoOnOK DEF IInv
<1>6. CASE AssertionFails
  <2>1. /\ UNCHANGED mgrVars /\ UNCHANGED ioVars /\ clock' = clock /\ retaken' = retaken
        /\ pc' = "abort" /\ pass' = pass /\ ev' = ev /\ pc = "wait"
    BY <1>6 DEF AssertionFails
  <2>2. CtlOK'
    BY <1>0, <2>1 DEF CtlOK
  <2>. QED  BY <1>0, <2>1, <2>2, UnchangedOK DEF IInv
<1>7. CASE Aborted
  BY <1>7, StutterOK DEF Aborted
<1>. QED  BY <1>1, <1>2, <1>3, <1>4, <1>5, <1>6, <1>7, ProcessOK, CompleteOK DEF Read

LEMMA TickOK == ASSUME IInv, ClockTick  PROVE IInv'
<1>1. UNCHANGED mgrVars /\ UNCHANGED ioVars /\ retaken' = retaken
  BY DEF ClockTick
<1>2. clock' \in 0 .. MaxClock
  BY Bounds DEF ClockTick, IInv, CtlOK
<1>3. CtlOK'
  BY <1>2 DEF ClockTick, IInv, CtlOK, ctlVars
<1>. QED  BY <1>1, <1>3, UnchangedOK DEF IInv

LEMMA InitOK == Init => IInv
<1> SUFFICES ASSUME Init  PROVE IInv
  OBVIOUS
<1>1. TableOK
  BY MgrInitOK DEF Init
<1>2. /\ \A i \in Slots : sock[i].usStatus = "INIT"
      /\ Members(kRecvList) = {}
  BY EmptyList DEF Init, MgrInit
<1>3. ops \in [{} -> Nat \ {0}] /\ DOMAIN ops = {} /\ open = {} /\ kListenList = <<>>
  BY DEF Init, EmptyBag, SetToBag
<1>4. StatusOK /\ Match
  BY <1>2 DEF StatusOK, Match
<1>5. OpsOK(ops)
  BY <1>3, FS_EmptySet DEF OpsOK
<1>6. AcceptsIn(ops) = {} /\ Owning = {}
  BY <1>2, <1>3 DEF AcceptsIn, Owning
<1>7. ListenersOK
  <2>1. kListenList \in Seq(ListenRecord) /\ DOMAIN kListenList = {} /\ retaken = {}
    BY <1>3, EmptySeq DEF Init
  <2>. QED  BY <1>3, <1>6, <2>1 DEF ListenersOK
<1>8. AcceptsOK
  <2>1. Ownership(Own, {}, {})
    BY <1>6 DEF Ownership, Own
  <2>. QED  BY <1>3, <1>6, <2>1 DEF AcceptsOK, SocketsOK, SingleAccepts, ListenOK
<1>9. CtlOK
  BY NoEventType, Bounds DEF CtlOK, Init
<1>. QED  BY <1>1, <1>4, <1>5, <1>7, <1>8, <1>9 DEF IInv, SlotInv

LEMMA NextOK == ASSUME IInv, [Next]_vars  PROVE IInv'
BY ProgramOK, ReadOK, TickOK, StutterOK DEF Next


(* In every state the program can reach, slots, operations, sockets and    *)
(* listeners fit: the four properties below follow.  Operations end in any *)
(* order, with any result, calls fail, and slots are taken again while     *)
(* operations of their earlier uses, which name them still, are            *)
(* outstanding; assertions end the program or are not there.               *)
THEOREM Invariance == Spec => []IInv
<1>1. Init => IInv
  BY InitOK
<1>2. IInv /\ [Next]_vars => IInv'
  BY NextOK
<1>. QED  BY <1>1, <1>2, PTL DEF Spec

(* No slot that SeNetCoreProcess must visit, to report an event, to free   *)
(* it or to start a send, is off kSendList.                                *)
THEOREM NothingWaitsForEver == Spec => []NothingStranded
<1>1. IInv => NothingStranded
  BY FreeSlotFacts DEF IInv, SlotInv, StatusOK, StatusFits, MustReport, NothingStranded, IsConnection
<1>. QED  BY <1>1, Invariance, PTL

(* Every open socket has one owner, a slot or an accept, and every owner   *)
(* an open socket: SeNetCoreListenSocket and the timer close each socket   *)
(* they are to, once.                                                      *)
THEOREM SocketsOwned == Spec => []SocketOwnership
<1>1. ASSUME IInv, ListenersSure  PROVE SocketOwnership
  <2>1. Ownership(Own, AcceptsIn(ops), open) /\ SingleAccepts(ops)
    BY <1>1 DEF IInv, SlotInv, AcceptsOK, SocketsOK
  <2>2. Accepts = AcceptsIn(ops)
    BY DEF Accepts, AcceptsIn, BagToSet
  <2>3. DOMAIN Own = Owning /\ \A i \in Owning : Own[i] = sock[i].kSocket
    BY DEF Own
  <2>4. {Own[i] : i \in DOMAIN Own} = {sock[i].kSocket : i \in Owning}
    BY <2>3
  <2>. QED  BY <2>1, <2>2, <2>3, <2>4 DEF SocketOwnership, Ownership, SingleAccepts
<1>2. IInv => SocketOwnership
  BY <1>1 DEF SocketOwnership
<1>. QED  BY <1>2, Invariance, PTL

(* The count SeSetAcceptSocket goes by is the number of accepts            *)
(* outstanding on the listener.                                            *)
THEOREM BacklogCounts == Spec => []BacklogExact
<1>1. ASSUME IInv, ListenersSure  PROVE BacklogExact
  <2>1. ListenOK(kListenList, AcceptsIn(ops))
    BY <1>1 DEF IInv, SlotInv, AcceptsOK
  <2>2. \A h : Outstanding("ACCEPT", h) = OfListener(AcceptsIn(ops), h)
    BY DEF Outstanding, OfListener, AcceptsIn, BagToSet
  <2>. QED  BY <2>1, <2>2 DEF BacklogExact, ListenOK
<1>2. IInv => BacklogExact
  BY <1>1 DEF BacklogExact
<1>. QED  BY <1>2, Invariance, PTL

LEMMA HasOperation ==
  ASSUME NEW type, NEW h
  PROVE  /\ ~NoneOf(type, h) <=> Has(ops, type, h)
         /\ Unique(ops, h) /\ type # "ACCEPT" /\ Has(ops, type, h) => Single(type, h)
<1>1. BagToSet(ops) = DOMAIN ops
  BY DEF BagToSet
<1>2. ~NoneOf(type, h) <=> Has(ops, type, h)
  BY <1>1 DEF NoneOf, Outstanding, Has
<1>3. ASSUME Unique(ops, h), type # "ACCEPT", Has(ops, type, h)  PROVE Single(type, h)
  <2>1. PICK x \in DOMAIN ops : x.iOPType = type /\ x.kHScoket = h
    BY <1>3 DEF Has
  <2>2. Outstanding(type, h) = {x} /\ ops[x] = 1
    BY <1>1, <1>3, <2>1 DEF Unique, Outstanding
  <2>. QED  BY <1>1, <2>1, <2>2 DEF Single
<1>. QED  BY <1>2, <1>3

(* No event bit of a connection stands for an operation that is not        *)
(* outstanding, and none waits for a connect that is not, whatever earlier *)
(* uses of the slot left behind; where they left nothing that names it,    *)
(* the bits are exact, with one operation of a type at most.               *)
THEOREM OperationsAgree == Spec => []OperationsMatch
<1>1. ASSUME IInv, NEW i \in Slots, IsConnection(sock[i])
      PROVE  BitsBacked(sock[i]) /\ (i \notin retaken => BitsExact(sock[i]))
  <2> DEFINE s == sock[i]
             h == sock[i].kHSocket
  <2>1. SlotInv
    BY <1>1 DEF IInv
  <2>2. \A type \in IOTypes :
          /\ ~NoneOf(type, h) <=> Has(ops, type, h)
          /\ Unique(ops, h) /\ Has(ops, type, h) => Single(type, h)
    BY HasOperation DEF IOTypes
  <2>3. CASE s.usStatus = "INIT"
    BY <2>3 DEF BitsBacked, BitsExact
  <2>4. CASE s.usStatus # "INIT"
    <3>1. MatchOK(s, ops, i \notin retaken)
      BY <2>1, <2>4, SlotFacts
    <3>2. BitsBacked(s)
      BY <1>1, <2>2, <3>1 DEF MatchOK, Backed, BitsBacked, IOTypes
    <3>3. ASSUME i \notin retaken  PROVE BitsExact(s)
      <4>1. Exact(s, ops) /\ Backed(s, ops)
        BY <3>1, <3>3 DEF MatchOK
      <4>. QED  BY <1>1, <2>2, <4>1 DEF Exact, Backed, BitsExact, OpenStates, IOTypes
    <3>. QED  BY <3>2, <3>3
  <2>. QED  BY <2>3, <2>4
<1>2. IInv => OperationsMatch
  BY <1>1 DEF OperationsMatch, OfType, IsConnection
<1>. QED  BY <1>2, Invariance, PTL

-----------------------------------------------------------------------------
(***************************************************************************)
(* WinCore implements ConnLifecycle.  Each step of the program, of         *)
(* SeNetCoreRead and of the port is a step of the abstract specification   *)
(* or changes nothing of it; or else, in a build without assertions, a     *)
(* connect that ended has found a connection announced already.            *)
(***************************************************************************)
LEMMA ChangedOne ==
  ASSUME SlotInv, NEW i \in Slots, NEW s, sock' = [sock EXCEPT ![i] = s]
  PROVE  sock'[i] = s /\ \A j \in Slots \ {i} : sock'[j] = sock[j]
BY DEF SlotInv, TableOK, MgrTypeOK

(* What a slot with record s shows.                                        *)
StageFor(s) ==
  CASE s.usStatus = "INIT" -> "free"
    [] s.usStatus \in {"CONNECTING", "CONNECTED", "CONNECTED_FAILED"} -> "opening"
    [] s.usStatus = "ACTIVECONNECT" -> IF s.iTypeSocket = "LISTEN" THEN "listening" ELSE "open"
    [] s.usStatus = "DISCONNECT" -> "closing"
    [] s.usStatus = "COMM_IDLE" -> "closed"

ConnFor(s) == [stage |-> StageFor(s), out |-> s.iTypeSocket = "CLIENT", h |-> s.kHSocket]

LEMMA StageFacts ==
  ASSUME NEW s
  PROVE  /\ s.usStatus = "INIT" => StageFor(s) = "free"
         /\ s.usStatus \in {"CONNECTING", "CONNECTED", "CONNECTED_FAILED"} =>
              StageFor(s) = "opening"
         /\ s.usStatus = "ACTIVECONNECT" =>
              StageFor(s) = IF s.iTypeSocket = "LISTEN" THEN "listening" ELSE "open"
         /\ s.usStatus = "DISCONNECT" => StageFor(s) = "closing"
         /\ s.usStatus = "COMM_IDLE" => StageFor(s) = "closed"
BY DEF StageFor

LEMMA ConnsAre ==
  /\ Conn = [i \in Slots |-> ConnFor(sock[i])]
  /\ Conn' = [i \in Slots |-> ConnFor(sock'[i])]
BY DEF Conn, ConnFor, StageOf, StageFor

(* A step that changes one slot changes one connection.                    *)
LEMMA OneConn ==
  ASSUME SlotInv, NEW i \in Slots, NEW s, sock' = [sock EXCEPT ![i] = s]
  PROVE  Conn' = [Conn EXCEPT ![i] = ConnFor(s)] /\ Conn[i] = ConnFor(sock[i])
<1>1. sock'[i] = s /\ \A j \in Slots \ {i} : sock'[j] = sock[j]
  BY ChangedOne
<1>. QED  BY <1>1, ConnsAre

(* One that leaves what is shown of the slot changes none.                 *)
LEMMA NoConn ==
  ASSUME SlotInv, NEW i \in Slots, NEW s, sock' = [sock EXCEPT ![i] = s],
         ConnFor(s) = ConnFor(sock[i])
  PROVE  Conn' = Conn
<1>1. sock'[i] = s /\ \A j \in Slots \ {i} : sock'[j] = sock[j]
  BY ChangedOne
<1>2. \A j \in Slots : ConnFor(sock'[j]) = ConnFor(sock[j])
  BY <1>1
<1>. QED  BY <1>2, ConnsAre

LEMMA SameSock == UNCHANGED sock => Conn' = Conn
BY ConnsAre

-----------------------------------------------------------------------------
(* The steps of the abstract specification, for the state shown.           *)

LEMMA OpenMaps ==
  ASSUME NEW i \in Slots, NEW t \in 0 .. MaxClock, NEW out \in BOOLEAN,
         NEW s \in {"opening", "listening"},
         Conn[i] = [stage |-> "free", out |-> FALSE, h |-> NoHandle],
         Conn' = [Conn EXCEPT ![i] = [stage |-> s, out |-> out, h |-> Handle(i, t)]],
         UNCHANGED ev
  PROVE  Lifecycle!Next
<1>1. Lifecycle!Open(i)
  BY DEF Conn, Lifecycle!Open, Lifecycle!Free
<1>. QED  BY <1>1 DEF Lifecycle!Next

LEMMA CallMaps ==
  ASSUME ev # NoEvent, ev' = NoEvent, Conn' = Conn  PROVE Lifecycle!Next
BY DEF Conn, Lifecycle!Next, Lifecycle!Call

LEMMA ConnectMaps ==
  ASSUME ev = NoEvent, NEW i \in Slots, Conn[i].stage = "opening",
         Conn' = [Conn EXCEPT ![i].stage = "open"], ev' = Event("CONNECT", Conn[i].h)
  PROVE  Lifecycle!Next
<1>1. Lifecycle!Connect(i)
  BY DEF Conn, Lifecycle!Connect, Lifecycle!Stage, Lifecycle!Event, Event
<1>. QED  BY <1>1 DEF Lifecycle!Next, Lifecycle!Deliver

LEMMA ConnectFailedMaps ==
  ASSUME ev = NoEvent, NEW i \in Slots, Conn[i].stage = "opening", Conn[i].out,
         Conn' = [Conn EXCEPT ![i] = [stage |-> "free", out |-> FALSE, h |-> NoHandle]],
         ev' = Event("CONNECT_FAILED", Conn[i].h)
  PROVE  Lifecycle!Next
<1>1. Lifecycle!ConnectFailed(i)
  BY DEF Conn, Lifecycle!ConnectFailed, Lifecycle!Free, Lifecycle!Event, Event
<1>. QED  BY <1>1 DEF Lifecycle!Next, Lifecycle!Deliver

LEMMA CloseMaps ==
  ASSUME NEW i \in Slots, Conn[i].stage = "open",
         Conn' = [Conn EXCEPT ![i].stage = "closing"]
  PROVE  Lifecycle!Close(i)
BY DEF Conn, Lifecycle!Close, Lifecycle!Stage

LEMMA RecvDataMaps ==
  ASSUME ev = NoEvent, NEW i \in Slots, Conn[i].stage = "open",
         \A j \in Slots : /\ Conn[j].stage \notin {"closing", "closed"}
                          /\ Conn[j].stage = "opening" => Conn[j].out,
         Conn' = Conn, ev' = Event("RECV_DATA", Conn[i].h)
  PROVE  Lifecycle!Next
<1>1. Lifecycle!RecvData(i)
  BY DEF Conn, Lifecycle!RecvData, Lifecycle!Reported, Lifecycle!Event, Event
<1>. QED  BY <1>1 DEF Lifecycle!Next, Lifecycle!Deliver

LEMMA DisconnectedMaps ==
  ASSUME ev = NoEvent, NEW i \in Slots, Conn[i].stage = "closing",
         Conn' = [Conn EXCEPT ![i].stage = "closed"], ev' = Event("DISCONNECT", Conn[i].h)
  PROVE  Lifecycle!Next
<1>1. Lifecycle!Disconnected(i)
  BY DEF Conn, Lifecycle!Disconnected, Lifecycle!Stage, Lifecycle!Event, Event
<1>. QED  BY <1>1 DEF Lifecycle!Next, Lifecycle!Deliver

LEMMA ReleaseMaps ==
  ASSUME ev = NoEvent, NEW i \in Slots, Conn[i].stage = "closed",
         Conn' = [Conn EXCEPT ![i] = [stage |-> "free", out |-> FALSE, h |-> NoHandle]],
         UNCHANGED ev
  PROVE  Lifecycle!Next
<1>1. Lifecycle!Release(i)
  BY DEF Conn, Lifecycle!Release, Lifecycle!Free
<1>. QED  BY <1>1 DEF Lifecycle!Next

LEMMA IdleMaps ==
  ASSUME ev = NoEvent, Conn' = Conn, ev' = Event("IDLE", NoHandle)  PROVE Lifecycle!Next
BY DEF Conn, Lifecycle!Next, Lifecycle!Idle, Lifecycle!Event, Event

LEMMA TimerMaps ==
  ASSUME ev = NoEvent, ev' = Event("TIMER", NoHandle),
         Conn' = Conn \/ \E i \in Slots : Lifecycle!Close(i)
  PROVE  Lifecycle!Next
<1>1. Lifecycle!Timer
  BY DEF Conn, Lifecycle!Timer, Lifecycle!Event, Event
<1>. QED  BY <1>1 DEF Lifecycle!Next

-----------------------------------------------------------------------------
(* What the handlers have in common.                                       *)

Implemented == Lifecycle!Next \/ (Conn' = Conn /\ UNCHANGED ev)

LEMMA StageChange ==
  ASSUME SlotInv, NEW i \in Slots, NEW s, sock' = [sock EXCEPT ![i] = s],
         s.iTypeSocket = sock[i].iTypeSocket, s.kHSocket = sock[i].kHSocket
  PROVE  /\ Conn' = [Conn EXCEPT ![i].stage = StageFor(s)]
         /\ Conn[i].stage = StageFor(sock[i]) /\ Conn[i].h = sock[i].kHSocket
         /\ StageFor(s) = StageFor(sock[i]) => Conn' = Conn
<1>1. ConnFor(s) = [ConnFor(sock[i]) EXCEPT !.stage = StageFor(s)]
  BY DEF ConnFor
<1>2. Conn' = [Conn EXCEPT ![i] = ConnFor(s)] /\ Conn[i] = ConnFor(sock[i])
  BY OneConn
<1>3. StageFor(s) = StageFor(sock[i]) => ConnFor(s) = ConnFor(sock[i])
  BY DEF ConnFor
<1>4. StageFor(s) = StageFor(sock[i]) => Conn' = Conn
  BY <1>3, NoConn
<1>5. Conn' = [Conn EXCEPT ![i].stage = StageFor(s)]
  BY <1>1, <1>2
<1>6. Conn[i].stage = StageFor(sock[i]) /\ Conn[i].h = sock[i].kHSocket
  BY <1>2 DEF ConnFor
<1>. QED  BY <1>4, <1>5, <1>6

LEMMA SameIdentityLife ==
  ASSUME SlotInv, NEW i \in Slots, NEW s, sock' = [sock EXCEPT ![i] = s],
         SameIdentity(sock[i], s)
  PROVE  Conn' = Conn
<1>1. ConnFor(s) = ConnFor(sock[i])
  BY DEF ConnFor, StageFor, SameIdentity
<1>. QED  BY <1>1, NoConn

LEMMA DisconnectedLife ==
  ASSUME SlotInv, NEW i \in Slots, NEW s \in SlotRecord, SameIdentity(sock[i], s),
         MayDisconnect(sock[i]), sock' = [sock EXCEPT ![i] = Disconnected(s)]
  PROVE  Conn' = Conn \/ Lifecycle!Close(i)
<1> DEFINE t == Disconnected(s)
<1>1. /\ t.iTypeSocket = sock[i].iTypeSocket /\ t.kHSocket = sock[i].kHSocket
      /\ sock[i].usStatus = "CONNECTING" => t.usStatus = "CONNECTED_FAILED"
      /\ sock[i].usStatus = "ACTIVECONNECT" => t.usStatus = "DISCONNECT"
      /\ sock[i].usStatus \in {"CONNECTING", "ACTIVECONNECT"} /\ sock[i].iTypeSocket # "LISTEN"
  BY DEF Disconnected, SlotRecord, SameIdentity, MayDisconnect, IsConnection
<1>2. sock' = [sock EXCEPT ![i] = t]
  OBVIOUS
<1> HIDE DEF t
<1>3. /\ Conn' = [Conn EXCEPT ![i].stage = StageFor(t)]
      /\ Conn[i].stage = StageFor(sock[i])
      /\ StageFor(t) = StageFor(sock[i]) => Conn' = Conn
  BY <1>1, <1>2, StageChange
<1>4. CASE sock[i].usStatus = "CONNECTING"
  <2>1. StageFor(t) = "opening" /\ StageFor(sock[i]) = "opening"
    BY <1>1, <1>4, StageFacts
  <2>. QED  BY <1>3, <2>1
<1>5. CASE sock[i].usStatus = "ACTIVECONNECT"
  <2>1. StageFor(t) = "closing" /\ StageFor(sock[i]) = "open"
    BY <1>1, <1>5, StageFacts
  <2>. QED  BY <1>3, <2>1, CloseMaps
<1>. QED  BY <1>1, <1>4, <1>5

LEMMA DisconnectLife ==
  ASSUME SlotInv, NEW i \in Slots, NEW s \in SlotRecord, SameIdentity(sock[i], s),
         MayDisconnect(sock[i]), NEW sendList, Disconnect(i, s, sendList)
  PROVE  Conn' = Conn \/ Lifecycle!Close(i)
BY DisconnectedLife DEF Disconnect

LEMMA CloseLife ==
  ASSUME NEW i \in Slots, Conn' = Conn \/ Lifecycle!Close(i), UNCHANGED ev
  PROVE  Implemented
BY DEF Implemented, Lifecycle!Next

LEMMA DelLife ==
  ASSUME SlotInv, NEW i \in Slots, MgrDel(i)
  PROVE  /\ Conn' = [Conn EXCEPT ![i] = [stage |-> "free", out |-> FALSE, h |-> NoHandle]]
         /\ Conn[i] = ConnFor(sock[i])
<1> DEFINE r == MgrEnd(Reset(sock[i]))
<1>1. sock[i] \in SlotRecord /\ sock' = [sock EXCEPT ![i] = r]
  BY DEF SlotInv, TableOK, MgrTypeOK, MgrDel
<1>2. r.usStatus = "INIT" /\ r.iTypeSocket = "NONE" /\ r.kHSocket = NoHandle
  BY <1>1, ResetSlot
<1> HIDE DEF r
<1>3. StageFor(r) = "free"
  BY <1>2, StageFacts
<1>4. ConnFor(r) = [stage |-> "free", out |-> FALSE, h |-> NoHandle]
  BY <1>2, <1>3 DEF ConnFor
<1>. QED  BY <1>1, <1>4, OneConn

(* A slot of kMainList shows a free connection.                            *)
LEMMA FreeLife ==
  ASSUME SlotInv, NEW i \in Slots, i \in Members(kMainList)
  PROVE  Conn[i] = [stage |-> "free", out |-> FALSE, h |-> NoHandle]
<1>1. sock[i].usStatus = "INIT" /\ sock[i].iTypeSocket = "NONE" /\ sock[i].kHSocket = NoHandle
  BY DEF SlotInv, TableOK, SlotPartition
<1>2. StageFor(sock[i]) = "free"
  BY <1>1, StageFacts
<1>. QED  BY <1>1, <1>2, ConnsAre DEF ConnFor

LEMMA AddLife ==
  ASSUME IInv, NEW i, NEW s, MgrAdd(i, s), s.kHSocket = Handle(i, clock),
         \/ s.usStatus \in {"CONNECTING", "CONNECTED"}
         \/ s.usStatus = "ACTIVECONNECT" /\ s.iTypeSocket = "LISTEN",
         UNCHANGED ev
  PROVE  Lifecycle!Next
<1>1. SlotInv /\ i \in Slots /\ i \in Members(kMainList) /\ sock' = [sock EXCEPT ![i] = s]
  BY TableLists, TailList DEF IInv, SlotInv, MgrAdd, MgrFull, FreeSlot
<1>2. StageFor(s) \in {"opening", "listening"}
  BY StageFacts
<1>3. clock \in 0 .. MaxClock
  BY DEF IInv, CtlOK
<1>4. ConnFor(s) = [stage |-> StageFor(s), out |-> s.iTypeSocket = "CLIENT",
                    h |-> Handle(i, clock)]
  BY DEF ConnFor
<1>5. Conn' = [Conn EXCEPT ![i] = ConnFor(s)]
  BY <1>1, OneConn
<1>. QED  BY <1>1, <1>2, <1>3, <1>4, <1>5, FreeLife, OpenMaps

-----------------------------------------------------------------------------
(* Calls of the program.                                                   *)

LEMMA TCPListenLife == ASSUME IInv, TCPListen  PROVE Lifecycle!Next
<1> DEFINE i == FreeSlot
           s == [NewSlot(i, NewFd, "LISTEN", clock) EXCEPT !.usStatus = "ACTIVECONNECT"]
<1>1. MgrAdd(i, s) /\ UNCHANGED ev /\ CanOpen /\ IInv
  BY DEF TCPListen, ctlVars
<1>2. /\ MgrTypeOK /\ "LISTEN" \in Types /\ "ACTIVECONNECT" \in Statuses
      /\ NewFd \in Fds /\ i \in Slots /\ clock \in Nat
  BY <1>1, OpensFree DEF IInv, SlotInv, TableOK, Types, Statuses
<1>3. /\ s \in SlotRecord /\ s.usStatus = "ACTIVECONNECT" /\ s.iTypeSocket = "LISTEN"
      /\ s.kSocket = NewFd /\ s.kHSocket = Handle(i, clock)
  BY <1>2, PreparedSlot
<1> HIDE DEF s
<1>. QED  BY <1>1, <1>3, AddLife

LEMMA TCPClientLife == ASSUME IInv, TCPClient  PROVE Lifecycle!Next
<1> DEFINE i == FreeSlot
           s == [NewSlot(i, NewFd, "CLIENT", clock) EXCEPT !.usStatus = "CONNECTING"]
<1>1. MgrAdd(i, s) /\ UNCHANGED ev /\ CanOpen /\ IInv
  BY DEF TCPClient, ctlVars
<1>2. /\ MgrTypeOK /\ "CLIENT" \in Types /\ "CONNECTING" \in Statuses
      /\ NewFd \in Fds /\ i \in Slots /\ clock \in Nat
  BY <1>1, OpensFree DEF IInv, SlotInv, TableOK, Types, Statuses
<1>3. /\ s \in SlotRecord /\ s.usStatus = "CONNECTING" /\ s.iTypeSocket = "CLIENT"
      /\ s.kSocket = NewFd /\ s.kHSocket = Handle(i, clock)
      /\ s.recv = sock[i].recv /\ s.send = sock[i].send
  BY <1>2, PreparedSlot
<1> HIDE DEF s
<1>. QED  BY <1>1, <1>3, AddLife

(* A slot taken and given back shows nothing.                              *)
LEMMA TCPClientFailsLife == ASSUME IInv, TCPClientFails  PROVE Implemented
<1>1. PICK i \in Slots :
        /\ sock' = [sock EXCEPT ![i] = MgrEnd(Reset(sock[i]))]
        /\ i \in Members(kMainList)
  BY TableLists, TailList DEF IInv, SlotInv, TCPClientFails, MgrAddThenDel, MgrFull, FreeSlot
<1> DEFINE r == MgrEnd(Reset(sock[i]))
<1>2. /\ sock[i] \in SlotRecord /\ SlotInv /\ sock' = [sock EXCEPT ![i] = r] /\ UNCHANGED ev
      /\ sock[i].usStatus = "INIT" /\ sock[i].iTypeSocket = "NONE"
      /\ sock[i].kHSocket = NoHandle
  BY <1>1 DEF IInv, SlotInv, TableOK, MgrTypeOK, SlotPartition, TCPClientFails, ctlVars
<1>3. r.usStatus = "INIT" /\ r.iTypeSocket = "NONE" /\ r.kHSocket = NoHandle
  BY <1>2, ResetSlot
<1> HIDE DEF r
<1>4. StageFor(r) = "free" /\ StageFor(sock[i]) = "free"
  BY <1>2, <1>3, StageFacts
<1>5. ConnFor(r) = ConnFor(sock[i])
  BY <1>2, <1>3, <1>4 DEF ConnFor
<1>6. Conn' = Conn
  BY <1>1, <1>2, <1>5, NoConn
<1>. QED  BY <1>2, <1>6 DEF Implemented

LEMMA SendLife == ASSUME IInv, NEW i \in Slots, Send(i)  PROVE Implemented
<1>1. PICK n \in 0 .. MaxOut - sock[i].send : sock' = [sock EXCEPT ![i].send = @ + n]
  BY DEF Send
<1> DEFINE s == [sock[i] EXCEPT !.send = @ + n]
<1>2. SlotInv /\ sock[i] \in SlotRecord /\ UNCHANGED ev /\ sock' = [sock EXCEPT ![i] = s]
  BY <1>1 DEF IInv, SlotInv, TableOK, MgrTypeOK, Send, ctlVars
<1>3. SameIdentity(sock[i], s)
  BY <1>2 DEF SlotRecord, SameIdentity
<1> HIDE DEF s
<1>. QED  BY <1>2, <1>3, SameIdentityLife DEF Implemented

LEMMA AppDisconnectLife == ASSUME IInv, NEW i \in Slots, AppDisconnect(i)  PROVE Implemented
<1>1. /\ SlotInv /\ sock[i] \in SlotRecord /\ SameIdentity(sock[i], sock[i])
      /\ MayDisconnect(sock[i]) /\ Disconnect(i, sock[i], kSendList) /\ UNCHANGED ev
  BY DEF IInv, SlotInv, TableOK, MgrTypeOK, SameIdentity, AppDisconnect, ctlVars
<1>. QED  BY <1>1, DisconnectLife, CloseLife

-----------------------------------------------------------------------------
(* SeNetCoreProcess.                                                       *)

(* The slot whose turn it is, while a call is served.                      *)
LEMMA ServedSlot ==
  ASSUME IInv, NEW i \in Slots, NEW status, Popping(i, status)
  PROVE  /\ SlotInv /\ ev = NoEvent /\ sock[i].usStatus = status /\ sock[i] \in SlotRecord
         /\ IsConnection(sock[i]) /\ StatusFits(sock[i], TRUE, Sure(i))
BY PoppedFacts DEF IInv, CtlOK, Popping

(* Starting an operation does not change what the slot is.                 *)
LEMMA StartLife ==
  ASSUME NEW s \in SlotRecord, NEW o, NEW r \in RecvBuf(s, o) \cup SendBuf(s, o)
  PROVE  r.s \in SlotRecord /\ SameIdentity(s, r.s)
<1> DEFINE rest == [s EXCEPT !.send = s.send - Chunk(s)]
<1>1. s.send - Chunk(s) \in Nat
  BY ChunkOK
<1>2. rest \in SlotRecord /\ SameIdentity(s, rest) /\ SameIdentity(s, s)
  BY <1>1 DEF SlotRecord, SameIdentity
<1>3. r.s \in {s, AddEvent(s, "READ"), rest, AddEvent(rest, "WRITE")}
  BY DEF RecvBuf, SendBuf, Result
<1> HIDE DEF rest
<1>4. /\ AddEvent(s, "READ") \in SlotRecord /\ SameIdentity(s, AddEvent(s, "READ"))
      /\ AddEvent(rest, "WRITE") \in SlotRecord /\ SameIdentity(rest, AddEvent(rest, "WRITE"))
  BY <1>2, EventBitsOK DEF EventBits
<1>. QED  BY <1>2, <1>3, <1>4 DEF SameIdentity

LEMMA SettleLife ==
  ASSUME SlotInv, NEW i \in Slots, MayDisconnect(sock[i]), NEW r, r.s \in SlotRecord,
         SameIdentity(sock[i], r.s), NEW sendList, Settle(i, r, sendList), UNCHANGED ev
  PROVE  Implemented
<1>1. CASE sock' = [sock EXCEPT ![i] = r.s]
  BY <1>1, SameIdentityLife DEF Implemented
<1>2. CASE Disconnect(i, r.s, sendList)
  BY <1>2, DisconnectLife, CloseLife
<1>. QED  BY <1>1, <1>2 DEF Settle

LEMMA ProcessConnectedLife ==
  ASSUME IInv, NEW i \in Slots, ProcessConnected(i)  PROVE Lifecycle!Next
<1> DEFINE b == ClearEvent(ClearEvent(sock[i], "READ"), "WRITE")
           s == [b EXCEPT !.usStatus = "ACTIVECONNECT", !.llTime = clock]
<1>1. PICK r \in RecvBuf(s, ops) : sock' = [sock EXCEPT ![i] = r.s]
  BY DEF ProcessConnected
<1>2. /\ SlotInv /\ ev = NoEvent /\ sock[i].usStatus = "CONNECTED" /\ sock[i] \in SlotRecord
      /\ IsConnection(sock[i]) /\ ev' = Event("CONNECT", sock[i].kHSocket)
  BY ServedSlot DEF ProcessConnected, Return
<1>0. clock \in Nat
  BY Bounds DEF IInv, CtlOK
<1>3. b \in SlotRecord /\ SameIdentity(sock[i], b)
  <2>1. ClearEvent(sock[i], "READ") \in SlotRecord /\ SameIdentity(sock[i], ClearEvent(sock[i], "READ"))
    BY <1>2, EventBitsOK DEF EventBits
  <2>2. b \in SlotRecord /\ SameIdentity(ClearEvent(sock[i], "READ"), b)
    BY <2>1, EventBitsOK DEF EventBits
  <2>. QED  BY <2>1, <2>2 DEF SameIdentity
<1> HIDE DEF b
<1>4. /\ s \in SlotRecord /\ s.usStatus = "ACTIVECONNECT" /\ s.iTypeSocket = sock[i].iTypeSocket
      /\ s.kHSocket = sock[i].kHSocket
  BY <1>0, <1>3 DEF SlotRecord, Statuses, SameIdentity
<1> HIDE DEF s
<1>5. /\ r.s.usStatus = "ACTIVECONNECT" /\ r.s.iTypeSocket = sock[i].iTypeSocket
      /\ r.s.kHSocket = sock[i].kHSocket
  BY <1>4, StartLife DEF SameIdentity
<1>6. StageFor(r.s) = "open" /\ StageFor(sock[i]) = "opening"
  BY <1>2, <1>5, StageFacts DEF IsConnection
<1>7. /\ Conn' = [Conn EXCEPT ![i].stage = StageFor(r.s)]
      /\ Conn[i].stage = StageFor(sock[i]) /\ Conn[i].h = sock[i].kHSocket
  BY <1>1, <1>2, <1>5, StageChange
<1>8. Conn' = [Conn EXCEPT ![i].stage = "open"] /\ Conn[i].stage = "opening"
  BY <1>6, <1>7
<1>. QED  BY <1>2, <1>7, <1>8, ConnectMaps

LEMMA ProcessConnectFailedLife ==
  ASSUME IInv, NEW i \in Slots, ProcessConnectFailed(i)  PROVE Lifecycle!Next
<1>1. /\ SlotInv /\ MgrDel(i) /\ sock[i].usStatus = "CONNECTED_FAILED" /\ ev = NoEvent
      /\ ev' = Event("CONNECT_FAILED", sock[i].kHSocket) /\ StatusFits(sock[i], TRUE, Sure(i))
  BY ServedSlot DEF ProcessConnectFailed, Return
<1>2. sock[i].iTypeSocket = "CLIENT" /\ StageFor(sock[i]) = "opening"
  BY <1>1, StageFacts DEF StatusFits
<1>3. /\ Conn' = [Conn EXCEPT ![i] = [stage |-> "free", out |-> FALSE, h |-> NoHandle]]
      /\ Conn[i] = ConnFor(sock[i])
  BY <1>1, DelLife
<1>4. /\ ConnFor(sock[i]).stage = StageFor(sock[i]) /\ ConnFor(sock[i]).h = sock[i].kHSocket
      /\ ConnFor(sock[i]).out = (sock[i].iTypeSocket = "CLIENT")
  BY DEF ConnFor
<1>5. Conn[i].stage = "opening" /\ Conn[i].out /\ Conn[i].h = sock[i].kHSocket
  BY <1>2, <1>3, <1>4
<1>. QED  BY <1>1, <1>3, <1>5, ConnectFailedMaps

LEMMA ProcessDisconnectLife ==
  ASSUME IInv, NEW i \in Slots, ProcessDisconnect(i)  PROVE Lifecycle!Next
<1> DEFINE s == [sock[i] EXCEPT !.usStatus = "COMM_IDLE"]
<1>1. /\ SlotInv /\ sock[i].usStatus = "DISCONNECT" /\ ev = NoEvent
      /\ sock' = [sock EXCEPT ![i] = s] /\ sock[i] \in SlotRecord
      /\ ev' = Event("DISCONNECT", sock[i].kHSocket)
  BY ServedSlot DEF ProcessDisconnect, SlotInv, TableOK, MgrTypeOK, Return
<1>2. /\ s.usStatus = "COMM_IDLE" /\ s.iTypeSocket = sock[i].iTypeSocket
      /\ s.kHSocket = sock[i].kHSocket
  BY <1>1 DEF SlotRecord
<1> HIDE DEF s
<1>3. StageFor(s) = "closed" /\ StageFor(sock[i]) = "closing"
  BY <1>1, <1>2, StageFacts
<1>4. /\ Conn' = [Conn EXCEPT ![i].stage = StageFor(s)]
      /\ Conn[i].stage = StageFor(sock[i]) /\ Conn[i].h = sock[i].kHSocket
  <2>1. SlotInv /\ sock' = [sock EXCEPT ![i] = s]
    BY <1>1
  <2>. QED  BY <2>1, <1>2, StageChange
<1>5. Conn' = [Conn EXCEPT ![i].stage = "closed"] /\ Conn[i].stage = "closing"
  BY <1>3, <1>4
<1>. QED  BY <1>1, <1>4, <1>5, DisconnectedMaps

LEMMA ProcessCommIdleLife ==
  ASSUME IInv, NEW i \in Slots, ProcessCommIdle(i)  PROVE Lifecycle!Next
<1>1. /\ SlotInv /\ MgrDel(i) /\ sock[i].usStatus = "COMM_IDLE" /\ ev = NoEvent
      /\ UNCHANGED ev
  BY ServedSlot DEF ProcessCommIdle, ctlVars
<1>2. /\ Conn' = [Conn EXCEPT ![i] = [stage |-> "free", out |-> FALSE, h |-> NoHandle]]
      /\ Conn[i] = ConnFor(sock[i])
  BY <1>1, DelLife
<1>3. ConnFor(sock[i]).stage = StageFor(sock[i]) /\ StageFor(sock[i]) = "closed"
  BY <1>1, StageFacts DEF ConnFor
<1>4. Conn[i].stage = "closed"
  BY <1>2, <1>3
<1>. QED  BY <1>1, <1>2, <1>4, ReleaseMaps

LEMMA ProcessSendLife ==
  ASSUME IInv, NEW i \in Slots, ProcessSend(i)  PROVE Implemented
<1>1. PICK r \in SendBuf(sock[i], ops) : Settle(i, r, Tail(kSendList))
  BY DEF ProcessSend
<1>2. SlotInv /\ sock[i] \in SlotRecord /\ MayDisconnect(sock[i]) /\ UNCHANGED ev
  BY ServedSlot DEF ProcessSend, MayDisconnect, ctlVars
<1>3. r.s \in SlotRecord /\ SameIdentity(sock[i], r.s)
  BY <1>2, StartLife
<1>. QED  BY <1>1, <1>2, <1>3, SettleLife

(* Data is delivered when nothing else is left to report.                  *)
LEMMA ProcessRecvLife ==
  ASSUME IInv, NEW i \in Slots, ProcessRecv(i)  PROVE Lifecycle!Next
<1> DEFINE s == [sock[i] EXCEPT !.recv = @ - FrameLen]
<1>1. /\ SlotInv /\ sock[i] \in SlotRecord /\ sock' = [sock EXCEPT ![i] = s]
      /\ kSendList = <<>> /\ sock[i].usStatus = "ACTIVECONNECT" /\ ev = NoEvent
      /\ i \in Members(kRecvList)
  BY TableLists, TailList
     DEF ProcessRecv, Reading, IInv, CtlOK, SlotInv, TableOK, MgrTypeOK
<1>2. SameIdentity(sock[i], s)
  BY <1>1 DEF SlotRecord, SameIdentity
<1>3. ev' = Event("RECV_DATA", sock[i].kHSocket)
  <2>1. ev' = Event("RECV_DATA", s.kHSocket)
    BY DEF ProcessRecv, Return
  <2> HIDE DEF s
  <2>. QED  BY <1>2, <2>1 DEF SameIdentity
<1> HIDE DEF s
<1>4. IsConnection(sock[i])
  BY <1>1 DEF SlotInv, StatusOK
<1>5. \A j \in Slots : Conn[j] = ConnFor(sock[j])
  BY ConnsAre
<1>6. Conn[i].stage = "open" /\ Conn[i].h = sock[i].kHSocket
  <2>1. StageFor(sock[i]) = "open"
    BY <1>1, <1>4, StageFacts DEF IsConnection
  <2>2. ConnFor(sock[i]).stage = StageFor(sock[i]) /\ ConnFor(sock[i]).h = sock[i].kHSocket
    BY DEF ConnFor
  <2>. QED  BY <1>5, <2>1, <2>2
<1>7. ASSUME NEW j \in Slots
      PROVE  /\ Conn[j].stage \notin {"closing", "closed"}
             /\ Conn[j].stage = "opening" => Conn[j].out
  <2>1. /\ sock[j].usStatus \in {"INIT", "CONNECTING", "ACTIVECONNECT"}
        /\ sock[j].usStatus = "CONNECTING" => sock[j].iTypeSocket = "CLIENT"
    <3>1. j \notin Members(kSendList) /\ sock[j].usStatus \in Statuses
      BY <1>1, EmptyList DEF SlotInv, TableOK, MgrTypeOK, SlotRecord
    <3>. QED  BY <1>1, <3>1 DEF SlotInv, StatusOK, StatusFits, MustReport, Statuses
  <2>2. /\ StageFor(sock[j]) \notin {"closing", "closed"}
        /\ StageFor(sock[j]) = "opening" => sock[j].usStatus = "CONNECTING"
    BY <2>1, StageFacts
  <2>3. /\ ConnFor(sock[j]).stage = StageFor(sock[j])
        /\ ConnFor(sock[j]).out = (sock[j].iTypeSocket = "CLIENT")
    BY DEF ConnFor
  <2>. QED  BY <1>5, <2>1, <2>2, <2>3
<1>8. Conn' = Conn
  BY <1>1, <1>2, SameIdentityLife
<1>. QED  BY <1>1, <1>3, <1>6, <1>7, <1>8, RecvDataMaps

LEMMA ProcessRecvSkipsLife ==
  ASSUME IInv, NEW i \in Slots, ProcessRecvSkips(i)  PROVE Implemented
<1>1. UNCHANGED <<sock, ev>>
  BY DEF ProcessRecvSkips, ctlVars
<1>. QED  BY <1>1, SameSock DEF Implemented

-----------------------------------------------------------------------------
(* Completions and the timer.                                              *)

LEMMA AcceptLife == ASSUME IInv, NEW o, NEW i \in Slots, Accept(o, i)  PROVE Implemented
<1>1. SlotInv /\ UNCHANGED ev /\ Completed(o, i, {"LISTEN"}, {"ACTIVECONNECT"})
  BY DEF IInv, Accept, Completed, Ended, GoOn
<1>2. CASE UNCHANGED sock
  BY <1>1, <1>2, SameSock DEF Implemented
<1>3. ASSUME NEW r \in SetAcceptSocket(AcceptEnded(kListenList, o.kHScoket), Finish(ops, o), open),
             NEW fd \in r.open, NEW s,
             s = [NewSlot(FreeSlot, fd, "ACCEPT", clock) EXCEPT !.usStatus = "CONNECTED"],
             MgrAdd(FreeSlot, s)
      PROVE  Lifecycle!Next
  <2>1. o \in DOMAIN ops /\ IndexOf(o.kHScoket) = i
    BY <1>1, CompletedFacts
  <2>2. fd \in Fds
    BY <1>1, <1>3, <2>1, AcceptTakenOK DEF AcceptTaken
  <2>3. /\ MgrTypeOK /\ "ACCEPT" \in Types /\ "CONNECTED" \in Statuses
        /\ FreeSlot \in Slots /\ clock \in Nat
    BY <1>3, TableLists, TailList, Bounds
       DEF IInv, CtlOK, SlotInv, TableOK, Types, Statuses, MgrAdd, MgrFull, FreeSlot
  <2>4. s.usStatus = "CONNECTED" /\ s.kHSocket = Handle(FreeSlot, clock)
    BY <1>3, <2>2, <2>3, PreparedSlot
  <2>. QED  BY <1>1, <1>3, <2>4, AddLife
<1>. QED  BY <1>2, <1>3 DEF Accept, Implemented

LEMMA ConnectedLife ==
  ASSUME IInv, NEW o, NEW i \in Slots, Connected(o, i)
  PROVE  Implemented \/ (~Asserts /\ Reannounced)
<1>1. /\ SlotInv /\ UNCHANGED ev /\ o.iOPType = "CONNECT"
      /\ Completed(o, i, {"CLIENT"}, {"CONNECTING", "ACTIVECONNECT"})
      /\ Asserts => sock[i].usStatus = "CONNECTING"
  BY DEF IInv, Connected, Completed, Ended, GoOn
<1>2. /\ IOFacts(o, i) /\ sock[i].iTypeSocket \in {"CLIENT"}
  BY <1>1, IOCompleted DEF Completed
<1>3. /\ sock[i] \in SlotRecord /\ MayDisconnect(sock[i]) /\ SameIdentity(sock[i], sock[i])
      /\ sock[i].usStatus \in {"CONNECTING", "ACTIVECONNECT"}
      /\ i \notin retaken => sock[i].usStatus = "CONNECTING"
  BY <1>1, <1>2 DEF IOFacts
<1>4. CASE Disconnect(i, sock[i], kSendList)
  BY <1>1, <1>3, <1>4, DisconnectLife, CloseLife
<1>5. CASE sock' = [sock EXCEPT ![i].usStatus = "CONNECTED", ![i].llTime = clock]
  <2> DEFINE s == [sock[i] EXCEPT !.usStatus = "CONNECTED", !.llTime = clock]
  <2>1. /\ s.iTypeSocket = sock[i].iTypeSocket /\ s.kHSocket = sock[i].kHSocket
        /\ s.usStatus = "CONNECTED"
    BY <1>3 DEF SlotRecord
  <2>2. sock' = [sock EXCEPT ![i] = s]
    BY <1>1, <1>5 DEF SlotInv, TableOK, MgrTypeOK
  <2> HIDE DEF s
  <2>3. /\ Conn' = [Conn EXCEPT ![i].stage = StageFor(s)]
        /\ Conn[i].stage = StageFor(sock[i])
        /\ StageFor(s) = StageFor(sock[i]) => Conn' = Conn
    BY <1>1, <2>1, <2>2, StageChange
  <2>4. StageFor(s) = "opening"
    BY <2>1, StageFacts
  <2>5. CASE sock[i].usStatus = "CONNECTING"
    <3>1. StageFor(sock[i]) = "opening"
      BY <2>5, StageFacts
    <3>. QED  BY <1>1, <2>3, <2>4, <3>1 DEF Implemented
  <2>6. CASE sock[i].usStatus = "ACTIVECONNECT"
    <3>1. StageFor(sock[i]) = "open"
      BY <1>2, <2>6, StageFacts
    <3>2. i \in retaken /\ ~Asserts
      BY <1>1, <1>3, <2>6
    <3>. QED  BY <1>1, <2>3, <2>4, <3>1, <3>2 DEF Reannounced
  <2>. QED  BY <1>3, <2>5, <2>6
<1>. QED  BY <1>4, <1>5 DEF Connected

(* The end of a send or a receive, or of whatever is taken for one.        *)
LEMMA ActiveSlot ==
  ASSUME IInv, NEW o, NEW i \in Slots, IsIO(o, i)
  PROVE  SlotInv /\ sock[i] \in SlotRecord /\ MayDisconnect(sock[i]) /\ UNCHANGED ev
<1>1. SlotInv /\ UNCHANGED ev
  BY DEF IInv, IsIO, Completed, Ended, GoOn
<1>. QED  BY <1>1, IsIOFacts DEF IOFacts

LEMMA SentLife == ASSUME IInv, NEW o, NEW i \in Slots, Sent(o, i)  PROVE Implemented
<1> DEFINE s == ClearEvent(sock[i], "WRITE")
<1>1. PICK r \in SendBuf(s, Finish(ops, o)) : Settle(i, r, kSendList)
  BY DEF Sent
<1>2. SlotInv /\ sock[i] \in SlotRecord /\ MayDisconnect(sock[i]) /\ UNCHANGED ev
  BY ActiveSlot DEF Sent, IsOp
<1>3. s \in SlotRecord /\ SameIdentity(sock[i], s)
  BY <1>2, EventBitsOK DEF EventBits
<1> HIDE DEF s
<1>4. r.s \in SlotRecord /\ SameIdentity(s, r.s)
  BY <1>3, StartLife
<1>5. SameIdentity(sock[i], r.s)
  BY <1>3, <1>4 DEF SameIdentity
<1>. QED  BY <1>1, <1>2, <1>4, <1>5, SettleLife

LEMMA SentPartlyLife == ASSUME IInv, NEW o, NEW i \in Slots, SentPartly(o, i)  PROVE Implemented
<1>1. SlotInv /\ sock[i] \in SlotRecord /\ MayDisconnect(sock[i]) /\ UNCHANGED ev
  BY ActiveSlot DEF SentPartly, IsOp
<1>2. PICK r : r.s = sock[i] /\ Settle(i, r, kSendList)
  BY DEF SentPartly, Result
<1>3. SameIdentity(sock[i], sock[i])
  BY DEF SameIdentity
<1>. QED  BY <1>1, <1>2, <1>3, SettleLife

LEMMA ReceivedLife == ASSUME IInv, NEW o, NEW i \in Slots, Received(o, i)  PROVE Implemented
<1> DEFINE c == ClearEvent(sock[i], "READ")
           s(n) == [c EXCEPT !.recv = c.recv + n, !.llTime = clock]
<1>1. PICK n \in 1 .. (MaxIn - sock[i].recv) :
        \E r \in RecvBuf(s(n), Finish(ops, o)) : Settle(i, r, kSendList)
  BY DEF Received
<1> DEFINE t == s(n)
<1>2. PICK r \in RecvBuf(t, Finish(ops, o)) : Settle(i, r, kSendList)
  BY <1>1
<1>3. SlotInv /\ sock[i] \in SlotRecord /\ MayDisconnect(sock[i]) /\ UNCHANGED ev
  BY ActiveSlot DEF Received, IsOp
<1>4. c \in SlotRecord /\ SameIdentity(sock[i], c)
  BY <1>3, EventBitsOK DEF EventBits
<1> HIDE DEF c
<1>5. clock \in Nat /\ c.recv + n \in Nat
  BY <1>4, Bounds DEF IInv, CtlOK, SlotRecord
<1>6. t \in SlotRecord /\ SameIdentity(c, t)
  BY <1>4, <1>5 DEF SlotRecord, SameIdentity
<1> HIDE DEF t
<1>7. r.s \in SlotRecord /\ SameIdentity(t, r.s)
  BY <1>6, StartLife
<1>8. SameIdentity(sock[i], r.s)
  BY <1>4, <1>6, <1>7 DEF SameIdentity
<1>. QED  BY <1>2, <1>3, <1>7, <1>8, SettleLife

LEMMA NoBytesLife == ASSUME IInv, NEW o, NEW i \in Slots, NoBytes(o, i)  PROVE Implemented
<1>1. SlotInv /\ sock[i] \in SlotRecord /\ MayDisconnect(sock[i]) /\ UNCHANGED ev
  BY ActiveSlot DEF NoBytes
<1>2. Disconnect(i, sock[i], kSendList) /\ SameIdentity(sock[i], sock[i])
  BY DEF NoBytes, SameIdentity
<1>. QED  BY <1>1, <1>2, DisconnectLife, CloseLife

LEMMA TimerLife == ASSUME IInv, Timer  PROVE Lifecycle!Next
<1> DEFINE i == Head(kActiveMainList)
<1>1. ev = NoEvent /\ ev' = Event("TIMER", NoHandle) /\ SlotInv
  BY DEF Timer, Return, IInv, CtlOK
<1>2. CASE ~(kActiveMainList # <<>> /\ Expired(sock[i]))
  <2>1. UNCHANGED sock
    BY <1>2 DEF Timer
  <2>. QED  BY <1>1, <2>1, SameSock, TimerMaps
<1>3. CASE kActiveMainList # <<>> /\ Expired(sock[i])
  <2>1. PICK j \in Slots : j = i
    BY <1>1, <1>3, TableLists, TailList DEF SlotInv
  <2>2. sock' = [sock EXCEPT ![j] = Disconnected(sock[j])]
    BY <1>3, <2>1 DEF Timer
  <2>3. sock[j] \in SlotRecord /\ SameIdentity(sock[j], sock[j]) /\ MayDisconnect(sock[j])
    BY <1>1, <1>3, <2>1 DEF SlotInv, TableOK, MgrTypeOK, SameIdentity, Expired
  <2> HIDE DEF i
  <2>4. Conn' = Conn \/ Lifecycle!Close(j)
    BY <1>1, <2>2, <2>3, DisconnectedLife
  <2>. QED  BY <1>1, <2>4, TimerMaps
<1>. QED  BY <1>2, <1>3

-----------------------------------------------------------------------------
LEMMA LifeStepOK == IInv /\ [Next]_vars => Implemented \/ (~Asserts /\ Reannounced)
<1> SUFFICES ASSUME IInv, [Next]_vars  PROVE Implemented \/ (~Asserts /\ Reannounced)
  OBVIOUS
<1>1. CASE Program
  BY <1>1, TCPListenLife, TCPClientLife, TCPClientFailsLife, SendLife, AppDisconnectLife
     DEF Program, Implemented
<1>2. ASSUME NEW i \in Slots, Process(i)  PROVE Implemented
  BY <1>2, ProcessConnectedLife, ProcessConnectFailedLife, ProcessDisconnectLife,
     ProcessCommIdleLife, ProcessSendLife, ProcessRecvLife, ProcessRecvSkipsLife
     DEF Process, Implemented
<1>3. ASSUME NEW o, NEW i \in Slots, Complete(o, i)
      PROVE  Implemented \/ (~Asserts /\ Reannounced)
  BY <1>3, AcceptLife, ConnectedLife, SentLife, SentPartlyLife, ReceivedLife, NoBytesLife
     DEF Complete
<1>4. ASSUME UNCHANGED <<sock, ev>>  PROVE Implemented
  BY <1>4, SameSock DEF Implemented
<1>5. CASE Call
  <2>1. UNCHANGED sock /\ ev' = NoEvent
    BY <1>5 DEF Call, mgrVars
  <2>. QED  BY <2>1, SameSock, CallMaps DEF Implemented
<1>6. CASE ProcessDone
  <2>1. /\ UNCHANGED sock /\ ev = NoEvent
        /\ UNCHANGED ev \/ ev' = Event("IDLE", NoHandle)
    BY <1>6 DEF ProcessDone, Return, mgrVars, IInv, CtlOK
  <2>. QED  BY <2>1, SameSock, IdleMaps DEF Implemented
<1>7. CASE NothingEnded \/ AssertionFails \/ Aborted \/ ClockTick \/ UNCHANGED vars
  <2>1. UNCHANGED <<sock, ev>>
    BY <1>7 DEF NothingEnded, GoOn, AssertionFails, Aborted, ClockTick, vars, mgrVars, ctlVars
  <2>. QED  BY <1>4, <2>1
<1>8. ASSUME NEW o, Dropped(o)  PROVE Implemented
  <2>1. UNCHANGED <<sock, ev>>
    BY <1>8 DEF Dropped, Ended, GoOn, mgrVars
  <2>. QED  BY <1>4, <2>1
<1>. QED
  BY <1>1, <1>2, <1>3, <1>5, <1>6, <1>7, <1>8, TimerLife DEF Next, Read, Implemented

LEMMA LifeInitOK == Init => Lifecycle!Init
<1> SUFFICES ASSUME Init  PROVE Lifecycle!Init
  OBVIOUS
<1>1. ASSUME NEW i \in Slots
      PROVE  ConnFor(sock[i]) = [stage |-> "free", out |-> FALSE, h |-> NoHandle]
  <2>1. sock[i].usStatus = "INIT" /\ sock[i].iTypeSocket = "NONE" /\ sock[i].kHSocket = NoHandle
    BY DEF Init, MgrInit
  <2>. QED  BY <2>1, StageFacts DEF ConnFor
<1>2. Conn = [i \in Slots |-> [stage |-> "free", out |-> FALSE, h |-> NoHandle]]
  BY <1>1, ConnsAre
<1>. QED  BY <1>2 DEF Conn, Init, Lifecycle!Init, Lifecycle!Free

(* What SeNetCoreRead promises holds of the core over the completion port  *)
(* too, in a build with assertions: the events of every connection come in *)
(* order, once each and under its own handle, in whatever order operations *)
(* end, those of earlier uses of its slot among them.                      *)
THEOREM Implements == ASSUME Asserts PROVE Spec => ImplementsLifecycle
<1>1. IInv /\ [Next]_vars => [Lifecycle!Next]_<<Conn, ev>>
  BY LifeStepOK DEF Implemented
<1>. QED  BY <1>1, Invariance, LifeInitOK, PTL DEF Spec, ImplementsLifecycle, Lifecycle!Spec

(* Without assertions it holds but for connections announced twice, and of *)
(* those only where the slot was retaken.                                  *)
THEOREM ImplementsKept == Spec => LifecycleKept
<1>1. IInv /\ [Next]_vars => [Lifecycle!Next \/ Reannounced]_<<Conn, ev>>
  BY LifeStepOK DEF Implemented
<1>. QED  BY <1>1, Invariance, LifeInitOK, PTL DEF Spec, LifecycleKept
====
