--------------------------- MODULE NetCoreProofs ----------------------------
(***************************************************************************)
(* The safety of NetCore for every number of slots and descriptors, every  *)
(* time-out, frame length and bound, and whether or not system calls fail. *)
(*                                                                         *)
(* SlotInv relates the slot table, the four lists, the kernel's sockets    *)
(* and the epoll object; it is inductive by itself because no handler      *)
(* decides what it does to them from anything else.  CtlTypeOK is the type *)
(* of the remaining state.                                                 *)
(***************************************************************************)
EXTENDS NetCore, SocketMgrProofs

KernTypeOK ==
  kern \in [Fds -> KernRecord] /\ reg \in [Fds -> RegRecord] /\ ready \subseteq Fds

CtlTypeOK ==
  /\ clock \in 0 .. MaxClock /\ timer \in BOOLEAN
  /\ pc \in {"app", "process", "wait", "dispatch", "accept"} /\ pass \in {1, 2}
  /\ batch \subseteq EventRecord /\ lsn \in Slots /\ bHasaTimer \in BOOLEAN
  /\ ev \in [kind : EventKinds, h : Handles]

SlotInv == TableOK /\ NoStrandedSlot /\ SendListStates /\ FdOwnership /\ KernTypeOK

IInv == SlotInv /\ CtlTypeOK

(* The states in which a slot owns a descriptor, and those in which only   *)
(* kSendList leads to it.                                                  *)
OwnStates  == {"CONNECTING", "CONNECTED", "ACTIVECONNECT"}
MustReport == {"CONNECTED", "CONNECTED_FAILED", "DISCONNECT", "COMM_IDLE"}

(* A slot in a state the table of statuses allows, listed or not.          *)
StatusFits(s, listed) ==
  /\ s.usStatus # "INIT"
  /\ s.usStatus \in MustReport => listed
  /\ listed => s.usStatus # "CONNECTING"
  /\ s.usStatus \in {"CONNECTING", "CONNECTED_FAILED"} => s.iTypeSocket = "CLIENT"

(* No socket is opened or closed.                                          *)
SameOpen == \A fd \in Fds : kern'[fd].state = "closed" <=> kern[fd].state = "closed"

-----------------------------------------------------------------------------
(* The byte-moving helpers change only lengths, events and the time of a   *)
(* slot, and never the state of its socket.                                *)
SameIdentity(s, t) ==
  /\ t.usStatus = s.usStatus /\ t.iTypeSocket = s.iTypeSocket
  /\ t.kSocket = s.kSocket /\ t.kHSocket = s.kHSocket

LEMMA RecvBufOK ==
  ASSUME NEW s \in SlotRecord, NEW k \in KernRecord, clock \in Nat
  PROVE  LET r == RecvBuf(s, k) IN
         /\ r.s \in SlotRecord /\ SameIdentity(s, r.s)
         /\ r.k \in KernRecord /\ r.k.state = k.state
<1> DEFINE n == s.recv + k.rcv
           tick == IF k.rcv > 0 /\ ~HangUp(k) THEN clock ELSE s.llTime
<1>1. n \in Nat /\ tick \in Nat
  BY DEF SlotRecord, KernRecord
<1>2. /\ RecvBuf(s, k).s = [s EXCEPT !.recv = n, !.llTime = tick]
      /\ RecvBuf(s, k).k = [k EXCEPT !.rcv = 0]
  BY DEF RecvBuf
<1> HIDE DEF n, tick
<1>3. LET t == [s EXCEPT !.recv = n, !.llTime = tick]
      IN  t \in SlotRecord /\ SameIdentity(s, t)
  BY <1>1 DEF SlotRecord, SameIdentity
<1>4. LET t == [k EXCEPT !.rcv = 0]
      IN  t \in KernRecord /\ t.state = k.state
  BY DEF KernRecord
<1>. QED  BY <1>2, <1>3, <1>4

LEMMA SendBufOK ==
  ASSUME NEW s \in SlotRecord, NEW k \in KernRecord, NEW e \in Interests
  PROVE  LET r == SendBuf(s, k, e) IN
         /\ r.s \in SlotRecord /\ SameIdentity(s, r.s)
         /\ r.k \in KernRecord /\ r.k.state = k.state /\ r.e \in Interests
<1> DEFINE n == Take(s, k)
           sent == [s EXCEPT !.send = @ - n]
           kSent == [k EXCEPT !.space = @ - n]
<1>1. n \in Nat /\ s.send - n \in Nat /\ k.space - n \in Nat
  BY DEF Take, SlotRecord, KernRecord
<1>2. /\ sent \in SlotRecord /\ SameIdentity(s, sent)
      /\ kSent \in KernRecord /\ kSent.state = k.state
  BY <1>1 DEF SlotRecord, KernRecord, SameIdentity
<1>3. /\ Armed(sent) \in SlotRecord /\ SameIdentity(s, Armed(sent))
      /\ ClearEvent(sent, "FLAG") \in SlotRecord /\ SameIdentity(s, ClearEvent(sent, "FLAG"))
  <2> HIDE DEF sent
  <2>1. \A t \in SlotRecord, b \in EventBits :
          /\ ClearEvent(t, b) \in SlotRecord /\ SameIdentity(t, ClearEvent(t, b))
          /\ AddEvent(t, b) \in SlotRecord /\ SameIdentity(t, AddEvent(t, b))
    BY DEF SlotRecord, ClearEvent, AddEvent, SameIdentity
  <2>. QED  BY <2>1, <1>2 DEF Armed, EventBits, SameIdentity
<1>4. "in" \in Interests /\ "inout" \in Interests
  BY DEF Interests
<1> HIDE DEF sent, kSent
<1> DEFINE r == SendBuf(s, k, e)
<1>5. SameIdentity(s, s)
  BY DEF SameIdentity
<1>6. \/ r.s = s /\ r.k = k /\ r.e = e
      \/ r.s \in {Armed(sent), ClearEvent(sent, "FLAG")} /\ r.k = kSent /\ r.e \in {e, "in", "inout"}
  <2>1. CASE ~HasEvent(s, "WRITE") \/ (s.send > 0 /\ k.state = "err")
    BY <2>1 DEF SendBuf, SendResult
  <2>2. CASE ~(~HasEvent(s, "WRITE") \/ (s.send > 0 /\ k.state = "err")) /\ sent.send > 0
    BY <2>2 DEF SendBuf, SendResult, sent, kSent
  <2>3. CASE ~(~HasEvent(s, "WRITE") \/ (s.send > 0 /\ k.state = "err")) /\ sent.send = 0
    BY <2>3 DEF SendBuf, SendResult, sent, kSent
  <2>4. sent.send > 0 \/ sent.send = 0
    BY <1>2 DEF SlotRecord
  <2>. QED  BY <2>1, <2>2, <2>3, <2>4
<1>. QED  BY <1>2, <1>3, <1>4, <1>5, <1>6

-----------------------------------------------------------------------------
(* The shapes of a step.                                                   *)

(* A free slot owns nothing and is on no work list.                        *)
LEMMA FreeSlotFacts ==
  ASSUME SlotInv, NEW i \in Slots, i \in Members(kMainList)
  PROVE  sock[i].usStatus = "INIT" /\ i \notin Members(kSendList) /\ i \notin Owning
BY DEF SlotInv, TableOK, SlotPartition, Owning

(* What the other handlers may do to the rest of a table while they work   *)
(* on slot i.                                                              *)
OthersKept(i) ==
  /\ kMainList' = kMainList
  /\ IsList(kActiveMainList') /\ Members(kActiveMainList') = Members(kActiveMainList)
  /\ IsList(kSendList')
  /\ Members(kSendList') \subseteq Members(kSendList) \cup {i}
  /\ Members(kSendList) \ {i} \subseteq Members(kSendList')
  /\ IsList(kRecvList') /\ Members(kRecvList') \subseteq Members(kRecvList) \cup {i}

(* Slot i goes from one state to another, keeping or not owning its        *)
(* descriptor.                                                             *)
LEMMA SlotUpdate ==
  ASSUME SlotInv, NEW i \in Slots, NEW s \in SlotRecord, sock[i].usStatus # "INIT",
         s.iTypeSocket = sock[i].iTypeSocket, sock' = [sock EXCEPT ![i] = s],
         OthersKept(i), StatusFits(s, i \in Members(kSendList'))
  PROVE  /\ TableOK' /\ NoStrandedSlot' /\ SendListStates'
         /\ \A j \in Slots : j # i => sock'[j] = sock[j]
         /\ sock'[i] = s
<1>1. TableOK'
  BY SlotStepOK DEF SlotInv, OthersKept, StatusFits
<1>2. /\ \A j \in Slots : j # i => sock'[j] = sock[j]
      /\ sock'[i] = s
  BY DEF SlotInv, TableOK, MgrTypeOK
<1>3. NoStrandedSlot'
  BY <1>2 DEF SlotInv, NoStrandedSlot, OthersKept, StatusFits, MustReport
<1>4. SendListStates'
  BY <1>2 DEF SlotInv, SendListStates, OthersKept, StatusFits
<1>. QED  BY <1>1, <1>2, <1>3, <1>4

(* ... keeping it: no socket is opened or closed.                          *)
LEMMA SlotKeepsFd ==
  ASSUME SlotInv, NEW i \in Slots, NEW s \in SlotRecord, sock[i].usStatus # "INIT",
         s.iTypeSocket = sock[i].iTypeSocket, s.kSocket = sock[i].kSocket,
         s.usStatus \in OwnStates <=> sock[i].usStatus \in OwnStates,
         sock' = [sock EXCEPT ![i] = s],
         OthersKept(i), StatusFits(s, i \in Members(kSendList')),
         KernTypeOK', SameOpen
  PROVE  SlotInv'
<1>1. /\ TableOK' /\ NoStrandedSlot' /\ SendListStates'
      /\ \A j \in Slots : j # i => sock'[j] = sock[j]
      /\ sock'[i] = s
  BY SlotUpdate
<1>2. \A j \in Slots : /\ j \in Owning' <=> j \in Owning
                       /\ sock'[j].kSocket = sock[j].kSocket
  BY <1>1 DEF Owning, OwnStates
<1>3. Owning' = Owning /\ Owning \subseteq Slots
  BY <1>2 DEF Owning
<1>4. FdOwnership'
  BY <1>2, <1>3 DEF SlotInv, FdOwnership, SameOpen
<1>. QED  BY <1>1, <1>4 DEF SlotInv

(* SeNetCoreDisconnect: the slot gives its descriptor up as it is closed,  *)
(* and is put where SeNetCoreProcess will find it.                         *)
LEMMA DisconnectOK ==
  ASSUME SlotInv, NEW i \in Slots, NEW s \in SlotRecord, SameIdentity(sock[i], s),
         sock[i].usStatus \in {"CONNECTING", "ACTIVECONNECT"},
         NEW sendList, IsList(sendList), Members(sendList) \subseteq Members(kSendList),
         Members(kSendList) \ {i} \subseteq Members(sendList),
         Disconnect(i, s, sendList),
         kMainList' = kMainList,
         IsList(kActiveMainList'), Members(kActiveMainList') = Members(kActiveMainList),
         IsList(kRecvList'), Members(kRecvList') \subseteq Members(kRecvList) \cup {i}
  PROVE  SlotInv'
<1> DEFINE t == Disconnected(s)
<1>1. /\ t \in SlotRecord /\ t.iTypeSocket = sock[i].iTypeSocket
      /\ t.usStatus \in {"CONNECTED_FAILED", "DISCONNECT"}
      /\ t.usStatus = "CONNECTED_FAILED" => sock[i].usStatus = "CONNECTING"
  BY DEF Disconnected, SlotRecord, SameIdentity, Statuses
<1>2. sock[i].usStatus = "CONNECTING" => sock[i].iTypeSocket = "CLIENT"
  BY DEF SlotInv, SendListStates
<1>3. sock' = [sock EXCEPT ![i] = t]
  BY DEF Disconnect
<1> HIDE DEF t
<1>4. IsList(kSendList') /\ Members(kSendList') = Members(sendList) \cup {i}
  BY AddInListList DEF Disconnect
<1>5. OthersKept(i) /\ StatusFits(t, i \in Members(kSendList'))
  BY <1>1, <1>2, <1>4 DEF OthersKept, StatusFits
<1>6. /\ TableOK' /\ NoStrandedSlot' /\ SendListStates'
      /\ \A j \in Slots : j # i => sock'[j] = sock[j]
      /\ sock'[i] = t
  BY <1>1, <1>3, <1>5, SlotUpdate
<1>7. i \in Owning /\ Owning' = Owning \ {i} /\ Owning \subseteq Slots
  BY <1>1, <1>6 DEF Owning
<1>8. /\ kern' = [kern EXCEPT ![sock[i].kSocket] = Kernel("closed")]
      /\ KernTypeOK'
  <2>1. Kernel("closed") \in KernRecord /\ Kernel("closed").state = "closed"
    BY CoreAssumption DEF Kernel, KernRecord, SockStates
  <2>2. NotRegistered \in RegRecord
    BY DEF NotRegistered, RegRecord, Interests, Handles
  <2>. QED  BY <2>1, <2>2 DEF Disconnect, Close, SameIdentity, SlotInv, KernTypeOK
<1>9. FdOwnership'
  BY <1>6, <1>7, <1>8 DEF SlotInv, FdOwnership, KernTypeOK, Kernel
<1>. QED  BY <1>6, <1>8, <1>9 DEF SlotInv

(* A slot is taken for a socket just opened.                               *)
LEMMA MgrAddFdOK ==
  ASSUME SlotInv, NEW i, NEW s \in SlotRecord, MgrAdd(i, s), FreeFds # {},
         s.kSocket = NewFd, s.usStatus \in OwnStates, s.iTypeSocket # "NONE",
         IsList(kSendList'),
         Members(kSendList') = Members(kSendList) \cup
                                 (IF s.usStatus = "CONNECTED" THEN {i} ELSE {}),
         s.usStatus = "CONNECTING" => s.iTypeSocket = "CLIENT",
         kRecvList' = kRecvList, KernTypeOK',
         \A fd \in Fds : kern'[fd].state = "closed" <=> kern[fd].state = "closed" /\ fd # NewFd
  PROVE  SlotInv'
<1>1. TableOK' /\ i \in Slots /\ i \in Members(kMainList)
  BY MgrAddOK DEF SlotInv, OwnStates
<1>2. sock[i].usStatus = "INIT" /\ i \notin Members(kSendList) /\ i \notin Owning
  BY <1>1, FreeSlotFacts
<1>3. /\ \A j \in Slots : j # i => sock'[j] = sock[j]
      /\ sock'[i] = s
  BY <1>1 DEF MgrAdd, SlotInv, TableOK, MgrTypeOK
<1>4. NoStrandedSlot'
  BY <1>2, <1>3 DEF SlotInv, NoStrandedSlot, OwnStates
<1>5. SendListStates'
  BY <1>2, <1>3 DEF SlotInv, SendListStates, OwnStates
<1>6. Owning' = Owning \cup {i} /\ Owning \subseteq Slots
  BY <1>1, <1>3 DEF Owning, OwnStates
<1>7. NewFd \in Fds /\ kern[NewFd].state = "closed"
  BY DEF NewFd, FreeFds
<1>8. \A j \in Owning : sock[j].kSocket # NewFd
  BY <1>7 DEF SlotInv, FdOwnership
<1>9. FdOwnership'
  BY <1>2, <1>3, <1>6, <1>7, <1>8 DEF SlotInv, FdOwnership
<1>. QED  BY <1>1, <1>4, <1>5, <1>9 DEF SlotInv

(* A slot that owns no descriptor is freed.                                *)
LEMMA MgrDelFdOK ==
  ASSUME SlotInv, NEW i \in Slots, MgrDel(i), sock[i].usStatus \notin OwnStates \cup {"INIT"},
         UNCHANGED kernVars
  PROVE  SlotInv'
<1>1. /\ TableOK'
      /\ Members(kSendList') = Members(kSendList) \ {i}
      /\ \A j \in Slots : j # i => sock'[j] = sock[j]
      /\ sock'[i].usStatus = "INIT"
  BY MgrDelOK DEF SlotInv
<1>2. NoStrandedSlot' /\ SendListStates'
  BY <1>1 DEF SlotInv, NoStrandedSlot, SendListStates
<1>3. Owning' = Owning /\ i \notin Owning
  BY <1>1 DEF Owning, OwnStates
<1>4. FdOwnership' /\ KernTypeOK'
  BY <1>1, <1>3 DEF SlotInv, FdOwnership, KernTypeOK, kernVars, Owning
<1>. QED  BY <1>1, <1>2, <1>4 DEF SlotInv

(* Only sockets and the epoll object change.                               *)
LEMMA KernStepOK ==
  ASSUME SlotInv, UNCHANGED mgrVars, KernTypeOK', SameOpen
  PROVE  SlotInv'
<1>1. TableOK' /\ NoStrandedSlot' /\ SendListStates' /\ Owning' = Owning
  BY DEF SlotInv, mgrVars, listVars, TableOK, MgrTypeOK, SlotPartition, ListsSimple,
         FreeSlotsDrained, NoStrandedSlot, SendListStates, Owning
<1>2. FdOwnership'
  BY <1>1 DEF SlotInv, FdOwnership, SameOpen, mgrVars, Owning
<1>. QED  BY <1>1, <1>2 DEF SlotInv

-----------------------------------------------------------------------------
(* SlotInv is kept by the calls of the program.                            *)

LEMMA NewFdFree ==
  ASSUME FreeFds # {}  PROVE NewFd \in Fds /\ kern[NewFd].state = "closed"
BY DEF NewFd, FreeFds

(* The listener or connection that TCPListen, TCPClient and an accept make.*)
LEMMA NewSlotOK ==
  ASSUME IInv, FreeFds # {}, NEW type \in Types \ {"NONE"}, NEW status \in OwnStates,
         NEW i \in Slots
  PROVE  LET s == [NewSlot(i, NewFd, type, clock) EXCEPT !.usStatus = status] IN
         /\ s \in SlotRecord /\ s.usStatus = status /\ s.iTypeSocket = type
         /\ s.kSocket = NewFd /\ s.kHSocket = Handle(i, clock) /\ s.kHSocket \in Handles
<1>1. clock \in Nat /\ status \in Statuses /\ type \in Types
  BY CoreAssumption DEF IInv, CtlTypeOK, OwnStates, Statuses
<1>2. MgrTypeOK
  BY DEF IInv, SlotInv, TableOK
<1>3. Handle(i, clock) \in Handles
  BY <1>1 DEF Handle, Handles
<1>. QED  BY <1>1, <1>2, <1>3, NewFdFree, PreparedSlot

LEMMA OpenedOK ==
  ASSUME IInv, FreeFds # {}, NEW state \in SockStates \ {"closed"}, NEW watch \in RegRecord,
         Opened(NewFd, state, watch)
  PROVE  /\ KernTypeOK'
         /\ \A fd \in Fds : kern'[fd].state = "closed" <=> kern[fd].state = "closed" /\ fd # NewFd
<1>1. Kernel(state) \in KernRecord /\ Kernel(state).state = state
  BY CoreAssumption DEF Kernel, KernRecord
<1>. QED  BY <1>1, NewFdFree DEF Opened, IInv, SlotInv, KernTypeOK

LEMMA TCPListenOK == IInv /\ TCPListen => SlotInv'
<1> SUFFICES ASSUME IInv, TCPListen  PROVE SlotInv'
  OBVIOUS
<1> DEFINE i == FreeSlot
           s == [NewSlot(i, NewFd, "LISTEN", clock) EXCEPT !.usStatus = "ACTIVECONNECT"]
<1>1. /\ FreeFds # {} /\ MgrAdd(i, s) /\ Opened(NewFd, "listen", Watch("listen", s.kHSocket))
      /\ kSendList' = kSendList /\ kRecvList' = kRecvList
  BY DEF TCPListen, CanOpen
<1>2. i \in Slots
  BY <1>1, TableLists, TailList DEF IInv, SlotInv, MgrAdd, MgrFull, FreeSlot
<1>3. /\ s \in SlotRecord /\ s.usStatus = "ACTIVECONNECT" /\ s.iTypeSocket = "LISTEN"
      /\ s.kSocket = NewFd /\ s.kHSocket \in Handles
  BY <1>1, <1>2, NewSlotOK DEF Types, OwnStates
<1> HIDE DEF s, i
<1>4. Watch("listen", s.kHSocket) \in RegRecord /\ "listen" \in SockStates \ {"closed"}
  BY <1>3 DEF Watch, RegRecord, Interests, SockStates
<1>5. /\ KernTypeOK'
      /\ \A fd \in Fds : kern'[fd].state = "closed" <=> kern[fd].state = "closed" /\ fd # NewFd
  BY <1>1, <1>4, OpenedOK
<1>6. IsList(kSendList') /\ Members(kSendList') = Members(kSendList) \cup {}
  BY <1>1, TableLists DEF IInv, SlotInv
<1>. QED  BY <1>1, <1>3, <1>5, <1>6, MgrAddFdOK DEF IInv, OwnStates

LEMMA TCPClientConnectedOK == IInv /\ TCPClientConnected => SlotInv'
<1> SUFFICES ASSUME IInv, TCPClientConnected  PROVE SlotInv'
  OBVIOUS
<1> DEFINE i == FreeSlot
           s == [NewSlot(i, NewFd, "CLIENT", clock) EXCEPT !.usStatus = "CONNECTED"]
<1>1. /\ FreeFds # {} /\ MgrAdd(i, s) /\ Opened(NewFd, "up", NotRegistered)
      /\ kSendList' = AddInList(kSendList, i) /\ kRecvList' = kRecvList
  BY DEF TCPClientConnected, CanOpen
<1>2. i \in Slots
  BY <1>1, TableLists, TailList DEF IInv, SlotInv, MgrAdd, MgrFull, FreeSlot
<1>3. /\ s \in SlotRecord /\ s.usStatus = "CONNECTED" /\ s.iTypeSocket = "CLIENT"
      /\ s.kSocket = NewFd
  BY <1>1, <1>2, NewSlotOK DEF Types, OwnStates
<1> HIDE DEF s, i
<1>4. NotRegistered \in RegRecord /\ "up" \in SockStates \ {"closed"}
  BY DEF NotRegistered, RegRecord, Interests, SockStates, Handles
<1>5. /\ KernTypeOK'
      /\ \A fd \in Fds : kern'[fd].state = "closed" <=> kern[fd].state = "closed" /\ fd # NewFd
  BY <1>1, <1>4, OpenedOK
<1>6. IsList(kSendList') /\ Members(kSendList') = Members(kSendList) \cup {i}
  BY <1>1, <1>2, TableLists, AddInListList DEF IInv, SlotInv
<1>. QED  BY <1>1, <1>3, <1>5, <1>6, MgrAddFdOK DEF IInv, OwnStates

LEMMA TCPClientConnectingOK == IInv /\ TCPClientConnecting => SlotInv'
<1> SUFFICES ASSUME IInv, TCPClientConnecting  PROVE SlotInv'
  OBVIOUS
<1> DEFINE i == FreeSlot
           s == [NewSlot(i, NewFd, "CLIENT", clock) EXCEPT !.usStatus = "CONNECTING"]
<1>1. /\ FreeFds # {} /\ MgrAdd(i, s)
      /\ Opened(NewFd, "connecting", Watch("connect", s.kHSocket))
      /\ kSendList' = kSendList /\ kRecvList' = kRecvList
  BY DEF TCPClientConnecting, CanOpen
<1>2. i \in Slots
  BY <1>1, TableLists, TailList DEF IInv, SlotInv, MgrAdd, MgrFull, FreeSlot
<1>3. /\ s \in SlotRecord /\ s.usStatus = "CONNECTING" /\ s.iTypeSocket = "CLIENT"
      /\ s.kSocket = NewFd /\ s.kHSocket \in Handles
  BY <1>1, <1>2, NewSlotOK DEF Types, OwnStates
<1> HIDE DEF s, i
<1>4. Watch("connect", s.kHSocket) \in RegRecord /\ "connecting" \in SockStates \ {"closed"}
  BY <1>3 DEF Watch, RegRecord, Interests, SockStates
<1>5. /\ KernTypeOK'
      /\ \A fd \in Fds : kern'[fd].state = "closed" <=> kern[fd].state = "closed" /\ fd # NewFd
  BY <1>1, <1>4, OpenedOK
<1>6. IsList(kSendList') /\ Members(kSendList') = Members(kSendList) \cup {}
  BY <1>1, TableLists DEF IInv, SlotInv
<1>. QED  BY <1>1, <1>3, <1>5, <1>6, MgrAddFdOK DEF IInv, OwnStates

LEMMA OpenFailsOK == IInv /\ OpenFails => SlotInv'
<1> SUFFICES ASSUME IInv, OpenFails  PROVE SlotInv'
  OBVIOUS
<1>1. /\ TableOK'
      /\ \A j \in Slots : /\ sock'[j].usStatus = sock[j].usStatus
                          /\ j \notin Members(kMainList) => sock'[j] = sock[j]
      /\ kSendList' = kSendList /\ UNCHANGED <<kern, reg, ready>>
  BY MgrAddThenDelOK DEF IInv, SlotInv, OpenFails, MgrAddThenDel, kernVars
<1>2. \A j \in Slots : sock[j].usStatus # "INIT" => sock'[j] = sock[j]
  BY <1>1 DEF IInv, SlotInv, TableOK, SlotPartition
<1>3. NoStrandedSlot' /\ SendListStates'
  BY <1>1, <1>2 DEF IInv, SlotInv, NoStrandedSlot, SendListStates
<1>4. Owning' = Owning /\ \A j \in Owning : sock'[j] = sock[j]
  BY <1>1, <1>2 DEF Owning
<1>5. FdOwnership' /\ KernTypeOK'
  BY <1>1, <1>4 DEF IInv, SlotInv, FdOwnership, KernTypeOK
<1>. QED  BY <1>1, <1>3, <1>5 DEF SlotInv

LEMMA SendOK == ASSUME IInv, NEW i \in Slots, Send(i)  PROVE SlotInv'
<1>1. PICK n \in 0 .. MaxOut - sock[i].send : sock' = [sock EXCEPT ![i].send = @ + n]
  BY DEF Send
<1> DEFINE s == [sock[i] EXCEPT !.send = @ + n]
<1>2. sock[i] \in SlotRecord /\ sock[i].usStatus = "ACTIVECONNECT"
  BY DEF IInv, SlotInv, TableOK, MgrTypeOK, Send, CanSend
<1>3. s \in SlotRecord /\ SameIdentity(sock[i], s)
  BY <1>2, CoreAssumption DEF SlotRecord, SameIdentity
<1>4. sock' = [sock EXCEPT ![i] = s]
  BY <1>1
<1> HIDE DEF s
<1>5. /\ IsList(kSendList') /\ Members(kSendList) \subseteq Members(kSendList')
      /\ Members(kSendList') \subseteq Members(kSendList) \cup {i}
  BY TableLists, AddInListList DEF IInv, SlotInv, Send, SendQueued
<1>6. OthersKept(i) /\ StatusFits(s, i \in Members(kSendList'))
  BY <1>2, <1>3, <1>5, TableLists
     DEF OthersKept, StatusFits, SameIdentity, MustReport, IInv, SlotInv, Send
<1>7. KernTypeOK' /\ SameOpen
  BY DEF Send, kernVars, IInv, SlotInv, KernTypeOK, SameOpen
<1>. QED  BY <1>2, <1>3, <1>4, <1>6, <1>7, SlotKeepsFd DEF SameIdentity, OwnStates, IInv

LEMMA AppDisconnectOK == ASSUME IInv, NEW i \in Slots, AppDisconnect(i)  PROVE SlotInv'
<1>1. sock[i] \in SlotRecord /\ SameIdentity(sock[i], sock[i])
  BY DEF IInv, SlotInv, TableOK, MgrTypeOK, SameIdentity
<1>2. sock[i].usStatus \in {"CONNECTING", "ACTIVECONNECT"} /\ Disconnect(i, sock[i], kSendList)
  BY DEF AppDisconnect, MayDisconnect
<1>3. kMainList' = kMainList /\ kActiveMainList' = kActiveMainList /\ kRecvList' = kRecvList
  BY DEF AppDisconnect
<1>. QED  BY <1>1, <1>2, <1>3, TableLists, DisconnectOK DEF IInv, SlotInv

-----------------------------------------------------------------------------
(* ... by SeNetCoreProcess, one slot popped at a time ...                  *)

LEMMA PoppedSlot ==
  ASSUME SlotInv, NEW i \in Slots, NEW status, Popping(i, status)
  PROVE  /\ sock[i] \in SlotRecord /\ sock[i].usStatus = status /\ status # "INIT"
         /\ status # "CONNECTING"
         /\ IsList(Tail(kSendList)) /\ Members(Tail(kSendList)) = Members(kSendList) \ {i}
<1>1. /\ IsList(Tail(kSendList)) /\ Members(Tail(kSendList)) = Members(kSendList) \ {i}
      /\ i \in Members(kSendList)
  BY TableLists, TailList DEF SlotInv, Popping
<1>. QED  BY <1>1 DEF SlotInv, Popping, SendListStates, TableOK, MgrTypeOK

(* The table after slot i was popped and relinked or not: nothing else of  *)
(* it changes.                                                             *)
LEMMA PoppedLists ==
  ASSUME SlotInv, NEW i \in Slots, NEW status, Popping(i, status),
         kSendList' \in {Tail(kSendList), AddInList(Tail(kSendList), i)},
         UNCHANGED <<kMainList, kActiveMainList, kRecvList>>
  PROVE  /\ OthersKept(i)
         /\ kSendList' = AddInList(Tail(kSendList), i) => i \in Members(kSendList')
         /\ kSendList' = Tail(kSendList) => i \notin Members(kSendList')
<1>1. IsList(Tail(kSendList)) /\ Members(Tail(kSendList)) = Members(kSendList) \ {i}
  BY PoppedSlot
<1>2. /\ IsList(AddInList(Tail(kSendList), i))
      /\ Members(AddInList(Tail(kSendList), i)) = Members(Tail(kSendList)) \cup {i}
  BY <1>1, AddInListList
<1>3. TableOK
  BY DEF SlotInv
<1>. QED  BY <1>1, <1>2, <1>3, TableLists DEF OthersKept

LEMMA ProcessConnectedOK ==
  ASSUME IInv, NEW i \in Slots, ProcessConnected(i)  PROVE SlotInv'
<1> DEFINE s == [AddEvent(ClearEvent(sock[i], "FLAG"), "WRITE")
                   EXCEPT !.usStatus = "ACTIVECONNECT", !.llTime = clock]
<1>1. Popping(i, "CONNECTED") /\ SlotInv
  BY DEF ProcessConnected, IInv
<1>2. sock[i] \in SlotRecord /\ sock[i].usStatus = "CONNECTED"
  BY <1>1, PoppedSlot
<1>3. /\ s \in SlotRecord /\ s.usStatus = "ACTIVECONNECT"
      /\ s.iTypeSocket = sock[i].iTypeSocket /\ s.kSocket = sock[i].kSocket
  <2>1. clock \in Nat
    BY CoreAssumption DEF IInv, CtlTypeOK
  <2>. QED
    BY <1>2, <2>1 DEF SlotRecord, AddEvent, ClearEvent, Statuses, EventBits
<1>4. sock' = [sock EXCEPT ![i] = s]
  BY DEF ProcessConnected
<1> HIDE DEF s
<1>5. OthersKept(i)
  BY <1>1, PoppedLists DEF ProcessConnected
<1>6. KernTypeOK' /\ SameOpen
  <2>1. Watch("in", sock[i].kHSocket) \in RegRecord
    BY <1>2 DEF Watch, RegRecord, Interests, SlotRecord
  <2>2. CASE UNCHANGED <<reg, ready>>
    BY <1>1, <2>2 DEF ProcessConnected, SlotInv, KernTypeOK, SameOpen
  <2>3. CASE /\ reg' = [reg EXCEPT ![sock[i].kSocket] = Watch("in", sock[i].kHSocket)]
             /\ ready' = ReadyAfterCtl(sock[i].kSocket, kern[sock[i].kSocket], "in")
    <3>1. sock[i].kSocket \in Fds
      BY <1>1, <1>2 DEF SlotInv, FdOwnership, Owning
    <3>. QED
      BY <1>1, <2>1, <2>3, <3>1 DEF ProcessConnected, SlotInv, KernTypeOK, SameOpen, ReadyAfterCtl
  <2>. QED  BY <2>2, <2>3 DEF ProcessConnected
<1>. QED
  BY <1>1, <1>2, <1>3, <1>4, <1>5, <1>6, SlotKeepsFd DEF StatusFits, OwnStates, MustReport

LEMMA ProcessConnectFailedOK ==
  ASSUME IInv, NEW i \in Slots, ProcessConnectFailed(i)  PROVE SlotInv'
BY MgrDelFdOK DEF IInv, ProcessConnectFailed, Popping, OwnStates

LEMMA ProcessCommIdleOK ==
  ASSUME IInv, NEW i \in Slots, ProcessCommIdle(i)  PROVE SlotInv'
BY MgrDelFdOK DEF IInv, ProcessCommIdle, Popping, OwnStates

LEMMA ProcessDisconnectOK ==
  ASSUME IInv, NEW i \in Slots, ProcessDisconnect(i)  PROVE SlotInv'
<1> DEFINE s == [sock[i] EXCEPT !.usStatus = "COMM_IDLE"]
<1>1. Popping(i, "DISCONNECT") /\ SlotInv
  BY DEF ProcessDisconnect, IInv
<1>2. sock[i] \in SlotRecord /\ sock[i].usStatus = "DISCONNECT"
  BY <1>1, PoppedSlot
<1>3. /\ s \in SlotRecord /\ s.usStatus = "COMM_IDLE"
      /\ s.iTypeSocket = sock[i].iTypeSocket /\ s.kSocket = sock[i].kSocket
  BY <1>2 DEF SlotRecord, Statuses
<1>4. sock' = [sock EXCEPT ![i] = s]
  BY DEF ProcessDisconnect
<1> HIDE DEF s
<1>5. OthersKept(i) /\ i \in Members(kSendList')
  BY <1>1, PoppedLists DEF ProcessDisconnect
<1>6. KernTypeOK' /\ SameOpen
  BY <1>1 DEF ProcessDisconnect, SlotInv, KernTypeOK, SameOpen, kernVars
<1>. QED
  BY <1>1, <1>2, <1>3, <1>4, <1>5, <1>6, SlotKeepsFd DEF StatusFits, OwnStates

(* An active slot has an open descriptor; the socket and the interest the  *)
(* handlers read are well typed.                                           *)
LEMMA ActiveSlot ==
  ASSUME SlotInv, NEW i \in Slots, sock[i].usStatus \in OwnStates
  PROVE  /\ sock[i] \in SlotRecord /\ sock[i].kSocket \in Fds
         /\ kern[sock[i].kSocket] \in KernRecord
         /\ reg[sock[i].kSocket].interest \in Interests
<1>1. i \in Owning
  BY DEF Owning, OwnStates
<1>2. sock[i] \in SlotRecord /\ sock[i].kSocket \in Fds
  BY <1>1 DEF SlotInv, TableOK, MgrTypeOK, FdOwnership
<1>. QED  BY <1>2 DEF SlotInv, KernTypeOK, RegRecord

LEMMA KernAfterSendOK ==
  ASSUME SlotInv, NEW fd \in Fds, NEW r, KernAfterSend(fd, r),
         r.k \in KernRecord, r.k.state = kern[fd].state, r.e \in Interests
  PROVE  KernTypeOK' /\ SameOpen
BY DEF SlotInv, KernTypeOK, SameOpen, KernAfterSend, RegRecord, ReadyAfterCtl

LEMMA ProcessSendOK ==
  ASSUME IInv, NEW i \in Slots, ProcessSend(i)  PROVE SlotInv'
<1> DEFINE fd == sock[i].kSocket
           e  == reg[fd].interest
           r  == SendBuf(sock[i], kern[fd], e)
<1>1. Popping(i, "ACTIVECONNECT") /\ SlotInv
  BY DEF ProcessSend, IInv
<1>2. /\ sock[i] \in SlotRecord /\ sock[i].usStatus = "ACTIVECONNECT"
      /\ IsList(Tail(kSendList)) /\ Members(Tail(kSendList)) = Members(kSendList) \ {i}
  BY <1>1, PoppedSlot
<1>3. fd \in Fds /\ kern[fd] \in KernRecord /\ e \in Interests
  BY <1>1, <1>2, ActiveSlot DEF OwnStates
<1>4. /\ r.s \in SlotRecord /\ SameIdentity(sock[i], r.s)
      /\ r.k \in KernRecord /\ r.k.state = kern[fd].state /\ r.e \in Interests
  BY <1>2, <1>3, SendBufOK
<1>5. \/ /\ sock' = [sock EXCEPT ![i] = r.s]
         /\ kSendList' = Tail(kSendList)
         /\ KernAfterSend(fd, r)
      \/ Disconnect(i, r.s, Tail(kSendList))
  BY DEF ProcessSend
<1>6. UNCHANGED <<kMainList, kActiveMainList, kRecvList>>
  BY DEF ProcessSend
<1> HIDE DEF r, e, fd
<1>7. ASSUME sock' = [sock EXCEPT ![i] = r.s], kSendList' = Tail(kSendList),
             KernAfterSend(fd, r)
      PROVE  SlotInv'
  <2>1. OthersKept(i)
    BY <1>1, <1>6, <1>7, PoppedLists
  <2>2. KernTypeOK' /\ SameOpen
    BY <1>1, <1>3, <1>4, <1>7, KernAfterSendOK
  <2>. QED
    BY <1>1, <1>2, <1>4, <1>7, <2>1, <2>2, SlotKeepsFd
       DEF SameIdentity, StatusFits, OwnStates, MustReport
<1>8. ASSUME Disconnect(i, r.s, Tail(kSendList))  PROVE SlotInv'
  BY <1>1, <1>2, <1>4, <1>6, <1>8, TableLists, DisconnectOK DEF SlotInv
<1>. QED  BY <1>5, <1>7, <1>8

LEMMA ReadingLists ==
  ASSUME SlotInv, NEW i \in Slots, Reading(i),
         kRecvList' \in {Tail(kRecvList), AddInList(Tail(kRecvList), i)},
         UNCHANGED <<kMainList, kActiveMainList, kSendList>>
  PROVE  OthersKept(i)
<1>1. /\ IsList(Tail(kRecvList)) /\ Members(Tail(kRecvList)) = Members(kRecvList) \ {i}
      /\ i \in Members(kRecvList)
  BY TableLists, TailList DEF SlotInv, Reading
<1>2. /\ IsList(AddInList(Tail(kRecvList), i))
      /\ Members(AddInList(Tail(kRecvList), i)) = Members(Tail(kRecvList)) \cup {i}
  BY <1>1, AddInListList
<1>3. TableOK
  BY DEF SlotInv
<1>. QED  BY <1>1, <1>2, <1>3, TableLists DEF OthersKept

LEMMA ProcessRecvOK ==
  ASSUME IInv, NEW i \in Slots, ProcessRecv(i)  PROVE SlotInv'
<1> DEFINE s == [sock[i] EXCEPT !.recv = @ - FrameLen]
<1>1. /\ SlotInv /\ Reading(i) /\ sock' = [sock EXCEPT ![i] = s]
      /\ UNCHANGED <<kMainList, kActiveMainList, kSendList, kern, reg, ready>>
      /\ kRecvList' \in {Tail(kRecvList), AddInList(Tail(kRecvList), i)}
      /\ sock[i].usStatus = "ACTIVECONNECT" /\ sock[i].recv >= FrameLen
  BY DEF IInv, ProcessRecv, kernVars, HasFrame, CanRead
<1>2. sock[i] \in SlotRecord
  BY <1>1 DEF SlotInv, TableOK, MgrTypeOK
<1>3. s \in SlotRecord /\ SameIdentity(sock[i], s)
  <2>1. FrameLen \in Nat /\ sock[i].recv \in Nat
    BY <1>2, CoreAssumption DEF SlotRecord
  <2>2. sock[i].recv - FrameLen \in Nat
    BY <1>1, <2>1
  <2>. QED  BY <1>2, <2>2 DEF SlotRecord, SameIdentity
<1> HIDE DEF s
<1>4. OthersKept(i)
  BY <1>1, ReadingLists
<1>5. StatusFits(s, i \in Members(kSendList'))
  BY <1>1, <1>3 DEF StatusFits, SameIdentity, MustReport
<1>6. KernTypeOK' /\ SameOpen
  BY <1>1 DEF SlotInv, KernTypeOK, SameOpen
<1>. QED  BY <1>1, <1>3, <1>4, <1>5, <1>6, SlotKeepsFd DEF SameIdentity

-----------------------------------------------------------------------------
(* ... by the loop over the events and the accept loop ...                 *)

(* The slot an event is dispatched to is in use.                           *)
LEMMA DispatchedSlot ==
  ASSUME SlotInv, NEW e, NEW i \in Slots, Dispatching(e, i)
  PROVE  sock[i] \in SlotRecord /\ sock[i].usStatus # "INIT"
BY DEF SlotInv, TableOK, MgrTypeOK, SlotPartition, Dispatching, Found

LEMMA CloseKern ==
  ASSUME SlotInv, NEW fd, Close(fd)  PROVE KernTypeOK'
<1>1. Kernel("closed") \in KernRecord
  BY CoreAssumption DEF Kernel, KernRecord, SockStates
<1>2. NotRegistered \in RegRecord
  BY DEF NotRegistered, RegRecord, Interests, Handles
<1>. QED  BY <1>1, <1>2 DEF Close, SlotInv, KernTypeOK

LEMMA DispatchConnectingOK ==
  ASSUME IInv, NEW i \in Slots, NEW e \in batch, DispatchConnecting(e, i)  PROVE SlotInv'
<1> DEFINE fd == sock[i].kSocket
           s  == [sock[i] EXCEPT !.usStatus = "CONNECTED", !.llTime = clock]
<1>1. /\ SlotInv /\ sock[i] \in SlotRecord /\ sock[i].usStatus = "CONNECTING"
      /\ sock[i].iTypeSocket = "CLIENT" /\ fd \in Fds
      /\ UNCHANGED <<kMainList, kActiveMainList, kRecvList>>
      /\ kSendList' = AddInList(kSendList, i)
  BY DispatchedSlot, ActiveSlot
     DEF IInv, SlotInv, SendListStates, DispatchConnecting, OwnStates
<1>2. \/ /\ sock' = [sock EXCEPT ![i] = s]
         /\ reg' = [reg EXCEPT ![fd] = NotRegistered]
         /\ ready' = ready \ {fd}
         /\ UNCHANGED kern
      \/ Disconnect(i, sock[i], kSendList)
  <2>1. ASSUME sock' = [sock EXCEPT ![i].usStatus = "CONNECTED", ![i].llTime = clock]
        PROVE  sock' = [sock EXCEPT ![i] = s]
    BY <1>1, <2>1 DEF SlotInv, TableOK, MgrTypeOK
  <2>2. ASSUME sock' = [sock EXCEPT ![i].usStatus = "CONNECTED_FAILED"], Close(fd)
        PROVE  Disconnect(i, sock[i], kSendList)
    <3>1. Disconnected(sock[i]) = [sock[i] EXCEPT !.usStatus = "CONNECTED_FAILED"]
      BY <1>1 DEF Disconnected
    <3>. QED  BY <1>1, <2>2, <3>1 DEF Disconnect
  <2>. QED  BY <2>1, <2>2 DEF DispatchConnecting
<1>3. /\ s \in SlotRecord /\ s.usStatus = "CONNECTED"
      /\ s.iTypeSocket = sock[i].iTypeSocket /\ s.kSocket = sock[i].kSocket
  <2>1. clock \in Nat
    BY CoreAssumption DEF IInv, CtlTypeOK
  <2>. QED  BY <1>1, <2>1 DEF SlotRecord, Statuses
<1> HIDE DEF s, fd
<1>4. ASSUME sock' = [sock EXCEPT ![i] = s], reg' = [reg EXCEPT ![fd] = NotRegistered],
             ready' = ready \ {fd}, UNCHANGED kern
      PROVE  SlotInv'
  <2>1. IsList(kSendList') /\ Members(kSendList') = Members(kSendList) \cup {i}
    BY <1>1, TableLists, AddInListList DEF SlotInv
  <2>2. OthersKept(i) /\ StatusFits(s, i \in Members(kSendList'))
    BY <1>1, <1>3, <2>1, TableLists DEF OthersKept, StatusFits, SlotInv
  <2>3. NotRegistered \in RegRecord
    BY DEF NotRegistered, RegRecord, Interests, Handles
  <2>4. KernTypeOK' /\ SameOpen
    BY <1>1, <1>4, <2>3 DEF SlotInv, KernTypeOK, SameOpen
  <2>. QED  BY <1>1, <1>3, <1>4, <2>2, <2>4, SlotKeepsFd DEF OwnStates
<1>5. ASSUME Disconnect(i, sock[i], kSendList)  PROVE SlotInv'
  BY <1>1, <1>5, TableLists, DisconnectOK DEF SlotInv, SameIdentity
<1>. QED  BY <1>2, <1>4, <1>5

LEMMA DispatchActiveOK ==
  ASSUME IInv, NEW i \in Slots, NEW e \in batch, DispatchActive(e, i)  PROVE SlotInv'
<1> DEFINE s  == sock[i]
           fd == s.kSocket
           x  == reg[fd].interest
           in == IF e.rev.bRead /\ ~e.rev.bError THEN RecvBuf(s, kern[fd])
                 ELSE [ok |-> ~e.rev.bError, s |-> s, k |-> kern[fd]]
           out == IF e.rev.bWrite THEN SendBuf(AddEvent(in.s, "WRITE"), in.k, x)
                  ELSE SendResult(TRUE, in.s, in.k, x)
<1>1. /\ SlotInv /\ s \in SlotRecord /\ s.usStatus = "ACTIVECONNECT"
      /\ fd \in Fds /\ kern[fd] \in KernRecord /\ x \in Interests
  BY DispatchedSlot, ActiveSlot DEF IInv, DispatchActive, OwnStates
<1>2. /\ in.s \in SlotRecord /\ SameIdentity(s, in.s)
      /\ in.k \in KernRecord /\ in.k.state = kern[fd].state
  <2>1. clock \in Nat
    BY CoreAssumption DEF IInv, CtlTypeOK
  <2>. QED  BY <1>1, <2>1, RecvBufOK DEF SameIdentity
<1>3. /\ \/ Disconnect(i, in.s, kSendList)
         \/ Disconnect(i, out.s, kSendList)
         \/ /\ sock' = [sock EXCEPT ![i] = out.s]
            /\ KernAfterSend(fd, out)
            /\ UNCHANGED kSendList
      /\ kRecvList' \in {kRecvList, AddInList(kRecvList, i)}
      /\ UNCHANGED <<kMainList, kActiveMainList>>
  BY DEF DispatchActive
<1>4. /\ out.s \in SlotRecord /\ SameIdentity(s, out.s)
      /\ out.k \in KernRecord /\ out.k.state = kern[fd].state /\ out.e \in Interests
  <2> DEFINE w == AddEvent(in.s, "WRITE")
  <2> HIDE DEF in
  <2>1. w \in SlotRecord /\ SameIdentity(s, w)
    BY <1>2 DEF SlotRecord, AddEvent, EventBits, SameIdentity
  <2> HIDE DEF w
  <2>2. CASE e.rev.bWrite
    <3>1. out = SendBuf(w, in.k, x)
      BY <2>2 DEF w
    <3> HIDE DEF out, x, fd
    <3>2. /\ out.s \in SlotRecord /\ SameIdentity(w, out.s)
          /\ out.k \in KernRecord /\ out.k.state = in.k.state /\ out.e \in Interests
      BY <3>1, <1>1, <1>2, <2>1, SendBufOK
    <3>. QED  BY <3>2, <1>2, <2>1 DEF SameIdentity
  <2>3. CASE ~e.rev.bWrite
    BY <2>3, <1>1, <1>2 DEF SendResult
  <2>. QED  BY <2>2, <2>3
<1> HIDE DEF in, out, fd, x, s
<1>5. IsList(kRecvList') /\ Members(kRecvList') \subseteq Members(kRecvList) \cup {i}
  BY <1>1, <1>3, TableLists, AddInListList DEF SlotInv
<1>6. ASSUME NEW t \in SlotRecord, SameIdentity(s, t), Disconnect(i, t, kSendList)
      PROVE  SlotInv'
  BY <1>1, <1>3, <1>5, <1>6, TableLists, DisconnectOK DEF SlotInv, s
<1>7. ASSUME sock' = [sock EXCEPT ![i] = out.s], KernAfterSend(fd, out), UNCHANGED kSendList
      PROVE  SlotInv'
  <2>1. OthersKept(i)
    BY <1>1, <1>3, <1>5, <1>7, TableLists DEF OthersKept, SlotInv
  <2>2. StatusFits(out.s, i \in Members(kSendList'))
    BY <1>1, <1>4 DEF StatusFits, SameIdentity, MustReport
  <2>3. KernTypeOK' /\ SameOpen
    BY <1>1, <1>4, <1>7, KernAfterSendOK
  <2>. QED  BY <1>1, <1>4, <1>7, <2>1, <2>2, <2>3, SlotKeepsFd DEF SameIdentity, s
<1>. QED  BY <1>2, <1>3, <1>4, <1>6, <1>7

LEMMA OneAcceptedOK ==
  ASSUME SlotInv, kern[sock[lsn].kSocket].backlog > 0
  PROVE  /\ OneAccepted(kern) \in [Fds -> KernRecord]
         /\ \A g \in Fds : OneAccepted(kern)[g].state = kern[g].state
<1> DEFINE fd == sock[lsn].kSocket
<1>1. kern \in [Fds -> KernRecord]
  BY DEF SlotInv, KernTypeOK
<1>2. CASE fd \in Fds
  <2>1. kern[fd].backlog - 1 \in Nat /\ kern[fd] \in KernRecord
    BY <1>1, <1>2 DEF KernRecord
  <2>2. [kern[fd] EXCEPT !.backlog = @ - 1] \in KernRecord
    BY <2>1 DEF KernRecord
  <2>3. [kern[fd] EXCEPT !.backlog = @ - 1].state = kern[fd].state
    BY <2>1 DEF KernRecord
  <2> HIDE DEF fd
  <2>4. OneAccepted(kern) = [kern EXCEPT ![fd] = [kern[fd] EXCEPT !.backlog = @ - 1]]
    BY <1>1, <1>2 DEF OneAccepted, fd
  <2>. QED  BY <1>1, <1>2, <2>2, <2>3, <2>4
<1>3. CASE fd \notin Fds
  <2>1. OneAccepted(kern) = kern
    BY <1>1, <1>3 DEF OneAccepted
  <2>. QED  BY <1>1, <2>1
<1>. QED  BY <1>2, <1>3

LEMMA AcceptOK == IInv /\ Accept => SlotInv'
<1> SUFFICES ASSUME IInv, Accept  PROVE SlotInv'
  OBVIOUS
<1> DEFINE i == FreeSlot
           s == [NewSlot(i, NewFd, "ACCEPT", clock) EXCEPT !.usStatus = "CONNECTED"]
           fd == sock[lsn].kSocket
<1>1. /\ SlotInv /\ FreeFds # {} /\ MgrAdd(i, s) /\ kern[fd].backlog > 0
      /\ kern' = [OneAccepted(kern) EXCEPT ![NewFd] = Kernel("up")]
      /\ kSendList' = AddInList(kSendList, i) /\ UNCHANGED <<kRecvList, reg, ready>>
  BY DEF IInv, Accept, Accepting
<1>2. i \in Slots
  BY <1>1, TableLists, TailList DEF SlotInv, MgrAdd, MgrFull, FreeSlot
<1>3. /\ s \in SlotRecord /\ s.usStatus = "CONNECTED" /\ s.iTypeSocket = "ACCEPT"
      /\ s.kSocket = NewFd
  BY <1>1, <1>2, NewSlotOK DEF Types, OwnStates
<1> HIDE DEF s, i
<1>4. /\ OneAccepted(kern) \in [Fds -> KernRecord]
      /\ \A g \in Fds : OneAccepted(kern)[g].state = kern[g].state
  BY <1>1, OneAcceptedOK
<1>5. Kernel("up") \in KernRecord /\ Kernel("up").state = "up"
  BY CoreAssumption DEF Kernel, KernRecord, SockStates
<1>6. KernTypeOK'
  BY <1>1, <1>4, <1>5 DEF SlotInv, KernTypeOK
<1>7. \A g \in Fds : kern'[g].state = "closed" <=> kern[g].state = "closed" /\ g # NewFd
  BY <1>1, <1>4, <1>5
<1>8. IsList(kSendList') /\ Members(kSendList') = Members(kSendList) \cup {i}
  BY <1>1, <1>2, TableLists, AddInListList DEF SlotInv
<1>. QED  BY <1>1, <1>3, <1>6, <1>7, <1>8, MgrAddFdOK DEF OwnStates

LEMMA AcceptFullOK == IInv /\ AcceptFull => SlotInv'
<1> SUFFICES ASSUME IInv, AcceptFull  PROVE SlotInv'
  OBVIOUS
<1>1. /\ SlotInv /\ kern' = OneAccepted(kern) /\ UNCHANGED <<mgrVars, reg, ready>>
      /\ kern[sock[lsn].kSocket].backlog > 0
  BY DEF IInv, AcceptFull, Accepting
<1>2. KernTypeOK' /\ SameOpen
  BY <1>1, OneAcceptedOK DEF SlotInv, KernTypeOK, SameOpen
<1>. QED  BY <1>1, <1>2, KernStepOK

LEMMA AcceptEndsOK == IInv /\ AcceptEnds => SlotInv'
<1> SUFFICES ASSUME IInv, AcceptEnds  PROVE SlotInv'
  OBVIOUS
<1>1. /\ SlotInv /\ UNCHANGED <<mgrVars, reg, ready>>
      /\ \/ kern[sock[lsn].kSocket].backlog > 0 /\ kern' = OneAccepted(kern)
         \/ kern' = kern
  BY DEF IInv, AcceptEnds, Accepting
<1>2. KernTypeOK' /\ SameOpen
  BY <1>1, OneAcceptedOK DEF SlotInv, KernTypeOK, SameOpen
<1>. QED  BY <1>1, <1>2, KernStepOK

-----------------------------------------------------------------------------
(* ... by the timer, by epoll_wait and by the peers.                       *)

LEMMA NetTimeOutOK ==
  ASSUME SlotInv, NetTimeOut, UNCHANGED <<kMainList, kRecvList>>  PROVE SlotInv'
<1> DEFINE i == Head(kActiveMainList)
<1>1. CASE kActiveMainList = <<>>
  <2>1. UNCHANGED <<sock, kSendList, kActiveMainList, kernVars>>
    BY <1>1 DEF NetTimeOut
  <2>. QED
    BY <2>1, KernStepOK DEF mgrVars, listVars, kernVars, SlotInv, KernTypeOK, SameOpen
<1>2. CASE kActiveMainList # <<>>
  <2>1. /\ i \in Slots /\ i \in Members(kActiveMainList)
        /\ kActiveMainList' = MoveToEnd(kActiveMainList, i)
        /\ IF Expired(sock[i]) THEN Disconnect(i, sock[i], kSendList)
                               ELSE UNCHANGED <<sock, kSendList, kernVars>>
    BY <1>2, TableLists, TailList DEF SlotInv, NetTimeOut
  <2> HIDE DEF i
  <2>2. IsList(kActiveMainList') /\ Members(kActiveMainList') = Members(kActiveMainList)
    BY <2>1, TableLists, MoveToEndList DEF SlotInv
  <2>3. sock[i] \in SlotRecord /\ SameIdentity(sock[i], sock[i])
    BY <2>1 DEF SlotInv, TableOK, MgrTypeOK, SameIdentity
  <2>4. CASE Expired(sock[i])
    BY <2>1, <2>2, <2>3, <2>4, TableLists, DisconnectOK
       DEF SlotInv, Expired, MayDisconnect
  <2>5. CASE ~Expired(sock[i])
    <3>1. UNCHANGED <<sock, kMainList, kSendList, kRecvList, kernVars>>
      BY <2>1, <2>5
    <3>2. sock[i].usStatus # "INIT" /\ sock' = [sock EXCEPT ![i] = sock[i]]
      BY <2>1, <3>1 DEF SlotInv, TableOK, SlotPartition, IsConnection, MgrTypeOK
    <3>3. OthersKept(i)
      BY <2>2, <3>1, TableLists DEF OthersKept, SlotInv
    <3>4. StatusFits(sock[i], i \in Members(kSendList'))
      BY <2>1, <3>1, <3>2 DEF StatusFits, SlotInv, NoStrandedSlot, SendListStates, MustReport
    <3>5. KernTypeOK' /\ SameOpen
      BY <3>1 DEF SlotInv, KernTypeOK, SameOpen, kernVars
    <3>. QED  BY <2>1, <2>3, <3>2, <3>3, <3>4, <3>5, SlotKeepsFd
  <2>. QED  BY <2>4, <2>5
<1>. QED  BY <1>1, <1>2

LEMMA EpollWaitOK == IInv /\ EpollWait => SlotInv'
<1> SUFFICES ASSUME IInv, EpollWait  PROVE SlotInv'
  OBVIOUS
<1>1. SlotInv /\ UNCHANGED <<mgrVars, kern>>
  BY DEF IInv, EpollWait
<1>2. reg \in [Fds -> RegRecord] /\ ready \subseteq Fds
  BY <1>1 DEF SlotInv, KernTypeOK
<1>3. \A fd \in Fds : [reg[fd] EXCEPT !.interest = "spent"] \in RegRecord
  BY <1>2 DEF RegRecord, Interests
<1>4. reg' \in [Fds -> RegRecord] /\ ready' \subseteq Fds
  BY <1>2, <1>3 DEF EpollWait, Reported
<1>. QED  BY <1>1, <1>4, KernStepOK DEF SlotInv, KernTypeOK, SameOpen

(* Whatever a peer does, it neither opens nor closes a descriptor.         *)
LEMMA PeerOK == ASSUME IInv, NEW fd \in Fds, Peer(fd)  PROVE SlotInv'
<1>1. kern[fd] \in KernRecord /\ kern \in [Fds -> KernRecord] /\ ready \subseteq Fds
  BY DEF IInv, SlotInv, KernTypeOK
<1>2. ASSUME NEW k \in KernRecord, NEW edge, KernelEvent(fd, k, edge),
             k.state # "closed", kern[fd].state # "closed"
      PROVE  SlotInv'
  <2>1. KernTypeOK' /\ SameOpen
    BY <1>1, <1>2 DEF KernelEvent, IInv, SlotInv, KernTypeOK, SameOpen
  <2>. QED  BY <1>2, <2>1, KernStepOK DEF KernelEvent, IInv
<1>3. CASE PeerConnects(fd)
  <2>1. [kern[fd] EXCEPT !.backlog = @ + 1] \in KernRecord
    BY <1>1 DEF KernRecord
  <2>. QED  BY <1>1, <1>2, <1>3, <2>1 DEF PeerConnects, KernRecord
<1>4. CASE ConnectCompletes(fd)
  <2>1. PICK state \in {"up", "err"} :
          KernelEvent(fd, [kern[fd] EXCEPT !.state = state], "OUT")
    BY <1>4 DEF ConnectCompletes
  <2>2. /\ [kern[fd] EXCEPT !.state = state] \in KernRecord
        /\ [kern[fd] EXCEPT !.state = state].state = state
    BY <1>1 DEF KernRecord, SockStates
  <2>. QED  BY <1>2, <1>4, <2>1, <2>2 DEF ConnectCompletes
<1>5. CASE PeerSends(fd)
  <2>1. [kern[fd] EXCEPT !.rcv = @ + 1] \in KernRecord
    BY <1>1 DEF KernRecord
  <2>. QED  BY <1>1, <1>2, <1>5, <2>1 DEF PeerSends, KernRecord
<1>6. CASE PeerCloses(fd)
  <2>1. [kern[fd] EXCEPT !.state = "eof"] \in KernRecord
    BY <1>1 DEF KernRecord, SockStates
  <2>. QED  BY <1>1, <1>2, <1>6, <2>1 DEF PeerCloses, KernRecord
<1>7. CASE PeerResets(fd)
  <2>1. [kern[fd] EXCEPT !.state = "err", !.rcv = 0] \in KernRecord
    BY <1>1 DEF KernRecord, SockStates
  <2>. QED  BY <1>1, <1>2, <1>7, <2>1 DEF PeerResets, KernRecord
<1>8. CASE PeerDrains(fd)
  <2>1. [kern[fd] EXCEPT !.space = Space] \in KernRecord
    BY <1>1, CoreAssumption DEF KernRecord
  <2>. QED  BY <1>1, <1>2, <1>8, <2>1 DEF PeerDrains, KernRecord
<1>. QED  BY <1>3, <1>4, <1>5, <1>6, <1>7, <1>8 DEF Peer

-----------------------------------------------------------------------------
(* The rest of the state stays well typed.                                 *)

LEMMA ReturnOK ==
  ASSUME IInv, NEW kind \in EventKinds, NEW h \in Handles, Return(Event(kind, h)),
         UNCHANGED envVars
  PROVE  CtlTypeOK'
BY DEF IInv, CtlTypeOK, Return, Event, envVars

LEMMA ProcessCtl == ASSUME IInv, NEW i \in Slots, Process(i)  PROVE CtlTypeOK'
<1>1. /\ {"CONNECT", "CONNECT_FAILED", "DISCONNECT", "RECV_DATA"} \subseteq EventKinds
      /\ sock[i].kHSocket \in Handles
  BY DEF EventKinds, IInv, SlotInv, TableOK, MgrTypeOK, SlotRecord
<1>2. CASE ProcessConnected(i)
  BY <1>1, <1>2, ReturnOK DEF ProcessConnected
<1>3. CASE ProcessConnectFailed(i)
  BY <1>1, <1>3, ReturnOK DEF ProcessConnectFailed
<1>4. CASE ProcessDisconnect(i)
  BY <1>1, <1>4, ReturnOK DEF ProcessDisconnect
<1>5. CASE ProcessCommIdle(i) \/ ProcessSend(i)
  <2>1. UNCHANGED <<envVars, ctlVars>>
    BY <1>5 DEF ProcessCommIdle, ProcessSend
  <2>. QED  BY <2>1 DEF IInv, CtlTypeOK, envVars, ctlVars
<1>6. CASE ProcessRecv(i)
  <2>1. sock[i] \in SlotRecord
    BY DEF IInv, SlotInv, TableOK, MgrTypeOK
  <2>2. [sock[i] EXCEPT !.recv = @ - FrameLen].kHSocket = sock[i].kHSocket
    BY <2>1 DEF SlotRecord
  <2>. QED  BY <1>1, <1>6, <2>2, ReturnOK DEF ProcessRecv
<1>. QED  BY <1>2, <1>3, <1>4, <1>5, <1>6 DEF Process

LEMMA DispatchCtl ==
  ASSUME IInv, NEW i \in Slots, NEW e \in batch, Dispatch(e, i)  PROVE CtlTypeOK'
<1>1. clock' = clock /\ timer' = timer /\ batch' = batch \ {e}
  BY DEF Dispatch, DispatchListen, DispatchConnecting, DispatchActive, Dispatching, envVars
<1>2. CASE DispatchListen(e, i)
  BY <1>1, <1>2 DEF IInv, CtlTypeOK, DispatchListen
<1>3. CASE DispatchConnecting(e, i) \/ DispatchActive(e, i)
  <2>1. UNCHANGED <<pc, pass, lsn, bHasaTimer, ev>>
    BY <1>3 DEF DispatchConnecting, DispatchActive, StayDispatching
  <2>. QED  BY <1>1, <2>1 DEF IInv, CtlTypeOK
<1>. QED  BY <1>2, <1>3 DEF Dispatch

LEMMA EpollWaitCtl == IInv /\ EpollWait => CtlTypeOK'
<1> SUFFICES ASSUME IInv, EpollWait  PROVE CtlTypeOK'
  OBVIOUS
<1>1. ASSUME NEW fd \in Reported  PROVE EpollEvent(fd) \in EventRecord
  BY <1>1 DEF EpollEvent, EventRecord, Revents, Reported, IInv, SlotInv, KernTypeOK,
              RegRecord
<1>2. batch' \subseteq EventRecord
  BY <1>1 DEF EpollWait
<1>. QED  BY <1>2 DEF IInv, CtlTypeOK, EpollWait

LEMMA NoHandleOK == NoHandle \in Handles
BY DEF Handles

LEMMA ReadCtl == ASSUME IInv, Read  PROVE CtlTypeOK'
<1>1. CASE Call
  BY <1>1, NoHandleOK
     DEF IInv, CtlTypeOK, Call, NoEvent, Event, EventKinds, envVars
<1>2. CASE ProcessDone
  <2>1. CASE Return(Event("IDLE", NoHandle))
    BY <1>2, <2>1, ReturnOK, NoHandleOK DEF ProcessDone, EventKinds
  <2>2. CASE pc' = "wait" /\ UNCHANGED <<pass, ev, batch, lsn, bHasaTimer>>
    BY <1>2, <2>2 DEF IInv, CtlTypeOK, ProcessDone, envVars
  <2>. QED  BY <1>2, <2>1, <2>2 DEF ProcessDone
<1>3. CASE EpollNothing
  BY <1>3 DEF IInv, CtlTypeOK, EpollNothing, envVars
<1>4. CASE Accept \/ AcceptFull
  BY <1>4 DEF IInv, CtlTypeOK, Accept, AcceptFull, envVars, ctlVars
<1>5. CASE AcceptEnds
  <2>1. 0 \in Slots
    BY SizeAssumption DEF Slots
  <2>. QED  BY <1>5, <2>1 DEF IInv, CtlTypeOK, AcceptEnds, envVars
<1>6. CASE DispatchTimer
  BY <1>6, ReturnOK, NoHandleOK DEF DispatchTimer, EventKinds
<1>7. CASE DispatchDone
  BY <1>7 DEF IInv, CtlTypeOK, DispatchDone, envVars
<1>. QED
  BY <1>1, <1>2, <1>3, <1>4, <1>5, <1>6, <1>7, ProcessCtl, DispatchCtl, EpollWaitCtl DEF Read

LEMMA ProgramCtl == ASSUME IInv, Program  PROVE CtlTypeOK'
<1>1. UNCHANGED <<envVars, ctlVars>>
  BY DEF Program, TCPListen, TCPClientConnected, TCPClientConnecting, OpenFails,
         Send, AppDisconnect
<1>. QED  BY <1>1 DEF IInv, CtlTypeOK, envVars, ctlVars

LEMMA EnvironmentCtl == ASSUME IInv, Environment  PROVE CtlTypeOK'
<1>1. CASE ClockTick
  BY <1>1, CoreAssumption DEF ClockTick, IInv, CtlTypeOK, ctlVars
<1>2. CASE TimerExpires
  BY <1>2 DEF TimerExpires, IInv, CtlTypeOK, ctlVars
<1>3. ASSUME NEW fd \in Fds, Peer(fd)  PROVE CtlTypeOK'
  <2>1. UNCHANGED <<envVars, ctlVars>>
    BY <1>3 DEF Peer, PeerConnects, ConnectCompletes, PeerSends, PeerCloses, PeerResets,
                PeerDrains, KernelEvent
  <2>. QED  BY <2>1 DEF IInv, CtlTypeOK, envVars, ctlVars
<1>. QED  BY <1>1, <1>2, <1>3 DEF Environment

-----------------------------------------------------------------------------
(* The invariant.                                                          *)

LEMMA InitOK == Init => IInv
<1> SUFFICES ASSUME Init  PROVE IInv
  OBVIOUS
<1>1. TableOK /\ \A i \in Slots : sock[i].usStatus = "INIT"
  BY MgrInitOK DEF Init, MgrInit
<1>2. Members(kSendList) = {} /\ Owning = {}
  BY <1>1, EmptyList DEF Init, MgrInit, Owning
<1>3. NoStrandedSlot /\ SendListStates
  BY <1>1, <1>2 DEF NoStrandedSlot, SendListStates
<1>4. Kernel("closed") \in KernRecord /\ Kernel("closed").state = "closed"
  BY CoreAssumption DEF Kernel, KernRecord, SockStates
<1>5. NotRegistered \in RegRecord
  BY NoHandleOK DEF NotRegistered, RegRecord, Interests
<1>6. FdOwnership /\ KernTypeOK
  BY <1>2, <1>4, <1>5 DEF Init, FdOwnership, KernTypeOK
<1>7. CtlTypeOK
  <2>1. 0 \in Slots /\ 0 \in 0 .. MaxClock
    BY SizeAssumption, CoreAssumption DEF Slots
  <2>2. NoEvent \in [kind : EventKinds, h : Handles]
    BY NoHandleOK DEF NoEvent, Event, EventKinds
  <2>. QED  BY <2>1, <2>2 DEF Init, CtlTypeOK
<1>. QED  BY <1>1, <1>3, <1>6, <1>7 DEF IInv, SlotInv

LEMMA StepOK == IInv /\ [Next]_vars => IInv'
<1> SUFFICES ASSUME IInv, [Next]_vars  PROVE IInv'
  OBVIOUS
<1> USE DEF IInv
<1>1. CASE Program
  BY <1>1, ProgramCtl, TCPListenOK, TCPClientConnectedOK, TCPClientConnectingOK, OpenFailsOK,
     SendOK, AppDisconnectOK DEF Program
<1>2. CASE Read
  <2>1. CtlTypeOK'
    BY <1>2, ReadCtl
  <2>2. ASSUME NEW i \in Slots, Process(i)  PROVE SlotInv'
    BY <2>2, ProcessConnectedOK, ProcessConnectFailedOK, ProcessDisconnectOK,
       ProcessCommIdleOK, ProcessSendOK, ProcessRecvOK DEF Process
  <2>3. ASSUME UNCHANGED <<mgrVars, kernVars>>  PROVE SlotInv'
    BY <2>3, KernStepOK DEF SlotInv, KernTypeOK, SameOpen, kernVars
  <2>4. ASSUME NEW i \in Slots, NEW e \in batch, Dispatch(e, i)  PROVE SlotInv'
    <3>1. CASE DispatchListen(e, i)
      BY <3>1, <2>3 DEF DispatchListen
    <3>. QED  BY <2>4, <3>1, DispatchConnectingOK, DispatchActiveOK DEF Dispatch
  <2>5. CASE Call \/ ProcessDone \/ EpollNothing \/ DispatchDone
    BY <2>1, <2>3, <2>5 DEF Call, ProcessDone, EpollNothing, DispatchDone
  <2>6. CASE DispatchTimer
    BY <2>1, <2>6, NetTimeOutOK DEF DispatchTimer
  <2>. QED
    BY <1>2, <2>1, <2>2, <2>4, <2>5, <2>6, EpollWaitOK, AcceptOK, AcceptFullOK, AcceptEndsOK
       DEF Read
<1>3. CASE Environment
  <2>1. CASE ClockTick \/ TimerExpires
    <3>1. UNCHANGED <<mgrVars, kernVars>>
      BY <2>1 DEF ClockTick, TimerExpires
    <3>. QED
      BY <1>3, <3>1, EnvironmentCtl, KernStepOK DEF SlotInv, KernTypeOK, SameOpen, kernVars
  <2>. QED  BY <1>3, <2>1, EnvironmentCtl, PeerOK DEF Environment
<1>4. CASE UNCHANGED vars
  <2>1. SlotInv'
    BY <1>4, KernStepOK DEF vars, SlotInv, KernTypeOK, SameOpen, kernVars
  <2>2. CtlTypeOK'
    BY <1>4 DEF vars, CtlTypeOK, envVars, ctlVars
  <2>. QED  BY <2>1, <2>2
<1>. QED  BY <1>1, <1>2, <1>3, <1>4 DEF Next

(* IInv holds in every reachable state: the slot table, the four lists and *)
(* the descriptors stay consistent with each other through every handler.  *)
THEOREM Invariance == Spec => []IInv
BY InitOK, StepOK, PTL DEF Spec

(* Every variable keeps its type.                                          *)
THEOREM TypeCorrect == Spec => []TypeOK
<1>1. IInv => TypeOK
  BY DEF IInv, SlotInv, TableOK, KernTypeOK, CtlTypeOK, TypeOK
<1>. QED  BY <1>1, Invariance, PTL

(* The free list, the sweep list and the slots' own fields always agree on *)
(* which slots are free and which are connections, and no list holds a     *)
(* slot twice or a free one.                                               *)
THEOREM Partition == Spec => []SlotPartition
<1>1. IInv => SlotPartition
  BY DEF IInv, SlotInv, TableOK
<1>. QED  BY <1>1, Invariance, PTL

(* No byte of an earlier connection is left in a slot that is handed out.  *)
THEOREM Drained == Spec => []FreeSlotsDrained
<1>1. IInv => FreeSlotsDrained
  BY DEF IInv, SlotInv, TableOK
<1>. QED  BY <1>1, Invariance, PTL

(* A slot with something to report, or to be freed, is on kSendList.       *)
THEOREM NoneStranded == Spec => []NoStrandedSlot
<1>1. IInv => NoStrandedSlot
  BY DEF IInv, SlotInv
<1>. QED  BY <1>1, Invariance, PTL

(* SeNetCoreProcess never pops a slot in a state it has no branch for, and *)
(* its assertion about failed connections holds.                           *)
THEOREM ProcessStates == Spec => []SendListStates
<1>1. IInv => SendListStates
  BY DEF IInv, SlotInv
<1>. QED  BY <1>1, Invariance, PTL

(* No descriptor is leaked, closed twice, or shared by two slots.          *)
THEOREM Ownership == Spec => []FdOwnership
<1>1. IInv => FdOwnership
  BY DEF IInv, SlotInv
<1>. QED  BY <1>1, Invariance, PTL

-----------------------------------------------------------------------------
(***************************************************************************)
(* kRecvList is exact, for every value of the constants: the argument that *)
(* no frame received is forgotten, and that SeNetCoreProcess never pops a  *)
(* slot from kRecvList for nothing.                                        *)
(*                                                                         *)
(* RecvListExact is not inductive: an announced connection might have a    *)
(* frame that nobody listed, left by the slot's last use.  RecvOK adds     *)
(* that a connection still being opened has received nothing, and that     *)
(* only connections are listed.                                            *)
(***************************************************************************)
Opening == {"INIT", "CONNECTING", "CONNECTED", "CONNECTED_FAILED"}

RecvOK(i) ==
  /\ sock[i].usStatus \in Opening => sock[i].recv = 0
  /\ Active(i) /\ CanRead(sock[i]) => i \in Members(kRecvList)
  /\ i \in Members(kRecvList) =>
       /\ IsConnection(sock[i]) /\ CanRead(sock[i])
       /\ sock[i].usStatus = "ACTIVECONNECT" \/ i \in Members(kSendList)

RecvInv == \A i \in Slots : RecvOK(i)

-----------------------------------------------------------------------------
(* A step that leaves every slot but i, and its places on the work lists,  *)
(* as they were.                                                           *)
OnlySlot(i) ==
  \A j \in Slots \ {i} :
    /\ sock'[j] = sock[j]
    /\ j \in Members(kSendList') <=> j \in Members(kSendList)
    /\ j \in Members(kRecvList') <=> j \in Members(kRecvList)

LEMMA OneSlotOK ==
  ASSUME RecvInv, NEW i \in Slots, OnlySlot(i), RecvOK(i)'  PROVE RecvInv'
<1>1. ASSUME NEW j \in Slots, j # i  PROVE RecvOK(j)'
  BY <1>1 DEF RecvInv, RecvOK, OnlySlot, Active
<1>. QED  BY <1>1 DEF RecvInv

LEMMA NoSlotOK ==
  ASSUME RecvInv, UNCHANGED <<sock, kSendList, kRecvList>>  PROVE RecvInv'
BY DEF RecvInv, RecvOK, Active

(* A slot that has received nothing has no frame.                          *)
LEMMA NothingToRead == ASSUME NEW s, s.recv = 0  PROVE ~CanRead(s)
BY CoreAssumption DEF CanRead

LEMMA ChangedSlot ==
  ASSUME SlotInv, NEW i \in Slots, NEW s, sock' = [sock EXCEPT ![i] = s]
  PROVE  sock'[i] = s /\ \A j \in Slots \ {i} : sock'[j] = sock[j]
BY DEF SlotInv, TableOK, MgrTypeOK

-----------------------------------------------------------------------------
(* The shapes of a step.                                                   *)

(* A slot taken from the free list has received nothing, and is on no work *)
(* list but kSendList.                                                     *)
LEMMA NewSlotRecv ==
  ASSUME IInv, RecvInv, NEW i, NEW type \in Types \ {"NONE"}, NEW status \in OwnStates,
         FreeFds # {}, NEW s,
         s = [NewSlot(i, NewFd, type, clock) EXCEPT !.usStatus = status],
         MgrAdd(i, s), kSendList' \in {kSendList, AddInList(kSendList, i)},
         kRecvList' = kRecvList
  PROVE  RecvInv'
<1>1. SlotInv /\ MgrTypeOK /\ clock \in Nat /\ status \in Statuses /\ type \in Types
  BY CoreAssumption DEF IInv, SlotInv, TableOK, CtlTypeOK, OwnStates, Statuses
<1>2. i \in Slots /\ i \in Members(kMainList)
  BY <1>1, TableLists, TailList DEF SlotInv, MgrAdd, MgrFull, FreeSlot
<1>3. s.recv = sock[i].recv
  BY <1>1, <1>2, NewFdFree, PreparedSlot
<1>4. sock[i].recv = 0 /\ i \notin Members(kRecvList)
  BY <1>1, <1>2 DEF SlotInv, TableOK, FreeSlotsDrained, SlotPartition
<1>5. sock'[i] = s /\ \A j \in Slots \ {i} : sock'[j] = sock[j]
  BY <1>1, <1>2, ChangedSlot DEF MgrAdd
<1>6. OnlySlot(i)
  BY <1>1, <1>2, <1>5, TableLists, AddInListList DEF SlotInv, OnlySlot
<1>7. RecvOK(i)'
  BY <1>3, <1>4, <1>5, NothingToRead DEF RecvOK
<1>. QED  BY <1>2, <1>6, <1>7, OneSlotOK

(* A closed slot keeps what it received, and its place on kRecvList, until *)
(* it has been reported: it is on kSendList.                               *)
LEMMA DisconnectRecv ==
  ASSUME SlotInv, RecvInv, NEW i \in Slots, NEW s \in SlotRecord, SameIdentity(sock[i], s),
         sock[i].usStatus \in {"CONNECTING", "ACTIVECONNECT"},
         NEW sendList, IsList(sendList), Members(sendList) \subseteq Members(kSendList),
         Members(kSendList) \ {i} \subseteq Members(sendList),
         Disconnect(i, s, sendList),
         s.recv >= sock[i].recv, sock[i].usStatus = "CONNECTING" => s.recv = sock[i].recv,
         \/ kRecvList' = kRecvList
         \/ kRecvList' = AddInList(kRecvList, i) /\ CanRead(s) /\ IsConnection(s)
  PROVE  RecvInv'
<1> DEFINE t == Disconnected(s)
<1>1. /\ t.recv = s.recv /\ t.iTypeSocket = sock[i].iTypeSocket
      /\ t.usStatus \in {"CONNECTED_FAILED", "DISCONNECT"}
      /\ t.usStatus = "CONNECTED_FAILED" => sock[i].usStatus = "CONNECTING"
  BY DEF Disconnected, SlotRecord, SameIdentity
<1>2. sock'[i] = t /\ \A j \in Slots \ {i} : sock'[j] = sock[j]
  BY ChangedSlot DEF Disconnect
<1> HIDE DEF t
<1>3. IsList(kSendList') /\ Members(kSendList') = Members(sendList) \cup {i}
  BY AddInListList DEF Disconnect
<1>4. /\ Members(kRecvList') \subseteq Members(kRecvList) \cup {i}
      /\ Members(kRecvList) \subseteq Members(kRecvList')
  BY TableLists, AddInListList DEF SlotInv
<1>5. OnlySlot(i)
  BY <1>2, <1>3, <1>4 DEF OnlySlot
<1>6. t.usStatus \in Opening => t.recv = 0
  BY <1>1 DEF RecvInv, RecvOK, Opening
<1>7. i \in Members(kRecvList') => IsConnection(t) /\ CanRead(t)
  <2>1. CASE i \in Members(kRecvList)
    <3>1. IsConnection(sock[i]) /\ sock[i].recv >= FrameLen
      BY <2>1 DEF RecvInv, RecvOK, CanRead
    <3>2. s.recv \in Nat /\ sock[i].recv \in Nat /\ FrameLen \in Nat
      BY CoreAssumption DEF SlotRecord, SlotInv, TableOK, MgrTypeOK
    <3>. QED  BY <1>1, <3>1, <3>2 DEF IsConnection, CanRead
  <2>2. CASE i \notin Members(kRecvList)
    BY <1>1, <2>2 DEF IsConnection, CanRead, SameIdentity
  <2>. QED  BY <2>1, <2>2
<1>8. RecvOK(i)'
  BY <1>1, <1>2, <1>3, <1>6, <1>7 DEF RecvOK, Active
<1>. QED  BY <1>5, <1>8, OneSlotOK

(* A freed slot is empty and on no work list.                              *)
LEMMA MgrDelRecv ==
  ASSUME SlotInv, RecvInv, NEW i \in Slots, MgrDel(i)  PROVE RecvInv'
<1> DEFINE r == MgrEnd(Reset(sock[i]))
<1>1. r.recv = 0 /\ r.usStatus = "INIT"
  BY ResetSlot DEF SlotInv, TableOK, MgrTypeOK
<1>2. sock'[i] = r /\ \A j \in Slots \ {i} : sock'[j] = sock[j]
  BY ChangedSlot DEF MgrDel
<1> HIDE DEF r
<1>3. /\ Members(kSendList') = Members(kSendList) \ {i}
      /\ Members(kRecvList') = Members(kRecvList) \ {i}
  BY TableLists, UnlinkList DEF SlotInv, MgrDel
<1>4. OnlySlot(i) /\ RecvOK(i)'
  BY <1>1, <1>2, <1>3, NothingToRead DEF OnlySlot, RecvOK
<1>. QED  BY <1>4, OneSlotOK

(* An active slot is worked on, without receiving: only its place on       *)
(* kSendList may change.                                                   *)
LEMMA SameRecv ==
  ASSUME SlotInv, RecvInv, NEW i \in Slots, NEW s \in SlotRecord, SameIdentity(sock[i], s),
         s.recv = sock[i].recv, sock[i].usStatus = "ACTIVECONNECT",
         sock' = [sock EXCEPT ![i] = s], kRecvList' = kRecvList,
         \A j \in Slots \ {i} : j \in Members(kSendList') <=> j \in Members(kSendList)
  PROVE  RecvInv'
<1>1. sock'[i] = s /\ \A j \in Slots \ {i} : sock'[j] = sock[j]
  BY ChangedSlot
<1>2. OnlySlot(i)
  BY <1>1 DEF OnlySlot
<1>3. RecvOK(i)'
  BY <1>1 DEF RecvInv, RecvOK, SameIdentity, Active, IsConnection, CanRead, Opening
<1>. QED  BY <1>2, <1>3, OneSlotOK

-----------------------------------------------------------------------------
(* What the byte-moving helpers do to what was received.                   *)

LEMMA RecvBufRecv ==
  ASSUME NEW s \in SlotRecord, NEW k \in KernRecord
  PROVE  RecvBuf(s, k).s.recv = s.recv + k.rcv
<1> DEFINE n == s.recv + k.rcv
           tick == IF k.rcv > 0 /\ ~HangUp(k) THEN clock ELSE s.llTime
<1>1. RecvBuf(s, k).s = [s EXCEPT !.recv = n, !.llTime = tick]
  BY DEF RecvBuf
<1> HIDE DEF n, tick
<1>2. [s EXCEPT !.recv = n, !.llTime = tick].recv = n
  BY DEF SlotRecord
<1>. QED  BY <1>1, <1>2 DEF n

LEMMA SendBufRecv ==
  ASSUME NEW s \in SlotRecord, NEW k \in KernRecord, NEW e \in Interests
  PROVE  SendBuf(s, k, e).s.recv = s.recv
<1> DEFINE sent == [s EXCEPT !.send = @ - Take(s, k)]
           r == SendBuf(s, k, e)
<1>1. /\ sent.recv = s.recv /\ DOMAIN sent = DOMAIN s
      /\ DOMAIN s = {"usStatus", "iTypeSocket", "kHSocket", "kSocket", "iEventSocket",
                     "llTime", "send", "recv"}
      /\ sent.send = s.send - Take(s, k)
  BY DEF SlotRecord
<1>2. s.send - Take(s, k) \in Nat
  BY DEF Take, SlotRecord, KernRecord
<1>3. sent \in SlotRecord
  BY <1>2 DEF SlotRecord
<1>4. \A t \in SlotRecord, b \in EventBits :
        /\ ClearEvent(t, b) \in SlotRecord /\ ClearEvent(t, b).recv = t.recv
        /\ AddEvent(t, b).recv = t.recv
  BY DEF SlotRecord, ClearEvent, AddEvent
<1>5. Armed(sent).recv = s.recv /\ ClearEvent(sent, "FLAG").recv = s.recv
  BY <1>1, <1>3, <1>4 DEF Armed, EventBits
<1>6. r.s \in {s, Armed(sent), ClearEvent(sent, "FLAG")}
  <2>1. CASE ~HasEvent(s, "WRITE") \/ (s.send > 0 /\ k.state = "err")
    BY <2>1 DEF SendBuf, SendResult
  <2>2. CASE ~(~HasEvent(s, "WRITE") \/ (s.send > 0 /\ k.state = "err")) /\ sent.send > 0
    BY <2>2 DEF SendBuf, SendResult
  <2>3. CASE ~(~HasEvent(s, "WRITE") \/ (s.send > 0 /\ k.state = "err")) /\ sent.send = 0
    BY <2>3 DEF SendBuf, SendResult
  <2>. QED  BY <2>1, <2>2, <2>3, <1>1, <1>2
<1>. QED  BY <1>5, <1>6

-----------------------------------------------------------------------------
(* Every action.                                                           *)

LEMMA ProgramRecv == ASSUME IInv, RecvInv, Program  PROVE RecvInv'
<1>1. CASE TCPListen \/ TCPClientConnected \/ TCPClientConnecting
  BY <1>1, NewSlotRecv
     DEF TCPListen, TCPClientConnected, TCPClientConnecting, CanOpen, MgrAdd, Types, OwnStates
<1>2. CASE OpenFails
  <2>1. PICK i \in Slots :
          /\ sock' = [sock EXCEPT ![i] = MgrEnd(Reset(sock[i]))]
          /\ kSendList' = kSendList /\ kRecvList' = kRecvList /\ i \in Members(kMainList)
    BY <1>2, TableLists, TailList
       DEF IInv, SlotInv, OpenFails, MgrAddThenDel, MgrFull, FreeSlot
  <2> DEFINE r == MgrEnd(Reset(sock[i]))
  <2>2. /\ r.recv = 0 /\ r.usStatus = "INIT" /\ i \notin Members(kRecvList)
        /\ sock' = [sock EXCEPT ![i] = r]
    BY <2>1, ResetSlot DEF IInv, SlotInv, TableOK, MgrTypeOK, SlotPartition
  <2> HIDE DEF r
  <2>3. OnlySlot(i) /\ RecvOK(i)'
    BY <2>1, <2>2, ChangedSlot, NothingToRead DEF IInv, OnlySlot, RecvOK
  <2>. QED  BY <2>1, <2>3, OneSlotOK
<1>3. ASSUME NEW i \in Slots, Send(i)  PROVE RecvInv'
  <2>1. PICK n \in 0 .. MaxOut - sock[i].send : sock' = [sock EXCEPT ![i].send = @ + n]
    BY <1>3 DEF Send
  <2> DEFINE s == [sock[i] EXCEPT !.send = @ + n]
  <2>2. /\ SlotInv /\ sock[i] \in SlotRecord /\ sock[i].usStatus = "ACTIVECONNECT"
        /\ kSendList' \in {kSendList, AddInList(kSendList, i)} /\ kRecvList' = kRecvList
    BY <1>3 DEF IInv, SlotInv, TableOK, MgrTypeOK, Send, CanSend, SendQueued
  <2>3. s \in SlotRecord /\ SameIdentity(sock[i], s) /\ s.recv = sock[i].recv
    BY <2>2, CoreAssumption DEF SlotRecord, SameIdentity
  <2>4. sock' = [sock EXCEPT ![i] = s]
    BY <2>1
  <2> HIDE DEF s
  <2>5. \A j \in Slots \ {i} : j \in Members(kSendList') <=> j \in Members(kSendList)
    BY <2>2, TableLists, AddInListList DEF SlotInv
  <2>. QED  BY <2>2, <2>3, <2>4, <2>5, SameRecv
<1>4. ASSUME NEW i \in Slots, AppDisconnect(i)  PROVE RecvInv'
  <2>1. /\ SlotInv /\ sock[i] \in SlotRecord /\ SameIdentity(sock[i], sock[i])
        /\ sock[i].usStatus \in {"CONNECTING", "ACTIVECONNECT"}
        /\ Disconnect(i, sock[i], kSendList) /\ kRecvList' = kRecvList
    BY <1>4 DEF IInv, SlotInv, TableOK, MgrTypeOK, SameIdentity, AppDisconnect, MayDisconnect
  <2>2. sock[i].recv >= sock[i].recv
    BY <2>1 DEF SlotRecord
  <2>. QED  BY <2>1, <2>2, TableLists, DisconnectRecv DEF SlotInv
<1>. QED  BY <1>1, <1>2, <1>3, <1>4 DEF Program

LEMMA ProcessConnectedRecv ==
  ASSUME IInv, RecvInv, NEW i \in Slots, ProcessConnected(i)  PROVE RecvInv'
<1> DEFINE s == [AddEvent(ClearEvent(sock[i], "FLAG"), "WRITE")
                   EXCEPT !.usStatus = "ACTIVECONNECT", !.llTime = clock]
<1>1. Popping(i, "CONNECTED") /\ SlotInv
  BY DEF ProcessConnected, IInv
<1>2. /\ sock[i] \in SlotRecord /\ sock[i].usStatus = "CONNECTED"
      /\ Members(Tail(kSendList)) = Members(kSendList) \ {i}
  BY <1>1, PoppedSlot
<1>3. sock[i].recv = 0 /\ i \notin Members(kRecvList)
  BY <1>2, NothingToRead DEF RecvInv, RecvOK, Opening
<1>4. s.recv = sock[i].recv /\ s.usStatus = "ACTIVECONNECT"
  BY <1>2 DEF SlotRecord, AddEvent, ClearEvent
<1>5. sock' = [sock EXCEPT ![i] = s] /\ kSendList' = Tail(kSendList) /\ kRecvList' = kRecvList
  BY DEF ProcessConnected
<1> HIDE DEF s
<1>6. sock'[i] = s /\ \A j \in Slots \ {i} : sock'[j] = sock[j]
  BY <1>1, <1>5, ChangedSlot
<1>7. OnlySlot(i) /\ RecvOK(i)'
  BY <1>2, <1>3, <1>4, <1>5, <1>6, NothingToRead DEF OnlySlot, RecvOK, Opening
<1>. QED  BY <1>7, OneSlotOK

LEMMA ProcessDisconnectRecv ==
  ASSUME IInv, RecvInv, NEW i \in Slots, ProcessDisconnect(i)  PROVE RecvInv'
<1> DEFINE s == [sock[i] EXCEPT !.usStatus = "COMM_IDLE"]
<1>1. Popping(i, "DISCONNECT") /\ SlotInv
  BY DEF ProcessDisconnect, IInv
<1>2. /\ sock[i] \in SlotRecord /\ IsList(Tail(kSendList))
      /\ Members(Tail(kSendList)) = Members(kSendList) \ {i}
  BY <1>1, PoppedSlot
<1>3. /\ s.recv = sock[i].recv /\ s.usStatus = "COMM_IDLE"
      /\ s.iTypeSocket = sock[i].iTypeSocket
  BY <1>2 DEF SlotRecord
<1>4. /\ sock' = [sock EXCEPT ![i] = s] /\ kRecvList' = kRecvList
      /\ Members(kSendList') = Members(Tail(kSendList)) \cup {i}
  BY <1>2, AddInListList DEF ProcessDisconnect
<1> HIDE DEF s
<1>5. sock'[i] = s /\ \A j \in Slots \ {i} : sock'[j] = sock[j]
  BY <1>1, <1>4, ChangedSlot
<1>6. OnlySlot(i)
  BY <1>2, <1>4, <1>5 DEF OnlySlot
<1>7. RecvOK(i)'
  BY <1>3, <1>4, <1>5 DEF RecvInv, RecvOK, Opening, Active, IsConnection, CanRead
<1>. QED  BY <1>6, <1>7, OneSlotOK

LEMMA ProcessSendRecv ==
  ASSUME IInv, RecvInv, NEW i \in Slots, ProcessSend(i)  PROVE RecvInv'
<1> DEFINE fd == sock[i].kSocket
           e  == reg[fd].interest
           r  == SendBuf(sock[i], kern[fd], e)
<1>1. Popping(i, "ACTIVECONNECT") /\ SlotInv
  BY DEF ProcessSend, IInv
<1>2. /\ sock[i] \in SlotRecord /\ sock[i].usStatus = "ACTIVECONNECT"
      /\ IsList(Tail(kSendList)) /\ Members(Tail(kSendList)) = Members(kSendList) \ {i}
  BY <1>1, PoppedSlot
<1>3. fd \in Fds /\ kern[fd] \in KernRecord /\ e \in Interests
  BY <1>1, <1>2, ActiveSlot DEF OwnStates
<1>4. r.s \in SlotRecord /\ SameIdentity(sock[i], r.s) /\ r.s.recv = sock[i].recv
  BY <1>2, <1>3, SendBufOK, SendBufRecv
<1>5. \/ sock' = [sock EXCEPT ![i] = r.s] /\ kSendList' = Tail(kSendList)
      \/ Disconnect(i, r.s, Tail(kSendList))
  BY DEF ProcessSend
<1>6. kRecvList' = kRecvList
  BY DEF ProcessSend
<1> HIDE DEF r, e, fd
<1>7. ASSUME sock' = [sock EXCEPT ![i] = r.s], kSendList' = Tail(kSendList)
      PROVE  RecvInv'
  BY <1>1, <1>2, <1>4, <1>6, <1>7, SameRecv
<1>8. ASSUME Disconnect(i, r.s, Tail(kSendList))  PROVE RecvInv'
  <2>1. r.s.recv >= sock[i].recv
    BY <1>2, <1>4 DEF SlotRecord
  <2>. QED  BY <1>1, <1>2, <1>4, <1>6, <1>8, <2>1, DisconnectRecv
<1>. QED  BY <1>5, <1>7, <1>8

(* One frame is taken; the slot stays listed if there is another.          *)
LEMMA ProcessRecvRecv ==
  ASSUME IInv, RecvInv, NEW i \in Slots, ProcessRecv(i)  PROVE RecvInv'
<1> DEFINE s == [sock[i] EXCEPT !.recv = @ - FrameLen]
<1>1. /\ SlotInv /\ Reading(i) /\ sock' = [sock EXCEPT ![i] = s] /\ kSendList' = kSendList
      /\ kRecvList' = IF CanRead(s) THEN AddInList(Tail(kRecvList), i) ELSE Tail(kRecvList)
      /\ sock[i].usStatus = "ACTIVECONNECT"
  BY DEF IInv, ProcessRecv, HasFrame
<1>2. /\ IsList(Tail(kRecvList)) /\ Members(Tail(kRecvList)) = Members(kRecvList) \ {i}
      /\ i \in Members(kRecvList)
  BY <1>1, TableLists, TailList DEF SlotInv, Reading
<1>3. s.usStatus = "ACTIVECONNECT" /\ s.iTypeSocket = sock[i].iTypeSocket
  BY <1>1 DEF SlotInv, TableOK, MgrTypeOK, SlotRecord
<1> HIDE DEF s
<1>4. Members(kRecvList') = IF CanRead(s) THEN Members(kRecvList) ELSE Members(kRecvList) \ {i}
  <2>1. Members(AddInList(Tail(kRecvList), i)) = Members(Tail(kRecvList)) \cup {i}
    BY <1>2, AddInListList
  <2>2. CASE CanRead(s)
    BY <1>1, <1>2, <2>1, <2>2
  <2>3. CASE ~CanRead(s)
    BY <1>1, <1>2, <2>3
  <2>. QED  BY <2>2, <2>3
<1>5. sock'[i] = s /\ \A j \in Slots \ {i} : sock'[j] = sock[j]
  BY <1>1, ChangedSlot
<1>6. OnlySlot(i)
  BY <1>1, <1>4, <1>5 DEF OnlySlot
<1>7. RecvOK(i)'
  BY <1>2, <1>3, <1>4, <1>5 DEF RecvInv, RecvOK, Opening, IsConnection
<1>. QED  BY <1>6, <1>7, OneSlotOK

LEMMA DispatchConnectingRecv ==
  ASSUME IInv, RecvInv, NEW i \in Slots, NEW e \in batch, DispatchConnecting(e, i)
  PROVE  RecvInv'
<1>1. /\ SlotInv /\ sock[i] \in SlotRecord /\ sock[i].usStatus = "CONNECTING"
      /\ kRecvList' = kRecvList /\ kSendList' = AddInList(kSendList, i)
  BY DispatchedSlot DEF IInv, DispatchConnecting
<1>2. PICK s : sock' = [sock EXCEPT ![i] = s] /\ s.recv = sock[i].recv /\ s.usStatus \in Opening
  <2> DEFINE c == [sock[i] EXCEPT !.usStatus = "CONNECTED", !.llTime = clock]
             f == [sock[i] EXCEPT !.usStatus = "CONNECTED_FAILED"]
  <2>1. \/ sock' = [sock EXCEPT ![i].usStatus = "CONNECTED", ![i].llTime = clock]
        \/ sock' = [sock EXCEPT ![i].usStatus = "CONNECTED_FAILED"]
    BY DEF DispatchConnecting
  <2>2. sock' = [sock EXCEPT ![i] = c] \/ sock' = [sock EXCEPT ![i] = f]
    BY <2>1, <1>1 DEF SlotInv, TableOK, MgrTypeOK
  <2>3. /\ c.recv = sock[i].recv /\ c.usStatus = "CONNECTED"
        /\ f.recv = sock[i].recv /\ f.usStatus = "CONNECTED_FAILED"
    BY <1>1 DEF SlotRecord
  <2>. QED  BY <2>2, <2>3 DEF Opening
<1>3. sock[i].recv = 0 /\ i \notin Members(kRecvList)
  BY <1>1, NothingToRead DEF RecvInv, RecvOK, Opening
<1>4. sock'[i] = s /\ \A j \in Slots \ {i} : sock'[j] = sock[j]
  BY <1>1, <1>2, ChangedSlot
<1>5. Members(kSendList') = Members(kSendList) \cup {i}
  BY <1>1, TableLists, AddInListList DEF SlotInv
<1>6. OnlySlot(i) /\ RecvOK(i)'
  BY <1>1, <1>2, <1>3, <1>4, <1>5, NothingToRead DEF OnlySlot, RecvOK
<1>. QED  BY <1>6, OneSlotOK

(* Bytes come in: a slot that has a whole frame afterwards is listed,      *)
(* unless it is closed.                                                    *)
LEMMA DispatchActiveRecv ==
  ASSUME IInv, RecvInv, NEW i \in Slots, NEW e \in batch, DispatchActive(e, i)
  PROVE  RecvInv'
<1> DEFINE s  == sock[i]
           fd == s.kSocket
           x  == reg[fd].interest
           in == IF e.rev.bRead /\ ~e.rev.bError THEN RecvBuf(s, kern[fd])
                 ELSE [ok |-> ~e.rev.bError, s |-> s, k |-> kern[fd]]
           out == IF e.rev.bWrite THEN SendBuf(AddEvent(in.s, "WRITE"), in.k, x)
                  ELSE SendResult(TRUE, in.s, in.k, x)
           framed == in.ok /\ e.rev.bRead /\ CanRead(in.s)
<1>1. /\ SlotInv /\ s \in SlotRecord /\ s.usStatus = "ACTIVECONNECT" /\ IsConnection(s)
      /\ fd \in Fds /\ kern[fd] \in KernRecord /\ x \in Interests
  BY DispatchedSlot, ActiveSlot DEF IInv, DispatchActive, OwnStates
<1>2. /\ in.s \in SlotRecord /\ SameIdentity(s, in.s) /\ in.k \in KernRecord
      /\ in.s.recv >= s.recv /\ (~(e.rev.bRead /\ ~e.rev.bError) => in.s = s)
  <2>1. clock \in Nat
    BY CoreAssumption DEF IInv, CtlTypeOK
  <2>2. s.recv \in Nat /\ kern[fd].rcv \in Nat
    BY <1>1 DEF SlotRecord, KernRecord
  <2>3. CASE e.rev.bRead /\ ~e.rev.bError
    <3>1. in = RecvBuf(s, kern[fd])
      BY <2>3
    <3> HIDE DEF in
    <3>2. in.s.recv = s.recv + kern[fd].rcv
      BY <1>1, <3>1, RecvBufRecv
    <3>. QED  BY <1>1, <2>1, <2>2, <2>3, <3>1, <3>2, RecvBufOK
  <2>4. CASE ~(e.rev.bRead /\ ~e.rev.bError)
    BY <1>1, <2>2, <2>4 DEF SameIdentity
  <2>. QED  BY <2>3, <2>4
<1>3. in.ok => ~e.rev.bError
  BY DEF RecvBuf
<1>4. /\ \/ ~in.ok /\ Disconnect(i, in.s, kSendList)
         \/ in.ok /\ Disconnect(i, out.s, kSendList)
         \/ in.ok /\ sock' = [sock EXCEPT ![i] = out.s] /\ kSendList' = kSendList
      /\ kRecvList' = IF framed THEN AddInList(kRecvList, i) ELSE kRecvList
  BY DEF DispatchActive
<1>5. out.s \in SlotRecord /\ SameIdentity(s, out.s) /\ out.s.recv = in.s.recv
  <2> DEFINE w == AddEvent(in.s, "WRITE")
  <2> HIDE DEF in
  <2>1. w \in SlotRecord /\ SameIdentity(s, w) /\ w.recv = in.s.recv
    BY <1>2 DEF SlotRecord, AddEvent, EventBits, SameIdentity
  <2> HIDE DEF w
  <2>2. CASE e.rev.bWrite
    <3>1. out = SendBuf(w, in.k, x)
      BY <2>2 DEF w
    <3> HIDE DEF out, x, fd
    <3>2. out.s \in SlotRecord /\ SameIdentity(w, out.s) /\ out.s.recv = w.recv
      BY <3>1, <1>1, <1>2, <2>1, SendBufOK, SendBufRecv
    <3>. QED  BY <3>2, <2>1 DEF SameIdentity
  <2>3. CASE ~e.rev.bWrite
    BY <2>3, <1>2 DEF SendResult
  <2>. QED  BY <2>2, <2>3
<1> HIDE DEF in, out, x, fd
<1>6. ASSUME NEW t \in SlotRecord, SameIdentity(s, t), Disconnect(i, t, kSendList),
             t.recv = in.s.recv
      PROVE  RecvInv'
  <2>1. framed => CanRead(t) /\ IsConnection(t)
    BY <1>1, <1>6 DEF CanRead, IsConnection, SameIdentity
  <2>2. t.recv >= sock[i].recv
    BY <1>2, <1>6
  <2>. QED  BY <1>1, <1>4, <1>6, <2>1, <2>2, TableLists, DisconnectRecv DEF SlotInv
<1>7. ASSUME in.ok, sock' = [sock EXCEPT ![i] = out.s], kSendList' = kSendList
      PROVE  RecvInv'
  <2>1. sock'[i] = out.s /\ \A j \in Slots \ {i} : sock'[j] = sock[j]
    BY <1>1, <1>7, ChangedSlot
  <2>2. Members(kRecvList') = IF framed THEN Members(kRecvList) \cup {i} ELSE Members(kRecvList)
    BY <1>1, <1>4, TableLists, AddInListList DEF SlotInv
  <2>3. OnlySlot(i)
    BY <1>7, <2>1, <2>2 DEF OnlySlot
  <2>4. CASE e.rev.bRead
    <3>1. framed <=> CanRead(out.s)
      BY <1>5, <1>7, <2>4 DEF CanRead
    <3>2. i \in Members(kRecvList) => CanRead(out.s)
      <4>1. s.recv \in Nat /\ out.s.recv \in Nat /\ FrameLen \in Nat
        BY <1>1, <1>5, CoreAssumption DEF SlotRecord
      <4>2. i \in Members(kRecvList) => s.recv >= FrameLen
        BY DEF RecvInv, RecvOK, CanRead
      <4>. QED  BY <1>2, <1>5, <4>1, <4>2 DEF CanRead
    <3>. QED
      BY <1>1, <1>5, <2>1, <2>2, <2>3, <3>1, <3>2, OneSlotOK
         DEF RecvOK, Opening, IsConnection, SameIdentity
  <2>5. CASE ~e.rev.bRead
    <3>1. out.s.recv = s.recv /\ ~framed
      BY <1>2, <1>5, <2>5
    <3>2. RecvOK(i)'
      BY <1>1, <1>5, <2>1, <2>2, <3>1
         DEF RecvInv, RecvOK, Active, Opening, IsConnection, SameIdentity, CanRead
    <3>. QED  BY <2>3, <3>2, OneSlotOK
  <2>. QED  BY <2>4, <2>5
<1>. QED  BY <1>2, <1>4, <1>5, <1>6, <1>7

LEMMA NetTimeOutRecv ==
  ASSUME SlotInv, RecvInv, NetTimeOut, UNCHANGED kRecvList  PROVE RecvInv'
<1> DEFINE i == Head(kActiveMainList)
<1>1. CASE kActiveMainList = <<>> \/ ~Expired(sock[i])
  BY <1>1, NoSlotOK DEF NetTimeOut
<1>2. CASE kActiveMainList # <<>> /\ Expired(sock[i])
  <2>1. i \in Slots /\ Disconnect(i, sock[i], kSendList)
    BY <1>2, TableLists, TailList DEF SlotInv, NetTimeOut
  <2>2. /\ sock[i] \in SlotRecord /\ SameIdentity(sock[i], sock[i])
        /\ sock[i].usStatus \in {"CONNECTING", "ACTIVECONNECT"}
    BY <1>2, <2>1 DEF SlotInv, TableOK, MgrTypeOK, SameIdentity, Expired, MayDisconnect
  <2> HIDE DEF i
  <2>3. sock[i].recv >= sock[i].recv
    BY <2>2 DEF SlotRecord
  <2>. QED  BY <2>1, <2>2, <2>3, TableLists, DisconnectRecv DEF SlotInv
<1>. QED  BY <1>1, <1>2

LEMMA ReadRecv == ASSUME IInv, RecvInv, Read  PROVE RecvInv'
<1>1. ASSUME NEW i \in Slots, Process(i)  PROVE RecvInv'
  BY <1>1, ProcessConnectedRecv, ProcessDisconnectRecv, ProcessSendRecv, ProcessRecvRecv,
     MgrDelRecv DEF Process, ProcessConnectFailed, ProcessCommIdle, IInv
<1>2. ASSUME NEW i \in Slots, NEW e \in batch, Dispatch(e, i)  PROVE RecvInv'
  <2>1. CASE DispatchListen(e, i)
    BY <2>1, NoSlotOK DEF DispatchListen, mgrVars, listVars
  <2>. QED  BY <1>2, <2>1, DispatchConnectingRecv, DispatchActiveRecv DEF Dispatch
<1>3. CASE Accept
  BY <1>3, NewSlotRecv DEF Accept, Accepting, MgrAdd, Types, OwnStates
<1>4. CASE Call \/ ProcessDone \/ EpollWait \/ EpollNothing \/ AcceptFull \/ AcceptEnds
           \/ DispatchDone
  BY <1>4, NoSlotOK DEF Call, ProcessDone, EpollWait, EpollNothing, AcceptFull, AcceptEnds,
                        DispatchDone, mgrVars, listVars
<1>5. CASE DispatchTimer
  BY <1>5, NetTimeOutRecv DEF DispatchTimer, IInv
<1>. QED  BY <1>1, <1>2, <1>3, <1>4, <1>5 DEF Read

LEMMA EnvironmentRecv == ASSUME RecvInv, Environment  PROVE RecvInv'
<1>1. UNCHANGED mgrVars
  BY DEF Environment, ClockTick, TimerExpires, Peer, PeerConnects, ConnectCompletes, PeerSends,
         PeerCloses, PeerResets, PeerDrains, KernelEvent
<1>. QED  BY <1>1, NoSlotOK DEF mgrVars, listVars

LEMMA RecvStepOK == IInv /\ RecvInv /\ [Next]_vars => RecvInv'
<1> SUFFICES ASSUME IInv, RecvInv, [Next]_vars  PROVE RecvInv'
  OBVIOUS
<1>1. CASE UNCHANGED vars
  BY <1>1, NoSlotOK DEF vars, mgrVars, listVars
<1>. QED  BY <1>1, ProgramRecv, ReadRecv, EnvironmentRecv DEF Next

LEMMA RecvInitOK == Init => RecvInv
<1> SUFFICES ASSUME Init  PROVE RecvInv
  OBVIOUS
<1>1. Members(kRecvList) = {} /\ \A i \in Slots : sock[i].recv = 0
  BY EmptyList DEF Init, MgrInit
<1>. QED  BY <1>1, NothingToRead DEF RecvInv, RecvOK

(* kRecvList is exact: no frame received is forgotten, and what            *)
(* SeNetCoreProcess pops from it has a frame to read.                      *)
THEOREM RecvListed == Spec => []RecvListExact
<1>1. RecvInv /\ IInv => RecvListExact
  <2> SUFFICES ASSUME RecvInv, IInv  PROVE RecvListExact
    OBVIOUS
  <2>1. Members(kRecvList) \subseteq Slots
    BY TableLists, ListMembers DEF IInv, SlotInv
  <2>. QED  BY <2>1 DEF RecvInv, RecvOK, RecvListExact, Active
<1>. QED  BY <1>1, Invariance, RecvInitOK, RecvStepOK, PTL DEF Spec

-----------------------------------------------------------------------------
(***************************************************************************)
(* What epoll watches and what it reports.                                 *)
(*                                                                         *)
(* RegInv ties a slot to its entry in the epoll set: the entry carries the *)
(* slot's handle and the interest of the slot's stage, or, where epoll_ctl *)
(* may fail, is missing.  BatchInv adds that the events of a batch are of  *)
(* different slots, so that handling one leaves the others as they were,   *)
(* and that there is a batch only while it is walked, so that nothing but  *)
(* the walk can come between an event and its handling.                    *)
(***************************************************************************)

Watched(s) == Interest(s) \cup (IF SysFail THEN {"none"} ELSE {})

Entry(i) == reg[sock[i].kSocket]

RegOK(i) ==
  /\ i \in Members(kSendList) => IsConnection(sock[i])
  /\ sock[i].usStatus # "INIT" => IndexOf(sock[i].kHSocket) = i /\ sock[i].iTypeSocket # "NONE"
  /\ i \in Owning => /\ Entry(i).interest \in Watched(sock[i])
                     /\ Entry(i).interest # "none" => Entry(i).h = sock[i].kHSocket

(* A closed descriptor is in neither set.                                  *)
ClosedOK ==
  \A fd \in Fds : kern[fd].state = "closed" => reg[fd] = NotRegistered /\ fd \notin ready

RegInv == (\A i \in Slots : RegOK(i)) /\ ClosedOK

-----------------------------------------------------------------------------
(* The interest of each stage.                                             *)

LEMMA WatchedStages ==
  ASSUME NEW s
  PROVE  /\ s.usStatus = "CONNECTING" => "connect" \in Watched(s) /\ "spent" \in Watched(s)
         /\ s.usStatus = "CONNECTED" => "none" \in Watched(s)
         /\ s.usStatus = "ACTIVECONNECT" /\ s.iTypeSocket = "LISTEN" =>
              "listen" \in Watched(s)
         /\ s.usStatus = "ACTIVECONNECT" /\ s.iTypeSocket # "LISTEN" =>
              Watched(s) = (IF HasEvent(s, "FLAG") THEN {"inout"} ELSE {"in"})
                             \cup (IF SysFail THEN {"none"} ELSE {})
<1>1. s.usStatus = "ACTIVECONNECT" =>
        Interest(s) = IF s.iTypeSocket = "LISTEN" THEN {"listen"}
                      ELSE IF HasEvent(s, "FLAG") THEN {"inout"} ELSE {"in"}
  BY DEF Interest
<1>2. s.usStatus = "CONNECTING" => Interest(s) = {"connect", "spent"}
  BY DEF Interest
<1>3. s.usStatus = "CONNECTED" => Interest(s) = {"none"}
  BY DEF Interest
<1>. QED  BY <1>1, <1>2, <1>3 DEF Watched

LEMMA NotRegisteredFields == NotRegistered.interest = "none"
BY DEF NotRegistered

(* SeNetCoreSendBuf leaves the flag as it leaves, or wants to leave, the   *)
(* interest.                                                               *)
LEMMA SendBufWatched ==
  ASSUME NEW s \in SlotRecord, NEW k \in KernRecord, NEW e \in Interests,
         s.iTypeSocket # "LISTEN", s.usStatus = "ACTIVECONNECT", e \in Watched(s)
  PROVE  SendBuf(s, k, e).e \in Watched(SendBuf(s, k, e).s)
<1> DEFINE n == Take(s, k)
           sent == [s EXCEPT !.send = @ - n]
           r == SendBuf(s, k, e)
<1>1. n \in Nat /\ s.send - n \in Nat
  BY DEF Take, SlotRecord, KernRecord
<1>2. sent \in SlotRecord /\ SameIdentity(s, sent) /\ sent.iEventSocket = s.iEventSocket
  BY <1>1 DEF SlotRecord, SameIdentity
<1>3. \A t \in SlotRecord, b \in EventBits :
        /\ ClearEvent(t, b) \in SlotRecord /\ SameIdentity(t, ClearEvent(t, b))
        /\ ClearEvent(t, b).iEventSocket = t.iEventSocket \ {b}
        /\ AddEvent(t, b) \in SlotRecord /\ SameIdentity(t, AddEvent(t, b))
        /\ AddEvent(t, b).iEventSocket = t.iEventSocket \cup {b}
  BY DEF SlotRecord, ClearEvent, AddEvent, SameIdentity
<1>4. sent.send > 0 \/ sent.send = 0
  BY <1>2 DEF SlotRecord
<1> HIDE DEF n
<1>5. CASE ~HasEvent(s, "WRITE") \/ (s.send > 0 /\ k.state = "err")
  BY <1>5 DEF SendBuf, SendResult
<1>6. CASE ~(~HasEvent(s, "WRITE") \/ (s.send > 0 /\ k.state = "err")) /\ sent.send > 0
  <2>1. /\ r.s = Armed(sent) /\ r.e = IF HasEvent(s, "FLAG") THEN e ELSE "inout"
    BY <1>6 DEF SendBuf, SendResult, n
  <2> HIDE DEF sent, r
  <2>2. Armed(sent).iEventSocket = (s.iEventSocket \ {"WRITE"}) \cup {"FLAG"}
    BY <1>2, <1>3 DEF Armed, EventBits
  <2>3. SameIdentity(s, Armed(sent))
    BY <1>2, <1>3 DEF Armed, EventBits, SameIdentity
  <2>4. HasEvent(Armed(sent), "FLAG")
    BY <2>2 DEF HasEvent
  <2>. QED  BY <2>1, <2>3, <2>4, WatchedStages DEF SameIdentity, r
<1>7. CASE ~(~HasEvent(s, "WRITE") \/ (s.send > 0 /\ k.state = "err")) /\ sent.send = 0
  <2>1. /\ r.s = ClearEvent(sent, "FLAG") /\ r.e = IF HasEvent(s, "FLAG") THEN "in" ELSE e
    BY <1>7 DEF SendBuf, SendResult, n
  <2> HIDE DEF sent, r
  <2>2. ClearEvent(sent, "FLAG").iEventSocket = s.iEventSocket \ {"FLAG"}
    BY <1>2, <1>3 DEF EventBits
  <2>3. SameIdentity(s, ClearEvent(sent, "FLAG"))
    BY <1>2, <1>3 DEF EventBits, SameIdentity
  <2>4. ~HasEvent(ClearEvent(sent, "FLAG"), "FLAG")
    BY <2>2 DEF HasEvent
  <2>. QED  BY <2>1, <2>3, <2>4, WatchedStages DEF SameIdentity, r
<1>. QED  BY <1>4, <1>5, <1>6, <1>7

-----------------------------------------------------------------------------
(* The shapes of a step.                                                   *)

(* Nothing changes but one slot, its place on kSendList and at most its    *)
(* own entry.                                                              *)
OthersSame(i) ==
  \A j \in Slots \ {i} :
    /\ sock'[j] = sock[j]
    /\ j \in Members(kSendList') => j \in Members(kSendList)

LEMMA ChangedOne ==
  ASSUME SlotInv, NEW i \in Slots, NEW s, sock' = [sock EXCEPT ![i] = s]
  PROVE  sock'[i] = s /\ \A j \in Slots \ {i} : sock'[j] = sock[j]
BY DEF SlotInv, TableOK, MgrTypeOK

LEMMA OneEntryOK ==
  ASSUME SlotInv, RegInv, NEW i \in Slots, NEW fd, OthersSame(i),
         \A j \in Owning \ {i} : sock[j].kSocket # fd,
         \A g \in Fds \ {fd} : reg'[g] = reg[g],
         RegOK(i)', ClosedOK'
  PROVE  RegInv'
<1>1. ASSUME NEW j \in Slots, j # i  PROVE RegOK(j)'
  <2>1. sock'[j] = sock[j] /\ (j \in Members(kSendList') => j \in Members(kSendList))
    BY <1>1 DEF OthersSame
  <2>2. j \in Owning' <=> j \in Owning
    BY <2>1 DEF Owning
  <2>3. j \in Owning => Entry(j)' = Entry(j)
    BY <1>1, <2>1 DEF Entry, SlotInv, FdOwnership
  <2>4. RegOK(j)
    BY DEF RegInv
  <2>. QED  BY <2>1, <2>2, <2>3, <2>4 DEF RegOK
<1>. QED  BY <1>1 DEF RegInv

(* Only entries change that no slot but i can have.                        *)
LEMMA OwnEntryOK ==
  ASSUME SlotInv, RegInv, NEW i \in Owning, OthersSame(i),
         \A g \in Fds \ {sock[i].kSocket} : reg'[g] = reg[g],
         RegOK(i)', ClosedOK'
  PROVE  RegInv'
<1>1. i \in Slots /\ \A j \in Owning \ {i} : sock[j].kSocket # sock[i].kSocket
  BY DEF SlotInv, FdOwnership, Owning
<1>. QED  BY <1>1, OneEntryOK

LEMMA NoSlotReg ==
  ASSUME RegInv, UNCHANGED <<sock, kSendList, reg>>, ClosedOK'  PROVE RegInv'
BY DEF RegInv, RegOK, Entry, Owning

(* An open socket stays open; epoll may find it ready.                     *)
LEMMA StillOpen ==
  ASSUME RegInv, SameOpen, NEW fd, fd \in Fds => kern[fd].state # "closed",
         \A g \in Fds \ {fd} : reg'[g] = reg[g], ready' \subseteq ready \cup {fd}
  PROVE  ClosedOK'
BY DEF RegInv, ClosedOK, SameOpen

LEMMA DisconnectReg ==
  ASSUME SlotInv, RegInv, NEW i \in Slots, NEW s \in SlotRecord, SameIdentity(sock[i], s),
         MayDisconnect(sock[i]), NEW sendList, IsList(sendList),
         Members(sendList) \subseteq Members(kSendList), Disconnect(i, s, sendList)
  PROVE  RegInv'
<1> DEFINE t == Disconnected(s)
<1>1. /\ t.iTypeSocket = sock[i].iTypeSocket /\ t.kHSocket = sock[i].kHSocket
      /\ t.usStatus \in {"CONNECTED_FAILED", "DISCONNECT"}
      /\ sock[i].usStatus \in {"CONNECTING", "ACTIVECONNECT"}
  BY DEF Disconnected, SlotRecord, SameIdentity, MayDisconnect
<1>2. sock'[i] = t /\ \A j \in Slots \ {i} : sock'[j] = sock[j]
  BY ChangedOne DEF Disconnect
<1> HIDE DEF t
<1>3. Members(kSendList') = Members(sendList) \cup {i}
  BY AddInListList DEF Disconnect
<1>4. OthersSame(i) /\ i \in Owning
  BY <1>1, <1>2, <1>3 DEF OthersSame, Owning
<1>5. sock[i].kSocket \in Fds /\ Close(sock[i].kSocket)
  BY <1>4 DEF SlotInv, FdOwnership, Disconnect, SameIdentity
<1>6. ClosedOK' /\ \A g \in Fds \ {sock[i].kSocket} : reg'[g] = reg[g]
  BY <1>5 DEF Close, RegInv, ClosedOK, SlotInv, KernTypeOK, Kernel
<1>7. RegOK(i)'
  <2>1. i \notin Owning'
    BY <1>1, <1>2 DEF Owning
  <2>2. RegOK(i)
    BY DEF RegInv
  <2>. QED  BY <1>1, <1>2, <2>1, <2>2 DEF RegOK, MayDisconnect, IsConnection
<1>. QED  BY <1>4, <1>6, <1>7, OwnEntryOK

LEMMA MgrDelReg ==
  ASSUME SlotInv, RegInv, NEW i \in Slots, MgrDel(i), sock[i].usStatus # "INIT",
         UNCHANGED kernVars
  PROVE  RegInv'
<1>1. /\ Members(kSendList') = Members(kSendList) \ {i}
      /\ \A j \in Slots \ {i} : sock'[j] = sock[j]
      /\ sock'[i].usStatus = "INIT"
  BY MgrDelOK DEF SlotInv
<1>2. OthersSame(i) /\ RegOK(i)' /\ ClosedOK'
  BY <1>1 DEF OthersSame, RegOK, Owning, RegInv, ClosedOK, kernVars
<1>3. reg' = reg /\ 0 \notin Fds
  BY DEF kernVars, Fds
<1>4. \A j \in Owning \ {i} : sock[j].kSocket # 0
  BY <1>3 DEF SlotInv, FdOwnership
<1>. QED  BY <1>2, <1>3, <1>4, OneEntryOK

(* A slot taken for a new socket, which is watched as its stage says.      *)
LEMMA NewSlotReg ==
  ASSUME IInv, RegInv, NEW i, NEW type \in Types \ {"NONE"}, NEW status \in OwnStates,
         FreeFds # {}, NEW s, s.usStatus = status, s.iTypeSocket = type, s.kSocket = NewFd,
         s.kHSocket = Handle(i, clock), MgrAdd(i, s), kSendList' \in {kSendList, AddInList(kSendList, i)},
         kSendList' = kSendList \/ type # "LISTEN", NEW w,
         reg'[NewFd] = w, \A g \in Fds \ {NewFd} : reg'[g] = reg[g],
         ready' = ready, kern'[NewFd].state # "closed",
         \A g \in Fds \ {NewFd} : kern'[g].state = "closed" => kern[g].state = "closed",
         w.interest \in Watched(s), w.interest # "none" => w.h = s.kHSocket
  PROVE  RegInv'
<1>1. SlotInv /\ MgrTypeOK /\ clock \in Nat
  BY CoreAssumption DEF IInv, SlotInv, TableOK, CtlTypeOK
<1>2. i \in Slots /\ i \in Members(kMainList)
  BY <1>1, TableLists, TailList DEF SlotInv, MgrAdd, MgrFull, FreeSlot
<1>4. sock'[i] = s /\ \A j \in Slots \ {i} : sock'[j] = sock[j]
  <2>1. sock' = [sock EXCEPT ![i] = s]
    BY DEF MgrAdd
  <2>. QED  BY <1>1, <1>2, <2>1, ChangedOne
<1>5. OthersSame(i) /\ i \notin Members(kSendList)
  <2>1. IsList(kSendList) /\ i \notin Members(kSendList)
    BY <1>1, <1>2, FreeSlotFacts, TableLists DEF SlotInv
  <2>2. Members(AddInList(kSendList, i)) = Members(kSendList) \cup {i}
    BY <1>2, <2>1, AddInListList
  <2>. QED  BY <1>4, <2>1, <2>2 DEF OthersSame
<1>6. NewFd \in Fds /\ kern[NewFd].state = "closed"
  BY NewFdFree
<1>7. \A j \in Owning \ {i} : sock[j].kSocket # NewFd
  BY <1>1, <1>6 DEF SlotInv, FdOwnership
<1>8. ClosedOK'
  BY DEF RegInv, ClosedOK
<1>9. RegOK(i)'
  <2>1. IndexOf(s.kHSocket) = i
    BY DEF Handle, IndexOf
  <2>2. i \in Members(kSendList') => IsConnection(s)
    BY <1>5 DEF IsConnection, Types
  <2>3. Entry(i)' = w
    BY <1>4 DEF Entry
  <2>. QED  BY <1>4, <2>1, <2>2, <2>3 DEF RegOK
<1>. QED  BY <1>1, <1>2, <1>5, <1>7, <1>8, <1>9, OneEntryOK

(* An active connection is worked on; its entry keeps up with its flag.    *)
LEMMA WorkedReg ==
  ASSUME SlotInv, RegInv, NEW i \in Slots, sock[i].usStatus = "ACTIVECONNECT",
         IsConnection(sock[i]), NEW s \in SlotRecord, SameIdentity(sock[i], s),
         sock' = [sock EXCEPT ![i] = s],
         \A j \in Slots \ {i} : j \in Members(kSendList') => j \in Members(kSendList),
         \A g \in Fds \ {sock[i].kSocket} : reg'[g] = reg[g],
         reg'[sock[i].kSocket].interest \in Watched(s),
         reg'[sock[i].kSocket].h = reg[sock[i].kSocket].h,
         reg'[sock[i].kSocket].interest # "none" => reg[sock[i].kSocket].interest # "none",
         SameOpen, ready' \subseteq ready \cup {sock[i].kSocket}
  PROVE  RegInv'
<1>1. sock'[i] = s /\ \A j \in Slots \ {i} : sock'[j] = sock[j]
  BY ChangedOne
<1>2. OthersSame(i) /\ i \in Owning
  BY <1>1 DEF OthersSame, Owning
<1>3. ClosedOK'
  BY <1>2, StillOpen DEF SlotInv, FdOwnership
<1>4. RegOK(i)'
  <2>1. RegOK(i)
    BY DEF RegInv
  <2>2. Entry(i)' = reg'[sock[i].kSocket]
    BY <1>1 DEF Entry, SameIdentity
  <2>3. Entry(i) = reg[sock[i].kSocket]
    BY DEF Entry
  <2>. QED  BY <1>1, <1>2, <2>1, <2>2, <2>3 DEF RegOK, SameIdentity, IsConnection
<1>. QED  BY <1>2, <1>3, <1>4, OwnEntryOK

LEMMA WatchedSame ==
  ASSUME NEW s, NEW t, SameIdentity(s, t), s.iEventSocket = t.iEventSocket
  PROVE  Watched(t) = Watched(s)
BY DEF Watched, Interest, HasEvent, SameIdentity

LEMMA WatchedFlag ==
  ASSUME NEW s, NEW t, SameIdentity(s, t), HasEvent(s, "FLAG") <=> HasEvent(t, "FLAG")
  PROVE  Watched(t) = Watched(s)
BY DEF Watched, Interest, SameIdentity

(* What SeNetCoreSendBuf and its epoll_ctl did.                            *)
LEMMA SentReg ==
  ASSUME SlotInv, NEW fd \in Fds, NEW r, KernAfterSend(fd, r), r.k \in KernRecord,
         r.k.state = kern[fd].state, r.e \in Interests, CtlSucceeds(r, reg[fd].interest)
  PROVE  /\ SameOpen /\ ready' \subseteq ready \cup {fd}
         /\ \A g \in Fds \ {fd} : reg'[g] = reg[g]
         /\ reg'[fd].interest = r.e /\ reg'[fd].h = reg[fd].h
         /\ r.e # "none" => reg[fd].interest # "none"
<1>1. SameOpen
  BY KernAfterSendOK
<1>2. reg \in [Fds -> RegRecord] /\ reg' = [reg EXCEPT ![fd].interest = r.e]
  BY DEF SlotInv, KernTypeOK, KernAfterSend
<1>3. reg[fd] \in RegRecord /\ reg'[fd] = [reg[fd] EXCEPT !.interest = r.e]
  BY <1>2
<1>4. reg'[fd].interest = r.e /\ reg'[fd].h = reg[fd].h
  BY <1>3 DEF RegRecord
<1>. QED  BY <1>1, <1>2, <1>4 DEF KernAfterSend, ReadyAfterCtl, CtlSucceeds

-----------------------------------------------------------------------------
(* RegInv is kept by the calls of the program.                             *)

LEMMA OpenedReg ==
  ASSUME IInv, RegInv, NEW i, NEW type \in Types \ {"NONE"}, NEW status \in OwnStates,
         FreeFds # {}, NEW s, s.usStatus = status, s.iTypeSocket = type, s.kSocket = NewFd,
         s.kHSocket = Handle(i, clock), MgrAdd(i, s), kSendList' \in {kSendList, AddInList(kSendList, i)},
         kSendList' = kSendList \/ type # "LISTEN", NEW w,
         NEW state \in SockStates \ {"closed"}, Opened(NewFd, state, w),
         w.interest \in Watched(s), w.interest # "none" => w.h = s.kHSocket
  PROVE  RegInv'
<1>1. kern \in [Fds -> KernRecord] /\ reg \in [Fds -> RegRecord] /\ NewFd \in Fds
  BY NewFdFree DEF IInv, SlotInv, KernTypeOK
<1>2. /\ kern' = [kern EXCEPT ![NewFd] = Kernel(state)] /\ Kernel(state).state = state
      /\ reg' = [reg EXCEPT ![NewFd] = w] /\ ready' = ready
  BY DEF Opened, Kernel
<1>3. /\ reg'[NewFd] = w /\ \A g \in Fds \ {NewFd} : reg'[g] = reg[g]
      /\ kern'[NewFd].state # "closed" /\ ready' = ready
      /\ \A g \in Fds \ {NewFd} : kern'[g].state = "closed" => kern[g].state = "closed"
  BY <1>1, <1>2
<1>. QED  BY <1>3, NewSlotReg

LEMMA TCPListenReg == ASSUME IInv, RegInv, TCPListen  PROVE RegInv'
<1> DEFINE i == FreeSlot
           s == [NewSlot(i, NewFd, "LISTEN", clock) EXCEPT !.usStatus = "ACTIVECONNECT"]
           w == Watch("listen", s.kHSocket)
<1>1. /\ FreeFds # {} /\ ~MgrFull /\ MgrAdd(i, s) /\ Opened(NewFd, "listen", w)
      /\ kSendList' = kSendList
  BY DEF TCPListen, CanOpen
<1>2. /\ "LISTEN" \in Types \ {"NONE"} /\ "ACTIVECONNECT" \in OwnStates
      /\ "listen" \in SockStates \ {"closed"}
  BY DEF Types, OwnStates, SockStates
<1>3. i \in Slots
  BY <1>1, TableLists, TailList DEF IInv, SlotInv, MgrFull, FreeSlot
<1>4. /\ s.usStatus = "ACTIVECONNECT" /\ s.iTypeSocket = "LISTEN"
      /\ s.kSocket = NewFd /\ s.kHSocket = Handle(i, clock)
  BY <1>1, <1>2, <1>3, NewSlotOK
<1> HIDE DEF s, i
<1>5. w.interest = "listen" /\ w.h = s.kHSocket
  BY DEF Watch
<1> HIDE DEF w
<1>6. w.interest \in Watched(s)
  BY <1>4, <1>5, WatchedStages
<1>. QED  BY <1>1, <1>2, <1>4, <1>5, <1>6, OpenedReg

LEMMA TCPClientConnectedReg == ASSUME IInv, RegInv, TCPClientConnected  PROVE RegInv'
<1> DEFINE i == FreeSlot
           s == [NewSlot(i, NewFd, "CLIENT", clock) EXCEPT !.usStatus = "CONNECTED"]
<1>1. /\ FreeFds # {} /\ ~MgrFull /\ MgrAdd(i, s) /\ Opened(NewFd, "up", NotRegistered)
      /\ kSendList' = AddInList(kSendList, i)
  BY DEF TCPClientConnected, CanOpen
<1>2. /\ "CLIENT" \in Types \ {"NONE"} /\ "CONNECTED" \in OwnStates
      /\ "up" \in SockStates \ {"closed"} /\ "CLIENT" # "LISTEN"
  BY DEF Types, OwnStates, SockStates
<1>3. i \in Slots
  BY <1>1, TableLists, TailList DEF IInv, SlotInv, MgrFull, FreeSlot
<1>4. /\ s.usStatus = "CONNECTED" /\ s.iTypeSocket = "CLIENT"
      /\ s.kSocket = NewFd /\ s.kHSocket = Handle(i, clock)
  BY <1>1, <1>2, <1>3, NewSlotOK
<1> HIDE DEF s, i
<1>5. NotRegistered.interest \in Watched(s)
  BY <1>4, WatchedStages, NotRegisteredFields
<1>. QED  BY <1>1, <1>2, <1>4, <1>5, NotRegisteredFields, OpenedReg

LEMMA TCPClientConnectingReg == ASSUME IInv, RegInv, TCPClientConnecting  PROVE RegInv'
<1> DEFINE i == FreeSlot
           s == [NewSlot(i, NewFd, "CLIENT", clock) EXCEPT !.usStatus = "CONNECTING"]
           w == Watch("connect", s.kHSocket)
<1>1. /\ FreeFds # {} /\ ~MgrFull /\ MgrAdd(i, s) /\ Opened(NewFd, "connecting", w)
      /\ kSendList' = kSendList
  BY DEF TCPClientConnecting, CanOpen
<1>2. /\ "CLIENT" \in Types \ {"NONE"} /\ "CONNECTING" \in OwnStates
      /\ "connecting" \in SockStates \ {"closed"}
  BY DEF Types, OwnStates, SockStates
<1>3. i \in Slots
  BY <1>1, TableLists, TailList DEF IInv, SlotInv, MgrFull, FreeSlot
<1>4. /\ s.usStatus = "CONNECTING" /\ s.iTypeSocket = "CLIENT"
      /\ s.kSocket = NewFd /\ s.kHSocket = Handle(i, clock)
  BY <1>1, <1>2, <1>3, NewSlotOK
<1> HIDE DEF s, i
<1>5. w.interest = "connect" /\ w.h = s.kHSocket
  BY DEF Watch
<1> HIDE DEF w
<1>6. w.interest \in Watched(s)
  BY <1>4, <1>5, WatchedStages
<1>. QED  BY <1>1, <1>2, <1>4, <1>5, <1>6, OpenedReg

LEMMA OpenFailsReg == ASSUME IInv, RegInv, OpenFails  PROVE RegInv'
<1>1. PICK i \in Slots :
        /\ sock' = [sock EXCEPT ![i] = MgrEnd(Reset(sock[i]))]
        /\ kSendList' = kSendList /\ i \in Members(kMainList)
  BY TableLists, TailList DEF IInv, SlotInv, OpenFails, MgrAddThenDel, MgrFull, FreeSlot
<1> DEFINE r == MgrEnd(Reset(sock[i]))
<1>2. /\ r.usStatus = "INIT" /\ sock' = [sock EXCEPT ![i] = r]
  BY <1>1, ResetSlot DEF IInv, SlotInv, TableOK, MgrTypeOK
<1> HIDE DEF r
<1>3. /\ sock'[i] = r /\ \A j \in Slots \ {i} : sock'[j] = sock[j]
      /\ i \notin Members(kSendList)
  BY <1>1, <1>2, ChangedOne, FreeSlotFacts DEF IInv
<1>4. UNCHANGED kernVars
  BY DEF OpenFails
<1>5. OthersSame(i) /\ RegOK(i)' /\ ClosedOK'
  BY <1>1, <1>2, <1>3, <1>4 DEF OthersSame, RegOK, Owning, RegInv, ClosedOK, kernVars
<1>6. \A j \in Owning \ {i} : sock[j].kSocket # 0
  BY DEF IInv, SlotInv, FdOwnership, Fds
<1>. QED  BY <1>4, <1>5, <1>6, OneEntryOK DEF IInv, kernVars

LEMMA SendReg == ASSUME IInv, RegInv, NEW i \in Slots, Send(i)  PROVE RegInv'
<1>1. PICK n \in 0 .. MaxOut - sock[i].send : sock' = [sock EXCEPT ![i].send = @ + n]
  BY DEF Send
<1> DEFINE s == [sock[i] EXCEPT !.send = @ + n]
<1>2. /\ SlotInv /\ sock[i] \in SlotRecord /\ sock[i].usStatus = "ACTIVECONNECT"
      /\ IsConnection(sock[i]) /\ UNCHANGED kernVars
      /\ kSendList' \in {kSendList, AddInList(kSendList, i)}
  BY DEF IInv, SlotInv, TableOK, MgrTypeOK, Send, CanSend, SendQueued
<1>3. s \in SlotRecord /\ SameIdentity(sock[i], s) /\ s.iEventSocket = sock[i].iEventSocket
  BY <1>2, CoreAssumption DEF SlotRecord, SameIdentity
<1>4. sock' = [sock EXCEPT ![i] = s]
  BY <1>1
<1> HIDE DEF s
<1>5. \A j \in Slots \ {i} : j \in Members(kSendList') => j \in Members(kSendList)
  BY <1>2, TableLists, AddInListList DEF SlotInv
<1>6. i \in Owning /\ RegOK(i)
  BY <1>2 DEF Owning, RegInv
<1>7. reg[sock[i].kSocket].interest \in Watched(s)
  BY <1>3, <1>6, WatchedSame DEF RegOK, Entry
<1>8. SameOpen /\ reg' = reg /\ ready' = ready
  BY <1>2 DEF SameOpen, kernVars
<1>. QED  BY <1>2, <1>3, <1>4, <1>5, <1>7, <1>8, WorkedReg

LEMMA AppDisconnectReg == ASSUME IInv, RegInv, NEW i \in Slots, AppDisconnect(i)  PROVE RegInv'
<1>1. /\ SlotInv /\ sock[i] \in SlotRecord /\ SameIdentity(sock[i], sock[i])
      /\ MayDisconnect(sock[i]) /\ Disconnect(i, sock[i], kSendList)
  BY DEF IInv, SlotInv, TableOK, MgrTypeOK, SameIdentity, AppDisconnect
<1>. QED  BY <1>1, TableLists, DisconnectReg DEF SlotInv

-----------------------------------------------------------------------------
(* ... by SeNetCoreProcess ...                                             *)

LEMMA ProcessConnectedReg ==
  ASSUME IInv, RegInv, NEW i \in Slots, ProcessConnected(i)  PROVE RegInv'
<1> DEFINE c == ClearEvent(sock[i], "FLAG")
           s == [AddEvent(c, "WRITE") EXCEPT !.usStatus = "ACTIVECONNECT", !.llTime = clock]
           fd == sock[i].kSocket
<1>1. Popping(i, "CONNECTED") /\ SlotInv
  BY DEF ProcessConnected, IInv
<1>2. /\ sock[i] \in SlotRecord /\ sock[i].usStatus = "CONNECTED" /\ RegOK(i)
      /\ Members(Tail(kSendList)) = Members(kSendList) \ {i} /\ i \in Members(kSendList)
  BY <1>1, PoppedSlot DEF RegInv, SlotInv, NoStrandedSlot
<1>3. /\ s.usStatus = "ACTIVECONNECT" /\ s.iTypeSocket = sock[i].iTypeSocket
      /\ s.kSocket = fd /\ s.kHSocket = sock[i].kHSocket
      /\ s.iEventSocket = (sock[i].iEventSocket \ {"FLAG"}) \cup {"WRITE"}
  BY <1>2 DEF SlotRecord, AddEvent, ClearEvent
<1>4. /\ sock' = [sock EXCEPT ![i] = s] /\ kSendList' = Tail(kSendList) /\ UNCHANGED kern
      /\ \/ /\ reg' = [reg EXCEPT ![fd] = Watch("in", sock[i].kHSocket)]
            /\ ready' = ReadyAfterCtl(fd, kern[fd], "in")
         \/ SysFail /\ UNCHANGED <<reg, ready>>
  BY DEF ProcessConnected
<1> HIDE DEF s, c
<1>5. sock'[i] = s /\ \A j \in Slots \ {i} : sock'[j] = sock[j]
  BY <1>1, <1>4, ChangedOne
<1>6. OthersSame(i) /\ i \in Owning /\ fd \in Fds /\ kern[fd].state # "closed"
  BY <1>1, <1>2, <1>4, <1>5 DEF OthersSame, Owning, SlotInv, FdOwnership
<1>7. IsConnection(s) /\ s.iTypeSocket # "LISTEN" /\ ~HasEvent(s, "FLAG")
  BY <1>2, <1>3 DEF RegOK, IsConnection, HasEvent
<1>8. reg \in [Fds -> RegRecord]
  BY <1>1 DEF SlotInv, KernTypeOK
<1>9. ClosedOK' /\ \A g \in Fds \ {fd} : reg'[g] = reg[g]
  <2>1. \A g \in Fds \ {fd} : reg'[g] = reg[g]
    BY <1>4, <1>6, <1>8
  <2>2. SameOpen /\ ready' \subseteq ready \cup {fd}
    BY <1>4 DEF SameOpen, ReadyAfterCtl
  <2>. QED  BY <1>6, <2>1, <2>2, StillOpen
<1>10. reg'[fd].interest \in Watched(s) /\ (reg'[fd].interest # "none" => reg'[fd].h = s.kHSocket)
  <2>1. CASE reg' = [reg EXCEPT ![fd] = Watch("in", sock[i].kHSocket)]
    <3>1. reg'[fd].interest = "in" /\ reg'[fd].h = sock[i].kHSocket
      BY <2>1, <1>6, <1>8 DEF Watch
    <3>. QED  BY <3>1, <1>3, <1>7, WatchedStages
  <2>2. CASE SysFail /\ UNCHANGED <<reg, ready>>
    <3>1. reg[fd].interest \in Watched(sock[i]) /\ Interest(sock[i]) = {"none"}
      BY <1>2, <1>6 DEF RegOK, Entry, Interest
    <3>2. reg'[fd].interest = "none" /\ "none" \in Watched(s)
      BY <2>2, <3>1 DEF Watched
    <3>. QED  BY <3>2
  <2>. QED  BY <1>4, <2>1, <2>2
<1>11. RegOK(i)'
  <2>1. Entry(i)' = reg'[fd]
    BY <1>3, <1>5 DEF Entry
  <2>. QED  BY <1>2, <1>3, <1>5, <1>7, <1>10, <2>1 DEF RegOK
<1>. QED  BY <1>1, <1>6, <1>9, <1>11, OwnEntryOK

LEMMA ProcessDisconnectReg ==
  ASSUME IInv, RegInv, NEW i \in Slots, ProcessDisconnect(i)  PROVE RegInv'
<1> DEFINE s == [sock[i] EXCEPT !.usStatus = "COMM_IDLE"]
<1>1. Popping(i, "DISCONNECT") /\ SlotInv
  BY DEF ProcessDisconnect, IInv
<1>2. /\ sock[i] \in SlotRecord /\ IsList(Tail(kSendList)) /\ RegOK(i)
      /\ Members(Tail(kSendList)) = Members(kSendList) \ {i} /\ i \in Members(kSendList)
      /\ sock[i].usStatus = "DISCONNECT"
  BY <1>1, PoppedSlot DEF RegInv, SlotInv, NoStrandedSlot
<1>3. /\ s.usStatus = "COMM_IDLE" /\ s.iTypeSocket = sock[i].iTypeSocket
      /\ s.kHSocket = sock[i].kHSocket
  BY <1>2 DEF SlotRecord
<1>4. /\ sock' = [sock EXCEPT ![i] = s] /\ UNCHANGED kernVars
      /\ Members(kSendList') = Members(Tail(kSendList)) \cup {i}
  BY <1>2, AddInListList DEF ProcessDisconnect
<1> HIDE DEF s
<1>5. sock'[i] = s /\ \A j \in Slots \ {i} : sock'[j] = sock[j]
  BY <1>1, <1>4, ChangedOne
<1>6. OthersSame(i) /\ ClosedOK'
  BY <1>2, <1>4, <1>5 DEF OthersSame, RegInv, ClosedOK, kernVars
<1>7. RegOK(i)'
  BY <1>2, <1>3, <1>4, <1>5 DEF RegOK, Owning, IsConnection
<1>8. \A j \in Owning \ {i} : sock[j].kSocket # 0
  BY <1>1 DEF SlotInv, FdOwnership, Fds
<1>. QED  BY <1>1, <1>4, <1>6, <1>7, <1>8, OneEntryOK DEF kernVars

LEMMA ProcessSendReg ==
  ASSUME IInv, RegInv, NEW i \in Slots, ProcessSend(i)  PROVE RegInv'
<1> DEFINE fd == sock[i].kSocket
           e  == reg[fd].interest
           r  == SendBuf(sock[i], kern[fd], e)
<1>1. Popping(i, "ACTIVECONNECT") /\ SlotInv
  BY DEF ProcessSend, IInv
<1>2. /\ sock[i] \in SlotRecord /\ sock[i].usStatus = "ACTIVECONNECT" /\ RegOK(i)
      /\ IsList(Tail(kSendList)) /\ Members(Tail(kSendList)) = Members(kSendList) \ {i}
      /\ i \in Members(kSendList)
  BY <1>1, TableLists, TailList, PoppedSlot DEF RegInv, SlotInv, Popping
<1>3. fd \in Fds /\ kern[fd] \in KernRecord /\ e \in Interests
  BY <1>1, <1>2, ActiveSlot DEF OwnStates
<1>4. /\ r.s \in SlotRecord /\ SameIdentity(sock[i], r.s)
      /\ r.k \in KernRecord /\ r.k.state = kern[fd].state /\ r.e \in Interests
  BY <1>2, <1>3, SendBufOK
<1>5. IsConnection(sock[i]) /\ sock[i].iTypeSocket # "LISTEN" /\ e \in Watched(sock[i])
  BY <1>2 DEF RegOK, IsConnection, Owning, Entry
<1>6. r.e \in Watched(r.s)
  BY <1>2, <1>3, <1>5, SendBufWatched
<1>7. \/ /\ CtlSucceeds(r, e) /\ sock' = [sock EXCEPT ![i] = r.s]
         /\ kSendList' = Tail(kSendList) /\ KernAfterSend(fd, r)
      \/ Disconnect(i, r.s, Tail(kSendList))
  BY DEF ProcessSend
<1> HIDE DEF r
<1>8. ASSUME CtlSucceeds(r, e), sock' = [sock EXCEPT ![i] = r.s],
             kSendList' = Tail(kSendList), KernAfterSend(fd, r)
      PROVE  RegInv'
  <2>1. /\ SameOpen /\ ready' \subseteq ready \cup {fd}
        /\ \A g \in Fds \ {fd} : reg'[g] = reg[g]
        /\ reg'[fd].interest = r.e /\ reg'[fd].h = reg[fd].h
        /\ r.e # "none" => reg[fd].interest # "none"
    BY <1>1, <1>3, <1>4, <1>8, SentReg
  <2>2. \A j \in Slots \ {i} : j \in Members(kSendList') => j \in Members(kSendList)
    BY <1>2, <1>8
  <2>. QED  BY <1>1, <1>2, <1>4, <1>5, <1>6, <1>8, <2>1, <2>2, WorkedReg
<1>9. ASSUME Disconnect(i, r.s, Tail(kSendList))  PROVE RegInv'
  BY <1>1, <1>2, <1>4, <1>5, <1>9, DisconnectReg DEF MayDisconnect
<1>. QED  BY <1>7, <1>8, <1>9

LEMMA ProcessRecvReg ==
  ASSUME IInv, RegInv, NEW i \in Slots, ProcessRecv(i)  PROVE RegInv'
<1> DEFINE s == [sock[i] EXCEPT !.recv = @ - FrameLen]
<1>1. /\ SlotInv /\ sock' = [sock EXCEPT ![i] = s] /\ kSendList' = kSendList
      /\ UNCHANGED kernVars /\ sock[i] \in SlotRecord /\ RegOK(i)
  BY DEF IInv, ProcessRecv, SlotInv, TableOK, MgrTypeOK, RegInv
<1>2. SameIdentity(sock[i], s) /\ s.iEventSocket = sock[i].iEventSocket
  BY <1>1 DEF SlotRecord, SameIdentity
<1> HIDE DEF s
<1>3. sock'[i] = s /\ \A j \in Slots \ {i} : sock'[j] = sock[j]
  BY <1>1, ChangedOne
<1>4. OthersSame(i) /\ ClosedOK'
  BY <1>1, <1>3 DEF OthersSame, RegInv, ClosedOK, kernVars
<1>5. Watched(s) = Watched(sock[i])
  BY <1>2, WatchedSame
<1>6. RegOK(i)'
  BY <1>1, <1>2, <1>3, <1>5 DEF RegOK, Owning, IsConnection, SameIdentity, Entry, kernVars
<1>7. \A j \in Owning \ {i} : sock[j].kSocket # 0
  BY <1>1 DEF SlotInv, FdOwnership, Fds
<1>. QED  BY <1>1, <1>4, <1>6, <1>7, OneEntryOK DEF kernVars

-----------------------------------------------------------------------------
(* ... by the handlers of the events ...                                   *)

LEMMA DispatchConnectingReg ==
  ASSUME IInv, RegInv, NEW i \in Slots, NEW e \in batch, DispatchConnecting(e, i)
  PROVE  RegInv'
<1> DEFINE fd == sock[i].kSocket
           s  == [sock[i] EXCEPT !.usStatus = "CONNECTED", !.llTime = clock]
<1>1. /\ SlotInv /\ sock[i] \in SlotRecord /\ sock[i].usStatus = "CONNECTING"
      /\ sock[i].iTypeSocket = "CLIENT" /\ RegOK(i)
      /\ kSendList' = AddInList(kSendList, i)
  BY DispatchedSlot
     DEF IInv, SlotInv, SendListStates, DispatchConnecting, RegInv
<1>2. \/ /\ sock' = [sock EXCEPT ![i] = s]
         /\ reg' = [reg EXCEPT ![fd] = NotRegistered]
         /\ ready' = ready \ {fd}
         /\ UNCHANGED kern
      \/ Disconnect(i, sock[i], kSendList)
  <2>1. ASSUME sock' = [sock EXCEPT ![i].usStatus = "CONNECTED", ![i].llTime = clock]
        PROVE  sock' = [sock EXCEPT ![i] = s]
    BY <1>1, <2>1 DEF SlotInv, TableOK, MgrTypeOK
  <2>2. ASSUME sock' = [sock EXCEPT ![i].usStatus = "CONNECTED_FAILED"], Close(fd)
        PROVE  Disconnect(i, sock[i], kSendList)
    <3>1. Disconnected(sock[i]) = [sock[i] EXCEPT !.usStatus = "CONNECTED_FAILED"]
      BY <1>1 DEF Disconnected
    <3>. QED  BY <1>1, <2>2, <3>1 DEF Disconnect
  <2>. QED  BY <2>1, <2>2 DEF DispatchConnecting
<1>3. /\ s.usStatus = "CONNECTED" /\ s.iTypeSocket = "CLIENT"
      /\ s.kSocket = fd /\ s.kHSocket = sock[i].kHSocket
  BY <1>1 DEF SlotRecord
<1> HIDE DEF s
<1>4. ASSUME sock' = [sock EXCEPT ![i] = s], reg' = [reg EXCEPT ![fd] = NotRegistered],
             ready' = ready \ {fd}, UNCHANGED kern
      PROVE  RegInv'
  <2>1. sock'[i] = s /\ \A j \in Slots \ {i} : sock'[j] = sock[j]
    BY <1>1, <1>4, ChangedOne
  <2>2. Members(kSendList') = Members(kSendList) \cup {i}
    BY <1>1, TableLists, AddInListList DEF SlotInv
  <2>3. OthersSame(i) /\ i \in Owning
    BY <1>1, <2>1, <2>2 DEF OthersSame, Owning
  <2>4. reg \in [Fds -> RegRecord] /\ fd \in Fds
    BY <1>1, <2>3 DEF SlotInv, KernTypeOK, FdOwnership
  <2>5. reg'[fd] = NotRegistered /\ \A g \in Fds \ {fd} : reg'[g] = reg[g]
    BY <1>4, <2>4
  <2>6. ClosedOK'
    BY <1>4, <2>5 DEF RegInv, ClosedOK
  <2>7. Entry(i)' = NotRegistered
    BY <1>3, <2>1, <2>5 DEF Entry
  <2>8. RegOK(i)'
    BY <1>1, <1>3, <2>1, <2>7, WatchedStages, NotRegisteredFields DEF RegOK, IsConnection
  <2>. QED  BY <1>1, <2>3, <2>5, <2>6, <2>8, OwnEntryOK
<1>5. ASSUME Disconnect(i, sock[i], kSendList)  PROVE RegInv'
  BY <1>1, <1>5, TableLists, DisconnectReg DEF SlotInv, SameIdentity, MayDisconnect, IsConnection
<1>. QED  BY <1>2, <1>4, <1>5

LEMMA RecvBufEvents ==
  ASSUME NEW s \in SlotRecord, NEW k \in KernRecord, clock \in Nat
  PROVE  RecvBuf(s, k).s.iEventSocket = s.iEventSocket
BY DEF RecvBuf, SlotRecord

LEMMA DispatchActiveReg ==
  ASSUME IInv, RegInv, NEW i \in Slots, NEW e \in batch, DispatchActive(e, i)
  PROVE  RegInv'
<1> DEFINE s  == sock[i]
           fd == s.kSocket
           x  == reg[fd].interest
           in == IF e.rev.bRead /\ ~e.rev.bError THEN RecvBuf(s, kern[fd])
                 ELSE [ok |-> ~e.rev.bError, s |-> s, k |-> kern[fd]]
           out == IF e.rev.bWrite THEN SendBuf(AddEvent(in.s, "WRITE"), in.k, x)
                  ELSE SendResult(TRUE, in.s, in.k, x)
<1>1. /\ SlotInv /\ s \in SlotRecord /\ s.usStatus = "ACTIVECONNECT" /\ IsConnection(s)
      /\ fd \in Fds /\ kern[fd] \in KernRecord /\ x \in Interests /\ x \in Watched(s)
  <2>1. /\ SlotInv /\ s \in SlotRecord /\ s.usStatus = "ACTIVECONNECT" /\ IsConnection(s)
        /\ fd \in Fds /\ kern[fd] \in KernRecord /\ x \in Interests /\ RegOK(i)
    BY DispatchedSlot, ActiveSlot DEF IInv, DispatchActive, OwnStates, RegInv
  <2>2. i \in Owning
    BY <2>1 DEF Owning
  <2>. QED  BY <2>1, <2>2 DEF RegOK, Entry
<1>2. /\ in.s \in SlotRecord /\ SameIdentity(s, in.s) /\ in.s.iEventSocket = s.iEventSocket
      /\ in.k \in KernRecord /\ in.k.state = kern[fd].state
  <2>1. clock \in Nat
    BY CoreAssumption DEF IInv, CtlTypeOK
  <2>. QED  BY <1>1, <2>1, RecvBufOK, RecvBufEvents DEF SameIdentity
<1>3. \/ Disconnect(i, in.s, kSendList)
      \/ Disconnect(i, out.s, kSendList)
      \/ /\ sock' = [sock EXCEPT ![i] = out.s] /\ CtlSucceeds(out, x)
         /\ KernAfterSend(fd, out) /\ kSendList' = kSendList
  BY DEF DispatchActive
<1>4. /\ out.s \in SlotRecord /\ SameIdentity(s, out.s) /\ out.e \in Watched(out.s)
      /\ out.k \in KernRecord /\ out.k.state = kern[fd].state /\ out.e \in Interests
  <2> DEFINE w == AddEvent(in.s, "WRITE")
  <2> HIDE DEF in
  <2>1. /\ w \in SlotRecord /\ SameIdentity(s, w)
        /\ w.iEventSocket = s.iEventSocket \cup {"WRITE"}
    BY <1>2 DEF SlotRecord, AddEvent, EventBits, SameIdentity
  <2> HIDE DEF w
  <2>2. x \in Watched(w) /\ x \in Watched(in.s)
    BY <1>1, <1>2, <2>1, WatchedSame, WatchedFlag DEF HasEvent
  <2>3. CASE e.rev.bWrite
    <3>1. out = SendBuf(w, in.k, x)
      BY <2>3 DEF w
    <3>2. w.iTypeSocket # "LISTEN" /\ w.usStatus = "ACTIVECONNECT"
      BY <1>1, <2>1 DEF SameIdentity, IsConnection
    <3> HIDE DEF out, x, fd
    <3>3. /\ out.s \in SlotRecord /\ SameIdentity(w, out.s)
          /\ out.k \in KernRecord /\ out.k.state = in.k.state /\ out.e \in Interests
      BY <3>1, <1>1, <1>2, <2>1, SendBufOK
    <3>4. out.e \in Watched(out.s)
      BY <3>1, <3>2, <1>1, <1>2, <2>1, <2>2, SendBufWatched
    <3>. QED  BY <3>3, <3>4, <1>2, <2>1 DEF SameIdentity
  <2>4. CASE ~e.rev.bWrite
    <3>1. out.s = in.s /\ out.k = in.k /\ out.e = x
      BY <2>4 DEF SendResult
    <3>. QED  BY <3>1, <1>1, <1>2, <2>2
  <2>. QED  BY <2>3, <2>4
<1> HIDE DEF in, out
<1>5. ASSUME NEW t \in SlotRecord, SameIdentity(s, t), Disconnect(i, t, kSendList)
      PROVE  RegInv'
  BY <1>1, <1>5, TableLists, DisconnectReg DEF SlotInv, MayDisconnect
<1>6. ASSUME sock' = [sock EXCEPT ![i] = out.s], CtlSucceeds(out, x), KernAfterSend(fd, out),
             kSendList' = kSendList
      PROVE  RegInv'
  <2>1. /\ SameOpen /\ ready' \subseteq ready \cup {fd}
        /\ \A g \in Fds \ {fd} : reg'[g] = reg[g]
        /\ reg'[fd].interest = out.e /\ reg'[fd].h = reg[fd].h
        /\ out.e # "none" => reg[fd].interest # "none"
    BY <1>1, <1>4, <1>6, SentReg
  <2>. QED  BY <1>1, <1>4, <1>6, <2>1, WorkedReg
<1>. QED  BY <1>2, <1>3, <1>4, <1>5, <1>6

LEMMA AcceptReg == ASSUME IInv, RegInv, Accept  PROVE RegInv'
<1> DEFINE i == FreeSlot
           s == [NewSlot(i, NewFd, "ACCEPT", clock) EXCEPT !.usStatus = "CONNECTED"]
<1>1. /\ SlotInv /\ FreeFds # {} /\ MgrAdd(i, s) /\ kern[sock[lsn].kSocket].backlog > 0
      /\ kern' = [OneAccepted(kern) EXCEPT ![NewFd] = Kernel("up")]
      /\ kSendList' = AddInList(kSendList, i) /\ UNCHANGED <<reg, ready>>
  BY DEF IInv, Accept, Accepting
<1>2. i \in Slots
  BY <1>1, TableLists, TailList DEF SlotInv, MgrAdd, MgrFull, FreeSlot
<1>3. /\ s.usStatus = "CONNECTED" /\ s.iTypeSocket = "ACCEPT" /\ s.kSocket = NewFd
      /\ s.kHSocket = Handle(i, clock) /\ "ACCEPT" \in Types \ {"NONE"}
      /\ "CONNECTED" \in OwnStates
  BY <1>1, <1>2, NewSlotOK DEF Types, OwnStates
<1> HIDE DEF s, i
<1>4. /\ OneAccepted(kern) \in [Fds -> KernRecord]
      /\ \A g \in Fds : OneAccepted(kern)[g].state = kern[g].state
  BY <1>1, OneAcceptedOK
<1>5. NewFd \in Fds /\ kern[NewFd].state = "closed" /\ Kernel("up").state = "up"
  BY <1>1, NewFdFree DEF Kernel
<1>6. /\ kern'[NewFd].state # "closed"
      /\ \A g \in Fds \ {NewFd} : kern'[g].state = "closed" => kern[g].state = "closed"
  BY <1>1, <1>4, <1>5
<1>7. reg[NewFd] = NotRegistered
  BY <1>5 DEF RegInv, ClosedOK
<1>8. reg[NewFd].interest \in Watched(s) /\ reg[NewFd].interest = "none"
  BY <1>3, <1>7, WatchedStages, NotRegisteredFields
<1>. QED  BY <1>1, <1>3, <1>6, <1>8, NewSlotReg

LEMMA KernOnlyReg ==
  ASSUME IInv, RegInv, UNCHANGED <<mgrVars, reg, ready>>,
         kern' = kern \/ (kern[sock[lsn].kSocket].backlog > 0 /\ kern' = OneAccepted(kern))
  PROVE  RegInv'
<1>1. \A g \in Fds : kern'[g].state = kern[g].state
  BY OneAcceptedOK DEF IInv
<1>2. ClosedOK'
  BY <1>1 DEF RegInv, ClosedOK
<1>. QED  BY <1>2, NoSlotReg DEF mgrVars, listVars

-----------------------------------------------------------------------------
(* ... by the timer, by epoll_wait and by the peers.                       *)

LEMMA NetTimeOutReg == ASSUME IInv, RegInv, NetTimeOut  PROVE RegInv'
<1> DEFINE i == Head(kActiveMainList)
<1>1. CASE kActiveMainList = <<>> \/ ~Expired(sock[i])
  <2>1. UNCHANGED <<sock, kSendList, kernVars>>
    BY <1>1 DEF NetTimeOut
  <2>2. ClosedOK'
    BY <2>1 DEF RegInv, ClosedOK, kernVars
  <2>. QED  BY <2>1, <2>2, NoSlotReg DEF kernVars
<1>2. CASE kActiveMainList # <<>> /\ Expired(sock[i])
  <2>1. SlotInv /\ i \in Slots /\ Disconnect(i, sock[i], kSendList)
    BY <1>2, TableLists, TailList DEF IInv, SlotInv, NetTimeOut
  <2>2. sock[i] \in SlotRecord /\ SameIdentity(sock[i], sock[i]) /\ MayDisconnect(sock[i])
    BY <1>2, <2>1 DEF SlotInv, TableOK, MgrTypeOK, SameIdentity, Expired
  <2> HIDE DEF i
  <2>. QED  BY <2>1, <2>2, TableLists, DisconnectReg DEF SlotInv
<1>. QED  BY <1>1, <1>2

LEMMA EpollWaitReg == ASSUME IInv, RegInv, EpollWait  PROVE RegInv'
<1>1. /\ SlotInv /\ UNCHANGED <<sock, kSendList, kern>> /\ ready' \subseteq ready
      /\ reg \in [Fds -> RegRecord]
  BY DEF IInv, SlotInv, KernTypeOK, EpollWait, mgrVars, listVars, Reported
<1>2. ASSUME NEW fd \in Fds
      PROVE  /\ reg'[fd].h = reg[fd].h
             /\ \/ reg'[fd] = reg[fd]
                \/ reg[fd].interest = "connect" /\ reg'[fd].interest = "spent"
  <2>1. reg[fd] \in RegRecord
    BY <1>1
  <2>2. reg'[fd] = IF fd \in Reported /\ reg[fd].interest = "connect"
                   THEN [reg[fd] EXCEPT !.interest = "spent"] ELSE reg[fd]
    BY DEF EpollWait
  <2>. QED  BY <2>1, <2>2 DEF RegRecord
<1>3. ClosedOK'
  BY <1>1, <1>2, NotRegisteredFields DEF RegInv, ClosedOK
<1>4. ASSUME NEW i \in Slots  PROVE RegOK(i)'
  <2>1. RegOK(i) /\ (i \in Owning' <=> i \in Owning)
    BY <1>1 DEF RegInv, Owning
  <2>2. ASSUME i \in Owning
        PROVE  /\ Entry(i)'.interest \in Watched(sock[i])
               /\ Entry(i)'.interest # "none" => Entry(i)'.h = sock[i].kHSocket
    <3>1. sock[i].kSocket \in Fds /\ Entry(i)' = reg'[sock[i].kSocket]
      BY <1>1, <2>2 DEF Entry, SlotInv, FdOwnership
    <3>2. Entry(i) = reg[sock[i].kSocket]
      BY DEF Entry
    <3>3. "connect" \in Watched(sock[i]) => "spent" \in Watched(sock[i])
      <4>1. sock[i].usStatus \in {"CONNECTING", "CONNECTED", "ACTIVECONNECT"}
        BY <2>2 DEF Owning
      <4>. QED  BY <4>1 DEF Watched, Interest
    <3>. QED  BY <1>2, <2>1, <2>2, <3>1, <3>2, <3>3 DEF RegOK
  <2>. QED  BY <1>1, <2>1, <2>2 DEF RegOK
<1>. QED  BY <1>3, <1>4 DEF RegInv

LEMMA PeerReg == ASSUME IInv, RegInv, NEW fd \in Fds, Peer(fd)  PROVE RegInv'
<1>1. /\ UNCHANGED <<mgrVars, reg>> /\ kern[fd].state # "closed"
      /\ ready' \subseteq ready \cup {fd} /\ \A g \in Fds \ {fd} : kern'[g] = kern[g]
  BY DEF Peer, PeerConnects, ConnectCompletes, PeerSends, PeerCloses, PeerResets, PeerDrains,
         KernelEvent, IInv, SlotInv, KernTypeOK
<1>2. kern'[fd].state # "closed"
  <2>1. PICK i \in Owning : sock[i].kSocket = fd
    BY <1>1 DEF IInv, SlotInv, FdOwnership
  <2>2. i \in Owning' /\ sock'[i].kSocket = fd
    BY <1>1, <2>1 DEF mgrVars, Owning
  <2>. QED  BY <2>2, PeerOK DEF SlotInv, FdOwnership
<1>3. ClosedOK'
  BY <1>1, <1>2 DEF RegInv, ClosedOK
<1>. QED  BY <1>1, <1>3, NoSlotReg DEF mgrVars, listVars

LEMMA RegStepOK == IInv /\ RegInv /\ [Next]_vars => RegInv'
<1> SUFFICES ASSUME IInv, RegInv, [Next]_vars  PROVE RegInv'
  OBVIOUS
<1>1. CASE Program
  BY <1>1, TCPListenReg, TCPClientConnectedReg, TCPClientConnectingReg, OpenFailsReg,
     SendReg, AppDisconnectReg DEF Program
<1>2. ASSUME NEW i \in Slots, Process(i)  PROVE RegInv'
  BY <1>2, ProcessConnectedReg, ProcessDisconnectReg, ProcessSendReg, ProcessRecvReg,
     MgrDelReg DEF Process, ProcessConnectFailed, ProcessCommIdle, Popping, IInv
<1>3. ASSUME UNCHANGED <<mgrVars, kernVars>>  PROVE RegInv'
  BY <1>3, KernOnlyReg DEF kernVars
<1>4. ASSUME NEW i \in Slots, NEW e \in batch, Dispatch(e, i)  PROVE RegInv'
  BY <1>3, <1>4, DispatchConnectingReg, DispatchActiveReg DEF Dispatch, DispatchListen
<1>5. CASE Call \/ ProcessDone \/ EpollNothing \/ DispatchDone \/ ClockTick \/ TimerExpires
           \/ UNCHANGED vars
  BY <1>3, <1>5
     DEF Call, ProcessDone, EpollNothing, DispatchDone, ClockTick, TimerExpires, vars
<1>6. CASE AcceptFull \/ AcceptEnds
  BY <1>6, KernOnlyReg DEF AcceptFull, AcceptEnds, Accepting
<1>7. CASE DispatchTimer
  BY <1>7, NetTimeOutReg DEF DispatchTimer
<1>. QED
  BY <1>1, <1>2, <1>4, <1>5, <1>6, <1>7, EpollWaitReg, AcceptReg, PeerReg
     DEF Next, Read, Environment

LEMMA RegInitOK == Init => RegInv
<1> SUFFICES ASSUME Init  PROVE RegInv
  OBVIOUS
<1>1. Members(kSendList) = {} /\ \A i \in Slots : sock[i].usStatus = "INIT"
  BY EmptyList DEF Init, MgrInit
<1>2. ClosedOK
  BY DEF Init, ClosedOK
<1>. QED  BY <1>1, <1>2 DEF RegInv, RegOK, Owning

(* Where epoll_ctl does not fail, the epoll set is what the slots say.     *)
THEOREM EpollAgrees == ASSUME SysFail = FALSE  PROVE Spec => []EpollConsistent
<1>1. Spec => []RegInv
  BY InitOK, StepOK, RegInitOK, RegStepOK, PTL DEF Spec
<1>2. RegInv => EpollConsistent
  BY DEF RegInv, RegOK, ClosedOK, Entry, Watched, Owning, EpollConsistent
<1>. QED  BY <1>1, <1>2, PTL

-----------------------------------------------------------------------------
(* The events of a batch.                                                  *)

EventOK(e) ==
  /\ Found(e.h) /\ IndexOf(e.h) \in Slots
  /\ LET s == sock[IndexOf(e.h)] IN
       \/ s.iTypeSocket = "LISTEN" /\ s.usStatus = "ACTIVECONNECT"
       \/ s.iTypeSocket = "CLIENT" /\ s.usStatus = "CONNECTING" /\ (e.rev.bWrite \/ e.rev.bError)
       \/ IsConnection(s) /\ s.usStatus = "ACTIVECONNECT"

BatchInv ==
  /\ batch # {} => pc \in {"dispatch", "accept"}
  /\ \A e, f \in batch : e.h = f.h => e = f
  /\ \A e \in batch : EventOK(e)

(* Nothing to walk before, nothing after.                                  *)
LEMMA NoBatch ==
  ASSUME BatchInv, pc \notin {"dispatch", "accept"} \/ batch = {}, UNCHANGED batch
  PROVE  BatchInv'
BY DEF BatchInv

(* Events that stay keep their slots.                                      *)
LEMMA EventsKept ==
  ASSUME BatchInv, batch' \subseteq batch, pc' \in {"dispatch", "accept"} \/ pc' = pc,
         \A e \in batch' : /\ sock'[IndexOf(e.h)] = sock[IndexOf(e.h)]
                           /\ IndexOf(e.h) \in Members(kMainList') =>
                                IndexOf(e.h) \in Members(kMainList)
  PROVE  BatchInv'
<1>1. ASSUME NEW e \in batch'  PROVE EventOK(e)'
  <2>1. EventOK(e)
    BY DEF BatchInv
  <2>. QED  BY <2>1 DEF EventOK, Found, IsConnection
<1>. QED  BY <1>1 DEF BatchInv

LEMMA NoSlotBatch ==
  ASSUME BatchInv, UNCHANGED <<sock, kMainList, batch>>,
         pc' \in {"dispatch", "accept"} \/ pc' = pc
  PROVE  BatchInv'
BY EventsKept

(* Handling an event touches the slot of no other.                         *)
LEMMA DispatchBatch ==
  ASSUME IInv, BatchInv, NEW i \in Slots, NEW e \in batch, Dispatch(e, i)
  PROVE  BatchInv'
<1>1. CASE DispatchListen(e, i)
  <2>1. UNCHANGED <<sock, kMainList>> /\ batch' \subseteq batch /\ pc' = "accept"
    BY <1>1 DEF DispatchListen, Dispatching, mgrVars, listVars
  <2>. QED  BY <2>1, EventsKept
<1>2. CASE DispatchConnecting(e, i) \/ DispatchActive(e, i)
  <2>1. /\ Found(e.h) /\ i = IndexOf(e.h) /\ batch' = batch \ {e}
        /\ pc' = pc /\ kMainList' = kMainList
    BY <1>2 DEF DispatchConnecting, DispatchActive, Dispatching, StayDispatching
  <2>2. ASSUME NEW j \in Slots, j # i  PROVE sock'[j] = sock[j]
    BY <1>2, <2>2 DEF DispatchConnecting, DispatchActive, Disconnect, IInv, SlotInv,
                      TableOK, MgrTypeOK
  <2>3. ASSUME NEW f \in batch'  PROVE sock'[IndexOf(f.h)] = sock[IndexOf(f.h)]
    <3>1. Found(f.h) /\ IndexOf(f.h) \in Slots /\ f.h # e.h
      BY <2>1 DEF BatchInv, EventOK
    <3>2. IndexOf(f.h) # i
      BY <2>1, <3>1 DEF Found
    <3>. QED  BY <2>2, <3>1, <3>2
  <2>. QED  BY <2>1, <2>3, EventsKept
<1>. QED  BY <1>1, <1>2 DEF Dispatch

(* A connection accepted takes a slot that is free, so none that an event  *)
(* names.                                                                  *)
LEMMA AcceptBatch == ASSUME IInv, BatchInv, Accept  PROVE BatchInv'
<1>1. PICK i \in Slots : \E s :
        /\ i \in Members(kMainList) /\ sock' = [sock EXCEPT ![i] = s]
        /\ Members(kMainList') \subseteq Members(kMainList) /\ UNCHANGED <<batch, pc>>
  BY TableLists, TailList DEF IInv, SlotInv, Accept, MgrAdd, MgrFull, FreeSlot, ctlVars
<1>2. ASSUME NEW e \in batch  PROVE sock'[IndexOf(e.h)] = sock[IndexOf(e.h)]
  BY <1>1 DEF BatchInv, EventOK, Found, IInv, SlotInv, TableOK, MgrTypeOK
<1>. QED  BY <1>1, <1>2, EventsKept

(* Every event epoll reports is of a slot that waits for one.              *)
LEMMA ReportedEvent ==
  ASSUME IInv, RegInv, NEW fd \in Reported
  PROVE  EventOK(EpollEvent(fd)) /\ sock[IndexOf(EpollEvent(fd).h)].kSocket = fd
<1> DEFINE x == reg[fd].interest
           rev == Revents(kern[fd], x)
           e == EpollEvent(fd)
<1>1. /\ e.h = reg[fd].h /\ e.rev = rev /\ fd \in Fds
      /\ rev.bRead \/ rev.bWrite \/ rev.bError
  BY DEF EpollEvent, Reported, Reports, IInv, SlotInv, KernTypeOK
<1>2. /\ x \in {"listen", "connect", "in", "inout"}
      /\ x = "connect" => rev.bWrite \/ rev.bError
  BY <1>1 DEF Revents
<1>3. PICK i \in Owning : sock[i].kSocket = fd
  BY <1>1, <1>2, NotRegisteredFields DEF RegInv, ClosedOK, IInv, SlotInv, FdOwnership
<1>4. i \in Slots /\ RegOK(i) /\ Entry(i) = reg[fd]
  BY <1>3 DEF Owning, RegInv, Entry
<1>5. /\ x \in Watched(sock[i]) /\ e.h = sock[i].kHSocket
      /\ IndexOf(e.h) = i /\ sock[i].iTypeSocket # "NONE"
  BY <1>1, <1>2, <1>3, <1>4 DEF RegOK, Owning
<1>6. Found(e.h)
  BY <1>3, <1>4, <1>5 DEF Found, IInv, SlotInv, TableOK, SlotPartition, Owning
<1>7. x \in Interest(sock[i])
  BY <1>2, <1>5 DEF Watched
<1>8. sock[i].usStatus \in {"CONNECTING", "CONNECTED", "ACTIVECONNECT"}
  BY <1>3 DEF Owning
<1> HIDE DEF x, rev, e
<1>9. CASE sock[i].usStatus = "CONNECTING"
  <2>1. x = "connect"
    BY <1>2, <1>7, <1>9 DEF Interest
  <2>2. sock[i].iTypeSocket = "CLIENT"
    BY <1>4, <1>9 DEF IInv, SlotInv, SendListStates
  <2>. QED  BY <1>1, <1>2, <1>3, <1>4, <1>5, <1>6, <1>9, <2>1, <2>2 DEF EventOK, e
<1>10. CASE sock[i].usStatus = "CONNECTED"
  BY <1>2, <1>7, <1>10 DEF Interest
<1>11. CASE sock[i].usStatus = "ACTIVECONNECT"
  <2>1. sock[i].iTypeSocket \in Types
    BY <1>4 DEF IInv, SlotInv, TableOK, MgrTypeOK, SlotRecord
  <2>. QED  BY <1>3, <1>4, <1>5, <1>6, <1>11, <2>1 DEF EventOK, IsConnection, Types, e
<1>. QED  BY <1>8, <1>9, <1>10, <1>11

LEMMA EpollWaitBatch == ASSUME IInv, RegInv, EpollWait  PROVE BatchInv'
<1>1. /\ UNCHANGED mgrVars /\ pc' = "dispatch"
      /\ batch' = {EpollEvent(fd) : fd \in Reported}
  BY DEF EpollWait
<1>2. ASSUME NEW e \in batch'
      PROVE  EventOK(e)' /\ \E fd \in Reported : e = EpollEvent(fd)
  <2>1. PICK fd \in Reported : e = EpollEvent(fd)
    BY <1>1
  <2>2. EventOK(e)
    BY <2>1, ReportedEvent
  <2>. QED  BY <1>1, <2>1, <2>2 DEF EventOK, Found, mgrVars, listVars
<1>3. ASSUME NEW e \in batch', NEW f \in batch', e.h = f.h  PROVE e = f
  <2>1. PICK g \in Reported : e = EpollEvent(g)
    BY <1>2
  <2>2. PICK g2 \in Reported : f = EpollEvent(g2)
    BY <1>2
  <2>3. g = g2
    BY <1>3, <2>1, <2>2, ReportedEvent
  <2>. QED  BY <2>1, <2>2, <2>3
<1>. QED  BY <1>1, <1>2, <1>3 DEF BatchInv

LEMMA BatchStepOK == IInv /\ RegInv /\ BatchInv /\ [Next]_vars => BatchInv'
<1> SUFFICES ASSUME IInv, RegInv, BatchInv, [Next]_vars  PROVE BatchInv'
  OBVIOUS
<1>1. CASE Program
  <2>1. pc = "app" /\ UNCHANGED batch
    BY <1>1 DEF Program, TCPListen, TCPClientConnected, TCPClientConnecting, OpenFails,
                CanOpen, Send, AppDisconnect, ctlVars
  <2>. QED  BY <2>1, NoBatch
<1>2. ASSUME NEW i \in Slots, Process(i)  PROVE BatchInv'
  <2>1. pc = "process" /\ UNCHANGED batch
    BY <1>2 DEF Process, ProcessConnected, ProcessConnectFailed, ProcessDisconnect,
                ProcessCommIdle, ProcessSend, ProcessRecv, Popping, Reading, Return, ctlVars
  <2>. QED  BY <2>1, NoBatch
<1>3. CASE Call \/ ProcessDone \/ EpollNothing \/ DispatchTimer \/ DispatchDone
  <2>1. (pc \notin {"dispatch", "accept"} \/ batch = {}) /\ UNCHANGED batch
    BY <1>3 DEF Call, ProcessDone, EpollNothing, DispatchTimer, DispatchDone, Return
  <2>. QED  BY <2>1, NoBatch
<1>4. CASE AcceptFull \/ AcceptEnds \/ Environment \/ UNCHANGED vars
  <2>1. /\ UNCHANGED <<sock, kMainList, batch>>
        /\ pc' \in {"dispatch", "accept"} \/ pc' = pc
    BY <1>4 DEF AcceptFull, AcceptEnds, Environment, ClockTick, TimerExpires, Peer,
                PeerConnects, ConnectCompletes, PeerSends, PeerCloses, PeerResets,
                PeerDrains, KernelEvent, vars, mgrVars, listVars, ctlVars
  <2>. QED  BY <2>1, NoSlotBatch
<1>. QED
  BY <1>1, <1>2, <1>3, <1>4, DispatchBatch, AcceptBatch, EpollWaitBatch DEF Next, Read

(* No event of a batch is stale when its turn comes, for any number of     *)
(* slots and descriptors, whatever the peers do in the meantime and even   *)
(* where epoll_ctl fails.                                                  *)
THEOREM EventsStayCurrent == Spec => []EventsCurrent
<1>1. Init => BatchInv
  BY DEF Init, BatchInv
<1>2. Spec => []BatchInv
  BY <1>1, InitOK, StepOK, RegInitOK, RegStepOK, BatchStepOK, PTL DEF Spec
<1>3. BatchInv => EventsCurrent
  BY DEF BatchInv, EventOK, EventsCurrent
<1>. QED  BY <1>2, <1>3, PTL

-----------------------------------------------------------------------------
(***************************************************************************)
(* No wake-up is lost, for every value of the constants: epoll is edge     *)
(* triggered, so bytes that wait in the kernel, or a slot that waits for   *)
(* room, depend on one report that is never repeated.                      *)
(*                                                                         *)
(* The proof supposes that epoll_ctl does not fail (SysFail = FALSE):      *)
(* SeNetCoreProcess ignores its result, and a connection that is not in    *)
(* the epoll set hears of nothing.                                         *)
(*                                                                         *)
(* WakeInv says of a slot what the two properties say of it and what makes *)
(* them last: a slot not believed writable has asked for EPOLLOUT, even    *)
(* while it has nothing to send; a slot starts its life with nothing       *)
(* queued; and the socket of a connection is connected, so that it has no  *)
(* backlog to be readable for.                                             *)
(***************************************************************************)
KernOf(i) == kern[sock[i].kSocket]

Linked(i) == IsConnection(sock[i]) /\ sock[i].usStatus \in {"CONNECTED", "ACTIVECONNECT"}

LinkOK(i) ==
  /\ Linked(i) => KernOf(i).state \in {"up", "eof", "err"}
  /\ sock[i].usStatus \in {"CONNECTING", "CONNECTED"} => sock[i].send = 0

(* An event of the batch will make the slot look at its input, its output. *)
InRaised(i)  == \E e \in batch : e.h = sock[i].kHSocket /\ (e.rev.bRead \/ e.rev.bError)
OutRaised(i) == \E e \in batch : e.h = sock[i].kHSocket /\ (e.rev.bWrite \/ e.rev.bError)

InputOK(i) == Readable(KernOf(i)) => sock[i].kSocket \in ready \/ InRaised(i)

OutputOK(i) ==
  /\ ~HasEvent(sock[i], "WRITE") =>
       /\ HasEvent(sock[i], "FLAG")
       /\ ~Writable(KernOf(i)) \/ sock[i].kSocket \in ready \/ OutRaised(i)
  /\ HasEvent(sock[i], "WRITE") /\ sock[i].send > 0 => i \in Members(kSendList)

SlotWakes(i) == LinkOK(i) /\ (Active(i) => InputOK(i) /\ OutputOK(i))

(* Only a listening socket has a backlog.                                  *)
BacklogOK == \A fd \in Fds : kern[fd].backlog > 0 => kern[fd].state = "listen"

WakeInv == (\A i \in Slots : SlotWakes(i)) /\ BacklogOK

-----------------------------------------------------------------------------
(* The shapes of a step.                                                   *)

(* Only slot i changes.  The others keep their place on kSendList, the     *)
(* socket of a connection, its place on the ready list and its event.      *)
OnlyTouches(i) ==
  /\ \A j \in Slots \ {i} : sock'[j] = sock[j]
  /\ \A j \in Slots \ {i} : j \in Members(kSendList) => j \in Members(kSendList')
  /\ \A e \in batch : e \in batch' \/ IndexOf(e.h) = i

LEMMA OneWakes ==
  ASSUME RegInv, WakeInv, NEW i \in Slots, OnlyTouches(i),
         \A j \in Slots \ {i} : Linked(j) =>
            /\ kern'[sock[j].kSocket] = kern[sock[j].kSocket]
            /\ sock[j].kSocket \in ready => sock[j].kSocket \in ready',
         SlotWakes(i)', BacklogOK'
  PROVE  WakeInv'
<1>1. ASSUME NEW j \in Slots, j # i  PROVE SlotWakes(j)'
  <2>1. /\ sock'[j] = sock[j] /\ SlotWakes(j) /\ RegOK(j)
        /\ j \in Members(kSendList) => j \in Members(kSendList')
    BY <1>1 DEF OnlyTouches, WakeInv, RegInv
  <2>2. Linked(j) => KernOf(j)' = KernOf(j)
    BY <1>1, <2>1 DEF KernOf
  <2>3. LinkOK(j)'
    BY <2>1, <2>2 DEF SlotWakes, LinkOK, Linked, IsConnection
  <2>4. ASSUME Active(j)  PROVE (InputOK(j) /\ OutputOK(j))'
    <3>1. /\ Linked(j) /\ IndexOf(sock[j].kHSocket) = j /\ InputOK(j) /\ OutputOK(j)
      BY <2>1, <2>4 DEF Active, Linked, RegOK, SlotWakes
    <3>2. sock[j].kSocket \in ready => sock'[j].kSocket \in ready'
      BY <1>1, <2>1, <3>1
    <3>3. ASSUME NEW e \in batch, e.h = sock[j].kHSocket
          PROVE  e \in batch' /\ e.h = sock'[j].kHSocket
      BY <1>1, <2>1, <3>1, <3>3 DEF OnlyTouches
    <3>4. (InRaised(j) => InRaised(j)') /\ (OutRaised(j) => OutRaised(j)')
      BY <3>3 DEF InRaised, OutRaised
    <3>5. InputOK(j)'
      BY <2>2, <3>1, <3>2, <3>4 DEF InputOK
    <3>6. OutputOK(j)'
      BY <2>1, <2>2, <3>1, <3>2, <3>4 DEF OutputOK, HasEvent
    <3>. QED  BY <3>5, <3>6
  <2>5. Active(j)' => Active(j)
    BY <2>1 DEF Active, IsConnection
  <2>. QED  BY <2>3, <2>4, <2>5 DEF SlotWakes
<1>. QED  BY <1>1 DEF WakeInv

(* The case where only the socket of slot i changes.                       *)
LEMMA OwnWakes ==
  ASSUME SlotInv, RegInv, WakeInv, NEW i \in Owning, OnlyTouches(i),
         \A g \in Fds \ {sock[i].kSocket} :
            kern'[g] = kern[g] /\ (g \in ready => g \in ready'),
         SlotWakes(i)',
         LET k == kern'[sock[i].kSocket] IN k.backlog > 0 => k.state = "listen"
  PROVE  WakeInv'
<1>1. i \in Slots /\ sock[i].kSocket \in Fds
  BY DEF Owning, SlotInv, FdOwnership
<1>2. ASSUME NEW j \in Slots \ {i}, Linked(j)
      PROVE  sock[j].kSocket \in Fds \ {sock[i].kSocket}
  BY <1>2 DEF Linked, Owning, SlotInv, FdOwnership
<1>3. BacklogOK'
  BY DEF WakeInv, BacklogOK
<1>. QED  BY <1>1, <1>2, <1>3, OneWakes

(* The case where no socket changes, and none leaves the ready list.       *)
LEMMA QuietWakes ==
  ASSUME RegInv, WakeInv, NEW i \in Slots, OnlyTouches(i), UNCHANGED kern, ready \subseteq ready',
         SlotWakes(i)'
  PROVE  WakeInv'
<1>1. BacklogOK'
  BY DEF WakeInv, BacklogOK
<1>. QED  BY <1>1, OneWakes

LEMMA SameWakes ==
  ASSUME WakeInv, UNCHANGED <<sock, kSendList, kern, ready, batch>>  PROVE WakeInv'
BY DEF WakeInv, SlotWakes, LinkOK, Linked, KernOf, Active, InputOK, OutputOK, InRaised,
       OutRaised, BacklogOK, IsConnection

(* A slot that is no connection any more has nothing to wake for.          *)
LEMMA IdleWakes ==
  ASSUME NEW i,
         sock[i].usStatus \in {"INIT", "CONNECTED_FAILED", "DISCONNECT", "COMM_IDLE"}
  PROVE  SlotWakes(i)
BY DEF SlotWakes, LinkOK, Linked, Active

LEMMA DisconnectWakes ==
  ASSUME SlotInv, RegInv, WakeInv, NEW i \in Slots, NEW s \in SlotRecord,
         SameIdentity(sock[i], s), MayDisconnect(sock[i]), NEW sendList, IsList(sendList),
         Members(kSendList) \ {i} \subseteq Members(sendList), Disconnect(i, s, sendList),
         \A e \in batch : e \in batch' \/ IndexOf(e.h) = i
  PROVE  WakeInv'
<1> DEFINE t == Disconnected(s)
<1>1. /\ t.usStatus \in {"CONNECTED_FAILED", "DISCONNECT"}
      /\ sock[i].usStatus \in {"CONNECTING", "ACTIVECONNECT"}
  BY DEF Disconnected, SlotRecord, SameIdentity, MayDisconnect
<1>2. sock'[i] = t /\ \A j \in Slots \ {i} : sock'[j] = sock[j]
  BY ChangedOne DEF Disconnect
<1> HIDE DEF t
<1>3. Members(kSendList') = Members(sendList) \cup {i}
  BY AddInListList DEF Disconnect
<1>4. OnlyTouches(i) /\ i \in Owning
  BY <1>1, <1>2, <1>3 DEF OnlyTouches, Owning
<1>5. sock[i].kSocket \in Fds /\ Close(sock[i].kSocket)
  BY <1>4 DEF SlotInv, FdOwnership, Disconnect, SameIdentity
<1>6. /\ kern'[sock[i].kSocket].backlog = 0
      /\ \A g \in Fds \ {sock[i].kSocket} :
            kern'[g] = kern[g] /\ (g \in ready => g \in ready')
  BY <1>5 DEF Close, SlotInv, KernTypeOK, Kernel
<1>7. SlotWakes(i)'
  BY <1>1, <1>2 DEF SlotWakes, LinkOK, Linked, Active
<1>. QED  BY <1>4, <1>6, <1>7, OwnWakes

LEMMA MgrDelWakes ==
  ASSUME SlotInv, RegInv, WakeInv, NEW i \in Slots, MgrDel(i), sock[i].usStatus # "INIT",
         UNCHANGED <<kernVars, batch>>
  PROVE  WakeInv'
<1>1. /\ Members(kSendList') = Members(kSendList) \ {i}
      /\ \A j \in Slots \ {i} : sock'[j] = sock[j]
      /\ sock'[i].usStatus = "INIT"
  BY MgrDelOK DEF SlotInv
<1>2. OnlyTouches(i) /\ SlotWakes(i)'
  BY <1>1 DEF OnlyTouches, SlotWakes, LinkOK, Linked, Active
<1>. QED  BY <1>2, QuietWakes DEF kernVars

(* A slot taken has nothing queued, and is no active connection yet.       *)
LEMMA NewSlotWakes ==
  ASSUME IInv, RegInv, WakeInv, NEW i, NEW s, MgrAdd(i, s), FreeFds # {},
         s.kSocket = NewFd, s.send = 0, Members(kSendList) \subseteq Members(kSendList'),
         s.usStatus \in {"CONNECTING", "CONNECTED"} \/ s.iTypeSocket = "LISTEN",
         s.usStatus = "CONNECTED" => kern'[NewFd].state = "up",
         s.usStatus # "CONNECTED" \/ s.iTypeSocket # "LISTEN",
         \A j \in Slots : Linked(j) => kern'[sock[j].kSocket] = kern[sock[j].kSocket],
         UNCHANGED <<ready, batch>>, BacklogOK'
  PROVE  WakeInv'
<1>1. SlotInv /\ i \in Slots
  BY TableLists, TailList DEF IInv, SlotInv, MgrAdd, MgrFull, FreeSlot
<1>2. sock'[i] = s /\ \A j \in Slots \ {i} : sock'[j] = sock[j]
  <2>1. sock' = [sock EXCEPT ![i] = s]
    BY DEF MgrAdd
  <2>. QED  BY <1>1, <2>1, ChangedOne
<1>3. OnlyTouches(i)
  BY <1>2 DEF OnlyTouches
<1>4. KernOf(i)' = kern'[NewFd]
  BY <1>2 DEF KernOf
<1>5. SlotWakes(i)'
  BY <1>2, <1>4 DEF SlotWakes, LinkOK, Linked, Active, IsConnection
<1>. QED  BY <1>1, <1>3, <1>5, OneWakes

LEMMA NewSlotDrained ==
  ASSUME IInv, FreeFds # {}, NEW type \in Types \ {"NONE"}, NEW status \in OwnStates,
         NEW i \in Slots, i \in Members(kMainList)
  PROVE  [NewSlot(i, NewFd, type, clock) EXCEPT !.usStatus = status].send = 0
<1> DEFINE s == [NewSlot(i, NewFd, type, clock) EXCEPT !.usStatus = status]
<1>1. clock \in Nat /\ status \in Statuses /\ type \in Types /\ NewFd \in Fds
  BY NewFdFree, CoreAssumption DEF IInv, CtlTypeOK, OwnStates, Statuses
<1>2. MgrTypeOK
  BY DEF IInv, SlotInv, TableOK
<1>3. sock[i].send = 0
  BY DEF IInv, SlotInv, TableOK, FreeSlotsDrained
<1>4. s \in SlotRecord /\ s.send = sock[i].send
  BY <1>1, <1>2, PreparedSlot
<1> HIDE DEF s
<1>5. s.send = 0
  BY <1>3, <1>4
<1>. QED  BY <1>5 DEF s

(* What SeNetCoreSendBuf leaves: a slot with nothing to send, or one that  *)
(* has asked for EPOLLOUT of a socket without room.                        *)
LEMMA SendBufWakes ==
  ASSUME NEW s \in SlotRecord, NEW k \in KernRecord, NEW e \in Interests,
         SendBuf(s, k, e).ok
  PROVE  LET r == SendBuf(s, k, e) IN
         /\ r.k.rcv = k.rcv /\ r.k.state = k.state /\ r.k.backlog = k.backlog
         /\ ~HasEvent(s, "WRITE") => r.s = s /\ r.k = k /\ r.e = e
         /\ HasEvent(s, "WRITE") =>
              \/ r.s.send = 0 /\ HasEvent(r.s, "WRITE")
              \/ ~HasEvent(r.s, "WRITE") /\ HasEvent(r.s, "FLAG") /\ ~Writable(r.k)
<1> DEFINE n == Take(s, k)
           sent == [s EXCEPT !.send = @ - n]
           kSent == [k EXCEPT !.space = @ - n]
           r == SendBuf(s, k, e)
<1>1. /\ n \in Nat /\ s.send \in Nat /\ k.space \in Nat
      /\ n = IF k.space < s.send THEN k.space ELSE s.send
  BY DEF Take, SlotRecord, KernRecord
<1>2. /\ sent.send = s.send - n /\ sent.iEventSocket = s.iEventSocket /\ sent \in SlotRecord
      /\ kSent.space = k.space - n /\ kSent.state = k.state /\ kSent.rcv = k.rcv
      /\ kSent.backlog = k.backlog
  BY <1>1 DEF SlotRecord, KernRecord
<1>3. \A u \in SlotRecord, b \in EventBits :
        /\ ClearEvent(u, b) \in SlotRecord /\ ClearEvent(u, b).send = u.send
        /\ ClearEvent(u, b).iEventSocket = u.iEventSocket \ {b}
        /\ AddEvent(u, b) \in SlotRecord /\ AddEvent(u, b).iEventSocket = u.iEventSocket \cup {b}
  BY DEF SlotRecord, ClearEvent, AddEvent
<1>4. CASE ~HasEvent(s, "WRITE")
  <2>1. r = SendResult(TRUE, s, k, e)
    BY <1>4 DEF SendBuf
  <2>. QED  BY <1>4, <2>1 DEF SendResult
<1>5. CASE HasEvent(s, "WRITE") /\ s.send > 0 /\ k.state = "err"
  BY <1>5 DEF SendBuf, SendResult
<1>6. CASE HasEvent(s, "WRITE") /\ ~(s.send > 0 /\ k.state = "err") /\ sent.send > 0
  <2>1. r.s = Armed(sent) /\ r.k = kSent
    BY <1>6 DEF SendBuf, SendResult
  <2> HIDE DEF sent, kSent, r, n
  <2>2. kSent.space = 0 /\ k.state # "err"
    BY <1>1, <1>2, <1>6
  <2>3. ~Writable(kSent)
    BY <1>2, <2>2 DEF Writable
  <2>4. Armed(sent).iEventSocket = (s.iEventSocket \ {"WRITE"}) \cup {"FLAG"}
    BY <1>2, <1>3 DEF Armed, EventBits
  <2>. QED  BY <1>2, <1>6, <2>1, <2>3, <2>4 DEF HasEvent, r
<1>7. CASE HasEvent(s, "WRITE") /\ ~(s.send > 0 /\ k.state = "err") /\ sent.send = 0
  <2>1. r.s = ClearEvent(sent, "FLAG") /\ r.k = kSent
    BY <1>7 DEF SendBuf, SendResult
  <2> HIDE DEF sent, kSent, r, n
  <2>2. /\ ClearEvent(sent, "FLAG").iEventSocket = s.iEventSocket \ {"FLAG"}
        /\ ClearEvent(sent, "FLAG").send = 0
    BY <1>2, <1>3, <1>7 DEF EventBits
  <2>. QED  BY <1>2, <1>7, <2>1, <2>2 DEF HasEvent, r
<1>8. sent.send > 0 \/ sent.send = 0
  BY <1>2 DEF SlotRecord
<1>. QED  BY <1>4, <1>5, <1>6, <1>7, <1>8

-----------------------------------------------------------------------------
(* WakeInv is kept by the calls of the program ...                         *)

LEMMA OpenedWakes ==
  ASSUME WakeInv, FreeFds # {}, KernTypeOK, NEW state, NEW watch, Opened(NewFd, state, watch),
         \A j \in Slots : Linked(j) => sock[j].kSocket # NewFd /\ sock[j].kSocket \in Fds
  PROVE  /\ kern'[NewFd].state = state /\ BacklogOK' /\ UNCHANGED ready
         /\ \A j \in Slots : Linked(j) => kern'[sock[j].kSocket] = kern[sock[j].kSocket]
<1>1. kern' = [kern EXCEPT ![NewFd] = Kernel(state)] /\ NewFd \in Fds
  BY NewFdFree DEF Opened
<1>2. Kernel(state).backlog = 0 /\ Kernel(state).state = state
  BY DEF Kernel
<1>. QED  BY <1>1, <1>2 DEF KernTypeOK, WakeInv, BacklogOK, Opened

(* A new descriptor is no connection's.                                    *)
LEMMA NewFdUnlinked ==
  ASSUME SlotInv, FreeFds # {}, NEW j \in Slots, Linked(j)
  PROVE  sock[j].kSocket # NewFd /\ sock[j].kSocket \in Fds
BY NewFdFree DEF SlotInv, FdOwnership, Owning, Linked

LEMMA TCPListenWakes == ASSUME IInv, RegInv, WakeInv, TCPListen  PROVE WakeInv'
<1> DEFINE i == FreeSlot
           s == [NewSlot(i, NewFd, "LISTEN", clock) EXCEPT !.usStatus = "ACTIVECONNECT"]
<1>1. /\ FreeFds # {} /\ ~MgrFull /\ MgrAdd(i, s)
      /\ Opened(NewFd, "listen", Watch("listen", s.kHSocket))
      /\ UNCHANGED <<kSendList, batch>>
  BY DEF TCPListen, CanOpen, ctlVars
<1>2. /\ "LISTEN" \in Types \ {"NONE"} /\ "ACTIVECONNECT" \in OwnStates
  BY DEF Types, OwnStates
<1>3. SlotInv /\ KernTypeOK /\ i \in Slots /\ i \in Members(kMainList)
  BY <1>1, TableLists, TailList DEF IInv, SlotInv, MgrFull, FreeSlot
<1> HIDE DEF i
<1>4. s.usStatus = "ACTIVECONNECT" /\ s.iTypeSocket = "LISTEN" /\ s.kSocket = NewFd
  BY <1>1, <1>2, <1>3, NewSlotOK
<1>5. s.send = 0
  BY <1>1, <1>2, <1>3, NewSlotDrained
<1> HIDE DEF s
<1>6. /\ BacklogOK' /\ UNCHANGED ready
      /\ \A j \in Slots : Linked(j) => kern'[sock[j].kSocket] = kern[sock[j].kSocket]
  BY <1>1, <1>3, NewFdUnlinked, OpenedWakes
<1>. QED  BY <1>1, <1>4, <1>5, <1>6, NewSlotWakes

LEMMA TCPClientConnectedWakes ==
  ASSUME IInv, RegInv, WakeInv, TCPClientConnected  PROVE WakeInv'
<1> DEFINE i == FreeSlot
           s == [NewSlot(i, NewFd, "CLIENT", clock) EXCEPT !.usStatus = "CONNECTED"]
<1>1. /\ FreeFds # {} /\ ~MgrFull /\ MgrAdd(i, s) /\ Opened(NewFd, "up", NotRegistered)
      /\ kSendList' = AddInList(kSendList, i) /\ UNCHANGED batch
  BY DEF TCPClientConnected, CanOpen, ctlVars
<1>2. "CLIENT" \in Types \ {"NONE"} /\ "CONNECTED" \in OwnStates
  BY DEF Types, OwnStates
<1>3. SlotInv /\ KernTypeOK /\ i \in Slots /\ i \in Members(kMainList)
  BY <1>1, TableLists, TailList DEF IInv, SlotInv, MgrFull, FreeSlot
<1> HIDE DEF i
<1>4. s.usStatus = "CONNECTED" /\ s.iTypeSocket = "CLIENT" /\ s.kSocket = NewFd
  BY <1>1, <1>2, <1>3, NewSlotOK
<1>5. s.send = 0
  BY <1>1, <1>2, <1>3, NewSlotDrained
<1> HIDE DEF s
<1>6. /\ BacklogOK' /\ UNCHANGED ready /\ kern'[NewFd].state = "up"
      /\ \A j \in Slots : Linked(j) => kern'[sock[j].kSocket] = kern[sock[j].kSocket]
  BY <1>1, <1>3, NewFdUnlinked, OpenedWakes
<1>7. Members(kSendList) \subseteq Members(kSendList')
  BY <1>1, <1>3, TableLists, AddInListList DEF SlotInv
<1>. QED  BY <1>1, <1>4, <1>5, <1>6, <1>7, NewSlotWakes

LEMMA TCPClientConnectingWakes ==
  ASSUME IInv, RegInv, WakeInv, TCPClientConnecting  PROVE WakeInv'
<1> DEFINE i == FreeSlot
           s == [NewSlot(i, NewFd, "CLIENT", clock) EXCEPT !.usStatus = "CONNECTING"]
<1>1. /\ FreeFds # {} /\ ~MgrFull /\ MgrAdd(i, s)
      /\ Opened(NewFd, "connecting", Watch("connect", s.kHSocket))
      /\ UNCHANGED <<kSendList, batch>>
  BY DEF TCPClientConnecting, CanOpen, ctlVars
<1>2. "CLIENT" \in Types \ {"NONE"} /\ "CONNECTING" \in OwnStates
  BY DEF Types, OwnStates
<1>3. SlotInv /\ KernTypeOK /\ i \in Slots /\ i \in Members(kMainList)
  BY <1>1, TableLists, TailList DEF IInv, SlotInv, MgrFull, FreeSlot
<1> HIDE DEF i
<1>4. s.usStatus = "CONNECTING" /\ s.iTypeSocket = "CLIENT" /\ s.kSocket = NewFd
  BY <1>1, <1>2, <1>3, NewSlotOK
<1>5. s.send = 0
  BY <1>1, <1>2, <1>3, NewSlotDrained
<1> HIDE DEF s
<1>6. /\ BacklogOK' /\ UNCHANGED ready
      /\ \A j \in Slots : Linked(j) => kern'[sock[j].kSocket] = kern[sock[j].kSocket]
  BY <1>1, <1>3, NewFdUnlinked, OpenedWakes
<1>. QED  BY <1>1, <1>4, <1>5, <1>6, NewSlotWakes

LEMMA OpenFailsWakes == ASSUME IInv, RegInv, WakeInv, OpenFails  PROVE WakeInv'
<1>1. PICK i \in Slots :
        /\ sock' = [sock EXCEPT ![i] = MgrEnd(Reset(sock[i]))]
        /\ kSendList' = kSendList
  BY TableLists, TailList DEF IInv, SlotInv, OpenFails, MgrAddThenDel, MgrFull, FreeSlot
<1> DEFINE r == MgrEnd(Reset(sock[i]))
<1>2. r.usStatus = "INIT" /\ sock' = [sock EXCEPT ![i] = r]
  BY <1>1, ResetSlot DEF IInv, SlotInv, TableOK, MgrTypeOK
<1> HIDE DEF r
<1>3. sock'[i] = r /\ \A j \in Slots \ {i} : sock'[j] = sock[j]
  BY <1>2, ChangedOne DEF IInv
<1>4. OnlyTouches(i) /\ UNCHANGED kernVars
  BY <1>1, <1>3 DEF OnlyTouches, OpenFails, ctlVars
<1>5. SlotWakes(i)'
  BY <1>2, <1>3 DEF SlotWakes, LinkOK, Linked, Active
<1>. QED  BY <1>4, <1>5, QuietWakes DEF kernVars

LEMMA SendWakes == ASSUME IInv, RegInv, WakeInv, NEW i \in Slots, Send(i)  PROVE WakeInv'
<1>1. PICK n \in 0 .. MaxOut - sock[i].send : sock' = [sock EXCEPT ![i].send = @ + n]
  BY DEF Send
<1> DEFINE s == [sock[i] EXCEPT !.send = @ + n]
<1>2. /\ SlotInv /\ sock[i] \in SlotRecord /\ Active(i) /\ UNCHANGED <<kernVars, batch>>
      /\ kSendList' = IF HasEvent(sock[i], "WRITE") THEN AddInList(kSendList, i) ELSE kSendList
  BY DEF IInv, SlotInv, TableOK, MgrTypeOK, Send, CanSend, SendQueued, Active, ctlVars
<1>3. SameIdentity(sock[i], s) /\ s.iEventSocket = sock[i].iEventSocket
  BY <1>2 DEF SlotRecord, SameIdentity
<1>4. sock' = [sock EXCEPT ![i] = s]
  BY <1>1
<1> HIDE DEF s
<1>5. sock'[i] = s /\ \A j \in Slots \ {i} : sock'[j] = sock[j]
  BY <1>2, <1>4, ChangedOne
<1>6. /\ Members(kSendList) \subseteq Members(kSendList')
      /\ HasEvent(sock[i], "WRITE") => i \in Members(kSendList')
  BY <1>2, TableLists, AddInListList DEF SlotInv
<1>7. OnlyTouches(i)
  BY <1>2, <1>5, <1>6 DEF OnlyTouches
<1>8. KernOf(i)' = KernOf(i) /\ ready' = ready /\ sock'[i].kSocket = sock[i].kSocket
  BY <1>2, <1>3, <1>5 DEF KernOf, kernVars, SameIdentity
<1>9. /\ InRaised(i)' <=> InRaised(i)
      /\ OutRaised(i)' <=> OutRaised(i)
  BY <1>2, <1>3, <1>5 DEF InRaised, OutRaised, SameIdentity
<1>10. SlotWakes(i)'
  <2>1. SlotWakes(i)
    BY DEF WakeInv
  <2>2. LinkOK(i)'
    BY <1>2, <1>3, <1>5, <1>8, <2>1 DEF SlotWakes, LinkOK, Linked, Active, SameIdentity, IsConnection
  <2>3. InputOK(i)'
    BY <1>2, <1>8, <1>9, <2>1 DEF SlotWakes, InputOK
  <2>4. OutputOK(i)'
    BY <1>2, <1>3, <1>5, <1>6, <1>8, <1>9, <2>1 DEF SlotWakes, OutputOK, HasEvent
  <2>. QED  BY <2>2, <2>3, <2>4 DEF SlotWakes
<1>. QED  BY <1>2, <1>7, <1>8, <1>10, QuietWakes DEF kernVars

LEMMA AppDisconnectWakes ==
  ASSUME IInv, RegInv, WakeInv, NEW i \in Slots, AppDisconnect(i)  PROVE WakeInv'
<1>1. /\ SlotInv /\ sock[i] \in SlotRecord /\ SameIdentity(sock[i], sock[i])
      /\ MayDisconnect(sock[i]) /\ Disconnect(i, sock[i], kSendList) /\ UNCHANGED batch
  BY DEF IInv, SlotInv, TableOK, MgrTypeOK, SameIdentity, AppDisconnect, ctlVars
<1>. QED  BY <1>1, TableLists, DisconnectWakes DEF SlotInv

-----------------------------------------------------------------------------
(* ... by SeNetCoreProcess ...                                             *)

(* A connection announced is put in the epoll set, which looks at its      *)
(* socket at once.                                                         *)
LEMMA ProcessConnectedWakes ==
  ASSUME SysFail = FALSE, IInv, RegInv, WakeInv, NEW i \in Slots, ProcessConnected(i)
  PROVE  WakeInv'
<1> DEFINE c == ClearEvent(sock[i], "FLAG")
           s == [AddEvent(c, "WRITE") EXCEPT !.usStatus = "ACTIVECONNECT", !.llTime = clock]
           fd == sock[i].kSocket
<1>1. Popping(i, "CONNECTED") /\ SlotInv
  BY DEF ProcessConnected, IInv
<1>2. /\ sock[i] \in SlotRecord /\ sock[i].usStatus = "CONNECTED" /\ SlotWakes(i)
      /\ Members(Tail(kSendList)) = Members(kSendList) \ {i}
  BY <1>1, PoppedSlot DEF WakeInv
<1>3. /\ s.usStatus = "ACTIVECONNECT" /\ s.iTypeSocket = sock[i].iTypeSocket
      /\ s.kSocket = fd /\ s.send = sock[i].send
      /\ s.iEventSocket = (sock[i].iEventSocket \ {"FLAG"}) \cup {"WRITE"}
  BY <1>2 DEF SlotRecord, AddEvent, ClearEvent
<1>4. /\ sock' = [sock EXCEPT ![i] = s] /\ kSendList' = Tail(kSendList)
      /\ UNCHANGED <<kern, batch>> /\ ready' = ReadyAfterCtl(fd, kern[fd], "in")
  BY DEF ProcessConnected, Return
<1> HIDE DEF s, c
<1>5. sock'[i] = s /\ \A j \in Slots \ {i} : sock'[j] = sock[j]
  BY <1>1, <1>4, ChangedOne
<1>6. i \in Owning
  BY <1>2 DEF Owning
<1>7. OnlyTouches(i)
  BY <1>2, <1>4, <1>5 DEF OnlyTouches
<1>8. KernOf(i)' = KernOf(i) /\ s.send = 0 /\ HasEvent(s, "WRITE")
  BY <1>2, <1>3, <1>4, <1>5 DEF KernOf, SlotWakes, LinkOK, HasEvent
<1>9. Readable(KernOf(i)) => fd \in ready'
  BY <1>4 DEF ReadyAfterCtl, Reports, Revents, KernOf
<1>10. SlotWakes(i)'
  <2>1. LinkOK(i)'
    BY <1>2, <1>3, <1>5, <1>8 DEF SlotWakes, LinkOK, Linked, IsConnection
  <2>2. InputOK(i)'
    BY <1>3, <1>5, <1>8, <1>9 DEF InputOK
  <2>3. OutputOK(i)'
    BY <1>5, <1>8 DEF OutputOK
  <2>. QED  BY <2>1, <2>2, <2>3 DEF SlotWakes
<1>11. \A g \in Fds \ {fd} : kern'[g] = kern[g] /\ (g \in ready => g \in ready')
  BY <1>4 DEF ReadyAfterCtl
<1>12. kern'[fd].backlog > 0 => kern'[fd].state = "listen"
  BY <1>1, <1>4, <1>6 DEF WakeInv, BacklogOK, SlotInv, FdOwnership
<1>. QED  BY <1>1, <1>6, <1>7, <1>10, <1>11, <1>12, OwnWakes

LEMMA ProcessDisconnectWakes ==
  ASSUME IInv, RegInv, WakeInv, NEW i \in Slots, ProcessDisconnect(i)  PROVE WakeInv'
<1> DEFINE s == [sock[i] EXCEPT !.usStatus = "COMM_IDLE"]
<1>1. Popping(i, "DISCONNECT") /\ SlotInv
  BY DEF ProcessDisconnect, IInv
<1>2. /\ sock[i] \in SlotRecord /\ IsList(Tail(kSendList))
      /\ Members(Tail(kSendList)) = Members(kSendList) \ {i}
  BY <1>1, PoppedSlot
<1>3. s.usStatus = "COMM_IDLE"
  BY <1>2 DEF SlotRecord
<1>4. /\ sock' = [sock EXCEPT ![i] = s] /\ UNCHANGED <<kernVars, batch>>
      /\ Members(kSendList') = Members(Tail(kSendList)) \cup {i}
  BY <1>2, AddInListList DEF ProcessDisconnect, Return
<1> HIDE DEF s
<1>5. sock'[i] = s /\ \A j \in Slots \ {i} : sock'[j] = sock[j]
  BY <1>1, <1>4, ChangedOne
<1>6. OnlyTouches(i)
  BY <1>2, <1>4, <1>5 DEF OnlyTouches
<1>7. SlotWakes(i)'
  BY <1>3, <1>5 DEF SlotWakes, LinkOK, Linked, Active
<1>. QED  BY <1>4, <1>6, <1>7, QuietWakes DEF kernVars

(* The entry of an active connection.                                      *)
LEMMA ActiveInterest ==
  ASSUME SysFail = FALSE, NEW s, s.usStatus = "ACTIVECONNECT", IsConnection(s),
         NEW e \in Watched(s)
  PROVE  e = IF HasEvent(s, "FLAG") THEN "inout" ELSE "in"
BY DEF Watched, Interest, IsConnection

(* A connection has been worked on and perhaps sent: it wakes if it did    *)
(* just before epoll_ctl looked at its socket.                             *)
LEMMA WorkedWakes ==
  ASSUME SysFail = FALSE, SlotInv, RegInv, WakeInv, NEW i \in Slots, Active(i),
         NEW fd, fd = sock[i].kSocket, NEW r, r.s \in SlotRecord, SameIdentity(sock[i], r.s),
         sock' = [sock EXCEPT ![i] = r.s], KernAfterSend(fd, r),
         \A j \in Slots \ {i} : j \in Members(kSendList) => j \in Members(kSendList'),
         \A e \in batch : e \in batch' \/ IndexOf(e.h) = i,
         r.k \in KernRecord, r.k.state = kern[fd].state, r.k.backlog = kern[fd].backlog,
         r.e \in Watched(r.s),
         Readable(r.k) => fd \in ready \/ InRaised(i)',
         HasEvent(r.s, "WRITE") => r.s.send = 0 \/ i \in Members(kSendList'),
         ~HasEvent(r.s, "WRITE") =>
            /\ HasEvent(r.s, "FLAG")
            /\ ~Writable(r.k) \/ fd \in ready \/ OutRaised(i)'
  PROVE  WakeInv'
<1>1. sock'[i] = r.s /\ \A j \in Slots \ {i} : sock'[j] = sock[j]
  BY ChangedOne
<1>2. OnlyTouches(i) /\ i \in Owning
  BY <1>1 DEF OnlyTouches, Owning, Active
<1>3. fd \in Fds /\ kern \in [Fds -> KernRecord]
  BY <1>2 DEF SlotInv, FdOwnership, KernTypeOK
<1>4. /\ kern'[fd] = r.k /\ \A g \in Fds \ {fd} : kern'[g] = kern[g]
      /\ ready' = ready \/ ready' = ReadyAfterCtl(fd, r.k, r.e)
  BY <1>3 DEF KernAfterSend
<1>5. /\ r.s.usStatus = "ACTIVECONNECT" /\ IsConnection(r.s) /\ r.s.kSocket = fd
  BY DEF Active, SameIdentity, IsConnection
<1>6. r.e = IF HasEvent(r.s, "FLAG") THEN "inout" ELSE "in"
  BY <1>5, ActiveInterest
<1>7. /\ fd \in ready /\ Readable(r.k) => fd \in ready'
      /\ fd \in ready /\ Writable(r.k) /\ HasEvent(r.s, "FLAG") => fd \in ready'
      /\ \A g \in Fds \ {fd} : g \in ready => g \in ready'
  BY <1>4, <1>6 DEF ReadyAfterCtl, Reports, Revents
<1>8. KernOf(i)' = r.k /\ sock'[i].kSocket = fd
  BY <1>1, <1>4, <1>5 DEF KernOf
<1>9. SlotWakes(i)'
  <2>1. LinkOK(i)'
    <3>1. SlotWakes(i) /\ Linked(i)
      BY DEF WakeInv, Linked, Active
    <3>. QED  BY <1>1, <1>5, <1>8, <3>1 DEF SlotWakes, LinkOK, KernOf
  <2>2. InputOK(i)'
    BY <1>7, <1>8 DEF InputOK
  <2>3. OutputOK(i)'
    <3>1. r.s.send = 0 => ~(r.s.send > 0)
      OBVIOUS
    <3>. QED  BY <1>1, <1>7, <1>8, <3>1 DEF OutputOK
  <2>. QED  BY <2>1, <2>2, <2>3 DEF SlotWakes
<1>10. kern'[fd].backlog > 0 => kern'[fd].state = "listen"
  BY <1>3, <1>4 DEF WakeInv, BacklogOK
<1>. QED  BY <1>2, <1>4, <1>7, <1>9, <1>10, OwnWakes

LEMMA ProcessSendWakes ==
  ASSUME SysFail = FALSE, IInv, RegInv, WakeInv, NEW i \in Slots, ProcessSend(i)
  PROVE  WakeInv'
<1> DEFINE fd == sock[i].kSocket
           e  == reg[fd].interest
           r  == SendBuf(sock[i], kern[fd], e)
<1>1. Popping(i, "ACTIVECONNECT") /\ SlotInv /\ UNCHANGED batch
  BY DEF ProcessSend, IInv, ctlVars
<1>2. /\ sock[i] \in SlotRecord /\ sock[i].usStatus = "ACTIVECONNECT" /\ RegOK(i)
      /\ IsList(Tail(kSendList)) /\ Members(Tail(kSendList)) = Members(kSendList) \ {i}
      /\ i \in Members(kSendList)
  BY <1>1, TableLists, TailList, PoppedSlot DEF RegInv, SlotInv, Popping
<1>3. fd \in Fds /\ kern[fd] \in KernRecord /\ e \in Interests
  BY <1>1, <1>2, ActiveSlot DEF OwnStates
<1>4. /\ r.s \in SlotRecord /\ SameIdentity(sock[i], r.s)
      /\ r.k \in KernRecord /\ r.k.state = kern[fd].state /\ r.e \in Interests
  BY <1>2, <1>3, SendBufOK
<1>5. /\ IsConnection(sock[i]) /\ sock[i].iTypeSocket # "LISTEN" /\ e \in Watched(sock[i])
      /\ Active(i) /\ SlotWakes(i)
  BY <1>2 DEF RegOK, IsConnection, Owning, Entry, Active, WakeInv
<1>6. r.e \in Watched(r.s)
  BY <1>2, <1>3, <1>5, SendBufWatched
<1>7. r.ok => /\ r.k.rcv = kern[fd].rcv /\ r.k.backlog = kern[fd].backlog
              /\ ~HasEvent(sock[i], "WRITE") => r.s = sock[i] /\ r.k = kern[fd] /\ r.e = e
              /\ HasEvent(sock[i], "WRITE") =>
                   \/ r.s.send = 0 /\ HasEvent(r.s, "WRITE")
                   \/ ~HasEvent(r.s, "WRITE") /\ HasEvent(r.s, "FLAG") /\ ~Writable(r.k)
  BY <1>2, <1>3, SendBufWakes
<1>8. \/ /\ r.ok /\ CtlSucceeds(r, e) /\ sock' = [sock EXCEPT ![i] = r.s]
         /\ kSendList' = Tail(kSendList) /\ KernAfterSend(fd, r)
      \/ Disconnect(i, r.s, Tail(kSendList))
  BY DEF ProcessSend
<1> HIDE DEF r
<1>9. ASSUME r.ok, sock' = [sock EXCEPT ![i] = r.s], kSendList' = Tail(kSendList),
             KernAfterSend(fd, r)
      PROVE  WakeInv'
  <2>1. sock'[i] = r.s
    BY <1>1, <1>9, ChangedOne
  <2>2. (InRaised(i) => InRaised(i)') /\ (OutRaised(i) => OutRaised(i)')
    BY <1>1, <1>4, <2>1 DEF InRaised, OutRaised, SameIdentity
  <2>3. Readable(r.k) => fd \in ready \/ InRaised(i)'
    <3>1. Readable(r.k) => Readable(kern[fd])
      BY <1>4, <1>7, <1>9 DEF Readable
    <3>. QED  BY <1>5, <2>2, <3>1 DEF SlotWakes, InputOK, KernOf
  <2>4. HasEvent(r.s, "WRITE") => r.s.send = 0
    BY <1>7, <1>9
  <2>5. ~HasEvent(r.s, "WRITE") =>
          /\ HasEvent(r.s, "FLAG")
          /\ ~Writable(r.k) \/ fd \in ready \/ OutRaised(i)'
    BY <1>5, <1>7, <1>9, <2>2 DEF SlotWakes, OutputOK, KernOf
  <2>6. \A j \in Slots \ {i} : j \in Members(kSendList) => j \in Members(kSendList')
    BY <1>2, <1>9
  <2>. QED  BY <1>1, <1>4, <1>5, <1>6, <1>7, <1>9, <2>3, <2>4, <2>5, <2>6, WorkedWakes
<1>10. ASSUME Disconnect(i, r.s, Tail(kSendList))  PROVE WakeInv'
  BY <1>1, <1>2, <1>4, <1>5, <1>10, DisconnectWakes DEF MayDisconnect
<1>. QED  BY <1>8, <1>9, <1>10

LEMMA ProcessRecvWakes ==
  ASSUME IInv, RegInv, WakeInv, NEW i \in Slots, ProcessRecv(i)  PROVE WakeInv'
<1> DEFINE s == [sock[i] EXCEPT !.recv = @ - FrameLen]
<1>1. /\ SlotInv /\ sock' = [sock EXCEPT ![i] = s] /\ kSendList' = kSendList
      /\ UNCHANGED <<kernVars, batch>> /\ sock[i] \in SlotRecord /\ SlotWakes(i)
  BY DEF IInv, ProcessRecv, SlotInv, TableOK, MgrTypeOK, WakeInv, Return
<1>2. /\ SameIdentity(sock[i], s) /\ s.iEventSocket = sock[i].iEventSocket
      /\ s.send = sock[i].send
  BY <1>1 DEF SlotRecord, SameIdentity
<1> HIDE DEF s
<1>3. sock'[i] = s /\ \A j \in Slots \ {i} : sock'[j] = sock[j]
  BY <1>1, ChangedOne
<1>4. OnlyTouches(i) /\ KernOf(i)' = KernOf(i) /\ sock'[i].kSocket = sock[i].kSocket
  BY <1>1, <1>2, <1>3 DEF OnlyTouches, KernOf, kernVars, SameIdentity
<1>5. (InRaised(i)' <=> InRaised(i)) /\ (OutRaised(i)' <=> OutRaised(i))
  BY <1>1, <1>2, <1>3 DEF InRaised, OutRaised, SameIdentity
<1>6. SlotWakes(i)'
  <2>1. LinkOK(i)' /\ (Active(i)' => Active(i))
    BY <1>1, <1>2, <1>3, <1>4
       DEF SlotWakes, LinkOK, Linked, Active, SameIdentity, IsConnection
  <2>2. InputOK(i) => InputOK(i)'
    BY <1>1, <1>4, <1>5 DEF InputOK, kernVars
  <2>3. OutputOK(i) => OutputOK(i)'
    BY <1>1, <1>2, <1>3, <1>4, <1>5 DEF OutputOK, HasEvent, kernVars
  <2>. QED  BY <1>1, <2>1, <2>2, <2>3 DEF SlotWakes
<1>. QED  BY <1>1, <1>4, <1>6, QuietWakes DEF kernVars

-----------------------------------------------------------------------------
(* ... by the handlers of the events ...                                   *)

LEMMA DispatchedEvent ==
  ASSUME NEW i, NEW e \in batch, Dispatching(e, i)
  PROVE  /\ batch' = batch \ {e} /\ IndexOf(e.h) = i /\ e.h = sock[i].kHSocket
         /\ \A f \in batch : f \in batch' \/ IndexOf(f.h) = i
BY DEF Dispatching, Found

(* A listening slot is no connection: its event is nobody else's.          *)
LEMMA DispatchListenWakes ==
  ASSUME IInv, RegInv, WakeInv, NEW i \in Slots, NEW e \in batch, DispatchListen(e, i)
  PROVE  WakeInv'
<1>1. /\ UNCHANGED <<sock, kSendList, kernVars>> /\ sock[i].iTypeSocket = "LISTEN"
      /\ Dispatching(e, i)
  BY DEF DispatchListen, mgrVars, listVars
<1>2. OnlyTouches(i)
  BY <1>1, DispatchedEvent DEF OnlyTouches
<1>3. SlotWakes(i)'
  BY <1>1 DEF WakeInv, SlotWakes, LinkOK, Linked, Active, IsConnection
<1>. QED  BY <1>1, <1>2, <1>3, QuietWakes DEF kernVars

LEMMA DispatchConnectingWakes ==
  ASSUME IInv, RegInv, WakeInv, NEW i \in Slots, NEW e \in batch, DispatchConnecting(e, i)
  PROVE  WakeInv'
<1> DEFINE fd == sock[i].kSocket
           s  == [sock[i] EXCEPT !.usStatus = "CONNECTED", !.llTime = clock]
<1>1. /\ SlotInv /\ sock[i] \in SlotRecord /\ sock[i].usStatus = "CONNECTING"
      /\ kSendList' = AddInList(kSendList, i) /\ SlotWakes(i)
      /\ \A f \in batch : f \in batch' \/ IndexOf(f.h) = i
  BY DispatchedSlot, DispatchedEvent DEF IInv, DispatchConnecting, WakeInv
<1>2. \/ /\ sock' = [sock EXCEPT ![i] = s] /\ kern[fd].state \in {"up", "eof"}
         /\ ready' = ready \ {fd}
         /\ UNCHANGED kern
      \/ Disconnect(i, sock[i], kSendList)
  <2>1. ASSUME sock' = [sock EXCEPT ![i].usStatus = "CONNECTED", ![i].llTime = clock]
        PROVE  sock' = [sock EXCEPT ![i] = s]
    BY <1>1, <2>1 DEF SlotInv, TableOK, MgrTypeOK
  <2>2. ASSUME sock' = [sock EXCEPT ![i].usStatus = "CONNECTED_FAILED"], Close(fd)
        PROVE  Disconnect(i, sock[i], kSendList)
    <3>1. Disconnected(sock[i]) = [sock[i] EXCEPT !.usStatus = "CONNECTED_FAILED"]
      BY <1>1 DEF Disconnected
    <3>. QED  BY <1>1, <2>2, <3>1 DEF Disconnect
  <2>. QED  BY <2>1, <2>2 DEF DispatchConnecting
<1>3. /\ s.usStatus = "CONNECTED" /\ s.iTypeSocket = sock[i].iTypeSocket
      /\ s.kSocket = fd /\ s.send = sock[i].send
  BY <1>1 DEF SlotRecord
<1> HIDE DEF s
<1>4. ASSUME sock' = [sock EXCEPT ![i] = s], kern[fd].state \in {"up", "eof"},
             ready' = ready \ {fd}, UNCHANGED kern
      PROVE  WakeInv'
  <2>1. sock'[i] = s /\ \A j \in Slots \ {i} : sock'[j] = sock[j]
    BY <1>1, <1>4, ChangedOne
  <2>2. Members(kSendList') = Members(kSendList) \cup {i}
    BY <1>1, TableLists, AddInListList DEF SlotInv
  <2>3. OnlyTouches(i) /\ i \in Owning
    BY <1>1, <2>1, <2>2 DEF OnlyTouches, Owning
  <2>4. KernOf(i)' = kern[fd] /\ s.send = 0
    BY <1>1, <1>3, <1>4, <2>1 DEF KernOf, SlotWakes, LinkOK
  <2>5. SlotWakes(i)'
    BY <1>3, <1>4, <2>1, <2>4 DEF SlotWakes, LinkOK, Active
  <2>6. kern'[fd].backlog > 0 => kern'[fd].state = "listen"
    BY <1>1, <1>4, <2>3 DEF WakeInv, BacklogOK, SlotInv, FdOwnership
  <2>. QED  BY <1>1, <1>4, <2>3, <2>5, <2>6, OwnWakes
<1>5. ASSUME Disconnect(i, sock[i], kSendList)  PROVE WakeInv'
  <2>1. MayDisconnect(sock[i]) /\ SameIdentity(sock[i], sock[i])
    BY <1>1 DEF SlotInv, SendListStates, MayDisconnect, IsConnection, SameIdentity
  <2>. QED  BY <1>1, <1>5, <2>1, TableLists, DisconnectWakes DEF SlotInv
<1>. QED  BY <1>2, <1>4, <1>5

(* What SeNetCoreRecvBuf leaves: nothing to read.                          *)
LEMMA RecvBufWakes ==
  ASSUME NEW s \in SlotRecord, NEW k \in KernRecord, clock \in Nat
  PROVE  LET r == RecvBuf(s, k) IN
         /\ r.ok => ~HangUp(k)
         /\ r.k.rcv = 0 /\ r.k.space = k.space /\ r.k.backlog = k.backlog
         /\ r.s.send = s.send
BY DEF RecvBuf, SlotRecord, KernRecord

(* The handler has the only event of its slot in hand.                     *)
LEMMA OneEvent ==
  ASSUME BatchInv, NEW i, NEW e \in batch, e.h = sock[i].kHSocket
  PROVE  /\ InRaised(i) => e.rev.bRead \/ e.rev.bError
         /\ OutRaised(i) => e.rev.bWrite \/ e.rev.bError
BY DEF BatchInv, InRaised, OutRaised

LEMMA DispatchActiveWakes ==
  ASSUME SysFail = FALSE, IInv, RegInv, BatchInv, WakeInv,
         NEW i \in Slots, NEW e \in batch, DispatchActive(e, i)
  PROVE  WakeInv'
<1> DEFINE s  == sock[i]
           fd == s.kSocket
           x  == reg[fd].interest
           in == IF e.rev.bRead /\ ~e.rev.bError THEN RecvBuf(s, kern[fd])
                 ELSE [ok |-> ~e.rev.bError, s |-> s, k |-> kern[fd]]
           w   == AddEvent(in.s, "WRITE")
           out == IF e.rev.bWrite THEN SendBuf(w, in.k, x)
                  ELSE SendResult(TRUE, in.s, in.k, x)
<1>1. /\ SlotInv /\ s \in SlotRecord /\ s.usStatus = "ACTIVECONNECT" /\ IsConnection(s)
      /\ fd \in Fds /\ kern[fd] \in KernRecord /\ x \in Interests /\ x \in Watched(s)
      /\ Active(i) /\ SlotWakes(i)
  <2>1. /\ SlotInv /\ s \in SlotRecord /\ s.usStatus = "ACTIVECONNECT" /\ IsConnection(s)
        /\ fd \in Fds /\ kern[fd] \in KernRecord /\ x \in Interests /\ RegOK(i)
    BY DispatchedSlot, ActiveSlot DEF IInv, DispatchActive, OwnStates, RegInv
  <2>2. i \in Owning
    BY <2>1 DEF Owning
  <2>. QED  BY <2>1, <2>2 DEF RegOK, Entry, Active, WakeInv
<1>2. /\ batch' = batch \ {e} /\ e.h = s.kHSocket
      /\ \A f \in batch : f \in batch' \/ IndexOf(f.h) = i
  BY DispatchedEvent DEF DispatchActive
<1>3. /\ in.s \in SlotRecord /\ SameIdentity(s, in.s) /\ in.s.iEventSocket = s.iEventSocket
      /\ in.s.send = s.send
      /\ in.k \in KernRecord /\ in.k.state = kern[fd].state
      /\ in.k.space = kern[fd].space /\ in.k.backlog = kern[fd].backlog
      /\ in.ok => ~e.rev.bError
      /\ in.ok /\ e.rev.bRead => in.k.rcv = 0 /\ ~HangUp(kern[fd])
      /\ in.ok /\ ~e.rev.bRead => in.k = kern[fd]
  <2>1. clock \in Nat
    BY CoreAssumption DEF IInv, CtlTypeOK
  <2>2. CASE e.rev.bRead /\ ~e.rev.bError
    <3>1. in = RecvBuf(s, kern[fd])
      BY <2>2
    <3> HIDE DEF in
    <3>. QED  BY <1>1, <2>1, <2>2, <3>1, RecvBufOK, RecvBufEvents, RecvBufWakes
  <2>3. CASE ~(e.rev.bRead /\ ~e.rev.bError)
    BY <1>1, <2>3 DEF SameIdentity
  <2>. QED  BY <2>2, <2>3
<1>4. \/ Disconnect(i, in.s, kSendList)
      \/ Disconnect(i, out.s, kSendList)
      \/ /\ in.ok /\ out.ok /\ sock' = [sock EXCEPT ![i] = out.s]
         /\ KernAfterSend(fd, out) /\ kSendList' = kSendList
  BY DEF DispatchActive
<1> HIDE DEF in
<1>5. /\ w \in SlotRecord /\ SameIdentity(s, w) /\ HasEvent(w, "WRITE")
      /\ w.iEventSocket = s.iEventSocket \cup {"WRITE"}
  BY <1>3 DEF SlotRecord, AddEvent, EventBits, SameIdentity, HasEvent
<1> HIDE DEF w
<1>6. x \in Watched(w) /\ x \in Watched(in.s)
  BY <1>1, <1>3, <1>5, WatchedSame, WatchedFlag DEF HasEvent
<1>7. in.ok /\ Readable(in.k) => fd \in ready
  <2>1. kern[fd].state # "listen"
    BY <1>1 DEF SlotWakes, LinkOK, Linked, Active, KernOf
  <2>2. ~(kern[fd].backlog > 0)
    BY <1>1, <2>1 DEF WakeInv, BacklogOK
  <2>3. CASE e.rev.bRead
    BY <1>3, <2>2, <2>3 DEF Readable, HangUp
  <2>4. CASE ~e.rev.bRead
    BY <1>1, <1>2, <1>3, <2>4, OneEvent DEF SlotWakes, InputOK, KernOf
  <2>. QED  BY <2>3, <2>4
<1>8. ASSUME in.ok, out.ok, out.s \in SlotRecord, SameIdentity(s, out.s),
             out.k \in KernRecord, out.k.state = in.k.state, out.k.rcv = in.k.rcv,
             out.k.backlog = in.k.backlog, out.e \in Watched(out.s),
             HasEvent(out.s, "WRITE") => out.s.send = 0 \/ i \in Members(kSendList),
             ~HasEvent(out.s, "WRITE") =>
                HasEvent(out.s, "FLAG") /\ (~Writable(out.k) \/ fd \in ready),
             sock' = [sock EXCEPT ![i] = out.s], KernAfterSend(fd, out), kSendList' = kSendList
      PROVE  WakeInv'
  <2> HIDE DEF out, x
  <2>1. Readable(out.k) => fd \in ready
    BY <1>7, <1>8 DEF Readable
  <2>. QED  BY <1>1, <1>2, <1>3, <1>8, <2>1, WorkedWakes
<1>9. CASE e.rev.bWrite
  <2>1. out = SendBuf(w, in.k, x)
    BY <1>9
  <2>2. w.iTypeSocket # "LISTEN" /\ w.usStatus = "ACTIVECONNECT"
    BY <1>1, <1>5 DEF SameIdentity, IsConnection
  <2> HIDE DEF out, x, fd
  <2>3. /\ out.s \in SlotRecord /\ SameIdentity(w, out.s)
        /\ out.k \in KernRecord /\ out.k.state = in.k.state /\ out.e \in Interests
    BY <2>1, <1>1, <1>3, <1>5, SendBufOK
  <2>4. out.e \in Watched(out.s)
    BY <2>1, <2>2, <1>1, <1>3, <1>5, <1>6, SendBufWatched
  <2>5. out.ok =>
          /\ out.k.rcv = in.k.rcv /\ out.k.backlog = in.k.backlog
          /\ \/ out.s.send = 0 /\ HasEvent(out.s, "WRITE")
             \/ ~HasEvent(out.s, "WRITE") /\ HasEvent(out.s, "FLAG") /\ ~Writable(out.k)
    BY <2>1, <1>1, <1>3, <1>5, SendBufWakes
  <2>6. SameIdentity(s, out.s)
    BY <1>5, <2>3 DEF SameIdentity
  <2>. QED  BY <1>1, <1>2, <1>3, <1>4, <1>8, <2>3, <2>4, <2>5, <2>6, TableLists,
               DisconnectWakes DEF SlotInv, MayDisconnect
<1>10. CASE ~e.rev.bWrite
  <2>1. out.s = in.s /\ out.k = in.k /\ out.e = x
    BY <1>10 DEF SendResult
  <2> HIDE DEF out, x
  <2>2. HasEvent(in.s, "WRITE") => in.s.send = 0 \/ i \in Members(kSendList)
    <3>1. in.s.send = 0 \/ in.s.send > 0
      BY <1>3 DEF SlotRecord
    <3>. QED  BY <1>1, <1>3, <3>1 DEF SlotWakes, OutputOK, HasEvent
  <2>3. ASSUME in.ok, ~HasEvent(in.s, "WRITE")
        PROVE  HasEvent(in.s, "FLAG") /\ (~Writable(in.k) \/ fd \in ready)
    <3>1. ~OutRaised(i)
      BY <1>2, <1>3, <1>10, <2>3, OneEvent
    <3>2. Writable(in.k) => Writable(kern[fd])
      BY <1>3 DEF Writable
    <3>. QED  BY <1>1, <1>3, <2>3, <3>1, <3>2 DEF SlotWakes, OutputOK, HasEvent, KernOf
  <2>. QED  BY <1>1, <1>2, <1>3, <1>4, <1>6, <1>8, <2>1, <2>2, <2>3, TableLists,
               DisconnectWakes DEF SlotInv, MayDisconnect
<1>. QED  BY <1>9, <1>10

(* A connection accepted takes one from the backlog of a listening socket, *)
(* which is no connection's.                                               *)
LEMMA BacklogTaken ==
  ASSUME SlotInv, WakeInv, kern[sock[lsn].kSocket].backlog > 0
  PROVE  /\ \A j \in Slots : Linked(j) =>
              OneAccepted(kern)[sock[j].kSocket] = kern[sock[j].kSocket]
         /\ \A fd \in Fds : OneAccepted(kern)[fd].backlog > 0 => kern[fd].state = "listen"
<1> DEFINE fd == sock[lsn].kSocket
<1>1. kern \in [Fds -> KernRecord]
  BY DEF SlotInv, KernTypeOK
<1>2. ASSUME NEW j \in Slots, Linked(j)  PROVE sock[j].kSocket \in Fds \ {fd}
  <2>1. sock[j].kSocket \in Fds /\ kern[sock[j].kSocket].state # "listen"
    BY <1>2 DEF SlotInv, FdOwnership, Owning, Linked, WakeInv, SlotWakes, LinkOK, KernOf
  <2>. QED  BY <2>1 DEF WakeInv, BacklogOK
<1> HIDE DEF fd
<1>3. CASE fd \in Fds
  <2>1. OneAccepted(kern) = [kern EXCEPT ![fd] = [kern[fd] EXCEPT !.backlog = @ - 1]]
    BY <1>1, <1>3 DEF OneAccepted, fd
  <2>2. kern[fd].state = "listen"
    BY <1>3 DEF WakeInv, BacklogOK, fd
  <2>. QED  BY <1>1, <1>2, <1>3, <2>1, <2>2 DEF WakeInv, BacklogOK
<1>4. CASE fd \notin Fds
  <2>1. OneAccepted(kern) = kern
    BY <1>1, <1>4 DEF OneAccepted, fd
  <2>. QED  BY <2>1 DEF WakeInv, BacklogOK
<1>. QED  BY <1>3, <1>4

LEMMA AcceptWakes == ASSUME IInv, RegInv, WakeInv, Accept  PROVE WakeInv'
<1> DEFINE i == FreeSlot
           s == [NewSlot(i, NewFd, "ACCEPT", clock) EXCEPT !.usStatus = "CONNECTED"]
<1>1. /\ SlotInv /\ FreeFds # {} /\ ~MgrFull /\ MgrAdd(i, s)
      /\ kern[sock[lsn].kSocket].backlog > 0
      /\ kern' = [OneAccepted(kern) EXCEPT ![NewFd] = Kernel("up")]
      /\ kSendList' = AddInList(kSendList, i) /\ UNCHANGED <<ready, batch>>
  BY DEF IInv, Accept, Accepting, ctlVars
<1>2. "ACCEPT" \in Types \ {"NONE"} /\ "CONNECTED" \in OwnStates
  BY DEF Types, OwnStates
<1>3. i \in Slots /\ i \in Members(kMainList)
  BY <1>1, TableLists, TailList DEF SlotInv, MgrFull, FreeSlot
<1> HIDE DEF i
<1>4. s.usStatus = "CONNECTED" /\ s.iTypeSocket = "ACCEPT" /\ s.kSocket = NewFd
  BY <1>1, <1>2, <1>3, NewSlotOK
<1>5. s.send = 0
  BY <1>1, <1>2, <1>3, NewSlotDrained
<1> HIDE DEF s
<1>6. /\ OneAccepted(kern) \in [Fds -> KernRecord]
      /\ \A g \in Fds : OneAccepted(kern)[g].state = kern[g].state
  BY <1>1, OneAcceptedOK
<1>7. NewFd \in Fds /\ Kernel("up").state = "up" /\ Kernel("up").backlog = 0
  BY <1>1, NewFdFree DEF Kernel
<1>8. kern'[NewFd].state = "up" /\ BacklogOK'
  BY <1>1, <1>6, <1>7, BacklogTaken DEF BacklogOK
<1>9. \A j \in Slots : Linked(j) => kern'[sock[j].kSocket] = kern[sock[j].kSocket]
  BY <1>1, <1>6, NewFdUnlinked, BacklogTaken
<1>10. Members(kSendList) \subseteq Members(kSendList')
  BY <1>1, <1>3, TableLists, AddInListList DEF SlotInv
<1>. QED  BY <1>1, <1>4, <1>5, <1>8, <1>9, <1>10, NewSlotWakes

LEMMA KernOnlyWakes ==
  ASSUME IInv, WakeInv, UNCHANGED <<mgrVars, ready, batch>>,
         kern' = kern \/ (kern[sock[lsn].kSocket].backlog > 0 /\ kern' = OneAccepted(kern))
  PROVE  WakeInv'
<1>1. CASE kern' = kern
  BY <1>1, SameWakes DEF mgrVars, listVars
<1>2. CASE kern[sock[lsn].kSocket].backlog > 0 /\ kern' = OneAccepted(kern)
  <2>1. /\ \A j \in Slots : Linked(j) => kern'[sock[j].kSocket] = kern[sock[j].kSocket]
        /\ BacklogOK'
    BY <1>2, OneAcceptedOK, BacklogTaken DEF BacklogOK, IInv
  <2>2. ASSUME NEW j \in Slots  PROVE SlotWakes(j)'
    <3>1. SlotWakes(j) /\ (Linked(j) => KernOf(j)' = KernOf(j)) /\ (Active(j) => Linked(j))
      BY <2>1 DEF WakeInv, KernOf, mgrVars, Active, Linked
    <3>. QED  BY <3>1 DEF SlotWakes, LinkOK, Linked, Active, InputOK, OutputOK, InRaised,
                          OutRaised, IsConnection, mgrVars, listVars
  <2>. QED  BY <2>1, <2>2 DEF WakeInv
<1>. QED  BY <1>1, <1>2

-----------------------------------------------------------------------------
(* ... by the timer, by epoll_wait and by the peers.                       *)

LEMMA NetTimeOutWakes ==
  ASSUME IInv, RegInv, WakeInv, NetTimeOut, UNCHANGED batch  PROVE WakeInv'
<1> DEFINE i == Head(kActiveMainList)
<1>1. CASE kActiveMainList = <<>> \/ ~Expired(sock[i])
  <2>1. UNCHANGED <<sock, kSendList, kernVars>>
    BY <1>1 DEF NetTimeOut
  <2>. QED  BY <2>1, SameWakes DEF kernVars
<1>2. CASE kActiveMainList # <<>> /\ Expired(sock[i])
  <2>1. SlotInv /\ i \in Slots /\ Disconnect(i, sock[i], kSendList)
    BY <1>2, TableLists, TailList DEF IInv, SlotInv, NetTimeOut
  <2>2. sock[i] \in SlotRecord /\ SameIdentity(sock[i], sock[i]) /\ MayDisconnect(sock[i])
    BY <1>2, <2>1 DEF SlotInv, TableOK, MgrTypeOK, SameIdentity, Expired
  <2> HIDE DEF i
  <2>. QED  BY <2>1, <2>2, TableLists, DisconnectWakes DEF SlotInv
<1>. QED  BY <1>1, <1>2

(* A report takes a socket off the ready list and becomes an event.        *)
LEMMA EpollWaitWakes ==
  ASSUME SysFail = FALSE, IInv, RegInv, BatchInv, WakeInv, EpollWait  PROVE WakeInv'
<1>1. /\ UNCHANGED <<sock, kSendList, kern>> /\ batch = {}
      /\ batch' = {EpollEvent(fd) : fd \in Reported}
  BY DEF EpollWait, mgrVars, listVars, BatchInv
<1>2. ASSUME NEW i \in Slots  PROVE SlotWakes(i)'
  <2>1. SlotWakes(i) /\ RegOK(i) /\ KernOf(i)' = KernOf(i)
    BY <1>1 DEF WakeInv, RegInv, KernOf
  <2>2. LinkOK(i)' /\ (Active(i)' => Active(i))
    BY <1>1, <2>1 DEF SlotWakes, LinkOK, Linked, Active, IsConnection
  <2>3. ASSUME Active(i)  PROVE (InputOK(i) /\ OutputOK(i))'
    <3> DEFINE fd == sock[i].kSocket
               x  == reg[fd].interest
               e  == EpollEvent(fd)
    <3>1. i \in Owning /\ ~InRaised(i) /\ ~OutRaised(i)
      BY <1>1, <2>3 DEF Owning, Active, InRaised, OutRaised
    <3>2. x \in Watched(sock[i]) /\ (x # "none" => reg[fd].h = sock[i].kHSocket)
      BY <2>1, <3>1 DEF RegOK, Entry
    <3>3. x = IF HasEvent(sock[i], "FLAG") THEN "inout" ELSE "in"
      BY <2>3, <3>2, ActiveInterest DEF Active
    <3>4. e.h = sock[i].kHSocket /\ e.rev = Revents(kern[fd], x)
      BY <3>2, <3>3 DEF EpollEvent
    <3> HIDE DEF e
    <3>5. fd \in Reported => e \in batch'
      BY <1>1 DEF e
    <3>6. InputOK(i)'
      <4>1. ASSUME Readable(kern[fd])  PROVE InRaised(i)'
        <5>1. fd \in ready
          BY <2>1, <2>3, <3>1, <4>1 DEF SlotWakes, InputOK, KernOf
        <5>2. Revents(kern[fd], x).bRead
          BY <3>3, <4>1 DEF Revents
        <5>3. fd \in Reported
          BY <5>1, <5>2 DEF Reports, Reported
        <5>. QED  BY <1>1, <3>4, <3>5, <5>2, <5>3 DEF InRaised
      <4>. QED  BY <2>1, <4>1 DEF InputOK, KernOf
    <3>7. OutputOK(i)'
      <4>1. ASSUME ~HasEvent(sock[i], "WRITE"), Writable(kern[fd])  PROVE OutRaised(i)'
        <5>1. fd \in ready /\ HasEvent(sock[i], "FLAG")
          BY <2>1, <2>3, <3>1, <4>1 DEF SlotWakes, OutputOK, KernOf
        <5>2. Revents(kern[fd], x).bWrite
          BY <3>3, <4>1, <5>1 DEF Revents
        <5>3. fd \in Reported
          BY <5>1, <5>2 DEF Reports, Reported
        <5>. QED  BY <1>1, <3>4, <3>5, <5>2, <5>3 DEF OutRaised
      <4>. QED  BY <1>1, <2>1, <2>3, <4>1 DEF SlotWakes, OutputOK, KernOf, HasEvent
    <3>. QED  BY <3>6, <3>7
  <2>. QED  BY <2>2, <2>3 DEF SlotWakes
<1>3. BacklogOK'
  BY <1>1 DEF WakeInv, BacklogOK
<1>. QED  BY <1>2, <1>3 DEF WakeInv

(* A peer changes a socket: what becomes readable or writable by it wakes  *)
(* the slot that waits for that.                                           *)
LEMMA KernelEventWakes ==
  ASSUME SysFail = FALSE, IInv, RegInv, WakeInv, NEW fd \in Fds, NEW k, NEW edge,
         KernelEvent(fd, k, edge), k.backlog > 0 => k.state = "listen",
         kern[fd].state \in {"listen", "connecting", "up", "eof"},
         kern[fd].state \in {"up", "eof"} =>
           /\ k.state \in {"up", "eof", "err"}
           /\ Readable(k) => Readable(kern[fd]) \/ edge \in {"IN", "HUP"}
           /\ Writable(k) => Writable(kern[fd]) \/ edge \in {"OUT", "HUP"}
  PROVE  WakeInv'
<1>1. /\ UNCHANGED <<sock, kSendList, batch>>
      /\ ready' = IF reg[fd].interest \in WokenBy(edge) THEN ready \cup {fd} ELSE ready
      /\ kern' = [kern EXCEPT ![fd] = k]
  BY DEF KernelEvent, mgrVars, listVars, ctlVars
<1>2. kern'[fd] = k /\ \A g \in Fds \ {fd} : kern'[g] = kern[g]
  BY <1>1 DEF IInv, SlotInv, KernTypeOK
<1>3. ready \subseteq ready'
  BY <1>1
<1>4. BacklogOK'
  BY <1>2 DEF WakeInv, BacklogOK
<1>5. ASSUME NEW j \in Slots  PROVE SlotWakes(j)'
  <2>1. SlotWakes(j) /\ RegOK(j)
    BY DEF WakeInv, RegInv
  <2>2. Linked(j) => sock[j].kSocket \in Fds
    BY DEF IInv, SlotInv, FdOwnership, Owning, Linked
  <2>3. (InRaised(j)' <=> InRaised(j)) /\ (OutRaised(j)' <=> OutRaised(j))
    BY <1>1 DEF InRaised, OutRaised
  <2>4. (Linked(j)' <=> Linked(j)) /\ (Active(j)' <=> Active(j)) /\ (Active(j) => Linked(j))
    BY <1>1 DEF Linked, Active, IsConnection
  <2>5. CASE ~(Linked(j) /\ sock[j].kSocket = fd)
    <3>1. Linked(j) => KernOf(j)' = KernOf(j)
      BY <1>1, <1>2, <2>2, <2>5 DEF KernOf
    <3>2. LinkOK(j)'
      BY <1>1, <2>1, <2>4, <3>1 DEF SlotWakes, LinkOK
    <3>3. ASSUME Active(j)  PROVE (InputOK(j) /\ OutputOK(j))'
      BY <1>1, <1>3, <2>1, <2>3, <2>4, <3>1, <3>3 DEF SlotWakes, InputOK, OutputOK, HasEvent
    <3>. QED  BY <2>4, <3>2, <3>3 DEF SlotWakes
  <2>6. CASE Linked(j) /\ sock[j].kSocket = fd
    <3>1. KernOf(j) = kern[fd] /\ KernOf(j)' = k
      BY <1>1, <1>2, <2>6 DEF KernOf
    <3>2. kern[fd].state \in {"up", "eof"}
      BY <2>1, <2>6, <3>1 DEF SlotWakes, LinkOK
    <3>3. LinkOK(j)'
      BY <1>1, <2>1, <2>4, <3>1, <3>2 DEF SlotWakes, LinkOK
    <3>4. ASSUME Active(j)  PROVE (InputOK(j) /\ OutputOK(j))'
      <4>1. j \in Owning
        BY <3>4 DEF Owning, Active
      <4>2. reg[fd].interest = IF HasEvent(sock[j], "FLAG") THEN "inout" ELSE "in"
        BY <2>1, <2>6, <3>4, <4>1, ActiveInterest DEF RegOK, Entry, Active
      <4>3. edge \in {"IN", "HUP"} => fd \in ready'
        BY <1>1, <4>2 DEF WokenBy
      <4>4. edge \in {"OUT", "HUP"} /\ HasEvent(sock[j], "FLAG") => fd \in ready'
        BY <1>1, <4>2 DEF WokenBy
      <4>5. InputOK(j)'
        BY <1>1, <1>3, <2>1, <2>3, <2>6, <3>1, <3>2, <3>4, <4>3 DEF SlotWakes, InputOK
      <4>6. OutputOK(j)'
        BY <1>1, <1>3, <2>1, <2>3, <2>6, <3>1, <3>2, <3>4, <4>4
           DEF SlotWakes, OutputOK, HasEvent
      <4>. QED  BY <4>5, <4>6
    <3>. QED  BY <2>4, <3>3, <3>4 DEF SlotWakes
  <2>. QED  BY <2>5, <2>6
<1>. QED  BY <1>4, <1>5 DEF WakeInv

LEMMA PeerWakes ==
  ASSUME SysFail = FALSE, IInv, RegInv, WakeInv, NEW fd \in Fds, Peer(fd)  PROVE WakeInv'
<1> DEFINE k == kern[fd]
<1>1. k \in KernRecord /\ (k.backlog > 0 => k.state = "listen")
  BY DEF IInv, SlotInv, KernTypeOK, WakeInv, BacklogOK
<1> HIDE DEF k
<1>2. CASE PeerConnects(fd)
  <2>1. k.state = "listen" /\ KernelEvent(fd, [k EXCEPT !.backlog = @ + 1], "IN")
    BY <1>2 DEF PeerConnects, k
  <2>2. [k EXCEPT !.backlog = @ + 1].state = "listen"
    BY <1>1, <2>1 DEF KernRecord
  <2>. QED  BY <2>1, <2>2, KernelEventWakes DEF k
<1>3. CASE ConnectCompletes(fd)
  <2>1. PICK state \in {"up", "err"} : KernelEvent(fd, [k EXCEPT !.state = state], "OUT")
    BY <1>3 DEF ConnectCompletes, k
  <2>2. k.state = "connecting"
    BY <1>3 DEF ConnectCompletes, k
  <2>3. [k EXCEPT !.state = state].backlog = k.backlog
    BY <1>1 DEF KernRecord
  <2>. QED  BY <1>1, <2>1, <2>2, <2>3, KernelEventWakes DEF k
<1>4. CASE PeerSends(fd)
  <2> DEFINE n == [k EXCEPT !.rcv = @ + 1]
  <2>1. k.state = "up" /\ KernelEvent(fd, n, "IN")
    BY <1>4 DEF PeerSends, k
  <2>2. n.state = k.state /\ n.backlog = k.backlog /\ n.space = k.space
    BY <1>1 DEF KernRecord
  <2> HIDE DEF n
  <2>3. Writable(n) => Writable(k)
    BY <2>2 DEF Writable
  <2>. QED  BY <1>1, <2>1, <2>2, <2>3, KernelEventWakes DEF k
<1>5. CASE PeerCloses(fd)
  <2> DEFINE n == [k EXCEPT !.state = "eof"]
  <2>1. k.state = "up" /\ KernelEvent(fd, n, "HUP")
    BY <1>5 DEF PeerCloses, k
  <2>2. n.state = "eof" /\ n.backlog = k.backlog
    BY <1>1 DEF KernRecord
  <2> HIDE DEF n
  <2>. QED  BY <1>1, <2>1, <2>2, KernelEventWakes DEF k
<1>6. CASE PeerResets(fd)
  <2> DEFINE n == [k EXCEPT !.state = "err", !.rcv = 0]
  <2>1. k.state \in {"up", "eof"} /\ KernelEvent(fd, n, "HUP")
    BY <1>6 DEF PeerResets, k
  <2>2. n.state = "err" /\ n.backlog = k.backlog
    BY <1>1 DEF KernRecord
  <2> HIDE DEF n
  <2>. QED  BY <1>1, <2>1, <2>2, KernelEventWakes DEF k
<1>7. CASE PeerDrains(fd)
  <2> DEFINE n == [k EXCEPT !.space = Space]
             edge == IF k.space = 0 THEN "OUT" ELSE "NONE"
  <2>1. k.state \in {"up", "eof"} /\ KernelEvent(fd, n, edge)
    BY <1>7 DEF PeerDrains, k
  <2>2. n.state = k.state /\ n.backlog = k.backlog /\ n.rcv = k.rcv
    BY <1>1 DEF KernRecord
  <2>3. edge = "OUT" \/ k.space > 0
    BY <1>1 DEF KernRecord
  <2> HIDE DEF n, edge
  <2>4. (Readable(n) => Readable(k)) /\ (Writable(k) \/ edge = "OUT")
    BY <2>1, <2>2, <2>3 DEF Readable, Writable
  <2>. QED  BY <1>1, <2>1, <2>2, <2>4, KernelEventWakes DEF k
<1>. QED  BY <1>2, <1>3, <1>4, <1>5, <1>6, <1>7 DEF Peer

-----------------------------------------------------------------------------
(* So every step keeps it.                                                 *)

LEMMA WakeStepOK ==
  ASSUME SysFail = FALSE, IInv, RegInv, BatchInv, WakeInv, [Next]_vars  PROVE WakeInv'
<1>1. CASE Program
  BY <1>1, TCPListenWakes, TCPClientConnectedWakes, TCPClientConnectingWakes,
     OpenFailsWakes, SendWakes, AppDisconnectWakes DEF Program
<1>2. ASSUME NEW i \in Slots, Process(i)  PROVE WakeInv'
  <2>1. CASE ProcessConnectFailed(i) \/ ProcessCommIdle(i)
    <3>1. MgrDel(i) /\ sock[i].usStatus # "INIT" /\ UNCHANGED <<kernVars, batch>>
      BY <2>1 DEF ProcessConnectFailed, ProcessCommIdle, Popping, Return, ctlVars
    <3>. QED  BY <3>1, MgrDelWakes DEF IInv
  <2>. QED  BY <1>2, <2>1, ProcessConnectedWakes, ProcessDisconnectWakes, ProcessSendWakes,
               ProcessRecvWakes DEF Process
<1>3. ASSUME NEW i \in Slots, NEW e \in batch, Dispatch(e, i)  PROVE WakeInv'
  BY <1>3, DispatchListenWakes, DispatchConnectingWakes, DispatchActiveWakes DEF Dispatch
<1>4. CASE Call \/ ProcessDone \/ EpollNothing \/ DispatchDone \/ ClockTick \/ TimerExpires
           \/ UNCHANGED vars
  <2>1. UNCHANGED <<sock, kSendList, kern, ready, batch>>
    BY <1>4 DEF Call, ProcessDone, EpollNothing, DispatchDone, ClockTick, TimerExpires,
                Return, vars, mgrVars, listVars, kernVars, ctlVars
  <2>. QED  BY <2>1, SameWakes
<1>5. CASE AcceptFull \/ AcceptEnds
  BY <1>5, KernOnlyWakes DEF AcceptFull, AcceptEnds, Accepting, ctlVars
<1>6. CASE DispatchTimer
  BY <1>6, NetTimeOutWakes DEF DispatchTimer, Return
<1>. QED
  BY <1>1, <1>2, <1>3, <1>4, <1>5, <1>6, AcceptWakes, EpollWaitWakes, PeerWakes
     DEF Next, Read, Environment

LEMMA WakeInitOK == Init => WakeInv
<1> SUFFICES ASSUME Init  PROVE WakeInv
  OBVIOUS
<1>1. \A i \in Slots : SlotWakes(i)
  BY IdleWakes DEF Init, MgrInit
<1>2. \A fd \in Fds : kern[fd].backlog = 0
  BY DEF Init, Kernel
<1>. QED  BY <1>1, <1>2 DEF WakeInv, BacklogOK

LEMMA WakeInvariance == ASSUME SysFail = FALSE  PROVE Spec => [](RegInv /\ WakeInv)
<1>1. Init => BatchInv
  BY DEF Init, BatchInv
<1>2. IInv /\ RegInv /\ BatchInv /\ WakeInv /\ [Next]_vars => WakeInv'
  BY WakeStepOK
<1>. QED  BY <1>1, <1>2, InitOK, StepOK, RegInitOK, RegStepOK, BatchStepOK, WakeInitOK,
             PTL DEF Spec

(* Where epoll_ctl does not fail, no input of a connection waits unheard   *)
(* of: the edge was not missed, and its event is not dropped.              *)
THEOREM InputWakes == ASSUME SysFail = FALSE  PROVE Spec => []NoStrandedInput
<1>1. WakeInv => NoStrandedInput
  BY DEF WakeInv, SlotWakes, InputOK, InRaised, KernOf, NoStrandedInput, Pending
<1>. QED  BY <1>1, WakeInvariance, PTL

(* ... and no output waits for room that nobody will tell of.              *)
THEOREM OutputWakes == ASSUME SysFail = FALSE  PROVE Spec => []NoStrandedOutput
<1>1. RegInv /\ WakeInv => NoStrandedOutput
  <2> SUFFICES ASSUME RegInv, WakeInv, NEW i \in Slots, Active(i), sock[i].send > 0
               PROVE  \/ HasEvent(sock[i], "WRITE") /\ i \in Members(kSendList)
                      \/ /\ ~HasEvent(sock[i], "WRITE") /\ reg[sock[i].kSocket].interest = "inout"
                         /\ \/ ~Writable(kern[sock[i].kSocket])
                            \/ sock[i].kSocket \in ready
                            \/ \E r \in Pending(i) : r.bWrite \/ r.bError
    BY DEF NoStrandedOutput
  <2>1. OutputOK(i) /\ RegOK(i) /\ i \in Owning
    BY DEF WakeInv, SlotWakes, RegInv, Owning, Active
  <2>2. reg[sock[i].kSocket].interest = IF HasEvent(sock[i], "FLAG") THEN "inout" ELSE "in"
    BY <2>1, ActiveInterest DEF RegOK, Entry, Active
  <2>. QED  BY <2>1, <2>2 DEF OutputOK, OutRaised, KernOf, Pending
<1>. QED  BY <1>1, WakeInvariance, PTL

-----------------------------------------------------------------------------
(***************************************************************************)
(* NetCore implements ConnLifecycle, for every value of the constants.     *)
(*                                                                         *)
(* Each step of the thread, of the program and of the peers is a step of   *)
(* the abstract specification or changes nothing of it.  Besides what is   *)
(* known of the slots (IInv, RecvInv, RegInv) that needs one fact about    *)
(* the control state: an event that was returned is forgotten as soon as   *)
(* SeNetCoreRead is called again, so that nothing is reported over it.     *)
(***************************************************************************)
Serving == pc # "app" => ev = NoEvent

LifeInv == IInv /\ RecvInv /\ RegInv /\ Serving

-----------------------------------------------------------------------------
(* The abstract state.                                                     *)

Conns == [i \in Slots |-> [stage |-> StageOf(i),
                           out |-> sock[i].iTypeSocket = "CLIENT",
                           h |-> sock[i].kHSocket]]

(* What a slot with record s shows.                                        *)
StageFor(s) ==
  CASE s.usStatus = "INIT" -> "free"
    [] s.usStatus \in {"CONNECTING", "CONNECTED", "CONNECTED_FAILED"} -> "opening"
    [] s.usStatus = "ACTIVECONNECT" -> IF s.iTypeSocket = "LISTEN" THEN "listening" ELSE "open"
    [] s.usStatus = "DISCONNECT" -> "closing"
    [] s.usStatus = "COMM_IDLE" -> "closed"

ConnFor(s) == [stage |-> StageFor(s), out |-> s.iTypeSocket = "CLIENT", h |-> s.kHSocket]

LEMMA StageFacts ==
  ASSUME NEW s
  PROVE  /\ s.usStatus = "INIT" => StageFor(s) = "free"
         /\ s.usStatus \in {"CONNECTING", "CONNECTED", "CONNECTED_FAILED"} =>
              StageFor(s) = "opening"
         /\ s.usStatus = "ACTIVECONNECT" =>
              StageFor(s) = IF s.iTypeSocket = "LISTEN" THEN "listening" ELSE "open"
         /\ s.usStatus = "DISCONNECT" => StageFor(s) = "closing"
         /\ s.usStatus = "COMM_IDLE" => StageFor(s) = "closed"
BY DEF StageFor

LEMMA ConnsAre ==
  /\ Conns = [i \in Slots |-> ConnFor(sock[i])]
  /\ Conns' = [i \in Slots |-> ConnFor(sock'[i])]
BY DEF Conns, ConnFor, StageOf, StageFor

(* A step that changes one slot changes one connection.                    *)
LEMMA OneConn ==
  ASSUME SlotInv, NEW i \in Slots, NEW s, sock' = [sock EXCEPT ![i] = s]
  PROVE  Conns' = [Conns EXCEPT ![i] = ConnFor(s)] /\ Conns[i] = ConnFor(sock[i])
<1>1. sock'[i] = s /\ \A j \in Slots \ {i} : sock'[j] = sock[j]
  BY ChangedOne
<1>. QED  BY <1>1, ConnsAre

(* One that leaves what is shown of the slot changes none.                 *)
LEMMA NoConn ==
  ASSUME SlotInv, NEW i \in Slots, NEW s, sock' = [sock EXCEPT ![i] = s],
         ConnFor(s) = ConnFor(sock[i])
  PROVE  Conns' = Conns
<1>1. sock'[i] = s /\ \A j \in Slots \ {i} : sock'[j] = sock[j]
  BY ChangedOne
<1>2. \A j \in Slots : ConnFor(sock'[j]) = ConnFor(sock[j])
  BY <1>1
<1>. QED  BY <1>2, ConnsAre

LEMMA SameSock == UNCHANGED sock => Conns' = Conns
BY ConnsAre

-----------------------------------------------------------------------------
(* The steps of the abstract specification, for the state shown.           *)

LEMMA OpenMaps ==
  ASSUME NEW i \in Slots, NEW t \in 0 .. MaxClock, NEW out \in BOOLEAN,
         NEW s \in {"opening", "listening"},
         Conns[i] = [stage |-> "free", out |-> FALSE, h |-> NoHandle],
         Conns' = [Conns EXCEPT ![i] = [stage |-> s, out |-> out, h |-> Handle(i, t)]],
         UNCHANGED ev
  PROVE  Lifecycle!Next
<1>1. Lifecycle!Open(i)
  BY DEF Conns, Lifecycle!Open, Lifecycle!Free
<1>. QED  BY <1>1 DEF Lifecycle!Next

LEMMA CallMaps ==
  ASSUME ev # NoEvent, ev' = NoEvent, Conns' = Conns  PROVE Lifecycle!Next
BY DEF Conns, Lifecycle!Next, Lifecycle!Call

LEMMA ConnectMaps ==
  ASSUME ev = NoEvent, NEW i \in Slots, Conns[i].stage = "opening",
         Conns' = [Conns EXCEPT ![i].stage = "open"], ev' = Event("CONNECT", Conns[i].h)
  PROVE  Lifecycle!Next
<1>1. Lifecycle!Connect(i)
  BY DEF Conns, Lifecycle!Connect, Lifecycle!Stage, Lifecycle!Event, Event
<1>. QED  BY <1>1 DEF Lifecycle!Next, Lifecycle!Deliver

LEMMA ConnectFailedMaps ==
  ASSUME ev = NoEvent, NEW i \in Slots, Conns[i].stage = "opening", Conns[i].out,
         Conns' = [Conns EXCEPT ![i] = [stage |-> "free", out |-> FALSE, h |-> NoHandle]],
         ev' = Event("CONNECT_FAILED", Conns[i].h)
  PROVE  Lifecycle!Next
<1>1. Lifecycle!ConnectFailed(i)
  BY DEF Conns, Lifecycle!ConnectFailed, Lifecycle!Free, Lifecycle!Event, Event
<1>. QED  BY <1>1 DEF Lifecycle!Next, Lifecycle!Deliver

LEMMA CloseMaps ==
  ASSUME NEW i \in Slots, Conns[i].stage = "open",
         Conns' = [Conns EXCEPT ![i].stage = "closing"]
  PROVE  Lifecycle!Close(i)
BY DEF Conns, Lifecycle!Close, Lifecycle!Stage

LEMMA RecvDataMaps ==
  ASSUME ev = NoEvent, NEW i \in Slots, Conns[i].stage = "open",
         \A j \in Slots : /\ Conns[j].stage \notin {"closing", "closed"}
                          /\ Conns[j].stage = "opening" => Conns[j].out,
         Conns' = Conns, ev' = Event("RECV_DATA", Conns[i].h)
  PROVE  Lifecycle!Next
<1>1. Lifecycle!RecvData(i)
  BY DEF Conns, Lifecycle!RecvData, Lifecycle!Reported, Lifecycle!Event, Event
<1>. QED  BY <1>1 DEF Lifecycle!Next, Lifecycle!Deliver

LEMMA DisconnectedMaps ==
  ASSUME ev = NoEvent, NEW i \in Slots, Conns[i].stage = "closing",
         Conns' = [Conns EXCEPT ![i].stage = "closed"], ev' = Event("DISCONNECT", Conns[i].h)
  PROVE  Lifecycle!Next
<1>1. Lifecycle!Disconnected(i)
  BY DEF Conns, Lifecycle!Disconnected, Lifecycle!Stage, Lifecycle!Event, Event
<1>. QED  BY <1>1 DEF Lifecycle!Next, Lifecycle!Deliver

LEMMA ReleaseMaps ==
  ASSUME ev = NoEvent, NEW i \in Slots, Conns[i].stage = "closed",
         Conns' = [Conns EXCEPT ![i] = [stage |-> "free", out |-> FALSE, h |-> NoHandle]],
         UNCHANGED ev
  PROVE  Lifecycle!Next
<1>1. Lifecycle!Release(i)
  BY DEF Conns, Lifecycle!Release, Lifecycle!Free
<1>. QED  BY <1>1 DEF Lifecycle!Next

LEMMA IdleMaps ==
  ASSUME ev = NoEvent, Conns' = Conns, ev' = Event("IDLE", NoHandle)  PROVE Lifecycle!Next
BY DEF Conns, Lifecycle!Next, Lifecycle!Idle, Lifecycle!Event, Event

LEMMA TimerMaps ==
  ASSUME ev = NoEvent, ev' = Event("TIMER", NoHandle),
         Conns' = Conns \/ \E i \in Slots : Lifecycle!Close(i)
  PROVE  Lifecycle!Next
<1>1. Lifecycle!Timer
  BY DEF Conns, Lifecycle!Timer, Lifecycle!Event, Event
<1>. QED  BY <1>1 DEF Lifecycle!Next

-----------------------------------------------------------------------------
(* What the handlers have in common.                                       *)

Implemented == Lifecycle!Next \/ (Conns' = Conns /\ UNCHANGED ev)

LEMMA StageChange ==
  ASSUME SlotInv, NEW i \in Slots, NEW s, sock' = [sock EXCEPT ![i] = s],
         s.iTypeSocket = sock[i].iTypeSocket, s.kHSocket = sock[i].kHSocket
  PROVE  /\ Conns' = [Conns EXCEPT ![i].stage = StageFor(s)]
         /\ Conns[i].stage = StageFor(sock[i]) /\ Conns[i].h = sock[i].kHSocket
         /\ StageFor(s) = StageFor(sock[i]) => Conns' = Conns
<1>1. ConnFor(s) = [ConnFor(sock[i]) EXCEPT !.stage = StageFor(s)]
  BY DEF ConnFor
<1>2. Conns' = [Conns EXCEPT ![i] = ConnFor(s)] /\ Conns[i] = ConnFor(sock[i])
  BY OneConn
<1>3. StageFor(s) = StageFor(sock[i]) => ConnFor(s) = ConnFor(sock[i])
  BY DEF ConnFor
<1>4. StageFor(s) = StageFor(sock[i]) => Conns' = Conns
  BY <1>3, NoConn
<1>5. Conns' = [Conns EXCEPT ![i].stage = StageFor(s)]
  BY <1>1, <1>2
<1>6. Conns[i].stage = StageFor(sock[i]) /\ Conns[i].h = sock[i].kHSocket
  BY <1>2 DEF ConnFor
<1>. QED  BY <1>4, <1>5, <1>6

LEMMA SameIdentityLife ==
  ASSUME SlotInv, NEW i \in Slots, NEW s, sock' = [sock EXCEPT ![i] = s],
         SameIdentity(sock[i], s)
  PROVE  Conns' = Conns
<1>1. ConnFor(s) = ConnFor(sock[i])
  BY DEF ConnFor, StageFor, SameIdentity
<1>. QED  BY <1>1, NoConn

LEMMA DisconnectLife ==
  ASSUME SlotInv, NEW i \in Slots, NEW s \in SlotRecord, SameIdentity(sock[i], s),
         MayDisconnect(sock[i]), NEW sendList, Disconnect(i, s, sendList)
  PROVE  Conns' = Conns \/ Lifecycle!Close(i)
<1> DEFINE t == Disconnected(s)
<1>1. /\ t.iTypeSocket = sock[i].iTypeSocket /\ t.kHSocket = sock[i].kHSocket
      /\ sock[i].usStatus = "CONNECTING" => t.usStatus = "CONNECTED_FAILED"
      /\ sock[i].usStatus = "ACTIVECONNECT" => t.usStatus = "DISCONNECT"
      /\ sock[i].usStatus \in {"CONNECTING", "ACTIVECONNECT"} /\ sock[i].iTypeSocket # "LISTEN"
  BY DEF Disconnected, SlotRecord, SameIdentity, MayDisconnect, IsConnection
<1>2. sock' = [sock EXCEPT ![i] = t]
  BY DEF Disconnect
<1> HIDE DEF t
<1>3. /\ Conns' = [Conns EXCEPT ![i].stage = StageFor(t)]
      /\ Conns[i].stage = StageFor(sock[i])
      /\ StageFor(t) = StageFor(sock[i]) => Conns' = Conns
  BY <1>1, <1>2, StageChange
<1>4. CASE sock[i].usStatus = "CONNECTING"
  <2>1. StageFor(t) = "opening" /\ StageFor(sock[i]) = "opening"
    BY <1>1, <1>4, StageFacts
  <2>. QED  BY <1>3, <2>1
<1>5. CASE sock[i].usStatus = "ACTIVECONNECT"
  <2>1. StageFor(t) = "closing" /\ StageFor(sock[i]) = "open"
    BY <1>1, <1>5, StageFacts
  <2>. QED  BY <1>3, <2>1, CloseMaps
<1>. QED  BY <1>1, <1>4, <1>5

LEMMA CloseLife ==
  ASSUME NEW i \in Slots, Conns' = Conns \/ Lifecycle!Close(i), UNCHANGED ev
  PROVE  Implemented
BY DEF Implemented, Lifecycle!Next

LEMMA DelLife ==
  ASSUME SlotInv, NEW i \in Slots, MgrDel(i)
  PROVE  /\ Conns' = [Conns EXCEPT ![i] = [stage |-> "free", out |-> FALSE, h |-> NoHandle]]
         /\ Conns[i] = ConnFor(sock[i])
<1> DEFINE r == MgrEnd(Reset(sock[i]))
<1>1. sock[i] \in SlotRecord /\ sock' = [sock EXCEPT ![i] = r]
  BY DEF SlotInv, TableOK, MgrTypeOK, MgrDel
<1>2. r.usStatus = "INIT" /\ r.iTypeSocket = "NONE" /\ r.kHSocket = NoHandle
  BY <1>1, ResetSlot
<1> HIDE DEF r
<1>3. StageFor(r) = "free"
  BY <1>2, StageFacts
<1>4. ConnFor(r) = [stage |-> "free", out |-> FALSE, h |-> NoHandle]
  BY <1>2, <1>3 DEF ConnFor
<1>. QED  BY <1>1, <1>4, OneConn

(* A slot of kMainList shows a free connection.                            *)
LEMMA FreeLife ==
  ASSUME SlotInv, NEW i \in Slots, i \in Members(kMainList)
  PROVE  Conns[i] = [stage |-> "free", out |-> FALSE, h |-> NoHandle]
<1>1. sock[i].usStatus = "INIT" /\ sock[i].iTypeSocket = "NONE" /\ sock[i].kHSocket = NoHandle
  BY DEF SlotInv, TableOK, SlotPartition
<1>2. StageFor(sock[i]) = "free"
  BY <1>1, StageFacts
<1>. QED  BY <1>1, <1>2, ConnsAre DEF ConnFor

LEMMA AddLife ==
  ASSUME IInv, NEW i, NEW s, MgrAdd(i, s), s.kHSocket = Handle(i, clock),
         \/ s.usStatus \in {"CONNECTING", "CONNECTED"}
         \/ s.usStatus = "ACTIVECONNECT" /\ s.iTypeSocket = "LISTEN",
         UNCHANGED ev
  PROVE  Lifecycle!Next
<1>1. SlotInv /\ i \in Slots /\ i \in Members(kMainList) /\ sock' = [sock EXCEPT ![i] = s]
  BY TableLists, TailList DEF IInv, SlotInv, MgrAdd, MgrFull, FreeSlot
<1>2. StageFor(s) \in {"opening", "listening"}
  BY StageFacts
<1>3. clock \in 0 .. MaxClock
  BY DEF IInv, CtlTypeOK
<1>4. ConnFor(s) = [stage |-> StageFor(s), out |-> s.iTypeSocket = "CLIENT",
                    h |-> Handle(i, clock)]
  BY DEF ConnFor
<1>5. Conns' = [Conns EXCEPT ![i] = ConnFor(s)]
  BY <1>1, OneConn
<1>. QED  BY <1>1, <1>2, <1>3, <1>4, <1>5, FreeLife, OpenMaps

-----------------------------------------------------------------------------
(* Calls of the program.                                                   *)

LEMMA TCPListenLife == ASSUME IInv, TCPListen  PROVE Lifecycle!Next
<1> DEFINE i == FreeSlot
           s == [NewSlot(i, NewFd, "LISTEN", clock) EXCEPT !.usStatus = "ACTIVECONNECT"]
<1>1. FreeFds # {} /\ ~MgrFull /\ MgrAdd(i, s) /\ UNCHANGED ev
  BY DEF TCPListen, CanOpen, ctlVars
<1>2. "LISTEN" \in Types \ {"NONE"} /\ "ACTIVECONNECT" \in OwnStates
  BY DEF Types, OwnStates
<1>3. i \in Slots
  BY <1>1, TableLists, TailList DEF IInv, SlotInv, MgrFull, FreeSlot
<1> HIDE DEF i
<1>4. s.usStatus = "ACTIVECONNECT" /\ s.iTypeSocket = "LISTEN" /\ s.kHSocket = Handle(i, clock)
  BY <1>1, <1>2, <1>3, NewSlotOK
<1> HIDE DEF s
<1>. QED  BY <1>1, <1>4, AddLife

LEMMA TCPClientConnectedLife == ASSUME IInv, TCPClientConnected  PROVE Lifecycle!Next
<1> DEFINE i == FreeSlot
           s == [NewSlot(i, NewFd, "CLIENT", clock) EXCEPT !.usStatus = "CONNECTED"]
<1>1. FreeFds # {} /\ ~MgrFull /\ MgrAdd(i, s) /\ UNCHANGED ev
  BY DEF TCPClientConnected, CanOpen, ctlVars
<1>2. "CLIENT" \in Types \ {"NONE"} /\ "CONNECTED" \in OwnStates
  BY DEF Types, OwnStates
<1>3. i \in Slots
  BY <1>1, TableLists, TailList DEF IInv, SlotInv, MgrFull, FreeSlot
<1> HIDE DEF i
<1>4. s.usStatus = "CONNECTED" /\ s.kHSocket = Handle(i, clock)
  BY <1>1, <1>2, <1>3, NewSlotOK
<1> HIDE DEF s
<1>. QED  BY <1>1, <1>4, AddLife

LEMMA TCPClientConnectingLife == ASSUME IInv, TCPClientConnecting  PROVE Lifecycle!Next
<1> DEFINE i == FreeSlot
           s == [NewSlot(i, NewFd, "CLIENT", clock) EXCEPT !.usStatus = "CONNECTING"]
<1>1. FreeFds # {} /\ ~MgrFull /\ MgrAdd(i, s) /\ UNCHANGED ev
  BY DEF TCPClientConnecting, CanOpen, ctlVars
<1>2. "CLIENT" \in Types \ {"NONE"} /\ "CONNECTING" \in OwnStates
  BY DEF Types, OwnStates
<1>3. i \in Slots
  BY <1>1, TableLists, TailList DEF IInv, SlotInv, MgrFull, FreeSlot
<1> HIDE DEF i
<1>4. s.usStatus = "CONNECTING" /\ s.kHSocket = Handle(i, clock)
  BY <1>1, <1>2, <1>3, NewSlotOK
<1> HIDE DEF s
<1>. QED  BY <1>1, <1>4, AddLife

LEMMA AcceptLife == ASSUME IInv, Accept  PROVE Lifecycle!Next
<1> DEFINE i == FreeSlot
           s == [NewSlot(i, NewFd, "ACCEPT", clock) EXCEPT !.usStatus = "CONNECTED"]
<1>1. FreeFds # {} /\ ~MgrFull /\ MgrAdd(i, s) /\ UNCHANGED ev
  BY DEF Accept, Accepting, ctlVars
<1>2. "ACCEPT" \in Types \ {"NONE"} /\ "CONNECTED" \in OwnStates
  BY DEF Types, OwnStates
<1>3. i \in Slots
  BY <1>1, TableLists, TailList DEF IInv, SlotInv, MgrFull, FreeSlot
<1> HIDE DEF i
<1>4. s.usStatus = "CONNECTED" /\ s.kHSocket = Handle(i, clock)
  BY <1>1, <1>2, <1>3, NewSlotOK
<1> HIDE DEF s
<1>. QED  BY <1>1, <1>4, AddLife

(* A slot taken and given back shows nothing.                              *)
LEMMA OpenFailsLife == ASSUME IInv, OpenFails  PROVE Implemented
<1>1. PICK i \in Slots :
        /\ sock' = [sock EXCEPT ![i] = MgrEnd(Reset(sock[i]))]
        /\ i \in Members(kMainList)
  BY TableLists, TailList DEF IInv, SlotInv, OpenFails, MgrAddThenDel, MgrFull, FreeSlot
<1> DEFINE r == MgrEnd(Reset(sock[i]))
<1>2. /\ sock[i] \in SlotRecord /\ SlotInv /\ sock' = [sock EXCEPT ![i] = r] /\ UNCHANGED ev
      /\ sock[i].usStatus = "INIT" /\ sock[i].iTypeSocket = "NONE"
      /\ sock[i].kHSocket = NoHandle
  BY <1>1 DEF IInv, SlotInv, TableOK, MgrTypeOK, SlotPartition, OpenFails, ctlVars
<1>3. r.usStatus = "INIT" /\ r.iTypeSocket = "NONE" /\ r.kHSocket = NoHandle
  BY <1>2, ResetSlot
<1> HIDE DEF r
<1>4. StageFor(r) = "free" /\ StageFor(sock[i]) = "free"
  BY <1>2, <1>3, StageFacts
<1>5. ConnFor(r) = ConnFor(sock[i])
  BY <1>2, <1>3, <1>4 DEF ConnFor
<1>6. Conns' = Conns
  BY <1>1, <1>2, <1>5, NoConn
<1>. QED  BY <1>2, <1>6 DEF Implemented

LEMMA SendLife == ASSUME IInv, NEW i \in Slots, Send(i)  PROVE Implemented
<1>1. PICK n \in 0 .. MaxOut - sock[i].send : sock' = [sock EXCEPT ![i].send = @ + n]
  BY DEF Send
<1> DEFINE s == [sock[i] EXCEPT !.send = @ + n]
<1>2. SlotInv /\ sock[i] \in SlotRecord /\ UNCHANGED ev /\ sock' = [sock EXCEPT ![i] = s]
  BY <1>1 DEF IInv, SlotInv, TableOK, MgrTypeOK, Send, ctlVars
<1>3. SameIdentity(sock[i], s)
  BY <1>2 DEF SlotRecord, SameIdentity
<1> HIDE DEF s
<1>. QED  BY <1>2, <1>3, SameIdentityLife DEF Implemented

LEMMA AppDisconnectLife == ASSUME IInv, NEW i \in Slots, AppDisconnect(i)  PROVE Implemented
<1>1. /\ SlotInv /\ sock[i] \in SlotRecord /\ SameIdentity(sock[i], sock[i])
      /\ MayDisconnect(sock[i]) /\ Disconnect(i, sock[i], kSendList) /\ UNCHANGED ev
  BY DEF IInv, SlotInv, TableOK, MgrTypeOK, SameIdentity, AppDisconnect, ctlVars
<1>. QED  BY <1>1, DisconnectLife, CloseLife

-----------------------------------------------------------------------------
(* SeNetCoreProcess.                                                       *)

LEMMA ProcessConnectedLife ==
  ASSUME LifeInv, NEW i \in Slots, ProcessConnected(i)  PROVE Lifecycle!Next
<1> DEFINE s == [AddEvent(ClearEvent(sock[i], "FLAG"), "WRITE")
                   EXCEPT !.usStatus = "ACTIVECONNECT", !.llTime = clock]
<1>1. /\ Popping(i, "CONNECTED") /\ SlotInv /\ ev = NoEvent
      /\ sock' = [sock EXCEPT ![i] = s] /\ ev' = Event("CONNECT", sock[i].kHSocket)
  BY DEF ProcessConnected, LifeInv, IInv, Serving, Popping, Return
<1>2. sock[i] \in SlotRecord /\ sock[i].usStatus = "CONNECTED" /\ i \in Members(kSendList)
  BY <1>1, PoppedSlot, TableLists, TailList DEF SlotInv, Popping
<1>3. IsConnection(sock[i])
  BY <1>2 DEF LifeInv, RegInv, RegOK
<1>4. /\ s.usStatus = "ACTIVECONNECT" /\ s.iTypeSocket = sock[i].iTypeSocket
      /\ s.kHSocket = sock[i].kHSocket
  BY <1>2 DEF SlotRecord, AddEvent, ClearEvent
<1> HIDE DEF s
<1>5. StageFor(s) = "open" /\ StageFor(sock[i]) = "opening"
  BY <1>2, <1>3, <1>4, StageFacts DEF IsConnection
<1>6. /\ Conns' = [Conns EXCEPT ![i].stage = StageFor(s)]
      /\ Conns[i].stage = StageFor(sock[i]) /\ Conns[i].h = sock[i].kHSocket
  <2>1. SlotInv /\ sock' = [sock EXCEPT ![i] = s]
    BY <1>1
  <2>. QED  BY <2>1, <1>4, StageChange
<1>7. Conns' = [Conns EXCEPT ![i].stage = "open"] /\ Conns[i].stage = "opening"
  BY <1>5, <1>6
<1>. QED  BY <1>1, <1>6, <1>7, ConnectMaps

LEMMA ProcessConnectFailedLife ==
  ASSUME LifeInv, NEW i \in Slots, ProcessConnectFailed(i)  PROVE Lifecycle!Next
<1>1. /\ SlotInv /\ MgrDel(i) /\ sock[i].usStatus = "CONNECTED_FAILED" /\ ev = NoEvent
      /\ ev' = Event("CONNECT_FAILED", sock[i].kHSocket)
  BY DEF ProcessConnectFailed, LifeInv, IInv, Serving, Popping, Return
<1>2. sock[i].iTypeSocket = "CLIENT" /\ StageFor(sock[i]) = "opening"
  BY <1>1, StageFacts DEF SlotInv, SendListStates
<1>3. /\ Conns' = [Conns EXCEPT ![i] = [stage |-> "free", out |-> FALSE, h |-> NoHandle]]
      /\ Conns[i] = ConnFor(sock[i])
  BY <1>1, DelLife
<1>4. /\ ConnFor(sock[i]).stage = StageFor(sock[i]) /\ ConnFor(sock[i]).h = sock[i].kHSocket
      /\ ConnFor(sock[i]).out = (sock[i].iTypeSocket = "CLIENT")
  BY DEF ConnFor
<1>5. Conns[i].stage = "opening" /\ Conns[i].out /\ Conns[i].h = sock[i].kHSocket
  BY <1>2, <1>3, <1>4
<1>. QED  BY <1>1, <1>3, <1>5, ConnectFailedMaps

LEMMA ProcessDisconnectLife ==
  ASSUME LifeInv, NEW i \in Slots, ProcessDisconnect(i)  PROVE Lifecycle!Next
<1> DEFINE s == [sock[i] EXCEPT !.usStatus = "COMM_IDLE"]
<1>1. /\ SlotInv /\ sock[i].usStatus = "DISCONNECT" /\ ev = NoEvent
      /\ sock' = [sock EXCEPT ![i] = s] /\ sock[i] \in SlotRecord
      /\ ev' = Event("DISCONNECT", sock[i].kHSocket)
  BY DEF ProcessDisconnect, LifeInv, IInv, SlotInv, TableOK, MgrTypeOK, Serving, Popping, Return
<1>2. /\ s.usStatus = "COMM_IDLE" /\ s.iTypeSocket = sock[i].iTypeSocket
      /\ s.kHSocket = sock[i].kHSocket
  BY <1>1 DEF SlotRecord
<1> HIDE DEF s
<1>3. StageFor(s) = "closed" /\ StageFor(sock[i]) = "closing"
  BY <1>1, <1>2, StageFacts
<1>4. /\ Conns' = [Conns EXCEPT ![i].stage = StageFor(s)]
      /\ Conns[i].stage = StageFor(sock[i]) /\ Conns[i].h = sock[i].kHSocket
  <2>1. SlotInv /\ sock' = [sock EXCEPT ![i] = s]
    BY <1>1
  <2>. QED  BY <2>1, <1>2, StageChange
<1>5. Conns' = [Conns EXCEPT ![i].stage = "closed"] /\ Conns[i].stage = "closing"
  BY <1>3, <1>4
<1>. QED  BY <1>1, <1>4, <1>5, DisconnectedMaps

LEMMA ProcessCommIdleLife ==
  ASSUME LifeInv, NEW i \in Slots, ProcessCommIdle(i)  PROVE Lifecycle!Next
<1>1. /\ SlotInv /\ MgrDel(i) /\ sock[i].usStatus = "COMM_IDLE" /\ ev = NoEvent
      /\ UNCHANGED ev
  BY DEF ProcessCommIdle, LifeInv, IInv, Serving, Popping, ctlVars
<1>2. /\ Conns' = [Conns EXCEPT ![i] = [stage |-> "free", out |-> FALSE, h |-> NoHandle]]
      /\ Conns[i] = ConnFor(sock[i])
  BY <1>1, DelLife
<1>3. ConnFor(sock[i]).stage = StageFor(sock[i]) /\ StageFor(sock[i]) = "closed"
  BY <1>1, StageFacts DEF ConnFor
<1>4. Conns[i].stage = "closed"
  BY <1>2, <1>3
<1>. QED  BY <1>1, <1>2, <1>4, ReleaseMaps

LEMMA ProcessSendLife ==
  ASSUME LifeInv, NEW i \in Slots, ProcessSend(i)  PROVE Implemented
<1> DEFINE fd == sock[i].kSocket
           e  == reg[fd].interest
           r  == SendBuf(sock[i], kern[fd], e)
<1>1. Popping(i, "ACTIVECONNECT") /\ SlotInv /\ UNCHANGED ev
  BY DEF ProcessSend, LifeInv, IInv, ctlVars
<1>2. sock[i] \in SlotRecord /\ sock[i].usStatus = "ACTIVECONNECT" /\ i \in Members(kSendList)
  BY <1>1, PoppedSlot, TableLists, TailList DEF SlotInv, Popping
<1>3. fd \in Fds /\ kern[fd] \in KernRecord /\ e \in Interests
  BY <1>1, <1>2, ActiveSlot DEF OwnStates
<1>4. r.s \in SlotRecord /\ SameIdentity(sock[i], r.s)
  BY <1>2, <1>3, SendBufOK
<1>5. MayDisconnect(sock[i])
  BY <1>2 DEF LifeInv, RegInv, RegOK, MayDisconnect
<1>6. sock' = [sock EXCEPT ![i] = r.s] \/ Disconnect(i, r.s, Tail(kSendList))
  BY DEF ProcessSend
<1> HIDE DEF r
<1>7. CASE sock' = [sock EXCEPT ![i] = r.s]
  BY <1>1, <1>4, <1>7, SameIdentityLife DEF Implemented
<1>8. CASE Disconnect(i, r.s, Tail(kSendList))
  BY <1>1, <1>4, <1>5, <1>8, DisconnectLife, CloseLife
<1>. QED  BY <1>6, <1>7, <1>8

(* Data is delivered when nothing else is left to report.                  *)
LEMMA ProcessRecvLife ==
  ASSUME LifeInv, NEW i \in Slots, ProcessRecv(i)  PROVE Lifecycle!Next
<1> DEFINE s == [sock[i] EXCEPT !.recv = @ - FrameLen]
<1>1. /\ SlotInv /\ sock[i] \in SlotRecord /\ sock' = [sock EXCEPT ![i] = s]
      /\ kSendList = <<>> /\ sock[i].usStatus = "ACTIVECONNECT" /\ ev = NoEvent
      /\ i \in Members(kRecvList)
  BY TableLists, TailList
     DEF ProcessRecv, Reading, HasFrame, LifeInv, IInv, SlotInv, TableOK, MgrTypeOK, Serving
<1>2. SameIdentity(sock[i], s)
  BY <1>1 DEF SlotRecord, SameIdentity
<1>3. ev' = Event("RECV_DATA", sock[i].kHSocket)
  <2>1. ev' = Event("RECV_DATA", s.kHSocket)
    BY DEF ProcessRecv, Return
  <2> HIDE DEF s
  <2>. QED  BY <1>2, <2>1 DEF SameIdentity
<1> HIDE DEF s
<1>4. IsConnection(sock[i])
  BY <1>1 DEF LifeInv, RecvInv, RecvOK
<1>5. \A j \in Slots : Conns[j] = ConnFor(sock[j])
  BY ConnsAre
<1>6. Conns[i].stage = "open" /\ Conns[i].h = sock[i].kHSocket
  <2>1. StageFor(sock[i]) = "open"
    BY <1>1, <1>4, StageFacts DEF IsConnection
  <2>2. ConnFor(sock[i]).stage = StageFor(sock[i]) /\ ConnFor(sock[i]).h = sock[i].kHSocket
    BY DEF ConnFor
  <2>. QED  BY <1>5, <2>1, <2>2
<1>7. ASSUME NEW j \in Slots
      PROVE  /\ Conns[j].stage \notin {"closing", "closed"}
             /\ Conns[j].stage = "opening" => Conns[j].out
  <2>1. /\ sock[j].usStatus \in {"INIT", "CONNECTING", "ACTIVECONNECT"}
        /\ sock[j].usStatus = "CONNECTING" => sock[j].iTypeSocket = "CLIENT"
    BY <1>1, EmptyList
       DEF SlotInv, NoStrandedSlot, SendListStates, TableOK, MgrTypeOK, SlotRecord, Statuses
  <2>2. /\ StageFor(sock[j]) \notin {"closing", "closed"}
        /\ StageFor(sock[j]) = "opening" => sock[j].usStatus = "CONNECTING"
    BY <2>1, StageFacts
  <2>3. /\ ConnFor(sock[j]).stage = StageFor(sock[j])
        /\ ConnFor(sock[j]).out = (sock[j].iTypeSocket = "CLIENT")
    BY DEF ConnFor
  <2>. QED  BY <1>5, <2>1, <2>2, <2>3
<1>8. Conns' = Conns
  BY <1>1, <1>2, SameIdentityLife
<1>. QED  BY <1>1, <1>3, <1>6, <1>7, <1>8, RecvDataMaps

-----------------------------------------------------------------------------
(* Events and the timer.                                                   *)

LEMMA DispatchConnectingLife ==
  ASSUME LifeInv, NEW i \in Slots, NEW e \in batch, DispatchConnecting(e, i)
  PROVE  Implemented
<1>1. SlotInv /\ sock[i].usStatus = "CONNECTING" /\ sock[i] \in SlotRecord /\ UNCHANGED ev
  BY DEF LifeInv, IInv, SlotInv, TableOK, MgrTypeOK, DispatchConnecting, StayDispatching
<1>2. PICK s : /\ sock' = [sock EXCEPT ![i] = s] /\ s.iTypeSocket = sock[i].iTypeSocket
               /\ s.kHSocket = sock[i].kHSocket
               /\ s.usStatus \in {"CONNECTED", "CONNECTED_FAILED"}
  <2>1. CASE sock' = [sock EXCEPT ![i].usStatus = "CONNECTED", ![i].llTime = clock]
    <3> DEFINE s == [sock[i] EXCEPT !.usStatus = "CONNECTED", !.llTime = clock]
    <3>1. sock' = [sock EXCEPT ![i] = s]
      BY <1>1, <2>1 DEF SlotInv, TableOK, MgrTypeOK
    <3>2. /\ s.iTypeSocket = sock[i].iTypeSocket /\ s.kHSocket = sock[i].kHSocket
          /\ s.usStatus = "CONNECTED"
      BY <1>1 DEF SlotRecord
    <3> HIDE DEF s
    <3>. QED  BY <3>1, <3>2
  <2>2. CASE sock' = [sock EXCEPT ![i].usStatus = "CONNECTED_FAILED"]
    <3> DEFINE s == [sock[i] EXCEPT !.usStatus = "CONNECTED_FAILED"]
    <3>1. sock' = [sock EXCEPT ![i] = s]
      BY <2>2
    <3>2. /\ s.iTypeSocket = sock[i].iTypeSocket /\ s.kHSocket = sock[i].kHSocket
          /\ s.usStatus = "CONNECTED_FAILED"
      BY <1>1 DEF SlotRecord
    <3> HIDE DEF s
    <3>. QED  BY <3>1, <3>2
  <2>. QED  BY <2>1, <2>2 DEF DispatchConnecting
<1>3. StageFor(s) = "opening" /\ StageFor(sock[i]) = "opening"
  BY <1>1, <1>2, StageFacts
<1>4. ConnFor(s) = ConnFor(sock[i])
  BY <1>2, <1>3 DEF ConnFor
<1>5. Conns' = Conns
  BY <1>1, <1>2, <1>4, NoConn
<1>. QED  BY <1>1, <1>5 DEF Implemented

LEMMA DispatchActiveLife ==
  ASSUME LifeInv, NEW i \in Slots, NEW e \in batch, DispatchActive(e, i)
  PROVE  Implemented
<1> DEFINE s  == sock[i]
           fd == s.kSocket
           x  == reg[fd].interest
           in == IF e.rev.bRead /\ ~e.rev.bError THEN RecvBuf(s, kern[fd])
                 ELSE [ok |-> ~e.rev.bError, s |-> s, k |-> kern[fd]]
           w   == AddEvent(in.s, "WRITE")
           out == IF e.rev.bWrite THEN SendBuf(w, in.k, x)
                  ELSE SendResult(TRUE, in.s, in.k, x)
<1>1. /\ SlotInv /\ s \in SlotRecord /\ s.usStatus = "ACTIVECONNECT" /\ IsConnection(s)
      /\ UNCHANGED ev
  BY DEF LifeInv, IInv, SlotInv, TableOK, MgrTypeOK, DispatchActive, StayDispatching
<1>2. kern[fd] \in KernRecord /\ x \in Interests /\ clock \in Nat
  BY <1>1, ActiveSlot, CoreAssumption DEF OwnStates, LifeInv, IInv, CtlTypeOK
<1>3. in.s \in SlotRecord /\ SameIdentity(s, in.s) /\ in.k \in KernRecord
  <2>1. CASE e.rev.bRead /\ ~e.rev.bError
    <3>1. in = RecvBuf(s, kern[fd])
      BY <2>1
    <3> HIDE DEF in
    <3>. QED  BY <1>1, <1>2, <3>1, RecvBufOK
  <2>2. CASE ~(e.rev.bRead /\ ~e.rev.bError)
    BY <1>1, <1>2, <2>2 DEF SameIdentity
  <2>. QED  BY <2>1, <2>2
<1>4. \/ Disconnect(i, in.s, kSendList)
      \/ Disconnect(i, out.s, kSendList)
      \/ sock' = [sock EXCEPT ![i] = out.s]
  BY DEF DispatchActive
<1> HIDE DEF in
<1>5. w \in SlotRecord /\ SameIdentity(s, w)
  BY <1>3 DEF SlotRecord, AddEvent, EventBits, SameIdentity
<1> HIDE DEF w
<1>6. out.s \in SlotRecord /\ SameIdentity(s, out.s)
  <2>1. CASE e.rev.bWrite
    <3>1. out = SendBuf(w, in.k, x)
      BY <2>1
    <3> HIDE DEF out
    <3>. QED  BY <1>2, <1>3, <1>5, <3>1, SendBufOK DEF SameIdentity
  <2>2. CASE ~e.rev.bWrite
    BY <1>3, <2>2 DEF SendResult
  <2>. QED  BY <2>1, <2>2
<1> HIDE DEF out
<1>7. MayDisconnect(s)
  BY <1>1 DEF MayDisconnect
<1>8. Conns' = Conns \/ Lifecycle!Close(i)
  BY <1>1, <1>3, <1>4, <1>6, <1>7, DisconnectLife, SameIdentityLife
<1>. QED  BY <1>1, <1>8, CloseLife

LEMMA DispatchTimerLife == ASSUME LifeInv, DispatchTimer  PROVE Lifecycle!Next
<1> DEFINE i == Head(kActiveMainList)
<1>1. ev = NoEvent /\ ev' = Event("TIMER", NoHandle) /\ SlotInv /\ NetTimeOut
  BY DEF DispatchTimer, Return, LifeInv, IInv, Serving
<1>2. CASE kActiveMainList = <<>> \/ ~Expired(sock[i])
  <2>1. UNCHANGED sock
    BY <1>1, <1>2 DEF NetTimeOut
  <2>. QED  BY <1>1, <2>1, SameSock, TimerMaps
<1>3. CASE kActiveMainList # <<>> /\ Expired(sock[i])
  <2>1. i \in Slots /\ Disconnect(i, sock[i], kSendList)
    BY <1>1, <1>3, TableLists, TailList DEF SlotInv, NetTimeOut
  <2>2. sock[i] \in SlotRecord /\ SameIdentity(sock[i], sock[i]) /\ MayDisconnect(sock[i])
    BY <1>1, <1>3, <2>1 DEF SlotInv, TableOK, MgrTypeOK, SameIdentity, Expired
  <2> HIDE DEF i
  <2>. QED  BY <1>1, <2>1, <2>2, DisconnectLife, TimerMaps
<1>. QED  BY <1>2, <1>3

-----------------------------------------------------------------------------
(* An event is there to be seen only between two calls.                    *)
LEMMA ServingOK == ASSUME Serving, [Next]_vars  PROVE Serving'
<1>1. CASE Program \/ UNCHANGED vars
  BY <1>1 DEF Serving, Program, TCPListen, TCPClientConnected, TCPClientConnecting, OpenFails,
              Send, AppDisconnect, vars, ctlVars
<1>2. ASSUME NEW i \in Slots, Process(i)  PROVE Serving'
  BY <1>2 DEF Serving, Process, ProcessConnected, ProcessConnectFailed, ProcessDisconnect,
              ProcessCommIdle, ProcessSend, ProcessRecv, Return, ctlVars
<1>3. ASSUME NEW i \in Slots, NEW e \in batch, Dispatch(e, i)  PROVE Serving'
  BY <1>3 DEF Serving, Dispatch, DispatchListen, DispatchConnecting, DispatchActive,
              Dispatching, StayDispatching
<1>4. CASE Call \/ ProcessDone \/ EpollWait \/ EpollNothing \/ Accept \/ AcceptFull \/ AcceptEnds
           \/ DispatchTimer \/ DispatchDone
  BY <1>4 DEF Serving, Call, ProcessDone, EpollWait, EpollNothing, Accept, AcceptFull,
              AcceptEnds, Accepting, DispatchTimer, DispatchDone, Return, ctlVars
<1>5. CASE Environment
  BY <1>5 DEF Serving, Environment, ClockTick, TimerExpires, Peer, PeerConnects,
              ConnectCompletes, PeerSends, PeerCloses, PeerResets, PeerDrains, KernelEvent,
              ctlVars
<1>. QED  BY <1>1, <1>2, <1>3, <1>4, <1>5 DEF Next, Read

LEMMA LifeStepOK == LifeInv /\ [Next]_vars => Implemented
<1> SUFFICES ASSUME LifeInv, [Next]_vars  PROVE Implemented
  OBVIOUS
<1>1. CASE Program
  BY <1>1, TCPListenLife, TCPClientConnectedLife, TCPClientConnectingLife, OpenFailsLife,
     SendLife, AppDisconnectLife DEF Program, LifeInv, Implemented
<1>2. ASSUME NEW i \in Slots, Process(i)  PROVE Implemented
  BY <1>2, ProcessConnectedLife, ProcessConnectFailedLife, ProcessDisconnectLife,
     ProcessCommIdleLife, ProcessSendLife, ProcessRecvLife DEF Process, Implemented
<1>3. ASSUME UNCHANGED <<sock, ev>>  PROVE Implemented
  BY <1>3, SameSock DEF Implemented
<1>4. ASSUME NEW i \in Slots, NEW e \in batch, Dispatch(e, i)  PROVE Implemented
  <2>1. CASE DispatchListen(e, i)
    BY <2>1, <1>3 DEF DispatchListen, mgrVars
  <2>. QED  BY <1>4, <2>1, DispatchConnectingLife, DispatchActiveLife DEF Dispatch
<1>5. CASE Call
  <2>1. UNCHANGED sock /\ ev' = NoEvent
    BY <1>5 DEF Call, mgrVars
  <2>. QED  BY <2>1, SameSock, CallMaps DEF Implemented
<1>6. CASE ProcessDone
  <2>1. /\ UNCHANGED sock /\ ev = NoEvent
        /\ UNCHANGED ev \/ ev' = Event("IDLE", NoHandle)
    BY <1>6 DEF ProcessDone, Return, mgrVars, LifeInv, Serving
  <2>. QED  BY <2>1, SameSock, IdleMaps DEF Implemented
<1>7. CASE EpollWait \/ EpollNothing \/ AcceptFull \/ AcceptEnds \/ DispatchDone
           \/ Environment \/ UNCHANGED vars
  <2>1. UNCHANGED <<sock, ev>>
    BY <1>7 DEF EpollWait, EpollNothing, AcceptFull, AcceptEnds, DispatchDone, Environment,
                ClockTick, TimerExpires, Peer, PeerConnects, ConnectCompletes, PeerSends,
                PeerCloses, PeerResets, PeerDrains, KernelEvent, vars, mgrVars, ctlVars
  <2>. QED  BY <1>3, <2>1
<1>. QED
  BY <1>1, <1>2, <1>4, <1>5, <1>6, <1>7, AcceptLife, DispatchTimerLife
     DEF Next, Read, LifeInv, Implemented

LEMMA LifeInitOK == Init => Lifecycle!Init
<1> SUFFICES ASSUME Init  PROVE Lifecycle!Init
  OBVIOUS
<1>1. ASSUME NEW i \in Slots
      PROVE  ConnFor(sock[i]) = [stage |-> "free", out |-> FALSE, h |-> NoHandle]
  <2>1. sock[i].usStatus = "INIT" /\ sock[i].iTypeSocket = "NONE" /\ sock[i].kHSocket = NoHandle
    BY DEF Init, MgrInit
  <2>. QED  BY <2>1, StageFacts DEF ConnFor
<1>2. Conns = [i \in Slots |-> [stage |-> "free", out |-> FALSE, h |-> NoHandle]]
  BY <1>1, ConnsAre
<1>. QED  BY <1>2 DEF Conns, Init, Lifecycle!Init, Lifecycle!Free

(* What SeNetCoreRead promises holds of the core: the events of every      *)
(* connection come in order, once each and under its own handle, whatever  *)
(* the peers do, and whether or not system calls fail.                     *)
THEOREM Implements == Spec => ImplementsLifecycle
<1>1. Init => LifeInv
  BY InitOK, RecvInitOK, RegInitOK DEF LifeInv, Init, Serving
<1>2. LifeInv /\ [Next]_vars => LifeInv'
  BY StepOK, RecvStepOK, RegStepOK, ServingOK DEF LifeInv
<1>3. LifeInv /\ [Next]_vars
        => [Lifecycle!Next]_<<[i \in Slots |-> [stage |-> StageOf(i),
                                                out |-> sock[i].iTypeSocket = "CLIENT",
                                                h |-> sock[i].kHSocket]], ev>>
  BY LifeStepOK DEF Implemented, Conns
<1>. QED  BY <1>1, <1>2, <1>3, LifeInitOK, PTL DEF Spec, ImplementsLifecycle, Lifecycle!Spec

=============================================================================
