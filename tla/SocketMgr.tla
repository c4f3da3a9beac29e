------------------------------ MODULE SocketMgr ------------------------------
(***************************************************************************)
(* The socket manager of src/netbase/SeNetSocket.c: a fixed array of       *)
(* slots (struct SESOCKET) and the four hash lists that thread them.       *)
(*                                                                         *)
(*   kMainList        free slots, taken at the head, returned at the tail  *)
(*   kActiveMainList  CLIENT and ACCEPT slots, swept by the timer          *)
(*   kSendList        slots that SeNetCoreProcess must visit               *)
(*   kRecvList        slots believed to hold a complete frame              *)
(*                                                                         *)
(* A hash list (SeHash.c) is an insertion-ordered doubly linked list with  *)
(* lookup by slot index; it is modelled as a sequence of slot indices.     *)
(* The functions of SeNetSocket.c are always called from the middle of a   *)
(* larger handler, so each is an operator on the value it changes, and     *)
(* NetCore builds its actions from them.                                   *)
(***************************************************************************)
EXTENDS Integers, Sequences, SequencesExt, FiniteSets

CONSTANTS MaxSlots,    \* usMax of SeNetCoreInit: the size of pkSeSocket
          MaxFds       \* file descriptors the kernel can hand out

ASSUME SizeAssumption == MaxSlots \in Nat \ {0} /\ MaxFds \in Nat \ {0}

Slots == 0 .. MaxSlots - 1
Fds   == 1 .. MaxFds
NoFd  == 0                       \* kSocketFd.kSocket of a reset slot

Statuses == {"INIT", "CONNECTING", "CONNECTED", "CONNECTED_FAILED",
             "DISCONNECT", "COMM_IDLE", "ACTIVECONNECT"}
Types    == {"NONE", "LISTEN", "CLIENT", "ACCEPT"}

(* WRITE: the last send was not refused (WRITE_EVENT_SOCKET).              *)
(* FLAG:  EPOLLOUT is part of the epoll interest (WRITE_EVENT_FLAG).       *)
(* On Windows WRITE and READ (READ_EVENT_SOCKET) say that a send, and a    *)
(* receive, is outstanding.                                                *)
EventBits == {"WRITE", "FLAG", "READ"}

(* SeGetHSocket packs the slot index and the tick of the clock at which    *)
(* the slot was taken.  Handle 0 decodes to index 0 and equals the handle  *)
(* of no slot in use.                                                      *)
Handle(i, tick) == <<i, tick>>
IndexOf(h)      == h[1]
NoHandle        == <<0, -1>>
Handles         == (Slots \X Nat) \cup {NoHandle}

(* The fields of SESOCKET that control depends on.  `send` and `recv` are  *)
(* the lengths of kSendNetStream and kRecvNetStream.                       *)
SlotRecord == [usStatus     : Statuses,
               iTypeSocket  : Types,
               kHSocket     : Handles,
               kSocket      : Fds \cup {NoFd},
               iEventSocket : SUBSET EventBits,
               llTime       : Nat,
               send         : Nat,
               recv         : Nat]

VARIABLES sock,              \* pkSeSocket
          kMainList, kActiveMainList, kSendList, kRecvList

listVars == <<kMainList, kActiveMainList, kSendList, kRecvList>>
mgrVars  == <<sock, listVars>>

-----------------------------------------------------------------------------
(* Hash lists.                                                             *)

Members(l)      == Range(l)
NoDuplicates(l) == IsInjective(l)

(* SeHashRemove: unlink one node, wherever it stands.                      *)
Unlink(l, i) ==
  IF i \in Members(l) THEN RemoveAt(l, CHOOSE k \in DOMAIN l : l[k] = i) ELSE l

(* SeHashMoveToEnd.                                                        *)
MoveToEnd(l, i) == Append(Unlink(l, i), i)

(* SeNetSocketMgrAddSendOrRecvInList: a slot is linked at most once.       *)
AddInList(l, i) == IF i \in Members(l) THEN l ELSE Append(l, i)

-----------------------------------------------------------------------------
(* One slot.                                                               *)

(* SeNetSocketReset: everything but the two streams, which only            *)
(* SeNetSocketMgrEnd empties.                                              *)
Reset(s) == [s EXCEPT !.usStatus = "INIT", !.iTypeSocket = "NONE",
                      !.kHSocket = NoHandle, !.kSocket = NoFd,
                      !.iEventSocket = {}, !.llTime = 0]

(* SeNetSocketMgrEnd: both streams go back to the idle pool.               *)
EndKeepsRecv(s) == [s EXCEPT !.send = 0]                          \* mutant
MgrEnd(s)       == [s EXCEPT !.send = 0, !.recv = 0]

HasEvent(s, e)   == e \in s.iEventSocket
AddEvent(s, e)   == [s EXCEPT !.iEventSocket = @ \cup {e}]
ClearEvent(s, e) == [s EXCEPT !.iEventSocket = @ \ {e}]

IsConnection(s) == s.iTypeSocket \in {"CLIENT", "ACCEPT"}

(* The slot SeNetSocketMgrAdd prepares at time `tick`.                     *)
NewSlot(i, fd, type, tick) ==
  [Reset(sock[i]) EXCEPT !.kSocket = fd, !.kHSocket = Handle(i, tick),
                         !.iTypeSocket = type, !.llTime = tick]

-----------------------------------------------------------------------------
(* The table.                                                              *)

MgrInit ==
  /\ sock = [i \in Slots |-> [usStatus |-> "INIT", iTypeSocket |-> "NONE",
                              kHSocket |-> NoHandle, kSocket |-> NoFd,
                              iEventSocket |-> {}, llTime |-> 0,
                              send |-> 0, recv |-> 0]]
  /\ kMainList = [k \in 1 .. MaxSlots |-> k - 1]
  /\ kActiveMainList = <<>>
  /\ kSendList = <<>>
  /\ kRecvList = <<>>

(* SeNetSocketMgrGet succeeds: the slot is not free and holds this handle. *)
Found(h) == IndexOf(h) \notin Members(kMainList) /\ sock[IndexOf(h)].kHSocket = h

(* SeNetSocketMgrAdd finds the manager full.                               *)
MgrFull == kMainList = <<>>

(* The slot SeNetSocketMgrAdd takes when it is not full.                   *)
FreeSlot == Head(kMainList)

(* SeNetSocketMgrAdd, whose caller leaves the slot as `s`.                 *)
MgrAdd(i, s) ==
  /\ ~MgrFull /\ i = FreeSlot
  /\ kMainList' = Tail(kMainList)
  /\ kActiveMainList' = IF IsConnection(s) THEN Append(kActiveMainList, i)
                                           ELSE kActiveMainList
  /\ sock' = [sock EXCEPT ![i] = s]

(* SeNetSocketMgrAdd followed, in the same call, by SeNetSocketMgrDel of   *)
(* the slot just taken: the slot goes from the head of the free list to    *)
(* its tail.                                                               *)
MgrAddThenDel ==
  /\ ~MgrFull
  /\ kMainList' = MoveToEnd(kMainList, FreeSlot)
  /\ sock' = [sock EXCEPT ![FreeSlot] = MgrEnd(Reset(@))]
  /\ UNCHANGED <<kActiveMainList, kSendList, kRecvList>>

(* SeNetSocketMgrDel.  Both callers have popped the slot from kSendList    *)
(* first; since no slot is linked twice, that pop and the removal here are *)
(* the same unlinking.                                                     *)
MgrDelKeepsActive(i) ==                                           \* mutant
  /\ sock' = [sock EXCEPT ![i] = MgrEnd(Reset(@))]
  /\ kSendList' = Unlink(kSendList, i)
  /\ kRecvList' = Unlink(kRecvList, i)
  /\ kMainList' = Append(kMainList, i)
  /\ UNCHANGED kActiveMainList
MgrDel(i) ==
  /\ sock' = [sock EXCEPT ![i] = MgrEnd(Reset(@))]
  /\ kSendList' = Unlink(kSendList, i)
  /\ kRecvList' = Unlink(kRecvList, i)
  /\ kActiveMainList' = Unlink(kActiveMainList, i)
  /\ kMainList' = Append(kMainList, i)

-----------------------------------------------------------------------------
(* What the table promises its callers.                                    *)

MgrTypeOK ==
  /\ sock \in [Slots -> SlotRecord]
  /\ kMainList \in Seq(Slots)
  /\ kActiveMainList \in Seq(Slots)
  /\ kSendList \in Seq(Slots)
  /\ kRecvList \in Seq(Slots)

(* No list links a slot twice: a hash list has one node per slot and list. *)
ListsSimple ==
  /\ NoDuplicates(kMainList) /\ NoDuplicates(kActiveMainList)
  /\ NoDuplicates(kSendList) /\ NoDuplicates(kRecvList)

(* kMainList and kActiveMainList share kMainNode of the slot, so a slot is *)
(* in exactly one of them, or in none when it is a listener; the free list *)
(* holds exactly the unused slots and no other list points at one.         *)
SlotPartition ==
  /\ ListsSimple
  /\ \A i \in Slots : i \in Members(kMainList) <=> sock[i].usStatus = "INIT"
  /\ \A i \in Slots : i \in Members(kActiveMainList) <=> IsConnection(sock[i])
  /\ \A i \in Members(kMainList) :
       /\ sock[i].iTypeSocket = "NONE" /\ sock[i].kHSocket = NoHandle
       /\ i \notin Members(kSendList) /\ i \notin Members(kRecvList)

(* A slot is handed out with empty streams: no byte of the connection that *)
(* used it before can be sent to, or read as coming from, the next one.    *)
FreeSlotsDrained == \A i \in Members(kMainList) : sock[i].send = 0 /\ sock[i].recv = 0

=============================================================================
