------------------------------ MODULE FramePipe ------------------------------
(***************************************************************************)
(* The bytes of one direction of a connection, from the program that calls *)
(* SeNetCoreSend to the one that SeNetCoreRead gives the frames: the send  *)
(* stream of one end, the kernels and the network between them, and the    *)
(* receive stream of the other end.  Each end has the idle pool of its own *)
(* manager.  A send() and a recv() move any number of bytes the kernel     *)
(* pleases, so frames and headers are cut anywhere.                        *)
(***************************************************************************)
EXTENDS NetStream

CONSTANTS WireMax,    \* bound: bytes in the kernels and the network
          MaxFlight   \* bound: bytes under way when another frame is sent

ASSUME PipeAssumption == WireMax \in Nat \ {0} /\ MaxFlight \in Nat

VARIABLES tx, txPool,   \* kSendNetStream and kNetStreamIdle of the sender
          wire,
          rx, rxPool,   \* kRecvNetStream and kNetStreamIdle of the receiver
          up,           \* neither end has closed the connection
          out           \* what the last SeNetCoreRead gave the program

vars == <<tx, txPool, wire, rx, rxPool, up, out>>

(* The contents a program sends: frames of different lengths differ in     *)
(* their first byte too.                                                   *)
Payload(len) == [k \in 1 .. len |-> (k + len) % Base]

InFlight == Contents(rx) \o wire \o Contents(tx)

(* The frames a sequence of bytes holds.                                   *)
Frames[bytes \in Seq(Byte)] ==
  IF Len(bytes) < HeaderLen THEN <<>>
  ELSE LET len == GetHeader(SubSeq(bytes, 1, HeaderLen)) IN
       IF Len(bytes) < HeaderLen + len THEN <<>>
       ELSE <<SubSeq(bytes, HeaderLen + 1, HeaderLen + len)>> \o Frames[From(bytes, HeaderLen + len)]

-----------------------------------------------------------------------------
Init == /\ tx = NewStream /\ rx = NewStream /\ txPool = 0 /\ rxPool = 0
        /\ wire = <<>> /\ up = TRUE /\ out = <<>>

(* SeNetCoreSend and SeNetCoreSendExtend of these buffers: the pool is     *)
(* topped up, a length the header cannot hold is refused, and a write that *)
(* fails half way closes the connection.                                   *)
SendBufs(bufs, len) ==
  LET pool == UpdateIdle(txPool, len)
      r    == WriteFrame(tx, pool, bufs, len)
  IN
  /\ up /\ tx.llSize + Len(wire) + rx.llSize <= MaxFlight
  /\ IF Sendable(len)
       THEN tx' = r.s /\ txPool' = r.pool /\ up' = r.ok
       ELSE txPool' = pool /\ UNCHANGED <<tx, up>>
  /\ UNCHANGED <<wire, rx, rxPool, out>>

Send == \E len \in 0 .. MaxFrame + 1 : SendBufs(<<Payload(len)>>, len)

(* The caller of SeNetCoreSendExtend cuts the contents in two.             *)
SendExtend ==
  \E len \in 0 .. MaxFrame + 1 : \E cut \in 0 .. len :
    SendBufs(<<SubSeq(Payload(len), 1, cut), From(Payload(len), cut)>>, len)

(* One round of the loop of SeNetCoreSendBuf: the kernel takes a part of   *)
(* the first node.                                                         *)
SendNode ==
  /\ up /\ tx.nodes # <<>>
  /\ \E n \in 1 .. Lesser(Left(Head(tx.nodes)), WireMax - Len(wire)) :
       LET r == Taken(tx, txPool, n) IN
       tx' = r.s /\ txPool' = r.pool /\ wire' = wire \o r.bytes
  /\ UNCHANGED <<rx, rxPool, up, out>>

(* One round of the loop of SeNetCoreRecvBuf: recv() into the room of the  *)
(* last node, or of one from the pool, without which the connection is     *)
(* closed.                                                                 *)
RecvNode ==
  LET pool == UpdateIdle(rxPool, 0)
      w    == Writable(rx, pool)
  IN
  /\ up /\ wire # <<>>
  /\ IF w.ok
       THEN \E n \in 1 .. Lesser(Room(w.node), Len(wire)) :
              /\ rx' = Filled(w, SubSeq(wire, 1, n)) /\ rxPool' = w.pool
              /\ wire' = From(wire, n) /\ UNCHANGED up
       ELSE up' = FALSE /\ rxPool' = pool /\ UNCHANGED <<wire, rx>>
  /\ UNCHANGED <<tx, txPool, out>>

(* SeNetCoreProcess gives a frame to the program; one it cannot read after *)
(* all closes the connection.                                              *)
Read ==
  /\ up /\ CanRead(rx)
  /\ LET r == ReadFrame(rx, rxPool) IN
     rx' = r.s /\ rxPool' = r.pool /\ up' = r.ok /\ out' = IF r.ok THEN r.bytes ELSE out
  /\ UNCHANGED <<tx, txPool, wire>>

Next == Send \/ SendExtend \/ SendNode \/ RecvNode \/ Read

Spec == Init /\ [][Next]_vars

(* The loops run while they can: the sender's kernel takes bytes as soon   *)
(* as it has room, and the receiver is called until it has read them all.  *)
FairSpec == Spec /\ WF_vars(SendNode) /\ WF_vars(RecvNode) /\ WF_vars(Read)

-----------------------------------------------------------------------------
(* Correctness.                                                            *)

(* Types: what the assertions of SeNetStream.c say of every node of both   *)
(* streams holds, and no pool is below 0.                                  *)
TypeOK ==
  /\ PositionsSound(tx) /\ PositionsSound(rx)
  /\ txPool \in Nat /\ rxPool \in Nat /\ wire \in Seq(Byte) /\ up \in BOOLEAN

(* However reads, writes, send() and recv() of both ends cut the nodes, no *)
(* stream holds an empty node, there is no hole between two nodes, and the *)
(* count CanRead trusts is the number of bytes there.                      *)
StreamsSound == \A s \in {tx, rx} : NodesSound(s) /\ SizeExact(s)

(* Nothing closes the connection: the pool topped up before a write is     *)
(* enough for all of it, header and rest of the last node included, so no  *)
(* frame is ever half written; and a frame CanRead has seen can be read.   *)
StaysUp == up

(* The pipe is a channel of frames: the program on one end gets from       *)
(* SeNetCoreRead what the one on the other end passed to SeNetCoreSend.    *)
Channel == INSTANCE FrameChannel WITH
  Frame <- {Payload(len) : len \in 0 .. MaxFrame},
  queue <- Frames[InFlight]

ImplementsChannel == Channel!Spec

(* Frames under way arrive: again and again either all of them have, or    *)
(* one more does.                                                          *)
FramesArrive == []<>(Frames[InFlight] = <<>>) \/ []<><<Read>>_vars

=============================================================================
