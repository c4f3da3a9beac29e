------------------------------ MODULE NetStream ------------------------------
(***************************************************************************)
(* The byte streams of src/netbase/SeNetStream.c: a stream is a list of    *)
(* fixed-size buffers ("nodes"); writing fills the last one and takes more *)
(* from the idle pool of the manager, reading empties the first ones and   *)
(* gives them back.  A frame is a header of HeaderLen bytes that holds its *)
(* length, big endian, and then its bytes.                                 *)
(*                                                                         *)
(* The loops of SeNetStream.c are recursive functions here, of the tuple   *)
(* of the variables a round changes.  A pool is the number of nodes in it: *)
(* a node is emptied when it is taken out.                                 *)
(***************************************************************************)
EXTENDS Integers, Sequences, SequencesExt

CONSTANTS Cap,        \* usMaxLen: bytes a node holds
          Overhead,   \* sizeof(struct SENETSTREAMNODE): MAX_BUF_LEN - Cap
          HeaderLen,  \* iHeaderLen: 2 or 4 bytes in the code
          Base,       \* values of a byte: 256 in the code
          MaxFrame    \* largest length SetHeader accepts: 0xFFFF, or 3MB

(* What a digit of the header counts, with k digits behind it.             *)
Weight[k \in Nat] == IF k = 0 THEN 1 ELSE Base * Weight[k - 1]

ASSUME StreamAssumption ==
  /\ {Cap, HeaderLen, Base, MaxFrame, Overhead} \subseteq Nat
  /\ HeaderLen > 0 /\ Cap > HeaderLen
  /\ Base > 1 /\ MaxFrame < Weight[HeaderLen]

Byte == 0 .. Base - 1

Lesser(a, b) == IF a < b THEN a ELSE b
From(l, n)   == SubSeq(l, n + 1, Len(l))

-----------------------------------------------------------------------------
(* Nodes and streams.  usWritePos is Len(buf).                             *)

Node      == [buf : Seq(Byte), usReadPos : Nat]
FreshNode == [buf |-> <<>>, usReadPos |-> 0]
Left(n)   == Len(n.buf) - n.usReadPos
Room(n)   == Cap - Len(n.buf)

Stream    == [nodes : Seq(Node), llSize : Int]
NewStream == [nodes |-> <<>>, llSize |-> 0]

HeadPop(s)    == [nodes |-> Tail(s.nodes), llSize |-> s.llSize - Left(Head(s.nodes))]
HeadAdd(s, n) == [nodes |-> <<n>> \o s.nodes, llSize |-> s.llSize + Left(n)]
TailPop(s)    == [nodes |-> Front(s.nodes), llSize |-> s.llSize - Left(Last(s.nodes))]
TailAdd(s, n) == [nodes |-> Append(s.nodes, n), llSize |-> s.llSize + Left(n)]

(* The bytes still to be read, in order.                                   *)
Unread[nodes \in Seq(Node)] ==
  IF nodes = <<>> THEN <<>>
  ELSE From(Head(nodes).buf, Head(nodes).usReadPos) \o Unread[Tail(nodes)]
Contents(s) == Unread[s.nodes]

-----------------------------------------------------------------------------
(* SeNetSocketMgrUpdateNetStreamIdle: nodes are allocated before a write,  *)
(* of this length, or before a read, when it is 0.                         *)
NodesForData(len) == (len + (Cap - 1)) \div Cap                   \* mutant
NodesFor(len) ==
  LET iBufLen == IF len <= 0 THEN Cap + Overhead ELSE len
      iNode   == Cap - HeaderLen
  IN ((iBufLen + (iNode - 1)) \div iNode) * 2

UpdateIdle(pool, len) == IF pool >= NodesFor(len) THEN pool ELSE pool + NodesFor(len)

-----------------------------------------------------------------------------
(* What a call returns: whether it succeeded, the stream and the pool it   *)
(* left, and the bytes it read.                                            *)
Result(ok, s, pool, bytes) == [ok |-> ok, s |-> s, pool |-> pool, bytes |-> bytes]

(* The node a write fills next: the last one while it has room, else one   *)
(* from the pool.  `rest` is the stream without it.                        *)
Writable(s, pool) ==
  IF s.nodes # <<>> /\ Room(Last(s.nodes)) > 0
    THEN [ok |-> TRUE, node |-> Last(s.nodes), rest |-> TailPop(s), pool |-> pool]
    ELSE [ok |-> pool > 0, node |-> FreshNode, rest |-> s, pool |-> pool - 1]

(* Bytes appended to the node a write fills next.                          *)
Filled(w, bytes) == TailAdd(w.rest, [w.node EXCEPT !.buf = @ \o bytes])

(* SeNetSreamWriteLen.  When the pool runs out, what was written stays.    *)
WriteLen[c \in Stream \X Nat \X Seq(Byte)] ==
  LET s     == c[1]
      pool  == c[2]
      bytes == c[3]
      w     == Writable(s, pool)
      n     == Lesser(Room(w.node), Len(bytes))
  IN IF bytes = <<>> THEN Result(TRUE, s, pool, <<>>)
     ELSE IF ~w.ok   THEN Result(FALSE, s, pool, <<>>)
     ELSE WriteLen[<<Filled(w, SubSeq(bytes, 1, n)), w.pool, From(bytes, n)>>]

(* The first node, after its first n bytes were read or sent: given back   *)
(* when that was all of it, else it stays at the head.                     *)
TakenKeepsNode(s, pool, n) ==                                     \* mutant
  LET node == Head(s.nodes) IN
  Result(TRUE, HeadAdd(HeadPop(s), [node EXCEPT !.usReadPos = @ + n]), pool,
         SubSeq(node.buf, node.usReadPos + 1, node.usReadPos + n))
Taken(s, pool, n) ==
  LET node  == Head(s.nodes)
      bytes == SubSeq(node.buf, node.usReadPos + 1, node.usReadPos + n)
  IN IF n = Left(node)
       THEN Result(TRUE, HeadPop(s), pool + 1, bytes)
       ELSE Result(TRUE, HeadAdd(HeadPop(s), [node EXCEPT !.usReadPos = @ + n]), pool, bytes)

(* SeNetSreamReadLen.  The loop, with n bytes still to be read.            *)
ReadNodes[c \in Stream \X Nat \X Nat \X Seq(Byte)] ==
  LET s    == c[1]
      pool == c[2]
      n    == c[3]
      got  == c[4]
      r    == Taken(s, pool, Lesser(n, Left(Head(s.nodes))))
  IN IF n = 0 THEN Result(TRUE, s, pool, got)
     ELSE IF s.nodes = <<>> THEN Result(FALSE, s, pool, got)
     ELSE ReadNodes[<<r.s, r.pool, n - Len(r.bytes), got \o r.bytes>>]

ReadLen(s, pool, n) ==
  IF s.llSize < n THEN Result(FALSE, s, pool, <<>>) ELSE ReadNodes[<<s, pool, n, <<>>>>]

-----------------------------------------------------------------------------
(* Frames.                                                                 *)

(* SeNetSreamSetHeader: the length as HeaderLen digits, the highest first. *)
SetHeader(len) == [k \in 1 .. HeaderLen |-> (len \div Weight[HeaderLen - k]) % Base]
Sendable(len)  == len <= MaxFrame

(* SeNetSreamGetHeader; it accepts the lengths SetHeader accepts.          *)
Digits[h \in Seq(Byte)] == IF h = <<>> THEN 0 ELSE Base * Digits[Front(h)] + Last(h)
GetHeader(h) == Digits[h]

(* SeNetSreamWrite and SeNetSreamWriteExtend: the header, then each buffer *)
(* of the list, until one of the writes fails.                             *)
WriteAll[c \in Stream \X Nat \X Seq(Seq(Byte))] ==
  LET bufs == c[3]
      r    == WriteLen[<<c[1], c[2], Head(bufs)>>]
  IN IF bufs = <<>> THEN Result(TRUE, c[1], c[2], <<>>)
     ELSE IF r.ok   THEN WriteAll[<<r.s, r.pool, Tail(bufs)>>]
     ELSE r

WriteFrame(s, pool, bufs, len) == WriteAll[<<s, pool, <<SetHeader(len)>> \o bufs>>]

(* SeNetSreamCanRead looks at the header without taking it.                *)
CanReadHeaderOnly(s) == s.llSize >= HeaderLen                     \* mutant
CanReadPast(s) ==                                                 \* mutant
  /\ s.llSize >= HeaderLen
  /\ s.llSize > HeaderLen + GetHeader(SubSeq(Contents(s), 1, HeaderLen))
CanRead(s) ==
  /\ s.llSize >= HeaderLen
  /\ LET len == GetHeader(SubSeq(Contents(s), 1, HeaderLen)) IN
     Sendable(len) /\ s.llSize >= HeaderLen + len

(* SeNetSreamRead.                                                         *)
ReadFrame(s, pool) ==
  LET h   == ReadLen(s, pool, HeaderLen)
      len == GetHeader(h.bytes)
  IN IF ~h.ok \/ ~Sendable(len) THEN Result(FALSE, h.s, h.pool, <<>>)
     ELSE ReadLen(h.s, h.pool, len)

-----------------------------------------------------------------------------
(* What every stream is, between two calls.                                *)

(* The positions stay within the node, as the assertions of                *)
(* SeNetSreamWriteLen and SeNetSreamReadLen say.                           *)
PositionsSound(s) ==
  /\ s \in Stream
  /\ \A k \in DOMAIN s.nodes : Left(s.nodes[k]) >= 0 /\ Len(s.nodes[k].buf) <= Cap

(* No node of a stream is empty: send() of nothing would be taken for a    *)
(* closed connection.  Only the first node is partly read and only the     *)
(* last one partly filled.                                                 *)
NodesSound(s) ==
  \A k \in DOMAIN s.nodes :
    /\ Left(s.nodes[k]) > 0
    /\ k > 1 => s.nodes[k].usReadPos = 0
    /\ k < Len(s.nodes) => Room(s.nodes[k]) = 0

(* llSize, kept up to date node by node, is the number of bytes to read.   *)
SizeExact(s) == s.llSize = Len(Contents(s))

=============================================================================
