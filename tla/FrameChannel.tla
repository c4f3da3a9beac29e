---------------------------- MODULE FrameChannel -----------------------------
(***************************************************************************)
(* What a connection promises its two programs: what one of them passes to *)
(* SeNetCoreSend is what the other gets from SeNetCoreRead, whole frames,  *)
(* in order, each once, however the bytes travel.                          *)
(***************************************************************************)
EXTENDS Sequences

CONSTANT Frame        \* the frames that may be sent

VARIABLES queue,      \* frames sent and not yet received
          out         \* the frame received last

Init == queue = <<>> /\ out = <<>>

Put == \E f \in Frame : queue' = Append(queue, f) /\ UNCHANGED out

Get == queue # <<>> /\ out' = Head(queue) /\ queue' = Tail(queue)

Spec == Init /\ [][Put \/ Get]_<<queue, out>>

=============================================================================
