----------------------------- MODULE LossyQueue -----------------------------
(***************************************************************************)
(* What the serial input buffer promises: a queue of at most Size bytes    *)
(* that never blocks its producer; a byte too many pushes out the oldest.  *)
(***************************************************************************)
EXTENDS Naturals, Sequences

CONSTANTS Size, Bytes
VARIABLE queue

LQInit == queue = <<>>

Enqueue(b) == queue' = Append(IF Len(queue) = Size THEN Tail(queue) ELSE queue, b)
Dequeue == queue # <<>> /\ queue' = Tail(queue)

LQNext == Dequeue \/ \E b \in Bytes : Enqueue(b)
LQSpec == LQInit /\ [][LQNext]_queue
=============================================================================
