----------------------------- MODULE FrameQueue -----------------------------
(***************************************************************************)
(* What the transmit path promises the receiver: bytes leave in the order  *)
(* they were queued, and they are queued a whole frame at a time.          *)
(***************************************************************************)
EXTENDS Sequences

CONSTANT Frames   \* the byte sequences that are frames

VARIABLE queue

Init == queue = << >>

Put(f) == queue' = queue \o f

Take == queue # << >> /\ queue' = Tail(queue)

Next == (\E f \in Frames : Put(f)) \/ Take

Spec == Init /\ [][Next]_queue
=============================================================================
