----------------------------- MODULE FrameQueue -----------------------------
(***************************************************************************)
(* What a frame ring promises its two users: a bounded first-in first-out  *)
(* queue of frames.  Frames are numbered in the order the producer hands   *)
(* them over, so a lost, repeated, reordered or torn frame shows as a wrong*)
(* number.  A batch enters whole and leaves whole.                         *)
(***************************************************************************)
EXTENDS Naturals, Sequences

CONSTANT Capacity

VARIABLES
  queue,          \* the frames handed over and not yet taken
  sent,           \* number of frames ever handed over
  out             \* the last batch a read or a peek returned

Init == queue = <<>> /\ sent = 0 /\ out = <<>>

\* n more frames, never more than fit.
Put(n) ==
  /\ Len(queue) + n <= Capacity
  /\ queue' = queue \o [i \in 1..n |-> sent + i - 1]
  /\ sent' = sent + n
  /\ UNCHANGED out

\* The n oldest frames are returned and leave the queue.
Take(n) ==
  /\ n <= Len(queue)
  /\ out' = SubSeq(queue, 1, n)
  /\ queue' = SubSeq(queue, n + 1, Len(queue))
  /\ UNCHANGED sent

\* The n oldest frames are returned and stay.
Look(n) ==
  /\ n <= Len(queue)
  /\ out' = SubSeq(queue, 1, n)
  /\ UNCHANGED <<queue, sent>>

\* The n oldest frames are thrown away.
Drop(n) ==
  /\ n <= Len(queue)
  /\ queue' = SubSeq(queue, n + 1, Len(queue))
  /\ UNCHANGED <<sent, out>>

Clear == queue' = <<>> /\ UNCHANGED <<sent, out>>

Next == Clear \/ \E n \in 1..Capacity : Put(n) \/ Take(n) \/ Look(n) \/ Drop(n)

Spec == Init /\ [][Next]_<<queue, sent, out>>
=============================================================================
