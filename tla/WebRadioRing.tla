----------------------------- MODULE WebRadioRing -----------------------------
(***************************************************************************)
(* The ring of samples inside the worklet of the radio page                *)
(* (web/soluna-worklet.js).  Messages fill it, skip it, reset it and move  *)
(* its target; process() empties it a little faster or slower than real    *)
(* time to steer towards the target.  The worklet handles one message or   *)
(* one block at a time.                                                    *)
(***************************************************************************)
EXTENDS Integers

CONSTANTS RingCap,      \* samples of the ring
          RingChunks,   \* lengths of messages, at most a tenth of the ring
          RingBlock,    \* samples process() is asked for, 128 in a browser
          RingSlack,    \* samples a block gains or loses at most: 2% of it, rounded up
          RingPrefill,  \* samples before playback begins
          RingTargets   \* targets the page sets

ASSUME RadioRingAssumption ==
    /\ RingCap \in Nat \ {0} /\ RingBlock \in Nat \ {0} /\ RingPrefill \in Nat
    /\ RingSlack \in 0 .. RingBlock
    /\ RingTargets \subseteq Nat
    /\ RingChunks \subseteq {n \in Nat : 10 * n <= RingCap}

VARIABLES rgW, rgR, rgBuffered, rgPrefilled, rgTarget

rgVars == <<rgW, rgR, rgBuffered, rgPrefilled, rgTarget>>

AtMostOf(a, b) == IF a <= b THEN a ELSE b

RgInit ==
    /\ rgW = 0 /\ rgR = 0 /\ rgBuffered = 0 /\ rgPrefilled = FALSE /\ rgTarget = RingPrefill

\* A message of samples, mono or stereo: dropped whole above nine tenths.
RingPush(n) ==
    /\ 10 * rgBuffered <= 9 * RingCap
    /\ rgW' = (rgW + n) % RingCap /\ rgBuffered' = rgBuffered + n
    /\ rgPrefilled' = (rgPrefilled \/ rgBuffered' >= RingPrefill)
    /\ UNCHANGED <<rgR, rgTarget>>

\* Mutant: the read position survives a reset.
RingResetHalf ==
    /\ rgW' = 0 /\ rgBuffered' = 0 /\ rgPrefilled' = FALSE
    /\ UNCHANGED <<rgR, rgTarget>>

RingReset ==
    /\ rgW' = 0 /\ rgR' = 0 /\ rgBuffered' = 0 /\ rgPrefilled' = FALSE
    /\ UNCHANGED rgTarget

\* Mutant: more is skipped than there is.
RingSkipUnclamped(n) ==
    /\ rgR' = (rgR + n) % RingCap /\ rgBuffered' = rgBuffered - n
    /\ UNCHANGED <<rgW, rgPrefilled, rgTarget>>

RingSkip(n) ==
    LET skip == AtMostOf(n, rgBuffered)
    IN  /\ rgR' = (rgR + skip) % RingCap /\ rgBuffered' = rgBuffered - skip
        /\ UNCHANGED <<rgW, rgPrefilled, rgTarget>>

RingTarget(t) ==
    rgTarget' = t /\ UNCHANGED <<rgW, rgR, rgBuffered, rgPrefilled>>

\* process(): a block, and as many samples more or less as the rate (decided
\* once, from the distance to the target) and the fractional position come to;
\* it ends where the samples do.
RingProcess ==
    /\ rgPrefilled
    /\ \E slack \in -RingSlack .. RingSlack :
          /\ slack > 0 => rgBuffered > rgTarget
          /\ slack < 0 => rgBuffered < rgTarget
          /\ LET advance == AtMostOf(RingBlock + slack, rgBuffered)
             IN  rgR' = (rgR + advance) % RingCap /\ rgBuffered' = rgBuffered - advance
    /\ UNCHANGED <<rgW, rgPrefilled, rgTarget>>

RgNext ==
    \/ \E n \in RingChunks : RingPush(n) \/ RingSkip(n)
    \/ \E t \in RingTargets : RingTarget(t)
    \/ RingReset \/ RingProcess

RgSpec == RgInit /\ [][RgNext]_rgVars

-----------------------------------------------------------------------------
RgTypeOK ==
    /\ rgW \in 0 .. RingCap - 1 /\ rgR \in 0 .. RingCap - 1 /\ rgBuffered \in 0 .. RingCap
    /\ rgPrefilled \in BOOLEAN /\ rgTarget \in RingTargets \union {RingPrefill}

\* The radio worklet counts its samples apart from its positions: through
\* pushes, skips, resets and playing faster or slower than real time, the
\* count is the distance of the positions and never exceeds the ring, so that no
\* push runs over samples still to be played and process() never reads beyond
\* those pushed.  (Steering skips and repeats single samples on purpose.)
RingExact == (rgR + rgBuffered) % RingCap = rgW /\ rgBuffered <= RingCap
=============================================================================
