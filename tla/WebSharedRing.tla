---------------------------- MODULE WebSharedRing ----------------------------
(***************************************************************************)
(* The ring of samples in memory shared by the page and the audio thread   *)
(* (web/wasm/soluna-audio.js writes, soluna-worklet-sab.js reads): each    *)
(* side loads both heads, copies, and stores its own head, while the other *)
(* side does the same.  Samples are numbered as they are accepted, modulo  *)
(* SabNumbers.  A copy shows nothing before the store and is one step.     *)
(***************************************************************************)
EXTENDS Integers

CONSTANTS SabCap, SabBlock, \* the ring; samples the reader takes at a time
          SabChunks,        \* samples the writer has at a time
          SabNumbers        \* bound: numbers before they start again

ASSUME SharedRingAssumption ==
    /\ SabCap \in Nat \ {0, 1} /\ SabBlock \in 1 .. SabCap - 1 /\ SabChunks \subseteq Nat \ {0}
    /\ SabNumbers \in Nat /\ SabNumbers > SabCap

VARIABLES sabReady,            \* the worklet was handed the memory
          sabW, sabR, sabSlot, \* the heads, the samples
          sabWriter, sabReader, \* where each side is and what it loaded
          sabNext, sabHeard    \* numbers of the next sample accepted, played

sabVars == <<sabReady, sabW, sabR, sabSlot, sabWriter, sabReader, sabNext, sabHeard>>

SabSlots == 0 .. SabCap - 1
Resting == [at |-> "rest", head |-> 0, count |-> 0]

SabInit ==
    /\ sabReady = FALSE /\ sabW = 0 /\ sabR = 0 /\ sabSlot = [i \in SabSlots |-> 0]
    /\ sabWriter = Resting /\ sabReader = Resting /\ sabNext = 0 /\ sabHeard = 0

SabUsed(w, r) == (w - r + SabCap) % SabCap

\* Mutant: every slot may be filled, so full looks empty.
SabSpaceWhole(w, r) == SabCap - SabUsed(w, r)

\* One slot stays empty, to tell full from empty.
SabSpace(w, r) == SabCap - 1 - SabUsed(w, r)

SabHandOver ==
    sabReady' = TRUE /\ UNCHANGED <<sabW, sabR, sabSlot, sabWriter, sabReader, sabNext, sabHeard>>

\* _sabWrite: what does not fit is dropped.
SabWriteLoad(n) ==
    /\ sabWriter.at = "rest"
    /\ LET space == SabSpace(sabW, sabR)
           count == IF n <= space THEN n ELSE space
       IN  count > 0 /\ sabWriter' = [at |-> "loaded", head |-> sabW, count |-> count]
    /\ UNCHANGED <<sabReady, sabW, sabR, sabSlot, sabReader, sabNext, sabHeard>>

SabWriteCopy ==
    /\ sabWriter.at = "loaded" /\ sabWriter' = [sabWriter EXCEPT !.at = "copied"]
    /\ LET place(i) == (i - sabWriter.head + SabCap) % SabCap
       IN  sabSlot' = [i \in SabSlots |->
                          IF place(i) < sabWriter.count
                          THEN (sabNext + place(i)) % SabNumbers ELSE sabSlot[i]]
    /\ UNCHANGED <<sabReady, sabW, sabR, sabReader, sabNext, sabHeard>>

SabWriteStore ==
    /\ sabWriter.at = "copied" /\ sabWriter' = Resting
    /\ sabW' = (sabWriter.head + sabWriter.count) % SabCap
    /\ sabNext' = (sabNext + sabWriter.count) % SabNumbers
    /\ UNCHANGED <<sabReady, sabR, sabSlot, sabReader, sabHeard>>

\* process() of the worklet: a whole block or silence.
SabReadLoad ==
    /\ sabReady /\ sabReader.at = "rest" /\ SabUsed(sabW, sabR) >= SabBlock
    /\ sabReader' = [at |-> "loaded", head |-> sabR, count |-> SabBlock]
    /\ UNCHANGED <<sabReady, sabW, sabR, sabSlot, sabWriter, sabNext, sabHeard>>

SabReadStore ==
    /\ sabReader.at = "loaded" /\ sabReader' = Resting
    /\ sabR' = (sabReader.head + sabReader.count) % SabCap
    /\ sabHeard' = (sabHeard + sabReader.count) % SabNumbers
    /\ UNCHANGED <<sabReady, sabW, sabSlot, sabWriter, sabNext>>

SabNext ==
    \/ SabHandOver \/ SabWriteCopy \/ SabWriteStore \/ SabReadLoad \/ SabReadStore
    \/ \E n \in SabChunks : SabWriteLoad(n)

SabSpec == SabInit /\ [][SabNext]_sabVars

-----------------------------------------------------------------------------
SabTypeOK ==
    /\ sabReady \in BOOLEAN /\ sabW \in SabSlots /\ sabR \in SabSlots
    /\ sabSlot \in [SabSlots -> 0 .. SabNumbers - 1]
    /\ {sabWriter, sabReader} \subseteq
          [at : {"rest", "loaded", "copied"}, head : SabSlots, count : SabSlots]
    /\ {sabNext, sabHeard} \subseteq 0 .. SabNumbers - 1

\* Whatever the two threads have loaded, copied and not yet stored: between
\* the heads, from the read head on, are the accepted samples that were not
\* played, in order (_sabWrite keeps one slot empty and stores last).
SabHoldsUnplayed ==
    \A k \in 0 .. SabUsed(sabW, sabR) - 1 :
        sabSlot[(sabR + k) % SabCap] = (sabHeard + k) % SabNumbers
=============================================================================
