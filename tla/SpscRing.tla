------------------------------ MODULE SpscRing ------------------------------
(***************************************************************************)
(* The lock-free single-producer single-consumer ring of the audio path    *)
(* (src/pipeline/ring_buffer.cpp).  write() and read() load the other      *)
(* side's position once, copy with memcpy while the other thread runs, and *)
(* publish their own position with a release store.  The copy is one step  *)
(* per frame, in any order; the two chunks of a wrapping copy are the      *)
(* frames before and after index capacity_ - 1.                            *)
(*                                                                         *)
(* Frame number base + p is the frame written at position p, so contents   *)
(* are checked by number.  The release/acquire pairs of the code make the  *)
(* steps of one thread visible in order, hence interleaving semantics.     *)
(* 64-bit positions do not wrap in the life of a device: they are numbers. *)
(***************************************************************************)
EXTENDS Integers, Sequences

CONSTANTS
  Capacity,       \* capacity_, a power of two
  MaxFrames       \* bound: frames written in one behaviour

ASSUME RingAssumption == Capacity \in Nat \ {0} /\ MaxFrames \in Nat

VARIABLES
  buffer,         \* buffer_: frame held by each slot, or Empty
  write_pos, read_pos,
  pleft,          \* producer: offsets memcpy has still to copy
  to_write,       \* producer: frames of the write() in progress, 0 when idle
  cleft,          \* consumer: offsets memcpy has still to copy
  to_read,        \* consumer: frames of the read() or peek() in progress, or 0
  consume,        \* consumer: it is a read(), not a peek()
  dst,            \* consumer: the caller's buffer, by offset
  base,           \* frames written before the last reset (history)
  out             \* last batch handed to the consumer's caller (history)

producer == <<pleft, to_write>>
consumer == <<cleft, to_read, consume, dst>>
vars == <<buffer, write_pos, read_pos, producer, consumer, base, out>>

Empty == -1
Slots == 0 .. Capacity - 1
Slot(pos) == pos % Capacity     \* pos & mask_

AtMost(a, b) == IF a <= b THEN a ELSE b
-----------------------------------------------------------------------------
Init ==
  /\ buffer = [s \in Slots |-> Empty]
  /\ write_pos = 0 /\ read_pos = 0
  /\ pleft = {} /\ to_write = 0
  /\ cleft = {} /\ to_read = 0 /\ consume = FALSE
  /\ dst = [j \in Slots |-> Empty]
  /\ base = 0 /\ out = <<>>

\* Mutant: one frame more than is free.
WriteBeginOneOver(n) ==
  LET k == AtMost(n, Capacity + 1 - (write_pos - read_pos))
  IN  /\ to_write = 0
      /\ k # 0
      /\ base + write_pos + k <= MaxFrames
      /\ to_write' = k
      /\ pleft' = 0 .. k - 1
      /\ UNCHANGED <<buffer, write_pos, read_pos, consumer, base, out>>

\* Mutant: frames not yet read count as free.
WriteBeginBlind(n) ==
  LET k == AtMost(n, Capacity)
  IN  /\ to_write = 0
      /\ base + write_pos + k <= MaxFrames
      /\ to_write' = k
      /\ pleft' = 0 .. k - 1
      /\ UNCHANGED <<buffer, write_pos, read_pos, consumer, base, out>>

\* write(): positions loaded, number of frames fixed.
WriteBegin(n) ==
  LET avail == Capacity - (write_pos - read_pos)
      k     == AtMost(n, avail)
  IN  /\ to_write = 0
      /\ k # 0
      /\ base + write_pos + k <= MaxFrames
      /\ to_write' = k
      /\ pleft' = 0 .. k - 1
      /\ UNCHANGED <<buffer, write_pos, read_pos, consumer, base, out>>

\* write(): memcpy stores one frame.
WriteCopy(i) ==
  /\ i \in pleft
  /\ buffer' = [buffer EXCEPT ![Slot(write_pos + i)] = base + write_pos + i]
  /\ pleft' = pleft \ {i}
  /\ UNCHANGED <<write_pos, read_pos, to_write, consumer, base, out>>

\* write(): the release store of write_pos_.
WriteEnd ==
  /\ to_write # 0 /\ pleft = {}
  /\ write_pos' = write_pos + to_write
  /\ to_write' = 0
  /\ UNCHANGED <<buffer, read_pos, pleft, consumer, base, out>>

\* read() or peek(): positions loaded, number of frames fixed.
ReadBegin(n, taking) ==
  LET k == AtMost(n, write_pos - read_pos)
  IN  /\ to_read = 0
      /\ k # 0
      /\ to_read' = k
      /\ cleft' = 0 .. k - 1
      /\ consume' = taking
      /\ UNCHANGED <<buffer, write_pos, read_pos, producer, dst, base, out>>

\* read() or peek(): memcpy loads one frame.
ReadCopy(j) ==
  /\ j \in cleft
  /\ dst' = [dst EXCEPT ![j] = buffer[Slot(read_pos + j)]]
  /\ cleft' = cleft \ {j}
  /\ UNCHANGED <<buffer, write_pos, read_pos, producer, to_read, consume, base, out>>

\* Mutant: the last frame of a batch is left in the ring.
ReadEndOneShort ==
  /\ to_read # 0 /\ cleft = {}
  /\ out' = [j \in 1 .. to_read |-> dst[j - 1]]
  /\ read_pos' = IF consume THEN read_pos + to_read - 1 ELSE read_pos
  /\ to_read' = 0
  /\ UNCHANGED <<buffer, write_pos, producer, cleft, consume, dst, base>>

\* The return of read(), after the release store of read_pos_, or of peek().
ReadEnd ==
  /\ to_read # 0 /\ cleft = {}
  /\ out' = [j \in 1 .. to_read |-> dst[j - 1]]
  /\ read_pos' = IF consume THEN read_pos + to_read ELSE read_pos
  /\ to_read' = 0
  /\ UNCHANGED <<buffer, write_pos, producer, cleft, consume, dst, base>>

\* discard(): called by the consumer, one load and one store.
Discard(n) ==
  LET k == AtMost(n, write_pos - read_pos)
  IN  /\ to_read = 0
      /\ k # 0
      /\ read_pos' = read_pos + k
      /\ UNCHANGED <<buffer, write_pos, producer, consumer, base, out>>

\* reset(): "Only safe when no concurrent access".
Reset ==
  /\ to_write = 0 /\ to_read = 0
  /\ write_pos' = 0 /\ read_pos' = 0
  /\ base' = base + write_pos
  /\ UNCHANGED <<buffer, producer, consumer, out>>

Next ==
  \/ \E n \in 1 .. Capacity + 1 : WriteBegin(n)
  \/ \E i \in Slots : WriteCopy(i)
  \/ WriteEnd
  \/ \E n \in 1 .. Capacity + 1, taking \in BOOLEAN : ReadBegin(n, taking)
  \/ \E j \in Slots : ReadCopy(j)
  \/ ReadEnd
  \/ \E n \in 1 .. Capacity + 1 : Discard(n)
  \/ Reset

Spec == Init /\ [][Next]_vars
-----------------------------------------------------------------------------
(* Properties.                                                             *)

\* Type invariant.
TypeOK ==
  /\ buffer \in [Slots -> Nat \cup {Empty}]
  /\ write_pos \in Nat /\ read_pos \in Nat /\ base \in Nat
  /\ to_write \in 0 .. Capacity /\ pleft \subseteq Slots
  /\ to_read \in 0 .. Capacity /\ cleft \subseteq Slots
  /\ consume \in BOOLEAN
  /\ dst \in [Slots -> Nat \cup {Empty}]
  /\ out \in Seq(Nat \cup {Empty})

\* The consumer never passes the producer, the producer never laps the
\* consumer, although each works from a stale copy of the other's position.
PositionsOrdered ==
  read_pos <= write_pos /\ write_pos <= read_pos + Capacity

\* No slot is under memcpy of both threads at once: no torn audio frame.
NoTornFrame ==
  \A i \in pleft, j \in cleft : Slot(write_pos + i) # Slot(read_pos + j)

\* A read or a peek under way has copied exactly the frames due at its
\* position, not frames of an earlier lap or of a write in progress.
CopiedInOrder ==
  to_read # 0 =>
    \A j \in (0 .. to_read - 1) \ cleft : dst[j] = base + read_pos + j

\* The published part of the ring, oldest frame first.
Contents ==
  [i \in 1 .. write_pos - read_pos |-> buffer[Slot(read_pos + i - 1)]]

\* The queue the two users see, mapped from the ring.
Fifo == INSTANCE FrameQueue WITH
          queue <- Contents, sent <- base + write_pos

\* Every batch read is the oldest frames written, each once and in order.
RingIsFifo == Fifo!Spec
-----------------------------------------------------------------------------
(* The inductive invariant behind the three safety properties.             *)

\* A write in progress fits in the free part of the ring.
WriteFits ==
  /\ pleft \subseteq 0 .. to_write - 1
  /\ write_pos + to_write <= read_pos + Capacity

\* A read in progress stays inside what was published.
ReadFits ==
  /\ cleft \subseteq 0 .. to_read - 1
  /\ read_pos + to_read <= write_pos

\* Every slot between the positions holds the frame of its position.
Published ==
  \A p \in read_pos .. write_pos - 1 : buffer[Slot(p)] = base + p

\* What the write in progress has stored so far is in place.
Stored ==
  \A i \in (0 .. to_write - 1) \ pleft :
    buffer[Slot(write_pos + i)] = base + write_pos + i

IInv ==
  /\ TypeOK
  /\ PositionsOrdered
  /\ WriteFits
  /\ ReadFits
  /\ Published
  /\ Stored
  /\ CopiedInOrder
=============================================================================
