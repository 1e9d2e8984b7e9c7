--------------------------- MODULE SpscRing_proofs ---------------------------
(***************************************************************************)
(* The lock-free ring for every capacity and any number of frames: its     *)
(* inductive invariant, the absence of torn frames and of misread frames.  *)
(***************************************************************************)
EXTENDS SpscRing, TLAPS

\* A position has a slot.
LEMMA SlotType ==
  ASSUME NEW p \in Nat
  PROVE  Slot(p) \in Slots
BY RingAssumption DEF Slot, Slots

\* Euclidean division by the capacity.
LEMMA DivMod ==
  ASSUME NEW p \in Nat
  PROVE  /\ p \div Capacity \in Int
         /\ p = Capacity * (p \div Capacity) + Slot(p)
BY RingAssumption DEF Slot

\* Two positions less than a lap apart have different slots.
LEMMA SlotDistinct ==
  ASSUME NEW p \in Nat, NEW q \in Nat, p < q, q < p + Capacity
  PROVE  Slot(p) # Slot(q)
<1> DEFINE dp == p \div Capacity
           dq == q \div Capacity
<1>1. /\ dp \in Int /\ dq \in Int
      /\ p = Capacity * dp + Slot(p)
      /\ q = Capacity * dq + Slot(q)
  BY DivMod
<1>2. Slot(p) \in Int /\ Slot(q) \in Int /\ Capacity \in Nat \ {0}
  BY SlotType, RingAssumption DEF Slots
<1> HIDE DEF dp, dq
<1> SUFFICES ASSUME Slot(p) = Slot(q)
             PROVE  FALSE
  OBVIOUS
<1>3. q - p = Capacity * (dq - dp)
  BY <1>1, <1>2
<1>4. CASE dq - dp <= 0
  <2>1. Capacity * (dq - dp) <= 0
    BY <1>1, <1>2, <1>4
  <2> QED
    BY <1>3, <2>1
<1>5. CASE dq - dp >= 1
  <2>1. Capacity * (dq - dp) >= Capacity
    BY <1>1, <1>2, <1>5
  <2> QED
    BY <1>2, <1>3, <2>1
<1> QED
  BY <1>1, <1>4, <1>5

\* The shorter of two lengths.
LEMMA AtMostBounds ==
  ASSUME NEW a \in Nat, NEW b \in Nat
  PROVE  /\ AtMost(a, b) \in Nat
         /\ AtMost(a, b) <= a /\ AtMost(a, b) <= b
BY DEF AtMost

-----------------------------------------------------------------------------
LEMMA InitInv == Init => IInv
<1> SUFFICES ASSUME Init
             PROVE  IInv
  OBVIOUS
<1>1. TypeOK
  <2>1. out \in Seq(Nat \cup {Empty})
    BY DEF Init
  <2>2. to_write \in 0 .. Capacity /\ to_read \in 0 .. Capacity
    BY RingAssumption DEF Init
  <2>3. pleft \subseteq Slots /\ cleft \subseteq Slots
    BY DEF Init
  <2>4. /\ buffer \in [Slots -> Nat \cup {Empty}]
        /\ dst \in [Slots -> Nat \cup {Empty}]
    BY DEF Init
  <2>5. /\ write_pos \in Nat /\ read_pos \in Nat /\ base \in Nat
        /\ consume \in BOOLEAN
    BY DEF Init
  <2> QED
    BY <2>1, <2>2, <2>3, <2>4, <2>5 DEF TypeOK
<1>2. PositionsOrdered /\ WriteFits /\ ReadFits
  BY RingAssumption DEF Init, PositionsOrdered, WriteFits, ReadFits
<1>3. Published /\ Stored /\ CopiedInOrder
  BY DEF Init, Published, Stored, CopiedInOrder
<1> QED
  BY <1>1, <1>2, <1>3 DEF IInv

LEMMA WriteBeginInv ==
  ASSUME IInv, NEW n \in 1 .. Capacity + 1, WriteBegin(n)
  PROVE  IInv'
<1> DEFINE avail == Capacity - (write_pos - read_pos)
           k == AtMost(n, avail)
<1>0. avail \in 0 .. Capacity
  BY RingAssumption DEF IInv, TypeOK, PositionsOrdered
<1>1. avail \in Nat /\ k \in 1 .. Capacity /\ k <= avail
  <2>1. k \in Nat /\ k <= avail
    BY <1>0, RingAssumption, AtMostBounds
  <2>2. k # 0
    BY DEF WriteBegin
  <2> QED
    BY <1>0, <2>1, <2>2, RingAssumption
<1>2. /\ to_write = 0 /\ to_write' = k /\ pleft' = 0 .. k - 1
      /\ UNCHANGED <<buffer, write_pos, read_pos, base, out>>
      /\ UNCHANGED <<cleft, to_read, consume, dst>>
  BY DEF WriteBegin, consumer
<1> HIDE DEF avail, k
<1>3. TypeOK'
  BY <1>1, <1>2, RingAssumption DEF IInv, TypeOK, Slots
<1>4. PositionsOrdered' /\ ReadFits' /\ Published' /\ CopiedInOrder'
  BY <1>2 DEF IInv, PositionsOrdered, ReadFits, Published, CopiedInOrder
<1>5. WriteFits'
  BY <1>1, <1>2, RingAssumption DEF IInv, TypeOK, WriteFits, avail
<1>6. Stored'
  BY <1>2 DEF Stored
<1> QED
  BY <1>3, <1>4, <1>5, <1>6 DEF IInv

LEMMA WriteCopyInv ==
  ASSUME IInv, NEW i \in Slots, WriteCopy(i)
  PROVE  IInv'
<1> DEFINE at == write_pos + i
<1>0. i \in Nat /\ base + write_pos + i = base + at
  BY RingAssumption DEF IInv, TypeOK, Slots
<1>1. /\ i \in pleft /\ pleft' = pleft \ {i}
      /\ buffer' = [buffer EXCEPT ![Slot(at)] = base + at]
      /\ UNCHANGED <<write_pos, read_pos, to_write, base, out>>
      /\ UNCHANGED <<cleft, to_read, consume, dst>>
  BY <1>0 DEF WriteCopy, consumer
<1>2. /\ at \in Nat /\ Slot(at) \in Slots /\ i \in 0 .. to_write - 1
      /\ at < read_pos + Capacity /\ write_pos <= at
  <2>1. i \in 0 .. to_write - 1
    BY <1>1 DEF IInv, WriteFits
  <2>2. at \in Nat /\ at < read_pos + Capacity /\ write_pos <= at
    BY <1>0, <2>1, RingAssumption DEF IInv, TypeOK, WriteFits
  <2> QED
    BY <2>1, <2>2, SlotType
<1> HIDE DEF at
<1>3. TypeOK'
  BY <1>1, <1>2 DEF IInv, TypeOK
<1>4. PositionsOrdered' /\ WriteFits' /\ ReadFits' /\ CopiedInOrder'
  BY <1>1 DEF IInv, PositionsOrdered, WriteFits, ReadFits, CopiedInOrder
<1>5. Published'
  <2> SUFFICES ASSUME NEW p \in read_pos .. write_pos - 1
               PROVE  buffer'[Slot(p)] = base + p
    BY <1>1 DEF Published
  <2>1. p \in Nat /\ p < at /\ at < p + Capacity
    BY <1>2, RingAssumption DEF IInv, TypeOK
  <2>2. Slot(p) # Slot(at) /\ Slot(p) \in Slots
    BY <1>2, <2>1, SlotDistinct, SlotType
  <2> QED
    BY <1>1, <2>2 DEF IInv, TypeOK, Published
<1>6. Stored'
  <2> SUFFICES ASSUME NEW h \in (0 .. to_write - 1) \ (pleft \ {i})
               PROVE  buffer'[Slot(write_pos + h)] = base + write_pos + h
    BY <1>1 DEF Stored
  <2>1. CASE h = i
    BY <1>1, <1>2, <2>1 DEF IInv, TypeOK, at
  <2>2. CASE h # i
    <3>1. /\ write_pos + h \in Nat /\ h \in (0 .. to_write - 1) \ pleft
          /\ write_pos + h # at
          /\ write_pos + h < at + Capacity /\ at < write_pos + h + Capacity
      BY <1>2, <2>2, RingAssumption DEF IInv, TypeOK, WriteFits, PositionsOrdered, at
    <3>2. Slot(write_pos + h) # Slot(at) /\ Slot(write_pos + h) \in Slots
      BY <1>2, <3>1, SlotDistinct, SlotType
    <3> QED
      BY <1>1, <3>1, <3>2 DEF IInv, TypeOK, Stored
  <2> QED
    BY <2>1, <2>2
<1> QED
  BY <1>3, <1>4, <1>5, <1>6 DEF IInv

LEMMA WriteEndInv ==
  ASSUME IInv, WriteEnd
  PROVE  IInv'
<1>1. /\ pleft = {} /\ write_pos' = write_pos + to_write /\ to_write' = 0
      /\ UNCHANGED <<buffer, read_pos, pleft, base, out>>
      /\ UNCHANGED <<cleft, to_read, consume, dst>>
  BY DEF WriteEnd, consumer
<1>2. TypeOK'
  BY <1>1, RingAssumption DEF IInv, TypeOK
<1>3. PositionsOrdered' /\ WriteFits' /\ ReadFits' /\ CopiedInOrder' /\ Stored'
  BY <1>1 DEF IInv, TypeOK, PositionsOrdered, WriteFits, ReadFits,
              CopiedInOrder, Stored
<1>4. Published'
  <2> SUFFICES ASSUME NEW p \in read_pos .. write_pos + to_write - 1
               PROVE  buffer[Slot(p)] = base + p
    BY <1>1 DEF Published, IInv, TypeOK
  <2>1. CASE p < write_pos
    BY <2>1 DEF IInv, TypeOK, Published
  <2>2. CASE p >= write_pos
    <3>1. p - write_pos \in (0 .. to_write - 1) \ pleft
          /\ write_pos + (p - write_pos) = p
          /\ base + write_pos + (p - write_pos) = base + p
      BY <1>1, <2>2 DEF IInv, TypeOK
    <3> QED
      BY <3>1 DEF IInv, Stored
  <2> QED
    BY <2>1, <2>2 DEF IInv, TypeOK
<1> QED
  BY <1>2, <1>3, <1>4 DEF IInv

LEMMA ReadBeginInv ==
  ASSUME IInv, NEW n \in 1 .. Capacity + 1, NEW taking \in BOOLEAN,
         ReadBegin(n, taking)
  PROVE  IInv'
<1> DEFINE k == AtMost(n, write_pos - read_pos)
<1>1. k \in 1 .. Capacity /\ k <= write_pos - read_pos
  <2>1. n \in Nat /\ write_pos - read_pos \in 0 .. Capacity
    BY RingAssumption DEF IInv, TypeOK, PositionsOrdered
  <2>2. k \in Nat /\ k <= write_pos - read_pos
    BY <2>1, AtMostBounds, RingAssumption
  <2>3. k # 0
    BY DEF ReadBegin
  <2> QED
    BY <2>1, <2>2, <2>3, RingAssumption
<1>2. /\ to_read = 0 /\ to_read' = k /\ cleft' = 0 .. k - 1
      /\ consume' = taking
      /\ UNCHANGED <<buffer, write_pos, read_pos, dst, base, out>>
      /\ UNCHANGED <<pleft, to_write>>
  BY DEF ReadBegin, producer
<1> HIDE DEF k
<1>3. TypeOK'
  BY <1>1, <1>2, RingAssumption DEF IInv, TypeOK, Slots
<1>4. PositionsOrdered' /\ WriteFits' /\ Published' /\ Stored'
  BY <1>2 DEF IInv, PositionsOrdered, WriteFits, Published, Stored
<1>5. ReadFits' /\ CopiedInOrder'
  BY <1>1, <1>2, RingAssumption DEF IInv, TypeOK, ReadFits, CopiedInOrder
<1> QED
  BY <1>3, <1>4, <1>5 DEF IInv

LEMMA ReadCopyInv ==
  ASSUME IInv, NEW j \in Slots, ReadCopy(j)
  PROVE  IInv'
<1>1. /\ j \in cleft /\ cleft' = cleft \ {j}
      /\ dst' = [dst EXCEPT ![j] = buffer[Slot(read_pos + j)]]
      /\ UNCHANGED <<buffer, write_pos, read_pos, to_read, consume, base, out>>
      /\ UNCHANGED <<pleft, to_write>>
  BY DEF ReadCopy, producer
<1>2. /\ j \in 0 .. to_read - 1
      /\ read_pos + j \in read_pos .. write_pos - 1
  <2>1. j \in 0 .. to_read - 1
    BY <1>1 DEF IInv, ReadFits
  <2> QED
    BY <2>1 DEF IInv, TypeOK, ReadFits
<1>3. buffer[Slot(read_pos + j)] = base + read_pos + j
  BY <1>2 DEF IInv, TypeOK, Published
<1>4. TypeOK'
  <2>1. base + read_pos + j \in Nat
    BY <1>2 DEF IInv, TypeOK
  <2> QED
    BY <1>1, <1>3, <2>1 DEF IInv, TypeOK
<1>5. PositionsOrdered' /\ WriteFits' /\ ReadFits' /\ Published' /\ Stored'
  BY <1>1 DEF IInv, PositionsOrdered, WriteFits, ReadFits, Published, Stored
<1>6. CopiedInOrder'
  <2> SUFFICES ASSUME to_read # 0,
                      NEW h \in (0 .. to_read - 1) \ (cleft \ {j})
               PROVE  dst'[h] = base + read_pos + h
    BY <1>1 DEF CopiedInOrder
  <2>1. CASE h = j
    BY <1>1, <1>3, <2>1 DEF IInv, TypeOK
  <2>2. CASE h # j
    BY <1>1, <2>2 DEF IInv, TypeOK, CopiedInOrder
  <2> QED
    BY <2>1, <2>2
<1> QED
  BY <1>4, <1>5, <1>6 DEF IInv

\* Giving frames up, whole or part, only frees slots.
LEMMA AdvanceReader ==
  ASSUME IInv, NEW k \in Nat, read_pos + k <= write_pos,
         read_pos' = read_pos + k,
         to_read' = 0, cleft' = {},
         UNCHANGED <<buffer, write_pos, pleft, to_write, base>>
  PROVE  /\ PositionsOrdered' /\ WriteFits' /\ ReadFits'
         /\ Published' /\ Stored' /\ CopiedInOrder'
<1>1. PositionsOrdered' /\ WriteFits' /\ ReadFits'
  BY RingAssumption DEF IInv, TypeOK, PositionsOrdered, WriteFits, ReadFits
<1>2. Published' /\ Stored' /\ CopiedInOrder'
  BY DEF IInv, TypeOK, Published, Stored, CopiedInOrder
<1> QED
  BY <1>1, <1>2

LEMMA ReadEndInv ==
  ASSUME IInv, ReadEnd
  PROVE  IInv'
<1> DEFINE k == IF consume THEN to_read ELSE 0
<1>1. /\ to_read # 0 /\ cleft = {} /\ to_read' = 0
      /\ out' = [j \in 1 .. to_read |-> dst[j - 1]]
      /\ UNCHANGED <<buffer, write_pos, cleft, consume, dst, base>>
      /\ UNCHANGED <<pleft, to_write>>
  BY DEF ReadEnd, producer
<1>2. k \in Nat /\ read_pos + k <= write_pos /\ read_pos' = read_pos + k
  BY RingAssumption DEF ReadEnd, IInv, TypeOK, ReadFits, PositionsOrdered
<1> HIDE DEF k
<1>3. TypeOK'
  <2>1. out' \in Seq(Nat \cup {Empty})
    <3>1. \A j \in 1 .. to_read : dst[j - 1] \in Nat \cup {Empty}
      BY RingAssumption DEF IInv, TypeOK, Slots
    <3> QED
      BY <1>1, <3>1, RingAssumption DEF IInv, TypeOK
  <2> QED
    BY <1>1, <1>2, <2>1, RingAssumption DEF IInv, TypeOK
<1>4. /\ PositionsOrdered' /\ WriteFits' /\ ReadFits'
      /\ Published' /\ Stored' /\ CopiedInOrder'
  BY <1>1, <1>2, AdvanceReader
<1> QED
  BY <1>3, <1>4 DEF IInv

LEMMA DiscardInv ==
  ASSUME IInv, NEW n \in 1 .. Capacity + 1, Discard(n)
  PROVE  IInv'
<1> DEFINE k == AtMost(n, write_pos - read_pos)
<1>1. k \in Nat /\ read_pos + k <= write_pos
  <2>1. n \in Nat /\ write_pos - read_pos \in Nat
    BY RingAssumption DEF IInv, TypeOK, PositionsOrdered
  <2>2. k \in Nat /\ k <= write_pos - read_pos
    BY <2>1, AtMostBounds
  <2> QED
    BY <2>2 DEF IInv, TypeOK
<1>2. /\ to_read = 0 /\ read_pos' = read_pos + k
      /\ UNCHANGED <<buffer, write_pos, base, out>>
      /\ UNCHANGED <<pleft, to_write, cleft, to_read, consume, dst>>
  BY DEF Discard, producer, consumer
<1> HIDE DEF k
<1>3. TypeOK'
  BY <1>1, <1>2 DEF IInv, TypeOK
<1>4. cleft = {}
  BY <1>2 DEF IInv, ReadFits
<1>5. /\ PositionsOrdered' /\ WriteFits' /\ ReadFits'
      /\ Published' /\ Stored' /\ CopiedInOrder'
  BY <1>1, <1>2, <1>4, AdvanceReader
<1> QED
  BY <1>3, <1>5 DEF IInv

LEMMA ResetInv ==
  ASSUME IInv, Reset
  PROVE  IInv'
<1>1. /\ to_write = 0 /\ to_read = 0 /\ write_pos' = 0 /\ read_pos' = 0
      /\ base' = base + write_pos
      /\ UNCHANGED <<buffer, pleft, to_write, cleft, to_read, consume, dst, out>>
  BY DEF Reset, producer, consumer
<1>2. TypeOK'
  BY <1>1 DEF IInv, TypeOK
<1>3. /\ PositionsOrdered' /\ WriteFits' /\ ReadFits'
      /\ Published' /\ Stored' /\ CopiedInOrder'
  BY <1>1, RingAssumption DEF IInv, PositionsOrdered, WriteFits, ReadFits,
                              Published, Stored, CopiedInOrder
<1> QED
  BY <1>2, <1>3 DEF IInv

LEMMA NextInv == IInv /\ [Next]_vars => IInv'
<1> SUFFICES ASSUME IInv, [Next]_vars
             PROVE  IInv'
  OBVIOUS
<1>1. CASE UNCHANGED vars
  BY <1>1 DEF vars, producer, consumer, IInv, TypeOK, PositionsOrdered,
              WriteFits, ReadFits, Published, Stored, CopiedInOrder
<1> QED
  BY <1>1, WriteBeginInv, WriteCopyInv, WriteEndInv, ReadBeginInv, ReadCopyInv,
     ReadEndInv, DiscardInv, ResetInv DEF Next

-----------------------------------------------------------------------------
\* The inductive invariant holds throughout.
THEOREM RingInvariant == Spec => []IInv
<1> QED
  BY InitInv, NextInv, PTL DEF Spec

\* Every variable keeps its type.
THEOREM RingTypeOK == Spec => []TypeOK
<1>1. IInv => TypeOK
  BY DEF IInv
<1> QED
  BY <1>1, RingInvariant, PTL

\* Neither thread ever passes the other by more than the ring holds.
THEOREM RingPositionsOrdered == Spec => []PositionsOrdered
<1>1. IInv => PositionsOrdered
  BY DEF IInv
<1> QED
  BY <1>1, RingInvariant, PTL

\* Producer and consumer never copy the same slot at once.
THEOREM RingNoTornFrame == Spec => []NoTornFrame
<1>1. IInv => NoTornFrame
  <2> SUFFICES ASSUME IInv, NEW i \in pleft, NEW j \in cleft
               PROVE  Slot(write_pos + i) # Slot(read_pos + j)
    BY DEF NoTornFrame
  <2>1. i \in 0 .. to_write - 1 /\ j \in 0 .. to_read - 1
    BY DEF IInv, WriteFits, ReadFits
  <2>2. /\ read_pos + j \in Nat /\ write_pos + i \in Nat
        /\ read_pos + j < write_pos + i
        /\ write_pos + i < read_pos + j + Capacity
    BY <2>1, RingAssumption DEF IInv, TypeOK, WriteFits, ReadFits
  <2> QED
    BY <2>2, SlotDistinct
<1> QED
  BY <1>1, RingInvariant, PTL

\* A read in progress has copied the frames due, and no others.
THEOREM RingCopiedInOrder == Spec => []CopiedInOrder
<1>1. IInv => CopiedInOrder
  BY DEF IInv
<1> QED
  BY <1>1, RingInvariant, PTL

-----------------------------------------------------------------------------
(* The ring implements the queue.  Under IInv its contents are the run of  *)
(* consecutive frame numbers from the reader to the writer.                *)
Run(first, n) == [i \in 1 .. n |-> first + i - 1]

LEMMA RunSeq ==
  ASSUME NEW f \in Nat, NEW n \in Nat
  PROVE  Run(f, n) \in Seq(Nat) /\ Len(Run(f, n)) = n
BY DEF Run

LEMMA RunConcat ==
  ASSUME NEW f \in Nat, NEW n \in Nat, NEW k \in Nat
  PROVE  Run(f, n + k) = Run(f, n) \o Run(f + n, k)
BY DEF Run

LEMMA RunSub ==
  ASSUME NEW f \in Nat, NEW n \in Nat, NEW k \in 0 .. n
  PROVE  /\ SubSeq(Run(f, n), 1, k) = Run(f, k)
         /\ SubSeq(Run(f, n), k + 1, n) = Run(f + k, n - k)
BY DEF Run

IsRun == Contents = Run(base + read_pos, write_pos - read_pos)

LEMMA ContentsRun == IInv => IsRun
<1> SUFFICES ASSUME IInv
             PROVE  IsRun
  OBVIOUS
<1>1. \A i \in 1 .. write_pos - read_pos :
        /\ read_pos + i - 1 \in read_pos .. write_pos - 1
        /\ base + (read_pos + i - 1) = (base + read_pos) + i - 1
  BY DEF IInv, TypeOK, PositionsOrdered
<1>2. \A i \in 1 .. write_pos - read_pos :
        buffer[Slot(read_pos + i - 1)] = (base + read_pos) + i - 1
  BY <1>1 DEF IInv, Published
<1> QED
  BY <1>2 DEF Contents, Run, IsRun

LEMMA InitRefines == Init => Fifo!Init
<1> SUFFICES ASSUME Init
             PROVE  Fifo!Init
  OBVIOUS
<1>1. Contents = <<>>
  BY DEF Init, Contents
<1> QED
  BY <1>1 DEF Init, Fifo!Init

\* The same fact of the next state.
LEMMA NextContentsRun == IInv' => IsRun'
BY ContentsRun, PTL

\* A step that moves no position and stores no published frame is a stutter
\* of the queue.
LEMMA SamePositionsStutter ==
  ASSUME IInv, IInv', UNCHANGED <<write_pos, read_pos, base>>
  PROVE  Contents' = Contents /\ (base + write_pos)' = base + write_pos
BY ContentsRun, NextContentsRun DEF IsRun, Run

\* The three numbers of the queue side of a step.
LEMMA RunNumbers ==
  ASSUME IInv
  PROVE  /\ base + read_pos \in Nat
         /\ write_pos - read_pos \in 0 .. Capacity
         /\ base + write_pos = (base + read_pos) + (write_pos - read_pos)
BY RingAssumption DEF IInv, TypeOK, PositionsOrdered

\* The release store of write_pos_ puts the whole batch into the queue.
LEMMA WriteEndPuts ==
  ASSUME IInv, IInv', WriteEnd
  PROVE  Fifo!Next
<1> DEFINE f == base + read_pos
           n == write_pos - read_pos
<1>1. /\ write_pos' = write_pos + to_write /\ to_write # 0
      /\ UNCHANGED <<read_pos, base, out>>
  BY DEF WriteEnd
<1>2. f \in Nat /\ n \in Nat /\ base + write_pos = f + n
  BY RunNumbers
<1>3. to_write \in 1 .. Capacity /\ n + to_write <= Capacity
  BY <1>1, RingAssumption DEF IInv, TypeOK, WriteFits
<1>4. Contents = Run(f, n) /\ Contents' = Run(f, n + to_write)
  <2>1. write_pos' - read_pos' = n + to_write
    BY <1>1 DEF IInv, TypeOK
  <2> QED
    BY <1>1, <2>1, ContentsRun, NextContentsRun DEF IsRun
<1> HIDE DEF f, n
<1>5. Len(Contents) = n
  BY <1>2, <1>4, RunSeq
<1>6. Contents' = Contents \o Run(base + write_pos, to_write)
  <2>0. to_write \in Nat
    BY <1>3, RingAssumption
  <2>1. Run(f, n + to_write) = Run(f, n) \o Run(f + n, to_write)
    BY <1>2, <2>0, RunConcat, Zenon
  <2> QED
    BY <1>2, <1>4, <2>1
<1>7. Fifo!Put(to_write)
  BY <1>1, <1>3, <1>5, <1>6 DEF Fifo!Put, Run, IInv, TypeOK
<1> QED
  BY <1>3, <1>7 DEF Fifo!Next

\* Moving read_pos forward by k removes the k oldest frames.
LEMMA AdvanceDrops ==
  ASSUME IInv, IInv', NEW k \in Nat, k <= write_pos - read_pos,
         read_pos' = read_pos + k, UNCHANGED <<write_pos, base>>
  PROVE  /\ k <= Len(Contents)
         /\ SubSeq(Contents, 1, k) = Run(base + read_pos, k)
         /\ Contents' = SubSeq(Contents, k + 1, Len(Contents))
<1> DEFINE f == base + read_pos
           n == write_pos - read_pos
<1>1. f \in Nat /\ n \in Nat /\ k \in 0 .. n
  BY RunNumbers
<1>2. /\ base' + read_pos' = f + k /\ write_pos' - read_pos' = n - k
  BY DEF IInv, TypeOK
<1>3. Contents = Run(f, n) /\ Contents' = Run(f + k, n - k)
  BY <1>2, ContentsRun, NextContentsRun DEF IsRun
<1> HIDE DEF f, n
<1>4. Len(Contents) = n
  BY <1>1, <1>3, RunSeq
<1>5. /\ SubSeq(Contents, 1, k) = Run(f, k)
      /\ Contents' = SubSeq(Contents, k + 1, Len(Contents))
  <2>1. /\ SubSeq(Run(f, n), 1, k) = Run(f, k)
        /\ SubSeq(Run(f, n), k + 1, n) = Run(f + k, n - k)
    BY <1>1, RunSub
  <2> QED
    BY <1>3, <1>4, <2>1
<1> QED
  BY <1>1, <1>4, <1>5 DEF f

\* The return of read() takes the batch, that of peek() only looks at it.
LEMMA ReadEndTakes ==
  ASSUME IInv, IInv', ReadEnd
  PROVE  Fifo!Next
<1>1. /\ to_read # 0 /\ cleft = {}
      /\ out' = [j \in 1 .. to_read |-> dst[j - 1]]
      /\ UNCHANGED <<write_pos, base>>
  BY DEF ReadEnd
<1>2. to_read \in 1 .. Capacity /\ to_read <= write_pos - read_pos
  BY <1>1, RingAssumption DEF IInv, TypeOK, ReadFits
<1>3. out' = Run(base + read_pos, to_read)
  <2>1. \A j \in 1 .. to_read : dst[j - 1] = (base + read_pos) + j - 1
    <3> SUFFICES ASSUME NEW j \in 1 .. to_read
                 PROVE  dst[j - 1] = (base + read_pos) + j - 1
      OBVIOUS
    <3>1. j - 1 \in (0 .. to_read - 1) \ cleft
      BY <1>1, <1>2
    <3>2. dst[j - 1] = base + read_pos + (j - 1)
      BY <1>1, <3>1 DEF IInv, CopiedInOrder
    <3> QED
      BY <3>2 DEF IInv, TypeOK
  <2> QED
    BY <1>1, <2>1 DEF Run
<1>4. CASE consume
  <2>1. read_pos' = read_pos + to_read
    BY <1>4 DEF ReadEnd
  <2>2. Fifo!Take(to_read)
    BY <1>1, <1>2, <1>3, <2>1, AdvanceDrops, RingAssumption DEF Fifo!Take
  <2> QED
    BY <1>2, <2>2 DEF Fifo!Next
<1>5. CASE ~consume
  <2>1. read_pos' = read_pos
    BY <1>5 DEF ReadEnd
  <2>2. /\ to_read <= Len(Contents)
        /\ SubSeq(Contents, 1, to_read) = Run(base + read_pos, to_read)
    <3>1. /\ base + read_pos \in Nat /\ write_pos - read_pos \in Nat
          /\ to_read \in 0 .. write_pos - read_pos
      BY <1>2, RunNumbers
    <3>2. /\ SubSeq(Run(base + read_pos, write_pos - read_pos), 1, to_read)
               = Run(base + read_pos, to_read)
          /\ Len(Run(base + read_pos, write_pos - read_pos))
               = write_pos - read_pos
      BY <3>1, RunSeq, RunSub
    <3> QED
      BY <3>1, <3>2, ContentsRun DEF IsRun
  <2>3. Contents' = Contents /\ (base + write_pos)' = base + write_pos
    BY <1>1, <2>1, SamePositionsStutter
  <2>4. Fifo!Look(to_read)
    BY <1>3, <2>2, <2>3 DEF Fifo!Look
  <2> QED
    BY <1>2, <2>4 DEF Fifo!Next
<1> QED
  BY <1>4, <1>5

LEMMA DiscardDrops ==
  ASSUME IInv, IInv', NEW n \in 1 .. Capacity + 1, Discard(n)
  PROVE  Fifo!Next
<1> DEFINE k == AtMost(n, write_pos - read_pos)
<1>1. k \in 1 .. Capacity /\ k <= write_pos - read_pos
  <2>1. n \in Nat /\ write_pos - read_pos \in 0 .. Capacity
    BY RunNumbers, RingAssumption
  <2>2. k \in Nat /\ k <= write_pos - read_pos
    BY <2>1, AtMostBounds, RingAssumption
  <2>3. k # 0
    BY DEF Discard
  <2> QED
    BY <2>1, <2>2, <2>3, RingAssumption
<1>2. read_pos' = read_pos + k /\ UNCHANGED <<write_pos, base, out>>
  BY DEF Discard
<1> HIDE DEF k
<1>3. Fifo!Drop(k)
  BY <1>1, <1>2, AdvanceDrops, RingAssumption DEF Fifo!Drop
<1> QED
  BY <1>1, <1>3 DEF Fifo!Next

LEMMA ResetClears ==
  ASSUME IInv, Reset
  PROVE  Fifo!Next
<1>1. Contents' = <<>>
  BY DEF Reset, Contents
<1>2. (base + write_pos)' = base + write_pos /\ out' = out
  BY DEF Reset, IInv, TypeOK
<1> QED
  BY <1>1, <1>2 DEF Fifo!Next, Fifo!Clear

LEMMA NextRefines ==
  IInv /\ IInv' /\ [Next]_vars
    => [Fifo!Next]_<<Contents, base + write_pos, out>>
<1> SUFFICES ASSUME IInv, IInv', [Next]_vars
             PROVE  [Fifo!Next]_<<Contents, base + write_pos, out>>
  OBVIOUS
<1>1. CASE \/ \E n \in 1 .. Capacity + 1 : WriteBegin(n)
           \/ \E i \in Slots : WriteCopy(i) \/ ReadCopy(i)
           \/ \E n \in 1 .. Capacity + 1, taking \in BOOLEAN : ReadBegin(n, taking)
           \/ UNCHANGED vars
  <2>1. UNCHANGED <<write_pos, read_pos, base, out>>
    BY <1>1 DEF WriteBegin, WriteCopy, ReadCopy, ReadBegin, vars
  <2> QED
    BY <2>1, SamePositionsStutter
<1> QED
  BY <1>1, WriteEndPuts, ReadEndTakes, DiscardDrops, ResetClears DEF Next

\* Refinement: for every capacity, the ring with its interleaved, unordered
\* copies is the bounded FIFO queue of FrameQueue.
THEOREM RingRefinesQueue == Spec => RingIsFifo
<1>1. IInv /\ IInv' /\ [Next]_vars
        => [Fifo!Next]_<<Contents, base + write_pos, out>>
  BY NextRefines
<1> QED
  BY <1>1, InitRefines, RingInvariant, PTL DEF Spec, RingIsFifo, Fifo!Spec
=============================================================================
