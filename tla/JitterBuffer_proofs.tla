--------------------------- MODULE JitterBuffer_proofs ---------------------------
(***************************************************************************)
(* The lock-free jitter buffer for any number of slots, any depth and any  *)
(* sequence space: the two threads keep off each other's slots, what is    *)
(* played is the packet due, in order, and the counter does not drift.     *)
(***************************************************************************)
EXTENDS JitterBuffer, FiniteSetTheorems, TLAPS

\* The occupied slots, and the counter as it will be when the calls are through.
Full == {h \in Homes : occupied[h]}
Level == occupancy + (IF ppc = "count" THEN 1 ELSE 0) - (IF cpc = "uncount" THEN 1 ELSE 0)
Taken == {"free", "uncount", "advance"}
Sent == First .. head - 1

\* A buffer without a next sequence number is empty, and nothing was played.
Fresh ==
  ~started \/ ppc = "first" =>
    /\ \A h \in Homes : ~occupied[h]
    /\ cpc \in {"idle", "look"} /\ played = None /\ heard = None

\* A push under way has the slot it fills for itself.
Filling ==
  /\ ppc # "idle" => started /\ pkt \in Sent
  /\ ppc \in {"fill", "publish"} => ~occupied[Home(pkt)]
  /\ ppc = "publish" => packet[Home(pkt)] = pkt

\* An occupied slot holds a packet that was sent.
Stored == \A h \in Homes : occupied[h] => packet[h] \in Sent

\* A pop under way has the packet due.
Held ==
  /\ cpc \in {"copy", "free"} => occupied[Home(next)] /\ Seq(packet[Home(next)]) = next
  /\ cpc = "free" => played = packet[Home(next)]

\* The packet due is the one the number due is of, and what waits is one of the
\* half sequence space from it on.
Placed ==
  started /\ ppc # "first" =>
    /\ Seq(due) = next
    /\ \A h \in Homes : occupied[h] /\ h \notin astray => Ahead(packet[h])

\* Everything heard is behind the packet due.
Ordered ==
  started /\ ppc # "first" /\ heard # None =>
    IF cpc \in Taken THEN heard <= due ELSE heard < due

IInv == TypeOK /\ Fresh /\ Filling /\ Stored /\ Held /\ OccupancyExact /\ Placed /\ Ordered
-----------------------------------------------------------------------------
\* The types of the constants.
LEMMA Sizes ==
  /\ SeqSpace \in Nat \ {0} /\ Slots \in Nat \ {0} /\ Width \in Nat /\ Width > Slots
  /\ First \in Nat /\ MaxSent \in Nat
BY JitterAssumption

\* A sequence number and a slot are in range.
LEMMA SeqType ==
  ASSUME NEW p \in Int
  PROVE  Seq(p) \in 0 .. SeqSpace - 1 /\ Home(p) \in Homes
BY Sizes DEF Seq, Home, Homes

\* Euclidean division by the sequence space.
LEMMA DivMod ==
  ASSUME NEW p \in Int
  PROVE  /\ p \div SeqSpace \in Int
         /\ p = SeqSpace * (p \div SeqSpace) + Seq(p)
BY Sizes DEF Seq

\* A multiple of the sequence space below it is nothing.
LEMMA NoMultiple ==
  ASSUME NEW k \in Int, NEW d \in Int, d = SeqSpace * k, -SeqSpace < d, d < SeqSpace
  PROVE  d = 0
<1>1. SeqSpace \in Nat \ {0}
  BY Sizes
<1>2. CASE k >= 1
  <2>1. SeqSpace * k >= SeqSpace
    BY <1>1, <1>2
  <2> QED
    BY <1>1, <2>1
<1>3. CASE k <= -1
  <2>1. SeqSpace * k <= -SeqSpace
    BY <1>1, <1>3
  <2> QED
    BY <1>1, <2>1
<1>4. CASE k = 0
  BY <1>1, <1>4
<1> QED
  BY <1>2, <1>3, <1>4

\* Numbers less than a sequence space apart have different sequence numbers.
LEMMA SameSeq ==
  ASSUME NEW p \in Int, NEW q \in Int, Seq(p) = Seq(q), q - p < SeqSpace, p - q < SeqSpace
  PROVE  p = q
<1> DEFINE dp == p \div SeqSpace
           dq == q \div SeqSpace
<1>1. dp \in Int /\ dq \in Int /\ p = SeqSpace * dp + Seq(p) /\ q = SeqSpace * dq + Seq(q)
  BY DivMod
<1>2. Seq(p) \in Int /\ SeqSpace \in Nat
  BY SeqType, Sizes
<1> HIDE DEF dp, dq
<1>3. q - p = SeqSpace * (dq - dp)
  BY <1>1, <1>2
<1>4. q - p = 0
  BY <1>1, <1>2, <1>3, NoMultiple
<1> QED
  BY <1>4

\* Counting on from a sequence number is counting on from its packet.
LEMMA SeqAdd ==
  ASSUME NEW n \in Int, NEW k \in Int
  PROVE  Seq(Seq(n) + k) = Seq(n + k)
<1>1. Seq(n) \in Int /\ SeqSpace \in Nat \ {0}
  BY SeqType, Sizes
<1>2. PICK dn \in Int : n = SeqSpace * dn + Seq(n)
  BY DivMod
<1>3. PICK da \in Int : Seq(n) + k = SeqSpace * da + Seq(Seq(n) + k)
  <2>1. Seq(n) + k \in Int
    BY <1>1
  <2> QED
    BY <2>1, DivMod, Zenon
<1>4. PICK db \in Int : n + k = SeqSpace * db + Seq(n + k)
  BY DivMod
<1>5. Seq(Seq(n) + k) \in 0 .. SeqSpace - 1 /\ Seq(n + k) \in 0 .. SeqSpace - 1
  BY <1>1, SeqType
<1>6. Seq(Seq(n) + k) - Seq(n + k) = SeqSpace * db - SeqSpace * da - SeqSpace * dn
  <2> DEFINE pn == SeqSpace * dn
             pa == SeqSpace * da
             pb == SeqSpace * db
             r == Seq(Seq(n) + k)
             s == Seq(n + k)
             t == Seq(n)
  <2>1. /\ n = pn + t /\ t + k = pa + r /\ n + k = pb + s
        /\ pn \in Int /\ pa \in Int /\ pb \in Int
        /\ r \in Int /\ s \in Int /\ t \in Int
    BY <1>1, <1>2, <1>3, <1>4, <1>5
  <2> HIDE DEF pn, pa, pb, r, s, t
  <2>2. r - s = pb - pa - pn
    BY <2>1
  <2> QED
    BY <2>2 DEF pn, pa, pb, r, s
<1>7. Seq(Seq(n) + k) - Seq(n + k) = SeqSpace * (db - da - dn)
  BY <1>1, <1>6
<1>8. db - da - dn \in Int /\ Seq(Seq(n) + k) - Seq(n + k) \in Int
      /\ -SeqSpace < Seq(Seq(n) + k) - Seq(n + k)
      /\ Seq(Seq(n) + k) - Seq(n + k) < SeqSpace
  BY <1>1, <1>5
<1>9. Seq(Seq(n) + k) - Seq(n + k) = 0
  BY <1>7, <1>8, NoMultiple
<1> QED
  BY <1>5, <1>9

\* A whole number of sequence spaces apart is the same sequence number.
LEMMA SeqShift ==
  ASSUME NEW p \in Int, NEW q \in Int, NEW k \in Int, p - q = SeqSpace * k
  PROVE  Seq(p) = Seq(q)
<1>1. PICK dp \in Int : p = SeqSpace * dp + Seq(p)
  BY DivMod
<1>2. PICK dq \in Int : q = SeqSpace * dq + Seq(q)
  BY DivMod
<1>3. /\ Seq(p) \in 0 .. SeqSpace - 1 /\ Seq(q) \in 0 .. SeqSpace - 1
      /\ SeqSpace \in Nat \ {0}
  BY SeqType, Sizes
<1>4. Seq(p) - Seq(q) = SeqSpace * k - SeqSpace * dp + SeqSpace * dq
  <2> DEFINE pk == SeqSpace * k
             pp == SeqSpace * dp
             pq == SeqSpace * dq
             r == Seq(p)
             s == Seq(q)
  <2>1. /\ p - q = pk /\ p = pp + r /\ q = pq + s
        /\ pk \in Int /\ pp \in Int /\ pq \in Int /\ r \in Int /\ s \in Int
    BY <1>1, <1>2, <1>3
  <2> HIDE DEF pk, pp, pq, r, s
  <2>2. r - s = pk - pp + pq
    BY <2>1
  <2> QED
    BY <2>2 DEF pk, pp, pq, r, s
<1>5. Seq(p) - Seq(q) = SeqSpace * (k - dp + dq)
  BY <1>3, <1>4
<1>6. /\ k - dp + dq \in Int /\ Seq(p) - Seq(q) \in Int
      /\ -SeqSpace < Seq(p) - Seq(q) /\ Seq(p) - Seq(q) < SeqSpace
  BY <1>3
<1>7. Seq(p) - Seq(q) = 0
  BY <1>5, <1>6, NoMultiple
<1> QED
  BY <1>3, <1>7

\* The late check, on the numbers of the packets.
LEMMA LateWithin ==
  ASSUME NEW d \in Nat, NEW n \in Int, Seq(d) = next,
         n \in d - SeqSpace \div 2 + 1 .. d - 1
  PROVE  Late(n)
<1>1. PICK dn \in Int : n = SeqSpace * dn + Seq(n)
  BY DivMod
<1>2. Seq(n) \in Int /\ Seq(d) \in Int /\ SeqSpace \in Nat \ {0}
  BY SeqType, Sizes
<1>3. PICK dd \in Int : d = SeqSpace * dd + Seq(d)
  <2>1. d \in Int
    OBVIOUS
  <2> QED
    BY <2>1, DivMod, Zenon
<1>4. (Seq(d) - Seq(n)) - (d - n) = SeqSpace * (dn - dd)
  <2> DEFINE pn == SeqSpace * dn
             pd == SeqSpace * dd
             r == Seq(n)
             s == Seq(d)
  <2>1. /\ n = pn + r /\ d = pd + s
        /\ pn \in Int /\ pd \in Int /\ r \in Int /\ s \in Int
    BY <1>1, <1>2, <1>3
  <2>2. SeqSpace * (dn - dd) = pn - pd
    BY <1>2
  <2> HIDE DEF pn, pd, r, s
  <2>3. (s - r) - (d - n) = pn - pd
    BY <2>1
  <2> QED
    BY <2>2, <2>3 DEF r, s
<1>5. Seq(Seq(d) - Seq(n)) = Seq(d - n)
  <2>1. Seq(d) - Seq(n) \in Int /\ d - n \in Int /\ dn - dd \in Int
    BY <1>2
  <2> QED
    BY <1>4, <2>1, SeqShift, Zenon
<1>6. d - n \in 1 .. SeqSpace \div 2 - 1 /\ SeqSpace \div 2 - 1 < SeqSpace
  BY <1>2
<1>7. Seq(d - n) = d - n
  <2>1. d - n \in 0 .. SeqSpace - 1
    BY <1>2, <1>6
  <2> QED
    BY <1>2, <2>1 DEF Seq
<1>8. (next - Seq(n)) % SeqSpace = d - n
  BY <1>5, <1>7 DEF Seq
<1> QED
  BY <1>6, <1>8 DEF Late

\* What the counter's modulo says, without the modulo.
LEMMA Counted ==
  ASSUME NEW x \in -1 .. Width, NEW c \in 0 .. Width - 1
  PROVE  x % Width = c <=> x = c \/ (x = -1 /\ c = Width - 1) \/ (x = Width /\ c = 0)
<1>1. Width \in Nat \ {0}
  BY Sizes
<1>2. CASE x = -1
  <2>1. x % Width = Width - 1
    BY <1>1, <1>2
  <2> QED
    BY <1>1, <1>2, <2>1
<1>3. CASE x = Width
  <2>1. x % Width = 0
    BY <1>1, <1>3
  <2> QED
    BY <1>1, <1>3, <2>1
<1>4. CASE x \in 0 .. Width - 1
  <2>1. x % Width = x
    BY <1>1, <1>4
  <2> QED
    BY <1>1, <1>4, <2>1
<1> QED
  BY <1>1, <1>2, <1>3, <1>4

-----------------------------------------------------------------------------
\* The depths are packets, at least one.
LEMMA Depths ==
  ASSUME NEW m \in {"sync", "jam"}
  PROVE  Initial(m) \in 1 .. Largest(m) /\ Largest(m) \in Nat
BY JitterAssumption DEF Initial, Largest

\* A sequence number is its own.
LEMMA SeqOfNext ==
  ASSUME TypeOK
  PROVE  Seq(next) = next /\ Home(next) \in Homes /\ next \in Int /\ Home(pkt) \in Homes
<1>1. next \in 0 .. SeqSpace - 1 /\ pkt \in Nat
  BY DEF TypeOK
<1>2. next \in Int /\ pkt \in Int
  BY <1>1, Sizes
<1>3. Seq(next) \in 0 .. SeqSpace - 1 /\ Seq(Seq(next)) = Seq(next)
  <2>1. Seq(next) \in Int /\ Seq(next) + 0 = Seq(next) /\ next + 0 = next
    BY <1>2, SeqType, Sizes
  <2> QED
    BY <1>2, <2>1, SeqAdd, SeqType
<1>4. Seq(next) = next
  <2>1. Seq(next) - next < SeqSpace /\ next - Seq(next) < SeqSpace
    BY <1>1, <1>3, Sizes
  <2> QED
    BY <1>2, <1>3, <2>1, SameSeq, Sizes
<1> QED
  BY <1>2, <1>4, SeqType

\* ready() implies that the packet due is there.
LEMMA ReadyHolds ==
  ASSUME TypeOK, Ready
  PROVE  occupied[Home(next)] /\ Seq(packet[Home(next)]) = next
<1>1. 0 \in 0 .. target - 1
  BY Depths DEF TypeOK
<1>2. next + 0 = next /\ Seq(next) = next
  BY SeqOfNext
<1>3. Holds(0)
  BY <1>1 DEF Ready
<1> QED
  BY <1>2, <1>3 DEF Holds

\* The buffer starts empty.
LEMMA InitInv == Init => IInv
<1> SUFFICES ASSUME Init PROVE IInv
  OBVIOUS
<1>1. TypeOK
  <2>1. mode \in {"sync", "jam"} /\ target \in 1 .. Largest(mode)
    BY Depths DEF Init
  <2>2. next \in 0 .. SeqSpace - 1 /\ occupancy \in 0 .. Width - 1
    BY Sizes DEF Init
  <2>3. pkt \in Nat /\ head \in Nat
    BY Sizes DEF Init
  <2> QED
    BY <2>1, <2>2, <2>3 DEF Init, TypeOK
<1>2. Fresh /\ Filling /\ Stored /\ Held /\ Placed /\ Ordered
  BY Sizes DEF Init, Fresh, Filling, Stored, Held, Placed, Ordered, Homes
<1>3. OccupancyExact
  <2>1. {h \in Homes : occupied[h]} = {}
    BY DEF Init
  <2>2. Cardinality({h \in Homes : occupied[h]}) = 0
    BY <2>1, FS_EmptySet
  <2>3. 0 % Width = 0
    BY Sizes
  <2>4. OccupancyExact <=> (0 + 0 - 0) % Width = 0
    BY <2>2 DEF OccupancyExact, Init
  <2> QED
    BY <2>3, <2>4
<1> QED
  BY <1>1, <1>2, <1>3 DEF IInv

\* Every action keeps the types.
LEMMA TypesStep ==
  ASSUME TypeOK, [Next]_vars
  PROVE  TypeOK'
<1> USE DEF history
<1>1. ASSUME Send PROVE TypeOK'
  BY <1>1 DEF Send, TypeOK, buffer
<1>2. ASSUME NEW n \in First .. First + MaxSent, PushBegin(n) PROVE TypeOK'
  BY <1>2, Sizes DEF PushBegin, TypeOK, buffer
<1>3. CASE PushFirst
  BY <1>3, SeqType DEF PushFirst, TypeOK, buffer
<1>4. CASE PushCheck
  BY <1>4 DEF PushCheck, TypeOK, buffer
<1>5. CASE PushFill
  BY <1>5 DEF PushFill, TypeOK
<1>6. CASE PushPublish
  BY <1>6, SeqOfNext DEF PushPublish, TypeOK
<1>7. CASE PushCount
  BY <1>7, Sizes DEF PushCount, TypeOK, buffer
<1>8. CASE PopReady \/ PopGap \/ PopFree
  BY <1>8 DEF PopReady, PopGap, PopFree, TypeOK, buffer
<1>9. CASE PopLook
  BY <1>9, SeqType, SeqOfNext DEF PopLook, Passed, Raised, TypeOK, buffer
<1>10. CASE PopCopy
  BY <1>10, SeqOfNext DEF PopCopy, TypeOK, buffer
<1>11. CASE PopUncount
  BY <1>11, Sizes DEF PopUncount, TypeOK, buffer
<1>12. CASE PopAdvance
  BY <1>12, SeqType, SeqOfNext, Depths DEF PopAdvance, Passed, Lowered, TypeOK, buffer
<1>13. CASE Reset
  <2>1. target' \in 1 .. Largest(mode')
    BY <1>13, Depths DEF Reset, TypeOK
  <2>2. next' \in 0 .. SeqSpace - 1 /\ occupancy' \in 0 .. Width - 1
    BY <1>13, Sizes DEF Reset
  <2> QED
    BY <1>13, Sizes, <2>1, <2>2 DEF Reset, TypeOK
<1>14. ASSUME NEW m \in {"sync", "jam"}, SetMode(m) PROVE TypeOK'
  BY <1>14, Depths DEF SetMode, TypeOK, buffer
<1>15. CASE UNCHANGED vars
  BY <1>15 DEF TypeOK, vars, buffer
<1> QED
  BY <1>1, <1>2, <1>3, <1>4, <1>5, <1>6, <1>7, <1>8, <1>9, <1>10, <1>11, <1>12, <1>13,
     <1>14, <1>15 DEF Next

\* What a push or a pop under way relies on is left alone by the other.
LEMMA SlotsStep ==
  ASSUME IInv, [Next]_vars
  PROVE  Fresh' /\ Filling' /\ Stored' /\ Held'
<1> USE DEF IInv, history
<1> DEFINE Kept == Fresh' /\ Filling' /\ Stored' /\ Held'
<1>0. /\ Home(next) \in Homes /\ Home(pkt) \in Homes
      /\ None = -1 /\ First \in Nat /\ head \in Nat
  BY SeqOfNext, Sizes DEF None, TypeOK
<1>1. ASSUME Send PROVE Kept
  BY <1>0, <1>1 DEF Send, TypeOK, buffer, Fresh, Filling, Stored, Held, Sent
<1>2. ASSUME NEW n \in First .. First + MaxSent, PushBegin(n) PROVE Kept
  BY <1>0, <1>2 DEF PushBegin, buffer, Fresh, Filling, Stored, Held, Sent
<1>3. CASE PushFirst
  BY <1>0, <1>3 DEF PushFirst, buffer, Fresh, Filling, Stored, Held, Sent
<1>4. CASE PushCheck
  BY <1>0, <1>4 DEF PushCheck, buffer, Fresh, Filling, Stored, Held, Sent
<1>5. CASE PushFill
  BY <1>0, <1>5 DEF PushFill, TypeOK, Fresh, Filling, Stored, Held, Sent
<1>6. CASE PushPublish
  BY <1>0, <1>6 DEF PushPublish, TypeOK, Fresh, Filling, Stored, Held, Sent
<1>7. CASE PushCount
  BY <1>0, <1>7 DEF PushCount, buffer, Fresh, Filling, Stored, Held, Sent
<1>8. CASE PopReady
  <2>1. occupied[Home(next)] /\ Seq(packet[Home(next)]) = next
    BY <1>8, ReadyHolds DEF PopReady
  <2> QED
    BY <1>0, <1>8, <2>1 DEF PopReady, buffer, Fresh, Filling, Stored, Held, Sent
<1>9. CASE PopGap
  BY <1>0, <1>9 DEF PopGap, buffer, Fresh, Filling, Stored, Held, Sent
<1>10. CASE PopLook
  BY <1>0, <1>10 DEF PopLook, buffer, Fresh, Filling, Stored, Held, Sent
<1>11. CASE PopCopy
  BY <1>0, <1>11 DEF PopCopy, buffer, Fresh, Filling, Stored, Held, Sent
<1>12. CASE PopFree
  BY <1>0, <1>12 DEF PopFree, TypeOK, Fresh, Filling, Stored, Held, Sent
<1>13. CASE PopUncount
  BY <1>0, <1>13 DEF PopUncount, buffer, Fresh, Filling, Stored, Held, Sent
<1>14. CASE PopAdvance
  BY <1>0, <1>14 DEF PopAdvance, buffer, Fresh, Filling, Stored, Held, Sent
<1>15. CASE Reset
  BY <1>0, <1>15 DEF Reset, Fresh, Filling, Stored, Held, Sent
<1>16. ASSUME NEW m \in {"sync", "jam"}, SetMode(m) PROVE Kept
  BY <1>0, <1>16 DEF SetMode, buffer, Fresh, Filling, Stored, Held, Sent
<1>17. CASE UNCHANGED vars
  BY <1>0, <1>17 DEF vars, buffer, Fresh, Filling, Stored, Held, Sent
<1> QED
  BY <1>1, <1>2, <1>3, <1>4, <1>5, <1>6, <1>7, <1>8, <1>9, <1>10, <1>11, <1>12, <1>13,
     <1>14, <1>15, <1>16, <1>17 DEF Next

-----------------------------------------------------------------------------
\* The occupied slots are finite in number, at most all.
LEMMA FullBound ==
  ASSUME NEW flags
  PROVE  /\ IsFiniteSet({h \in Homes : flags[h]})
         /\ Cardinality({h \in Homes : flags[h]}) \in 0 .. Slots
<1> DEFINE full == {h \in Homes : flags[h]}
<1>1. IsFiniteSet(Homes) /\ Cardinality(Homes) = Slots
  <2>1. 0 \in Int /\ Slots - 1 \in Int /\ ~(0 > Slots - 1) /\ Slots - 1 - 0 + 1 = Slots
    BY Sizes
  <2> QED
    BY <2>1, FS_Interval DEF Homes
<1>2. full \in SUBSET Homes
  OBVIOUS
<1> HIDE DEF full
<1>3. IsFiniteSet(full) /\ Cardinality(full) <= Slots
  BY <1>1, <1>2, FS_Subset
<1>4. Cardinality(full) \in Nat
  BY <1>3, FS_CardinalityType
<1>5. Cardinality(full) \in 0 .. Slots
  BY <1>3, <1>4, Sizes
<1> QED
  BY <1>3, <1>5 DEF full

\* The counter agrees, without the modulo.
Agrees ==
  \/ Level = Cardinality(Full)
  \/ Level = -1 /\ Cardinality(Full) = Width - 1
  \/ Level = Width /\ Cardinality(Full) = 0

\* The level is the counter, or one beside it.
InBounds == Level \in -1 .. Width

\* Where it is, from where the counter is.
LEMMA LevelBounds ==
  ASSUME NEW o \in 0 .. Width - 1, NEW p, NEW c
  PROVE  o + (IF p = "count" THEN 1 ELSE 0) - (IF c = "uncount" THEN 1 ELSE 0) \in -1 .. Width
BY Sizes

\* One more, or one less, around the end of the counter.
LEMMA Turned ==
  ASSUME NEW n \in 0 .. Width - 1
  PROVE  /\ (n + 1) % Width = IF n = Width - 1 THEN 0 ELSE n + 1
         /\ (n - 1) % Width = IF n = 0 THEN Width - 1 ELSE n - 1
<1>1. Width \in Nat \ {0} /\ n + 1 \in -1 .. Width /\ n - 1 \in -1 .. Width
  BY Sizes
<1>2. CASE n = Width - 1
  <2>1. (n + 1) % Width = 0
    BY <1>1, <1>2, Counted
  <2> QED
    BY <1>1, <1>2, <2>1
<1> QED
  BY <1>1

\* Whichever of its four steps the two calls take, the counter follows.
LEMMA CountStep ==
  ASSUME IInv, TypeOK', [Next]_vars
  PROVE  OccupancyExact'
<1>0. /\ TypeOK /\ occupancy \in 0 .. Width - 1
      /\ Cardinality(Full) \in 0 .. Slots /\ IsFiniteSet(Full)
      /\ Slots \in Nat /\ Width \in Nat /\ Slots < Width
  BY FullBound, Sizes DEF IInv, TypeOK, Full
<1>Now. Agrees
  <2>1. Level \in -1 .. Width /\ Cardinality(Full) \in 0 .. Width - 1
    BY <1>0 DEF Level
  <2>2. Level % Width = Cardinality(Full)
    BY DEF IInv, OccupancyExact, Level, Full
  <2> QED
    BY <2>1, <2>2, Counted DEF Agrees
<1>Bound. Cardinality(Full') \in 0 .. Slots
  BY FullBound DEF Full
<1>1. SUFFICES Agrees'
  <2>1. occupancy' \in 0 .. Width - 1 /\ Cardinality(Full') \in 0 .. Width - 1
    BY <1>0, <1>Bound DEF TypeOK
  <2>2. InBounds'
    BY <2>1, LevelBounds DEF InBounds, Level
  <2>3. Agrees' => Level' % Width = Cardinality(Full')
    BY <2>1, <2>2, Counted DEF InBounds, Agrees
  <2> QED
    BY <2>3 DEF OccupancyExact, Level, Full
<1>2. CASE PushPublish
  <2>1. Home(pkt) \notin Full /\ Full' = Full \union {Home(pkt)}
    BY <1>0, <1>2, SeqOfNext DEF PushPublish, IInv, Filling, Full, TypeOK
  <2>2. Cardinality(Full') = Cardinality(Full) + 1
    BY <1>0, <2>1, FS_AddElement
  <2>3. Level' = Level + 1 /\ Level \in -1 .. Width - 1
    BY <1>0, <1>2 DEF PushPublish, Level
  <2> QED
    BY <1>0, <1>Now, <1>Bound, <2>2, <2>3 DEF Agrees
<1>3. CASE PopFree
  <2>1. Home(next) \in Full /\ Full' = Full \ {Home(next)}
    BY <1>0, <1>3, SeqOfNext DEF PopFree, IInv, Held, Full, TypeOK
  <2>2. Cardinality(Full') = Cardinality(Full) - 1
    BY <1>0, <2>1, FS_RemoveElement
  <2>3. Level' = Level - 1 /\ Level \in 0 .. Width
    BY <1>0, <1>3 DEF PopFree, Level
  <2> QED
    BY <1>0, <1>Now, <1>Bound, <2>2, <2>3 DEF Agrees
<1>4. CASE PushCount
  <2>1. Full' = Full /\ occupancy' = IF occupancy = Width - 1 THEN 0 ELSE occupancy + 1
    BY <1>0, <1>4, Turned DEF PushCount, buffer, Full
  <2> QED
    BY <1>0, <1>4, <1>Now, <2>1 DEF PushCount, Level, Agrees
<1>5. CASE PopUncount
  <2>1. Full' = Full /\ occupancy' = IF occupancy = 0 THEN Width - 1 ELSE occupancy - 1
    BY <1>0, <1>5, Turned DEF PopUncount, buffer, Full
  <2> QED
    BY <1>0, <1>5, <1>Now, <2>1 DEF PopUncount, Level, Agrees
<1>6. CASE Reset
  <2>1. Full' = {}
    BY <1>6 DEF Reset, Full
  <2>2. Cardinality(Full') = 0
    BY <2>1, FS_EmptySet
  <2> QED
    BY <1>6, <2>2 DEF Reset, Level, Agrees
<1>7. CASE Full' = Full /\ Level' = Level
  BY <1>7, <1>Now DEF Agrees
<1>8. ASSUME NEW n \in First .. First + MaxSent, PushBegin(n)
      PROVE  Full' = Full /\ Level' = Level
  BY <1>8 DEF PushBegin, buffer, Full, Level
<1>9. ASSUME NEW m \in {"sync", "jam"}, SetMode(m)
      PROVE  Full' = Full /\ Level' = Level
  BY <1>9 DEF SetMode, buffer, Full, Level
<1>10. CASE Send \/ PushFirst \/ PushCheck \/ PushFill
  <2>1. Full' = Full /\ Level' = Level
    BY <1>10 DEF Send, PushFirst, PushCheck, PushFill, buffer, Full, Level
  <2> QED
    BY <1>7, <2>1
<1>11. CASE PopReady \/ PopGap \/ PopLook \/ PopCopy \/ PopAdvance
  <2>1. Full' = Full /\ Level' = Level
    BY <1>11 DEF PopReady, PopGap, PopLook, PopCopy, PopAdvance, buffer, Full, Level
  <2> QED
    BY <1>7, <2>1
<1>12. CASE UNCHANGED vars
  <2>1. Full' = Full /\ Level' = Level
    BY <1>12 DEF vars, buffer, Full, Level
  <2> QED
    BY <1>7, <2>1
<1> QED
  BY <1>2, <1>3, <1>4, <1>5, <1>6, <1>7, <1>8, <1>9, <1>10, <1>11, <1>12 DEF Next

-----------------------------------------------------------------------------
\* Counting on passes only the packet due.
LEMMA CountedOn ==
  ASSUME NEW n \in Nat, NEW d \in Nat, n \in d .. d + SeqSpace \div 2, n # d
  PROVE  n \in d + 1 .. (d + 1) + SeqSpace \div 2
BY Sizes

\* pop() counting on: the packet due is played, missing or left behind.
LEMMA CountsOn ==
  ASSUME IInv, TypeOK', started, ppc # "first",
         due' = due + 1, next' = Seq(next + 1), astray' = astray \cup Passed,
         UNCHANGED buffer
  PROVE  Placed'
<1>1. /\ due \in Nat /\ packet \in [Homes -> Nat \cup {None}] /\ Seq(due) = next
      /\ \A h \in Homes : occupied[h] /\ h \notin astray => Ahead(packet[h])
      /\ \A h \in Homes : occupied[h] => packet[h] \in First .. head - 1
  BY DEF IInv, TypeOK, Placed, Stored, Sent
<1>2. Seq(Seq(due) + 1) = Seq(due + 1)
  <2>1. due \in Int /\ 1 \in Int
    BY <1>1
  <2> QED
    BY <2>1, SeqAdd, Zenon
<1>3. ASSUME NEW h \in Homes, occupied'[h], h \notin astray'
      PROVE  Ahead(packet[h])'
  <2>1. occupied[h] /\ packet'[h] = packet[h] /\ h \notin astray /\ h \notin Passed
    BY <1>3 DEF buffer
  <2>2. packet[h] \in Nat /\ packet[h] # due
    BY <1>1, <2>1, Sizes DEF Passed, IInv, TypeOK
  <2>3. packet[h] \in due + 1 .. (due + 1) + SeqSpace \div 2
    BY <1>1, <2>1, <2>2, CountedOn, Zenon DEF Ahead
  <2> QED
    BY <2>1, <2>3 DEF Ahead
<1> QED
  BY <1>1, <1>2, <1>3 DEF Placed

\* Every packet waiting stays within reach of the number due.
LEMMA PlaceStep ==
  ASSUME IInv, TypeOK', [Next]_vars
  PROVE  Placed'
<1>0. Home(pkt) \in Homes
  BY SeqOfNext DEF IInv
<1>1. ASSUME UNCHANGED <<buffer, next, due, astray>>,
             started' /\ ppc' # "first" => started /\ ppc # "first"
      PROVE  Placed'
  BY <1>1 DEF IInv, Placed, Ahead, buffer
<1>2. CASE Send
  BY <1>1, <1>2 DEF Send, history
<1>3. ASSUME NEW n \in First .. First + MaxSent, PushBegin(n) PROVE Placed'
  BY <1>1, <1>3 DEF PushBegin, history
<1>4. CASE PushFirst
  BY <1>4 DEF PushFirst, IInv, Fresh, Placed, buffer
<1>5. CASE PushCheck \/ PushCount
  BY <1>1, <1>5 DEF PushCheck, PushCount, history
<1>6. CASE PushFill
  <2>1. /\ occupied' = occupied /\ next' = next /\ due' = due /\ astray' = astray
        /\ started' = started /\ ~occupied[Home(pkt)] /\ ppc # "first"
        /\ \A h \in Homes : h # Home(pkt) => packet'[h] = packet[h]
    BY <1>0, <1>6 DEF PushFill, history, IInv, Filling, TypeOK
  <2> QED
    BY <2>1 DEF IInv, Placed, Ahead
<1>7. CASE PushPublish
  <2>1. /\ next' = next /\ due' = due /\ packet' = packet /\ packet[Home(pkt)] = pkt
        /\ started' = started /\ ppc # "first"
        /\ \A h \in Homes : h # Home(pkt) => occupied'[h] = occupied[h]
        /\ \A h \in Homes : h # Home(pkt) => (h \in astray' <=> h \in astray)
        /\ Home(pkt) \notin astray' => Ahead(pkt)
    BY <1>0, <1>7 DEF PushPublish, IInv, Filling, TypeOK
  <2> QED
    BY <2>1 DEF IInv, Placed, Ahead
<1>8. CASE PopReady \/ PopGap \/ PopCopy \/ PopUncount
  BY <1>1, <1>8 DEF PopReady, PopGap, PopCopy, PopUncount, history
<1>9. CASE PopLook
  <2>1. CASE \E i \in 1 .. Look : Holds(i)
    <3>1. PICK i \in 1 .. Look : Holds(i)
      BY <2>1
    <3>2. Home(next + i) \in Homes /\ occupied[Home(next + i)]
      BY <3>1, SeqType, SeqOfNext, JitterAssumption DEF Holds, IInv
    <3>3. started /\ ppc # "first"
      BY <3>2 DEF IInv, Fresh
    <3> QED
      BY <1>9, <2>1, <3>3, CountsOn DEF PopLook
  <2>2. CASE ~\E i \in 1 .. Look : Holds(i)
    BY <1>1, <1>9, <2>2 DEF PopLook
  <2> QED
    BY <2>1, <2>2
<1>10. CASE PopFree
  <2>1. /\ next' = next /\ due' = due /\ packet' = packet /\ astray' = astray
        /\ started' = started /\ ppc' = ppc
        /\ \A h \in Homes : occupied'[h] => occupied[h]
    BY <1>10, SeqOfNext DEF PopFree, history, IInv, TypeOK
  <2> QED
    BY <2>1 DEF IInv, Placed, Ahead
<1>11. CASE PopAdvance
  <2>1. started /\ ppc # "first"
    BY <1>11 DEF PopAdvance, IInv, Fresh
  <2> QED
    BY <1>11, <2>1, CountsOn DEF PopAdvance
<1>12. CASE Reset
  BY <1>12 DEF Reset, Placed
<1>13. ASSUME NEW m \in {"sync", "jam"}, SetMode(m) PROVE Placed'
  BY <1>1, <1>13 DEF SetMode, history
<1>14. CASE UNCHANGED vars
  BY <1>1, <1>14 DEF vars, history
<1> QED
  BY <1>2, <1>3, <1>4, <1>5, <1>6, <1>7, <1>8, <1>9, <1>10, <1>11, <1>12, <1>13,
     <1>14 DEF Next

\* What pop() copies out of a slot that is not astray is the packet due.
LEMMA CopiesDue ==
  ASSUME IInv, PopCopy, Home(next) \notin astray
  PROVE  played' = due
<1>1. /\ started /\ ppc # "first" /\ played' = packet[Home(next)]
      /\ Home(next) \in Homes /\ occupied[Home(next)] /\ Seq(packet[Home(next)]) = next
  BY SeqOfNext DEF PopCopy, IInv, Fresh, Held
<1>2. Seq(due) = next /\ Ahead(packet[Home(next)]) /\ due \in Nat
  BY <1>1 DEF IInv, Placed, TypeOK
<1>3. /\ packet[Home(next)] \in Int /\ due \in Int
      /\ due - packet[Home(next)] < SeqSpace /\ packet[Home(next)] - due < SeqSpace
  BY <1>2, Sizes DEF Ahead
<1>4. packet[Home(next)] = due
  BY <1>1, <1>2, <1>3, SameSeq
<1> QED
  BY <1>1, <1>4

\* The packet due stays in front of everything heard.
LEMMA OrderStep ==
  ASSUME IInv, TypeOK', [Next]_vars
  PROVE  Ordered'
<1>0. due \in Nat /\ heard \in Nat \cup {None} /\ None = -1
  BY DEF IInv, TypeOK, None
<1>1. ASSUME UNCHANGED <<due, heard>>, cpc' \in Taken <=> cpc \in Taken,
             started' /\ ppc' # "first" => started /\ ppc # "first"
      PROVE  Ordered'
  BY <1>1 DEF IInv, Ordered
<1>2. CASE Send
  BY <1>1, <1>2 DEF Send, history
<1>3. ASSUME NEW n \in First .. First + MaxSent, PushBegin(n) PROVE Ordered'
  BY <1>1, <1>3 DEF PushBegin, history
<1>4. CASE PushFirst
  BY <1>4 DEF PushFirst, IInv, Fresh, Ordered
<1>5. CASE PushCheck \/ PushFill \/ PushPublish \/ PushCount
  BY <1>1, <1>5 DEF PushCheck, PushFill, PushPublish, PushCount, history
<1>6. CASE PopReady \/ PopGap \/ PopFree \/ PopUncount
  BY <1>1, <1>6 DEF PopReady, PopGap, PopFree, PopUncount, Taken, history
<1>7. CASE PopLook
  <2>1. cpc = "look" /\ cpc' = "idle" /\ due' \in {due, due + 1} /\ heard' = heard
        /\ started' = started /\ ppc' = ppc
    BY <1>7 DEF PopLook
  <2>2. started /\ ppc # "first" /\ heard # None => heard < due
    BY <2>1 DEF IInv, Ordered, Taken
  <2> QED
    BY <1>0, <2>1, <2>2 DEF Ordered, Taken
<1>8. CASE PopCopy
  <2>1. cpc = "copy" /\ cpc' = "free" /\ due' = due /\ started /\ ppc # "first"
    BY <1>8 DEF PopCopy, IInv, Fresh
  <2>2. heard # None => heard < due
    BY <2>1 DEF IInv, Ordered, Taken
  <2>3. heard' \in {heard, due}
    BY <1>8, CopiesDue DEF PopCopy
  <2> QED
    BY <1>0, <2>1, <2>2, <2>3 DEF Ordered, Taken
<1>9. CASE PopAdvance
  <2>1. cpc = "advance" /\ cpc' = "idle" /\ due' = due + 1 /\ heard' = heard
        /\ started' = started /\ ppc' = ppc
    BY <1>9 DEF PopAdvance
  <2>2. started /\ ppc # "first" /\ heard # None => heard <= due
    BY <2>1 DEF IInv, Ordered, Taken
  <2> QED
    BY <1>0, <2>1, <2>2 DEF Ordered, Taken
<1>10. CASE Reset
  BY <1>10 DEF Reset, Ordered
<1>11. ASSUME NEW m \in {"sync", "jam"}, SetMode(m) PROVE Ordered'
  BY <1>1, <1>11 DEF SetMode, history
<1>12. CASE UNCHANGED vars
  BY <1>1, <1>12 DEF vars, history
<1> QED
  BY <1>2, <1>3, <1>4, <1>5, <1>6, <1>7, <1>8, <1>9, <1>10, <1>11, <1>12 DEF Next

-----------------------------------------------------------------------------
\* The inductive invariant: types, slots, counter and order together.
THEOREM JitterInvariant == Spec => []IInv
<1>1. IInv /\ [Next]_vars => IInv'
  BY TypesStep, SlotsStep, CountStep, PlaceStep, OrderStep DEF IInv
<1> QED
  BY <1>1, InitInv, PTL DEF Spec

\* Type correctness for any depth, slots and sequence space.
THEOREM JitterTypeOK == Spec => []TypeOK
<1>1. IInv => TypeOK
  BY DEF IInv
<1> QED
  BY <1>1, JitterInvariant, PTL

\* push() never copies into the slot pop() copies out of: the one has found it
\* free, the other occupied, and each leaves it so until it is done.
THEOREM JitterNoTornPacket == Spec => []NoTornPacket
<1>1. IInv => NoTornPacket
  BY DEF IInv, Filling, Held, NoTornPacket
<1> QED
  BY <1>1, JitterInvariant, PTL

\* pop() hands over the packet whose sequence number is due.
THEOREM JitterPlayedIntact == Spec => []PlayedIntact
<1>1. IInv => PlayedIntact
  <2> SUFFICES ASSUME IInv, cpc = "free" PROVE played # None /\ Seq(played) = next
    BY DEF PlayedIntact
  <2>1. Home(next) \in Homes /\ occupied[Home(next)] /\ Seq(packet[Home(next)]) = next
        /\ played = packet[Home(next)]
    BY SeqOfNext DEF IInv, Held
  <2>2. packet[Home(next)] \in First .. head - 1
    BY <2>1 DEF IInv, Stored, Sent
  <2> QED
    BY <2>1, <2>2, Sizes DEF None, IInv, TypeOK
<1> QED
  BY <1>1, JitterInvariant, PTL

\* occupancy_ is the number of packets in the buffer but for calls under way,
\* modulo the width of the counter.
THEOREM JitterOccupancyExact == Spec => []OccupancyExact
<1>1. IInv => OccupancyExact
  BY DEF IInv
<1> QED
  BY <1>1, JitterInvariant, PTL

\* What pop() hands over is newer than everything heard before, but for a packet
\* of another cycle of sequence numbers that was left in its slot; and push()
\* takes in no packet less than half a sequence space late.
THEOREM JitterPlayedInOrder == Spec => PlayedInOrder
<1>1. ASSUME IInv, [Next]_vars, cpc = "copy", cpc' = "free",
             Home(next) \notin astray, heard # None
      PROVE  played' > heard
  <2>1. PopCopy
    BY <1>1 DEF Next, vars, Send, PushBegin, PushFirst, PushCheck, PushFill, PushPublish,
           PushCount, PopReady, PopGap, PopLook, PopCopy, PopFree, PopUncount, PopAdvance,
           Reset, SetMode
  <2>2. played' = due
    BY <1>1, <2>1, CopiesDue
  <2>3. heard < due
    BY <1>1 DEF IInv, Fresh, Ordered, Taken
  <2> QED
    BY <1>1, <2>2, <2>3 DEF IInv, TypeOK, None
<1>2. ASSUME IInv, [Next]_vars, started, ppc = "idle", ppc' = "check"
      PROVE  pkt' \notin due - SeqSpace \div 2 + 1 .. due - 1
  <2>1. PICK n \in First .. First + MaxSent : PushBegin(n)
    BY <1>2 DEF Next, vars, Send, PushFirst, PushCheck, PushFill, PushPublish,
           PushCount, PopReady, PopGap, PopLook, PopCopy, PopFree, PopUncount, PopAdvance,
           Reset, SetMode
  <2>2. pkt' = n /\ ~Late(n) /\ n \in Int
    BY <1>2, <2>1, Sizes DEF PushBegin
  <2>3. Seq(due) = next /\ due \in Nat
    BY <1>2 DEF IInv, Placed, TypeOK
  <2> QED
    BY <2>2, <2>3, LateWithin
<1>3. IInv /\ [Next]_vars =>
        [/\ cpc = "copy" /\ cpc' = "free"
              => Home(next) \in astray \/ heard = None \/ played' > heard
         /\ started /\ ppc = "idle" /\ ppc' = "check"
              => pkt' \notin due - SeqSpace \div 2 + 1 .. due - 1]_vars
  BY <1>1, <1>2
<1> QED
  BY <1>3, JitterInvariant, PTL DEF Spec, PlayedInOrder

=============================================================================
