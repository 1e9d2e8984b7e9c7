---------------------------- MODULE JitterBuffer ----------------------------
(***************************************************************************)
(* The lock-free jitter buffer of the WiFi receiver                        *)
(* (src/wifi/jitter_buffer.cpp): the network thread pushes packets into    *)
(* the slot of their 16-bit sequence number, the audio thread pops them in *)
(* order.  The threads share the slots, next_sequence_, started_ and the   *)
(* counter occupancy_; each plain or atomic access the other thread can    *)
(* notice is a step of its own.  A scan over the slots is one step: only   *)
(* push() sets an occupied flag and only pop() clears one, so a scan of    *)
(* pop() sees what it would see at one instant.                            *)
(*                                                                         *)
(* Packets are numbered by the sender without wrapping; the number stands  *)
(* for the payload.  Depths are counted in packets, rounded up.            *)
(***************************************************************************)
EXTENDS Integers, FiniteSets

CONSTANTS
  SeqSpace,       \* 2^16 in the code
  Slots,          \* kSlotCount, 512 in the code
  Width,          \* values of a uint32_t, 2^32 in the code
  Look,           \* packets the gap check looks ahead, 16 in the code
  SyncDepth, SyncMax,   \* initial and largest depth of StreamMode::Sync
  JamDepth, JamMax,     \* the same for StreamMode::Jam
  First,          \* number of the sender's first packet
  MaxSent,        \* bound: packets sent in one behaviour
  Reorder         \* bound: a packet arrives before that many later ones are sent

ASSUME JitterAssumption ==
  /\ Slots \in Nat \ {0} /\ SeqSpace \in Nat \ {0} /\ SeqSpace % Slots = 0
  /\ Width \in Nat /\ Width > Slots
  /\ Look \in 1 .. Slots - 1 /\ SyncMax \in Nat /\ JamMax \in Nat
  /\ SyncDepth \in 1 .. SyncMax /\ JamDepth \in 1 .. JamMax
  /\ SyncMax <= Slots /\ JamMax <= Slots
  /\ First \in Nat /\ MaxSent \in Nat /\ Reorder \in Nat

VARIABLES
  occupied,       \* Slot::occupied
  packet,         \* Slot::sequence and Slot::data: number of the packet
  started, next,  \* started_, next_sequence_
  mode, target,   \* config_.mode and target_depth_ms_, in packets
  occupancy,      \* occupancy_, a uint32_t
  ppc, pkt,       \* network thread: step of push() and its packet
  cpc,            \* audio thread: step of pop()
  played,         \* the last packet pop() handed over, or None
  head,           \* number of the next packet to be sent
  due,            \* history: next_sequence_ without wrapping
  astray,         \* history: slots filled with a packet of another cycle
  heard           \* history: the last packet played that was not one of those

buffer == <<occupied, packet>>
history == <<due, astray, heard>>
vars == <<buffer, started, next, mode, target, occupancy, ppc, pkt, cpc, played, head,
          history>>

None == -1
Homes == 0 .. Slots - 1
Seq(n) == n % SeqSpace          \* the uint16_t on the wire
Home(n) == n % Slots            \* sequence & kSlotMask

Initial(m) == IF m = "sync" THEN SyncDepth ELSE JamDepth
Largest(m) == IF m = "sync" THEN SyncMax ELSE JamMax

\* seq_diff(next_sequence_, sequence) > 0, on int16_t.
Late(n) == (next - Seq(n)) % SeqSpace \in 1 .. SeqSpace \div 2 - 1

\* Mutant: the sequence number in the slot is not compared.
HoldsAny(i) == occupied[Home(next + i)]

\* Slot of next_sequence_ + i is occupied by that very sequence number.
Holds(i) ==
  LET h == Home(next + i)
  IN  occupied[h] /\ Seq(packet[h]) = Seq(next + i)

\* The next packet from the one due on with its sequence number.
Ahead(n) == n \in due .. due + SeqSpace \div 2

\* What pop() leaves behind when it counts on: the packet due, published
\* between the gap check and the skip, or once more after it was played.
Passed == {h \in Homes : occupied[h] /\ packet[h] = due}

\* ready(): as many consecutive packets as the target depth asks for.
Ready == \A i \in 0 .. target - 1 : Holds(i)

\* Mutant: max_depth_ms is not applied.
RaisedUncapped == {d \in target .. 2 * target : 2 * d <= 3 * target + 1}

\* adapt_depth(): half as much again; rounding to packets leaves a choice.
Raised == {d \in target .. Largest(mode) : 2 * d <= 3 * target + 1}

\* A successful pop() takes depth_decrease_rate off, rarely a whole packet.
Lowered == {d \in {target, target - 1} : d >= 1}
-----------------------------------------------------------------------------
Init ==
  /\ occupied = [h \in Homes |-> FALSE] /\ packet = [h \in Homes |-> None]
  /\ started = FALSE /\ next = 0
  /\ mode \in {"sync", "jam"} /\ target = Initial(mode)
  /\ occupancy = 0
  /\ ppc = "idle" /\ pkt = First /\ cpc = "idle"
  /\ played = None /\ head = First
  /\ due = First /\ astray = {} /\ heard = None

\* The sender sends; the network may lose the packet by never delivering it.
Send ==
  /\ head < First + MaxSent
  /\ head' = head + 1
  /\ UNCHANGED <<buffer, started, next, mode, target, occupancy, ppc, pkt, cpc, played, history>>

\* push(): the late check, passed.  Packets may come out of order and twice.
PushBegin(n) ==
  /\ ppc = "idle"
  /\ n \in First .. head - 1 /\ head - n <= Reorder
  /\ started => ~Late(n)
  /\ pkt' = n
  /\ ppc' = IF started THEN "check" ELSE "first"
  /\ started' = TRUE
  /\ UNCHANGED <<buffer, next, mode, target, occupancy, cpc, played, head, history>>

\* push(): "Initialize on first packet", after started_ is set.
PushFirst ==
  /\ ppc = "first"
  /\ next' = Seq(pkt) /\ due' = pkt
  /\ ppc' = "check"
  /\ UNCHANGED <<buffer, started, mode, target, occupancy, pkt, cpc, played, head, astray,
                 heard>>

\* Mutant: the newer packet replaces the older one.
PushCheckReplaces ==
  /\ ppc = "check"
  /\ ppc' = "fill"
  /\ UNCHANGED <<buffer, started, next, mode, target, occupancy, pkt, cpc, played, head, history>>

\* push(): an occupied slot ends it, as overflow or as duplicate.
PushCheck ==
  /\ ppc = "check"
  /\ ppc' = IF occupied[Home(pkt)] THEN "idle" ELSE "fill"
  /\ UNCHANGED <<buffer, started, next, mode, target, occupancy, pkt, cpc, played, head, history>>

\* push(): sequence and payload are copied in.
PushFill ==
  /\ ppc = "fill"
  /\ packet' = [packet EXCEPT ![Home(pkt)] = pkt]
  /\ ppc' = "publish"
  /\ UNCHANGED <<occupied, started, next, mode, target, occupancy, pkt, cpc, played, head, history>>

\* push(): the release store of occupied.
PushPublish ==
  /\ ppc = "publish"
  /\ occupied' = [occupied EXCEPT ![Home(pkt)] = TRUE]
  /\ astray' = IF Ahead(pkt) THEN astray \ {Home(pkt)} ELSE astray \cup {Home(pkt)}
  /\ ppc' = "count"
  /\ UNCHANGED <<packet, started, next, mode, target, occupancy, pkt, cpc, played, head, due,
                 heard>>

\* push(): occupancy_.fetch_add.
PushCount ==
  /\ ppc = "count"
  /\ occupancy' = (occupancy + 1) % Width
  /\ ppc' = "idle"
  /\ UNCHANGED <<buffer, started, next, mode, target, pkt, cpc, played, head, history>>

\* Mutant: the slot is given up before it is copied.
PopReadyGivesUp ==
  /\ cpc = "idle" /\ started
  /\ Ready
  /\ cpc' = "copy"
  /\ occupied' = [occupied EXCEPT ![Home(next)] = FALSE]
  /\ UNCHANGED <<packet, started, next, mode, target, occupancy, ppc, pkt, played, head, history>>

\* pop(): deep enough, and then the packet due is there: the branch that skips
\* a missing packet after ready() needs a target depth of zero.
PopReady ==
  /\ cpc = "idle" /\ started
  /\ Ready
  /\ cpc' = "copy"
  /\ UNCHANGED <<buffer, started, next, mode, target, occupancy, ppc, pkt, played, head, history>>

\* pop(): not ready, and the packet due is missing.
PopGap ==
  /\ cpc = "idle" /\ started
  /\ ~Ready /\ ~Holds(0)
  /\ cpc' = "look"
  /\ UNCHANGED <<buffer, started, next, mode, target, occupancy, ppc, pkt, played, head, history>>

\* pop(): "Future packet exists", skip the missing one.
PopLook ==
  /\ cpc = "look"
  /\ cpc' = "idle"
  /\ IF \E i \in 1 .. Look : Holds(i)
     THEN /\ next' = Seq(next + 1) /\ due' = due + 1
          /\ astray' = astray \cup Passed
          /\ target' \in Raised
     ELSE UNCHANGED <<next, target, due, astray>>
  /\ UNCHANGED <<buffer, started, mode, occupancy, ppc, pkt, played, head, heard>>

\* pop(): the payload is copied out.
PopCopy ==
  /\ cpc = "copy"
  /\ played' = packet[Home(next)]
  /\ heard' = IF Home(next) \in astray THEN heard ELSE played'
  /\ cpc' = "free"
  /\ UNCHANGED <<buffer, started, next, mode, target, occupancy, ppc, pkt, head, due,
                 astray>>

\* pop(): the release store of occupied.
PopFree ==
  /\ cpc = "free"
  /\ occupied' = [occupied EXCEPT ![Home(next)] = FALSE]
  /\ cpc' = "uncount"
  /\ UNCHANGED <<packet, started, next, mode, target, occupancy, ppc, pkt, played, head, history>>

\* pop(): occupancy_.fetch_sub.
PopUncount ==
  /\ cpc = "uncount"
  /\ occupancy' = (occupancy - 1) % Width
  /\ cpc' = "advance"
  /\ UNCHANGED <<buffer, started, next, mode, target, ppc, pkt, played, head, history>>

\* pop(): next_sequence_ and the target depth move on.
PopAdvance ==
  /\ cpc = "advance"
  /\ next' = Seq(next + 1) /\ due' = due + 1
  /\ astray' = astray \cup Passed
  /\ target' \in Lowered
  /\ cpc' = "idle"
  /\ UNCHANGED <<buffer, started, mode, occupancy, ppc, pkt, played, head, heard>>

\* Mutant: the occupancy counter is not reset.
ResetKeepsCount ==
  /\ ppc = "idle" /\ cpc = "idle"
  /\ occupied' = [h \in Homes |-> FALSE]
  /\ started' = FALSE /\ next' = 0
  /\ target' = Initial(mode)
  /\ played' = None
  /\ due' = First /\ astray' = {} /\ heard' = None
  /\ UNCHANGED <<packet, mode, occupancy, ppc, pkt, cpc, head>>

\* reset(): not meant to run beside push() or pop().
Reset ==
  /\ ppc = "idle" /\ cpc = "idle"
  /\ occupied' = [h \in Homes |-> FALSE]
  /\ started' = FALSE /\ next' = 0
  /\ target' = Initial(mode)
  /\ occupancy' = 0
  /\ played' = None
  /\ due' = First /\ astray' = {} /\ heard' = None
  /\ UNCHANGED <<packet, mode, ppc, pkt, cpc, head>>

\* set_mode().
SetMode(m) ==
  /\ mode' = m /\ target' = Initial(m)
  /\ UNCHANGED <<buffer, started, next, occupancy, ppc, pkt, cpc, played, head, history>>

Push == PushFirst \/ PushCheck \/ PushFill \/ PushPublish \/ PushCount
Pop == PopReady \/ PopGap \/ PopLook \/ PopCopy \/ PopFree \/ PopUncount \/ PopAdvance

Next ==
  \/ Send
  \/ \E n \in First .. First + MaxSent : PushBegin(n)
  \/ PushFirst \/ PushCheck \/ PushFill \/ PushPublish \/ PushCount
  \/ PopReady \/ PopGap \/ PopLook \/ PopCopy \/ PopFree \/ PopUncount \/ PopAdvance
  \/ Reset
  \/ \E m \in {"sync", "jam"} : SetMode(m)

Spec == Init /\ [][Next]_vars

\* The audio callback keeps calling pop(), and a push() begun is finished.
FairSpec == Spec /\ WF_vars(Pop) /\ WF_vars(Push)
-----------------------------------------------------------------------------
(* Properties.                                                             *)

\* Type invariant.
TypeOK ==
  /\ occupied \in [Homes -> BOOLEAN]
  /\ packet \in [Homes -> Nat \cup {None}]
  /\ started \in BOOLEAN /\ next \in 0 .. SeqSpace - 1
  /\ mode \in {"sync", "jam"} /\ target \in 1 .. Largest(mode)
  /\ occupancy \in 0 .. Width - 1
  /\ ppc \in {"idle", "first", "check", "fill", "publish", "count"} /\ pkt \in Nat
  /\ cpc \in {"idle", "look", "copy", "free", "uncount", "advance"}
  /\ played \in Nat \cup {None} /\ head \in Nat
  /\ due \in Nat /\ astray \subseteq Homes /\ heard \in Nat \cup {None}

\* The two threads never copy in and out of one slot at the same time.
NoTornPacket == ~(ppc = "fill" /\ cpc = "copy" /\ Home(pkt) = Home(next))

\* What pop() hands over is the packet due, not another one that shares its
\* slot, one that is being overwritten or one that was never stored.
PlayedIntact == cpc = "free" => played # None /\ Seq(played) = next

\* Packets are played once each and in the order they were sent, whatever the
\* network reorders, repeats or loses, however often the sequence number wraps,
\* and none is taken in that is late by less than half a sequence space.  The
\* exception is a packet of another cycle of sequence numbers: pop() passed it
\* while push() was storing it, or it came half a sequence space away.  It keeps
\* its slot until the number is due again, and is played then.
PlayedInOrder ==
  [][/\ cpc = "copy" /\ cpc' = "free"
          => Home(next) \in astray \/ heard = None \/ played' > heard
     /\ started /\ ppc = "idle" /\ ppc' = "check"
          => pkt' \notin due - SeqSpace \div 2 + 1 .. due - 1]_vars

\* occupancy_ never drifts from the number of packets in the buffer; it differs
\* by one, modulo Width, only between a flag and the counter of one call.
OccupancyExact ==
  LET adding    == IF ppc = "count" THEN 1 ELSE 0
      deducting == IF cpc = "uncount" THEN 1 ELSE 0
  IN  (occupancy + adding - deducting) % Width
        = Cardinality({h \in Homes : occupied[h]})

\* jitter_buffer.cpp, pop(): without the gap check "the buffer stalls
\* permanently when a packet is lost".  With it, a packet that does not come
\* is passed once as many later ones wait as the largest depth asks for.
Buffered(n) == occupied[Home(n)] /\ packet[Home(n)] = n
GapPassed ==
  \A n \in First .. First + MaxSent :
    /\ started /\ ppc = "idle" /\ ~Late(n) /\ ~Buffered(n)
    /\ \A k \in n + 1 .. n + SyncMax : Buffered(k)
    ~> ~started \/ Late(n) \/ Buffered(n)
=============================================================================
