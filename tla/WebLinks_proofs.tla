--------------------------- MODULE WebLinks_proofs ----------------------------
(***************************************************************************)
(* Proofs about the listening page, the rings of the worklets, the browser *)
(* engine with its transports and its Opus bridge, both SDKs and the bridge*)
(* to UDP.                                                                 *)
(***************************************************************************)
EXTENDS WebListen, WebTransports, WebRadioRing, WebSharedRing, WebSoluna,
        WebEngine, WebOpus, SdkClient, WsBridge, FiniteSetTheorems, TLAPS

-----------------------------------------------------------------------------
(* Positions on a ring.                                                    *)

\* A position less than two turns along is itself ...
LEMMA FirstTurn ==
    ASSUME NEW N \in Nat \ {0}, NEW p \in 0 .. N - 1
    PROVE  p % N = p
BY SMTT(30)

\* ... or one turn less.
LEMMA SecondTurn ==
    ASSUME NEW N \in Nat \ {0}, NEW q \in 0 .. N - 1
    PROVE  (q + N) % N = q
BY SMTT(30)

\* Both in one.
LEMMA TwoTurns ==
    ASSUME NEW N \in Nat \ {0}, NEW p \in Nat, p < N + N
    PROVE  p % N = (IF p < N THEN p ELSE p - N) /\ p % N \in 0 .. N - 1
<1>1. CASE p < N
  <2>1. p \in 0 .. N - 1
    BY <1>1
  <2> QED
    BY <1>1, <2>1, FirstTurn
<1>2. CASE p >= N
  <2> DEFINE q == p - N
  <2>1. q \in 0 .. N - 1 /\ q + N = p
    BY <1>2
  <2>2. (q + N) % N = q
    BY <2>1, SecondTurn
  <2> QED
    BY <1>2, <2>1, <2>2
<1> QED
  BY <1>1, <1>2

\* For a place p and a way b.
LEMMA Turned ==
    ASSUME NEW N \in Nat \ {0}, NEW p \in 0 .. N - 1, NEW b \in 0 .. N
    PROVE  /\ (p + b) % N = IF p + b < N THEN p + b ELSE p + b - N
           /\ (p + b) % N \in 0 .. N - 1
<1> DEFINE q == p + b
<1>1. q \in Nat /\ q < N + N
  OBVIOUS
<1> HIDE DEF q
<1>2. q % N = (IF q < N THEN q ELSE q - N) /\ q % N \in 0 .. N - 1
  BY <1>1, TwoTurns, Zenon
<1> QED
  BY <1>2 DEF q

\* A way around the ring taken in two parts.
LEMMA InTwoParts ==
    ASSUME NEW N \in Nat \ {0}, NEW p \in 0 .. N - 1, NEW b \in Nat, NEW c \in Nat, b + c <= N
    PROVE  (((p + b) % N) + c) % N = (p + (b + c)) % N
<1> DEFINE m == (p + b) % N
<1>0. b \in 0 .. N /\ c \in 0 .. N /\ b + c \in 0 .. N
  OBVIOUS
<1>1. m = (IF p + b < N THEN p + b ELSE p + b - N) /\ m \in 0 .. N - 1
  BY <1>0, Turned, Zenon
<1> HIDE DEF m
<1>3. (m + c) % N = IF m + c < N THEN m + c ELSE m + c - N
  BY <1>0, <1>1, Turned, Zenon
<1>4. (p + (b + c)) % N = IF p + (b + c) < N THEN p + (b + c) ELSE p + (b + c) - N
  BY <1>0, Turned, Zenon
<1>5. (m + c) % N = (p + (b + c)) % N
  <2>1. CASE p + b < N
    BY <1>1, <1>3, <1>4, <2>1
  <2>2. CASE p + b >= N
    <3>1. m + c < N /\ p + (b + c) >= N /\ m + c = p + (b + c) - N
      BY <1>1, <2>2
    <3> QED
      BY <1>3, <1>4, <3>1
  <2> QED
    BY <2>1, <2>2
<1> QED
  BY <1>5 DEF m

\* How far q is from p.
LEMMA Distance ==
    ASSUME NEW N \in Nat \ {0}, NEW p \in 0 .. N - 1, NEW q \in 0 .. N - 1
    PROVE  /\ (q - p + N) % N = (IF p <= q THEN q - p ELSE q - p + N)
           /\ (q - p + N) % N \in 0 .. N - 1
           /\ (p + ((q - p + N) % N)) % N = q
<1> DEFINE d == (q - p + N) % N
<1>1. q - p + N \in Nat /\ q - p + N < N + N
  OBVIOUS
<1>2. d = (IF q - p + N < N THEN q - p + N ELSE (q - p + N) - N) /\ d \in 0 .. N - 1
  BY <1>1, TwoTurns
<1>3. d = IF p <= q THEN q - p ELSE q - p + N
  BY <1>2
<1> HIDE DEF d
<1>4. d \in 0 .. N
  BY <1>2
<1>5. (p + d) % N = IF p + d < N THEN p + d ELSE p + d - N
  BY <1>4, Turned, Zenon
<1>6. (p + d) % N = q
  BY <1>3, <1>5
<1> QED
  BY <1>2, <1>3, <1>6 DEF d

\* Going k along from p ends at distance k.
LEMMA Along ==
    ASSUME NEW N \in Nat \ {0}, NEW p \in 0 .. N - 1, NEW k \in 0 .. N - 1
    PROVE  /\ (p + k) % N \in 0 .. N - 1
           /\ (((p + k) % N) - p + N) % N = k
<1> DEFINE m == (p + k) % N
<1>0. k \in 0 .. N
  OBVIOUS
<1>1. m = (IF p + k < N THEN p + k ELSE p + k - N) /\ m \in 0 .. N - 1
  BY <1>0, Turned, Zenon
<1> HIDE DEF m
<1>2. (m - p + N) % N = IF p <= m THEN m - p ELSE m - p + N
  BY <1>1, Distance
<1>3. (m - p + N) % N = k
  BY <1>1, <1>2
<1> QED
  BY <1>1, <1>3 DEF m

-----------------------------------------------------------------------------
(* The listening page.                                                     *)

\* The types the argument needs.
LsTyped ==
    /\ lsPlaying \in BOOLEAN /\ lsChannel \in ListenChannels
    /\ lsStarts \in Nat /\ lsTimers \in Nat /\ lsWs \in 0 .. MaxLsSockets
    /\ lsSock \in [LsSockets -> {"unused", "connecting", "open", "gone"}]
    /\ lsSockCh \in [LsSockets -> ListenChannels]
    /\ lsFilled \in BOOLEAN

LsInv == LsTyped /\ OneListenSocket

\* connectWS for the chosen channel establishes the invariant by itself: the
\* socket before it is silenced, the new one is current and alive.
LEMMA ConnectedKeeps ==
    ASSUME LsInv, NEW ch \in ListenChannels, ConnectWS(ch), lsChannel' = ch,
           lsPlaying' \in BOOLEAN, lsStarts' \in Nat, lsTimers' \in Nat
    PROVE  LsInv'
<1>1. PICK new \in LsSockets :
          /\ lsSock' = [LsDropped EXCEPT ![new] = "connecting"]
          /\ lsSockCh' = [lsSockCh EXCEPT ![new] = ch]
          /\ lsWs' = new /\ lsFilled' = FALSE
  BY DEF ConnectWS
<1>2. new \in 1 .. MaxLsSockets /\ new # 0 /\ new \in 0 .. MaxLsSockets
  BY ListenAssumption DEF LsSockets
<1>3. lsSock' \in [LsSockets -> {"unused", "connecting", "open", "gone"}]
      /\ \A s \in LsSockets : lsSock'[s] = IF s = new THEN "connecting" ELSE LsDropped[s]
  BY <1>1 DEF LsInv, LsTyped, LsDropped
<1>4. \A s \in LsSockets : s # new => lsSock'[s] \notin {"connecting", "open"}
  BY <1>3 DEF LsDropped, LsInv, OneListenSocket, LsLive
<1>5. lsSock'[new] = "connecting" /\ lsSockCh'[new] = ch
  BY <1>1, <1>3 DEF LsInv, LsTyped
<1>6. ~lsFilled' /\ lsFilled' \in BOOLEAN
  BY <1>1, Zenon
<1>7. LsTyped'
  BY <1>1, <1>2, <1>3, <1>6 DEF LsInv, LsTyped
<1>8. OneListenSocket'
  BY <1>1, <1>2, <1>4, <1>5, <1>6 DEF OneListenSocket, LsLive
<1> QED
  BY <1>7, <1>8 DEF LsInv

\* play(): it connects at once, or it waits.
LEMMA ListenPlayKeeps ==
    ASSUME LsInv, LsPlay
    PROVE  LsInv'
<1>0. /\ lsPlaying' \in BOOLEAN /\ lsChannel' = lsChannel /\ lsTimers' = lsTimers
      /\ lsChannel \in ListenChannels /\ lsStarts \in Nat /\ lsTimers \in Nat
  BY Zenon DEF LsPlay, LsInv, LsTyped
<1>1. CASE ConnectWS(lsChannel) /\ lsStarts' = lsStarts
  BY <1>0, <1>1, ConnectedKeeps
<1>2. CASE lsStarts' = lsStarts + 1 /\ UNCHANGED <<lsSock, lsSockCh, lsWs, lsFilled>>
  <2>1. lsStarts' \in Nat /\ lsStarts' # 0
    BY <1>0, <1>2
  <2>2. LsTyped'
    BY <1>0, <1>2, <2>1 DEF LsInv, LsTyped
  <2>3. OneListenSocket'
    BY <1>2, <2>1 DEF LsInv, OneListenSocket, LsLive
  <2> QED
    BY <2>2, <2>3 DEF LsInv
<1> QED
  BY <1>1, <1>2 DEF LsPlay, lsOutput

\* stop(): the current socket is silenced, and nothing is playing.
LEMMA ListenStopKeeps ==
    ASSUME LsInv, LsStop
    PROVE  LsInv'
<1>1. lsSock' = LsDropped /\ lsWs' = 0 /\ lsSockCh' = lsSockCh
      /\ lsChannel' = lsChannel /\ lsStarts' = lsStarts /\ lsTimers' = lsTimers
  BY DEF LsStop
<1>2. lsPlaying' \in BOOLEAN /\ ~lsPlaying' /\ lsFilled' \in BOOLEAN /\ ~lsFilled'
  BY Zenon DEF LsStop
<1>3. LsDropped \in [LsSockets -> {"unused", "connecting", "open", "gone"}]
      /\ \A s \in LsSockets : LsDropped[s] \notin {"connecting", "open"}
  BY DEF LsDropped, LsInv, LsTyped, OneListenSocket, LsLive
<1>4. LsTyped'
  BY <1>1, <1>2, <1>3, ListenAssumption DEF LsInv, LsTyped
<1>5. OneListenSocket'
  BY <1>1, <1>2, <1>3 DEF OneListenSocket, LsLive
<1> QED
  BY <1>4, <1>5 DEF LsInv

\* onopen, a packet and onclose of a socket that was not silenced.
LEMMA ListenSocketKeeps ==
    ASSUME LsInv, NEW s \in LsSockets, LsOpen(s) \/ LsPacket(s) \/ LsClosed(s)
    PROVE  LsInv'
<1>0. /\ lsPlaying' = lsPlaying /\ lsChannel' = lsChannel /\ lsStarts' = lsStarts
      /\ lsSockCh' = lsSockCh /\ lsWs' = lsWs
  BY DEF LsOpen, LsPacket, LsClosed, lsOutput
<1>1. s = lsWs /\ lsWs # 0
  BY ListenAssumption DEF LsOpen, LsPacket, LsClosed, LsInv, OneListenSocket, LsLive, LsSockets
<1>2. CASE LsOpen(s)
  <2>1. lsSock' = [lsSock EXCEPT ![s] = "open"] /\ lsTimers' = lsTimers /\ lsFilled' = lsFilled
        /\ lsSock[s] = "connecting"
    BY <1>2 DEF LsOpen
  <2> QED
    BY <1>0, <1>1, <2>1 DEF LsInv, LsTyped, OneListenSocket, LsLive
<1>3. CASE LsPacket(s)
  <2>1. lsSock' = lsSock /\ lsTimers' = lsTimers /\ lsSock[s] = "open"
    BY <1>3 DEF LsPacket
  <2>2. lsFilled' \in BOOLEAN
    BY <1>3, Zenon DEF LsPacket
  <2> QED
    BY <1>0, <1>1, <2>1, <2>2 DEF LsInv, LsTyped, OneListenSocket, LsLive
<1>4. CASE LsClosed(s)
  <2>1. lsSock' = [lsSock EXCEPT ![s] = "gone"] /\ lsFilled' = lsFilled
        /\ lsTimers' = IF lsPlaying THEN lsTimers + 1 ELSE lsTimers
    BY <1>4 DEF LsClosed
  <2>2. lsTimers' \in Nat /\ (lsPlaying => lsTimers' > 0)
    BY <2>1 DEF LsInv, LsTyped
  <2>3. LsTyped'
    BY <1>0, <2>1, <2>2 DEF LsInv, LsTyped
  <2>4. OneListenSocket'
    BY <1>0, <1>1, <2>1, <2>2 DEF LsInv, LsTyped, OneListenSocket, LsLive
  <2> QED
    BY <2>3, <2>4 DEF LsInv
<1> QED
  BY <1>2, <1>3, <1>4

\* The inductive invariant of the page.
THEOREM ListenInvariant == LsSpec => []LsInv
<1>1. LsInit => LsInv
  <2> SUFFICES ASSUME LsInit PROVE LsInv
    OBVIOUS
  <2>1. lsPlaying \in BOOLEAN /\ ~lsPlaying /\ lsFilled \in BOOLEAN /\ ~lsFilled
    BY Zenon DEF LsInit
  <2>2. /\ lsChannel \in ListenChannels /\ lsStarts = 0 /\ lsTimers = 0 /\ lsWs = 0
        /\ lsSock = [s \in LsSockets |-> "unused"]
        /\ lsSockCh = [s \in LsSockets |-> lsChannel]
    BY DEF LsInit
  <2>3. LsTyped
    BY <2>1, <2>2, ListenAssumption DEF LsTyped
  <2>4. OneListenSocket
    BY <2>1, <2>2 DEF OneListenSocket, LsLive
  <2> QED
    BY <2>3, <2>4 DEF LsInv
<1>2. LsInv /\ [LsNext]_lsVars => LsInv'
  <2> SUFFICES ASSUME LsInv, [LsNext]_lsVars PROVE LsInv'
    OBVIOUS
  <2>0. lsPlaying \in BOOLEAN /\ lsChannel \in ListenChannels /\ lsStarts \in Nat /\ lsTimers \in Nat
    BY DEF LsInv, LsTyped
  <2>1. CASE LsPlay
    BY <2>1, ListenPlayKeeps
  <2>2. CASE LsStop
    BY <2>2, ListenStopKeeps
  <2>3. CASE LsTimer
    <3>1. lsTimers' \in Nat /\ ConnectWS(lsChannel) /\ lsPlaying' = lsPlaying
          /\ lsChannel' = lsChannel /\ lsStarts' = lsStarts
      BY <2>0, <2>3 DEF LsTimer, lsOutput
    <3> QED
      BY <2>0, <3>1, ConnectedKeeps
  <2>4. ASSUME NEW refused \in BOOLEAN, LsStarted(refused) PROVE LsInv'
    <3>1. lsStarts' \in Nat /\ ConnectWS(lsChannel) /\ lsPlaying' = lsPlaying
          /\ lsChannel' = lsChannel /\ lsTimers' = lsTimers
      BY <2>0, <2>4 DEF LsStarted
    <3> QED
      BY <2>0, <3>1, ConnectedKeeps
  <2>5. ASSUME NEW ch \in ListenChannels, LsSwitch(ch) PROVE LsInv'
    <3>1. lsChannel' = ch /\ lsPlaying' = lsPlaying /\ lsStarts' = lsStarts /\ lsTimers' = lsTimers
      BY <2>5 DEF LsSwitch, lsOutput
    <3>2. CASE lsPlaying
      <4>1. ConnectWS(ch)
        BY <2>5, <3>2 DEF LsSwitch
      <4> QED
        BY <2>0, <3>1, <4>1, ConnectedKeeps
    <3>3. CASE ~lsPlaying
      <4>1. UNCHANGED <<lsSock, lsSockCh, lsWs, lsFilled>>
        BY <2>5, <3>3 DEF LsSwitch
      <4> QED
        BY <3>1, <3>3, <4>1 DEF LsInv, LsTyped, OneListenSocket, LsLive
    <3> QED
      BY <3>2, <3>3
  <2>6. ASSUME NEW s \in LsSockets, LsOpen(s) \/ LsPacket(s) \/ LsClosed(s) PROVE LsInv'
    BY <2>6, ListenSocketKeeps
  <2>7. CASE UNCHANGED lsVars
    BY <2>7 DEF lsVars, LsInv, LsTyped, OneListenSocket, LsLive
  <2> QED
    BY <2>1, <2>2, <2>3, <2>4, <2>5, <2>6, <2>7 DEF LsNext
<1> QED
  BY <1>1, <1>2, PTL DEF LsSpec

\* However starts, stops, switches, losses and late timers interleave, the page
\* hears at most the one socket it can close, and once it plays, that socket is
\* for the chosen channel or about to be replaced (connectWS in listen.js).
THEOREM ListenOneSocket == LsSpec => []OneListenSocket
<1>1. LsInv => OneListenSocket
  BY DEF LsInv
<1> QED
  BY <1>1, ListenInvariant, PTL

-----------------------------------------------------------------------------
(* The types of the listening page, with their bounds: every timer stands   *)
(* for a socket that was used and lost.                                     *)

LsUsed(u) == \A s \in LsSockets : lsSock[s] = "unused" <=> s > u

LsCounted ==
    \E u \in 0 .. MaxLsSockets :
        LsUsed(u) /\ lsWs <= u /\ lsTimers + (IF lsWs # 0 /\ LsLive(lsWs) THEN 1 ELSE 0) <= u

LsOut ==
    /\ lsStarts \in 0 .. MaxLsStarts /\ lsLoaded \in BOOLEAN
    /\ lsWorklet \in BOOLEAN /\ lsScript \in BOOLEAN
    /\ lsNodes \in Nat
    /\ lsNodes >= (IF lsWorklet THEN 1 ELSE 0) + (IF lsScript THEN 1 ELSE 0)

LsBounded == LsInv /\ LsCounted /\ LsOut

\* The invariant gives the types and what the runs check.
LEMMA ListenCovers == LsBounded => LsTypeOK /\ OneListenSocket
<1> SUFFICES ASSUME LsBounded PROVE LsTypeOK /\ OneListenSocket
  OBVIOUS
<1>1. PICK u \in 0 .. MaxLsSockets :
        LsUsed(u) /\ lsWs <= u /\ lsTimers + (IF lsWs # 0 /\ LsLive(lsWs) THEN 1 ELSE 0) <= u
  BY DEF LsBounded, LsCounted
<1>2. lsTimers \in 0 .. MaxLsSockets
  BY <1>1, ListenAssumption DEF LsBounded, LsInv, LsTyped
<1>3. LsTypeOK
  BY <1>2 DEF LsBounded, LsInv, LsTyped, LsOut, LsTypeOK
<1> QED
  BY <1>3 DEF LsBounded, LsInv

\* Sums of counts.
LEMMA OneMoreEach ==
    ASSUME NEW t \in Nat, NEW u \in Nat
    PROVE  /\ t <= u => t + 1 <= u + 1
           /\ t + 1 <= u + 1 => t + 0 <= u + 1
           /\ t <= u => t + 0 <= u
OBVIOUS

\* A connection uses one more socket.
LEMMA ConnectedCounts ==
    ASSUME LsInv, LsCounted, LsInv', NEW ch, ConnectWS(ch), lsTimers' <= lsTimers
    PROVE  LsCounted'
<1>1. PICK u \in 0 .. MaxLsSockets :
        LsUsed(u) /\ lsWs <= u /\ lsTimers + (IF lsWs # 0 /\ LsLive(lsWs) THEN 1 ELSE 0) <= u
  BY DEF LsCounted
<1>2. PICK new \in LsSockets :
        /\ \A s \in LsSockets : lsSock[s] = "unused" <=> s >= new
        /\ lsSock' = [LsDropped EXCEPT ![new] = "connecting"] /\ lsWs' = new
  BY DEF ConnectWS
<1>3. /\ lsTimers \in Nat /\ lsTimers' \in Nat /\ u \in Nat /\ new \in 1 .. MaxLsSockets
      /\ lsSock \in [LsSockets -> {"unused", "connecting", "open", "gone"}]
      /\ lsWs \in Nat /\ lsWs' = new
  BY <1>2, ListenAssumption DEF LsInv, LsTyped, LsSockets
<1>4. new = u + 1
  <2>1. new > u
    <3>1. new >= new
      BY <1>3
    <3> QED
      BY <1>1, <1>2, <3>1 DEF LsUsed
  <2>2. u + 1 \in LsSockets => u + 1 >= new
    BY <1>1, <1>2, <1>3 DEF LsUsed
  <2> QED
    BY <1>3, <2>1, <2>2, ListenAssumption DEF LsSockets
<1>5. LsUsed(u + 1)'
  <2> SUFFICES ASSUME NEW s \in LsSockets PROVE lsSock'[s] = "unused" <=> s > u + 1
    BY DEF LsUsed
  <2>1. lsSock'[s] = IF s = new THEN "connecting" ELSE IF s = lsWs THEN "gone" ELSE lsSock[s]
    BY <1>2 DEF LsDropped
  <2>2. lsSock[s] = "unused" <=> s > u
    BY <1>1 DEF LsUsed
  <2>3. s \in Nat
    BY DEF LsSockets
  <2> QED
    BY <1>1, <1>3, <1>4, <2>1, <2>2, <2>3
<1>6. u + 1 \in 0 .. MaxLsSockets /\ lsTimers' + 1 <= u + 1
  <2>1. lsTimers <= u
    BY <1>1, <1>3
  <2>2. lsTimers' <= u
    BY <1>3, <2>1
  <2> QED
    <3>1. u + 1 \in 0 .. MaxLsSockets
      BY <1>3, <1>4, ListenAssumption
    <3>2. lsTimers' + 1 <= u + 1
      BY <1>3, <2>2, OneMoreEach, Zenon
    <3> QED
      BY <3>1, <3>2
<1>7. lsTimers' + (IF lsWs' # 0 /\ LsLive(lsWs)' THEN 1 ELSE 0) <= u + 1
  <2>1. CASE lsWs' # 0 /\ LsLive(lsWs)'
    BY <1>6, <2>1
  <2>2. CASE ~(lsWs' # 0 /\ LsLive(lsWs)')
    <3>1. (IF lsWs' # 0 /\ LsLive(lsWs)' THEN 1 ELSE 0) = 0
      BY <2>2
    <3> QED
      BY <1>3, <1>6, <3>1, OneMoreEach
  <2> QED
    BY <2>1, <2>2
<1> QED
  <2>1. lsWs' <= u + 1
    BY <1>3, <1>4
  <2> QED
    BY <1>5, <1>6, <1>7, <2>1 DEF LsCounted

\* The current socket's end is the only one that adds a timer.
LEMMA CountKeeps ==
    ASSUME LsInv, LsCounted, LsInv', LsNext
    PROVE  LsCounted'
<1>0. /\ lsTimers \in Nat /\ lsTimers' \in Nat
      /\ lsSock \in [LsSockets -> {"unused", "connecting", "open", "gone"}]
      /\ lsWs \in 0 .. MaxLsSockets
  BY DEF LsInv, LsTyped
<1>1. CASE \E ch \in ListenChannels : ConnectWS(ch) /\ lsTimers' <= lsTimers
  BY <1>1, ConnectedCounts
<1>2. CASE UNCHANGED <<lsSock, lsWs, lsTimers>>
  BY <1>2 DEF LsCounted, LsUsed, LsLive
<1>c. PICK u \in 0 .. MaxLsSockets :
        LsUsed(u) /\ lsWs <= u /\ lsTimers + (IF lsWs # 0 /\ LsLive(lsWs) THEN 1 ELSE 0) <= u
  BY DEF LsCounted
<1>3. CASE LsStop
  <2>1. lsSock' = LsDropped /\ lsWs' = 0 /\ lsTimers' = lsTimers
    BY <1>3 DEF LsStop
  <2>2. LsUsed(u)'
    <3> SUFFICES ASSUME NEW s \in LsSockets PROVE lsSock'[s] = "unused" <=> s > u
      BY DEF LsUsed
    <3>1. lsSock'[s] = IF s = lsWs THEN "gone" ELSE lsSock[s]
      BY <2>1 DEF LsDropped
    <3>2. lsSock[s] = "unused" <=> s > u
      BY <1>c DEF LsUsed
    <3> QED
      BY <1>0, <1>c, <3>1, <3>2 DEF LsSockets
  <2> QED
    BY <1>0, <1>c, <2>1, <2>2 DEF LsCounted
<1>4. ASSUME NEW s \in LsSockets, LsOpen(s) PROVE LsCounted'
  <2>1. lsSock[s] = "connecting" /\ lsSock' = [lsSock EXCEPT ![s] = "open"] /\ UNCHANGED <<lsWs, lsTimers>>
    BY <1>4 DEF LsOpen
  <2>2. LsUsed(u)'
    BY <1>0, <1>c, <2>1 DEF LsUsed
  <2>3. s = lsWs
    BY <2>1 DEF LsInv, OneListenSocket, LsLive
  <2>4. LsLive(lsWs) /\ lsWs # 0
    BY <2>1, <2>3 DEF LsLive, LsSockets
  <2> QED
    BY <1>0, <1>c, <2>1, <2>2, <2>4 DEF LsCounted
<1>5. ASSUME NEW s \in LsSockets, LsClosed(s) PROVE LsCounted'
  <2>1. /\ lsSock[s] \in {"connecting", "open"} /\ lsSock' = [lsSock EXCEPT ![s] = "gone"]
        /\ lsTimers' \in {lsTimers, lsTimers + 1} /\ lsWs' = lsWs
    BY <1>5 DEF LsClosed
  <2>2. LsUsed(u)'
    BY <1>0, <1>c, <2>1 DEF LsUsed
  <2>3. s = lsWs
    BY <2>1 DEF LsInv, OneListenSocket, LsLive
  <2>4. LsLive(lsWs) /\ lsWs # 0
    BY <2>1, <2>3 DEF LsLive, LsSockets
  <2>5. ~LsLive(lsWs)'
    BY <1>0, <2>1, <2>3 DEF LsLive
  <2>6. lsTimers + 1 <= u
    BY <1>c, <2>4
  <2>7. lsTimers' + (IF lsWs' # 0 /\ LsLive(lsWs)' THEN 1 ELSE 0) <= u
    <3>1. (IF lsWs' # 0 /\ LsLive(lsWs)' THEN 1 ELSE 0) = 0
      BY <2>5
    <3>2. lsTimers' <= u
      BY <1>0, <1>c, <2>1, <2>6
    <3> QED
      <4>1. u \in Nat
        BY ListenAssumption
      <4>2. lsTimers' + 0 <= u
        BY <1>0, <3>2, <4>1, OneMoreEach, Zenon
      <4> QED
        BY <3>1, <4>2, Zenon
  <2> QED
    BY <1>c, <2>1, <2>2, <2>7 DEF LsCounted
<1>6. CASE LsPlay
  <2>1. CASE ConnectWS(lsChannel)
    BY <1>0, <1>1, <1>6, <2>1 DEF LsPlay, LsInv, LsTyped
  <2>2. CASE ~ConnectWS(lsChannel)
    BY <1>2, <1>6, <2>2 DEF LsPlay
  <2> QED
    BY <2>1, <2>2
<1>7. ASSUME NEW refused \in BOOLEAN, LsStarted(refused) PROVE LsCounted'
  BY <1>0, <1>1, <1>7 DEF LsStarted, LsInv, LsTyped
<1>8. ASSUME NEW ch \in ListenChannels, LsSwitch(ch) PROVE LsCounted'
  <2>1. lsTimers' = lsTimers
    BY <1>8 DEF LsSwitch
  <2>2. CASE lsPlaying
    BY <1>0, <1>1, <1>8, <2>1, <2>2 DEF LsSwitch
  <2>3. CASE ~lsPlaying
    BY <1>2, <1>8, <2>1, <2>3 DEF LsSwitch
  <2> QED
    BY <2>2, <2>3
<1>9. CASE LsTimer
  BY <1>0, <1>1, <1>9 DEF LsTimer, LsInv, LsTyped
<1>10. ASSUME NEW s \in LsSockets, LsPacket(s) PROVE LsCounted'
  BY <1>2, <1>10 DEF LsPacket
<1> QED
  BY <1>3, <1>4, <1>5, <1>6, <1>7, <1>8, <1>9, <1>10 DEF LsNext

\* Nodes are counted as they are made and disconnected.
LEMMA OutKeeps ==
    ASSUME LsOut, LsNext
    PROVE  LsOut'
<1>1. CASE UNCHANGED lsOutput
  BY <1>1 DEF lsOutput, LsOut
<1>2. CASE LsPlay
  <2>1. CASE lsWorklet
    BY <1>1, <1>2, <2>1 DEF LsPlay
  <2>2. CASE ~lsWorklet /\ lsLoaded
    <3>1. lsNodes' = lsNodes + 1 /\ UNCHANGED <<lsStarts, lsLoaded, lsScript>>
      BY <1>2, <2>2 DEF LsPlay
    <3>2. lsWorklet' \in BOOLEAN
      BY <1>2, <2>2, Zenon DEF LsPlay
    <3> QED
      BY <2>2, <3>1, <3>2 DEF LsOut
  <2>3. CASE ~lsWorklet /\ ~lsLoaded
    <3>1. lsStarts < MaxLsStarts /\ lsStarts' = lsStarts + 1
          /\ UNCHANGED <<lsLoaded, lsWorklet, lsScript, lsNodes>>
      BY <1>2, <2>3 DEF LsPlay
    <3> QED
      BY <3>1, ListenAssumption DEF LsOut
  <2> QED
    BY <2>1, <2>2, <2>3
<1>3. ASSUME NEW refused \in BOOLEAN, LsStarted(refused) PROVE LsOut'
  <2>1. lsStarts > 0 /\ lsStarts' = lsStarts - 1 /\ lsNodes' = lsNodes + 1
    BY <1>3 DEF LsStarted
  <2>2. /\ lsLoaded' \in BOOLEAN /\ lsWorklet' \in BOOLEAN /\ lsScript' \in BOOLEAN
        /\ (lsWorklet' <=> lsWorklet) \/ (lsScript' <=> lsScript)
    BY <1>3, Zenon DEF LsStarted, LsOut
  <2>3. lsStarts' \in 0 .. MaxLsStarts
    BY <2>1, ListenAssumption DEF LsOut
  <2> QED
    BY <2>1, <2>2, <2>3 DEF LsOut
<1>4. CASE LsStop
  <2>1. lsNodes' = LsNodesLeft /\ UNCHANGED <<lsStarts, lsLoaded>>
    BY <1>4 DEF LsStop
  <2>2. lsWorklet' \in BOOLEAN /\ lsScript' \in BOOLEAN /\ ~lsWorklet' /\ ~lsScript'
    BY <1>4, Zenon DEF LsStop
  <2>3. lsNodes' \in Nat
    BY <2>1 DEF LsNodesLeft, LsOut
  <2> QED
    BY <2>1, <2>2, <2>3 DEF LsOut
<1>5. CASE LsTimer
  BY <1>1, <1>5 DEF LsTimer
<1>6. ASSUME NEW ch \in ListenChannels, LsSwitch(ch) PROVE LsOut'
  BY <1>1, <1>6 DEF LsSwitch
<1>7. ASSUME NEW s \in LsSockets, LsOpen(s) \/ LsPacket(s) \/ LsClosed(s) PROVE LsOut'
  BY <1>1, <1>7 DEF LsOpen, LsPacket, LsClosed
<1> QED
  BY <1>2, <1>3, <1>4, <1>5, <1>6, <1>7 DEF LsNext

\* The page keeps its types: no call of play() waits beyond the bound, no node
\* is disconnected that was not made, and there are no more reconnections
\* pending than sockets were lost.
THEOREM ListenTyped == LsSpec => [](LsTypeOK /\ OneListenSocket)
<1>1. LsInit => LsCounted /\ LsOut
  <2> SUFFICES ASSUME LsInit PROVE LsCounted /\ LsOut
    OBVIOUS
  <2>1. lsLoaded \in BOOLEAN /\ lsWorklet \in BOOLEAN /\ lsScript \in BOOLEAN /\ ~lsWorklet /\ ~lsScript
    BY Zenon DEF LsInit
  <2>2. LsOut
    BY <2>1, ListenAssumption DEF LsInit, LsOut
  <2>3. lsWs = 0 /\ lsTimers = 0 /\ lsSock = [s \in LsSockets |-> "unused"]
    BY DEF LsInit
  <2>4. LsUsed(0) /\ 0 \in 0 .. MaxLsSockets
    BY <2>3, ListenAssumption DEF LsUsed, LsSockets
  <2>5. LsCounted
    BY <2>3, <2>4 DEF LsCounted
  <2> QED
    BY <2>2, <2>5
<1>2. LsInv /\ LsInv' /\ LsCounted /\ LsOut /\ [LsNext]_lsVars => LsCounted' /\ LsOut'
  <2> SUFFICES ASSUME LsInv, LsInv', LsCounted, LsOut, [LsNext]_lsVars PROVE LsCounted' /\ LsOut'
    OBVIOUS
  <2>1. CASE LsNext
    BY <2>1, CountKeeps, OutKeeps
  <2>2. CASE UNCHANGED lsVars
    BY <2>2 DEF lsVars, LsCounted, LsUsed, LsLive, LsOut
  <2> QED
    BY <2>1, <2>2
<1>3. LsInv /\ LsCounted /\ LsOut => LsTypeOK /\ OneListenSocket
  BY ListenCovers DEF LsBounded
<1> QED
  BY <1>1, <1>2, <1>3, ListenInvariant, PTL DEF LsSpec

-----------------------------------------------------------------------------
(* One transport.                                                          *)

TrStates == {"unused", "connecting", "ready", "failing", "closing", "gone"}

\* Every session has a state.
SessionsTyped == trSession \in [TrSessions -> TrStates]

\* close() of the current session opens none, and leaves the others alone.
LEMMA CutOpensNone ==
    ASSUME SessionsTyped
    PROVE  /\ TrCut \in [TrSessions -> TrStates]
           /\ \A s \in TrSessions : trSession[s] = "unused" => TrCut[s] = "unused"
           /\ \A s \in TrSessions : TrCut[s] \in {"connecting", "ready"} => s \in TrLive \ {trCurrent}
BY DEF TrCut, SocketShut, SessionShut, SessionsTyped, TrStates, TrLive

\* Opening one keeps the states states, and adds one session.
LEMMA OpenedTyped ==
    ASSUME NEW sessions \in [TrSessions -> TrStates], TrOpened(sessions)
    PROVE  /\ SessionsTyped' /\ trCurrent' \in TrSessions
           /\ \A s \in TrSessions : s # trCurrent' => trSession'[s] = sessions[s]
BY DEF TrOpened, SessionsTyped, TrStates

\* The state of every session is one of the six.
THEOREM TransportSessions == TrSpec => []SessionsTyped
<1>1. TrInit => SessionsTyped
  BY DEF TrInit, SessionsTyped, TrStates
<1>2. SessionsTyped /\ [TrNext]_trVars => SessionsTyped'
  <2> SUFFICES ASSUME SessionsTyped, [TrNext]_trVars PROVE SessionsTyped'
    OBVIOUS
  <2>1. CASE TrConnect
    BY <2>1, CutOpensNone, OpenedTyped DEF TrConnect
  <2>2. CASE TrDisconnect \/ TrConnectThrows
    BY <2>2, CutOpensNone DEF TrDisconnect, TrConnectThrows, SessionsTyped
  <2>3. CASE TrTimer \/ TrTimerThrows
    <3>1. CASE TrOpened(trSession)
      BY <3>1, OpenedTyped DEF SessionsTyped
    <3>2. CASE trSession' = trSession
      BY <3>2 DEF SessionsTyped
    <3> QED
      BY <2>3, <3>1, <3>2 DEF TrTimer, TrTimerThrows
  <2>4. ASSUME NEW s \in TrSessions,
               TrReady(s) \/ TrReadyRejected(s) \/ TrClosed(s) \/ TrSocketClosed(s)
        PROVE SessionsTyped'
    BY <2>4 DEF TrReady, TrReadyRejected, TrClosed, TrSocketClosed, SessionsTyped, TrStates
  <2>5. CASE UNCHANGED trVars
    BY <2>5 DEF trVars, SessionsTyped
  <2> QED
    BY <2>1, <2>2, <2>3, <2>4, <2>5 DEF TrNext
<1> QED
  BY <1>1, <1>2, PTL DEF TrSpec

\* Timers whose handle was lost and promises that settle late open no session
\* after disconnect(): every one of them finds _intentionalClose set
\* (soluna-transport.js).
THEOREM TransportObeysDisconnect == TrSpec => TransportStaysDown
<1>1. SessionsTyped /\ [TrNext]_trVars =>
        [trIntent /\ trIntent' =>
            \A s \in TrSessions : trSession[s] = "unused" => trSession'[s] = "unused"]_trVars
  <2> SUFFICES ASSUME SessionsTyped, [TrNext]_trVars, trIntent, trIntent',
                      NEW s \in TrSessions, trSession[s] = "unused"
               PROVE  trSession'[s] = "unused"
    OBVIOUS
  <2>1. CASE TrConnect \/ TrConnectThrows
    <3>1. ~trIntent'
      BY <2>1, Zenon DEF TrConnect, TrConnectThrows
    <3> QED
      BY <3>1
  <2>2. CASE TrDisconnect
    BY <2>2, CutOpensNone DEF TrDisconnect
  <2>3. CASE TrTimer \/ TrTimerThrows
    BY <2>3 DEF TrTimer, TrTimerThrows
  <2>4. ASSUME NEW t \in TrSessions,
               TrReady(t) \/ TrReadyRejected(t) \/ TrClosed(t) \/ TrSocketClosed(t)
        PROVE trSession'[s] = "unused"
    BY <2>4 DEF TrReady, TrReadyRejected, TrClosed, TrSocketClosed, SessionsTyped
  <2>5. CASE UNCHANGED trVars
    BY <2>5 DEF trVars
  <2> QED
    BY <2>1, <2>2, <2>3, <2>4, <2>5 DEF TrNext
<1> QED
  BY <1>1, TransportSessions, PTL DEF TrSpec, TransportStaysDown

\* The variables that are not sessions.
TrShape ==
    /\ trKind \in TrKinds /\ trCurrent \in 0 .. MaxSessions
    /\ trIntent \in BOOLEAN /\ trUrl \in BOOLEAN /\ trHandle \in BOOLEAN
    /\ trTimers \in 0 .. MaxTrTimers /\ (trHandle => trTimers > 0)
    /\ trReading \subseteq TrSessions /\ trTwice \in BOOLEAN

\* Until two reconnections meet: the last timer is the only one, it waits only
\* while nothing lives, and disconnect() leaves neither.
TrCalm ==
    /\ TrLive \subseteq {trCurrent}
    /\ trTimers = (IF trHandle THEN 1 ELSE 0) /\ (trTimers > 0 => TrLive = {})
    /\ trIntent \/ ~trUrl => TrLive = {} /\ trTimers = 0

TrInv == SessionsTyped /\ TrShape /\ (~trTwice => TrCalm)

\* What a reconnection scheduled does to the timers and the flags; pending
\* timers were counted, and live sessions are those of after the step.
LEMMA ScheduledIs ==
    ASSUME NEW pending \in Nat, NEW live, trTwice \in BOOLEAN, TrScheduled(pending, live)
    PROVE  /\ trTimers' \in 0 .. MaxTrTimers /\ trTimers' = pending + 1
           /\ trHandle' \in BOOLEAN /\ trHandle' /\ trTwice' \in BOOLEAN
           /\ ~trTwice' => ~trTwice /\ pending = 0 /\ live = {}
<1>1. /\ pending < MaxTrTimers /\ trTimers' = pending + 1
  BY DEF TrScheduled
<1>2. trHandle' \in BOOLEAN /\ trHandle' /\ trTwice' \in BOOLEAN
      /\ (trTwice' <=> trTwice \/ pending > 0 \/ live # {})
  BY Zenon DEF TrScheduled
<1>3. pending > 0 \/ pending = 0
  OBVIOUS
<1> QED
  BY <1>1, <1>2, <1>3, TransportsAssumption

\* The same for a callback, which schedules nothing after disconnect().
LEMMA ScheduleIs ==
    ASSUME TrShape, NEW live, TrSchedule(live)
    PROVE  /\ trTimers' \in 0 .. MaxTrTimers /\ trHandle' \in BOOLEAN /\ trTwice' \in BOOLEAN
           /\ (trHandle' => trTimers' > 0) /\ (~trTwice' => ~trTwice)
           /\ \/ (trIntent \/ ~trUrl) /\ UNCHANGED <<trTimers, trHandle, trTwice>>
              \/ /\ ~trIntent /\ trUrl /\ trTimers' = trTimers + 1 /\ trHandle'
                 /\ ~trTwice' => trTimers = 0 /\ live = {}
<1>1. CASE trIntent \/ ~trUrl
  BY <1>1 DEF TrSchedule, TrShape
<1>2. CASE ~trIntent /\ trUrl
  <2>1. TrScheduled(trTimers, live)
    BY <1>2 DEF TrSchedule
  <2>2. trTimers \in Nat /\ trTwice \in BOOLEAN
    BY DEF TrShape
  <2> QED
    BY <1>2, <2>1, <2>2, ScheduledIs
<1> QED
  BY <1>1, <1>2 DEF TrShape

\* connect() and disconnect(), which close what is current first.
LEMMA TrCallsKeep ==
    ASSUME TrInv, TrConnect \/ TrConnectThrows \/ TrDisconnect
    PROVE  TrShape' /\ (~trTwice' => TrCalm')
<1> USE DEF TrInv
<1>1. TrTimersCleared \in 0 .. MaxTrTimers /\ TrTimersCleared \in Nat
      /\ (~trTwice => TrTimersCleared = 0)
  BY TransportsAssumption DEF TrTimersCleared, TrShape, TrCalm
<1>2. \A s \in TrSessions : s \in 0 .. MaxSessions
  BY TransportsAssumption DEF TrSessions
<1>3. ~trTwice => \A s \in TrSessions : TrCut[s] \notin {"connecting", "ready"}
  BY CutOpensNone DEF TrCalm
<1>4. ~trTwice => TrLive \ {trCurrent} = {}
  BY DEF TrCalm
<1>5. CASE TrConnect
  <2>1. /\ TrOpened(TrCut) /\ trTimers' = TrTimersCleared
        /\ UNCHANGED <<trKind, trReading, trTwice>>
    BY <1>5 DEF TrConnect
  <2>2. /\ trIntent' \in BOOLEAN /\ trUrl' \in BOOLEAN /\ trHandle' \in BOOLEAN
        /\ ~trHandle' /\ ~trIntent' /\ trUrl'
    BY <1>5, Zenon DEF TrConnect
  <2>3. /\ SessionsTyped' /\ trCurrent' \in TrSessions
        /\ \A s \in TrSessions : s # trCurrent' => trSession'[s] = TrCut[s]
    BY <2>1, CutOpensNone, OpenedTyped
  <2>4. TrShape'
    BY <1>1, <1>2, <2>1, <2>2, <2>3 DEF TrShape
  <2>5. ASSUME ~trTwice' PROVE TrCalm'
    <3>1. ~trTwice
      BY <2>1, <2>5
    <3>2. TrLive' \subseteq {trCurrent'}
      BY <1>3, <2>3, <3>1 DEF TrLive
    <3> QED
      BY <1>1, <2>1, <2>2, <3>1, <3>2 DEF TrCalm
  <2> QED
    BY <2>4, <2>5
<1>6. CASE TrConnectThrows
  <2>1. /\ trSession' = TrCut /\ trCurrent' = 0
        /\ TrScheduled(TrTimersCleared, TrLive \ {trCurrent})
        /\ UNCHANGED <<trKind, trReading>>
    BY <1>6 DEF TrConnectThrows
  <2>2. trIntent' \in BOOLEAN /\ trUrl' \in BOOLEAN /\ ~trIntent' /\ trUrl'
    BY <1>6, Zenon DEF TrConnectThrows
  <2>3. trTwice \in BOOLEAN
    BY DEF TrShape
  <2>4. /\ trTimers' \in 0 .. MaxTrTimers /\ trTimers' = TrTimersCleared + 1
        /\ trHandle' \in BOOLEAN /\ trHandle' /\ trTwice' \in BOOLEAN
        /\ ~trTwice' => ~trTwice /\ TrTimersCleared = 0 /\ TrLive \ {trCurrent} = {}
    BY <1>1, <2>1, <2>3, ScheduledIs
  <2>5. TrShape'
    BY <1>1, <2>1, <2>2, <2>4, TransportsAssumption DEF TrShape
  <2>6. ASSUME ~trTwice' PROVE TrCalm'
    <3>1. TrLive' = {}
      BY <1>3, <2>1, <2>4, <2>6 DEF TrLive
    <3> QED
      BY <2>2, <2>4, <2>6, <3>1 DEF TrCalm
  <2> QED
    BY <2>5, <2>6
<1>7. CASE TrDisconnect
  <2>1. /\ trSession' = TrCut /\ trCurrent' = 0 /\ trTimers' = TrTimersCleared
        /\ UNCHANGED <<trKind, trReading, trTwice>>
    BY <1>7 DEF TrDisconnect
  <2>2. /\ trIntent' \in BOOLEAN /\ trUrl' \in BOOLEAN /\ trHandle' \in BOOLEAN /\ ~trHandle'
    BY <1>7, Zenon DEF TrDisconnect
  <2>3. TrShape'
    BY <1>1, <2>1, <2>2, TransportsAssumption DEF TrShape
  <2>4. ASSUME ~trTwice' PROVE TrCalm'
    <3>1. TrLive' = {}
      BY <1>3, <2>1, <2>4 DEF TrLive
    <3> QED
      BY <1>1, <2>1, <2>2, <2>4, <3>1 DEF TrCalm
  <2> QED
    BY <2>3, <2>4
<1> QED
  BY <1>5, <1>6, <1>7

\* A reconnection that falls due, with a constructor that works or throws.
LEMMA TrTimerKeeps ==
    ASSUME TrInv, TrTimer \/ TrTimerThrows
    PROVE  TrShape' /\ (~trTwice' => TrCalm')
<1> USE DEF TrInv
<1>1. \A s \in TrSessions : s \in 0 .. MaxSessions
  BY TransportsAssumption DEF TrSessions
<1>2. CASE TrTimer
  <2>1. /\ trTimers > 0 /\ trTimers' = trTimers - 1
        /\ UNCHANGED <<trKind, trIntent, trUrl, trReading, trTwice>>
    BY <1>2 DEF TrTimer
  <2>2. trHandle' \in BOOLEAN /\ ~trHandle'
    BY <1>2, Zenon DEF TrTimer
  <2>3. \/ /\ trCurrent' \in TrSessions
           /\ \A s \in TrSessions : s # trCurrent' => trSession'[s] = trSession[s]
           /\ ~trIntent /\ trUrl
        \/ trCurrent' = trCurrent /\ trSession' = trSession
    <3>1. CASE ~trIntent /\ trUrl
      <4>1. TrOpened(trSession)
        BY <1>2, <3>1 DEF TrTimer
      <4> QED
        BY <3>1, <4>1, OpenedTyped DEF SessionsTyped
    <3>2. CASE ~(~trIntent /\ trUrl)
      BY <1>2, <3>2 DEF TrTimer
    <3> QED
      BY <3>1, <3>2
  <2>4. trTimers' \in 0 .. MaxTrTimers
    BY <2>1, TransportsAssumption DEF TrShape
  <2>5. TrShape'
    BY <1>1, <2>1, <2>2, <2>3, <2>4 DEF TrShape
  <2>6. ASSUME ~trTwice' PROVE TrCalm'
    <3>1. TrCalm /\ TrLive = {} /\ trTimers' = 0
      BY <2>1, <2>6 DEF TrCalm, TrShape
    <3>2. TrLive' \subseteq {trCurrent'}
      BY <2>3, <3>1 DEF TrLive
    <3>3. trIntent' \/ ~trUrl' => TrLive' = {}
      BY <2>1, <2>3, <3>1 DEF TrLive
    <3> QED
      BY <2>2, <3>1, <3>2, <3>3 DEF TrCalm
  <2> QED
    BY <2>5, <2>6
<1>3. CASE TrTimerThrows
  <2>1. /\ trTimers > 0 /\ ~trIntent /\ trUrl /\ TrScheduled(trTimers - 1, TrLive)
        /\ UNCHANGED <<trKind, trSession, trCurrent, trIntent, trUrl, trReading>>
    BY <1>3 DEF TrTimerThrows
  <2>2. trTimers - 1 \in Nat /\ trTwice \in BOOLEAN
    BY <2>1 DEF TrShape
  <2> DEFINE pending == trTimers - 1
  <2>a. pending \in Nat /\ TrScheduled(pending, TrLive)
    BY <2>1, <2>2
  <2> HIDE DEF pending
  <2>b. /\ trTimers' \in 0 .. MaxTrTimers /\ trTimers' = pending + 1
        /\ trHandle' \in BOOLEAN /\ trHandle' /\ trTwice' \in BOOLEAN
        /\ ~trTwice' => ~trTwice /\ pending = 0 /\ TrLive = {}
    BY <2>2, <2>a, ScheduledIs
  <2>3. /\ trTimers' \in 0 .. MaxTrTimers /\ trTimers' = (trTimers - 1) + 1
        /\ trHandle' \in BOOLEAN /\ trHandle' /\ trTwice' \in BOOLEAN
        /\ ~trTwice' => ~trTwice /\ trTimers - 1 = 0 /\ TrLive = {}
    BY <2>b DEF pending
  <2>4. TrShape'
    BY <2>1, <2>2, <2>3 DEF TrShape
  <2>5. ASSUME ~trTwice' PROVE TrCalm'
    <3>1. TrLive' = {}
      BY <2>1, <2>3, <2>5 DEF TrLive
    <3> QED
      BY <2>1, <2>2, <2>3, <2>5, <3>1 DEF TrCalm
  <2> QED
    BY <2>4, <2>5
<1> QED
  BY <1>2, <1>3

\* What the sessions report: one of them changes its state, and the callback
\* may schedule a reconnection.
LEMMA TrEventsKeep ==
    ASSUME TrInv, NEW s \in TrSessions,
           TrReady(s) \/ TrReadyRejected(s) \/ TrClosed(s) \/ TrSocketClosed(s)
    PROVE  TrShape' /\ (~trTwice' => TrCalm')
<1> USE DEF TrInv
<1>0. UNCHANGED <<trKind, trIntent, trUrl>>
  BY DEF TrReady, TrReadyRejected, TrClosed, TrSocketClosed
<1>1. CASE TrReadyRejected(s) \/ TrClosed(s) \/ TrSocketClosed(s)
  <2>1. /\ TrSchedule(TrLive \ {s}) /\ trCurrent' \in {0, trCurrent} /\ trReading' = trReading
        /\ trCurrent' = trCurrent \/ trCurrent' = 0
    BY <1>1 DEF TrReadyRejected, TrClosed, TrSocketClosed
  <2>2. TrLive' = TrLive \ {s}
    BY <1>1 DEF TrReadyRejected, TrClosed, TrSocketClosed, TrLive, SessionsTyped
  <2>3. /\ trTimers' \in 0 .. MaxTrTimers /\ trHandle' \in BOOLEAN /\ trTwice' \in BOOLEAN
        /\ (trHandle' => trTimers' > 0) /\ (~trTwice' => ~trTwice)
        /\ \/ (trIntent \/ ~trUrl) /\ UNCHANGED <<trTimers, trHandle, trTwice>>
           \/ /\ ~trIntent /\ trUrl /\ trTimers' = trTimers + 1 /\ trHandle'
              /\ ~trTwice' => trTimers = 0 /\ TrLive \ {s} = {}
    BY <2>1, ScheduleIs
  <2>4. TrShape'
    BY <1>0, <2>1, <2>3, TransportsAssumption DEF TrShape
  <2>5. ASSUME ~trTwice' PROVE TrCalm'
    <3>1. TrCalm
      BY <2>3, <2>5
    <3>2. CASE trIntent \/ ~trUrl
      <4>1. TrLive' = {} /\ trTimers' = trTimers /\ trHandle' = trHandle
        BY <2>2, <2>3, <3>1, <3>2 DEF TrCalm
      <4> QED
        BY <1>0, <3>1, <4>1 DEF TrCalm
    <3>3. CASE ~trIntent /\ trUrl
      <4>1. TrLive' = {} /\ trTimers' = 1 /\ trHandle'
        BY <2>2, <2>3, <2>5, <3>3
      <4> QED
        BY <1>0, <3>3, <4>1 DEF TrCalm
    <3> QED
      BY <3>2, <3>3
  <2> QED
    BY <2>4, <2>5
<1>2. CASE TrReady(s)
  <2>1. /\ trSession[s] = "connecting" /\ trSession' = [trSession EXCEPT ![s] = "ready"]
        /\ trCurrent' = trCurrent
    BY <1>2 DEF TrReady
  <2>2. TrLive' = TrLive /\ s \in TrLive
    BY <2>1 DEF TrLive, SessionsTyped
  <2>3. trReading' \subseteq TrSessions
    <3>1. trReading' = trReading \/ (trReading' = trReading \union {trCurrent} /\ trCurrent # 0)
      BY <1>2 DEF TrReady
    <3>2. trCurrent # 0 => trCurrent \in TrSessions
      BY TransportsAssumption DEF TrShape, TrSessions
    <3> QED
      BY <3>1, <3>2 DEF TrShape
  <2>4. CASE UNCHANGED <<trTimers, trHandle, trTwice>>
    <3>1. TrShape'
      BY <1>0, <2>1, <2>3, <2>4 DEF TrShape
    <3>2. ~trTwice' => TrCalm'
      BY <1>0, <2>1, <2>2, <2>4 DEF TrCalm
    <3> QED
      BY <3>1, <3>2
  <2>5. CASE TrSchedule(TrLive)
    <3>1. /\ trTimers' \in 0 .. MaxTrTimers /\ trHandle' \in BOOLEAN /\ trTwice' \in BOOLEAN
          /\ (trHandle' => trTimers' > 0) /\ (~trTwice' => ~trTwice)
          /\ \/ (trIntent \/ ~trUrl) /\ UNCHANGED <<trTimers, trHandle, trTwice>>
             \/ /\ ~trIntent /\ trUrl /\ trTimers' = trTimers + 1 /\ trHandle'
                /\ ~trTwice' => trTimers = 0 /\ TrLive = {}
      BY <2>5, ScheduleIs
    <3>2. TrShape'
      BY <1>0, <2>1, <2>3, <3>1 DEF TrShape
    <3>3. ~trTwice' => TrCalm'
      BY <1>0, <2>1, <2>2, <3>1 DEF TrCalm
    <3> QED
      BY <3>2, <3>3
  <2> QED
    BY <1>2, <2>4, <2>5 DEF TrReady
<1> QED
  BY <1>1, <1>2

\* A transport keeps TrInv.
THEOREM TransportInvariant == TrSpec => []TrInv
<1>1. TrInit => TrShape /\ TrCalm
  <2> SUFFICES ASSUME TrInit PROVE TrShape /\ TrCalm
    OBVIOUS
  <2>1. /\ trIntent \in BOOLEAN /\ trUrl \in BOOLEAN /\ trHandle \in BOOLEAN /\ ~trHandle
        /\ trTwice \in BOOLEAN
    BY Zenon DEF TrInit
  <2> QED
    BY <2>1, TransportsAssumption DEF TrInit, TrShape, TrCalm, TrLive
<1>2. SessionsTyped /\ SessionsTyped' /\ (TrShape /\ (~trTwice => TrCalm)) /\ [TrNext]_trVars =>
        TrShape' /\ (~trTwice' => TrCalm')
  <2> SUFFICES ASSUME TrInv, [TrNext]_trVars PROVE TrShape' /\ (~trTwice' => TrCalm')
    BY DEF TrInv
  <2>1. CASE UNCHANGED trVars
    BY <2>1 DEF trVars, TrInv, TrShape, TrCalm, TrLive
  <2> QED
    BY <2>1, TrCallsKeep, TrTimerKeeps, TrEventsKeep DEF TrNext
<1>3. SessionsTyped /\ TrShape /\ (~trTwice => TrCalm) => TrInv
  BY DEF TrInv
<1> QED
  BY <1>1, <1>2, <1>3, TransportSessions, PTL DEF TrSpec

\* The types of a transport: the handle of the last timer means that there is
\* one, and no timer is scheduled beyond the bound.
THEOREM TransportTyped == TrSpec => []TrTypeOK
<1>1. TrInv => TrTypeOK
  BY DEF TrInv, TrShape, SessionsTyped, TrStates, TrTypeOK
<1> QED
  BY <1>1, TransportInvariant, PTL

\* Until two reconnections meet, a transport has one session, the one
\* disconnect() would close (TransportOwnsSession: _scheduleReconnect).
THEOREM TransportOwnsIts == TrSpec => []TransportOwnsSession
<1>1. TrInv => TransportOwnsSession
  BY DEF TrInv, TrShape, TrCalm, TransportOwnsSession
<1> QED
  BY <1>1, TransportInvariant, PTL

-----------------------------------------------------------------------------
(* The ring of the radio worklet.                                          *)

RgInv == RgTypeOK /\ RingExact

\* Both positions at zero hold nothing.
LEMMA EmptyAtZero == RingCap \in Nat \ {0} /\ (0 + 0) % RingCap = 0
<1>1. RingCap \in Nat \ {0} /\ 0 + 0 = 0 /\ 0 \in 0 .. RingCap - 1
  BY RadioRingAssumption
<1>2. 0 % RingCap = 0
  BY <1>1, FirstTurn
<1> QED
  BY <1>1, <1>2

\* The writer's arithmetic: the position after a push of n.
LEMMA Advance ==
    ASSUME NEW N \in Nat \ {0}, NEW r \in 0 .. N - 1, NEW w \in 0 .. N - 1,
           NEW b \in 0 .. N, NEW n \in Nat, b + n <= N, (r + b) % N = w
    PROVE  (w + n) % N \in 0 .. N - 1 /\ (r + (b + n)) % N = (w + n) % N
<1>1. CASE r + b < N
  <2>1. r + b \in 0 .. N - 1
    BY <1>1
  <2>2. w = r + b
    BY <2>1, FirstTurn
  <2>3. r + (b + n) = w + n
    BY <2>2
  <2>4. CASE w + n < N
    <3>1. w + n \in 0 .. N - 1
      BY <2>4
    <3> QED
      BY <2>3, <3>1, FirstTurn
  <2>5. CASE w + n >= N
    <3>1. (w + n - N) \in 0 .. N - 1 /\ (w + n - N) + N = w + n
      BY <2>5, <2>2
    <3>2. (w + n) % N = w + n - N
      BY <3>1, SecondTurn
    <3> QED
      BY <2>3, <3>1, <3>2
  <2> QED
    BY <2>4, <2>5
<1>2. CASE r + b >= N
  <2>1. (r + b - N) \in 0 .. N - 1 /\ (r + b - N) + N = r + b
    BY <1>2
  <2>2. w = r + b - N
    BY <2>1, SecondTurn
  <2>3. w + n \in 0 .. N - 1 /\ (w + n) + N = r + (b + n)
    BY <2>2
  <2>4. (w + n) % N = w + n
    BY <2>3, FirstTurn
  <2>5. (r + (b + n)) % N = w + n
    BY <2>3, SecondTurn
  <2> QED
    BY <2>3, <2>4, <2>5
<1> QED
  BY <1>1, <1>2

\* The reader's arithmetic: the position after n of b samples were taken.
LEMMA Retreat ==
    ASSUME NEW N \in Nat \ {0}, NEW r \in 0 .. N - 1, NEW b \in 0 .. N, NEW n \in 0 .. b
    PROVE  /\ (r + n) % N \in 0 .. N - 1
           /\ (((r + n) % N) + (b - n)) % N = (r + b) % N
<1>1. CASE r + n < N
  <2>1. r + n \in 0 .. N - 1 /\ (r + n) + (b - n) = r + b
    BY <1>1
  <2>2. (r + n) % N = r + n
    BY <2>1, FirstTurn
  <2> QED
    BY <2>1, <2>2
<1>2. CASE r + n >= N
  <2>1. (r + n - N) \in 0 .. N - 1 /\ (r + n - N) + N = r + n
        /\ (r + b - N) \in 0 .. N - 1 /\ (r + b - N) + N = r + b
        /\ (r + n - N) + (b - n) = r + b - N
    BY <1>2
  <2>2. (r + n) % N = r + n - N
    BY <2>1, SecondTurn
  <2>3. (r + b) % N = r + b - N
    BY <2>1, SecondTurn
  <2>4. (r + b - N) % N = r + b - N
    BY <2>1, FirstTurn
  <2> QED
    BY <2>1, <2>2, <2>3, <2>4
<1> QED
  BY <1>1, <1>2

\* The ring as numbers.
LEMMA RingNumbers ==
    ASSUME RgInv
    PROVE  /\ RingCap \in Nat \ {0} /\ rgR \in 0 .. RingCap - 1 /\ rgW \in 0 .. RingCap - 1
           /\ rgBuffered \in 0 .. RingCap /\ (rgR + rgBuffered) % RingCap = rgW
BY RadioRingAssumption DEF RgInv, RgTypeOK, RingExact

\* Both positions move by as much as the count does: the writer ...
LEMMA Filled ==
    ASSUME RgInv, NEW n \in Nat, rgBuffered + n <= RingCap,
           rgW' = (rgW + n) % RingCap, rgBuffered' = rgBuffered + n, rgR' = rgR
    PROVE  rgW' \in 0 .. RingCap - 1 /\ rgBuffered' \in 0 .. RingCap /\ RingExact'
<1>1. (rgW + n) % RingCap \in 0 .. RingCap - 1
      /\ (rgR + (rgBuffered + n)) % RingCap = (rgW + n) % RingCap
  BY RingNumbers, Advance, ZenonT(30)
<1>2. rgBuffered + n \in 0 .. RingCap
  BY RingNumbers
<1> QED
  BY <1>1, <1>2 DEF RingExact

\* ... and the reader, by no more than there is.
LEMMA Drained ==
    ASSUME RgInv, NEW n \in 0 .. rgBuffered,
           rgR' = (rgR + n) % RingCap, rgBuffered' = rgBuffered - n, rgW' = rgW
    PROVE  rgR' \in 0 .. RingCap - 1 /\ rgBuffered' \in 0 .. RingCap /\ RingExact'
<1>1. (rgR + n) % RingCap \in 0 .. RingCap - 1
      /\ (((rgR + n) % RingCap) + (rgBuffered - n)) % RingCap = (rgR + rgBuffered) % RingCap
  BY RingNumbers, Retreat, ZenonT(30)
<1>2. rgBuffered - n \in 0 .. RingCap
  BY RingNumbers
<1>3. (rgR + rgBuffered) % RingCap = rgW
  BY RingNumbers
<1> QED
  BY <1>1, <1>2, <1>3 DEF RingExact

\* The inductive invariant: types, and the distance of the positions.
THEOREM RadioRingInvariant == RgSpec => []RgInv
<1> USE RadioRingAssumption
<1>0. RingCap \in Nat \ {0} /\ (0 + 0) % RingCap = 0
  BY EmptyAtZero
<1>1. RgInit => RgInv
  <2> SUFFICES ASSUME RgInit PROVE RgInv
    OBVIOUS
  <2>1. rgW = 0 /\ rgR = 0 /\ rgBuffered = 0 /\ rgTarget = RingPrefill
    BY DEF RgInit
  <2>2. rgPrefilled \in BOOLEAN
    BY Zenon DEF RgInit
  <2>3. rgW \in 0 .. RingCap - 1 /\ rgR \in 0 .. RingCap - 1 /\ rgBuffered \in 0 .. RingCap
        /\ rgTarget \in RingTargets \union {RingPrefill}
    BY <1>0, <2>1
  <2> QED
    BY <1>0, <2>1, <2>2, <2>3 DEF RgInv, RgTypeOK, RingExact
<1>2. RgInv /\ [RgNext]_rgVars => RgInv'
  <2> SUFFICES ASSUME RgInv, [RgNext]_rgVars PROVE RgInv'
    OBVIOUS
  <2>1. ASSUME NEW n \in RingChunks, RingPush(n) PROVE RgInv'
    <3>1. n \in Nat /\ 10 * n <= RingCap /\ rgBuffered \in Nat /\ RingCap \in Nat
      BY DEF RgInv, RgTypeOK
    <3>2. 10 * rgBuffered <= 9 * RingCap
      BY <2>1 DEF RingPush
    <3>3. rgBuffered + n <= RingCap
      BY <3>1, <3>2
    <3>4. /\ rgW' = (rgW + n) % RingCap /\ rgBuffered' = rgBuffered + n /\ rgR' = rgR
          /\ rgTarget' = rgTarget /\ rgPrefilled' = (rgPrefilled \/ rgBuffered' >= RingPrefill)
      BY <2>1 DEF RingPush
    <3>5. rgW' \in 0 .. RingCap - 1 /\ rgBuffered' \in 0 .. RingCap /\ RingExact'
      BY <3>1, <3>3, <3>4, Filled
    <3>6. rgPrefilled' \in BOOLEAN
      BY <3>4, Zenon DEF RgInv, RgTypeOK
    <3> QED
      BY <3>4, <3>5, <3>6 DEF RgInv, RgTypeOK
  <2>2. ASSUME NEW n \in RingChunks, RingSkip(n) PROVE RgInv'
    <3>1. AtMostOf(n, rgBuffered) \in 0 .. rgBuffered
      BY DEF AtMostOf, RgInv, RgTypeOK
    <3>2. rgR' \in 0 .. RingCap - 1 /\ rgBuffered' \in 0 .. RingCap /\ RingExact'
      BY <2>2, <3>1, Drained DEF RingSkip
    <3> QED
      BY <2>2, <3>2 DEF RingSkip, RgInv, RgTypeOK
  <2>3. ASSUME NEW t \in RingTargets, RingTarget(t) PROVE RgInv'
    BY <2>3 DEF RingTarget, RgInv, RgTypeOK, RingExact
  <2>4. CASE RingReset
    <3>1. /\ rgW' = 0 /\ rgR' = 0 /\ rgBuffered' = 0
          /\ rgTarget' = rgTarget
      BY <2>4 DEF RingReset
    <3>a. rgPrefilled' \in BOOLEAN
      BY <2>4, Zenon DEF RingReset
    <3>b. 0 \in 0 .. RingCap - 1 /\ 0 \in 0 .. RingCap
      BY <1>0
    <3>2. RgTypeOK'
      BY <3>1, <3>a, <3>b DEF RgInv, RgTypeOK
    <3>3. RingExact'
      BY <1>0, <3>1 DEF RingExact
    <3> QED
      BY <3>2, <3>3 DEF RgInv
  <2>5. CASE RingProcess
    <3>1. PICK slack \in -RingSlack .. RingSlack :
              /\ rgR' = (rgR + AtMostOf(RingBlock + slack, rgBuffered)) % RingCap
              /\ rgBuffered' = rgBuffered - AtMostOf(RingBlock + slack, rgBuffered)
      BY <2>5 DEF RingProcess
    <3>2. AtMostOf(RingBlock + slack, rgBuffered) \in 0 .. rgBuffered
      <4>1. RingBlock + slack \in Nat
        OBVIOUS
      <4> QED
        BY <4>1 DEF AtMostOf, RgInv, RgTypeOK
    <3>3. rgW' = rgW /\ rgPrefilled' = rgPrefilled /\ rgTarget' = rgTarget
      BY <2>5 DEF RingProcess
    <3>4. rgR' \in 0 .. RingCap - 1 /\ rgBuffered' \in 0 .. RingCap /\ RingExact'
      BY <3>1, <3>2, <3>3, Drained
    <3> QED
      BY <3>3, <3>4 DEF RgInv, RgTypeOK
  <2>6. CASE UNCHANGED rgVars
    BY <2>6 DEF rgVars, RgInv, RgTypeOK, RingExact
  <2> QED
    BY <2>1, <2>2, <2>3, <2>4, <2>5, <2>6 DEF RgNext
<1> QED
  BY <1>1, <1>2, PTL DEF RgSpec

\* Whatever is pushed, skipped, reset and played faster or slower, the radio
\* worklet's count is the distance of its positions and fits the ring, so that
\* no push runs over unplayed samples and none that was not pushed is read
\* (soluna-worklet.js).
THEOREM RadioRingExact == RgSpec => []RingExact
<1>1. RgInv => RingExact
  BY DEF RgInv
<1> QED
  BY <1>1, RadioRingInvariant, PTL

-----------------------------------------------------------------------------
(* The ring in shared memory.                                              *)

\* The samples from place p on are those numbered from first on.
Holds(slots, p, first, count) ==
    \A k \in 0 .. count - 1 : slots[(p + k) % SabCap] = (first + k) % SabNumbers

\* What each side has loaded is still so: its own head, and at least the room
\* or the samples it counted, for the other side only ever adds to them.
SabLoaded ==
    /\ sabWriter.at # "rest" => /\ sabWriter.head = sabW
                                /\ sabWriter.count <= SabSpace(sabW, sabR)
    /\ sabReader.at # "rest" => /\ sabReader.head = sabR
                                /\ sabReader.count <= SabUsed(sabW, sabR)

\* What was copied and not yet stored follows what is held.
SabCopied ==
    sabWriter.at = "copied" => Holds(sabSlot, sabW, sabNext, sabWriter.count)

SabNumbered == sabNext = (sabHeard + SabUsed(sabW, sabR)) % SabNumbers

SabInv ==
    /\ SabTypeOK /\ SabLoaded /\ SabCopied /\ SabNumbered
    /\ Holds(sabSlot, sabR, sabHeard, SabUsed(sabW, sabR))

\* The ring as numbers.
LEMMA SabNumbersAre ==
    ASSUME SabTypeOK
    PROVE  /\ SabCap \in Nat \ {0} /\ SabCap > 1 /\ SabNumbers \in Nat \ {0} /\ SabCap < SabNumbers
           /\ SabBlock \in 1 .. SabCap - 1
           /\ sabW \in 0 .. SabCap - 1 /\ sabR \in 0 .. SabCap - 1
           /\ SabUsed(sabW, sabR) \in 0 .. SabCap - 1
           /\ (sabR + SabUsed(sabW, sabR)) % SabCap = sabW
           /\ sabNext \in 0 .. SabNumbers - 1 /\ sabHeard \in 0 .. SabNumbers - 1
           /\ \A i \in 0 .. SabCap - 1 : sabSlot[i] \in 0 .. SabNumbers - 1
           /\ sabWriter.count \in 0 .. SabCap - 1 /\ sabReader.count \in 0 .. SabCap - 1
           /\ sabWriter.head \in 0 .. SabCap - 1 /\ sabReader.head \in 0 .. SabCap - 1
<1>1. /\ SabCap \in Nat \ {0} /\ SabCap > 1 /\ SabNumbers \in Nat \ {0} /\ SabCap < SabNumbers
      /\ SabBlock \in 1 .. SabCap - 1
  BY SharedRingAssumption
<1>2. /\ sabW \in 0 .. SabCap - 1 /\ sabR \in 0 .. SabCap - 1
      /\ sabNext \in 0 .. SabNumbers - 1 /\ sabHeard \in 0 .. SabNumbers - 1
      /\ \A i \in 0 .. SabCap - 1 : sabSlot[i] \in 0 .. SabNumbers - 1
  BY DEF SabTypeOK, SabSlots
<1>3. /\ SabUsed(sabW, sabR) \in 0 .. SabCap - 1
      /\ (sabR + SabUsed(sabW, sabR)) % SabCap = sabW
  BY <1>1, <1>2, Distance DEF SabUsed
<1>4. /\ sabWriter.count \in 0 .. SabCap - 1 /\ sabReader.count \in 0 .. SabCap - 1
      /\ sabWriter.head \in 0 .. SabCap - 1 /\ sabReader.head \in 0 .. SabCap - 1
  BY DEF SabTypeOK, SabSlots
<1> QED
  BY <1>1, <1>2, <1>3, <1>4

\* How much is used after either head moved: n more, or n less.
LEMMA UsedAfter ==
    ASSUME NEW N \in Nat \ {0}, NEW w \in 0 .. N - 1, NEW r \in 0 .. N - 1, NEW n \in 0 .. N - 1
    PROVE  LET u == (w - r + N) % N
           IN  /\ u + n <= N - 1 => ((((w + n) % N) - r + N) % N) = u + n
               /\ n <= u => (w - ((r + n) % N) + N) % N = u - n
<1> DEFINE u == (w - r + N) % N
           v == (w + n) % N
           s == (r + n) % N
<1>1. u = (IF r <= w THEN w - r ELSE w - r + N) /\ u \in 0 .. N - 1
  BY Distance
<1>0. n \in 0 .. N
  OBVIOUS
<1>2. v = (IF w + n < N THEN w + n ELSE w + n - N) /\ v \in 0 .. N - 1
  BY <1>0, Turned, Zenon
<1>3. s = (IF r + n < N THEN r + n ELSE r + n - N) /\ s \in 0 .. N - 1
  BY <1>0, Turned, Zenon
<1> HIDE DEF u, v, s
<1>4. (v - r + N) % N = IF r <= v THEN v - r ELSE v - r + N
  BY <1>2, Distance
<1>5. (w - s + N) % N = IF s <= w THEN w - s ELSE w - s + N
  BY <1>3, Distance
<1>6. u + n <= N - 1 => (v - r + N) % N = u + n
  BY <1>1, <1>2, <1>4
<1>7. n <= u => (w - s + N) % N = u - n
  BY <1>1, <1>3, <1>5
<1> QED
  BY <1>6, <1>7 DEF u, v, s

\* The writer loads both heads.
LEMMA WriteLoadKeeps ==
    ASSUME SabInv, NEW n \in SabChunks, SabWriteLoad(n)
    PROVE  SabInv'
<1> DEFINE space == SabSpace(sabW, sabR)
           count == IF n <= space THEN n ELSE space
<1>1. /\ count > 0 /\ sabWriter' = [at |-> "loaded", head |-> sabW, count |-> count]
      /\ UNCHANGED <<sabReady, sabW, sabR, sabSlot, sabReader, sabNext, sabHeard>>
  BY DEF SabWriteLoad
<1>2. space \in 0 .. SabCap - 1
  BY SabNumbersAre DEF SabSpace, SabInv
<1>3. n \in Nat
  BY SharedRingAssumption
<1>4. count \in SabSlots /\ count <= space /\ sabW \in SabSlots
  <2>1. sabW \in SabSlots /\ SabCap \in Nat
    BY SharedRingAssumption DEF SabInv, SabTypeOK
  <2> HIDE DEF space
  <2> QED
    BY <1>2, <1>3, <2>1 DEF SabSlots
<1> HIDE DEF count
<1>5. SabTypeOK'
  BY <1>1, <1>4 DEF SabInv, SabTypeOK
<1>6. SabLoaded'
  BY <1>1, <1>4 DEF SabInv, SabLoaded, SabSpace, SabUsed
<1>7. SabCopied' /\ SabNumbered' /\ Holds(sabSlot, sabR, sabHeard, SabUsed(sabW, sabR))'
  BY <1>1 DEF SabInv, SabCopied, SabNumbered, SabUsed, Holds
<1> QED
  BY <1>5, <1>6, <1>7 DEF SabInv

\* It copies behind the read head it has loaded.
LEMMA WriteCopyKeeps ==
    ASSUME SabInv, SabWriteCopy
    PROVE  SabInv'
<1> DEFINE c == sabWriter.count
           u == SabUsed(sabW, sabR)
           place(i) == (i - sabW + SabCap) % SabCap
<1>1. /\ sabWriter.at = "loaded" /\ sabWriter.head = sabW
      /\ sabWriter' = [sabWriter EXCEPT !.at = "copied"]
      /\ sabSlot' = [i \in SabSlots |->
            IF place(i) < c THEN (sabNext + place(i)) % SabNumbers ELSE sabSlot[i]]
      /\ UNCHANGED <<sabReady, sabW, sabR, sabReader, sabNext, sabHeard>>
  BY DEF SabWriteCopy, SabInv, SabLoaded
<1>2. c <= SabCap - 1 - u
  BY <1>1 DEF SabInv, SabLoaded, SabSpace
<1>3. /\ SabCap \in Nat \ {0} /\ SabNumbers \in Nat \ {0} /\ SabCap < SabNumbers
      /\ sabW \in 0 .. SabCap - 1 /\ sabR \in 0 .. SabCap - 1
      /\ u \in 0 .. SabCap - 1 /\ (sabR + u) % SabCap = sabW
      /\ sabNext \in 0 .. SabNumbers - 1 /\ c \in 0 .. SabCap - 1
      /\ \A i \in 0 .. SabCap - 1 : sabSlot[i] \in 0 .. SabNumbers - 1
  BY SabNumbersAre DEF SabInv
<1>4. ASSUME NEW i \in SabSlots PROVE place(i) \in 0 .. SabCap - 1
  BY <1>3, Distance DEF SabSlots
<1>5. \A i \in SabSlots :
         sabSlot'[i] = IF place(i) < c THEN (sabNext + place(i)) % SabNumbers ELSE sabSlot[i]
  BY <1>1
<1>6. ASSUME NEW i \in SabSlots PROVE sabSlot'[i] \in 0 .. SabNumbers - 1
  <2>1. CASE place(i) < c
    <3>1. place(i) \in 0 .. SabNumbers
      BY <1>3, <1>4
    <3>2. (sabNext + place(i)) % SabNumbers \in 0 .. SabNumbers - 1
      BY <1>3, <3>1, Turned, Zenon
    <3> QED
      BY <1>5, <2>1, <3>2
  <2>2. CASE ~(place(i) < c)
    BY <1>3, <1>5, <2>2 DEF SabSlots
  <2> QED
    BY <2>1, <2>2
<1>7. sabWriter' \in [at : {"rest", "loaded", "copied"}, head : SabSlots, count : SabSlots]
      /\ sabWriter'.at = "copied" /\ sabWriter'.head = sabW /\ sabWriter'.count = c
  BY <1>1 DEF SabInv, SabTypeOK
<1>8. SabTypeOK'
  <2>1. sabSlot' \in [SabSlots -> 0 .. SabNumbers - 1]
    <3>1. sabSlot' = [i \in SabSlots |-> sabSlot'[i]]
      BY <1>1
    <3> QED
      BY <1>6, <3>1
  <2> QED
    BY <1>1, <1>7, <2>1 DEF SabInv, SabTypeOK
<1> HIDE DEF c
<1>9. SabLoaded'
  BY <1>1, <1>2, <1>7 DEF SabInv, SabLoaded, SabSpace, SabUsed
<1>10. ASSUME NEW k \in 0 .. c - 1
       PROVE  sabSlot'[(sabW + k) % SabCap] = (sabNext + k) % SabNumbers
  <2>1. k \in 0 .. SabCap - 1 /\ k < c
    BY <1>3
  <2>2. (sabW + k) % SabCap \in SabSlots /\ place((sabW + k) % SabCap) = k
    BY <1>3, <2>1, Along DEF SabSlots
  <2> QED
    BY <1>5, <2>1, <2>2
<1>11. SabCopied'
  BY <1>1, <1>7, <1>10 DEF SabCopied, Holds
<1>12. ASSUME NEW k \in 0 .. u - 1
       PROVE  sabSlot'[(sabR + k) % SabCap] = sabSlot[(sabR + k) % SabCap]
  <2> DEFINE i == (sabR + k) % SabCap
  <2>1. k \in 0 .. SabCap /\ u \in 0 .. SabCap
    BY <1>3
  <2>2. i \in 0 .. SabCap - 1 /\ i = IF sabR + k < SabCap THEN sabR + k ELSE sabR + k - SabCap
    BY <1>3, <2>1, Turned, Zenon
  <2>3. sabW = IF sabR + u < SabCap THEN sabR + u ELSE sabR + u - SabCap
    BY <1>3, <2>1, Turned, Zenon
  <2> HIDE DEF i, u
  <2>4. place(i) = IF sabW <= i THEN i - sabW ELSE i - sabW + SabCap
    BY <1>3, <2>2, Distance
  <2>5. place(i) = (SabCap - u) + k
    BY <1>3, <2>2, <2>3, <2>4
  <2>6. ~(place(i) < c)
    BY <1>2, <1>3, <2>5
  <2> QED
    BY <1>5, <2>2, <2>6 DEF SabSlots, i
<1>13. Holds(sabSlot, sabR, sabHeard, SabUsed(sabW, sabR))'
  <2>1. \A k \in 0 .. u - 1 : sabSlot[(sabR + k) % SabCap] = (sabHeard + k) % SabNumbers
    BY DEF SabInv, Holds
  <2>2. \A k \in 0 .. u - 1 : sabSlot'[(sabR + k) % SabCap] = (sabHeard + k) % SabNumbers
    BY <1>12, <2>1
  <2>3. SabUsed(sabW, sabR)' = u /\ sabR' = sabR /\ sabHeard' = sabHeard
    BY <1>1 DEF SabUsed
  <2> QED
    BY <2>2, <2>3 DEF Holds
<1>14. SabNumbered'
  BY <1>1 DEF SabInv, SabNumbered, SabUsed
<1> QED
  BY <1>8, <1>9, <1>11, <1>13, <1>14 DEF SabInv

\* It stores its head, and what it copied counts as accepted.
LEMMA WriteStoreKeeps ==
    ASSUME SabInv, SabWriteStore
    PROVE  SabInv'
<1> DEFINE c == sabWriter.count
           u == SabUsed(sabW, sabR)
<1>1. /\ sabWriter.at = "copied" /\ sabWriter' = Resting
      /\ sabW' = (sabW + c) % SabCap /\ sabNext' = (sabNext + c) % SabNumbers
      /\ UNCHANGED <<sabReady, sabR, sabSlot, sabReader, sabHeard>>
  BY DEF SabWriteStore, SabInv, SabLoaded
<1>2. c <= SabCap - 1 - u
  BY <1>1 DEF SabInv, SabLoaded, SabSpace
<1>3. /\ SabCap \in Nat \ {0} /\ SabNumbers \in Nat \ {0} /\ SabCap < SabNumbers
      /\ sabW \in 0 .. SabCap - 1 /\ sabR \in 0 .. SabCap - 1
      /\ u \in 0 .. SabCap - 1 /\ (sabR + u) % SabCap = sabW
      /\ sabNext \in 0 .. SabNumbers - 1 /\ c \in 0 .. SabCap - 1
      /\ sabHeard \in 0 .. SabNumbers - 1
  BY SabNumbersAre DEF SabInv
<1>4. sabNext = (sabHeard + u) % SabNumbers
  BY DEF SabInv, SabNumbered
<1>5. /\ \A k \in 0 .. u - 1 : sabSlot[(sabR + k) % SabCap] = (sabHeard + k) % SabNumbers
      /\ \A k \in 0 .. c - 1 : sabSlot[(sabW + k) % SabCap] = (sabNext + k) % SabNumbers
  BY <1>1 DEF SabInv, SabCopied, Holds
<1>6. SabUsed(sabW, sabR)' = u + c
  <2>1. u = (sabW - sabR + SabCap) % SabCap
    BY DEF SabUsed
  <2>2. u + c <= SabCap - 1
    BY <1>2, <1>3
  <2>3. (((sabW + c) % SabCap) - sabR + SabCap) % SabCap = u + c
    <3> HIDE DEF u, c
    <3> QED
      BY <1>3, <2>1, <2>2, UsedAfter
  <2> QED
    BY <1>1, <2>3 DEF SabUsed
<1>7. SabTypeOK'
  <2>1. sabW' \in SabSlots /\ sabNext' \in 0 .. SabNumbers - 1
    <3>1. c \in 0 .. SabCap /\ c \in 0 .. SabNumbers
      BY <1>3
    <3>2. (sabW + c) % SabCap \in 0 .. SabCap - 1
      BY <1>3, <3>1, Turned, Zenon
    <3>3. (sabNext + c) % SabNumbers \in 0 .. SabNumbers - 1
      BY <1>3, <3>1, Turned, Zenon
    <3> QED
      BY <1>1, <3>2, <3>3 DEF SabSlots
  <2>2. Resting \in [at : {"rest", "loaded", "copied"}, head : SabSlots, count : SabSlots]
    BY <1>3 DEF Resting, SabSlots
  <2> QED
    BY <1>1, <2>1, <2>2 DEF SabInv, SabTypeOK
<1> HIDE DEF c, u
<1>8. SabLoaded' /\ SabCopied'
  <2>1. sabWriter'.at = "rest"
    BY <1>1 DEF Resting
  <2>2. sabReader.at # "rest" => sabReader.head = sabR /\ sabReader.count <= u
    BY DEF SabInv, SabLoaded, u
  <2>3. sabReader.count \in Nat
    BY DEF SabInv, SabTypeOK, SabSlots
  <2>4. sabReader.at # "rest" => sabReader.count <= u + c
    BY <1>3, <2>2, <2>3
  <2> QED
    BY <1>1, <1>6, <2>1, <2>2, <2>4 DEF SabLoaded, SabCopied
<1>9. SabNumbered'
  <2>1. u + c <= SabNumbers /\ u \in Nat /\ c \in Nat
    BY <1>2, <1>3
  <2>2. (sabNext + c) % SabNumbers = (sabHeard + (u + c)) % SabNumbers
    BY <1>3, <1>4, <2>1, InTwoParts, Zenon
  <2> QED
    BY <1>1, <1>6, <2>2 DEF SabNumbered
<1>10. ASSUME NEW k \in 0 .. (u + c) - 1
       PROVE  sabSlot[(sabR + k) % SabCap] = (sabHeard + k) % SabNumbers
  <2>1. CASE k < u
    BY <1>3, <1>5, <2>1
  <2>2. CASE k >= u
    <3> DEFINE j == k - u
    <3>1. j \in 0 .. c - 1 /\ u + j = k /\ u + j <= SabCap /\ u + j <= SabNumbers /\ j \in Nat /\ u \in Nat
      BY <1>2, <1>3, <2>2
    <3> HIDE DEF j
    <3>2. (sabW + j) % SabCap = (sabR + (u + j)) % SabCap
      BY <1>3, <3>1, InTwoParts, Zenon
    <3>3. (sabNext + j) % SabNumbers = (sabHeard + (u + j)) % SabNumbers
      BY <1>3, <1>4, <3>1, InTwoParts, Zenon
    <3> QED
      BY <1>5, <3>1, <3>2, <3>3
  <2> QED
    BY <1>3, <2>1, <2>2
<1>11. Holds(sabSlot, sabR, sabHeard, SabUsed(sabW, sabR))'
  BY <1>1, <1>6, <1>10 DEF Holds
<1> QED
  BY <1>7, <1>8, <1>9, <1>11 DEF SabInv

\* The ring is handed over, and the reader loads and stores in its turn.
LEMMA ReadKeeps ==
    ASSUME SabInv, SabHandOver \/ SabReadLoad \/ SabReadStore
    PROVE  SabInv'
<1> DEFINE u == SabUsed(sabW, sabR)
<1>0. /\ SabCap \in Nat \ {0} /\ SabNumbers \in Nat \ {0} /\ SabCap < SabNumbers
      /\ sabW \in 0 .. SabCap - 1 /\ sabR \in 0 .. SabCap - 1 /\ SabBlock \in 1 .. SabCap - 1
      /\ u \in 0 .. SabCap - 1 /\ (sabR + u) % SabCap = sabW
      /\ sabHeard \in 0 .. SabNumbers - 1
  BY SabNumbersAre DEF SabInv
<1>1. CASE SabHandOver
  BY <1>1, Zenon DEF SabHandOver, SabInv, SabTypeOK, SabLoaded, SabCopied, SabNumbered, Holds,
     SabSpace, SabUsed
<1>2. CASE SabReadLoad
  <2>1. /\ SabBlock <= u /\ sabReader' = [at |-> "loaded", head |-> sabR, count |-> SabBlock]
        /\ UNCHANGED <<sabReady, sabW, sabR, sabSlot, sabWriter, sabNext, sabHeard>>
    BY <1>0, <1>2 DEF SabReadLoad
  <2>2. SabTypeOK'
    <3>1. sabReader' \in [at : {"rest", "loaded", "copied"}, head : SabSlots, count : SabSlots]
      BY <1>0, <2>1 DEF SabSlots
    <3> QED
      BY <2>1, <3>1 DEF SabInv, SabTypeOK
  <2>3. SabLoaded'
    BY <2>1 DEF SabInv, SabLoaded, SabSpace, SabUsed
  <2>4. SabCopied' /\ SabNumbered' /\ Holds(sabSlot, sabR, sabHeard, SabUsed(sabW, sabR))'
    BY <2>1 DEF SabInv, SabCopied, SabNumbered, SabUsed, Holds
  <2> QED
    BY <2>2, <2>3, <2>4 DEF SabInv
<1>3. CASE SabReadStore
  <2> DEFINE n == sabReader.count
  <2>1. /\ sabReader.at = "loaded" /\ sabReader' = Resting
        /\ sabR' = (sabR + n) % SabCap /\ sabHeard' = (sabHeard + n) % SabNumbers
        /\ UNCHANGED <<sabReady, sabW, sabSlot, sabWriter, sabNext>>
        /\ n <= u /\ n \in 0 .. SabCap - 1
    BY <1>3, SabNumbersAre DEF SabReadStore, SabInv, SabLoaded
  <2>2. SabUsed(sabW, sabR)' = u - n
    <3>1. u = (sabW - sabR + SabCap) % SabCap
      BY DEF SabUsed
    <3>2. (sabW - ((sabR + n) % SabCap) + SabCap) % SabCap = u - n
      <4> HIDE DEF u, n
      <4> QED
        BY <1>0, <2>1, <3>1, UsedAfter
    <3> QED
      BY <2>1, <3>2 DEF SabUsed
  <2>3. SabTypeOK'
    <3>1. sabR' \in SabSlots /\ sabHeard' \in 0 .. SabNumbers - 1
      <4>1. n \in 0 .. SabCap /\ n \in 0 .. SabNumbers
        BY <1>0, <2>1
      <4>2. (sabR + n) % SabCap \in 0 .. SabCap - 1
        BY <1>0, <4>1, Turned, Zenon
      <4>3. (sabHeard + n) % SabNumbers \in 0 .. SabNumbers - 1
        BY <1>0, <4>1, Turned, Zenon
      <4> QED
        BY <2>1, <4>2, <4>3 DEF SabSlots
    <3>2. Resting \in [at : {"rest", "loaded", "copied"}, head : SabSlots, count : SabSlots]
      BY <1>0 DEF Resting, SabSlots
    <3> QED
      BY <2>1, <3>1, <3>2 DEF SabInv, SabTypeOK
  <2> HIDE DEF n, u
  <2>4. SabLoaded'
    <3>1. sabReader'.at = "rest"
      BY <2>1 DEF Resting
    <3>2. sabWriter.at # "rest" => sabWriter.head = sabW /\ sabWriter.count <= SabCap - 1 - u
      BY DEF SabInv, SabLoaded, SabSpace, u
    <3>3. sabWriter.count \in Nat
      BY DEF SabInv, SabTypeOK, SabSlots
    <3>4. sabWriter.at # "rest" => sabWriter.count <= SabCap - 1 - (u - n)
      BY <1>0, <2>1, <3>2, <3>3
    <3> QED
      BY <2>1, <2>2, <3>1, <3>2, <3>4 DEF SabLoaded, SabSpace
  <2>5. SabCopied'
    BY <2>1 DEF SabInv, SabCopied, Holds
  <2>6. SabNumbered'
    <3>1. n + (u - n) = u /\ n \in Nat /\ u - n \in Nat /\ u <= SabNumbers
      BY <1>0, <2>1
    <3>2. (((sabHeard + n) % SabNumbers) + (u - n)) % SabNumbers = (sabHeard + u) % SabNumbers
      BY <1>0, <3>1, InTwoParts
    <3> QED
      BY <2>1, <2>2, <3>2 DEF SabInv, SabNumbered, u
  <2>7. ASSUME NEW k \in 0 .. (u - n) - 1
        PROVE  sabSlot[(sabR' + k) % SabCap] = (sabHeard' + k) % SabNumbers
    <3>1. n + k \in 0 .. u - 1 /\ n \in Nat /\ k \in Nat /\ n + k <= SabCap /\ n + k <= SabNumbers
      BY <1>0, <2>1
    <3>2. (sabR' + k) % SabCap = (sabR + (n + k)) % SabCap
      BY <1>0, <2>1, <3>1, InTwoParts
    <3>3. (sabHeard' + k) % SabNumbers = (sabHeard + (n + k)) % SabNumbers
      BY <1>0, <2>1, <3>1, InTwoParts
    <3>4. \A j \in 0 .. u - 1 : sabSlot[(sabR + j) % SabCap] = (sabHeard + j) % SabNumbers
      BY DEF SabInv, Holds, u
    <3> QED
      BY <3>1, <3>2, <3>3, <3>4
  <2>8. Holds(sabSlot, sabR, sabHeard, SabUsed(sabW, sabR))'
    BY <2>1, <2>2, <2>7 DEF Holds
  <2> QED
    BY <2>3, <2>4, <2>5, <2>6, <2>8 DEF SabInv
<1> QED
  BY <1>1, <1>2, <1>3

\* The two sides of the ring keep SabInv.
THEOREM SharedRingInvariant == SabSpec => []SabInv
<1>1. SabInit => SabInv
  <2> SUFFICES ASSUME SabInit PROVE SabInv
    OBVIOUS
  <2>1. /\ sabW = 0 /\ sabR = 0 /\ sabSlot = [i \in SabSlots |-> 0]
        /\ sabWriter = Resting /\ sabReader = Resting /\ sabNext = 0 /\ sabHeard = 0
    BY DEF SabInit
  <2>2. sabReady \in BOOLEAN
    BY Zenon DEF SabInit
  <2>3. SabCap \in Nat \ {0} /\ SabNumbers \in Nat \ {0} /\ 0 \in 0 .. SabCap - 1
        /\ 0 \in 0 .. SabNumbers - 1
    BY SharedRingAssumption
  <2>4. SabTypeOK
    BY <2>1, <2>2, <2>3 DEF SabTypeOK, SabSlots, Resting
  <2>5. SabUsed(sabW, sabR) = 0
    <3>1. (0 - 0 + SabCap) % SabCap = IF 0 <= 0 THEN 0 - 0 ELSE 0 - 0 + SabCap
      BY <2>3, Distance
    <3> QED
      BY <2>1, <3>1 DEF SabUsed
  <2>6. SabLoaded /\ SabCopied
    BY <2>1 DEF SabLoaded, SabCopied, Resting
  <2>7. SabNumbered
    <3>1. 0 % SabNumbers = 0
      BY <2>3, FirstTurn
    <3> QED
      BY <2>1, <2>5, <3>1 DEF SabNumbered
  <2>8. Holds(sabSlot, sabR, sabHeard, SabUsed(sabW, sabR))
    BY <2>5 DEF Holds
  <2> QED
    BY <2>4, <2>6, <2>7, <2>8 DEF SabInv
<1>2. SabInv /\ [SabNext]_sabVars => SabInv'
  <2> SUFFICES ASSUME SabInv, [SabNext]_sabVars PROVE SabInv'
    OBVIOUS
  <2>1. CASE UNCHANGED sabVars
    BY <2>1 DEF sabVars, SabInv, SabTypeOK, SabLoaded, SabCopied, SabNumbered, Holds, SabSpace, SabUsed
  <2>2. CASE SabNext
    BY <2>2, WriteLoadKeeps, WriteCopyKeeps, WriteStoreKeeps, ReadKeeps DEF SabNext
  <2> QED
    BY <2>1, <2>2
<1> QED
  BY <1>1, <1>2, PTL DEF SabSpec

\* Between the heads are the accepted samples that were not played, in order.
THEOREM SharedRingHoldsUnplayed == SabSpec => []SabHoldsUnplayed
<1>1. SabInv => SabHoldsUnplayed
  BY DEF SabInv, Holds, SabHoldsUnplayed
<1> QED
  BY <1>1, SharedRingInvariant, PTL

-----------------------------------------------------------------------------
(* The one-file SDK.  The sender: every packet of the group under way       *)
(* carries its group's number and stands as far behind the next sequence    *)
(* number as packets have come since.                                       *)

TxShape ==
    /\ txPhase \in {"off", "mic", "ws", "module", "on"} /\ txMic \in BOOLEAN
    /\ txWs \in {"none", "connecting", "open", "closed"}
    /\ txSeq \in 0 .. SeqSpace - 1 /\ txGroup \in 0 .. SeqSpace - 1
    /\ txBuf \in Seq([seq : 0 .. SeqSpace - 1, group : 0 .. SeqSpace - 1]) /\ Len(txBuf) < FecGroup

TxBehind ==
    \A k \in 1 .. Len(txBuf) :
        /\ txBuf[k].group = txGroup
        /\ txBuf[k].seq = (txSeq - ((Len(txBuf) - k) + 1) + SeqSpace) % SeqSpace

\* What ParityMatchesGroup says, of a sequence.
TxParityGood ==
    \/ txParity.of = <<>>
    \/ /\ txParity.of \in Seq([seq : 0 .. SeqSpace - 1, group : 0 .. SeqSpace - 1])
       /\ Len(txParity.of) = FecGroup
       /\ \A k \in 1 .. FecGroup :
             /\ txParity.of[k].group = txParity.group
             /\ txParity.of[k].seq = (txParity.seq - FecGroup + k - 1 + SeqSpace) % SeqSpace

TxInv == TxShape /\ TxBehind /\ TxParityGood

(* The receiver: as long as no calls of connect() overlap, the one that is  *)
(* under way has no socket yet, nothing but the current socket is live, and *)
(* the report timer is that socket's.                                       *)

RcShape ==
    /\ rcBoot \in Nat /\ rcInit \in Nat /\ rcBoot + rcInit <= MaxRcPending
    /\ rcCtx \in BOOLEAN /\ rcDecoder \in BOOLEAN /\ rcDecoding \in 0 .. MaxRcFrames
    /\ rcPlaying \in BOOLEAN /\ rcOverlap \in BOOLEAN
    /\ rcQueue \in 0 .. RcTarget /\ rcBuffered \in Nat /\ rcQueue <= rcBuffered

RcNetShape ==
    /\ rcSock \in [RcSockets -> {"unused", "connecting", "open", "gone"}]
    /\ rcSwarm \in [RcSockets -> {"unused", "open", "closing", "gone"}]
    /\ rcMute \subseteq RcSockets /\ rcReports \subseteq RcSockets
    /\ rcWs \in 0 .. MaxRcSockets /\ rcRtcp \in 0 .. MaxRcSockets /\ rcSwarmWs \in 0 .. MaxRcSockets
    /\ rcSwarmState \in {"IDLE", "QUERIED", "ACTIVE"}

RcOwns ==
    ~rcOverlap =>
        /\ rcBoot + rcInit <= 1
        /\ rcBoot + rcInit > 0 => rcWs = 0
        /\ \A s \in RcSockets : rcSock[s] \in {"connecting", "open"} => s = rcWs
        /\ rcRtcp \in {0, rcWs}
        /\ rcReports \subseteq {rcRtcp} \ {0}

RcInv == RcShape /\ RcNetShape /\ RcOwns

SolInv == TxInv /\ RcInv

\* The invariant covers what the runs check.
LEMMA SolunaCovers == SolInv => SolTypeOK /\ ParityMatchesGroup /\ ReceiverOwnsSocket
<1> SUFFICES ASSUME SolInv PROVE SolTypeOK /\ ParityMatchesGroup /\ ReceiverOwnsSocket
  OBVIOUS
<1>1. SolTypeOK
  <2>1. {rcWs, rcRtcp, rcSwarmWs} \subseteq 0 .. MaxRcSockets
    BY DEF SolInv, RcInv, RcNetShape
  <2>2. rcBoot + rcInit \in 0 .. MaxRcPending
    BY SolunaAssumption DEF SolInv, RcInv, RcShape
  <2> QED
    BY <2>1, <2>2 DEF SolInv, RcInv, RcShape, RcNetShape, TxInv, TxShape, SolTypeOK
<1>2. ParityMatchesGroup
  <2>1. CASE txParity.of = <<>>
    <3>1. \A k \in DOMAIN txParity.of : FALSE
      BY <2>1
    <3> QED
      BY <2>1, <3>1 DEF ParityMatchesGroup
  <2>2. CASE txParity.of # <<>>
    <3>1. Len(txParity.of) = FecGroup /\ DOMAIN txParity.of = 1 .. FecGroup
      BY <2>2 DEF SolInv, TxInv, TxParityGood
    <3> QED
      BY <2>2, <3>1 DEF SolInv, TxInv, TxParityGood, ParityMatchesGroup
  <2> QED
    BY <2>1, <2>2
<1>3. ReceiverOwnsSocket
  BY DEF SolInv, RcInv, RcOwns, ReceiverOwnsSocket, RcLive
<1> QED
  BY <1>1, <1>2, <1>3

\* One number on, everything is one further behind.
LEMMA OneFurther ==
    ASSUME NEW N \in Nat \ {0}, NEW p \in 0 .. N - 1, NEW d \in Nat, d + 1 < N
    PROVE  (((p + 1) % N) - (d + 1) + N) % N = (p - d + N) % N
<1> DEFINE m == (p + 1) % N
<1>1. 1 \in 0 .. N /\ d \in 0 .. N - 1 /\ d + 1 \in 0 .. N - 1
  OBVIOUS
<1>2. m = (IF p + 1 < N THEN p + 1 ELSE p + 1 - N) /\ m \in 0 .. N - 1
  BY <1>1, Turned, Zenon
<1> HIDE DEF m
<1>3. (m - (d + 1) + N) % N = IF d + 1 <= m THEN m - (d + 1) ELSE m - (d + 1) + N
  BY <1>1, <1>2, Distance, Zenon
<1>4. (p - d + N) % N = IF d <= p THEN p - d ELSE p - d + N
  BY <1>1, Distance, Zenon
<1>5. (m - (d + 1) + N) % N = (p - d + N) % N
  <2>1. CASE p + 1 < N
    <3>1. m = p + 1
      BY <1>2, <2>1
    <3> QED
      BY <1>1, <1>3, <1>4, <3>1
  <2>2. CASE p + 1 >= N
    <3>1. m = 0 /\ p = N - 1
      BY <1>2, <2>2
    <3> QED
      BY <1>1, <1>3, <1>4, <3>1
  <2> QED
    BY <2>1, <2>2
<1> QED
  BY <1>5 DEF m

\* A number of the header is itself.
LEMMA WireIs ==
    ASSUME TxShape
    PROVE  /\ Wire(txSeq) = txSeq /\ Wire(txGroup) = txGroup
           /\ Wire(txSeq + 1) \in 0 .. SeqSpace - 1 /\ Wire(txSeq + 2) \in 0 .. SeqSpace - 1
           /\ Wire(txGroup + 1) \in 0 .. SeqSpace - 1
<1>1. /\ SeqSpace \in Nat \ {0} /\ 1 \in 0 .. SeqSpace /\ 2 \in 0 .. SeqSpace
      /\ txSeq \in 0 .. SeqSpace - 1 /\ txGroup \in 0 .. SeqSpace - 1
  BY SolunaAssumption DEF TxShape
<1>2. txSeq % SeqSpace = txSeq /\ txGroup % SeqSpace = txGroup
  BY <1>1, FirstTurn, Zenon
<1>3. /\ (txSeq + 1) % SeqSpace \in 0 .. SeqSpace - 1 /\ (txSeq + 2) % SeqSpace \in 0 .. SeqSpace - 1
      /\ (txGroup + 1) % SeqSpace \in 0 .. SeqSpace - 1
  BY <1>1, Turned, Zenon
<1> QED
  BY <1>2, <1>3 DEF Wire

\* The group with its next packet, seen from the number after it.
LEMMA GroupGrows ==
    ASSUME TxShape, TxBehind, NEW group,
           group = Append(txBuf, [seq |-> Wire(txSeq), group |-> Wire(txGroup)])
    PROVE  /\ group \in Seq([seq : 0 .. SeqSpace - 1, group : 0 .. SeqSpace - 1])
           /\ Len(group) = Len(txBuf) + 1 /\ Len(group) <= FecGroup
           /\ \A k \in 1 .. Len(group) :
                 /\ group[k].group = txGroup
                 /\ group[k].seq = (Wire(txSeq + 1) - ((Len(group) - k) + 1) + SeqSpace) % SeqSpace
<1> DEFINE packet == [seq |-> txSeq, group |-> txGroup]
<1>0. /\ SeqSpace \in Nat \ {0} /\ FecGroup \in Nat \ {0} /\ FecGroup < SeqSpace
      /\ txSeq \in 0 .. SeqSpace - 1 /\ txGroup \in 0 .. SeqSpace - 1
      /\ txBuf \in Seq([seq : 0 .. SeqSpace - 1, group : 0 .. SeqSpace - 1]) /\ Len(txBuf) < FecGroup
  BY SolunaAssumption DEF TxShape
<1>1. group = Append(txBuf, packet)
  BY WireIs
<1>2. packet \in [seq : 0 .. SeqSpace - 1, group : 0 .. SeqSpace - 1]
      /\ packet.seq = txSeq /\ packet.group = txGroup
  BY <1>0
<1> HIDE DEF packet
<1>3. /\ group \in Seq([seq : 0 .. SeqSpace - 1, group : 0 .. SeqSpace - 1])
      /\ Len(group) = Len(txBuf) + 1 /\ Len(group) <= FecGroup
      /\ \A k \in 1 .. Len(group) : group[k] = IF k = Len(group) THEN packet ELSE txBuf[k]
  BY <1>0, <1>1, <1>2
<1>4. ASSUME NEW k \in 1 .. Len(group)
      PROVE  /\ group[k].group = txGroup
             /\ group[k].seq = (Wire(txSeq + 1) - ((Len(group) - k) + 1) + SeqSpace) % SeqSpace
  <2> DEFINE d == Len(group) - k
  <2>1. d \in Nat /\ d + 1 < SeqSpace
    BY <1>0, <1>3
  <2>2. (((txSeq + 1) % SeqSpace) - (d + 1) + SeqSpace) % SeqSpace = (txSeq - d + SeqSpace) % SeqSpace
    <3> HIDE DEF d
    <3> QED
      BY <1>0, <2>1, OneFurther, Zenon
  <2>3. CASE k = Len(group)
    <3>1. group[k] = packet /\ d = 0
      BY <1>0, <1>3, <2>3
    <3>2. (txSeq - d + SeqSpace) % SeqSpace = txSeq
      <4>0. d = 0
        BY <3>1
      <4> HIDE DEF d
      <4>1. txSeq - d + SeqSpace = txSeq + SeqSpace
        BY <1>0, <4>0
      <4>2. (txSeq + SeqSpace) % SeqSpace = txSeq
        BY <1>0, SecondTurn, Zenon
      <4> QED
        BY <4>1, <4>2
    <3> QED
      BY <1>2, <2>2, <3>1, <3>2 DEF Wire
  <2>4. CASE k # Len(group)
    <3>1. k \in 1 .. Len(txBuf) /\ group[k] = txBuf[k] /\ d = (Len(txBuf) - k) + 1
      BY <1>0, <1>3, <2>4
    <3>2. txBuf[k].group = txGroup
          /\ txBuf[k].seq = (txSeq - ((Len(txBuf) - k) + 1) + SeqSpace) % SeqSpace
      BY <3>1 DEF TxBehind
    <3> QED
      BY <2>2, <3>1, <3>2 DEF Wire
  <2> QED
    BY <2>3, <2>4
<1> QED
  BY <1>3, <1>4

\* A frame joins the group, or completes it and its parity is made.
LEMMA FrameKeeps ==
    ASSUME TxInv, TxFrame
    PROVE  TxInv'
<1> USE DEF TxInv
<1> DEFINE group == Append(txBuf, [seq |-> Wire(txSeq), group |-> Wire(txGroup)])
<1>1. /\ group \in Seq([seq : 0 .. SeqSpace - 1, group : 0 .. SeqSpace - 1])
      /\ Len(group) = Len(txBuf) + 1 /\ Len(group) <= FecGroup
      /\ \A k \in 1 .. Len(group) :
            /\ group[k].group = txGroup
            /\ group[k].seq = (Wire(txSeq + 1) - ((Len(group) - k) + 1) + SeqSpace) % SeqSpace
  BY GroupGrows
<1>2. UNCHANGED <<txPhase, txMic, txWs>>
  BY DEF TxFrame
<1>3. CASE Len(group) >= FecGroup
  <2>1. /\ txParity' = [seq |-> Wire(txSeq + 1), group |-> Wire(txGroup), of |-> group]
        /\ txSeq' = Wire(txSeq + 2) /\ txGroup' = Wire(txGroup + 1) /\ txBuf' = <<>>
    BY <1>3 DEF TxFrame
  <2> HIDE DEF group
  <2>2. FecGroup \in Nat \ {0} /\ SeqSpace \in Nat /\ Wire(txSeq + 1) \in 0 .. SeqSpace - 1 /\ Wire(txGroup) = txGroup
    BY SolunaAssumption, WireIs
  <2>3. Len(group) = FecGroup
    BY <1>1, <1>3, <2>2
  <2>4. txParity'.of = group /\ txParity'.group = txGroup /\ txParity'.seq = Wire(txSeq + 1)
    BY <2>1, <2>2
  <2>5. ASSUME NEW k \in 1 .. FecGroup
        PROVE  /\ group[k].group = txGroup
               /\ group[k].seq = (Wire(txSeq + 1) - FecGroup + k - 1 + SeqSpace) % SeqSpace
    <3>1. Wire(txSeq + 1) - ((FecGroup - k) + 1) + SeqSpace = Wire(txSeq + 1) - FecGroup + k - 1 + SeqSpace
      BY <2>2
    <3> QED
      BY <1>1, <2>3, <3>1
  <2>6. TxParityGood'
    BY <1>1, <2>3, <2>4, <2>5 DEF TxParityGood
  <2>7. TxShape'
    <3>1. txBuf' \in Seq([seq : 0 .. SeqSpace - 1, group : 0 .. SeqSpace - 1]) /\ Len(txBuf') = 0
      BY <2>1
    <3> QED
      BY <1>2, <2>1, <2>2, <3>1, WireIs DEF TxShape
  <2>8. TxBehind'
    <3>1. 1 .. Len(txBuf') = {}
      BY <2>1
    <3> QED
      BY <3>1 DEF TxBehind
  <2> QED
    BY <2>6, <2>7, <2>8
<1>4. CASE Len(group) < FecGroup
  <2>1. txSeq' = Wire(txSeq + 1) /\ txBuf' = group /\ UNCHANGED <<txGroup, txParity>>
    <3>1. ~(Len(group) >= FecGroup)
      BY <1>1, <1>4, SolunaAssumption DEF TxShape
    <3> QED
      BY <3>1 DEF TxFrame
  <2> HIDE DEF group
  <2>2. TxShape'
    BY <1>1, <1>2, <1>4, <2>1, WireIs DEF TxShape
  <2>3. TxBehind'
    BY <1>1, <2>1 DEF TxBehind
  <2>4. TxParityGood'
    BY <2>1 DEF TxParityGood
  <2> QED
    BY <2>2, <2>3, <2>4
<1> QED
  BY <1>1, <1>3, <1>4, SolunaAssumption DEF TxShape

\* The rest of the sender leaves the numbers alone.
LEMMA SenderKeeps ==
    ASSUME SolInv, TxNext
    PROVE  SolInv'
<1>1. UNCHANGED rcVars
  BY DEF TxNext, TxStart, TxMicGranted, TxOpen, TxRefused, TxModule, TxLost, TxStop, TxFrame
<1>2. RcInv'
  BY <1>1 DEF rcVars, rcAudio, rcNet, SolInv, RcInv, RcShape, RcNetShape, RcOwns
<1>3. CASE TxFrame
  BY <1>2, <1>3, FrameKeeps DEF SolInv
<1>4. CASE TxStart \/ TxMicGranted \/ TxOpen \/ TxRefused \/ TxModule \/ TxLost \/ TxStop
  <2>1. /\ txPhase' \in {"off", "mic", "ws", "module", "on"}
        /\ txWs' \in {"none", "connecting", "open", "closed"}
        /\ UNCHANGED <<txSeq, txGroup, txBuf, txParity>>
    BY <1>4 DEF TxStart, TxMicGranted, TxOpen, TxRefused, TxModule, TxLost, TxStop, SolInv, TxInv, TxShape
  <2>2. txMic' \in BOOLEAN
    <3>1. txMic' = txMic \/ txMic' = TRUE \/ txMic' = FALSE
      BY <1>4, Zenon DEF TxStart, TxMicGranted, TxOpen, TxRefused, TxModule, TxLost, TxStop
    <3> QED
      BY <3>1, Zenon DEF SolInv, TxInv, TxShape
  <2>3. TxInv'
    BY <2>1, <2>2 DEF SolInv, TxInv, TxShape, TxBehind, TxParityGood
  <2> QED
    BY <1>2, <2>3 DEF SolInv
<1> QED
  BY <1>3, <1>4 DEF TxNext

-----------------------------------------------------------------------------
\* The receiver.

\* Cutting the sockets leaves none live, if none but the current was.
LEMMA CutNet ==
    ASSUME RcNetShape, RcOwns, RcCutNet
    PROVE  /\ RcNetShape' /\ rcWs' = 0 /\ rcRtcp' = 0
           /\ ~rcOverlap => /\ \A s \in RcSockets : rcSock'[s] \notin {"connecting", "open"}
                            /\ rcReports' = {}
<1>1. /\ rcReports' = rcReports \ {rcRtcp} /\ rcRtcp' = 0 /\ rcWs' = 0
      /\ rcSock' = [s \in RcSockets |-> IF s = rcWs THEN "gone" ELSE rcSock[s]]
      /\ rcMute' \in {rcMute, rcMute \union {rcWs}} /\ (rcWs = 0 => rcMute' = rcMute)
      /\ rcSwarm' = [s \in RcSockets |-> IF s = rcSwarmWs THEN "closing" ELSE rcSwarm[s]]
      /\ rcSwarmWs' = 0 /\ rcSwarmState' = "IDLE"
  BY DEF RcCutNet
<1>2. 0 \in 0 .. MaxRcSockets /\ (rcWs # 0 => rcWs \in RcSockets)
  BY SolunaAssumption DEF RcNetShape, RcSockets
<1>3. rcSock' \in [RcSockets -> {"unused", "connecting", "open", "gone"}]
      /\ rcSwarm' \in [RcSockets -> {"unused", "open", "closing", "gone"}]
  BY <1>1 DEF RcNetShape
<1>4. rcMute' \subseteq RcSockets /\ rcReports' \subseteq RcSockets
  BY <1>1, <1>2 DEF RcNetShape
<1>5. RcNetShape'
  BY <1>1, <1>2, <1>3, <1>4 DEF RcNetShape
<1>6. ~rcOverlap => /\ \A s \in RcSockets : rcSock'[s] \notin {"connecting", "open"}
                    /\ rcReports' = {}
  BY <1>1 DEF RcOwns, RcNetShape
<1> QED
  BY <1>1, <1>5, <1>6

\* Cutting the audio forgets what was queued.
LEMMA CutAudio ==
    ASSUME RcShape, RcCutAudio, rcBoot' \in Nat, rcInit' \in Nat, rcBoot' + rcInit' <= MaxRcPending,
           rcOverlap' \in BOOLEAN
    PROVE  RcShape'
<1>1. rcCtx' \in BOOLEAN /\ rcDecoder' \in BOOLEAN /\ rcPlaying' \in BOOLEAN
  BY Zenon DEF RcCutAudio
<1>2. rcDecoding' \in 0 .. MaxRcFrames
  BY SolunaAssumption DEF RcCutAudio, RcShape
<1>3. rcQueue' = 0 /\ rcBuffered' = 0
  BY DEF RcCutAudio
<1>4. rcQueue' \in 0 .. RcTarget /\ rcBuffered' \in Nat /\ rcQueue' <= rcBuffered'
  BY <1>3, SolunaAssumption
<1> QED
  BY <1>1, <1>2, <1>4 DEF RcShape

\* connect() and disconnect(): what they cut, the next call builds anew.
LEMMA CallsKeep ==
    ASSUME RcInv, RcConnect \/ RcDisconnect
    PROVE  RcInv'
<1> USE DEF RcInv
<1>1. rcOverlap' \in BOOLEAN /\ (rcOverlap' <=> rcOverlap \/ rcBoot + rcInit > 0)
  BY Zenon DEF RcConnect, RcDisconnect
<1>2. rcBoot \in Nat /\ rcInit \in Nat /\ rcBoot + rcInit <= MaxRcPending /\ MaxRcPending \in Nat
  BY SolunaAssumption DEF RcShape
<1>3. CASE RcDisconnect
  <2>1. RcCutNet /\ RcCutAudio /\ UNCHANGED <<rcBoot, rcInit>>
    BY <1>3 DEF RcDisconnect
  <2>2. RcShape'
    BY <1>1, <1>2, <2>1, CutAudio
  <2>3. RcNetShape' /\ RcOwns'
    BY <1>1, <1>2, <2>1, CutNet DEF RcOwns
  <2> QED
    BY <2>2, <2>3
<1>4. CASE RcConnect
  <2>1. rcBoot + rcInit < MaxRcPending /\ rcBoot' = rcBoot + 1 /\ UNCHANGED rcInit
    BY <1>4 DEF RcConnect
  <2>2. rcBoot' \in Nat /\ rcInit' \in Nat /\ rcBoot' + rcInit' <= MaxRcPending
    BY <1>2, <2>1
  <2>3. CASE rcWs # 0
    <3>1. RcCutNet /\ RcCutAudio
      BY <1>4, <2>3 DEF RcConnect
    <3>2. RcShape'
      BY <1>1, <2>2, <3>1, CutAudio
    <3>3. RcNetShape' /\ RcOwns'
      BY <1>1, <1>2, <2>1, <3>1, CutNet DEF RcOwns
    <3> QED
      BY <3>2, <3>3
  <2>4. CASE rcWs = 0
    <3>1. UNCHANGED <<rcNet, rcAudio>>
      BY <1>4, <2>4 DEF RcConnect
    <3>2. RcShape' /\ RcNetShape'
      BY <1>1, <2>2, <3>1 DEF rcNet, rcAudio, RcShape, RcNetShape
    <3>3. RcOwns'
      BY <1>1, <1>2, <2>1, <2>4, <3>1 DEF rcNet, RcOwns
    <3> QED
      BY <3>2, <3>3
  <2> QED
    BY <2>3, <2>4
<1> QED
  BY <1>3, <1>4

\* Opening the sockets, for the only call under way.
LEMMA OpenSockets ==
    ASSUME RcNetShape, RcOwns, RcOpenSockets, UNCHANGED rcOverlap,
           rcBoot + rcInit > 0,
           rcBoot \in Nat, rcInit \in Nat, rcBoot' + rcInit' = rcBoot + rcInit - 1
    PROVE  RcNetShape' /\ RcOwns'
<1>1. PICK new \in RcSockets :
        /\ \A s \in RcSockets : rcSock[s] = "unused" <=> s >= new
        /\ rcSock' = [rcSock EXCEPT ![new] = "connecting"] /\ rcWs' = new
        /\ rcSwarm' = [rcSwarm EXCEPT ![new] = "open"] /\ rcSwarmWs' = new
        /\ UNCHANGED <<rcMute, rcRtcp, rcReports, rcSwarmState>>
  BY DEF RcOpenSockets
<1>2. new \in 0 .. MaxRcSockets
  BY SolunaAssumption DEF RcSockets
<1>3. RcNetShape'
  BY <1>1, <1>2 DEF RcNetShape
<1>4. RcOwns'
  <2> SUFFICES ASSUME ~rcOverlap PROVE RcOwns'
    BY DEF RcOwns
  <2>1. /\ rcWs = 0 /\ rcRtcp = 0 /\ rcBoot' + rcInit' = 0
        /\ \A s \in RcSockets : rcSock[s] \in {"connecting", "open"} => s = 0
    BY DEF RcOwns
  <2>2. \A s \in RcSockets : rcSock'[s] \in {"connecting", "open"} => s = new
    BY <1>1, <2>1 DEF RcNetShape, RcSockets
  <2> QED
    BY <1>1, <2>1, <2>2 DEF RcOwns
<1> QED
  BY <1>3, <1>4

\* One call less, of at most one.
LEMMA OneCallLess ==
    ASSUME NEW boot \in Nat, NEW init \in Nat, NEW bootNow \in Nat, NEW initNow \in Nat,
           boot + init > 0, bootNow + initNow = boot + init - 1
    PROVE  boot + init <= 1 => bootNow + initNow <= 1 /\ ~(bootNow + initNow > 0)
OBVIOUS

\* The two waits of connect().
LEMMA ConnectingKeeps ==
    ASSUME RcInv, RcBooted \/ RcInitFails \/ RcNoContext \/ \E supported \in BOOLEAN : RcReady(supported)
    PROVE  RcInv'
<1> USE DEF RcInv
<1>1. CASE RcBooted /\ rcCtx
  <2>1. /\ rcBoot > 0 /\ rcBoot' = rcBoot - 1 /\ RcOpenSockets
        /\ UNCHANGED <<rcInit, rcCtx, rcDecoder, rcDecoding, rcPlaying, rcQueue, rcBuffered, rcOverlap>>
    BY <1>1 DEF RcBooted
  <2>2. RcShape'
    <3>1. rcBoot' \in Nat /\ rcInit' \in Nat /\ rcBoot' + rcInit' <= MaxRcPending
      BY <2>1, SolunaAssumption DEF RcShape
    <3> QED
      BY <2>1, <3>1 DEF RcShape
  <2>3. /\ rcBoot \in Nat /\ rcInit \in Nat /\ rcBoot' + rcInit' = rcBoot + rcInit - 1
        /\ rcBoot + rcInit > 0
    BY <2>1 DEF RcShape
  <2> QED
    BY <2>1, <2>2, <2>3, OpenSockets
<1>2. CASE RcBooted /\ ~rcCtx
  <2>1. /\ rcBoot > 0 /\ rcBoot' = rcBoot - 1 /\ rcInit' = rcInit + 1 /\ UNCHANGED rcNet
        /\ UNCHANGED <<rcDecoder, rcDecoding, rcPlaying, rcQueue, rcBuffered, rcOverlap>>
    BY <1>2 DEF RcBooted
  <2>2. rcCtx' \in BOOLEAN
    BY <1>2, Zenon DEF RcBooted
  <2>3. rcBoot' \in Nat /\ rcInit' \in Nat /\ rcBoot' + rcInit' = rcBoot + rcInit
    BY <2>1 DEF RcShape
  <2>4. RcShape'
    BY <2>1, <2>2, <2>3 DEF RcShape
  <2>5. RcNetShape' /\ RcOwns'
    BY <2>1, <2>3 DEF rcNet, RcNetShape, RcOwns
  <2> QED
    BY <2>4, <2>5
<1>3. ASSUME NEW supported \in BOOLEAN, RcReady(supported) PROVE RcInv'
  <2>1. /\ rcInit > 0 /\ rcInit' = rcInit - 1 /\ RcOpenSockets
        /\ UNCHANGED <<rcBoot, rcCtx, rcDecoding, rcPlaying, rcQueue, rcBuffered, rcOverlap>>
    BY <1>3 DEF RcReady
  <2>2. rcDecoder' \in BOOLEAN
    BY <1>3, Zenon DEF RcReady
  <2>3. RcShape'
    <3>1. rcBoot' \in Nat /\ rcInit' \in Nat /\ rcBoot' + rcInit' <= MaxRcPending
      BY <2>1, SolunaAssumption DEF RcShape
    <3> QED
      BY <2>1, <2>2, <3>1 DEF RcShape
  <2>4. /\ rcBoot \in Nat /\ rcInit \in Nat /\ rcBoot' + rcInit' = rcBoot + rcInit - 1
        /\ rcBoot + rcInit > 0
    BY <2>1 DEF RcShape
  <2> QED
    BY <2>1, <2>3, <2>4, OpenSockets
<1>4. CASE RcInitFails \/ RcNoContext
  <2>1. /\ \/ rcInit > 0 /\ rcInit' = rcInit - 1 /\ rcBoot' = rcBoot
           \/ rcBoot > 0 /\ rcBoot' = rcBoot - 1 /\ rcInit' = rcInit
        /\ UNCHANGED <<rcAudio, rcNet, rcOverlap>>
    BY <1>4 DEF RcInitFails, RcNoContext
  <2>2. /\ rcBoot' \in Nat /\ rcInit' \in Nat /\ rcBoot' + rcInit' <= MaxRcPending
        /\ rcBoot' + rcInit' = rcBoot + rcInit - 1 /\ rcBoot + rcInit > 0
    BY <2>1, SolunaAssumption DEF RcShape
  <2>3. RcShape'
    BY <2>1, <2>2 DEF rcAudio, RcShape
  <2>4. RcNetShape'
    BY <2>1 DEF rcNet, RcNetShape
  <2>5. RcOwns'
    <3>1. UNCHANGED <<rcSock, rcWs, rcRtcp, rcReports, rcOverlap>>
      BY <2>1 DEF rcNet
    <3>2. rcBoot \in Nat /\ rcInit \in Nat
      BY DEF RcShape
    <3>4. rcBoot + rcInit <= 1 => rcBoot' + rcInit' <= 1 /\ ~(rcBoot' + rcInit' > 0)
      BY <2>2, <3>2, OneCallLess, Zenon
    <3> QED
      BY <3>1, <3>4 DEF RcOwns
  <2> QED
    BY <2>3, <2>4, <2>5
<1> QED
  BY <1>1, <1>2, <1>3, <1>4

\* What the sockets of the receiver report.
LEMMA RcEventsKeep ==
    ASSUME RcInv, NEW s \in RcSockets,
           \/ RcSocketOpen(s) \/ RcSocketClosed(s) \/ RcPacket(s) \/ RcSwarmClosed(s)
           \/ \E type \in {"SWARM_QUERY", "SWARM_ASSIGN", "SWARM_TEARDOWN"} : RcSwarmMessage(s, type)
    PROVE  RcInv'
<1> USE DEF RcInv
<1>0. s \in 0 .. MaxRcSockets /\ s # 0 /\ 0 \in 0 .. MaxRcSockets
  BY SolunaAssumption DEF RcSockets
<1>1. CASE RcSocketOpen(s)
  <2>1. /\ rcSock[s] = "connecting" /\ rcSock' = [rcSock EXCEPT ![s] = "open"]
        /\ rcRtcp' = s /\ rcReports' = rcReports \union {s}
        /\ UNCHANGED <<rcBoot, rcInit, rcAudio, rcMute, rcWs, rcSwarm, rcSwarmWs, rcSwarmState, rcOverlap>>
    BY <1>1 DEF RcSocketOpen
  <2>2. RcShape'
    BY <2>1 DEF rcAudio, RcShape
  <2>3. RcNetShape'
    BY <1>0, <2>1 DEF RcNetShape
  <2>4. RcOwns'
    <3>1. \A i \in RcSockets : rcSock'[i] \in {"connecting", "open"} => rcSock[i] \in {"connecting", "open"}
      BY <2>1 DEF RcNetShape
    <3> QED
      BY <1>0, <2>1, <3>1 DEF RcOwns
  <2> QED
    BY <2>2, <2>3, <2>4
<1>2. CASE RcSocketClosed(s)
  <2>1. /\ rcSock[s] \in {"connecting", "open"} /\ rcSock' = [rcSock EXCEPT ![s] = "gone"]
        /\ rcWs' = 0 /\ rcReports' = rcReports \ {rcRtcp} /\ rcRtcp' = 0
        /\ UNCHANGED <<rcBoot, rcInit, rcCtx, rcDecoder, rcDecoding, rcQueue, rcBuffered,
                       rcMute, rcSwarm, rcSwarmWs, rcSwarmState, rcOverlap>>
    BY <1>2 DEF RcSocketClosed
  <2>2. rcPlaying' \in BOOLEAN
    BY <1>2, Zenon DEF RcSocketClosed
  <2>3. RcShape'
    BY <2>1, <2>2 DEF RcShape
  <2>4. RcNetShape'
    BY <1>0, <2>1 DEF RcNetShape
  <2>5. RcOwns'
    <3>1. \A i \in RcSockets : rcSock'[i] \in {"connecting", "open"} =>
             rcSock[i] \in {"connecting", "open"} /\ i # s
      BY <2>1 DEF RcNetShape
    <3> QED
      BY <2>1, <3>1 DEF RcOwns
  <2> QED
    BY <2>3, <2>4, <2>5
<1>3. CASE RcPacket(s)
  <2>1. /\ rcDecoding < MaxRcFrames /\ rcDecoding' = rcDecoding + 1
        /\ UNCHANGED <<rcBoot, rcInit, rcCtx, rcDecoder, rcPlaying, rcQueue, rcBuffered, rcNet, rcOverlap>>
    BY <1>3 DEF RcPacket
  <2>2. RcShape'
    BY <2>1, SolunaAssumption DEF RcShape
  <2> QED
    BY <2>1, <2>2 DEF rcNet, RcNetShape, RcOwns
<1>4. CASE RcSwarmClosed(s)
  <2>1. /\ rcSwarm' = [rcSwarm EXCEPT ![s] = "gone"] /\ rcSwarmWs' = 0
        /\ UNCHANGED <<rcBoot, rcInit, rcAudio, rcSock, rcMute, rcWs, rcRtcp, rcReports,
                       rcSwarmState, rcOverlap>>
    BY <1>4 DEF RcSwarmClosed
  <2>2. RcShape'
    BY <2>1 DEF rcAudio, RcShape
  <2>3. RcNetShape' /\ RcOwns'
    BY <1>0, <2>1 DEF RcNetShape, RcOwns
  <2> QED
    BY <2>2, <2>3
<1>5. ASSUME NEW type \in {"SWARM_QUERY", "SWARM_ASSIGN", "SWARM_TEARDOWN"}, RcSwarmMessage(s, type)
      PROVE  RcInv'
  <2>1. UNCHANGED <<rcBoot, rcInit, rcAudio, rcSock, rcMute, rcWs, rcRtcp, rcReports,
                    rcSwarm, rcSwarmWs, rcOverlap>>
    BY <1>5 DEF RcSwarmMessage
  <2>2. rcSwarmState' \in {"IDLE", "QUERIED", "ACTIVE"}
    BY <1>5 DEF RcSwarmMessage
  <2>3. RcShape'
    BY <2>1 DEF rcAudio, RcShape
  <2>4. RcNetShape' /\ RcOwns'
    BY <2>1, <2>2 DEF RcNetShape, RcOwns
  <2> QED
    BY <2>3, <2>4
<1> QED
  BY <1>1, <1>2, <1>3, <1>4, <1>5

\* A frame is queued, or starts the playback.
LEMMA DecodedKeeps ==
    ASSUME RcInv, RcDecoded
    PROVE  RcInv'
<1> USE DEF RcInv
<1>1. /\ rcDecoding > 0 /\ rcDecoding' = rcDecoding - 1
      /\ UNCHANGED <<rcBoot, rcInit, rcCtx, rcDecoder, rcNet, rcOverlap>>
  BY DEF RcDecoded
<1>2. RcNetShape' /\ RcOwns'
  BY <1>1 DEF rcNet, RcNetShape, RcOwns
<1>3. rcDecoding' \in 0 .. MaxRcFrames
  BY <1>1, SolunaAssumption DEF RcShape
<1>4. rcPlaying' \in BOOLEAN
  BY Zenon DEF RcDecoded, RcShape
<1>5. rcQueue' \in 0 .. RcTarget /\ rcBuffered' \in Nat /\ rcQueue' <= rcBuffered'
  <2>1. \/ UNCHANGED <<rcQueue, rcBuffered>>
        \/ rcQueue' = 0 /\ rcBuffered' = rcBuffered + 1 - (rcQueue + 1)
        \/ rcBuffered + 1 < RcTarget /\ rcQueue' = rcQueue + 1 /\ rcBuffered' = rcBuffered + 1
    BY SolunaAssumption DEF RcDecoded, RcShape
  <2> QED
    BY <2>1, SolunaAssumption DEF RcShape
<1>6. RcShape'
  BY <1>1, <1>3, <1>4, <1>5 DEF RcShape
<1> QED
  BY <1>2, <1>6

\* Every step of the receiver.
LEMMA ReceiverKeeps ==
    ASSUME SolInv, RcNext
    PROVE  SolInv'
<1>1. UNCHANGED txVars
  BY DEF RcNext, RcConnect, RcDisconnect, RcBooted, RcDecoded, RcReady, RcInitFails, RcNoContext, RcSocketOpen, RcSocketClosed,
     RcPacket, RcSwarmClosed, RcSwarmMessage
<1>2. TxInv'
  BY <1>1 DEF txVars, SolInv, TxInv, TxShape, TxBehind, TxParityGood
<1>3. RcInv'
  BY CallsKeep, ConnectingKeeps, RcEventsKeep, DecodedKeeps DEF RcNext, SolInv
<1> QED
  BY <1>2, <1>3 DEF SolInv

\* The inductive invariant of the one-file SDK, for any size of the groups and
\* of the number space, and any number of sockets (SolunaSender, SolunaReceiver).
THEOREM SolunaInvariant == SolSpec => []SolInv
<1>1. SolInit => SolInv
  <2> SUFFICES ASSUME SolInit PROVE SolInv
    OBVIOUS
  <2>1. txMic \in BOOLEAN /\ rcCtx \in BOOLEAN /\ rcDecoder \in BOOLEAN /\ rcPlaying \in BOOLEAN
        /\ rcOverlap \in BOOLEAN
    BY Zenon DEF SolInit
  <2>2. txBuf = <<>> /\ Len(txBuf) = 0 /\ txBuf \in Seq([seq : 0 .. SeqSpace - 1, group : 0 .. SeqSpace - 1])
    BY DEF SolInit
  <2>3. TxShape /\ TxBehind
    BY <2>1, <2>2, SolunaAssumption DEF SolInit, TxShape, TxBehind
  <2>4. TxParityGood
    BY DEF SolInit, NoParity, TxParityGood
  <2>5. RcShape
    BY <2>1, SolunaAssumption DEF SolInit, RcShape
  <2>6. RcNetShape /\ RcOwns
    BY <2>1, SolunaAssumption DEF SolInit, RcNetShape, RcOwns
  <2> QED
    BY <2>3, <2>4, <2>5, <2>6 DEF SolInv, TxInv, RcInv
<1>2. SolInv /\ [TxNext \/ RcNext]_solVars => SolInv'
  <2> SUFFICES ASSUME SolInv, [TxNext \/ RcNext]_solVars PROVE SolInv'
    OBVIOUS
  <2>1. CASE UNCHANGED solVars
    BY <2>1 DEF solVars, txVars, rcVars, rcAudio, rcNet, SolInv, TxInv, TxShape, TxBehind, TxParityGood,
       RcInv, RcShape, RcNetShape, RcOwns
  <2> QED
    BY <2>1, SenderKeeps, ReceiverKeeps
<1> QED
  BY <1>1, <1>2, PTL DEF SolSpec

\* A parity packet can be told to be of its group (ParityMatchesGroup: _onPcmFrame).
THEOREM SolunaParityMatches == SolSpec => []ParityMatchesGroup
BY SolunaInvariant, SolunaCovers, PTL

\* The receiver hears only the socket it would close, in typed states.
THEOREM SolunaOwns == SolSpec => [](SolTypeOK /\ ReceiverOwnsSocket)
BY SolunaInvariant, SolunaCovers, PTL

-----------------------------------------------------------------------------
(* The engine and its links.                                               *)

\* Numbers in use: current links and those that may fall back are made, and the
\* handle is a timer's.
EnKept ==
    /\ enHandle => enTimers > 0
    /\ \A k \in EnLinks : enLink[k] = "unused" => k \notin {enWs, enTransport} \union enFallback

\* As long as no call came early: what lives is current, what is closing was
\* closed by disconnect(), a reconnection waits only while no socket lives, and
\* a fall back only for the current transport.
EnCalm ==
    /\ \A k \in EnLinks :
          /\ enLink[k] \in {"connecting", "open"} => k = enWs
          /\ enLink[k] \in {"trying", "up"} => k = enTransport
          /\ enLink[k] = "closing" => enIntent
    /\ enWs = 0 \/ enTransport = 0
    /\ enIntent \/ ~enUrl => enWs = 0 /\ enTransport = 0 /\ enTimers = 0
    /\ enTimers = (IF enHandle THEN 1 ELSE 0)
    /\ enTimers > 0 => enTransport = 0 /\ (enWs # 0 => enLink[enWs] = "gone")
    /\ ~enIntent => \A k \in enFallback : k = enTransport

EnInv == EnTypeOK /\ EnKept /\ (~enHasty => EnCalm)

\* What the invariant says of the numbers.
LEMMA EnTyped ==
    ASSUME EnInv
    PROVE  /\ MaxEnLinks \in Nat /\ MaxEnTimers \in Nat /\ enTimers \in 0 .. MaxEnTimers
           /\ enLink \in [EnLinks -> {"unused", "connecting", "open", "closing", "trying", "up", "gone"}]
           /\ enWs \in 0 .. MaxEnLinks /\ enTransport \in 0 .. MaxEnLinks
           /\ enUrl \in BOOLEAN /\ enIntent \in BOOLEAN /\ enHandle \in BOOLEAN
           /\ enSync \in BOOLEAN /\ enHasty \in BOOLEAN /\ enFallback \subseteq EnLinks
           /\ enStray \in [EnLinks -> {"none", "trying", "up"}]
           /\ \A k \in EnLinks : k \in 1 .. MaxEnLinks /\ k # 0 /\ k \in 0 .. MaxEnLinks
BY EngineAssumption DEF EnInv, EnTypeOK, EnLinks

\* What cutting leaves.
LEMMA CutIs ==
    ASSUME EnInv
    PROVE  /\ EnCut \in [EnLinks -> {"unused", "connecting", "open", "closing", "trying", "up", "gone"}]
           /\ \A k \in EnLinks : EnCut[k] = "unused" <=> enLink[k] = "unused"
           /\ ~enHasty => \A k \in EnLinks : EnCut[k] \in {"unused", "closing", "gone"}
           /\ enTimers - (IF enHandle THEN 1 ELSE 0) \in 0 .. MaxEnTimers
           /\ ~enHasty => EnTimersCleared = 0
<1>1. EnCut \in [EnLinks -> {"unused", "connecting", "open", "closing", "trying", "up", "gone"}]
      /\ \A k \in EnLinks : EnCut[k] = IF k = enWs /\ enLink[k] # "gone" THEN "closing"
                                       ELSE IF k = enTransport THEN "gone" ELSE enLink[k]
  BY EnTyped DEF EnCut
<1>2. \A k \in EnLinks : EnCut[k] = "unused" <=> enLink[k] = "unused"
  BY <1>1 DEF EnInv, EnKept
<1>3. ~enHasty => \A k \in EnLinks : EnCut[k] \in {"unused", "closing", "gone"}
  BY <1>1, EnTyped DEF EnInv, EnCalm
<1>4. enTimers - (IF enHandle THEN 1 ELSE 0) \in 0 .. MaxEnTimers
  BY EnTyped DEF EnInv, EnKept
<1>5. ~enHasty => EnTimersCleared = 0
  BY EnTyped DEF EnInv, EnCalm, EnTimersCleared
<1> QED
  BY <1>1, <1>2, <1>3, <1>4, <1>5

\* What making a link does.
LEMMA MadeIs ==
    ASSUME NEW links \in [EnLinks -> {"unused", "connecting", "open", "closing", "trying", "up", "gone"}],
           NEW new \in EnLinks, NEW state \in {"connecting", "trying"}, EnMade(links, new, state)
    PROVE  /\ enLink' \in [EnLinks -> {"unused", "connecting", "open", "closing", "trying", "up", "gone"}]
           /\ \A k \in EnLinks : enLink'[k] = IF k = new THEN state ELSE links[k]
BY DEF EnMade

\* A step that leaves the links and the timers alone.
LEMMA BaseKeeps ==
    ASSUME EnInv, UNCHANGED enLinks, EnTypeOK'
    PROVE  EnInv'
BY DEF EnInv, EnKept, EnCalm, enLinks

\* Initialisation, packets and the queue leave the links as they are.
LEMMA InitAndQueueKeep ==
    ASSUME EnInv,
           \/ EnProcess
           \/ \E yes \in BOOLEAN : EnWorkletTried(yes) \/ EnMainTried(yes)
           \/ \E k \in EnLinks : EnPacket(k)
    PROVE  EnInv'
<1>1. UNCHANGED enLinks
  BY DEF EnProcess, EnWorkletTried, EnMainTried, EnPacket
<1>2. /\ enPhase \in {"worklet", "main", "on", "failed"} /\ enCtx \in BOOLEAN
      /\ enMode \in {"message", "shared", "worklet"} /\ enQueue \in 0 .. EnQueueCap /\ enGone \in BOOLEAN
  BY DEF EnInv, EnTypeOK
<1>3. /\ enPhase' \in {"worklet", "main", "on", "failed"} /\ enCtx' \in BOOLEAN
      /\ enMode' \in {"message", "shared", "worklet"} /\ enQueue' \in 0 .. EnQueueCap /\ enGone' \in BOOLEAN
  <2>1. CASE EnProcess
    BY <1>2, <2>1, EngineAssumption DEF EnProcess
  <2>2. CASE \E yes \in BOOLEAN : EnWorkletTried(yes) \/ EnMainTried(yes)
    BY <1>2, <2>2 DEF EnWorkletTried, EnMainTried
  <2>3. CASE \E k \in EnLinks : EnPacket(k)
    BY <1>2, <2>3, EngineAssumption DEF EnPacket, Enqueued
  <2> QED
    BY <2>1, <2>2, <2>3
<1>4. EnTypeOK'
  BY <1>1, <1>3 DEF EnInv, EnTypeOK, enLinks
<1> QED
  BY <1>1, <1>4, BaseKeeps

\* disconnect(), alone or from destroy().
LEMMA DroppedKeeps ==
    ASSUME EnInv, EnDropped,
           enPhase' \in {"worklet", "main", "on", "failed"}, enCtx' \in BOOLEAN,
           enMode' \in {"message", "shared", "worklet"}, enQueue' \in 0 .. EnQueueCap, enGone' \in BOOLEAN
    PROVE  EnInv'
<1>1. /\ enLink' = EnCut /\ enWs' = 0 /\ enTransport' = 0
      /\ enTimers' = EnTimersCleared /\ UNCHANGED <<enStray, enFallback, enHasty>>
  BY DEF EnDropped
<1>2. /\ ~enUrl' /\ enUrl' \in BOOLEAN /\ enIntent' /\ enIntent' \in BOOLEAN
      /\ ~enHandle' /\ enHandle' \in BOOLEAN /\ enSync' \in BOOLEAN
  BY Zenon DEF EnDropped, SyncStopped
<1>3. EnTypeOK'
  BY <1>1, <1>2, CutIs, EnTyped DEF EnTypeOK, EnTimersCleared
<1>4. EnKept'
  BY <1>1, <1>2, CutIs, EnTyped DEF EnInv, EnKept
<1>5. ~enHasty' => EnCalm'
  BY <1>1, <1>2, CutIs, EnTyped DEF EnCalm
<1> QED
  BY <1>3, <1>4, <1>5 DEF EnInv

\* disconnect() forgets the link it closes.
LEMMA DisconnectKeeps ==
    ASSUME EnInv, EnDisconnect \/ EnDestroy
    PROVE  EnInv'
<1>1. EnDropped
  BY DEF EnDisconnect, EnDestroy
<1>2. /\ enPhase' \in {"worklet", "main", "on", "failed"} /\ enCtx' \in BOOLEAN
      /\ enMode' \in {"message", "shared", "worklet"} /\ enQueue' \in 0 .. EnQueueCap /\ enGone' \in BOOLEAN
  <2>1. CASE EnDisconnect
    BY <2>1 DEF EnDisconnect, EnInv, EnTypeOK, enBase
  <2>2. CASE EnDestroy
    <3>1. enCtx' \in BOOLEAN /\ enGone' \in BOOLEAN
      BY <2>2, Zenon DEF EnDestroy
    <3> QED
      BY <2>2, <3>1 DEF EnDestroy, EnInv, EnTypeOK
  <2> QED
    BY <2>1, <2>2
<1> QED
  BY <1>1, <1>2, DroppedKeeps

\* What the two ways of connecting have in common.
LEMMA AskedIs ==
    ASSUME EnInv, EnAsked
    PROVE  /\ enUrl' /\ enUrl' \in BOOLEAN /\ ~enIntent' /\ enIntent' \in BOOLEAN
           /\ enSync' \in BOOLEAN /\ enHasty' \in BOOLEAN
           /\ UNCHANGED <<enPhase, enCtx, enMode, enQueue, enGone, enStray>>
           /\ EnLeft \in 0 .. MaxEnTimers
           /\ ~enHasty' => /\ ~enHasty /\ EnLeft = 0 /\ enFallback = {}
                           /\ \A k \in EnLinks : EnCut[k] \in {"unused", "gone"}
<1>1. /\ enUrl' /\ enUrl' \in BOOLEAN /\ ~enIntent' /\ enIntent' \in BOOLEAN /\ enSync' \in BOOLEAN
  BY EnTyped, Zenon DEF EnAsked, SyncStopped
<1>2. /\ enHasty' \in BOOLEAN
      /\ ~enHasty' => ~enHasty /\ ~(EnLeft > 0) /\ enFallback = {} /\ ~ \E k \in EnLinks : EnCut[k] = "closing"
  BY Zenon DEF EnAsked
<1>3. UNCHANGED <<enPhase, enCtx, enMode, enQueue, enGone, enStray>>
  BY DEF EnAsked, enBase
<1>4. EnLeft \in 0 .. MaxEnTimers
  BY CutIs, EnTyped DEF EnLeft, EnTimersCleared
<1>5. ~enHasty' => EnLeft = 0
  BY <1>2, <1>4, EnTyped
<1>6. ~enHasty' => \A k \in EnLinks : EnCut[k] \in {"unused", "gone"}
  BY <1>2, CutIs
<1> QED
  BY <1>1, <1>2, <1>3, <1>4, <1>5, <1>6

\* connect(), and connectAuto() without WebTransport.
LEMMA EnConnectKeeps ==
    ASSUME EnInv, EnConnect
    PROVE  EnInv'
<1>0. EnAsked /\ enTransport' = 0 /\ enFallback' = enFallback
  BY DEF EnConnect
<1>1. /\ enUrl' /\ enUrl' \in BOOLEAN /\ ~enIntent' /\ enIntent' \in BOOLEAN
      /\ enSync' \in BOOLEAN /\ enHasty' \in BOOLEAN
      /\ UNCHANGED <<enPhase, enCtx, enMode, enQueue, enGone, enStray>>
      /\ EnLeft \in 0 .. MaxEnTimers
      /\ ~enHasty' => /\ ~enHasty /\ EnLeft = 0 /\ enFallback = {}
                      /\ \A k \in EnLinks : EnCut[k] \in {"unused", "gone"}
  BY <1>0, AskedIs
<1>2. EnCut \in [EnLinks -> {"unused", "connecting", "open", "closing", "trying", "up", "gone"}]
  BY CutIs
<1>3. CASE /\ \E new \in EnLinks : EnMade(EnCut, new, "connecting") /\ enWs' = new
           /\ enTimers' = EnLeft /\ enHandle' = FALSE
  <2>1. PICK new \in EnLinks : EnMade(EnCut, new, "connecting") /\ enWs' = new
    BY <1>3
  <2>2. ~enHandle' /\ enHandle' \in BOOLEAN
    BY <1>3, Zenon
  <2>3. /\ enLink' \in [EnLinks -> {"unused", "connecting", "open", "closing", "trying", "up", "gone"}]
        /\ \A k \in EnLinks : enLink'[k] = IF k = new THEN "connecting" ELSE EnCut[k]
    BY <1>2, <2>1, MadeIs
  <2>4. EnTypeOK'
    BY <1>0, <1>1, <1>3, <2>1, <2>2, <2>3, EnTyped DEF EnInv, EnTypeOK
  <2>5. EnKept'
    BY <1>0, <2>1, <2>2, <2>3, CutIs, EnTyped DEF EnInv, EnKept
  <2>6. ASSUME ~enHasty' PROVE EnCalm'
    BY <1>0, <1>1, <1>3, <2>1, <2>2, <2>3, <2>6, EnTyped DEF EnCalm
  <2> QED
    BY <2>4, <2>5, <2>6 DEF EnInv
<1>4. CASE /\ enLink' = EnCut /\ enWs' = 0
           /\ EnLeft < MaxEnTimers /\ enTimers' = EnLeft + 1 /\ enHandle' = TRUE
  <2>1. enHandle' /\ enHandle' \in BOOLEAN
    BY <1>4, Zenon
  <2>2. enTimers' \in 0 .. MaxEnTimers /\ enTimers' > 0 /\ (EnLeft = 0 => enTimers' = 1)
    BY <1>1, <1>4, EnTyped
  <2>3. EnTypeOK'
    BY <1>0, <1>1, <1>2, <1>4, <2>1, <2>2, EnTyped DEF EnInv, EnTypeOK
  <2>4. EnKept'
    BY <1>0, <1>4, <2>2, CutIs, EnTyped DEF EnInv, EnKept
  <2>5. ASSUME ~enHasty' PROVE EnCalm'
    BY <1>0, <1>1, <1>4, <2>1, <2>2, <2>5 DEF EnCalm
  <2> QED
    BY <2>3, <2>4, <2>5 DEF EnInv
<1> QED
  BY <1>3, <1>4 DEF EnConnect

\* connectAuto() over a transport.
LEMMA EnConnectTransportKeeps ==
    ASSUME EnInv, EnConnectTransport
    PROVE  EnInv'
<1>0. EnAsked /\ enWs' = 0 /\ enTimers' = EnLeft
  BY DEF EnConnectTransport
<1>1. /\ enUrl' /\ enUrl' \in BOOLEAN /\ ~enIntent' /\ enIntent' \in BOOLEAN
      /\ enSync' \in BOOLEAN /\ enHasty' \in BOOLEAN
      /\ UNCHANGED <<enPhase, enCtx, enMode, enQueue, enGone, enStray>>
      /\ EnLeft \in 0 .. MaxEnTimers
      /\ ~enHasty' => /\ ~enHasty /\ EnLeft = 0 /\ enFallback = {}
                      /\ \A k \in EnLinks : EnCut[k] \in {"unused", "gone"}
  BY <1>0, AskedIs
<1>2. EnCut \in [EnLinks -> {"unused", "connecting", "open", "closing", "trying", "up", "gone"}]
  BY CutIs
<1>3. PICK new \in EnLinks :
          EnMade(EnCut, new, "trying") /\ enTransport' = new /\ enFallback' = enFallback \union {new}
  BY DEF EnConnectTransport
<1>4. enHandle' \in BOOLEAN /\ (enHandle' <=> enHandle /\ ~EnSomething)
  BY Zenon DEF EnConnectTransport
<1>5. enHandle' => EnLeft > 0
  BY <1>4 DEF EnLeft, EnInv, EnKept
<1>6. /\ enLink' \in [EnLinks -> {"unused", "connecting", "open", "closing", "trying", "up", "gone"}]
      /\ \A k \in EnLinks : enLink'[k] = IF k = new THEN "trying" ELSE EnCut[k]
  BY <1>2, <1>3, MadeIs
<1>7. EnTypeOK'
  BY <1>0, <1>1, <1>3, <1>4, <1>6, EnTyped DEF EnInv, EnTypeOK
<1>8. EnKept'
  BY <1>0, <1>3, <1>5, <1>6, CutIs, EnTyped DEF EnInv, EnKept
<1>9. ASSUME ~enHasty' PROVE EnCalm'
  <2>1. enTimers' = 0 /\ ~enHandle' /\ enFallback' = {new}
    BY <1>0, <1>1, <1>3, <1>5, <1>9
  <2> QED
    BY <1>0, <1>1, <1>3, <1>6, <1>9, <2>1, EnTyped DEF EnCalm
<1> QED
  BY <1>7, <1>8, <1>9 DEF EnInv

\* A made link k changes to a state that is not "unused", or keeps its own.
LEMMA LinkKeeps ==
    ASSUME EnInv, NEW k \in EnLinks,
           EnOpen(k) \/ EnTransportUp(k) \/ EnTransportLost(k) \/ EnTransportStrays(k)
    PROVE  EnInv'
<1>1. \/ enLink' = enLink
      \/ \E state \in {"open", "up", "trying"} :
            /\ enLink' = [enLink EXCEPT ![k] = state]
            /\ IF state = "open" THEN enLink[k] = "connecting" ELSE enLink[k] \in {"trying", "up"}
  BY DEF EnOpen, EnTransportUp, EnTransportLost, EnTransportStrays
<1>2. /\ UNCHANGED <<enPhase, enCtx, enMode, enQueue, enGone>>
      /\ UNCHANGED <<enWs, enTransport, enUrl, enIntent, enTimers, enHandle, enHasty>>
      /\ enFallback' \subseteq enFallback
  BY DEF EnOpen, EnTransportUp, EnTransportLost, EnTransportStrays, enBase
<1>3. enSync' \in BOOLEAN
  BY EnTyped, Zenon DEF EnOpen, EnTransportUp, EnTransportLost, EnTransportStrays, SyncStarted
<1>4. enStray' \in [EnLinks -> {"none", "trying", "up"}]
  <2>1. \/ enStray' = enStray
        \/ \E state \in {"none", "trying", "up"} : enStray' = [enStray EXCEPT ![k] = state]
    BY DEF EnOpen, EnTransportUp, EnTransportLost, EnTransportStrays
  <2> QED
    BY <2>1, EnTyped
<1>5. CASE enLink' = enLink
  <2>1. EnTypeOK' /\ EnKept'
    BY <1>2, <1>3, <1>4, <1>5, EnTyped DEF EnInv, EnTypeOK, EnKept
  <2>2. ~enHasty' => EnCalm'
    BY <1>2, <1>5 DEF EnInv, EnCalm
  <2> QED
    BY <2>1, <2>2 DEF EnInv
<1>6. ASSUME NEW state \in {"open", "up", "trying"}, enLink' = [enLink EXCEPT ![k] = state],
             IF state = "open" THEN enLink[k] = "connecting" ELSE enLink[k] \in {"trying", "up"}
      PROVE  EnInv'
  <2>1. /\ enLink' \in [EnLinks -> {"unused", "connecting", "open", "closing", "trying", "up", "gone"}]
        /\ \A j \in EnLinks : enLink'[j] = IF j = k THEN state ELSE enLink[j]
    BY <1>6, EnTyped
  <2>2. EnTypeOK'
    BY <1>2, <1>3, <1>4, <2>1, EnTyped DEF EnInv, EnTypeOK
  <2>3. EnKept'
    BY <1>2, <1>6, <2>1 DEF EnInv, EnKept
  <2>4. ASSUME ~enHasty' PROVE EnCalm'
    <3>1. EnCalm
      BY <1>2, <2>4 DEF EnInv
    <3>2. enTimers > 0 => enWs = 0 \/ (enWs \in EnLinks /\ enWs # k)
      BY <1>6, <3>1, EnTyped DEF EnCalm, EnLinks
    <3> QED
      BY <1>2, <1>6, <2>1, <3>1, <3>2 DEF EnCalm
  <2> QED
    BY <2>2, <2>3, <2>4 DEF EnInv
<1> QED
  BY <1>1, <1>5, <1>6

\* The end of a link, replaced or current.
LEMMA ClosedKeeps ==
    ASSUME EnInv, NEW k \in EnLinks, EnClosed(k)
    PROVE  EnInv'
<1>1. /\ enLink[k] \in {"connecting", "open", "closing"} /\ enLink' = [enLink EXCEPT ![k] = "gone"]
      /\ UNCHANGED <<enBase, enWs, enTransport, enUrl, enIntent, enStray, enFallback, enSync, enHasty>>
      /\ IF enIntent \/ ~enUrl THEN UNCHANGED <<enTimers, enHandle>>
         ELSE enTimers < MaxEnTimers /\ enTimers' = enTimers + 1 /\ enHandle' = TRUE
  BY DEF EnClosed
<1>2. /\ enHandle' \in BOOLEAN /\ enTimers' \in 0 .. MaxEnTimers
      /\ enHandle' => enTimers' > 0
  <2>1. CASE enIntent \/ ~enUrl
    BY <1>1, <2>1, EnTyped DEF EnInv, EnKept
  <2>2. CASE ~(enIntent \/ ~enUrl)
    BY <1>1, <2>2, EnTyped
  <2> QED
    BY <2>1, <2>2
<1>3. /\ enLink' \in [EnLinks -> {"unused", "connecting", "open", "closing", "trying", "up", "gone"}]
      /\ \A j \in EnLinks : enLink'[j] = IF j = k THEN "gone" ELSE enLink[j]
  BY <1>1, EnTyped
<1>4. EnTypeOK'
  BY <1>1, <1>2, <1>3, EnTyped DEF EnInv, EnTypeOK, enBase
<1>5. EnKept'
  BY <1>1, <1>2, <1>3 DEF EnInv, EnKept
<1>6. ASSUME ~enHasty' PROVE EnCalm'
  <2>1. EnCalm
    BY <1>1, <1>6 DEF EnInv
  <2>2. CASE enIntent \/ ~enUrl
    <3>1. enTimers' = enTimers /\ enHandle' = enHandle
      BY <1>1, <2>2
    <3>2. ~(enTimers > 0)
      BY <2>1, <2>2 DEF EnCalm
    <3> QED
      BY <1>1, <1>3, <2>1, <3>1, <3>2 DEF EnCalm
  <2>3. CASE ~(enIntent \/ ~enUrl)
    <3>1. k = enWs /\ enWs # 0
      BY <1>1, <2>1, <2>3, EnTyped DEF EnCalm
    <3>2. enTimers = 0
      BY <1>1, <2>1, <3>1, EnTyped DEF EnCalm
    <3>3. enTimers' = 1 /\ enHandle'
      BY <1>1, <2>3, <3>2
    <3> QED
      BY <1>1, <1>3, <2>1, <3>1, <3>3 DEF EnCalm
  <2> QED
    BY <2>2, <2>3
<1> QED
  BY <1>4, <1>5, <1>6 DEF EnInv

\* _openWs, from a timer that falls due or from the fall back: a socket is
\* made, or one more reconnection scheduled; nothing lived before.
LEMMA OpenedKeeps ==
    ASSUME EnInv, NEW links \in [EnLinks -> {"unused", "connecting", "open", "closing", "trying", "up", "gone"}],
           NEW pending \in 0 .. MaxEnTimers, EnOpened(links, pending, FALSE),
           \A k \in EnLinks : links[k] = "unused" <=> enLink[k] = "unused",
           UNCHANGED <<enBase, enUrl, enIntent, enStray, enSync, enHasty>>,
           enTransport' = 0 \/ enTransport' = enTransport, enFallback' \subseteq enFallback,
           ~enHasty => /\ ~enIntent /\ enUrl /\ pending = 0 /\ enTransport' = 0 /\ enFallback' = {}
                       /\ \A k \in EnLinks : links[k] \in {"unused", "gone"}
    PROVE  EnInv'
<1>0. UNCHANGED <<enPhase, enCtx, enMode, enQueue, enGone>>
  BY DEF enBase
<1>1. CASE /\ \E new \in EnLinks : EnMade(links, new, "connecting") /\ enWs' = new
           /\ enTimers' = pending /\ enHandle' = FALSE
  <2>1. PICK new \in EnLinks : EnMade(links, new, "connecting") /\ enWs' = new
    BY <1>1
  <2>2. ~enHandle' /\ enHandle' \in BOOLEAN
    BY <1>1, Zenon
  <2>3. /\ enLink' \in [EnLinks -> {"unused", "connecting", "open", "closing", "trying", "up", "gone"}]
        /\ \A k \in EnLinks : enLink'[k] = IF k = new THEN "connecting" ELSE links[k]
    BY <2>1, MadeIs
  <2>4. EnTypeOK'
    BY <1>0, <1>1, <2>1, <2>2, <2>3, EnTyped DEF EnInv, EnTypeOK
  <2>5. EnKept'
    BY <2>1, <2>2, <2>3, EnTyped DEF EnInv, EnKept
  <2>6. ASSUME ~enHasty' PROVE EnCalm'
    BY <1>1, <2>1, <2>2, <2>3, <2>6, EnTyped DEF EnCalm
  <2> QED
    BY <2>4, <2>5, <2>6 DEF EnInv
<1>2. CASE /\ enLink' = links /\ UNCHANGED enWs
           /\ pending < MaxEnTimers /\ enTimers' = pending + 1 /\ enHandle' = TRUE
  <2>1. enHandle' /\ enHandle' \in BOOLEAN
    BY <1>2, Zenon
  <2>2. enTimers' \in 0 .. MaxEnTimers /\ enTimers' > 0 /\ (pending = 0 => enTimers' = 1)
    BY <1>2, EnTyped
  <2>3. EnTypeOK'
    BY <1>0, <1>2, <2>1, <2>2, EnTyped DEF EnInv, EnTypeOK
  <2>4. EnKept'
    BY <1>2, <2>2, EnTyped DEF EnInv, EnKept
  <2>5. ASSUME ~enHasty' PROVE EnCalm'
    <3>1. enWs # 0 => enWs \in EnLinks /\ links[enWs] # "unused"
      BY EnTyped DEF EnInv, EnKept, EnLinks
    <3> QED
      BY <1>2, <2>1, <2>2, <2>5, <3>1 DEF EnCalm
  <2> QED
    BY <2>3, <2>4, <2>5 DEF EnInv
<1> QED
  BY <1>1, <1>2 DEF EnOpened

\* A reconnection that falls due.
LEMMA EnTimerKeeps ==
    ASSUME EnInv, EnTimer
    PROVE  EnInv'
<1>1. /\ enTimers > 0
      /\ UNCHANGED <<enBase, enTransport, enUrl, enIntent, enStray, enFallback, enSync, enHasty>>
  BY DEF EnTimer
<1> DEFINE pending == enTimers - 1
<1>2. pending \in 0 .. MaxEnTimers /\ (enTimers = 1 => pending = 0)
  BY <1>1, EnTyped
<1>3. CASE ~enIntent /\ enUrl
  <2>1. EnOpened(enLink, pending, FALSE)
    BY <1>3 DEF EnTimer
  <2> HIDE DEF pending
  <2>2. ASSUME ~enHasty
        PROVE  /\ pending = 0 /\ enTransport' = 0 /\ enFallback' = {}
               /\ \A k \in EnLinks : enLink[k] \in {"unused", "gone"}
    <3>1. EnCalm
      BY <2>2 DEF EnInv
    <3>2. enTimers = 1 /\ enTransport = 0
      BY <1>1, <3>1 DEF EnCalm
    <3>3. enFallback = {}
      BY <1>3, <3>1, <3>2, EnTyped DEF EnCalm
    <3>4. \A k \in EnLinks : enLink[k] \notin {"connecting", "open", "trying", "up", "closing"}
      BY <1>1, <1>3, <3>1, <3>2, EnTyped DEF EnCalm
    <3> QED
      BY <1>1, <1>2, <3>2, <3>3, <3>4, EnTyped
  <2> QED
    BY <1>1, <1>2, <1>3, <2>1, <2>2, OpenedKeeps, EnTyped
<1>4. CASE ~(~enIntent /\ enUrl)
  <2>1. /\ enLink' = enLink /\ enWs' = enWs /\ enTimers' = pending
        /\ ~enHandle' /\ enHandle' \in BOOLEAN
    <3>1. ~enHandle' /\ enHandle' \in BOOLEAN
      BY <1>4, Zenon DEF EnTimer
    <3> QED
      BY <1>4, <3>1 DEF EnTimer
  <2>2. EnTypeOK'
    BY <1>1, <1>2, <2>1, EnTyped DEF EnInv, EnTypeOK, enBase
  <2>3. EnKept'
    BY <1>1, <2>1 DEF EnInv, EnKept
  <2>4. enHasty
    BY <1>1, <1>4 DEF EnInv, EnCalm
  <2>5. ~enHasty' => EnCalm'
    BY <1>1, <2>4
  <2> QED
    BY <2>2, <2>3, <2>5 DEF EnInv
<1> QED
  BY <1>3, <1>4

\* The fall back from the transport to a socket.
LEMMA FallBackKeeps ==
    ASSUME EnInv, NEW k \in EnLinks, EnFallBack(k)
    PROVE  EnInv'
<1>1. /\ k \in enFallback /\ enFallback' = enFallback \ {k}
      /\ UNCHANGED <<enBase, enUrl, enIntent, enStray, enSync, enHasty>>
  BY DEF EnFallBack
<1>2. CASE enIntent
  <2>1. UNCHANGED <<enLink, enWs, enTransport, enTimers, enHandle>>
    BY <1>2 DEF EnFallBack
  <2>2. EnTypeOK' /\ EnKept'
    BY <1>1, <2>1 DEF EnInv, EnTypeOK, EnKept, enBase
  <2>3. ~enHasty' => EnCalm'
    BY <1>1, <1>2, <2>1 DEF EnInv, EnCalm
  <2> QED
    BY <2>2, <2>3 DEF EnInv
<1>3. CASE ~enIntent
  <2> DEFINE links == [enLink EXCEPT ![k] = "gone"]
  <2>0. enLink[k] # "unused"
    BY <1>1 DEF EnInv, EnKept
  <2>1. EnOpened(links, enTimers, FALSE) /\ enTransport' = 0
    BY <1>3 DEF EnFallBack
  <2>2. links \in [EnLinks -> {"unused", "connecting", "open", "closing", "trying", "up", "gone"}]
        /\ \A j \in EnLinks : links[j] = IF j = k THEN "gone" ELSE enLink[j]
    BY EnTyped
  <2> HIDE DEF links
  <2>3. \A j \in EnLinks : links[j] = "unused" <=> enLink[j] = "unused"
    BY <2>0, <2>2
  <2>4. ASSUME ~enHasty
        PROVE  /\ enUrl /\ enTimers = 0 /\ enFallback' = {}
               /\ \A j \in EnLinks : links[j] \in {"unused", "gone"}
    <3>1. EnCalm
      BY <2>4 DEF EnInv
    <3>2. k = enTransport /\ enTransport # 0 /\ enWs = 0 /\ enFallback' = {} /\ enUrl
      BY <1>1, <1>3, <3>1, EnTyped DEF EnCalm
    <3>3. enTimers = 0
      BY <3>1, <3>2, EnTyped DEF EnCalm
    <3>4. \A j \in EnLinks : links[j] \notin {"connecting", "open", "trying", "up", "closing"}
      BY <1>3, <2>2, <3>1, <3>2, EnTyped DEF EnCalm
    <3> QED
      BY <2>2, <3>2, <3>3, <3>4
  <2>5. enTimers \in 0 .. MaxEnTimers /\ enFallback' \subseteq enFallback
    BY <1>1, EnTyped
  <2> QED
    BY <1>1, <1>3, <2>1, <2>2, <2>3, <2>4, <2>5, OpenedKeeps
<1> QED
  BY <1>2, <1>3

\* The engine keeps EnInv.
THEOREM EngineInvariant == EnSpec => []EnInv
<1>1. EnInit => EnInv
  <2> SUFFICES ASSUME EnInit PROVE EnInv
    OBVIOUS
  <2>1. /\ enPhase = "worklet" /\ enMode = "message" /\ enQueue = 0
        /\ enLink = [k \in EnLinks |-> "unused"] /\ enWs = 0 /\ enTransport = 0
        /\ enTimers = 0 /\ enFallback = {} /\ enStray = [k \in EnLinks |-> "none"]
    BY DEF EnInit
  <2>2. /\ enCtx \in BOOLEAN /\ enGone \in BOOLEAN /\ enSync \in BOOLEAN /\ enHasty \in BOOLEAN
        /\ ~enUrl /\ enUrl \in BOOLEAN /\ ~enIntent /\ enIntent \in BOOLEAN
        /\ ~enHandle /\ enHandle \in BOOLEAN
    BY Zenon DEF EnInit
  <2>3. EnTypeOK
    BY <2>1, <2>2, EngineAssumption DEF EnTypeOK
  <2>4. EnKept /\ EnCalm
    BY <2>1, <2>2, EngineAssumption DEF EnKept, EnCalm, EnLinks
  <2> QED
    BY <2>3, <2>4 DEF EnInv
<1>2. EnInv /\ [EnNext]_enVars => EnInv'
  <2> SUFFICES ASSUME EnInv, [EnNext]_enVars PROVE EnInv'
    OBVIOUS
  <2>1. CASE UNCHANGED enVars
    BY <2>1 DEF enVars, enLinks, enBase, EnInv, EnTypeOK, EnKept, EnCalm
  <2>2. CASE EnNext
    BY <2>2, InitAndQueueKeep, DisconnectKeeps, EnTimerKeeps, EnConnectKeeps,
       EnConnectTransportKeeps, LinkKeeps, ClosedKeeps, FallBackKeeps DEF EnNext
  <2> QED
    BY <2>1, <2>2
<1> QED
  BY <1>1, <1>2, PTL DEF EnSpec

\* Packets come from at most the one place disconnect() would close, as long
\* as no connect() came early.
THEOREM EngineOwnsItsSocket == EnSpec => []EngineOwnsSocket
<1>1. EnInv => EngineOwnsSocket
  <2> SUFFICES ASSUME EnInv, ~enHasty PROVE EngineOwnsSocket
    BY DEF EngineOwnsSocket
  <2> QED
    BY EnTyped DEF EnInv, EnCalm, EngineOwnsSocket, EnPending
<1> QED
  BY <1>1, EngineInvariant, PTL

\* Once disconnect() ran, no timer still under way makes a link before
\* connect() is called again.
THEOREM EngineStaysDisconnected == EnSpec => EngineStaysDown
<1> DEFINE Quiet == enIntent /\ enIntent' =>
                       \A k \in EnLinks : enLink[k] = "unused" => enLink'[k] = "unused"
<1>1. EnInv /\ EnNext => Quiet
  <2> SUFFICES ASSUME EnInv, EnNext, enIntent, enIntent', NEW k \in EnLinks, enLink[k] = "unused"
               PROVE  enLink'[k] = "unused"
    OBVIOUS
  <2>0. enLink \in [EnLinks -> {"unused", "connecting", "open", "closing", "trying", "up", "gone"}]
    BY EnTyped
  <2>1. CASE EnProcess \/ (\E yes \in BOOLEAN : EnWorkletTried(yes) \/ EnMainTried(yes))
             \/ (\E j \in EnLinks : EnPacket(j))
    BY <2>1 DEF EnProcess, EnWorkletTried, EnMainTried, EnPacket, enLinks
  <2>2. CASE EnDisconnect \/ EnDestroy
    BY <2>2, CutIs DEF EnDisconnect, EnDestroy, EnDropped
  <2>3. CASE EnTimer
    BY <2>3 DEF EnTimer
  <2>4. ASSUME EnConnect \/ EnConnectTransport PROVE FALSE
    BY <2>4, Zenon DEF EnConnect, EnConnectTransport, EnAsked
  <2>5. ASSUME NEW j \in EnLinks,
               EnOpen(j) \/ EnTransportUp(j) \/ EnTransportLost(j) \/ EnTransportStrays(j) \/ EnClosed(j)
        PROVE  enLink'[k] = "unused"
    BY <2>0, <2>5 DEF EnOpen, EnTransportUp, EnTransportLost, EnTransportStrays, EnClosed
  <2>6. ASSUME NEW j \in EnLinks, EnFallBack(j) PROVE enLink'[k] = "unused"
    BY <2>6 DEF EnFallBack
  <2> QED
    BY <2>1, <2>2, <2>3, <2>4, <2>5, <2>6 DEF EnNext
<1>2. EnInv => [Quiet]_enVars \/ ~[EnNext]_enVars
  BY <1>1
<1> QED
  BY <1>1, EngineInvariant, PTL DEF EnSpec, EngineStaysDown

-----------------------------------------------------------------------------
(* The Opus bridge.  While no engine comes or goes during another one's     *)
(* initDecoder(), only one waits, and the module is instantiated and given  *)
(* buffers by that one; while none is destroyed during its own, neither the *)
(* one that waits nor the one the bridge plays for is freed.  The numbers   *)
(* that wait grow from the last packet's to the transmitter's.              *)

OpDecodes ==
    ~opOverlap =>
        /\ \A e, f \in OpEngines :
              opStep[e] \in {"codecs", "wasm"} /\ opStep[f] \in {"codecs", "wasm"} => e = f
        /\ opFallback => wfInstance # 0
        /\ wfInstance # 0 => wfHeap = wfInstance
        /\ ~wfTried => wfInstance = 0 /\ wfHeap = 0
        /\ \A e \in OpEngines : opStep[e] = "wasm" => ~wfTried

OpPlays ==
    ~opOrphan =>
        /\ opPlayer \notin opFreed
        /\ \A e \in OpEngines : opStep[e] \in {"codecs", "wasm"} => e \notin opFreed

OpEncodes == ~opSlipped => opPending = opInside /\ opOld = <<>>

OpNumbers ==
    /\ opSent <= opFrame
    /\ \A k \in 1 .. Len(opPending) :
          /\ opSent < opPending[k] /\ opPending[k] <= opFrame
          /\ \A j \in 1 .. k - 1 : opPending[j] < opPending[k]

\* The types, in halves and without the sets of Boolean values.
OpDecodeShape ==
    /\ opStep \in [OpEngines -> {"none", "codecs", "wasm", "over"}] /\ opFreed \subseteq OpEngines
    /\ opPlayer \in 0 .. MaxOpEngines /\ wfInstance \in 0 .. MaxOpEngines /\ wfHeap \in 0 .. MaxOpEngines
    /\ opDecoder \in BOOLEAN /\ opReady \in BOOLEAN /\ opFallback \in BOOLEAN
    /\ wfTried \in BOOLEAN /\ opOverlap \in BOOLEAN /\ opOrphan \in BOOLEAN

OpEncodeShape ==
    /\ opTx \in BOOLEAN /\ opSlipped \in BOOLEAN /\ opAsked \in 0 .. MaxOpAsks
    /\ opEncoder \in {"none", "ready", "broken"} /\ opWs \in {"connecting", "open", "closed"}
    /\ opFrame \in 0 .. MaxOpFrames /\ opSent \in 0 .. MaxOpFrames /\ opPart \in 0 .. OpChunk - 1
    /\ opPending \in Seq(1 .. MaxOpFrames)
    /\ opInside \in Seq(1 .. MaxOpFrames) /\ opOld \in Seq(1 .. MaxOpFrames)

OpInv == OpDecodeShape /\ OpEncodeShape /\ OpPlays /\ OpDecodes /\ OpEncodes /\ OpNumbers

\* The invariant covers what the runs check.
LEMMA OpusCovers == OpInv => OpTypeOK /\ OpusSound
<1> SUFFICES ASSUME OpInv PROVE OpTypeOK /\ OpusSound
  OBVIOUS
<1>1. {opDecoder, opReady, opFallback, wfTried, opTx, opSlipped, opOverlap, opOrphan} \subseteq BOOLEAN
  BY Zenon DEF OpInv, OpDecodeShape, OpEncodeShape
<1>5. {opPending, opInside, opOld} \subseteq Seq(1 .. MaxOpFrames)
  BY Zenon DEF OpInv, OpEncodeShape
<1>2. {opPlayer, wfInstance, wfHeap} \subseteq 0 .. MaxOpEngines
  BY DEF OpInv, OpDecodeShape
<1>3. OpTypeOK
  BY <1>1, <1>2, <1>5 DEF OpInv, OpDecodeShape, OpEncodeShape, OpTypeOK
<1>4. OpusSound
  BY DEF OpInv, OpPlays, OpDecodes, OpEncodes, OpNumbers, OpusSound
<1> QED
  BY <1>3, <1>4

\* Entering the fallback keeps the decoding half, for an engine that waits or
\* that nobody waits beside.
LEMMA EnterWasmKeeps ==
    ASSUME OpDecodeShape, OpDecodes, OpPlays, NEW e \in OpEngines, OpEnterWasm(e),
           opOverlap' \in BOOLEAN, opOverlap => opOverlap',
           opOrphan' = opOrphan, opOrphan \/ e \notin opFreed,
           ~opOverlap' => \A f \in OpEngines \ {e} : opStep[f] \notin {"codecs", "wasm"},
           UNCHANGED <<opFreed, opDecoder, wfTried, wfInstance, wfHeap>>
    PROVE  OpDecodeShape' /\ OpPlays' /\ OpDecodes'
<1>1. opPlayer' = e /\ e \in 0 .. MaxOpEngines
  BY OpusAssumption DEF OpEnterWasm, OpEngines
<1>2. CASE wfTried
  <2>1. opStep' = [opStep EXCEPT ![e] = "over"]
        /\ opFallback' = (opFallback \/ wfInstance # 0) /\ opReady' = (opReady \/ wfInstance # 0)
    BY <1>2 DEF OpEnterWasm
  <2>2. opFallback' \in BOOLEAN /\ opReady' \in BOOLEAN /\ (opFallback' <=> opFallback \/ wfInstance # 0)
    BY <2>1, Zenon
  <2>3. OpDecodeShape'
    BY <1>1, <2>1, <2>2 DEF OpDecodeShape
  <2>4. OpDecodes'
    BY <1>1, <1>2, <2>1, <2>2 DEF OpDecodes, OpDecodeShape
  <2>5. OpPlays'
    BY <1>1, <2>1 DEF OpPlays, OpDecodeShape
  <2> QED
    BY <2>3, <2>4, <2>5
<1>3. CASE ~wfTried
  <2>1. opStep' = [opStep EXCEPT ![e] = "wasm"] /\ UNCHANGED <<opFallback, opReady>>
    BY <1>3 DEF OpEnterWasm
  <2>2. OpDecodeShape'
    BY <1>1, <2>1 DEF OpDecodeShape
  <2>3. OpDecodes'
    BY <1>1, <1>3, <2>1 DEF OpDecodes, OpDecodeShape
  <2>4. OpPlays'
    BY <1>1, <2>1 DEF OpPlays, OpDecodeShape
  <2> QED
    BY <2>2, <2>3, <2>4
<1> QED
  BY <1>2, <1>3

\* initDecoder() to its end.
LEMMA DecoderKeeps ==
    ASSUME OpInv, NEW e \in OpEngines, NEW yes \in BOOLEAN,
           OpInitDecoder(e) \/ OpCodecs(e, yes) \/ OpWasm(e, yes)
    PROVE  OpInv'
<1> USE DEF OpInv
<1>0. e \in 0 .. MaxOpEngines
  BY OpusAssumption DEF OpEngines
<1>1. UNCHANGED opEncodeVars
  BY DEF OpInitDecoder, OpCodecs, OpWasm
<1>2. OpEncodeShape' /\ OpEncodes' /\ OpNumbers'
  BY <1>1 DEF opEncodeVars, opCoding, OpEncodeShape, OpEncodes, OpNumbers
<1>3. CASE OpInitDecoder(e)
  <2>1. opOverlap' \in BOOLEAN /\ (opOverlap' <=> opOverlap \/ OpWaiting # {})
    BY <1>3, Zenon DEF OpInitDecoder
  <2>2. ~opOverlap' => ~opOverlap /\ \A f \in OpEngines : opStep[f] \notin {"codecs", "wasm"}
    BY <2>1 DEF OpWaiting
  <2>3. /\ opStep[e] = "none" /\ e \notin opFreed
        /\ UNCHANGED <<opFreed, opDecoder, wfTried, wfInstance, wfHeap, opOrphan>>
    BY <1>3 DEF OpInitDecoder
  <2>4. CASE Codecs
    <3>1. opStep' = [opStep EXCEPT ![e] = "codecs"] /\ opPlayer' = e /\ UNCHANGED <<opFallback, opReady>>
      BY <1>3, <2>4 DEF OpInitDecoder
    <3>2. OpDecodeShape'
      BY <1>0, <2>1, <2>3, <3>1 DEF OpDecodeShape
    <3>3. OpDecodes'
      BY <2>2, <2>3, <3>1 DEF OpDecodes, OpDecodeShape
    <3>4. OpPlays'
      BY <2>3, <3>1 DEF OpPlays, OpDecodeShape
    <3> QED
      BY <1>2, <3>2, <3>3, <3>4
  <2>5. CASE ~Codecs
    <3>1. OpEnterWasm(e)
      BY <1>3, <2>5 DEF OpInitDecoder
    <3> QED
      BY <1>2, <2>1, <2>2, <2>3, <3>1, EnterWasmKeeps
  <2> QED
    BY <2>4, <2>5
<1>4. CASE OpCodecs(e, yes)
  <2>1. opStep[e] = "codecs" /\ UNCHANGED <<opFreed, wfTried, wfInstance, wfHeap, opOverlap, opOrphan>>
    BY <1>4 DEF OpCodecs
  <2>2. CASE yes
    <3>1. /\ opStep' = [opStep EXCEPT ![e] = "over"]
          /\ opDecoder' = TRUE /\ opReady' = TRUE /\ opFallback' = FALSE /\ UNCHANGED opPlayer
      BY <1>4, <2>2 DEF OpCodecs
    <3>2. OpDecodeShape'
      BY <2>1, <3>1 DEF OpDecodeShape
    <3>3. OpDecodes'
      BY <2>1, <3>1 DEF OpDecodes, OpDecodeShape
    <3>4. OpPlays'
      BY <2>1, <3>1 DEF OpPlays, OpDecodeShape
    <3> QED
      BY <1>2, <3>2, <3>3, <3>4
  <2>3. CASE ~yes
    <3>1. OpEnterWasm(e) /\ UNCHANGED opDecoder
      BY <1>4, <2>3 DEF OpCodecs
    <3>2. opOverlap' \in BOOLEAN /\ (opOverlap => opOverlap') /\ opOrphan' = opOrphan
          /\ (~opOverlap' => \A f \in OpEngines \ {e} : opStep[f] \notin {"codecs", "wasm"})
          /\ (opOrphan \/ e \notin opFreed)
      BY <2>1 DEF OpDecodes, OpDecodeShape, OpPlays
    <3> QED
      BY <1>2, <2>1, <3>1, <3>2, EnterWasmKeeps
  <2> QED
    BY <2>2, <2>3
<1>5. CASE OpWasm(e, yes)
  <2>1. /\ opStep[e] = "wasm" /\ opStep' = [opStep EXCEPT ![e] = "over"] /\ wfTried' = TRUE
        /\ UNCHANGED <<opFreed, opPlayer, opDecoder, opOverlap, opOrphan>>
    BY <1>5 DEF OpWasm
  <2>2. CASE yes
    <3>1. /\ wfInstance' = e /\ wfHeap' = IF wfHeap = 0 THEN e ELSE wfHeap
          /\ opFallback' = TRUE /\ opReady' = TRUE
      BY <1>5, <2>2 DEF OpWasm
    <3>2. OpDecodeShape'
      BY <1>0, <2>1, <3>1 DEF OpDecodeShape
    <3>3. OpDecodes'
      BY <1>0, <2>1, <3>1, OpusAssumption DEF OpDecodes, OpDecodeShape, OpEngines
    <3>4. OpPlays'
      BY <2>1, <3>1 DEF OpPlays, OpDecodeShape
    <3> QED
      BY <1>2, <3>2, <3>3, <3>4
  <2>3. CASE ~yes
    <3>1. UNCHANGED <<wfInstance, wfHeap, opFallback, opReady>>
      BY <1>5, <2>3 DEF OpWasm
    <3>2. OpDecodeShape'
      BY <2>1, <3>1 DEF OpDecodeShape
    <3>3. OpDecodes'
      BY <2>1, <3>1 DEF OpDecodes, OpDecodeShape
    <3>4. OpPlays'
      BY <2>1, <3>1 DEF OpPlays, OpDecodeShape
    <3> QED
      BY <1>2, <3>2, <3>3, <3>4
  <2> QED
    BY <2>2, <2>3
<1> QED
  BY <1>3, <1>4, <1>5

\* destroy() by any engine.
LEMMA DestroyKeeps ==
    ASSUME OpInv, NEW players \in SUBSET OpEngines, OpDestroy(players)
    PROVE  OpInv'
<1> USE DEF OpInv
<1>1. /\ opFreed' = opFreed \union players
      /\ opFallback' = FALSE /\ opPlayer' = 0 /\ opDecoder' = FALSE
      /\ opTx' = FALSE /\ opWs' = "closed" /\ opPending' = <<>> /\ opInside' = <<>>
      /\ opEncoder' = "none" /\ opPart' = 0
      /\ UNCHANGED <<opStep, opAsked, opFrame, opOld, opSent>>
  BY DEF OpDestroy
<1>2. opOverlap' \in BOOLEAN /\ (opOverlap' <=> opOverlap \/ OpWaiting # {}) /\ opReady' \in BOOLEAN
  BY Zenon DEF OpDestroy
<1>3. \/ wfTried' = FALSE /\ wfInstance' = 0 /\ wfHeap' = 0
      \/ UNCHANGED <<wfTried, wfInstance, wfHeap>>
  BY DEF OpDestroy
<1>8. opOrphan' \in BOOLEAN /\ (opOrphan' <=> opOrphan \/ players \cap OpWaiting # {})
  BY Zenon DEF OpDestroy
<1>4. ~opOverlap' => ~opOverlap /\ \A f \in OpEngines : opStep[f] \notin {"codecs", "wasm"}
  BY <1>2 DEF OpWaiting
<1>5. OpDecodeShape'
  <2>1. 0 \in 0 .. MaxOpEngines
    BY OpusAssumption
  <2>2. wfTried' \in BOOLEAN /\ wfInstance' \in 0 .. MaxOpEngines /\ wfHeap' \in 0 .. MaxOpEngines
    BY <1>3, <2>1, Zenon DEF OpDecodeShape
  <2>3. opDecoder' \in BOOLEAN /\ opFallback' \in BOOLEAN
    BY <1>1, Zenon
  <2>4. opFreed' \subseteq OpEngines /\ opPlayer' \in 0 .. MaxOpEngines
        /\ opStep' \in [OpEngines -> {"none", "codecs", "wasm", "over"}]
    BY <1>1, <2>1 DEF OpDecodeShape
  <2> QED
    BY <1>2, <1>8, <2>2, <2>3, <2>4 DEF OpDecodeShape
<1>6. OpEncodeShape' /\ OpEncodes' /\ OpNumbers'
  <2>1. opPending' \in Seq(1 .. MaxOpFrames) /\ opInside' \in Seq(1 .. MaxOpFrames)
    BY <1>1
  <2>2. opTx' \in BOOLEAN /\ opSlipped' \in BOOLEAN /\ (opSlipped' <=> opOld # <<>>)
    BY Zenon DEF OpDestroy
  <2>3. opPart' \in 0 .. OpChunk - 1
    BY <1>1, OpusAssumption
  <2>4. OpEncodeShape'
    BY <1>1, <2>1, <2>2, <2>3 DEF OpEncodeShape
  <2>5. OpEncodes' /\ OpNumbers'
    BY <1>1, <2>2 DEF OpEncodes, OpNumbers
  <2> QED
    BY <2>4, <2>5
<1>7. OpDecodes'
  BY <1>1, <1>3, <1>4 DEF OpDecodes
<1>9. OpPlays'
  <2>1. 0 \notin opFreed'
    BY <1>1 DEF OpDecodeShape, OpEngines
  <2>2. ~opOrphan' => \A f \in players : opStep[f] \notin {"codecs", "wasm"}
    BY <1>8 DEF OpWaiting
  <2> QED
    BY <1>1, <1>8, <2>1, <2>2 DEF OpPlays
<1> QED
  BY <1>5, <1>6, <1>7, <1>9

\* The chunks a call completes, and what is left over.
LEMMA ChunksAre ==
    ASSUME NEW part \in Nat, NEW samples \in Nat, NEW size \in Nat \ {0}
    PROVE  /\ (part + samples) \div size \in Nat
           /\ (part + samples) % size \in 0 .. size - 1
BY SMT

\* A call that completes n chunks numbers all of them alike; one is as appended.
LEMMA NumberedIs ==
    ASSUME NEW S, NEW x \in S, NEW n \in Nat, NEW s \in Seq(S)
    PROVE  /\ s \o [k \in 1 .. n |-> x] \in Seq(S)
           /\ n = 1 => s \o [k \in 1 .. n |-> x] = Append(s, x)
<1>1. [k \in 1 .. n |-> x] \in [1 .. n -> S]
  OBVIOUS
<1>2. [k \in 1 .. n |-> x] \in Seq(S)
  BY <1>1
<1>3. n = 1 => [k \in 1 .. n |-> x] = <<x>>
  OBVIOUS
<1> QED
  BY <1>2, <1>3

\* What appending and taking the head do to a sequence of numbers.
LEMMA OneMoreWaits ==
    ASSUME NEW S, NEW s \in Seq(S), NEW x \in S
    PROVE  /\ Append(s, x) \in Seq(S)
           /\ Len(Append(s, x)) = Len(s) + 1 /\ Append(s, x)[Len(s) + 1] = x /\ Len(s) \in Nat
           /\ \A k \in 1 .. Len(s) : Append(s, x)[k] = s[k] /\ s[k] \in S
OBVIOUS

LEMMA OneLessWaits ==
    ASSUME NEW S, NEW s \in Seq(S), s # <<>>
    PROVE  /\ Tail(s) \in Seq(S) /\ Head(s) = s[1] /\ s[1] \in S
           /\ Len(Tail(s)) = Len(s) - 1 /\ Len(s) \in Nat \ {0}
           /\ \A k \in 1 .. Len(s) - 1 : Tail(s)[k] = s[k + 1]
           /\ \A k \in 1 .. Len(s) : s[k] \in S
OBVIOUS

\* One more number at the end, or one less at the front.
LEMMA NumberWaits ==
    ASSUME OpEncodeShape, OpNumbers, OpCounted, opPending' = Append(opPending, opFrame'), opSent' = opSent
    PROVE  /\ opFrame' \in 1 .. MaxOpFrames /\ opPending' \in Seq(1 .. MaxOpFrames)
           /\ OpNumbers'
<1>1. opFrame' = opFrame + 1 /\ opFrame' \in 1 .. MaxOpFrames /\ opFrame \in Nat /\ opSent \in Nat
  BY OpusAssumption DEF OpCounted, OpEncodeShape
<1>2. /\ Len(opPending') = Len(opPending) + 1 /\ opPending'[Len(opPending) + 1] = opFrame'
      /\ \A k \in 1 .. Len(opPending) : opPending'[k] = opPending[k] /\ opPending[k] \in Nat
      /\ Len(opPending) \in Nat /\ opPending' \in Seq(1 .. MaxOpFrames)
  <2>1. opPending \in Seq(1 .. MaxOpFrames)
    BY DEF OpEncodeShape
  <2>2. PICK x \in 1 .. MaxOpFrames : x = opFrame'
    BY <1>1
  <2>3. /\ Append(opPending, x) \in Seq(1 .. MaxOpFrames)
        /\ Len(Append(opPending, x)) = Len(opPending) + 1 /\ Append(opPending, x)[Len(opPending) + 1] = x
        /\ Len(opPending) \in Nat
        /\ \A k \in 1 .. Len(opPending) :
              Append(opPending, x)[k] = opPending[k] /\ opPending[k] \in 1 .. MaxOpFrames
    BY <2>1, OneMoreWaits, Zenon
  <2>4. opPending' = Append(opPending, x)
    BY <2>2
  <2> QED
    BY <2>2, <2>3, <2>4
<1>3. opPending' \in Seq(1 .. MaxOpFrames)
  BY <1>2
<1>4. ASSUME NEW k \in 1 .. Len(opPending')
      PROVE  /\ opSent' < opPending'[k] /\ opPending'[k] <= opFrame'
             /\ \A j \in 1 .. k - 1 : opPending'[j] < opPending'[k]
  <2>1. CASE k = Len(opPending) + 1
    BY <1>1, <1>2, <2>1 DEF OpNumbers
  <2>2. CASE k \in 1 .. Len(opPending)
    BY <1>1, <1>2, <2>2 DEF OpNumbers
  <2> QED
    BY <1>2, <2>1, <2>2
<1>5. opSent' <= opFrame'
  BY <1>1 DEF OpNumbers
<1> QED
  BY <1>1, <1>3, <1>4, <1>5 DEF OpNumbers

LEMMA NumberTaken ==
    ASSUME OpEncodeShape, OpNumbers, opPending # <<>>, opFrame' = opFrame,
           opPending' = Tail(opPending), opSent' = Head(opPending)
    PROVE  /\ opPending' \in Seq(1 .. MaxOpFrames) /\ opSent' \in 0 .. MaxOpFrames
           /\ OpNumbers'
<1>1. /\ Len(opPending') = Len(opPending) - 1 /\ opSent' = opPending[1] /\ Len(opPending) \in Nat \ {0}
      /\ \A k \in 1 .. Len(opPending) - 1 : opPending'[k] = opPending[k + 1]
      /\ \A k \in 1 .. Len(opPending) : opPending[k] \in 1 .. MaxOpFrames
      /\ opPending' \in Seq(1 .. MaxOpFrames)
  <2>1. opPending \in Seq(1 .. MaxOpFrames)
    BY DEF OpEncodeShape
  <2> QED
    BY <2>1, OneLessWaits
<1>2. opPending' \in Seq(1 .. MaxOpFrames) /\ opSent' \in 0 .. MaxOpFrames
  BY <1>1
<1>3. ASSUME NEW k \in 1 .. Len(opPending')
      PROVE  /\ opSent' < opPending'[k] /\ opPending'[k] <= opFrame'
             /\ \A j \in 1 .. k - 1 : opPending'[j] < opPending'[k]
  <2>1. k + 1 \in 1 .. Len(opPending) /\ opPending'[k] = opPending[k + 1] /\ 1 \in 1 .. (k + 1) - 1
    BY <1>1
  <2>2. \A j \in 1 .. k - 1 : j + 1 \in 1 .. (k + 1) - 1 /\ opPending'[j] = opPending[j + 1]
    BY <1>1
  <2> QED
    BY <1>1, <2>1, <2>2 DEF OpNumbers
<1>4. opSent' <= opFrame'
  BY <1>1 DEF OpNumbers
<1> QED
  BY <1>2, <1>3, <1>4 DEF OpNumbers

\* Encoding leaves the decoding half alone: what is asked for and made.
LEMMA EncoderKeeps ==
    ASSUME OpInv,
           \/ OpInitEncoder \/ OpSocket \/ OpEncoderBreaks \/ OpEncodeSkipped
           \/ \E yes \in BOOLEAN : OpEncoderAsked(yes)
    PROVE  OpInv'
<1> USE DEF OpInv
<1>1. UNCHANGED opDecodeVars
  BY DEF OpInitEncoder, OpSocket, OpEncoderBreaks, OpEncodeSkipped, OpEncoderAsked
<1>2. OpDecodeShape' /\ OpPlays' /\ OpDecodes'
  BY <1>1 DEF opDecodeVars, OpDecodeShape, OpPlays, OpDecodes
<1>3. CASE OpInitEncoder
  <2>1. opAsked' \in 0 .. MaxOpAsks
    BY <1>3, OpusAssumption DEF OpInitEncoder, OpEncodeShape
  <2>2. opTx' \in BOOLEAN /\ opWs' \in {"connecting", "open", "closed"}
        /\ UNCHANGED <<opEncoder, opFrame, opPending, opPart, opInside, opOld, opSent, opSlipped>>
    BY <1>3 DEF OpInitEncoder, opCoding
  <2> QED
    BY <1>2, <2>1, <2>2 DEF OpEncodeShape, OpEncodes, OpNumbers
<1>4. CASE OpSocket
  BY <1>2, <1>4 DEF OpSocket, opCoding, OpEncodeShape, OpEncodes, OpNumbers
<1>5. CASE OpEncoderBreaks
  <2>1. /\ opEncoder' = "broken" /\ opPart' = 0 /\ opInside' = <<>>
        /\ UNCHANGED <<opAsked, opTx, opWs, opFrame, opPending, opOld, opSent>>
    BY <1>5 DEF OpEncoderBreaks
  <2>2. opSlipped' \in BOOLEAN /\ (opSlipped' <=> opSlipped \/ opInside # <<>>)
    BY <1>5, Zenon DEF OpEncoderBreaks
  <2>3. opPart' \in 0 .. OpChunk - 1 /\ opInside' \in Seq(1 .. MaxOpFrames)
    BY <2>1, OpusAssumption
  <2>4. OpEncodeShape'
    BY <2>1, <2>2, <2>3 DEF OpEncodeShape
  <2>5. OpEncodes' /\ OpNumbers'
    BY <2>1, <2>2 DEF OpEncodes, OpNumbers
  <2> QED
    BY <1>2, <2>4, <2>5
<1>6. CASE OpEncodeSkipped
  <2>1. /\ opFrame' = opFrame + 1 /\ opFrame < MaxOpFrames
        /\ UNCHANGED <<opAsked, opEncoder, opTx, opWs, opPending, opPart, opInside, opOld, opSent, opSlipped>>
    BY <1>6 DEF OpEncodeSkipped, OpCounted, opCoding
  <2>2. OpEncodeShape' /\ OpEncodes'
    BY <2>1, OpusAssumption DEF OpEncodeShape, OpEncodes
  <2>3. \A k \in 1 .. Len(opPending) : opPending[k] \in Nat
    <3>1. opPending \in Seq(1 .. MaxOpFrames) /\ 1 .. MaxOpFrames \subseteq Nat
      BY DEF OpEncodeShape
    <3>2. \A k \in 1 .. Len(opPending) : opPending[k] \in 1 .. MaxOpFrames
      BY <3>1, OneMoreWaits, <2>1, OpusAssumption DEF OpEncodeShape
    <3> QED
      BY <3>1, <3>2
  <2>4. OpNumbers'
    BY <2>1, <2>3 DEF OpEncodeShape, OpNumbers
  <2> QED
    BY <1>2, <2>2, <2>4
<1>7. ASSUME NEW yes \in BOOLEAN, OpEncoderAsked(yes) PROVE OpInv'
  <2>1. opAsked' = opAsked - 1 /\ opAsked > 0 /\ UNCHANGED <<opTx, opWs, opFrame, opPending, opSent>>
    BY <1>7 DEF OpEncoderAsked
  <2>2. opAsked' \in 0 .. MaxOpAsks
    BY <2>1, OpusAssumption DEF OpEncodeShape
  <2>3. OpNumbers'
    BY <2>1 DEF OpNumbers
  <2>4. CASE yes
    <3>1. opEncoder' = "ready" /\ opPart' = 0 /\ opInside' = <<>> /\ opOld' = opOld \o opInside
      BY <1>7, <2>4 DEF OpEncoderAsked
    <3>2. opSlipped' \in BOOLEAN /\ (opSlipped' <=> opSlipped \/ opInside # <<>>)
      BY <1>7, <2>4, Zenon DEF OpEncoderAsked
    <3>3. /\ opPart' \in 0 .. OpChunk - 1 /\ opInside' \in Seq(1 .. MaxOpFrames)
          /\ opOld' \in Seq(1 .. MaxOpFrames) /\ (opInside = <<>> => opOld' = opOld)
      BY <3>1, OpusAssumption DEF OpEncodeShape
    <3>4. OpEncodeShape'
      BY <2>1, <2>2, <3>1, <3>2, <3>3 DEF OpEncodeShape
    <3>5. OpEncodes'
      BY <2>1, <3>1, <3>2, <3>3 DEF OpEncodes
    <3> QED
      BY <1>2, <2>3, <3>4, <3>5
  <2>5. CASE ~yes
    BY <1>2, <1>7, <2>1, <2>2, <2>3, <2>5 DEF OpEncoderAsked, OpEncodeShape, OpEncodes
  <2> QED
    BY <2>4, <2>5
<1> QED
  BY <1>3, <1>4, <1>5, <1>6, <1>7

\* The calls of the transmitter and the output.
LEMMA CodingKeeps ==
    ASSUME OpInv,
           OpEncodeThrows \/ OpEncoded \/ \E samples \in OpCalls : OpEncode(samples)
    PROVE  OpInv'
<1> USE DEF OpInv
<1>1. UNCHANGED opDecodeVars
  BY DEF OpEncode, OpEncodeThrows, OpEncoded
<1>2. OpDecodeShape' /\ OpPlays' /\ OpDecodes'
  BY <1>1 DEF opDecodeVars, OpDecodeShape, OpPlays, OpDecodes
<1>3. ASSUME NEW samples \in OpCalls, OpEncode(samples) PROVE OpInv'
  <2> DEFINE chunks == (opPart + samples) \div OpChunk
  <2>1. /\ OpCounted /\ opPending' = Append(opPending, opFrame') /\ opSent' = opSent
        /\ UNCHANGED <<opAsked, opEncoder, opTx, opWs, opOld>>
        /\ opPart' = (opPart + samples) % OpChunk
        /\ opInside' = opInside \o [k \in 1 .. chunks |-> opFrame']
    BY <1>3 DEF OpEncode
  <2>2. opSlipped' \in BOOLEAN /\ (opSlipped' <=> opSlipped \/ chunks # 1)
    BY <1>3, Zenon DEF OpEncode
  <2>3. opPart \in Nat /\ samples \in Nat /\ OpChunk \in Nat \ {0}
    BY OpusAssumption DEF OpEncodeShape
  <2>4. chunks \in Nat /\ opPart' \in 0 .. OpChunk - 1
    BY <2>1, <2>3, ChunksAre
  <2> HIDE DEF chunks
  <2>5. opFrame' \in 1 .. MaxOpFrames /\ opPending' \in Seq(1 .. MaxOpFrames) /\ OpNumbers'
    BY <2>1, NumberWaits
  <2>6. opInside \in Seq(1 .. MaxOpFrames)
    BY DEF OpEncodeShape
  <2>7. /\ opInside' \in Seq(1 .. MaxOpFrames)
        /\ chunks = 1 => opInside' = Append(opInside, opFrame')
    BY <2>1, <2>4, <2>5, <2>6, NumberedIs
  <2>8. opFrame' \in 0 .. MaxOpFrames
    BY <2>5
  <2>9. OpEncodeShape'
    BY <2>1, <2>2, <2>4, <2>5, <2>7, <2>8 DEF OpEncodeShape
  <2>10. OpEncodes'
    BY <2>1, <2>2, <2>7 DEF OpEncodes
  <2> QED
    BY <1>2, <2>5, <2>9, <2>10
<1>4. CASE OpEncodeThrows
  <2>1. /\ OpCounted /\ opPending' = Append(opPending, opFrame') /\ opSent' = opSent /\ opSlipped' = TRUE
        /\ UNCHANGED <<opAsked, opEncoder, opTx, opWs, opPart, opInside, opOld>>
    BY <1>4 DEF OpEncodeThrows
  <2>2. opFrame' \in 1 .. MaxOpFrames /\ opPending' \in Seq(1 .. MaxOpFrames) /\ OpNumbers'
    BY <2>1, NumberWaits
  <2>3. opFrame' \in 0 .. MaxOpFrames
    BY <2>2
  <2> QED
    BY <1>2, <2>1, <2>2, <2>3 DEF OpEncodeShape, OpEncodes
<1>5. CASE OpEncoded
  <2>1. UNCHANGED <<opAsked, opEncoder, opTx, opWs, opFrame, opPart>>
    BY <1>5 DEF OpEncoded
  <2>2. \/ opInside # <<>> /\ opInside' = Tail(opInside) /\ opOld' = opOld
        \/ opOld # <<>> /\ opOld' = Tail(opOld) /\ opInside' = opInside
    BY <1>5 DEF OpEncoded
  <2>3. opInside' \in Seq(1 .. MaxOpFrames) /\ opOld' \in Seq(1 .. MaxOpFrames)
    <3>1. opInside \in Seq(1 .. MaxOpFrames) /\ opOld \in Seq(1 .. MaxOpFrames)
      BY DEF OpEncodeShape
    <3>2. /\ opInside # <<>> => Tail(opInside) \in Seq(1 .. MaxOpFrames)
          /\ opOld # <<>> => Tail(opOld) \in Seq(1 .. MaxOpFrames)
      BY <3>1, OneLessWaits, Zenon
    <3> QED
      BY <2>2, <3>1, <3>2
  <2>4. CASE ~(opTx /\ opWs = "open")
    <3>1. opSlipped' = TRUE /\ UNCHANGED <<opPending, opSent>>
      BY <1>5, <2>4 DEF OpEncoded
    <3> QED
      BY <1>2, <2>1, <2>3, <3>1 DEF OpEncodeShape, OpEncodes, OpNumbers
  <2>5. CASE opTx /\ opWs = "open" /\ opPending = <<>>
    <3>1. UNCHANGED <<opPending, opSent, opSlipped>>
      BY <1>5, <2>5 DEF OpEncoded
    <3>2. opSlipped
      BY <2>2, <2>5 DEF OpEncodes
    <3> QED
      BY <1>2, <2>1, <2>3, <3>1, <3>2 DEF OpEncodeShape, OpEncodes, OpNumbers
  <2>6. CASE opTx /\ opWs = "open" /\ opPending # <<>>
    <3>1. opPending' = Tail(opPending) /\ opSent' = Head(opPending) /\ UNCHANGED opSlipped
      BY <1>5, <2>6 DEF OpEncoded
    <3>2. opPending' \in Seq(1 .. MaxOpFrames) /\ opSent' \in 0 .. MaxOpFrames /\ OpNumbers'
      BY <2>1, <2>6, <3>1, NumberTaken
    <3>3. OpEncodeShape'
      BY <2>1, <2>3, <3>1, <3>2 DEF OpEncodeShape
    <3>4. OpEncodes'
      BY <2>2, <3>1 DEF OpEncodes
    <3> QED
      BY <1>2, <3>2, <3>3, <3>4
  <2> QED
    BY <2>4, <2>5, <2>6
<1> QED
  BY <1>3, <1>4, <1>5

\* The inductive invariant of the bridge, for any number of engines and frames
\* (initDecoder, initWasmFallback, destroy, on_opus_encode).
THEOREM OpusInvariant == OpSpec => []OpInv
<1>1. OpInit => OpInv
  <2> SUFFICES ASSUME OpInit PROVE OpInv
    OBVIOUS
  <2>1. opPending \in Seq(1 .. MaxOpFrames) /\ opInside \in Seq(1 .. MaxOpFrames)
        /\ opOld \in Seq(1 .. MaxOpFrames)
    BY DEF OpInit
  <2>5. 0 \in 0 .. MaxOpFrames /\ 0 \in 0 .. MaxOpEngines /\ 0 \in 0 .. MaxOpAsks /\ 0 \in 0 .. OpChunk - 1
    BY OpusAssumption
  <2>6. opTx \in BOOLEAN /\ opSlipped \in BOOLEAN /\ opDecoder \in BOOLEAN /\ opReady \in BOOLEAN
        /\ opFallback \in BOOLEAN /\ wfTried \in BOOLEAN /\ opOverlap \in BOOLEAN
        /\ opOrphan \in BOOLEAN
    BY Zenon DEF OpInit
  <2>7. /\ opEncoder = "none" /\ opWs = "closed" /\ opFrame = 0 /\ opPending = opInside
        /\ opSent = 0 /\ opOld = <<>> /\ opAsked = 0 /\ opPart = 0 /\ opPending = <<>>
        /\ opStep = [e \in OpEngines |-> "none"] /\ opFreed = {} /\ opPlayer = 0
        /\ wfInstance = 0 /\ wfHeap = 0
    BY DEF OpInit
  <2>2. OpEncodeShape /\ OpEncodes /\ OpNumbers
    BY <2>1, <2>5, <2>6, <2>7 DEF OpEncodeShape, OpEncodes, OpNumbers
  <2>3. OpDecodeShape
    BY <2>5, <2>6, <2>7 DEF OpDecodeShape
  <2>4. OpDecodes /\ OpPlays
    BY DEF OpInit, OpDecodes, OpPlays
  <2> QED
    BY <2>2, <2>3, <2>4 DEF OpInv
<1>2. OpInv /\ [OpNext]_opVars => OpInv'
  <2> SUFFICES ASSUME OpInv, [OpNext]_opVars PROVE OpInv'
    OBVIOUS
  <2>1. CASE UNCHANGED opVars
    BY <2>1 DEF opVars, opDecodeVars, opEncodeVars, opCoding, OpInv, OpDecodeShape, OpEncodeShape,
                OpPlays, OpDecodes, OpEncodes, OpNumbers
  <2>2. CASE OpDestroy({})
    BY <2>2, DestroyKeeps
  <2>3. ASSUME NEW e \in OpEngines, OpDestroy({e}) PROVE OpInv'
    BY <2>3, DestroyKeeps
  <2>4. ASSUME NEW e \in OpEngines, OpInitDecoder(e) PROVE OpInv'
    BY <2>4, DecoderKeeps
  <2> QED
    BY <2>1, <2>2, <2>3, <2>4, DecoderKeeps, EncoderKeeps, CodingKeeps
       DEF OpNext, OpDecodeNext, OpEncodeNext, OpDestroyNext
<1> QED
  BY <1>1, <1>2, PTL DEF OpSpec

\* Unless an engine is destroyed during its own initDecoder(), the bridge never
\* pushes into a freed player; while none comes or goes during another one's, it
\* decodes through its own module's buffers; its packets are numbered once each
\* and upwards, and as their chunks while none was lost, dropped or completed by
\* another number of calls (OpusSound); and the types.
THEOREM OpusKeepsSound == OpSpec => [](OpTypeOK /\ OpusSound)
BY OpusInvariant, OpusCovers, PTL

-----------------------------------------------------------------------------
(* The SDK in several files.  Connections: those that may still speak, how  *)
(* the client's state follows its own connection's, and which of them beat. *)

SdkLinksShape ==
    /\ sdkState \in {"disconnected", "connecting", "connected", "error"}
    /\ sdkLink \in 0 .. MaxSdkLinks /\ sdkLate \in BOOLEAN
    /\ lnWs \in [SdkLinks -> {"none", "connecting", "open", "failing", "closing", "closed"}]
    /\ lnState \in [SdkLinks -> {"disconnected", "connecting", "connected", "error"}]
    /\ lnBeat \subseteq SdkLinks /\ lnMute \subseteq SdkLinks
    /\ sdkLink # 0 => lnWs[sdkLink] # "none"
    /\ \A c \in lnMute : lnWs[c] # "none"

SdkFollows ==
    ~sdkLate =>
        /\ \A c \in SdkLinks : lnWs[c] \in {"connecting", "open"} => c = sdkLink
        /\ sdkLink = 0 => sdkState = "disconnected"
        /\ sdkLink # 0 =>
              /\ sdkState = lnState[sdkLink] /\ sdkLink \notin lnMute
              /\ lnWs[sdkLink] \in {"connecting", "open", "closing", "closed"}
              /\ lnWs[sdkLink] = "connecting" <=> lnState[sdkLink] = "connecting"
              /\ lnWs[sdkLink] = "open" <=> lnState[sdkLink] = "connected"
        /\ \A c \in lnBeat : lnWs[c] \in {"open", "closing"} /\ c \notin lnMute

SdkLinksInv == SdkLinksShape /\ SdkFollows

\* The player: only a context that is there decodes, and the plan is what
\* SdkPlaysOn says of it.
SdkPlayShape ==
    /\ sdkPlayer \in BOOLEAN /\ sdkStray \in BOOLEAN
    /\ sdkClock \in 0 .. MaxSdkTime /\ sdkNext \in 0 .. MaxSdkTime
    /\ sdkPlan \in [Units -> Nat]
    /\ sdkDecodes \in 0 .. MaxDecodes /\ sdkGone \subseteq 0 .. MaxSdkTime

SdkPlayInv ==
    /\ SdkPlayShape
    /\ sdkDecodes > 0 => sdkPlayer
    /\ SdkPlaysOn

SdkInv == SdkLinksInv /\ SdkPlayInv

\* The invariant covers what the runs check.
LEMMA SdkCovers == SdkInv => SdkTypeOK /\ SdkOwnsConnection /\ SdkPlaysOn
<1> SUFFICES ASSUME SdkInv PROVE SdkTypeOK /\ SdkOwnsConnection /\ SdkPlaysOn
  OBVIOUS
<1>1. SdkTypeOK
  BY DEF SdkInv, SdkLinksInv, SdkLinksShape, SdkPlayInv, SdkPlayShape, SdkTypeOK
<1>2. SdkOwnsConnection
  BY DEF SdkInv, SdkLinksInv, SdkLinksShape, SdkFollows, SdkOwnsConnection
<1> QED
  BY <1>1, <1>2 DEF SdkInv, SdkPlayInv

\* Making a connection, over sockets none of which is live.
LEMMA MadeKeeps ==
    ASSUME SdkLinksShape,
           NEW sockets \in [SdkLinks -> {"none", "connecting", "open", "failing", "closing", "closed"}],
           NEW states \in [SdkLinks -> {"disconnected", "connecting", "connected", "error"}],
           SdkMade(sockets, states),
           lnBeat' \subseteq SdkLinks, lnMute' \subseteq SdkLinks, sdkLate' \in BOOLEAN,
           \A c \in lnMute' : sockets[c] # "none",
           ~sdkLate' => /\ \A c \in SdkLinks : sockets[c] \notin {"connecting", "open"}
                        /\ \A c \in lnBeat' : sockets[c] \in {"open", "closing"} /\ c \notin lnMute'
    PROVE  SdkLinksInv'
<1>1. PICK c \in SdkLinks :
        /\ \A b \in SdkLinks : sockets[b] = "none" <=> b >= c
        /\ lnWs' = [sockets EXCEPT ![c] = "connecting"]
        /\ lnState' = [states EXCEPT ![c] = "connecting"]
        /\ sdkLink' = c /\ sdkState' = "connecting"
  BY DEF SdkMade
<1>2. c \in Nat /\ c # 0 /\ c \in 0 .. MaxSdkLinks /\ sockets[c] = "none"
  BY <1>1, SdkAssumption DEF SdkLinks
<1>3. c \notin lnMute'
  BY <1>2
<1>4. SdkLinksShape'
  BY <1>1, <1>2 DEF SdkLinksShape
<1>5. SdkFollows'
  BY <1>1, <1>2, <1>3 DEF SdkFollows
<1> QED
  BY <1>4, <1>5 DEF SdkLinksInv

\* A connection's own state changes, with its socket and its heartbeat.
LEMMA SdkEventKeeps ==
    ASSUME SdkLinksInv, NEW c \in SdkLinks, NEW state \in {"disconnected", "connected", "error"},
           NEW ws \in {"open", "closing", "closed"}, state = "connected" <=> ws = "open",
           LinkState(c, state), UNCHANGED <<sdkLink, lnMute>>,
           lnWs[c] # "none", ws = "open" => lnWs[c] = "connecting",
           lnWs' = [lnWs EXCEPT ![c] = ws],
           lnBeat' \subseteq SdkLinks, \A b \in lnBeat' : b # c => b \in lnBeat,
           c \in lnBeat' /\ ~sdkLate => ws \in {"open", "closing"} /\ c \notin lnMute
    PROVE  SdkLinksInv'
<1>1. /\ lnState' = [lnState EXCEPT ![c] = state]
      /\ lnState[c] = state => UNCHANGED <<sdkState, sdkLate>>
      /\ lnState[c] # state => sdkState' = state /\ sdkLate' = (sdkLate \/ c # sdkLink)
  BY DEF LinkState
<1>2. sdkLate' \in BOOLEAN /\ (sdkLate => sdkLate')
      /\ (~sdkLate' => ~sdkLate /\ (lnState[c] = state \/ c = sdkLink))
  <2>1. sdkLate \in BOOLEAN
    BY DEF SdkLinksInv, SdkLinksShape
  <2>2. CASE lnState[c] = state
    BY <1>1, <2>1, <2>2
  <2>3. CASE lnState[c] # state
    BY <1>1, <2>1, <2>3, Zenon
  <2> QED
    BY <2>2, <2>3
<1>3. sdkState' \in {"disconnected", "connecting", "connected", "error"}
  BY <1>1 DEF SdkLinksInv, SdkLinksShape
<1>4. SdkLinksShape'
  BY <1>1, <1>2, <1>3 DEF SdkLinksInv, SdkLinksShape
<1>5. SdkFollows'
  <2> SUFFICES ASSUME ~sdkLate' PROVE SdkFollows'
    BY DEF SdkFollows
  <2>1. ~sdkLate /\ (lnState[c] = state \/ c = sdkLink)
    BY <1>2
  <2>2. \A b \in SdkLinks : lnWs'[b] \in {"connecting", "open"} => b = sdkLink
    BY <2>1 DEF SdkLinksInv, SdkLinksShape, SdkFollows
  <2>3. \A b \in lnBeat' : lnWs'[b] \in {"open", "closing"} /\ b \notin lnMute
    BY <2>1 DEF SdkLinksInv, SdkLinksShape, SdkFollows
  <2>4. CASE c = sdkLink
    <3>1. sdkLink # 0
      BY <2>4 DEF SdkLinks
    <3>2. sdkState' = state /\ lnState'[sdkLink] = state /\ lnWs'[sdkLink] = ws
      BY <1>1, <2>1, <2>4, <3>1 DEF SdkLinksInv, SdkLinksShape, SdkFollows
    <3>3. sdkLink \notin lnMute
      BY <2>1, <3>1 DEF SdkLinksInv, SdkFollows
    <3> QED
      BY <2>2, <2>3, <3>1, <3>2, <3>3 DEF SdkFollows
  <2>5. CASE c # sdkLink
    <3>1. sdkState' = sdkState
      BY <1>1, <2>1, <2>5
    <3>2. sdkLink # 0 => sdkLink \in SdkLinks
      BY SdkAssumption DEF SdkLinksInv, SdkLinksShape, SdkLinks
    <3>3. sdkLink # 0 => lnState'[sdkLink] = lnState[sdkLink] /\ lnWs'[sdkLink] = lnWs[sdkLink]
      BY <1>1, <2>5, <3>2 DEF SdkLinksInv, SdkLinksShape
    <3> QED
      BY <2>1, <2>2, <2>3, <3>1, <3>3 DEF SdkLinksInv, SdkFollows
  <2> QED
    BY <2>4, <2>5
<1> QED
  BY <1>4, <1>5 DEF SdkLinksInv

\* Hanging up leaves none of the sockets live, as long as the state was the
\* current connection's.
LEMMA HungUp ==
    ASSUME SdkLinksInv
    PROVE  /\ SdkHungUp \in [SdkLinks -> {"none", "connecting", "open", "failing", "closing", "closed"}]
           /\ \A c \in SdkLinks : SdkHungUp[c] = "none" <=> lnWs[c] = "none"
           /\ \A c \in SdkLinks : c # sdkLink => SdkHungUp[c] = lnWs[c]
           /\ \A c \in SdkLinks : ~sdkLate => SdkHungUp[c] \notin {"connecting", "open"}
<1>1. /\ lnWs \in [SdkLinks -> {"none", "connecting", "open", "failing", "closing", "closed"}]
      /\ sdkLink # 0 => lnWs[sdkLink] # "none"
      /\ \A c \in SdkLinks : c # 0
  BY DEF SdkLinksInv, SdkLinksShape, SdkLinks
<1>2. ASSUME NEW c \in SdkLinks
      PROVE  /\ SdkHungUp[c] \in {"none", "connecting", "open", "failing", "closing", "closed"}
             /\ SdkHungUp[c] = "none" <=> lnWs[c] = "none"
             /\ c # sdkLink => SdkHungUp[c] = lnWs[c]
             /\ c = sdkLink => SdkHungUp[c] \in {"failing", "closing", "closed"}
  <2>1. SdkHungUp[c] = IF c # sdkLink \/ lnWs[c] = "closed" THEN lnWs[c]
                       ELSE IF lnWs[c] = "connecting" THEN "failing" ELSE "closing"
    BY DEF SdkHungUp
  <2> QED
    BY <1>1, <2>1
<1>3. SdkHungUp \in [SdkLinks -> {"none", "connecting", "open", "failing", "closing", "closed"}]
  <2>1. SdkHungUp = [c \in SdkLinks |-> SdkHungUp[c]]
    BY Zenon DEF SdkHungUp
  <2> QED
    BY <1>2, <2>1, Zenon
<1>4. ASSUME NEW c \in SdkLinks, ~sdkLate PROVE SdkHungUp[c] \notin {"connecting", "open"}
  <2>1. lnWs[c] \in {"connecting", "open"} => c = sdkLink
    BY <1>4 DEF SdkLinksInv, SdkFollows
  <2> QED
    BY <1>2, <2>1
<1> QED
  BY <1>2, <1>3, <1>4

\* disconnect() of a connection takes its timer and its onclose away.
LEMMA Cut ==
    ASSUME SdkLinksInv, SdkCut
    PROVE  /\ lnBeat' \subseteq SdkLinks /\ lnMute' \subseteq SdkLinks
           /\ \A c \in lnMute' : lnWs[c] # "none"
           /\ ~sdkLate => \A c \in lnBeat' : SdkHungUp[c] \in {"open", "closing"} /\ c \notin lnMute'
<1>1. lnBeat' = lnBeat \ {sdkLink} /\ lnMute' = lnMute \union ({sdkLink} \ {0})
  BY DEF SdkCut
<1>2. sdkLink # 0 => sdkLink \in SdkLinks
  BY SdkAssumption DEF SdkLinksInv, SdkLinksShape, SdkLinks
<1>3. \A c \in SdkLinks : c # sdkLink => SdkHungUp[c] = lnWs[c]
  BY HungUp
<1> QED
  BY <1>1, <1>2, <1>3 DEF SdkLinksInv, SdkLinksShape, SdkFollows

\* connect(), disconnect() and setChannel().
LEMMA ClientCallsKeep ==
    ASSUME SdkLinksInv, SdkConnect \/ SdkDisconnect \/ SdkSetChannel
    PROVE  SdkLinksInv'
<1> DEFINE gone == [c \in SdkLinks |-> IF c = sdkLink THEN "disconnected" ELSE lnState[c]]
<1>0. gone \in [SdkLinks -> {"disconnected", "connecting", "connected", "error"}]
  BY DEF SdkLinksInv, SdkLinksShape
<1>1. CASE SdkConnect
  <2>1. /\ sdkState \notin {"connected", "connecting"} /\ SdkMade(lnWs, lnState)
        /\ UNCHANGED <<lnBeat, lnMute, sdkLate>>
    BY <1>1 DEF SdkConnect
  <2>2. ~sdkLate => \A c \in SdkLinks : lnWs[c] \notin {"connecting", "open"}
    BY <2>1 DEF SdkLinksInv, SdkLinksShape, SdkFollows, SdkLinks
  <2>3. /\ lnBeat' \subseteq SdkLinks /\ lnMute' \subseteq SdkLinks /\ sdkLate' \in BOOLEAN
        /\ \A c \in lnMute' : lnWs[c] # "none"
    BY <2>1 DEF SdkLinksInv, SdkLinksShape
  <2>4. ~sdkLate' => \A c \in lnBeat' : lnWs[c] \in {"open", "closing"} /\ c \notin lnMute'
    BY <2>1 DEF SdkLinksInv, SdkFollows
  <2>5. /\ lnWs \in [SdkLinks -> {"none", "connecting", "open", "failing", "closing", "closed"}]
        /\ lnState \in [SdkLinks -> {"disconnected", "connecting", "connected", "error"}]
        /\ SdkLinksShape
    BY DEF SdkLinksInv, SdkLinksShape
  <2> QED
    BY <2>1, <2>2, <2>3, <2>4, <2>5, MadeKeeps
<1>2. CASE SdkDisconnect
  <2>1. /\ SdkCut /\ lnWs' = SdkHungUp /\ lnState' = gone /\ sdkLink' = 0
        /\ sdkState' = "disconnected" /\ UNCHANGED sdkLate
    BY <1>2 DEF SdkDisconnect
  <2> HIDE DEF gone
  <2>2. SdkLinksShape'
    BY <1>0, <2>1, Cut, HungUp, SdkAssumption DEF SdkLinksInv, SdkLinksShape
  <2>3. SdkFollows'
    BY <2>1, Cut, HungUp DEF SdkFollows
  <2> QED
    BY <2>2, <2>3 DEF SdkLinksInv
<1>3. CASE SdkSetChannel
  <2>1. SdkCut /\ SdkMade(SdkHungUp, gone) /\ UNCHANGED sdkLate
    BY <1>3 DEF SdkSetChannel
  <2> HIDE DEF gone
  <2>2. SdkLinksShape /\ sdkLate' \in BOOLEAN
    BY <2>1 DEF SdkLinksInv, SdkLinksShape
  <2>3. \A c \in lnMute' : SdkHungUp[c] # "none"
    BY <2>1, Cut, HungUp
  <2> QED
    BY <1>0, <2>1, <2>2, <2>3, Cut, HungUp, MadeKeeps
<1> QED
  BY <1>1, <1>2, <1>3

\* What a socket reports reaches the client through its connection.
LEMMA SocketEventsKeep ==
    ASSUME SdkLinksInv, NEW c \in SdkLinks, LinkOpen(c) \/ LinkError(c) \/ LinkClosed(c)
    PROVE  SdkLinksInv'
<1>0. c # 0 /\ lnBeat \subseteq SdkLinks /\ lnWs \in [SdkLinks -> {"none", "connecting", "open", "failing", "closing", "closed"}]
  BY DEF SdkLinks, SdkLinksInv, SdkLinksShape
<1>a. ~sdkLate => /\ lnWs[c] \in {"connecting", "open"} => c = sdkLink
                  /\ c = sdkLink => c \notin lnMute /\ lnWs[c] # "failing"
                  /\ c \in lnBeat => lnWs[c] \in {"open", "closing"} /\ c \notin lnMute
  BY <1>0 DEF SdkLinksInv, SdkFollows
<1>1. CASE LinkOpen(c)
  <2>1. /\ lnWs[c] = "connecting" /\ lnWs' = [lnWs EXCEPT ![c] = "open"] /\ LinkState(c, "connected")
        /\ lnBeat' = lnBeat \union {c} /\ UNCHANGED <<sdkLink, lnMute>>
    BY <1>1 DEF LinkOpen
  <2> QED
    BY <1>0, <1>a, <2>1, SdkEventKeeps
<1>2. CASE LinkError(c)
  <2>1. /\ lnWs[c] \in {"connecting", "open", "failing"} /\ lnWs' = [lnWs EXCEPT ![c] = "closing"]
        /\ LinkState(c, "error") /\ UNCHANGED <<sdkLink, lnBeat, lnMute>>
    BY <1>2 DEF LinkError
  <2> QED
    BY <1>0, <1>a, <2>1, SdkEventKeeps
<1>3. CASE LinkClosed(c) /\ c \notin lnMute
  <2>1. /\ lnWs[c] \in {"open", "closing"} /\ lnWs' = [lnWs EXCEPT ![c] = "closed"]
        /\ LinkState(c, "disconnected") /\ lnBeat' = lnBeat \ {c} /\ UNCHANGED <<sdkLink, lnMute>>
    BY <1>3 DEF LinkClosed
  <2> QED
    BY <1>0, <1>a, <2>1, SdkEventKeeps
<1>4. CASE LinkClosed(c) /\ c \in lnMute
  <2>1. /\ lnWs[c] \in {"open", "closing"} /\ lnWs' = [lnWs EXCEPT ![c] = "closed"]
        /\ UNCHANGED <<lnState, sdkState, sdkLate, lnBeat, sdkLink, lnMute>>
    BY <1>4 DEF LinkClosed
  <2>2. SdkLinksShape'
    BY <2>1 DEF SdkLinksInv, SdkLinksShape
  <2>3. SdkFollows'
    BY <1>0, <1>4, <1>a, <2>1 DEF SdkLinksInv, SdkFollows
  <2> QED
    BY <2>2, <2>3 DEF SdkLinksInv
<1> QED
  BY <1>1, <1>2, <1>3, <1>4

\* Playing leaves the connections alone.
LEMMA LinksKeep ==
    ASSUME SdkLinksInv, SdkNext
    PROVE  SdkLinksInv'
<1>1. CASE UNCHANGED linkVars
  BY <1>1 DEF linkVars, lnVars, SdkLinksInv, SdkLinksShape, SdkFollows
<1>2. CASE SdkTick
  BY <1>1, <1>2 DEF SdkTick
<1>3. ASSUME NEW c \in SdkLinks, NEW length \in {1, 2}, LinkPacket(c, length) PROVE SdkLinksInv'
  BY <1>1, <1>3 DEF LinkPacket
<1>4. ASSUME NEW length \in {1, 2}, NEW then \in sdkGone, SdkDecodedLate(then, length)
      PROVE SdkLinksInv'
  BY <1>1, <1>4 DEF SdkDecodedLate
<1>5. ASSUME NEW length \in {1, 2}, SdkDecoded(length) PROVE SdkLinksInv'
  BY <1>1, <1>5 DEF SdkDecoded
<1>6. ASSUME NEW c \in SdkLinks, LinkOpus(c) PROVE SdkLinksInv'
  BY <1>1, <1>6 DEF LinkOpus
<1> QED
  BY <1>2, <1>3, <1>4, <1>5, <1>6, ClientCallsKeep, SocketEventsKeep DEF SdkNext

-----------------------------------------------------------------------------
\* The player.

\* A packet placed at nextTime, or now, keeps the plan gapless.
LEMMA PlayPacketKeeps ==
    ASSUME SdkPlayShape, SdkPlaysOn, sdkPlayer, NEW length \in {1, 2}, PlayPacket(length),
           UNCHANGED <<sdkPlayer, sdkClock, sdkStray>>
    PROVE  /\ sdkNext' \in 0 .. MaxSdkTime /\ sdkPlan' \in [Units -> Nat]
           /\ SdkPlaysOn'
<1> DEFINE at == StartAt(sdkClock)
<1>1. /\ at + length <= MaxSdkTime /\ sdkNext' = at + length
      /\ sdkPlan' = [t \in Units |-> sdkPlan[t] + (IF t \in at .. at + length - 1 THEN 1 ELSE 0)]
  BY DEF PlayPacket
<1>2. /\ sdkClock \in Nat /\ sdkNext \in Nat /\ sdkPlan \in [Units -> Nat] /\ MaxSdkTime \in Nat
  BY SdkAssumption DEF SdkPlayShape
<1>3. at = (IF sdkNext < sdkClock THEN sdkClock ELSE sdkNext) /\ at \in Nat
  BY <1>2 DEF StartAt
<1> HIDE DEF at
<1>4. sdkNext' \in 0 .. MaxSdkTime
  BY <1>1, <1>2, <1>3
<1>5. sdkPlan' \in [Units -> Nat]
  <2>1. \A t \in Units : sdkPlan[t] + (IF t \in at .. at + length - 1 THEN 1 ELSE 0) \in Nat
    BY <1>2
  <2> QED
    BY <1>1, <2>1
<1>6. SdkPlaysOn'
  <2> SUFFICES ASSUME ~sdkStray, NEW t \in Units
               PROVE sdkPlan'[t] = IF sdkPlayer /\ t \in sdkClock .. sdkNext' - 1 THEN 1 ELSE 0
    BY DEF SdkPlaysOn
  <2>1. sdkPlan[t] = IF t \in sdkClock .. sdkNext - 1 THEN 1 ELSE 0
    BY DEF SdkPlaysOn
  <2>2. sdkPlan'[t] = sdkPlan[t] + (IF t \in at .. at + length - 1 THEN 1 ELSE 0)
    BY <1>1
  <2>3. t \in Nat
    BY DEF Units
  <2> QED
    BY <1>1, <1>2, <1>3, <2>1, <2>2, <2>3
<1> QED
  BY <1>4, <1>5, <1>6

\* A context that was just made, or none, has nothing to play.
LEMMA NewContextKeeps ==
    ASSUME SdkPlayShape, NewContext, sdkPlayer' \in BOOLEAN,
           sdkDecodes' \in 0 .. MaxDecodes, sdkGone' \subseteq 0 .. MaxSdkTime,
           sdkDecodes' > 0 => sdkPlayer'
    PROVE  SdkPlayInv'
<1>1. sdkClock' = 0 /\ sdkNext' = 0 /\ sdkPlan' = [t \in Units |-> 0] /\ sdkStray' = FALSE
  BY DEF NewContext, NoPlan
<1>2. SdkPlayShape'
  <2>1. sdkPlan' \in [Units -> Nat] /\ 0 \in 0 .. MaxSdkTime
    BY <1>1, SdkAssumption
  <2>2. sdkStray' \in BOOLEAN
    BY <1>1, Zenon
  <2> QED
    BY <1>1, <2>1, <2>2 DEF SdkPlayShape
<1>3. SdkPlaysOn'
  BY <1>1 DEF SdkPlaysOn, Units
<1> QED
  BY <1>2, <1>3 DEF SdkPlayInv

\* Every step of the player.
LEMMA PlayerKeeps ==
    ASSUME SdkPlayInv, SdkNext
    PROVE  SdkPlayInv'
<1>0. SdkPlayShape /\ SdkPlaysOn /\ (sdkDecodes > 0 => sdkPlayer) /\ sdkDecodes \in 0 .. MaxDecodes
      /\ sdkPlayer \in BOOLEAN
  BY DEF SdkPlayInv, SdkPlayShape
<1>1. CASE UNCHANGED playVars
  BY <1>1 DEF playVars, SdkPlayInv, SdkPlayShape, SdkPlaysOn
<1>2. CASE SdkConnect
  <2>1. PlayerStart
    BY <1>2 DEF SdkConnect
  <2>2. CASE ~Playback \/ sdkPlayer
    BY <1>1, <2>1, <2>2 DEF PlayerStart
  <2>3. CASE ~(~Playback \/ sdkPlayer)
    <3>1. sdkPlayer' = TRUE /\ NewContext /\ UNCHANGED <<sdkDecodes, sdkGone>>
      BY <2>1, <2>3 DEF PlayerStart
    <3> QED
      BY <1>0, <3>1, NewContextKeeps DEF SdkPlayShape
  <2> QED
    BY <2>2, <2>3
<1>3. ASSUME NEW on \in BOOLEAN, PlayerStop(on) PROVE SdkPlayInv'
  <2>1. /\ sdkPlayer' = on /\ NewContext /\ sdkDecodes' = 0
        /\ sdkGone' = sdkGone \union (IF sdkDecodes = 0 THEN {} ELSE {sdkClock})
    BY <1>3 DEF PlayerStop
  <2>2. sdkGone' \subseteq 0 .. MaxSdkTime
    BY <1>0, <2>1 DEF SdkPlayShape
  <2> QED
    BY <1>0, <2>1, <2>2, NewContextKeeps, SdkAssumption
<1>4. CASE SdkDisconnect
  BY <1>3, <1>4 DEF SdkDisconnect
<1>5. CASE SdkSetChannel
  BY <1>3, <1>5, SdkAssumption DEF SdkSetChannel
<1>6. ASSUME NEW c \in SdkLinks, LinkOpen(c) \/ LinkError(c) \/ LinkClosed(c) PROVE SdkPlayInv'
  BY <1>1, <1>6 DEF LinkOpen, LinkError, LinkClosed
<1>7. ASSUME NEW c \in SdkLinks, NEW length \in {1, 2}, LinkPacket(c, length) PROVE SdkPlayInv'
  <2>1. sdkPlayer /\ PlayPacket(length) /\ UNCHANGED <<sdkPlayer, sdkClock, sdkDecodes, sdkGone, sdkStray>>
    BY <1>7 DEF LinkPacket
  <2>2. sdkNext' \in 0 .. MaxSdkTime /\ sdkPlan' \in [Units -> Nat] /\ SdkPlaysOn'
    BY <1>0, <2>1, PlayPacketKeeps
  <2> QED
    BY <1>0, <2>1, <2>2 DEF SdkPlayInv, SdkPlayShape
<1>8. ASSUME NEW c \in SdkLinks, LinkOpus(c) PROVE SdkPlayInv'
  <2>1. /\ sdkPlayer /\ sdkDecodes < MaxDecodes /\ sdkDecodes' = sdkDecodes + 1
        /\ UNCHANGED <<sdkPlayer, sdkClock, sdkNext, sdkPlan, sdkGone, sdkStray>>
    BY <1>8 DEF LinkOpus
  <2>2. sdkDecodes' \in 0 .. MaxDecodes
    BY <1>0, <2>1, SdkAssumption
  <2> QED
    BY <1>0, <2>1, <2>2 DEF SdkPlayInv, SdkPlayShape, SdkPlaysOn
<1>9. ASSUME NEW length \in {1, 2}, SdkDecoded(length) PROVE SdkPlayInv'
  <2>1. /\ sdkDecodes > 0 /\ sdkDecodes' = sdkDecodes - 1
        /\ PlayPacket(length) \/ UNCHANGED <<sdkNext, sdkPlan>>
        /\ UNCHANGED <<sdkPlayer, sdkClock, sdkGone, sdkStray>>
    BY <1>9 DEF SdkDecoded
  <2>2. sdkPlayer /\ sdkDecodes' \in 0 .. MaxDecodes
    BY <1>0, <2>1, SdkAssumption
  <2>3. sdkNext' \in 0 .. MaxSdkTime /\ sdkPlan' \in [Units -> Nat] /\ SdkPlaysOn'
    <3>1. CASE PlayPacket(length)
      BY <1>0, <2>1, <2>2, <3>1, PlayPacketKeeps
    <3>2. CASE UNCHANGED <<sdkNext, sdkPlan>>
      BY <1>0, <2>1, <3>2 DEF SdkPlayShape, SdkPlaysOn
    <3> QED
      BY <2>1, <3>1, <3>2
  <2> QED
    BY <1>0, <2>1, <2>2, <2>3 DEF SdkPlayInv, SdkPlayShape
<1>10. ASSUME NEW length \in {1, 2}, NEW then \in sdkGone, SdkDecodedLate(then, length) PROVE SdkPlayInv'
  <2>1. /\ sdkGone' \in {sdkGone, sdkGone \ {then}}
        /\ StartAt(then) + length <= MaxSdkTime /\ sdkNext' = StartAt(then) + length
        /\ UNCHANGED <<sdkPlayer, sdkClock, sdkPlan, sdkDecodes>>
    BY <1>10 DEF SdkDecodedLate
  <2>2. sdkStray' \in BOOLEAN /\ (~sdkStray' => ~sdkStray /\ ~sdkPlayer)
    BY <1>10, Zenon DEF SdkDecodedLate
  <2>3. StartAt(then) \in Nat
    BY <1>0 DEF StartAt, SdkPlayShape
  <2>4. SdkPlayShape'
    BY <1>0, <2>1, <2>2, <2>3, SdkAssumption DEF SdkPlayShape
  <2>5. SdkPlaysOn'
    BY <1>0, <2>1, <2>2 DEF SdkPlaysOn
  <2> QED
    BY <1>0, <2>1, <2>4, <2>5 DEF SdkPlayInv
<1>11. CASE SdkTick
  <2>1. /\ sdkPlayer /\ sdkClock < MaxSdkTime /\ sdkClock' = sdkClock + 1
        /\ sdkPlan' = [sdkPlan EXCEPT ![sdkClock] = 0]
        /\ UNCHANGED <<sdkPlayer, sdkNext, sdkDecodes, sdkGone, sdkStray>>
    BY <1>11 DEF SdkTick
  <2>2. sdkClock \in Units /\ sdkClock' \in 0 .. MaxSdkTime /\ sdkPlan' \in [Units -> Nat]
    BY <1>0, <2>1, SdkAssumption DEF SdkPlayShape, Units
  <2>3. SdkPlaysOn'
    <3> SUFFICES ASSUME ~sdkStray, NEW t \in Units
                 PROVE sdkPlan'[t] = IF t \in sdkClock' .. sdkNext - 1 THEN 1 ELSE 0
      BY <2>1 DEF SdkPlaysOn
    <3>1. sdkPlan[t] = IF t \in sdkClock .. sdkNext - 1 THEN 1 ELSE 0
      BY <1>0, <2>1 DEF SdkPlaysOn
    <3>2. sdkPlan'[t] = IF t = sdkClock THEN 0 ELSE sdkPlan[t]
      BY <1>0, <2>1 DEF SdkPlayShape
    <3> QED
      BY <1>0, <2>1, <3>1, <3>2 DEF SdkPlayShape, Units
  <2> QED
    BY <1>0, <2>1, <2>2, <2>3 DEF SdkPlayInv, SdkPlayShape
<1> QED
  BY <1>2, <1>4, <1>5, <1>6, <1>7, <1>8, <1>9, <1>10, <1>11 DEF SdkNext

\* The inductive invariant of the SDK, for any number of connections and any
\* length of play (SolunaClient, RelayConnection, AudioPlayer).
THEOREM SdkInvariant == SdkSpec => []SdkInv
<1>1. SdkInit => SdkInv
  <2> SUFFICES ASSUME SdkInit PROVE SdkInv
    OBVIOUS
  <2>1. sdkPlayer \in BOOLEAN /\ sdkStray \in BOOLEAN /\ sdkLate \in BOOLEAN
    BY Zenon DEF SdkInit
  <2>2. SdkLinksInv
    BY <2>1, SdkAssumption DEF SdkInit, SdkLinksInv, SdkLinksShape, SdkFollows
  <2>3. SdkPlayInv
    BY <2>1, SdkAssumption DEF SdkInit, SdkPlayInv, SdkPlayShape, SdkPlaysOn, NoPlan
  <2> QED
    BY <2>2, <2>3 DEF SdkInv
<1>2. SdkInv /\ [SdkNext]_sdkVars => SdkInv'
  <2> SUFFICES ASSUME SdkInv, [SdkNext]_sdkVars PROVE SdkInv'
    OBVIOUS
  <2>1. CASE SdkNext
    BY <2>1, LinksKeep, PlayerKeeps DEF SdkInv
  <2>2. CASE UNCHANGED sdkVars
    BY <2>2 DEF sdkVars, lnVars, playVars, SdkInv, SdkLinksInv, SdkLinksShape, SdkFollows,
       SdkPlayInv, SdkPlayShape, SdkPlaysOn
  <2> QED
    BY <2>1, <2>2
<1> QED
  BY <1>1, <1>2, PTL DEF SdkSpec

\* The client hears its own connection alone, its state is that connection's,
\* and nothing beats for another (SdkOwnsConnection), in typed states.
THEOREM SdkOwns == SdkSpec => [](SdkTypeOK /\ SdkOwnsConnection)
BY SdkInvariant, SdkCovers, PTL

\* The player's packets sound one right behind the other (SdkPlaysOn).
THEOREM SdkPlays == SdkSpec => []SdkPlaysOn
BY SdkInvariant, SdkCovers, PTL

-----------------------------------------------------------------------------
(* The bridge from WebSocket to UDP.                                       *)

BrInv == BrTypeOK /\ BridgeSound

\* The UDP sockets are finite in number.
LEMMA FewSockets ==
    ASSUME BrTypeOK
    PROVE  IsFiniteSet(brUdp)
BY BridgeAssumption, FS_Subset DEF BrTypeOK

\* The counter follows one socket more.
LEMMA OneMore ==
    ASSUME BrInv, NEW k \in BridgeClients, k \notin brUdp
    PROVE  brActive + 1 = Cardinality(brUdp \union {k})
BY FewSockets, FS_AddElement DEF BrInv, BridgeSound

\* closeUdp() keeps the count exact, whether or not the socket was open, and
\* gives no place away twice.
LEMMA ClosedOnce ==
    ASSUME BrInv, NEW k \in BridgeClients, CloseUdp(k)
    PROVE  /\ brUdp' = brUdp \ {k}
           /\ brActive' = Cardinality(brUdp')
           /\ brActive' \in Nat
           /\ brActive' <= MaxClients
<1>1. CASE k \in brUdp
  <2>1. brUdp' = brUdp \ {k} /\ brActive' = brActive - 1
    BY <1>1 DEF CloseUdp
  <2>2. Cardinality(brUdp \ {k}) = Cardinality(brUdp) - 1
    BY <1>1, FewSockets, FS_RemoveElement DEF BrInv
  <2>3. IsFiniteSet(brUdp \ {k}) /\ Cardinality(brUdp \ {k}) \in Nat
    BY FewSockets, FS_RemoveElement, FS_CardinalityType DEF BrInv
  <2> QED
    BY <2>1, <2>2, <2>3, BridgeAssumption DEF BrInv, BridgeSound, BrTypeOK
<1>2. CASE k \notin brUdp
  <2>1. brUdp' = brUdp /\ brActive' = brActive
    BY <1>2 DEF CloseUdp
  <2> QED
    BY <1>2, <2>1 DEF BrInv, BridgeSound, BrTypeOK
<1> QED
  BY <1>1, <1>2

\* A new connection takes a place only when one is free.
LEMMA ConnectKeeps ==
    ASSUME BrInv, NEW k \in BridgeClients, BrConnect(k)
    PROVE  BrInv'
<1>1. k \notin brUdp
  BY DEF BrConnect, BrInv, BridgeSound
<1>2. CASE brActive >= MaxClients
  BY <1>1, <1>2 DEF BrConnect, BrInv, BrTypeOK, BridgeSound
<1>3. CASE ~(brActive >= MaxClients)
  <2>1. /\ brWs' = [brWs EXCEPT ![k] = "open"] /\ brKnown' = brKnown \union {k}
        /\ brUdp' = brUdp \union {k} /\ brActive' = brActive + 1 /\ brProcess' = brProcess
    BY <1>3 DEF BrConnect
  <2>2. BrTypeOK'
    BY <2>1 DEF BrInv, BrTypeOK
  <2>3. brActive' = Cardinality(brUdp')
    BY <1>1, <2>1, OneMore
  <2>4. brActive' <= MaxClients
    BY <1>3, <2>1, BridgeAssumption DEF BrInv, BrTypeOK
  <2>5. \A j \in brUdp' : brWs'[j] = "open" /\ j \in brKnown'
    BY <2>1 DEF BrInv, BrTypeOK, BridgeSound
  <2> QED
    BY <2>2, <2>3, <2>4, <2>5 DEF BrInv, BridgeSound
<1> QED
  BY <1>2, <1>3

\* The handlers that close - UDP error, WebSocket error - may come in any
\* order and again.
LEMMA ClosingKeeps ==
    ASSUME BrInv, NEW k \in BridgeClients, CloseUdp(k), NEW state \in {"away", "closing"},
           brWs' = [brWs EXCEPT ![k] = state], UNCHANGED <<brKnown, brProcess>>
    PROVE  BrInv'
<1>1. brUdp' = brUdp \ {k} /\ brActive' = Cardinality(brUdp') /\ brActive' \in Nat
      /\ brActive' <= MaxClients
  BY ClosedOnce
<1>2. BrTypeOK'
  BY <1>1 DEF BrInv, BrTypeOK
<1>3. \A j \in brUdp' : brWs'[j] = "open" /\ j \in brKnown'
  BY <1>1 DEF BrInv, BrTypeOK, BridgeSound
<1> QED
  BY <1>1, <1>2, <1>3 DEF BrInv, BridgeSound

\* The close of a WebSocket, of a client or of one refused.
LEMMA BridgeClosedKeeps ==
    ASSUME BrInv, NEW k \in BridgeClients, BrWsClosed(k)
    PROVE  BrInv'
<1>1. CASE k \in brKnown
  BY <1>1, ClosingKeeps DEF BrWsClosed
<1>2. CASE k \notin brKnown
  BY <1>2 DEF BrWsClosed, BrInv, BrTypeOK, BridgeSound
<1> QED
  BY <1>1, <1>2

\* The inductive invariant: types, and the count of places taken
\* (activeClients in ws-bridge.js).
THEOREM BridgeInvariant == BrSpec => []BrInv
<1>1. BrInit => BrInv
  BY BridgeAssumption, FS_EmptySet DEF BrInit, BrInv, BrTypeOK, BridgeSound
<1>2. BrInv /\ [BrNext]_brVars => BrInv'
  <2> SUFFICES ASSUME BrInv, [BrNext]_brVars PROVE BrInv'
    OBVIOUS
  <2>1. CASE BrShutdown
    BY <2>1 DEF BrShutdown, BrInv, BrTypeOK, BridgeSound
  <2>2. CASE BrExit
    BY <2>2 DEF BrExit, BrInv, BrTypeOK, BridgeSound
  <2>3. ASSUME NEW k \in BridgeClients, BrConnect(k) PROVE BrInv'
    BY <2>3, ConnectKeeps
  <2>4. ASSUME NEW k \in BridgeClients, BrMessage(k) PROVE BrInv'
    BY <2>4 DEF BrMessage, BrInv, BrTypeOK, BridgeSound
  <2>5. ASSUME NEW k \in BridgeClients, BrUdpError(k) PROVE BrInv'
    BY <2>5, ClosingKeeps DEF BrUdpError
  <2>6. ASSUME NEW k \in BridgeClients, BrWsError(k) PROVE BrInv'
    BY <2>6, ClosingKeeps DEF BrWsError
  <2>7. ASSUME NEW k \in BridgeClients, BrWsClosed(k) PROVE BrInv'
    BY <2>7, BridgeClosedKeeps
  <2>8. CASE UNCHANGED brVars
    BY <2>8 DEF brVars, BrInv, BrTypeOK, BridgeSound
  <2> QED
    BY <2>1, <2>2, <2>3, <2>4, <2>5, <2>6, <2>7, <2>8 DEF BrNext
<1> QED
  BY <1>1, <1>2, PTL DEF BrSpec

\* However errors and closes of the two sockets interleave, the bridge counts
\* exactly its open UDP sockets, never more than MAX_CLIENTS, and none of them
\* outlives its WebSocket (closeUdp in ws-bridge.js).
THEOREM BridgePlacesExact == BrSpec => []BridgeSound
<1>1. BrInv => BridgeSound
  BY DEF BrInv
<1> QED
  BY <1>1, BridgeInvariant, PTL
=============================================================================
