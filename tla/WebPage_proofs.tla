---------------------------- MODULE WebPage_proofs ----------------------------
(***************************************************************************)
(* Proofs about the parts of the dashboard: the receiver cards, the cards of*)
(* the daemon, the player, listening to the relay and the broadcast.       *)
(***************************************************************************)
EXTENDS WebReceivers, WebDaemon, WebPlayer, WebAudio, WebBroadcast,
        WellFoundedInduction, SequenceTheorems, TLAPS

\* A nonempty set of naturals has a least element.
LEMMA NatLeast ==
    ASSUME NEW T, T \subseteq Nat, T # {}
    PROVE  \E x \in T : \A y \in T : x <= y
<1>1. PICK x \in T : \A y \in T : ~ (<<y, x>> \in OpToRel(<, Nat))
  BY WFMin, NatLessThanWellFounded
<1>2. \A y \in T : <<y, x>> \in OpToRel(<, Nat) <=> y < x
  BY DEF OpToRel
<1>3. ASSUME NEW y \in T PROVE x <= y
  <2>1. ~ (y < x)
    BY <1>1, <1>2
  <2> QED
    BY <2>1
<1> QED
  BY <1>3

\* RemoveAt takes out one entry and moves the later ones up.
LEMMA RemoveAtIs ==
    ASSUME NEW S, NEW s \in Seq(S), NEW i \in DOMAIN s
    PROVE  /\ RemoveAt(s, i) \in Seq(S) /\ Len(RemoveAt(s, i)) = Len(s) - 1
           /\ \A j \in 1 .. Len(s) - 1 :
                RemoveAt(s, i)[j] = IF j < i THEN s[j] ELSE s[j + 1]
<1> DEFINE n == Len(s)
           p == SubSeq(s, 1, i - 1)
           q == SubSeq(s, i + 1, n)
           u == RemoveAt(s, i)
<1>1. n \in Nat /\ i \in 1 .. n
  OBVIOUS
<1>2. /\ p \in Seq(S) /\ Len(p) = i - 1 /\ \A j \in 1 .. i - 1 : p[j] = s[j]
      /\ q \in Seq(S) /\ Len(q) = n - i /\ \A j \in 1 .. n - i : q[j] = s[i + j]
  BY <1>1
<1>3. u = p \o q
  BY DEF RemoveAt
<1> HIDE DEF n, p, q, u
<1>4. u \in Seq(S) /\ Len(u) = Len(p) + Len(q)
  BY <1>2, <1>3, ConcatProperties
<1>5. (i - 1) + (n - i) = n - 1
  BY <1>1
<1>6. ASSUME NEW j \in 1 .. n - 1 PROVE u[j] = IF j < i THEN s[j] ELSE s[j + 1]
  <2>1. j \in 1 .. Len(p) + Len(q)
    BY <1>2, <1>5
  <2>2. u[j] = IF j <= Len(p) THEN p[j] ELSE q[j - Len(p)]
    BY <1>2, <1>3, <2>1, ConcatProperties
  <2>3. CASE j < i
    BY <1>1, <1>2, <2>2, <2>3
  <2>4. CASE ~(j < i)
    <3>1. j - (i - 1) \in 1 .. n - i /\ i + (j - (i - 1)) = j + 1 /\ ~(j <= i - 1)
      BY <1>1, <2>4
    <3>2. u[j] = q[j - (i - 1)]
      BY <1>2, <2>2, <3>1
    <3>3. q[j - (i - 1)] = s[i + (j - (i - 1))]
      BY <1>2, <3>1
    <3> QED
      BY <2>4, <3>1, <3>2, <3>3
  <2> QED
    BY <2>3, <2>4
<1> QED
  BY <1>2, <1>4, <1>5, <1>6 DEF n, u

-----------------------------------------------------------------------------
(* The broadcast.  While no start is begun during another one, at most one *)
(* start waits, and the globals are its own.                               *)

BtAlone ==
    /\ \A j, k \in BtWaiting : j = k
    /\ btActive => BtWaiting = {}
    /\ \A k \in BtStarts :
          /\ btPhase[k] = "mic" => btMic = 0 \/ btMic \in btLeaked
          /\ btPhase[k] \in {"engine", "context"} => btMic = k
          /\ k \in btLeaked => btPhase[k] = "over"
          /\ btPhase[k] = "context" => btCtx = k

BtInv == BtTypeOK /\ BroadcastOwnsMic /\ (~btOverlap => BtAlone)

\* Starts are numbered from 1, so that 0 names none.
LEMMA StartsAre ==
    /\ BtStarts \subseteq Nat /\ 0 \notin BtStarts
    /\ BtStarts \subseteq 0 .. MaxBtStarts /\ 0 \in 0 .. MaxBtStarts
BY BroadcastAssumption DEF BtStarts

\* btxCleanup gives back the one microphone there is.
LEMMA CleanupGivesBack ==
    ASSUME BtInv, NEW sockets \in [BtStarts -> {"none", "connecting", "open", "closing", "closed"}],
           BtCleanup(sockets)
    PROVE  /\ btLive' \subseteq BtStarts /\ (~btOverlap => btLive' \subseteq btLeaked)
           /\ btSocket' \in [BtStarts -> {"none", "connecting", "open", "closing", "closed"}]
           /\ btMic' = 0 /\ btCtx' = 0 /\ btWs' = 0
BY DEF BtCleanup, BtInv, BtTypeOK, BroadcastOwnsMic

\* A click begins a start: the only one that waits, or from then on they overlap.
LEMMA ClickKeeps ==
    ASSUME BtInv, BtClick
    PROVE  BtInv'
<1>1. PICK k \in BtStarts : btPhase[k] = "unused" /\ btPhase' = [btPhase EXCEPT ![k] = "mic"]
  <2>1. PICK k \in BtStarts : /\ \A j \in BtStarts : btPhase[j] = "unused" <=> j >= k
                              /\ btPhase' = [btPhase EXCEPT ![k] = "mic"]
    BY DEF BtClick
  <2>2. k >= k
    BY StartsAre
  <2> QED
    BY <2>1, <2>2
<1>2. ~btActive /\ UNCHANGED <<btLive, btSocket, btActive, btMic, btCtx, btWs, btLeaked>>
  BY DEF BtClick
<1>3. btOverlap' \in BOOLEAN /\ (btOverlap' <=> btOverlap \/ BtWaiting # {})
  BY Zenon DEF BtClick, BtInv, BtTypeOK
<1>4. BtTypeOK'
  BY <1>1, <1>2, <1>3 DEF BtInv, BtTypeOK
<1>5. ASSUME ~btOverlap'
      PROVE  /\ btLive \subseteq btLeaked /\ (btMic = 0 \/ btMic \in btLeaked)
             /\ BtWaiting' = {k}
  <2>1. ~btOverlap /\ BtWaiting = {}
    BY <1>3, <1>5
  <2>2. btLive \subseteq btLeaked /\ (btMic = 0 \/ btMic \in btLeaked)
    BY <1>2, <2>1, StartsAre DEF BtInv, BroadcastOwnsMic
  <2>3. BtWaiting' = {k}
    BY <1>1, <2>1 DEF BtWaiting, BtInv, BtTypeOK
  <2> QED
    BY <2>2, <2>3
<1>6. BroadcastOwnsMic'
  BY <1>2, <1>5 DEF BroadcastOwnsMic
<1>7. ASSUME ~btOverlap' PROVE BtAlone'
  BY <1>1, <1>2, <1>3, <1>5, <1>7 DEF BtAlone, BtWaiting, BtInv, BtTypeOK
<1> QED
  BY <1>4, <1>6, <1>7 DEF BtInv

\* A step of the start that waits moves it on.
LEMMA StartKeeps ==
    ASSUME BtInv, NEW k \in BtStarts,
           BtMicDenied(k) \/ BtMicGranted(k) \/ BtFailed(k) \/ BtEngine(k)
             \/ BtContextThrows(k) \/ BtResumed(k) \/ BtGraphThrows(k)
    PROVE  BtInv'
<1>1. btOverlap' = btOverlap /\ k \in BtWaiting /\ k \in 0 .. MaxBtStarts
  BY StartsAre DEF BtMicDenied, BtMicGranted, BtFailed, BtEngine, BtContextThrows, BtResumed,
                   BtGraphThrows, BtWaiting
<1>2. CASE BtMicDenied(k)
  <2>1. BtTypeOK'
    BY <1>2 DEF BtMicDenied, BtInv, BtTypeOK
  <2>2. ASSUME ~btOverlap PROVE BroadcastOwnsMic' /\ BtAlone'
    BY <1>1, <1>2, <2>2, StartsAre DEF BtMicDenied, BtInv, BtTypeOK, BroadcastOwnsMic, BtAlone, BtWaiting
  <2> QED
    BY <1>1, <2>1, <2>2 DEF BtInv, BroadcastOwnsMic
<1>3. CASE BtMicGranted(k)
  <2>1. BtTypeOK'
    BY <1>1, <1>3 DEF BtMicGranted, BtInv, BtTypeOK
  <2>2. ASSUME ~btOverlap PROVE BroadcastOwnsMic' /\ BtAlone'
    BY <1>1, <1>3, <2>2, StartsAre DEF BtMicGranted, BtInv, BtTypeOK, BroadcastOwnsMic, BtAlone, BtWaiting
  <2> QED
    BY <1>1, <2>1, <2>2 DEF BtInv, BroadcastOwnsMic
<1>4. CASE BtFailed(k)
  <2>1. /\ btLive' \subseteq BtStarts /\ (~btOverlap => btLive' \subseteq btLeaked)
        /\ btSocket' \in [BtStarts -> {"none", "connecting", "open", "closing", "closed"}]
        /\ btMic' = 0 /\ btCtx' = 0 /\ btWs' = 0
    BY <1>4, CleanupGivesBack DEF BtFailed, BtInv, BtTypeOK
  <2>2. /\ btPhase' = [btPhase EXCEPT ![k] = "over"] /\ btActive' = btActive
        /\ btPhase[k] = "engine" /\ btLeaked' = btLeaked
    BY <1>4 DEF BtFailed
  <2>3. BtTypeOK'
    BY <1>1, <2>1, <2>2, StartsAre DEF BtInv, BtTypeOK
  <2>4. ASSUME ~btOverlap PROVE BroadcastOwnsMic' /\ BtAlone'
    <3>1. ~btActive /\ BtAlone
      BY <1>1, <2>4 DEF BtInv, BtAlone
    <3>2. BroadcastOwnsMic'
      BY <2>1, <2>2, <2>4, <3>1 DEF BroadcastOwnsMic
    <3>3. BtAlone'
      BY <1>1, <2>1, <2>2, <3>1, StartsAre DEF BtInv, BtTypeOK, BtAlone, BtWaiting
    <3> QED
      BY <3>2, <3>3
  <2> QED
    BY <1>1, <2>3, <2>4 DEF BtInv, BroadcastOwnsMic
<1>5. CASE BtEngine(k)
  <2>1. BtTypeOK'
    BY <1>1, <1>5 DEF BtEngine, BtInv, BtTypeOK
  <2>2. ASSUME ~btOverlap PROVE BroadcastOwnsMic' /\ BtAlone'
    BY <1>1, <1>5, <2>2, StartsAre DEF BtEngine, BtInv, BtTypeOK, BroadcastOwnsMic, BtAlone, BtWaiting
  <2> QED
    BY <1>1, <2>1, <2>2 DEF BtInv, BroadcastOwnsMic
<1>6. CASE BtResumed(k)
  <2>1. btActive' \in BOOLEAN /\ btActive' /\ btCtx # 0 /\ btMic # 0
    BY <1>6, Zenon DEF BtResumed
  <2>2. /\ btPhase' = [btPhase EXCEPT ![k] = "over"] /\ btPhase[k] = "context"
        /\ UNCHANGED <<btLive, btSocket, btMic, btCtx, btWs, btOverlap, btLeaked>>
    BY <1>6 DEF BtResumed
  <2>3. BtTypeOK'
    BY <2>1, <2>2 DEF BtInv, BtTypeOK
  <2>4. ASSUME ~btOverlap PROVE BroadcastOwnsMic' /\ BtAlone'
    BY <1>1, <2>1, <2>2, <2>4, StartsAre DEF BtInv, BtTypeOK, BroadcastOwnsMic, BtAlone, BtWaiting
  <2> QED
    BY <1>1, <2>3, <2>4 DEF BtInv, BroadcastOwnsMic
<1>7. CASE BtContextThrows(k)
  <2>1. BtTypeOK'
    BY <1>1, <1>7 DEF BtContextThrows, BtInv, BtTypeOK
  <2>2. ASSUME ~btOverlap PROVE BroadcastOwnsMic' /\ BtAlone'
    BY <1>1, <1>7, <2>2, StartsAre DEF BtContextThrows, BtInv, BtTypeOK, BroadcastOwnsMic, BtAlone, BtWaiting
  <2> QED
    BY <1>1, <2>1, <2>2 DEF BtInv, BroadcastOwnsMic
<1>8. CASE BtGraphThrows(k)
  <2>1. BtTypeOK'
    BY <1>1, <1>8 DEF BtGraphThrows, BtInv, BtTypeOK
  <2>2. ASSUME ~btOverlap PROVE BroadcastOwnsMic' /\ BtAlone'
    BY <1>1, <1>8, <2>2, StartsAre DEF BtGraphThrows, BtInv, BtTypeOK, BroadcastOwnsMic, BtAlone, BtWaiting
  <2> QED
    BY <1>1, <2>1, <2>2 DEF BtInv, BroadcastOwnsMic
<1> QED
  BY <1>2, <1>3, <1>4, <1>5, <1>6, <1>7, <1>8

\* The button stops an active broadcast.
LEMMA StopKeeps ==
    ASSUME BtInv, BtStop
    PROVE  BtInv'
<1>1. /\ btLive' \subseteq BtStarts /\ (~btOverlap => btLive' \subseteq btLeaked)
      /\ btSocket' \in [BtStarts -> {"none", "connecting", "open", "closing", "closed"}]
      /\ btMic' = 0 /\ btCtx' = 0 /\ btWs' = 0
  BY CleanupGivesBack DEF BtStop, BtInv, BtTypeOK
<1>2. btActive /\ ~btActive' /\ btActive' \in BOOLEAN /\ UNCHANGED <<btPhase, btOverlap, btLeaked>>
  BY Zenon DEF BtStop
<1>3. BtTypeOK'
  BY <1>1, <1>2, StartsAre DEF BtInv, BtTypeOK
<1>4. ASSUME ~btOverlap PROVE BroadcastOwnsMic' /\ BtAlone'
  BY <1>1, <1>2, <1>4, StartsAre DEF BtInv, BroadcastOwnsMic, BtAlone, BtWaiting
<1> QED
  BY <1>2, <1>3, <1>4 DEF BtInv, BroadcastOwnsMic

\* onclose of any socket, an earlier start's too.
LEMMA SocketKeeps ==
    ASSUME BtInv, NEW k \in BtStarts, BtOpen(k) \/ BtClosed(k)
    PROVE  BtInv'
<1>1. CASE BtOpen(k)
  BY <1>1 DEF BtOpen, BtInv, BtTypeOK, BroadcastOwnsMic, BtAlone, BtWaiting
<1>2. CASE BtClosed(k)
  <2> DEFINE sockets == [btSocket EXCEPT ![k] = "closed"]
  <2>1. sockets \in [BtStarts -> {"none", "connecting", "open", "closing", "closed"}]
    BY DEF BtInv, BtTypeOK
  <2>2. ~btActive' /\ btActive' \in BOOLEAN /\ UNCHANGED <<btPhase, btOverlap, btLeaked>>
    BY <1>2, Zenon DEF BtClosed
  <2>3. CASE btActive
    <3>1. BtCleanup(sockets)
      BY <1>2, <2>3 DEF BtClosed
    <3> HIDE DEF sockets
    <3>2. /\ btLive' \subseteq BtStarts /\ (~btOverlap => btLive' \subseteq btLeaked)
          /\ btSocket' \in [BtStarts -> {"none", "connecting", "open", "closing", "closed"}]
          /\ btMic' = 0 /\ btCtx' = 0 /\ btWs' = 0
      BY <2>1, <3>1, CleanupGivesBack
    <3>3. BtTypeOK'
      BY <2>2, <3>2, StartsAre DEF BtInv, BtTypeOK
    <3>4. ASSUME ~btOverlap PROVE BroadcastOwnsMic' /\ BtAlone'
      BY <2>2, <2>3, <3>2, <3>4, StartsAre DEF BtInv, BroadcastOwnsMic, BtAlone, BtWaiting
    <3> QED
      BY <2>2, <3>3, <3>4 DEF BtInv, BroadcastOwnsMic
  <2>4. CASE ~btActive
    <3>1. btSocket' = sockets /\ UNCHANGED <<btLive, btMic, btCtx, btWs>>
      BY <1>2, <2>4 DEF BtClosed
    <3> HIDE DEF sockets
    <3>2. BtTypeOK'
      BY <2>1, <2>2, <3>1 DEF BtInv, BtTypeOK
    <3>3. ASSUME ~btOverlap PROVE BroadcastOwnsMic' /\ BtAlone'
      BY <2>2, <2>4, <3>1, <3>3 DEF BtInv, BroadcastOwnsMic, BtAlone, BtWaiting
    <3> QED
      BY <2>2, <3>2, <3>3 DEF BtInv, BroadcastOwnsMic
  <2> QED
    BY <2>3, <2>4
<1> QED
  BY <1>1, <1>2

\* The inductive invariant of the broadcast (btxStart, btxStop, btxCleanup).
THEOREM BroadcastInvariant == BtSpec => []BtInv
<1>1. BtInit => BtInv
  <2> SUFFICES ASSUME BtInit PROVE BtInv
    OBVIOUS
  <2>1. btActive \in BOOLEAN /\ btOverlap \in BOOLEAN /\ ~btActive
    BY Zenon DEF BtInit
  <2>2. BtTypeOK
    BY <2>1, BroadcastAssumption DEF BtInit, BtTypeOK
  <2>3. BtWaiting = {}
    BY DEF BtInit, BtWaiting
  <2> QED
    BY <2>1, <2>2, <2>3 DEF BtInit, BtInv, BroadcastOwnsMic, BtAlone
<1>2. BtInv /\ [BtNext]_btVars => BtInv'
  <2> SUFFICES ASSUME BtInv, [BtNext]_btVars PROVE BtInv'
    OBVIOUS
  <2>1. CASE BtNext
    BY <2>1, ClickKeeps, StartKeeps, StopKeeps, SocketKeeps DEF BtNext
  <2>2. CASE UNCHANGED btVars
    BY <2>2 DEF btVars, BtInv, BtTypeOK, BroadcastOwnsMic, BtAlone, BtWaiting
  <2> QED
    BY <2>1, <2>2
<1> QED
  BY <1>1, <1>2, PTL DEF BtSpec

\* As long as no start is begun while another one waits, the microphone that
\* runs is the one btxCleanup stops, and it runs for a broadcast only, but for
\* one that a start left on as its context or its graph threw.
THEOREM BroadcastGivesMicBack == BtSpec => []BroadcastOwnsMic
<1>1. BtInv => BroadcastOwnsMic
  BY DEF BtInv
<1> QED
  BY <1>1, BroadcastInvariant, PTL

-----------------------------------------------------------------------------
(* Listening: one live socket, one graph.                                  *)

SockStates == {"unused", "connecting", "open", "closing", "closed"}

\* Only the current socket is on its way or open, every used one has a channel,
\* and nothing is active while a start waits.
WauAlone ==
    /\ \A s \in Sockets : /\ sock[s] \in {"connecting", "open"} => s = relayWs
                          /\ s = relayWs => sock[s] # "unused"
                          /\ sock[s] # "unused" => sockCh[s] \in RelayChannels
    /\ baPhase # "idle" => ~baActive /\ baCtx
    /\ baActive => baCtx

WauInv == WauTypeOK /\ RelayModeIsOpen /\ OneHelloTimer /\ OneAudioGraph /\ WauAlone

\* The parts of the invariant, each about the variables of one of the three.
RelayPart ==
    /\ sock \in [Sockets -> SockStates]
    /\ sockCh \in [Sockets -> RelayChannels \union {NoCh}]
    /\ relayWs \in 0 .. MaxRelaySockets /\ relayMode \in BOOLEAN /\ hello \subseteq Sockets
    /\ staleClose \in BOOLEAN /\ autoConnect \in BOOLEAN
    /\ RelayModeIsOpen /\ OneHelloTimer
    /\ \A s \in Sockets : /\ sock[s] \in {"connecting", "open"} => s = relayWs
                          /\ s = relayWs => sock[s] # "unused"
                          /\ sock[s] # "unused" => sockCh[s] \in RelayChannels

AudioPart ==
    /\ baActive \in BOOLEAN /\ baPhase \in {"idle", "resume", "module"} /\ baCtx \in BOOLEAN
    /\ graphs \in Nat /\ pingTimers \in Nat /\ wakeAsked \in BOOLEAN /\ wakeLock \in BOOLEAN
    /\ OneAudioGraph
    /\ baPhase # "idle" => ~baActive /\ baCtx
    /\ baActive => baCtx

ReporterPart ==
    /\ fpPending \subseteq RelayChannels /\ blobs \subseteq RelayChannels
    /\ fpChannel \in RelayChannels \union {NoCh}
    /\ recorder \in RelayChannels \union {NoCh}
    /\ sample \in RelayChannels \union {NoCh}

\* The invariant falls into a part for each of the three.
LEMMA WauParts == WauInv <=> RelayPart /\ AudioPart /\ ReporterPart
<1>1. ReporterPart <=> /\ fpPending \subseteq RelayChannels /\ blobs \subseteq RelayChannels
                       /\ {fpChannel, recorder, sample} \subseteq RelayChannels \union {NoCh}
  BY DEF ReporterPart
<1> QED
  BY <1>1, Zenon DEF WauInv, WauTypeOK, WauAlone, RelayPart, AudioPart, SockStates

\* Each part holds as long as its variables are left alone.
LEMMA RelayPartKept == RelayPart /\ UNCHANGED relayVars => RelayPart'
BY DEF RelayPart, relayVars, RelayModeIsOpen, OneHelloTimer

\* Steps that leave a part alone keep it.
LEMMA AudioPartKept == AudioPart /\ UNCHANGED baVars => AudioPart'
BY DEF AudioPart, baVars, OneAudioGraph

\* The same for the reporter.
LEMMA ReporterPartKept == ReporterPart /\ UNCHANGED fpVars => ReporterPart'
BY DEF ReporterPart, fpVars

\* stop() of the reporter, with and without a new start.
LEMMA ReporterStops ==
    ASSUME ReporterPart, UNCHANGED fpPending, FpStop
    PROVE  ReporterPart'
BY DEF ReporterPart, FpStop

\* The socket the page opens next has not been used.
LEMMA FreshLeast ==
    ASSUME Fresh # {}
    PROVE  (CHOOSE s \in Fresh : \A t \in Fresh : s <= t) \in Fresh
<1>1. Fresh \subseteq Nat
  BY AudioAssumption DEF Fresh, Sockets
<1>2. PICK s \in Fresh : \A t \in Fresh : s <= t
  BY <1>1, NatLeast
<1> QED
  BY <1>2

\* relayDisconnect and a new socket: the old one is closing and its timer gone.
LEMMA ReconnectedKeeps ==
    ASSUME RelayPart, NEW ch \in RelayChannels, Reconnected(ch), autoConnect' \in BOOLEAN
    PROVE  RelayPart'
<1> DEFINE new == CHOOSE s \in Fresh : \A t \in Fresh : s <= t
<1>1. /\ sock' = [s \in Sockets |->
                     IF s = new THEN "connecting"
                     ELSE IF s = relayWs /\ sock[s] # "closed" THEN "closing" ELSE sock[s]]
      /\ sockCh' = [sockCh EXCEPT ![new] = ch]
      /\ relayWs' = new
      /\ hello' = hello \ {relayWs}
      /\ relayMode' = FALSE /\ staleClose' = FALSE
  BY DEF Reconnected
<1>2. new \in Sockets /\ sock[new] = "unused"
  BY FreshLeast DEF Reconnected, Fresh
<1> HIDE DEF new
<1>3. new \in 0 .. MaxRelaySockets
  BY <1>2, AudioAssumption DEF Sockets
<1>4. /\ hello' = {} /\ ~relayMode' /\ relayMode' \in BOOLEAN
      /\ ~staleClose' /\ staleClose' \in BOOLEAN
  BY <1>1, Zenon DEF RelayPart, OneHelloTimer
<1>5. sock' \in [Sockets -> SockStates] /\ sockCh' \in [Sockets -> RelayChannels \union {NoCh}]
  BY <1>1, <1>2 DEF RelayPart, SockStates
<1>6. ASSUME NEW s \in Sockets
      PROVE  /\ sock'[s] \in {"connecting", "open"} => s = relayWs'
             /\ s = relayWs' => sock'[s] # "unused"
             /\ sock'[s] # "unused" => sockCh'[s] \in RelayChannels
  <2>1. /\ sock[s] \in {"connecting", "open"} => s = relayWs
        /\ s = relayWs => sock[s] # "unused"
        /\ sock[s] # "unused" => sockCh[s] \in RelayChannels
        /\ sockCh'[s] = IF s = new THEN ch ELSE sockCh[s]
    BY <1>1 DEF RelayPart
  <2>2. sock'[s] = IF s = new THEN "connecting"
                   ELSE IF s = relayWs /\ sock[s] # "closed" THEN "closing" ELSE sock[s]
    BY <1>1
  <2> QED
    BY <1>1, <2>1, <2>2
<1>7. sock'[relayWs'] = "connecting"
  BY <1>1, <1>2
<1> QED
  BY <1>1, <1>3, <1>4, <1>5, <1>6, <1>7 DEF RelayPart, RelayModeIsOpen, OneHelloTimer

\* baStart when nothing is active or waits.
LEMMA BaStartKeeps ==
    ASSUME AudioPart, BaStart, UNCHANGED <<baActive, graphs, pingTimers, wakeAsked, wakeLock>>
    PROVE  AudioPart'
<1>1. CASE baActive \/ baPhase # "idle"
  BY <1>1 DEF BaStart, AudioPart, OneAudioGraph
<1>2. CASE ~(baActive \/ baPhase # "idle")
  <2>1. baPhase' = "resume" /\ baCtx' /\ baCtx' \in BOOLEAN
    BY <1>2, Zenon DEF BaStart
  <2> QED
    BY <1>2, <2>1 DEF AudioPart, OneAudioGraph
<1> QED
  BY <1>1, <1>2

\* onopen and onclose of a socket, of a replaced one too.
LEMMA SocketsKeep ==
    ASSUME WauInv, NEW s \in Sockets, RelayOpen(s) \/ RelayClosed(s)
    PROVE  WauInv'
<1>1. RelayPart /\ AudioPart /\ ReporterPart
  BY WauParts
<1>2. CASE RelayOpen(s)
  <2>1. /\ sock[s] = "connecting" /\ sock' = [sock EXCEPT ![s] = "open"]
        /\ relayMode' /\ relayMode' \in BOOLEAN /\ ~staleClose' /\ staleClose' \in BOOLEAN
        /\ hello' = hello \union {s} /\ UNCHANGED <<sockCh, relayWs, autoConnect>>
    BY <1>2, Zenon DEF RelayOpen
  <2>2. s = relayWs /\ s # 0 /\ sockCh[s] \in RelayChannels
    BY <1>1, <2>1, AudioAssumption DEF RelayPart, Sockets
  <2>3. RelayPart'
    BY <1>1, <2>1, <2>2 DEF RelayPart, SockStates, RelayModeIsOpen, OneHelloTimer
  <2>4. AudioPart'
    BY <1>1, <1>2, BaStartKeeps DEF RelayOpen
  <2>5. ReporterPart'
    BY <1>1, <1>2, <2>2 DEF RelayOpen, ReporterPart
  <2> QED
    BY <2>3, <2>4, <2>5, WauParts, PTL
<1>3. CASE RelayClosed(s)
  <2>1. /\ sock' = [sock EXCEPT ![s] = "closed"] /\ ~relayMode' /\ relayMode' \in BOOLEAN
        /\ UNCHANGED <<sockCh, relayWs, hello, autoConnect, baVars, fpVars>>
        /\ sock[s] \in {"connecting", "open", "closing"}
        /\ staleClose' \in BOOLEAN
        /\ staleClose' <=> s # relayWs /\ (staleClose \/ relayMode)
    BY <1>3, Zenon DEF RelayClosed
  <2>2. RelayPart'
    BY <1>1, <2>1 DEF RelayPart, SockStates, RelayModeIsOpen, OneHelloTimer
  <2>3. AudioPart' /\ ReporterPart'
    BY <1>1, <2>1, AudioPartKept, ReporterPartKept
  <2> QED
    BY <2>2, <2>3, WauParts, PTL
<1> QED
  BY <1>2, <1>3

\* Connecting, by the button, by the timer of the page or by a channel switch.
LEMMA ConnectsKeep ==
    ASSUME WauInv, NEW ch \in RelayChannels,
           RelayConnect(ch) \/ RelayAuto(ch) \/ SwitchChannel(ch)
    PROVE  WauInv'
<1>1. RelayPart /\ AudioPart /\ ReporterPart
  BY WauParts
<1>2. Reconnected(ch) /\ UNCHANGED baVars /\ autoConnect' \in BOOLEAN
  <2>1. autoConnect' = autoConnect \/ autoConnect' = FALSE
    BY DEF RelayConnect, RelayAuto, SwitchChannel
  <2>2. autoConnect' \in BOOLEAN
    BY <1>1, <2>1, Zenon DEF RelayPart
  <2> QED
    BY <2>2 DEF RelayConnect, RelayAuto, SwitchChannel
<1>3. RelayPart' /\ AudioPart'
  BY <1>1, <1>2, ReconnectedKeeps, AudioPartKept
<1>4. ReporterPart'
  BY <1>1, <1>2, ReporterStops DEF Reconnected
<1> QED
  BY <1>3, <1>4, WauParts, PTL

\* The steps of the audio graph and of the wake lock.
LEMMA GraphKeeps ==
    ASSUME WauInv,
           PressListen \/ BaResumed \/ BaStarted \/ BaFailed \/ BaStop \/ WakeGranted \/ Visible
    PROVE  WauInv'
<1>1. RelayPart /\ AudioPart /\ ReporterPart
  BY WauParts
<1>2. UNCHANGED relayVars /\ UNCHANGED fpVars
  BY DEF PressListen, BaResumed, BaStarted, BaFailed, BaStop, WakeGranted, Visible
<1>3. ASSUME PressListen PROVE AudioPart'
  BY <1>1, <1>3, BaStartKeeps DEF PressListen
<1>4. ASSUME BaResumed PROVE AudioPart'
  <2>1. ~baActive /\ baCtx /\ graphs = 0
    BY <1>1, <1>4 DEF BaResumed, AudioPart, OneAudioGraph
  <2> QED
    BY <1>1, <1>4, <2>1 DEF BaResumed, AudioPart, OneAudioGraph
<1>5. ASSUME BaStarted PROVE AudioPart'
  <2>1. baActive' /\ baActive' \in BOOLEAN /\ wakeAsked' \in BOOLEAN
    BY <1>5, Zenon DEF BaStarted
  <2>2. ~baActive /\ baCtx /\ graphs = 1 /\ pingTimers = 0
    BY <1>1, <1>5 DEF BaStarted, AudioPart, OneAudioGraph
  <2>3. baPhase' = "idle" /\ pingTimers' = 1 /\ UNCHANGED <<baCtx, graphs, wakeLock>>
    BY <1>5, <2>2 DEF BaStarted
  <2> QED
    BY <1>1, <2>1, <2>2, <2>3 DEF AudioPart, OneAudioGraph
<1>6. ASSUME BaFailed PROVE AudioPart'
  BY <1>1, <1>6 DEF BaFailed, AudioPart, OneAudioGraph
<1>7. ASSUME BaStop PROVE AudioPart'
  <2>1. ~baActive' /\ baActive' \in BOOLEAN /\ ~baCtx' /\ baCtx' \in BOOLEAN /\ wakeLock' \in BOOLEAN
    BY <1>7, Zenon DEF BaStop
  <2>2. baActive /\ baPhase = "idle" /\ pingTimers = 1
    BY <1>1, <1>7 DEF BaStop, AudioPart, OneAudioGraph
  <2>3. pingTimers' = 0 /\ graphs' = 0 /\ UNCHANGED <<baPhase, wakeAsked>>
    BY <1>7, <2>2 DEF BaStop
  <2> QED
    BY <2>1, <2>2, <2>3, <1>1 DEF AudioPart, OneAudioGraph
<1>8. ASSUME WakeGranted \/ Visible PROVE AudioPart'
  <2>1. /\ wakeAsked' \in BOOLEAN /\ wakeLock' \in BOOLEAN
        /\ UNCHANGED <<baActive, baPhase, baCtx, graphs, pingTimers>>
    BY <1>8, Zenon DEF WakeGranted, Visible
  <2> QED
    BY <1>1, <2>1 DEF AudioPart, OneAudioGraph
<1>9. AudioPart'
  BY <1>3, <1>4, <1>5, <1>6, <1>7, <1>8
<1> QED
  BY <1>1, <1>2, <1>9, RelayPartKept, ReporterPartKept, WauParts, PTL

\* The steps of the fingerprint reporter.
LEMMA ReporterKeeps ==
    ASSUME WauInv,
           FpCapture \/ FpRecorded \/ FpReport
             \/ \E ch \in RelayChannels : FpTimer(ch) \/ FpLoaded(ch)
    PROVE  WauInv'
<1>1. RelayPart /\ AudioPart /\ ReporterPart
  BY WauParts
<1>2. UNCHANGED relayVars /\ UNCHANGED baVars
  BY DEF FpCapture, FpRecorded, FpReport, FpTimer, FpLoaded
<1>3. ASSUME FpCapture \/ FpRecorded \/ FpReport PROVE ReporterPart'
  BY <1>1, <1>3 DEF FpCapture, FpRecorded, FpReport, ReporterPart
<1>4. ASSUME NEW ch \in RelayChannels, FpTimer(ch) \/ FpLoaded(ch)
      PROVE  ReporterPart'
  <2>1. CASE FpLoaded(ch)
    BY <1>1, <2>1 DEF FpLoaded, ReporterPart
  <2>2. CASE FpTimer(ch) /\ Analyser
    BY <1>1, <2>2 DEF FpTimer, FpStart, ReporterPart
  <2>3. CASE FpTimer(ch) /\ ~Analyser
    BY <1>1, <2>3 DEF FpTimer, ReporterPart
  <2> QED
    BY <1>4, <2>1, <2>2, <2>3
<1>5. ReporterPart'
  BY <1>3, <1>4
<1> QED
  BY <1>1, <1>2, <1>5, RelayPartKept, AudioPartKept, WauParts, PTL

\* The inductive invariant of relay socket, audio graph and reporter
\* (relayConnect, switchChannel, baStart, baStop and the reporter of app.js).
THEOREM AudioInvariant == WauSpec => []WauInv
<1>1. WauInit => WauInv
  <2> SUFFICES ASSUME WauInit PROVE RelayPart /\ AudioPart /\ ReporterPart
    BY WauParts
  <2>1. /\ relayMode \in BOOLEAN /\ ~relayMode /\ autoConnect \in BOOLEAN
        /\ staleClose \in BOOLEAN /\ ~staleClose
        /\ baActive \in BOOLEAN /\ ~baActive /\ baCtx \in BOOLEAN
        /\ wakeAsked \in BOOLEAN /\ wakeLock \in BOOLEAN
    BY AudioAssumption, Zenon DEF WauInit
  <2>2. RelayPart
    BY <2>1, AudioAssumption DEF WauInit, RelayPart, Sockets, SockStates, RelayModeIsOpen, OneHelloTimer
  <2>3. AudioPart
    BY <2>1 DEF WauInit, AudioPart, OneAudioGraph
  <2>4. ReporterPart
    BY DEF WauInit, ReporterPart
  <2> QED
    BY <2>2, <2>3, <2>4
<1>2. WauInv /\ [WauNext]_wauVars => WauInv'
  <2> SUFFICES ASSUME WauInv, [WauNext]_wauVars PROVE WauInv'
    OBVIOUS
  <2>1. CASE WauNext
    BY <2>1, SocketsKeep, ConnectsKeep, GraphKeeps, ReporterKeeps DEF WauNext
  <2>2. CASE UNCHANGED wauVars
    <3>1. RelayPart /\ AudioPart /\ ReporterPart
      BY WauParts
    <3>2. UNCHANGED relayVars /\ UNCHANGED baVars /\ UNCHANGED fpVars
      BY <2>2 DEF wauVars
    <3> QED
      BY <3>1, <3>2, RelayPartKept, AudioPartKept, ReporterPartKept, WauParts, PTL
  <2> QED
    BY <2>1, <2>2
<1> QED
  BY <1>1, <1>2, PTL DEF WauSpec

\* There is never a second graph, and graph, context and ping timer live and
\* die together, whoever starts the audio while a start waits.
THEOREM AudioOneGraph == WauSpec => []OneAudioGraph
<1>1. WauInv => OneAudioGraph
  BY DEF WauInv
<1> QED
  BY <1>1, AudioInvariant, PTL

-----------------------------------------------------------------------------
(* The music player.                                                       *)

\* Index i of a list agrees with the sound s.
Matches(list, i, s) ==
    /\ i \in DOMAIN list /\ s # Synced => list[i] = s
    /\ i = NoIdx => s \in {Silence, Synced}
    /\ i # Undef => i = NoIdx \/ i \in DOMAIN list

\* A file from the daemon is put on an empty list only, so that the list has
\* at most one entry more than tracks were added.
PlInv == PlTypeOK /\ Len(playlist) <= added + 1 /\ HighlightMatchesSound

Indices == {Undef, NoIdx} \union 1 .. MaxTracks + 1
Batch == [start : 1 .. MaxTracks + 2, left : 0 .. 2]

\* Everything but list, index and sound has its type.
PlRest ==
    /\ shuffle \in BOOLEAN /\ shuffleOrder \in Seq(1 .. MaxTracks + 1)
    /\ repeat \in {"none", "all", "one"}
    /\ added \in 0 .. MaxTracks /\ loads \in Seq(Batch)
    /\ sync \in [receiving : BOOLEAN, url : BOOLEAN]
    /\ switchTimer \in BOOLEAN /\ ready \in Nat /\ plays \in 0 .. MaxPlays

PlShown ==
    /\ playlist \in Seq(Track) /\ Len(playlist) <= added + 1
    /\ idx \in Indices /\ src \in Track \union {Silence}
    /\ Matches(playlist, idx, src)

\* The invariant of the player in two parts.
LEMMA PlParts == PlInv <=> PlRest /\ PlShown
BY Zenon DEF PlInv, PlTypeOK, HighlightMatchesSound, PlRest, PlShown, Matches, Indices, Batch

\* What the list offers to the proofs.
LEMMA ListIs ==
    ASSUME PlRest, PlShown
    PROVE  /\ Len(playlist) \in 0 .. MaxTracks + 1 /\ DOMAIN playlist = 1 .. Len(playlist)
           /\ DOMAIN playlist \subseteq 1 .. MaxTracks + 1
           /\ \A i \in DOMAIN playlist : playlist[i] \in Track
BY PlayerAssumption DEF PlRest, PlShown

\* _pPlay with an index of the list.
LEMMA PlaysIt ==
    ASSUME NEW list \in Seq(Track), Len(list) <= MaxTracks + 1, NEW i \in DOMAIN list,
           Play(list, i)
    PROVE  idx' \in Indices /\ src' \in Track \union {Silence} /\ Matches(list, idx', src')
<1>1. i \in 1 .. MaxTracks + 1 /\ list[i] \in Track /\ i # Undef /\ i # NoIdx
  BY PlayerAssumption DEF Undef, NoIdx
<1>2. idx' = i /\ src' = list[i]
  BY <1>1 DEF Play
<1> QED
  BY <1>1, <1>2 DEF Indices, Matches

\* _pPlay with whatever it is handed.
LEMMA PlaysAny ==
    ASSUME NEW list \in Seq(Track), Len(list) <= MaxTracks + 1, NEW i, Play(list, i),
           idx \in Indices, src \in Track \union {Silence}, Matches(list, idx, src)
    PROVE  idx' \in Indices /\ src' \in Track \union {Silence} /\ Matches(list, idx', src')
<1>1. CASE i = Undef
  <2>1. Undef \notin DOMAIN list /\ Undef # NoIdx
    BY DEF Undef, NoIdx
  <2> QED
    BY <1>1, <2>1 DEF Play, Indices, Matches
<1>2. CASE i # Undef /\ i \in DOMAIN list
  BY <1>2, PlaysIt
<1>3. CASE i # Undef /\ i \notin DOMAIN list
  BY <1>3 DEF Play
<1> QED
  BY <1>1, <1>2, <1>3

\* The steps that play something from the list as it is.
LEMMA PlayKeeps ==
    ASSUME PlInv, NEW i, Play(playlist, i), UNCHANGED <<playlist, added>>, PlRest'
    PROVE  PlInv'
<1>1. PlRest /\ PlShown
  BY PlParts
<1>2. Len(playlist) <= MaxTracks + 1
  BY <1>1, ListIs
<1>3. PlShown'
  BY <1>1, <1>2, PlaysAny DEF PlShown
<1> QED
  BY <1>3, PlParts, PTL

\* Buttons, clicks and the end of a track all play one track.
LEMMA ButtonsKeep ==
    ASSUME PlInv, PressNext \/ PressPrev \/ PressPlay \/ OnEnded
                    \/ \E i \in DOMAIN playlist : ClickTrack(i)
    PROVE  PlInv'
<1>1. /\ \E i : Play(playlist, i)
      /\ UNCHANGED <<playlist, shuffle, shuffleOrder, repeat, added, loads, daemonVars>>
  BY Zenon DEF PressNext, PressPrev, PressPlay, OnEnded, ClickTrack, NextTrack, PrevTrack
<1>2. PlRest
  BY PlParts
<1>3. PlRest'
  BY <1>1, <1>2 DEF PlRest, daemonVars
<1> QED
  BY <1>1, <1>3, PlayKeeps

\* Settings that touch no track.
LEMMA SettingsKeep ==
    ASSUME PlInv, ToggleShuffle \/ CycleRepeat
    PROVE  PlInv'
<1>1. PlRest /\ PlShown
  BY PlParts
<1>2. PlShown'
  BY <1>1 DEF PlShown, ToggleShuffle, CycleRepeat
<1>3. CASE ToggleShuffle
  <2>1. shuffle' \in BOOLEAN
    BY <1>3, Zenon DEF ToggleShuffle
  <2>2. shuffleOrder' \in Seq(1 .. MaxTracks + 1)
    <3>1. CASE shuffle
      BY <1>1, <1>3, <3>1 DEF ToggleShuffle, PlRest
    <3>2. CASE ~shuffle
      <4>1. shuffleOrder' \in [1 .. Len(playlist) -> 1 .. Len(playlist)]
        BY <1>1, <1>3, <3>2, ListIs DEF ToggleShuffle
      <4>2. Len(playlist) \in Nat /\ 1 .. Len(playlist) \subseteq 1 .. MaxTracks + 1
        BY <1>1, ListIs
      <4>3. shuffleOrder' \in [1 .. Len(playlist) -> 1 .. MaxTracks + 1]
        BY <4>1, <4>2
      <4> QED
        BY <4>2, <4>3, SeqDef
    <3> QED
      BY <3>1, <3>2
  <2>3. UNCHANGED <<repeat, added, loads, sync, switchTimer, ready, plays>>
    BY <1>3 DEF ToggleShuffle, daemonVars
  <2>4. PlRest'
    BY <1>1, <2>1, <2>2, <2>3 DEF PlRest
  <2> QED
    BY <1>2, <2>4, PlParts, PTL
<1>4. CASE CycleRepeat
  <2>1. PlRest'
    BY <1>1, <1>4 DEF CycleRepeat, PlRest, daemonVars
  <2> QED
    BY <1>2, <2>1, PlParts, PTL
<1> QED
  BY <1>3, <1>4

\* _pRemove: the index follows its track.
LEMMA RemoveTrackKeeps ==
    ASSUME PlInv, NEW i \in DOMAIN playlist, RemoveTrack(i)
    PROVE  PlInv'
<1> DEFINE n == Len(playlist)
           list == RemoveAt(playlist, i)
<1>1. PlRest /\ PlShown
  BY PlParts
<1>2. UNCHANGED <<shuffle, shuffleOrder, repeat, added, loads, daemonVars>> /\ playlist' = list
  BY DEF RemoveTrack
<1>3. PlRest'
  BY <1>1, <1>2 DEF PlRest, daemonVars
<1>4. n \in 1 .. MaxTracks + 1 /\ i \in 1 .. n /\ n <= added + 1 /\ DOMAIN playlist = 1 .. n
  BY <1>1, ListIs DEF PlShown
<1>5. /\ list \in Seq(Track) /\ Len(list) = n - 1
      /\ \A j \in 1 .. n - 1 : list[j] = IF j < i THEN playlist[j] ELSE playlist[j + 1]
  BY <1>1, RemoveAtIs DEF PlShown
<1>6. DOMAIN list = 1 .. n - 1
  BY <1>5
<1>7. /\ IF idx # i
         THEN /\ idx' = IF idx > i THEN idx - 1 ELSE idx
              /\ UNCHANGED src
         ELSE IF n > 1
         THEN Play(playlist', IF i < n THEN i ELSE n - 1)
         ELSE idx' = NoIdx /\ src' = Silence
  BY DEF RemoveTrack
<1> HIDE DEF list, n
<1>8. added \in 0 .. MaxTracks /\ Len(list) <= added + 1 /\ Len(list) <= MaxTracks + 1
  BY <1>1, <1>4, <1>5, PlayerAssumption DEF PlRest
<1>9. idx' \in Indices /\ src' \in Track \union {Silence} /\ Matches(list, idx', src')
  <2>1. CASE idx # i
    <3>1. idx' = (IF idx > i THEN idx - 1 ELSE idx) /\ src' = src
      BY <1>7, <2>1
    <3>2. /\ idx \in Indices /\ src \in Track \union {Silence}
          /\ idx \in 1 .. n /\ src # Synced => playlist[idx] = src
          /\ idx = NoIdx => src \in {Silence, Synced}
          /\ idx # Undef => idx = NoIdx \/ idx \in 1 .. n
      BY <1>1, <1>4 DEF PlShown, Matches
    <3>3. CASE idx \in 1 .. n
      <4>1. idx' \in 1 .. n - 1 /\ idx' # NoIdx /\ idx' \in Indices
        <5>1. CASE idx > i
          BY <1>4, <3>1, <3>3, <5>1, PlayerAssumption DEF NoIdx, Indices
        <5>2. CASE ~(idx > i)
          BY <1>4, <2>1, <3>1, <3>3, <5>2, PlayerAssumption DEF NoIdx, Indices
        <5> QED
          BY <5>1, <5>2
      <4>2. list[idx'] = playlist[idx]
        BY <1>4, <1>5, <2>1, <3>1, <3>3, <4>1
      <4> QED
        BY <1>6, <3>1, <3>2, <3>3, <4>1, <4>2 DEF Matches
    <3>4. CASE idx \notin 1 .. n
      <4>1. idx \in {Undef, NoIdx} /\ ~(idx > i)
        BY <1>4, <3>2, <3>4 DEF Undef, NoIdx
      <4>2. Undef \notin 1 .. n - 1 /\ NoIdx \notin 1 .. n - 1
        BY <1>4 DEF Undef, NoIdx
      <4> QED
        BY <1>6, <3>1, <3>2, <4>1, <4>2 DEF Matches
    <3> QED
      BY <3>3, <3>4
  <2>2. CASE idx = i /\ n > 1
    <3> DEFINE k == IF i < n THEN i ELSE n - 1
    <3>1. k \in DOMAIN list
      BY <1>4, <1>6, <2>2
    <3>2. Play(list, k)
      BY <1>2, <1>7, <2>2
    <3> HIDE DEF k
    <3> QED
      BY <1>5, <1>8, <3>1, <3>2, PlaysIt
  <2>3. CASE idx = i /\ ~(n > 1)
    <3>1. idx' = NoIdx /\ src' = Silence
      BY <1>7, <2>3
    <3>2. DOMAIN list = {}
      BY <1>4, <1>6, <2>3
    <3> QED
      BY <3>1, <3>2 DEF Indices, Matches, NoIdx, Undef
  <2> QED
    BY <2>1, <2>2, <2>3
<1>10. PlShown'
  BY <1>2, <1>5, <1>8, <1>9 DEF PlShown
<1> QED
  BY <1>3, <1>10, PlParts, PTL

\* The list is cleared.
LEMMA ClearKeeps ==
    ASSUME PlInv, ClearAll
    PROVE  PlInv'
<1>1. PlRest /\ PlShown
  BY PlParts
<1>2. PlRest'
  BY <1>1 DEF ClearAll, PlRest, daemonVars
<1>3. added \in Nat /\ added' = added
  BY <1>1 DEF ClearAll, PlRest
<1>4. PlShown'
  BY <1>3 DEF ClearAll, PlShown, Matches, Indices, NoIdx, Undef
<1> QED
  BY <1>2, <1>4, PlParts, PTL

\* Files are read one by one; the last one may start to play.
LEMMA LoadsKeep ==
    ASSUME PlInv,
           (\E n \in 1 .. 2 : LoadBegin(n)) \/ (\E b \in DOMAIN loads : LoadOne(b) \/ LoadEnd(b))
    PROVE  PlInv'
<1>1. PlRest /\ PlShown
  BY PlParts
<1>2. added \in 0 .. MaxTracks /\ loads \in Seq(Batch)
  BY <1>1 DEF PlRest
<1>3. ASSUME NEW n \in 1 .. 2, LoadBegin(n) PROVE PlInv'
  <2> DEFINE new == [start |-> Len(playlist) + 1, left |-> n]
  <2>1. new \in Batch
    BY <1>1, ListIs, PlayerAssumption DEF Batch
  <2>2. /\ loads' = Append(loads, new)
        /\ UNCHANGED <<playlist, idx, shuffle, shuffleOrder, repeat, src, added, daemonVars>>
    BY <1>3 DEF LoadBegin
  <2> HIDE DEF new
  <2>3. loads' \in Seq(Batch)
    BY <1>2, <2>1, <2>2
  <2>4. PlRest' /\ PlShown'
    BY <1>1, <2>2, <2>3 DEF PlRest, PlShown, daemonVars
  <2> QED
    BY <2>4, PlParts, PTL
<1>4. ASSUME NEW b \in DOMAIN loads, LoadOne(b) PROVE PlInv'
  <2>1. /\ added' = added + 1 /\ playlist' = Append(playlist, added') /\ added < MaxTracks
        /\ loads' = [loads EXCEPT ![b].left = loads[b].left - 1]
        /\ loads[b].left > 0 /\ loads[b] \in Batch
        /\ UNCHANGED <<idx, shuffle, shuffleOrder, repeat, src, daemonVars>>
    BY <1>2, <1>4 DEF LoadOne
  <2>2. loads' \in Seq(Batch)
    <3>1. [loads[b] EXCEPT !.left = loads[b].left - 1] \in Batch
      BY <2>1 DEF Batch
    <3> QED
      BY <1>2, <2>1, <3>1
  <2>3. added' \in 0 .. MaxTracks /\ added' \in Track
    BY <1>2, <2>1, PlayerAssumption DEF Track
  <2>4. /\ playlist' \in Seq(Track) /\ Len(playlist') = Len(playlist) + 1
        /\ \A j \in DOMAIN playlist : playlist'[j] = playlist[j]
        /\ DOMAIN playlist \subseteq DOMAIN playlist'
    BY <1>1, <2>1, <2>3 DEF PlShown
  <2>5. Len(playlist') <= added' + 1
    BY <1>1, <1>2, <2>1, <2>4 DEF PlShown
  <2>6. Len(playlist') \in DOMAIN playlist' => playlist'[Len(playlist')] = added'
    BY <1>1, <2>1, <2>3 DEF PlShown
  <2>7. Matches(playlist', idx', src')
    <3>1. idx \in DOMAIN playlist' => idx \in DOMAIN playlist
      BY <1>1, <2>1, <2>4, ListIs DEF PlShown, Matches, Undef, NoIdx
    <3> QED
      BY <1>1, <2>1, <2>4, <3>1 DEF PlShown, Matches
  <2>8. PlRest' /\ PlShown'
    BY <1>1, <2>1, <2>2, <2>3, <2>4, <2>5, <2>7 DEF PlRest, PlShown, daemonVars
  <2> QED
    BY <2>8, PlParts, PTL
<1>5. ASSUME NEW b \in DOMAIN loads, LoadEnd(b) PROVE PlInv'
  <2>1. loads' = RemoveAt(loads, b)
        /\ UNCHANGED <<playlist, shuffle, shuffleOrder, repeat, added, daemonVars>>
    BY <1>5 DEF LoadEnd
  <2>2. loads' \in Seq(Batch)
    BY <1>2, <2>1, RemoveAtIs
  <2>3. PlRest'
    BY <1>1, <2>1, <2>2 DEF PlRest, daemonVars
  <2>4. CASE idx = NoIdx
    <3>1. Play(playlist, loads[b].start)
      BY <1>5, <2>4 DEF LoadEnd
    <3> QED
      BY <2>1, <2>3, <3>1, PlayKeeps
  <2>5. CASE idx # NoIdx
    <3>1. UNCHANGED <<idx, src>>
      BY <1>5, <2>5 DEF LoadEnd
    <3>2. PlShown'
      BY <1>1, <2>1, <3>1 DEF PlShown
    <3> QED
      BY <2>3, <3>2, PlParts, PTL
  <2> QED
    BY <2>4, <2>5
<1> QED
  BY <1>3, <1>4, <1>5

\* The daemon's messages, and the switch to the file that came with them.
LEMMA DaemonKeeps ==
    ASSUME PlInv, DaemonPlay \/ DaemonSwitch \/ PlayerEvent \/ DoSwitch
    PROVE  PlInv'
<1>1. PlRest /\ PlShown
  BY PlParts
<1>2. CASE DaemonPlay \/ DaemonSwitch
  <2>1. plays' \in 0 .. MaxPlays /\ ready' \in Nat
    BY <1>1, <1>2, PlayerAssumption DEF DaemonPlay, DaemonSwitch, PlRest
  <2>2. UNCHANGED <<localVars, sync, switchTimer>>
    BY <1>2 DEF DaemonPlay, DaemonSwitch
  <2>3. PlRest' /\ PlShown'
    BY <1>1, <2>1, <2>2 DEF PlRest, PlShown, localVars
  <2> QED
    BY <2>3, PlParts, PTL
<1>3. CASE PlayerEvent
  <2> DEFINE e == Head(events)
  <2>1. /\ sync' = CASE e = "stream_start" -> [sync EXCEPT !.url = FALSE, !.receiving = FALSE]
                     [] e = "file_start" -> [sync EXCEPT !.receiving = TRUE]
                     [] e = "file_done" -> [sync EXCEPT !.url = TRUE, !.receiving = FALSE]
                     [] OTHER -> sync
        /\ ready' = IF e = "file_done" THEN ready + 1 ELSE ready
        /\ UNCHANGED <<localVars, plays>>
    BY <1>3 DEF PlayerEvent
  <2>2. switchTimer' \in BOOLEAN
    BY <1>3, Zenon DEF PlayerEvent
  <2> HIDE DEF e
  <2>3. sync' \in [receiving : BOOLEAN, url : BOOLEAN] /\ ready' \in Nat
    <3>1. sync \in [receiving : BOOLEAN, url : BOOLEAN] /\ ready \in Nat
      BY <1>1 DEF PlRest
    <3>2. ready' \in Nat
      BY <2>1, <3>1
    <3>3. CASE e = "stream_start"
      BY <2>1, <3>1, <3>2, <3>3
    <3>4. CASE e = "file_start"
      BY <2>1, <3>1, <3>2, <3>4
    <3>5. CASE e = "file_done"
      BY <2>1, <3>1, <3>2, <3>5
    <3>6. CASE e \notin {"stream_start", "file_start", "file_done"}
      BY <2>1, <3>1, <3>2, <3>6
    <3> QED
      BY <3>3, <3>4, <3>5, <3>6
  <2>4. PlRest' /\ PlShown'
    BY <1>1, <2>1, <2>2, <2>3 DEF PlRest, PlShown, localVars
  <2> QED
    BY <2>4, PlParts, PTL
<1>4. CASE DoSwitch
  <2>1. /\ UNCHANGED <<shuffle, shuffleOrder, repeat, added, loads, sync, ready, plays>>
        /\ switchTimer' \in BOOLEAN
    BY <1>4, Zenon DEF DoSwitch
  <2>2. PlRest'
    BY <1>1, <2>1 DEF PlRest
  <2>3. added \in 0 .. MaxTracks
    BY <1>1 DEF PlRest
  <2>4. CASE sync.url /\ playlist = <<>>
    <3>1. src' = Synced /\ playlist' = <<Synced>> /\ idx' = 1
      BY <1>4, <2>4 DEF DoSwitch
    <3>2. 1 \in Indices /\ Synced \in Track
      BY PlayerAssumption DEF Indices, Track
    <3>3. PlShown'
      BY <2>1, <2>3, <3>1, <3>2 DEF PlShown, Matches, NoIdx
    <3> QED
      BY <2>2, <3>3, PlParts, PTL
  <2>5. CASE sync.url /\ playlist # <<>>
    <3>1. src' = Synced /\ playlist' = playlist /\ idx' = idx
      BY <1>4, <2>5 DEF DoSwitch
    <3>2. PlShown'
      BY <1>1, <2>1, <3>1 DEF PlShown, Matches, Track
    <3> QED
      BY <2>2, <3>2, PlParts, PTL
  <2>6. CASE ~sync.url
    <3>1. UNCHANGED <<playlist, idx, src>>
      BY <1>4, <2>6 DEF DoSwitch
    <3>2. PlShown'
      BY <1>1, <2>1, <3>1 DEF PlShown
    <3> QED
      BY <2>2, <3>2, PlParts, PTL
  <2> QED
    BY <2>4, <2>5, <2>6
<1> QED
  BY <1>2, <1>3, <1>4

\* The inductive invariant of the player (_pPlay, _pRemove, _pHandleFiles and
\* _pDoSwitch of app.js).
THEOREM PlayerInvariant == PlSpec => []PlInv
<1>1. PlInit => PlInv
  <2> SUFFICES ASSUME PlInit PROVE PlRest /\ PlShown
    BY PlParts
  <2>1. PlRest
    <3>1. /\ shuffle \in BOOLEAN /\ switchTimer \in BOOLEAN
          /\ sync \in [receiving : BOOLEAN, url : BOOLEAN]
      BY Zenon DEF PlInit
    <3> QED
      BY <3>1, PlayerAssumption DEF PlInit, PlRest
  <2>2. PlShown
    BY DEF PlInit, PlShown, Matches, Indices, NoIdx, Undef
  <2> QED
    BY <2>1, <2>2
<1>2. PlInv /\ [PlNext]_plVars => PlInv'
  <2> SUFFICES ASSUME PlInv, [PlNext]_plVars PROVE PlInv'
    OBVIOUS
  <2>1. CASE PlNext
    BY <2>1, ButtonsKeep, SettingsKeep, RemoveTrackKeeps, ClearKeeps, LoadsKeep, DaemonKeeps
       DEF PlNext
  <2>2. CASE UNCHANGED plVars
    <3>1. PlRest /\ PlShown
      BY PlParts
    <3>2. PlRest' /\ PlShown'
      BY <2>2, <3>1 DEF plVars, PlRest, PlShown
    <3> QED
      BY <3>2, PlParts, PTL
  <2> QED
    BY <2>1, <2>2
<1> QED
  BY <1>1, <1>2, PTL DEF PlSpec

\* The track shown as current is the one that sounds, whatever is removed,
\* cleared or still being read, for any number of tracks and batches.
THEOREM PlayerShowsWhatSounds == PlSpec => []HighlightMatchesSound
<1>1. PlInv => HighlightMatchesSound
  BY DEF PlInv
<1> QED
  BY <1>1, PlayerInvariant, PTL

-----------------------------------------------------------------------------
(* The daemon's cards.                                                     *)

\* The members of a queue of requests, and what asking makes of it.
LEMMA Requests ==
    /\ \A c \in Cards : Ask("poll", c) \in Message /\ Ask("init", c) \in Message
    /\ \A c \in Controls, to \in BOOLEAN : Order(c, to) \in Message
BY DEF Ask, Order, Message

\* Sending keeps the queue a queue of requests.
LEMMA SentTyped ==
    ASSUME wire \in Seq(Message), NEW m \in Message, LocalSend(<<m>>)
    PROVE  wire' \in Seq(Message)
BY DEF LocalSend

\* A message taken from a queue.
LEMMA TakenFrom ==
    ASSUME NEW S, NEW q \in Seq(S), q # <<>>
    PROVE  Head(q) \in S /\ Tail(q) \in Seq(S)
OBVIOUS

\* The connection to the daemon and its back-off.
LEMMA LinkTyped ==
    ASSUME WdTypeOK, LocalOpen \/ LocalClose \/ LocalRetry
    PROVE  WdTypeOK'
<1>1. CASE LocalOpen
  <2>1. polls' \in [Polled -> Nat]
    BY <1>1 DEF LocalOpen, WdTypeOK
  <2>2. wire' \in Seq(Message)
    <3>1. wire' = <<Ask("init", "monitor")>> /\ Ask("init", "monitor") \in Message
      BY <1>1, Requests DEF LocalOpen, Cards
    <3> QED
      BY <3>1
  <2>3. localWs' = "open" /\ localRetry' = 0
        /\ UNCHANGED <<shown, daemon, due, recheck, back, losses, edits>>
    BY <1>1 DEF LocalOpen
  <2>4. localRetry' \in 0 .. 5
    BY <2>3
  <2> QED
    BY <2>1, <2>2, <2>3, <2>4 DEF WdTypeOK
<1>2. CASE LocalClose
  <2>1. wire' = <<>> /\ back' = <<>>
    BY <1>2 DEF LocalClose
  <2>2. wire' \in Seq(Message) /\ back' \in Seq(Answered)
    BY <2>1
  <2>3. losses' \in 0 .. MaxLosses
    BY <1>2, DaemonAssumption DEF LocalClose, WdTypeOK
  <2>4. UNCHANGED <<polls, shown, daemon, due, recheck, edits>>
    BY <1>2 DEF LocalClose
  <2>5. localWs' \in {"gaveup", "closed"}
    BY <1>2 DEF LocalClose
  <2>6. localRetry' \in 0 .. 5
    BY <1>2 DEF LocalClose, WdTypeOK
  <2> QED
    BY <2>2, <2>3, <2>4, <2>5, <2>6 DEF WdTypeOK
<1>3. CASE LocalRetry
  BY <1>3 DEF LocalRetry, WdTypeOK
<1> QED
  BY <1>1, <1>2, <1>3

\* A step that only sends one message, and may change what follows.
LEMMA SendsTyped ==
    ASSUME WdTypeOK, NEW m \in Message, LocalSend(<<m>>),
           UNCHANGED <<localWs, localRetry, polls, daemon, back, losses>>,
           shown' \in [Cards -> BOOLEAN], due' \in {{}, {TRUE}, {FALSE}}, recheck' \in BOOLEAN,
           edits' \in 0 .. MaxEdits
    PROVE  WdTypeOK'
<1>1. wire' \in Seq(Message)
  BY SentTyped DEF WdTypeOK
<1> QED
  BY <1>1 DEF WdTypeOK

\* A poll is one message.
LEMMA PollTyped ==
    ASSUME WdTypeOK, NEW c \in Cards, LocalSend(<<Ask("poll", c)>>),
           UNCHANGED <<localWs, localRetry, polls, shown, daemon, due, back, losses, edits>>,
           recheck' \in BOOLEAN
    PROVE  WdTypeOK'
<1>1. Ask("poll", c) \in Message
  BY Requests
<1> QED
  BY <1>1, SendsTyped DEF WdTypeOK

\* The commands of the cards.
LEMMA OrderTyped ==
    ASSUME WdTypeOK, NEW c \in Controls, NEW to \in BOOLEAN, LocalSend(<<Order(c, to)>>),
           UNCHANGED <<localWs, localRetry, polls, daemon, back, losses>>,
           shown' \in [Cards -> BOOLEAN], due' \in {{}, {TRUE}, {FALSE}}, recheck' \in BOOLEAN,
           Edit \/ edits' = edits
    PROVE  WdTypeOK'
<1>1. Order(c, to) \in Message
  BY Requests
<1>2. edits' \in 0 .. MaxEdits
  BY DaemonAssumption DEF Edit, WdTypeOK
<1> QED
  BY <1>1, <1>2, SendsTyped

\* Turning what a card shows over.
LEMMA TurnedTyped ==
    ASSUME WdTypeOK, NEW c \in Cards
    PROVE  (~shown[c]) \in BOOLEAN /\ [shown EXCEPT ![c] = ~@] \in [Cards -> BOOLEAN]
<1>1. shown \in [Cards -> BOOLEAN]
  BY DEF WdTypeOK
<1>2. (~shown[c]) \in BOOLEAN
  OBVIOUS
<1> QED
  BY <1>1, <1>2, Zenon

\* What the user changes is sent as one order, or waits for its timer.
LEMMA EditsTyped ==
    ASSUME WdTypeOK,
           \/ MonitorToggle \/ SysVolTimer \/ InputToggle \/ Preset \/ RouteMute
           \/ \E to \in BOOLEAN : SysVolInput(to)
           \/ \E c \in {"tune", "audio"} : RepairToggle(c)
    PROVE  WdTypeOK'
<1>0. /\ {"monitor", "sysvol", "input", "tune", "routes"} \subseteq Controls
      /\ Controls \subseteq Cards /\ "audio" \in Cards
      /\ shown \in [Cards -> BOOLEAN] /\ due \in {{}, {TRUE}, {FALSE}} /\ recheck \in BOOLEAN
  BY DEF Controls, Cards, WdTypeOK
<1>1. CASE MonitorToggle
  <2>1. /\ LocalSend(<<Order("monitor", ~shown["monitor"])>>)
        /\ shown' = [shown EXCEPT !["monitor"] = ~@] /\ Edit
        /\ UNCHANGED <<localWs, localRetry, polls, daemon, due, recheck, back, losses>>
    BY <1>1 DEF MonitorToggle
  <2>2. (~shown["monitor"]) \in BOOLEAN /\ shown' \in [Cards -> BOOLEAN]
    BY <1>0, <2>1, TurnedTyped, Zenon
  <2> QED
    BY <1>0, <2>1, <2>2, OrderTyped
<1>2. CASE SysVolTimer
  <2>1. PICK to \in due : LocalSend(<<Order("sysvol", to)>>)
    BY <1>2 DEF SysVolTimer
  <2>2. due' = {} /\ UNCHANGED <<localWs, localRetry, polls, shown, daemon, recheck, back, losses, edits>>
    BY <1>2 DEF SysVolTimer
  <2>3. to \in BOOLEAN
    BY <1>0
  <2> QED
    BY <1>0, <2>1, <2>2, <2>3, OrderTyped
<1>3. CASE InputToggle
  <2>1. /\ LocalSend(<<Order("input", ~shown["input"])>>) /\ Edit
        /\ UNCHANGED <<localWs, localRetry, polls, shown, daemon, due, back, losses>>
    BY <1>3 DEF InputToggle
  <2>2. recheck' \in BOOLEAN
    BY <1>3, Zenon DEF InputToggle
  <2>3. (~shown["input"]) \in BOOLEAN
    OBVIOUS
  <2> QED
    BY <1>0, <2>1, <2>2, <2>3, OrderTyped
<1>4. CASE Preset
  <2>1. /\ LocalSend(<<Order("tune", TRUE)>>) /\ Edit
        /\ UNCHANGED <<localWs, localRetry, polls, shown, daemon, due, recheck, back, losses>>
    BY <1>4 DEF Preset
  <2>2. TRUE \in BOOLEAN
    OBVIOUS
  <2> QED
    BY <1>0, <2>1, <2>2, OrderTyped
<1>5. CASE RouteMute
  <2>1. /\ LocalSend(<<Order("routes", ~shown["routes"])>>) /\ Edit
        /\ UNCHANGED <<localWs, localRetry, polls, shown, daemon, due, recheck, back, losses>>
    BY <1>5 DEF RouteMute
  <2>2. (~shown["routes"]) \in BOOLEAN
    OBVIOUS
  <2> QED
    BY <1>0, <2>1, <2>2, OrderTyped
<1>6. ASSUME NEW to \in BOOLEAN, SysVolInput(to) PROVE WdTypeOK'
  <2>1. /\ shown' = [shown EXCEPT !["sysvol"] = to] /\ due' = {to} /\ Edit
        /\ UNCHANGED <<localWs, localRetry, polls, daemon, recheck, wire, back, losses>>
    BY <1>6 DEF SysVolInput
  <2>2. shown' \in [Cards -> BOOLEAN] /\ due' \in {{}, {TRUE}, {FALSE}}
    BY <1>0, <2>1
  <2>3. edits' \in 0 .. MaxEdits
    BY <2>1, DaemonAssumption DEF Edit, WdTypeOK
  <2> QED
    BY <2>1, <2>2, <2>3 DEF WdTypeOK
<1>7. ASSUME NEW c \in {"tune", "audio"}, RepairToggle(c) PROVE WdTypeOK'
  <2>1. /\ LocalSend(<<Order("tune", ~shown[c])>>)
        /\ shown' = [shown EXCEPT ![c] = ~@] /\ Edit
        /\ UNCHANGED <<localWs, localRetry, polls, daemon, due, recheck, back, losses>>
    BY <1>7 DEF RepairToggle
  <2>2. c \in Cards
    BY DEF Cards
  <2>3. (~shown[c]) \in BOOLEAN /\ shown' \in [Cards -> BOOLEAN]
    BY <2>1, <2>2, TurnedTyped, Zenon
  <2> QED
    BY <1>0, <2>1, <2>3, OrderTyped
<1> QED
  BY <1>1, <1>2, <1>3, <1>4, <1>5, <1>6, <1>7

\* What a request and an answer are made of.
LEMMA MessageParts ==
    /\ \A m \in Message : IF m.op = "set" THEN m.card \in Controls /\ m.to \in BOOLEAN
                          ELSE m.op \in {"poll", "init"} /\ m.card \in Cards
    /\ \A a \in Answered : a.op # "redraw" => a.card \in Cards /\ a.is \in BOOLEAN
<1>1. ASSUME NEW m \in Message
      PROVE  IF m.op = "set" THEN m.card \in Controls /\ m.to \in BOOLEAN
             ELSE m.op \in {"poll", "init"} /\ m.card \in Cards
  <2>1. CASE m \in [op : {"poll", "init"}, card : Cards]
    BY <2>1
  <2>2. CASE m \in [op : {"set"}, card : Controls, to : BOOLEAN]
    BY <2>2
  <2> QED
    BY <2>1, <2>2 DEF Message
<1>2. ASSUME NEW a \in Answered, a.op # "redraw"
      PROVE  a.card \in Cards /\ a.is \in BOOLEAN
  <2>1. CASE a \in [op : {"poll", "init"}, card : Cards, is : BOOLEAN]
    BY <2>1
  <2>2. CASE a \in [op : {"redraw"}]
    BY <1>2, <2>2
  <2> QED
    BY <2>1, <2>2 DEF Answered
<1> QED
  BY <1>1, <1>2

\* The daemon answers the oldest request.
LEMMA ServesTyped ==
    ASSUME WdTypeOK, DaemonServes
    PROVE  WdTypeOK'
<1> DEFINE m == Head(wire)
           b == daemon[ControlOf(m.card)]
           a == [op |-> m.op, card |-> m.card, is |-> b]
<1>1. wire # <<>> /\ wire' = Tail(wire)
      /\ UNCHANGED <<localWs, localRetry, polls, shown, due, recheck, losses, edits>>
  BY DEF DaemonServes
<1>2. m \in Message /\ wire' \in Seq(Message)
  BY <1>1, TakenFrom DEF WdTypeOK
<1>3. daemon \in [Controls -> BOOLEAN] /\ back \in Seq(Answered)
  BY DEF WdTypeOK
<1>4. daemon' \in [Controls -> BOOLEAN] /\ back' \in Seq(Answered)
  <2>1. CASE m.op = "set"
    <3>1. m.card \in Controls /\ m.to \in BOOLEAN
      BY <1>2, <2>1, MessageParts
    <3>2. daemon' = [daemon EXCEPT ![m.card] = m.to]
          /\ back' = IF m.card = "routes" THEN Append(back, [op |-> "redraw"]) ELSE back
      BY <2>1 DEF DaemonServes
    <3> HIDE DEF m
    <3>3. daemon' \in [Controls -> BOOLEAN]
      BY <1>3, <3>1, <3>2
    <3>4. [op |-> "redraw"] \in Answered
      BY DEF Answered
    <3>5. back' \in Seq(Answered)
      BY <1>3, <3>2, <3>4
    <3> QED
      BY <3>3, <3>5
  <2>2. CASE m.op # "set"
    <3>1. m.op \in {"poll", "init"} /\ m.card \in Cards
      BY <1>2, <2>2, MessageParts
    <3>2. daemon' = daemon /\ back' = Append(back, a)
      BY <2>2 DEF DaemonServes
    <3> HIDE DEF m
    <3>3. ControlOf(m.card) \in Controls
      BY <3>1 DEF ControlOf, Controls, Cards
    <3>4. b \in BOOLEAN
      BY <1>3, <3>3
    <3> HIDE DEF b
    <3>5. a \in Answered
      BY <3>1, <3>4 DEF Answered
    <3> HIDE DEF a
    <3> QED
      BY <1>3, <3>2, <3>5
  <2> QED
    BY <2>1, <2>2
<1> QED
  BY <1>1, <1>2, <1>4 DEF WdTypeOK

\* The page takes the oldest answer.
LEMMA AnsweredTyped ==
    ASSUME WdTypeOK, LocalMessage
    PROVE  WdTypeOK'
<1> DEFINE a == Head(back)
<1>1. back # <<>> /\ back' = Tail(back)
      /\ UNCHANGED <<localWs, localRetry, daemon, due, recheck, losses, edits>>
  BY DEF LocalMessage
<1>2. a \in Answered /\ back' \in Seq(Answered)
  BY <1>1, TakenFrom DEF WdTypeOK
<1>3. CASE a.op = "redraw"
  <2>1. LocalSend(<<Ask("poll", "routes")>>) /\ UNCHANGED <<shown, polls>>
    BY <1>3 DEF LocalMessage
  <2>2. Ask("poll", "routes") \in Message
    BY Requests DEF Cards
  <2>3. wire' \in Seq(Message)
    BY <2>1, <2>2, SentTyped DEF WdTypeOK
  <2> QED
    BY <1>1, <1>2, <2>1, <2>3 DEF WdTypeOK
<1>4. CASE a.op # "redraw"
  <2>1. a.card \in Cards /\ a.is \in BOOLEAN
    BY <1>2, <1>4, MessageParts
  <2>2. /\ shown' = [shown EXCEPT ![a.card] = a.is] /\ wire' = wire
        /\ polls' = IF a.op = "init" THEN [polls EXCEPT ![a.card] = polls[a.card] + 1] ELSE polls
    BY <1>4 DEF LocalMessage
  <2> HIDE DEF a
  <2>3. shown' \in [Cards -> BOOLEAN]
    BY <2>1, <2>2 DEF WdTypeOK
  <2>4. polls' \in [Polled -> Nat]
    <3>1. polls \in [Polled -> Nat]
      BY DEF WdTypeOK
    <3>2. CASE a.op = "init" /\ a.card \in Polled
      BY <2>2, <3>1, <3>2
    <3>3. CASE ~(a.op = "init" /\ a.card \in Polled)
      BY <2>2, <3>1, <3>3
    <3> QED
      BY <3>2, <3>3
  <2> QED
    BY <1>1, <1>2, <2>2, <2>3, <2>4 DEF WdTypeOK
<1> QED
  BY <1>3, <1>4

\* The page and the daemon keep their types, whatever polls pile up.
THEOREM DaemonTyped == WdSpec => []WdTypeOK
<1>1. WdInit => WdTypeOK
  <2> SUFFICES ASSUME WdInit PROVE WdTypeOK
    OBVIOUS
  <2>1. recheck \in BOOLEAN /\ wire \in Seq(Message) /\ back \in Seq(Answered)
    <3>1. recheck \in BOOLEAN
      BY Zenon DEF WdInit
    <3>2. wire = <<>> /\ back = <<>>
      BY DEF WdInit
    <3> QED
      BY <3>1, <3>2
  <2> QED
    BY <2>1, DaemonAssumption DEF WdInit, WdTypeOK
<1>2. WdTypeOK /\ [WdNext]_wdVars => WdTypeOK'
  <2> SUFFICES ASSUME WdTypeOK, [WdNext]_wdVars PROVE WdTypeOK'
    OBVIOUS
  <2>1. CASE UNCHANGED wdVars
    BY <2>1 DEF wdVars, WdTypeOK
  <2>2. CASE PollMonStats \/ PollSysVol \/ PollInputStats \/ PollTuneStatus \/ SyncAudioControls
    BY <2>2, PollTyped DEF PollMonStats, PollSysVol, PollInputStats, PollTuneStatus,
       SyncAudioControls, Poll, Cards, WdTypeOK
  <2>3. CASE OpenPanel
    BY <2>3, PollTyped DEF OpenPanel, Cards, WdTypeOK
  <2>4. CASE InputRecheck
    <3>1. recheck' \in BOOLEAN
      BY <2>4, Zenon DEF InputRecheck
    <3> QED
      BY <2>4, <3>1, PollTyped DEF InputRecheck, Cards
  <2> QED
    BY <2>1, <2>2, <2>3, <2>4, LinkTyped, EditsTyped, ServesTyped, AnsweredTyped DEF WdNext
<1> QED
  BY <1>1, <1>2, PTL DEF WdSpec

-----------------------------------------------------------------------------
(* The receiver cards.  A request or an answer is on the way only at the   *)
(* current connection of its host, and a statistics request names a card   *)
(* of that host: removing a card, which shifts the indices, abandons every *)
(* current connection, so that no such index outlives the shift.           *)

\* Card i of the list rs is one of host h.
Hosted(rs, i, h) == i \in DOMAIN rs /\ rs[i].host = h

\* Something is under way on the connection c.
Pending(c) == c.req # <<>> \/ c.ans # <<>>

\* Whatever is under way on c will be applied to a card of its host, and an
\* answer to a mute command says what was commanded.
AsksRight(c, rs) ==
    /\ \A k \in DOMAIN c.req : c.req[k].cmd = "stats" => Hosted(rs, c.req[k].idx, c.host)
    /\ \A k \in DOMAIN c.ans :
          LET q == c.ans[k].req
          IN  IF q.cmd = "stats" THEN Hosted(rs, q.idx, c.host) ELSE c.ans[k].muted = q.to

\* The last answer says whether the receiver is muted, and so does the button
\* when nothing is under way.
Truthful(c, m) ==
    /\ c.ans # <<>> => c.ans[Len(c.ans)].muted = m
    /\ c.ws = "open" /\ c.stats # Nobody /\ ~Pending(c) => c.muted = m

ConnGood(c, n, rs, cur) ==
    /\ c.stats \in {Nobody, c.host}
    /\ AsksRight(c, rs)
    /\ Pending(c) => n = cur[c.host]

CardGood(h, rs, cs, cur, mute) ==
    cur[h] # 0 =>
        /\ cur[h] \in DOMAIN cs /\ cs[cur[h]].host = h
        /\ Hosted(rs, cs[cur[h]].idx, h)
        /\ Truthful(cs[cur[h]], mute[h])

RxGood(rs, cs, cur, mute) ==
    /\ \A n \in DOMAIN cs : ConnGood(cs[n], n, rs, cur)
    /\ \A h \in Hosts : CardGood(h, rs, cs, cur, mute)

RxInv ==
    /\ RxTypeOK
    /\ stored = receivers
    /\ RxGood(receivers, conns, rxConns, rxMuted)

\* A list has places 1 .. n.
LEMMA PlacesOf ==
    ASSUME NEW S, NEW s \in Seq(S)
    PROVE  Len(s) \in Nat /\ DOMAIN s = 1 .. Len(s) /\ \A i \in 1 .. Len(s) : s[i] \in S
OBVIOUS

\* What closing and abandoning leave of a connection object.
LEMMA ClosingIs ==
    ASSUME NEW c \in Conn
    PROVE  /\ Closing(c) \in Conn
           /\ Closing(c).host = c.host /\ Closing(c).idx = c.idx
           /\ Closing(c).stats = c.stats /\ Closing(c).muted = c.muted
           /\ Closing(c).req = <<>> /\ Closing(c).ans = <<>>
           /\ Closing(c).ws \in {"closing", "closed"}
<1> DEFINE w == IF c.ws = "closed" THEN c.ws ELSE "closing"
           none == <<>>
<1>1. w \in {"closing", "closed"} /\ none \in Seq(Request) /\ none \in Seq(Reply)
  OBVIOUS
<1>2. Closing(c) = [c EXCEPT !.polling = FALSE, !.req = none, !.ans = none, !.ws = w]
  BY DEF Closing
<1>3. none = <<>>
  OBVIOUS
<1> HIDE DEF w, none
<1> QED
  BY <1>1, <1>2, <1>3 DEF Conn

\* Abandoning forgets the statistics as well.
LEMMA AbandonedIs ==
    ASSUME NEW c \in Conn
    PROVE  /\ Abandoned(c) \in Conn
           /\ Abandoned(c).host = c.host /\ Abandoned(c).idx = c.idx
           /\ Abandoned(c).stats = Nobody
           /\ Abandoned(c).req = <<>> /\ Abandoned(c).ans = <<>>
           /\ Abandoned(c).ws \in {"closing", "closed"}
<1> DEFINE d == Closing(c)
<1>1. d \in Conn /\ d.host = c.host /\ d.idx = c.idx /\ d.req = <<>> /\ d.ans = <<>>
      /\ d.ws \in {"closing", "closed"}
  BY ClosingIs
<1> HIDE DEF d
<1>2. Abandoned(c) = [d EXCEPT !.stats = Nobody, !.muted = FALSE]
  BY DEF Abandoned, d
<1> QED
  BY <1>1, <1>2 DEF Conn

\* What a new connection object is.
LEMMA NewConnIs ==
    ASSUME NEW h \in Hosts, NEW i \in 1 .. MaxRx
    PROVE  /\ NewConn(h, i) \in Conn
           /\ NewConn(h, i).host = h /\ NewConn(h, i).idx = i
           /\ NewConn(h, i).stats = Nobody
           /\ NewConn(h, i).req = <<>> /\ NewConn(h, i).ans = <<>>
           /\ NewConn(h, i).ws = "connecting"
BY DEF NewConn, Conn

\* A quiet object nobody has heard from is good whatever the list.
LEMMA SilentIsGood ==
    ASSUME NEW c, c.stats = Nobody, c.req = <<>>, c.ans = <<>>, NEW n, NEW rs, NEW cur, NEW m
    PROVE  ConnGood(c, n, rs, cur) /\ Truthful(c, m)
<1>1. DOMAIN <<>> = {}
  OBVIOUS
<1> QED
  BY <1>1 DEF ConnGood, AsksRight, Pending, Truthful

\* A finite nonempty set of positive numbers has a largest one.
LEMMA LargestOf ==
    ASSUME NEW m \in Nat, NEW T, T \subseteq 1 .. m, T # {}
    PROVE  \E k \in T : \A j \in T : j <= k
<1> DEFINE U == {m - j : j \in T}
<1>1. U \subseteq Nat /\ U # {}
  <2>1. \A j \in T : m - j \in Nat
    OBVIOUS
  <2> QED
    BY <2>1, Zenon
<1>2. PICK x \in U : \A y \in U : x <= y
  <2> HIDE DEF U
  <2> QED
    BY <1>1, NatLeast
<1>3. PICK k \in T : x = m - k
  BY <1>2, Zenon
<1>4. ASSUME NEW j \in T PROVE j <= k
  <2>1. m - j \in U
    OBVIOUS
  <2> QED
    BY <1>2, <1>3, <2>1
<1> QED
  BY <1>4

\* Building cards first, first + 1, ... of a list again: the objects there are
\* stay as they are or are abandoned, as the current one of every host built
\* again is, and the new ones are silent.
Respawned(list, first, objects, current, cs, cur) ==
    LET m == Len(objects)
        n == Len(list) - first + 1
        rebuilt == {list[j].host : j \in first .. Len(list)}
    IN  /\ cs \in Seq(Conn) /\ Len(cs) = m + n /\ cur \in [Hosts -> 0 .. m + n]
        /\ \A i \in 1 .. m : /\ cs[i] = objects[i] \/ cs[i] = Abandoned(objects[i])
                             /\ i = current[objects[i].host] /\ objects[i].host \in rebuilt
                                  => cs[i] = Abandoned(objects[i])
        /\ \A i \in m + 1 .. m + n :
              /\ cs[i].stats = Nobody /\ cs[i].req = <<>> /\ cs[i].ans = <<>>
              /\ cs[i].idx = first + (i - m) - 1 /\ cs[i].host = list[first + (i - m) - 1].host
        /\ \A h \in Hosts : IF h \in rebuilt
                            THEN cur[h] \in m + 1 .. m + n /\ cs[cur[h]].host = h
                            ELSE cur[h] = current[h]

\* That is what rebuilding does (loadReceivers, addReceiver, removeReceiver).
LEMMA SpawnedIs ==
    ASSUME NEW list \in Seq(Receiver), Len(list) <= MaxRx, NEW first \in 1 .. Len(list) + 1,
           NEW objects \in Seq(Conn), NEW current \in [Hosts -> 0 .. Len(objects)],
           \A h \in Hosts : current[h] # 0 => objects[current[h]].host = h
    PROVE  LET s == Spawned(list, first, objects, current)
           IN  Respawned(list, first, objects, current, s.conns, s.rxConns)
<1> DEFINE m == Len(objects)
           n == Len(list) - first + 1
           fresh == [k \in 1 .. n |-> NewConn(list[first + k - 1].host, first + k - 1)]
           number == [k \in 1 .. Len(fresh) |-> Len(objects) + k]
           all == objects \o fresh
           own(h) == {k \in 1 .. Len(fresh) : fresh[k].host = h}
           last(h) == IF own(h) = {} THEN current[h]
                      ELSE number[CHOOSE k \in own(h) : \A j \in own(h) : j <= k]
           superseded(i) == LET h == all[i].host
                            IN  /\ last(h) # current[h]
                                /\ i # last(h)
                                /\ i = current[h] \/ i > Len(objects)
           cs == [i \in 1 .. Len(all) |-> IF superseded(i) THEN Abandoned(all[i]) ELSE all[i]]
           cur == [h \in Hosts |-> last(h)]
           rebuilt == {list[j].host : j \in first .. Len(list)}
<1>1. /\ Spawned(list, first, objects, current).conns = cs
      /\ Spawned(list, first, objects, current).rxConns = cur
  BY DEF Spawned
<1>2. /\ m \in Nat /\ n \in Nat /\ Len(list) \in Nat /\ first \in Nat /\ first >= 1
      /\ Len(list) <= MaxRx /\ MaxRx \in Nat
      /\ \A i \in 1 .. m : objects[i] \in Conn
      /\ \A j \in 1 .. Len(list) : list[j].host \in Hosts
  <2>1. m \in Nat /\ Len(list) \in Nat /\ MaxRx \in Nat
    BY ReceiversAssumption
  <2>2. n \in Nat /\ first \in Nat /\ first >= 1
    BY <2>1
  <2>3. \A i \in 1 .. m : objects[i] \in Conn
    BY PlacesOf
  <2>4. \A j \in 1 .. Len(list) : list[j] \in Receiver
    BY PlacesOf
  <2>5. \A r \in Receiver : r.host \in Hosts
    BY DEF Receiver
  <2> QED
    BY <2>1, <2>2, <2>3, <2>4, <2>5
<1>3. ASSUME NEW k \in 1 .. n
      PROVE  /\ first + k - 1 \in 1 .. MaxRx /\ first + k - 1 \in first .. Len(list)
             /\ list[first + k - 1].host \in Hosts
  BY <1>2
<1>4. ASSUME NEW k \in 1 .. n
      PROVE  /\ fresh[k] \in Conn /\ fresh[k].stats = Nobody
             /\ fresh[k].req = <<>> /\ fresh[k].ans = <<>>
             /\ fresh[k].idx = first + k - 1 /\ fresh[k].host = list[first + k - 1].host
  <2>1. fresh[k] = NewConn(list[first + k - 1].host, first + k - 1)
    OBVIOUS
  <2> QED
    BY <1>3, <2>1, NewConnIs
<1>5. fresh \in Seq(Conn) /\ Len(fresh) = n
  <2>1. fresh \in [1 .. n -> Conn]
    <3>1. \A k \in 1 .. n : fresh[k] \in Conn
      BY <1>4
    <3> QED
      BY <3>1
  <2> HIDE DEF fresh, n
  <2> QED
    BY <1>2, <2>1
<1> HIDE DEF fresh
<1>6. /\ all \in Seq(Conn) /\ Len(all) = m + n
      /\ \A i \in 1 .. m : all[i] = objects[i]
      /\ \A i \in m + 1 .. m + n : all[i] = fresh[i - m]
  <2>1. all \in Seq(Conn) /\ Len(all) = m + n
        /\ \A i \in 1 .. m + n : all[i] = IF i <= m THEN objects[i] ELSE fresh[i - m]
    <3>1. /\ all \in Seq(Conn) /\ Len(all) = Len(objects) + Len(fresh)
          /\ \A i \in 1 .. Len(objects) + Len(fresh) :
                all[i] = IF i <= Len(objects) THEN objects[i] ELSE fresh[i - Len(objects)]
      BY <1>5, ConcatProperties, Zenon
    <3> HIDE DEF all, n
    <3> QED
      BY <1>5, <3>1
  <2> HIDE DEF all, m, n
  <2> QED
    BY <1>2, <2>1
<1>7. \A k \in 1 .. n : number[k] = m + k
  BY <1>5
<1> HIDE DEF all, m, n, number
<1>8. ASSUME NEW h \in Hosts
      PROVE  IF h \in rebuilt THEN last(h) \in m + 1 .. m + n /\ all[last(h)].host = h
                              ELSE last(h) = current[h]
  <2>1. own(h) = {k \in 1 .. n : fresh[k].host = h}
    BY <1>5
  <2>2. CASE h \in rebuilt
    <3>1. PICK j \in first .. Len(list) : list[j].host = h
      BY <2>2
    <3>2. j - first + 1 \in 1 .. n /\ first + (j - first + 1) - 1 = j
      BY <1>2, <3>1 DEF n
    <3>3. own(h) # {}
      <4>1. fresh[j - first + 1].host = h
        BY <1>4, <3>1, <3>2
      <4> QED
        BY <2>1, <3>2, <4>1
    <3>4. own(h) \subseteq 1 .. n
      BY <2>1
    <3> DEFINE k == CHOOSE k \in own(h) : \A i \in own(h) : i <= k
    <3>5. k \in own(h)
      <4> HIDE DEF own
      <4>1. \E x \in own(h) : \A i \in own(h) : i <= x
        BY <1>2, <3>3, <3>4, LargestOf
      <4> QED
        BY <4>1
    <3>6. last(h) = number[k]
      BY <3>3
    <3> HIDE DEF k, own, last
    <3>7. k \in 1 .. n /\ fresh[k].host = h
      BY <2>1, <3>5
    <3>8. m + k \in m + 1 .. m + n /\ (m + k) - m = k
      BY <1>2, <3>7
    <3> QED
      BY <1>6, <1>7, <2>2, <3>6, <3>7, <3>8
  <2>3. CASE h \notin rebuilt
    <3>1. own(h) = {}
      <4>1. ASSUME NEW k \in 1 .. n PROVE fresh[k].host # h
        BY <1>3, <1>4, <2>3
      <4> QED
        BY <2>1, <4>1
    <3> QED
      BY <2>3, <3>1
  <2> QED
    BY <2>2, <2>3
<1> HIDE DEF last, rebuilt
<1>9. \A h \in Hosts : current[h] \in 0 .. m
  BY DEF m
<1>10. \A i \in 1 .. m + n : cs[i] = IF superseded(i) THEN Abandoned(all[i]) ELSE all[i]
  BY <1>6
<1>11. cs \in Seq(Conn) /\ Len(cs) = m + n
  <2>1. \A i \in 1 .. m + n : all[i] \in Conn
    BY <1>6
  <2>2. cs \in [1 .. m + n -> Conn]
    <3>1. \A i \in 1 .. m + n : cs[i] \in Conn
      <4> HIDE DEF cs, superseded
      <4> QED
        BY <1>10, <2>1, AbandonedIs
    <3>2. cs = [i \in 1 .. m + n |-> cs[i]]
      BY <1>6
    <3> HIDE DEF cs
    <3> QED
      BY <3>1, <3>2
  <2>3. m + n \in Nat
    BY <1>2
  <2> HIDE DEF cs
  <2> QED
    BY <2>2, <2>3
<1>12. cur \in [Hosts -> 0 .. m + n] /\ \A h \in Hosts : cur[h] = last(h)
  <2>1. ASSUME NEW h \in Hosts PROVE last(h) \in 0 .. m + n
    <3>1. CASE h \in rebuilt
      BY <1>2, <1>8, <3>1
    <3>2. CASE h \notin rebuilt
      BY <1>2, <1>8, <1>9, <3>2
    <3> QED
      BY <3>1, <3>2
  <2> QED
    BY <2>1
<1> HIDE DEF cs, cur
<1>13. ASSUME NEW i \in 1 .. m
       PROVE  /\ cs[i] = objects[i] \/ cs[i] = Abandoned(objects[i])
              /\ i = current[objects[i].host] /\ objects[i].host \in rebuilt
                   => cs[i] = Abandoned(objects[i])
  <2>1. i \in 1 .. m + n /\ all[i] = objects[i]
    BY <1>2, <1>6
  <2>2. cs[i] = IF superseded(i) THEN Abandoned(objects[i]) ELSE objects[i]
    BY <1>10, <2>1
  <2>3. ASSUME i = current[objects[i].host], objects[i].host \in rebuilt
        PROVE  superseded(i)
    <3> DEFINE h == objects[i].host
    <3>1. h \in Hosts
      BY <1>2 DEF Conn
    <3>2. last(h) \in m + 1 .. m + n
      BY <1>8, <2>3, <3>1
    <3>3. last(h) # i
      BY <1>2, <3>2
    <3> QED
      BY <2>1, <2>3, <3>3
  <2> HIDE DEF superseded
  <2> QED
    BY <2>2, <2>3
<1>14. ASSUME NEW i \in m + 1 .. m + n
       PROVE  /\ cs[i].stats = Nobody /\ cs[i].req = <<>> /\ cs[i].ans = <<>>
              /\ cs[i].idx = first + (i - m) - 1 /\ cs[i].host = list[first + (i - m) - 1].host
  <2>1. i \in 1 .. m + n /\ i - m \in 1 .. n
    BY <1>2
  <2>2. /\ all[i] \in Conn /\ all[i].stats = Nobody /\ all[i].req = <<>> /\ all[i].ans = <<>>
        /\ all[i].idx = first + (i - m) - 1 /\ all[i].host = list[first + (i - m) - 1].host
    BY <1>4, <1>6, <2>1
  <2>3. cs[i] = all[i] \/ cs[i] = Abandoned(all[i])
    BY <1>10, <2>1
  <2> QED
    BY <2>2, <2>3, AbandonedIs
<1>15. ASSUME NEW h \in Hosts
       PROVE  IF h \in rebuilt THEN cur[h] \in m + 1 .. m + n /\ cs[cur[h]].host = h
              ELSE cur[h] = current[h]
  <2>1. CASE h \in rebuilt
    <3>1. cur[h] \in m + 1 .. m + n /\ all[cur[h]].host = h
      BY <1>8, <1>12, <2>1
    <3>2. cur[h] \in 1 .. m + n
      BY <1>2, <3>1
    <3>3. all[cur[h]] \in Conn
      BY <1>6, <3>2
    <3>4. cs[cur[h]] = all[cur[h]] \/ cs[cur[h]] = Abandoned(all[cur[h]])
      BY <1>10, <3>2
    <3> QED
      BY <2>1, <3>1, <3>3, <3>4, AbandonedIs
  <2>2. CASE h \notin rebuilt
    BY <1>8, <1>12, <2>2
  <2> QED
    BY <2>1, <2>2
<1>16. Respawned(list, first, objects, current, cs, cur)
  BY <1>11, <1>12, <1>13, <1>14, <1>15 DEF Respawned, m, n, rebuilt
<1> QED
  BY <1>1, <1>16

\* Goodness of the list, when the cards kept are good already.
LEMMA RespawnedIsGood ==
    ASSUME NEW list \in Seq(Receiver), NEW first \in 1 .. Len(list) + 1,
           NEW objects \in Seq(Conn), NEW current, NEW cs, NEW cur, NEW mute,
           Respawned(list, first, objects, current, cs, cur),
           \A h \in Hosts : current[h] \in 0 .. Len(objects),
           \A i \in DOMAIN objects :
              \/ /\ i = current[objects[i].host]
                 /\ \E j \in first .. Len(list) : list[j].host = objects[i].host
              \/ ConnGood(objects[i], i, list, current),
           \A h \in Hosts :
              \/ \E j \in first .. Len(list) : list[j].host = h
              \/ CardGood(h, list, objects, current, mute)
    PROVE  RxGood(list, cs, cur, mute)
<1> DEFINE m == Len(objects)
           n == Len(list) - first + 1
           rebuilt == {list[j].host : j \in first .. Len(list)}
<1>1. /\ m \in Nat /\ DOMAIN objects = 1 .. m /\ \A i \in 1 .. m : objects[i] \in Conn
      /\ Len(list) \in Nat /\ DOMAIN list = 1 .. Len(list)
  BY PlacesOf
<1>2. n \in Nat /\ first \in Nat /\ first >= 1
  BY <1>1
<1>3. \A h : h \in rebuilt <=> \E j \in first .. Len(list) : list[j].host = h
  OBVIOUS
<1> HIDE DEF m, n, rebuilt
<1>4. /\ cs \in Seq(Conn) /\ Len(cs) = m + n /\ cur \in [Hosts -> 0 .. m + n]
      /\ \A i \in 1 .. m : /\ cs[i] = objects[i] \/ cs[i] = Abandoned(objects[i])
                           /\ i = current[objects[i].host] /\ objects[i].host \in rebuilt
                                => cs[i] = Abandoned(objects[i])
      /\ \A i \in m + 1 .. m + n :
            /\ cs[i].stats = Nobody /\ cs[i].req = <<>> /\ cs[i].ans = <<>>
            /\ cs[i].idx = first + (i - m) - 1 /\ cs[i].host = list[first + (i - m) - 1].host
      /\ \A h \in Hosts : IF h \in rebuilt
                          THEN cur[h] \in m + 1 .. m + n /\ cs[cur[h]].host = h
                          ELSE cur[h] = current[h]
  BY DEF Respawned, m, n, rebuilt
<1>5. DOMAIN cs = 1 .. m + n /\ \A i \in DOMAIN cs : i \in 1 .. m \/ i \in m + 1 .. m + n
  BY <1>1, <1>2, <1>4
<1>6. ASSUME NEW i \in DOMAIN cs PROVE ConnGood(cs[i], i, list, cur)
  <2>1. CASE i \in m + 1 .. m + n
    BY <1>4, <2>1, SilentIsGood
  <2>2. CASE i \in 1 .. m /\ cs[i] = Abandoned(objects[i])
    <3>1. cs[i].stats = Nobody /\ cs[i].req = <<>> /\ cs[i].ans = <<>>
      BY <1>1, <2>2, AbandonedIs
    <3> QED
      BY <3>1, SilentIsGood
  <2>3. CASE i \in 1 .. m /\ cs[i] # Abandoned(objects[i])
    <3>1. cs[i] = objects[i] /\ ~ (i = current[objects[i].host] /\ objects[i].host \in rebuilt)
      BY <1>4, <2>3
    <3>2. ConnGood(objects[i], i, list, current)
      BY <1>1, <1>3, <2>3, <3>1
    <3>3. objects[i].host \in Hosts
      BY <1>1, <2>3 DEF Conn
    <3>4. i = current[objects[i].host] => i = cur[objects[i].host]
      BY <1>4, <3>1, <3>3
    <3> QED
      BY <3>1, <3>2, <3>4 DEF ConnGood
  <2> QED
    BY <1>5, <2>1, <2>2, <2>3
<1>7. ASSUME NEW h \in Hosts PROVE CardGood(h, list, cs, cur, mute)
  <2>1. CASE h \in rebuilt
    <3> DEFINE i == cur[h]
    <3>1. i \in m + 1 .. m + n /\ cs[i].host = h /\ i \in DOMAIN cs
      BY <1>1, <1>2, <1>4, <1>5, <2>1
    <3> HIDE DEF i
    <3>2. first + (i - m) - 1 \in DOMAIN list
      BY <1>1, <1>2, <3>1 DEF n
    <3>3. Hosted(list, cs[i].idx, h)
      BY <1>4, <3>1, <3>2 DEF Hosted
    <3>4. Truthful(cs[i], mute[h])
      BY <1>4, <3>1, SilentIsGood
    <3> QED
      BY <3>1, <3>3, <3>4 DEF CardGood, i
  <2>2. CASE h \notin rebuilt
    <3> DEFINE i == cur[h]
    <3>1. i = current[h] /\ CardGood(h, list, objects, current, mute)
      BY <1>3, <1>4, <2>2
    <3>2. CASE i = 0
      BY <3>2 DEF CardGood
    <3>3. CASE i # 0
      <4> HIDE DEF i
      <4>1. /\ i \in 1 .. m /\ objects[i].host = h /\ Hosted(list, objects[i].idx, h)
            /\ Truthful(objects[i], mute[h])
        BY <1>1, <3>1, <3>3 DEF CardGood
      <4>2. i \in DOMAIN cs
        BY <1>1, <1>2, <1>5, <4>1
      <4>3. CASE cs[i] = objects[i]
        BY <4>1, <4>2, <4>3 DEF CardGood, i
      <4>4. CASE cs[i] = Abandoned(objects[i])
        <5>1. /\ cs[i].host = h /\ cs[i].idx = objects[i].idx
              /\ cs[i].stats = Nobody /\ cs[i].req = <<>> /\ cs[i].ans = <<>>
          BY <1>1, <4>1, <4>4, AbandonedIs
        <5>2. Truthful(cs[i], mute[h])
          BY <5>1, SilentIsGood
        <5> QED
          BY <4>1, <4>2, <5>1, <5>2 DEF CardGood, i
      <4> QED
        BY <1>4, <4>1, <4>3, <4>4
    <3> QED
      BY <3>2, <3>3
  <2> QED
    BY <2>1, <2>2
<1> QED
  BY <1>6, <1>7 DEF RxGood

\* The type of what rebuilding leaves.
LEMMA RespawnedTyped ==
    ASSUME NEW list \in Seq(Receiver), NEW first \in 1 .. Len(list) + 1,
           NEW objects \in Seq(Conn), NEW current, NEW cs, NEW cur,
           Respawned(list, first, objects, current, cs, cur),
           Len(objects) + Len(list) - first + 1 <= MaxConns
    PROVE  cs \in Seq(Conn) /\ Len(cs) <= MaxConns /\ cur \in [Hosts -> 0 .. MaxConns]
<1> DEFINE m == Len(objects)
           n == Len(list) - first + 1
<1>1. m \in Nat /\ n \in Nat /\ first \in Nat /\ Len(list) \in Nat
  BY PlacesOf
<1>2. m + n <= MaxConns /\ MaxConns \in Nat
  <2>1. m + n = Len(objects) + Len(list) - first + 1
    BY <1>1
  <2> HIDE DEF m, n
  <2> QED
    BY <2>1, ReceiversAssumption
<1>3. cs \in Seq(Conn) /\ Len(cs) = m + n /\ cur \in [Hosts -> 0 .. m + n]
  BY DEF Respawned
<1> HIDE DEF m, n
<1>4. 0 .. m + n \subseteq 0 .. MaxConns
  BY <1>1, <1>2
<1> QED
  BY <1>2, <1>3, <1>4

\* What the invariant says of the current connections.
LEMMA CurrentIs ==
    ASSUME RxInv
    PROVE  /\ rxConns \in [Hosts -> 0 .. MaxConns]
           /\ \A h \in Hosts : rxConns[h] \in 0 .. Len(conns)
           /\ \A h \in Hosts : rxConns[h] # 0 => conns[rxConns[h]].host = h
<1>1. Len(conns) \in Nat /\ DOMAIN conns = 1 .. Len(conns)
  BY PlacesOf DEF RxInv, RxTypeOK
<1>2. rxConns \in [Hosts -> 0 .. MaxConns]
  BY DEF RxInv, RxTypeOK
<1>3. ASSUME NEW h \in Hosts
      PROVE  rxConns[h] \in 0 .. Len(conns) /\ (rxConns[h] # 0 => conns[rxConns[h]].host = h)
  <2>1. CardGood(h, receivers, conns, rxConns, rxMuted)
    BY DEF RxInv, RxGood
  <2> QED
    BY <1>1, <2>1 DEF CardGood
<1> QED
  BY <1>2, <1>3

\* A receiver is added at the end and connected.
LEMMA AddReceiverKeeps ==
    ASSUME RxInv, NEW h \in Hosts, AddReceiver(h)
    PROVE  RxInv'
<1> DEFINE new == [host |-> h, channel |-> CHOOSE ch \in Channels : TRUE]
           list == Append(receivers, new)
           first == Len(list)
           s == Spawned(list, first, conns, rxConns)
<1>1. /\ receivers \in Seq(Receiver) /\ Len(receivers) < MaxRx /\ conns \in Seq(Conn)
      /\ rxMuted \in [Hosts -> BOOLEAN] /\ rxFails \in 0 .. MaxFails
      /\ receivers' = list /\ stored' = list /\ UNCHANGED <<rxMuted, rxFails>>
      /\ Spawn(list, first, conns, rxConns)
  BY DEF AddReceiver, RxInv, RxTypeOK
<1>2. new \in Receiver /\ new.host = h
  BY ReceiversAssumption DEF Receiver
<1> HIDE DEF new
<1>3. /\ list \in Seq(Receiver) /\ Len(list) = Len(receivers) + 1
      /\ \A i \in DOMAIN receivers : i \in DOMAIN list /\ list[i] = receivers[i]
      /\ list[Len(list)] = new
  BY <1>1, <1>2
<1>4. Len(list) <= MaxRx /\ first \in 1 .. Len(list) + 1 /\ first .. Len(list) = {Len(list)}
  <2>1. Len(receivers) \in Nat
    BY <1>1
  <2> HIDE DEF list
  <2> QED
    BY <1>1, <1>3, <2>1, ReceiversAssumption
<1> HIDE DEF list, first
<1>5. /\ rxConns \in [Hosts -> 0 .. Len(conns)]
      /\ \A g \in Hosts : rxConns[g] # 0 => conns[rxConns[g]].host = g
  BY CurrentIs
<1>6. Respawned(list, first, conns, rxConns, s.conns, s.rxConns)
  BY <1>1, <1>3, <1>4, <1>5, SpawnedIs
<1>7. conns' = s.conns /\ rxConns' = s.rxConns
      /\ Len(conns) + Len(list) - first + 1 <= MaxConns
  BY <1>1 DEF Spawn
<1> HIDE DEF s
<1>8. \A i \in DOMAIN receivers : \A g : Hosted(receivers, i, g) => Hosted(list, i, g)
  BY <1>3 DEF Hosted
<1>9. ASSUME NEW i \in DOMAIN conns PROVE ConnGood(conns[i], i, list, rxConns)
  <2>1. ConnGood(conns[i], i, receivers, rxConns)
    BY DEF RxInv, RxGood
  <2>2. \A j, g : Hosted(receivers, j, g) => Hosted(list, j, g)
    BY <1>8 DEF Hosted
  <2> QED
    BY <2>1, <2>2 DEF ConnGood, AsksRight
<1>10. ASSUME NEW g \in Hosts PROVE CardGood(g, list, conns, rxConns, rxMuted)
  <2>1. CardGood(g, receivers, conns, rxConns, rxMuted)
    BY DEF RxInv, RxGood
  <2>2. \A j : Hosted(receivers, j, g) => Hosted(list, j, g)
    BY <1>8 DEF Hosted
  <2> QED
    BY <2>1, <2>2 DEF CardGood
<1>11. RxGood(list, s.conns, s.rxConns, rxMuted)
  BY <1>1, <1>3, <1>4, <1>5, <1>6, <1>9, <1>10, RespawnedIsGood
<1>12. s.conns \in Seq(Conn) /\ Len(s.conns) <= MaxConns /\ s.rxConns \in [Hosts -> 0 .. MaxConns]
  BY <1>1, <1>3, <1>4, <1>6, <1>7, RespawnedTyped
<1> QED
  BY <1>1, <1>3, <1>4, <1>7, <1>11, <1>12 DEF RxInv, RxTypeOK

\* removeReceiver abandons the connection of every card that had one.
LEMMA RemoveReceiverKeeps ==
    ASSUME RxInv, NEW i \in DOMAIN receivers, RemoveReceiver(i)
    PROVE  RxInv'
<1> DEFINE h == receivers[i].host
           n == rxConns[h]
           list == RemoveAt(receivers, i)
           objects == IF n = 0 THEN conns ELSE [conns EXCEPT ![n] = Abandoned(conns[n])]
           current == [rxConns EXCEPT ![h] = 0]
           s == Spawned(list, 1, objects, current)
<1>1. /\ receivers \in Seq(Receiver) /\ Len(receivers) <= MaxRx /\ conns \in Seq(Conn)
      /\ rxMuted \in [Hosts -> BOOLEAN] /\ rxFails \in 0 .. MaxFails
      /\ receivers' = list /\ stored' = list /\ UNCHANGED <<rxMuted, rxFails>>
      /\ Spawn(list, 1, objects, current)
  BY DEF RemoveReceiver, RxInv, RxTypeOK
<1>2. h \in Hosts
  <2>1. receivers[i] \in Receiver
    BY <1>1
  <2> QED
    BY <2>1 DEF Receiver
<1>3. /\ list \in Seq(Receiver) /\ Len(list) = Len(receivers) - 1
      /\ \A j \in 1 .. Len(receivers) - 1 :
            list[j] = IF j < i THEN receivers[j] ELSE receivers[j + 1]
  BY <1>1, RemoveAtIs
<1>4. Len(receivers) \in Nat /\ DOMAIN receivers = 1 .. Len(receivers)
  BY <1>1
<1> HIDE DEF list
<1>5. /\ Len(list) \in Nat /\ DOMAIN list = 1 .. Len(list) /\ Len(list) <= MaxRx
      /\ 1 \in 1 .. Len(list) + 1
  BY <1>1, <1>3, <1>4, ReceiversAssumption
<1>6. /\ rxConns \in [Hosts -> 0 .. Len(conns)]
      /\ \A g \in Hosts : rxConns[g] # 0 => conns[rxConns[g]].host = g
  BY CurrentIs
<1>7. DOMAIN conns = 1 .. Len(conns) /\ Len(conns) \in Nat /\ \A j \in DOMAIN conns : conns[j] \in Conn
  BY <1>1, PlacesOf
<1>8. n # 0 => n \in DOMAIN conns /\ conns[n] \in Conn
  BY <1>2, <1>6, <1>7
<1> HIDE DEF n, h
<1>9. /\ objects \in Seq(Conn) /\ Len(objects) = Len(conns)
      /\ \A j \in DOMAIN conns : objects[j] = IF j = n THEN Abandoned(conns[n]) ELSE conns[j]
  <2>1. CASE n = 0
    BY <1>1, <1>7, <2>1
  <2>2. CASE n # 0
    <3>1. Abandoned(conns[n]) \in Conn
      BY <1>8, <2>2, AbandonedIs
    <3> QED
      BY <1>1, <1>8, <2>2, <3>1
  <2> QED
    BY <2>1, <2>2
<1> HIDE DEF objects
<1>10. DOMAIN objects = DOMAIN conns
  BY <1>7, <1>9
<1>11. /\ current \in [Hosts -> 0 .. Len(objects)]
       /\ \A g \in Hosts : current[g] = IF g = h THEN 0 ELSE rxConns[g]
  BY <1>2, <1>6, <1>7, <1>9
<1> HIDE DEF current
<1>12. ASSUME NEW j \in DOMAIN conns
       PROVE  objects[j].host = conns[j].host
  BY <1>7, <1>9, AbandonedIs
<1>13. \A g \in Hosts : current[g] # 0 => objects[current[g]].host = g
  BY <1>6, <1>7, <1>11, <1>12
<1>14. Respawned(list, 1, objects, current, s.conns, s.rxConns)
  BY <1>3, <1>5, <1>9, <1>11, <1>13, SpawnedIs
<1>15. /\ conns' = s.conns /\ rxConns' = s.rxConns
       /\ Len(objects) + Len(list) - 1 + 1 <= MaxConns
  BY <1>1 DEF Spawn
<1> HIDE DEF s
\* another host with a connection keeps a card
<1>16. ASSUME NEW g \in Hosts, g # h, rxConns[g] # 0
       PROVE  \E j \in 1 .. Len(list) : list[j].host = g
  <2>1. CardGood(g, receivers, conns, rxConns, rxMuted)
    BY DEF RxInv, RxGood
  <2>2. PICK k \in DOMAIN receivers : receivers[k].host = g
    BY <1>16, <2>1 DEF CardGood, Hosted
  <2>3. k # i
    BY <1>16, <2>2 DEF h
  <2>4. CASE k < i
    <3>1. k \in 1 .. Len(list) /\ list[k] = receivers[k]
      BY <1>3, <1>4, <2>4
    <3> QED
      BY <2>2, <3>1
  <2>5. CASE k > i
    <3>1. k - 1 \in 1 .. Len(list) /\ ~(k - 1 < i) /\ (k - 1) + 1 = k
      BY <1>3, <1>4, <2>5
    <3>2. list[k - 1] = receivers[k]
      BY <1>3, <3>1
    <3> QED
      BY <2>2, <3>1, <3>2
  <2> QED
    BY <1>4, <2>3, <2>4, <2>5
<1>17. ASSUME NEW j \in DOMAIN objects
       PROVE  \/ /\ j = current[objects[j].host]
                 /\ \E k \in 1 .. Len(list) : list[k].host = objects[j].host
              \/ ConnGood(objects[j], j, list, current)
  <2> DEFINE g == conns[j].host
  <2>1. j \in DOMAIN conns /\ g \in Hosts /\ objects[j].host = g /\ j # 0
    BY <1>7, <1>10, <1>12 DEF Conn
  <2>2. ConnGood(conns[j], j, receivers, rxConns)
    BY <2>1 DEF RxInv, RxGood
  <2>3. CASE j = n
    <3>1. conns[n] \in Conn /\ objects[j] = Abandoned(conns[n])
      BY <1>7, <1>9, <2>1, <2>3
    <3>2. objects[j].stats = Nobody /\ objects[j].req = <<>> /\ objects[j].ans = <<>>
      BY <3>1, AbandonedIs
    <3> QED
      BY <3>2, SilentIsGood
  <2>4. CASE j # n /\ ~Pending(conns[j])
    <3>1. objects[j] = conns[j]
      BY <1>9, <2>1, <2>4
    <3>2. conns[j].req = <<>> /\ conns[j].ans = <<>>
      BY <2>4 DEF Pending
    <3>3. DOMAIN conns[j].req = {} /\ DOMAIN conns[j].ans = {}
      BY <3>2
    <3>4. AsksRight(conns[j], list)
      BY <3>3 DEF AsksRight
    <3> QED
      BY <2>2, <2>4, <3>1, <3>4 DEF ConnGood
  <2>5. CASE j # n /\ Pending(conns[j])
    <3>1. j = rxConns[g]
      BY <2>2, <2>5 DEF ConnGood
    <3>2. g # h
      BY <2>5, <3>1 DEF n
    <3>3. current[g] = j
      BY <1>11, <2>1, <3>1, <3>2
    <3> HIDE DEF g
    <3> QED
      BY <1>16, <2>1, <3>1, <3>2, <3>3
  <2> QED
    BY <2>3, <2>4, <2>5
<1>18. ASSUME NEW g \in Hosts
       PROVE  \/ \E j \in 1 .. Len(list) : list[j].host = g
              \/ CardGood(g, list, objects, current, rxMuted)
  <2>1. CASE current[g] = 0
    BY <2>1 DEF CardGood
  <2>2. CASE current[g] # 0
    BY <1>11, <1>16, <2>2
  <2> QED
    BY <2>1, <2>2
<1>19. RxGood(list, s.conns, s.rxConns, rxMuted)
  BY <1>3, <1>5, <1>9, <1>11, <1>14, <1>17, <1>18, RespawnedIsGood
<1>20. Len(objects) + Len(list) - 1 + 1 <= MaxConns
  BY <1>15
<1>21. s.conns \in Seq(Conn) /\ Len(s.conns) <= MaxConns /\ s.rxConns \in [Hosts -> 0 .. MaxConns]
  BY <1>3, <1>5, <1>9, <1>14, <1>20, RespawnedTyped
<1> QED
  BY <1>1, <1>3, <1>5, <1>15, <1>19, <1>21 DEF RxInv, RxTypeOK

\* A page loaded, for the first time or again.
LEMMA LoadedIsGood ==
    ASSUME NEW list \in Seq(Receiver), Len(list) <= MaxRx, Len(list) <= MaxConns, NEW mute
    PROVE  LET s == Spawned(list, 1, <<>>, [h \in Hosts |-> 0])
           IN  /\ s.conns \in Seq(Conn) /\ Len(s.conns) <= MaxConns
               /\ s.rxConns \in [Hosts -> 0 .. MaxConns]
               /\ RxGood(list, s.conns, s.rxConns, mute)
<1> DEFINE none == <<>>
           current == [h \in Hosts |-> 0]
           s == Spawned(list, 1, none, current)
<1>1. none \in Seq(Conn) /\ Len(none) = 0 /\ DOMAIN none = {}
  OBVIOUS
<1> HIDE DEF none
<1>2. current \in [Hosts -> 0 .. Len(none)] /\ \A h \in Hosts : current[h] = 0
  BY <1>1
<1> HIDE DEF current
<1>3. Len(list) \in Nat /\ 1 \in 1 .. Len(list) + 1
  BY PlacesOf
<1>4. Respawned(list, 1, none, current, s.conns, s.rxConns)
  BY <1>1, <1>2, <1>3, SpawnedIs
<1> HIDE DEF s
<1>5. \A h \in Hosts : CardGood(h, list, none, current, mute)
  BY <1>2 DEF CardGood
<1>6. RxGood(list, s.conns, s.rxConns, mute)
  BY <1>1, <1>2, <1>3, <1>4, <1>5, RespawnedIsGood
<1>7. Len(none) + Len(list) - 1 + 1 <= MaxConns
  BY <1>1, <1>3
<1>8. s.conns \in Seq(Conn) /\ Len(s.conns) <= MaxConns /\ s.rxConns \in [Hosts -> 0 .. MaxConns]
  BY <1>1, <1>3, <1>4, <1>7, RespawnedTyped
<1> QED
  BY <1>6, <1>8 DEF s, none, current

\* A reload connects the stored list again.
LEMMA ReloadKeeps ==
    ASSUME RxInv, Reload
    PROVE  RxInv'
<1> DEFINE s == Spawned(stored, 1, <<>>, [h \in Hosts |-> 0])
<1>1. /\ stored \in Seq(Receiver) /\ Len(stored) <= MaxRx /\ Len(stored) <= MaxConns
      /\ rxMuted \in [Hosts -> BOOLEAN] /\ rxFails' \in 0 .. MaxFails
      /\ receivers' = stored /\ stored' = stored /\ rxMuted' = rxMuted
      /\ conns' = s.conns /\ rxConns' = s.rxConns
  BY ReceiversAssumption DEF Reload, RxInv, RxTypeOK
<1>2. /\ s.conns \in Seq(Conn) /\ Len(s.conns) <= MaxConns
      /\ s.rxConns \in [Hosts -> 0 .. MaxConns]
      /\ RxGood(stored, s.conns, s.rxConns, rxMuted)
  BY <1>1, LoadedIsGood
<1> HIDE DEF s
<1> QED
  BY <1>1, <1>2 DEF RxInv, RxTypeOK

\* The head, the tail and the last element of a nonempty sequence.
LEMMA TailIs ==
    ASSUME NEW S, NEW s \in Seq(S), s # <<>>
    PROVE  /\ Tail(s) \in Seq(S) /\ Head(s) \in S /\ 1 \in DOMAIN s /\ Head(s) = s[1]
           /\ \A k \in DOMAIN Tail(s) : k + 1 \in DOMAIN s /\ Tail(s)[k] = s[k + 1]
           /\ IF Tail(s) = <<>> THEN s[Len(s)] = Head(s)
              ELSE Tail(s)[Len(Tail(s))] = s[Len(s)]
<1>1. Len(s) \in Nat /\ DOMAIN s = 1 .. Len(s) /\ Len(s) # 0 /\ Head(s) = s[1]
  BY EmptySeq
<1>2. /\ Tail(s) \in Seq(S) /\ Len(Tail(s)) = Len(s) - 1 /\ Head(s) \in S
      /\ \A k \in 1 .. Len(s) - 1 : Tail(s)[k] = s[k + 1]
  BY HeadTailProperties, SMT
<1> DEFINE t == Tail(s)
           n == Len(s)
<1>3. t = <<>> <=> Len(t) = 0
  <2>1. t \in Seq(S)
    BY <1>2
  <2> HIDE DEF t
  <2>2. t # <<>> => Len(t) # 0
    BY <2>1, EmptySeq
  <2> QED
    BY <2>1, <2>2
<1>4. DOMAIN t = 1 .. n - 1 /\ n \in Nat /\ n # 0 /\ Len(t) = n - 1
  <2>1. t \in Seq(S) /\ Len(t) = n - 1
    BY <1>2
  <2> HIDE DEF t
  <2> QED
    BY <1>1, <2>1
<1>5. \A k \in 1 .. n - 1 : t[k] = s[k + 1]
  BY <1>2
<1>6. DOMAIN s = 1 .. n /\ Head(s) = s[1] /\ t \in Seq(S) /\ Head(s) \in S
  BY <1>1, <1>2
<1> HIDE DEF t, n
<1>7. \A k \in DOMAIN t : k + 1 \in DOMAIN s /\ t[k] = s[k + 1]
  BY <1>4, <1>5, <1>6
<1>8. IF t = <<>> THEN s[n] = s[1] ELSE t[Len(t)] = s[n]
  <2>1. CASE t = <<>>
    <3>1. n = 1
      BY <1>3, <1>4, <2>1
    <3> QED
      BY <2>1, <3>1
  <2>2. CASE t # <<>>
    <3>1. n - 1 \in 1 .. n - 1 /\ (n - 1) + 1 = n
      BY <1>3, <1>4, <2>2
    <3> QED
      BY <1>4, <1>5, <2>2, <3>1
  <2> QED
    BY <2>1, <2>2
<1>9. 1 \in DOMAIN s
  BY <1>4, <1>6
<1> QED
  BY <1>6, <1>7, <1>8, <1>9 DEF t, n

\* What appending does.
LEMMA AppendIs ==
    ASSUME NEW S, NEW s \in Seq(S), NEW e \in S
    PROVE  /\ Append(s, e) \in Seq(S) /\ Append(s, e) # <<>>
           /\ \A k \in DOMAIN Append(s, e) :
                 (k \in DOMAIN s /\ Append(s, e)[k] = s[k]) \/ Append(s, e)[k] = e
           /\ Append(s, e)[Len(Append(s, e))] = e
OBVIOUS

\* The invariant again, when every object keeps its host and its card.
LEMMA SameCards ==
    ASSUME RxInv, NEW cs \in Seq(Conn), Len(cs) = Len(conns), NEW mute,
           \A m \in DOMAIN conns :
              /\ cs[m].host = conns[m].host /\ cs[m].idx = conns[m].idx
              /\ cs[m].stats \in {Nobody, conns[m].host}
              /\ AsksRight(cs[m], receivers)
              /\ Pending(cs[m]) => m = rxConns[conns[m].host],
           \A h \in Hosts : rxConns[h] # 0 => Truthful(cs[rxConns[h]], mute[h])
    PROVE  RxGood(receivers, cs, rxConns, mute)
<1>1. DOMAIN cs = DOMAIN conns
  BY DEF RxInv, RxTypeOK
<1>2. ASSUME NEW m \in DOMAIN cs PROVE ConnGood(cs[m], m, receivers, rxConns)
  BY <1>1 DEF ConnGood
<1>3. ASSUME NEW h \in Hosts PROVE CardGood(h, receivers, cs, rxConns, mute)
  <2>1. CardGood(h, receivers, conns, rxConns, rxMuted)
    BY DEF RxInv, RxGood
  <2> QED
    BY <1>1, <2>1 DEF CardGood
<1> QED
  BY <1>2, <1>3 DEF RxGood

\* What the invariant says of one connection object.
LEMMA OneConn ==
    ASSUME RxInv, NEW n \in DOMAIN conns
    PROVE  /\ conns \in Seq(Conn) /\ conns[n] \in Conn /\ conns[n].host \in Hosts
           /\ n \in Nat /\ n # 0
           /\ ConnGood(conns[n], n, receivers, rxConns)
           /\ CardGood(conns[n].host, receivers, conns, rxConns, rxMuted)
<1>1. conns \in Seq(Conn)
  BY DEF RxInv, RxTypeOK
<1>2. conns[n] \in Conn /\ n \in Nat /\ n # 0
  BY <1>1
<1>3. conns[n].host \in Hosts
  BY <1>2 DEF Conn
<1> QED
  BY <1>1, <1>2, <1>3 DEF RxInv, RxGood

\* A current object sends to itself.
LEMMA OwnTarget ==
    ASSUME RxInv, NEW i, NEW h \in Hosts, Hosted(receivers, i, h), rxConns[h] # 0
    PROVE  Target(i) = {rxConns[h]}
BY DEF Target, Hosted

\* Only the current object of the card's host is a target.
LEMMA TargetIs ==
    ASSUME RxInv, NEW i, NEW m \in Target(i)
    PROVE  /\ i \in DOMAIN receivers /\ receivers[i].host \in Hosts
           /\ m = rxConns[receivers[i].host] /\ m # 0
           /\ m \in DOMAIN conns /\ conns[m].host = receivers[i].host
           /\ Hosted(receivers, i, conns[m].host)
<1>1. i \in DOMAIN receivers /\ m = rxConns[receivers[i].host] /\ m # 0
  BY DEF Target
<1>2. receivers[i].host \in Hosts
  <2>1. receivers[i] \in Receiver
    BY <1>1 DEF RxInv, RxTypeOK
  <2> QED
    BY <2>1 DEF Receiver
<1>3. CardGood(receivers[i].host, receivers, conns, rxConns, rxMuted)
  BY <1>2 DEF RxInv, RxGood
<1> QED
  BY <1>1, <1>2, <1>3 DEF CardGood, Hosted

\* A request more under way.
LEMMA Asked ==
    ASSUME NEW c \in Conn, NEW r \in Request, NEW rs, NEW m, AsksRight(c, rs),
           r.cmd = "stats" => Hosted(rs, r.idx, c.host),
           c.ans # <<>> => c.ans[Len(c.ans)].muted = m
    PROVE  LET d == [c EXCEPT !.req = Append(@, r)]
           IN  /\ d \in Conn /\ d.host = c.host /\ d.idx = c.idx /\ d.stats = c.stats
               /\ AsksRight(d, rs) /\ Truthful(d, m)
<1> DEFINE q == Append(c.req, r)
           d == [c EXCEPT !.req = q]
<1>1. c.req \in Seq(Request)
  BY DEF Conn
<1>2. /\ q \in Seq(Request) /\ q # <<>>
      /\ \A k \in DOMAIN q : (k \in DOMAIN c.req /\ q[k] = c.req[k]) \/ q[k] = r
  BY <1>1, AppendIs
<1> HIDE DEF q
<1>3. /\ d \in Conn /\ d.host = c.host /\ d.idx = c.idx /\ d.stats = c.stats
      /\ d.req = q /\ d.ans = c.ans
  BY <1>2 DEF Conn
<1>4. d = [c EXCEPT !.req = Append(@, r)]
  BY DEF q
<1> HIDE DEF d
<1>5. AsksRight(d, rs)
  BY <1>2, <1>3 DEF AsksRight
<1>6. Truthful(d, m)
  BY <1>2, <1>3 DEF Truthful, Pending
<1> QED
  BY <1>3, <1>4, <1>5, <1>6

\* rxSend for card i, from objects that are good but for the one that may just
\* have opened.
LEMMA SentKeeps ==
    ASSUME RxInv, NEW objects \in Seq(Conn), Len(objects) = Len(conns),
           NEW i, NEW r \in Request, r.cmd = "stats" => r.idx = i,
           \A m \in DOMAIN conns :
              /\ objects[m].host = conns[m].host /\ objects[m].idx = conns[m].idx
              /\ objects[m].stats \in {Nobody, conns[m].host}
              /\ AsksRight(objects[m], receivers)
              /\ Pending(objects[m]) => m = rxConns[conns[m].host],
           \A h \in Hosts : rxConns[h] # 0 =>
              LET c == objects[rxConns[h]]
              IN  /\ c.ans # <<>> => c.ans[Len(c.ans)].muted = rxMuted[h]
                  /\ Truthful(c, rxMuted[h]) \/ (c.ws = "open" /\ Hosted(receivers, i, h))
    PROVE  LET cs == Sent(objects, i, r)
           IN  /\ cs \in Seq(Conn) /\ Len(cs) = Len(conns)
               /\ RxGood(receivers, cs, rxConns, rxMuted)
<1> DEFINE cs == Sent(objects, i, r)
           asked(c) == [c EXCEPT !.req = Append(@, r)]
<1>1. /\ DOMAIN conns = 1 .. Len(conns) /\ Len(conns) \in Nat
      /\ DOMAIN objects = 1 .. Len(conns)
      /\ \A m \in DOMAIN conns : objects[m] \in Conn
  BY PlacesOf DEF RxInv, RxTypeOK
<1>2. /\ DOMAIN cs = 1 .. Len(conns) /\ cs = [m \in 1 .. Len(conns) |-> cs[m]]
      /\ \A m \in DOMAIN conns :
            cs[m] = IF m \in Target(i) /\ objects[m].ws = "open"
                    THEN asked(objects[m]) ELSE objects[m]
  BY <1>1 DEF Sent
<1> HIDE DEF cs
<1>3. ASSUME NEW m \in DOMAIN conns, m \in Target(i)
      PROVE  LET d == asked(objects[m])
             IN  /\ d \in Conn /\ d.host = conns[m].host /\ d.idx = conns[m].idx
                 /\ d.stats \in {Nobody, conns[m].host}
                 /\ AsksRight(d, receivers) /\ Truthful(d, rxMuted[conns[m].host])
                 /\ m = rxConns[conns[m].host]
  <2>1. /\ conns[m].host \in Hosts /\ m = rxConns[conns[m].host] /\ m # 0
        /\ Hosted(receivers, i, conns[m].host)
    BY <1>3, TargetIs
  <2>2. /\ objects[m] \in Conn /\ AsksRight(objects[m], receivers)
        /\ r.cmd = "stats" => Hosted(receivers, r.idx, objects[m].host)
        /\ objects[m].ans # <<>> =>
              objects[m].ans[Len(objects[m].ans)].muted = rxMuted[conns[m].host]
    BY <1>1, <2>1
  <2>3. LET d == asked(objects[m])
        IN  /\ d \in Conn /\ d.host = objects[m].host /\ d.idx = objects[m].idx
            /\ d.stats = objects[m].stats
            /\ AsksRight(d, receivers) /\ Truthful(d, rxMuted[conns[m].host])
    BY <2>2, Asked
  <2> HIDE DEF asked
  <2> QED
    BY <2>1, <2>3
<1> HIDE DEF asked
<1>4. ASSUME NEW m \in DOMAIN conns
      PROVE  /\ cs[m] \in Conn /\ cs[m].host = conns[m].host /\ cs[m].idx = conns[m].idx
             /\ cs[m].stats \in {Nobody, conns[m].host}
             /\ AsksRight(cs[m], receivers)
             /\ Pending(cs[m]) => m = rxConns[conns[m].host]
  BY <1>1, <1>2, <1>3
<1>5. cs \in Seq(Conn) /\ Len(cs) = Len(conns)
  BY <1>1, <1>2, <1>4
<1>6. ASSUME NEW h \in Hosts, rxConns[h] # 0
      PROVE  Truthful(cs[rxConns[h]], rxMuted[h])
  <2> DEFINE m == rxConns[h]
  <2>1. m \in DOMAIN conns /\ conns[m].host = h
    <3>1. CardGood(h, receivers, conns, rxConns, rxMuted)
      BY DEF RxInv, RxGood
    <3> QED
      BY <1>6, <3>1 DEF CardGood
  <2>2. CASE m \in Target(i) /\ objects[m].ws = "open"
    BY <1>2, <1>3, <2>1, <2>2
  <2>3. CASE ~(m \in Target(i) /\ objects[m].ws = "open")
    <3>1. cs[m] = objects[m]
      BY <1>2, <2>1, <2>3
    <3>2. ~(objects[m].ws = "open" /\ Hosted(receivers, i, h))
      BY <1>6, <2>3, OwnTarget
    <3> QED
      BY <1>6, <3>1, <3>2
  <2> QED
    BY <2>2, <2>3
<1>7. RxGood(receivers, cs, rxConns, rxMuted)
  BY <1>4, <1>5, <1>6, SameCards
<1> QED
  BY <1>5, <1>7 DEF cs

\* A step that leaves the list alone keeps the invariant if its objects are good.
LEMMA KeptList ==
    ASSUME RxInv, conns' \in Seq(Conn), Len(conns') = Len(conns),
           rxMuted' \in [Hosts -> BOOLEAN], rxFails' \in 0 .. MaxFails,
           UNCHANGED <<receivers, stored, rxConns>>,
           RxGood(receivers, conns', rxConns, rxMuted')
    PROVE  RxInv'
BY DEF RxInv, RxTypeOK

\* What the invariant says of one object, in the words of SameCards.
LEMMA AsItWas ==
    ASSUME RxInv
    PROVE  /\ \A m \in DOMAIN conns :
                 /\ conns[m].stats \in {Nobody, conns[m].host}
                 /\ AsksRight(conns[m], receivers)
                 /\ Pending(conns[m]) => m = rxConns[conns[m].host]
           /\ \A h \in Hosts : rxConns[h] # 0 => Truthful(conns[rxConns[h]], rxMuted[h])
           /\ rxMuted \in [Hosts -> BOOLEAN] /\ rxFails \in 0 .. MaxFails
           /\ conns \in Seq(Conn)
BY DEF RxInv, RxTypeOK, RxGood, ConnGood, CardGood

\* onopen asks for the status of its own receiver.
LEMMA SocketOpenKeeps ==
    ASSUME RxInv, NEW n \in DOMAIN conns, SocketOpen(n)
    PROVE  RxInv'
<1> DEFINE d == [conns[n] EXCEPT !.ws = "open", !.polling = TRUE]
           objects == [conns EXCEPT ![n] = d]
           i == conns[n].idx
           r == [cmd |-> "stats", idx |-> i]
<1>1. /\ conns \in Seq(Conn) /\ conns[n] \in Conn
      /\ ConnGood(conns[n], n, receivers, rxConns)
      /\ CardGood(conns[n].host, receivers, conns, rxConns, rxMuted)
      /\ conns[n].host \in Hosts /\ n # 0
  BY OneConn
<1>2. r \in Request /\ r.cmd = "stats" /\ r.idx = i
  BY <1>1 DEF Conn, Request
<1>3. conns' = Sent(objects, i, r) /\ UNCHANGED <<receivers, stored, rxConns, rxMuted, rxFails>>
  <2>1. objects = [conns EXCEPT ![n].ws = "open", ![n].polling = TRUE]
    BY <1>1
  <2> QED
    BY <2>1 DEF SocketOpen
<1> HIDE DEF r
<1>4. /\ d \in Conn /\ d.host = conns[n].host /\ d.idx = conns[n].idx
      /\ d.stats = conns[n].stats /\ d.req = conns[n].req /\ d.ans = conns[n].ans
      /\ d.ws = "open"
  BY <1>1 DEF Conn
<1> HIDE DEF d
<1>5. /\ objects \in Seq(Conn) /\ Len(objects) = Len(conns)
      /\ \A m \in DOMAIN conns : objects[m] = IF m = n THEN d ELSE conns[m]
  BY <1>1, <1>4
<1> HIDE DEF objects
<1>6. ASSUME NEW m \in DOMAIN conns
      PROVE  /\ objects[m].host = conns[m].host /\ objects[m].idx = conns[m].idx
             /\ objects[m].stats \in {Nobody, conns[m].host}
             /\ AsksRight(objects[m], receivers)
             /\ Pending(objects[m]) => m = rxConns[conns[m].host]
             /\ objects[m].ans = conns[m].ans
  BY <1>4, <1>5, AsItWas DEF AsksRight, Pending
<1>7. ASSUME NEW h \in Hosts, rxConns[h] # 0
      PROVE  LET c == objects[rxConns[h]]
             IN  /\ c.ans # <<>> => c.ans[Len(c.ans)].muted = rxMuted[h]
                 /\ Truthful(c, rxMuted[h]) \/ (c.ws = "open" /\ Hosted(receivers, i, h))
  <2> DEFINE m == rxConns[h]
  <2>1. CardGood(h, receivers, conns, rxConns, rxMuted)
    BY DEF RxInv, RxGood
  <2>2. m \in DOMAIN conns /\ Truthful(conns[m], rxMuted[h]) /\ Hosted(receivers, conns[m].idx, h)
    BY <1>7, <2>1 DEF CardGood
  <2>3. objects[m].ans # <<>> => objects[m].ans[Len(objects[m].ans)].muted = rxMuted[h]
    BY <1>6, <2>2 DEF Truthful
  <2>4. CASE m = n
    BY <1>4, <1>5, <2>2, <2>3, <2>4
  <2>5. CASE m # n
    BY <1>5, <2>2, <2>3, <2>5
  <2> QED
    BY <2>4, <2>5
<1> HIDE DEF i
<1>8. LET cs == Sent(objects, i, r)
      IN  cs \in Seq(Conn) /\ Len(cs) = Len(conns) /\ RxGood(receivers, cs, rxConns, rxMuted)
  BY <1>2, <1>5, <1>6, <1>7, SentKeeps
<1> QED
  BY <1>3, <1>8, AsItWas, KeptList

\* onclose: the reconnection is the same object's.
LEMMA SocketClosedKeeps ==
    ASSUME RxInv, NEW n \in DOMAIN conns, SocketClosed(n)
    PROVE  RxInv'
<1> DEFINE e == Closing(conns[n])
           d == [e EXCEPT !.ws = "closed"]
<1>1. conns \in Seq(Conn) /\ conns[n] \in Conn
  BY OneConn
<1>2. conns' = [conns EXCEPT ![n] = d] /\ UNCHANGED <<receivers, stored, rxConns, rxMuted>>
  BY <1>1 DEF SocketClosed
<1>3. rxFails' \in 0 .. MaxFails
  BY AsItWas, ReceiversAssumption DEF SocketClosed
<1>4. /\ e \in Conn /\ e.host = conns[n].host /\ e.idx = conns[n].idx
      /\ e.stats = conns[n].stats /\ e.req = <<>> /\ e.ans = <<>>
  BY <1>1, ClosingIs
<1> HIDE DEF e
<1>5. /\ d \in Conn /\ d.host = conns[n].host /\ d.idx = conns[n].idx
      /\ d.stats = conns[n].stats /\ d.req = <<>> /\ d.ans = <<>> /\ d.ws = "closed"
  BY <1>4 DEF Conn
<1> HIDE DEF d
<1>6. /\ conns' \in Seq(Conn) /\ Len(conns') = Len(conns)
      /\ \A m \in DOMAIN conns : conns'[m] = IF m = n THEN d ELSE conns[m]
  BY <1>1, <1>2, <1>5
<1>7. AsksRight(d, receivers) /\ ~Pending(d) /\ \A x : Truthful(d, x)
  <2>1. DOMAIN d.req = {} /\ DOMAIN d.ans = {}
    BY <1>5
  <2> QED
    BY <1>5, <2>1 DEF AsksRight, Pending, Truthful
<1>8. RxGood(receivers, conns', rxConns, rxMuted)
  <2>1. ASSUME NEW m \in DOMAIN conns
        PROVE  /\ conns'[m].host = conns[m].host /\ conns'[m].idx = conns[m].idx
               /\ conns'[m].stats \in {Nobody, conns[m].host}
               /\ AsksRight(conns'[m], receivers)
               /\ Pending(conns'[m]) => m = rxConns[conns[m].host]
    BY <1>5, <1>6, <1>7, AsItWas
  <2>2. ASSUME NEW h \in Hosts, rxConns[h] # 0
        PROVE  Truthful(conns'[rxConns[h]], rxMuted[h])
    <3>1. rxConns[h] \in DOMAIN conns
      BY <2>2 DEF RxInv, RxGood, CardGood
    <3> QED
      BY <1>6, <1>7, <2>2, <3>1, AsItWas
  <2> QED
    BY <1>6, <2>1, <2>2, SameCards
<1> QED
  BY <1>2, <1>3, <1>6, <1>8, AsItWas, KeptList

\* The timer of a reconnection.
LEMMA ReconnectKeeps ==
    ASSUME RxInv, NEW n \in DOMAIN conns, Reconnect(n)
    PROVE  RxInv'
<1> DEFINE d == [conns[n] EXCEPT !.ws = "connecting"]
<1>1. conns \in Seq(Conn) /\ conns[n] \in Conn
  BY OneConn
<1>2. conns' = [conns EXCEPT ![n] = d] /\ UNCHANGED <<receivers, stored, rxConns, rxMuted, rxFails>>
  BY <1>1 DEF Reconnect
<1>3. /\ d \in Conn /\ d.host = conns[n].host /\ d.idx = conns[n].idx
      /\ d.stats = conns[n].stats /\ d.req = conns[n].req /\ d.ans = conns[n].ans
      /\ d.ws = "connecting"
  BY <1>1 DEF Conn
<1> HIDE DEF d
<1>4. /\ conns' \in Seq(Conn) /\ Len(conns') = Len(conns)
      /\ \A m \in DOMAIN conns : conns'[m] = IF m = n THEN d ELSE conns[m]
  BY <1>1, <1>2, <1>3
<1>5. RxGood(receivers, conns', rxConns, rxMuted)
  <2>1. ASSUME NEW m \in DOMAIN conns
        PROVE  /\ conns'[m].host = conns[m].host /\ conns'[m].idx = conns[m].idx
               /\ conns'[m].stats \in {Nobody, conns[m].host}
               /\ AsksRight(conns'[m], receivers)
               /\ Pending(conns'[m]) => m = rxConns[conns[m].host]
    BY <1>3, <1>4, AsItWas DEF AsksRight, Pending
  <2>2. ASSUME NEW h \in Hosts, rxConns[h] # 0
        PROVE  Truthful(conns'[rxConns[h]], rxMuted[h])
    <3>1. rxConns[h] \in DOMAIN conns /\ Truthful(conns[rxConns[h]], rxMuted[h])
      BY <2>2 DEF RxInv, RxGood, CardGood
    <3> QED
      BY <1>3, <1>4, <3>1 DEF Truthful
  <2> QED
    BY <1>4, <2>1, <2>2, SameCards
<1> QED
  BY <1>2, <1>4, <1>5, AsItWas, KeptList

\* A poll of an open connection.
LEMMA PollReceiverKeeps ==
    ASSUME RxInv, NEW n \in DOMAIN conns, PollReceiver(n)
    PROVE  RxInv'
<1> DEFINE i == conns[n].idx
           r == [cmd |-> "stats", idx |-> i]
<1>1. conns \in Seq(Conn) /\ conns[n] \in Conn
  BY OneConn
<1>2. r \in Request /\ r.cmd = "stats" /\ r.idx = i
  BY <1>1 DEF Conn, Request
<1>3. conns' = Sent(conns, i, r) /\ UNCHANGED <<receivers, stored, rxConns, rxMuted, rxFails>>
  BY DEF PollReceiver
<1> HIDE DEF r, i
<1>4. \A h \in Hosts : rxConns[h] # 0 =>
         LET c == conns[rxConns[h]]
         IN  c.ans # <<>> => c.ans[Len(c.ans)].muted = rxMuted[h]
  BY AsItWas DEF Truthful
<1>5. LET cs == Sent(conns, i, r)
      IN  cs \in Seq(Conn) /\ Len(cs) = Len(conns) /\ RxGood(receivers, cs, rxConns, rxMuted)
  BY <1>1, <1>2, <1>4, AsItWas, SentKeeps
<1> QED
  BY <1>3, <1>5, AsItWas, KeptList

\* A click on mute, sent when the connection is open.
LEMMA ToggleMuteKeeps ==
    ASSUME RxInv, NEW i \in DOMAIN receivers, ToggleMute(i)
    PROVE  RxInv'
<1>1. PICK n \in Target(i) : conns' = Sent(conns, i, [cmd |-> "mute", to |-> ~conns[n].muted])
  BY DEF ToggleMute
<1> DEFINE b == ~conns[n].muted
           r == [cmd |-> "mute", to |-> b]
<1>2. UNCHANGED <<receivers, stored, rxConns, rxMuted, rxFails>>
  BY DEF ToggleMute
<1>3. conns \in Seq(Conn)
  BY AsItWas
<1>4. r \in Request /\ r.cmd # "stats"
  <2>1. b \in BOOLEAN
    OBVIOUS
  <2> HIDE DEF b
  <2> QED
    BY <2>1 DEF Request
<1>5. conns' = Sent(conns, i, r)
  BY <1>1
<1> HIDE DEF r
<1>6. \A h \in Hosts : rxConns[h] # 0 =>
         LET c == conns[rxConns[h]]
         IN  c.ans # <<>> => c.ans[Len(c.ans)].muted = rxMuted[h]
  BY AsItWas DEF Truthful
<1>7. LET cs == Sent(conns, i, r)
      IN  cs \in Seq(Conn) /\ Len(cs) = Len(conns) /\ RxGood(receivers, cs, rxConns, rxMuted)
  BY <1>3, <1>4, <1>6, AsItWas, SentKeeps
<1> QED
  BY <1>2, <1>5, <1>7, AsItWas, KeptList

\* A channel is set in the list and sent to the receiver.
LEMMA SetChannelKeeps ==
    ASSUME RxInv, NEW i \in DOMAIN receivers, NEW ch \in Channels, SetChannel(i, ch)
    PROVE  RxInv'
<1> DEFINE e == [receivers[i] EXCEPT !.channel = ch]
<1>1. receivers \in Seq(Receiver) /\ Len(receivers) <= MaxRx /\ receivers[i] \in Receiver
  BY DEF RxInv, RxTypeOK
<1>2. /\ receivers' = [receivers EXCEPT ![i] = e] /\ stored' = receivers'
      /\ UNCHANGED <<conns, rxConns, rxMuted, rxFails>>
  BY <1>1 DEF SetChannel
<1>3. e \in Receiver /\ e.host = receivers[i].host
  BY <1>1 DEF Receiver
<1> HIDE DEF e
<1>4. /\ receivers' \in Seq(Receiver) /\ Len(receivers') <= MaxRx
      /\ DOMAIN receivers' = DOMAIN receivers
      /\ \A j \in DOMAIN receivers : receivers'[j].host = receivers[j].host
  BY <1>1, <1>2, <1>3
<1>5. \A j, h : Hosted(receivers, j, h) => Hosted(receivers', j, h)
  BY <1>4 DEF Hosted
<1>6. \A m \in DOMAIN conns : ConnGood(conns[m], m, receivers', rxConns)
  BY <1>5 DEF RxInv, RxGood, ConnGood, AsksRight
<1>7. \A h \in Hosts : CardGood(h, receivers', conns, rxConns, rxMuted)
  BY <1>5 DEF RxInv, RxGood, CardGood
<1> QED
  BY <1>2, <1>4, <1>6, <1>7 DEF RxInv, RxTypeOK, RxGood

\* A connection with something under way is the current one of its host.
LEMMA PendingIsCurrent ==
    ASSUME RxInv, NEW n \in DOMAIN conns, Pending(conns[n])
    PROVE  /\ n = rxConns[conns[n].host]
           /\ \A h \in Hosts : rxConns[h] = n => h = conns[n].host
           /\ Truthful(conns[n], rxMuted[conns[n].host])
<1>1. /\ conns[n].host \in Hosts /\ n # 0
      /\ ConnGood(conns[n], n, receivers, rxConns)
      /\ CardGood(conns[n].host, receivers, conns, rxConns, rxMuted)
  BY OneConn
<1>2. n = rxConns[conns[n].host]
  BY <1>1 DEF ConnGood
<1>3. \A h \in Hosts : rxConns[h] = n => h = conns[n].host
  BY <1>1, CurrentIs
<1> QED
  BY <1>1, <1>2, <1>3 DEF CardGood

\* Only the current object n of the host h changes, to d, and the mute state of h.
LEMMA OneChanged ==
    ASSUME RxInv, NEW n \in DOMAIN conns, NEW d \in Conn, NEW b \in BOOLEAN,
           n = rxConns[conns[n].host],
           d.host = conns[n].host, d.idx = conns[n].idx, d.stats \in {Nobody, d.host},
           AsksRight(d, receivers), Truthful(d, b),
           conns' = [conns EXCEPT ![n] = d],
           rxMuted' = [rxMuted EXCEPT ![conns[n].host] = b],
           UNCHANGED <<receivers, stored, rxConns, rxFails>>
    PROVE  RxInv'
<1> DEFINE h == conns[n].host
<1>1. conns \in Seq(Conn) /\ h \in Hosts
  BY OneConn
<1>2. /\ conns' \in Seq(Conn) /\ Len(conns') = Len(conns)
      /\ \A m \in DOMAIN conns : conns'[m] = IF m = n THEN d ELSE conns[m]
  BY <1>1
<1>3. /\ rxMuted' \in [Hosts -> BOOLEAN] /\ rxMuted'[h] = b
      /\ \A g \in Hosts : g # h => rxMuted'[g] = rxMuted[g]
  BY <1>1, AsItWas, Zenon
<1>4. RxGood(receivers, conns', rxConns, rxMuted')
  <2>1. ASSUME NEW m \in DOMAIN conns
        PROVE  /\ conns'[m].host = conns[m].host /\ conns'[m].idx = conns[m].idx
               /\ conns'[m].stats \in {Nobody, conns[m].host}
               /\ AsksRight(conns'[m], receivers)
               /\ Pending(conns'[m]) => m = rxConns[conns[m].host]
    BY <1>2, AsItWas
  <2>2. ASSUME NEW g \in Hosts, rxConns[g] # 0
        PROVE  Truthful(conns'[rxConns[g]], rxMuted'[g])
    <3>1. /\ rxConns[g] \in DOMAIN conns /\ conns[rxConns[g]].host = g
          /\ Truthful(conns[rxConns[g]], rxMuted[g])
      BY <2>2 DEF RxInv, RxGood, CardGood
    <3>2. CASE g = h
      BY <1>2, <1>3, <3>1, <3>2
    <3>3. CASE g # h
      BY <1>2, <1>3, <3>1, <3>3
    <3> QED
      BY <3>2, <3>3
  <2> QED
    BY <1>2, <2>1, <2>2, SameCards
<1>5. rxFails' \in 0 .. MaxFails
  BY AsItWas
<1> QED
  BY <1>2, <1>3, <1>4, <1>5, KeptList

\* The receiver answers the oldest request.
LEMMA ServeKeeps ==
    ASSUME RxInv, NEW n \in DOMAIN conns, Serve(n)
    PROVE  RxInv'
<1> DEFINE c == conns[n]
           h == c.host
           r == Head(c.req)
           muted == IF r.cmd = "mute" THEN r.to ELSE rxMuted[h]
           reply == [req |-> r, muted |-> muted]
           q == Tail(c.req)
           a == Append(c.ans, reply)
           d == [c EXCEPT !.req = q, !.ans = a]
<1>1. conns \in Seq(Conn) /\ c \in Conn /\ h \in Hosts /\ c.stats \in {Nobody, c.host}
      /\ AsksRight(c, receivers)
  BY OneConn, AsItWas
<1>2. /\ c.req # <<>> /\ rxMuted' = [rxMuted EXCEPT ![h] = muted]
      /\ conns' = [conns EXCEPT ![n] = d]
      /\ UNCHANGED <<receivers, stored, rxConns, rxFails>>
  BY <1>1 DEF Serve
<1>3. c.req \in Seq(Request) /\ c.ans \in Seq(Reply)
  BY <1>1 DEF Conn
<1>4. /\ q \in Seq(Request) /\ r \in Request /\ 1 \in DOMAIN c.req /\ r = c.req[1]
      /\ \A k \in DOMAIN q : k + 1 \in DOMAIN c.req /\ q[k] = c.req[k + 1]
  BY <1>2, <1>3, TailIs
<1>5. /\ r.cmd \in {"stats", "mute"} /\ (r.cmd = "mute" => r.to \in BOOLEAN)
  <2> HIDE DEF r
  <2>1. CASE r \in [cmd : {"stats"}, idx : 1 .. MaxRx]
    BY <2>1
  <2>2. CASE r \in [cmd : {"mute"}, to : BOOLEAN]
    BY <2>2
  <2> QED
    BY <1>4, <2>1, <2>2 DEF Request
<1>6. muted \in BOOLEAN /\ (r.cmd = "mute" => muted = r.to)
  <2>1. rxMuted[h] \in BOOLEAN
    BY <1>1, AsItWas
  <2> HIDE DEF r, h
  <2>2. CASE r.cmd = "mute"
    BY <1>5, <2>2
  <2>3. CASE r.cmd # "mute"
    BY <2>1, <2>3
  <2> QED
    BY <2>2, <2>3
<1>7. r.cmd = "stats" => Hosted(receivers, r.idx, h)
  BY <1>1, <1>4 DEF AsksRight
<1> HIDE DEF muted, r, q
<1>8. reply \in Reply /\ reply.req = r /\ reply.muted = muted
  BY <1>4, <1>6 DEF Reply
<1> HIDE DEF reply
<1>9. /\ a \in Seq(Reply) /\ a # <<>> /\ a[Len(a)] = reply
      /\ \A k \in DOMAIN a : (k \in DOMAIN c.ans /\ a[k] = c.ans[k]) \/ a[k] = reply
  BY <1>3, <1>8, AppendIs
<1> HIDE DEF a
<1>10. /\ d \in Conn /\ d.host = h /\ d.idx = c.idx /\ d.stats = c.stats
       /\ d.req = q /\ d.ans = a
  BY <1>1, <1>4, <1>9 DEF Conn
<1> HIDE DEF d
<1>11. AsksRight(d, receivers)
  <2>1. \A k \in DOMAIN q : q[k].cmd = "stats" => Hosted(receivers, q[k].idx, h)
    BY <1>1, <1>4 DEF AsksRight
  <2>2. ASSUME NEW k \in DOMAIN a
        PROVE  IF a[k].req.cmd = "stats" THEN Hosted(receivers, a[k].req.idx, h)
               ELSE a[k].muted = a[k].req.to
    <3>1. CASE k \in DOMAIN c.ans /\ a[k] = c.ans[k]
      BY <1>1, <3>1 DEF AsksRight
    <3>2. CASE a[k] = reply
      BY <1>5, <1>6, <1>7, <1>8, <3>2
    <3> QED
      BY <1>9, <3>1, <3>2
  <2> QED
    BY <1>10, <2>1, <2>2 DEF AsksRight
<1>12. Truthful(d, muted)
  BY <1>8, <1>9, <1>10 DEF Truthful, Pending
<1>13. n = rxConns[h]
  BY <1>2, PendingIsCurrent DEF Pending
<1>14. d.stats \in {Nobody, d.host}
  BY <1>1, <1>10
<1> QED
  BY <1>2, <1>6, <1>10, <1>11, <1>12, <1>13, <1>14, OneChanged

\* The page takes the answer for the receiver it asked.
LEMMA AnswerKeeps ==
    ASSUME RxInv, NEW n \in DOMAIN conns, Answer(n)
    PROVE  RxInv'
<1> DEFINE c == conns[n]
           h == c.host
           a == Head(c.ans)
           rest == Tail(c.ans)
           e == [c EXCEPT !.ans = rest]
           st == IF a.req.cmd = "stats" THEN h ELSE c.stats
           b == a.muted
           d == [e EXCEPT !.stats = st, !.muted = b]
           heard == [conns EXCEPT ![n].ans = rest]
<1>1. conns \in Seq(Conn) /\ c \in Conn /\ h \in Hosts /\ c.stats \in {Nobody, c.host}
      /\ AsksRight(c, receivers) /\ n # 0
  BY OneConn, AsItWas
<1>2. /\ c.ans # <<>> /\ c.ws = "open"
      /\ conns' = IF a.req.cmd = "stats" THEN ApplyStats(heard, a.req.idx, h, a.muted)
                  ELSE [heard EXCEPT ![n].muted = a.req.to]
      /\ UNCHANGED <<receivers, stored, rxConns, rxMuted, rxFails>>
  BY DEF Answer
<1>3. c.req \in Seq(Request) /\ c.ans \in Seq(Reply)
  BY <1>1 DEF Conn
<1>4. /\ rest \in Seq(Reply) /\ a \in Reply /\ 1 \in DOMAIN c.ans /\ a = c.ans[1]
      /\ \A k \in DOMAIN rest : k + 1 \in DOMAIN c.ans /\ rest[k] = c.ans[k + 1]
      /\ IF rest = <<>> THEN c.ans[Len(c.ans)] = a
         ELSE rest[Len(rest)] = c.ans[Len(c.ans)]
  BY <1>2, <1>3, TailIs
<1>5. b \in BOOLEAN
  BY <1>4 DEF Reply
<1>6. IF a.req.cmd = "stats" THEN Hosted(receivers, a.req.idx, h) ELSE b = a.req.to
  BY <1>1, <1>4 DEF AsksRight
<1>7. n = rxConns[h] /\ Truthful(c, rxMuted[h])
  BY <1>2, PendingIsCurrent DEF Pending
<1> HIDE DEF a, rest
<1>8. /\ e \in Conn /\ e.host = h /\ e.idx = c.idx /\ e.stats = c.stats
      /\ e.req = c.req /\ e.ans = rest /\ e.ws = "open" /\ e.muted = c.muted
  BY <1>1, <1>2, <1>4 DEF Conn
<1>9. /\ heard = [conns EXCEPT ![n] = e] /\ DOMAIN heard = DOMAIN conns
      /\ heard[n] = e /\ \A m \in DOMAIN conns : m # n => heard[m] = conns[m]
  BY <1>1
<1> HIDE DEF e, heard
<1>10. st \in {Nobody, h} /\ st \in Hosts \union {Nobody}
  BY <1>1
<1>11. conns' = [conns EXCEPT ![n] = d]
  <2>1. CASE a.req.cmd = "stats"
    <3>1. Target(a.req.idx) = {n}
      BY <1>1, <1>6, <1>7, <2>1, OwnTarget
    <3>2. d = [heard[n] EXCEPT !.stats = h, !.muted = a.muted]
      BY <1>9, <2>1
    <3>3. conns' = [m \in DOMAIN conns |->
                       IF m = n THEN [heard[m] EXCEPT !.stats = h, !.muted = a.muted] ELSE heard[m]]
      BY <1>2, <1>9, <2>1, <3>1 DEF ApplyStats
    <3> HIDE DEF d
    <3> QED
      BY <1>1, <1>9, <3>2, <3>3
  <2>2. CASE a.req.cmd # "stats"
    <3>1. conns' = [heard EXCEPT ![n].muted = a.req.to]
      BY <1>2, <2>2
    <3>2. conns' = [conns EXCEPT ![n] = [e EXCEPT !.muted = b]]
      BY <1>6, <1>9, <2>2, <3>1
    <3>3. d = [e EXCEPT !.muted = b]
      <4>1. st = c.stats
        BY <2>2
      <4> HIDE DEF st, b
      <4>2. [e EXCEPT !.stats = st, !.muted = b] = [e EXCEPT !.muted = b]
        BY <1>8, <4>1 DEF Conn
      <4> QED
        BY <4>2
    <3> QED
      BY <3>2, <3>3
  <2> QED
    BY <2>1, <2>2
<1> HIDE DEF st, b
<1>12. /\ d \in Conn /\ d.host = h /\ d.idx = c.idx /\ d.stats = st /\ d.muted = b
       /\ d.req = c.req /\ d.ans = rest /\ d.ws = "open"
  BY <1>5, <1>8, <1>10 DEF Conn
<1> HIDE DEF d
<1>13. AsksRight(d, receivers)
  BY <1>1, <1>4, <1>12 DEF AsksRight
<1>14. Truthful(d, rxMuted[h])
  <2>1. c.ans[Len(c.ans)].muted = rxMuted[h]
    BY <1>2, <1>7 DEF Truthful
  <2>2. d.ans # <<>> => d.ans[Len(d.ans)].muted = rxMuted[h]
    BY <1>4, <1>12, <2>1
  <2>3. ~Pending(d) => d.muted = rxMuted[h]
    BY <1>4, <1>12, <2>1 DEF Pending, b
  <2> QED
    BY <2>2, <2>3 DEF Truthful
<1>15. rxMuted[h] \in BOOLEAN /\ rxMuted' = [rxMuted EXCEPT ![h] = rxMuted[h]]
  BY <1>1, <1>2, AsItWas
<1>16. d.stats \in {Nobody, d.host}
  BY <1>10, <1>12
<1>17. UNCHANGED <<receivers, stored, rxConns, rxFails>> /\ n = rxConns[conns[n].host]
  BY <1>2, <1>7
<1>18. d \in Conn /\ d.host = conns[n].host /\ d.idx = conns[n].idx
  BY <1>12
<1> DEFINE m == rxMuted[h]
<1>19. m \in BOOLEAN /\ rxMuted' = [rxMuted EXCEPT ![conns[n].host] = m] /\ Truthful(d, m)
  BY <1>14, <1>15
<1> HIDE DEF m, c, h
<1> QED
  BY <1>11, <1>13, <1>16, <1>17, <1>18, <1>19, OneChanged

\* RxTypeOK, StatsFromOwnHost, MuteAgreesWhenQuiet: the cards keep RxInv.
THEOREM ReceiversInvariant == RxSpec => []RxInv
<1>1. RxInit => RxInv
  <2> SUFFICES ASSUME RxInit PROVE RxInv
    OBVIOUS
  <2> DEFINE s == Spawned(Defaults, 1, <<>>, [h \in Hosts |-> 0])
  <2>1. /\ receivers = Defaults /\ stored = Defaults /\ conns = s.conns /\ rxConns = s.rxConns
        /\ rxMuted = [h \in Hosts |-> FALSE] /\ rxFails = 0
    BY DEF RxInit
  <2>2. Defaults \in Seq(Receiver) /\ Len(Defaults) <= MaxRx /\ Len(Defaults) <= MaxConns
    BY ReceiversAssumption DEF Receiver
  <2>3. /\ s.conns \in Seq(Conn) /\ Len(s.conns) <= MaxConns
        /\ s.rxConns \in [Hosts -> 0 .. MaxConns]
        /\ RxGood(Defaults, s.conns, s.rxConns, rxMuted)
    BY <2>2, LoadedIsGood
  <2> HIDE DEF s
  <2>4. rxMuted \in [Hosts -> BOOLEAN] /\ rxFails \in 0 .. MaxFails
    BY <2>1, ReceiversAssumption
  <2> QED
    BY <2>1, <2>2, <2>3, <2>4 DEF RxInv, RxTypeOK
<1>2. RxInv /\ [RxNext]_rxVars => RxInv'
  <2> SUFFICES ASSUME RxInv, [RxNext]_rxVars PROVE RxInv'
    OBVIOUS
  <2>1. CASE UNCHANGED rxVars
    BY <2>1 DEF RxInv, RxTypeOK, RxGood, ConnGood, CardGood, rxVars
  <2>2. CASE RxNext
    BY <2>2, AddReceiverKeeps, RemoveReceiverKeeps, ToggleMuteKeeps, SetChannelKeeps,
       SocketOpenKeeps, SocketClosedKeeps, ReconnectKeeps, PollReceiverKeeps, ServeKeeps,
       AnswerKeeps, ReloadKeeps DEF RxNext
  <2> QED
    BY <2>1, <2>2
<1> QED
  BY <1>1, <1>2, PTL DEF RxSpec

\* The statistics on a card are its own host's, whatever index the poll that
\* brings them had captured (applyStats).
THEOREM ReceiversStatsOwn == RxSpec => []StatsFromOwnHost
<1>1. RxInv => StatsFromOwnHost
  BY DEF RxInv, RxGood, ConnGood, StatsFromOwnHost
<1> QED
  BY <1>1, ReceiversInvariant, PTL

\* When nothing is under way the mute button agrees with the receiver.
THEOREM ReceiversMuteAgrees == RxSpec => []MuteAgreesWhenQuiet
<1>1. RxInv => MuteAgreesWhenQuiet
  BY DEF RxInv, RxGood, CardGood, Truthful, Pending, MuteAgreesWhenQuiet
<1> QED
  BY <1>1, ReceiversInvariant, PTL

\* The list, its stored copy and the connection objects keep their types.
THEOREM ReceiversTyped == RxSpec => []RxTypeOK
<1>1. RxInv => RxTypeOK
  BY DEF RxInv
<1> QED
  BY <1>1, ReceiversInvariant, PTL
=============================================================================
