------------------------------ MODULE WebAudio ------------------------------
(***************************************************************************)
(* Listening in the dashboard (web/app.js): the WebSocket to the relay and *)
(* its channel switches, the browser's audio graph, and the reporter of    *)
(* audio fingerprints that taps the graph and names the channel.           *)
(*                                                                         *)
(* The three share globals across awaits, timers and socket callbacks.     *)
(* Sockets are numbered as they are opened: the handlers of an old socket  *)
(* still run when it finally closes, and write the globals of the new one. *)
(* Decoding and drawing are left out.                                      *)
(***************************************************************************)
EXTENDS Naturals, FiniteSets

CONSTANTS RelayChannels,   \* channels a listener may choose
          RemotePage,      \* the page is not served from the local network
          MaxRelaySockets  \* bound: relay sockets opened by the page

ASSUME AudioAssumption ==
    RemotePage \in BOOLEAN /\ MaxRelaySockets \in Nat \ {0}

VARIABLES
    sock, sockCh,          \* per socket: state and channel
    relayWs,               \* the current socket, 0 = null
    relayMode,
    hello,                 \* sockets whose HELLO timer runs
    staleClose,            \* history: a replaced socket closed while the current one was open
    autoConnect,           \* the timer of initRelayMode has not fired
    baActive, baPhase,     \* _baStarting is baPhase # "idle"
    baCtx, graphs, pingTimers,
    wakeAsked, wakeLock,   \* a wake lock was asked for; one is held
    fpPending,             \* channels whose delayed start of the reporter is due
    fpChannel,             \* the reporter's channel while its timers run, or NoCh
    recorder, blobs, sample  \* channels recorded: running, being read, ready

relayVars == <<sock, sockCh, relayWs, relayMode, hello, staleClose, autoConnect>>
baVars == <<baActive, baPhase, baCtx, graphs, pingTimers, wakeAsked, wakeLock>>
fpVars == <<fpPending, fpChannel, recorder, blobs, sample>>
wauVars == <<relayVars, baVars, fpVars>>

NoCh == "no channel"
Sockets == 1 .. MaxRelaySockets

WauInit ==
    /\ sock = [s \in Sockets |-> "unused"] /\ sockCh = [s \in Sockets |-> NoCh]
    /\ relayWs = 0 /\ relayMode = FALSE /\ hello = {} /\ staleClose = FALSE
    /\ autoConnect = RemotePage
    /\ baActive = FALSE /\ baPhase = "idle" /\ baCtx = FALSE /\ graphs = 0 /\ pingTimers = 0
    /\ wakeAsked = FALSE /\ wakeLock = FALSE
    /\ fpPending = {} /\ fpChannel = NoCh /\ recorder = NoCh /\ blobs = {} /\ sample = NoCh

-----------------------------------------------------------------------------
\* The fingerprint reporter.

\* stop(): a running recorder hands its recording over later.
FpStop ==
    /\ blobs' = IF recorder # NoCh THEN blobs \union {recorder} ELSE blobs
    /\ recorder' = NoCh /\ sample' = NoCh /\ fpChannel' = NoCh

FpStart(ch) ==
    /\ blobs' = IF recorder # NoCh THEN blobs \union {recorder} ELSE blobs
    /\ recorder' = NoCh /\ sample' = NoCh /\ fpChannel' = ch

\* baAnalyser exists from the middle of baStart until baStop.
Analyser == baActive \/ baPhase = "module"

\* 500 ms after onopen, with the channel onopen knew.
FpTimer(ch) ==
    /\ ch \in fpPending
    /\ fpPending' = fpPending \ {ch}
    /\ IF Analyser THEN FpStart(ch) ELSE UNCHANGED <<fpChannel, recorder, blobs, sample>>
    /\ UNCHANGED <<relayVars, baVars>>

\* One second after the start and after every report a recording begins.
FpCapture ==
    /\ fpChannel # NoCh /\ recorder = NoCh
    /\ recorder' = fpChannel
    /\ UNCHANGED <<relayVars, baVars, fpPending, fpChannel, blobs, sample>>

\* Its fifteen seconds are over.
FpRecorded ==
    /\ recorder # NoCh
    /\ blobs' = blobs \union {recorder} /\ recorder' = NoCh
    /\ UNCHANGED <<relayVars, baVars, fpPending, fpChannel, sample>>

\* onloadend: whatever has been read is the sample now.
FpLoaded(ch) ==
    /\ ch \in blobs
    /\ blobs' = blobs \ {ch} /\ sample' = ch
    /\ UNCHANGED <<relayVars, baVars, fpPending, fpChannel, recorder>>

\* sendReport: the sample goes with it, once, and the next recording begins.
FpReport ==
    /\ fpChannel # NoCh
    /\ sample' = NoCh /\ recorder' = fpChannel
    /\ UNCHANGED <<relayVars, baVars, fpPending, fpChannel, blobs>>

-----------------------------------------------------------------------------
\* The relay socket.

Fresh == {s \in Sockets : sock[s] = "unused"}

\* Mutant: the old socket's HELLO timer and the mode are left alone.
ReconnectedInMode(ch) ==
    /\ Fresh # {}
    /\ LET new == CHOOSE s \in Fresh : \A t \in Fresh : s <= t
       IN  /\ sock' = [s \in Sockets |->
                          IF s = new THEN "connecting"
                          ELSE IF s = relayWs /\ sock[s] # "closed" THEN "closing" ELSE sock[s]]
           /\ sockCh' = [sockCh EXCEPT ![new] = ch]
           /\ relayWs' = new
    /\ FpStop
    /\ UNCHANGED <<hello, relayMode, staleClose, fpPending>>

\* relayDisconnect, then a new socket.
Reconnected(ch) ==
    /\ Fresh # {}
    /\ LET new == CHOOSE s \in Fresh : \A t \in Fresh : s <= t
       IN  /\ sock' = [s \in Sockets |->
                          IF s = new THEN "connecting"
                          ELSE IF s = relayWs /\ sock[s] # "closed" THEN "closing" ELSE sock[s]]
           /\ sockCh' = [sockCh EXCEPT ![new] = ch]
           /\ relayWs' = new
    /\ hello' = hello \ {relayWs}
    /\ relayMode' = FALSE /\ staleClose' = FALSE
    /\ FpStop
    /\ UNCHANGED fpPending

\* The Listen button and the quick-play cards.
RelayConnect(ch) ==
    /\ Reconnected(ch)
    /\ UNCHANGED <<autoConnect, baVars>>

\* One second after the page was loaded with a channel it knew.
RelayAuto(ch) ==
    /\ autoConnect /\ autoConnect' = FALSE
    /\ Reconnected(ch)
    /\ UNCHANGED baVars

\* Without a relay connection and on a local page nothing is reconnected.
SwitchChannel(ch) ==
    /\ relayMode \/ RemotePage
    /\ Reconnected(ch)
    /\ UNCHANGED <<autoConnect, baVars>>

\* Mutant: a start that waits does not keep another one out.
BaStartAgain ==
    IF baActive THEN UNCHANGED <<baPhase, baCtx>> ELSE baPhase' = "resume" /\ baCtx' = TRUE

\* baStart: nothing while active or starting.
BaStart ==
    IF baActive \/ baPhase # "idle" THEN UNCHANGED <<baPhase, baCtx>>
    ELSE baPhase' = "resume" /\ baCtx' = TRUE

RelayOpen(s) ==
    /\ sock[s] = "connecting"
    /\ sock' = [sock EXCEPT ![s] = "open"]
    /\ relayMode' = TRUE /\ staleClose' = FALSE
    /\ hello' = hello \union {s}
    /\ fpPending' = fpPending \union {sockCh[s]}
    /\ BaStart
    /\ UNCHANGED <<sockCh, relayWs, autoConnect, baActive, graphs, pingTimers, wakeAsked, wakeLock,
                   fpChannel, recorder, blobs, sample>>

\* onclose of any socket, current or not; nothing reconnects.
RelayClosed(s) ==
    /\ sock[s] \in {"connecting", "open", "closing"}
    /\ sock' = [sock EXCEPT ![s] = "closed"]
    /\ relayMode' = FALSE
    /\ staleClose' = (s # relayWs /\ (staleClose \/ relayMode))
    /\ UNCHANGED <<sockCh, relayWs, hello, autoConnect, baVars, fpVars>>

-----------------------------------------------------------------------------
\* The audio graph.

PressListen ==
    /\ ~baActive
    /\ BaStart
    /\ UNCHANGED <<relayVars, baActive, graphs, pingTimers, wakeAsked, wakeLock, fpVars>>

\* resume() is over: gain and analyser are made, the worklet is loaded.
BaResumed ==
    /\ baPhase = "resume"
    /\ baPhase' = "module" /\ graphs' = graphs + 1
    /\ UNCHANGED <<relayVars, baActive, baCtx, pingTimers, wakeAsked, wakeLock, fpVars>>

\* addModule is over, or the ScriptProcessor stands in for it.
BaStarted ==
    /\ baPhase = "module"
    /\ baPhase' = "idle" /\ baActive' = TRUE /\ pingTimers' = pingTimers + 1
    /\ wakeAsked' = TRUE
    /\ UNCHANGED <<relayVars, baCtx, graphs, wakeLock, fpVars>>

\* The graph could not be made: the context is kept for the next try.
BaFailed ==
    /\ baPhase = "resume"
    /\ baPhase' = "idle"
    /\ UNCHANGED <<relayVars, baActive, baCtx, graphs, pingTimers, wakeAsked, wakeLock, fpVars>>

\* baStop, by the button, by the switch to a local file or when the page goes.
BaStop ==
    /\ baActive
    /\ baActive' = FALSE /\ baCtx' = FALSE /\ graphs' = 0
    /\ pingTimers' = pingTimers - 1 /\ wakeLock' = FALSE
    /\ UNCHANGED <<relayVars, baPhase, wakeAsked, fpVars>>

\* The promise of a wake lock resolves, whether or not it is still wanted.
WakeGranted ==
    /\ wakeAsked
    /\ wakeAsked' = FALSE /\ wakeLock' = TRUE
    /\ UNCHANGED <<relayVars, baActive, baPhase, baCtx, graphs, pingTimers, fpVars>>

\* baOnVisibility: hiding the page released the lock.
Visible ==
    /\ baActive
    /\ wakeAsked' = TRUE /\ wakeLock' = FALSE
    /\ UNCHANGED <<relayVars, baActive, baPhase, baCtx, graphs, pingTimers, fpVars>>

WauNext ==
    \/ \E ch \in RelayChannels :
          RelayConnect(ch) \/ RelayAuto(ch) \/ SwitchChannel(ch) \/ FpTimer(ch) \/ FpLoaded(ch)
    \/ \E s \in Sockets : RelayOpen(s) \/ RelayClosed(s)
    \/ FpCapture \/ FpRecorded \/ FpReport
    \/ PressListen \/ BaResumed \/ BaStarted \/ BaFailed \/ BaStop \/ WakeGranted \/ Visible

WauSpec == WauInit /\ [][WauNext]_wauVars

-----------------------------------------------------------------------------
WauTypeOK ==
    /\ sock \in [Sockets -> {"unused", "connecting", "open", "closing", "closed"}]
    /\ sockCh \in [Sockets -> RelayChannels \union {NoCh}]
    /\ relayWs \in 0 .. MaxRelaySockets /\ relayMode \in BOOLEAN /\ hello \subseteq Sockets
    /\ staleClose \in BOOLEAN /\ autoConnect \in BOOLEAN
    /\ baActive \in BOOLEAN /\ baPhase \in {"idle", "resume", "module"} /\ baCtx \in BOOLEAN
    /\ graphs \in Nat /\ pingTimers \in Nat /\ wakeAsked \in BOOLEAN /\ wakeLock \in BOOLEAN
    /\ fpPending \subseteq RelayChannels /\ blobs \subseteq RelayChannels
    /\ {fpChannel, recorder, sample} \subseteq RelayChannels \union {NoCh}

\* relayMode is trusted by switchChannel and by the badge, and written by the
\* handlers of replaced sockets: it is true exactly while the current socket is
\* open, but for one case.  A replaced socket that closes only now turns it off
\* beside an open one, and it stays off until the next connection.
RelayModeIsOpen ==
    /\ relayMode => relayWs # 0 /\ sock[relayWs] = "open"
    /\ relayWs # 0 /\ sock[relayWs] = "open" => relayMode \/ staleClose
    /\ staleClose => sock[relayWs] = "open" /\ \E s \in Sockets \ {relayWs} : sock[s] = "closed"

\* No switch, no loss and no reconnection leaves a second HELLO timer behind:
\* only the current socket's timer ever runs.
OneHelloTimer == hello \subseteq {relayWs}

\* The listen button and the relay's onopen may both start the audio while a
\* start is waiting for the browser: there is never a second graph, and the
\* graph, the context and the ping timer live and die together.
OneAudioGraph ==
    /\ graphs <= 1
    /\ graphs = 1 <=> (baActive \/ baPhase = "module")
    /\ pingTimers = (IF baActive THEN 1 ELSE 0)
    /\ graphs = 1 => baCtx
=============================================================================
