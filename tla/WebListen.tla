------------------------------ MODULE WebListen ------------------------------
(***************************************************************************)
(* The public listening page (web/listen.js): play, stop and the choice of *)
(* a channel, the start of the audio output that play() waits for, and the *)
(* WebSocket that reconnects while playing.                                *)
(*                                                                         *)
(* A socket that is replaced or stopped loses its onclose first and says   *)
(* nothing any more.  The reconnection timers are never cancelled.  The    *)
(* visualiser, the volume and the contents of packets are left out.        *)
(***************************************************************************)
EXTENDS Naturals

CONSTANTS ListenChannels, \* channels of the page
          MaxLsSockets,   \* bound: sockets the page opens
          MaxLsStarts     \* bound: calls of play() that wait for the output

ASSUME ListenAssumption == MaxLsSockets \in Nat \ {0} /\ MaxLsStarts \in Nat

VARIABLES lsPlaying, lsChannel,
          lsStarts,    \* calls of play() waiting in startAudioOutput
          lsLoaded,    \* the worklet module is loaded
          lsWorklet, lsScript, \* the output nodes the page knows
          lsNodes,     \* output nodes connected to the speaker
          lsSock, lsSockCh,    \* per socket: state, channel
          lsWs,        \* the current socket, 0 = null
          lsTimers,    \* reconnections pending
          lsFilled     \* prefillReached: the page says that it plays

lsVars == <<lsPlaying, lsChannel, lsStarts, lsLoaded, lsWorklet, lsScript, lsNodes,
            lsSock, lsSockCh, lsWs, lsTimers, lsFilled>>

lsOutput == <<lsStarts, lsLoaded, lsWorklet, lsScript, lsNodes>>
LsSockets == 1 .. MaxLsSockets

LsInit ==
    /\ lsPlaying = FALSE /\ lsChannel \in ListenChannels
    /\ lsStarts = 0 /\ lsLoaded = FALSE /\ lsWorklet = FALSE /\ lsScript = FALSE /\ lsNodes = 0
    /\ lsSock = [s \in LsSockets |-> "unused"] /\ lsSockCh = [s \in LsSockets |-> lsChannel]
    /\ lsWs = 0 /\ lsTimers = 0 /\ lsFilled = FALSE

\* Mutant: the socket that is replaced or stopped stays open.
LsKept == lsSock

\* The sockets after the current one was silenced and closed.
LsDropped == [s \in LsSockets |-> IF s = lsWs THEN "gone" ELSE lsSock[s]]

\* connectWS with resetBuffer: numbers are given in order.
ConnectWS(ch) ==
    \E new \in LsSockets :
        /\ \A s \in LsSockets : lsSock[s] = "unused" <=> s >= new
        /\ lsSock' = [LsDropped EXCEPT ![new] = "connecting"]
        /\ lsSockCh' = [lsSockCh EXCEPT ![new] = ch]
        /\ lsWs' = new
        /\ lsFilled' = FALSE

\* play() up to the first thing it has to wait for: the module, the first
\* time; later it goes through to the end.
LsPlay ==
    /\ ~lsPlaying /\ lsPlaying' = TRUE
    /\ IF lsWorklet
       THEN ConnectWS(lsChannel) /\ UNCHANGED lsOutput
       ELSE IF lsLoaded
       THEN /\ lsWorklet' = TRUE /\ lsNodes' = lsNodes + 1
            /\ ConnectWS(lsChannel) /\ UNCHANGED <<lsStarts, lsLoaded, lsScript>>
       ELSE /\ lsStarts < MaxLsStarts /\ lsStarts' = lsStarts + 1
            /\ UNCHANGED <<lsLoaded, lsWorklet, lsScript, lsNodes, lsSock, lsSockCh, lsWs, lsFilled>>
    /\ UNCHANGED <<lsChannel, lsTimers>>

\* addModule has settled: the node is made and the rest of play() runs,
\* whatever was pressed meanwhile; a refused module falls back to a script
\* node.
LsStarted(refused) ==
    /\ lsStarts > 0 /\ lsStarts' = lsStarts - 1
    /\ lsNodes' = lsNodes + 1
    /\ IF refused
       THEN lsScript' = TRUE /\ UNCHANGED <<lsLoaded, lsWorklet>>
       ELSE lsLoaded' = TRUE /\ lsWorklet' = TRUE /\ UNCHANGED lsScript
    /\ ConnectWS(lsChannel)
    /\ UNCHANGED <<lsPlaying, lsChannel, lsTimers>>

\* stopAudioOutput: the nodes the page knows are disconnected.
LsNodesLeft == lsNodes - (IF lsWorklet THEN 1 ELSE 0) - (IF lsScript THEN 1 ELSE 0)

LsStop ==
    /\ lsPlaying /\ lsPlaying' = FALSE
    /\ lsSock' = LsDropped /\ lsWs' = 0
    /\ lsNodes' = LsNodesLeft /\ lsWorklet' = FALSE /\ lsScript' = FALSE /\ lsFilled' = FALSE
    /\ UNCHANGED <<lsChannel, lsStarts, lsLoaded, lsSockCh, lsTimers>>

LsSwitch(ch) ==
    /\ ~(ch = lsChannel /\ lsPlaying)
    /\ lsChannel' = ch
    /\ IF lsPlaying THEN ConnectWS(ch) ELSE UNCHANGED <<lsSock, lsSockCh, lsWs, lsFilled>>
    /\ UNCHANGED <<lsPlaying, lsOutput, lsTimers>>

LsOpen(s) ==
    /\ lsSock[s] = "connecting" /\ lsSock' = [lsSock EXCEPT ![s] = "open"]
    /\ UNCHANGED <<lsPlaying, lsChannel, lsOutput, lsSockCh, lsWs, lsTimers, lsFilled>>

\* A packet is decoded and buffered, playing or not; with enough of them the
\* page says that it plays.
LsPacket(s) ==
    /\ lsSock[s] = "open" /\ lsFilled' = TRUE
    /\ UNCHANGED <<lsPlaying, lsChannel, lsOutput, lsSock, lsSockCh, lsWs, lsTimers>>

\* onclose of a socket that was not silenced.
LsClosed(s) ==
    /\ lsSock[s] \in {"connecting", "open"} /\ lsSock' = [lsSock EXCEPT ![s] = "gone"]
    /\ lsTimers' = IF lsPlaying THEN lsTimers + 1 ELSE lsTimers
    /\ UNCHANGED <<lsPlaying, lsChannel, lsOutput, lsSockCh, lsWs, lsFilled>>

\* A reconnection falls due, playing or not.
LsTimer ==
    /\ lsTimers > 0 /\ lsTimers' = lsTimers - 1
    /\ ConnectWS(lsChannel)
    /\ UNCHANGED <<lsPlaying, lsChannel, lsOutput>>

LsNext ==
    \/ LsPlay \/ LsStop \/ LsTimer
    \/ \E refused \in BOOLEAN : LsStarted(refused)
    \/ \E ch \in ListenChannels : LsSwitch(ch)
    \/ \E s \in LsSockets : LsOpen(s) \/ LsPacket(s) \/ LsClosed(s)

LsSpec == LsInit /\ [][LsNext]_lsVars

-----------------------------------------------------------------------------
LsLive(s) == lsSock[s] \in {"connecting", "open"}

LsTypeOK ==
    /\ lsPlaying \in BOOLEAN /\ lsChannel \in ListenChannels
    /\ lsStarts \in 0 .. MaxLsStarts /\ lsLoaded \in BOOLEAN
    /\ lsWorklet \in BOOLEAN /\ lsScript \in BOOLEAN /\ lsNodes \in Nat
    /\ lsSock \in [LsSockets -> {"unused", "connecting", "open", "gone"}]
    /\ lsSockCh \in [LsSockets -> ListenChannels]
    /\ lsWs \in 0 .. MaxLsSockets /\ lsTimers \in 0 .. MaxLsSockets
    /\ lsFilled \in BOOLEAN

\* However starts, stops, switches, losses and late timers interleave, the
\* page receives over at most one socket, the one it can close; what it says
\* it plays came over that socket; and once play() is through, the socket is
\* for the chosen channel, and when it is lost a reconnection is pending.
OneListenSocket ==
    /\ \A s \in LsSockets : LsLive(s) => s = lsWs
    /\ lsFilled => lsWs # 0 /\ lsSock[lsWs] \in {"open", "gone"}
    /\ lsPlaying /\ lsStarts = 0 =>
          /\ lsWs # 0
          /\ LsLive(lsWs) => lsSockCh[lsWs] = lsChannel
          /\ LsLive(lsWs) \/ lsTimers > 0
=============================================================================
