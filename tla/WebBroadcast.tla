----------------------------- MODULE WebBroadcast -----------------------------
(***************************************************************************)
(* The microphone broadcast of the dashboard (web/app.js): btxStart waits  *)
(* three times - for the microphone, for the engine, for the audio context *)
(* - and keeps what it has got so far in globals that btxCleanup takes     *)
(* away.  The button stops only a broadcast that is active, so a second    *)
(* click during a start begins another start.                              *)
(*                                                                         *)
(* Starts are numbered; a start's microphone track and socket carry its    *)
(* number.  Encoding is left out.                                          *)
(***************************************************************************)
EXTENDS Naturals

CONSTANT MaxBtStarts \* bound: starts of a broadcast

ASSUME BroadcastAssumption == MaxBtStarts \in Nat \ {0}

VARIABLES btPhase,   \* per start: how far it is
          btLive,    \* starts whose microphone track runs
          btSocket,  \* per start: its socket
          btActive,
          btMic, btCtx, btWs, \* whose stream, context, socket the globals are, 0 = null
          btOverlap, \* a start was begun while another one waited
          btLeaked   \* starts that threw where nothing catches, microphone on

btVars == <<btPhase, btLive, btSocket, btActive, btMic, btCtx, btWs, btOverlap, btLeaked>>

BtStarts == 1 .. MaxBtStarts
BtWaiting == {k \in BtStarts : btPhase[k] \in {"mic", "engine", "context"}}

BtInit ==
    /\ btPhase = [k \in BtStarts |-> "unused"] /\ btLive = {}
    /\ btSocket = [k \in BtStarts |-> "none"]
    /\ btActive = FALSE /\ btMic = 0 /\ btCtx = 0 /\ btWs = 0 /\ btOverlap = FALSE
    /\ btLeaked = {}

\* Mutant: the tracks of the microphone are not stopped.
BtCleanupLeavesMic(sockets) ==
    /\ btLive' = btLive /\ btMic' = 0 /\ btCtx' = 0 /\ btWs' = 0
    /\ btSocket' = [k \in BtStarts |->
                       IF k = btWs /\ sockets[k] # "closed" THEN "closing" ELSE sockets[k]]

\* btxCleanup: the tracks of the stream, the context and the socket that the
\* globals hold.
BtCleanup(sockets) ==
    /\ btLive' = btLive \ {btMic} /\ btMic' = 0 /\ btCtx' = 0 /\ btWs' = 0
    /\ btSocket' = [k \in BtStarts |->
                       IF k = btWs /\ sockets[k] # "closed" THEN "closing" ELSE sockets[k]]

BtClick ==
    /\ ~btActive
    /\ \E k \in BtStarts :
          /\ \A j \in BtStarts : btPhase[j] = "unused" <=> j >= k
          /\ btPhase' = [btPhase EXCEPT ![k] = "mic"]
    /\ btOverlap' = (btOverlap \/ BtWaiting # {})
    /\ UNCHANGED <<btLive, btSocket, btActive, btMic, btCtx, btWs, btLeaked>>

BtMicDenied(k) ==
    /\ btPhase[k] = "mic" /\ btPhase' = [btPhase EXCEPT ![k] = "over"]
    /\ UNCHANGED <<btLive, btSocket, btActive, btMic, btCtx, btWs, btOverlap, btLeaked>>

BtMicGranted(k) ==
    /\ btPhase[k] = "mic" /\ btPhase' = [btPhase EXCEPT ![k] = "engine"]
    /\ btLive' = btLive \union {k} /\ btMic' = k
    /\ UNCHANGED <<btSocket, btActive, btCtx, btWs, btOverlap, btLeaked>>

\* The engine could not be loaded, the encoder not made, the socket not opened.
BtFailed(k) ==
    /\ btPhase[k] = "engine" /\ btPhase' = [btPhase EXCEPT ![k] = "over"]
    /\ BtCleanup(btSocket)
    /\ UNCHANGED <<btActive, btOverlap, btLeaked>>

\* The encoder, the socket with its onclose, and the context.
BtEngine(k) ==
    /\ btPhase[k] = "engine" /\ btPhase' = [btPhase EXCEPT ![k] = "context"]
    /\ btSocket' = [btSocket EXCEPT ![k] = "connecting"]
    /\ btWs' = k /\ btCtx' = k
    /\ UNCHANGED <<btLive, btActive, btMic, btOverlap, btLeaked>>

\* The socket is made, and new AudioContext throws outside of any try.
BtContextThrows(k) ==
    /\ btPhase[k] = "engine" /\ btPhase' = [btPhase EXCEPT ![k] = "over"]
    /\ btSocket' = [btSocket EXCEPT ![k] = "connecting"]
    /\ btWs' = k
    /\ btLeaked' = btLeaked \union {k}
    /\ UNCHANGED <<btLive, btActive, btMic, btCtx, btOverlap>>

\* resume() is over: the graph is made of what the globals are now.
BtResumed(k) ==
    /\ btPhase[k] = "context" /\ btPhase' = [btPhase EXCEPT ![k] = "over"]
    /\ btCtx # 0 /\ btMic # 0
    /\ btActive' = TRUE
    /\ UNCHANGED <<btLive, btSocket, btMic, btCtx, btWs, btOverlap, btLeaked>>

\* A node of the graph cannot be made, of nothing in any case: nothing catches
\* it, and what the start has got stays.
BtGraphThrows(k) ==
    /\ btPhase[k] = "context" /\ btPhase' = [btPhase EXCEPT ![k] = "over"]
    /\ btLeaked' = btLeaked \union {k}
    /\ UNCHANGED <<btLive, btSocket, btActive, btMic, btCtx, btWs, btOverlap>>

BtStop ==
    /\ btActive /\ btActive' = FALSE
    /\ BtCleanup(btSocket)
    /\ UNCHANGED <<btPhase, btOverlap, btLeaked>>

BtOpen(k) ==
    /\ btSocket[k] = "connecting" /\ btSocket' = [btSocket EXCEPT ![k] = "open"]
    /\ UNCHANGED <<btPhase, btLive, btActive, btMic, btCtx, btWs, btOverlap, btLeaked>>

\* onclose of any of the sockets stops whatever broadcast is active.
BtClosed(k) ==
    /\ btSocket[k] \in {"connecting", "open", "closing"}
    /\ LET sockets == [btSocket EXCEPT ![k] = "closed"]
       IN  IF btActive THEN BtCleanup(sockets)
           ELSE btSocket' = sockets /\ UNCHANGED <<btLive, btMic, btCtx, btWs>>
    /\ btActive' = FALSE
    /\ UNCHANGED <<btPhase, btOverlap, btLeaked>>

BtNext ==
    \/ BtClick \/ BtStop
    \/ \E k \in BtStarts :
          \/ BtMicDenied(k) \/ BtMicGranted(k) \/ BtFailed(k) \/ BtEngine(k)
          \/ BtContextThrows(k) \/ BtResumed(k) \/ BtGraphThrows(k)
          \/ BtOpen(k) \/ BtClosed(k)

BtSpec == BtInit /\ [][BtNext]_btVars

-----------------------------------------------------------------------------
BtTypeOK ==
    /\ btPhase \in [BtStarts -> {"unused", "mic", "engine", "context", "over"}]
    /\ btLive \subseteq BtStarts /\ btLeaked \subseteq BtStarts
    /\ btSocket \in [BtStarts -> {"none", "connecting", "open", "closing", "closed"}]
    /\ btActive \in BOOLEAN /\ btOverlap \in BOOLEAN
    /\ {btMic, btCtx, btWs} \subseteq 0 .. MaxBtStarts

\* The microphone runs only for a broadcast: as long as no start was begun
\* while another waited, the running track is the one btxCleanup will stop; it
\* is given back when the encoder or the socket cannot be made, when the
\* broadcast is stopped and when a socket closes - an earlier one's, late - and
\* a broadcast that shows as active has it.  A start whose audio context or
\* graph throws leaves its own track on, for good, and no other's.
BroadcastOwnsMic ==
    ~btOverlap =>
        /\ btLive \ btLeaked = {btMic} \ ({0} \union btLeaked)
        /\ btActive => btMic # 0 /\ btMic \notin btLeaked /\ btCtx # 0
        /\ ~btActive /\ BtWaiting = {} => btLive \subseteq btLeaked
=============================================================================
