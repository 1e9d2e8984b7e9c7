------------------------------- MODULE WebEngine -------------------------------
(***************************************************************************)
(* The browser engine object (web/wasm/soluna-audio.js): init() with its   *)
(* two ways to run the decoder, the WebSocket or the transport that feeds  *)
(* it, reconnection, the fall back from a transport to a WebSocket, the    *)
(* packets handed to the worklet (soluna-worklet-wasm.js), destroy().      *)
(*                                                                         *)
(* Sockets and transports are numbered together as they are made.  A       *)
(* transport reconnects by itself (module WebTransports); here it is       *)
(* trying, up or gone, and the session it may have left behind, the last   *)
(* one if there are several, is its stray.  Timers fire at any later       *)
(* moment; _reconnectTimer is the handle of the latest reconnection only,  *)
(* and no handle of a fall-back timer reaches disconnect().  Decoding,     *)
(* statistics and the clock offset are left out.                           *)
(***************************************************************************)
EXTENDS Naturals

CONSTANTS Transports,   \* the browser has WebTransport
          MaxEnLinks,   \* bound: sockets and transports made
          MaxEnTimers,  \* bound: reconnections pending
          EnQueueCap    \* packets the worklet keeps between two blocks

ASSUME EngineAssumption ==
    /\ Transports \in BOOLEAN /\ MaxEnLinks \in Nat \ {0} /\ MaxEnTimers \in Nat
    /\ EnQueueCap \in Nat \ {0}

VARIABLES enPhase,      \* init(): "worklet", "main", then "on" or "failed"
          enCtx,        \* the audio context is there
          enMode, enQueue, enGone,
          enLink,       \* per socket or transport: its state
          enWs, enTransport, \* the current ones, 0 = null
          enUrl, enIntent,   \* _wsUrl is set; _intentionalClose
          enTimers, enHandle, \* reconnections pending; _reconnectTimer is one
          enStray,      \* per transport: the session disconnect() would miss
          enFallback,   \* transports whose fall-back timer runs
          enSync,       \* the clock synchronisation timer runs
          enHasty       \* connect() came before what it replaced was over

enLinks == <<enLink, enWs, enTransport, enUrl, enIntent, enTimers, enHandle, enStray, enFallback, enSync, enHasty>>
enBase == <<enPhase, enCtx, enMode, enQueue, enGone>>
enVars == <<enBase, enLinks>>

EnLinks == 1 .. MaxEnLinks
EnPending == {"connecting", "open", "trying", "up"}

EnInit ==
    /\ enPhase = "worklet" /\ enCtx = TRUE /\ enMode = "message" /\ enQueue = 0 /\ enGone = FALSE
    /\ enLink = [k \in EnLinks |-> "unused"] /\ enStray = [k \in EnLinks |-> "none"]
    /\ enWs = 0 /\ enTransport = 0 /\ enUrl = FALSE /\ enIntent = FALSE
    /\ enTimers = 0 /\ enHandle = FALSE /\ enFallback = {} /\ enSync = FALSE /\ enHasty = FALSE

-----------------------------------------------------------------------------
\* init() and the worklet.

\* The worklet said ready in time, or it did not and the engine runs on the
\* page.
EnWorkletTried(ready) ==
    /\ enPhase = "worklet"
    /\ IF ready
       THEN /\ enMode' = "worklet"
            /\ enPhase' = IF enCtx THEN "on" ELSE "failed"
       ELSE enPhase' = "main" /\ UNCHANGED enMode
    /\ UNCHANGED <<enCtx, enQueue, enGone, enLinks>>

\* The engine, the Opus decoder and the worklet module are loaded.
EnMainTried(shared) ==
    /\ enPhase = "main"
    /\ enPhase' = IF enCtx THEN "on" ELSE "failed"
    /\ enMode' = IF shared THEN "shared" ELSE "message"
    /\ UNCHANGED <<enCtx, enQueue, enGone, enLinks>>

\* The worklet's queue drops what it has no room for.
Enqueued == IF enQueue < EnQueueCap THEN enQueue + 1 ELSE enQueue

\* _handlePacket in a worklet.
EnPacket(k) ==
    /\ enLink[k] \in {"open", "up"} \/ enStray[k] = "up"
    /\ enPhase = "on" /\ ~enGone /\ enMode = "worklet"
    /\ enQueue' = Enqueued
    /\ UNCHANGED <<enPhase, enCtx, enMode, enGone, enLinks>>

\* process(): everything queued goes to the decoder.
EnProcess ==
    /\ enQueue > 0 /\ enQueue' = 0
    /\ UNCHANGED <<enPhase, enCtx, enMode, enGone, enLinks>>

-----------------------------------------------------------------------------
\* Connections.

\* _startClockSync: a ping at once and every five seconds, over whatever link is
\* current; the offset computed from the answers is not kept here.
SyncStarted == enSync' = TRUE

\* _stopClockSync.
SyncStopped == enSync' = FALSE

\* What disconnect() does to what is current; the fall-back timer goes on, and
\* so does a stray session.
EnCut == [k \in EnLinks |->
            IF k = enWs /\ enLink[k] # "gone" THEN "closing"
            ELSE IF k = enTransport THEN "gone" ELSE enLink[k]]

EnTimersCleared == enTimers - (IF enHandle THEN 1 ELSE 0)

EnDropped ==
    /\ enLink' = EnCut /\ enWs' = 0 /\ enTransport' = 0 /\ enUrl' = FALSE /\ enIntent' = TRUE
    /\ enTimers' = EnTimersCleared /\ enHandle' = FALSE /\ SyncStopped
    /\ UNCHANGED <<enStray, enFallback, enHasty>>

EnDisconnect ==
    /\ ~enGone
    /\ EnDropped
    /\ UNCHANGED enBase

\* A new link in the given state; numbers are given in order.
EnMade(links, new, state) ==
    /\ \A k \in EnLinks : links[k] = "unused" <=> k >= new
    /\ enLink' = [links EXCEPT ![new] = state]

\* _openWs, and _scheduleReconnect when new WebSocket throws, with so many
\* reconnections pending and their handle.
EnOpened(links, pending, handle) ==
    \/ /\ \E new \in EnLinks : EnMade(links, new, "connecting") /\ enWs' = new
       /\ enTimers' = pending /\ enHandle' = handle
    \/ /\ enLink' = links /\ UNCHANGED enWs
       /\ pending < MaxEnTimers /\ enTimers' = pending + 1 /\ enHandle' = TRUE

\* connect() and connectAuto(): disconnect() first when there is something.
\* A handle that nothing cleared is forgotten, except on the way over a
\* transport.
EnSomething == enWs # 0 \/ enTransport # 0

EnLeft == IF EnSomething THEN EnTimersCleared ELSE enTimers

EnAsked ==
    /\ ~enGone
    /\ enUrl' = TRUE /\ enIntent' = FALSE
    /\ IF EnSomething THEN SyncStopped ELSE UNCHANGED enSync
    /\ enHasty' = (enHasty \/ EnLeft > 0 \/ enFallback # {} \/ \E k \in EnLinks : EnCut[k] = "closing")
    /\ UNCHANGED <<enBase, enStray>>

EnConnect ==
    /\ EnAsked
    /\ \/ /\ \E new \in EnLinks : EnMade(EnCut, new, "connecting") /\ enWs' = new
          /\ enTimers' = EnLeft /\ enHandle' = FALSE
       \/ /\ enLink' = EnCut /\ enWs' = 0
          /\ EnLeft < MaxEnTimers /\ enTimers' = EnLeft + 1 /\ enHandle' = TRUE
    /\ enTransport' = 0
    /\ UNCHANGED enFallback

EnConnectTransport ==
    /\ Transports
    /\ EnAsked
    /\ \E new \in EnLinks :
          /\ EnMade(EnCut, new, "trying")
          /\ enTransport' = new /\ enFallback' = enFallback \union {new}
    /\ enWs' = 0
    /\ enTimers' = EnLeft /\ enHandle' = (enHandle /\ ~EnSomething)

EnOpen(k) ==
    /\ enLink[k] = "connecting" /\ enLink' = [enLink EXCEPT ![k] = "open"]
    /\ SyncStarted
    /\ UNCHANGED <<enBase, enWs, enTransport, enUrl, enIntent, enTimers, enHandle, enStray, enFallback, enHasty>>

\* onclose of any socket; the flag it reads is that of the moment.
EnClosed(k) ==
    /\ enLink[k] \in {"connecting", "open", "closing"} /\ enLink' = [enLink EXCEPT ![k] = "gone"]
    /\ IF enIntent \/ ~enUrl THEN UNCHANGED <<enTimers, enHandle>>
       ELSE enTimers < MaxEnTimers /\ enTimers' = enTimers + 1 /\ enHandle' = TRUE
    /\ UNCHANGED <<enBase, enWs, enTransport, enUrl, enIntent, enStray, enFallback, enSync, enHasty>>

EnTimer ==
    /\ enTimers > 0
    /\ IF ~enIntent /\ enUrl
       THEN EnOpened(enLink, enTimers - 1, FALSE)
       ELSE enTimers' = enTimers - 1 /\ enHandle' = FALSE /\ UNCHANGED <<enLink, enWs>>
    /\ UNCHANGED <<enBase, enTransport, enUrl, enIntent, enStray, enFallback, enSync, enHasty>>

\* onStateChange of a transport: its session is up, or a stray one.
EnTransportUp(k) ==
    /\ \/ enLink[k] = "trying" /\ enLink' = [enLink EXCEPT ![k] = "up"] /\ UNCHANGED enStray
       \/ enStray[k] = "trying" /\ enStray' = [enStray EXCEPT ![k] = "up"] /\ UNCHANGED enLink
    /\ enFallback' = enFallback \ {k} /\ SyncStarted
    /\ UNCHANGED <<enBase, enWs, enTransport, enUrl, enIntent, enTimers, enHandle, enHasty>>

EnTransportLost(k) ==
    /\ \/ enLink[k] = "up" /\ enLink' = [enLink EXCEPT ![k] = "trying"] /\ UNCHANGED enStray
       \/ enStray[k] # "none" /\ enStray' = [enStray EXCEPT ![k] = "none"] /\ UNCHANGED enLink
    /\ UNCHANGED <<enBase, enWs, enTransport, enUrl, enIntent, enTimers, enHandle, enFallback, enSync, enHasty>>

\* A second reconnection of a transport, or the end of a stray session: the
\* session it had goes on, and is no longer the one disconnect() closes.
EnTransportStrays(k) ==
    /\ enLink[k] \in {"trying", "up"}
    /\ enStray' = [enStray EXCEPT ![k] = enLink[k]]
    /\ enLink' = [enLink EXCEPT ![k] = "trying"]
    /\ UNCHANGED <<enBase, enWs, enTransport, enUrl, enIntent, enTimers, enHandle, enFallback, enSync, enHasty>>

\* The five seconds of a transport are over; it was never up.
EnFallBack(k) ==
    /\ k \in enFallback /\ enFallback' = enFallback \ {k}
    /\ IF enIntent
       THEN UNCHANGED <<enLink, enWs, enTransport, enTimers, enHandle>>
       ELSE EnOpened([enLink EXCEPT ![k] = "gone"], enTimers, FALSE) /\ enTransport' = 0
    /\ UNCHANGED <<enBase, enUrl, enIntent, enStray, enSync, enHasty>>

\* destroy(): disconnect() and the rest; init() may still be waiting.
EnDestroy ==
    /\ ~enGone /\ enGone' = TRUE /\ enCtx' = FALSE /\ enMode' = "message"
    /\ EnDropped
    /\ UNCHANGED <<enPhase, enQueue>>

EnNext ==
    \/ EnProcess \/ EnConnect \/ EnConnectTransport \/ EnDisconnect \/ EnTimer \/ EnDestroy
    \/ \E yes \in BOOLEAN : EnWorkletTried(yes) \/ EnMainTried(yes)
    \/ \E k \in EnLinks :
          \/ EnPacket(k) \/ EnOpen(k) \/ EnClosed(k)
          \/ EnTransportUp(k) \/ EnTransportLost(k) \/ EnTransportStrays(k) \/ EnFallBack(k)

EnSpec == EnInit /\ [][EnNext]_enVars

-----------------------------------------------------------------------------
EnTypeOK ==
    /\ enPhase \in {"worklet", "main", "on", "failed"} /\ enCtx \in BOOLEAN
    /\ enMode \in {"message", "shared", "worklet"} /\ enQueue \in 0 .. EnQueueCap /\ enGone \in BOOLEAN
    /\ enLink \in [EnLinks -> {"unused", "connecting", "open", "closing", "trying", "up", "gone"}]
    /\ {enWs, enTransport} \subseteq 0 .. MaxEnLinks /\ enUrl \in BOOLEAN /\ enIntent \in BOOLEAN
    /\ enTimers \in 0 .. MaxEnTimers /\ enHandle \in BOOLEAN /\ enFallback \subseteq EnLinks
    /\ enStray \in [EnLinks -> {"none", "trying", "up"}]
    /\ enSync \in BOOLEAN /\ enHasty \in BOOLEAN

\* Packets come from at most one link, the one disconnect() would close, and
\* once disconnect() has run from none - through losses, failing constructors,
\* reconnections and the fall back - as long as every connect() finds the
\* socket it replaces closed, its fall-back timer spent and no reconnection that
\* it cannot cancel.  A stray session of a transport feeds on beside the link:
\* TransportOwnsSession says when a transport has none.
EngineOwnsSocket ==
    ~enHasty => /\ \A k \in EnLinks : enLink[k] \in EnPending => k \in {enWs, enTransport}
                /\ enWs = 0 \/ enTransport = 0
                /\ enTimers <= 1

\* Whatever timers are still under way when disconnect() runs, none of them
\* opens a socket before connect() is called again.
EngineStaysDown ==
    [][enIntent /\ enIntent' => \A k \in EnLinks : enLink[k] = "unused" => enLink'[k] = "unused"]_enVars
=============================================================================
