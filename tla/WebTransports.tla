----------------------------- MODULE WebTransports -----------------------------
(***************************************************************************)
(* One transport object of the browser engine (web/wasm/soluna-            *)
(* transport.js), over WebTransport or over a WebSocket: connect,          *)
(* disconnect, and the reconnection with back-off.                         *)
(*                                                                         *)
(* The callbacks of a session belong to the object, not to the session:    *)
(* they read the flag, the address and the session of the moment.  A       *)
(* session that fails rejects two promises of WebTransport, ready and      *)
(* closed, and each asks for a reconnection.  Whose datagrams are read is  *)
(* kept; what they hold, writers and control streams are left out.         *)
(***************************************************************************)
EXTENDS Naturals

CONSTANTS MaxSessions, MaxTrTimers \* bounds: sessions opened, timers pending

ASSUME TransportsAssumption == MaxSessions \in Nat \ {0} /\ MaxTrTimers \in Nat

VARIABLES trKind,      \* "webtransport" or "websocket"
          trSession,   \* per session: "failing" still rejects both promises
          trCurrent,   \* _wt or _ws, 0 = null
          trIntent,    \* _intentionalClose
          trUrl,       \* an address is known
          trTimers,    \* reconnections pending
          trHandle,    \* _reconnectTimer is the latest of them
          trReading,   \* sessions whose datagrams are read
          trTwice      \* a reconnection was scheduled beside another one or
                       \* beside a session that lives

trVars == <<trKind, trSession, trCurrent, trIntent, trUrl, trTimers, trHandle, trReading, trTwice>>

TrSessions == 1 .. MaxSessions
TrKinds == {"webtransport", "websocket"}

TrInit ==
    /\ trKind \in TrKinds
    /\ trSession = [s \in TrSessions |-> "unused"] /\ trCurrent = 0
    /\ trIntent = FALSE /\ trUrl = FALSE /\ trTimers = 0 /\ trHandle = FALSE
    /\ trReading = {} /\ trTwice = FALSE

TrLive == {s \in TrSessions : trSession[s] \in {"connecting", "ready"}}

\* _openSession, _openWs; a socket brings its own onmessage.
TrOpened(sessions) ==
    \E new \in TrSessions :
        /\ \A s \in TrSessions : sessions[s] = "unused" <=> s >= new
        /\ trSession' = [sessions EXCEPT ![new] = "connecting"]
        /\ trCurrent' = new

\* close() of a session: one that was not ready rejects both its promises.
SessionShut(state) ==
    CASE state = "connecting" -> "failing"
      [] state = "ready" -> "closing"
      [] OTHER -> state

\* close() of a socket.
SocketShut(state) == IF state \in {"connecting", "ready"} THEN "closing" ELSE state

\* The sessions after close() of the current one.
TrCut ==
    [s \in TrSessions |->
        IF s # trCurrent THEN trSession[s]
        ELSE IF trKind = "websocket" THEN SocketShut(trSession[s]) ELSE SessionShut(trSession[s])]

TrTimersCleared == trTimers - (IF trHandle THEN 1 ELSE 0)

\* _scheduleReconnect, while so many are pending and these sessions live.
TrScheduled(pending, live) ==
    /\ pending < MaxTrTimers /\ trTimers' = pending + 1 /\ trHandle' = TRUE
    /\ trTwice' = (trTwice \/ pending > 0 \/ live # {})

TrConnect ==
    /\ TrOpened(TrCut)
    /\ trIntent' = FALSE /\ trUrl' = TRUE
    /\ trTimers' = TrTimersCleared /\ trHandle' = FALSE
    /\ UNCHANGED <<trKind, trReading, trTwice>>

\* The constructor throws: connect() has closed the session there was.
TrConnectThrows ==
    /\ trSession' = TrCut /\ trCurrent' = 0
    /\ trIntent' = FALSE /\ trUrl' = TRUE
    /\ TrScheduled(TrTimersCleared, TrLive \ {trCurrent})
    /\ UNCHANGED <<trKind, trReading>>

TrDisconnect ==
    /\ trSession' = TrCut /\ trCurrent' = 0
    /\ trIntent' = TRUE /\ trUrl' = FALSE
    /\ trTimers' = TrTimersCleared /\ trHandle' = FALSE
    /\ UNCHANGED <<trKind, trReading, trTwice>>

\* A callback asks for a reconnection while these sessions live.
TrSchedule(live) ==
    IF trIntent \/ ~trUrl THEN UNCHANGED <<trTimers, trHandle, trTwice>>
    ELSE TrScheduled(trTimers, live)

\* ready.then: the datagrams read are those of the session that is current now.
\* None is, or it has its reader: what throws is caught, and a reconnection
\* scheduled.
TrReady(s) ==
    /\ trSession[s] = "connecting" /\ trSession' = [trSession EXCEPT ![s] = "ready"]
    /\ IF trKind = "websocket"
       THEN UNCHANGED <<trReading, trTimers, trHandle, trTwice>>
       ELSE IF trCurrent \in {0} \union trReading
       THEN TrSchedule(TrLive) /\ UNCHANGED trReading
       ELSE trReading' = trReading \union {trCurrent} /\ UNCHANGED <<trTimers, trHandle, trTwice>>
    /\ UNCHANGED <<trKind, trCurrent, trIntent, trUrl>>

\* ready.catch; the session's closed promise has yet to settle.
TrReadyRejected(s) ==
    /\ trKind = "webtransport" /\ trSession[s] \in {"connecting", "failing"}
    /\ trSession' = [trSession EXCEPT ![s] = "closing"]
    /\ TrSchedule(TrLive \ {s})
    /\ UNCHANGED <<trKind, trCurrent, trIntent, trUrl, trReading>>

\* closed.then, closed.catch: whatever session is current is forgotten,
\* whichever session closed.
TrClosed(s) ==
    /\ trKind = "webtransport" /\ trSession[s] \in {"ready", "closing"}
    /\ trSession' = [trSession EXCEPT ![s] = "gone"] /\ trCurrent' = 0
    /\ TrSchedule(TrLive \ {s})
    /\ UNCHANGED <<trKind, trIntent, trUrl, trReading>>

\* onclose of a socket, of the current one or of one replaced before.
TrSocketClosed(s) ==
    /\ trKind = "websocket" /\ trSession[s] \in {"connecting", "ready", "closing"}
    /\ trSession' = [trSession EXCEPT ![s] = "gone"]
    /\ TrSchedule(TrLive \ {s})
    /\ UNCHANGED <<trKind, trCurrent, trIntent, trUrl, trReading>>

\* Mutant: the timer reconnects whatever was asked for meanwhile.
TrTimerUnasked ==
    /\ trTimers > 0 /\ trTimers' = trTimers - 1 /\ trHandle' = FALSE
    /\ TrOpened(trSession)
    /\ UNCHANGED <<trKind, trIntent, trUrl, trReading, trTwice>>

TrTimer ==
    /\ trTimers > 0 /\ trTimers' = trTimers - 1 /\ trHandle' = FALSE
    /\ IF ~trIntent /\ trUrl THEN TrOpened(trSession) ELSE UNCHANGED <<trSession, trCurrent>>
    /\ UNCHANGED <<trKind, trIntent, trUrl, trReading, trTwice>>

\* The constructor throws again.
TrTimerThrows ==
    /\ trTimers > 0 /\ ~trIntent /\ trUrl
    /\ TrScheduled(trTimers - 1, TrLive)
    /\ UNCHANGED <<trKind, trSession, trCurrent, trIntent, trUrl, trReading>>

TrNext ==
    \/ TrConnect \/ TrConnectThrows \/ TrDisconnect \/ TrTimer \/ TrTimerThrows
    \/ \E s \in TrSessions : TrReady(s) \/ TrReadyRejected(s) \/ TrClosed(s) \/ TrSocketClosed(s)

TrSpec == TrInit /\ [][TrNext]_trVars

-----------------------------------------------------------------------------
TrTypeOK ==
    /\ trKind \in TrKinds
    /\ trSession \in [TrSessions -> {"unused", "connecting", "ready", "failing", "closing", "gone"}]
    /\ trCurrent \in 0 .. MaxSessions /\ trIntent \in BOOLEAN /\ trUrl \in BOOLEAN
    /\ trTimers \in 0 .. MaxTrTimers /\ trHandle \in BOOLEAN
    /\ trHandle => trTimers > 0
    /\ trReading \subseteq TrSessions /\ trTwice \in BOOLEAN

\* As long as no reconnection is scheduled beside another one or beside a live
\* session, as every WebTransport that fails to come up and every late close of
\* a replaced session does, a transport has one session, the one disconnect()
\* would close, and a reconnection waits only when there is none.
TransportOwnsSession ==
    ~trTwice => /\ TrLive \subseteq {trCurrent}
                /\ trTimers <= 1 /\ (trTimers > 0 => TrLive = {})

\* Timers whose handle was overwritten survive disconnect(), and promises
\* settle after it: none of them opens a session until connect() is called.
TransportStaysDown ==
    [][trIntent /\ trIntent' => \A s \in TrSessions : trSession[s] = "unused" => trSession'[s] = "unused"]_trVars
=============================================================================
