-------------------------------- MODULE WsBridge --------------------------------
(***************************************************************************)
(* The bridge between WebSockets and the relay's UDP port                  *)
(* (apps/relay/ws-bridge.js): every client gets a UDP socket of its own,   *)
(* up to MAX_CLIENTS at a time, closed once whichever of four handlers     *)
(* comes first.                                                            *)
(*                                                                         *)
(* A WebSocket that is closing may still deliver what its client sent      *)
(* before; sending on a UDP socket that was closed throws, and nothing     *)
(* catches it.  A client that left may come again.                         *)
(***************************************************************************)
EXTENDS Naturals, FiniteSets

CONSTANTS BridgeClients, MaxClients

ASSUME BridgeAssumption == IsFiniteSet(BridgeClients) /\ MaxClients \in Nat

VARIABLES brWs,      \* per client: "away", "open", "closing"
          brKnown,   \* clients that were not refused: handlers are set
          brUdp,     \* clients whose UDP socket is open
          brActive,  \* activeClients
          brProcess  \* "up", "stopping", "exited", "crashed"

brVars == <<brWs, brKnown, brUdp, brActive, brProcess>>

BrInit ==
    /\ brWs = [k \in BridgeClients |-> "away"] /\ brKnown = {} /\ brUdp = {}
    /\ brActive = 0 /\ brProcess = "up"

BrRunning == brProcess \in {"up", "stopping"}

\* wss.on('connection'): refused at capacity.
BrConnect(k) ==
    /\ brProcess = "up" /\ brWs[k] = "away"
    /\ IF brActive >= MaxClients
       THEN /\ brWs' = [brWs EXCEPT ![k] = "closing"]
            /\ brKnown' = brKnown \ {k}
            /\ UNCHANGED <<brUdp, brActive>>
       ELSE /\ brWs' = [brWs EXCEPT ![k] = "open"]
            /\ brKnown' = brKnown \union {k}
            /\ brUdp' = brUdp \union {k} /\ brActive' = brActive + 1
    /\ UNCHANGED brProcess

\* Mutant: every handler that closes gives a place back.
CloseUdpTwice(k) == brUdp' = brUdp \ {k} /\ brActive' = brActive - 1

\* closeUdp: once.
CloseUdp(k) ==
    IF k \in brUdp THEN brUdp' = brUdp \ {k} /\ brActive' = brActive - 1
    ELSE UNCHANGED <<brUdp, brActive>>

\* ws.on('message').
BrMessage(k) ==
    /\ BrRunning /\ brWs[k] # "away" /\ k \in brKnown
    /\ brProcess' = IF k \in brUdp THEN brProcess ELSE "crashed"
    /\ UNCHANGED <<brWs, brKnown, brUdp, brActive>>

BrUdpError(k) ==
    /\ BrRunning /\ k \in brUdp
    /\ CloseUdp(k)
    /\ brWs' = [brWs EXCEPT ![k] = "closing"]
    /\ UNCHANGED <<brKnown, brProcess>>

\* ws.on('error'): the close comes later.
BrWsError(k) ==
    /\ BrRunning /\ brWs[k] # "away" /\ k \in brKnown
    /\ CloseUdp(k)
    /\ brWs' = [brWs EXCEPT ![k] = "closing"]
    /\ UNCHANGED <<brKnown, brProcess>>

BrWsClosed(k) ==
    /\ BrRunning /\ brWs[k] # "away"
    /\ brWs' = [brWs EXCEPT ![k] = "away"]
    /\ IF k \in brKnown THEN CloseUdp(k) ELSE UNCHANGED <<brUdp, brActive>>
    /\ UNCHANGED <<brKnown, brProcess>>

\* SIGINT: no client is sent away, and the process waits for the last to go.
BrShutdown ==
    /\ brProcess = "up" /\ brProcess' = "stopping"
    /\ UNCHANGED <<brWs, brKnown, brUdp, brActive>>

BrExit ==
    /\ brProcess = "stopping" /\ \A k \in BridgeClients : brWs[k] = "away"
    /\ brProcess' = "exited"
    /\ UNCHANGED <<brWs, brKnown, brUdp, brActive>>

BrNext ==
    \/ BrShutdown \/ BrExit
    \/ \E k \in BridgeClients :
          BrConnect(k) \/ BrMessage(k) \/ BrUdpError(k) \/ BrWsError(k) \/ BrWsClosed(k)

BrSpec == BrInit /\ [][BrNext]_brVars

-----------------------------------------------------------------------------
BrTypeOK ==
    /\ brWs \in [BridgeClients -> {"away", "open", "closing"}]
    /\ brKnown \subseteq BridgeClients /\ brUdp \subseteq BridgeClients
    /\ brActive \in Nat /\ brProcess \in {"up", "stopping", "exited", "crashed"}

\* Whichever of the closing handlers run, in whatever order and however often:
\* activeClients counts the UDP sockets that are open, never more than the
\* limit, and no socket outlives its WebSocket - a place is neither leaked nor
\* given away twice.
BridgeSound ==
    /\ brActive = Cardinality(brUdp)
    /\ brActive <= MaxClients
    /\ \A k \in brUdp : brWs[k] = "open" /\ k \in brKnown
=============================================================================
