---------------------------- MODULE WebReceivers ----------------------------
(***************************************************************************)
(* The receiver cards of the dashboard (web/app.js): the stored list of    *)
(* receivers, one WebSocket connection object per card, polling of the     *)
(* statistics, and the commands of a card.                                 *)
(*                                                                         *)
(* Everything a card sends goes through rxSend, which looks its target up  *)
(* again at every call: receivers[idx] gives a host, rxConns[host] the     *)
(* current connection object.  The callbacks of a connection object keep   *)
(* the idx it was created with.  Removing a card shifts the indices and    *)
(* rebuilds every card, and closing a socket from a handler does not stop  *)
(* the onclose of that socket from asking for a reconnection: the objects  *)
(* left behind go on connecting and polling.  They are kept here.          *)
(*                                                                         *)
(* Timers fire at any later moment (delays and the back-off are not        *)
(* counted).  A socket whose close() was called delivers no more messages; *)
(* what was sent on it is served before the close or not at all.           *)
(***************************************************************************)
EXTENDS Naturals, Sequences, SequencesExt

CONSTANTS Hosts,       \* devices that run a receiver
          Channels,    \* channel names a card may set
          Defaults,    \* the list of a browser that stored none
          MaxRx,       \* bound: cards on the page
          MaxConns,    \* bound: connection objects created by the page
          MaxRxWire,   \* bound: requests and answers on one socket
          MaxFails     \* bound: connections lost or refused, and page reloads

ASSUME ReceiversAssumption ==
    /\ Channels # {}
    /\ Defaults \in Seq([host : Hosts, channel : Channels])
    /\ Len(Defaults) <= MaxRx /\ Len(Defaults) <= MaxConns
    /\ MaxRx \in Nat /\ MaxConns \in Nat /\ MaxRxWire \in Nat /\ MaxFails \in Nat

VARIABLES receivers,   \* the list: sequence of [host, channel]
          stored,      \* its copy in localStorage
          conns,       \* every connection object ever created
          rxConns,     \* per host, the number of its current object, 0 = none
          rxMuted,     \* the receiver itself: whether it is muted
          rxFails

rxVars == <<receivers, stored, conns, rxConns, rxMuted, rxFails>>

Nobody == "nobody"

Receiver == [host : Hosts, channel : Channels]

\* A request somebody waits for: the statistics (with the card that will apply
\* them) or mute.
Request == [cmd : {"stats"}, idx : 1 .. MaxRx] \union [cmd : {"mute"}, to : BOOLEAN]

\* An answer: what the receiver said when it served the request.
Reply == [req : Request, muted : BOOLEAN]

Conn == [host : Hosts, idx : 1 .. MaxRx, ws : {"connecting", "open", "closing", "closed"},
         polling : BOOLEAN, stats : Hosts \union {Nobody}, muted : BOOLEAN,
         req : Seq(Request), ans : Seq(Reply)]

NewConn(h, i) ==
    [host |-> h, idx |-> i, ws |-> "connecting", polling |-> FALSE, stats |-> Nobody,
     muted |-> FALSE, req |-> <<>>, ans |-> <<>>]

\* close() on the socket of an object, its polling cleared first.
Closing(c) ==
    [c EXCEPT !.polling = FALSE, !.req = <<>>, !.ans = <<>>,
              !.ws = IF @ = "closed" THEN @ ELSE "closing"]

\* An object rxConns no longer holds: what it had shown can never be read again.
Abandoned(c) == [Closing(c) EXCEPT !.stats = Nobody, !.muted = FALSE]

\* Cards first, first + 1, ... of the list are built again one after the
\* other: each closes the connection its host has and starts a new one.
Spawned(list, first, objects, current) ==
    LET fresh == [k \in 1 .. Len(list) - first + 1 |-> NewConn(list[first + k - 1].host, first + k - 1)]
        number == [k \in 1 .. Len(fresh) |-> Len(objects) + k]
        all == objects \o fresh
        last(h) == LET own == {k \in 1 .. Len(fresh) : fresh[k].host = h}
                   IN  IF own = {} THEN current[h]
                       ELSE number[CHOOSE k \in own : \A j \in own : j <= k]
        superseded(n) == LET h == all[n].host
                         IN  /\ last(h) # current[h]
                             /\ n # last(h)
                             /\ n = current[h] \/ n > Len(objects)
    IN  [conns |-> [n \in 1 .. Len(all) |-> IF superseded(n) THEN Abandoned(all[n]) ELSE all[n]],
         rxConns |-> [h \in Hosts |-> last(h)]]

Spawn(list, first, objects, current) ==
    /\ Len(objects) + Len(list) - first + 1 <= MaxConns
    /\ LET s == Spawned(list, first, objects, current)
       IN  conns' = s.conns /\ rxConns' = s.rxConns

RxInit ==
    /\ receivers = Defaults
    /\ stored = receivers
    /\ LET s == Spawned(receivers, 1, <<>>, [h \in Hosts |-> 0])
       IN  conns = s.conns /\ rxConns = s.rxConns
    /\ rxMuted = [h \in Hosts |-> FALSE]
    /\ rxFails = 0

AddReceiver(h) ==
    /\ Len(receivers) < MaxRx
    /\ receivers' = Append(receivers, [host |-> h, channel |-> CHOOSE ch \in Channels : TRUE])
    /\ stored' = receivers'
    /\ Spawn(receivers', Len(receivers'), conns, rxConns)
    /\ UNCHANGED <<rxMuted, rxFails>>

\* Mutant: the connection of the card is forgotten, not closed.
RemoveReceiverKeepsSocket(i) ==
    /\ receivers' = RemoveAt(receivers, i)
    /\ stored' = receivers'
    /\ Spawn(receivers', 1, conns, rxConns)
    /\ UNCHANGED <<rxMuted, rxFails>>

RemoveReceiver(i) ==
    LET h == receivers[i].host
        n == rxConns[h]
    IN  /\ receivers' = RemoveAt(receivers, i)
        /\ stored' = receivers'
        /\ Spawn(receivers', 1,
                 IF n = 0 THEN conns ELSE [conns EXCEPT ![n] = Abandoned(@)],
                 [rxConns EXCEPT ![h] = 0])
        /\ UNCHANGED <<rxMuted, rxFails>>

\* The connection rxSend uses for card i, or none.
Target(i) ==
    IF i \in DOMAIN receivers THEN {n \in {rxConns[receivers[i].host]} : n # 0} ELSE {}

Sendable(n) == conns[n].ws = "open"

RoomOnWire(n) == Len(conns[n].req) + Len(conns[n].ans) < MaxRxWire

\* rxSend: silently nothing when there is no open socket.
Sent(objects, i, request) ==
    [n \in DOMAIN objects |->
        IF n \in Target(i) /\ objects[n].ws = "open"
        THEN [objects[n] EXCEPT !.req = Append(@, request)] ELSE objects[n]]

SocketOpen(n) ==
    /\ conns[n].ws = "connecting"
    /\ \A t \in Target(conns[n].idx) : RoomOnWire(t)
    /\ conns' = Sent([conns EXCEPT ![n].ws = "open", ![n].polling = TRUE],
                     conns[n].idx, [cmd |-> "stats", idx |-> conns[n].idx])
    /\ UNCHANGED <<receivers, stored, rxConns, rxMuted, rxFails>>

\* ws.onclose: after close(), or because the network or the device went away.
SocketClosed(n) ==
    /\ \/ conns[n].ws = "closing" /\ rxFails' = rxFails
       \/ conns[n].ws \in {"connecting", "open"} /\ rxFails < MaxFails /\ rxFails' = rxFails + 1
    /\ conns' = [conns EXCEPT ![n] = [Closing(@) EXCEPT !.ws = "closed"]]
    /\ UNCHANGED <<receivers, stored, rxConns, rxMuted>>

\* Mutant: only what still polls is reconnected, but onclose stopped it.
ReconnectPolling(n) ==
    /\ conns[n].ws = "closed" /\ conns[n].polling
    /\ conns' = [conns EXCEPT ![n].ws = "connecting"]
    /\ UNCHANGED <<receivers, stored, rxConns, rxMuted, rxFails>>

\* The timer set by onclose: doConnect of the same object, listed or not.
Reconnect(n) ==
    /\ conns[n].ws = "closed"
    /\ conns' = [conns EXCEPT ![n].ws = "connecting"]
    /\ UNCHANGED <<receivers, stored, rxConns, rxMuted, rxFails>>

PollReceiver(n) ==
    /\ conns[n].polling
    /\ \E t \in Target(conns[n].idx) : Sendable(t) /\ RoomOnWire(t)
    /\ conns' = Sent(conns, conns[n].idx, [cmd |-> "stats", idx |-> conns[n].idx])
    /\ UNCHANGED <<receivers, stored, rxConns, rxMuted, rxFails>>

ToggleMute(i) ==
    /\ \E n \in Target(i) :
          /\ RoomOnWire(n)
          /\ conns' = Sent(conns, i, [cmd |-> "mute", to |-> ~conns[n].muted])
    /\ UNCHANGED <<receivers, stored, rxConns, rxMuted, rxFails>>

\* The channel is a field of the list entry; the command that carries it, like
\* those of the volume and the buffer depth, waits for no answer.
SetChannel(i, ch) ==
    /\ receivers' = [receivers EXCEPT ![i].channel = ch]
    /\ stored' = receivers'
    /\ UNCHANGED <<conns, rxConns, rxMuted, rxFails>>

\* The receiver serves the requests of a socket in order.
Serve(n) ==
    /\ conns[n].ws = "open" /\ conns[n].req # <<>>
    /\ LET r == Head(conns[n].req)
           muted == IF r.cmd = "mute" THEN r.to ELSE rxMuted[conns[n].host]
       IN  /\ rxMuted' = [rxMuted EXCEPT ![conns[n].host] = muted]
           /\ conns' = [conns EXCEPT ![n].req = Tail(@),
                                     ![n].ans = Append(@, [req |-> r, muted |-> muted])]
    /\ UNCHANGED <<receivers, stored, rxConns, rxFails>>

\* applyStats of card i with what host said: the connection is looked up again.
ApplyStats(objects, i, host, muted) ==
    [n \in DOMAIN objects |->
        IF n \in Target(i) THEN [objects[n] EXCEPT !.stats = host, !.muted = muted] ELSE objects[n]]

\* Mutant: the answer to a mute command turns the button over.
AnswerTurnsButton(n) ==
    /\ conns[n].ws = "open" /\ conns[n].ans # <<>>
    /\ LET a == Head(conns[n].ans)
           heard == [conns EXCEPT ![n].ans = Tail(@)]
       IN  conns' = IF a.req.cmd = "stats"
                    THEN ApplyStats(heard, a.req.idx, conns[n].host, a.muted)
                    ELSE [heard EXCEPT ![n].muted = ~@]
    /\ UNCHANGED <<receivers, stored, rxConns, rxMuted, rxFails>>

Answer(n) ==
    /\ conns[n].ws = "open" /\ conns[n].ans # <<>>
    /\ LET a == Head(conns[n].ans)
           heard == [conns EXCEPT ![n].ans = Tail(@)]
       IN  conns' = IF a.req.cmd = "stats"
                    THEN ApplyStats(heard, a.req.idx, conns[n].host, a.muted)
                    ELSE [heard EXCEPT ![n].muted = a.req.to]
    /\ UNCHANGED <<receivers, stored, rxConns, rxMuted, rxFails>>

\* The page is loaded again: only localStorage survives.
Reload ==
    /\ Len(stored) <= MaxConns
    /\ rxFails < MaxFails
    /\ rxFails' = rxFails + 1
    /\ receivers' = stored
    /\ LET s == Spawned(stored, 1, <<>>, [h \in Hosts |-> 0])
       IN  conns' = s.conns /\ rxConns' = s.rxConns
    /\ UNCHANGED <<stored, rxMuted>>

RxNext ==
    \/ \E h \in Hosts : AddReceiver(h)
    \/ \E i \in DOMAIN receivers :
          \/ RemoveReceiver(i) \/ ToggleMute(i)
          \/ \E ch \in Channels : SetChannel(i, ch)
    \/ \E n \in DOMAIN conns :
          \/ SocketOpen(n) \/ SocketClosed(n) \/ Reconnect(n)
          \/ PollReceiver(n) \/ Serve(n) \/ Answer(n)
    \/ Reload

RxSpec == RxInit /\ [][RxNext]_rxVars

-----------------------------------------------------------------------------
RxTypeOK ==
    /\ receivers \in Seq(Receiver) /\ Len(receivers) <= MaxRx
    /\ stored \in Seq(Receiver)
    /\ conns \in Seq(Conn) /\ Len(conns) <= MaxConns
    /\ rxConns \in [Hosts -> 0 .. MaxConns]
    /\ rxMuted \in [Hosts -> BOOLEAN]
    /\ rxFails \in 0 .. MaxFails

\* Whatever indices callbacks have captured before cards were removed and
\* shifted: the statistics a connection object shows were sent by its own
\* host (applyStats finds its target again by index when the answer comes).
StatsFromOwnHost ==
    \A n \in DOMAIN conns : conns[n].stats \in {Nobody, conns[n].host}

\* Once a connection has heard everything it asked for, at least its
\* statistics, the mute button agrees with the receiver, however polls and
\* quick double clicks interleaved (toggleMuteRx decides when clicked).
MuteAgreesWhenQuiet ==
    \A h \in Hosts : rxConns[h] # 0 =>
        LET c == conns[rxConns[h]]
        IN  c.ws = "open" /\ c.stats # Nobody /\ c.req = <<>> /\ c.ans = <<>>
              => c.muted = rxMuted[h]

\* A receiver on the list is never given up: unless it is taken off the list,
\* its card gets an open connection again and again, whatever closings,
\* rebuilt cards and losses come between (onclose asks for a reconnection).
Listed(h) == \E i \in DOMAIN receivers : receivers[i].host = h

ListedIsConnected ==
    \A h \in Hosts : Listed(h) ~>
        (Listed(h) => rxConns[h] # 0 /\ conns[rxConns[h]].ws = "open")
=============================================================================
