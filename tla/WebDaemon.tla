------------------------------ MODULE WebDaemon ------------------------------
(***************************************************************************)
(* The dashboard and the daemon that serves it (web/app.js): the single    *)
(* WebSocket with its reconnection, the periodic polls each connection     *)
(* starts, and the cards whose controls change the daemon.                 *)
(*                                                                         *)
(* Each card is kept as the one on/off control that its handlers treat     *)
(* differently: the monitor and the repair switch change what they show at *)
(* once and send a command; the system volume shows at once and sends 50   *)
(* ms later; the input card shows only what a poll reports and asks for    *)
(* one 500 ms after its command; a route row is drawn again after the      *)
(* answer.  The repair switch is on two cards, tune and audio.  Sending on *)
(* a socket that is not open drops the message silently.  Request ids are  *)
(* never used twice, so an answer finds its own callback: a message on the *)
(* wire carries it.                                                        *)
(***************************************************************************)
EXTENDS Naturals, Sequences

CONSTANTS Remote,      \* the page is not served from the local network
          MaxLosses,   \* bound: connections refused or lost
          MaxEdits,    \* bound: what the user changes
          MaxWire      \* bound: messages on the socket

ASSUME DaemonAssumption ==
    Remote \in BOOLEAN /\ MaxLosses \in Nat /\ MaxEdits \in Nat /\ MaxWire \in Nat

VARIABLES localWs,     \* "connecting", "open", "closed" (retry pending), "gaveup"
          localRetry,  \* the back-off: 2^localRetry seconds, at most 30
          polls,       \* per card, how many interval timers poll it
          shown,       \* per card, what the page shows
          daemon,      \* per control, what is so
          due,         \* the debounced command: the value to send, if any
          recheck,     \* the input card asked for a poll in 500 ms
          wire, back,  \* requests to the daemon, answers from it, in order
          losses, edits

wdVars == <<localWs, localRetry, polls, shown, daemon, due, recheck, wire, back, losses, edits>>

Cards == {"monitor", "sysvol", "input", "tune", "audio", "routes"}
Controls == Cards \ {"audio"}

\* tune.status feeds two cards.
ControlOf(c) == IF c = "audio" THEN "tune" ELSE c

Polled == Cards \ {"routes"}

Message == [op : {"poll", "init"}, card : Cards] \union [op : {"set"}, card : Controls, to : BOOLEAN]
Answered == [op : {"poll", "init"}, card : Cards, is : BOOLEAN] \union [op : {"redraw"}]

WdInit ==
    /\ localWs = "connecting" /\ localRetry = 0
    /\ polls = [c \in Polled |-> 0]
    /\ daemon = [c \in Controls |-> FALSE]
    /\ shown = [c \in Cards |-> FALSE]
    /\ due = {} /\ recheck = FALSE
    /\ wire = <<>> /\ back = <<>>
    /\ losses = 0 /\ edits = 0

Room(k) == Len(wire) + Len(back) + k <= MaxWire

Ask(op, c) == [op |-> op, card |-> c]
Order(c, to) == [op |-> "set", card |-> c, to |-> to]

\* localSend: nothing at all unless the socket is open.
LocalSend(messages) == wire' = IF localWs = "open" THEN wire \o messages ELSE wire

\* Mutant: the monitor card is not asked for again.
LocalOpenForgetsMonitor ==
    /\ localWs = "connecting"
    /\ localWs' = "open" /\ localRetry' = 0
    /\ polls' = [c \in Polled |-> IF c = "monitor" THEN polls[c] ELSE polls[c] + 1]
    /\ UNCHANGED <<shown, daemon, due, recheck, wire, back, losses, edits>>

\* onopen: the monitor is asked whether it exists and polled once it has said
\* so; the other cards are polled at once and from then on.  Nothing that an
\* earlier connection started is cleared.
LocalOpen ==
    /\ localWs = "connecting"
    /\ localWs' = "open" /\ localRetry' = 0
    /\ polls' = [c \in Polled |-> IF c = "monitor" THEN polls[c] ELSE polls[c] + 1]
    /\ wire' = <<Ask("init", "monitor")>>
    /\ UNCHANGED <<shown, daemon, due, recheck, back, losses, edits>>

LocalClose ==
    /\ localWs \in {"connecting", "open"} /\ losses < MaxLosses
    /\ losses' = losses + 1
    /\ wire' = <<>> /\ back' = <<>>
    /\ IF Remote /\ localRetry >= 3
       THEN localWs' = "gaveup" /\ UNCHANGED localRetry
       ELSE /\ localWs' = "closed"
            /\ localRetry' = IF localRetry = 5 THEN 5 ELSE localRetry + 1
    /\ UNCHANGED <<polls, shown, daemon, due, recheck, edits>>

LocalRetry ==
    /\ localWs = "closed"
    /\ localWs' = "connecting"
    /\ UNCHANGED <<localRetry, polls, shown, daemon, due, recheck, wire, back, losses, edits>>

\* An interval timer of card c (bound: one poll of a card under way).
Poll(c) ==
    /\ polls[c] > 0 /\ localWs = "open" /\ Room(1)
    /\ \A k \in DOMAIN wire : wire[k] # Ask("poll", c)
    /\ LocalSend(<<Ask("poll", c)>>)
    /\ UNCHANGED <<localWs, localRetry, polls, shown, daemon, due, recheck, back, losses, edits>>

\* What the timers call.  Each function's callback writes the answer into its
\* card (LocalMessage), but for a control that has the focus: the user counts
\* as editing for that long.
PollMonStats == Poll("monitor")
PollSysVol == Poll("sysvol")
PollInputStats == Poll("input")
PollTuneStatus == Poll("tune")
SyncAudioControls == Poll("audio")

Edit == edits < MaxEdits /\ edits' = edits + 1

\* Start and stop of the monitor: the card changes before the daemon has.
MonitorToggle ==
    /\ Edit /\ Room(1)
    /\ LocalSend(<<Order("monitor", ~shown["monitor"])>>)
    /\ shown' = [shown EXCEPT !["monitor"] = ~@]
    /\ UNCHANGED <<localWs, localRetry, polls, daemon, due, recheck, back, losses>>

\* A slider: every movement restarts the timer that will send.
SysVolInput(to) ==
    /\ Edit
    /\ shown' = [shown EXCEPT !["sysvol"] = to] /\ due' = {to}
    /\ UNCHANGED <<localWs, localRetry, polls, daemon, recheck, wire, back, losses>>

SysVolTimer ==
    /\ Room(1)
    /\ \E to \in due : LocalSend(<<Order("sysvol", to)>>)
    /\ due' = {}
    /\ UNCHANGED <<localWs, localRetry, polls, shown, daemon, recheck, back, losses, edits>>

\* The input card decides by what it shows and does not change it.
InputToggle ==
    /\ Edit /\ Room(1)
    /\ LocalSend(<<Order("input", ~shown["input"])>>)
    /\ recheck' = TRUE
    /\ UNCHANGED <<localWs, localRetry, polls, shown, daemon, due, back, losses>>

InputRecheck ==
    /\ recheck /\ Room(1)
    /\ LocalSend(<<Ask("poll", "input")>>)
    /\ recheck' = FALSE
    /\ UNCHANGED <<localWs, localRetry, polls, shown, daemon, due, back, losses, edits>>

\* The repair switch of the tune card, or its twin among the audio controls.
RepairToggle(c) ==
    /\ Edit /\ Room(1)
    /\ LocalSend(<<Order("tune", ~shown[c])>>)
    /\ shown' = [shown EXCEPT ![c] = ~@]
    /\ UNCHANGED <<localWs, localRetry, polls, daemon, due, recheck, back, losses>>

\* A preset turns repair on among the rest, and shows it when a poll says so.
Preset ==
    /\ Edit /\ Room(1)
    /\ LocalSend(<<Order("tune", TRUE)>>)
    /\ UNCHANGED <<localWs, localRetry, polls, shown, daemon, due, recheck, back, losses>>

\* A click in a route row; its answer has the whole table fetched again.
RouteMute ==
    /\ Edit /\ Room(1)
    /\ LocalSend(<<Order("routes", ~shown["routes"])>>)
    /\ UNCHANGED <<localWs, localRetry, polls, shown, daemon, due, recheck, back, losses>>

\* The routing panel is opened.
OpenPanel ==
    /\ Room(1) /\ \A k \in DOMAIN wire : wire[k] # Ask("poll", "routes")
    /\ LocalSend(<<Ask("poll", "routes")>>)
    /\ UNCHANGED <<localWs, localRetry, polls, shown, daemon, due, recheck, back, losses, edits>>

\* The daemon executes requests in order and answers in order; only a route
\* command has a callback waiting.
DaemonServes ==
    /\ localWs = "open" /\ wire # <<>>
    /\ LET m == Head(wire)
       IN  IF m.op = "set"
           THEN /\ daemon' = [daemon EXCEPT ![m.card] = m.to]
                /\ back' = IF m.card = "routes" THEN Append(back, [op |-> "redraw"]) ELSE back
           ELSE /\ back' = Append(back, [op |-> m.op, card |-> m.card, is |-> daemon[ControlOf(m.card)]])
                /\ UNCHANGED daemon
    /\ wire' = Tail(wire)
    /\ UNCHANGED <<localWs, localRetry, polls, shown, due, recheck, losses, edits>>

\* onmessage: the callback of the request.
LocalMessage ==
    /\ localWs = "open" /\ back # <<>>
    /\ back' = Tail(back)
    /\ LET a == Head(back)
       IN  IF a.op = "redraw"
           THEN /\ LocalSend(<<Ask("poll", "routes")>>)
                /\ UNCHANGED <<shown, polls>>
           ELSE /\ shown' = [shown EXCEPT ![a.card] = a.is]
                /\ polls' = IF a.op = "init" THEN [polls EXCEPT ![a.card] = @ + 1] ELSE polls
                /\ UNCHANGED wire
    /\ UNCHANGED <<localWs, localRetry, daemon, due, recheck, losses, edits>>

WdNext ==
    \/ LocalOpen \/ LocalClose \/ LocalRetry
    \/ PollMonStats \/ PollSysVol \/ PollInputStats \/ PollTuneStatus \/ SyncAudioControls
    \/ MonitorToggle \/ SysVolTimer \/ InputToggle \/ InputRecheck \/ Preset \/ RouteMute \/ OpenPanel
    \/ \E to \in BOOLEAN : SysVolInput(to)
    \/ \E c \in {"tune", "audio"} : RepairToggle(c)
    \/ DaemonServes \/ LocalMessage

WdSpec == WdInit /\ [][WdNext]_wdVars

-----------------------------------------------------------------------------
WdTypeOK ==
    /\ localWs \in {"connecting", "open", "closed", "gaveup"} /\ localRetry \in 0 .. 5
    /\ polls \in [Polled -> Nat]
    /\ shown \in [Cards -> BOOLEAN] /\ daemon \in [Controls -> BOOLEAN]
    /\ due \in {{}, {TRUE}, {FALSE}} /\ recheck \in BOOLEAN
    /\ wire \in Seq(Message) /\ back \in Seq(Answered)
    /\ losses \in 0 .. MaxLosses /\ edits \in 0 .. MaxEdits

\* Commands dropped on a closed socket, answers that overtake an optimistic
\* change and two switches for one setting all make a card lie for a while;
\* once the user leaves the controls alone and the connection holds, every
\* polled card ends up showing the daemon's state and stays there.
ShownConverges ==
    <>[](\A c \in Polled : shown[c] = daemon[ControlOf(c)])
=============================================================================
