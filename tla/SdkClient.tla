------------------------------- MODULE SdkClient -------------------------------
(***************************************************************************)
(* The browser SDK in several files (sdk/js/src): SolunaClient, the        *)
(* RelayConnection objects it makes, and its AudioPlayer.                  *)
(*                                                                         *)
(* A client remembers one connection, but every connection it ever made    *)
(* writes the client's state when its own changes: disconnect() takes only *)
(* onclose away, and connect() may replace a connection that has failed    *)
(* and not closed yet.  Connections are numbered.                          *)
(*                                                                         *)
(* The player starts each packet at nextTime on the clock of its audio     *)
(* context, counted here in the shortest packet's length.  Opus packets    *)
(* are decoded by the context and come back later; one that comes back to  *)
(* a closed context still moves the nextTime of the one that followed it.  *)
(* Packets that parseOSTPacket rejects are left out.                       *)
(***************************************************************************)
EXTENDS Naturals

CONSTANTS Playback,    \* the client plays what it receives
          MaxSdkLinks, \* bound: connections made
          MaxSdkTime,  \* bound: the clock of an audio context
          MaxDecodes   \* bound: Opus packets that a context is decoding

ASSUME SdkAssumption ==
    /\ Playback \in BOOLEAN /\ MaxSdkLinks \in Nat \ {0}
    /\ MaxSdkTime \in Nat /\ MaxDecodes \in Nat

VARIABLES sdkState,   \* _state of the client
          sdkLink,    \* its connection, 0 = null
          sdkPlayer,  \* the audio context is there
          sdkClock,   \* ctx.currentTime
          sdkNext,    \* nextTime of the player
          sdkPlan,    \* packets that sound in each unit of time from now on
          sdkDecodes, \* Opus packets the context is decoding
          sdkGone,    \* last times of closed contexts that were still decoding
          sdkStray,   \* one of those came back while the present context played
          lnWs,       \* per connection: its socket
          lnState,    \* per connection: its own _state
          lnBeat,     \* connections whose heartbeat timer runs
          lnMute,     \* connections whose socket has no onclose
          sdkLate     \* a connection that was replaced wrote the state

lnVars == <<lnWs, lnState, lnBeat, lnMute>>
playVars == <<sdkPlayer, sdkClock, sdkNext, sdkPlan, sdkDecodes, sdkGone, sdkStray>>
sdkVars == <<sdkState, sdkLink, playVars, lnVars, sdkLate>>

SdkLinks == 1 .. MaxSdkLinks
Units == 0 .. MaxSdkTime - 1
NoPlan == [t \in Units |-> 0]

SdkInit ==
    /\ sdkState = "disconnected" /\ sdkLink = 0
    /\ sdkPlayer = FALSE /\ sdkClock = 0 /\ sdkNext = 0 /\ sdkPlan = NoPlan
    /\ sdkDecodes = 0 /\ sdkGone = {} /\ sdkStray = FALSE
    /\ lnWs = [c \in SdkLinks |-> "none"] /\ lnState = [c \in SdkLinks |-> "disconnected"]
    /\ lnBeat = {} /\ lnMute = {} /\ sdkLate = FALSE

\* setState of a connection, and onStateChange when it changed.
LinkState(c, state) ==
    /\ lnState' = [lnState EXCEPT ![c] = state]
    /\ IF lnState[c] = state THEN UNCHANGED <<sdkState, sdkLate>>
       ELSE sdkState' = state /\ sdkLate' = (sdkLate \/ c # sdkLink)

\* A context without sound, its clock at zero; nextTime with it.
NewContext == sdkClock' = 0 /\ sdkNext' = 0 /\ sdkPlan' = NoPlan /\ sdkStray' = FALSE

\* start() of the player: a new context, unless there is one.
PlayerStart ==
    IF ~Playback \/ sdkPlayer THEN UNCHANGED playVars
    ELSE sdkPlayer' = TRUE /\ NewContext /\ UNCHANGED <<sdkDecodes, sdkGone>>

\* stop(), and start() after it if on: the context goes with all it was to
\* play, but for what it was decoding.
PlayerStop(on) ==
    /\ sdkPlayer' = on /\ NewContext
    /\ sdkDecodes' = 0
    /\ sdkGone' = sdkGone \union (IF sdkDecodes = 0 THEN {} ELSE {sdkClock})

\* A new connection with its socket; the one before is forgotten.
SdkMade(sockets, states) ==
    \E c \in SdkLinks :
        /\ \A b \in SdkLinks : sockets[b] = "none" <=> b >= c
        /\ lnWs' = [sockets EXCEPT ![c] = "connecting"]
        /\ lnState' = [states EXCEPT ![c] = "connecting"]
        /\ sdkLink' = c /\ sdkState' = "connecting"

SdkConnect ==
    /\ sdkState \notin {"connected", "connecting"}
    /\ SdkMade(lnWs, lnState)
    /\ PlayerStart
    /\ UNCHANGED <<lnBeat, lnMute, sdkLate>>

\* disconnect() of the current connection: its socket will close in silence,
\* or fail aloud when it was not open yet.
SdkHungUp == [c \in SdkLinks |->
                IF c # sdkLink \/ lnWs[c] = "closed" THEN lnWs[c]
                ELSE IF lnWs[c] = "connecting" THEN "failing" ELSE "closing"]

SdkCut ==
    /\ lnBeat' = lnBeat \ {sdkLink}
    /\ lnMute' = lnMute \union ({sdkLink} \ {0})

SdkDisconnect ==
    /\ SdkCut
    /\ lnWs' = SdkHungUp
    /\ lnState' = [c \in SdkLinks |-> IF c = sdkLink THEN "disconnected" ELSE lnState[c]]
    /\ sdkLink' = 0 /\ sdkState' = "disconnected"
    /\ PlayerStop(FALSE)
    /\ UNCHANGED sdkLate

\* setChannel(): disconnect() and connect() of a connected client.
SdkSetChannel ==
    /\ sdkState = "connected"
    /\ SdkCut
    /\ SdkMade(SdkHungUp, [c \in SdkLinks |-> IF c = sdkLink THEN "disconnected" ELSE lnState[c]])
    /\ PlayerStop(Playback)
    /\ UNCHANGED sdkLate

LinkOpen(c) ==
    /\ lnWs[c] = "connecting" /\ lnWs' = [lnWs EXCEPT ![c] = "open"]
    /\ LinkState(c, "connected")
    /\ lnBeat' = lnBeat \union {c}
    /\ UNCHANGED <<sdkLink, playVars, lnMute>>

\* onerror, always followed by the close.
LinkError(c) ==
    /\ lnWs[c] \in {"connecting", "open", "failing"} /\ lnWs' = [lnWs EXCEPT ![c] = "closing"]
    /\ LinkState(c, "error")
    /\ UNCHANGED <<sdkLink, playVars, lnBeat, lnMute>>

LinkClosed(c) ==
    /\ lnWs[c] \in {"open", "closing"} /\ lnWs' = [lnWs EXCEPT ![c] = "closed"]
    /\ IF c \in lnMute THEN UNCHANGED <<lnState, sdkState, sdkLate, lnBeat>>
       ELSE LinkState(c, "disconnected") /\ lnBeat' = lnBeat \ {c}
    /\ UNCHANGED <<sdkLink, playVars, lnMute>>

\* A packet starts at nextTime, or at currentTime if that is later.
StartAt(currentTime) == IF sdkNext < currentTime THEN currentTime ELSE sdkNext

\* playPacket, and the end of decoding in the context that plays.
PlayPacket(length) ==
    LET at == StartAt(sdkClock)
    IN  /\ at + length <= MaxSdkTime
        /\ sdkNext' = at + length
        /\ sdkPlan' = [t \in Units |-> sdkPlan[t] + (IF t \in at .. at + length - 1 THEN 1 ELSE 0)]

linkVars == <<sdkState, sdkLink, lnVars, sdkLate>>

\* onmessage and handlePacket; without a context nothing happens.
LinkPacket(c, length) ==
    /\ lnWs[c] = "open" /\ sdkPlayer
    /\ PlayPacket(length)
    /\ UNCHANGED <<linkVars, sdkPlayer, sdkClock, sdkDecodes, sdkGone, sdkStray>>

\* The same for an Opus packet: decodeOpusToFloat hands it to the context.
LinkOpus(c) ==
    /\ lnWs[c] = "open" /\ sdkPlayer
    /\ sdkDecodes < MaxDecodes /\ sdkDecodes' = sdkDecodes + 1
    /\ UNCHANGED <<linkVars, sdkPlayer, sdkClock, sdkNext, sdkPlan, sdkGone, sdkStray>>

\* Decoded, or not.
SdkDecoded(length) ==
    /\ sdkDecodes > 0 /\ sdkDecodes' = sdkDecodes - 1
    /\ PlayPacket(length) \/ UNCHANGED <<sdkNext, sdkPlan>>
    /\ UNCHANGED <<linkVars, sdkPlayer, sdkClock, sdkGone, sdkStray>>

\* Decoded by a context that was closed at time then: it sounds nowhere, and
\* is counted in the player's nextTime all the same.
SdkDecodedLate(then, length) ==
    /\ then \in sdkGone /\ sdkGone' \in {sdkGone, sdkGone \ {then}}
    /\ StartAt(then) + length <= MaxSdkTime
    /\ sdkNext' = StartAt(then) + length
    /\ sdkStray' = (sdkStray \/ sdkPlayer)
    /\ UNCHANGED <<linkVars, sdkPlayer, sdkClock, sdkPlan, sdkDecodes>>

\* The context plays on.
SdkTick ==
    /\ sdkPlayer /\ sdkClock < MaxSdkTime /\ sdkClock' = sdkClock + 1
    /\ sdkPlan' = [sdkPlan EXCEPT ![sdkClock] = 0]
    /\ UNCHANGED <<linkVars, sdkPlayer, sdkNext, sdkDecodes, sdkGone, sdkStray>>

SdkNext ==
    \/ SdkConnect \/ SdkDisconnect \/ SdkSetChannel \/ SdkTick
    \/ \E c \in SdkLinks :
          \/ LinkOpen(c) \/ LinkError(c) \/ LinkClosed(c)
          \/ LinkOpus(c)
          \/ \E length \in {1, 2} : LinkPacket(c, length)
    \/ \E length \in {1, 2} :
          \/ SdkDecoded(length)
          \/ \E then \in sdkGone : SdkDecodedLate(then, length)

SdkSpec == SdkInit /\ [][SdkNext]_sdkVars

-----------------------------------------------------------------------------
SdkTypeOK ==
    /\ sdkState \in {"disconnected", "connecting", "connected", "error"}
    /\ sdkLink \in 0 .. MaxSdkLinks /\ sdkPlayer \in BOOLEAN /\ sdkLate \in BOOLEAN
    /\ sdkClock \in 0 .. MaxSdkTime /\ sdkNext \in 0 .. MaxSdkTime
    /\ sdkPlan \in [Units -> Nat]
    /\ sdkDecodes \in 0 .. MaxDecodes /\ sdkGone \subseteq 0 .. MaxSdkTime
    /\ sdkStray \in BOOLEAN
    /\ lnWs \in [SdkLinks -> {"none", "connecting", "open", "failing", "closing", "closed"}]
    /\ lnState \in [SdkLinks -> {"disconnected", "connecting", "connected", "error"}]
    /\ lnBeat \subseteq SdkLinks /\ lnMute \subseteq SdkLinks

\* Until a connection that was replaced writes the client's state: the client
\* receives over its own connection alone, a connected client's socket is
\* open, and heartbeats are sent only for a connection that is there or that
\* has failed and not closed.
SdkOwnsConnection ==
    ~sdkLate =>
        /\ \A c \in SdkLinks : lnWs[c] \in {"connecting", "open"} => c = sdkLink
        /\ sdkState = "connected" => sdkLink # 0 /\ lnWs[sdkLink] = "open"
        /\ \A c \in lnBeat : lnWs[c] \in {"open", "closing"} /\ c \notin lnMute

\* Until a packet decoded by a closed context is counted for the one that
\* followed, and whatever connections came and went: no two packets sound at
\* once, from now to nextTime there is no gap, and nothing is left over after
\* it, so that a packet is heard at once or right behind those before it
\* (start, stop, playPacket and decodeOpusToFloat of AudioPlayer).
SdkPlaysOn ==
    ~sdkStray =>
        \A t \in Units : sdkPlan[t] = IF sdkPlayer /\ t \in sdkClock .. sdkNext - 1 THEN 1 ELSE 0
=============================================================================
