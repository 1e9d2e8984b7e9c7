------------------------------ MODULE WebPlayer ------------------------------
(***************************************************************************)
(* The music player of the dashboard (web/app.js): a playlist of local     *)
(* files, the index of the current one, shuffle and repeat, and the        *)
(* hand-over from the daemon's stream to a file received from the daemon.  *)
(*                                                                         *)
(* Tracks are numbered as they are added and stand for their object URLs.  *)
(* Indices start at 1; NoIdx is the code's -1, and Undef what _pPlay       *)
(* accepts and stores when it is handed undefined or NaN (both comparisons *)
(* of its guard are then false, and the statements after it throw).        *)
(* Position, volume and pausing belong to the audio element and are left   *)
(* out.                                                                    *)
(***************************************************************************)
EXTENDS Integers, Sequences, SequencesExt, FiniteSets

CONSTANTS MaxTracks,   \* bound: tracks ever added
          MaxLoads,    \* bound: batches of files being read at once
          MaxPlays     \* bound: files the daemon streams

ASSUME PlayerAssumption == MaxTracks \in Nat /\ MaxLoads \in Nat /\ MaxPlays \in Nat

VARIABLES playlist,     \* sequence of track numbers
          idx,          \* the current index
          shuffle, shuffleOrder,
          repeat,       \* "none", "all", "one"
          src,          \* what the audio element was given last
          added,        \* tracks added so far
          loads,        \* batches under way: [start, left]
          sync,         \* _pSync: a file is being received, its URL is there
          switchTimer,
          events,       \* messages of the daemon on their way, in order
          ready,        \* file_ready reports the daemon has not served
          plays

plVars == <<playlist, idx, shuffle, shuffleOrder, repeat, src, added, loads, sync, switchTimer,
            events, ready, plays>>

NoIdx == 0
Undef == -1
Silence == 0
Synced == -1            \* the URL of a file received from the daemon

PlInit ==
    /\ playlist = <<>> /\ idx = NoIdx
    /\ shuffle = FALSE /\ shuffleOrder = <<>> /\ repeat = "none"
    /\ src = Silence /\ added = 0 /\ loads = <<>>
    /\ sync = [receiving |-> FALSE, url |-> FALSE]
    /\ switchTimer = FALSE /\ events = <<>> /\ ready = 0 /\ plays = 0

daemonVars == <<sync, switchTimer, events, ready, plays>>

\* _pPlay on a list: an index in range is played, another positive one is
\* refused, and one that is not a number becomes the current index.
Play(list, i) ==
    IF i = Undef THEN idx' = Undef /\ src' = src
    ELSE IF i \in DOMAIN list THEN idx' = i /\ src' = list[i]
    ELSE UNCHANGED <<idx, src>>

\* The entry of the shuffle order at a position counted from 0.
OrderAt(p) == IF p < Len(shuffleOrder) THEN shuffleOrder[p + 1] ELSE Undef

\* indexOf: position from 0, -1 when absent.
Position(i) == IF \E p \in DOMAIN shuffleOrder : shuffleOrder[p] = i
               THEN (CHOOSE p \in DOMAIN shuffleOrder : shuffleOrder[p] = i) - 1 ELSE -1

\* The index step places away; JavaScript's -1 % 1 is 0.
Neighbour(step) ==
    LET n == Len(playlist)
    IN  IF n = 0 THEN NoIdx
        ELSE IF shuffle THEN OrderAt((Position(idx) + step + n) % n)
        ELSE IF idx = Undef THEN Undef
        ELSE ((idx - 1 + step + n) % n) + 1

NextTrack == Play(playlist, Neighbour(1))
PrevTrack == Play(playlist, Neighbour(-1))

PressNext ==
    /\ NextTrack
    /\ UNCHANGED <<playlist, shuffle, shuffleOrder, repeat, added, loads, daemonVars>>

\* Within the first three seconds of a track; later it starts over.
PressPrev ==
    /\ PrevTrack
    /\ UNCHANGED <<playlist, shuffle, shuffleOrder, repeat, added, loads, daemonVars>>

\* The play button when nothing is current, or a click on a row.
PressPlay ==
    /\ idx = NoIdx
    /\ Play(playlist, 1)
    /\ UNCHANGED <<playlist, shuffle, shuffleOrder, repeat, added, loads, daemonVars>>

ClickTrack(i) ==
    /\ Play(playlist, i)
    /\ UNCHANGED <<playlist, shuffle, shuffleOrder, repeat, added, loads, daemonVars>>

\* The audio element reached the end of what it plays.
OnEnded ==
    /\ src # Silence /\ playlist # <<>>
    /\ repeat # "one"
    /\ ~(idx = Len(playlist) /\ ~shuffle /\ repeat = "none")
    /\ NextTrack
    /\ UNCHANGED <<playlist, shuffle, shuffleOrder, repeat, added, loads, daemonVars>>

\* Turning shuffle on draws a new order; the order is not touched when tracks
\* come or go.
ToggleShuffle ==
    /\ shuffle' = ~shuffle
    /\ IF shuffle THEN UNCHANGED shuffleOrder
       ELSE shuffleOrder' \in {o \in [DOMAIN playlist -> DOMAIN playlist] : IsInjective(o)}
    /\ UNCHANGED <<playlist, idx, repeat, src, added, loads, daemonVars>>

CycleRepeat ==
    /\ repeat' = CASE repeat = "none" -> "all" [] repeat = "all" -> "one" [] OTHER -> "none"
    /\ UNCHANGED <<playlist, idx, shuffle, shuffleOrder, src, added, loads, daemonVars>>

\* Mutant: the current index is not shifted.
RemoveTrackUnshifted(i) ==
    /\ playlist' = RemoveAt(playlist, i)
    /\ IF idx # i THEN UNCHANGED <<idx, src>>
       ELSE IF Len(playlist) > 1
       THEN Play(playlist', IF i < Len(playlist) THEN i ELSE Len(playlist) - 1)
       ELSE idx' = NoIdx /\ src' = Silence
    /\ UNCHANGED <<shuffle, shuffleOrder, repeat, added, loads, daemonVars>>

\* _pRemove: the current track gives way to its successor, an earlier one
\* shifts the current index.
RemoveTrack(i) ==
    /\ playlist' = RemoveAt(playlist, i)
    /\ IF idx # i
       THEN /\ idx' = IF idx > i THEN idx - 1 ELSE idx
            /\ UNCHANGED src
       ELSE IF Len(playlist) > 1
       THEN Play(playlist', IF i < Len(playlist) THEN i ELSE Len(playlist) - 1)
       ELSE idx' = NoIdx /\ src' = Silence
    /\ UNCHANGED <<shuffle, shuffleOrder, repeat, added, loads, daemonVars>>

ClearAll ==
    /\ playlist' = <<>> /\ idx' = NoIdx /\ src' = Silence
    /\ UNCHANGED <<shuffle, shuffleOrder, repeat, added, loads, daemonVars>>

\* _pHandleFiles without a daemon: where the batch starts is noted first, then
\* each file is read and added; the list may change between two of them.
LoadBegin(n) ==
    /\ Len(loads) < MaxLoads
    /\ loads' = Append(loads, [start |-> Len(playlist) + 1, left |-> n])
    /\ UNCHANGED <<playlist, idx, shuffle, shuffleOrder, repeat, src, added, daemonVars>>

LoadOne(b) ==
    /\ loads[b].left > 0 /\ added < MaxTracks
    /\ added' = added + 1
    /\ playlist' = Append(playlist, added')
    /\ loads' = [loads EXCEPT ![b].left = @ - 1]
    /\ UNCHANGED <<idx, shuffle, shuffleOrder, repeat, src, daemonVars>>

LoadEnd(b) ==
    /\ loads[b].left = 0
    /\ loads' = RemoveAt(loads, b)
    /\ IF idx = NoIdx THEN Play(playlist, loads[b].start) ELSE UNCHANGED <<idx, src>>
    /\ UNCHANGED <<playlist, shuffle, shuffleOrder, repeat, added, daemonVars>>

localVars == <<playlist, idx, shuffle, shuffleOrder, repeat, src, added, loads>>

\* The daemon streams a file that was uploaded to it.
DaemonPlay ==
    /\ plays < MaxPlays /\ plays' = plays + 1
    /\ events' = events \o <<"stream_start", "file_start", "file_done">>
    /\ UNCHANGED <<localVars, sync, switchTimer, ready>>

\* player.file_ready: every page is told to switch.
DaemonSwitch ==
    /\ ready > 0 /\ ready' = ready - 1
    /\ events' = Append(events, "switch")
    /\ UNCHANGED <<localVars, sync, switchTimer, plays>>

\* _pHandleWsEvent; the chunks between two events are data.
PlayerEvent ==
    /\ events # <<>>
    /\ events' = Tail(events)
    /\ LET e == Head(events)
       IN  /\ sync' = CASE e = "stream_start" -> [sync EXCEPT !.url = FALSE, !.receiving = FALSE]
                        [] e = "file_start" -> [sync EXCEPT !.receiving = TRUE]
                        [] e = "file_done" -> [sync EXCEPT !.url = TRUE, !.receiving = FALSE]
                        [] OTHER -> sync
           /\ ready' = IF e = "file_done" THEN ready + 1 ELSE ready
           /\ switchTimer' = (switchTimer \/ (e = "switch" /\ sync.url))
    /\ UNCHANGED <<localVars, plays>>

\* _pDoSwitch: the file goes on the list only if the list is empty, yet it is
\* played over whatever track is current.
DoSwitch ==
    /\ switchTimer
    /\ switchTimer' = FALSE
    /\ IF sync.url
       THEN /\ src' = Synced
            /\ IF playlist = <<>> THEN playlist' = <<Synced>> /\ idx' = 1
               ELSE UNCHANGED <<playlist, idx>>
       ELSE UNCHANGED <<playlist, idx, src>>
    /\ UNCHANGED <<shuffle, shuffleOrder, repeat, added, loads, sync, events, ready, plays>>

PlNext ==
    \/ PressNext \/ PressPrev \/ PressPlay \/ OnEnded \/ ToggleShuffle \/ CycleRepeat \/ ClearAll
    \/ \E i \in DOMAIN playlist : ClickTrack(i) \/ RemoveTrack(i)
    \/ \E n \in 1 .. 2 : LoadBegin(n)
    \/ \E b \in DOMAIN loads : LoadOne(b) \/ LoadEnd(b)
    \/ DaemonPlay \/ DaemonSwitch \/ PlayerEvent \/ DoSwitch

PlSpec == PlInit /\ [][PlNext]_plVars

-----------------------------------------------------------------------------
Track == 1 .. MaxTracks \union {Synced}

PlTypeOK ==
    /\ playlist \in Seq(Track) /\ idx \in {Undef, NoIdx} \union 1 .. MaxTracks + 1
    /\ shuffle \in BOOLEAN /\ shuffleOrder \in Seq(1 .. MaxTracks + 1)
    /\ repeat \in {"none", "all", "one"} /\ src \in Track \union {Silence}
    /\ added \in 0 .. MaxTracks /\ loads \in Seq([start : 1 .. MaxTracks + 2, left : 0 .. 2])
    /\ sync \in [receiving : BOOLEAN, url : BOOLEAN]
    /\ switchTimer \in BOOLEAN /\ ready \in Nat /\ plays \in 0 .. MaxPlays

\* The track shown as current is the one that sounds, whatever was removed,
\* added or cleared while files were still being read - unless a file from
\* the daemon is playing (it is played over the current track, _pDoSwitch) or
\* shuffle has handed _pPlay an index its stale order does not hold.
HighlightMatchesSound ==
    /\ idx \in DOMAIN playlist /\ src # Synced => playlist[idx] = src
    /\ idx = NoIdx => src \in {Silence, Synced}
    /\ idx # Undef => idx = NoIdx \/ idx \in DOMAIN playlist
=============================================================================
