# OpenSonic: models, model checks and proofs

This directory holds a TLA+ development of the parts of OpenSonic (Soluna) that
carry its own logic: the relay server's tables and forwarding tree, the
lock-free buffers of the C++ library, and the JavaScript that runs in the
listeners' browsers - dashboard, listening page, audio worklets and SDKs - with
the bridge that lets them reach the relay. Every definition is written from the
source, and `PROJECT.json` names for each one the lines it stands for.
Paths below are relative to the repository root.

1. [The system](#1-the-system)
2. [Modules and how they correspond to the code](#2-modules-and-how-they-correspond-to-the-code)
3. [Runs: what is checked, with which bounds](#3-runs-what-is-checked-with-which-bounds)
4. [Where code and documents disagree](#4-where-code-and-documents-disagree)
5. [Proofs](#5-proofs)
6. [What is not modelled](#6-what-is-not-modelled)
7. [Plan](#7-plan)

## 1. The system

OpenSonic streams audio from few senders to many listeners. Clients (phones, ESP32
boards, Linux, Windows and macOS receivers, a daemon, and browsers through a **WebSocket
bridge**) talk UDP to a **relay**, which groups them, decides who may speak, forwards
packets and, for large groups, arranges the clients themselves into a forwarding tree.
On a client the packets go through a jitter buffer and lock-free rings between the
network thread and the audio callback. In a browser they go from a socket's callback
into a worklet on the audio thread. The **dashboard** is a page that also steers
receivers and a local daemon, each over a WebSocket of its own.

| Component | State it keeps | Operations | Interacts with | What is hard | What makes it correct |
|---|---|---|---|---|---|
| Relay: groups, roles, channels (`apps/relay/main.cpp` 275-465, 764-844, 2757-3454, 5664-5734, 6296-6425) | `g_groups` with member vectors, reverse index `g_addr_to_group`, channel records `g_channels` (on disk) | JOIN, move, CLAIM, RELEASE, GRANT, TALK, MIC_ALLOW, MIC_DENY, some thirty commands that look up the sender's group, clean-up every 10 s, restart | all clients over UDP; HTTP threads share `g_mutex` | three tables written by many handlers; a JOIN that fails half way; entries left by an earlier life of a group | index and seats agree; one group per client; no entry into a protected group without its password; only those entitled change who may speak; limits hold |
| Relay: swarm tree (2252-2752) | `swarm_tree`, a vector parallel to `members`, per group | rebuild, add, remove, SWARM_LOST, SWARM_READY, SWARM_UNABLE, PARENT_FAIL | driven by JOIN and clean-up; read by forwarding | local repairs of a tree stored twice (parent and child lists) by nodes that report in any order | vectors stay parallel, fan-out bounded, nobody who declined is given children, no one cut off |
| Relay: audio, FEC, NACK, replay (5297-5660) | per-group packet ring, XOR accumulator, replay buffer | forward, emit parity, resend | workers, swarm tree | hand-over of the right to speak in the middle of a parity block; sequence numbers of two senders in one ring | a resent or recovered packet is the packet asked for |
| Relay: wallet and royalties (1900-2180, 3644-4931) | accounts, payouts, rights-holder balances, used charge tokens; one JSON file | charge, withdraw, payout set-up, tip, support, royalty tick, save, load | UDP loop, HTTP threads, fingerprint thread under `g_wallet_mutex` | time windows and replay, crash between change and save, a hand-written parser | money is neither made nor lost; a token is credited once; books survive a restart |
| Relay: P2P files, cascade, worker pool, DTLS, HTTP/WebSocket, users | piece bitmaps; peer relays; a job queue; sessions | offer, piece requests; relay join and leave; HTTP routing | clients, other relays | stale seeders, loops between relays, reordering by several workers | each piece comes from one who has it; no packet returns to its relay |
| Frame ring (`src/pipeline/ring_buffer.cpp`) | slots, `write_pos_`, `read_pos_` | write, read, peek, discard, reset | one producer and one consumer thread | both work from an old copy of the other's position | a FIFO queue; no torn frame |
| Jitter buffer (`src/wifi/jitter_buffer.cpp`) | 512 slots with flags, `next_sequence_`, `started_`, target depth, counter | push, pop, reset, set_mode | network thread and audio thread | reordering, duplication, loss, 16-bit wrap, two threads without a lock | packets once and in order; no slot read while written; playback does not stop |
| Wi-Fi FEC, adaptation, playout buffer | parity blocks; depth and FEC settings; playout ring | encode, decode, expire | jitter buffer, RTP receiver | recovery racing late arrival | what is recovered is what was sent |
| PTP (`src/sync`) | port state, the open Sync/Delay exchange, leader data set | Announce, Sync, Follow_Up, Delay_Req/Resp, time-outs | peers by multicast | pairing of messages of two exchanges; change of leader | one leader; offsets only from matching pairs |
| Shared-memory ring (`include/soluna/soluna_shm.h`) | positions and frames in shared memory | write (overwrites), read | audio plug-in process and daemon | the reader can be lapped | no mixture of two laps |
| Control plane, security, configuration, audit, metrics, codecs, plug-ins | maps behind a mutex, rule tables | get, set, check | HTTP and WebSocket API | little | each call is atomic |
| Dashboard, receiver cards (`web/app.js`) | stored list of receivers; a connection object per card with socket, timers, open requests | add, remove, reorder by removal, mute, channel, poll, reconnect | a receiver's WebSocket | callbacks keep the index their card had when they were made; objects left behind go on reconnecting | an answer is shown for the host that gave it; what is shown becomes true; a listed receiver is reconnected |
| Dashboard, daemon cards (`web/app.js`) | one socket, callbacks by request id, what each card shows | polls, monitor, volume, input, switches, presets, routes | the daemon | optimistic changes, polls that overtake commands, messages dropped on a closed socket | every card ends up showing the daemon's state |
| Dashboard, player (`web/app.js` 2577-3307) | playlist, index, shuffle order, object URLs | add, remove, clear, next, previous, shuffle, repeat, announced files | files being read, the daemon | indices that shift while a file is being read | the marked track is the one heard |
| Dashboard, relay listening and broadcast (`web/app.js`) | relay socket, mode, audio graph, wake lock, recorder; microphone, engine, socket | listen, switch, reconnect, fingerprint; start, stop, clean up | the relay through the bridge, browser promises | handlers of replaced sockets write the globals of the new one; clicks while a start is waiting | one graph, one HELLO timer; the microphone is given back |
| Listening page (`web/listen.js`) | playing or not, channel, socket, output nodes | play, stop, switch, reconnect | bridge, worklet | play() waits for the output while the user goes on clicking | one socket, for the chosen channel |
| Worklet rings (`web/soluna-worklet.js`, `web/wasm/soluna-worklet-sab.js`) | samples, heads or count | push, skip, reset, process | page thread and audio thread | shared memory without a lock; a count kept apart from the positions | samples once and in order |
| One-file SDK (`web/soluna.js`) | sender: sequence and parity group; receiver: sockets, decoder, reports, swarm role | start, stop, connect, disconnect, reconnect | relay | 16-bit wrap; connect() waits three times | a parity packet covers its group; one socket is heard |
| Browser engine, transports, Opus bridge (`web/wasm/*.js`) | sockets or transport, timers, fall back; decoder, player, libopus memory | init, connect, disconnect, destroy | browser APIs, worklet | timers whose handle is lost; one bridge for several engines | disconnected means disconnected; nothing is pushed into a freed player |
| SDK in several files (`sdk/js/src`) | client state, its connection, heartbeat; audio context and `nextTime` | connect, disconnect, reconnect, packets | relay | every connection ever made writes the client's state and feeds its player | the state is that of the client's own connection; packets play without overlap or gap |
| WebSocket bridge (`apps/relay/ws-bridge.js`) | a UDP socket per client, a count | connect, message, error, close, shutdown | browsers and relay | four handlers close the same pair | places counted exactly, none lost |
| Daemon and native receivers (`apps/*`) | connection to the relay, device handles | wiring, reconnect | library and relay | platform I/O | they are the environment of the modules here; of the daemon what the dashboard sees is modelled |
| Rust crates, Solana program | a second ring, QUIC rooms, on-chain accounts | as above; instructions | - | - | planned last |

`PROJECT.json` lists the components with their status, and under `hazards` the
places in this code that tests hardly reach, each with the properties that
watch it or the reason none does yet.

## 2. Modules and how they correspond to the code

**RelaySwarm** (`MCRelaySwarm`, `RelaySwarm_proofs`). One group with its members, its tree and the
flag `swarm_active`. `members` and `tree` are sequences, because the code
addresses both vectors with one index and the interesting errors are errors of
indices. A handler of the relay keeps `g_mutex` from its first lookup to its
last write, hence one handler is one action: `Join`, `Leave` (the move to
another group), `Cleanup` (any set of stale members, removed one after the
other while `members` still holds all of them, as `cleanup_stale` does),
`SwarmLost`, `SwarmReady`, `SwarmMediated` and `SwarmUnable` (the two halves of
SWARM_UNABLE) and `ParentFail`. The helpers carry the names of what they do:
`Rebuild`, `AddMember`, `RemoveMember`, `Reassign`, `BestParent`. The zero address
`0.0.0.0:0`, by which the code marks "fed by the relay", is the constant `Relay`.
Messages to the clients are left out; the tree is what they announce. `failedOver` is
history: the clients whose parent PARENT_FAIL set last.

**RelayMembership** (`MCRelayMembership`, `RelayMembership_proofs`). All groups
of one relay. `live` is the key set of `g_groups`; `seat[g][a]` is the Member
record of address `a` in group `g`; `indexed` is `g_addr_to_group`; `owner` and
`expired` are the channel records, the only table that survives `Restart`.
`JoinSeat` and `JoinNoSeat` are the two outcomes of `handle_join`; both give up
the old seat first, because the code does so before it looks at limits and
passwords, and a JOIN that then fails leaves the index entry behind (`Left`,
`Emptied`). `Opens` is the line `auto& group = g_groups[name]` that every
command starts with: it inserts the group when it no longer exists. `Consult`
stands for all commands that do no more to this state, and for the refused ones.
`shown` and `sender` are history variables: the password with which a client got in, and
who sent the command of the last step, if it was one.
A device is known by its name or its id in different places of the code;
`DeviceOf` takes them as one identity that a client never changes.

**RelayWallet** (`MCRelayWallet`, `RelayWallet_proofs`). The money of one relay. `books`
is what `g_wallet_mutex` guards: wallets, payout accounts, rights holders' balances.
`disk` is the one file they are saved to, `used` the table of spent charge tokens,
`grace` the grace periods, `public` the mode of one group. Each critical section is an
action, so a charge is two actions in the UDP loop (mark the token, credit) and three in
the HTTP loop (mark, credit, save and answer), and the two loops, the royalty thread,
`Save` and `Restart` interleave between them. `Charged`/`Short` are the two ends of
`deduct_royalty_from_wallet`, used by `Tick` and `Finalize`; `ListenersPay` is the
listener mode of both. `Loaded` is what `wallets_load` makes of the file, with its
parser as it is. A royalty is ten units, so that shares of 70, 20 and 10 per cent are
whole numbers. (The shares are the code's: 20 for the DJ and 10 for the platform;
`docs/protocol.md:1193` has them the other way round.) `sent`, `shared`, `booked`,
`spent` and `answered` are history.

**SpscRing**, **FrameQueue** (`SpscRing_proofs`). `FrameQueue` is the promise: a
bounded queue of frames, numbered so that any loss, repetition, mixture or
change of order shows. `SpscRing` is the code: each call is split at its atomic
accesses, and each `memcpy` copies its frames one at a time in any order
(`WriteCopy`, `ReadCopy`), so that every overlap of the two threads occurs. The
loads of the other thread's position and the computation of the count are one
step (`WriteBegin`, `ReadBegin`): the thread's own position cannot change, and a
position read earlier can only give a smaller count, which the choice of `n`
already contains. `Discard` and `Reset` are there; `Reset` only when neither
thread is in a call, as its comment in the code demands. `Fifo` instantiates
`FrameQueue` with the published part of the ring.
Positions are `size_t` and cannot wrap in practice (2^64 frames).

**JitterBuffer** (and `JitterBuffer_proofs`). Both threads at the grain of their accesses. `push`: late
check, initialisation on the first packet, check of the slot, copy, publication,
counter (`PushBegin` ... `PushCount`). `pop`: readiness, gap check, look-ahead,
copy, release of the slot, counter, advance (`PopReady` ... `PopAdvance`).
Packets bear the number the sender gave them, without wrapping; `Seq` is what
fits in the 16-bit field and `Late` compares it as the code does, as a signed
difference. A session is as long as `MaxSent` says, more than one cycle of sequence
numbers if that is larger. Three variables are history: `due` counts `next_sequence_`
without wrapping, `astray` has the slots with a packet of another cycle, and `heard` is the
last packet played that was not one of those. The network may lose (never deliver), repeat
and reorder within `Reorder`. Depth is counted in packets rather than milliseconds; `Raised` and
`Lowered` leave the rounding open. `Reset` occurs between calls only.
`pop` contains a second branch for a missing packet after `ready()` returned
true (lines 127-135); with a target depth of at least one packet it cannot be
reached, since `ready()` has just found that packet, and there is no action for
it.

### The browser and the bridge

JavaScript runs one callback at a time, so an action is what runs from one
callback's start to its end or to its next `await`; what interleaves is the
callbacks, the timers, and the code after an `await`. Everything that waits is
therefore state: a socket has a phase (being opened, open, closing, gone), an
asynchronous start is recorded with the step it waits for, and a timer is
pending until it fires, at any later moment. Sockets and connection objects are
numbered as they are made, because the code's errors are those of an old
object whose handlers still run. The prefix of each module's variables is its own, so
that the modules can be put side by side.

| Module | Code | State and actions |
|---|---|---|
| `WebReceivers` | receiver cards of `web/app.js` | `conns` are all connection objects ever made, `rxConns` the current one of each host. `AddReceiver`, `RemoveReceiver` and the rest rebuild the cards as the code does; `Serve`, `Answer`, `SocketOpen`, `SocketClosed`, `Reconnect` are the receiver and the callbacks |
| `WebDaemon` | daemon cards of `web/app.js` | one control for each way the cards treat their controls; `wire` and `back` are what is under way on the socket; `Poll`, `SysVolTimer`, `InputRecheck` are timers |
| `WebPlayer` | player of `web/app.js` | `playlist`, `idx`, `shuffleOrder`; batches of files being read finish in any order |
| `WebAudio` | listening in `web/app.js` | sockets by number, `relayMode`, the HELLO timers, the audio graph with its awaited steps, the fingerprint reporter |
| `WebBroadcast` | broadcast in `web/app.js` | starts by number with the step each waits for, tracks, sockets, the globals that `btxCleanup` takes away |
| `WebListen` | `web/listen.js` | `play`, `stop`, `switchChannel`, `startAudioOutput`, `connectWS` |
| `WebRadioRing` | `web/soluna-worklet.js` | one message or block at a time: push, skip, reset, target, process |
| `WebSharedRing` | writer in `web/wasm/soluna-audio.js`, reader in `soluna-worklet-sab.js` | each side loads the heads, copies, stores its own head |
| `WebSoluna` | `web/soluna.js` | `SolunaSender` with parity groups, `SolunaReceiver` with its two sockets |
| `WebTransports` | `web/wasm/soluna-transport.js` | one transport object of either kind |
| `WebEngine` | `web/wasm/soluna-audio.js`, `soluna-worklet-wasm.js` | sockets and transports, reconnection, fall back, packet queue of the worklet |
| `WebOpus` | `web/wasm/soluna-opus-bridge.js`, `soluna-opus-wasm.js` | the one bridge of several engines, its fallback instance, the encoder's queue |
| `SdkClient` | `sdk/js/src` | `SolunaClient`, every `RelayConnection` it made, and the schedule of its `AudioPlayer` |
| `WsBridge` | `apps/relay/ws-bridge.js` | per client its WebSocket and UDP socket, `brActive` |

Actions of browser, network, relay and daemon (a socket opens, an answer comes, a
promise settles) are in the same modules, each under the guard that the browser's
own rules give it; where a handler of the code follows, both are one action, mapped to
the handler. What receivers, daemon and relay do by themselves (`Serve`,
`DaemonServes`) is marked external in `PROJECT.json`.

`src/deploy/web` holds copies of the pages under `src/web`; the modules are
written from `src/web`.

The proofs about them are in three modules: `WebPage_proofs` (the first five rows, which
are one page), `WebLinks_proofs` (the others) and `WebClients_proofs` (all of them
together).

**MCWebDashboard** and **MCWebClients** put these modules side by side. The parts
share no variable, so in their product a formula about one part holds exactly
if it holds of that part alone. `focus` chooses the part that moves and keeps
the others in their initial states, which gives the sum of the state spaces
instead of the product. Of `WebOpus` it chooses decoding or encoding, which share
`destroy()` and no variable.

Some properties of these modules are stated under a condition, a flag of the model
that records a situation the code does not handle. It is named
where it is set, and the hazards list it with its line:

* `btOverlap`: a second click starts a broadcast while the first start waits; the
  first one's microphone is forgotten.
* `btLeaked`: starts whose audio context or graph threw after the microphone was granted;
  their own track stays on.
* `staleClose`: a replaced relay socket closed beside the current one, and turned off
  the mode of that one.
* `failedOver` in `RelaySwarm`: PARENT_FAIL chose the parent.
* `astray` in `JitterBuffer`: a packet was stored while `pop` passed it, or came half a
  sequence space away.
* `rcOverlap`: `connect()` or `disconnect()` of the receiver while an earlier
  `connect()` waits; two sockets are heard.
* `enHasty`: `connect()` of the engine while its old socket is still closing, its
  fall-back timer runs, or a reconnection waits that it does not clear (after
  `new WebSocket` threw there is no socket, so `disconnect()` is skipped and the handle lost).
* `trTwice`, `enStray`: a transport scheduled a reconnection beside another one or beside
  a live session, as it does after every WebTransport session that fails to come up; the
  session that `disconnect()` would miss.
* `opOverlap`, `opOrphan`: an engine came or went while another waited in
  `initDecoder()`; an engine was destroyed during its own, which then installs the freed
  player again.
* `opSlipped`: a number of the encoder's queue was left without its chunk or a chunk
  without its number: a call did not complete exactly one chunk of 20 ms, `encode()` threw,
  the encoder broke or was replaced while it held some, or the socket was not open.
* `sdkLate`: a replaced connection writes the client's state.
* `sdkStray`: `decodeOpusToFloat` of `AudioPlayer.ts` adds a packet that a closed context
  decoded to the `nextTime` of the context that followed, whose clock began again at
  zero; what comes after it is played late by as much as the old context had run.
* `idx = Undef` and `Synced` in `WebPlayer`: a stale shuffle order hands `_pPlay` an
  undefined index; a file of the daemon plays over the marked track.

## 3. Runs: what is checked, with which bounds

| Run | Checks | Instance, and why it is enough |
|---|---|---|
| `relay_swarm` | `TreeParallelsMembers`, `ForwardingSound` (fan-out, large groups are swarms, whoever has a parent is on its list and that parent has not declined, nobody forwards to itself), `LocalChangeKeepsShape`, `TypeOK` | 4 addresses (one DJ, listeners symmetric), fan-out 2, threshold 1, at most 2 client reports, depth at most 3. Four members over a fan-out of two give trees of three levels, full nodes and orphans with children; the code's threshold of 50 and fan-out of 4 only make them larger. `MaxDepth` cuts behaviours where a cycle makes depths grow for ever |
| `spsc_ring` | `NoTornFrame`, `RingIsFifo`, `TypeOK` | capacity 4, 6 frames: batches wrap around the end of the array in both directions; proved for all values in section 5 |
| `relay_membership` | `IndexAgrees`, `EmptyGroupPinned`, `PasswordShown`, `DjHasMic`, `AuthorityNeeded`, `TypeOK` | 3 clients on 2 devices, 3 group names of which two are free, one password, 2 groups, 2 members: every limit is hit, a device meets itself, clients move between living groups, groups are dissolved and come back. The two clients of one device and the two free names are symmetric; about 230,000 states |
| `relay_wallet` | `WalletBooks`, `ChargedOnce`, `NoOverdraft`, `AnsweredIsSaved`, `TypeOK` | a DJ with a seeded wallet, a listener without and with two clients, one token offered to both loops any number of times, window 1 and memory 2 (as in the code, more than the window on both sides of the time stamp), clock to 3 so that an entry is purged, 2 commands or royalties, 1 restart: an overdraft, a tip to oneself, a crash between credit and save and a save between any two steps all occur |
| `jitter_buffer` | `NoTornPacket`, `PlayedIntact`, `PlayedInOrder`, `OccupancyExact`, `TypeOK` | 4 slots, sequence space 8, 10 packets from number 6 on: the numbers wrap and come round once more, so that a packet of the first cycle can lie in its slot until its number is due again; packets share slots, both modes and every depth from 1 to the largest occur |
| `web_dashboard` | liveness: `ListedReconnects`, `ShownConverges` | 2 hosts, 1 channel, 2 cards, 3 connection objects, 1 message on a receiver's wire and 2 on the daemon's, 1 failure, 1 loss, 1 edit; about 46,000 states. A card is removed while another one reconnects, and a loss falls between an edit and its answer |
| `web_clients` | `StatsFromOwnHost`, `MuteAgreesWhenQuiet`, `HighlightMatchesSound`, `RelayStateIsCurrent`, `OneAudioGraph`, `BroadcastOwnsMic`, `OneListenSocket`, `RingExact`, `SabHoldsUnplayed`, `ParityMatchesGroup`, `ClientsOwnSockets`, `PlayersSound`, `BridgeSound`, `StaysDisconnected`, `TypeOK` | below; about 700,000 states |
| `relay_swarm_root`, `relay_group_limit`, `relay_wallet_rights`, `relay_wallet_grace`, `jitter_stall` | one property each, found violated | section 4 |

`OccupancyExact` allows the difference of one between a flag and its counter:
the code publishes the slot before it counts it and frees it before it deducts,
so `stats()` may see 2^32 - 1 for an instant. The run shows that the two always
meet again.

**The instance of `web_clients`.** In each part the number of objects suffices for an
old one, a current one and one more. Receivers: as `web_dashboard`, with 2 messages on
the wire. Player: 2 tracks, 1 batch being read, 1 file of the daemon. Listening: 1
channel, a remote page, 4 sockets. Broadcast: 3 starts. Listening page: 2 channels, 4
sockets, 2 waiting starts. Radio ring: 20 samples in messages of 1 and 2, blocks of 4 that
gain or lose up to 3 (as 2% of a block of 128 do), prefill of 5, targets 4 and 8, so that it
over- and underruns, skips and wraps. Shared
ring: 5 slots, blocks of 2, writes of 1 to 3, numbers modulo 7, which is more than the
ring holds. Sender: parity over 3 packets, 16 sequence numbers, so that a group
straddles the wrap. Receiver: 2 pairs of sockets, 2 waiting `connect()`, 1 frame being
decoded. Transports: 4 sessions, 3 timers. Engine: 3 links, 2 timers, a queue of 2.
Opus: 3 engines, 3 calls of the transmitter with half a chunk, one chunk or one and a half,
1 waiting `initEncoder()`. SDK: 3 connections, packets
of 1 and 2 units on a clock that runs to 3. Bridge: 3 clients for 2 places. These
were also explored alone with 3 tracks in the player, 3 sockets in the receiver, 2
channels with 3 sockets in listening (300,000 to 400,000 states each), and 4 links in the
engine (1,070,000 states), with the same result. Combined names stand for several formulas: `RelayStateIsCurrent` is
`RelayModeIsOpen` and `OneHelloTimer`; `ClientsOwnSockets` is `ReceiverOwnsSocket`,
`EngineOwnsSocket`, `TransportOwnsSession` and `SdkOwnsConnection`; `PlayersSound` is `OpusSound` and
`SdkPlaysOn`; `StaysDisconnected` is `EngineStaysDown` and
`TransportStaysDown`.

**Fairness.** `jitter_stall` and `web_dashboard` need it. In `JitterBuffer`, `FairSpec`
assumes weak fairness of `Pop` (the audio callback keeps calling) and of `Push` (a call
of `push` that was begun finishes). Nothing is assumed of the network or the sender. The
counterexample is not a thread that stops: both run, `pop` returns nothing each time,
and the state no longer changes.

In `MCWebDashboard`, `FairSpec` assumes that the browser and the peers go on. For
each connection object weak fairness of opening the socket, of the close being
reported, of the reconnection timer, and of requests being served and answered
in their order. For the daemon weak fairness of opening or retrying, and of
serving and answering; strong fairness of timers and polls, because the
model's bound on messages under way may disable them for a while and a
browser's clock would not. The user, failures and losses are under no fairness:
a user need not do anything, and a failure or loss need not happen. Their
number is bounded, so that "the user leaves the controls alone" is what remains
in every behaviour.

Deadlock is checked in every run but the two of the browser: there the numbers of
sockets, starts and edits are bounded, and a page with nothing to do is at rest.

## 4. Where code and documents disagree

* `RootReplaced`: `docs/protocol.md:795` promises that a root that disconnects
  is replaced by the next relay-capable member. `swarm_remove_member` attaches each orphan
  to the shallowest node with room, which may be another orphan or its own
  descendant. In the shortest trace two children of the root become each
  other's children, and the relay feeds nobody.
* `GroupsBounded`: `docs/protocol.md:231` gives a maximum of groups. A refused
  JOIN leaves an index entry for a dissolved group, and the next command of
  that client inserts the group again without looking at the limit.
* `RightsSurviveRestart`: `wallets_load` reads an empty list of payout accounts
  past its end and takes the key `rights_holder_balances` for a device. Saved as an
  account, that name comes first in the file at the next start, and the
  balances behind the real key are not read.
* `OnlyShortPayersSilenced`: `docs/protocol.md:1321` and the comment in
  `deduct_royalty_from_wallet` make the switch to private mode depend on missing funds.
  `royalty_tick` decides it from the age of an earlier shortage alone, so funds
  that arrive after the last tick inside the five minutes come too late.
* `GapPassed`: the comment in `JitterBuffer::pop` says that the gap check keeps
  the buffer from stalling when a packet is lost. It does so only when the lost packet
  is the one due. When the packet due is there and the one behind it was
  lost, `ready()` stays false, the gap check is not entered, and no number of
  later packets changes that.

The modules also hold situations that the code leads into and no run is about. A property
names each of them as its exception, by a flag of section 2, rather than leave it out:

* `docs/protocol.md:787` says that a client that sent SWARM_UNABLE is never assigned
  children. `handle_parent_fail` (`apps/relay/main.cpp:2739-2742`) takes the first member with room for
  the new parent, capable or not, tells the requester alone, and puts it on nobody's list;
  nor does it compare that parent with the one that failed, against the comment at 2738
  (`failedOver`).
* The late check of `JitterBuffer::push` (line 54) reads `next_sequence_` before the slot is filled.
  A packet that `pop` skips meanwhile stays in its slot for a cycle of sequence numbers
  (65,536 packets). Meanwhile the slot refuses packets as overflow, and the packet is played when
  its number is due again (`astray`).
* The late `onclose` of a replaced relay socket (`web/app.js:589-594`) sets `relayMode` to
  false beside an open socket: the badge says disconnected, and the local page ignores the
  next change of the channel (`staleClose`).
* `btxStart` catches what `getUserMedia`, the encoder and the socket throw, and nothing of
  what the context and its nodes do (`web/app.js:1985-2006`). The microphone of that start
  stays on while the button shows no broadcast, and the next start takes a new one (`btLeaked`).
* A WebTransport session that fails rejects `ready` and `closed`, and each schedules a
  reconnection (`web/wasm/soluna-transport.js:80-97`). Two sessions come of it, the second reading of
  one session's datagrams throws and schedules a third, and after `disconnect()` the one that is
  not current goes on feeding the player (`trTwice`, `enStray`).
* When `new WebSocket` throws in the engine, a reconnection waits and there is no
  socket; `connect()` then skips `disconnect()` and sets the handle of the timer to null
  (`web/wasm/soluna-audio.js:429-432`), so that two sockets come of it (`enHasty`).
* The Opus bridge pushes a number before `encode()`, which may throw, and expects one chunk per call
  where the encoder makes one of every 20 ms: from then on packets carry the numbers of
  other calls, though never one twice (`opSlipped`). A second `initEncoder()` leaves
  the first encoder open. `destroy()` during an engine's own `initDecoder()` lets
  the freed player be installed again (`opOrphan`).
* `connect()` of the one-file SDK after a loss opens a second swarm socket, and the late close of
  the first forgets the second. After a rejected `_initAudio()` the context is there and no
  socket; later calls of `connect()` open sockets and play nothing until `disconnect()`.

## 5. Proofs

The proofs hold for every value of the constants that satisfies the named assumption of
the module (`SwarmAssumption` of `RelaySwarm`, `RingAssumption` of `SpscRing` and so on).
What the assumptions ask beyond types is justified with the module concerned below.
The bounds of the browser modules are such constants too, so a proof covers any number
of sockets, timers and starts. Where a property is stated under a flag of section 2
(`btOverlap`, `enHasty`, ...), so is the theorem.

| Module | Theorems about |
|---|---|
| `SpscRing_proofs` | the ring of the C++ library, and that it implements `FrameQueue` |
| `JitterBuffer_proofs` | every invariant of the jitter buffer, and its order of play |
| `RelayMembership_proofs` | every property of groups, seats and authority |
| `RelayWallet_proofs` | every property of the money |
| `RelaySwarm_proofs` | every property of the forwarding tree |
| `WebPage_proofs` | receiver cards, daemon cards, player, listening, broadcast |
| `WebLinks_proofs` | listening page, transports, both rings of the browser, one-file SDK, engine, Opus bridge, SDK in several files, WebSocket bridge |
| `WebClients_proofs` | the composition of the browser modules |

**SpscRing_proofs.** `IInv` adds to the properties what each thread may rely on:
a write in progress fits between the positions (`WriteFits`), a read in
progress stays inside what was published (`ReadFits`), every published slot
holds the frame of its position (`Published`), and what a write has stored so far
is in place (`Stored`). The heart is a lemma on the modulo: two positions less than a
capacity apart have different slots. `RingInvariant` gives `RingTypeOK`,
`RingPositionsOrdered`, `RingNoTornFrame` and `RingCopiedInOrder`;
`RingRefinesQueue` shows with the same invariant that each step of the ring is a step of
`FrameQueue` or leaves the queue unchanged. The capacity need not be a power of
two for any of this: the mask is modelled as the modulo it computes.

**JitterBuffer_proofs.** `IInv` adds to the properties what a call under way may rely on:
a push has the slot it fills for itself (`Filling`), a pop has the packet due (`Held`),
an occupied slot holds a packet that was sent (`Stored`), and while no next number is
set the buffer is empty (`Fresh`). `due` counts the number of the packet due
without wrapping, and `Ordered` says that all packets heard lie before it; what waits in a
slot that is not astray lies from it on. This works because two numbers less than a sequence space apart
have different sequence numbers (`SameSeq`), and because counting on from a sequence
number is counting on from its packet (`SeqAdd`). `JitterAssumption` asks nothing of the
number of packets sent: a slot is astray as soon as it holds a packet that is not in the
half sequence space from `due` on (`Placed`), and then no order is claimed of it. The counter
follows from a cardinality; its modulo is taken apart into linear cases.
`JitterPlayedInOrder` is the action property, the other theorems are invariants.

**RelayMembership_proofs.** `IInv` is the conjunction of the type invariant, the
four state properties and `SeatedInLive` (members and settings exist in live groups only),
without which a group that is created again might start with members or a
password of its former life. One step per action shows that it is preserved.
From it follow the properties of the run, `MembershipOneGroup`, and the action
property `MembershipAuthorityNeeded`. For that one the step of each command names its
sender (`sender'`), so that the role which allows the change is the sender's own, in the group
that changes: `IndexAgrees` is what makes the group found in the index that group.

**RelayWallet_proofs.** `IInv` adds to the properties what they rest on. `Sound`
holds of the books in memory and of those in the file, because a restart makes
the second the first. `HeldOnce` says of a token that it is with one loop, or
credited, and never both, and that until its window is over it is remembered;
for this a token must be kept for twice the window or longer (`Keep >= 2 *
Window` in `WalletAssumption`: 300 s against 30), since it may be used 30 s before
its time stamp and offered again 30 s after it. `Confirmed` follows a charge from
the HTTP loop into the books and the file. One lemma per operation shows that it keeps the
books sound (`AccountOf` and `SoundByAccount` reduce this to one device), `BooksStep` and
`TokenStep` do the rest for all operations that touch only one of the two halves.

**RelaySwarm_proofs.** Four loops of the code (dropping a child from lists, moving the
orphans, removing several members, summing up depths) are recursive functions in the
model. The provers know nothing of a recursive function, and the induction theorems
of the library are out of their reach, so `Loops` shows from a least counterexample that
such a function exists and satisfies its equation; `SetInduction` and `UpTo` then carry an
invariant of the body through the loop, with a set in the place of a predicate.
`SwarmInv` is type correctness in terms that each handler preserves by itself (no client
twice in a list, each node sound by itself: at most fan-out children, none of them itself,
a leaf-only client without children) with the tree parallel to the members exactly while
the swarm is active, and `LargeGroupIsSwarm`. `FedInv` adds that whoever has a parent is on
the list of one who may forward, except the clients in `failedOver`; while orphans are moved,
the orphans not yet moved are excepted too. `DepthBound` comes from the
specification itself, which cuts behaviours where a cycle of parents makes depths grow.
The hard step is `Cleanup`: the code removes stale members one after the other from the
tree while `members` still has all of them. `CleansStale` and `CleansFresh` follow one
address through the removals, and `CleanedIsParallel` puts them together: the nodes that
are left are those of the members that are left, in their order.
`SwarmKeepsShape` is the action property `LocalChangeKeepsShape`: starting from any
well-formed tree, appending a client below a node with room, cutting off one without
children, and the breadth-first `Rebuild` (whose parent of place `i` is at `i \div FanOut`,
hence lemmas on multiples) give a well-formed tree again.

**WebPage_proofs.**
*Receivers* (`RxInv`). Answers name a card by its index, and indices shift when a card
is removed; the property needs that no request survives the shift. So the invariant says:
something is under way only at the current connection of its host, a statistics request
and its answer name a card of that host, and the stored list is the list shown. A removal
rebuilds all cards, which replaces every connection. For the mute button the
last answer under way says what the receiver does, and with nothing under way the button
does (`Truthful`). The list with which the page starts fits the bound on connections
(`ReceiversAssumption`).
*Player*. `PlShown` is the property as a statement of list, index and sound alone, and
a lemma for each way the list changes. *Listening* (`WauInv`). Only the current socket
can be being opened or open, and nothing is awaited while the graph is there; relay, audio
and fingerprint are three parts with lemmas of their own, since no handler needs two of them
for more than a flag. *Broadcast* (`BtInv`). Without an overlap at most one start waits, and
the globals are that start's: no microphone before its promise settled, its own after.
Starts whose context or graph threw keep their track and drop out of the statement.
*Daemon cards*: types only; their property is a liveness one.

**WebLinks_proofs.**
*Listening page*: types and the property; `ConnectedKeeps` shows that `connectWS` for
the chosen channel establishes it whatever held before. `LsCounted` adds that each
reconnection timer has a lost socket, which bounds the timers for the type invariant.
*Transports*: `TransportObeysDisconnect` is an action property, since the only
actions that open a session are `connect()`, which clears the intention, and those
guarded by it. `TrInv` says that a reconnection waits only when no session lives, until two
are scheduled; `TransportOwnsIts` follows.
*Radio ring*: every handler moves one position around the ring and the
count with it; `FirstTurn` and `SecondTurn` reduce the modulo to two cases without
multiplication. The code drops a message only when the ring is more than nine tenths full,
so a push stays within the ring because messages are at most a tenth of it, which is part
of `RadioRingAssumption`.
*Shared ring* (`SabInv`). What a side has loaded is still true, its own head exactly and
the other's as a lower bound of room or samples (`SabLoaded`); what the writer has copied
and not published is in place behind what is held (`SabCopied`); the next number is the
number heard plus what is held (`SabNumbered`).
*One-file SDK*. `TxBehind` says of each packet of the open group how far it stands behind
the counter; a sent packet moves all of them one further back, and when the group is full
their distances are what `ParityMatchesGroup` asks for. It holds across the wrap because
the sequence space exceeds the group. The receiver's `RcOwns` says, without an overlap, that
the one waiting call has no socket yet and that what lives is the current socket.
*Engine* (`EnCalm`). Not hasty, a reconnection waits only for a current socket that is
gone or could not be made, a fall back only for the current transport, and one timer has the handle.
*Opus bridge*. `OpPlays` says of every engine that waits in `initDecoder()` that its player
is not freed; `OpDecodes` follows the one that waits: the module is instantiated and given
its buffers for the same one. `OpNumbers` orders the numbers waiting behind the last one
sent, whatever is thrown or replaced, and `OpEncodes` is that until a number slips the queue
of numbers and the encoder's queue agree.
*SDK*. `SdkFollows` is the agreement of client state, connection state and socket; the
property of the player is inductive with its types.
*Bridge*. `BridgeSound` is inductive by itself: `closeUdp` takes one element away exactly when
it takes one from the counter (`ClosedOnce`), however many of the four handlers come.

**WebClients_proofs.** `ClientsImplement`: the product of `MCWebClients` implements the
specification of every part. Each step moves the variables of one part and leaves those of
the others (`StepsOfPage` and so on), so it is a step or a stutter of each. What was proved
of a part then holds of the composition the run explores, which gives `ClientsTyped`,
`ClientsKnowTheRelay`, `ClientsHearTheirOwn`, `ClientsPlaySoundly` and the action property
`ClientsStayDown`.

With this every invariant and every action property of a passing run is stated by a
theorem. All the strengthenings were checked by TLC on the instances of section 3 before
they were proved.

Only model-checked: the liveness statements (`ListedReconnects`, `ShownConverges`, and
`GapPassed`, which is violated), since the prover does not treat fairness, and the violated
properties of section 4.

## 6. What is not modelled

* Wall-clock time. Any member may be stale at a clean-up, any claim may run out;
  this is more than the timers allow, so what holds here holds with them.
* UDP loss, duplication and reordering of *commands*: a handler may run at any
  time with any arguments, which covers all three.
* Of the relay's money: the transaction log, licensed play and the listing of
  rights, `pending_payout` (added to and saved, never paid out), rounding to cents and to the four
  decimals of the file, session tokens. A royalty can fall due at any time.
  Failed writes of the file are left out.
* Memory-order effects beyond the interleaving of accesses. The rings use
  release stores and acquire loads on exactly the variables the models treat as
  the publication points.
* A data race at `apps/relay/main.cpp:3503`, where a handler with a shared
  lock may insert into `g_groups`. The insertion is modelled, the race on the map is not.
* In the browser: drawing, settings and statistics that are only displayed, the
  claiming of channels (`web/app.js` 3350-3517, requests to the relay whose answers
  are shown), visualisers, sample conversion, the WASM engine's own buffers and
  clock offset. Delays and back-off are not counted: a
  pending timer may fire at any time, so more orders occur than in a browser.
* Formats (JSON files other than the order of the wallet file's sections, packet
  headers), cryptography, DTLS, codecs, DSP, device I/O, native user interfaces.

## 7. Plan

The relay's tables, the rings and the browser side are modelled and proved; what follows is open.
In this order; each module gets its run, then its theorem.

1. `RelayFec`: `forward_audio`, parity accumulator and NACK ring; a packet resent or
   recovered is the one asked for.
2. `PtpEngine`: roles and message pairing of two ports and the network.
3. `ShmRing`: the overwriting ring, what the reader may rely on.
4. `RelayP2P` and `RelayCascade`: pieces and seeders, peer relays.
5. `FecCodec`, `PlayoutBuffer`; the Solana program's accounts.
6. Of the proofs: action properties that follow from invariants at hand (an index entry
   changes only with a seat, money moves only between accounts), and the refinement of an
   abstract queue by the two rings of the browser, as `FrameQueue` is for the C++ ring.

Composition: `RelayMembership` is the source of the joins and departures that
drive `RelaySwarm` and later `RelayFec`; a module that instantiates the first two
over one member list is to follow.
