------------------------------ MODULE WebSoluna ------------------------------
(***************************************************************************)
(* The browser SDK of one file (web/soluna.js): SolunaSender, which groups *)
(* its packets for the parity packets, and SolunaReceiver, whose connect() *)
(* waits three times before it opens its sockets and whose swarm socket    *)
(* answers the relay's queries.                                            *)
(*                                                                         *)
(* One sender, started again only when its start() is over, and one        *)
(* receiver.  Sockets are numbered as they are opened.                     *)
(* Sequence and group numbers wrap at SeqSpace, in the code at 2^16.       *)
(* Counters of losses, NACKs and reports are left out, and so is the       *)
(* content of packets.                                                     *)
(***************************************************************************)
EXTENDS Integers, Sequences

CONSTANTS FecGroup,    \* packets per parity packet
          SeqSpace,    \* numbers before they wrap
          Leaf,        \* the receiver is on a cellular connection
          RcTarget,    \* frames buffered before playback begins
          MaxRcSockets, MaxRcPending, MaxRcFrames \* bounds: pairs of sockets,
                       \* calls of connect() under way, frames being decoded

ASSUME SolunaAssumption ==
    /\ FecGroup \in Nat \ {0} /\ SeqSpace \in Nat /\ SeqSpace > FecGroup /\ Leaf \in BOOLEAN
    /\ RcTarget \in Nat \ {0}
    /\ MaxRcSockets \in Nat \ {0} /\ MaxRcPending \in Nat /\ MaxRcFrames \in Nat

VARIABLES
    txPhase, txMic, txWs,          \* how far start() is; tracks running; socket
    txSeq, txGroup, txBuf, txParity, \* numbers, the group so far, the last parity sent
    rcBoot, rcInit,                \* calls of connect() in bootstrap, in _initAudio
    rcCtx, rcDecoder, rcDecoding,  \* audio context, decoder, frames in it
    rcSock, rcMute,                \* audio sockets; those whose onclose is gone
    rcWs, rcRtcp, rcReports,       \* _ws; socket whose timer _rtcpInterval is; timers running
    rcSwarm, rcSwarmWs, rcSwarmState,
    rcPlaying, rcQueue, rcBuffered, \* playback, frames queued, frames counted
    rcOverlap                      \* connect() or disconnect() ran into a connect()

txVars == <<txPhase, txMic, txWs, txSeq, txGroup, txBuf, txParity>>
rcAudio == <<rcCtx, rcDecoder, rcDecoding, rcPlaying, rcQueue, rcBuffered>>
rcNet == <<rcSock, rcMute, rcWs, rcRtcp, rcReports, rcSwarm, rcSwarmWs, rcSwarmState>>
rcVars == <<rcBoot, rcInit, rcAudio, rcNet, rcOverlap>>
solVars == <<txVars, rcVars>>

RcSockets == 1 .. MaxRcSockets
NoParity == [seq |-> 0, group |-> 0, of |-> <<>>]

SolInit ==
    /\ txPhase = "off" /\ txMic = FALSE /\ txWs = "none"
    /\ txSeq = 0 /\ txGroup = 0 /\ txBuf = <<>> /\ txParity = NoParity
    /\ rcBoot = 0 /\ rcInit = 0 /\ rcCtx = FALSE /\ rcDecoder = FALSE /\ rcDecoding = 0
    /\ rcSock = [s \in RcSockets |-> "unused"] /\ rcMute = {} /\ rcWs = 0
    /\ rcRtcp = 0 /\ rcReports = {}
    /\ rcSwarm = [s \in RcSockets |-> "unused"] /\ rcSwarmWs = 0 /\ rcSwarmState = "IDLE"
    /\ rcPlaying = FALSE /\ rcQueue = 0 /\ rcBuffered = 0 /\ rcOverlap = FALSE

-----------------------------------------------------------------------------
\* SolunaSender.

TxStart ==
    /\ txPhase = "off" /\ txPhase' = "mic"
    /\ UNCHANGED <<txMic, txWs, txSeq, txGroup, txBuf, txParity, rcVars>>

\* getUserMedia: the microphone runs, and the socket is opened, even when
\* stop() was called meanwhile.
TxMicGranted ==
    /\ txPhase = "mic" /\ txPhase' = "ws"
    /\ txMic' = TRUE /\ txWs' = "connecting"
    /\ UNCHANGED <<txSeq, txGroup, txBuf, txParity, rcVars>>

TxOpen ==
    /\ txPhase = "ws" /\ txWs = "connecting"
    /\ txPhase' = "module" /\ txWs' = "open"
    /\ UNCHANGED <<txMic, txSeq, txGroup, txBuf, txParity, rcVars>>

\* onerror before the socket was open, the microphone keeps running.
TxRefused ==
    /\ txPhase = "ws" /\ txPhase' = "off" /\ txWs' = "closed"
    /\ UNCHANGED <<txMic, txSeq, txGroup, txBuf, txParity, rcVars>>

TxModule ==
    /\ txPhase = "module" /\ txPhase' = "on"
    /\ UNCHANGED <<txMic, txWs, txSeq, txGroup, txBuf, txParity, rcVars>>

\* The relay or the network closes the socket; the frames go on.
TxLost ==
    /\ txWs = "open" /\ txWs' = "closed"
    /\ UNCHANGED <<txPhase, txMic, txSeq, txGroup, txBuf, txParity, rcVars>>

\* stop(): while the microphone is being asked for there is nothing to stop
\* yet; in the later phases start() fails on what stop() took away.
TxStop ==
    /\ txPhase \in {"mic", "ws", "module", "on"}
    /\ txPhase' = IF txPhase = "mic" THEN "mic" ELSE "off"
    /\ txMic' = FALSE /\ txWs' = "none"
    /\ UNCHANGED <<txSeq, txGroup, txBuf, txParity, rcVars>>

\* The next number, in the width of the header.
Wire(n) == n % SeqSpace

\* Mutant: the group number moves on before the parity packet is made.
TxFrameNextGroup ==
    /\ txPhase = "on"
    /\ LET packet == [seq |-> Wire(txSeq), group |-> Wire(txGroup)]
           group == Append(txBuf, packet)
       IN  IF Len(group) >= FecGroup
           THEN /\ txParity' = [seq |-> Wire(txSeq + 1), group |-> Wire(txGroup + 1), of |-> group]
                /\ txSeq' = Wire(txSeq + 2) /\ txGroup' = Wire(txGroup + 1) /\ txBuf' = <<>>
           ELSE /\ txSeq' = Wire(txSeq + 1) /\ txBuf' = group
                /\ UNCHANGED <<txGroup, txParity>>
    /\ UNCHANGED <<txPhase, txMic, txWs, rcVars>>

\* _onPcmFrame: a packet, and after every FecGroup packets their parity; both
\* take a sequence number whether or not the socket takes them.
TxFrame ==
    /\ txPhase = "on"
    /\ LET packet == [seq |-> Wire(txSeq), group |-> Wire(txGroup)]
           group == Append(txBuf, packet)
       IN  IF Len(group) >= FecGroup
           THEN /\ txParity' = [seq |-> Wire(txSeq + 1), group |-> Wire(txGroup), of |-> group]
                /\ txSeq' = Wire(txSeq + 2) /\ txGroup' = Wire(txGroup + 1) /\ txBuf' = <<>>
           ELSE /\ txSeq' = Wire(txSeq + 1) /\ txBuf' = group
                /\ UNCHANGED <<txGroup, txParity>>
    /\ UNCHANGED <<txPhase, txMic, txWs, rcVars>>

-----------------------------------------------------------------------------
\* SolunaReceiver: connect(), the sockets, disconnect().

\* Mutant: disconnect() forgets the audio socket without closing it.
RcCutNetLeavesSocket ==
    /\ rcReports' = rcReports \ {rcRtcp} /\ rcRtcp' = 0
    /\ UNCHANGED <<rcSock, rcMute>> /\ rcWs' = 0
    /\ rcSwarm' = [s \in RcSockets |-> IF s = rcSwarmWs THEN "closing" ELSE rcSwarm[s]]
    /\ rcSwarmWs' = 0 /\ rcSwarmState' = "IDLE"

\* disconnect(): the swarm socket keeps its onclose.
RcCutNet ==
    /\ rcReports' = rcReports \ {rcRtcp} /\ rcRtcp' = 0
    /\ rcSock' = [s \in RcSockets |-> IF s = rcWs THEN "gone" ELSE rcSock[s]]
    /\ rcMute' = IF rcWs = 0 THEN rcMute ELSE rcMute \union {rcWs}
    /\ rcWs' = 0
    /\ rcSwarm' = [s \in RcSockets |-> IF s = rcSwarmWs THEN "closing" ELSE rcSwarm[s]]
    /\ rcSwarmWs' = 0 /\ rcSwarmState' = "IDLE"

RcCutAudio ==
    /\ rcCtx' = FALSE /\ rcDecoder' = FALSE
    /\ rcDecoding' = IF rcDecoder THEN 0 ELSE rcDecoding
    /\ rcPlaying' = FALSE /\ rcQueue' = 0 /\ rcBuffered' = 0

RcDisconnect ==
    /\ RcCutNet /\ RcCutAudio
    /\ rcOverlap' = (rcOverlap \/ rcBoot + rcInit > 0)
    /\ UNCHANGED <<txVars, rcBoot, rcInit>>

\* connect() disconnects first when there is a socket, not when a connect()
\* is still on its way to one.
RcConnect ==
    /\ rcBoot + rcInit < MaxRcPending /\ rcBoot' = rcBoot + 1
    /\ rcOverlap' = (rcOverlap \/ rcBoot + rcInit > 0)
    /\ IF rcWs # 0 THEN RcCutNet /\ RcCutAudio ELSE UNCHANGED <<rcNet, rcAudio>>
    /\ UNCHANGED <<txVars, rcInit>>

\* _openAudioSocket and _openSwarmSocket.
RcOpenSockets ==
    \E new \in RcSockets :
        /\ \A s \in RcSockets : rcSock[s] = "unused" <=> s >= new
        /\ rcSock' = [rcSock EXCEPT ![new] = "connecting"] /\ rcWs' = new
        /\ rcSwarm' = [rcSwarm EXCEPT ![new] = "open"] /\ rcSwarmWs' = new
        /\ UNCHANGED <<rcMute, rcRtcp, rcReports, rcSwarmState>>

\* The bootstrap answered or failed; an audio context that is there is used.
RcBooted ==
    /\ rcBoot > 0 /\ rcBoot' = rcBoot - 1
    /\ IF rcCtx
       THEN RcOpenSockets /\ UNCHANGED <<rcInit, rcCtx>>
       ELSE rcInit' = rcInit + 1 /\ rcCtx' = TRUE /\ UNCHANGED rcNet
    /\ UNCHANGED <<txVars, rcDecoder, rcDecoding, rcPlaying, rcQueue, rcBuffered, rcOverlap>>

\* _initAudio is over, with a decoder where the browser has one.
RcReady(supported) ==
    /\ rcInit > 0 /\ rcInit' = rcInit - 1
    /\ rcDecoder' = supported
    /\ RcOpenSockets
    /\ UNCHANGED <<txVars, rcBoot, rcCtx, rcDecoding, rcPlaying, rcQueue, rcBuffered, rcOverlap>>

\* resume() or isConfigSupported() rejects: the context stays, no socket is
\* opened, and a later connect() takes the context for a finished one.
RcInitFails ==
    /\ rcInit > 0 /\ rcInit' = rcInit - 1
    /\ UNCHANGED <<txVars, rcBoot, rcAudio, rcNet, rcOverlap>>

\* The context cannot be made: connect() ends with nothing.
RcNoContext ==
    /\ rcBoot > 0 /\ ~rcCtx /\ rcBoot' = rcBoot - 1
    /\ UNCHANGED <<txVars, rcInit, rcAudio, rcNet, rcOverlap>>

\* onopen: the handle of an earlier timer is overwritten, not cleared.
RcSocketOpen(s) ==
    /\ rcSock[s] = "connecting" /\ rcSock' = [rcSock EXCEPT ![s] = "open"]
    /\ rcRtcp' = s /\ rcReports' = rcReports \union {s}
    /\ UNCHANGED <<txVars, rcBoot, rcInit, rcAudio, rcMute, rcWs, rcSwarm, rcSwarmWs, rcSwarmState, rcOverlap>>

\* onclose of an audio socket that has one: it writes _ws of whichever socket
\* is current; the audio context and the swarm socket stay.
RcSocketClosed(s) ==
    /\ rcSock[s] \in {"connecting", "open"} /\ s \notin rcMute
    /\ rcSock' = [rcSock EXCEPT ![s] = "gone"]
    /\ rcWs' = 0 /\ rcReports' = rcReports \ {rcRtcp} /\ rcRtcp' = 0
    /\ rcPlaying' = FALSE
    /\ UNCHANGED <<txVars, rcBoot, rcInit, rcCtx, rcDecoder, rcDecoding, rcQueue, rcBuffered,
                   rcMute, rcSwarm, rcSwarmWs, rcSwarmState, rcOverlap>>

\* A packet of any open socket goes to the decoder of the moment.
RcPacket(s) ==
    /\ rcSock[s] = "open" /\ rcDecoder /\ rcDecoding < MaxRcFrames
    /\ rcDecoding' = rcDecoding + 1
    /\ UNCHANGED <<txVars, rcBoot, rcInit, rcCtx, rcDecoder, rcPlaying, rcQueue, rcBuffered, rcNet, rcOverlap>>

\* _onDecodedFrame, _startPlayback, _scheduleBuffer: what is scheduled is no
\* longer counted.
RcDecoded ==
    /\ rcDecoding > 0 /\ rcDecoding' = rcDecoding - 1
    /\ IF ~rcCtx \/ rcPlaying THEN UNCHANGED <<rcPlaying, rcQueue, rcBuffered>>
       ELSE IF rcBuffered + 1 >= RcTarget
       THEN /\ rcPlaying' = TRUE /\ rcQueue' = 0
            /\ rcBuffered' = rcBuffered + 1 - (rcQueue + 1)
       ELSE /\ rcQueue' = rcQueue + 1 /\ rcBuffered' = rcBuffered + 1
            /\ UNCHANGED rcPlaying
    /\ UNCHANGED <<txVars, rcBoot, rcInit, rcCtx, rcDecoder, rcNet, rcOverlap>>

\* A message of the relay on any open swarm socket; the answer is sent on the
\* current one, if there is one.
RcSwarmMessage(s, type) ==
    /\ rcSwarm[s] = "open"
    /\ rcSwarmState' = CASE type = "SWARM_QUERY" /\ ~Leaf -> "QUERIED"
                         [] type = "SWARM_ASSIGN" -> "ACTIVE"
                         [] OTHER -> "IDLE"
    /\ UNCHANGED <<txVars, rcBoot, rcInit, rcAudio, rcSock, rcMute, rcWs, rcRtcp, rcReports,
                   rcSwarm, rcSwarmWs, rcOverlap>>

RcSwarmClosed(s) ==
    /\ rcSwarm[s] \in {"open", "closing"} /\ rcSwarm' = [rcSwarm EXCEPT ![s] = "gone"]
    /\ rcSwarmWs' = 0
    /\ UNCHANGED <<txVars, rcBoot, rcInit, rcAudio, rcSock, rcMute, rcWs, rcRtcp, rcReports,
                   rcSwarmState, rcOverlap>>

TxNext == TxStart \/ TxMicGranted \/ TxOpen \/ TxRefused \/ TxModule \/ TxLost \/ TxStop \/ TxFrame

RcNext ==
    \/ RcConnect \/ RcDisconnect \/ RcBooted \/ RcDecoded \/ RcInitFails \/ RcNoContext
    \/ \E supported \in BOOLEAN : RcReady(supported)
    \/ \E s \in RcSockets :
          \/ RcSocketOpen(s) \/ RcSocketClosed(s) \/ RcPacket(s) \/ RcSwarmClosed(s)
          \/ \E type \in {"SWARM_QUERY", "SWARM_ASSIGN", "SWARM_TEARDOWN"} : RcSwarmMessage(s, type)

SolSpec == SolInit /\ [][TxNext \/ RcNext]_solVars

-----------------------------------------------------------------------------
RcLive == {s \in RcSockets : rcSock[s] \in {"connecting", "open"}}

SolTypeOK ==
    /\ txPhase \in {"off", "mic", "ws", "module", "on"} /\ txMic \in BOOLEAN
    /\ txWs \in {"none", "connecting", "open", "closed"}
    /\ txSeq \in 0 .. SeqSpace - 1 /\ txGroup \in 0 .. SeqSpace - 1 /\ Len(txBuf) < FecGroup
    /\ rcBoot + rcInit \in 0 .. MaxRcPending /\ rcCtx \in BOOLEAN /\ rcDecoder \in BOOLEAN
    /\ rcDecoding \in 0 .. MaxRcFrames
    /\ rcSock \in [RcSockets -> {"unused", "connecting", "open", "gone"}]
    /\ rcSwarm \in [RcSockets -> {"unused", "open", "closing", "gone"}]
    /\ rcMute \subseteq RcSockets /\ rcReports \subseteq RcSockets
    /\ {rcWs, rcRtcp, rcSwarmWs} \subseteq 0 .. MaxRcSockets
    /\ rcSwarmState \in {"IDLE", "QUERIED", "ACTIVE"}
    /\ rcPlaying \in BOOLEAN /\ rcQueue \in 0 .. RcTarget /\ rcBuffered \in Nat
    /\ rcOverlap \in BOOLEAN

\* A parity packet repairs its group only if the receiver can tell which
\* packets it covers: they carry its group number and are the FecGroup
\* sequence numbers before its own, across wraps, restarts of the sender and
\* sockets lost in the middle of a group.
ParityMatchesGroup ==
    /\ \A k \in DOMAIN txParity.of :
          /\ txParity.of[k].group = txParity.group
          /\ txParity.of[k].seq = (txParity.seq - FecGroup + k - 1 + SeqSpace) % SeqSpace
    /\ txParity.of # <<>> => Len(txParity.of) = FecGroup

\* As long as no connect() or disconnect() is called while an earlier
\* connect() still waits: the only audio socket that lives, through losses and
\* reconnections, is the one disconnect() would close, and one report timer runs
\* at most.  Nothing of the kind holds of swarm sockets: a connect() after a loss
\* of the audio socket opens one beside the old.
ReceiverOwnsSocket ==
    ~rcOverlap => RcLive \subseteq {rcWs} /\ rcReports \subseteq {rcRtcp} \ {0}
=============================================================================
