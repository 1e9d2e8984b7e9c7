-------------------------------- MODULE WebOpus --------------------------------
(***************************************************************************)
(* The Opus bridge of the page (web/wasm/soluna-opus-bridge.js) and the    *)
(* libopus module it falls back to (soluna-opus-wasm.js).  There is one    *)
(* bridge, but every engine initialises it for its own player, and the     *)
(* destroy() of any engine destroys it for all.                            *)
(*                                                                         *)
(* Engines are numbered and stand for their players.  The libopus module   *)
(* is instantiated by one of them, and the two buffers it keeps across     *)
(* packets are addresses in that instance's memory.                        *)
(*                                                                         *)
(* One transmitter numbers its calls and gives each some samples; the      *)
(* encoder puts out a chunk whenever OpChunk of them are together, and a   *)
(* chunk is known by the call that completed it.  The content of audio is  *)
(* left out.                                                               *)
(***************************************************************************)
EXTENDS Naturals, Sequences

CONSTANTS Codecs,        \* the browser has WebCodecs
          MaxOpEngines,  \* bound: engines of the page
          MaxOpFrames,   \* bound: calls of the transmitter
          MaxOpAsks,     \* bound: calls of initEncoder() that wait
          OpChunk,       \* samples of a chunk, in the code 20 ms
          OpCalls        \* samples a call may bring

ASSUME OpusAssumption ==
    /\ Codecs \in BOOLEAN /\ MaxOpEngines \in Nat \ {0} /\ MaxOpFrames \in Nat /\ MaxOpAsks \in Nat
    /\ OpChunk \in Nat \ {0} /\ OpCalls \subseteq Nat

VARIABLES opStep,      \* per engine: what its initDecoder() waits for
          opFreed,     \* engines whose player was freed
          opPlayer,    \* _player, 0 = null
          opDecoder, opReady, opFallback,
          wfTried, wfInstance, wfHeap, \* the module: whether init() ran, whose
                       \* instance is bound, whose memory the buffers are in
          opAsked, opEncoder, opTx, opWs, \* initEncoder() waiting; what it made
          opFrame,     \* calls of the transmitter so far
          opPending,   \* numbers waiting for their chunk
          opPart, opInside, \* samples and whole chunks in the encoder
          opOld,       \* chunks in encoders that were replaced, not closed
          opSent,      \* the number of the last packet
          opSlipped,   \* a number was left without its chunk or a chunk without
                       \* its number, or two encoders put out chunks
          opOverlap,   \* an engine came or went while another one waited
          opOrphan     \* an engine was destroyed during its initDecoder()

opDecodeVars == <<opStep, opFreed, opPlayer, opDecoder, opReady, opFallback, wfTried, wfInstance, wfHeap, opOverlap, opOrphan>>
opCoding == <<opPending, opPart, opInside, opOld, opSent, opSlipped>>
opEncodeVars == <<opAsked, opEncoder, opTx, opWs, opFrame, opCoding>>
opVars == <<opDecodeVars, opEncodeVars>>

OpEngines == 1 .. MaxOpEngines
OpWaiting == {e \in OpEngines : opStep[e] \in {"codecs", "wasm"}}

OpInit ==
    /\ opStep = [e \in OpEngines |-> "none"] /\ opFreed = {} /\ opPlayer = 0
    /\ opDecoder = FALSE /\ opReady = FALSE /\ opFallback = FALSE
    /\ wfTried = FALSE /\ wfInstance = 0 /\ wfHeap = 0 /\ opOverlap = FALSE /\ opOrphan = FALSE
    /\ opAsked = 0 /\ opEncoder = "none" /\ opTx = FALSE /\ opWs = "closed" /\ opFrame = 0
    /\ opPending = <<>> /\ opPart = 0 /\ opInside = <<>> /\ opOld = <<>>
    /\ opSent = 0 /\ opSlipped = FALSE

-----------------------------------------------------------------------------
\* Decoding.

\* initWasmFallback: init() of the module answers at once when it ran before.
OpEnterWasm(e) ==
    /\ opPlayer' = e
    /\ IF wfTried
       THEN /\ opStep' = [opStep EXCEPT ![e] = "over"]
            /\ opFallback' = (opFallback \/ wfInstance # 0) /\ opReady' = (opReady \/ wfInstance # 0)
       ELSE opStep' = [opStep EXCEPT ![e] = "wasm"] /\ UNCHANGED <<opFallback, opReady>>

OpInitDecoder(e) ==
    /\ opStep[e] = "none" /\ e \notin opFreed
    /\ opOverlap' = (opOverlap \/ OpWaiting # {})
    /\ IF Codecs
       THEN /\ opStep' = [opStep EXCEPT ![e] = "codecs"] /\ opPlayer' = e
            /\ UNCHANGED <<opFallback, opReady>>
       ELSE OpEnterWasm(e)
    /\ UNCHANGED <<opFreed, opDecoder, wfTried, wfInstance, wfHeap, opOrphan, opEncodeVars>>

\* isConfigSupported has answered: an earlier decoder is not closed.
OpCodecs(e, supported) ==
    /\ opStep[e] = "codecs"
    /\ IF supported
       THEN /\ opStep' = [opStep EXCEPT ![e] = "over"]
            /\ opDecoder' = TRUE /\ opReady' = TRUE /\ opFallback' = FALSE /\ UNCHANGED opPlayer
       ELSE OpEnterWasm(e) /\ UNCHANGED opDecoder
    /\ UNCHANGED <<opFreed, wfTried, wfInstance, wfHeap, opOverlap, opOrphan, opEncodeVars>>

\* The module was fetched and instantiated, or not; buffers that are there and
\* large enough are kept.
OpWasm(e, ok) ==
    /\ opStep[e] = "wasm" /\ opStep' = [opStep EXCEPT ![e] = "over"]
    /\ wfTried' = TRUE
    /\ IF ok
       THEN /\ wfInstance' = e /\ wfHeap' = IF wfHeap = 0 THEN e ELSE wfHeap
            /\ opFallback' = TRUE /\ opReady' = TRUE
       ELSE UNCHANGED <<wfInstance, wfHeap, opFallback, opReady>>
    /\ UNCHANGED <<opFreed, opPlayer, opDecoder, opOverlap, opOrphan, opEncodeVars>>

\* Mutant: the player is not forgotten.
OpDestroyKeepsPlayer(players) ==
    /\ players \cap opFreed = {} /\ opFreed' = opFreed \union players
    /\ opOverlap' = (opOverlap \/ OpWaiting # {}) /\ opOrphan' = (opOrphan \/ players \cap OpWaiting # {})
    /\ opDecoder' = FALSE /\ opReady' = (opReady /\ ~opDecoder) /\ opFallback' = FALSE
    /\ IF opFallback THEN wfTried' = FALSE /\ wfInstance' = 0 /\ wfHeap' = 0
       ELSE UNCHANGED <<wfTried, wfInstance, wfHeap>>
    /\ opEncoder' = "none" /\ opTx' = FALSE /\ opWs' = "closed"
    /\ opPending' = <<>> /\ opPart' = 0 /\ opInside' = <<>> /\ opSlipped' = (opOld # <<>>)
    /\ UNCHANGED <<opStep, opAsked, opFrame, opOld, opSent, opPlayer>>

\* destroy() of the bridge by an engine that frees its player next; one that
\* runs in a worklet has none.  An encoder that was replaced is not closed.
OpDestroy(players) ==
    /\ players \cap opFreed = {} /\ opFreed' = opFreed \union players
    /\ opOverlap' = (opOverlap \/ OpWaiting # {}) /\ opOrphan' = (opOrphan \/ players \cap OpWaiting # {})
    /\ opDecoder' = FALSE /\ opReady' = (opReady /\ ~opDecoder)
    /\ opFallback' = FALSE /\ opPlayer' = 0
    /\ IF opFallback THEN wfTried' = FALSE /\ wfInstance' = 0 /\ wfHeap' = 0
       ELSE UNCHANGED <<wfTried, wfInstance, wfHeap>>
    /\ opEncoder' = "none" /\ opTx' = FALSE /\ opWs' = "closed"
    /\ opPending' = <<>> /\ opPart' = 0 /\ opInside' = <<>> /\ opSlipped' = (opOld # <<>>)
    /\ UNCHANGED <<opStep, opAsked, opFrame, opOld, opSent>>

-----------------------------------------------------------------------------
\* Encoding: WebCodecs only.

\* initEncoder(), again with a new socket when the page likes.
OpInitEncoder ==
    /\ Codecs /\ opAsked < MaxOpAsks /\ opAsked' = opAsked + 1
    /\ opTx' = TRUE /\ opWs' \in {"connecting", "open"}
    /\ UNCHANGED <<opDecodeVars, opEncoder, opFrame, opCoding>>

\* isConfigSupported has answered: an earlier encoder is replaced as it is, and
\* its chunks come out among those of the new one.
OpEncoderAsked(supported) ==
    /\ opAsked > 0 /\ opAsked' = opAsked - 1
    /\ IF supported
       THEN /\ opEncoder' = "ready" /\ opPart' = 0 /\ opInside' = <<>> /\ opOld' = opOld \o opInside
            /\ opSlipped' = (opSlipped \/ opInside # <<>>)
       ELSE UNCHANGED <<opEncoder, opPart, opInside, opOld, opSlipped>>
    /\ UNCHANGED <<opDecodeVars, opTx, opWs, opFrame, opPending, opSent>>

OpSocket ==
    /\ opTx /\ \/ opWs = "connecting" /\ opWs' \in {"open", "closed"}
               \/ opWs = "open" /\ opWs' = "closed"
    /\ UNCHANGED <<opDecodeVars, opAsked, opEncoder, opTx, opFrame, opCoding>>

\* encode_frame: the transmitter counts its calls whatever becomes of them.
OpCounted == opFrame < MaxOpFrames /\ opFrame' = opFrame + 1

\* on_opus_encode: the number waits while the encoder works.
OpEncode(samples) ==
    /\ opEncoder = "ready" /\ OpCounted
    /\ opPending' = Append(opPending, opFrame')
    /\ LET chunks == (opPart + samples) \div OpChunk
       IN  /\ opPart' = (opPart + samples) % OpChunk
           /\ opInside' = opInside \o [k \in 1 .. chunks |-> opFrame']
           /\ opSlipped' = (opSlipped \/ chunks # 1)
    /\ UNCHANGED <<opDecodeVars, opAsked, opEncoder, opTx, opWs, opOld, opSent>>

\* encode() throws once the encoder has closed itself: the number waits.
OpEncodeThrows ==
    /\ opEncoder = "broken" /\ OpCounted
    /\ opPending' = Append(opPending, opFrame') /\ opSlipped' = TRUE
    /\ UNCHANGED <<opDecodeVars, opAsked, opEncoder, opTx, opWs, opPart, opInside, opOld, opSent>>

\* No encoder, or no AudioData: nothing waits.
OpEncodeSkipped ==
    /\ OpCounted
    /\ UNCHANGED <<opDecodeVars, opAsked, opEncoder, opTx, opWs, opCoding>>

\* The encoder's error: it is closed and what it held is lost, and the bridge
\* only writes a line.
OpEncoderBreaks ==
    /\ opEncoder = "ready" /\ opEncoder' = "broken"
    /\ opPart' = 0 /\ opInside' = <<>> /\ opSlipped' = (opSlipped \/ opInside # <<>>)
    /\ UNCHANGED <<opDecodeVars, opAsked, opTx, opWs, opFrame, opPending, opOld, opSent>>

\* The output of an encoder: without a transmitter or an open socket it is
\* dropped before its number is taken.
OpEncoded ==
    /\ \/ opInside # <<>> /\ opInside' = Tail(opInside) /\ UNCHANGED opOld
       \/ opOld # <<>> /\ opOld' = Tail(opOld) /\ UNCHANGED opInside
    /\ IF opTx /\ opWs = "open"
       THEN /\ UNCHANGED opSlipped
            /\ IF opPending = <<>> THEN UNCHANGED <<opPending, opSent>>
               ELSE opPending' = Tail(opPending) /\ opSent' = Head(opPending)
       ELSE opSlipped' = TRUE /\ UNCHANGED <<opPending, opSent>>
    /\ UNCHANGED <<opDecodeVars, opAsked, opEncoder, opTx, opWs, opFrame, opPart>>

\* The two halves meet in destroy() only.
OpDestroyNext == OpDestroy({}) \/ \E e \in OpEngines : OpDestroy({e})

OpDecodeNext ==
    \/ OpDestroyNext
    \/ \E e \in OpEngines :
          \/ OpInitDecoder(e)
          \/ \E yes \in BOOLEAN : OpCodecs(e, yes) \/ OpWasm(e, yes)

OpEncodeNext ==
    \/ OpDestroyNext
    \/ OpInitEncoder \/ OpSocket \/ OpEncodeThrows \/ OpEncodeSkipped \/ OpEncoderBreaks \/ OpEncoded
    \/ \E samples \in OpCalls : OpEncode(samples)
    \/ \E yes \in BOOLEAN : OpEncoderAsked(yes)

OpNext == OpDecodeNext \/ OpEncodeNext

OpSpec == OpInit /\ [][OpNext]_opVars

-----------------------------------------------------------------------------
OpTypeOK ==
    /\ opStep \in [OpEngines -> {"none", "codecs", "wasm", "over"}] /\ opFreed \subseteq OpEngines
    /\ {opPlayer, wfInstance, wfHeap} \subseteq 0 .. MaxOpEngines
    /\ {opDecoder, opReady, opFallback, wfTried, opTx, opSlipped, opOverlap, opOrphan} \subseteq BOOLEAN
    /\ opAsked \in 0 .. MaxOpAsks
    /\ opEncoder \in {"none", "ready", "broken"} /\ opWs \in {"connecting", "open", "closed"}
    /\ opFrame \in 0 .. MaxOpFrames /\ opPart \in 0 .. OpChunk - 1
    /\ {opPending, opInside, opOld} \subseteq Seq(1 .. MaxOpFrames)
    /\ opSent \in 0 .. MaxOpFrames

\* Decoded audio is never pushed into a player that was freed, whatever engines
\* come and go, unless one is destroyed during its own initDecoder(), which then
\* installs the freed player again; as long as no engine comes or goes while
\* another one waits, packets are decoded through buffers in the memory of the
\* module that decodes them.  No two packets carry the same number and none an
\* older one, whatever encoders break, are replaced or throw; and each carries
\* the number of the call that completed its chunk as long as every call
\* completed one, no chunk was dropped or lost, and no encoder was replaced while
\* it held some.
OpusSound ==
    /\ ~opOrphan => opPlayer \notin opFreed
    /\ ~opOverlap => (opFallback => wfInstance # 0 /\ wfHeap = wfInstance)
    /\ \A k \in 1 .. Len(opPending) :
          opSent < opPending[k] /\ \A j \in 1 .. k - 1 : opPending[j] < opPending[k]
    /\ ~opSlipped => opPending = opInside
=============================================================================
