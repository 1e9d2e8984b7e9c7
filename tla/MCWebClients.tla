----------------------------- MODULE MCWebClients -----------------------------
(***************************************************************************)
(* TLC instance of the browser clients and the WebSocket bridge.  None of  *)
(* these modules shares a variable with another, so that an invariant of   *)
(* one holds in their product exactly if it holds of the module alone:     *)
(* focus chooses the one that moves.  Of the Opus bridge it moves a half,  *)
(* for the same reason: decoding and encoding share destroy() and nothing  *)
(* else, and each formula about the bridge is about one of them.           *)
(***************************************************************************)
EXTENDS WebReceivers, WebDaemon, WebPlayer, WebAudio, WebBroadcast, WebListen, WebRadioRing,
        WebSharedRing, WebSoluna, WebTransports, WebEngine, WebOpus, SdkClient, WsBridge

VARIABLE focus

\* A browser that stored no list starts with one receiver.
MCDefaults == <<[host |-> CHOOSE h \in Hosts : TRUE, channel |-> CHOOSE ch \in Channels : TRUE]>>

Parts == {"receivers", "daemon", "player", "audio", "broadcast", "listen", "radio ring",
          "shared ring", "sender", "receiver", "transports", "engine", "opus decoder",
          "opus encoder", "sdk", "bridge"}

pageVars == <<rxVars, wdVars, plVars, wauVars, btVars>>
listenVars == <<lsVars, rgVars, sabVars>>
engineVars == <<trVars, enVars, opVars>>
restVars == <<sdkVars, brVars>>
clientVars == <<pageVars, listenVars, solVars, engineVars, restVars, focus>>

Init ==
    /\ focus \in Parts
    /\ RxInit /\ WdInit /\ PlInit /\ WauInit /\ BtInit
    /\ LsInit /\ RgInit /\ SabInit /\ SolInit
    /\ TrInit /\ EnInit /\ OpInit /\ SdkInit /\ BrInit
    /\ focus # "listen" => lsChannel = CHOOSE ch \in ListenChannels : TRUE
    /\ focus # "transports" => trKind = "websocket"

\* The parts of the dashboard.
PageNext ==
    /\ \/ focus = "receivers" /\ RxNext /\ UNCHANGED <<wdVars, plVars, wauVars, btVars>>
       \/ focus = "daemon" /\ WdNext /\ UNCHANGED <<rxVars, plVars, wauVars, btVars>>
       \/ focus = "player" /\ PlNext /\ UNCHANGED <<rxVars, wdVars, wauVars, btVars>>
       \/ focus = "audio" /\ WauNext /\ UNCHANGED <<rxVars, wdVars, plVars, btVars>>
       \/ focus = "broadcast" /\ BtNext /\ UNCHANGED <<rxVars, wdVars, plVars, wauVars>>
    /\ UNCHANGED <<listenVars, solVars, engineVars, restVars, focus>>

\* The listening page and the rings of the worklets.
ListenNext ==
    /\ \/ focus = "listen" /\ LsNext /\ UNCHANGED <<rgVars, sabVars>>
       \/ focus = "radio ring" /\ RgNext /\ UNCHANGED <<lsVars, sabVars>>
       \/ focus = "shared ring" /\ SabNext /\ UNCHANGED <<lsVars, rgVars>>
    /\ UNCHANGED <<pageVars, solVars, engineVars, restVars, focus>>

\* Sender and receiver of the one-file SDK.
SolunaNext ==
    /\ \/ focus = "sender" /\ TxNext
       \/ focus = "receiver" /\ RcNext
    /\ UNCHANGED <<pageVars, listenVars, engineVars, restVars, focus>>

\* The engine, its transports and its Opus bridge.
EngineNext ==
    /\ \/ focus = "transports" /\ TrNext /\ UNCHANGED <<enVars, opVars>>
       \/ focus = "engine" /\ EnNext /\ UNCHANGED <<trVars, opVars>>
       \/ focus = "opus decoder" /\ OpDecodeNext /\ UNCHANGED <<trVars, enVars>>
       \/ focus = "opus encoder" /\ OpEncodeNext /\ UNCHANGED <<trVars, enVars>>
    /\ UNCHANGED <<pageVars, listenVars, solVars, restVars, focus>>

\* The SDK in several files and the bridge.
RestNext ==
    /\ \/ focus = "sdk" /\ SdkNext /\ UNCHANGED brVars
       \/ focus = "bridge" /\ BrNext /\ UNCHANGED sdkVars
    /\ UNCHANGED <<pageVars, listenVars, solVars, engineVars, focus>>

Next == PageNext \/ ListenNext \/ SolunaNext \/ EngineNext \/ RestNext

Spec == Init /\ [][Next]_clientVars

\* Every variable of every client stays in its set.
TypeOK ==
    /\ RxTypeOK /\ WdTypeOK /\ PlTypeOK /\ WauTypeOK /\ BtTypeOK
    /\ LsTypeOK /\ RgTypeOK /\ SabTypeOK /\ SolTypeOK
    /\ TrTypeOK /\ EnTypeOK /\ OpTypeOK /\ SdkTypeOK /\ BrTypeOK

\* What the dashboard believes of its relay connection - connected or not, and
\* whose HELLO timer runs - is true of the current socket, although handlers
\* of replaced sockets go on writing it (relayConnect, switchChannel); only the
\* late close of a replaced one makes an open connection look closed.
RelayStateIsCurrent == RelayModeIsOpen /\ OneHelloTimer

\* Each client hears only the socket it would close: the receiver of the
\* one-file SDK (its audio), the engine, a transport of the engine and the
\* client of the SDK in several files, each as long as its calls and
\* reconnections do not overlap in the ways its module names.
ClientsOwnSockets ==
    ReceiverOwnsSocket /\ EngineOwnsSocket /\ TransportOwnsSession /\ SdkOwnsConnection

\* After disconnect() no late timer, promise or fall back of the engine or of a
\* transport opens anything before connect() is called again.
StaysDisconnected == EngineStaysDown /\ TransportStaysDown

\* The players of the SDKs: the Opus bridge feeds a live player unless an engine
\* is destroyed during its initDecoder(), and through buffers of its own module
\* unless engines overlap; it never gives two packets one number, and gives each
\* its chunk's as long as numbers and chunks come in pairs (WebOpus); and the
\* AudioPlayer plays its packets one right behind the other, whatever connections
\* and contexts come and go.
PlayersSound == OpusSound /\ SdkPlaysOn
===============================================================================
