--------------------------- MODULE WebClients_proofs ---------------------------
(***************************************************************************)
(* What is proved of each browser client holds of all of them together:    *)
(* the product of MCWebClients implements each client's specification,     *)
(* since every step is one client's and leaves the others' variables.      *)
(***************************************************************************)
EXTENDS MCWebClients, WebPage_proofs, WebLinks_proofs

\* A step of the product is one of each part, or leaves it: the dashboard.
LEMMA StepsOfPage ==
    [Next]_clientVars =>
        /\ [RxNext]_rxVars
        /\ [WdNext]_wdVars
        /\ [PlNext]_plVars
        /\ [WauNext]_wauVars
        /\ [BtNext]_btVars
<1> SUFFICES ASSUME [Next]_clientVars
             PROVE  /\ [RxNext]_rxVars
                    /\ [WdNext]_wdVars
                    /\ [PlNext]_plVars
                    /\ [WauNext]_wauVars
                    /\ [BtNext]_btVars
  OBVIOUS
<1>1. CASE PageNext
  <2>1. [RxNext]_rxVars
    BY <1>1, Zenon DEF PageNext
  <2>2. [WdNext]_wdVars
    BY <1>1, Zenon DEF PageNext
  <2>3. [PlNext]_plVars
    BY <1>1, Zenon DEF PageNext
  <2>4. [WauNext]_wauVars
    BY <1>1, Zenon DEF PageNext
  <2>5. [BtNext]_btVars
    BY <1>1, Zenon DEF PageNext
  <2> QED
    BY <2>1, <2>2, <2>3, <2>4, <2>5
<1>2. CASE UNCHANGED pageVars
  BY <1>2 DEF pageVars
<1>3. CASE ListenNext \/ SolunaNext \/ EngineNext \/ RestNext
  BY <1>2, <1>3 DEF ListenNext, SolunaNext, EngineNext, RestNext
<1>4. CASE UNCHANGED clientVars
  BY <1>2, <1>4 DEF clientVars
<1> QED
  BY <1>1, <1>3, <1>4 DEF Next

\* A step of the product is one of each part, or leaves it: the listening page and the rings.
LEMMA StepsOfListen ==
    [Next]_clientVars =>
        /\ [LsNext]_lsVars
        /\ [RgNext]_rgVars
        /\ [SabNext]_sabVars
<1> SUFFICES ASSUME [Next]_clientVars
             PROVE  /\ [LsNext]_lsVars
                    /\ [RgNext]_rgVars
                    /\ [SabNext]_sabVars
  OBVIOUS
<1>1. CASE ListenNext
  <2>1. [LsNext]_lsVars
    BY <1>1, Zenon DEF ListenNext
  <2>2. [RgNext]_rgVars
    BY <1>1, Zenon DEF ListenNext
  <2>3. [SabNext]_sabVars
    BY <1>1, Zenon DEF ListenNext
  <2> QED
    BY <2>1, <2>2, <2>3
<1>2. CASE UNCHANGED listenVars
  BY <1>2 DEF listenVars
<1>3. CASE PageNext \/ SolunaNext \/ EngineNext \/ RestNext
  BY <1>2, <1>3 DEF PageNext, SolunaNext, EngineNext, RestNext
<1>4. CASE UNCHANGED clientVars
  BY <1>2, <1>4 DEF clientVars
<1> QED
  BY <1>1, <1>3, <1>4 DEF Next

\* A step of the product is one of each part, or leaves it: the one-file SDK.
LEMMA StepsOfSoluna ==
    [Next]_clientVars =>
        /\ [TxNext \/ RcNext]_solVars
<1> SUFFICES ASSUME [Next]_clientVars
             PROVE  /\ [TxNext \/ RcNext]_solVars
  OBVIOUS
<1>1. CASE SolunaNext
  BY <1>1 DEF SolunaNext
<1>2. CASE UNCHANGED solVars
  BY <1>2
<1>3. CASE PageNext \/ ListenNext \/ EngineNext \/ RestNext
  BY <1>2, <1>3 DEF PageNext, ListenNext, EngineNext, RestNext
<1>4. CASE UNCHANGED clientVars
  BY <1>2, <1>4 DEF clientVars
<1> QED
  BY <1>1, <1>3, <1>4 DEF Next

\* A step of the product is one of each part, or leaves it: the engine.
LEMMA StepsOfEngine ==
    [Next]_clientVars =>
        /\ [TrNext]_trVars
        /\ [EnNext]_enVars
        /\ [OpNext]_opVars
<1> SUFFICES ASSUME [Next]_clientVars
             PROVE  /\ [TrNext]_trVars
                    /\ [EnNext]_enVars
                    /\ [OpNext]_opVars
  OBVIOUS
<1>1. CASE EngineNext
  <2>1. [TrNext]_trVars
    BY <1>1, Zenon DEF EngineNext
  <2>2. [EnNext]_enVars
    BY <1>1, Zenon DEF EngineNext
  <2>3. [OpNext]_opVars
    BY <1>1, Zenon DEF EngineNext, OpNext
  <2> QED
    BY <2>1, <2>2, <2>3
<1>2. CASE UNCHANGED engineVars
  BY <1>2 DEF engineVars
<1>3. CASE PageNext \/ ListenNext \/ SolunaNext \/ RestNext
  BY <1>2, <1>3 DEF PageNext, ListenNext, SolunaNext, RestNext
<1>4. CASE UNCHANGED clientVars
  BY <1>2, <1>4 DEF clientVars
<1> QED
  BY <1>1, <1>3, <1>4 DEF Next

\* A step of the product is one of each part, or leaves it: the other SDK and the bridge.
LEMMA StepsOfRest ==
    [Next]_clientVars =>
        /\ [SdkNext]_sdkVars
        /\ [BrNext]_brVars
<1> SUFFICES ASSUME [Next]_clientVars
             PROVE  /\ [SdkNext]_sdkVars
                    /\ [BrNext]_brVars
  OBVIOUS
<1>1. CASE RestNext
  <2>1. [SdkNext]_sdkVars
    BY <1>1, Zenon DEF RestNext
  <2>2. [BrNext]_brVars
    BY <1>1, Zenon DEF RestNext
  <2> QED
    BY <2>1, <2>2
<1>2. CASE UNCHANGED restVars
  BY <1>2 DEF restVars
<1>3. CASE PageNext \/ ListenNext \/ SolunaNext \/ EngineNext
  BY <1>2, <1>3 DEF PageNext, ListenNext, SolunaNext, EngineNext
<1>4. CASE UNCHANGED clientVars
  BY <1>2, <1>4 DEF clientVars
<1> QED
  BY <1>1, <1>3, <1>4 DEF Next

\* The product of the clients implements each of them: what holds of one holds
\* of it wherever it runs beside the others.
THEOREM ClientsImplement ==
    Spec => /\ RxSpec /\ WdSpec /\ PlSpec /\ WauSpec /\ BtSpec
            /\ LsSpec /\ RgSpec /\ SabSpec /\ SolSpec
            /\ TrSpec /\ EnSpec /\ OpSpec /\ SdkSpec /\ BrSpec
<1>1. Init => /\ RxInit /\ WdInit /\ PlInit /\ WauInit /\ BtInit
              /\ LsInit /\ RgInit /\ SabInit /\ SolInit
              /\ TrInit /\ EnInit /\ OpInit /\ SdkInit /\ BrInit
  BY DEF Init
<1> QED
  BY <1>1, StepsOfPage, StepsOfListen, StepsOfSoluna, StepsOfEngine, StepsOfRest, PTL
     DEF Spec, RxSpec, WdSpec, PlSpec, WauSpec, BtSpec, LsSpec, RgSpec, SabSpec, SolSpec,
         TrSpec, EnSpec, OpSpec, SdkSpec, BrSpec

\* Every variable of every client stays in its set, whatever the sizes.
THEOREM ClientsTyped == Spec => []TypeOK
<1>1. /\ BtInv => BtTypeOK /\ BroadcastOwnsMic
      /\ WauInv => WauTypeOK
      /\ PlInv => PlTypeOK
      /\ SabInv => SabTypeOK
      /\ EnInv => EnTypeOK
      /\ RgInv => RgTypeOK
      /\ BrInv => BrTypeOK
  BY DEF BtInv, WauInv, PlInv, SabInv, EnInv, RgInv, BrInv
<1>2. (/\ RxTypeOK /\ WdTypeOK /\ PlTypeOK /\ WauTypeOK /\ BtTypeOK
       /\ LsTypeOK /\ RgTypeOK /\ SabTypeOK /\ SolTypeOK
       /\ TrTypeOK /\ EnTypeOK /\ OpTypeOK /\ SdkTypeOK /\ BrTypeOK) => TypeOK
  BY DEF TypeOK
<1> QED
  BY <1>1, <1>2, ClientsImplement, ReceiversTyped, DaemonTyped, PlayerInvariant, AudioInvariant,
     BroadcastInvariant, ListenTyped, RadioRingInvariant, SharedRingInvariant, SolunaOwns,
     TransportTyped, EngineInvariant, OpusKeepsSound, SdkOwns, BridgeInvariant, PTL

\* The dashboard believes in relay mode only while its current socket is open,
\* and believes it while that is open unless a socket it replaced closed late;
\* one HELLO timer runs (RelayStateIsCurrent: relayConnect, switchChannel).
THEOREM ClientsKnowTheRelay == Spec => []RelayStateIsCurrent
<1>1. WauInv => RelayStateIsCurrent
  BY DEF WauInv, RelayStateIsCurrent
<1> QED
  BY <1>1, ClientsImplement, AudioInvariant, PTL

\* Each client hears only the socket it would close, unless its connections
\* overlap in the ways its module names (ClientsOwnSockets).
THEOREM ClientsHearTheirOwn == Spec => []ClientsOwnSockets
<1>1. ReceiverOwnsSocket /\ EngineOwnsSocket /\ TransportOwnsSession /\ SdkOwnsConnection
      => ClientsOwnSockets
  BY DEF ClientsOwnSockets
<1> QED
  BY <1>1, ClientsImplement, SolunaOwns, EngineOwnsItsSocket, TransportOwnsIts, SdkOwns, PTL

\* Nothing of the engine or of a transport opens after disconnect()
\* (StaysDisconnected).
THEOREM ClientsStayDown == Spec => StaysDisconnected
<1>1. Spec => EngineStaysDown
  BY ClientsImplement, EngineStaysDisconnected
<1>2. Spec => TransportStaysDown
  BY ClientsImplement, TransportObeysDisconnect
<1> QED
  BY <1>1, <1>2 DEF StaysDisconnected

\* The bridge feeds a live player unless an engine is destroyed during its own
\* initDecoder(), and numbers packets upwards, as their chunks until one slips;
\* the player plays without gap or overlap (PlayersSound).
THEOREM ClientsPlaySoundly == Spec => []PlayersSound
<1>1. OpusSound /\ SdkPlaysOn => PlayersSound
  BY DEF PlayersSound
<1> QED
  BY <1>1, ClientsImplement, OpusKeepsSound, SdkPlays, PTL
===============================================================================
