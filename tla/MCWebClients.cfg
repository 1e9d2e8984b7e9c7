SPECIFICATION Spec
CONSTANTS
  Hosts = {a, b}
  Channels = {c}
  Defaults <- MCDefaults
  MaxRx = 2
  MaxConns = 3
  MaxRxWire = 2
  MaxFails = 1
  Remote = FALSE
  MaxLosses = 1
  MaxEdits = 1
  MaxWire = 2
  MaxTracks = 2
  MaxLoads = 1
  MaxPlays = 1
  RelayChannels = {c1}
  RemotePage = TRUE
  MaxRelaySockets = 4
  MaxBtStarts = 3
  ListenChannels = {c1, c2}
  MaxLsSockets = 4
  MaxLsStarts = 2
  RingCap = 20
  RingChunks = {1, 2}
  RingBlock = 4
  RingSlack = 3
  RingPrefill = 5
  RingTargets = {4, 8}
  SabCap = 5
  SabBlock = 2
  SabChunks = {1, 2, 3}
  SabNumbers = 7
  FecGroup = 3
  SeqSpace = 16
  Leaf = FALSE
  RcTarget = 2
  MaxRcSockets = 2
  MaxRcPending = 2
  MaxRcFrames = 1
  MaxSessions = 4
  MaxTrTimers = 3
  Transports = TRUE
  MaxEnLinks = 3
  MaxEnTimers = 2
  EnQueueCap = 2
  Codecs = TRUE
  MaxOpEngines = 3
  MaxOpFrames = 3
  MaxOpAsks = 1
  OpChunk = 2
  OpCalls = {1, 2, 3}
  Playback = TRUE
  MaxSdkLinks = 3
  MaxSdkTime = 3
  MaxDecodes = 1
  BridgeClients = {b1, b2, b3}
  MaxClients = 2
CHECK_DEADLOCK FALSE
INVARIANTS
  TypeOK
  StatsFromOwnHost
  MuteAgreesWhenQuiet
  HighlightMatchesSound
  RelayStateIsCurrent
  OneAudioGraph
  BroadcastOwnsMic
  OneListenSocket
  RingExact
  SabHoldsUnplayed
  ParityMatchesGroup
  ClientsOwnSockets
  PlayersSound
  BridgeSound
PROPERTIES
  StaysDisconnected
