SPECIFICATION FairSpec
CONSTANTS
  Hosts = {a, b}
  Channels = {c}
  Defaults <- MCDefaults
  MaxRx = 2
  MaxConns = 3
  MaxRxWire = 1
  MaxFails = 1
  Remote = FALSE
  MaxLosses = 1
  MaxEdits = 1
  MaxWire = 2
CHECK_DEADLOCK FALSE
PROPERTIES
  ListedReconnects
  ShownConverges
