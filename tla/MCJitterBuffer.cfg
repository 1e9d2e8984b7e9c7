SPECIFICATION Spec
CONSTANTS
  SeqSpace = 8
  Slots = 4
  Width = 256
  Look = 2
  SyncDepth = 2
  SyncMax = 3
  JamDepth = 1
  JamMax = 2
  First = 6
  MaxSent = 10
  Reorder = 2
INVARIANTS
  TypeOK
  NoTornPacket
  PlayedIntact
  OccupancyExact
PROPERTIES
  PlayedInOrder
