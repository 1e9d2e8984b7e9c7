SPECIFICATION Spec
CONSTANTS
  Capacity = 4
  MaxFrames = 6
INVARIANTS
  TypeOK
  NoTornFrame
PROPERTIES
  RingIsFifo
