SPECIFICATION FairSpec
CONSTANTS
  SeqSpace = 16
  Slots = 8
  Width = 256
  Look = 2
  SyncDepth = 2
  SyncMax = 3
  JamDepth = 1
  JamMax = 2
  First = 13
  MaxSent = 5
  Reorder = 4
PROPERTIES
  GapPassed
