SPECIFICATION Spec
CONSTANTS
  Addrs = {a1, a2, a3, a4}
  Djs = {a1}
  Relay = Relay
  FanOut = 2
  Threshold = 1
  MaxMembers = 4
  MaxDepth = 3
  MaxReports = 2
CHECK_DEADLOCK TRUE
PROPERTIES
  RootReplaced
