SPECIFICATION Spec
CONSTANTS
  dj = dj
  fan = fan
  t1 = t1
  Devices = {dj, fan}
  Holders = {label}
  Section = Section
  NoDevice = NoDevice
  Tokens = {t1}
  NoToken = NoToken
  TokenDevice <- MCTokenDevice
  TokenTime <- MCTokenTime
  TokenAmount <- MCTokenAmount
  Window = 1
  Keep = 2
  Seeds <- MCSeeds
  Amounts = {10}
  Units = {1}
  Seats <- MCSeats
  MaxAnon = 1
  MaxMoves = 2
  MaxRestarts = 1
  MaxTime = 3
PROPERTIES
  OnlyShortPayersSilenced
