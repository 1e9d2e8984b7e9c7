SPECIFICATION Spec
CONSTANTS
  a1 = a1
  a2 = a2
  a3 = a3
  d1 = d1
  d2 = d2
  Addrs = {a1, a2, a3}
  Devices = {d1, d2}
  DeviceOf <- MCDeviceOf
  Names = {club, jazz}
  Free = {jazz}
  NoPassword = NoPassword
  Passwords = {NoPassword, secret}
  NoGroup = NoGroup
  Nobody = Nobody
  MaxGroups = 1
  MaxMembers = 2
INVARIANTS
  GroupsBounded
