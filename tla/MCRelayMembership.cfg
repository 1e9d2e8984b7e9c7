SPECIFICATION Spec
CONSTANTS
  a1 = a1
  a2 = a2
  a3 = a3
  d1 = d1
  d2 = d2
  Addrs = {a1, a2, a3}
  Devices = {d1, d2}
  DeviceOf <- MCDeviceOf
  Names = {club, jazz, bach}
  Free = {jazz, bach}
  NoPassword = NoPassword
  Passwords = {NoPassword, secret}
  NoGroup = NoGroup
  Nobody = Nobody
  MaxGroups = 2
  MaxMembers = 2
SYMMETRY MembershipSymmetry
INVARIANTS
  TypeOK
  IndexAgrees
  EmptyGroupPinned
  PasswordShown
  DjHasMic
PROPERTIES
  AuthorityNeeded
