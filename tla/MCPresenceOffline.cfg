SPECIFICATION Spec
CONSTANTS
  c1 = c1
  c2 = c2
  c4 = c4
  u1 = u1
  u2 = u2
  i1 = i1
  i2 = i2
  Conn = {c1, c2, c4}
  User = {u1, u2}
  Instance = {i1, i2}
  Owner <- MCOwner
  Host <- MCHost
  Faults = {}
CHECK_DEADLOCK FALSE
INVARIANT OfflineOnlyOnceAllClose
