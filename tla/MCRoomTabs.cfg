SPECIFICATION RoomSpec
CONSTANTS
  c1 = c1
  c2 = c2
  c3 = c3
  u1 = u1
  u2 = u2
  u3 = u3
  i1 = i1
  i2 = i2
  Conn = {c1, c2, c3}
  User = {u1, u2}
  Instance = {i1, i2}
  Owner <- TabsOwner
  Host <- MCHost
  Faults = {}
CHECK_DEADLOCK FALSE
CONSTRAINT ObserverStays
INVARIANTS
  RoomTypeOK
  ViewsAgree
PROPERTY OwnJoinAfterSnapshot
