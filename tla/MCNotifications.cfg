SPECIFICATION Spec
CONSTANTS
  u1 = u1
  u2 = u2
  u3 = u3
  j1 = j1
  j2 = j2
  j3 = j3
  t1 = t1
  k1 = k1
  k2 = k2
  k3 = k3
  Stranger = Stranger
  User = {u1, u2, u3}
  Task = {k1, k2, k3}
  Founders = {u1, u2}
  DueOn <- MCDueOn
  Assigned <- MCAssigned
  LastDay = 2
  Job = {j1, j2, j3}
  Asks <- MCAsks
  Tab = {t1}
  Owner <- MCOwner
  Faults = {"server", "listener", "socket", "database"}
INVARIANTS
  TypeOK
  RowsMatchCauses
  RemindedAgainForCause
  BadgeExplained
PROPERTIES
  OpenTabsCatchUp
