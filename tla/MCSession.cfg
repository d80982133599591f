SPECIFICATION Spec
CONSTANTS
  x1 = x1
  q1 = q1
  q2 = q2
  u1 = u1
  u2 = u2
  None = None
  Tab = {x1}
  Req = {q1, q2}
  User = {u1, u2}
  TabOf <- MCTabOf
  Faults = {"network"}
INVARIANTS
  TypeOK
  OneRefreshPerTab
PROPERTIES
  TornOnlyByLateRefresh
  LiveSessionLostWithCause
  EveryRequestSettles
