SPECIFICATION Spec
CONSTANTS
  top = top
  sub = sub
  k1 = k1
  k2 = k2
  r1 = r1
  r2 = r2
  r3 = r3
  Task = {top, sub}
  Subtree <- MCSubtree
  Key = {k1}
  Req = {r1, r2, r3}
  Faults = {"storage", "database"}
CHECK_DEADLOCK FALSE
INVARIANTS
  TypeOK
  DanglingOnlyByTaskDeletion
  OrphanAccounted
  RemovedMeansGone
  DeletedMeansEmpty
PROPERTY EveryRequestEnds
