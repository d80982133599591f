SPECIFICATION Spec
CONSTANTS
  top = top
  sub = sub
  k1 = k1
  k2 = k2
  r1 = r1
  r2 = r2
  r3 = r3
  Task = {top, sub}
  Subtree <- MCSubtree
  Key = {k1, k2}
  Req = {r1, r2}
  Faults = {}
CHECK_DEADLOCK FALSE
INVARIANT DeletionCleansStorage
