SPECIFICATION Spec
CONSTANTS
  p1 = p1
  p2 = p2
  t1 = t1
  r1 = r1
  r2 = r2
  todo = todo
  done = done
  Absent = Absent
  None = None
  Task = {t1}
  Status = {todo, done}
  Todo = todo
  Page = {p1, p2}
  Req = {r1, r2}
  Faults = {}
CHECK_DEADLOCK FALSE
INVARIANTS
  TypeOK
  StaleOnlyWithCause
SYMMETRY Interchangeable
