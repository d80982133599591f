SPECIFICATION Spec
CONSTANTS
  p1 = p1
  p2 = p2
  t1 = t1
  r1 = r1
  r2 = r2
  todo = todo
  done = done
  Absent = Absent
  None = None
  Task = {t1}
  Status = {todo, done}
  Todo = todo
  Page = {p1}
  Req = {r1, r2}
  Faults = {"database", "redis", "network", "socket"}
CHECK_DEADLOCK FALSE
PROPERTIES
  ImplementsTaskTable
  EventuallyConverged
