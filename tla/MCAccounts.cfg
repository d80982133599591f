SPECIFICATION Spec
CONSTANTS
  e1 = e1
  e2 = e2
  p1 = p1
  p2 = p2
  r1 = r1
  r2 = r2
  r3 = r3
  r4 = r4
  r5 = r5
  r6 = r6
  Email = {e1, e2}
  Password = {p1, p2}
  Req = {r1, r2, r3, r4, r5, r6}
  Asks <- MCAsks
  Faults = {"database"}
INVARIANTS
  TypeOK
  AccountsTrue
  LinksDieWithPassword
