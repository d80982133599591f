SPECIFICATION Spec
CONSTANTS
  u1 = u1
  u2 = u2
  r1 = r1
  r2 = r2
  r3 = r3
  r4 = r4
  general = general
  Stranger = Stranger
  User = {u1, u2}
  Req = {r1, r2, r3, r4}
  Word = {general}
  Name <- MCName
  General <- MCGeneral
  Asks <- MCAsks
  Faults = {"database"}
INVARIANTS
  TypeOK
  CreatorsFindTheirWork
  AnswersTrue
  LogTrue
PROPERTIES
  ImplementsDirectory
