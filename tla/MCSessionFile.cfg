SPECIFICATION Spec
CONSTANTS
  p1 = p1
  p2 = p2
  f1 = f1
  f2 = f2
  Editor = {p1}
  NoFile = NoFile
  Process = {p1, p2}
  File = {f1, f2}
  Legacy = {f2}
  MaxHurt = 1
  MaxId = 5
  FirstId = 3
  Found <- MCFound
ACTION_CONSTRAINT MCBound
CHECK_DEADLOCK FALSE
INVARIANTS
  TypeOK
  Saved
PROPERTIES
  ForkKeeps
  TreeSpec
