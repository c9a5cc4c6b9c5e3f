SPECIFICATION FairSpec
CONSTANTS
  f = f
  g = g
  File = {f, g}
  NoFile = NoFile
  KeepRecent = 2
  DualBrain = TRUE
  Mixed = TRUE
  Throws = {"small", "large"}
  MaxLen = 7
  MaxVersion = 2
INVARIANTS
  TypeOK
  Told
  FedIsThereOnce
  LiveModels
  ResetHolds
PROPERTIES
  TurnReturns
