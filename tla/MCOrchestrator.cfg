SPECIFICATION FairSpec
CONSTANTS
  MaxInstances = 2
  MaxLives = 2
  MaxTroubles = 3
  NoRecord = NoRecord
CHECK_DEADLOCK FALSE
INVARIANTS
  TypeOK
  Attended
  Truthful
PROPERTIES
  StopsEnd
