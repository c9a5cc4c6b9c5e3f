SPECIFICATION FairSpec
CONSTANTS
  Caller = {c1}
  MaxTurns = 1
  MaxCrashes = 0
  MaxRounds = 1
PROPERTIES AbortHeeded
