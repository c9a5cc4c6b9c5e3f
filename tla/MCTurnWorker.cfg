SPECIFICATION FairSpec
CONSTANTS
  Caller = {c1, c2}
  MaxTurns = 3
  MaxCrashes = 1
  MaxRounds = 1
INVARIANTS TypeOK SingleDecode Forgotten
PROPERTIES TurnsEnd
