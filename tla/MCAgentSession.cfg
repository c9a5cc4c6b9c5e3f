SPECIFICATION FairSpec
CONSTANTS
  m1 = m1
  m2 = m2
  b1 = b1
  Msg = {m1, m2}
  Bash = {b1}
  NoId = NoId
  Caller = {1, 2}
  NoCaller = 0
  QueueMode = "one-at-a-time"
  Parallel = TRUE
  Endings = {"stop", "error", "overflow", "length"}
  MaxCalls = 1
  MaxRounds = 1
  MaxRetries = 1
  KeepRecent = 1
  MaxCompactions = 1
  MaxTroubles = 6
CHECK_DEADLOCK FALSE
INVARIANTS
  Conserved
  AgreesWithSession
  ResultsFollowCalls
  RetriesEnd
  TypeOK
PROPERTIES
  QueueServed
