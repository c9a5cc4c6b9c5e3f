SPECIFICATION FairSpec
CONSTANTS
  a = a
  b = b
  eot = eot
  close = close
  poison = poison
  Hole = Hole
  Token <- MCFew
  Stop <- MCStop
  Prompt <- MCPrompt
  Input <- MCInput
  Best <- MCBestFew
  Pick <- MCGreedy
  Poisonous <- MCPoisonous
  EditEnds <- MCEditEnds
  Retokenize <- MCFused
  Steering = FALSE
  Suffix = FALSE
  Greedy = TRUE
  MaxTokens = 3
  MaxSpec = 2
  DraftMin = 1
  DraftInit = 2
  DraftMax = 4
  TargetCtx = 9
  DraftCtx = 10
  Headroom = 0
  Faults = {"plain", "round", "verify", "correction"}
CHECK_DEADLOCK FALSE
INVARIANTS
  PlainOutput
PROPERTIES
  TurnEnds
