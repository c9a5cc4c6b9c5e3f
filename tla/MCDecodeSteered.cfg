SPECIFICATION Spec
CONSTANTS
  a = a
  b = b
  eot = eot
  close = close
  poison = poison
  Hole = Hole
  Token <- MCToken
  Stop <- MCStop
  Prompt <- MCPrompt
  Input <- MCInput
  Best <- MCBest
  Pick <- MCGreedy
  Poisonous <- MCPoisonous
  EditEnds <- MCEditEnds
  Retokenize <- MCSame
  Steering = TRUE
  Suffix = TRUE
  Greedy = FALSE
  MaxTokens = 3
  MaxSpec = 2
  DraftMin = 1
  DraftInit = 2
  DraftMax = 2
  TargetCtx = 11
  DraftCtx = 8
  Headroom = 5
  Faults = {"round", "verify"}
CHECK_DEADLOCK FALSE
INVARIANTS
  TypeOK
  Mirror
  OwnOutput
  ShadowAligned
PROPERTIES
  CleanCommit
