SPECIFICATION Spec
CONSTANTS
  x = x
  y = y
  nl = nl
  sp = sp
  Hole = Hole
  Char <- MCChar
  Newline <- nl
  Tokenize <- MCTokenize
  Prompt <- MCPrompt
  Input <- MCInput
  Output <- MCOutput
  Block = 2
  MaxRungs = 2
  Kept = 2
  Window = 10
  MaxText = 9
  MaxBehind = 1
  MaxHarms = 1
  Repeats = FALSE
  Faults = {}
INVARIANTS
  PromptInContext
