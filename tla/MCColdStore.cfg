SPECIFICATION Spec
CONSTANTS
  kvA = kvA
  kvB = kvB
  kvC = kvC
  kvD = kvD
  NoSnap = NoSnap
  NoInode = NoInode
  Text <- MCText
  Prompt <- MCPrompt
  Snapshot <- MCSnapshot
  Size <- MCSize
  Truncated <- MCTruncated
  Loop = {l1, l2}
  Inode = {i1, i2, i3, i4, i5}
  Budget = 3
  Drained = TRUE
  MaxQueue = 1
  MaxHits = 1
  MaxAge = 1
VIEW MCView
INVARIANTS
  TypeOK
  OnlyWholeCheckpoints
  WithinBudget
PROPERTIES
  CacheSpec
