SPECIFICATION FairSpec
CONSTANTS
  kvA = kvA
  kvB = kvB
  kvC = kvC
  kvD = kvD
  NoSnap = NoSnap
  NoInode = NoInode
  Text <- MCTextOne
  Prompt <- MCPromptOne
  Snapshot <- MCSnapshotOne
  Size <- MCSize
  Truncated <- MCNone
  Loop = {l1, l2}
  Inode = {i1, i2, i3}
  Budget = 3
  Drained = FALSE
  MaxQueue = 1
  MaxHits = 0
  MaxAge = 0
PROPERTIES
  FlushReturns
