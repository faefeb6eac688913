SPECIFICATION RestoreSpec
CONSTANTS
  p1 = p1
  p2 = p2
  old = old
  a = a
  b = b
  c = c
  None = None
  restorer = th1
  Thread = {th1, th2}
  Place = {p1, p2}
  Unknown = {old}
  Token = {a, b, c}
  Capacity <- MCCapacity
  GlobalCapacity = 0
  Checkpoints <- MCCheckpoints
  InitialContent <- MCInitialContent
  MaxOps = 2
  MaxMoves = 1
PROPERTIES
  SnapshotHasWhatStayed
  QuietRestoreIsAllOrNothing
  RestorerReturns
CHECK_DEADLOCK FALSE
