SPECIFICATION Spec
CONSTANTS
  p1 = p1
  p2 = p2
  a = a
  b = b
  c = c
  d = d
  None = None
  Thread = {th1, th2}
  Place = {p1, p2}
  Token = {a, b, c, d}
  Capacity <- MCCapacity
  GlobalCapacity = 2
  MaxUncounted = 1
  InitialTokens <- MCInitialTokens
SYMMETRY MCSymmetry
INVARIANTS
  TypeOK
  NoDuplication
  CounterAccounting
  GlobalOvershootBounded
PROPERTIES
  QuietPeekIsNonDestructive
  LossNeedsARace
CHECK_DEADLOCK FALSE
