SPECIFICATION Spec
CONSTANTS
  p1 = p1
  p2 = p2
  t1 = t1
  t2 = t2
  a = a
  b = b
  c = c
  None = None
  Thread = {th1, th2}
  Place = {p1, p2}
  Transition = {t1, t2}
  Token = {a, b, c}
  Capacity <- MCCapacity
  GlobalCapacity = 0
  InputArcs <- MCInputArcs
  OutputArcs <- MCOutputArcs
  Guarded = {t2}
  Tasked = {t1}
  EmptyToken = a
  InitialTokens <- MCInitialTokens
  BatchSize = 2
  MaxCalls = 2
INVARIANTS
  StateEquation
PROPERTIES
  RefinesTokenGame
  QuietFiringTakesWhatGuardSaw
  CallsReturn
CHECK_DEADLOCK FALSE
