SPECIFICATION NetSpec
CONSTANTS
  i = i
  j = j
  k = k
  Id <- MCId
  ArcId = {a, b}
  Weights = {0, 2}
  InitialTokens <- MCInitialTokens
  PlaceCapacity <- MCCapacity
SYMMETRY MCSymmetry
INVARIANTS
  RunsAsDeclared
  ValidNetFires
  ComponentsExact
CHECK_DEADLOCK FALSE
