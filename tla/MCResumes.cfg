SPECIFICATION Spec
CONSTANTS
  p1 = p1
  p2 = p2
  go = go
  a = a
  b = b
  None = None
  loop = loop
  Waiter = {waiter}
  Place = {p1, p2}
  Transition = {go}
  TokenId = {a, b}
  In <- MCIn
  Out <- MCOut
  InitialTokens <- MCInitialTokens
  Odd = {b}
  MaxEvents = 2
  MaxIds <- MCMaxIds
  MaxStarts = 2
PROPERTIES
  ResumesFromCheckpoint
CHECK_DEADLOCK FALSE
