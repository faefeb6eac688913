SPECIFICATION Spec
CONSTANTS
  p1 = p1
  p2 = p2
  auto = auto
  manual = manual
  timed = timed
  event = event
  alice = alice
  None = None
  Transition = {timed, event}
  Kind <- MCKind
  Approvers <- MCApprovers
  RequireAll = {}
  Expiring = {}
  FixedTime = {timed}
  VirtualTime = FALSE
  Client = {c1}
  Loop = {l1}
  Waiter = {w1, w2}
  Place = {p1}
  Pre <- MCPairPre
  Post <- MCPairPost
  Capacity <- MCCapacity
  InitialMarking <- MCPairMarking
  Mode = "concurrent"
  StepMode = FALSE
  MaxConcurrent = 2
  Tasked = {timed}
  MaxCalls = 2
PROPERTIES
  UntriggeredOnlyAfterCancel
CHECK_DEADLOCK FALSE
