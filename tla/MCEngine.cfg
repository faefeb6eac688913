SPECIFICATION Spec
CONSTANTS
  p1 = p1
  p2 = p2
  auto = auto
  manual = manual
  timed = timed
  event = event
  alice = alice
  None = None
  Transition = {auto, manual}
  Kind <- MCKind
  Approvers <- MCApprovers
  RequireAll = {}
  Expiring = {manual}
  FixedTime = {}
  VirtualTime = FALSE
  Client = {c1}
  Loop = {l1, l2}
  Waiter = {w1, w2}
  Place = {p1, p2}
  Pre <- MCChainPre
  Post <- MCChainPost
  Capacity <- MCCapacity
  InitialMarking <- MCChainMarking
  Mode = "sequential"
  StepMode = FALSE
  MaxConcurrent = 1
  Tasked = {}
  MaxCalls = 3
INVARIANTS
  PauseLetsOneThrough
  WaitersBounded
PROPERTIES
  StopLeavesNoLoop
  UntriggeredOnlyAfterCancel
  StopReturns
CHECK_DEADLOCK FALSE
