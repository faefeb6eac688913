\* 3 initial markings, with and without room for all the verified markings;
\* the limit is reached at once, in the middle, or never.
SPECIFICATION Spec
CONSTANTS
  s = s
  a = a
  b = b
  d = d
  x = x
  fork = fork
  join = join
  skip = skip
  merge = merge
  idle = idle
  None = None
  Place <- PlaceDef
  Transition <- TransitionDef
  Needs <- MCPre
  Pre <- MCPre
  Post <- MCPost
  InitialMarkings <- MCInitialMarkings
  Limits = {4, 100}
  Terminals <- MCTerminals
  Checks <- MCChecks
  Capacity <- MCCapacity
  Thread = {th1, th2}
INVARIANTS ExactWhenComplete WitnessReplays VerdictHoldsInRuns WarningsHold
CHECK_DEADLOCK FALSE
