SPECIFICATION Spec
CONSTANTS
  t = t
  None = None
  loop = loop
  observer = observer
  Waiter = {w1, w2}
  Sleeper = {s1}
  Delay = 1
  At = 1
  Lengths = {1}
  MaxTime = 2
  MaxWork = 3
INVARIANTS
  ClockOK
PROPERTIES
  NeverEarly
  RefinesTrigger
  SleepersWake
  DueFires
CHECK_DEADLOCK FALSE
