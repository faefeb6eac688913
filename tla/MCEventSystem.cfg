\* 2 clients, 2 events, 2 subscriptions, a channel of size 1.
SPECIFICATION Spec
CONSTANTS
  e1 = e1
  e2 = e2
  all = all
  one = one
  Client = {c1, c2}
  Event <- EventDef
  Subscription <- SubscriptionDef
  Matches <- MatchesDef
  Capacity = 1
  None = None
INVARIANTS HandledInOrder CloseDeliversTheRest
PROPERTY CloseReturns
CHECK_DEADLOCK FALSE
