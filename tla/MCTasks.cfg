SPECIFICATION TaskSpec
CONSTANTS
  Task <- MCTask
  Kind <- MCKind
  Subs <- MCSubs
  Limit <- MCLimit
  Roots = {"order", "poll", "fan", "spawn"}
  Timed = {"order", "undo", "quick", "fan", "spawn"}
  ContinueOnError = {"order"}
  Backoff = {"poll"}
  Review = {"review"}
  OnTimeout = {"approve", "child"}
  Async = {"notify"}
  PropagateCancel = {"child"}
  TokenHasMetadata = TRUE
  Suppresses = TRUE
INVARIANTS
  OutcomeOfTheParts
  NoPartOutlives
PROPERTIES
  CancelledReturns
CHECK_DEADLOCK FALSE
