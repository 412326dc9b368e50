SPECIFICATION Spec
CONSTANTS
  Calls = {c1, c2, c3}
  FailureThreshold = 2
  RecoveryTimeout = 1
  HalfOpenMaxCalls = 2
  MaxRetries = 1
INVARIANTS ClosedBelowThreshold TrialBudget HalfOpenHasTrial AttemptsBounded EveryRetryUsed
PROPERTIES HalfOpenResolves ImplementsBreaker
