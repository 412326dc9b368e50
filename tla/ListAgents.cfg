SPECIFICATION Spec
CONSTANTS
  Calls = {c1, c2}
  FailureThreshold = 1
  RecoveryTimeout = 1
  HalfOpenMaxCalls = 2
  CacheTTL = 2
  RequestTimeout = 1
PROPERTIES HitIsRecent OpenProbed
