SPECIFICATION Spec
CONSTANTS
  Calls = {c1, c2}
  FailureThreshold = 3
  RecoveryTimeout = 1
  HalfOpenMaxCalls = 2
  Services = {"agent-registry", "m-operator"}
  AgentRegistry = "agent-registry"
  Reliable = {"m-operator"}
  CacheTTL = 2
INVARIANT ReliableNeverMarked
PROPERTIES MarkLapses Recovers
