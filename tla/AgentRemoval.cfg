SPECIFICATION Spec
CONSTANTS
  Agents = {a1, a2}
  Kinds <- MCKinds
  Operators = {o1}
  MaxRequests = 1
  MaxBatch = 2
  MaxOthers = 1
  RoutedKeys = {"agent.deleted", "agent.state"}
  Prefetch = 1
  MaxFaults = 1
INVARIANTS EventsTrue DeletionsTold
PROPERTIES BatchesEnd MessagesHandled
CHECK_DEADLOCK FALSE
