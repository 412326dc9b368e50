SPECIFICATION Spec
CONSTANTS
  Ids = {s1, s2}
  Criteria <- MCCriteria
  Kinds <- MCKinds
  MaxAttempts = 2
  Limit = 1
  MaxEvents = 2
  MaxFaults = 2
INVARIANTS LeaversHearNoMore
PROPERTIES ToldInOrder ListenerKeepsUp
CHECK_DEADLOCK FALSE
