SPECIFICATION Spec
CONSTANTS
  Tasks = {t1, t2}
  Workers = {w1, w2}
  Registrars = {r1}
  MaxRetries = 3
  FailFirst = 2
  MaxFaults = 1
INVARIANTS OneOwner NotifiedWasCommitted
PROPERTIES EveryTaskProcessed TasksComplete
