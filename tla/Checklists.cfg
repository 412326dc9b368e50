SPECIFICATION Spec
CONSTANTS
  r1 = r1
  r2 = r2
  Requests = {r1, r2}
  Orders = {0, 1, 2}
  MaxCreated = 2
  Statuses = {"DRAFT", "ARCHIVED"}
  ItemStatuses = {"COMPLETE", "REJECTED"}
SYMMETRY Interchangeable
INVARIANT AnsweredIsRecorded
PROPERTY AppendsComeLast
PROPERTY CriteriaChangeByName
CHECK_DEADLOCK FALSE
