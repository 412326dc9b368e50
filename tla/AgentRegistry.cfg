SPECIFICATION Spec
CONSTANTS
  Agents = {a1, a2}
  Calls = {c1, c2}
  MaxFaults = 1
INVARIANTS DictFollowsRows DeletionTold PagesInvalidated
PROPERTY CallsEnd
