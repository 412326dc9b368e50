SPECIFICATION Spec
CONSTANTS
  Names = {e1, e2}
  Flags = {"f1"}
  Configs <- MCConfigs
  Calls = {c1, c2}
  Readings <- MCReadings
  Users <- MCUsers
  BaseFlags <- MCBaseFlags
SYMMETRY Symmetry
INVARIANTS FlagFollowsStatus EndedHasConclusion
PROPERTY SuccessIsMeasured
CHECK_DEADLOCK FALSE
