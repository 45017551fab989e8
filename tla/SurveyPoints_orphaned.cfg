SPECIFICATION Spec
CONSTANTS
  Address = {a, b, z}
  ZeroAddress = z
  SurveyIds = {1}
  PointInputs = {1}
  CentiInputs = {50}
  ClaimLimits = {1}
CHECK_DEADLOCK FALSE
INVARIANTS
  NeverOrphaned
