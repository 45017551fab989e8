SPECIFICATION EitherSpec
CONSTANTS
  Address = {a, b, z}
  ZeroAddress = z
  SurveyIds = {0, 1, 2}
  PointInputs <- BoundaryPoints
  CentiInputs <- BoundaryCenti
  ClaimLimits = {0, 1}
CHECK_DEADLOCK FALSE
INVARIANTS
  TypeOK
  ClaimCountExact
  CapRespected
  OneRepresentation
  AwardsMatchClaims
  TotalsAndViews
  AdminCountExact
PROPERTIES
  ValueIsFixed
  AdminFunctionsKeepOne
