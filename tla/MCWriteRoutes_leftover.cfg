SPECIFICATION Spec
CONSTANTS
  Address = {server, w1, w2, zero}
  ZeroAddress = zero
  SurveyIds = {1}
  PointInputs = {1}
  CentiInputs = {50, 100}
  ClaimLimits = {0}
  Server = server
  Wallets = {w1}
  Links = {l1}
  SurveyOf <- SurveyOne
  Requests = {r1, r2}
  Kinds = {"register", "rotate"}
  MaxKeys = 2
CHECK_DEADLOCK FALSE
INVARIANTS
  LeftoverKeyCanBeRotated
