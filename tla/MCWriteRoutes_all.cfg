SPECIFICATION FairSpec
CONSTANTS
  Address = {server, w1, w2, zero}
  ZeroAddress = zero
  SurveyIds = {1}
  PointInputs = {1}
  CentiInputs = {50, 100}
  ClaimLimits = {0}
  Server = server
  Wallets = {w1}
  Links = {l1, l2}
  SurveyOf <- SurveyOne
  Requests = {r1, r2}
  Kinds = {"claim", "award", "revoke", "deactivate", "reactivate", "register", "rotate"}
  MaxKeys = 3
CHECK_DEADLOCK FALSE
INVARIANTS
  TypeOK
  AnsweredRegistrationHasKey
  SentLinkWasLaunched

  
