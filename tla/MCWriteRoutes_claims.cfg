SPECIFICATION Spec
CONSTANTS
  Address = {server, w1, w2, zero}
  ZeroAddress = zero
  SurveyIds = {1}
  PointInputs = {1}
  CentiInputs = {100}
  ClaimLimits = {0, 1}
  Server = server
  Wallets = {w1, w2}
  Links = {l1, l2}
  SurveyOf <- SurveyOne
  Requests = {r1, r2, r3}
  Kinds = {"claim", "award", "revoke"}
  MaxKeys = 1
SYMMETRY Permuted
CHECK_DEADLOCK FALSE
INVARIANTS
  OneTxPerLink
  SentLinkIsSpent
  AnswerIsTrue
  CreditedOnce
PROPERTIES
  LedgerSpec
