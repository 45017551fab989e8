SPECIFICATION FairSpec
CONSTANTS
  Procs = {p}
  Calls = {c1, c2}
  Unread = Unread
  Rejected = Rejected
  MaxNonce = 3
CHECK_DEADLOCK FALSE
PROPERTY
  SentIsMined
