SPECIFICATION SumSpec
CONSTANTS
  a = a
  b = b
  known = known
  drawn = drawn
  link = link
  Server = Server
  Nothing = Nothing
  NoProc = NoProc
  Unread = Unread
  Rejected = Rejected
  Links = {l1, l2}
  Calls = {c1, c2, c3}
  Wallets = {m, a}
  Minter = m
  Requests = {r1, r2}
  Signatures = {s1}
  RoleCache = 2
  MaxAge = 1
  Skew = 1
  Margin = 2
  Ttl = 1
  SessionTime = 4
  MaxSessions = 1
  LookupTime = 1
  MaxTime = 4
SYMMETRY Permuted
CHECK_DEADLOCK FALSE
INVARIANTS
  TypesOK
  SignedOnce
  HandedOnce
  CacheCoherent
  CachedIsRecent
  
  ScreensAreTrue
  LateAnswersCountForNothing
PROPERTIES
  LetInRecently
  RegisterSpec
  KeysAreKept
  
