SPECIFICATION FairSumSpec
CONSTANTS
  r1 = r1
  r2 = r2
  p1 = p1
  p2 = p2
  d = d
  o = o
  m = m
  a = a
  NoRun = NoRun
  NoFile = NoFile
  Torn = Torn
  Runs <- MCRuns
  EventBlocks <- MCEventBlocks
  MaxHead = 3
  MaxSpan = 2
  MaxRestarts = 1
INVARIANTS
  TypesOK
  FreshIsCaughtUp
  LockWillBeReleased
  LockIsExclusive
  
PROPERTIES
  OnlyHolderReleases
  CacheSpec
  StoreCatchesUp
  LockComesFree
  
