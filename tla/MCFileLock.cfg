SPECIFICATION Spec
CONSTANTS
  p1 = p1
  p2 = p2
  p3 = p3
  NoFile = NoFile
  Processes <- ThreeProcesses
  Files <- EightFiles
  CrashAt <- AlmostAnywhere
  MaxCrashes = 1
INVARIANT
  MutualExclusion
