SPECIFICATION Spec
CONSTANTS
  Procs = {p1, p2}
  NoProc = NoProc
  Links = {l1, l2}
  MaxWrites = 3
SYMMETRY Interchangeable
CHECK_DEADLOCK FALSE
INVARIANTS
  RefusedOnlyIfConsumed
