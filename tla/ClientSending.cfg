SPECIFICATION Spec
CONSTANTS
  Threads = {t1, t2}
  IO = io
  Bits = 2
  Levels = {l1}
  Pieces = 2
  MaxCalls = 2
  MaxDrops = 1
  MaxConfigs = 1
INVARIANTS
  VerdictFair
  WireWhole
SYMMETRY MCSymmetry
CHECK_DEADLOCK FALSE
