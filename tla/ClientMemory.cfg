SPECIFICATION Spec
CONSTANTS
  Threads = {t1, t2}
  Hdr = 2
  Align = 4
  Lines = 4
  Lens = {0, 1, 3}
  NoThread = NoThread
INVARIANTS
  TypeOK
  InMemory
  Intact
  Chained
  RefusedOnlyWhenFull
CHECK_DEADLOCK FALSE
