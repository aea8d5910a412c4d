SPECIFICATION Spec
CONSTANTS
  Conns = {c1, c2}
  Programs = {p1, p2}
  TheApp = a
  Apps <- MCApps
  App <- MCApp
  Level <- MCLevel
  Mixers = {m1, m2}
  GlobalMixer = m1
  None = None
  MaxConnects = 2
  MaxActs = 2
  MaxFrames = 1
INVARIANTS
  DeletesOldInstances
CHECK_DEADLOCK FALSE
