SPECIFICATION Spec
CONSTANTS
  Hdr = 2
  BatchMax = 2
  Grow = 4
  Estimate = 2
  Lens = {0, 1}
  MaxFrames = 3
  MaxBad = 0
PROPERTIES
  NeedMoreMeansIncomplete
CHECK_DEADLOCK FALSE
