SPECIFICATION Spec
CONSTANTS
  Filtered = {f}
  Plain = {p}
  Plots = {q}
  Groups = {0, 1}
  MaxRows = 2
  MaxTime = 3
  MaxClicks = 2
  Width = 16
INVARIANTS
  TypeOK
  SelectionKept
  CurrentFollows
  SelectionNearest
  MarkerNext
CHECK_DEADLOCK FALSE
