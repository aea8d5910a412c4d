SPECIFICATION Spec
CONSTANTS
  Names <- MCNames
  Lines <- MCLines
  Tids = {t1, t2}
  MaxRows = 2
  MaxChanges = 1
INVARIANTS
  SelectionExcluded
CHECK_DEADLOCK FALSE
