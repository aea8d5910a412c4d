SPECIFICATION Spec
CONSTANTS
  Names <- MCNames
  Lines <- MCLines
  Tids = {t1, t2}
  MaxRows = 2
  MaxChanges = 4
INVARIANTS
  TypeOK
  TreeTells
  ViewMatchesFilters
SYMMETRY MCSymmetry
CHECK_DEADLOCK FALSE
