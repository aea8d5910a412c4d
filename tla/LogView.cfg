SPECIFICATION ViewSpec
CONSTANTS
  Threads = {t1, t2}
  Sizes = {1}
  RecordCap = 3
  StringCap = 10
  Width = 16
  MaxCommands = 4
  MaxPending = 2
  MaxToggles = 1
  Found = {t1}
  MaxChanges = 3
INVARIANTS
  RowsInOrder
  GapToPrevious
  DepthAgrees
  ScopesAlign
  ViewTypeOK
  FilterMapsInverse
  FindMapsInverse
  ViewShowsAccepted
  FindListsMatches
CHECK_DEADLOCK FALSE
