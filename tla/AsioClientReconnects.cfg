SPECIFICATION FairSpec
CONSTANTS
  Threads = {t1}
  MaxWrites = 1
  MaxDowns = 1
  MaxExpiries = 1
PROPERTIES
  Reconnects
CHECK_DEADLOCK FALSE
