SPECIFICATION FairSpec
CONSTANTS
  Threads = {t1, t2}
  MaxWrites = 2
  MaxDowns = 1
  MaxExpiries = 1
INVARIANTS
  TypeOK
  EffortsCounted
  BeliefMatchesSocket
PROPERTIES
  ReconnectsAlone
CHECK_DEADLOCK FALSE
