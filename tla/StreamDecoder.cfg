SPECIFICATION FairSpec
CONSTANTS
  Hdr = 2
  BatchMax = 2
  Grow = 4
  Estimate = 2
  Lens = {0, 1, 2}
  MaxFrames = 4
  MaxBad = 1
INVARIANTS
  TypeOK
  Framing
  HandledOnceInOrder
  PendingOnlyMidFrame
  BacklogOnlyAfterBreak
  QueueMemoryLive
PROPERTIES
  FeedSpec
  TakenIsCommitted
CHECK_DEADLOCK FALSE
