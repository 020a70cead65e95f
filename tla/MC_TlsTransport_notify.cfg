SPECIFICATION FairSpec
CONSTANTS
  MaxSockets = 3
  MaxData = 2
INVARIANT TypeOK
INVARIANT WatchesOwnSocket
PROPERTY ThreadGoneFirst
PROPERTY StopReturns
CHECK_DEADLOCK FALSE
