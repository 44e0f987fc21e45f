SPECIFICATION FairSpec
CONSTANTS
  MaxQueue = 2
INVARIANTS
  BothStreamsEnd
  CloseMeansClosed
  UncaughtOnlyAfterCancel
PROPERTY
  CallsSettle
CHECK_DEADLOCK FALSE
