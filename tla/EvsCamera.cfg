SPECIFICATION FairSpec
CONSTANTS
  NumBuffers = 2
  DefaultBuffers = 1
  Word = 6
INVARIANTS
  TypeOK
  BuffersApart
  CloseFindsStopped
  ThreadWatched
PROPERTIES
  EndIsLast
  StopReturns
  DeathEndsStream
CHECK_DEADLOCK FALSE
