CONSTANTS
  Streams = {s0}
  Main = s0
  NumBuffers = 2
  Outputs = {{s0}}
  HasPhysical = FALSE
  Faults = {"null", "stale"}
  MaxFrame = 2
  MaxBatch = 2
  MaxPipeline = 2
SPECIFICATION FairSpec
PROPERTIES
  DestroyReturns
  RequestsAnswered
CHECK_DEADLOCK FALSE
