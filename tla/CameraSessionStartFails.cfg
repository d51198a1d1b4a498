CONSTANTS
  Streams = {s0}
  Main = s0
  NumBuffers = 2
  Outputs = {{s0}}
  HasPhysical = FALSE
  Faults = {"start"}
  MaxFrame = 2
  MaxBatch = 2
  MaxPipeline = 2
SPECIFICATION FairSpec
PROPERTY DestroyReturns
CHECK_DEADLOCK FALSE
