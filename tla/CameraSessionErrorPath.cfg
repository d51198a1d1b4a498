CONSTANTS
  Streams = {s0}
  Main = s0
  NumBuffers = 2
  Outputs = {{s0}}
  HasPhysical = FALSE
  Faults = {"null"}
  MaxFrame = 2
  MaxBatch = 2
  MaxPipeline = 2
SPECIFICATION FairSpec
INVARIANT ErrorPathPipelineLive
CHECK_DEADLOCK FALSE
