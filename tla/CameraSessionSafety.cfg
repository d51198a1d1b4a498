CONSTANTS
  Streams = {s0, s1}
  Main = s0
  NumBuffers = 2
  Outputs = {{s0}, {s0, s1}}
  HasPhysical = TRUE
  Faults = {"start", "null", "stale"}
  MaxFrame = 2
  MaxBatch = 2
  MaxPipeline = 2
SPECIFICATION Spec
INVARIANTS
  TypeOK
  DestroyFindsIdle
  DrainedBuffersUnused
  BuffersBounded
  PipelineInfoLive
  VectorAlive
  NothingLeaks
PROPERTIES
  ContractSpec
CHECK_DEADLOCK FALSE
