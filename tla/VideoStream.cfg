SPECIFICATION FairSpec
CONSTANTS
  Buffers = {b1, b2}
  c1 = c1
  c2 = c2
  Configs = {c1, c2}
  Scenes = {sceneOff, sceneHdr}
  Omit <- OmitTwo
  Cameras <- AllKinds
INVARIANTS
  TypeOK
  BuffersAccounted
  BuffersFit
PROPERTIES
  PoolSpec
  AcquireReturns
CHECK_DEADLOCK FALSE
