SPECIFICATION Spec
CONSTANTS
  Buffers = {b1, b2}
  c1 = c1
  c2 = c2
  Configs = {c1, c2}
  Scenes = {sceneOff, sceneHdr}
  Omit <- OmitTwo
  Cameras <- PlainDmaStart
INVARIANT
  BuffersFit
CHECK_DEADLOCK FALSE
