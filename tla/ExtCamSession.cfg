SPECIFICATION Spec
CONSTANTS
  Bufs = {b1, b2}
  MaxFrame = 3
  MaxCalls = 3
INVARIANTS
  FramesOwned
  AnswersInOrder
PROPERTIES
  CallsReturn
  RequestsSettled
CHECK_DEADLOCK FALSE
