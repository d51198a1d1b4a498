SPECIFICATION Spec
CONSTANTS
  NumBuffers = 2
  DefaultBuffers = 2
  Word = 6
INVARIANT LateReturnIgnored
CHECK_DEADLOCK FALSE
