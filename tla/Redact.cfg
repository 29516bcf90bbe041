SPECIFICATION Spec
CONSTANTS
  Bytes = {"a", "b"}
  MaxValue = 4
  SecretSets <- Pairs
  MinLen = 2
  MaxStream = 5
INVARIANT OutputIsRedaction
PROPERTY FlushIsLoop
CHECK_DEADLOCK FALSE
