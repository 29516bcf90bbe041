SPECIFICATION Spec
CONSTANTS
  None = None
  Adders = {a1}
  Readers = {c1}
  Revokers = {r1}
  Faults = {}
INVARIANT ReadIsWhole
CHECK_DEADLOCK FALSE
