SPECIFICATION CallsSpec
CONSTANTS
  None = None
  Adders = {a1, a2}
  Readers = {c1}
  Revokers = {r1}
  Faults = {"signal", "crash"}
INVARIANT OneServer
INVARIANT RevokedIsUnreachable
PROPERTY DroppedForCause
PROPERTY StoreSpec
CHECK_DEADLOCK FALSE
SYMMETRY AddersAlike
