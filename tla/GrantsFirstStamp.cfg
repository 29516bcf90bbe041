SPECIFICATION Spec
CONSTANTS
  None = None
  Approvers = {}
  Terminals = {t1}
  Execs = {e1}
  Sandboxed = {}
  Revokers = {}
  HasKernel = TRUE
  Faults = {}
  MaxWrites = 2
INVARIANT ChangesAreSeen
CHECK_DEADLOCK FALSE
