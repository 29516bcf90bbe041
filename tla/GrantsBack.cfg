SPECIFICATION Spec
CONSTANTS
  None = None
  Approvers = {a1}
  Terminals = {}
  Execs = {}
  Sandboxed = {s1}
  Revokers = {r1}
  HasKernel = TRUE
  Faults = {}
  MaxWrites = 3
INVARIANT ChangesAreSeen
CHECK_DEADLOCK FALSE
