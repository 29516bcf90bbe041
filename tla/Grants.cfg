SPECIFICATION BoundedSpec
CONSTANTS
  None = None
  Approvers = {a1, a2}
  Terminals = {}
  Execs = {e1}
  Sandboxed = {s1}
  Revokers = {r1}
  HasKernel = TRUE
  Faults = {"quota", "agent"}
  MaxWrites = 2
INVARIANT SameStoreNeverOld
INVARIANT AgentNeverOld
INVARIANT RevokedIsGone
INVARIANT UndoneIsGone
CHECK_DEADLOCK FALSE
SYMMETRY ApproversAlike
