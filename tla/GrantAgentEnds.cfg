SPECIFICATION FewSpec
CONSTANTS
  None = None
  Adders = {a1, a2}
  Readers = {c1}
  Revokers = {r1}
  Faults = {"signal", "crash", "start", "slow"}
PROPERTY CallsEnd
PROPERTY NoAgentLingers
CHECK_DEADLOCK FALSE
