SPECIFICATION Spec
CONSTANTS
  None = None
  OwnKey = k1
  k2 = k2
  Keys = {k1, k2}
  v1 = v1
  d1 = d1
  f1 = f1
  NoDesc = nodesc
  Descs = {nodesc, d1}
  Desktop = desktop
  Backups <- TwoBackups
  Procs = {p}
  Commands <- AllCommands
  Names = {n1}
  Values = {v1, v2}
  Phones = {f1, f2}
  MaxCommands = 4
  MaxFaults = 4
INVARIANT KeysMatch
INVARIANT NeverMixed
INVARIANT SecretKept
INVARIANT FailedRestoreUndone
INVARIANT UnlocksAsTold
INVARIANT DescriptionKept
CHECK_DEADLOCK FALSE
