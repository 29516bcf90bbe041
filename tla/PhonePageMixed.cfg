SPECIFICATION Spec
CONSTANTS
  None = None
  Phones = {f1, f2}
  f1 = f1
  f2 = f2
  Listed <- OneRemoved
  NumRequests = 2
  MaxActs = 3
INVARIANT DecidedAsShown
CHECK_DEADLOCK FALSE
