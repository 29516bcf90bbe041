SPECIFICATION FairSpec
CONSTANTS
  None = None
  Phones = {f1, f2}
  f1 = f1
  f2 = f2
  Listed <- OneRemoved
  NumRequests = 2
  MaxActs = 3
INVARIANT NothingSkipped
INVARIANT SomeoneHears
PROPERTY PageEnds
CHECK_DEADLOCK FALSE
