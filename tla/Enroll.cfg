SPECIFICATION FairSpec
CONSTANTS
  None = None
  Pages = {p1}
  Apps = {a1}
  UnlockAttempts = 2
  MaxTries = 3
  MaxFaults = 1
INVARIANT DoneIsEnrolled
INVARIANT FailureIsTrue
PROPERTY AllEnd
CHECK_DEADLOCK FALSE
