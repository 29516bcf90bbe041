SPECIFICATION FairSpec
CONSTANTS
  None = None
  r1 = r1
  n1 = n1
  n2 = n2
  Requesters = {r1, r2}
  InUnits = {r1}
  Names = {n1, n2}
  TTLs = {1, 3}
  Wants <- OneAndBoth
  Timeout = 1
  Grace = 1
  MaxClock = 2
  MaxEvents = 1
INVARIANT OneWindow
INVARIANT OkIsTrue
INVARIANT NoAnswerIsTrue
INVARIANT HeardIsLogged
PROPERTY NotAskedAgain
PROPERTY EveryoneEnds
CHECK_DEADLOCK FALSE
