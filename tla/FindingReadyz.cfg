SPECIFICATION FairSpec
CONSTANTS
  Conns = {c1}
  Requests = {r1}
  MinRetry = 1
  MaxRetry = 3
PROPERTY ReadyMeansAccepting
CHECK_DEADLOCK FALSE
