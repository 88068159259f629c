SPECIFICATION FairSpec
CONSTANTS
  Conns = {c1, c2}
  Requests = {r1}
  MinRetry = 1
  MaxRetry = 3
INVARIANT HandlersAreDrained
PROPERTY RunEnds
CHECK_DEADLOCK FALSE
