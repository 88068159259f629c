SPECIFICATION Spec
CONSTANTS
  Conns = {c1}
  Requests = {r1}
  MinRetry = 1
  MaxRetry = 3
INVARIANT AllWritesAreFlushed
CHECK_DEADLOCK FALSE
