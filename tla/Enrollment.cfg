CONSTANTS
  Token = {t1, t2}
  NoToken = NoToken
  EnrollToken = EnrollToken
  Conn = {k1, k2}
  NoConn = NoConn
  MaxFaults = 1
SPECIFICATION FairSpec
ACTION_CONSTRAINT Bound
INVARIANTS
  RegisteredIsCurrent
  RevokedIsGone
  BoundWasStored
PROPERTIES
  NodeComesBack
