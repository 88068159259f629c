CONSTANTS
  Token = {t1, t2}
  NoToken = NoToken
  EnrollToken = EnrollToken
  Conn = {k1, k2}
  NoConn = NoConn
  MaxFaults = 1
SPECIFICATION Spec
INVARIANTS
  BoundIsHeld
