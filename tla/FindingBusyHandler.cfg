SPECIFICATION Spec
CONSTANTS
  Conns = {c1, c2, c3}
  None = None
  Intervals = {1}
  MaxReconnect = 8
  Width = 5
  DialTimeout = 2
  AckDeadline = 3
  Handshake = 2
  PingInterval = 2
  IdleDeadline = 6
  OfflineAfter = 6
  Delay = 1
  MaxBusy = 7
  MaxFaults = 2
  MaxReports = 1
  MaxFailures = 5
INVARIANT MissingReadsMeanDeadLink
