SPECIFICATION MCSpec
CONSTANTS
  MaxPercent = 100
  MaxTimeout = 60
  MinPassphrase = 8
  Accounts = {"op"}
  Commands = {"shutdown"}
  MaxWords = 1
  FewWords = 1
INVARIANT DisabledStandsAlone
CHECK_DEADLOCK FALSE
