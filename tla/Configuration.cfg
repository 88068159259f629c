SPECIFICATION MCSpec
CONSTANTS
  MaxPercent = 100
  MaxTimeout = 60
  MinPassphrase = 8
  Accounts = {"op"}
  Commands = {"shutdown"}
  MaxWords = 5
  FewWords = 3
INVARIANTS
  AcceptedConfigWorks
  NothingSilentlyUnprotected
  ReadyIfItRuns
CHECK_DEADLOCK FALSE
