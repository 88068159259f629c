SPECIFICATION FairSpec
CONSTANTS
  Cmd = {c1}
  NoCmd = NoCmd
  DryCmd = {}
  Goroutine = {g1, g2}
  MaxRetained = 2
  MaxRestarts = 0
PROPERTIES
  DuplicateIsNotRerun
