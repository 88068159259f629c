SPECIFICATION Spec
CONSTANTS
  Cmd = {c1, c2}
  NoCmd = NoCmd
  DryCmd = {c2}
  Goroutine = {g1, g2}
  MaxRetained = 1
  MaxRestarts = 2
INVARIANTS
  OneRunPerCommand
  ReportedIsTrue
  SettledIsNotRepeated
