SPECIFICATION Spec
CONSTANTS
  n1 = n1
  Node <- MCNode
  Tag = {}
  TagsOf <- MCTagsOf
  CmdId = {c1}
  NoCmd = NoCmd
  SlaveDry = {}
  SlaveGoroutine = {g1}
  SlaveRetained = 1
  SlaveRestarts = 1
  MasterRestarts = 0
  MaxInFlight = 1
VIEW MCView
PROPERTY ExecutedIsNotReplayed
