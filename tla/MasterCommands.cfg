SPECIFICATION Spec
CONSTANTS
  n1 = n1
  n2 = n2
  Node <- MCNode
  Tag <- MCTag
  TagsOf <- MCTagsOf
  CmdId = {c1}
  NoCmd = NoCmd
  Policy = {"dev", "all"}
  PolicyTarget <- MCPolicyTarget
  UnreachablePolicy = {}
  ManualTarget <- MCManualTarget
  ManualDryRun = {FALSE}
  DryRun = FALSE
  LocalEnabled = FALSE
  Handler = {h1}
  UPSResult = {"line", "battery"}
  AckStatus = {"executed", "failed"}
  MaxRetained = 1
  MaxRestarts = 0
SYMMETRY Symmetry
INVARIANTS
  NoNodeLeftOut
PROPERTIES
  CommandsOnlyWiden
