SPECIFICATION Spec
CONSTANTS
  n1 = n1
  n2 = n2
  Node <- MCOneNode
  Tag <- MCTag
  TagsOf <- MCTagsOf
  CmdId = {c1}
  NoCmd = NoCmd
  Policy = {"all"}
  PolicyTarget <- MCPolicyTarget
  UnreachablePolicy = {}
  ManualTarget <- MCManualNone
  ManualDryRun = {FALSE}
  DryRun = FALSE
  LocalEnabled = FALSE
  Handler = {h1}
  UPSResult = {"line", "battery"}
  AckStatus = {"accepted", "failed"}
  MaxRetained = 2
  MaxRestarts = 0
INVARIANTS
  CompletedMeansComplete
