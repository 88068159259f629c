SPECIFICATION Spec
CONSTANTS
  n1 = n1
  n2 = n2
  Node <- MCOneNode
  Tag <- MCTag
  TagsOf <- MCTagsOf
  CmdId = {c1}
  NoCmd = NoCmd
  Policy = {"all"}
  PolicyTarget <- MCPolicyTarget
  UnreachablePolicy = {}
  ManualTarget <- MCManualAll
  ManualDryRun = {FALSE}
  DryRun = FALSE
  LocalEnabled = TRUE
  Handler = {h1}
  UPSResult = {"line", "error"}
  AckStatus = {"executed"}
  MaxRetained = 2
  MaxRestarts = 0
PROPERTIES
  EmergencyOnlyInEpisode
