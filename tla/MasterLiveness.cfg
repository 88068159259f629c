SPECIFICATION FairSpec
ACTION_CONSTRAINT LivenessBound
CONSTANTS
  n1 = n1
  n2 = n2
  Node <- MCOneNode
  Tag <- MCTag
  TagsOf <- MCTagsOf
  CmdId = {c1}
  NoCmd = NoCmd
  Policy = {"all", "silent"}
  PolicyTarget <- MCPolicyTarget
  UnreachablePolicy = {"silent"}
  ManualTarget <- MCManualAll
  ManualDryRun = {TRUE}
  DryRun = FALSE
  LocalEnabled = TRUE
  Handler = {h1}
  UPSResult = {"line", "critical", "error"}
  AckStatus = {"executed"}
  MaxRetained = 1
  MaxRestarts = 1
PROPERTIES
  EmergencyIsCarriedOut
  WaitingEnds
  NodeIsReached
