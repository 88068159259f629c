SPECIFICATION OutageSpec
CONSTANTS
  n1 = n1
  n2 = n2
  Node <- MCOneNode
  Tag <- MCTag
  TagsOf <- MCTagsOf
  CmdId = {c1, c2}
  NoCmd = NoCmd
  Policy = {"all", "silent"}
  PolicyTarget <- MCPolicyTarget
  UnreachablePolicy = {"silent"}
  ManualTarget <- MCManualTarget
  ManualDryRun = {TRUE, FALSE}
  DryRun = FALSE
  LocalEnabled = TRUE
  Handler = {h1}
  UPSResult = {"line", "critical", "error"}
  AckStatus = {"executed"}
  MaxRetained = 1
  MaxRestarts = 1
SYMMETRY Symmetry
INVARIANTS
  EpisodeCommandIsLive
  LocalFollowsCommand
  OneExecution
  PowerOffIsRemembered
  ConfirmedBeforeAction
PROPERTIES
  RemoteCompleteIsReported
  ReadingBeforeFallback
