SPECIFICATION SteppedSpec
CONSTANTS
  Absent = Absent
  Failed = Failed
  Policy <- MCPolicy
  When <- MCWhen
  Duration <- MCDuration
  Readings <- MCReadings
  UsesNUT = TRUE
  EmergencyRuntime = 5
  UnreachableAfter = 2
  MaxTime = 2
  MaxPolls = 2
  MaxRestarts = 0
INVARIANT FailedPollIsSilence
CHECK_DEADLOCK FALSE
