SPECIFICATION Spec
CONSTANTS
  Absent = Absent
  Failed = Failed
  Policy <- MCPolicy
  When <- MCWhen
  Duration <- MCDuration
  Readings <- MCReadings
  UsesNUT = TRUE
  EmergencyRuntime = 5
  UnreachableAfter = 2
  MaxTime = 3
  MaxPolls = 4
  MaxRestarts = 1
INVARIANTS DuePoliciesFired
PROPERTIES FiresOnlyWhenDue EmergencyIsReal
CHECK_DEADLOCK FALSE
