SPECIFICATION PollSpec
CONSTANTS
  Absent = Absent
  NotANumber = NotANumber
  StatusFlags <- MCStatusFlags
  Numbers <- MCNumbers
  SNMPValues <- MCSNMPValues
  OnBatteryValues = {2, 120}
  MaxNumber = 400
  MaxNUTVars = 3
  MaxLines = 5
INVARIANTS ReadingIsTold ThresholdsFireInTime
PROPERTY EveryPollEnds
CHECK_DEADLOCK FALSE
