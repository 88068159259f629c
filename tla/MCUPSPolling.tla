---------------------------- MODULE MCUPSPolling ----------------------------
\* Policies of every kind: charge with a debounce, runtime without, low battery,
\* silence, and a policy without conditions; readings at and around the limits.
EXTENDS UPSPolling

NoCondition == [chargeBelow |-> 0, runtimeBelow |-> 0, low |-> FALSE, unreachableFor |-> 0]

MCWhen ==
  [shed    |-> [NoCondition EXCEPT !.chargeBelow = 30],
   all     |-> [NoCondition EXCEPT !.runtimeBelow = 5, !.chargeBelow = 30],
   lb      |-> [NoCondition EXCEPT !.low = TRUE],
   silent  |-> [NoCondition EXCEPT !.unreachableFor = 2],
   battery |-> NoCondition]

MCDuration == [shed |-> 1, all |-> 0, lb |-> 1, silent |-> 0, battery |-> 2]
MCPolicy   == DOMAIN MCWhen

OnBattery(c, m, lb) == [onBattery |-> TRUE, charge |-> c, runtime |-> m, low |-> lb]

MCReadings ==
  {[onBattery |-> FALSE, charge |-> 20, runtime |-> 2, low |-> FALSE],
   OnBattery(60, 5, FALSE), OnBattery(30, Absent, FALSE), OnBattery(30, 4, FALSE),
   OnBattery(Absent, Absent, TRUE)}
=============================================================================
