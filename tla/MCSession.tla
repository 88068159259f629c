----------------------------- MODULE MCSession -----------------------------
EXTENDS Session

\* A negative interval, one that is doubled, and one whose double overflows.
MCIntervals == {-1, 1, 10}

\* Reports and two faults come with one interval, and not both.
Bound ==
  /\ faults' = 2 => interval = 1 /\ reports' = 0
  /\ reports' = 1 => interval = 1
=============================================================================
