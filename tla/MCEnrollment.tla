--------------------------- MODULE MCEnrollment ---------------------------
EXTENDS Enrollment

\* A fault comes with open enrollment and no deletion, begun or done: the
\* invariants are proved for all combinations, and the rest is what TLC visits
\* for NodeComesBack.
Bound == faults' = 0 \/ (enrollmentOpen /\ deleted' = {} /\ admin'.pc # "remove")
=============================================================================
