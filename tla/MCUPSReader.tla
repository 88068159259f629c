---------------------------- MODULE MCUPSReader -----------------------------
\* Numbers around the limits: negative, zero, a fraction, just below and at two
\* minutes, out of range; the same for SNMP, where 12000 ticks are two minutes.
EXTENDS UPSReader

MCStatusFlags == {{}, {"OL"}, {"OB", "LB"}, {"OL", "CHRG"}}
MCNumbers     == {-1, 5, 1199, 1200, 4001}
MCSNMPValues  == {-1, 0, 2, 120, 11999}
=============================================================================
