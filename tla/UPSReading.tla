----------------------------- MODULE UPSReading -----------------------------
(***************************************************************************)
(* What a poll of the UPS returns (UPSStatus): UPSReader makes it from the *)
(* answer of a server or an agent, UPSPolling decides by it.               *)
(***************************************************************************)
EXTENDS Integers

CONSTANT Absent   \* a value the UPS does not report

Value   == Nat \cup {Absent}
Reading == [onBattery : BOOLEAN, charge : Value, runtime : Value, low : BOOLEAN]
=============================================================================
