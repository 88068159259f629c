--------------------------- MODULE DurableRegister ---------------------------
(***************************************************************************)
(* What the state file promises the rest of the program: a register whose  *)
(* versions are numbered by the changes made to it.  A restart falls back  *)
(* to some version, never to one older than the last acknowledged one and  *)
(* never to one that was not there.                                        *)
(***************************************************************************)
EXTENDS Naturals

VARIABLES
  latest,   \* the version in memory
  acked     \* the newest version that is known to survive a restart

Init == latest = 0 /\ acked = 0

Change == latest' = latest + 1 /\ acked' = acked

Acknowledge == latest' = latest /\ acked' \in acked..latest

Restart == \E v \in acked..latest : latest' = v /\ acked' = v

Next == Change \/ Acknowledge \/ Restart

Spec == Init /\ [][Next]_<<latest, acked>>
==============================================================================
