-------------------------- MODULE MCMasterScenarios --------------------------
(***************************************************************************)
(* An instance of Master in which several commands and faults meet.  Every *)
(* fault in every behaviour is more than TLC can visit, so the environment *)
(* follows one of three scenarios, the first if no restart is to come.  A  *)
(* scenario bounds what operators, nodes, the UPS (and with it the         *)
(* policies that fall due) and crashes do, and how many commands there     *)
(* are, but no decision of the master.                                     *)
(***************************************************************************)
EXTENDS MCMaster

VARIABLE scenario

NoFault == restarts = MaxRestarts /\ ups # "error"

\* A request for some of the nodes comes before any other command.
ScopedIsFirst == request'.pc # "idle" => request'.target.all \/ issued = {}

\* As long as a crash is to come there is one outage: once line power is back, a crash
\* may still find the outage in the file, and a node leaves with the crash only.
OutageBeforeCrash ==
  /\ WillRestart' /\ ups = "line" => ups' = "line"
  /\ NodesStay \/ Restart

\* A request comes after the restart, and neither a node nor a command before it.
RequestAfterRestart ==
  /\ WillRestart => NoOperator /\ issued' = {} /\ connected' = {}
  /\ NodesStay
  /\ Cardinality(issued') <= 1
  /\ request'.pc # "idle" => ~request'.dry /\ request'.target.all

\* Drills and outages with several commands, and a node that stays once it has
\* come; or one command, polls that fail, and a crash; or a power-off, a
\* restart, and a real manual command while the UPS is silent.
OutageNext ==
  /\ Next /\ UNCHANGED scenario
  /\ \/ /\ scenario = "commands" /\ NoFault' /\ NodesStay /\ ScopedIsFirst
        /\ request'.pc # "idle" => request'.dry
     \/ /\ scenario = "crash" /\ NoOperator /\ OutageBeforeCrash /\ Cardinality(issued') <= 1
        /\ "all" \notin poll'.due
     \/ /\ scenario = "manual" /\ RequestAfterRestart /\ OutageBeforeCrash
        /\ "all" \notin poll'.due

OutageSpec ==
  /\ Init
  /\ IF restarts = MaxRestarts THEN scenario = "commands" ELSE scenario \in {"crash", "manual"}
  /\ [][OutageNext]_<<vars, scenario>>
=============================================================================
