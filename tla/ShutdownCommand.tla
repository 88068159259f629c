-------------------------- MODULE ShutdownCommand --------------------------
(***************************************************************************)
(* The shutdown command of the master (shutdownCommandState in server.go): *)
(* its target, the nodes it tracks, what each of them reported, and the    *)
(* predicates every other part of the master decides with.  Everything     *)
(* here is a constant-level operator; the state is in module Master.       *)
(*                                                                         *)
(* A command is abstracted to what those decisions read.  CompletedAt is   *)
(* the flag "done"; TimeoutAt is not kept: a command may be found past its *)
(* timeout at any watcher tick (Master!MarkTimedOutCommands).              *)
(*                                                                         *)
(* A definition whose name ends in _Bug is not part of the specification:  *)
(* it is the definition that follows it with a plausible mistake, kept to  *)
(* show that the properties notice it.  Module Master has more of them.    *)
(***************************************************************************)
CONSTANTS
  Node,     \* the node_ids slaves register with
  Tag,      \* the tags a policy or a request may name
  TagsOf    \* TagsOf[n]: the tags node n registers with

ASSUME TagsOfAssumption == TagsOf \in [Node -> SUBSET Tag]

(***************************************************************************)
(* Statuses of a node for a command.  "none" is the absent map entry.      *)
(***************************************************************************)
Status == {"accepted", "executing", "executed", "simulated", "failed", "timeout"}
Update == Status \cup {"none"}

isFinalShutdownStatus_Bug(s) == s \in {"executed", "simulated", "failed", "timeout"}

isCompleteShutdownStatus(s)   == s \in {"executed", "simulated", "failed", "timeout"}
isFinalShutdownStatus(s)      == s \in {"executed", "simulated", "failed"}
isReplayDoneStatus(s)         == s \in {"executed", "simulated"}
isReportableShutdownStatus(s) == s \in Status \ {"timeout"}

(***************************************************************************)
(* Targets.  all, or an explicit list of node_ids and tags.                *)
(***************************************************************************)
Target == [all : BOOLEAN, nodes : SUBSET Node, tags : SUBSET Tag]

AllNodes == [all |-> TRUE, nodes |-> {}, tags |-> {}]

targetMatchesNode(target, n) ==
  \/ target.all
  \/ n \in target.nodes
  \/ TagsOf[n] \cap target.tags # {}

mergeShutdownTargets(a, b) ==
  IF a.all \/ b.all
  THEN AllNodes
  ELSE [all |-> FALSE, nodes |-> a.nodes \cup b.nodes, tags |-> a.tags \cup b.tags]

\* The connected clients a target selects.
selectTargets(clients, target) == {n \in clients : targetMatchesNode(target, n)}

(***************************************************************************)
(* Commands.                                                               *)
(***************************************************************************)
Command ==
  [auto : BOOLEAN, dry : BOOLEAN, target : Target, nodes : SUBSET Node,
   upd : [Node -> Update], done : BOOLEAN, replayDisabled : BOOLEAN]

NewCommand(auto, dry, target, nodes) ==
  [auto |-> auto, dry |-> dry, target |-> target, nodes |-> nodes,
   upd |-> [n \in Node |-> "none"], done |-> FALSE, replayDisabled |-> FALSE]

commandComplete(command) ==
  /\ command.nodes # {}
  /\ \A n \in command.nodes : isCompleteShutdownStatus(command.upd[n])

remoteShutdownFinished(command) ==
  /\ command.nodes # {}
  /\ \A n \in command.nodes : isFinalShutdownStatus(command.upd[n])

commandHasRepairableTimeout(command) ==
  \E n \in command.nodes : command.upd[n] = "timeout"

shouldReplaceShutdownUpdate_Bug(existing) == TRUE

shouldReplaceShutdownUpdate(existing) == ~isReplayDoneStatus(existing)

shouldReplayShutdownForNode(command, n) ==
  /\ ~command.replayDisabled
  /\ n \in command.nodes
  /\ ~isReplayDoneStatus(command.upd[n])

replayableNodeIDs(command) == {n \in Node : shouldReplayShutdownForNode(command, n)}

Adoptable_Bug(command, clients) == {}

\* The connected clients that match the target and are not tracked yet.
Adoptable(command, clients) == selectTargets(clients, command.target) \ command.nodes

\* Tracks more nodes; the command has outstanding targets again.
Reopen(command, nodes) ==
  [command EXCEPT !.nodes = @ \cup nodes, !.done = FALSE]

adoptMatchingClients_Bug(command, clients) == command

adoptMatchingClients(command, clients) ==
  LET adopted == Adoptable(command, clients)
  IN  IF adopted = {} THEN command ELSE Reopen(command, adopted)

\* The master's own verdict on every target that did not settle in time.
TimeOut(command) ==
  LET marked == [command EXCEPT !.upd =
                   [n \in Node |-> IF n \in command.nodes /\ ~isCompleteShutdownStatus(@[n])
                                   THEN "timeout" ELSE @[n]]]
  IN  [marked EXCEPT !.done = commandComplete(marked)]

\* A status reported by target n replaces the one on record.
Report(command, n, status) ==
  LET reported == [command EXCEPT !.upd[n] = status]
  IN  [reported EXCEPT !.done = @ \/ commandComplete(reported)]

Disable(command) == [command EXCEPT !.replayDisabled = TRUE]
============================================================================
