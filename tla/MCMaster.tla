------------------------------ MODULE MCMaster ------------------------------
(***************************************************************************)
(* Small instances of Master: two nodes, of which one carries a tag, and   *)
(* three policies: one for the tag, one for all nodes, and one for all     *)
(* nodes when the UPS is silent.                                           *)
(***************************************************************************)
EXTENDS Master, TLC

CONSTANTS n1, n2

MCNode   == {n1, n2}
MCOneNode == {n1}
MCTag    == {"dev"}
MCTagsOf == [n \in Node |-> IF n = n1 THEN {"dev"} ELSE {}]

MCPolicyTarget ==
  [p \in Policy |-> IF p = "dev" THEN [all |-> FALSE, nodes |-> {}, tags |-> {"dev"}]
                                 ELSE AllNodes]

MCManualTarget == {AllNodes, [all |-> FALSE, nodes |-> {n1}, tags |-> {}]}
MCManualAll    == {AllNodes}
MCManualNone   == {}

Symmetry == Permutations(CmdId) \cup Permutations(Handler)

(***************************************************************************)
(* Bounds of the environment, where every fault in every behaviour is more *)
(* than TLC can visit.                                                     *)
(***************************************************************************)
NoOperator == request'.pc = "idle" /\ ~ResetActiveCommand
NodesStay  == connected \subseteq connected'

\* As long as a restart is to come: an emergency, with no operator.  Without one:
\* drills and outages.  A node leaves with a restart only.  The UPS falls silent only
\* before the reading that confirms a restored episode, with no operator then, and
\* stays so once a policy has vouched for the episode.
LivenessBound ==
  /\ IF WillRestart THEN NoOperator /\ ups' # "line" /\ (NodesStay \/ Restart) ELSE NodesStay
  /\ ups' = "error" => NoOperator /\ (ups = "error" \/ (episode.on /\ ~upsConfirmed))
  /\ ups = "error" /\ upsConfirmed => ups' = "error"
=============================================================================
