------------------------- MODULE ConfirmedShutdown -------------------------
(***************************************************************************)
(* What master and slave promise together for one node: the node runs only *)
(* the commands it was asked to run, and the master believes that a        *)
(* command was executed only after the node has executed it.  The master   *)
(* may forget, the node cannot take back.                                  *)
(***************************************************************************)
CONSTANT Cmd

VARIABLES asked, ran, confirmed

vars == <<asked, ran, confirmed>>

Init == asked = {} /\ ran = {} /\ confirmed = {}

Ask(c)     == asked' = asked \cup {c} /\ UNCHANGED <<ran, confirmed>>
Run(c)     == c \in asked /\ ran' = ran \cup {c} /\ UNCHANGED <<asked, confirmed>>
Confirm(c) == c \in ran /\ confirmed' = confirmed \cup {c} /\ UNCHANGED <<asked, ran>>
Forget     == \E kept \in SUBSET confirmed : confirmed' = kept /\ UNCHANGED <<asked, ran>>

Next == Forget \/ \E c \in Cmd : Ask(c) \/ Run(c) \/ Confirm(c)

Spec == Init /\ [][Next]_vars
=============================================================================
