----------------------------- MODULE MCCluster -----------------------------
EXTENDS Cluster

CONSTANT n1

MCNode   == {n1}
MCTagsOf == [n \in Node |-> {}]

\* Nothing reads what SlaveExecutor keeps of the acks, which are in toMaster here.
MCView == <<masterVars, wireVars, sStates, sExecutions, sBound, sUp, sHandler, sRun, sDisk,
            sRestarts, sRan, sRestored>>
=============================================================================
