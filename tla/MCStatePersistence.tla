------------------------- MODULE MCStatePersistence -------------------------
(* Three goroutines that write the state file, for TLC. *)
EXTENDS StatePersistence, TLC

CONSTANTS w1, w2, w3   \* goroutines

MCWriter == {w1, w2, w3}
=============================================================================
