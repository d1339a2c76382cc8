----------------------------- MODULE MCTakeover -----------------------------
(* Clocks for the runs of Takeover: the first server's is MaxSkew ahead.   *)
EXTENDS Takeover

CONSTANT Ahead

MCSkew == [s \in Server |-> IF s = Ahead THEN MaxSkew ELSE 0]
=============================================================================
