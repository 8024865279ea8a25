--------------------------- MODULE MCTrafficStats ---------------------------
(* A small instance of TrafficStats: a user with a limit and one without. *)
EXTENDS TrafficStats

CONSTANTS capped, free

Limits == [u \in {capped, free} |-> IF u = capped THEN 1 ELSE 0]
=============================================================================
