---------------------------- MODULE MCConnection ----------------------------
(* Small instances of Connection. *)
EXTENDS Connection, TLC

CONSTANTS c1, c2, c3, x, loop

ConnSymmetry == Permutations(Conns)
=============================================================================
