--------------------------- MODULE MCRealityAuth ---------------------------
(* Small instances of RealityAuth. *)
EXTENDS RealityAuth, TLC

CONSTANTS a, b, c

SidSymmetry == Permutations(Sids)
=============================================================================
