--------------------------- MODULE MCHaConnection ---------------------------
(* Instances of HaConnection small enough for TLC. *)
EXTENDS HaConnection, TLC

CONSTANTS c1, c2

CallerSymmetry == Permutations(Caller)
=============================================================================
