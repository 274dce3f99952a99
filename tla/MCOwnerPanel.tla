---------------------------- MODULE MCOwnerPanel ----------------------------
(* Instances of OwnerPanel small enough for TLC: an administrator and people
   of the house, one of whom claims it.                                       *)
EXTENDS OwnerPanel, TLC

CONSTANTS installer, anna, bruno
=============================================================================
