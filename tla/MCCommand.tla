------------------------------ MODULE MCCommand ------------------------------
(* Instances of Command: three commands at a time. *)
EXTENDS Command, TLC

CONSTANTS p1, p2, p3

MCProcs == {p1, p2, p3}

MCSymmetry == Permutations(MCProcs)

(* No --size, and a ring. *)
MCOptions == {-1, 7}
=============================================================================
