-------------------------- MODULE MCPublicInterface --------------------------
(* Instances of PublicInterface: two processes that may change roles. *)
EXTENDS PublicInterface, TLC

CONSTANTS p1, p2

MCProcs == {p1, p2}

MCSymmetry == Permutations(MCProcs)

(* Refused by ftruncate, empty, a header alone, and a ring. *)
MCSizes == {-1, 0, 2, 5}
=============================================================================
