--------------------------- MODULE MCPythonObject ---------------------------
(* Instances of PythonObject: two interpreters. *)
EXTENDS PythonObject, TLC

CONSTANTS p1, p2

MCProcs == {p1, p2}

MCSymmetry == Permutations(MCProcs)

(* Refused by ftruncate, a header alone, and a ring. *)
MCSizes == {-1, 2, 5}
=============================================================================
