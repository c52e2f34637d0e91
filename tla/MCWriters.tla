------------------------------ MODULE MCWriters ------------------------------
(* Instances of Writers. *)
EXTENDS Writers

(* Frames of 2, 4 and 5 bytes. *)
MCSizes == {<<3>>, <<1, 2>>, <<0, 3, 1>>}
=============================================================================
