------------------------------ MODULE MCVarint ------------------------------
(***************************************************************************)
(* The values around every group boundary and around the place where the   *)
(* conversion to double starts to round, with the largest word.            *)
(***************************************************************************)
EXTENDS VarintObject

MCValues ==
  {v \in 0 .. Word - 1 :
     \E b \in {Radix, Radix^2, Radix^3, Exact, Word} : v \in b - 2 .. b}
=============================================================================
