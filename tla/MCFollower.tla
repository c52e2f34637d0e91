----------------------------- MODULE MCFollower -----------------------------
(* Instances of Follower. *)
EXTENDS Follower

(* Frames of 2 and 4 bytes: in a ring of 5 they start at every offset and   *)
(* bring the end offset to its limit and past it.                          *)
MCShort == {<<3>>, <<1, 2>>}

(* Frames of 2 bytes: in a ring of 5 one always stays when one is popped. *)
MCOne == {<<3>>}
=============================================================================
