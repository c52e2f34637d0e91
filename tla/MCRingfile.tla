----------------------------- MODULE MCRingfile -----------------------------
(***************************************************************************)
(* Instances of Ringfile for TLC.  Groups of one bit make record headers   *)
(* of one to three bytes; the bytes of the records look like headers too.  *)
(***************************************************************************)
EXTENDS RingfileProperties

(* Frames of 2, 4 and 5 bytes, and one of 7: a ring of 7 refuses it, as the *)
(* spare byte is missing.                                                   *)
MCAllSizes == {<<3>>, <<1, 2>>, <<0, 3, 1>>, <<2, 2, 2, 2>>}

(* Frames of 2 and 5 bytes: in a ring of 6 they start at every offset, and *)
(* three of the first fill it exactly.                                     *)
MCShortLong == {<<3>>, <<0, 3, 1>>}

(* Frames of 2 and 4 bytes: in a ring of 5 they start at every offset. *)
MCShort == {<<3>>, <<1, 2>>}

(* An empty record, as the command writes for an empty line. *)
MCWithEmpty == MCShortLong \cup {<< >>}
=============================================================================
