------------------------------- MODULE Writers -------------------------------
(***************************************************************************)
(* Two streams of calls that write to one ring: two handles of one file,   *)
(* or one handle whose client writes whole records amid a streamed one.    *)
(* Write touches no member of the handle, so in the latter case too the    *)
(* two streams have nothing in common but the file.                        *)
(*                                                                         *)
(* The stream that runs is the writer w of Ringfile, the one that waits is *)
(* kept in other.  No lock exists: processes change places between any two *)
(* steps, the calls of one handle between any two calls.                   *)
(***************************************************************************)
EXTENDS RingfileProperties

CONSTANTS
  Overlap,   \* the streams change places between "records", "calls" or "steps"
  LiveMax    \* bound: frames between the offsets, and those they lost track of

ASSUME WritersAssumption ==
  /\ Overlap \in {"records", "calls", "steps"}
  /\ LiveMax \in Nat

VARIABLE other

wvars == <<start_offset, end_offset, data, live, w, r, target, other>>

InCall == w.pc \notin {"closed", "idle", "aborted"}

WInit == Init /\ other = NewWriter

(* The other stream goes on. *)
Switch ==
  /\ InCall => Overlap = "steps"
  /\ Streaming(w) => Overlap # "records"
  /\ w' = other
  /\ other' = w
  /\ UNCHANGED <<start_offset, end_offset, data, live, r, target>>

WNext ==
  \/ Switch
  \/ Writer /\ Len(live') <= LiveMax /\ UNCHANGED other

WSpec == WInit /\ [][WNext]_wvars

-----------------------------------------------------------------------------
(***************************************************************************)
(* The file keeps its size (README.md: fixed size log files): no system    *)
(* call of WrappingWrite, first or second, reaches past the end of the     *)
(* data area, wherever the other handle, a failure or a death amid a       *)
(* record has left the offsets.                                            *)
(***************************************************************************)
StaysInside ==
  w.pc \in {"header", "payload"} =>
    SegmentAt(PutOffset, w.done) + SegmentCount(PutOffset, PutSize, w.done) <= BytesMax

(***************************************************************************)
(* A handle keeps no copy of the offsets between two records: two handles  *)
(* that take turns, record by record, leave a ring that parses and whose   *)
(* records are intact, and no assert fails, even if one of them dies or    *)
(* fails in the middle of a call.                                          *)
(***************************************************************************)
TurnsAreSafe == ~InCall => Contiguous /\ LiveIntact /\ NoAbort
=============================================================================
