------------------------------ MODULE Follower ------------------------------
(***************************************************************************)
(* A reader that follows a writer through the whole life of its handle:    *)
(* Ringfile with a history of what has come between the handle and the     *)
(* records.  read_offset_ is a private number; nothing in the file tells   *)
(* the reader whether a record still begins there.                         *)
(*                                                                         *)
(* Two things lead it astray.  It is lapped when the record it stands on   *)
(* is popped, or lost with all others when the ring fills up exactly.  It  *)
(* is misled when it stands at the end and compares read_offset_ with an   *)
(* end_offset that is stored and not yet reduced (or itself has taken over *)
(* such a start_offset when it was opened): the numbers differ, and it     *)
(* goes on to read a record that is not there, a phantom.                  *)
(***************************************************************************)
EXTENDS RingfileProperties

VARIABLE lost   \* since it was opened, the handle was "lapped", "misled" or neither

fvars == <<start_offset, end_offset, data, live, w, r, target, lost>>

FInit == Init /\ lost = "no"

Standing == r.pc # "closed"

(* The record the handle stands on leaves the ring. *)
LosesItsRecord == FrameAt(r.at) # NoFrame /\ FrameAt(r.at)' = NoFrame /\ r'.at = r.at

(* The end offset comes to the start offset: the ring is taken for empty. *)
Forgotten == end_offset' # end_offset /\ end_offset' = start_offset'

AtTheEnd == r.at % BytesMax = end_offset % BytesMax

(* A call begins at the end and does not see that it does. *)
TakesEndForRecord ==
  r.pc = "idle" /\ r'.pc = "header" /\ AtTheEnd /\ ~EndOfFile

FNext ==
  /\ Next
  /\ lost' = IF ~Standing \/ ~Standing' THEN "no"
             ELSE IF lost = "no" /\ (LosesItsRecord \/ Forgotten) THEN "lapped"
             ELSE IF lost = "no" /\ TakesEndForRecord THEN "misled"
             ELSE lost

FSpec == FInit /\ [][FNext]_fvars

-----------------------------------------------------------------------------
(***************************************************************************)
(* A handle that was neither lapped nor misled has not lost its place: a   *)
(* record of the ring begins at read_offset_, or it is the end.  Being     *)
(* lapped and being misled are the only ways to leave the records, over    *)
(* any number of calls and at every interleaving with the writer.          *)
(***************************************************************************)
KeepsItsPlace ==
  Standing /\ lost = "no" => AtTheEnd \/ FrameAt(r.at) # NoFrame

-----------------------------------------------------------------------------
(***************************************************************************)
(* The reading loop of Command::Read: the client calls NextRecordSize, and *)
(* Read if that succeeded, again and again until one of them fails.        *)
(***************************************************************************)
ReaderStep == ReadHeader \/ DecodeHeader \/ ReadSegment

Looping == r.call \in {"none", "Read"} /\ r.ret # "false"

LoopSpec ==
  /\ FSpec
  /\ WF_vars(ReaderStep)
  /\ WF_vars(Looping /\ NextRecordSize)
  /\ SF_vars(ReadNext)

LoopStart == w.pc = "closed" /\ r.pc = "idle" /\ Looping

AtEnd == r.call = "NextRecordSize" /\ r.ret = "false" /\ r.at = end_offset

Interrupted == w.pc # "closed" \/ r.pc = "closed"

(***************************************************************************)
(* Once the writer is gone, a reading loop whose handle was neither lapped *)
(* nor misled comes to the end of the ring, unless the reader leaves too   *)
(* or a new writer comes.  After a lap or a phantom it may go round among  *)
(* bytes that are no records.                                              *)
(***************************************************************************)
LoopEnds == LoopStart /\ lost = "no" ~> AtEnd \/ Interrupted

-----------------------------------------------------------------------------
(***************************************************************************)
(* What the repository says and the code does not do, in a run of its own. *)
(***************************************************************************)

(* include/ringfile.h: ringfile_next_record_size gives "the size of the    *)
(* next record in the file".  Unless the handle was lapped there is such a *)
(* record when NextRecordSize succeeds.                                    *)
NextIsARecord ==
  r.pc = "idle" /\ r.call = "NextRecordSize" /\ r.ret = "true" /\ lost # "lapped"
    => target # NoFrame
=============================================================================
