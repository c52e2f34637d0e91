-------------------------- MODULE RingfileProperties --------------------------
(***************************************************************************)
(* What makes the ring of Ringfile correct: invariants of the file and of  *)
(* the writer, what a reader may rely on, the promise it implements, and   *)
(* progress of the writer.                                                 *)
(***************************************************************************)
EXTENDS Ringfile

Frame == [pos : Offset, rec : Records]

WriterHandle ==
  [pc : {"closed", "idle", "space", "popped", "header", "payload", "publish", "reduce",
         "aborted"},
   call : {"none", "Write", "StreamingWriteStart", "StreamingWrite", "StreamingWriteFinish"},
   ret : {"none", "true", "false"},
   rec : Records \cup {<< >>},
   chunk : Nat, done : Nat, before : Nat, offset : 0 .. Word - 1, remaining : Nat]

ReaderHandle ==
  [pc : {"closed", "idle", "header", "decode", "payload"},
   call : {"none", "NextRecordSize", "Read", "StreamingReadStart", "StreamingRead",
           "StreamingReadFinish"},
   ret : {"none", "true", "false"},
   at : Nat,
   header : [BufferIndex -> Byte],
   hsize : Nat, size : Nat, chunk : Nat,
   buffer : [0 .. BufMax - 1 -> Byte],
   done : Nat, offset : Nat, remaining : Nat]

(* Types, with the width of the offsets. *)
TypeOK ==
  /\ start_offset \in 0 .. Word - 1
  /\ end_offset \in 0 .. Word - 1
  /\ data \in [Offset -> Byte]
  /\ live \in Seq(Frame)
  /\ w \in WriterHandle
  /\ r \in ReaderHandle
  /\ target \in Frame \cup {NoFrame}

-----------------------------------------------------------------------------
(* Bytes from the oldest record to an offset, and to the end of a frame. *)
Distance(o) == (o - start_offset) % BytesMax

FrameEnd(f) == Distance(f.pos) + FrameSize(f.rec)

Used == BytesUsed(start_offset, end_offset)

(***************************************************************************)
(* The ring parses: the first record is at the start offset, each next one *)
(* right behind the one before, the last one ends at the end offset, and   *)
(* bytes_used() counts exactly the bytes of the records.  Nothing else     *)
(* tells a reader or PopRecord where a record begins.                      *)
(***************************************************************************)
Contiguous ==
  /\ Used <= BytesMax
  /\ live = << >> <=> Used = 0
  /\ live # << >> => Distance(live[1].pos) = 0 /\ FrameEnd(live[Len(live)]) = Used
  /\ \A i \in 1 .. Len(live) - 1 : Distance(live[i + 1].pos) = FrameEnd(live[i])

(***************************************************************************)
(* No byte of a record between the offsets changes until PopRecord has     *)
(* moved the start offset past it, whichever write is in progress, failed  *)
(* or was cut short by a crash.                                            *)
(***************************************************************************)
LiveIntact ==
  \A i \in DOMAIN live : \A j \in 0 .. FrameSize(live[i].rec) - 1 :
    data[(live[i].pos + j) % BytesMax] = FrameByte(live[i].rec, j)

(* assert(bytes_available() > bytes_available_start) holds: every turn of   *)
(* the loop that pops records frees some space.                             *)
NoAbort == w.pc # "aborted"

(***************************************************************************)
(* When the writer is about to move the end offset, the whole frame of its *)
(* record is in the file, behind the last record, and fits before the      *)
(* oldest one.  This is what lets a reader look without a lock.            *)
(***************************************************************************)
Ready == w.pc = "publish" \/ (w.pc = "idle" /\ Streaming(w) /\ w.remaining = 0)

WrittenBeforePublished ==
  Ready =>
    /\ Used + FrameSize(w.rec) <= BytesMax
    /\ w.pc = "idle" => w.offset % BytesMax = (end_offset + FrameSize(w.rec)) % BytesMax
    /\ \A j \in 0 .. FrameSize(w.rec) - 1 :
         data[(end_offset + j) % BytesMax] = FrameByte(w.rec, j)

-----------------------------------------------------------------------------
(* Bytes of its record a successful call of the reader has delivered. *)
Delivered == IF r.call = "NextRecordSize" THEN 0 ELSE r.size - r.remaining

(***************************************************************************)
(* A call that started on a record of the ring, and whose record has not   *)
(* been popped since, gives that record: its size and its bytes, however   *)
(* the writer's calls interleave with the reader's.  Without a failing     *)
(* read() only a buffer that is too small for Read makes a call fail.      *)
(***************************************************************************)
ReadExact ==
  target # NoFrame =>
    /\ r.ret = "true" =>
         /\ r.size = Len(target.rec)
         /\ \A j \in 0 .. Delivered - 1 : r.buffer[j] = target.rec[j + 1]
    /\ r.ret = "false" /\ "read" \notin Faults =>
         r.call = "Read" /\ r.chunk < Len(target.rec)

(***************************************************************************)
(* Reading is in order and skips nothing: when a call moves read_offset_   *)
(* past a record of the ring, it moves it to the record that follows, or   *)
(* to the end offset if that was the last one.                             *)
(***************************************************************************)
After(f) ==
  LET i == CHOOSE i \in DOMAIN live : live[i] = f
  IN  IF i = Len(live) THEN end_offset % BytesMax ELSE live[i + 1].pos

ReadInOrder ==
  [][target # NoFrame /\ r.pc \in {"decode", "payload"} /\ r'.at # r.at /\ r'.pc # "closed"
       => r'.at = After(target)]_vars

-----------------------------------------------------------------------------
(***************************************************************************)
(* The ring is a bounded log of whole records (RingLog).  The log is what  *)
(* lies between the offsets, its cost is what bytes_used() computes, even  *)
(* between the two stores to an offset, and a record is pending from the   *)
(* call that brings it to the store that publishes it.                     *)
(***************************************************************************)
Pending ==
  IF \/ w.pc \in {"space", "popped", "header", "payload", "publish"}
     \/ w.pc = "idle" /\ Streaming(w)
    THEN {w.rec} ELSE {}

Log == INSTANCE RingLog WITH
  Cost <- [rec \in Records |-> FrameSize(rec)],
  Capacity <- BytesMax,
  log <- [i \in DOMAIN live |-> live[i].rec],
  used <- Used,
  pending <- Pending

ImplementsRingLog == Log!LogSpec

-----------------------------------------------------------------------------
(***************************************************************************)
(* Fairness: a process that is inside a call runs on.  Clients need not    *)
(* make another call, and nothing is assumed of faults.                    *)
(***************************************************************************)
FairSpec == Spec /\ WF_vars(WriterStep)

(* The loop that pops records ends, and the writer waits for nobody: every *)
(* call of the writer returns, or its process has died.                    *)
WriteReturnsAtLast == w.pc \notin {"closed", "idle"} ~> w.pc \in {"closed", "idle"}

-----------------------------------------------------------------------------
(***************************************************************************)
(* What the repository says and the code does not do, in a run of its own. *)
(***************************************************************************)

(* README.md, "the oldest records are replaced by new ones": the record of *)
(* a write that has just been acknowledged is in the ring.                 *)
AcknowledgedIsKept ==
  w.pc = "idle" /\ w.ret = "true" /\ w.call \in {"Write", "StreamingWriteFinish"}
    => live # << >>
===============================================================================
