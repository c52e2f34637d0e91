------------------------------ MODULE Ringfile ------------------------------
(***************************************************************************)
(* The ring: class Ringfile of src/src/ringfile.cc at the grain of its     *)
(* system calls and of its stores to the memory mapped header.             *)
(*                                                                         *)
(* One file is shared by a writing handle (Create or Open(kAppend)) and a  *)
(* reading handle (Open(kRead)).  Each handle is used by one thread, no    *)
(* lock relates the two.  Reading changes nothing in the file, so one      *)
(* reader stands for any number of them.                                   *)
(***************************************************************************)
EXTENDS RingGeometry

CONSTANTS
  Records,    \* the records clients write, sequences of bytes
  BufMax,     \* the largest buffer a client reads into
  Sizes,      \* the sizes of the buffers clients pass
  Calls,      \* the calls clients make
  Faults,     \* "io": the writer's system calls may fail; "read": the reader's;
              \* "crash": the writing process may die between two steps;
              \* "torn": also between the two stores of += and %=
  Stray       \* what the memory after the caller's record may hold

ASSUME ClientAssumption ==
  /\ Records \subseteq Seq(Byte)
  /\ \A rec \in Records : Len(rec) < Exact /\ Len(rec) < Word /\ Len(rec) < Weight[kMaxSize]
  /\ BufMax \in Nat
  /\ Sizes \subseteq Nat
  /\ Calls \subseteq {"Write", "StreamingWrite",
                     "OpenRead", "NextRecordSize", "ReadNext", "Read", "StreamingRead"}
  /\ Faults \subseteq {"io", "read", "crash", "torn"}
  /\ Stray \subseteq Byte

VARIABLES
  start_offset,   \* header_->start_offset: the oldest record
  end_offset,     \* header_->end_offset: where the next record goes
  data,           \* the data area of the file
  live,           \* auxiliary: the frames from start_offset to end_offset
  w,              \* the writing handle
  r,              \* the reading handle
  target          \* auxiliary: the live frame the reader's call started on

vars == <<start_offset, end_offset, data, live, w, r, target>>

NoFrame == [pos |-> -1, rec |-> << >>]

(* The live frame that starts at an offset. *)
FrameAt(o) ==
  LET here == {i \in DOMAIN live : live[i].pos = o % BytesMax}
  IN  IF here = {} THEN NoFrame ELSE live[CHOOSE i \in here : TRUE]

(***************************************************************************)
(* A handle for writing.  pc says where its call stands:                   *)
(*   "closed"   no handle is open for writing                              *)
(*   "idle"     the handle is open and in no call                          *)
(*   "space"    in the loop that pops records until the frame fits         *)
(*   "popped"   in PopRecord, the start offset advanced but not reduced    *)
(*   "header"   in WrappingWrite of the record's length                    *)
(*   "payload"  in WrappingWrite of the record, or of a piece of it        *)
(*   "publish"  about to store the new end offset                          *)
(*   "reduce"   the end offset stored but not reduced                      *)
(*   "aborted"  an assert() of the code has failed                         *)
(***************************************************************************)
NewWriter ==
  [pc |-> "idle",
   call |-> "none",    \* the call the handle is in, or was in last
   ret |-> "none",     \* what that call returned
   rec |-> << >>,      \* the record being written
   chunk |-> 0,        \* how much of it this call writes
   done |-> 0,         \* bytes the current WrappingWrite has written
   before |-> 0,       \* bytes_available_start
   offset |-> 0,       \* streaming_write_offset_
   remaining |-> 0]    \* streaming_write_bytes_remaining_, which the constructor
                       \* leaves unset and nothing reads before a start sets it

(***************************************************************************)
(* A handle for reading, with the caller's buffers.  "header" is in        *)
(* WrappingRead of a record header, "decode" about to decode it, "payload" *)
(* in WrappingRead of the record or of a piece of it.                      *)
(***************************************************************************)
NewReader ==
  [pc |-> "closed",
   call |-> "none",
   ret |-> "none",
   at |-> 0,           \* read_offset_
   header |-> [j \in BufferIndex |-> 0],        \* header_buffer
   hsize |-> 0,        \* header_size
   size |-> 0,         \* size_varint.value()
   chunk |-> 0,        \* bytes the caller has room for, or asks for
   buffer |-> [j \in 0 .. BufMax - 1 |-> 0],    \* what the caller got
   done |-> 0,         \* bytes the current WrappingRead has read
   offset |-> 0,       \* streaming_read_offset_
   remaining |-> 0]    \* streaming_read_bytes_remaining_

(* The file as Create leaves it, open for writing in the handle that did. *)
Init ==
  /\ start_offset = 0
  /\ end_offset = 0
  /\ data = [c \in Offset |-> 0]
  /\ live = << >>
  /\ w = NewWriter
  /\ r = NewReader
  /\ target = NoFrame

(* A record is being streamed, as far as the handle knows. *)
Streaming(handle) == handle.offset # 0

(* A call of the writer returns, and forgets its local variables. *)
WriteReturns(handle, value) ==
  [handle EXCEPT !.pc = "idle", !.ret = value, !.chunk = 0, !.done = 0, !.before = 0,
                 !.rec = IF Streaming(handle) THEN handle.rec ELSE << >>]

-----------------------------------------------------------------------------
(* Open(path, kAppend) in a new object: also the restart after a crash. *)
OpenAppend ==
  /\ w.pc = "closed"
  /\ w' = NewWriter
  /\ UNCHANGED <<start_offset, end_offset, data, live, r, target>>

(* Between the two stores of x += n; x %= bytes_max(), made one by one in   *)
(* the shared header: bytes_max() must be loaded after the first of them.   *)
BetweenStores == w.pc \in {"popped", "reduce"}

(***************************************************************************)
(* The writer goes away.  Close needs the handle idle, amid a streamed     *)
(* record or not; a crash strikes between any two steps.  munmap, close    *)
(* and exit leave the file as it is.                                       *)
(***************************************************************************)
StopWriter ==
  /\ \/ w.pc = "idle"
     \/ "crash" \in Faults /\ w.pc # "closed" /\ ~BetweenStores
     \/ "torn" \in Faults /\ BetweenStores
  /\ w' = [NewWriter EXCEPT !.pc = "closed"]
  /\ UNCHANGED <<start_offset, end_offset, data, live, r, target>>

(***************************************************************************)
(* Entry of Write and StreamingWriteStart.  The latter asserts that no     *)
(* record is being streamed; the former does not check, and its clients    *)
(* do not call it then.                                                    *)
(***************************************************************************)
StartWrite(call, rec) ==
  /\ w.pc = "idle"
  /\ ~Streaming(w)
  /\ LET begun == [w EXCEPT !.pc = "space", !.call = call, !.ret = "none",
                            !.rec = rec, !.chunk = Len(rec)]
     IN  w' = IF TooBig(rec) THEN WriteReturns(begun, "false") ELSE begun
  /\ UNCHANGED <<start_offset, end_offset, data, live, r, target>>

Write(rec) == "Write" \in Calls /\ StartWrite("Write", rec)

StreamingWriteStart(rec) ==
  "StreamingWrite" \in Calls /\ StartWrite("StreamingWriteStart", rec)

(* Bug: the loop ends one byte early. *)
NeedsSpace_OffByOne ==
  BytesAvailable(start_offset, end_offset) + 1 < FrameSize(w.rec)

(* The condition of the loop that pops records. *)
NeedsSpace == BytesAvailable(start_offset, end_offset) < FrameSize(w.rec)

(* Bug: the length of the record header is not counted. *)
PopTo_NoHeader(out) == (start_offset + out.value) % Word

(* Bug: the oldest record is looked at but not popped. *)
PopTo_Stays(out) == start_offset

(* The first store of PopRecord to start_offset, from the decoded header. *)
PopTo(out) == (start_offset + out.size + out.value) % Word

(* The kMaxSize bytes WrappingRead collects from the oldest record on. *)
OldestHeader == [j \in BufferIndex |-> data[(start_offset + j) % BytesMax]]

(***************************************************************************)
(* PopRecord up to its first store to start_offset.  Only the writer       *)
(* changes what it reads, so its system calls are one step.                *)
(***************************************************************************)
PopRecord ==
  /\ w.pc = "space"
  /\ NeedsSpace
  /\ IF start_offset = end_offset \/ ~WholeReadFits(start_offset, kMaxSize)
       THEN /\ w' = WriteReturns(w, "false")
            /\ UNCHANGED <<start_offset, live, target>>
       ELSE /\ \E out \in ReadOutcomes(OldestHeader) : start_offset' = PopTo(out)
            /\ w' = [w EXCEPT !.pc = "popped",
                              !.before = BytesAvailable(start_offset, end_offset)]
            /\ live' = IF live = << >> THEN live ELSE Tail(live)
            /\ target' = IF live # << >> /\ target = Head(live) THEN NoFrame ELSE target
  /\ UNCHANGED <<end_offset, data, r>>

(* A read() of PopRecord fails. *)
PopFails ==
  /\ "io" \in Faults
  /\ w.pc = "space"
  /\ NeedsSpace
  /\ w' = WriteReturns(w, "false")
  /\ UNCHANGED <<start_offset, end_offset, data, live, r, target>>

(* Its second store, and the assertion of the loop that called it. *)
ReduceStart ==
  /\ w.pc = "popped"
  /\ start_offset' = start_offset % BytesMax
  /\ w' = [w EXCEPT !.pc = IF BytesAvailable(start_offset', end_offset) > w.before
                            THEN "space" ELSE "aborted"]
  /\ UNCHANGED <<end_offset, data, live, r, target>>

EnoughSpace ==
  /\ w.pc = "space"
  /\ ~NeedsSpace
  /\ w' = [w EXCEPT !.pc = "header"]
  /\ UNCHANGED <<start_offset, end_offset, data, live, r, target>>

-----------------------------------------------------------------------------
(* The WrappingWrite in progress: its offset and its size. *)
PutOffset ==
  IF w.pc = "header" THEN end_offset
  ELSE IF w.call = "StreamingWrite" THEN w.offset
  ELSE end_offset + ByteSize(Len(w.rec))

PutSize == IF w.pc = "header" THEN ByteSize(Len(w.rec)) ELSE w.chunk

(* Bytes of the record that earlier pieces have written. *)
PieceStart == IF w.call = "StreamingWrite" THEN Len(w.rec) - w.remaining ELSE 0

(* Byte j behind the pointer; past the record lies whatever memory holds. *)
SourceByte(j, stray) ==
  IF w.pc = "header" THEN EncodedByte(Len(w.rec), j)
  ELSE IF j < w.chunk THEN w.rec[PieceStart + j + 1]
  ELSE stray

(* Bug: the second system call starts again from the front of the record. *)
Stored_Restart(at, count, stray) ==
  [c \in Offset |-> IF c >= at /\ c < at + count
                      THEN SourceByte(c - at, stray) ELSE data[c]]

(* The data area after write() has stored count bytes at an offset. *)
Stored(at, count, stray) ==
  [c \in Offset |-> IF c >= at /\ c < at + count
                      THEN SourceByte(w.done + c - at, stray) ELSE data[c]]

(***************************************************************************)
(* What the writer does when the current WrappingWrite is complete: Write  *)
(* goes on to its record and then to the end offset; StreamingWriteStart   *)
(* and StreamingWrite keep their place and return.                         *)
(***************************************************************************)
AfterPut ==
  IF w.call = "Write"
    THEN [w EXCEPT !.pc = IF w.pc = "header" THEN "payload" ELSE "publish", !.done = 0]
    ELSE WriteReturns(
           [w EXCEPT !.offset = (PutOffset + PutSize) % Word,
                     !.remaining = IF w.pc = "header" THEN Len(w.rec)
                                                      ELSE w.remaining - w.chunk],
           "true")

(* One system call of the current WrappingWrite. *)
WriteSegment ==
  LET count == SegmentCount(PutOffset, PutSize, w.done) IN
  /\ w.pc \in {"header", "payload"}
  /\ \E stray \in Stray :
       data' = IF Refused(count) THEN data
               ELSE Stored(SegmentAt(PutOffset, w.done), count, stray)
  /\ w' = IF ~TransferOK(count) THEN WriteReturns(w, "false")
          ELSE IF More(PutOffset, PutSize, w.done) THEN [w EXCEPT !.done = count]
          ELSE AfterPut
  /\ UNCHANGED <<start_offset, end_offset, live, r, target>>

(* write() fails, or stores less than it was asked to (a full disk). *)
WriteFails ==
  LET count == SegmentCount(PutOffset, PutSize, w.done) IN
  /\ "io" \in Faults
  /\ w.pc \in {"header", "payload"}
  /\ ~Refused(count)
  /\ \E k \in 0 .. count - 1, stray \in Stray :
       data' = Stored(SegmentAt(PutOffset, w.done), k, stray)
  /\ w' = WriteReturns(w, "false")
  /\ UNCHANGED <<start_offset, end_offset, live, r, target>>

(* assert(size <= streaming_write_bytes_remaining_) *)
StreamingWrite(n) ==
  /\ w.pc = "idle"
  /\ Streaming(w)
  /\ n <= w.remaining
  /\ w' = [w EXCEPT !.pc = "payload", !.call = "StreamingWrite", !.ret = "none", !.chunk = n]
  /\ UNCHANGED <<start_offset, end_offset, data, live, r, target>>

(***************************************************************************)
(* The stores to header_->end_offset.  The first makes a frame part of the *)
(* ring; if either brings the end offset to the start offset, all that     *)
(* reads the header takes the ring for empty, and so does live.            *)
(***************************************************************************)
StoreEnd(end, frames) ==
  /\ end_offset' = end
  /\ live' = IF end = start_offset THEN << >> ELSE frames
  /\ target' = IF end = start_offset THEN NoFrame ELSE target
  /\ UNCHANGED <<start_offset, data, r>>

WithFrame == Append(live, [pos |-> end_offset % BytesMax, rec |-> w.rec])

Publish ==
  /\ w.pc = "publish"
  /\ StoreEnd((end_offset + FrameSize(w.rec)) % Word, WithFrame)
  /\ w' = [w EXCEPT !.pc = "reduce"]

(* assert(streaming_write_bytes_remaining_ == 0) *)
StreamingWriteFinish ==
  /\ w.pc = "idle"
  /\ Streaming(w)
  /\ w.remaining = 0
  /\ StoreEnd(w.offset, WithFrame)
  /\ w' = [w EXCEPT !.pc = "reduce", !.call = "StreamingWriteFinish", !.ret = "none"]

(* Bug: the end offset is left as the first store made it. *)
ReducedEnd_NoMod == end_offset

ReducedEnd == end_offset % BytesMax

ReduceEnd ==
  /\ w.pc = "reduce"
  /\ StoreEnd(ReducedEnd, live)
  /\ w' = WriteReturns([w EXCEPT !.offset = 0], "true")

WriterStep ==
  PopRecord \/ ReduceStart \/ EnoughSpace \/ WriteSegment \/ Publish \/ ReduceEnd

Writer ==
  \/ OpenAppend
  \/ StopWriter
  \/ \E rec \in Records : Write(rec) \/ StreamingWriteStart(rec)
  \/ WriterStep
  \/ PopFails
  \/ WriteFails
  \/ \E n \in Sizes : StreamingWrite(n)
  \/ StreamingWriteFinish

-----------------------------------------------------------------------------
(* A call of the reader returns, and forgets its local variables. *)
ReadReturns(handle, value) ==
  [handle EXCEPT !.pc = "idle", !.ret = value, !.header = NewReader.header, !.hsize = 0,
                 !.done = 0]

(* Open(path, kRead): reading starts at the oldest record of that moment. *)
OpenRead ==
  /\ "OpenRead" \in Calls
  /\ r.pc = "closed"
  /\ r' = [NewReader EXCEPT !.pc = "idle", !.at = start_offset]
  /\ UNCHANGED <<start_offset, end_offset, data, live, w, target>>

(* Close, or the end of the process. *)
CloseRead ==
  /\ r.pc # "closed"
  /\ r' = NewReader
  /\ target' = NoFrame
  /\ UNCHANGED <<start_offset, end_offset, data, live, w>>

(* EndOfFile(): no more records for this handle. *)
EndOfFile == r.at = end_offset

(***************************************************************************)
(* Entry of a call that reads a record header, of a client that has room   *)
(* for n bytes.  Only Read does without the check for the end of the ring. *)
(* StreamingReadStart asserts that no record is being streamed; the others *)
(* do not check, and their clients do not call them then.                  *)
(***************************************************************************)
StartRead(call, n) ==
  /\ r.pc = "idle"
  /\ ~Streaming(r)
  /\ LET begun == [NewReader EXCEPT !.pc = "header", !.call = call, !.at = r.at, !.chunk = n]
     IN  IF call # "Read" /\ EndOfFile
           THEN /\ r' = ReadReturns(begun, "false")
                /\ target' = NoFrame
           ELSE /\ r' = begun
                /\ target' = FrameAt(r.at)
  /\ UNCHANGED <<start_offset, end_offset, data, live, w>>

NextRecordSize == "NextRecordSize" \in Calls /\ StartRead("NextRecordSize", 0)

StreamingReadStart == "StreamingRead" \in Calls /\ StartRead("StreamingReadStart", 0)

Read(buffer_size) == "Read" \in Calls /\ StartRead("Read", buffer_size)

(* The loop of Command::Read and of ringfile.h: Read into a buffer of the   *)
(* size NextRecordSize has given, if the client can get one.                *)
ReadNext ==
  /\ "ReadNext" \in Calls
  /\ r.call = "NextRecordSize" /\ r.ret = "true"
  /\ r.size <= BufMax
  /\ StartRead("Read", r.size)

(* One system call of WrappingRead(read_offset_, header_buffer, kMaxSize). *)
ReadHeader ==
  LET at == SegmentAt(r.at, r.done)
      count == SegmentCount(r.at, kMaxSize, r.done)
      header == [j \in BufferIndex |->
                   IF j >= r.done /\ j < r.done + count THEN data[at + j - r.done]
                                                        ELSE r.header[j]]
  IN
  /\ r.pc = "header"
  /\ r' = IF ~ReadFits(r.at, kMaxSize, r.done) THEN ReadReturns(r, "false")
          ELSE IF More(r.at, kMaxSize, r.done)
            THEN [r EXCEPT !.header = header, !.done = count]
            ELSE [r EXCEPT !.header = header, !.done = 0, !.pc = "decode"]
  /\ UNCHANGED <<start_offset, end_offset, data, live, w, target>>

(* Varint::Read on the header, and what the call does with the result. *)
DecodeHeader ==
  /\ r.pc = "decode"
  /\ \E out \in ReadOutcomes(r.header) :
       LET decoded == [r EXCEPT !.hsize = out.size, !.size = out.value] IN
       r' = CASE r.call = "NextRecordSize" -> ReadReturns(decoded, "true")
              [] r.call = "Read" ->
                   IF out.value > r.chunk THEN ReadReturns(decoded, "false")
                   ELSE [decoded EXCEPT !.pc = "payload", !.chunk = out.value]
              [] r.call = "StreamingReadStart" ->
                   [ReadReturns(decoded, "true") EXCEPT
                      !.offset = r.at + out.size,
                      !.remaining = out.value,
                      !.at = Advance(r.at, out.size + out.value)]
  /\ UNCHANGED <<start_offset, end_offset, data, live, w, target>>

(* A piece of at most n bytes; the client appends it to those it has. *)
StreamingRead(n) ==
  LET size == IF n > r.remaining THEN r.remaining ELSE n IN
  /\ r.pc = "idle"
  /\ Streaming(r)
  /\ r.size - r.remaining + size <= BufMax
  /\ LET begun == [r EXCEPT !.pc = "payload", !.call = "StreamingRead", !.ret = "none",
                            !.chunk = size]
     IN  r' = IF size = 0 THEN ReadReturns(begun, "true") ELSE begun
  /\ UNCHANGED <<start_offset, end_offset, data, live, w, target>>

(* The WrappingRead of a record or of a piece, and where its bytes go. *)
GetOffset == IF r.call = "StreamingRead" THEN r.offset ELSE r.at + r.hsize

GetStart == IF r.call = "StreamingRead" THEN r.size - r.remaining ELSE 0

(* Bug: the bytes of the second system call go over those of the first. *)
Fetched_Restart(at, count) ==
  [j \in 0 .. BufMax - 1 |->
     LET i == j - GetStart
     IN  IF i >= 0 /\ i < count /\ at + i < BytesMax THEN data[at + i] ELSE r.buffer[j]]

(***************************************************************************)
(* The caller's buffer after read() has fetched count bytes from an offset. *)
(* Bytes past the buffer go to memory of the client that the model does    *)
(* not have; a client that dies of it does CloseRead.                      *)
(***************************************************************************)
Fetched(at, count) ==
  [j \in 0 .. BufMax - 1 |->
     LET i == j - GetStart - r.done
     IN  IF i >= 0 /\ i < count /\ at + i < BytesMax THEN data[at + i] ELSE r.buffer[j]]

(* Bug: the record header is not counted when reading moves on. *)
AfterGet_NoHeader(handle) ==
  IF r.call = "Read"
    THEN [ReadReturns(handle, "true") EXCEPT !.at = Advance(r.at, r.size)]
    ELSE [ReadReturns(handle, "true") EXCEPT
            !.offset = r.offset + r.chunk, !.remaining = r.remaining - r.chunk]

(* What the reader does when the current WrappingRead is complete. *)
AfterGet(handle) ==
  IF r.call = "Read"
    THEN [ReadReturns(handle, "true") EXCEPT !.at = Advance(r.at, r.hsize + r.size)]
    ELSE [ReadReturns(handle, "true") EXCEPT
            !.offset = r.offset + r.chunk, !.remaining = r.remaining - r.chunk]

(* One system call of that WrappingRead. *)
ReadSegment ==
  LET count == SegmentCount(GetOffset, r.chunk, r.done)
      short == ~Refused(count) /\ ~ReadFits(GetOffset, r.chunk, r.done)
      got == IF Refused(count) THEN r
             ELSE [r EXCEPT !.buffer = Fetched(SegmentAt(GetOffset, r.done), count)]
  IN
  /\ r.pc = "payload"
  /\ r' = IF short \/ ~TransferOK(count) THEN ReadReturns(r, "false")
          ELSE IF More(GetOffset, r.chunk, r.done) THEN [got EXCEPT !.done = count]
          ELSE AfterGet(got)
  /\ UNCHANGED <<start_offset, end_offset, data, live, w, target>>

(* read() fails, or delivers less than it was asked for: the caller does    *)
(* not look at what a failed call left in its buffer.                       *)
ReadFails ==
  /\ "read" \in Faults
  /\ r.pc \in {"header", "payload"}
  /\ r' = ReadReturns(r, "false")
  /\ UNCHANGED <<start_offset, end_offset, data, live, w, target>>

(* The rest of the record may be left unread. *)
StreamingReadFinish ==
  /\ r.pc = "idle"
  /\ Streaming(r)
  /\ r' = [ReadReturns(r, "true") EXCEPT !.call = "StreamingReadFinish", !.offset = 0]
  /\ UNCHANGED <<start_offset, end_offset, data, live, w, target>>

Reader ==
  \/ OpenRead
  \/ CloseRead
  \/ NextRecordSize
  \/ StreamingReadStart
  \/ \E n \in Sizes : Read(n)
  \/ ReadNext
  \/ ReadHeader
  \/ DecodeHeader
  \/ \E n \in Sizes : StreamingRead(n)
  \/ ReadSegment
  \/ ReadFails
  \/ StreamingReadFinish

Next == Writer \/ Reader

Spec == Init /\ [][Next]_vars
=============================================================================
