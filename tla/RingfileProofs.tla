--------------------------- MODULE RingfileProofs ---------------------------
(***************************************************************************)
(* Proofs about Ringfile, for every size of the ring, every set of records *)
(* and every combination of calls and faults:                              *)
(*                                                                         *)
(*   types       what the offsets, the bytes and the handles can be;       *)
(*   distances   the arithmetic of the ring, and what WrappingWrite does;  *)
(*   safety      the ring parses, the bytes of its records are intact, the *)
(*               assertion of the loop that pops records holds, a record   *)
(*               is whole when it is published;                            *)
(*   promise     the ring is the log that RingLog describes.               *)
(***************************************************************************)
EXTENDS RingfileProperties, VarintProofs, SequenceTheorems

-----------------------------------------------------------------------------
(* The constants, as the proofs use them. *)
LEMMA Constants ==
  /\ BytesMax \in Nat \ {0}
  /\ Word \in Nat \ {0}
  /\ BytesMax < Word
  /\ kMaxSize \in Nat \ {0}
  /\ BufMax \in Nat
  /\ Stray \subseteq Byte
  /\ Sizes \subseteq Nat
BY VarintAssumption, GeometryAssumption, ClientAssumption

(* Every record has a length, of bytes, that a header can hold. *)
LEMMA RecordLength ==
  ASSUME NEW rec \in Records
  PROVE  /\ rec \in Seq(Byte)
         /\ Len(rec) \in Nat
         /\ Encodable(Len(rec))
         /\ ByteSize(Len(rec)) \in 1 .. kMaxSize
         /\ FrameSize(rec) \in Nat
<1>1. rec \in Seq(Byte) /\ Len(rec) \in Nat
  BY ClientAssumption
<1>2. Encodable(Len(rec))
  BY <1>1, ClientAssumption, ExactIsEncodable
<1>3. ByteSize(Len(rec)) \in 1 .. kMaxSize
  BY <1>2, ByteSizeIs DEF Encodable
<1>4. FrameSize(rec) \in Nat
  BY <1>1, <1>3, Constants DEF FrameSize
<1> QED
  BY <1>1, <1>2, <1>3, <1>4

(* What the arithmetic of offsets yields. *)
LEMMA OffsetTypes ==
  /\ \A o \in Nat : o % BytesMax \in Offset
  /\ \A o \in Nat : o % Word \in 0 .. Word - 1
  /\ Offset \subseteq 0 .. Word - 1
  /\ 0 .. Word - 1 \subseteq Nat
BY Constants DEF Offset

LEMMA BytesTypes ==
  ASSUME NEW s \in Nat, NEW e \in Nat
  PROVE  BytesUsed(s, e) \in Nat /\ BytesAvailable(s, e) \in Nat
<1>1. \A x \in Int : x % Word \in Nat
  BY Constants
<1>2. BytesUsed(s, e) \in Nat
  BY <1>1, Constants DEF BytesUsed
<1> QED
  BY <1>1, <1>2, Constants DEF BytesAvailable

(* What decoding a header yields are numbers. *)
LEMMA OutcomeIsNat ==
  ASSUME NEW buf \in [BufferIndex -> Byte], NEW out \in ReadOutcomes(buf)
  PROVE  out.value \in Nat /\ out.size \in Nat
<1>1. out.value \in 0 .. Word - 1 /\ out.size \in (0 .. kMaxSize) \cup UndefinedSizes
  BY ReadOutcomesType
<1>2. 0 .. Word - 1 \subseteq Nat /\ 0 .. kMaxSize \subseteq Nat /\ UndefinedSizes \subseteq Nat
  BY VarintAssumption
<1> QED
  BY <1>1, <1>2

(* The place and the length of a system call. *)
LEMMA SegmentTypes ==
  ASSUME NEW o \in Nat, NEW n \in Nat, NEW done \in Nat
  PROVE  SegmentAt(o, done) \in Offset /\ SegmentCount(o, n, done) \in Nat
<1>1. \A x \in Int : x % Word \in Nat
  BY Constants
<1>2. o % BytesMax \in Offset /\ 0 \in Offset
  BY Constants DEF Offset
<1>3. EndBytes(o, n) \in Nat
  BY <1>2, Constants DEF EndBytes, Offset
<1>4. (n - done) % Word \in Nat
  BY <1>1
<1> QED
  BY <1>2, <1>3, <1>4 DEF SegmentAt, SegmentCount

-----------------------------------------------------------------------------
(***************************************************************************)
(* What the types of the writer's handle rest on: it has a record whenever *)
(* it is about to use one, and never writes more of it than there is.      *)
(***************************************************************************)
WriterSound ==
  /\ w.pc \in {"space", "popped", "header", "payload", "publish"} \/ Streaming(w) => w.rec \in Records
  /\ w.pc \in {"space", "popped", "header"} =>
       w.call \in {"Write", "StreamingWriteStart"} /\ w.chunk = Len(w.rec)
  /\ w.pc = "payload" =>
       \/ w.call = "Write" /\ w.chunk = Len(w.rec)
       \/ w.call = "StreamingWrite" /\ w.chunk <= w.remaining /\ w.remaining <= Len(w.rec)
  /\ Streaming(w) => w.remaining <= Len(w.rec)

(* The reader's handle is in the WrappingRead its call makes, and takes no *)
(* more of a record than remains.                                          *)
ReaderSound ==
  /\ r.pc \in {"header", "decode"} => r.call \in {"NextRecordSize", "Read", "StreamingReadStart"}
  /\ r.pc = "payload" =>
       \/ r.call = "Read"
       \/ r.call = "StreamingRead" /\ r.chunk <= r.remaining

TypeInv == TypeOK /\ WriterSound /\ ReaderSound

(* A handle whose call has returned. *)
LEMMA WriteReturnsIs ==
  ASSUME NEW h \in WriterHandle, NEW v \in {"none", "true", "false"}
  PROVE  /\ WriteReturns(h, v) \in WriterHandle
         /\ WriteReturns(h, v).pc = "idle"
         /\ WriteReturns(h, v).done = 0
         /\ WriteReturns(h, v).offset = h.offset
         /\ WriteReturns(h, v).remaining = h.remaining
         /\ WriteReturns(h, v).rec = IF Streaming(h) THEN h.rec ELSE << >>
BY DEF WriteReturns, WriterHandle

LEMMA ReadReturnsIs ==
  ASSUME NEW h \in ReaderHandle, NEW v \in {"none", "true", "false"}
  PROVE  /\ ReadReturns(h, v) \in ReaderHandle
         /\ ReadReturns(h, v).pc = "idle"
         /\ ReadReturns(h, v).at = h.at
<1>1. [j \in BufferIndex |-> 0] \in [BufferIndex -> Byte]
  BY VarintAssumption DEF Byte
<1> QED
  BY <1>1 DEF ReadReturns, ReaderHandle, NewReader

LEMMA NewWriterType == NewWriter \in WriterHandle
BY Constants DEF NewWriter, WriterHandle

LEMMA NewReaderType == NewReader \in ReaderHandle
<1>1. 0 \in Byte
  BY VarintAssumption DEF Byte
<1> QED
  BY <1>1 DEF NewReader, ReaderHandle

(* The frame at an offset, if there is one, is a live one. *)
LEMMA FrameAtType ==
  ASSUME NEW o, live \in Seq(Frame)
  PROVE  FrameAt(o) \in Frame \cup {NoFrame}
BY DEF FrameAt

LEMMA InitTypes ==
  ASSUME Init
  PROVE  TypeInv
<1>1. 0 \in 0 .. Word - 1 /\ 0 \in Byte /\ << >> \in Seq(Frame)
  BY Constants, VarintAssumption DEF Byte
<1>2. TypeOK
  BY <1>1, NewWriterType, NewReaderType DEF Init, TypeOK
<1>3. WriterSound /\ ReaderSound
  BY DEF Init, WriterSound, ReaderSound, NewWriter, NewReader, Streaming
<1> QED
  BY <1>2, <1>3 DEF TypeInv

-----------------------------------------------------------------------------
(* Opening, closing, dying, and the entry of a write. *)
LEMMA WriterEntryTypes ==
  ASSUME TypeInv,
         \/ OpenAppend
         \/ StopWriter
         \/ \E rec \in Records : Write(rec) \/ StreamingWriteStart(rec)
         \/ \E n \in Sizes : StreamingWrite(n)
         \/ PopFails
         \/ EnoughSpace
  PROVE  TypeInv'
<1> USE DEF TypeInv, TypeOK
<1>1. UNCHANGED <<start_offset, end_offset, data, live, r, target>>
  BY DEF OpenAppend, StopWriter, Write, StreamingWriteStart, StartWrite, StreamingWrite,
         PopFails, EnoughSpace
<1>2. SUFFICES w' \in WriterHandle /\ WriterSound'
  BY <1>1 DEF ReaderSound
<1>3. CASE OpenAppend
  BY <1>3, NewWriterType DEF OpenAppend, WriterSound, NewWriter, Streaming
<1>4. CASE StopWriter
  <2>1. w' = [NewWriter EXCEPT !.pc = "closed"]
    BY <1>4 DEF StopWriter
  <2>2. w' \in WriterHandle
    BY <2>1, NewWriterType DEF WriterHandle
  <2>3. w'.pc = "closed" /\ w'.offset = 0
    BY <2>1 DEF NewWriter
  <2> QED
    BY <2>2, <2>3 DEF WriterSound, Streaming
<1>5. ASSUME NEW call \in {"Write", "StreamingWriteStart"}, NEW rec \in Records, StartWrite(call, rec)
      PROVE  w' \in WriterHandle /\ WriterSound'
  <2> DEFINE begun == [w EXCEPT !.pc = "space", !.call = call, !.ret = "none",
                                !.rec = rec, !.chunk = Len(rec)]
  <2>1. Len(rec) \in Nat
    BY RecordLength
  <2>2. /\ begun \in WriterHandle /\ begun.pc = "space" /\ begun.call = call
        /\ begun.rec = rec /\ begun.chunk = Len(rec) /\ begun.offset = 0
    BY <1>5, <2>1 DEF StartWrite, Streaming, WriterHandle
  <2>3. w' = WriteReturns(begun, "false") \/ w' = begun
    BY <1>5 DEF StartWrite
  <2> HIDE DEF begun
  <2>4. CASE w' = begun
    BY <2>2, <2>4 DEF WriterSound, Streaming
  <2>5. CASE w' = WriteReturns(begun, "false")
    <3>1. w' \in WriterHandle /\ w'.pc = "idle" /\ w'.offset = 0
      BY <2>2, <2>5, WriteReturnsIs
    <3> QED
      BY <3>1 DEF WriterSound, Streaming
  <2> QED
    BY <2>3, <2>4, <2>5
<1>6. ASSUME NEW n \in Sizes, StreamingWrite(n)
      PROVE  w' \in WriterHandle /\ WriterSound'
  <2>1. n \in Nat
    BY Constants
  <2>2. w' \in WriterHandle
    BY <1>6, <2>1 DEF StreamingWrite, WriterHandle
  <2>3. /\ w'.pc = "payload" /\ w'.call = "StreamingWrite" /\ w'.chunk = n /\ n <= w'.remaining
        /\ w'.remaining = w.remaining /\ w'.rec = w.rec /\ w'.offset = w.offset
    BY <1>6 DEF StreamingWrite, WriterHandle
  <2> QED
    BY <1>6, <2>2, <2>3 DEF StreamingWrite, WriterSound, Streaming
<1>7. CASE PopFails
  <2>1. w' = WriteReturns(w, "false")
    BY <1>7 DEF PopFails
  <2>2. /\ w' \in WriterHandle /\ w'.pc = "idle" /\ w'.offset = w.offset
        /\ w'.remaining = w.remaining /\ w'.rec = IF Streaming(w) THEN w.rec ELSE << >>
    BY <2>1, WriteReturnsIs
  <2> QED
    BY <2>2 DEF WriterSound, Streaming
<1>8. CASE EnoughSpace
  <2>1. w' \in WriterHandle
    BY <1>8 DEF EnoughSpace, WriterHandle
  <2>2. w.pc = "space" /\ w'.pc = "header" /\ w'.call = w.call /\ w'.chunk = w.chunk
        /\ w'.rec = w.rec /\ w'.offset = w.offset /\ w'.remaining = w.remaining
    BY <1>8 DEF EnoughSpace, WriterHandle
  <2> QED
    BY <2>1, <2>2 DEF WriterSound, Streaming
<1> QED
  BY <1>3, <1>4, <1>5, <1>6, <1>7, <1>8 DEF Write, StreamingWriteStart

(* PopRecord, whatever the bytes it takes for a record header are. *)
LEMMA PopTypes ==
  ASSUME TypeInv, PopRecord \/ ReduceStart
  PROVE  TypeInv'
<1> USE DEF TypeInv, TypeOK
<1>1. start_offset \in Nat /\ end_offset \in Nat
  BY OffsetTypes
<1>2. BytesAvailable(start_offset, end_offset) \in Nat
  BY <1>1, BytesTypes
<1>3. CASE PopRecord /\ w' = WriteReturns(w, "false") /\ UNCHANGED <<start_offset, live, target>>
  <2>1. /\ w' \in WriterHandle /\ w'.pc = "idle" /\ w'.offset = w.offset
        /\ w'.remaining = w.remaining /\ w'.rec = IF Streaming(w) THEN w.rec ELSE << >>
    BY <1>3, WriteReturnsIs
  <2> QED
    BY <1>3, <2>1 DEF PopRecord, WriterSound, ReaderSound, Streaming
<1>4. CASE /\ PopRecord
           /\ \E out \in ReadOutcomes(OldestHeader) : start_offset' = PopTo(out)
           /\ w' = [w EXCEPT !.pc = "popped", !.before = BytesAvailable(start_offset, end_offset)]
           /\ live' = IF live = << >> THEN live ELSE Tail(live)
           /\ target' = IF live # << >> /\ target = Head(live) THEN NoFrame ELSE target
  <2>1. OldestHeader \in [BufferIndex -> Byte]
    <3>1. \A j \in BufferIndex : (start_offset + j) % BytesMax \in Offset
      BY <1>1, OffsetTypes, IndicesAndBytes
    <3> QED
      BY <3>1 DEF OldestHeader
  <2>2. start_offset' \in 0 .. Word - 1
    <3>1. PICK out \in ReadOutcomes(OldestHeader) : start_offset' = PopTo(out)
      BY <1>4
    <3>2. out.value \in Nat /\ out.size \in Nat
      BY <2>1, OutcomeIsNat
    <3>3. start_offset + out.size + out.value \in Nat
      BY <1>1, <3>2
    <3> QED
      BY <3>1, <3>3, OffsetTypes DEF PopTo
  <2>3. w' \in WriterHandle
    BY <1>2, <1>4 DEF WriterHandle
  <2>4. live' \in Seq(Frame)
    BY <1>4
  <2>5. /\ w.pc = "space" /\ w'.pc = "popped" /\ w'.call = w.call /\ w'.chunk = w.chunk
        /\ w'.rec = w.rec /\ w'.offset = w.offset /\ w'.remaining = w.remaining
    BY <1>4 DEF PopRecord, WriterHandle
  <2>6. WriterSound'
    BY <2>5 DEF WriterSound, Streaming
  <2>7. UNCHANGED <<end_offset, data, r>>
    BY <1>4 DEF PopRecord
  <2> QED
    BY <1>4, <2>2, <2>3, <2>4, <2>6, <2>7 DEF ReaderSound
<1>5. CASE ReduceStart
  <2>1. start_offset' \in 0 .. Word - 1
    BY <1>1, <1>5, OffsetTypes DEF ReduceStart
  <2>2. w' \in WriterHandle
    BY <1>5 DEF ReduceStart, WriterHandle
  <2>3. /\ w.pc = "popped" /\ w'.pc \in {"space", "aborted"} /\ w'.call = w.call /\ w'.chunk = w.chunk
        /\ w'.rec = w.rec /\ w'.offset = w.offset /\ w'.remaining = w.remaining
    BY <1>5 DEF ReduceStart, WriterHandle
  <2>4. WriterSound'
    BY <2>3 DEF WriterSound, Streaming
  <2> QED
    BY <1>5, <2>1, <2>2, <2>4 DEF ReduceStart, ReaderSound
<1> QED
  BY <1>3, <1>4, <1>5 DEF PopRecord

(* What a write() stores are bytes: of the header, of the record, stray. *)
LEMMA StoredType ==
  ASSUME TypeInv, w.pc \in {"header", "payload"}, NEW at \in Nat, NEW count \in Nat, NEW stray \in Stray
  PROVE  Stored(at, count, stray) \in [Offset -> Byte]
<1> USE DEF TypeInv, TypeOK
<1>1. w.done \in Nat /\ w.chunk \in Nat /\ w.remaining \in Nat
  BY DEF WriterHandle
<1>2. w.rec \in Records /\ w.rec \in Seq(Byte) /\ Len(w.rec) \in Nat
  BY RecordLength DEF WriterSound
<1>3. \A j \in Nat : SourceByte(j, stray) \in Byte
  <2> SUFFICES ASSUME NEW j \in Nat PROVE SourceByte(j, stray) \in Byte
    OBVIOUS
  <2>1. CASE w.pc = "header"
    BY <1>2, <2>1, EncodedByteIs DEF SourceByte
  <2>2. CASE w.pc = "payload" /\ j < w.chunk
    <3>1. PieceStart + j + 1 \in 1 .. Len(w.rec)
      <4>1. CASE w.call = "Write" /\ w.chunk = Len(w.rec)
        BY <1>1, <1>2, <2>2, <4>1 DEF PieceStart
      <4>2. CASE w.call = "StreamingWrite" /\ w.chunk <= w.remaining /\ w.remaining <= Len(w.rec)
        BY <1>1, <1>2, <2>2, <4>2 DEF PieceStart
      <4> QED
        BY <2>2, <4>1, <4>2 DEF WriterSound
    <3> QED
      BY <1>2, <2>2, <3>1 DEF SourceByte
  <2>3. CASE w.pc = "payload" /\ ~(j < w.chunk)
    BY <2>3, Constants DEF SourceByte
  <2> QED
    BY <2>1, <2>2, <2>3
<1>4. \A c \in Offset : c >= at => w.done + c - at \in Nat
  <2>1. \A c \in Offset : c \in Nat
    BY OffsetTypes
  <2> QED
    BY <1>1, <2>1
<1> QED
  BY <1>3, <1>4 DEF Stored

(* Where a WrappingWrite goes and how long it is. *)
LEMMA PutTypes ==
  ASSUME TypeInv, w.pc \in {"header", "payload"}
  PROVE  PutOffset \in Nat /\ PutSize \in Nat
<1> USE DEF TypeInv, TypeOK
<1>1. w.rec \in Records
  BY DEF WriterSound
<1>2. ByteSize(Len(w.rec)) \in Nat
  BY <1>1, RecordLength, Constants
<1>3. end_offset \in Nat /\ w.offset \in Nat /\ w.chunk \in Nat
  BY OffsetTypes DEF WriterHandle
<1> QED
  BY <1>2, <1>3 DEF PutOffset, PutSize

(* A system call of WrappingWrite, whole or failing. *)
LEMMA TransferTypes ==
  ASSUME TypeInv, WriteSegment \/ WriteFails
  PROVE  TypeInv'
<1> USE DEF TypeInv, TypeOK
<1> DEFINE at == SegmentAt(PutOffset, w.done)
           count == SegmentCount(PutOffset, PutSize, w.done)
<1>1. w.pc \in {"header", "payload"} /\ UNCHANGED <<start_offset, end_offset, live, r, target>>
  BY DEF WriteSegment, WriteFails
<1>2. PutOffset \in Nat /\ PutSize \in Nat
  BY <1>1, PutTypes
<1>3. w.done \in Nat /\ w.chunk \in Nat /\ w.remaining \in Nat
  BY DEF WriterHandle
<1>4. at \in Nat /\ count \in Nat
  <2>1. at \in Offset /\ count \in Nat
    BY <1>2, <1>3, SegmentTypes
  <2> QED
    BY <2>1, OffsetTypes
<1>5. w.rec \in Records /\ Len(w.rec) \in Nat
  BY <1>1, RecordLength DEF WriterSound
<1>6. data' \in [Offset -> Byte]
  <2>1. CASE WriteSegment
    BY <1>1, <1>4, <2>1, StoredType DEF WriteSegment
  <2>2. CASE WriteFails
    <3>1. \A k \in 0 .. count - 1 : k \in Nat
      BY <1>4
    <3> QED
      BY <1>1, <1>4, <2>2, <3>1, StoredType DEF WriteFails
  <2> QED
    BY <2>1, <2>2
<1> HIDE DEF at, count
<1>7. ASSUME w' = WriteReturns(w, "false")
      PROVE  w' \in WriterHandle /\ WriterSound'
  <2>1. /\ w' \in WriterHandle /\ w'.pc = "idle" /\ w'.offset = w.offset
        /\ w'.remaining = w.remaining /\ w'.rec = IF Streaming(w) THEN w.rec ELSE << >>
    BY <1>7, WriteReturnsIs
  <2> QED
    BY <2>1 DEF WriterSound, Streaming
<1>8. ASSUME w' = [w EXCEPT !.done = count]
      PROVE  w' \in WriterHandle /\ WriterSound'
  <2>1. w' \in WriterHandle
    BY <1>4, <1>8 DEF WriterHandle
  <2>2. /\ w'.pc = w.pc /\ w'.call = w.call /\ w'.chunk = w.chunk
        /\ w'.rec = w.rec /\ w'.offset = w.offset /\ w'.remaining = w.remaining
    BY <1>8 DEF WriterHandle
  <2> QED
    BY <2>1, <2>2 DEF WriterSound, Streaming
<1>9. ASSUME w' = AfterPut
      PROVE  w' \in WriterHandle /\ WriterSound'
  <2>1. CASE w.call = "Write"
    <3>1. w' = [w EXCEPT !.pc = IF w.pc = "header" THEN "payload" ELSE "publish", !.done = 0]
      BY <1>9, <2>1 DEF AfterPut
    <3>2. w' \in WriterHandle
      BY <3>1 DEF WriterHandle
    <3>3. /\ w'.pc = IF w.pc = "header" THEN "payload" ELSE "publish"
          /\ w'.call = "Write" /\ w'.chunk = w.chunk
          /\ w'.rec = w.rec /\ w'.offset = w.offset /\ w'.remaining = w.remaining
      BY <2>1, <3>1 DEF WriterHandle
    <3>4. CASE w.pc = "header"
      BY <1>5, <3>2, <3>3, <3>4 DEF WriterSound, Streaming
    <3>5. CASE w.pc = "payload"
      BY <1>5, <3>2, <3>3, <3>5 DEF WriterSound, Streaming
    <3> QED
      BY <1>1, <3>4, <3>5
  <2>2. CASE w.call # "Write"
    <3> DEFINE o == (PutOffset + PutSize) % Word
               rest == IF w.pc = "header" THEN Len(w.rec) ELSE w.remaining - w.chunk
               h == [w EXCEPT !.offset = o, !.remaining = rest]
    <3>1. w' = WriteReturns(h, "true")
      BY <1>9, <2>2 DEF AfterPut
    <3>2. o \in 0 .. Word - 1
      <4>1. PutOffset + PutSize \in Nat
        BY <1>2
      <4> QED
        BY <4>1, OffsetTypes
    <3>3. rest \in Nat /\ rest <= Len(w.rec)
      BY <1>1, <1>3, <1>5, <2>2 DEF WriterSound
    <3>4. h \in WriterHandle /\ h.rec = w.rec /\ h.remaining = rest /\ h.offset = o
      <4> HIDE DEF o, rest
      <4> QED
        BY <3>2, <3>3 DEF WriterHandle
    <3> HIDE DEF h, o, rest
    <3>5. /\ w' \in WriterHandle /\ w'.pc = "idle" /\ w'.offset = h.offset
          /\ w'.remaining = h.remaining /\ w'.rec = IF Streaming(h) THEN h.rec ELSE << >>
      BY <3>1, <3>4, WriteReturnsIs
    <3> QED
      BY <1>5, <3>3, <3>4, <3>5 DEF WriterSound, Streaming
  <2> QED
    BY <2>1, <2>2
<1>10. w' = WriteReturns(w, "false") \/ w' = [w EXCEPT !.done = count] \/ w' = AfterPut
  BY DEF WriteSegment, WriteFails, count
<1>11. w' \in WriterHandle /\ WriterSound'
  BY <1>7, <1>8, <1>9, <1>10
<1> QED
  BY <1>1, <1>6, <1>11 DEF ReaderSound

(* The stores to the end offset. *)
LEMMA EndTypes ==
  ASSUME TypeInv, Publish \/ StreamingWriteFinish \/ ReduceEnd
  PROVE  TypeInv'
<1> USE DEF TypeInv, TypeOK
<1>1. start_offset \in Nat /\ end_offset \in Nat /\ w.offset \in 0 .. Word - 1
  BY OffsetTypes DEF WriterHandle
<1>2. ASSUME NEW end \in 0 .. Word - 1, NEW frames \in Seq(Frame), StoreEnd(end, frames),
             w' \in WriterHandle, WriterSound'
      PROVE  TypeInv'
  <2>1. /\ end_offset' \in 0 .. Word - 1 /\ live' \in Seq(Frame) /\ target' \in Frame \cup {NoFrame}
        /\ UNCHANGED <<start_offset, data, r>>
    BY <1>2 DEF StoreEnd
  <2> QED
    BY <1>2, <2>1 DEF ReaderSound
<1>3. ASSUME w.rec \in Records PROVE WithFrame \in Seq(Frame)
  <2>1. [pos |-> end_offset % BytesMax, rec |-> w.rec] \in Frame
    BY <1>1, <1>3, OffsetTypes DEF Frame
  <2> QED
    BY <2>1 DEF WithFrame
<1>4. CASE Publish
  <2>1. w.rec \in Records
    BY <1>4 DEF Publish, WriterSound
  <2>2. (end_offset + FrameSize(w.rec)) % Word \in 0 .. Word - 1
    <3>1. end_offset + FrameSize(w.rec) \in Nat
      BY <1>1, <2>1, RecordLength
    <3> QED
      BY <3>1, OffsetTypes
  <2>3. w' \in WriterHandle /\ WriterSound'
    <3>1. w' \in WriterHandle
      BY <1>4 DEF Publish, WriterHandle
    <3>2. /\ w'.pc = "reduce" /\ w'.rec = w.rec /\ w'.offset = w.offset /\ w'.remaining = w.remaining
      BY <1>4 DEF Publish, WriterHandle
    <3> QED
      BY <3>1, <3>2 DEF WriterSound, Streaming
  <2> QED
    BY <1>2, <1>3, <1>4, <2>1, <2>2, <2>3 DEF Publish
<1>5. CASE StreamingWriteFinish
  <2>1. w.rec \in Records
    BY <1>5 DEF StreamingWriteFinish, WriterSound
  <2>2. w' \in WriterHandle /\ WriterSound'
    <3>1. w' \in WriterHandle
      BY <1>5 DEF StreamingWriteFinish, WriterHandle
    <3>2. /\ w'.pc = "reduce" /\ w'.rec = w.rec /\ w'.offset = w.offset /\ w'.remaining = w.remaining
      BY <1>5 DEF StreamingWriteFinish, WriterHandle
    <3> QED
      BY <3>1, <3>2 DEF WriterSound, Streaming
  <2> QED
    BY <1>1, <1>2, <1>3, <1>5, <2>1, <2>2 DEF StreamingWriteFinish
<1>6. CASE ReduceEnd
  <2> DEFINE h == [w EXCEPT !.offset = 0]
  <2>1. h \in WriterHandle /\ h.offset = 0
    <3>1. 0 \in 0 .. Word - 1
      BY Constants
    <3> QED
      BY <3>1 DEF WriterHandle
  <2>2. w' = WriteReturns(h, "true")
    BY <1>6 DEF ReduceEnd
  <2> HIDE DEF h
  <2>3. w' \in WriterHandle /\ w'.pc = "idle" /\ w'.offset = 0
    BY <2>1, <2>2, WriteReturnsIs
  <2>4. WriterSound'
    BY <2>3 DEF WriterSound, Streaming
  <2>5. ReducedEnd \in 0 .. Word - 1
    BY <1>1, OffsetTypes DEF ReducedEnd
  <2> QED
    BY <1>2, <1>6, <2>3, <2>4, <2>5 DEF ReduceEnd
<1> QED
  BY <1>4, <1>5, <1>6

-----------------------------------------------------------------------------
(* A step of the reader changes the handle and the auxiliary target only. *)
LEMMA ReaderFrame ==
  ASSUME TypeInv, UNCHANGED <<start_offset, end_offset, data, live, w>>,
         r' \in ReaderHandle, ReaderSound', target' \in Frame \cup {NoFrame}
  PROVE  TypeInv'
BY DEF TypeInv, TypeOK, WriterSound, Streaming

LEMMA ReaderEntryTypes ==
  ASSUME TypeInv,
         \/ OpenRead
         \/ CloseRead
         \/ NextRecordSize
         \/ StreamingReadStart
         \/ \E n \in Sizes : Read(n)
         \/ ReadNext
         \/ \E n \in Sizes : StreamingRead(n)
         \/ ReadFails
         \/ StreamingReadFinish
  PROVE  TypeInv'
<1> USE DEF TypeInv, TypeOK
<1>1. CASE OpenRead
  <2>1. start_offset \in Nat
    BY OffsetTypes
  <2>2. r' \in ReaderHandle /\ r'.pc = "idle"
    BY <1>1, <2>1, NewReaderType DEF OpenRead, ReaderHandle
  <2> QED
    BY <1>1, <2>2, ReaderFrame DEF OpenRead, ReaderSound
<1>2. CASE CloseRead
  <2>1. r' \in ReaderHandle /\ r'.pc = "closed"
    BY <1>2, NewReaderType DEF CloseRead, NewReader
  <2> QED
    BY <1>2, <2>1, ReaderFrame DEF CloseRead, ReaderSound
<1>3. ASSUME NEW call \in {"NextRecordSize", "Read", "StreamingReadStart"}, NEW n \in Nat,
             StartRead(call, n)
      PROVE  TypeInv'
  <2> DEFINE begun == [NewReader EXCEPT !.pc = "header", !.call = call, !.at = r.at, !.chunk = n]
  <2>1. r.at \in Nat
    BY DEF ReaderHandle
  <2>2. begun \in ReaderHandle /\ begun.pc = "header" /\ begun.call = call
    BY <2>1, NewReaderType DEF ReaderHandle
  <2>3. /\ r' = begun \/ r' = ReadReturns(begun, "false")
        /\ target' = NoFrame \/ target' = FrameAt(r.at)
        /\ UNCHANGED <<start_offset, end_offset, data, live, w>>
    BY <1>3 DEF StartRead
  <2> HIDE DEF begun
  <2>4. target' \in Frame \cup {NoFrame}
    BY <2>3, FrameAtType
  <2>5. r' \in ReaderHandle /\ ReaderSound'
    <3>1. CASE r' = begun
      BY <2>2, <3>1 DEF ReaderSound
    <3>2. CASE r' = ReadReturns(begun, "false")
      <4>1. r' \in ReaderHandle /\ r'.pc = "idle"
        BY <2>2, <3>2, ReadReturnsIs
      <4> QED
        BY <4>1 DEF ReaderSound
    <3> QED
      BY <2>3, <3>1, <3>2
  <2> QED
    BY <2>3, <2>4, <2>5, ReaderFrame
<1>4. ASSUME NEW n \in Sizes, StreamingRead(n)
      PROVE  TypeInv'
  <2> DEFINE size == IF n > r.remaining THEN r.remaining ELSE n
             begun == [r EXCEPT !.pc = "payload", !.call = "StreamingRead", !.ret = "none",
                                !.chunk = size]
  <2>1. size \in Nat /\ r.remaining \in Nat /\ size <= r.remaining
    BY Constants DEF ReaderHandle
  <2>2. r' = begun \/ r' = ReadReturns(begun, "true")
    BY <1>4 DEF StreamingRead
  <2> HIDE DEF size
  <2>3. /\ begun \in ReaderHandle /\ begun.pc = "payload" /\ begun.call = "StreamingRead"
        /\ begun.chunk = size /\ begun.remaining = r.remaining
    BY <2>1 DEF ReaderHandle
  <2> HIDE DEF begun
  <2>4. r' \in ReaderHandle /\ ReaderSound'
    <3>1. CASE r' = begun
      BY <2>1, <2>3, <3>1 DEF ReaderSound
    <3>2. CASE r' = ReadReturns(begun, "true")
      <4>1. r' \in ReaderHandle /\ r'.pc = "idle"
        BY <2>3, <3>2, ReadReturnsIs
      <4> QED
        BY <4>1 DEF ReaderSound
    <3> QED
      BY <2>2, <3>1, <3>2
  <2> QED
    BY <1>4, <2>4, ReaderFrame DEF StreamingRead
<1>5. CASE ReadFails
  <2>1. r' \in ReaderHandle /\ r'.pc = "idle"
    BY <1>5, ReadReturnsIs DEF ReadFails
  <2> QED
    BY <1>5, <2>1, ReaderFrame DEF ReadFails, ReaderSound
<1>6. CASE StreamingReadFinish
  <2> DEFINE h == ReadReturns(r, "true")
  <2>1. r' = [h EXCEPT !.call = "StreamingReadFinish", !.offset = 0]
    BY <1>6 DEF StreamingReadFinish
  <2>2. h \in ReaderHandle /\ h.pc = "idle"
    BY ReadReturnsIs
  <2> HIDE DEF h
  <2>3. r' \in ReaderHandle /\ r'.pc = "idle"
    BY <2>1, <2>2 DEF ReaderHandle
  <2> QED
    BY <1>6, <2>3, ReaderFrame DEF StreamingReadFinish, ReaderSound
<1>7. ASSUME ReadNext PROVE r.size \in Nat
  BY DEF ReaderHandle
<1> QED
  BY <1>1, <1>2, <1>3, <1>4, <1>5, <1>6, <1>7, Constants
     DEF NextRecordSize, StreamingReadStart, Read, ReadNext

(* A system call of WrappingRead for a header, and its decoding. *)
LEMMA HeaderTypes ==
  ASSUME TypeInv, ReadHeader \/ DecodeHeader
  PROVE  TypeInv'
<1> USE DEF TypeInv, TypeOK
<1>0. /\ r.at \in Nat /\ r.done \in Nat /\ r.chunk \in Nat
      /\ r.header \in [BufferIndex -> Byte]
  BY DEF ReaderHandle
<1>1. CASE ReadHeader
  <2> DEFINE at == SegmentAt(r.at, r.done)
             count == SegmentCount(r.at, kMaxSize, r.done)
             header == [j \in BufferIndex |->
                          IF j >= r.done /\ j < r.done + count THEN data[at + j - r.done]
                                                               ELSE r.header[j]]
  <2>1. kMaxSize \in Nat
    BY Constants
  <2>2. at \in Nat /\ count \in Nat
    <3>1. at \in Offset /\ count \in Nat
      BY <1>0, <2>1, SegmentTypes
    <3> QED
      BY <3>1, OffsetTypes
  <2>3. ASSUME ReadFits(r.at, kMaxSize, r.done) PROVE header \in [BufferIndex -> Byte]
    <3>1. at + count <= BytesMax
      BY <2>3 DEF ReadFits
    <3>2. ASSUME NEW j \in BufferIndex, j >= r.done, j < r.done + count
          PROVE  data[at + j - r.done] \in Byte
      <4>1. j \in Nat
        BY IndicesAndBytes
      <4> HIDE DEF at, count
      <4>2. at + j - r.done \in Offset
        BY <1>0, <2>2, <3>1, <3>2, <4>1, Constants DEF Offset
      <4> QED
        BY <4>2
    <3> HIDE DEF at, count
    <3> QED
      BY <1>0, <3>2
  <2> HIDE DEF at, count
  <2>4. r.pc = "header"
    BY <1>1 DEF ReadHeader
  <2>5. \/ r' = ReadReturns(r, "false")
        \/ ReadFits(r.at, kMaxSize, r.done) /\ r' = [r EXCEPT !.header = header, !.done = count]
        \/ /\ ReadFits(r.at, kMaxSize, r.done)
           /\ r' = [r EXCEPT !.header = header, !.done = 0, !.pc = "decode"]
    BY <1>1 DEF ReadHeader, at, count
  <2>6. r' \in ReaderHandle /\ ReaderSound'
    <3> HIDE DEF header
    <3>1. CASE r' = ReadReturns(r, "false")
      <4>1. r' \in ReaderHandle /\ r'.pc = "idle"
        BY <3>1, ReadReturnsIs
      <4> QED
        BY <4>1 DEF ReaderSound
    <3>2. CASE /\ ReadFits(r.at, kMaxSize, r.done)
               /\ r' = [r EXCEPT !.header = header, !.done = count]
      <4>1. r' \in ReaderHandle /\ r'.pc = "header" /\ r'.call = r.call
        BY <2>2, <2>3, <2>4, <3>2 DEF ReaderHandle
      <4> QED
        BY <2>4, <4>1 DEF ReaderSound
    <3>3. CASE /\ ReadFits(r.at, kMaxSize, r.done)
               /\ r' = [r EXCEPT !.header = header, !.done = 0, !.pc = "decode"]
      <4>1. r' \in ReaderHandle /\ r'.pc = "decode" /\ r'.call = r.call
        BY <2>3, <3>3 DEF ReaderHandle
      <4> QED
        BY <2>4, <4>1 DEF ReaderSound
    <3> QED
      BY <2>5, <3>1, <3>2, <3>3
  <2> QED
    BY <1>1, <2>6, ReaderFrame DEF ReadHeader
<1>2. CASE DecodeHeader
  <2> DEFINE decoded(out) == [r EXCEPT !.hsize = out.size, !.size = out.value]
  <2>1. PICK out \in ReadOutcomes(r.header) :
          r' = CASE r.call = "NextRecordSize" -> ReadReturns(decoded(out), "true")
                 [] r.call = "Read" ->
                      IF out.value > r.chunk THEN ReadReturns(decoded(out), "false")
                      ELSE [decoded(out) EXCEPT !.pc = "payload", !.chunk = out.value]
                 [] r.call = "StreamingReadStart" ->
                      [ReadReturns(decoded(out), "true") EXCEPT
                         !.offset = r.at + out.size,
                         !.remaining = out.value,
                         !.at = Advance(r.at, out.size + out.value)]
    BY <1>2 DEF DecodeHeader
  <2>2. out.value \in Nat /\ out.size \in Nat
    BY <1>0, OutcomeIsNat
  <2>3. decoded(out) \in ReaderHandle /\ decoded(out).call = r.call
    BY <2>2 DEF ReaderHandle
  <2>4. r.call \in {"NextRecordSize", "Read", "StreamingReadStart"}
    BY <1>2 DEF DecodeHeader, ReaderSound
  <2>5. Advance(r.at, out.size + out.value) \in Nat
    <3>1. r.at + (out.size + out.value) \in Nat
      BY <1>0, <2>2
    <3>2. ((r.at + (out.size + out.value)) % Word) % BytesMax \in Offset
      BY <3>1, OffsetTypes
    <3> QED
      BY <3>2, OffsetTypes DEF Advance
  <2> HIDE DEF decoded
  <2>6. CASE r' = ReadReturns(decoded(out), "true") \/ r' = ReadReturns(decoded(out), "false")
    <3>1. r' \in ReaderHandle /\ r'.pc = "idle"
      BY <2>3, <2>6, ReadReturnsIs
    <3> QED
      BY <1>2, <3>1, ReaderFrame DEF DecodeHeader, ReaderSound
  <2>7. CASE /\ r.call = "Read"
             /\ r' = [decoded(out) EXCEPT !.pc = "payload", !.chunk = out.value]
    <3>1. r' \in ReaderHandle /\ r'.pc = "payload" /\ r'.call = "Read"
      BY <2>2, <2>3, <2>7 DEF ReaderHandle
    <3> QED
      BY <1>2, <3>1, ReaderFrame DEF DecodeHeader, ReaderSound
  <2>8. CASE r' = [ReadReturns(decoded(out), "true") EXCEPT
                     !.offset = r.at + out.size,
                     !.remaining = out.value,
                     !.at = Advance(r.at, out.size + out.value)]
    <3> DEFINE h == ReadReturns(decoded(out), "true")
    <3>1. h \in ReaderHandle /\ h.pc = "idle"
      BY <2>3, ReadReturnsIs
    <3> HIDE DEF h
    <3>2. r' = [h EXCEPT !.offset = r.at + out.size,
                         !.remaining = out.value,
                         !.at = Advance(r.at, out.size + out.value)]
      BY <2>8 DEF h
    <3>3. r' \in ReaderHandle /\ r'.pc = "idle"
      <4> DEFINE off == r.at + out.size
                 rest == out.value
                 next == Advance(r.at, out.size + out.value)
      <4>1. off \in Nat /\ rest \in Nat /\ next \in Nat
        BY <1>0, <2>2, <2>5
      <4>2. r' = [h EXCEPT !.offset = off, !.remaining = rest, !.at = next]
        BY <3>2
      <4> HIDE DEF off, rest, next
      <4> QED
        BY <3>1, <4>1, <4>2 DEF ReaderHandle
    <3> QED
      BY <1>2, <3>3, ReaderFrame DEF DecodeHeader, ReaderSound
  <2> QED
    BY <2>1, <2>4, <2>6, <2>7, <2>8
<1> QED
  BY <1>1, <1>2

(* A system call of WrappingRead for a record. *)
LEMMA FetchTypes ==
  ASSUME TypeInv, ReadSegment
  PROVE  TypeInv'
<1> USE DEF TypeInv, TypeOK
<1> DEFINE at == SegmentAt(GetOffset, r.done)
           count == SegmentCount(GetOffset, r.chunk, r.done)
           got == IF Refused(count) THEN r ELSE [r EXCEPT !.buffer = Fetched(at, count)]
<1>1. /\ r.pc = "payload"
      /\ r.at \in Nat /\ r.hsize \in Nat /\ r.size \in Nat /\ r.chunk \in Nat
      /\ r.done \in Nat /\ r.offset \in Nat /\ r.remaining \in Nat
      /\ r.buffer \in [0 .. BufMax - 1 -> Byte]
  BY DEF ReadSegment, ReaderHandle
<1>2. GetOffset \in Nat
  BY <1>1 DEF GetOffset
<1>3. at \in Nat /\ count \in Nat
  <2>1. at \in Offset /\ count \in Nat
    BY <1>1, <1>2, SegmentTypes
  <2> QED
    BY <2>1, OffsetTypes
<1> HIDE DEF at, count
<1>4. Fetched(at, count) \in [0 .. BufMax - 1 -> Byte]
  <2>1. GetStart \in Int
    BY <1>1 DEF GetStart
  <2>2. ASSUME NEW i \in Int, i >= 0, at + i < BytesMax PROVE data[at + i] \in Byte
    <3>1. at + i \in Offset
      BY <1>3, <2>2, Constants DEF Offset
    <3> QED
      BY <3>1
  <2>3. \A j \in 0 .. BufMax - 1 : j - GetStart - r.done \in Int
    BY <1>1, <2>1, Constants
  <2> QED
    BY <1>1, <2>2, <2>3 DEF Fetched
<1>5. got \in ReaderHandle /\ got.pc = "payload" /\ got.call = r.call
      /\ got.chunk = r.chunk /\ got.remaining = r.remaining
  BY <1>1, <1>4 DEF ReaderHandle
<1>6. \/ r' = ReadReturns(r, "false")
      \/ r' = [got EXCEPT !.done = count]
      \/ r' = AfterGet(got)
  BY DEF ReadSegment, at, count
<1> HIDE DEF got
<1>7. CASE r' = ReadReturns(r, "false")
  <2>1. r' \in ReaderHandle /\ r'.pc = "idle"
    BY <1>7, ReadReturnsIs
  <2> QED
    BY <2>1, ReaderFrame DEF ReadSegment, ReaderSound
<1>8. CASE r' = [got EXCEPT !.done = count]
  <2>1. /\ r' \in ReaderHandle /\ r'.pc = "payload" /\ r'.call = r.call
        /\ r'.chunk = r.chunk /\ r'.remaining = r.remaining
    BY <1>3, <1>5, <1>8 DEF ReaderHandle
  <2> QED
    BY <2>1, ReaderFrame DEF ReadSegment, ReaderSound
<1>9. CASE r' = AfterGet(got)
  <2> DEFINE h == ReadReturns(got, "true")
             next == Advance(r.at, r.hsize + r.size)
             off == r.offset + r.chunk
             rest == r.remaining - r.chunk
  <2>1. h \in ReaderHandle /\ h.pc = "idle"
    BY <1>5, ReadReturnsIs
  <2>2. next \in Nat
    <3>1. r.at + (r.hsize + r.size) \in Nat
      BY <1>1
    <3>2. ((r.at + (r.hsize + r.size)) % Word) % BytesMax \in Offset
      BY <3>1, OffsetTypes
    <3> QED
      BY <3>2, OffsetTypes DEF Advance
  <2>3. off \in Nat /\ (r.call # "Read" => rest \in Nat)
    BY <1>1 DEF ReaderSound
  <2>4. \/ r' = [h EXCEPT !.at = next]
        \/ r.call # "Read" /\ r' = [h EXCEPT !.offset = off, !.remaining = rest]
    BY <1>9 DEF AfterGet
  <2> HIDE DEF h, next, off, rest
  <2>5. r' \in ReaderHandle /\ r'.pc = "idle"
    BY <2>1, <2>2, <2>3, <2>4 DEF ReaderHandle
  <2> QED
    BY <2>5, ReaderFrame DEF ReadSegment, ReaderSound
<1> QED
  BY <1>6, <1>7, <1>8, <1>9

-----------------------------------------------------------------------------
LEMMA StepTypes ==
  ASSUME TypeInv, [Next]_vars
  PROVE  TypeInv'
<1>1. CASE UNCHANGED vars
  BY <1>1 DEF vars, TypeInv, TypeOK, WriterSound, ReaderSound, Streaming
<1>2. CASE Writer
  BY <1>2, WriterEntryTypes, PopTypes, TransferTypes, EndTypes DEF Writer, WriterStep
<1>3. CASE Reader
  BY <1>3, ReaderEntryTypes, HeaderTypes, FetchTypes DEF Reader
<1> QED
  BY <1>1, <1>2, <1>3 DEF Next

(***************************************************************************)
(* Whatever the bytes of the file, the records, the calls, the faults and  *)
(* the interleaving of the two handles: offsets keep to 64 bits, the bytes *)
(* that remain of a streamed record, an unsigned number in the code, never *)
(* become negative, a read or a write stays inside the data area, and a    *)
(* frame that enters the ring is the one of a record somebody wrote.       *)
(***************************************************************************)
THEOREM TypeCorrect == Spec => []TypeOK
<1>1. Init => TypeInv
  BY InitTypes
<1>2. TypeInv /\ [Next]_vars => TypeInv'
  BY StepTypes
<1>3. TypeInv => TypeOK
  BY DEF TypeInv
<1> QED
  BY <1>1, <1>2, <1>3, PTL DEF Spec

-----------------------------------------------------------------------------
(***************************************************************************)
(* Safety.  All distances are taken from the start offset, where the live  *)
(* records lie one behind the other from 0 to Used, and the frame that is  *)
(* being written from Used on.                                             *)
(*                                                                         *)
(* What the four properties need, as TLC shows without it: no transfer is  *)
(* of no bytes, and no writer dies between the two stores to an offset.    *)
(***************************************************************************)
SafeUse ==
  /\ "torn" \notin Faults
  /\ 0 \notin Sizes
  /\ << >> \notin Records

(* The writer is in a call that writes a record, or between two of them. *)
Writing == w.pc \in {"header", "payload", "publish"} \/ (w.pc = "idle" /\ Streaming(w))

(* Offsets are reduced but in the middle of their two stores. *)
Reduced ==
  /\ start_offset < 2 * BytesMax /\ end_offset < 2 * BytesMax
  /\ w.pc # "popped" => start_offset < BytesMax
  /\ w.pc # "reduce" => end_offset < BytesMax /\ Used < BytesMax

(* The frames between the offsets, and their order by distance. *)
Layout ==
  /\ Contiguous
  /\ \A i \in 1 .. Len(live) : FrameEnd(live[i]) <= Used
  /\ \A i, j \in 1 .. Len(live) : i < j => FrameEnd(live[i]) <= Distance(live[j].pos)

(* Bytes of the frame being written that are in the file. *)
Progress ==
  IF w.pc = "publish" THEN FrameSize(w.rec)
  ELSE IF w.pc = "idle" THEN w.offset - end_offset
  ELSE PutOffset - end_offset + w.done

(* They are in their place. *)
FrameBegun ==
  Writing => \A j \in 0 .. Progress - 1 :
               data[(end_offset + j) % BytesMax] = FrameByte(w.rec, j)

(* The space the writer counts on, and where it writes. *)
SpaceOK ==
  /\ w.pc \in {"space", "popped"} \/ Writing => FrameSize(w.rec) < BytesMax
  /\ Writing => Used + FrameSize(w.rec) <= BytesMax
  /\ w.pc = "popped" => w.before < BytesMax - Used

PlaceOK ==
  /\ w.pc \in {"space", "popped", "header", "publish"} \/ (w.pc = "payload" /\ w.call = "Write")
       => w.offset = 0
  /\ (w.pc = "idle" /\ Streaming(w)) \/ (w.pc = "payload" /\ w.call = "StreamingWrite")
       => w.offset = end_offset + FrameSize(w.rec) - w.remaining
  /\ w.pc = "payload" => w.chunk > 0
  /\ w.pc \notin {"header", "payload"} => w.done = 0
  /\ w.pc \in {"header", "payload"} /\ w.done # 0
       => ~Simple(PutOffset, PutSize) /\ w.done = EndBytes(PutOffset, PutSize)

RingInv ==
  /\ TypeInv
  /\ NoAbort
  /\ Reduced
  /\ Layout
  /\ LiveIntact
  /\ SpaceOK
  /\ PlaceOK
  /\ FrameBegun

-----------------------------------------------------------------------------
(* Remainders of numbers near the ring's size, without multiplication. *)
LEMMA Wrap ==
  ASSUME NEW m \in Nat \ {0}, NEW x \in Int
  PROVE  /\ x \in 0 .. m - 1 => x % m = x
         /\ x - m \in 0 .. m - 1 => x % m = x - m
         /\ x - 2 * m \in 0 .. m - 1 => x % m = x - 2 * m
         /\ x + m \in 0 .. m - 1 => x % m = x + m
         /\ x + 2 * m \in 0 .. m - 1 => x % m = x + 2 * m
<1>1. PICK k \in Int : x = k * m + (x % m) /\ x % m \in 0 .. m - 1
  <2>1. x \div m \in Int /\ x = (x \div m) * m + (x % m) /\ x % m \in 0 .. m - 1
    OBVIOUS
  <2> QED
    BY <2>1
<1> DEFINE q == x % m
<1>2. x = k * m + q /\ q \in 0 .. m - 1
  BY <1>1
<1> HIDE DEF q
<1>3. ASSUME NEW a \in Int, NEW y \in 0 .. m - 1, x = a * m + y
      PROVE  q = y
  <2>1. a * m + y = k * m + q
    BY <1>2, <1>3
  <2>2. a * m \in Int /\ k * m \in Int
    OBVIOUS
  <2>3. CASE a < k
    <3>1. (a + 1) * m <= k * m /\ (a + 1) * m = a * m + m
      BY <2>3
    <3> QED
      BY <1>2, <2>1, <2>2, <3>1
  <2>4. CASE k < a
    <3>1. (k + 1) * m <= a * m /\ (k + 1) * m = k * m + m
      BY <2>4
    <3> QED
      BY <1>2, <2>1, <2>2, <3>1
  <2>5. CASE a = k
    BY <1>2, <2>1, <2>2, <2>5
  <2> QED
    BY <2>3, <2>4, <2>5
<1>4. x \in 0 .. m - 1 => q = x
  <2>1. x = 0 * m + x
    OBVIOUS
  <2> QED
    BY <1>3, <2>1
<1>5. x - m \in 0 .. m - 1 => q = x - m
  <2>1. PICK a \in Int : a = 1
    OBVIOUS
  <2>2. x = a * m + (x - m)
    BY <2>1
  <2> QED
    BY <1>3, <2>2
<1>6. x - 2 * m \in 0 .. m - 1 => q = x - 2 * m
  <2>1. x = 2 * m + (x - 2 * m)
    OBVIOUS
  <2> QED
    BY <1>3, <2>1
<1>7. x + m \in 0 .. m - 1 => q = x + m
  <2>1. x = (-1) * m + (x + m)
    OBVIOUS
  <2> QED
    BY <1>3, <2>1
<1>8. x + 2 * m \in 0 .. m - 1 => q = x + 2 * m
  <2>1. x = (-2) * m + (x + 2 * m)
    OBVIOUS
  <2> QED
    BY <1>3, <2>1
<1> QED
  BY <1>4, <1>5, <1>6, <1>7, <1>8 DEF q

(* An offset as a place in the data area.  The provers' arithmetic is linear *)
(* as long as this is not expanded.                                          *)
Place(x) == x % BytesMax

(* The place of a number behind an offset, and of one ahead of it. *)
LEMMA WrapBehind ==
  ASSUME NEW x \in Int, - 2 * BytesMax <= x, x < BytesMax
  PROVE  /\ Place(x) \in 0 .. BytesMax - 1
         /\ Place(x) = x \/ Place(x) = x + BytesMax \/ Place(x) = x + 2 * BytesMax
<1>1. BytesMax \in Nat \ {0}
  BY Constants
<1>2. \/ x \in 0 .. BytesMax - 1
      \/ x + BytesMax \in 0 .. BytesMax - 1
      \/ x + 2 * BytesMax \in 0 .. BytesMax - 1
  BY <1>1
<1> QED
  BY <1>1, <1>2, Wrap DEF Place

LEMMA WrapAhead ==
  ASSUME NEW x \in Int, 0 <= x, x < 3 * BytesMax
  PROVE  /\ Place(x) \in 0 .. BytesMax - 1
         /\ Place(x) = x \/ Place(x) = x - BytesMax \/ Place(x) = x - 2 * BytesMax
<1>1. BytesMax \in Nat \ {0}
  BY Constants
<1>2. \/ x \in 0 .. BytesMax - 1
      \/ x - BytesMax \in 0 .. BytesMax - 1
      \/ x - 2 * BytesMax \in 0 .. BytesMax - 1
  BY <1>1
<1> QED
  BY <1>1, <1>2, Wrap DEF Place

-----------------------------------------------------------------------------
(* bytes_used() is the distance from one offset to the other. *)
LEMMA UsedIs ==
  ASSUME NEW s \in 0 .. 2 * BytesMax - 1, NEW e \in 0 .. 2 * BytesMax - 1, NEW u \in 0 .. BytesMax
  PROVE  BytesUsed(s, e) = u <=> e = s + u \/ (u < BytesMax /\ e = s + u - BytesMax)
<1>1. BytesMax \in Nat \ {0} /\ Word \in Nat /\ 4 * BytesMax < Word
  BY Constants, GeometryAssumption
<1>2. CASE s <= e
  BY <1>1, <1>2 DEF BytesUsed
<1>3. CASE e < s
  <2> DEFINE x == BytesMax - (s - e)
  <2>1. BytesUsed(s, e) = x % Word
    BY <1>3 DEF BytesUsed
  <2>2. x \in Int /\ x < BytesMax /\ - BytesMax <= x
    BY <1>1, <1>3
  <2> HIDE DEF x
  <2>3. CASE x >= 0
    <3>1. x % Word = x
      BY <1>1, <2>2, <2>3, Wrap
    <3> QED
      BY <1>1, <1>3, <2>1, <3>1 DEF x
  <2>4. CASE x < 0
    <3>1. x % Word = x + Word
      <4>1. Word \in Nat \ {0} /\ x + Word \in 0 .. Word - 1
        BY <1>1, <2>2, <2>4
      <4> QED
        BY <2>2, <4>1, Wrap
    <3> QED
      BY <1>1, <1>3, <2>1, <2>2, <2>4, <3>1 DEF x
  <2> QED
    BY <2>2, <2>3, <2>4
<1> QED
  BY <1>1, <1>2, <1>3

(* Where the j-th byte behind an offset lies, as long as it does not come  *)
(* round to the start.                                                     *)
LEMMA ByteDistance ==
  ASSUME NEW s \in 0 .. 2 * BytesMax - 1, NEW o \in Offset, NEW j \in Nat,
         ((o - s) % BytesMax) + j < BytesMax
  PROVE  (((o + j) % BytesMax) - s) % BytesMax = ((o - s) % BytesMax) + j
<1>1. BytesMax \in Nat \ {0}
  BY Constants
<1> DEFINE d == Place(o - s)
           p == Place(o + j)
           c == Place(p - s)
<1>2. o \in Nat /\ o < BytesMax /\ o - s \in Int /\ - 2 * BytesMax <= o - s /\ o - s < 3 * BytesMax
  BY <1>1 DEF Offset
<1>3. /\ d \in 0 .. BytesMax - 1
      /\ d = o - s \/ d = o - s + BytesMax \/ d = o - s + 2 * BytesMax
  BY <1>1, <1>2, WrapBehind
<1>4. d + j < BytesMax
  BY DEF Place
<1> HIDE DEF d
<1>5. /\ p \in 0 .. BytesMax - 1
      /\ p = o + j \/ p = o + j - BytesMax
  BY <1>1, <1>2, <1>3, <1>4, WrapAhead
<1> HIDE DEF p
<1>6. /\ c \in 0 .. BytesMax - 1
      /\ c = p - s \/ c = p - s + BytesMax \/ c = p - s + 2 * BytesMax
  BY <1>1, <1>5, WrapBehind
<1> HIDE DEF c
<1>7. c = d + j
  BY <1>1, <1>2, <1>3, <1>4, <1>5, <1>6
<1> QED
  BY <1>7 DEF c, p, d, Place

(* The same from the end of the last record. *)
LEMMA EndDistance ==
  ASSUME NEW s \in 0 .. 2 * BytesMax - 1, NEW e \in 0 .. 2 * BytesMax - 1, NEW k \in Nat,
         BytesUsed(s, e) \in Nat, BytesUsed(s, e) + k < BytesMax
  PROVE  (((e + k) % BytesMax) - s) % BytesMax = BytesUsed(s, e) + k
<1>1. BytesMax \in Nat \ {0}
  BY Constants
<1> DEFINE u == BytesUsed(s, e)
           p == Place(e + k)
           c == Place(p - s)
<1>2. u \in 0 .. BytesMax
  BY <1>1
<1>3. e = s + u \/ e = s + u - BytesMax
  BY <1>2, UsedIs
<1>4. u + k < BytesMax
  OBVIOUS
<1> HIDE DEF u
<1>5. /\ p \in 0 .. BytesMax - 1
      /\ p = e + k \/ p = e + k - BytesMax \/ p = e + k - 2 * BytesMax
  BY <1>1, <1>2, <1>4, WrapAhead
<1> HIDE DEF p
<1>6. /\ c \in 0 .. BytesMax - 1
      /\ c = p - s \/ c = p - s + BytesMax \/ c = p - s + 2 * BytesMax
  BY <1>1, <1>5, WrapBehind
<1> HIDE DEF c
<1>7. c = u + k
  BY <1>1, <1>2, <1>3, <1>4, <1>5, <1>6
<1> QED
  BY <1>7 DEF c, p, u, Place

(* When the start moves on by z bytes, what lies behind them comes nearer. *)
LEMMA PopDistance ==
  ASSUME NEW s \in Offset, NEW o \in Offset, NEW z \in Nat, z <= (o - s) % BytesMax
  PROVE  (o - (s + z)) % BytesMax = ((o - s) % BytesMax) - z
<1>1. BytesMax \in Nat \ {0} /\ s \in 0 .. BytesMax - 1 /\ o \in 0 .. BytesMax - 1
  BY Constants DEF Offset
<1> DEFINE d == Place(o - s)
           c == Place(o - (s + z))
<1>2. d \in 0 .. BytesMax - 1 /\ (d = o - s \/ d = o - s + BytesMax)
  BY <1>1, WrapBehind
<1>3. z <= d
  BY DEF Place
<1> HIDE DEF d
<1>4. /\ c \in 0 .. BytesMax - 1
      /\ c = o - s - z \/ c = o - s - z + BytesMax \/ c = o - s - z + 2 * BytesMax
  BY <1>1, <1>2, <1>3, WrapBehind
<1> HIDE DEF c
<1>5. c = d - z
  BY <1>1, <1>2, <1>3, <1>4
<1> QED
  BY <1>5 DEF c, d, Place

(* Reducing the start offset moves nothing. *)
LEMMA ReduceDistance ==
  ASSUME NEW s \in 0 .. 2 * BytesMax - 1, NEW o \in Offset
  PROVE  (o - (s % BytesMax)) % BytesMax = (o - s) % BytesMax
<1>1. BytesMax \in Nat \ {0} /\ o \in 0 .. BytesMax - 1
  BY Constants DEF Offset
<1> DEFINE d == Place(o - s)
           t == Place(s)
           c == Place(o - t)
<1>2. d \in 0 .. BytesMax - 1 /\ (d = o - s \/ d = o - s + BytesMax \/ d = o - s + 2 * BytesMax)
  BY <1>1, WrapBehind
<1> HIDE DEF d
<1>3. t \in 0 .. BytesMax - 1 /\ (t = s \/ t = s - BytesMax)
  BY <1>1, WrapAhead
<1> HIDE DEF t
<1>4. c \in 0 .. BytesMax - 1 /\ (c = o - t \/ c = o - t + BytesMax)
  BY <1>1, <1>3, WrapBehind
<1> HIDE DEF c
<1>5. c = d
  BY <1>1, <1>2, <1>3, <1>4
<1> QED
  BY <1>5 DEF c, t, d, Place

-----------------------------------------------------------------------------
(***************************************************************************)
(* A transfer of some bytes, fewer than the ring has: its system calls ask *)
(* for the bytes in order, each byte once, at its place in the ring.       *)
(***************************************************************************)
LEMMA Segment ==
  ASSUME NEW o \in 0 .. 2 * BytesMax - 1, NEW n \in 1 .. BytesMax, NEW done \in Nat,
         done # 0 => ~Simple(o, n) /\ done = EndBytes(o, n)
  PROVE  /\ SegmentCount(o, n, done) \in Nat
         /\ SegmentAt(o, done) \in Nat
         /\ ~Refused(SegmentCount(o, n, done))
         /\ done + SegmentCount(o, n, done) <= n
         /\ SegmentAt(o, done) + SegmentCount(o, n, done) <= BytesMax
         /\ More(o, n, done) => /\ done = 0 /\ ~Simple(o, n)
                                /\ SegmentCount(o, n, done) = EndBytes(o, n)
         /\ ~More(o, n, done) => done + SegmentCount(o, n, done) = n
         /\ \A k \in done .. done + SegmentCount(o, n, done) - 1 :
              (o + k) % BytesMax = SegmentAt(o, done) + k - done
<1>1. BytesMax \in Nat \ {0} /\ Word \in Nat \ {0} /\ 4 * BytesMax + 2 < Word
  <2>1. kMaxSize \in Nat /\ kMaxSize >= 1
    BY Constants
  <2> QED
    BY <2>1, Constants, GeometryAssumption
<1> DEFINE p == Place(o)
           q == Place(o + n)
           count == SegmentCount(o, n, done)
           at == SegmentAt(o, done)
<1>2. p \in 0 .. BytesMax - 1 /\ (p = o \/ p = o - BytesMax)
  BY <1>1, WrapAhead
<1>3. q \in 0 .. BytesMax - 1 /\ (q = o + n \/ q = o + n - BytesMax \/ q = o + n - 2 * BytesMax)
  <2> DEFINE x == o + n
  <2>1. x \in Int /\ 0 <= x /\ x < 3 * BytesMax
    BY <1>1
  <2> HIDE DEF x
  <2>2. /\ Place(x) \in 0 .. BytesMax - 1
        /\ Place(x) = x \/ Place(x) = x - BytesMax \/ Place(x) = x - 2 * BytesMax
    BY <2>1, WrapAhead
  <2>3. q = Place(x) /\ x = o + n
    BY DEF x
  <2> HIDE DEF q
  <2> QED
    BY <1>1, <2>1, <2>2, <2>3
<1>4. Simple(o, n) <=> p < q
  BY DEF Simple, Place
<1>5. EndBytes(o, n) = IF p < q THEN n ELSE BytesMax - p
  BY DEF EndBytes, Simple, Place
<1>6. at = IF done = 0 THEN p ELSE 0
  BY DEF SegmentAt, Place
<1> HIDE DEF p, q
<1>7. p < q <=> p + n < BytesMax
  BY <1>1, <1>2, <1>3
<1>8. EndBytes(o, n) \in 1 .. n
  BY <1>1, <1>2, <1>5, <1>7
<1>9. (n - EndBytes(o, n)) % Word = n - EndBytes(o, n)
  <2> DEFINE x == n - EndBytes(o, n)
  <2>1. x \in 0 .. Word - 1
    BY <1>1, <1>8
  <2> HIDE DEF x
  <2>2. x % Word = x
    BY <1>1, <2>1, Wrap
  <2> QED
    BY <2>2 DEF x
<1>10. /\ count = IF done = 0 THEN EndBytes(o, n) ELSE n - EndBytes(o, n)
       /\ More(o, n, done) <=> done = 0 /\ n - EndBytes(o, n) # 0
  <2>1. StartBytes(o, n) = n - EndBytes(o, n)
    BY <1>4, <1>5, <1>9 DEF StartBytes
  <2> QED
    BY <1>9, <2>1 DEF SegmentCount, More
<1> HIDE DEF count, at
<1>11. count \in Nat /\ at \in Nat /\ done + count <= n /\ at + count <= BytesMax
  BY <1>1, <1>2, <1>5, <1>6, <1>7, <1>8, <1>10
<1>12. ~Refused(count)
  <2>1. count + 1 < Word \div 2
    BY <1>1, <1>11
  <2> QED
    BY <1>1, <1>11, <2>1 DEF Refused
<1>13. More(o, n, done) => done = 0 /\ ~Simple(o, n) /\ count = EndBytes(o, n)
  BY <1>4, <1>5, <1>10
<1>14. ~More(o, n, done) => done + count = n
  BY <1>1, <1>8, <1>10
<1>15. ASSUME NEW k \in done .. done + count - 1
       PROVE  (o + k) % BytesMax = at + k - done
  <2> DEFINE c == Place(o + k)
  <2>1. k \in Nat /\ k < n
    BY <1>11, <1>15
  <2>2. c \in 0 .. BytesMax - 1 /\ (c = o + k \/ c = o + k - BytesMax \/ c = o + k - 2 * BytesMax)
    BY <1>1, <2>1, WrapAhead
  <2> HIDE DEF c
  <2>3. CASE done = 0
    <3>1. at = p /\ k < EndBytes(o, n)
      BY <1>6, <1>10, <1>11, <2>3
    <3>2. p + k < BytesMax
      BY <1>1, <1>2, <1>5, <1>7, <1>8, <2>1, <3>1
    <3>3. c = p + k
      BY <1>1, <1>2, <2>1, <2>2, <3>2
    <3> QED
      BY <1>2, <2>1, <2>3, <3>1, <3>3 DEF c, Place
  <2>4. CASE done # 0
    <3>1. at = 0 /\ done = BytesMax - p
      BY <1>4, <1>5, <1>6, <2>4
    <3>2. k >= BytesMax - p
      BY <1>1, <1>2, <1>11, <3>1
    <3>3. c = k - (BytesMax - p)
      BY <1>1, <1>2, <2>1, <2>2, <3>2
    <3> QED
      BY <1>1, <1>2, <2>1, <3>1, <3>3 DEF c, Place
  <2> QED
    BY <2>3, <2>4
<1> QED
  BY <1>11, <1>12, <1>13, <1>14, <1>15 DEF count, at

-----------------------------------------------------------------------------
(* The offsets and the distance between them. *)
LEMMA Bounds ==
  ASSUME RingInv
  PROVE  /\ start_offset \in 0 .. 2 * BytesMax - 1 /\ end_offset \in 0 .. 2 * BytesMax - 1
         /\ Used \in 0 .. BytesMax
         /\ \/ end_offset = start_offset + Used
            \/ Used < BytesMax /\ end_offset = start_offset + Used - BytesMax
         /\ w.pc # "popped" => start_offset \in Offset
         /\ w.pc # "reduce" => end_offset \in Offset /\ Used < BytesMax
<1>1. BytesMax \in Nat \ {0} /\ Word \in Nat
  BY Constants
<1>2. start_offset \in Nat /\ end_offset \in Nat
  BY OffsetTypes DEF RingInv, TypeInv, TypeOK
<1>3. start_offset \in 0 .. 2 * BytesMax - 1 /\ end_offset \in 0 .. 2 * BytesMax - 1
  BY <1>1, <1>2 DEF RingInv, Reduced
<1>4. Used \in 0 .. BytesMax
  <2>1. Used \in Nat
    BY <1>2, BytesTypes DEF Used
  <2> QED
    BY <1>1, <2>1 DEF RingInv, Layout, Contiguous
<1>5. \/ end_offset = start_offset + Used
      \/ Used < BytesMax /\ end_offset = start_offset + Used - BytesMax
  BY <1>3, <1>4, UsedIs DEF Used
<1>6. w.pc # "popped" => start_offset \in Offset
  BY <1>1, <1>2 DEF RingInv, Reduced, Offset
<1>7. w.pc # "reduce" => end_offset \in Offset /\ Used < BytesMax
  BY <1>1, <1>2 DEF RingInv, Reduced, Offset
<1> QED
  BY <1>3, <1>4, <1>5, <1>6, <1>7

(* What the writer knows of the frame it writes. *)
LEMMA FrameIs ==
  ASSUME RingInv, w.rec \in Records
  PROVE  /\ Len(w.rec) \in Nat
         /\ ByteSize(Len(w.rec)) \in Nat \ {0}
         /\ FrameSize(w.rec) = ByteSize(Len(w.rec)) + Len(w.rec)
BY RecordLength, Constants DEF FrameSize

(* The WrappingWrite in progress writes a part of the frame in its place. *)
LEMMA PutPlace ==
  ASSUME SafeUse, RingInv, w.pc \in {"header", "payload"}
  PROVE  /\ w.rec \in Records
         /\ FrameSize(w.rec) \in Nat
         /\ FrameSize(w.rec) < BytesMax
         /\ Used + FrameSize(w.rec) <= BytesMax
         /\ PutOffset \in 0 .. 2 * BytesMax - 1
         /\ PutSize \in 1 .. BytesMax - 1
         /\ PutOffset - end_offset \in Nat
         /\ PutOffset - end_offset + PutSize <= FrameSize(w.rec)
         /\ \A k \in 0 .. PutSize - 1, stray \in Stray :
              SourceByte(k, stray) = FrameByte(w.rec, PutOffset - end_offset + k)
<1> DEFINE L == Len(w.rec)
           B == ByteSize(L)
           S == FrameSize(w.rec)
<1>1. BytesMax \in Nat \ {0}
  BY Constants
<1>2. w.rec \in Records
  BY DEF RingInv, TypeInv, WriterSound
<1>3. L \in Nat /\ B \in Nat \ {0} /\ S = B + L
  BY <1>2, FrameIs
<1>4. S < BytesMax /\ Used + S <= BytesMax
  BY DEF RingInv, SpaceOK, Writing
<1>5. end_offset \in 0 .. BytesMax - 1
  BY Bounds DEF Offset
<1>6. w.chunk \in Nat /\ w.remaining \in Nat
  BY DEF RingInv, TypeInv, TypeOK, WriterHandle
<1>7. CASE w.pc = "header"
  <2>1. PutOffset = end_offset /\ PutSize = B
    BY <1>7 DEF PutOffset, PutSize
  <2>2. ASSUME NEW k \in 0 .. B - 1, NEW stray \in Stray
        PROVE  SourceByte(k, stray) = FrameByte(w.rec, PutOffset - end_offset + k)
    <3> HIDE DEF B
    <3>1. PutOffset - end_offset + k = k /\ k < B
      BY <1>3, <1>5, <2>1
    <3> QED
      BY <1>7, <3>1 DEF SourceByte, FrameByte, B
  <2> HIDE DEF L, B, S
  <2> QED
    BY <1>1, <1>2, <1>3, <1>4, <1>5, <2>1, <2>2 DEF S
<1>8. CASE w.pc = "payload" /\ w.call = "Write"
  <2>1. w.chunk = L /\ w.chunk > 0
    BY <1>8 DEF RingInv, TypeInv, WriterSound, PlaceOK
  <2>2. PutOffset = end_offset + B /\ PutSize = L
    BY <1>8, <2>1 DEF PutOffset, PutSize
  <2>3. ASSUME NEW k \in 0 .. L - 1, NEW stray \in Stray
        PROVE  SourceByte(k, stray) = FrameByte(w.rec, PutOffset - end_offset + k)
    <3>1. SourceByte(k, stray) = w.rec[0 + k + 1]
      BY <1>8, <2>1 DEF SourceByte, PieceStart
    <3> DEFINE j == PutOffset - end_offset + k
    <3> HIDE DEF B, L
    <3>2. j = B + k /\ ~(j < B) /\ j - B + 1 = 0 + k + 1
      BY <1>3, <1>5, <2>2
    <3> HIDE DEF j
    <3>3. FrameByte(w.rec, j) = w.rec[j - B + 1]
      BY <3>2 DEF FrameByte, B, L
    <3> QED
      BY <3>1, <3>2, <3>3 DEF j
  <2> HIDE DEF L, B, S
  <2> QED
    BY <1>1, <1>2, <1>3, <1>4, <1>5, <2>1, <2>2, <2>3 DEF S
<1>9. CASE w.pc = "payload" /\ w.call = "StreamingWrite"
  <2>1. w.chunk <= w.remaining /\ w.remaining <= L /\ w.chunk > 0
    BY <1>9 DEF RingInv, TypeInv, WriterSound, PlaceOK
  <2>2. PutOffset = end_offset + S - w.remaining /\ PutSize = w.chunk
    BY <1>9 DEF PutOffset, PutSize, RingInv, PlaceOK
  <2>3. ASSUME NEW k \in 0 .. w.chunk - 1, NEW stray \in Stray
        PROVE  SourceByte(k, stray) = FrameByte(w.rec, PutOffset - end_offset + k)
    <3> DEFINE i == L - w.remaining + k + 1
    <3>1. SourceByte(k, stray) = w.rec[i]
      <4>1. k < w.chunk
        BY <1>6
      <4>2. PieceStart = L - w.remaining
        BY <1>9 DEF PieceStart
      <4> HIDE DEF L
      <4> QED
        BY <1>9, <4>1, <4>2 DEF SourceByte
    <3> DEFINE j == PutOffset - end_offset + k
    <3> HIDE DEF B, L, S
    <3>2. ~(j < B) /\ j - B + 1 = i
      BY <1>3, <1>5, <1>6, <2>1, <2>2
    <3> HIDE DEF i, j
    <3>3. FrameByte(w.rec, j) = w.rec[j - B + 1]
      BY <3>2 DEF FrameByte, B, L
    <3> QED
      BY <3>1, <3>2, <3>3 DEF j
  <2> HIDE DEF L, B, S
  <2> QED
    BY <1>1, <1>2, <1>3, <1>4, <1>5, <1>6, <2>1, <2>2, <2>3 DEF S
<1> QED
  BY <1>7, <1>8, <1>9 DEF RingInv, TypeInv, WriterSound

(* Where the bytes of a live record lie, and those of the next one. *)
LEMMA LiveDistance ==
  ASSUME RingInv, NEW i \in DOMAIN live, NEW j \in 0 .. FrameSize(live[i].rec) - 1
  PROVE  /\ (live[i].pos + j) % BytesMax \in Offset
         /\ Distance((live[i].pos + j) % BytesMax) < Used
<1> DEFINE p == live[i].pos
           S == FrameSize(live[i].rec)
<1>1. i \in 1 .. Len(live) /\ live[i] \in Frame
  BY DEF RingInv, TypeInv, TypeOK
<1>2. p \in Offset /\ p \in Nat /\ S \in Nat
  BY <1>1, RecordLength, OffsetTypes DEF Frame
<1>3. Distance(p) + S <= Used
  BY <1>1 DEF RingInv, Layout, FrameEnd
<1>4. start_offset \in 0 .. 2 * BytesMax - 1 /\ Used \in 0 .. BytesMax /\ BytesMax \in Nat \ {0}
  BY Bounds, Constants
<1>5. j \in Nat /\ j < S
  BY <1>2
<1> HIDE DEF p, S
<1>6. p - start_offset \in Int
  BY <1>2, <1>4
<1>7. Distance(p) \in Nat
  <2>1. \A x \in Int : x % BytesMax \in Nat
    BY <1>4
  <2> QED
    BY <1>6, <2>1 DEF Distance
<1>8. Distance(p) + j < Used
  BY <1>2, <1>3, <1>4, <1>5, <1>7
<1>9. Distance((p + j) % BytesMax) = Distance(p) + j
  <2>1. Distance(p) + j < BytesMax
    BY <1>4, <1>5, <1>7, <1>8
  <2> QED
    BY <1>2, <1>4, <1>5, <2>1, ByteDistance DEF Distance
<1>10. (p + j) % BytesMax \in Offset
  BY <1>2, <1>5, OffsetTypes
<1> QED
  BY <1>8, <1>9, <1>10 DEF p

LEMMA NextDistance ==
  ASSUME RingInv, NEW j \in Nat, Used + j < BytesMax
  PROVE  /\ (end_offset + j) % BytesMax \in Offset
         /\ Distance((end_offset + j) % BytesMax) = Used + j
<1>1. /\ start_offset \in 0 .. 2 * BytesMax - 1 /\ end_offset \in 0 .. 2 * BytesMax - 1
      /\ Used \in 0 .. BytesMax /\ BytesMax \in Nat \ {0}
  BY Bounds, Constants
<1>2. (end_offset + j) % BytesMax \in Offset
  <2>1. end_offset + j \in Nat
    BY <1>1
  <2> QED
    BY <2>1, OffsetTypes
<1>3. Used \in Nat
  BY <1>1
<1> QED
  BY <1>1, <1>2, <1>3, EndDistance DEF Used, Distance

(***************************************************************************)
(* A system call of WrappingWrite that stores k bytes: they are the next   *)
(* ones of the frame, in their place, and no other byte of a record of the *)
(* ring or of the frame changes.                                           *)
(***************************************************************************)
LEMMA PutEffect ==
  ASSUME SafeUse, RingInv, w.pc \in {"header", "payload"},
         NEW at, at = SegmentAt(PutOffset, w.done),
         NEW k \in Nat, k <= SegmentCount(PutOffset, PutSize, w.done), NEW stray \in Stray
  PROVE  /\ \A i \in DOMAIN live : \A j \in 0 .. FrameSize(live[i].rec) - 1 :
              Stored(at, k, stray)[(live[i].pos + j) % BytesMax] = FrameByte(live[i].rec, j)
         /\ \A j \in 0 .. (PutOffset - end_offset + w.done + k) - 1 :
              Stored(at, k, stray)[(end_offset + j) % BytesMax] = FrameByte(w.rec, j)
<1> DEFINE b == PutOffset - end_offset
           first == b + w.done
           stored == Stored(at, k, stray)
           count == SegmentCount(PutOffset, PutSize, w.done)
<1>1. /\ FrameSize(w.rec) \in Nat
      /\ Used + FrameSize(w.rec) <= BytesMax
      /\ PutOffset \in 0 .. 2 * BytesMax - 1
      /\ PutSize \in 1 .. BytesMax - 1
      /\ b \in Nat
      /\ b + PutSize <= FrameSize(w.rec)
      /\ \A i \in 0 .. PutSize - 1 : SourceByte(i, stray) = FrameByte(w.rec, b + i)
  BY PutPlace
<1>2. w.done \in Nat
  BY DEF RingInv, TypeInv, TypeOK, WriterHandle
<1>3. w.done # 0 => ~Simple(PutOffset, PutSize) /\ w.done = EndBytes(PutOffset, PutSize)
  BY DEF RingInv, PlaceOK
<1>4. /\ count \in Nat /\ at \in Nat
      /\ w.done + count <= PutSize
      /\ \A i \in w.done .. w.done + count - 1 : (PutOffset + i) % BytesMax = at + i - w.done
  <2>1. PutSize \in 1 .. BytesMax
    BY <1>1, Constants
  <2> QED
    BY <1>1, <1>2, <1>3, <2>1, Segment
<1>5. k <= count
  OBVIOUS
<1>6. /\ BytesMax \in Nat \ {0} /\ Used \in Nat
      /\ end_offset \in Nat
  BY Bounds, Constants
<1> HIDE DEF count
<1>7. ASSUME NEW i \in Nat, w.done <= i, i < w.done + k
      PROVE  /\ (end_offset + (b + i)) % BytesMax = at + i - w.done
             /\ Used + (b + i) < BytesMax
  <2>1. end_offset + (b + i) = PutOffset + i
    BY <1>1, <1>6
  <2>2. i \in w.done .. w.done + count - 1
    BY <1>2, <1>4, <1>5, <1>7
  <2> HIDE DEF b
  <2>3. (end_offset + (b + i)) % BytesMax = at + i - w.done
    BY <1>4, <2>1, <2>2
  <2>4. b + i < FrameSize(w.rec)
    BY <1>1, <1>2, <1>4, <1>5, <1>7
  <2> QED
    BY <1>1, <1>6, <2>3, <2>4
<1> HIDE DEF b
<1>8. ASSUME NEW c \in Offset, c >= at, c < at + k
      PROVE  \E i \in Nat : /\ w.done <= i /\ i < w.done + k
                            /\ c = (end_offset + (b + i)) % BytesMax
                            /\ stored[c] = FrameByte(w.rec, b + i)
  <2> DEFINE i == w.done + c - at
  <2>1. c \in Nat
    BY OffsetTypes
  <2>2. i \in Nat /\ w.done <= i /\ i < w.done + k /\ c = at + i - w.done
    BY <1>2, <1>4, <1>8, <2>1
  <2>3. stored[c] = SourceByte(i, stray)
    BY <1>8 DEF Stored
  <2> HIDE DEF i, stored
  <2>4. i \in 0 .. PutSize - 1
    BY <1>1, <1>2, <1>4, <1>5, <2>2
  <2>5. stored[c] = FrameByte(w.rec, b + i)
    BY <1>1, <2>3, <2>4
  <2>6. c = (end_offset + (b + i)) % BytesMax
    BY <1>7, <2>2
  <2> QED
    BY <2>2, <2>5, <2>6
<1>9. ASSUME NEW c \in Offset, ~(c >= at /\ c < at + k)
      PROVE  stored[c] = data[c]
  BY <1>9 DEF Stored
<1>10. ASSUME NEW i \in DOMAIN live, NEW j \in 0 .. FrameSize(live[i].rec) - 1
       PROVE  stored[(live[i].pos + j) % BytesMax] = FrameByte(live[i].rec, j)
  <2> DEFINE c == (live[i].pos + j) % BytesMax
  <2>1. c \in Offset /\ Distance(c) < Used
    BY LiveDistance
  <2>2. data[c] = FrameByte(live[i].rec, j)
    BY DEF RingInv, LiveIntact
  <2> HIDE DEF c, stored
  <2>3. ASSUME c >= at, c < at + k PROVE FALSE
    <3>1. PICK m \in Nat : /\ w.done <= m /\ m < w.done + k
                           /\ c = (end_offset + (b + m)) % BytesMax
      BY <1>8, <2>1, <2>3
    <3>2. b + m \in Nat /\ Used + (b + m) < BytesMax
      BY <1>1, <1>7, <3>1
    <3>3. Distance(c) = Used + (b + m)
      BY <3>1, <3>2, NextDistance
    <3> QED
      BY <1>6, <2>1, <3>2, <3>3
  <2>4. stored[c] = data[c]
    BY <1>9, <2>1, <2>3
  <2> QED
    BY <2>2, <2>4 DEF c
<1>11. ASSUME NEW j \in 0 .. (b + w.done + k) - 1
       PROVE  stored[(end_offset + j) % BytesMax] = FrameByte(w.rec, j)
  <2> DEFINE c == (end_offset + j) % BytesMax
  <2>1. j \in Nat /\ j < b + w.done + k /\ b + w.done + k <= FrameSize(w.rec)
    BY <1>1, <1>2, <1>4, <1>5
  <2>2. Used + j < BytesMax
    BY <1>1, <1>2, <1>6, <2>1
  <2>3. c \in Offset /\ Distance(c) = Used + j
    BY <2>1, <2>2, NextDistance
  <2> HIDE DEF c, stored
  <2>4. CASE c >= at /\ c < at + k
    <3>1. PICK m \in Nat : /\ w.done <= m /\ m < w.done + k
                           /\ c = (end_offset + (b + m)) % BytesMax
                           /\ stored[c] = FrameByte(w.rec, b + m)
      BY <1>8, <2>3, <2>4
    <3>2. b + m \in Nat /\ Used + (b + m) < BytesMax
      BY <1>1, <1>7, <3>1
    <3>3. Distance(c) = Used + (b + m)
      BY <3>1, <3>2, NextDistance
    <3>4. j = b + m
      BY <1>6, <2>1, <2>3, <3>2, <3>3
    <3> QED
      BY <3>1, <3>4 DEF c
  <2>5. CASE ~(c >= at /\ c < at + k)
    <3>1. stored[c] = data[c]
      BY <1>9, <2>3, <2>5
    <3>2. j < b + w.done
      <4>1. ASSUME j >= b + w.done PROVE FALSE
        <5>1. PICK m \in Nat : j = b + m /\ w.done <= m /\ m < w.done + k
          <6>1. j - b \in Nat /\ j = b + (j - b) /\ w.done <= j - b /\ j - b < w.done + k
            BY <1>1, <1>2, <2>1, <4>1
          <6> QED
            BY <6>1
        <5>2. (end_offset + j) % BytesMax = at + m - w.done
          BY <1>7, <5>1
        <5>3. c = at + m - w.done
          BY <5>2 DEF c
        <5> QED
          BY <1>2, <1>4, <2>5, <5>1, <5>3
      <4> QED
        BY <1>1, <1>2, <2>1, <4>1
    <3>3. Writing /\ Progress = b + w.done
      BY DEF Writing, Progress, b
    <3>4. data[(end_offset + j) % BytesMax] = FrameByte(w.rec, j)
      <4>1. j \in 0 .. Progress - 1
        BY <1>1, <1>2, <2>1, <3>2, <3>3
      <4> QED
        BY <3>3, <4>1 DEF RingInv, FrameBegun
    <3> QED
      BY <3>1, <3>4 DEF c
  <2> QED
    BY <2>4, <2>5
<1> QED
  BY <1>10, <1>11 DEF b, stored

-----------------------------------------------------------------------------
(* A step that moves no offset and does not come from between two stores. *)
LEMMA OffsetsStay ==
  ASSUME RingInv, TypeInv', UNCHANGED <<start_offset, end_offset, live>>,
         w.pc \notin {"popped", "reduce"}, w'.pc # "aborted",
         LiveIntact', SpaceOK', PlaceOK', FrameBegun'
  PROVE  RingInv'
<1>1. Used' = Used
  BY DEF Used
<1>2. Reduced'
  BY <1>1 DEF RingInv, Reduced
<1>3. Layout'
  BY <1>1 DEF RingInv, Layout, Contiguous, FrameEnd, Distance
<1> QED
  BY <1>2, <1>3 DEF RingInv, NoAbort

(* The writer leaves its call, or goes away, and writes no record any more. *)
LEMMA NothingBegun ==
  ASSUME RingInv, TypeInv', UNCHANGED <<start_offset, end_offset, live>>, LiveIntact',
         w.pc \notin {"popped", "reduce"},
         w'.pc \in {"closed", "idle"}, w'.offset = 0, w'.done = 0
  PROVE  RingInv'
<1>1. ~Writing'
  BY DEF Writing, Streaming
<1>2. SpaceOK' /\ FrameBegun'
  BY <1>1 DEF SpaceOK, FrameBegun
<1>3. PlaceOK'
  BY DEF PlaceOK, Streaming
<1> QED
  BY <1>2, <1>3, OffsetsStay

LEMMA WriterEntrySafe ==
  ASSUME SafeUse, RingInv, TypeInv',
         \/ OpenAppend
         \/ StopWriter
         \/ \E rec \in Records : Write(rec) \/ StreamingWriteStart(rec)
         \/ PopFails
  PROVE  RingInv'
<1>1. UNCHANGED <<start_offset, end_offset, data, live>>
  BY DEF OpenAppend, StopWriter, Write, StreamingWriteStart, StartWrite, PopFails
<1>2. LiveIntact'
  BY <1>1 DEF RingInv, LiveIntact
<1>3. CASE OpenAppend
  <2>1. w.pc = "closed" /\ w'.pc = "idle" /\ w'.offset = 0 /\ w'.done = 0
    BY <1>3 DEF OpenAppend, NewWriter
  <2> QED
    BY <1>1, <1>2, <2>1, NothingBegun
<1>4. CASE StopWriter
  <2>1. w.pc \notin {"popped", "reduce"}
    BY <1>4 DEF StopWriter, BetweenStores, SafeUse
  <2>2. w'.pc = "closed" /\ w'.offset = 0 /\ w'.done = 0
    BY <1>4 DEF StopWriter, NewWriter
  <2> QED
    BY <1>1, <1>2, <2>1, <2>2, NothingBegun
<1>5. ASSUME NEW call \in {"Write", "StreamingWriteStart"}, NEW rec \in Records, StartWrite(call, rec)
      PROVE  RingInv'
  <2> DEFINE begun == [w EXCEPT !.pc = "space", !.call = call, !.ret = "none",
                                !.rec = rec, !.chunk = Len(rec)]
  <2>1. w \in WriterHandle /\ w.pc = "idle" /\ w.offset = 0 /\ w.done = 0
    BY <1>5 DEF RingInv, TypeInv, TypeOK, StartWrite, Streaming, PlaceOK
  <2>2. Len(rec) \in Nat
    BY RecordLength
  <2>3. /\ begun \in WriterHandle /\ begun.pc = "space" /\ begun.rec = rec
        /\ begun.offset = 0 /\ begun.done = 0
    BY <2>1, <2>2 DEF WriterHandle
  <2>4. w' = IF TooBig(rec) THEN WriteReturns(begun, "false") ELSE begun
    BY <1>5 DEF StartWrite
  <2> HIDE DEF begun
  <2>5. CASE TooBig(rec)
    <3>1. w'.pc = "idle" /\ w'.offset = 0 /\ w'.done = 0
      BY <2>3, <2>4, <2>5, WriteReturnsIs
    <3> QED
      BY <1>1, <1>2, <2>1, <3>1, NothingBegun
  <2>6. CASE ~TooBig(rec)
    <3>1. FrameSize(rec) < BytesMax
      <4>1. ~(BytesMax < FrameSize(rec) + 1)
        BY <2>6 DEF TooBig
      <4> QED
        BY <4>1, RecordLength, Constants
    <3>2. ~Writing'
      BY <2>3, <2>4, <2>6 DEF Writing
    <3>3. SpaceOK' /\ FrameBegun'
      BY <2>3, <2>4, <2>6, <3>1, <3>2 DEF SpaceOK, FrameBegun
    <3>4. PlaceOK'
      BY <2>3, <2>4, <2>6 DEF PlaceOK
    <3> QED
      BY <1>1, <1>2, <2>1, <2>3, <2>4, <2>6, <3>3, <3>4, OffsetsStay
  <2> QED
    BY <2>5, <2>6
<1>6. CASE PopFails
  <2>1. w.pc = "space" /\ w' = WriteReturns(w, "false")
    BY <1>6 DEF PopFails
  <2>2. w.offset = 0 /\ w \in WriterHandle
    BY <2>1 DEF RingInv, PlaceOK, TypeInv, TypeOK
  <2>3. w'.pc = "idle" /\ w'.offset = 0 /\ w'.done = 0
    BY <2>1, <2>2, WriteReturnsIs
  <2> QED
    BY <1>1, <1>2, <2>1, <2>3, NothingBegun
<1> QED
  BY <1>3, <1>4, <1>5, <1>6 DEF Write, StreamingWriteStart

(* The writer begins to write a record, or the next piece of one. *)
LEMMA BeginSafe ==
  ASSUME SafeUse, RingInv, TypeInv', EnoughSpace \/ \E n \in Sizes : StreamingWrite(n)
  PROVE  RingInv'
<1>1. UNCHANGED <<start_offset, end_offset, data, live>>
  BY DEF EnoughSpace, StreamingWrite
<1>2. LiveIntact'
  BY <1>1 DEF RingInv, LiveIntact
<1>3. w \in WriterHandle /\ BytesMax \in Nat \ {0} /\ Word \in Nat /\ BytesMax < Word
  BY Constants DEF RingInv, TypeInv, TypeOK
<1>4. CASE EnoughSpace
  <2>1. /\ w.pc = "space" /\ w'.pc = "header" /\ w'.rec = w.rec
        /\ w'.offset = w.offset /\ w'.done = w.done
    BY <1>3, <1>4 DEF EnoughSpace, WriterHandle
  <2>2. FrameSize(w.rec) < BytesMax /\ w.offset = 0 /\ w.done = 0
    BY <2>1 DEF RingInv, SpaceOK, PlaceOK
  <2>3. Used + FrameSize(w.rec) <= BytesMax
    <3>1. w.rec \in Records
      BY <2>1 DEF RingInv, TypeInv, WriterSound
    <3>2. FrameSize(w.rec) \in Nat /\ Used \in 0 .. BytesMax
      BY <3>1, RecordLength, Bounds
    <3>3. BytesAvailable(start_offset, end_offset) = BytesMax - Used
      <4> DEFINE x == BytesMax - Used
      <4>1. x \in 0 .. Word - 1
        BY <1>3, <3>2
      <4> HIDE DEF x
      <4>2. x % Word = x
        BY <1>3, <4>1, Wrap
      <4> QED
        BY <4>2 DEF x, BytesAvailable, Used
    <3>4. ~(BytesAvailable(start_offset, end_offset) < FrameSize(w.rec))
      BY <1>4 DEF EnoughSpace, NeedsSpace
    <3> QED
      BY <1>3, <3>2, <3>3, <3>4
  <2>4. SpaceOK'
    BY <1>1, <2>1, <2>2, <2>3 DEF SpaceOK, Used
  <2>5. PlaceOK'
    BY <2>1, <2>2 DEF PlaceOK
  <2>6. FrameBegun'
    <3>1. Progress' = 0
      BY <1>1, <2>1, <2>2, Bounds DEF Progress, PutOffset
    <3> QED
      BY <3>1 DEF FrameBegun
  <2> QED
    BY <1>1, <1>2, <2>1, <2>4, <2>5, <2>6, OffsetsStay
<1>5. ASSUME NEW n \in Sizes, StreamingWrite(n)
      PROVE  RingInv'
  <2>1. /\ w.pc = "idle" /\ w.offset # 0 /\ w'.pc = "payload" /\ w'.call = "StreamingWrite"
        /\ w'.chunk = n /\ w'.rec = w.rec /\ w'.offset = w.offset /\ w'.remaining = w.remaining
        /\ w'.done = w.done
    BY <1>3, <1>5 DEF StreamingWrite, Streaming, WriterHandle
  <2>2. n > 0
    BY Constants DEF SafeUse
  <2>3. Writing /\ w.done = 0
    BY <2>1 DEF Writing, Streaming, RingInv, PlaceOK
  <2>4. SpaceOK'
    BY <1>1, <2>1, <2>3 DEF RingInv, SpaceOK, Used
  <2>5. PlaceOK'
    BY <1>1, <2>1, <2>2, <2>3 DEF RingInv, PlaceOK, Streaming
  <2>6. FrameBegun'
    <3>1. Progress' = Progress
      <4>1. w.offset - end_offset + 0 = w.offset - end_offset
        BY <1>3, Bounds DEF WriterHandle
      <4> QED
        BY <1>1, <2>1, <2>3, <4>1 DEF Progress, PutOffset
    <3> QED
      BY <1>1, <2>1, <2>3, <3>1 DEF RingInv, FrameBegun
  <2> QED
    BY <1>1, <1>2, <2>1, <2>4, <2>5, <2>6, OffsetsStay
<1> QED
  BY <1>4, <1>5

(* A system call of WrappingWrite, whole or failing. *)
LEMMA TransferSafe ==
  ASSUME SafeUse, RingInv, TypeInv', WriteSegment \/ WriteFails
  PROVE  RingInv'
<1> DEFINE at == SegmentAt(PutOffset, w.done)
           count == SegmentCount(PutOffset, PutSize, w.done)
           b == PutOffset - end_offset
<1>1. w.pc \in {"header", "payload"} /\ UNCHANGED <<start_offset, end_offset, live>>
  BY DEF WriteSegment, WriteFails
<1>2. w \in WriterHandle /\ w.done \in Nat /\ w.chunk \in Nat /\ w.remaining \in Nat
  BY DEF RingInv, TypeInv, TypeOK, WriterHandle
<1>3. /\ w.rec \in Records
      /\ FrameSize(w.rec) \in Nat
      /\ PutOffset \in 0 .. 2 * BytesMax - 1
      /\ PutSize \in 1 .. BytesMax - 1
      /\ b \in Nat
      /\ b + PutSize <= FrameSize(w.rec)
  BY <1>1, PutPlace
<1>4. /\ count \in Nat
      /\ ~Refused(count)
      /\ More(PutOffset, PutSize, w.done) =>
           w.done = 0 /\ ~Simple(PutOffset, PutSize) /\ count = EndBytes(PutOffset, PutSize)
      /\ ~More(PutOffset, PutSize, w.done) => w.done + count = PutSize
  <2>1. w.done # 0 => ~Simple(PutOffset, PutSize) /\ w.done = EndBytes(PutOffset, PutSize)
    BY <1>1 DEF RingInv, PlaceOK
  <2>2. PutSize \in 1 .. BytesMax
    BY <1>3, Constants
  <2> QED
    BY <1>2, <1>3, <2>1, <2>2, Segment
<1>5. /\ end_offset \in Nat /\ end_offset < BytesMax
      /\ BytesMax \in Nat \ {0} /\ Word \in Nat /\ 4 * BytesMax < Word
  BY <1>1, Bounds, Constants, GeometryAssumption DEF Offset
<1>6. /\ Len(w.rec) \in Nat
      /\ ByteSize(Len(w.rec)) \in Nat \ {0}
      /\ FrameSize(w.rec) = ByteSize(Len(w.rec)) + Len(w.rec)
  BY <1>3, FrameIs
<1>7. Writing /\ Progress = b + w.done
  BY <1>1 DEF Writing, Progress
<1>8. FrameSize(w.rec) < BytesMax /\ Used + FrameSize(w.rec) <= BytesMax
  BY <1>7 DEF RingInv, SpaceOK
<1>9. PICK k \in Nat, stray \in Stray :
        k <= count /\ data' = Stored(at, k, stray) /\ (WriteSegment => k = count)
  <2> HIDE DEF at, count
  <2>1. CASE WriteSegment
    <3>1. \E stray \in Stray : data' = Stored(at, count, stray)
      BY <1>4, <2>1 DEF WriteSegment, at, count
    <3> QED
      BY <1>4, <3>1
  <2>2. CASE WriteFails /\ ~WriteSegment
    <3>1. \E k \in 0 .. count - 1, stray \in Stray : data' = Stored(at, k, stray)
      BY <2>2 DEF WriteFails, at, count
    <3>2. \A k \in 0 .. count - 1 : k \in Nat /\ k <= count
      BY <1>4
    <3> QED
      BY <2>2, <3>1, <3>2
  <2> QED
    BY <2>1, <2>2
<1>10. /\ \A i \in DOMAIN live : \A j \in 0 .. FrameSize(live[i].rec) - 1 :
            data'[(live[i].pos + j) % BytesMax] = FrameByte(live[i].rec, j)
       /\ \A j \in 0 .. (b + w.done + k) - 1 :
            data'[(end_offset + j) % BytesMax] = FrameByte(w.rec, j)
  BY <1>1, <1>9, PutEffect
<1>11. LiveIntact'
  BY <1>1, <1>10 DEF LiveIntact
<1> HIDE DEF at, count, b
<1>12. ASSUME w'.rec = w.rec, Progress' \in Int, Progress' <= b + w.done + k
       PROVE  FrameBegun'
  <2>1. PICK p \in Int : p = Progress'
    BY <1>12
  <2> DEFINE m == b + w.done + k
             Put(j) == data'[(end_offset + j) % BytesMax] = FrameByte(w.rec, j)
  <2>2. m \in Int /\ p <= m
    BY <1>2, <1>3, <1>12, <2>1
  <2>3. \A j \in 0 .. m - 1 : Put(j)
    BY <1>10
  <2> HIDE DEF m, Put
  <2>4. \A j \in 0 .. p - 1 : Put(j)
    BY <2>2, <2>3
  <2> QED
    BY <1>1, <1>12, <2>1, <2>4 DEF FrameBegun, Put
<1>13. ASSUME w'.rec = w.rec, w'.pc # "popped"
       PROVE  SpaceOK'
  BY <1>1, <1>8, <1>13 DEF SpaceOK, Used
<1>14. CASE w' = WriteReturns(w, "false")
  <2>1. /\ w'.pc = "idle" /\ w'.offset = w.offset /\ w'.remaining = w.remaining
        /\ w'.done = 0 /\ w'.rec = IF Streaming(w) THEN w.rec ELSE << >>
    BY <1>2, <1>14, WriteReturnsIs
  <2>2. CASE ~Streaming(w)
    BY <1>1, <1>11, <2>1, <2>2, NothingBegun DEF Streaming
  <2>3. CASE Streaming(w)
    <3>1. w.pc = "payload" /\ w.call = "StreamingWrite"
      BY <1>1, <2>3 DEF Streaming, RingInv, PlaceOK, TypeInv, WriterSound
    <3>2. w.offset = end_offset + FrameSize(w.rec) - w.remaining /\ PutOffset = w.offset
      BY <3>1 DEF RingInv, PlaceOK, PutOffset
    <3>3. PlaceOK'
      BY <1>1, <2>1, <2>3, <3>2 DEF PlaceOK
    <3>4. Progress' = b
      BY <1>1, <2>1, <3>2 DEF Progress, b
    <3>5. FrameBegun'
      BY <1>2, <1>3, <1>9, <1>12, <2>1, <2>3, <3>4
    <3> QED
      BY <1>1, <1>11, <1>13, <2>1, <2>3, <3>3, <3>5, OffsetsStay
  <2> QED
    BY <2>2, <2>3
<1>15. CASE WriteSegment /\ More(PutOffset, PutSize, w.done) /\ w' = [w EXCEPT !.done = count]
  <2>1. /\ w'.pc = w.pc /\ w'.call = w.call /\ w'.rec = w.rec /\ w'.chunk = w.chunk
        /\ w'.offset = w.offset /\ w'.remaining = w.remaining /\ w'.done = count
    BY <1>2, <1>15 DEF WriterHandle
  <2>2. PutOffset' = PutOffset /\ PutSize' = PutSize
    BY <1>1, <2>1 DEF PutOffset, PutSize
  <2>3. PlaceOK'
    <3>1. ~Simple(PutOffset, PutSize) /\ count = EndBytes(PutOffset, PutSize)
      BY <1>4, <1>15
    <3> QED
      BY <1>1, <2>1, <2>2, <3>1 DEF RingInv, PlaceOK, Streaming
  <2>4. Progress' = b + count
    BY <1>1, <2>1, <2>2 DEF Progress, b
  <2>5. w.done = 0 /\ k = count
    BY <1>4, <1>9, <1>15
  <2>6. FrameBegun'
    BY <1>2, <1>3, <1>4, <1>12, <2>1, <2>4, <2>5
  <2> QED
    BY <1>1, <1>11, <1>13, <2>1, <2>3, <2>6, OffsetsStay
<1>16. CASE WriteSegment /\ ~More(PutOffset, PutSize, w.done) /\ w' = AfterPut
  <2>1. w.done + k = PutSize
    BY <1>4, <1>9, <1>16
  <2>2. ASSUME w'.rec = w.rec, Progress' \in Int, Progress' <= b + PutSize,
               PlaceOK', w'.pc \notin {"popped", "aborted"}
        PROVE  RingInv'
    <3>1. b + w.done + k = b + PutSize
      BY <1>2, <1>3, <2>1
    <3>2. FrameBegun'
      BY <1>12, <2>2, <3>1
    <3> QED
      BY <1>1, <1>11, <1>13, <2>2, <3>2, OffsetsStay
  <2>3. CASE w.call = "Write"
    <3>1. w' = [w EXCEPT !.pc = IF w.pc = "header" THEN "payload" ELSE "publish", !.done = 0]
      BY <1>16, <2>3 DEF AfterPut
    <3>2. /\ w'.pc = IF w.pc = "header" THEN "payload" ELSE "publish"
          /\ w'.call = "Write" /\ w'.rec = w.rec /\ w'.chunk = w.chunk
          /\ w'.offset = w.offset /\ w'.done = 0
      BY <1>2, <2>3, <3>1 DEF WriterHandle
    <3>3. w.offset = 0
      BY <1>1, <2>3 DEF RingInv, PlaceOK
    <3>4. w.chunk = Len(w.rec) /\ Len(w.rec) > 0
      <4>1. w.rec # << >> /\ w.rec \in Seq(Byte)
        BY <1>3, RecordLength DEF SafeUse
      <4>2. Len(w.rec) > 0
        BY <4>1
      <4> QED
        BY <1>1, <2>3, <4>2 DEF RingInv, TypeInv, WriterSound
    <3>5. PlaceOK'
      BY <3>2, <3>3, <3>4 DEF PlaceOK
    <3>6. CASE w.pc = "header"
      <4>1. PutOffset = end_offset /\ PutSize = ByteSize(Len(w.rec))
        BY <3>6 DEF PutOffset, PutSize
      <4>2. PutOffset' = end_offset + ByteSize(Len(w.rec))
        BY <1>1, <3>2, <3>6 DEF PutOffset
      <4>3. Progress' = PutOffset' - end_offset + 0
        BY <1>1, <3>2, <3>6 DEF Progress
      <4>4. Progress' \in Int /\ Progress' <= b + PutSize
        <5> DEFINE B == ByteSize(Len(w.rec))
        <5> HIDE DEF B
        <5>1. B \in Nat /\ PutOffset' = end_offset + B /\ PutSize = B /\ b = 0
          BY <1>5, <1>6, <4>1, <4>2 DEF B, b
        <5> QED
          BY <1>5, <4>3, <5>1
      <4> QED
        BY <2>2, <3>2, <3>5, <3>6, <4>4
    <3>7. CASE w.pc = "payload"
      <4>1. PutOffset = end_offset + ByteSize(Len(w.rec)) /\ PutSize = Len(w.rec)
        BY <2>3, <3>4, <3>7 DEF PutOffset, PutSize
      <4>2. Progress' = FrameSize(w.rec)
        BY <3>2, <3>7 DEF Progress
      <4>3. Progress' \in Int /\ Progress' <= b + PutSize
        <5> DEFINE B == ByteSize(Len(w.rec))
                   L == Len(w.rec)
        <5> HIDE DEF B, L
        <5>1. /\ B \in Nat /\ L \in Nat /\ Progress' = B + L /\ PutSize = L
              /\ PutOffset = end_offset + B
          BY <1>6, <4>1, <4>2 DEF B, L
        <5>2. b = B
          BY <1>5, <5>1 DEF b
        <5> QED
          BY <5>1, <5>2
      <4> QED
        BY <2>2, <3>2, <3>5, <3>7, <4>3
    <3> QED
      BY <1>1, <3>6, <3>7
  <2>4. CASE w.call # "Write"
    <3> DEFINE o == (PutOffset + PutSize) % Word
               rest == IF w.pc = "header" THEN Len(w.rec) ELSE w.remaining - w.chunk
               h == [w EXCEPT !.offset = o, !.remaining = rest]
    <3>1. w' = WriteReturns(h, "true")
      BY <1>16, <2>4 DEF AfterPut
    <3>2. o = PutOffset + PutSize /\ o \in 0 .. Word - 1 /\ o # 0
      <4> DEFINE x == PutOffset + PutSize
      <4>1. x \in 0 .. Word - 1 /\ x # 0
        BY <1>3, <1>5
      <4> HIDE DEF x
      <4>2. x % Word = x
        BY <1>5, <4>1, Wrap
      <4> QED
        BY <4>1, <4>2 DEF x
    <3>3. rest \in Nat /\ rest <= Len(w.rec) /\ o = end_offset + FrameSize(w.rec) - rest
      <4> DEFINE B == ByteSize(Len(w.rec))
                 L == Len(w.rec)
                 S == FrameSize(w.rec)
      <4>1. B \in Nat /\ L \in Nat /\ S = B + L
        BY <1>6
      <4>2. CASE w.pc = "header"
        <5>1. PutOffset = end_offset /\ PutSize = B /\ rest = L
          BY <4>2 DEF PutOffset, PutSize
        <5> HIDE DEF B, L, S, o, rest
        <5> QED
          BY <1>5, <3>2, <4>1, <5>1 DEF L, S
      <4>3. CASE w.pc = "payload"
        <5>1. w.call = "StreamingWrite" /\ w.chunk <= w.remaining /\ w.remaining <= L
          BY <2>4, <4>3 DEF RingInv, TypeInv, WriterSound
        <5>2. PutOffset = end_offset + S - w.remaining /\ PutSize = w.chunk /\ rest = w.remaining - w.chunk
          BY <4>3, <5>1 DEF RingInv, PlaceOK, PutOffset, PutSize
        <5> HIDE DEF B, L, S, o, rest
        <5>3. S \in Nat
          BY <4>1
        <5>4. rest \in Nat /\ rest <= L
          BY <1>2, <4>1, <5>1, <5>2
        <5>5. o = end_offset + S - rest
          BY <1>2, <1>5, <3>2, <5>2, <5>3
        <5> QED
          BY <5>4, <5>5 DEF L, S
      <4> HIDE DEF o, rest, S
      <4> QED
        BY <1>1, <4>2, <4>3
    <3>4. h \in WriterHandle /\ h.rec = w.rec /\ h.remaining = rest /\ h.offset = o
      <4> HIDE DEF o, rest
      <4> QED
        BY <1>2, <3>2, <3>3 DEF WriterHandle
    <3> HIDE DEF h, o, rest
    <3>5. /\ w'.pc = "idle" /\ w'.offset = o /\ w'.remaining = rest
          /\ w'.done = 0 /\ w'.rec = w.rec
      BY <3>1, <3>2, <3>4, WriteReturnsIs DEF Streaming
    <3>6. PlaceOK'
      BY <1>1, <3>3, <3>5 DEF PlaceOK
    <3>7. Progress' = o - end_offset
      BY <1>1, <3>5 DEF Progress
    <3>8. Progress' \in Int /\ Progress' <= b + PutSize
      BY <1>3, <1>5, <3>2, <3>7 DEF b
    <3> QED
      BY <2>2, <3>5, <3>6, <3>8
  <2> QED
    BY <2>3, <2>4
<1>17. CASE WriteSegment
  BY <1>4, <1>14, <1>15, <1>16, <1>17 DEF WriteSegment, TransferOK, count
<1>18. CASE WriteFails
  BY <1>14, <1>18 DEF WriteFails
<1> QED
  BY <1>17, <1>18

-----------------------------------------------------------------------------
(* A live frame, and where it lies. *)
LEMMA LiveFrame ==
  ASSUME SafeUse, RingInv, NEW i \in 1 .. Len(live)
  PROVE  /\ live[i].pos \in Offset /\ live[i].rec \in Records
         /\ FrameSize(live[i].rec) \in Nat \ {0}
         /\ Distance(live[i].pos) \in Nat
         /\ FrameEnd(live[i]) = Distance(live[i].pos) + FrameSize(live[i].rec)
         /\ FrameEnd(live[i]) <= Used
<1>1. live[i] \in Frame
  BY DEF RingInv, TypeInv, TypeOK
<1>2. live[i].pos \in Offset /\ live[i].rec \in Records
  BY <1>1 DEF Frame
<1>3. FrameSize(live[i].rec) \in Nat \ {0}
  <2> DEFINE B == ByteSize(Len(live[i].rec))
             L == Len(live[i].rec)
  <2>1. L \in Nat /\ B \in Nat \ {0} /\ FrameSize(live[i].rec) = B + L
    BY <1>2, RecordLength, Constants DEF FrameSize
  <2> HIDE DEF B, L
  <2> QED
    BY <2>1
<1>4. Distance(live[i].pos) \in Nat
  <2>1. live[i].pos - start_offset \in Int
    BY <1>2, Bounds, Constants DEF Offset
  <2>2. \A x \in Int : x % BytesMax \in Nat
    BY Constants
  <2> QED
    BY <2>1, <2>2 DEF Distance
<1> QED
  BY <1>2, <1>3, <1>4 DEF FrameEnd, RingInv, Layout

(***************************************************************************)
(* What PopRecord finds at the start offset of a ring that is not empty:   *)
(* the length of the oldest record.                                        *)
(***************************************************************************)
LEMMA OldestIs ==
  ASSUME SafeUse, RingInv, w.pc = "space", start_offset # end_offset
  PROVE  /\ Len(live) \in Nat /\ 1 \in 1 .. Len(live)
         /\ Distance(live[1].pos) = 0
         /\ ReadOutcomes(OldestHeader) =
              {[size |-> ByteSize(Len(live[1].rec)), value |-> Len(live[1].rec)]}
<1>1. /\ start_offset \in Nat /\ start_offset < BytesMax
      /\ end_offset \in Nat /\ end_offset < BytesMax
      /\ Used \in Nat /\ BytesMax \in Nat \ {0}
      /\ end_offset = start_offset + Used \/ end_offset = start_offset + Used - BytesMax
  BY Bounds, Constants DEF Offset
<1>2. Used # 0
  BY <1>1
<1>3. live # << >> /\ live \in Seq(Frame)
  BY <1>2 DEF RingInv, Layout, Contiguous, TypeInv, TypeOK
<1>4. Len(live) \in Nat /\ 1 \in 1 .. Len(live)
  BY <1>3
<1>5. Distance(live[1].pos) = 0
  BY <1>3 DEF RingInv, Layout, Contiguous
<1> DEFINE p == live[1].pos
           rec == live[1].rec
           L == Len(rec)
           B == ByteSize(L)
<1>6. p \in Offset /\ rec \in Records /\ p \in 0 .. BytesMax - 1
  BY <1>4, LiveFrame DEF Offset
<1>7. p = start_offset
  <2> HIDE DEF p
  <2> DEFINE x == p - start_offset
             y == Place(x)
  <2>1. x \in Int /\ - 2 * BytesMax <= x /\ x < 3 * BytesMax /\ - BytesMax < x /\ x < BytesMax
    BY <1>1, <1>6
  <2> HIDE DEF x
  <2>2. y \in 0 .. BytesMax - 1 /\ (y = x \/ y = x + BytesMax)
    BY <1>1, <2>1, WrapBehind
  <2>3. y = 0
    BY <1>5 DEF Distance, Place, x, p
  <2> HIDE DEF y
  <2>4. x = 0
    BY <1>1, <2>1, <2>2, <2>3
  <2> QED
    BY <1>1, <1>6, <2>4 DEF x
<1>8. /\ L \in Nat /\ Encodable(L) /\ B \in 1 .. kMaxSize
      /\ kMaxSize \in Nat
      /\ FrameSize(rec) = B + L
  BY <1>6, RecordLength, Constants DEF FrameSize
<1>9. OldestHeader \in [BufferIndex -> Byte]
  <2>1. \A j \in BufferIndex : (start_offset + j) % BytesMax \in Offset
    <3>1. \A j \in BufferIndex : start_offset + j \in Nat
      BY <1>1, IndicesAndBytes
    <3> QED
      BY <3>1, OffsetTypes
  <2> QED
    BY <2>1 DEF OldestHeader, RingInv, TypeInv, TypeOK
<1>10. ASSUME NEW j \in 0 .. B - 1
       PROVE  OldestHeader[j] = EncodedByte(L, j)
  <2>1. j \in BufferIndex /\ j \in Nat /\ j < B /\ j \in 0 .. FrameSize(rec) - 1
    <3> HIDE DEF B, L
    <3> QED
      BY <1>8 DEF BufferIndex
  <2>2. OldestHeader[j] = data[(p + j) % BytesMax]
    BY <1>7, <2>1 DEF OldestHeader
  <2>3. data[(p + j) % BytesMax] = FrameByte(rec, j)
    <3>1. 1 \in DOMAIN live
      BY <1>3, <1>4
    <3> QED
      BY <2>1, <3>1 DEF RingInv, LiveIntact
  <2> QED
    BY <2>1, <2>2, <2>3 DEF FrameByte
<1>11. ReadOutcomes(OldestHeader) = {[size |-> B, value |-> L]}
  BY <1>8, <1>9, <1>10, HeaderReadsBack
<1> QED
  BY <1>4, <1>5, <1>11

(***************************************************************************)
(* The first store of PopRecord advances the start offset by the frame of  *)
(* the oldest record, and bytes_used() becomes less by as much.            *)
(***************************************************************************)
LEMMA PopIs ==
  ASSUME SafeUse, RingInv, w.pc = "space", UNCHANGED end_offset, start_offset # end_offset,
         \E out \in ReadOutcomes(OldestHeader) : start_offset' = PopTo(out)
  PROVE  /\ FrameSize(live[1].rec) \in Nat \ {0} /\ FrameSize(live[1].rec) <= Used
         /\ FrameEnd(live[1]) = FrameSize(live[1].rec)
         /\ start_offset' = start_offset + FrameSize(live[1].rec)
         /\ Used' = Used - FrameSize(live[1].rec)
<1> DEFINE S == FrameSize(live[1].rec)
<1>0. PICK n \in Nat : n = Len(live)
  BY DEF RingInv, TypeInv, TypeOK
<1>1. 1 \in 1 .. n /\ Distance(live[1].pos) = 0
  BY <1>0, OldestIs
<1>2. S \in Nat \ {0} /\ S <= Used /\ FrameEnd(live[1]) = S
  <2> HIDE DEF S
  <2>1. S \in Nat \ {0} /\ FrameEnd(live[1]) = 0 + S /\ FrameEnd(live[1]) <= Used
    BY <1>0, <1>1, LiveFrame DEF S
  <2> QED
    BY <2>1
<1>3. /\ start_offset \in Offset /\ start_offset \in Nat /\ start_offset < BytesMax
      /\ end_offset \in Nat /\ end_offset < BytesMax
      /\ Used \in Nat /\ Used < BytesMax
      /\ BytesMax \in Nat \ {0} /\ Word \in Nat /\ 4 * BytesMax < Word
      /\ end_offset = start_offset + Used \/ end_offset = start_offset + Used - BytesMax
  BY Bounds, Constants, GeometryAssumption DEF Offset
<1>4. start_offset' = start_offset + S
  <2> DEFINE B == ByteSize(Len(live[1].rec))
             L == Len(live[1].rec)
  <2>1. start_offset' = (start_offset + B + L) % Word
    <3>1. PICK out \in ReadOutcomes(OldestHeader) : start_offset' = PopTo(out)
      OBVIOUS
    <3>2. out = [size |-> B, value |-> L]
      BY OldestIs
    <3> QED
      BY <3>1, <3>2 DEF PopTo
  <2>2. B \in Nat /\ L \in Nat /\ S = B + L
    BY <1>0, <1>1, LiveFrame, RecordLength, Constants DEF FrameSize
  <2> HIDE DEF B, L, S
  <2>3. start_offset + B + L = start_offset + S /\ start_offset + S \in 0 .. Word - 1
    BY <1>2, <1>3, <2>2
  <2>4. (start_offset + S) % Word = start_offset + S
    BY <1>3, <2>3, Wrap
  <2> QED
    BY <2>1, <2>3, <2>4
<1> HIDE DEF S
<1>5. Used' = Used - S
  <2>1. /\ start_offset' \in 0 .. 2 * BytesMax - 1 /\ end_offset \in 0 .. 2 * BytesMax - 1
        /\ Used - S \in 0 .. BytesMax /\ Used - S < BytesMax
    BY <1>2, <1>3, <1>4
  <2>2. \/ end_offset = start_offset' + (Used - S)
        \/ end_offset = start_offset' + (Used - S) - BytesMax
    BY <1>2, <1>3, <1>4
  <2>3. BytesUsed(start_offset', end_offset) = Used - S
    BY <2>1, <2>2, UsedIs
  <2> QED
    BY <2>3 DEF Used
<1> QED
  BY <1>2, <1>4, <1>5 DEF S

(* The first store of PopRecord takes the oldest record out of the ring,   *)
(* whole and alone.                                                        *)
LEMMA PopSafe ==
  ASSUME SafeUse, RingInv, TypeInv', PopRecord
  PROVE  RingInv'
<1>1. /\ w.pc = "space" /\ w \in WriterHandle /\ live \in Seq(Frame)
      /\ UNCHANGED <<end_offset, data>>
  BY DEF PopRecord, RingInv, TypeInv, TypeOK
<1>2. CASE w' = WriteReturns(w, "false") /\ UNCHANGED <<start_offset, live>>
  <2>1. w.offset = 0
    BY <1>1 DEF RingInv, PlaceOK
  <2>2. w'.pc = "idle" /\ w'.offset = 0 /\ w'.done = 0
    BY <1>1, <1>2, <2>1, WriteReturnsIs
  <2>3. LiveIntact'
    BY <1>1, <1>2 DEF RingInv, LiveIntact
  <2> QED
    BY <1>1, <1>2, <2>2, <2>3, NothingBegun
<1>3. CASE /\ start_offset # end_offset
           /\ \E out \in ReadOutcomes(OldestHeader) : start_offset' = PopTo(out)
           /\ w' = [w EXCEPT !.pc = "popped", !.before = BytesAvailable(start_offset, end_offset)]
           /\ live' = IF live = << >> THEN live ELSE Tail(live)
  <2> DEFINE S == FrameSize(live[1].rec)
  <2>0. PICK n \in Nat : n = Len(live)
    BY <1>1
  <2>1. 1 \in 1 .. n /\ n \in Nat /\ n >= 1 /\ Distance(live[1].pos) = 0
    BY <1>1, <1>3, <2>0, OldestIs
  <2>2. S \in Nat \ {0} /\ S <= Used /\ FrameEnd(live[1]) = S
    BY <1>1, <1>3, PopIs
  <2>3. /\ start_offset \in Offset /\ start_offset \in Nat /\ start_offset < BytesMax
        /\ end_offset \in Nat /\ end_offset < BytesMax
        /\ Used \in Nat /\ Used < BytesMax
        /\ BytesMax \in Nat \ {0} /\ Word \in Nat /\ 4 * BytesMax < Word
    BY <1>1, Bounds, Constants, GeometryAssumption DEF Offset
  <2>4. start_offset' = start_offset + S /\ Used' = Used - S
    BY <1>1, <1>3, PopIs
  <2> HIDE DEF S
  <2>5. Used' = Used - S
    BY <2>4
  <2>6. /\ Len(live') = n - 1 /\ live # << >>
        /\ \A i \in 1 .. n - 1 : live'[i] = live[i + 1]
    BY <1>1, <1>3, <2>0, <2>1
  <2>7. ASSUME NEW i \in 1 .. n - 1
        PROVE  /\ i + 1 \in 1 .. n
               /\ Distance(live[i].pos)' = Distance(live[i + 1].pos) - S
               /\ FrameEnd(live[i])' = FrameEnd(live[i + 1]) - S
    <3>1. i + 1 \in 1 .. n /\ 1 < i + 1
      BY <2>1
    <3>2. S <= Distance(live[i + 1].pos)
      BY <2>0, <2>1, <2>2, <3>1 DEF RingInv, Layout
    <3>3. /\ live[i + 1].pos \in Offset
          /\ FrameSize(live[i + 1].rec) \in Nat
          /\ Distance(live[i + 1].pos) \in Nat
          /\ FrameEnd(live[i + 1]) = Distance(live[i + 1].pos) + FrameSize(live[i + 1].rec)
      BY <2>0, <3>1, LiveFrame
    <3>4. (live[i + 1].pos - (start_offset + S)) % BytesMax = Distance(live[i + 1].pos) - S
      BY <2>2, <2>3, <3>2, <3>3, PopDistance DEF Distance
    <3>5. Distance(live[i].pos)' = Distance(live[i + 1].pos) - S
      BY <2>4, <2>6, <3>4 DEF Distance
    <3>6. FrameEnd(live[i])' = Distance(live[i].pos)' + FrameSize(live[i + 1].rec)
      BY <2>6 DEF FrameEnd
    <3> QED
      BY <2>2, <3>1, <3>3, <3>5, <3>6
  <2>8. Contiguous'
    <3>1. Used' <= BytesMax
      BY <2>2, <2>3, <2>5
    <3>2. live' = << >> <=> Used' = 0
      <4>1. CASE n = 1
        <5>1. FrameEnd(live[1]) = Used
          BY <2>0, <2>6, <4>1 DEF RingInv, Layout, Contiguous
        <5>2. live' = << >>
          BY <1>1, <1>3, <2>6, <4>1
        <5> QED
          BY <2>2, <2>3, <2>5, <5>1, <5>2
      <4>2. CASE n # 1
        <5>1. 2 \in 1 .. n /\ 1 < 2 /\ 1 \in 1 .. n - 1
          BY <2>1, <4>2
        <5>2. S <= Distance(live[2].pos)
          BY <2>0, <2>1, <2>2, <5>1 DEF RingInv, Layout
        <5>3. /\ FrameSize(live[2].rec) \in Nat \ {0} /\ Distance(live[2].pos) \in Nat
              /\ FrameEnd(live[2]) = Distance(live[2].pos) + FrameSize(live[2].rec)
              /\ FrameEnd(live[2]) <= Used
          BY <2>0, <5>1, LiveFrame
        <5>4. Used' # 0
          BY <2>2, <2>3, <2>5, <5>2, <5>3
        <5>5. live' # << >>
          BY <2>1, <2>6, <4>2
        <5> QED
          BY <5>4, <5>5
      <4> QED
        BY <4>1, <4>2
    <3>3. ASSUME live' # << >>
          PROVE  Distance(live[1].pos)' = 0 /\ FrameEnd(live[Len(live)])' = Used'
      <4>1. n - 1 \in 1 .. n - 1 /\ 1 \in 1 .. n - 1
        <5>1. n # 1
          BY <1>1, <1>3, <2>6, <3>3
        <5> QED
          BY <2>1, <5>1
      <4>2. Distance(live[1 + 1].pos) = FrameEnd(live[1])
        BY <2>0, <4>1 DEF RingInv, Layout, Contiguous
      <4>3. Distance(live[1].pos)' = 0
        BY <2>2, <2>7, <4>1, <4>2
      <4>4. FrameEnd(live[n]) = Used
        BY <2>0, <2>6 DEF RingInv, Layout, Contiguous
      <4>5. n - 1 + 1 = n
        BY <2>1
      <4>6. FrameEnd(live[n - 1])' = FrameEnd(live[n]) - S
        BY <2>7, <4>1, <4>5
      <4> QED
        BY <2>5, <2>6, <4>3, <4>4, <4>6
    <3>4. ASSUME NEW i \in 1 .. Len(live)' - 1
          PROVE  Distance(live[i + 1].pos)' = FrameEnd(live[i])'
      <4>1. i \in 1 .. n - 1 /\ i + 1 \in 1 .. n - 1
        BY <2>1, <2>6
      <4>2. Distance(live[i + 1 + 1].pos) = FrameEnd(live[i + 1])
        BY <2>0, <4>1 DEF RingInv, Layout, Contiguous
      <4> QED
        BY <2>7, <4>1, <4>2
    <3> QED
      BY <3>1, <3>2, <3>3, <3>4 DEF Contiguous
  <2>9. Layout'
    <3>1. ASSUME NEW i \in 1 .. Len(live)'
          PROVE  FrameEnd(live[i])' <= Used'
      <4>1. i \in 1 .. n - 1 /\ i + 1 \in 1 .. n
        BY <2>1, <2>6
      <4>2. FrameEnd(live[i + 1]) \in Nat /\ FrameEnd(live[i + 1]) <= Used
        BY <2>0, <4>1, LiveFrame
      <4> QED
        BY <2>2, <2>3, <2>5, <2>7, <4>1, <4>2
    <3>2. ASSUME NEW i \in 1 .. Len(live)', NEW j \in 1 .. Len(live)', i < j
          PROVE  FrameEnd(live[i])' <= Distance(live[j].pos)'
      <4>1. /\ i \in 1 .. n - 1 /\ i + 1 \in 1 .. n
            /\ j \in 1 .. n - 1 /\ j + 1 \in 1 .. n /\ i + 1 < j + 1
        BY <2>1, <2>6, <3>2
      <4>2. FrameEnd(live[i + 1]) \in Nat /\ Distance(live[j + 1].pos) \in Nat
        BY <2>0, <4>1, LiveFrame
      <4>3. FrameEnd(live[i + 1]) <= Distance(live[j + 1].pos)
        BY <2>0, <4>1 DEF RingInv, Layout
      <4> QED
        BY <2>2, <2>7, <4>1, <4>2, <4>3
    <3> QED
      BY <2>8, <3>1, <3>2 DEF Layout
  <2>10. LiveIntact'
    <3>1. ASSUME NEW i \in (DOMAIN live)'
          PROVE  i + 1 \in DOMAIN live /\ live'[i] = live[i + 1]
      <4>1. i \in 1 .. n - 1
        BY <1>1, <1>3, <2>6
      <4>2. i + 1 \in 1 .. n /\ DOMAIN live = 1 .. n
        BY <1>1, <2>0, <2>1, <4>1
      <4> QED
        BY <2>6, <4>1, <4>2
    <3> QED
      BY <1>1, <3>1 DEF RingInv, LiveIntact
  <2>11. /\ w'.pc = "popped" /\ w'.rec = w.rec /\ w'.offset = 0 /\ w'.done = 0
         /\ w'.before = BytesAvailable(start_offset, end_offset)
    BY <1>1, <1>3 DEF RingInv, PlaceOK, WriterHandle
  <2>12. BytesAvailable(start_offset, end_offset) = BytesMax - Used
    <3> DEFINE x == BytesMax - Used
    <3>1. x \in 0 .. Word - 1
      BY <2>3
    <3> HIDE DEF x
    <3>2. x % Word = x
      BY <2>3, <3>1, Wrap
    <3> QED
      BY <3>2 DEF x, BytesAvailable, Used
  <2>13. SpaceOK'
    <3>1. w'.before < BytesMax - Used'
      BY <2>2, <2>3, <2>5, <2>11, <2>12
    <3>2. FrameSize(w.rec) < BytesMax
      BY <1>1 DEF RingInv, SpaceOK
    <3> QED
      BY <2>11, <3>1, <3>2 DEF SpaceOK, Writing
  <2>14. PlaceOK' /\ FrameBegun'
    BY <2>11 DEF PlaceOK, FrameBegun, Writing
  <2>15. Reduced'
    <3>1. start_offset' < 2 * BytesMax /\ end_offset < 2 * BytesMax /\ Used' < BytesMax
      BY <2>2, <2>3, <2>4, <2>5
    <3> QED
      BY <1>1, <2>3, <2>11, <3>1 DEF Reduced
  <2> QED
    BY <2>9, <2>10, <2>11, <2>13, <2>14, <2>15 DEF RingInv, NoAbort
<1> QED
  BY <1>2, <1>3 DEF PopRecord

(* The second store reduces the start offset, and bytes_used() stays. *)
LEMMA ReduceStartIs ==
  ASSUME RingInv, ReduceStart
  PROVE  /\ start_offset' \in 0 .. BytesMax - 1
         /\ start_offset' = start_offset \/ start_offset' = start_offset - BytesMax
         /\ Used' = Used
<1>1. /\ w.pc = "popped" /\ w \in WriterHandle
      /\ start_offset' = start_offset % BytesMax
      /\ UNCHANGED <<end_offset, data, live>>
  BY DEF ReduceStart, RingInv, TypeInv, TypeOK
<1>2. /\ start_offset \in 0 .. 2 * BytesMax - 1
      /\ end_offset \in Nat /\ end_offset < BytesMax
      /\ Used \in Nat /\ Used < BytesMax
      /\ BytesMax \in Nat \ {0} /\ Word \in Nat /\ 4 * BytesMax < Word
      /\ end_offset = start_offset + Used \/ end_offset = start_offset + Used - BytesMax
  BY <1>1, Bounds, Constants, GeometryAssumption DEF Offset
<1>3. /\ start_offset' \in 0 .. BytesMax - 1
      /\ start_offset' = start_offset \/ start_offset' = start_offset - BytesMax
  <2>1. start_offset' = Place(start_offset)
    BY <1>1 DEF Place
  <2> QED
    BY <1>2, <2>1, WrapAhead
<1>4. Used' = Used
  <2>1. start_offset' \in 0 .. 2 * BytesMax - 1 /\ end_offset \in 0 .. 2 * BytesMax - 1
        /\ Used \in 0 .. BytesMax
    BY <1>2, <1>3
  <2>2. end_offset = start_offset' + Used \/ end_offset = start_offset' + Used - BytesMax
    <3>1. CASE start_offset' = start_offset
      BY <1>2, <3>1
    <3>2. CASE start_offset' = start_offset - BytesMax
      BY <1>2, <1>3, <3>2
    <3> QED
      BY <1>3, <3>1, <3>2
  <2>3. BytesUsed(start_offset', end_offset) = Used
    <3>1. PICK s \in 0 .. 2 * BytesMax - 1 : s = start_offset'
      BY <2>1
    <3>2. PICK u \in 0 .. BytesMax : u = Used /\ u < BytesMax
      BY <1>2, <2>1
    <3>3. end_offset = s + u \/ end_offset = s + u - BytesMax
      BY <2>2, <3>1, <3>2
    <3>4. BytesUsed(s, end_offset) = u
      BY <2>1, <3>2, <3>3, UsedIs
    <3> QED
      BY <3>1, <3>2, <3>4
  <2> QED
    BY <1>1, <2>3 DEF Used
<1> QED
  BY <1>3, <1>4

(* The second store moves nothing, and its assertion holds. *)
LEMMA ReduceStartSafe ==
  ASSUME SafeUse, RingInv, TypeInv', ReduceStart
  PROVE  RingInv'
<1>1. /\ w.pc = "popped" /\ w \in WriterHandle
      /\ start_offset' = start_offset % BytesMax
      /\ UNCHANGED <<end_offset, data, live>>
  BY DEF ReduceStart, RingInv, TypeInv, TypeOK
<1>2. /\ start_offset \in 0 .. 2 * BytesMax - 1
      /\ end_offset \in Nat /\ end_offset < BytesMax
      /\ Used \in Nat /\ Used < BytesMax
      /\ BytesMax \in Nat \ {0} /\ Word \in Nat /\ 4 * BytesMax < Word
      /\ end_offset = start_offset + Used \/ end_offset = start_offset + Used - BytesMax
  BY <1>1, Bounds, Constants, GeometryAssumption DEF Offset
<1>3. /\ start_offset' \in 0 .. BytesMax - 1
      /\ start_offset' = start_offset \/ start_offset' = start_offset - BytesMax
  BY ReduceStartIs
<1>4. Used' = Used
  BY ReduceStartIs
<1>5. ASSUME NEW i \in 1 .. Len(live)
      PROVE  /\ Distance(live[i].pos)' = Distance(live[i].pos)
             /\ FrameEnd(live[i])' = FrameEnd(live[i])
  <2>1. live[i].pos \in Offset
    BY LiveFrame
  <2>2. (live[i].pos - (start_offset % BytesMax)) % BytesMax = Distance(live[i].pos)
    BY <1>2, <2>1, ReduceDistance DEF Distance
  <2>3. Distance(live[i].pos)' = Distance(live[i].pos)
    BY <1>1, <2>2 DEF Distance
  <2>4. FrameEnd(live[i])' = Distance(live[i].pos)' + FrameSize(live[i].rec)
    BY <1>1 DEF FrameEnd
  <2> QED
    BY <2>3, <2>4 DEF FrameEnd
<1>6. Layout'
  <2>1. Len(live) \in Nat /\ (live # << >> => 1 \in 1 .. Len(live) /\ Len(live) \in 1 .. Len(live))
    BY DEF RingInv, TypeInv, TypeOK
  <2>2. ASSUME NEW i \in 1 .. Len(live) - 1
        PROVE  Distance(live[i + 1].pos)' = FrameEnd(live[i])'
    <3>1. i \in 1 .. Len(live) /\ i + 1 \in 1 .. Len(live)
      BY <2>1
    <3>2. Distance(live[i + 1].pos) = FrameEnd(live[i])
      BY DEF RingInv, Layout, Contiguous
    <3> QED
      BY <1>5, <3>1, <3>2
  <2>3. live # << >> => Distance(live[1].pos)' = 0 /\ FrameEnd(live[Len(live)])' = Used
    BY <1>1, <1>5, <2>1 DEF RingInv, Layout, Contiguous
  <2>4. Contiguous'
    BY <1>1, <1>4, <2>2, <2>3 DEF RingInv, Layout, Contiguous
  <2> QED
    BY <1>1, <1>4, <1>5, <2>4 DEF RingInv, Layout
<1>7. LiveIntact'
  BY <1>1 DEF RingInv, LiveIntact
<1>8. BytesAvailable(start_offset', end_offset) = BytesMax - Used
  <2> DEFINE x == BytesMax - Used
  <2>1. x \in 0 .. Word - 1
    BY <1>2
  <2> HIDE DEF x
  <2>2. x % Word = x
    BY <1>2, <2>1, Wrap
  <2> QED
    BY <1>1, <1>4, <2>2 DEF x, BytesAvailable, Used
<1>9. /\ w'.pc = "space" /\ w'.rec = w.rec /\ w'.offset = w.offset /\ w'.done = w.done
  <2>1. w.before \in Nat /\ w.before < BytesMax - Used
    BY <1>1 DEF RingInv, SpaceOK, WriterHandle
  <2>2. BytesAvailable(start_offset', end_offset) > w.before
    BY <1>2, <1>8, <2>1
  <2> QED
    BY <1>1, <2>2 DEF ReduceStart, WriterHandle
<1>10. SpaceOK' /\ PlaceOK' /\ FrameBegun'
  BY <1>1, <1>9 DEF RingInv, SpaceOK, PlaceOK, FrameBegun, Writing
<1>11. Reduced'
  <2>1. start_offset' < 2 * BytesMax /\ start_offset' < BytesMax /\ end_offset < 2 * BytesMax
    BY <1>2, <1>3
  <2> QED
    BY <1>1, <1>2, <1>4, <2>1 DEF Reduced
<1> QED
  BY <1>6, <1>7, <1>9, <1>10, <1>11 DEF RingInv, NoAbort

-----------------------------------------------------------------------------
(* When the end offset comes to the start offset the ring is empty.        *)
LEMMA EmptiedSafe ==
  ASSUME RingInv, TypeInv', UNCHANGED <<start_offset, data>>,
         w.pc # "popped", end_offset' = start_offset, live' = << >>,
         w'.pc \in {"reduce", "idle"}, w'.pc = "idle" => w'.offset = 0, w'.done = 0
  PROVE  RingInv'
<1>1. /\ start_offset \in Nat /\ start_offset < BytesMax /\ BytesMax \in Nat \ {0}
  BY Bounds, Constants DEF Offset
<1>2. Used' = 0
  BY <1>1 DEF Used, BytesUsed
<1>3. Layout' /\ LiveIntact'
  BY <1>1, <1>2 DEF Layout, Contiguous, LiveIntact
<1>4. Reduced'
  BY <1>1, <1>2 DEF Reduced
<1>5. SpaceOK' /\ PlaceOK' /\ FrameBegun'
  BY DEF SpaceOK, PlaceOK, FrameBegun, Writing, Streaming
<1> QED
  BY <1>3, <1>4, <1>5 DEF RingInv, NoAbort

(***************************************************************************)
(* The store that publishes a record advances the end offset by its frame, *)
(* and bytes_used() becomes more by as much, or the ring is full.          *)
(***************************************************************************)
LEMMA PublishIs ==
  ASSUME SafeUse, RingInv, Publish \/ StreamingWriteFinish
  PROVE  /\ FrameSize(w.rec) \in Nat \ {0} /\ Used + FrameSize(w.rec) <= BytesMax
         /\ w.rec \in Records /\ w.done = 0 /\ Writing
         /\ end_offset' = end_offset + FrameSize(w.rec) /\ Progress = FrameSize(w.rec)
         /\ end_offset' # start_offset => Used' = Used + FrameSize(w.rec)
         /\ end_offset' = start_offset => Used + FrameSize(w.rec) = BytesMax /\ Used' = 0
<1> DEFINE S == FrameSize(w.rec)
           f == [pos |-> end_offset % BytesMax, rec |-> w.rec]
<1>1. w \in WriterHandle /\ live \in Seq(Frame)
  BY DEF RingInv, TypeInv, TypeOK
<1>2. /\ w.pc \in {"publish", "idle"} /\ w'.pc = "reduce" /\ w'.done = w.done
      /\ UNCHANGED <<start_offset, data>>
      /\ live' = IF end_offset' = start_offset THEN << >> ELSE Append(live, f)
  BY <1>1 DEF Publish, StreamingWriteFinish, StoreEnd, WithFrame, WriterHandle
<1>3. Writing
  BY DEF Publish, StreamingWriteFinish, Writing
<1>4. w.rec \in Records /\ w.done = 0
  BY <1>2, <1>3 DEF Writing, RingInv, TypeInv, WriterSound, PlaceOK
<1>5. S \in Nat \ {0} /\ Used + S <= BytesMax /\ S < BytesMax
  <2>1. Used + S <= BytesMax /\ S < BytesMax
    BY <1>3 DEF RingInv, SpaceOK
  <2>2. S \in Nat \ {0}
    <3> DEFINE B == ByteSize(Len(w.rec))
               L == Len(w.rec)
    <3>1. L \in Nat /\ B \in Nat \ {0} /\ S = B + L
      BY <1>4, FrameIs
    <3> HIDE DEF B, L, S
    <3> QED
      BY <3>1
  <2> QED
    BY <2>1, <2>2
<1>6. /\ start_offset \in Nat /\ start_offset < BytesMax
      /\ end_offset \in Nat /\ end_offset < BytesMax
      /\ Used \in Nat /\ Used < BytesMax
      /\ BytesMax \in Nat \ {0} /\ Word \in Nat /\ 4 * BytesMax < Word
      /\ end_offset = start_offset + Used \/ end_offset = start_offset + Used - BytesMax
  BY <1>2, Bounds, Constants, GeometryAssumption DEF Offset
<1>7. end_offset' = end_offset + S /\ Progress = S
  <2>1. CASE Publish
    <3> DEFINE x == end_offset + S
    <3>1. end_offset' = x % Word
      BY <2>1 DEF Publish, StoreEnd
    <3>2. x \in 0 .. Word - 1
      <4> HIDE DEF S
      <4> QED
        BY <1>5, <1>6
    <3> HIDE DEF x
    <3>3. x % Word = x
      BY <1>6, <3>2, Wrap
    <3>4. Progress = S
      BY <2>1 DEF Publish, Progress
    <3> QED
      BY <3>1, <3>3, <3>4 DEF x
  <2>2. CASE StreamingWriteFinish
    <3>1. w.pc = "idle" /\ w.remaining = 0 /\ end_offset' = w.offset
      BY <2>2 DEF StreamingWriteFinish, StoreEnd
    <3>2. w.offset = end_offset + S - w.remaining
      BY <2>2 DEF StreamingWriteFinish, RingInv, PlaceOK
    <3>3. Progress = w.offset - end_offset
      BY <3>1 DEF Progress
    <3> HIDE DEF S
    <3> QED
      BY <1>5, <1>6, <3>1, <3>2, <3>3
  <2> QED
    BY <2>1, <2>2
<1> HIDE DEF S
<1>8. ASSUME end_offset' # start_offset
      PROVE  Used' = Used + S
  <2>1. /\ start_offset \in 0 .. 2 * BytesMax - 1 /\ end_offset' \in 0 .. 2 * BytesMax - 1
        /\ Used + S \in 0 .. BytesMax
    BY <1>5, <1>6, <1>7
  <2>2. \/ end_offset' = start_offset + (Used + S)
        \/ Used + S < BytesMax /\ end_offset' = start_offset + (Used + S) - BytesMax
    BY <1>5, <1>6, <1>7, <1>8
  <2>3. BytesUsed(start_offset, end_offset') = Used + S
    BY <2>1, <2>2, UsedIs
  <2> QED
    BY <1>2, <2>3 DEF Used
<1>9. ASSUME end_offset' = start_offset
      PROVE  Used + S = BytesMax /\ Used' = 0
  <2>1. Used + S = BytesMax
    BY <1>5, <1>6, <1>7, <1>9
  <2> QED
    BY <1>2, <1>6, <1>9, <2>1 DEF Used, BytesUsed
<1> QED
  BY <1>3, <1>4, <1>5, <1>7, <1>8, <1>9 DEF S

(***************************************************************************)
(* The store that publishes a record: it appends the whole frame, in its   *)
(* place, or empties the ring when the frame fills it to the last byte.    *)
(***************************************************************************)
LEMMA PublishSafe ==
  ASSUME SafeUse, RingInv, TypeInv', Publish \/ StreamingWriteFinish
  PROVE  RingInv'
<1> DEFINE S == FrameSize(w.rec)
           f == [pos |-> end_offset % BytesMax, rec |-> w.rec]
<1>1. w \in WriterHandle /\ live \in Seq(Frame)
  BY DEF RingInv, TypeInv, TypeOK
<1>2. /\ w.pc \in {"publish", "idle"} /\ w'.pc = "reduce" /\ w'.done = w.done
      /\ UNCHANGED <<start_offset, data>>
      /\ live' = IF end_offset' = start_offset THEN << >> ELSE Append(live, f)
  BY <1>1 DEF Publish, StreamingWriteFinish, StoreEnd, WithFrame, WriterHandle
<1>3. Writing
  BY PublishIs
<1>4. w.rec \in Records /\ w.done = 0
  BY PublishIs
<1>5. S \in Nat \ {0} /\ Used + S <= BytesMax
  BY PublishIs
<1>6. /\ start_offset \in Nat /\ start_offset < BytesMax
      /\ end_offset \in Nat /\ end_offset < BytesMax
      /\ Used \in Nat /\ Used < BytesMax
      /\ BytesMax \in Nat \ {0} /\ Word \in Nat /\ 4 * BytesMax < Word
  BY <1>2, Bounds, Constants, GeometryAssumption DEF Offset
<1>7. end_offset' = end_offset + S /\ Progress = S
  BY PublishIs
<1>8. \A j \in 0 .. S - 1 : data[(end_offset + j) % BytesMax] = FrameByte(w.rec, j)
  BY <1>3, <1>7 DEF RingInv, FrameBegun
<1>9. CASE end_offset' = start_offset
  BY <1>2, <1>4, <1>9, EmptiedSafe
<1>10. CASE end_offset' # start_offset
  <2>0. PICK n \in Nat : n = Len(live)
    BY <1>1
  <2>1. /\ Len(live') = n + 1 /\ live'[n + 1] = f
        /\ \A i \in 1 .. n : live'[i] = live[i]
        /\ live' \in Seq(Frame) /\ DOMAIN live' = 1 .. n + 1 /\ DOMAIN live = 1 .. n
    <3>1. live' \in Seq(Frame) /\ live' = Append(live, f)
      BY <1>2, <1>10 DEF TypeInv, TypeOK
    <3> HIDE DEF f
    <3>2. f \in Frame
      <4>1. end_offset % BytesMax \in Offset
        BY <1>6, OffsetTypes
      <4> QED
        BY <1>4, <4>1 DEF f, Frame
    <3> QED
      BY <1>1, <2>0, <3>1, <3>2
  <2>2. end_offset % BytesMax = end_offset
    BY <1>6, Wrap
  <2> HIDE DEF S
  <2>3. Used' = Used + S
    BY <1>10, PublishIs DEF S
  <2>4. ASSUME NEW i \in 1 .. n
        PROVE  /\ Distance(live[i].pos)' = Distance(live[i].pos)
               /\ FrameEnd(live[i])' = FrameEnd(live[i])
               /\ FrameEnd(live[i]) \in Nat /\ FrameEnd(live[i]) <= Used
    <3>1. Distance(live[i].pos)' = Distance(live[i].pos)
      BY <1>2, <2>1 DEF Distance
    <3>2. FrameEnd(live[i])' = Distance(live[i].pos)' + FrameSize(live[i].rec)
      BY <2>1 DEF FrameEnd
    <3>3. /\ FrameEnd(live[i]) = Distance(live[i].pos) + FrameSize(live[i].rec)
          /\ Distance(live[i].pos) \in Nat /\ FrameSize(live[i].rec) \in Nat
          /\ FrameEnd(live[i]) <= Used
      BY <2>0, LiveFrame
    <3> QED
      BY <3>1, <3>2, <3>3
  <2>5. Distance(live[n + 1].pos)' = Used /\ FrameEnd(live[n + 1])' = Used + S
    <3>1. Distance(end_offset % BytesMax) = Used
      <4>1. 0 \in Nat /\ Used + 0 < BytesMax /\ Used + 0 = Used /\ end_offset + 0 = end_offset
        BY <1>6
      <4> QED
        BY <4>1, NextDistance
    <3>2. (f.pos - start_offset) % BytesMax = Used
      BY <3>1 DEF Distance
    <3> HIDE DEF f
    <3>3. (live'[n + 1].pos - start_offset') % BytesMax = Used
      BY <1>2, <2>1, <3>2
    <3>4. FrameSize(live'[n + 1].rec) = S
      BY <2>1 DEF f, S
    <3> QED
      BY <3>3, <3>4 DEF Distance, FrameEnd
  <2>6. Contiguous'
    <3>1. Used' <= BytesMax
      BY <1>5, <2>3
    <3>2. live' # << >> /\ Used' # 0
      BY <1>5, <1>6, <2>0, <2>1, <2>3
    <3>3. Distance(live[1].pos)' = 0
      <4>1. CASE n = 0
        <5>1. Used = 0
          <6>1. live \in Seq(Frame) /\ Len(live) = 0
            BY <1>1, <2>0, <4>1
          <6>2. live = << >>
            BY <6>1
          <6> QED
            BY <6>2 DEF RingInv, Layout, Contiguous
        <5>2. Distance(live[0 + 1].pos)' = Used
          BY <2>5, <4>1
        <5> QED
          BY <5>1, <5>2
      <4>2. CASE n # 0
        <5>1. 1 \in 1 .. n /\ live # << >>
          BY <1>1, <2>0, <4>2
        <5>2. Distance(live[1].pos) = 0
          BY <5>1 DEF RingInv, Layout, Contiguous
        <5> QED
          BY <2>4, <5>1, <5>2
      <4> QED
        BY <4>1, <4>2
    <3>4. FrameEnd(live[Len(live)])' = Used'
      BY <2>1, <2>3, <2>5
    <3>5. ASSUME NEW i \in 1 .. Len(live)' - 1
          PROVE  Distance(live[i + 1].pos)' = FrameEnd(live[i])'
      <4>1. i \in 1 .. n
        BY <2>0, <2>1
      <4>2. CASE i = n
        <5>1. live # << >>
          BY <1>1, <2>0, <4>1
        <5>2. FrameEnd(live[n]) = Used
          BY <2>0, <5>1 DEF RingInv, Layout, Contiguous
        <5> QED
          BY <2>4, <2>5, <4>1, <4>2, <5>2
      <4>3. CASE i # n
        <5>1. i + 1 \in 1 .. n /\ i \in 1 .. Len(live) - 1
          BY <2>0, <4>1, <4>3
        <5>2. Distance(live[i + 1].pos) = FrameEnd(live[i])
          BY <5>1 DEF RingInv, Layout, Contiguous
        <5> QED
          BY <2>4, <4>1, <5>1, <5>2
      <4> QED
        BY <4>2, <4>3
    <3> QED
      BY <3>1, <3>2, <3>3, <3>4, <3>5 DEF Contiguous
  <2>7. Layout'
    <3>1. ASSUME NEW i \in 1 .. Len(live)'
          PROVE  FrameEnd(live[i])' <= Used'
      <4>1. i \in 1 .. n \/ i = n + 1
        BY <2>0, <2>1
      <4>2. CASE i \in 1 .. n
        BY <1>5, <1>6, <2>3, <2>4, <4>2
      <4>3. CASE i = n + 1
        BY <1>5, <1>6, <2>3, <2>5, <4>3
      <4> QED
        BY <4>1, <4>2, <4>3
    <3>2. ASSUME NEW i \in 1 .. Len(live)', NEW j \in 1 .. Len(live)', i < j
          PROVE  FrameEnd(live[i])' <= Distance(live[j].pos)'
      <4>1. i \in 1 .. n /\ (j \in 1 .. n \/ j = n + 1)
        BY <2>0, <2>1, <3>2
      <4>2. CASE j \in 1 .. n
        <5>1. FrameEnd(live[i]) <= Distance(live[j].pos)
          BY <2>0, <3>2, <4>1, <4>2 DEF RingInv, Layout
        <5> QED
          BY <2>4, <4>1, <4>2, <5>1
      <4>3. CASE j = n + 1
        BY <2>4, <2>5, <4>1, <4>3
      <4> QED
        BY <4>1, <4>2, <4>3
    <3> QED
      BY <2>6, <3>1, <3>2 DEF Layout
  <2>8. LiveIntact'
    <3>1. ASSUME NEW i \in (DOMAIN live)', NEW j \in 0 .. FrameSize(live[i].rec)' - 1
          PROVE  data'[(live'[i].pos + j) % BytesMax] = FrameByte(live'[i].rec, j)
      <4>1. i \in 1 .. n \/ i = n + 1
        BY <2>0, <2>1
      <4>2. CASE i \in 1 .. n
        <5>1. live'[i] = live[i] /\ i \in DOMAIN live
          BY <2>1, <4>2
        <5> QED
          BY <1>2, <3>1, <5>1 DEF RingInv, LiveIntact
      <4>3. CASE i = n + 1
        <5>1. live'[i] = f
          BY <2>1, <4>3
        <5>2. f.pos = end_offset /\ f.rec = w.rec
          BY <2>2
        <5> HIDE DEF f
        <5>3. j \in 0 .. S - 1
          BY <3>1, <5>1, <5>2 DEF S
        <5> QED
          BY <1>2, <1>8, <5>1, <5>2, <5>3
      <4> QED
        BY <4>1, <4>2, <4>3
    <3> QED
      BY <3>1 DEF LiveIntact
  <2>9. Reduced'
    <3>1. end_offset' < 2 * BytesMax /\ start_offset < 2 * BytesMax
      BY <1>5, <1>6, <1>7
    <3> QED
      BY <1>2, <1>6, <3>1 DEF Reduced
  <2>10. SpaceOK' /\ PlaceOK' /\ FrameBegun'
    BY <1>2, <1>4 DEF SpaceOK, PlaceOK, FrameBegun, Writing
  <2> QED
    BY <1>2, <2>7, <2>8, <2>9, <2>10 DEF RingInv, NoAbort
<1> QED
  BY <1>9, <1>10

(* The second store reduces the end offset: bytes_used() stays, or was the *)
(* whole ring, which is now taken for empty.                               *)
LEMMA ReduceEndIs ==
  ASSUME RingInv, ReduceEnd
  PROVE  /\ end_offset' \in 0 .. BytesMax - 1
         /\ end_offset' = end_offset \/ end_offset' = end_offset - BytesMax
         /\ end_offset' # start_offset => Used < BytesMax /\ Used' = Used
         /\ end_offset' = start_offset => Used \in {0, BytesMax} /\ Used' = 0
<1>1. /\ w.pc = "reduce" /\ w \in WriterHandle /\ UNCHANGED <<start_offset, data>>
      /\ end_offset' = end_offset % BytesMax
      /\ live' = IF end_offset' = start_offset THEN << >> ELSE live
  BY DEF ReduceEnd, ReducedEnd, StoreEnd, RingInv, TypeInv, TypeOK
<1>2. /\ start_offset \in Nat /\ start_offset < BytesMax
      /\ end_offset \in 0 .. 2 * BytesMax - 1
      /\ Used \in 0 .. BytesMax
      /\ BytesMax \in Nat \ {0}
      /\ \/ end_offset = start_offset + Used
         \/ Used < BytesMax /\ end_offset = start_offset + Used - BytesMax
  BY <1>1, Bounds, Constants DEF Offset
<1>3. /\ end_offset' \in 0 .. BytesMax - 1
      /\ end_offset' = end_offset \/ end_offset' = end_offset - BytesMax
  <2>1. /\ end_offset \in Int /\ 0 <= end_offset /\ end_offset < 2 * BytesMax
        /\ end_offset < 3 * BytesMax /\ BytesMax \in Nat
    BY <1>2
  <2> DEFINE y == Place(end_offset)
  <2>2. /\ y \in 0 .. BytesMax - 1
        /\ y = end_offset \/ y = end_offset - BytesMax \/ y = end_offset - 2 * BytesMax
    BY <2>1, WrapAhead
  <2> HIDE DEF y
  <2>3. y = end_offset \/ y = end_offset - BytesMax
    BY <2>1, <2>2
  <2> QED
    BY <1>1, <2>2, <2>3 DEF y, Place
<1>4. ASSUME end_offset' # start_offset
      PROVE  Used < BytesMax /\ Used' = Used
  <2>1. Used < BytesMax
    BY <1>2, <1>3, <1>4
  <2>2. Used' = Used
    <3>1. start_offset \in 0 .. 2 * BytesMax - 1 /\ end_offset' \in 0 .. 2 * BytesMax - 1
      BY <1>2, <1>3
    <3>2. \/ end_offset' = start_offset + Used
          \/ end_offset' = start_offset + Used - BytesMax
      BY <1>2, <1>3
    <3>3. BytesUsed(start_offset, end_offset') = Used
      BY <1>2, <2>1, <3>1, <3>2, UsedIs
    <3> QED
      BY <1>1, <3>3 DEF Used
  <2> QED
    BY <2>1, <2>2
<1>5. ASSUME end_offset' = start_offset
      PROVE  Used \in {0, BytesMax} /\ Used' = 0
  <2>1. Used \in {0, BytesMax}
    BY <1>2, <1>3, <1>5
  <2> QED
    BY <1>1, <1>2, <1>5, <2>1 DEF Used, BytesUsed
<1> QED
  BY <1>3, <1>4, <1>5

(* The second store to the end offset moves nothing. *)
LEMMA ReduceEndSafe ==
  ASSUME SafeUse, RingInv, TypeInv', ReduceEnd
  PROVE  RingInv'
<1>1. /\ w.pc = "reduce" /\ w \in WriterHandle /\ UNCHANGED <<start_offset, data>>
      /\ end_offset' = end_offset % BytesMax
      /\ live' = IF end_offset' = start_offset THEN << >> ELSE live
  BY DEF ReduceEnd, ReducedEnd, StoreEnd, RingInv, TypeInv, TypeOK
<1>2. w'.pc = "idle" /\ w'.offset = 0 /\ w'.done = 0
  <2> DEFINE h == [w EXCEPT !.offset = 0]
  <2>1. h \in WriterHandle /\ h.offset = 0
    <3>1. 0 \in 0 .. Word - 1
      BY Constants
    <3> QED
      BY <1>1, <3>1 DEF WriterHandle
  <2>2. w' = WriteReturns(h, "true")
    BY DEF ReduceEnd
  <2> HIDE DEF h
  <2> QED
    BY <2>1, <2>2, WriteReturnsIs
<1>3. /\ start_offset \in Nat /\ start_offset < BytesMax
      /\ end_offset \in 0 .. 2 * BytesMax - 1
      /\ Used \in 0 .. BytesMax
      /\ BytesMax \in Nat \ {0}
      /\ \/ end_offset = start_offset + Used
         \/ Used < BytesMax /\ end_offset = start_offset + Used - BytesMax
  BY <1>1, Bounds, Constants DEF Offset
<1>4. /\ end_offset' \in 0 .. BytesMax - 1
      /\ end_offset' = end_offset \/ end_offset' = end_offset - BytesMax
  BY ReduceEndIs
<1>5. CASE end_offset' = start_offset
  BY <1>1, <1>2, <1>5, EmptiedSafe
<1>6. CASE end_offset' # start_offset
  <2>1. Used < BytesMax /\ Used' = Used
    BY <1>6, ReduceEndIs
  <2>2. Used' = Used
    BY <2>1
  <2>3. Layout' /\ LiveIntact'
    BY <1>1, <1>6, <2>2 DEF RingInv, Layout, Contiguous, LiveIntact, FrameEnd, Distance
  <2>4. Reduced'
    <3>1. end_offset' < 2 * BytesMax /\ start_offset < 2 * BytesMax
      BY <1>3, <1>4
    <3> QED
      BY <1>1, <1>3, <1>4, <2>1, <2>2, <3>1 DEF Reduced
  <2>5. SpaceOK' /\ PlaceOK' /\ FrameBegun'
    BY <1>2 DEF SpaceOK, PlaceOK, FrameBegun, Writing, Streaming
  <2> QED
    BY <1>2, <2>3, <2>4, <2>5 DEF RingInv, NoAbort
<1> QED
  BY <1>5, <1>6

-----------------------------------------------------------------------------
LEMMA InitSafe ==
  ASSUME Init
  PROVE  RingInv
<1>1. BytesMax \in Nat \ {0}
  BY Constants
<1>2. w.pc = "idle" /\ w.offset = 0 /\ w.done = 0
  BY DEF Init, NewWriter
<1>3. Used = 0
  BY DEF Init, Used, BytesUsed
<1>4. Reduced
  BY <1>1, <1>3 DEF Init, Reduced
<1>5. Layout /\ LiveIntact
  BY <1>1, <1>3 DEF Init, Layout, Contiguous, LiveIntact
<1>6. NoAbort /\ SpaceOK /\ PlaceOK /\ FrameBegun
  BY <1>2 DEF NoAbort, SpaceOK, PlaceOK, FrameBegun, Writing, Streaming
<1> QED
  BY <1>4, <1>5, <1>6, InitTypes DEF RingInv

(* The reader changes nothing the writer or the ring depends on. *)
LEMMA FileUntouched ==
  ASSUME RingInv, TypeInv', UNCHANGED <<start_offset, end_offset, data, live, w>>
  PROVE  RingInv'
<1>1. Used' = Used
  BY DEF Used
<1>2. NoAbort' /\ Reduced' /\ SpaceOK'
  BY <1>1 DEF RingInv, NoAbort, Reduced, SpaceOK, Writing, Streaming
<1>3. Layout' /\ LiveIntact'
  BY <1>1 DEF RingInv, Layout, Contiguous, LiveIntact, FrameEnd, Distance
<1>4. PutOffset' = PutOffset /\ PutSize' = PutSize
  BY DEF PutOffset, PutSize
<1>5. PlaceOK'
  BY <1>4 DEF RingInv, PlaceOK, Streaming
<1>6. FrameBegun'
  <2>1. Progress' = Progress /\ (Writing' <=> Writing)
    BY <1>4 DEF Progress, Writing, Streaming
  <2> QED
    BY <2>1 DEF RingInv, FrameBegun
<1> QED
  BY <1>2, <1>3, <1>5, <1>6 DEF RingInv

LEMMA ReaderStays ==
  ASSUME Reader
  PROVE  UNCHANGED <<start_offset, end_offset, data, live, w>>
BY DEF Reader, OpenRead, CloseRead, NextRecordSize, StreamingReadStart, Read, ReadNext, StartRead,
       ReadHeader, DecodeHeader, StreamingRead, ReadSegment, ReadFails, StreamingReadFinish

LEMMA StepSafe ==
  ASSUME SafeUse, RingInv, [Next]_vars
  PROVE  RingInv'
<1>1. TypeInv'
  BY StepTypes DEF RingInv
<1>2. CASE UNCHANGED vars
  BY <1>1, <1>2, FileUntouched DEF vars
<1>3. CASE Writer
  <2>1. CASE \/ OpenAppend
             \/ StopWriter
             \/ \E rec \in Records : Write(rec) \/ StreamingWriteStart(rec)
             \/ PopFails
    BY <1>1, <2>1, WriterEntrySafe
  <2>2. CASE EnoughSpace \/ \E n \in Sizes : StreamingWrite(n)
    BY <1>1, <2>2, BeginSafe
  <2>3. CASE WriteSegment \/ WriteFails
    BY <1>1, <2>3, TransferSafe
  <2>4. CASE PopRecord
    BY <1>1, <2>4, PopSafe
  <2>5. CASE ReduceStart
    BY <1>1, <2>5, ReduceStartSafe
  <2>6. CASE Publish \/ StreamingWriteFinish
    BY <1>1, <2>6, PublishSafe
  <2>7. CASE ReduceEnd
    BY <1>1, <2>7, ReduceEndSafe
  <2> QED
    BY <1>3, <2>1, <2>2, <2>3, <2>4, <2>5, <2>6, <2>7 DEF Writer, WriterStep
<1>4. CASE Reader
  BY <1>1, <1>4, ReaderStays, FileUntouched
<1> QED
  BY <1>2, <1>3, <1>4 DEF Next

LEMMA RingInvCorrect ==
  ASSUME SafeUse
  PROVE  Spec => []RingInv
<1>1. Init => RingInv
  BY InitSafe
<1>2. RingInv /\ [Next]_vars => RingInv'
  BY StepSafe
<1> QED
  BY <1>1, <1>2, PTL DEF Spec

(* What is ready to be published is whole. *)
LEMMA ReadyIsWhole ==
  ASSUME RingInv
  PROVE  WrittenBeforePublished
<1> SUFFICES ASSUME Ready
             PROVE  /\ Used + FrameSize(w.rec) <= BytesMax
                    /\ w.pc = "idle" => w.offset % BytesMax = (end_offset + FrameSize(w.rec)) % BytesMax
                    /\ \A j \in 0 .. FrameSize(w.rec) - 1 :
                         data[(end_offset + j) % BytesMax] = FrameByte(w.rec, j)
  BY DEF WrittenBeforePublished
<1>1. Writing
  BY DEF Ready, Writing
<1>2. Used + FrameSize(w.rec) <= BytesMax
  BY <1>1 DEF RingInv, SpaceOK
<1>3. FrameSize(w.rec) \in Nat /\ end_offset \in Nat
  <2>1. w.rec \in Records
    BY <1>1 DEF Writing, RingInv, TypeInv, WriterSound
  <2> QED
    BY <2>1, RecordLength, Bounds
<1>4. w.pc = "idle" => w.offset = end_offset + FrameSize(w.rec)
  <2>1. w.pc = "idle" => w.offset = end_offset + FrameSize(w.rec) - 0
    BY DEF Ready, RingInv, PlaceOK
  <2> QED
    BY <1>3, <2>1
<1>5. Progress = FrameSize(w.rec)
  <2>1. CASE w.pc = "publish"
    BY <2>1 DEF Progress
  <2>2. CASE w.pc = "idle"
    <3>1. Progress = w.offset - end_offset
      BY <2>2 DEF Progress
    <3> QED
      BY <1>3, <1>4, <2>2, <3>1
  <2> QED
    BY <2>1, <2>2 DEF Ready
<1>6. \A j \in 0 .. FrameSize(w.rec) - 1 :
        data[(end_offset + j) % BytesMax] = FrameByte(w.rec, j)
  BY <1>1, <1>5 DEF RingInv, FrameBegun
<1> QED
  BY <1>2, <1>4, <1>6

(***************************************************************************)
(* The ring parses from the start offset to the end offset, to the byte,   *)
(* in every state: between the two stores to an offset, while a record is  *)
(* written or streamed, after a write() that failed and after a crash of   *)
(* the writer at any other place.                                          *)
(***************************************************************************)
THEOREM ContiguousCorrect == SafeUse => (Spec => []Contiguous)
<1> SUFFICES ASSUME SafeUse PROVE Spec => []Contiguous
  OBVIOUS
<1>1. Spec => []RingInv
  BY RingInvCorrect
<1>2. RingInv => Contiguous
  BY DEF RingInv, Layout
<1> QED
  BY <1>1, <1>2, PTL

(***************************************************************************)
(* What WrappingWrite stores never touches a byte of a record between the  *)
(* offsets, whatever the sizes of the records and wherever the ring wraps. *)
(***************************************************************************)
THEOREM LiveIntactCorrect == SafeUse => (Spec => []LiveIntact)
<1> SUFFICES ASSUME SafeUse PROVE Spec => []LiveIntact
  OBVIOUS
<1>1. Spec => []RingInv
  BY RingInvCorrect
<1>2. RingInv => LiveIntact
  BY DEF RingInv
<1> QED
  BY <1>1, <1>2, PTL

(* The assertion of the loop that pops records never fails: PopRecord      *)
(* always frees the bytes of a whole record.                               *)
THEOREM NoAbortCorrect == SafeUse => (Spec => []NoAbort)
<1> SUFFICES ASSUME SafeUse PROVE Spec => []NoAbort
  OBVIOUS
<1>1. Spec => []RingInv
  BY RingInvCorrect
<1>2. RingInv => NoAbort
  BY DEF RingInv
<1> QED
  BY <1>1, <1>2, PTL

(* When Write or StreamingWriteFinish moves the end offset, every byte of  *)
(* the frame is in the file, also when earlier pieces had to be retried.   *)
THEOREM WrittenBeforePublishedCorrect == SafeUse => (Spec => []WrittenBeforePublished)
<1> SUFFICES ASSUME SafeUse PROVE Spec => []WrittenBeforePublished
  OBVIOUS
<1>1. Spec => []RingInv
  BY RingInvCorrect
<1>2. RingInv => WrittenBeforePublished
  BY ReadyIsWhole
<1> QED
  BY <1>1, <1>2, PTL

-----------------------------------------------------------------------------
(***************************************************************************)
(* The promise.  The records of the ring as a log: what a step does to the *)
(* frames it does to the records.                                          *)
(***************************************************************************)
RecordsOf(frames) == [i \in DOMAIN frames |-> frames[i].rec]

LEMMA RecordsOfIs ==
  ASSUME NEW s \in Seq(Frame)
  PROVE  /\ RecordsOf(s) \in Seq(Records) /\ Len(RecordsOf(s)) = Len(s)
         /\ \A i \in 1 .. Len(s) : RecordsOf(s)[i] = s[i].rec
         /\ RecordsOf(s) = << >> <=> s = << >>
<1>1. DOMAIN s = 1 .. Len(s) /\ Len(s) \in Nat /\ \A i \in 1 .. Len(s) : s[i].rec \in Records
  <2>1. \A i \in 1 .. Len(s) : s[i] \in Frame
    OBVIOUS
  <2> QED
    BY <2>1 DEF Frame
<1>2. RecordsOf(s) \in [1 .. Len(s) -> Records]
  BY <1>1 DEF RecordsOf
<1>3. RecordsOf(s) \in Seq(Records) /\ Len(RecordsOf(s)) = Len(s)
  BY <1>1, <1>2
<1> QED
  BY <1>1, <1>3 DEF RecordsOf

LEMMA RecordsOfTail ==
  ASSUME NEW s \in Seq(Frame), s # << >>
  PROVE  RecordsOf(Tail(s)) = Tail(RecordsOf(s)) /\ Head(RecordsOf(s)) = s[1].rec
<1>1. /\ Tail(s) \in Seq(Frame) /\ Len(Tail(s)) = Len(s) - 1 /\ Len(s) \in Nat \ {0}
      /\ \A i \in 1 .. Len(s) - 1 : Tail(s)[i] = s[i + 1]
  OBVIOUS
<1>2. PICK m \in Seq(Records) : m = RecordsOf(s)
  BY RecordsOfIs
<1>3. Len(m) = Len(s) /\ \A i \in 1 .. Len(s) : m[i] = s[i].rec
  BY <1>2, RecordsOfIs
<1>4. PICK n \in Seq(Records) : n = RecordsOf(Tail(s))
  BY <1>1, RecordsOfIs
<1>5. Len(n) = Len(s) - 1 /\ \A i \in 1 .. Len(s) - 1 : n[i] = Tail(s)[i].rec
  BY <1>1, <1>4, RecordsOfIs
<1>6. /\ Tail(m) \in Seq(Records) /\ Len(Tail(m)) = Len(s) - 1 /\ Head(m) = m[1]
      /\ \A i \in 1 .. Len(s) - 1 : Tail(m)[i] = m[i + 1]
  BY <1>1, <1>3
<1>7. \A i \in 1 .. Len(s) - 1 : n[i] = Tail(m)[i]
  BY <1>1, <1>3, <1>5, <1>6
<1>8. n = Tail(m)
  BY <1>5, <1>6, <1>7, SeqEqual
<1> QED
  BY <1>1, <1>2, <1>3, <1>4, <1>6, <1>8

LEMMA RecordsOfAppend ==
  ASSUME NEW s \in Seq(Frame), NEW f \in Frame
  PROVE  RecordsOf(Append(s, f)) = Append(RecordsOf(s), f.rec)
<1>1. /\ Append(s, f) \in Seq(Frame) /\ Len(Append(s, f)) = Len(s) + 1 /\ Len(s) \in Nat
      /\ \A i \in 1 .. Len(s) : Append(s, f)[i] = s[i]
      /\ Append(s, f)[Len(s) + 1] = f
  OBVIOUS
<1>2. PICK m \in Seq(Records) : m = RecordsOf(s)
  BY RecordsOfIs
<1>3. Len(m) = Len(s) /\ \A i \in 1 .. Len(s) : m[i] = s[i].rec
  BY <1>2, RecordsOfIs
<1>4. PICK n \in Seq(Records) : n = RecordsOf(Append(s, f))
  BY <1>1, RecordsOfIs
<1>5. Len(n) = Len(s) + 1 /\ \A i \in 1 .. Len(s) + 1 : n[i] = Append(s, f)[i].rec
  BY <1>1, <1>4, RecordsOfIs
<1>6. PICK rec \in Records : rec = f.rec
  BY DEF Frame
<1>7. /\ Append(m, rec) \in Seq(Records) /\ Len(Append(m, rec)) = Len(s) + 1
      /\ \A i \in 1 .. Len(s) : Append(m, rec)[i] = m[i]
      /\ Append(m, rec)[Len(s) + 1] = rec
  BY <1>3
<1>8. \A i \in 1 .. Len(s) + 1 : n[i] = Append(m, rec)[i]
  BY <1>1, <1>3, <1>5, <1>6, <1>7
<1>9. n = Append(m, rec)
  BY <1>5, <1>7, <1>8, SeqEqual
<1> QED
  BY <1>2, <1>4, <1>6, <1>9

(* A step that leaves the ring and the record being written alone. *)
LEMMA LogStutter ==
  ASSUME UNCHANGED <<start_offset, end_offset, live>>, Pending' = Pending
  PROVE  UNCHANGED Log!logvars
<1>1. Used' = Used
  BY DEF Used
<1> QED
  BY <1>1 DEF Log!logvars

(* A handle in a call writes a record, one in no call or between the two   *)
(* stores of the end offset none, and one that is streaming may.           *)
LEMMA PendingIs ==
  /\ w.pc \in {"space", "popped", "header", "payload", "publish"} => Pending = {w.rec}
  /\ w.pc = "idle" /\ Streaming(w) => Pending = {w.rec}
  /\ w.pc = "idle" /\ ~Streaming(w) => Pending = {}
  /\ w.pc \in {"closed", "reduce"} => Pending = {}
BY DEF Pending

(* A call that returns keeps the record it writes, or gives it up. *)
LEMMA LogReturns ==
  ASSUME UNCHANGED <<start_offset, end_offset, live>>, Pending = {w.rec},
         NEW g \in WriterHandle, g.rec = w.rec, NEW v \in {"none", "true", "false"},
         w' = WriteReturns(g, v)
  PROVE  [Log!LogNext]_(Log!logvars)
<1>1. Used' = Used
  BY DEF Used
<1>2. /\ w'.pc = "idle" /\ w'.offset = g.offset
      /\ w'.rec = IF Streaming(g) THEN g.rec ELSE << >>
  BY WriteReturnsIs
<1>3. CASE Streaming(g)
  <2>1. Pending' = {w'.rec}
    BY <1>2, <1>3 DEF Pending, Streaming
  <2> QED
    BY <1>2, <1>3, <2>1, LogStutter
<1>4. CASE ~Streaming(g)
  <2>1. Pending' = {}
    BY <1>2, <1>4 DEF Pending, Streaming
  <2>2. Log!GiveUp
    BY <1>1, <2>1 DEF Log!GiveUp
  <2> QED
    BY <2>2 DEF Log!LogNext
<1> QED
  BY <1>3, <1>4

LEMMA LogInitial == Init => Log!LogInit
<1> SUFFICES ASSUME Init PROVE Log!LogInit
  OBVIOUS
<1>1. Used = 0
  BY DEF Init, Used, BytesUsed
<1>2. Pending = {}
  BY DEF Init, Pending, NewWriter, Streaming
<1>3. RecordsOf(live) = << >>
  <2>1. << >> \in Seq(Frame)
    OBVIOUS
  <2> QED
    BY <2>1, RecordsOfIs DEF Init
<1> QED
  BY <1>1, <1>2, <1>3 DEF Log!LogInit, RecordsOf

(* The beginning of a write. *)
LEMMA LogBegin ==
  ASSUME RingInv, NEW call \in {"Write", "StreamingWriteStart"}, NEW rec \in Records,
         StartWrite(call, rec)
  PROVE  [Log!LogNext]_(Log!logvars)
<1>1. /\ w.pc = "idle" /\ ~Streaming(w) /\ w \in WriterHandle
      /\ UNCHANGED <<start_offset, end_offset, live>>
  BY DEF StartWrite, RingInv, TypeInv, TypeOK
<1>2. Pending = {}
  BY <1>1 DEF Pending
<1> DEFINE begun == [w EXCEPT !.pc = "space", !.call = call, !.ret = "none",
                              !.rec = rec, !.chunk = Len(rec)]
<1>3. /\ begun \in WriterHandle /\ begun.pc = "space" /\ begun.rec = rec
      /\ begun.offset = w.offset
  BY <1>1, RecordLength DEF WriterHandle
<1>4. w' = IF TooBig(rec) THEN WriteReturns(begun, "false") ELSE begun
  BY DEF StartWrite
<1> HIDE DEF begun
<1>5. CASE TooBig(rec)
  <2>1. w'.pc = "idle" /\ w'.offset = w.offset
    BY <1>3, <1>4, <1>5, WriteReturnsIs
  <2>2. Pending' = {}
    BY <1>1, <2>1 DEF Pending, Streaming
  <2> QED
    BY <1>1, <1>2, <2>2, LogStutter
<1>6. CASE ~TooBig(rec)
  <2>1. w'.pc = "space" /\ w'.rec = rec
    BY <1>3, <1>4, <1>6
  <2>2. Pending' = {rec}
    BY <2>1 DEF Pending
  <2>3. FrameSize(rec) < BytesMax
    BY <1>6, RecordLength, Constants DEF TooBig
  <2>4. Used' = Used
    BY <1>1 DEF Used
  <2>5. Log!Begin(rec)
    BY <1>1, <1>2, <2>2, <2>3, <2>4 DEF Log!Begin
  <2> QED
    BY <2>5 DEF Log!LogNext
<1> QED
  BY <1>5, <1>6

(* PopRecord. *)
LEMMA LogEvicts ==
  ASSUME SafeUse, RingInv, PopRecord
  PROVE  [Log!LogNext]_(Log!logvars)
<1>1. /\ w.pc = "space" /\ w \in WriterHandle /\ live \in Seq(Frame) /\ w.rec \in Records
      /\ UNCHANGED end_offset /\ Pending = {w.rec}
  BY DEF PopRecord, RingInv, TypeInv, TypeOK, WriterSound, Pending
<1>2. CASE w' = WriteReturns(w, "false") /\ UNCHANGED <<start_offset, live>>
  BY <1>1, <1>2, LogReturns
<1>3. CASE /\ start_offset # end_offset
           /\ \E out \in ReadOutcomes(OldestHeader) : start_offset' = PopTo(out)
           /\ w' = [w EXCEPT !.pc = "popped", !.before = BytesAvailable(start_offset, end_offset)]
           /\ live' = IF live = << >> THEN live ELSE Tail(live)
  <2>1. Used' = Used - FrameSize(live[1].rec)
    BY <1>1, <1>3, PopIs
  <2>2. Len(live) \in Nat /\ 1 \in 1 .. Len(live)
    BY <1>1, <1>3, OldestIs
  <2>3. live # << >> /\ live[1] \in Frame
    BY <1>1, <2>2
  <2>4. /\ RecordsOf(live') = Tail(RecordsOf(live))
        /\ Head(RecordsOf(live)) = live[1].rec /\ live[1].rec \in Records
        /\ RecordsOf(live) # << >>
    BY <1>1, <1>3, <2>3, RecordsOfTail, RecordsOfIs DEF Frame
  <2>5. Used + FrameSize(w.rec) > BytesMax
    <3>1. /\ Used \in Nat /\ Used < BytesMax /\ BytesMax \in Nat /\ Word \in Nat \ {0}
          /\ BytesMax < Word /\ FrameSize(w.rec) \in Nat
      BY <1>1, Bounds, Constants, RecordLength
    <3> DEFINE x == BytesMax - Used
    <3>2. x \in 0 .. Word - 1
      BY <3>1
    <3> HIDE DEF x
    <3>3. x % Word = x
      BY <3>1, <3>2, Wrap
    <3>4. x < FrameSize(w.rec)
      BY <3>3 DEF PopRecord, NeedsSpace, BytesAvailable, Used, x
    <3> QED
      BY <3>1, <3>4 DEF x
  <2>6. w'.pc = "popped" /\ w'.rec = w.rec
    BY <1>1, <1>3 DEF WriterHandle
  <2>7. Pending' = Pending
    BY <1>1, <2>6 DEF Pending
  <2>8. PICK rec \in Records : rec = w.rec
    BY <1>1
  <2>9. Log!Evict(rec)
    BY <1>1, <2>1, <2>4, <2>5, <2>7, <2>8 DEF Log!Evict, RecordsOf
  <2> QED
    BY <2>9 DEF Log!LogNext
<1> QED
  BY <1>2, <1>3 DEF PopRecord

(* The first store to the end offset. *)
LEMMA LogCommits ==
  ASSUME SafeUse, RingInv, Publish \/ StreamingWriteFinish
  PROVE  [Log!LogNext]_(Log!logvars)
<1>1. w \in WriterHandle /\ live \in Seq(Frame)
  BY DEF RingInv, TypeInv, TypeOK
<1> DEFINE f == [pos |-> end_offset % BytesMax, rec |-> w.rec]
<1>2. /\ w'.pc = "reduce" /\ UNCHANGED start_offset
      /\ live' = IF end_offset' = start_offset THEN << >> ELSE Append(live, f)
  BY <1>1 DEF Publish, StreamingWriteFinish, StoreEnd, WithFrame, WriterHandle
<1>3. PICK rec \in Records : rec = w.rec
  BY PublishIs
<1>4. Pending = {w.rec} /\ Pending' = {}
  BY <1>2 DEF Pending, Publish, StreamingWriteFinish
<1>5. CASE end_offset' = start_offset
  <2>1. Used + FrameSize(w.rec) = BytesMax /\ Used' = 0
    BY <1>5, PublishIs
  <2>2. RecordsOf(live') = << >>
    <3>1. << >> \in Seq(Frame)
      OBVIOUS
    <3> QED
      BY <1>2, <1>5, <3>1, RecordsOfIs
  <2>3. Log!CommitExact(rec)
    BY <1>3, <1>4, <2>1, <2>2 DEF Log!CommitExact, RecordsOf
  <2> QED
    BY <2>3 DEF Log!LogNext
<1>6. CASE end_offset' # start_offset
  <2>1. Used + FrameSize(w.rec) <= BytesMax /\ Used' = Used + FrameSize(w.rec)
    BY <1>6, PublishIs
  <2>2. RecordsOf(live') = Append(RecordsOf(live), w.rec)
    <3>1. f \in Frame
      <4>1. end_offset % BytesMax \in Offset
        BY OffsetTypes DEF RingInv, TypeInv, TypeOK
      <4> QED
        BY <1>3, <4>1 DEF Frame
    <3> HIDE DEF f
    <3>2. RecordsOf(live') = Append(RecordsOf(live), f.rec)
      BY <1>1, <1>2, <1>6, <3>1, RecordsOfAppend
    <3> QED
      BY <3>2 DEF f
  <2>3. Log!Commit(rec)
    BY <1>3, <1>4, <2>1, <2>2 DEF Log!Commit, RecordsOf
  <2> QED
    BY <2>3 DEF Log!LogNext
<1> QED
  BY <1>5, <1>6

(* The second store to the end offset. *)
LEMMA LogForgets ==
  ASSUME RingInv, ReduceEnd
  PROVE  [Log!LogNext]_(Log!logvars)
<1>1. /\ w.pc = "reduce" /\ w \in WriterHandle /\ live \in Seq(Frame) /\ UNCHANGED start_offset
      /\ live' = IF end_offset' = start_offset THEN << >> ELSE live
  BY DEF ReduceEnd, ReducedEnd, StoreEnd, RingInv, TypeInv, TypeOK
<1>2. w'.pc = "idle" /\ w'.offset = 0
  <2> DEFINE g == [w EXCEPT !.offset = 0]
  <2>1. g \in WriterHandle /\ g.offset = 0
    <3>1. 0 \in 0 .. Word - 1
      BY Constants
    <3> QED
      BY <1>1, <3>1 DEF WriterHandle
  <2>2. w' = WriteReturns(g, "true")
    BY DEF ReduceEnd
  <2> HIDE DEF g
  <2> QED
    BY <2>1, <2>2, WriteReturnsIs
<1>3. Pending = {} /\ Pending' = {}
  BY <1>1, <1>2 DEF Pending, Streaming
<1>4. CASE end_offset' # start_offset
  BY <1>1, <1>3, <1>4, ReduceEndIs DEF Log!logvars
<1>5. CASE end_offset' = start_offset
  <2>1. Used \in {0, BytesMax} /\ Used' = 0
    BY <1>5, ReduceEndIs
  <2>2. RecordsOf(live') = << >>
    <3>1. << >> \in Seq(Frame)
      OBVIOUS
    <3> QED
      BY <1>1, <1>5, <3>1, RecordsOfIs
  <2>3. CASE Used = 0
    <3>1. live = << >>
      BY <2>3 DEF RingInv, Layout, Contiguous
    <3> QED
      BY <1>1, <1>3, <1>5, <2>1, <2>3, <3>1 DEF Log!logvars
  <2>4. CASE Used = BytesMax
    <3>1. Log!Forget
      BY <1>3, <2>1, <2>2, <2>4 DEF Log!Forget, RecordsOf
    <3> QED
      BY <3>1 DEF Log!LogNext
  <2> QED
    BY <2>1, <2>3, <2>4
<1> QED
  BY <1>4, <1>5

(* The steps between: they move no store that counts. *)
LEMMA LogWaits ==
  ASSUME SafeUse, RingInv, RingInv',
         \/ OpenAppend \/ StopWriter \/ ReduceStart \/ EnoughSpace
         \/ WriteSegment \/ PopFails \/ WriteFails
         \/ \E n \in Sizes : StreamingWrite(n)
  PROVE  [Log!LogNext]_(Log!logvars)
<1>1. w \in WriterHandle /\ UNCHANGED <<end_offset, live>>
  BY DEF RingInv, TypeInv, TypeOK, OpenAppend, StopWriter, ReduceStart, EnoughSpace,
         WriteSegment, PopFails, WriteFails, StreamingWrite
<1>2. CASE OpenAppend
  <2>1. Pending = {} /\ Pending' = {}
    BY <1>2 DEF OpenAppend, Pending, NewWriter, Streaming
  <2> QED
    BY <1>1, <1>2, <2>1, LogStutter DEF OpenAppend
<1>3. CASE StopWriter
  <2>1. Pending' = {}
    BY <1>3 DEF StopWriter, Pending, NewWriter
  <2>2. Used' = Used /\ UNCHANGED start_offset
    BY <1>3 DEF StopWriter, Used
  <2>3. CASE Pending = {}
    BY <1>1, <2>1, <2>2, <2>3, LogStutter
  <2>4. CASE Pending # {}
    <3>1. Log!GiveUp
      BY <1>1, <2>1, <2>2, <2>4 DEF Log!GiveUp
    <3> QED
      BY <3>1 DEF Log!LogNext
  <2> QED
    BY <2>3, <2>4
<1>4. CASE ReduceStart
  <2>1. Used' = Used
    BY <1>4, ReduceStartIs
  <2>2. w.pc = "popped" /\ w'.pc \in {"space", "aborted"} /\ w'.rec = w.rec
    BY <1>1, <1>4 DEF ReduceStart, WriterHandle
  <2>3. w'.pc = "space"
    BY <2>2 DEF RingInv, NoAbort
  <2>4. Pending' = Pending
    BY <2>2, <2>3 DEF Pending
  <2> QED
    BY <1>1, <2>1, <2>4 DEF Log!logvars
<1>5. CASE EnoughSpace
  <2>1. w.pc = "space" /\ w'.pc = "header" /\ w'.rec = w.rec /\ UNCHANGED start_offset
    BY <1>1, <1>5 DEF EnoughSpace, WriterHandle
  <2>2. Pending' = Pending
    BY <2>1 DEF Pending
  <2> QED
    BY <1>1, <2>1, <2>2, LogStutter
<1>6. ASSUME NEW n \in Sizes, StreamingWrite(n)
      PROVE  [Log!LogNext]_(Log!logvars)
  <2>1. /\ w.pc = "idle" /\ Streaming(w) /\ w'.pc = "payload" /\ w'.rec = w.rec
        /\ UNCHANGED start_offset
    BY <1>1, <1>6 DEF StreamingWrite, WriterHandle
  <2>2. Pending' = Pending
    BY <2>1 DEF Pending
  <2> QED
    BY <1>1, <2>1, <2>2, LogStutter
<1>7. CASE PopFails
  <2>1. Pending = {w.rec} /\ w' = WriteReturns(w, "false") /\ UNCHANGED start_offset
    BY <1>7 DEF PopFails, Pending
  <2> QED
    BY <1>1, <2>1, LogReturns
<1>8. CASE WriteFails
  <2>1. Pending = {w.rec} /\ w' = WriteReturns(w, "false") /\ UNCHANGED start_offset
    BY <1>8 DEF WriteFails, Pending
  <2> QED
    BY <1>1, <2>1, LogReturns
<1>9. CASE WriteSegment
  <2>1. w.pc \in {"header", "payload"} /\ UNCHANGED start_offset
    BY <1>9 DEF WriteSegment
  <2>2. Pending = {w.rec}
    BY <2>1 DEF Pending
  <2>3. CASE w' = WriteReturns(w, "false")
    BY <1>1, <2>1, <2>2, <2>3, LogReturns
  <2>4. CASE \/ w' = [w EXCEPT !.done = SegmentCount(PutOffset, PutSize, w.done)]
             \/ w.call = "Write" /\ w' = AfterPut
    <3>1. w'.pc \in {"header", "payload", "publish"} /\ w'.rec = w.rec
      BY <1>1, <2>1, <2>4 DEF AfterPut, WriterHandle
    <3>2. Pending' = Pending
      BY <2>2, <3>1 DEF Pending
    <3> QED
      BY <1>1, <2>1, <3>2, LogStutter
  <2>5. CASE w.call # "Write" /\ w' = AfterPut
    <3> DEFINE o == (PutOffset + PutSize) % Word
               m == IF w.pc = "header" THEN Len(w.rec) ELSE w.remaining - w.chunk
               g == [w EXCEPT !.offset = o, !.remaining = m]
    <3>1. w' = WriteReturns(g, "true")
      BY <2>5 DEF AfterPut
    <3>2. o \in 0 .. Word - 1
      BY <2>1, PutTypes, OffsetTypes DEF RingInv
    <3>3. m \in Nat
      <4>1. w.rec \in Records
        BY <2>1 DEF RingInv, TypeInv, WriterSound
      <4>2. CASE w.pc = "header"
        BY <4>1, <4>2, RecordLength
      <4>3. CASE w.pc = "payload"
        <5>1. w.chunk \in Nat /\ w.remaining \in Nat /\ w.chunk <= w.remaining
          BY <1>1, <2>5, <4>3 DEF RingInv, TypeInv, WriterSound, WriterHandle
        <5> QED
          BY <4>3, <5>1
      <4> QED
        BY <2>1, <4>2, <4>3
    <3> HIDE DEF o, m
    <3>4. g \in WriterHandle /\ g.rec = w.rec
      BY <1>1, <3>2, <3>3 DEF WriterHandle
    <3> HIDE DEF g
    <3> QED
      BY <1>1, <2>1, <2>2, <3>1, <3>4, LogReturns
  <2> QED
    BY <1>9, <2>3, <2>4, <2>5 DEF WriteSegment
<1> QED
  BY <1>2, <1>3, <1>4, <1>5, <1>6, <1>7, <1>8, <1>9

LEMMA StepLog ==
  ASSUME SafeUse, RingInv, RingInv', [Next]_vars
  PROVE  [Log!LogNext]_(Log!logvars)
<1>1. CASE Reader \/ UNCHANGED vars
  <2>1. UNCHANGED <<start_offset, end_offset, live, w>>
    BY <1>1, ReaderStays DEF vars
  <2>2. Pending' = Pending
    BY <2>1 DEF Pending, Streaming
  <2> QED
    BY <2>1, <2>2, LogStutter
<1>2. ASSUME NEW rec \in Records, Write(rec) \/ StreamingWriteStart(rec)
      PROVE  [Log!LogNext]_(Log!logvars)
  BY <1>2, LogBegin DEF Write, StreamingWriteStart
<1> QED
  BY <1>1, <1>2, LogEvicts, LogCommits, LogForgets, LogWaits DEF Next, Writer, WriterStep

(***************************************************************************)
(* The ring implements the log: records enter whole, at the end and when   *)
(* their write is acknowledged, and leave at the front, to make room.      *)
(***************************************************************************)
THEOREM RingIsLog == SafeUse => (Spec => ImplementsRingLog)
<1> SUFFICES ASSUME SafeUse PROVE Spec => ImplementsRingLog
  OBVIOUS
<1>1. RingInv /\ RingInv' /\ [Next]_vars => [Log!LogNext]_(Log!logvars)
  BY StepLog
<1> QED
  BY <1>1, LogInitial, RingInvCorrect, PTL DEF Spec, ImplementsRingLog, Log!LogSpec
=============================================================================
