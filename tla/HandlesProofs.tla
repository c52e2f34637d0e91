--------------------------- MODULE HandlesProofs ---------------------------
(***************************************************************************)
(* Proofs about the handles that share one ring.                           *)
(*                                                                         *)
(*   reading     a call that began on a record of the ring delivers it,    *)
(*               and the calls go through the records in order, however    *)
(*               they interleave with those of the writer;                 *)
(*   turns       two streams of calls that write in turns need what one    *)
(*               writer needs and leave what one writer leaves;            *)
(*   no turns    nothing is left of the ring but its size.                 *)
(***************************************************************************)
EXTENDS Writers, RingfileProofs

-----------------------------------------------------------------------------
(***************************************************************************)
(* A reader beside the writer.  It needs a ring that is safe to read, one  *)
(* that has room for a record header, and the buffers it says it has.      *)
(***************************************************************************)
SafeReading ==
  /\ SafeUse
  /\ kMaxSize <= BytesMax
  /\ Sizes \subseteq 0 .. BufMax

(* An offset is at byte j of a frame. *)
AtByte(o, f, j) == o % BytesMax = (f.pos + j) % BytesMax

(* A transfer of n bytes is at its beginning, or between its two parts. *)
Cut(o, n, done) == done # 0 => ~Simple(o, n) /\ done = EndBytes(o, n)

(* GetOffset and GetStart, of a handle. *)
From(g) == IF g.call = "StreamingRead" THEN g.offset ELSE g.at + g.hsize

Got(g) == IF g.call = "StreamingRead" THEN g.size - g.remaining ELSE 0

(* The call reads the header of frame f: what it has of it is right. *)
HeaderRead(g, f) ==
  /\ g.ret = "none" /\ g.offset = 0 /\ g.remaining = 0
  /\ g.call = "Read" => g.chunk <= BufMax
  /\ AtByte(g.at, f, 0)
  /\ g.pc = "header" => Cut(g.at, kMaxSize, g.done)
  /\ g.pc = "decode" => g.done = 0
  /\ \A j \in BufferIndex :
       j < ByteSize(Len(f.rec)) /\ (g.pc = "decode" \/ j < g.done)
         => g.header[j] = EncodedByte(Len(f.rec), j)

(* The caller's buffer begins with n bytes of the record of f. *)
Holds(g, f, n) == \A j \in 0 .. n - 1 : g.buffer[j] = f.rec[j + 1]

(* The call reads the record of f, or a piece of it, behind those it has. *)
PayloadRead(g, f) ==
  /\ g.ret = "none" /\ g.size = Len(f.rec)
  /\ g.chunk > 0 /\ 0 <= Got(g) /\ Got(g) + g.chunk <= g.size /\ Got(g) + g.chunk <= BufMax
  /\ g.call = "Read" =>
       /\ AtByte(g.at, f, 0) /\ g.hsize = ByteSize(g.size)
       /\ g.chunk = g.size /\ g.remaining = 0 /\ g.offset = 0
  /\ Cut(From(g), g.chunk, g.done)
  /\ AtByte(From(g), f, ByteSize(g.size) + Got(g))
  /\ Holds(g, f, Got(g) + g.done)

(* Between two pieces of the record of f. *)
PieceRead(g, f) ==
  /\ g.size = Len(f.rec) /\ g.remaining <= g.size /\ g.done = 0
  /\ AtByte(g.offset, f, ByteSize(g.size) + (g.size - g.remaining))
  /\ Holds(g, f, g.size - g.remaining)

(* What the last call of the handle has returned. *)
Answered(g, f) ==
  /\ g.ret = "true" =>
       g.size = Len(f.rec) /\ Holds(g, f, IF g.call = "NextRecordSize" THEN 0 ELSE g.size - g.remaining)
  /\ g.ret = "false" /\ "read" \notin Faults => g.call = "Read" /\ g.chunk < Len(f.rec)

ReadsFrame(g, f) ==
  /\ g.pc \in {"header", "decode"} => HeaderRead(g, f)
  /\ g.pc = "payload" => PayloadRead(g, f)
  /\ g.pc = "idle" /\ Streaming(g) => PieceRead(g, f)
  /\ Answered(g, f)

ReadInv ==
  /\ RingInv
  /\ r.at < 2 * BytesMax
  /\ target # NoFrame => (\E k \in DOMAIN live : live[k] = target) /\ ReadsFrame(r, target)

-----------------------------------------------------------------------------
(* Remainders of equal numbers, and of numbers that are equal but for a    *)
(* multiple of the ring's size.                                            *)
LEMMA Remainder ==
  ASSUME NEW m \in Nat \ {0}, NEW a \in Int, NEW y \in 0 .. m - 1
  PROVE  (a * m + y) % m = y
<1> DEFINE v == a * m + y
           q == v % m
<1>0. a * m \in Int
  OBVIOUS
<1>1. v \in Int
  BY <1>0
<1> HIDE DEF v
<1>2. PICK k \in Int : v = k * m + q /\ q \in 0 .. m - 1
  <2>1. v \div m \in Int /\ v = (v \div m) * m + (v % m) /\ v % m \in 0 .. m - 1
    BY <1>1
  <2> QED
    BY <2>1
<1> HIDE DEF q
<1>3. a * m + y = k * m + q /\ k * m \in Int
  BY <1>2 DEF v
<1>4. CASE a < k
  <2>1. (a + 1) * m <= k * m /\ (a + 1) * m = a * m + m
    BY <1>4
  <2> QED
    BY <1>0, <1>2, <1>3, <2>1
<1>5. CASE k < a
  <2>1. (k + 1) * m <= a * m /\ (k + 1) * m = k * m + m
    BY <1>5
  <2> QED
    BY <1>0, <1>2, <1>3, <2>1
<1>6. CASE a = k
  <2>1. q = y
    BY <1>0, <1>2, <1>3, <1>6
  <2> QED
    BY <2>1 DEF q, v
<1> QED
  BY <1>4, <1>5, <1>6

LEMMA Shift ==
  ASSUME NEW m \in Nat \ {0}, NEW a \in Int, NEW b \in Int, a % m = b % m, NEW k \in Int
  PROVE  (a + k) % m = (b + k) % m
<1>1. PICK i \in Int, p \in 0 .. m - 1 : a = i * m + p /\ p = a % m
  <2>1. a \div m \in Int /\ a = (a \div m) * m + (a % m) /\ a % m \in 0 .. m - 1
    OBVIOUS
  <2> QED
    BY <2>1
<1>2. PICK j \in Int : b = j * m + p
  <2>1. b \div m \in Int /\ b = (b \div m) * m + (b % m)
    OBVIOUS
  <2> QED
    BY <1>1, <2>1
<1>3. PICK n \in Int, q \in 0 .. m - 1 : p + k = n * m + q
  <2> DEFINE c == p + k
  <2>1. c \in Int
    BY <1>1
  <2> HIDE DEF c
  <2>2. c \div m \in Int /\ c = (c \div m) * m + (c % m) /\ c % m \in 0 .. m - 1
    BY <2>1
  <2> QED
    BY <2>2 DEF c
<1>4. PICK x \in Int : x = i * m
  OBVIOUS
<1>5. PICK y \in Int : y = j * m
  OBVIOUS
<1>6. PICK z \in Int : z = n * m
  OBVIOUS
<1>7. PICK s \in Int : s = i + n
  OBVIOUS
<1>8. PICK t \in Int : t = j + n
  OBVIOUS
<1>9. s * m = x + z /\ t * m = y + z
  BY <1>4, <1>5, <1>6, <1>7, <1>8
<1>10. a = x + p /\ b = y + p /\ p + k = z + q /\ q \in Int /\ p \in Int
  BY <1>1, <1>2, <1>3, <1>4, <1>5, <1>6
<1>11. a + k = s * m + q /\ b + k = t * m + q
  <2>1. a + k = (x + z) + q /\ b + k = (y + z) + q
    BY <1>4, <1>5, <1>6, <1>10
  <2> QED
    BY <1>9, <2>1
<1>12. (s * m + q) % m = q /\ (t * m + q) % m = q
  BY <1>3, <1>7, <1>8, Remainder
<1> QED
  BY <1>11, <1>12

LEMMA Further ==
  ASSUME NEW o \in Int, NEW f \in Frame, NEW j \in Int, NEW k \in Int, AtByte(o, f, j)
  PROVE  AtByte(o + k, f, j + k)
<1>1. f.pos \in Int
  BY DEF Frame, Offset
<1>2. PICK a \in Int : a = f.pos + j
  BY <1>1
<1>3. (o + k) % BytesMax = (a + k) % BytesMax
  <2>1. BytesMax \in Nat \ {0} /\ o % BytesMax = a % BytesMax
    BY <1>2, Constants DEF AtByte
  <2> HIDE DEF AtByte
  <2> QED
    BY <1>2, <2>1, Shift
<1>4. a + k = f.pos + (j + k)
  BY <1>1, <1>2
<1> QED
  BY <1>3, <1>4 DEF AtByte

(* A transfer from any offset is the one from the place it denotes. *)
LEMMA SegmentFrom ==
  ASSUME NEW o \in Nat, NEW n \in 1 .. BytesMax, NEW done \in Nat, Cut(o, n, done)
  PROVE  /\ SegmentCount(o, n, done) \in Nat
         /\ SegmentAt(o, done) \in Nat
         /\ ~Refused(SegmentCount(o, n, done))
         /\ done + SegmentCount(o, n, done) <= n
         /\ SegmentAt(o, done) + SegmentCount(o, n, done) <= BytesMax
         /\ More(o, n, done) => Cut(o, n, SegmentCount(o, n, done))
         /\ ~More(o, n, done) => done + SegmentCount(o, n, done) = n
         /\ \A k \in done .. done + SegmentCount(o, n, done) - 1 :
              (o + k) % BytesMax = SegmentAt(o, done) + k - done
<1>1. BytesMax \in Nat \ {0} /\ o % BytesMax \in 0 .. BytesMax - 1
  BY Constants
<1>2. PICK p \in 0 .. BytesMax - 1 : p = o % BytesMax
  BY <1>1
<1>3. p % BytesMax = p /\ p \in 0 .. 2 * BytesMax - 1
  <2>1. ASSUME NEW x \in 0 .. BytesMax - 1 PROVE x % BytesMax = x
    <3>1. x \in Int
      BY <1>1
    <3> QED
      BY <1>1, <3>1, Wrap
  <2>2. p \in 0 .. 2 * BytesMax - 1
    BY <1>1, <1>2
  <2> QED
    BY <1>2, <2>1, <2>2
<1>4. \A k \in Nat : (o + k) % BytesMax = (p + k) % BytesMax
  <2> TAKE k \in Nat
  <2>1. o \in Int /\ p \in Int /\ k \in Int /\ o % BytesMax = p % BytesMax
    BY <1>1, <1>2, <1>3
  <2> QED
    BY <1>1, <2>1, Shift
<1>5. Simple(o, n) <=> Simple(p, n)
  BY <1>2, <1>3, <1>4 DEF Simple
<1>6. EndBytes(o, n) = EndBytes(p, n)
  BY <1>2, <1>3, <1>5 DEF EndBytes
<1>7. StartBytes(o, n) = StartBytes(p, n)
  BY <1>5, <1>6 DEF StartBytes
<1>8. /\ SegmentCount(o, n, done) = SegmentCount(p, n, done)
      /\ SegmentAt(o, done) = SegmentAt(p, done)
      /\ More(o, n, done) <=> More(p, n, done)
  BY <1>2, <1>3, <1>6, <1>7 DEF SegmentCount, SegmentAt, More
<1>9. done # 0 => ~Simple(p, n) /\ done = EndBytes(p, n)
  BY <1>5, <1>6 DEF Cut
<1> DEFINE count == SegmentCount(p, n, done)
           at == SegmentAt(p, done)
<1>10. /\ count \in Nat /\ at \in Nat /\ ~Refused(count)
       /\ done + count <= n /\ at + count <= BytesMax
       /\ More(p, n, done) => done = 0 /\ ~Simple(p, n) /\ count = EndBytes(p, n)
       /\ ~More(p, n, done) => done + count = n
       /\ \A k \in done .. done + count - 1 : (p + k) % BytesMax = at + k - done
  BY <1>3, <1>9, Segment
<1>11. More(o, n, done) => Cut(o, n, count)
  BY <1>5, <1>6, <1>8, <1>10 DEF Cut
<1>12. ASSUME NEW k \in done .. done + count - 1
       PROVE  (o + k) % BytesMax = at + k - done
  <2>1. k \in Nat
    BY <1>10
  <2> QED
    BY <1>4, <1>10, <2>1
<1> HIDE DEF count, at
<1> QED
  BY <1>8, <1>10, <1>11, <1>12 DEF count, at

(* The frame a call has started on, as long as it is in the ring. *)
LEMMA TargetIs ==
  ASSUME SafeUse, RingInv, NEW f, \E k \in DOMAIN live : live[k] = f
  PROVE  /\ f \in Frame /\ f.rec \in Records /\ f.rec \in Seq(Byte)
         /\ Len(f.rec) \in Nat \ {0} /\ Encodable(Len(f.rec))
         /\ ByteSize(Len(f.rec)) \in 1 .. kMaxSize
         /\ ByteSize(Len(f.rec)) + Len(f.rec) <= BytesMax
         /\ \A j \in 0 .. ByteSize(Len(f.rec)) + Len(f.rec) - 1 :
              data[(f.pos + j) % BytesMax] = FrameByte(f.rec, j)
<1>1. live \in Seq(Frame)
  BY DEF RingInv, TypeInv, TypeOK
<1>2. PICK k \in DOMAIN live : live[k] = f
  OBVIOUS
<1>3. k \in 1 .. Len(live) /\ f \in Frame
  BY <1>1, <1>2
<1>4. f.rec \in Records /\ FrameSize(f.rec) \in Nat
  BY <1>2, <1>3, LiveFrame
<1>5. f.rec \in Seq(Byte) /\ Len(f.rec) \in Nat \ {0}
  <2>1. f.rec \in Seq(Byte) /\ f.rec # << >>
    BY <1>4, RecordLength DEF SafeUse
  <2> QED
    BY <2>1
<1>6. FrameSize(f.rec) = ByteSize(Len(f.rec)) + Len(f.rec)
  BY DEF FrameSize
<1>7. FrameSize(f.rec) <= BytesMax
  <2>1. PICK x \in Nat : x = Distance(f.pos)
    BY <1>2, <1>3, LiveFrame
  <2>2. x + FrameSize(f.rec) <= Used
    BY <1>2, <1>3, <2>1, LiveFrame
  <2>3. Used \in 0 .. BytesMax /\ BytesMax \in Nat
    BY Bounds, Constants
  <2> QED
    BY <1>4, <2>2, <2>3
<1>8. \A j \in 0 .. FrameSize(f.rec) - 1 : data[(f.pos + j) % BytesMax] = FrameByte(f.rec, j)
  BY <1>2 DEF RingInv, LiveIntact
<1> QED
  BY <1>3, <1>4, <1>5, <1>6, <1>7, <1>8, RecordLength

-----------------------------------------------------------------------------
(* Nothing the writer does is for the reader: its frame is where it was,   *)
(* or is no longer in the ring.                                            *)
LEMMA StoreKeeps ==
  ASSUME NEW end, NEW frames \in Seq(Frame), live \in Seq(Frame), StoreEnd(end, frames),
         \A k \in DOMAIN live : k \in DOMAIN frames /\ frames[k] = live[k],
         target # NoFrame => \E k \in DOMAIN live : live[k] = target
  PROVE  /\ r' = r
         /\ target' # NoFrame => target' = target /\ \E k \in DOMAIN live' : live'[k] = target'
<1>1. r' = r
  BY DEF StoreEnd
<1>2. CASE end = start_offset
  BY <1>1, <1>2 DEF StoreEnd
<1>3. CASE end # start_offset
  <2>1. live' = frames /\ target' = target
    BY <1>3 DEF StoreEnd
  <2>2. ASSUME target # NoFrame PROVE \E k \in DOMAIN frames : frames[k] = target
    <3>1. PICK k \in DOMAIN live : live[k] = target
      BY <2>2
    <3>2. k \in DOMAIN frames /\ frames[k] = target
      BY <3>1
    <3> QED
      BY <3>2
  <2> QED
    BY <1>1, <2>1, <2>2
<1> QED
  BY <1>2, <1>3

LEMMA WriterKeeps ==
  ASSUME RingInv, Writer, target # NoFrame => \E k \in DOMAIN live : live[k] = target
  PROVE  /\ r' = r
         /\ target' # NoFrame => target' = target /\ \E k \in DOMAIN live' : live'[k] = target'
<1>1. live \in Seq(Frame) /\ w \in WriterHandle
  BY DEF RingInv, TypeInv, TypeOK
<1>2. CASE \/ OpenAppend \/ StopWriter \/ PopFails \/ WriteFails \/ ReduceStart \/ EnoughSpace
           \/ WriteSegment
           \/ \E rec \in Records : Write(rec) \/ StreamingWriteStart(rec)
           \/ \E n \in Sizes : StreamingWrite(n)
  <2>1. UNCHANGED <<live, r, target>>
    BY <1>2 DEF OpenAppend, StopWriter, PopFails, WriteFails, ReduceStart, EnoughSpace,
                WriteSegment, Write, StreamingWriteStart, StartWrite, StreamingWrite
  <2> QED
    BY <2>1
<1>3. CASE PopRecord
  <2>1. r' = r
    BY <1>3 DEF PopRecord
  <2>2. CASE UNCHANGED <<live, target>>
    BY <2>1, <2>2
  <2>3. CASE /\ live' = IF live = << >> THEN live ELSE Tail(live)
             /\ target' = IF live # << >> /\ target = Head(live) THEN NoFrame ELSE target
    <3> SUFFICES ASSUME target' # NoFrame
                 PROVE  target' = target /\ \E k \in DOMAIN live' : live'[k] = target'
      BY <2>1
    <3>1. target' = target /\ target # NoFrame
      BY <2>3
    <3>2. PICK k \in DOMAIN live : live[k] = target
      BY <3>1
    <3>3. live # << >> /\ live' = Tail(live) /\ target # Head(live)
      BY <1>1, <2>3, <3>1, <3>2
    <3>4. k \in 1 .. Len(live) /\ k # 1
      BY <1>1, <3>2, <3>3
    <3>5. k - 1 \in DOMAIN live' /\ live'[k - 1] = live[k]
      BY <1>1, <3>3, <3>4
    <3> QED
      BY <3>1, <3>2, <3>5
  <2> QED
    BY <1>3, <2>2, <2>3 DEF PopRecord
<1>4. CASE Publish \/ StreamingWriteFinish
  <2>1. w.rec \in Records
    BY <1>4 DEF RingInv, TypeInv, WriterSound, Publish, StreamingWriteFinish
  <2>2. [pos |-> end_offset % BytesMax, rec |-> w.rec] \in Frame
    <3>1. end_offset \in Nat
      BY OffsetTypes DEF RingInv, TypeInv, TypeOK
    <3> QED
      BY <2>1, <3>1, OffsetTypes DEF Frame
  <2>3. WithFrame \in Seq(Frame) /\ \A k \in DOMAIN live : k \in DOMAIN WithFrame /\ WithFrame[k] = live[k]
    BY <1>1, <2>2 DEF WithFrame
  <2>4. PICK end : StoreEnd(end, WithFrame)
    BY <1>4 DEF Publish, StreamingWriteFinish
  <2> QED
    BY <1>1, <2>3, <2>4, StoreKeeps
<1>5. CASE ReduceEnd
  <2>1. StoreEnd(ReducedEnd, live)
    BY <1>5 DEF ReduceEnd
  <2> QED
    BY <1>1, <2>1, StoreKeeps
<1> QED
  BY <1>2, <1>3, <1>4, <1>5 DEF Writer, WriterStep

(* The handle has read nothing wrong, and is within the file. *)
ReadSound(g) == g.at < 2 * BytesMax /\ (target # NoFrame => ReadsFrame(g, target))

LEMMA StillReads ==
  ASSUME ReadInv, RingInv', UNCHANGED <<start_offset, end_offset, data, live, w, target>>,
         ReadSound(r')
  PROVE  ReadInv'
BY DEF ReadInv, ReadSound

LEMMA WriterReads ==
  ASSUME ReadInv, RingInv', Writer
  PROVE  ReadInv'
<1>1. /\ r' = r
      /\ target' # NoFrame => target' = target /\ \E k \in DOMAIN live' : live'[k] = target'
  BY WriterKeeps DEF ReadInv
<1>2. r'.at < 2 * BytesMax
  BY <1>1 DEF ReadInv
<1>3. target' # NoFrame => ReadsFrame(r', target')
  BY <1>1 DEF ReadInv
<1> QED
  BY <1>1, <1>2, <1>3 DEF ReadInv

(* Open and Close. *)
LEMMA OpenReads ==
  ASSUME ReadInv, RingInv', OpenRead \/ CloseRead
  PROVE  ReadInv'
<1>1. CASE OpenRead
  <2>1. r' = [NewReader EXCEPT !.pc = "idle", !.at = start_offset]
    BY <1>1 DEF OpenRead
  <2>2. /\ r'.pc = "idle" /\ r'.ret = "none" /\ r'.at = start_offset /\ ~Streaming(r')
    BY <2>1 DEF NewReader, Streaming
  <2>3. start_offset < 2 * BytesMax
    BY DEF ReadInv, RingInv, Reduced
  <2>4. ReadSound(r')
    BY <2>2, <2>3 DEF ReadSound, ReadsFrame, Answered
  <2> QED
    BY <1>1, <2>4, StillReads DEF OpenRead
<1>2. CASE CloseRead
  <2>1. r'.at = 0 /\ target' = NoFrame
    BY <1>2 DEF CloseRead, NewReader
  <2>2. 0 < 2 * BytesMax
    BY Constants
  <2> QED
    BY <2>1, <2>2 DEF ReadInv
<1> QED
  BY <1>1, <1>2

(* Entry of a call that reads a record header. *)
LEMMA StartReads ==
  ASSUME ReadInv, RingInv', NEW call \in {"NextRecordSize", "Read", "StreamingReadStart"},
         NEW n \in Nat, call = "Read" => n <= BufMax, StartRead(call, n)
  PROVE  ReadInv'
<1> DEFINE begun == [NewReader EXCEPT !.pc = "header", !.call = call, !.at = r.at, !.chunk = n]
<1>1. /\ begun.pc = "header" /\ begun.call = call /\ begun.at = r.at /\ begun.chunk = n
      /\ begun.ret = "none" /\ begun.done = 0 /\ begun.offset = 0 /\ begun.remaining = 0
  BY DEF NewReader
<1>2. \/ r' = ReadReturns(begun, "false") /\ target' = NoFrame
      \/ r' = begun /\ target' = FrameAt(r.at)
  BY DEF StartRead
<1>3. UNCHANGED <<start_offset, end_offset, data, live, w>>
  BY DEF StartRead
<1>4. r.at < 2 * BytesMax /\ r.at \in Nat
  BY DEF ReadInv, RingInv, TypeInv, TypeOK, ReaderHandle
<1> HIDE DEF begun
<1>5. r'.at = r.at
  <2>1. begun \in ReaderHandle
    BY <1>4, NewReaderType DEF begun, ReaderHandle
  <2>2. ReadReturns(begun, "false").at = begun.at
    BY <2>1, ReadReturnsIs
  <2> QED
    BY <1>1, <1>2, <2>2
<1>6. ASSUME target' # NoFrame
      PROVE  (\E k \in DOMAIN live : live[k] = target') /\ ReadsFrame(r', target')
  <2>1. r' = begun /\ target' = FrameAt(r.at)
    BY <1>2, <1>6
  <2>2. PICK i \in DOMAIN live : live[i] = target' /\ live[i].pos = r.at % BytesMax
    BY <1>6, <2>1 DEF FrameAt
  <2>3. live[i] \in Frame
    BY DEF ReadInv, RingInv, TypeInv, TypeOK
  <2>4. AtByte(r.at, target', 0)
    <3>1. target'.pos \in Offset /\ target'.pos = r.at % BytesMax
      BY <2>2, <2>3 DEF Frame
    <3>2. PICK p \in Offset : p = target'.pos
      BY <3>1
    <3>3. p + 0 = p /\ p \in 0 .. BytesMax - 1
      BY <3>2 DEF Offset
    <3>4. p % BytesMax = p
      BY <3>3, Constants, Wrap
    <3> QED
      BY <3>1, <3>2, <3>3, <3>4 DEF AtByte
  <2>5. HeaderRead(begun, target')
    <3>1. ASSUME NEW j \in BufferIndex PROVE ~(j < 0)
      BY Constants DEF BufferIndex
    <3>2. begun.call = "Read" => begun.chunk <= BufMax
      BY <1>1
    <3> QED
      BY <1>1, <2>4, <3>1, <3>2 DEF HeaderRead, Cut
  <2>6. ReadsFrame(begun, target')
    BY <1>1, <2>5 DEF ReadsFrame, Answered
  <2> QED
    BY <2>1, <2>2, <2>6
<1> QED
  BY <1>3, <1>4, <1>5, <1>6 DEF ReadInv

(* A call that returns leaves the caller's buffer, its sizes and its place. *)
LEMMA ReturnKeeps ==
  ASSUME NEW h \in ReaderHandle, NEW v \in {"none", "true", "false"}
  PROVE  LET g == ReadReturns(h, v) IN
         /\ g \in ReaderHandle
         /\ g.pc = "idle" /\ g.ret = v /\ g.done = 0
         /\ g.call = h.call /\ g.at = h.at /\ g.size = h.size /\ g.chunk = h.chunk
         /\ g.buffer = h.buffer /\ g.offset = h.offset /\ g.remaining = h.remaining
<1>1. ReadReturns(h, v) \in ReaderHandle
  BY ReadReturnsIs
<1> QED
  BY <1>1 DEF ReadReturns, ReaderHandle

(* The fields of the handle. *)
LEMMA HandleIs ==
  ASSUME RingInv
  PROVE  /\ r \in ReaderHandle
         /\ r.at \in Nat /\ r.hsize \in Nat /\ r.size \in Nat /\ r.chunk \in Nat
         /\ r.done \in Nat /\ r.offset \in Nat /\ r.remaining \in Nat
         /\ r.header \in [BufferIndex -> Byte]
         /\ r.buffer \in [0 .. BufMax - 1 -> Byte]
         /\ data \in [Offset -> Byte]
BY DEF RingInv, TypeInv, TypeOK, ReaderHandle

(* The next piece of a streamed record is asked for. *)
LEMMA PieceReads ==
  ASSUME SafeReading, ReadInv, RingInv', NEW n \in Sizes, StreamingRead(n)
  PROVE  ReadInv'
<1> DEFINE size == IF n > r.remaining THEN r.remaining ELSE n
           begun == [r EXCEPT !.pc = "payload", !.call = "StreamingRead", !.ret = "none",
                              !.chunk = size]
<1>1. /\ r \in ReaderHandle /\ r.size \in Nat /\ r.remaining \in Nat
      /\ n \in Nat /\ n # 0 /\ BufMax \in Nat
  BY HandleIs, Constants DEF ReadInv, SafeReading, SafeUse
<1>2. size \in Nat /\ size <= r.remaining /\ (size = 0 => r.remaining = 0)
  BY <1>1
<1>3. /\ r.pc = "idle" /\ Streaming(r)
      /\ r.size - r.remaining + size <= BufMax
      /\ r' = IF size = 0 THEN ReadReturns(begun, "true") ELSE begun
      /\ UNCHANGED <<start_offset, end_offset, data, live, w, target>>
  BY DEF StreamingRead
<1> HIDE DEF size
<1>4. /\ begun \in ReaderHandle
      /\ begun.pc = "payload" /\ begun.call = "StreamingRead" /\ begun.ret = "none"
      /\ begun.chunk = size /\ begun.at = r.at /\ begun.size = r.size /\ begun.done = r.done
      /\ begun.buffer = r.buffer /\ begun.offset = r.offset /\ begun.remaining = r.remaining
  BY <1>1, <1>2 DEF ReaderHandle
<1> HIDE DEF begun
<1>5. CASE size = 0
  <2>1. /\ r'.pc = "idle" /\ r'.ret = "true" /\ r'.done = 0 /\ r'.at = r.at
        /\ r'.size = r.size /\ r'.buffer = r.buffer /\ r'.offset = r.offset
        /\ r'.remaining = r.remaining /\ r'.call = "StreamingRead"
    BY <1>3, <1>4, <1>5, ReturnKeeps
  <2>2. ASSUME target # NoFrame PROVE ReadsFrame(r', target)
    <3>1. PieceRead(r, target)
      BY <1>3, <2>2 DEF ReadInv, ReadsFrame
    <3>2. PieceRead(r', target)
      BY <2>1, <3>1 DEF PieceRead, Holds
    <3>3. Answered(r', target)
      BY <2>1, <3>1 DEF PieceRead, Answered, Holds
    <3> QED
      BY <2>1, <3>2, <3>3 DEF ReadsFrame
  <2> QED
    BY <1>3, <2>1, <2>2, StillReads DEF ReadInv, ReadSound
<1>6. CASE size # 0
  <2>1. r' = begun
    BY <1>3, <1>6
  <2>2. ASSUME target # NoFrame PROVE ReadsFrame(begun, target)
    <3>1. PieceRead(r, target)
      BY <1>3, <2>2 DEF ReadInv, ReadsFrame
    <3>2. /\ Got(begun) = r.size - r.remaining /\ From(begun) = r.offset /\ begun.done = 0
          /\ r.size = Len(target.rec) /\ r.remaining <= r.size
      BY <1>4, <3>1 DEF Got, From, PieceRead
    <3>3. 0 <= Got(begun) /\ Got(begun) + size <= r.size /\ Got(begun) + size <= BufMax /\ size > 0
      BY <1>1, <1>2, <1>3, <1>6, <3>2
    <3>4. AtByte(From(begun), target, ByteSize(begun.size) + Got(begun))
      BY <1>4, <3>1, <3>2 DEF PieceRead
    <3>5. Holds(begun, target, Got(begun) + begun.done)
      <4>1. Got(begun) + begun.done = r.size - r.remaining
        BY <1>1, <3>2
      <4> QED
        BY <1>4, <3>1, <4>1 DEF PieceRead, Holds
    <3>6. PayloadRead(begun, target)
      BY <1>4, <3>2, <3>3, <3>4, <3>5 DEF PayloadRead, Cut
    <3> QED
      BY <1>4, <3>6 DEF ReadsFrame, Answered
  <2> QED
    BY <1>3, <1>4, <2>1, <2>2, StillReads DEF ReadInv, ReadSound
<1> QED
  BY <1>5, <1>6

(* The rest of a streamed record is left alone. *)
LEMMA FinishReads ==
  ASSUME ReadInv, RingInv', StreamingReadFinish
  PROVE  ReadInv'
<1> DEFINE h == ReadReturns(r, "true")
<1>1. r' = [h EXCEPT !.call = "StreamingReadFinish", !.offset = 0]
  BY DEF StreamingReadFinish
<1>2. /\ h \in ReaderHandle
      /\ h.pc = "idle" /\ h.ret = "true" /\ h.done = 0 /\ h.at = r.at /\ h.size = r.size
      /\ h.buffer = r.buffer /\ h.remaining = r.remaining
  BY HandleIs, ReturnKeeps DEF ReadInv
<1> HIDE DEF h
<1>3. /\ r'.pc = "idle" /\ r'.ret = "true" /\ r'.at = r.at /\ r'.size = r.size
      /\ r'.buffer = r.buffer /\ r'.remaining = r.remaining /\ r'.offset = 0
      /\ r'.call = "StreamingReadFinish"
  BY <1>1, <1>2 DEF ReaderHandle
<1>4. ASSUME target # NoFrame PROVE ReadsFrame(r', target)
  <2>1. PieceRead(r, target)
    BY <1>4 DEF StreamingReadFinish, ReadInv, ReadsFrame
  <2>2. Answered(r', target)
    BY <1>3, <2>1 DEF PieceRead, Answered, Holds
  <2> QED
    BY <1>3, <2>2 DEF ReadsFrame, Streaming
<1> QED
  BY <1>3, <1>4, StillReads DEF ReadInv, ReadSound, StreamingReadFinish

(* A read() fails: the pieces a streaming client has are still good. *)
LEMMA FailReads ==
  ASSUME ReadInv, RingInv', ReadFails
  PROVE  ReadInv'
<1>1. /\ r.pc \in {"header", "payload"} /\ "read" \in Faults
      /\ r' = ReadReturns(r, "false")
      /\ UNCHANGED <<start_offset, end_offset, data, live, w, target>>
  BY DEF ReadFails
<1>2. /\ r'.pc = "idle" /\ r'.ret = "false" /\ r'.done = 0 /\ r'.at = r.at /\ r'.size = r.size
      /\ r'.buffer = r.buffer /\ r'.remaining = r.remaining /\ r'.offset = r.offset
  BY <1>1, HandleIs, ReturnKeeps DEF ReadInv
<1>3. ASSUME target # NoFrame, Streaming(r') PROVE PieceRead(r', target)
  <2>1. ReadsFrame(r, target) /\ r.offset # 0
    BY <1>2, <1>3 DEF ReadInv, Streaming
  <2>2. r.pc = "payload" /\ PayloadRead(r, target)
    BY <1>1, <2>1 DEF ReadsFrame, HeaderRead
  <2>3. r.call = "StreamingRead"
    BY <2>1, <2>2 DEF ReadInv, RingInv, TypeInv, ReaderSound, PayloadRead
  <2>4. /\ r.size = Len(target.rec) /\ 0 <= r.size - r.remaining
        /\ AtByte(r.offset, target, ByteSize(r.size) + (r.size - r.remaining))
        /\ Holds(r, target, (r.size - r.remaining) + r.done)
    BY <2>2, <2>3 DEF PayloadRead, Got, From
  <2>5. PICK n \in Int : n = r.size - r.remaining
    BY HandleIs DEF ReadInv
  <2>6. r.done \in Nat /\ r.size \in Nat /\ r.remaining \in Nat
    BY HandleIs DEF ReadInv
  <2>7. Holds(r, target, n)
    <3>1. Holds(r, target, n + r.done)
      BY <2>4, <2>5
    <3>2. \A j \in 0 .. n - 1 : j \in 0 .. (n + r.done) - 1
      BY <2>5, <2>6
    <3>3. ASSUME NEW j \in 0 .. n - 1 PROVE r.buffer[j] = target.rec[j + 1]
      <4>1. j \in 0 .. (n + r.done) - 1
        BY <3>2
      <4> QED
        BY <3>1, <4>1 DEF Holds
    <3> QED
      BY <3>3 DEF Holds
  <2>8. r'.size = Len(target.rec) /\ r'.remaining <= r'.size /\ r'.done = 0
    BY <1>2, <2>4, <2>6
  <2> QED
    BY <1>2, <2>4, <2>5, <2>7, <2>8 DEF PieceRead, Holds
<1>4. ASSUME target # NoFrame PROVE Answered(r', target)
  BY <1>1, <1>2 DEF Answered
<1> QED
  BY <1>1, <1>2, <1>3, <1>4, StillReads DEF ReadInv, ReadSound, ReadsFrame

(* A byte of the ring, at an offset that is at byte j of a live frame. *)
LEMMA ByteRead ==
  ASSUME SafeUse, RingInv, NEW f, \E k \in DOMAIN live : live[k] = f,
         NEW o \in Nat, NEW j \in 0 .. ByteSize(Len(f.rec)) + Len(f.rec) - 1, AtByte(o, f, j)
  PROVE  data[o % BytesMax] = FrameByte(f.rec, j)
BY TargetIs DEF AtByte

(* A system call of WrappingRead for a record header. *)
LEMMA HeaderReads ==
  ASSUME SafeReading, ReadInv, RingInv', ReadHeader
  PROVE  ReadInv'
<1> DEFINE at == SegmentAt(r.at, r.done)
           count == SegmentCount(r.at, kMaxSize, r.done)
           header == [j \in BufferIndex |->
                        IF j >= r.done /\ j < r.done + count THEN data[at + j - r.done]
                                                             ELSE r.header[j]]
<1>1. /\ r.pc = "header"
      /\ r' = IF ~ReadFits(r.at, kMaxSize, r.done) THEN ReadReturns(r, "false")
              ELSE IF More(r.at, kMaxSize, r.done)
                THEN [r EXCEPT !.header = header, !.done = count]
                ELSE [r EXCEPT !.header = header, !.done = 0, !.pc = "decode"]
      /\ UNCHANGED <<start_offset, end_offset, data, live, w, target>>
  BY DEF ReadHeader
<1>2. /\ r \in ReaderHandle /\ r.at \in Nat /\ r.done \in Nat /\ r.at < 2 * BytesMax
      /\ BytesMax \in Nat
  BY HandleIs, Constants DEF ReadInv
<1>3. /\ (r').at = r.at
      /\ r'.pc \in {"idle", "header", "decode"}
  <2>1. ReadReturns(r, "false").at = r.at /\ ReadReturns(r, "false").pc = "idle"
    BY <1>2, ReturnKeeps
  <2> HIDE DEF header, count
  <2> QED
    BY <1>1, <1>2, <2>1 DEF ReaderHandle
<1>4. ASSUME target # NoFrame PROVE ReadsFrame(r', target)
  <2> DEFINE f == target
             B == ByteSize(Len(f.rec))
  <2>1. HeaderRead(r, f)
    BY <1>1, <1>4 DEF ReadInv, ReadsFrame
  <2>2. SafeUse /\ RingInv /\ \E k \in DOMAIN live : live[k] = f
    BY <1>4 DEF SafeReading, ReadInv
  <2>3. /\ B \in 1 .. kMaxSize /\ Len(f.rec) \in Nat /\ f \in Frame /\ f.rec \in Seq(Byte)
    BY <2>2, TargetIs
  <2>4. /\ count \in Nat /\ at \in Nat
        /\ r.done + count <= kMaxSize
        /\ at + count <= BytesMax
        /\ More(r.at, kMaxSize, r.done) => Cut(r.at, kMaxSize, count)
        /\ ~More(r.at, kMaxSize, r.done) => r.done + count = kMaxSize
        /\ \A k \in r.done .. r.done + count - 1 : (r.at + k) % BytesMax = at + k - r.done
    <3>1. kMaxSize \in 1 .. BytesMax
      BY Constants DEF SafeReading
    <3>2. Cut(r.at, kMaxSize, r.done)
      BY <1>1, <2>1 DEF HeaderRead
    <3> QED
      BY <1>2, <3>1, <3>2, SegmentFrom
  <2>5. ReadFits(r.at, kMaxSize, r.done)
    BY <2>4 DEF ReadFits
  <2> HIDE DEF at, count
  <2>6. ASSUME NEW j \in BufferIndex, j < B, j < r.done + count
        PROVE  header[j] = EncodedByte(Len(f.rec), j)
    <3>1. j \in Nat
      BY <2>6, Constants DEF BufferIndex
    <3>2. CASE j < r.done
      <4>1. header[j] = r.header[j]
        BY <1>2, <3>1, <3>2
      <4> QED
        BY <2>1, <2>6, <3>2, <4>1 DEF HeaderRead
    <3>3. CASE j >= r.done
      <4>1. header[j] = data[at + j - r.done]
        BY <2>6, <3>3
      <4>2. (r.at + j) % BytesMax = at + j - r.done
        BY <1>2, <2>4, <2>6, <3>1, <3>3
      <4>3. AtByte(r.at + j, f, j)
        <5>1. PICK z \in Int : z = 0
          OBVIOUS
        <5>2. AtByte(r.at, f, z) /\ r.at \in Int /\ j \in Int /\ f \in Frame
          BY <1>2, <2>1, <2>3, <3>1, <5>1 DEF HeaderRead
        <5>3. AtByte(r.at + j, f, z + j)
          BY <5>1, <5>2, Further
        <5> QED
          BY <3>1, <5>1, <5>3
      <4>4. data[(r.at + j) % BytesMax] = FrameByte(f.rec, j)
        <5>1. r.at + j \in Nat /\ j \in 0 .. B + Len(f.rec) - 1
          BY <1>2, <2>3, <2>6, <3>1
        <5> QED
          BY <2>2, <4>3, <5>1, ByteRead
      <4> QED
        BY <2>6, <4>1, <4>2, <4>4 DEF FrameByte
    <3> QED
      BY <1>2, <3>1, <3>2, <3>3
  <2>7. /\ r.ret = "none" /\ r.offset = 0 /\ r.remaining = 0
        /\ r.call = "Read" => r.chunk <= BufMax
        /\ AtByte(r.at, f, 0)
    BY <2>1 DEF HeaderRead
  <2> HIDE DEF header
  <2>8. CASE More(r.at, kMaxSize, r.done)
    <3>1. r' = [r EXCEPT !.header = header, !.done = count]
      BY <1>1, <2>5, <2>8
    <3>2. /\ r'.pc = "header" /\ r'.ret = "none" /\ r'.offset = 0 /\ r'.remaining = 0
          /\ r'.call = r.call /\ r'.chunk = r.chunk /\ r'.at = r.at
          /\ r'.done = count /\ r'.header = header
      BY <1>1, <1>2, <2>7, <3>1 DEF ReaderHandle
    <3>3. r.done = 0
      BY <2>8 DEF More
    <3>4. HeaderRead(r', f)
      BY <2>4, <2>6, <2>7, <2>8, <3>2, <3>3 DEF HeaderRead
    <3> QED
      BY <3>2, <3>4 DEF ReadsFrame, Answered
  <2>9. CASE ~More(r.at, kMaxSize, r.done)
    <3>1. r' = [r EXCEPT !.header = header, !.done = 0, !.pc = "decode"]
      BY <1>1, <2>5, <2>9
    <3>2. /\ r'.pc = "decode" /\ r'.ret = "none" /\ r'.offset = 0 /\ r'.remaining = 0
          /\ r'.call = r.call /\ r'.chunk = r.chunk /\ r'.at = r.at
          /\ r'.done = 0 /\ r'.header = header
      BY <1>2, <2>7, <3>1 DEF ReaderHandle
    <3>3. \A j \in BufferIndex : j < r.done + count
      BY <2>4, <2>9, Constants DEF BufferIndex
    <3>4. HeaderRead(r', f)
      BY <2>6, <2>7, <3>2, <3>3 DEF HeaderRead
    <3> QED
      BY <3>2, <3>4 DEF ReadsFrame, Answered
  <2> QED
    BY <2>8, <2>9
<1> QED
  BY <1>1, <1>2, <1>3, <1>4, StillReads DEF ReadSound

(* If the step moves read_offset_, it does so by the frame it has read. *)
MovesOn ==
  target # NoFrame /\ r'.at # r.at
    => AtByte(r.at, target, 0) /\ r'.at = Advance(r.at, FrameSize(target.rec))

(* Varint::Read on the header, and what the call does with the result. *)
LEMMA DecodeReads ==
  ASSUME SafeReading, ReadInv, RingInv', DecodeHeader
  PROVE  ReadInv' /\ MovesOn
<1>1. PICK out \in ReadOutcomes(r.header) :
        LET decoded == [r EXCEPT !.hsize = out.size, !.size = out.value] IN
        r' = CASE r.call = "NextRecordSize" -> ReadReturns(decoded, "true")
               [] r.call = "Read" ->
                    IF out.value > r.chunk THEN ReadReturns(decoded, "false")
                    ELSE [decoded EXCEPT !.pc = "payload", !.chunk = out.value]
               [] r.call = "StreamingReadStart" ->
                    [ReadReturns(decoded, "true") EXCEPT
                       !.offset = r.at + out.size,
                       !.remaining = out.value,
                       !.at = Advance(r.at, out.size + out.value)]
  BY DEF DecodeHeader
<1> DEFINE decoded == [r EXCEPT !.hsize = out.size, !.size = out.value]
           yes == ReadReturns(decoded, "true")
           no == ReadReturns(decoded, "false")
<1>2. /\ r.pc = "decode"
      /\ r.call \in {"NextRecordSize", "Read", "StreamingReadStart"}
      /\ UNCHANGED <<start_offset, end_offset, data, live, w, target>>
  BY DEF DecodeHeader, ReadInv, RingInv, TypeInv, ReaderSound
<1>3. /\ r \in ReaderHandle /\ r.at \in Nat /\ r.chunk \in Nat /\ r.at < 2 * BytesMax
      /\ r.header \in [BufferIndex -> Byte]
  BY HandleIs DEF ReadInv
<1>4. PICK size \in Nat, value \in Nat : size = out.size /\ value = out.value
  BY <1>3, OutcomeIsNat
<1>5. /\ decoded \in ReaderHandle
      /\ decoded.pc = "decode" /\ decoded.call = r.call /\ decoded.ret = r.ret
      /\ decoded.at = r.at /\ decoded.chunk = r.chunk /\ decoded.hsize = size
      /\ decoded.size = value /\ decoded.done = r.done /\ decoded.offset = r.offset
      /\ decoded.remaining = r.remaining /\ decoded.buffer = r.buffer
  BY <1>2, <1>3, <1>4 DEF ReaderHandle
<1> HIDE DEF decoded
<1>6. /\ yes \in ReaderHandle
      /\ yes.pc = "idle" /\ yes.ret = "true" /\ yes.done = 0 /\ yes.call = r.call
      /\ yes.at = r.at /\ yes.size = value /\ yes.offset = r.offset
      /\ yes.remaining = r.remaining /\ yes.buffer = r.buffer
  BY <1>5, ReturnKeeps
<1>7. /\ no \in ReaderHandle
      /\ no.pc = "idle" /\ no.ret = "false" /\ no.done = 0 /\ no.call = r.call
      /\ no.at = r.at /\ no.size = value /\ no.offset = r.offset
      /\ no.chunk = r.chunk /\ no.remaining = r.remaining
  BY <1>5, ReturnKeeps
<1> HIDE DEF yes, no
<1>8. \/ r.call = "NextRecordSize" /\ r' = yes
      \/ r.call = "Read" /\ value > r.chunk /\ r' = no
      \/ r.call = "Read" /\ value <= r.chunk /\ r' = [decoded EXCEPT !.pc = "payload", !.chunk = value]
      \/ /\ r.call = "StreamingReadStart"
         /\ r' = [yes EXCEPT !.offset = r.at + size, !.remaining = value,
                              !.at = Advance(r.at, size + value)]
  <2>1. CASE r.call = "NextRecordSize"
    BY <1>1, <2>1 DEF yes, decoded
  <2>2. CASE r.call = "Read"
    BY <1>1, <1>3, <1>4, <2>2 DEF no, decoded
  <2>3. CASE r.call = "StreamingReadStart"
    BY <1>1, <1>4, <2>3 DEF yes, decoded
  <2> QED
    BY <1>2, <2>1, <2>2, <2>3
<1>9. Advance(r.at, size + value) \in Nat /\ Advance(r.at, size + value) < BytesMax
  <2>1. \A x \in Nat : x % BytesMax \in Nat /\ x % BytesMax < BytesMax
    BY Constants
  <2>2. \A x \in Nat : x % Word \in Nat
    BY Constants
  <2>3. r.at + (size + value) \in Nat
    BY <1>3
  <2> QED
    BY <2>1, <2>2, <2>3 DEF Advance
<1>10. r'.at < 2 * BytesMax
  <2>1. CASE r' = yes \/ r' = no
    BY <1>3, <1>6, <1>7, <2>1
  <2>2. CASE r' = [decoded EXCEPT !.pc = "payload", !.chunk = value]
    BY <1>3, <1>5, <2>2 DEF ReaderHandle
  <2>3. CASE r' = [yes EXCEPT !.offset = r.at + size, !.remaining = value,
                              !.at = Advance(r.at, size + value)]
    <3>1. r'.at = Advance(r.at, size + value)
      BY <1>6, <2>3 DEF ReaderHandle
    <3> QED
      BY <1>9, <3>1, Constants
  <2> QED
    BY <1>8, <2>1, <2>2, <2>3
<1>11. ASSUME target # NoFrame PROVE ReadsFrame(r', target) /\ MovesOn
  <2> DEFINE f == target
  <2>1. HeaderRead(r, f)
    BY <1>2, <1>11 DEF ReadInv, ReadsFrame
  <2>2. SafeUse /\ RingInv /\ \E k \in DOMAIN live : live[k] = f
    BY <1>11 DEF SafeReading, ReadInv
  <2>3. PICK len \in Nat \ {0} : len = Len(f.rec)
    BY <2>2, TargetIs
  <2>4. Encodable(len) /\ ByteSize(len) \in 1 .. kMaxSize /\ f \in Frame
    BY <2>2, <2>3, TargetIs
  <2>5. size = ByteSize(len) /\ value = len
    <3>1. ASSUME NEW i \in 0 .. ByteSize(len) - 1 PROVE r.header[i] = EncodedByte(len, i)
      <4>1. i \in BufferIndex /\ i < ByteSize(len)
        BY <2>4, Constants DEF BufferIndex
      <4> QED
        BY <1>2, <2>1, <2>3, <4>1 DEF HeaderRead
    <3>2. ReadOutcomes(r.header) = {[size |-> ByteSize(len), value |-> len]}
      BY <1>3, <2>4, <3>1, HeaderReadsBack
    <3> QED
      BY <1>1, <1>4, <3>2
  <2>6. /\ r.ret = "none" /\ r.offset = 0 /\ r.remaining = 0 /\ r.done = 0
        /\ r.call = "Read" => r.chunk <= BufMax
        /\ AtByte(r.at, f, 0)
    BY <1>2, <2>1 DEF HeaderRead
  <2>7. AtByte(r.at + size, f, ByteSize(len) + 0)
    <3>1. PICK z \in Int : z = 0
      OBVIOUS
    <3>2. AtByte(r.at, f, z) /\ r.at \in Int /\ size \in Int
      BY <1>3, <1>4, <2>6, <3>1
    <3>3. AtByte(r.at + size, f, z + size)
      BY <2>4, <3>2, Further
    <3>4. z + size = ByteSize(len) + 0
      BY <2>5, <3>1, <3>2
    <3> QED
      BY <3>3, <3>4
  <2>8. \A g : Holds(g, f, 0)
    BY DEF Holds
  <2>9. CASE r.call = "NextRecordSize" /\ r' = yes
    <3>1. Answered(yes, f)
      BY <1>6, <2>3, <2>5, <2>8, <2>9 DEF Answered
    <3> QED
      BY <1>6, <2>6, <2>9, <3>1 DEF ReadsFrame, Streaming, MovesOn
  <2>10. CASE r.call = "Read" /\ value > r.chunk /\ r' = no
    <3>1. Answered(no, f)
      BY <1>7, <2>3, <2>5, <2>10 DEF Answered
    <3> QED
      BY <1>7, <2>6, <2>10, <3>1 DEF ReadsFrame, Streaming, MovesOn
  <2>11. CASE /\ r.call = "Read" /\ value <= r.chunk
              /\ r' = [decoded EXCEPT !.pc = "payload", !.chunk = value]
    <3>1. /\ r'.pc = "payload" /\ r'.ret = "none" /\ r'.call = "Read" /\ r'.chunk = value
          /\ r'.size = value /\ r'.hsize = size /\ r'.at = r.at /\ r'.done = 0
          /\ r'.offset = 0 /\ r'.remaining = 0
      BY <1>5, <2>6, <2>11 DEF ReaderHandle
    <3>2. /\ Got(r') = 0 /\ From(r') = r.at + size
      BY <3>1 DEF Got, From
    <3>3. /\ value > 0 /\ value <= BufMax /\ 0 + value = value
      BY <1>3, <1>4, <2>3, <2>5, <2>6, <2>11, Constants
    <3>4. Holds(r', f, Got(r') + r'.done)
      BY <2>8, <3>1, <3>2
    <3>5. AtByte(From(r'), f, ByteSize(r'.size) + Got(r'))
      BY <2>5, <2>7, <3>1, <3>2
    <3>6. PayloadRead(r', f)
      BY <2>3, <2>5, <2>6, <3>1, <3>2, <3>3, <3>4, <3>5 DEF PayloadRead, Cut
    <3> QED
      BY <3>1, <3>6 DEF ReadsFrame, Answered, MovesOn
  <2>12. CASE /\ r.call = "StreamingReadStart"
              /\ r' = [yes EXCEPT !.offset = r.at + size, !.remaining = value,
                                   !.at = Advance(r.at, size + value)]
    <3>1. /\ r'.pc = "idle" /\ r'.ret = "true" /\ r'.call = "StreamingReadStart"
          /\ r'.size = value /\ r'.remaining = value /\ r'.offset = r.at + size /\ r'.done = 0
      BY <1>6, <2>12 DEF ReaderHandle
    <3>2. r'.size - r'.remaining = 0 /\ r'.remaining <= r'.size
      BY <1>4, <3>1
    <3>3. PieceRead(r', f)
      BY <2>3, <2>5, <2>7, <2>8, <3>1, <3>2 DEF PieceRead
    <3>4. Answered(r', f)
      BY <2>3, <2>5, <2>8, <3>1, <3>2 DEF Answered
    <3>5. MovesOn
      <4>1. r'.at = Advance(r.at, size + value)
        BY <1>6, <2>12 DEF ReaderHandle
      <4>2. size + value = FrameSize(f.rec)
        BY <2>3, <2>5 DEF FrameSize
      <4> QED
        BY <2>6, <4>1, <4>2 DEF MovesOn
    <3> QED
      BY <3>1, <3>3, <3>4, <3>5 DEF ReadsFrame
  <2> QED
    BY <1>8, <2>9, <2>10, <2>11, <2>12
<1>12. target = NoFrame => MovesOn
  BY DEF MovesOn
<1> QED
  BY <1>2, <1>10, <1>11, <1>12, StillReads DEF ReadSound

(* A system call of WrappingRead for a record, or for a piece of it. *)
LEMMA SegmentReads ==
  ASSUME SafeReading, ReadInv, RingInv', ReadSegment
  PROVE  ReadInv' /\ MovesOn
<1> DEFINE at == SegmentAt(GetOffset, r.done)
           count == SegmentCount(GetOffset, r.chunk, r.done)
           short == ~Refused(count) /\ ~ReadFits(GetOffset, r.chunk, r.done)
           got == IF Refused(count) THEN r
                  ELSE [r EXCEPT !.buffer = Fetched(at, count)]
<1>1. /\ r.pc = "payload"
      /\ r' = IF short \/ ~TransferOK(count) THEN ReadReturns(r, "false")
              ELSE IF More(GetOffset, r.chunk, r.done) THEN [got EXCEPT !.done = count]
              ELSE AfterGet(got)
      /\ UNCHANGED <<start_offset, end_offset, data, live, w, target>>
  BY DEF ReadSegment
<1>2. /\ r \in ReaderHandle /\ r.at < 2 * BytesMax /\ BytesMax \in Nat \ {0} /\ BufMax \in Nat
      /\ r.at \in Nat /\ r.hsize \in Nat /\ r.size \in Nat /\ r.chunk \in Nat
      /\ r.done \in Nat /\ r.offset \in Nat /\ r.remaining \in Nat
      /\ r.buffer \in [0 .. BufMax - 1 -> Byte] /\ data \in [Offset -> Byte]
  BY HandleIs, Constants DEF ReadInv
<1>3. \/ r.call = "Read"
      \/ r.call = "StreamingRead" /\ r.chunk <= r.remaining
  BY <1>1 DEF ReadInv, RingInv, TypeInv, ReaderSound
<1>4. GetOffset \in Nat /\ at \in Nat /\ at < BytesMax /\ count \in Nat
  <2>1. GetOffset \in Nat
    BY <1>2 DEF GetOffset
  <2>2. at \in Offset /\ count \in Nat
    BY <1>2, <2>1, SegmentTypes
  <2> QED
    BY <1>2, <2>1, <2>2 DEF Offset
<1> DEFINE fetched == Fetched(at, count)
<1>5. fetched \in [0 .. BufMax - 1 -> Byte]
  <2> HIDE DEF at, count
  <2>1. GetStart \in Int
    BY <1>2 DEF GetStart
  <2>2. ASSUME NEW i \in Int, i >= 0, at + i < BytesMax PROVE data[at + i] \in Byte
    <3>1. at + i \in Offset
      BY <1>2, <1>4, <2>2 DEF Offset
    <3> QED
      BY <1>2, <3>1
  <2>3. \A j \in 0 .. BufMax - 1 : j - GetStart - r.done \in Int
    BY <1>2, <2>1
  <2> QED
    BY <1>2, <2>2, <2>3 DEF Fetched
<1> HIDE DEF fetched
<1>6. /\ got \in ReaderHandle
      /\ got.buffer = IF Refused(count) THEN r.buffer ELSE fetched
      /\ got.pc = "payload" /\ got.call = r.call /\ got.ret = r.ret /\ got.at = r.at
      /\ got.hsize = r.hsize /\ got.size = r.size /\ got.chunk = r.chunk
      /\ got.done = r.done /\ got.offset = r.offset /\ got.remaining = r.remaining
  <2> HIDE DEF at, count
  <2>1. got = IF Refused(count) THEN r ELSE [r EXCEPT !.buffer = fetched]
    BY DEF fetched
  <2> QED
    BY <1>1, <1>2, <1>5, <2>1 DEF ReaderHandle
<1> HIDE DEF got
<1> DEFINE good == ReadReturns(got, "true")
<1>7. /\ good \in ReaderHandle
      /\ good.pc = "idle" /\ good.ret = "true" /\ good.done = 0 /\ good.call = r.call
      /\ good.at = r.at /\ good.size = r.size /\ good.offset = r.offset
      /\ good.remaining = r.remaining /\ good.buffer = got.buffer
  BY <1>6, ReturnKeeps
<1> HIDE DEF good
<1>8. AfterGet(got) = IF r.call = "Read"
                        THEN [good EXCEPT !.at = Advance(r.at, r.hsize + r.size)]
                        ELSE [good EXCEPT !.offset = r.offset + r.chunk,
                                          !.remaining = r.remaining - r.chunk]
  BY DEF AfterGet, good
<1>9. Advance(r.at, r.hsize + r.size) \in Nat /\ Advance(r.at, r.hsize + r.size) < BytesMax
  <2>1. \A x \in Nat : x % BytesMax \in Nat /\ x % BytesMax < BytesMax
    BY <1>2
  <2>2. \A x \in Nat : x % Word \in Nat
    BY Constants
  <2>3. r.at + (r.hsize + r.size) \in Nat
    BY <1>2
  <2> QED
    BY <2>1, <2>2, <2>3 DEF Advance
<1> HIDE DEF at, count, short
<1>10. r'.at < 2 * BytesMax
  <2>1. CASE r' = ReadReturns(r, "false")
    BY <1>2, <2>1, ReturnKeeps
  <2>2. CASE r' = [got EXCEPT !.done = count]
    BY <1>2, <1>6, <2>2 DEF ReaderHandle
  <2>3. CASE r' = AfterGet(got)
    <3>1. CASE r.call = "Read"
      <4>1. r'.at = Advance(r.at, r.hsize + r.size)
        BY <1>7, <1>8, <2>3, <3>1 DEF ReaderHandle
      <4> QED
        BY <1>2, <1>9, <4>1
    <3>2. CASE r.call # "Read"
      BY <1>2, <1>7, <1>8, <2>3, <3>2 DEF ReaderHandle
    <3> QED
      BY <3>1, <3>2
  <2> QED
    BY <1>1, <2>1, <2>2, <2>3
<1>11. ASSUME target # NoFrame PROVE ReadsFrame(r', target) /\ MovesOn
  <2> DEFINE f == target
  <2>1. PayloadRead(r, f)
    BY <1>1, <1>11 DEF ReadInv, ReadsFrame
  <2>2. SafeUse /\ RingInv /\ \E k \in DOMAIN live : live[k] = f
    BY <1>11 DEF SafeReading, ReadInv
  <2>3. PICK B \in Nat : B = ByteSize(r.size)
    <3>1. ByteSize(r.size) \in 1 .. kMaxSize
      BY <2>1, <2>2, TargetIs DEF PayloadRead
    <3> QED
      BY <3>1, Constants
  <2>4. /\ f \in Frame /\ f.rec \in Seq(Byte) /\ r.size = Len(f.rec)
        /\ B + r.size <= BytesMax
    BY <2>1, <2>2, <2>3, TargetIs DEF PayloadRead
  <2>5. PICK front \in Nat : front = Got(r)
    <3>1. Got(r) \in Int /\ 0 <= Got(r)
      BY <1>2, <2>1 DEF Got, PayloadRead
    <3> QED
      BY <3>1
  <2>6. /\ From(r) = GetOffset /\ front = GetStart
        /\ r.ret = "none" /\ r.chunk > 0
        /\ front + r.chunk <= r.size /\ front + r.chunk <= BufMax
        /\ AtByte(GetOffset, f, B + front)
        /\ Cut(GetOffset, r.chunk, r.done)
        /\ Holds(r, f, front + r.done)
    BY <2>1, <2>3, <2>5 DEF From, Got, GetOffset, GetStart, PayloadRead
  <2> DEFINE chunk == r.chunk
             size == r.size
             done == r.done
             remaining == r.remaining
             begin == GetOffset
  <2>0. /\ chunk \in Nat /\ size \in Nat /\ done \in Nat /\ remaining \in Nat /\ chunk > 0
        /\ front + chunk <= size /\ front + chunk <= BufMax /\ B + size <= BytesMax
        /\ BytesMax \in Nat /\ BufMax \in Nat /\ count \in Nat /\ at \in Nat /\ begin \in Nat
    BY <1>2, <1>4, <2>4, <2>6
  <2> HIDE DEF chunk, size, done, remaining, begin
  <2>7. /\ ~Refused(count)
        /\ done + count <= chunk
        /\ at + count <= BytesMax
        /\ More(GetOffset, r.chunk, r.done) => Cut(GetOffset, r.chunk, count)
        /\ ~More(GetOffset, r.chunk, r.done) => done + count = chunk
        /\ \A k \in done .. done + count - 1 : (begin + k) % BytesMax = at + k - done
    <3>1. chunk \in 1 .. BytesMax
      BY <2>0, <2>3, <2>5
    <3>2. Cut(begin, chunk, done)
      BY <2>6 DEF begin, chunk, done
    <3>3. /\ ~Refused(SegmentCount(begin, chunk, done))
          /\ done + SegmentCount(begin, chunk, done) <= chunk
          /\ SegmentAt(begin, done) + SegmentCount(begin, chunk, done) <= BytesMax
          /\ More(begin, chunk, done) => Cut(begin, chunk, SegmentCount(begin, chunk, done))
          /\ ~More(begin, chunk, done) => done + SegmentCount(begin, chunk, done) = chunk
          /\ \A k \in done .. done + SegmentCount(begin, chunk, done) - 1 :
               (begin + k) % BytesMax = SegmentAt(begin, done) + k - done
      BY <2>0, <3>1, <3>2, SegmentFrom
    <3> QED
      BY <3>3 DEF begin, chunk, done, at, count
  <2>8. /\ ~short /\ TransferOK(count) /\ got.buffer = fetched
    BY <1>6, <2>7 DEF short, ReadFits, TransferOK, at, count
  <2>9. ASSUME NEW j \in Nat, j < front + done + count
        PROVE  fetched[j] = f.rec[j + 1]
    <3>1. j \in 0 .. BufMax - 1 /\ j < size
      BY <2>0, <2>5, <2>7, <2>9
    <3>2. PICK i \in Int : i = j - front - done
      BY <2>0, <2>5
    <3>3. fetched[j] = IF i >= 0 /\ i < count /\ at + i < BytesMax THEN data[at + i] ELSE r.buffer[j]
      BY <2>6, <3>1, <3>2 DEF fetched, Fetched, done
    <3>4. CASE j < front + done
      <4>1. fetched[j] = r.buffer[j]
        BY <2>0, <2>5, <3>2, <3>3, <3>4
      <4>2. j \in 0 .. (front + done) - 1
        BY <2>0, <2>5, <3>4
      <4>3. Holds(r, f, front + done)
        BY <2>6 DEF done
      <4> QED
        BY <4>1, <4>2, <4>3 DEF Holds
    <3>5. CASE j >= front + done
      <4>1. i >= 0 /\ i < count /\ at + i < BytesMax
        BY <2>0, <2>5, <2>7, <2>9, <3>2, <3>5
      <4>2. PICK k \in Nat : k = done + i
        BY <2>0, <4>1, <3>2
      <4>3. k \in done .. done + count - 1 /\ at + k - done = at + i /\ front + k = j
        BY <2>0, <2>5, <3>2, <4>1, <4>2
      <4>4. (begin + k) % BytesMax = at + i
        BY <2>7, <4>3
      <4>5. AtByte(begin + k, f, B + j)
        <5>1. begin \in Int /\ B + front \in Int /\ k \in Int
          BY <2>0, <2>3, <2>5, <4>2
        <5>2. AtByte(begin, f, B + front)
          BY <2>6 DEF begin
        <5>3. AtByte(begin + k, f, (B + front) + k)
          BY <2>4, <5>1, <5>2, Further
        <5>4. (B + front) + k = B + j
          BY <2>3, <2>5, <4>2, <4>3
        <5> QED
          BY <5>3, <5>4
      <4>6. data[(begin + k) % BytesMax] = FrameByte(f.rec, B + j)
        <5>1. begin + k \in Nat /\ B + j \in 0 .. B + size - 1
          BY <2>0, <2>3, <3>1, <4>2
        <5>2. size = Len(f.rec) /\ B = ByteSize(Len(f.rec))
          BY <2>3, <2>4 DEF size
        <5> QED
          BY <2>2, <4>5, <5>1, <5>2, ByteRead
      <4>7. FrameByte(f.rec, B + j) = f.rec[j + 1]
        <5>1. ~(B + j < B) /\ (B + j) - B + 1 = j + 1
          BY <2>3
        <5>2. B = ByteSize(Len(f.rec))
          BY <2>3, <2>4
        <5> QED
          BY <5>1, <5>2 DEF FrameByte
      <4> QED
        BY <3>3, <4>1, <4>4, <4>6, <4>7
    <3> QED
      BY <2>0, <2>5, <3>4, <3>5
  <2>10. CASE More(GetOffset, r.chunk, r.done)
    <3>1. r' = [got EXCEPT !.done = count]
      BY <1>1, <2>8, <2>10
    <3>2. /\ r'.pc = "payload" /\ r'.ret = "none" /\ r'.call = r.call /\ r'.at = r.at
          /\ r'.hsize = r.hsize /\ r'.size = r.size /\ r'.chunk = r.chunk
          /\ r'.offset = r.offset /\ r'.remaining = r.remaining
          /\ r'.done = count /\ r'.buffer = fetched
      BY <1>6, <2>6, <2>8, <3>1 DEF ReaderHandle
    <3>3. Got(r') = Got(r) /\ From(r') = From(r)
      BY <3>2 DEF Got, From
    <3>4. r.done = 0
      BY <2>10 DEF More
    <3>5. Holds(r', f, Got(r') + r'.done)
      <4>1. ASSUME NEW j \in 0 .. (front + count) - 1 PROVE fetched[j] = f.rec[j + 1]
        <5>1. j \in Nat /\ j < front + done + count
          BY <2>0, <2>5, <3>4 DEF done
        <5> QED
          BY <2>9, <5>1
      <4> QED
        BY <2>5, <3>2, <3>3, <4>1 DEF Holds
    <3>6. PayloadRead(r', f)
      BY <2>1, <2>6, <2>7, <2>10, <3>2, <3>3, <3>5 DEF PayloadRead
    <3> QED
      BY <3>2, <3>6 DEF ReadsFrame, Answered, MovesOn
  <2>11. CASE ~More(GetOffset, r.chunk, r.done)
    <3>1. r' = AfterGet(got)
      BY <1>1, <2>8, <2>11
    <3>2. Holds(good, f, front + r.chunk)
      <4>1. ASSUME NEW j \in 0 .. (front + r.chunk) - 1 PROVE fetched[j] = f.rec[j + 1]
        <5>1. j \in Nat /\ j < front + done + count
          BY <2>0, <2>5, <2>7, <2>11 DEF chunk
        <5> QED
          BY <2>9, <5>1
      <4> QED
        BY <1>7, <2>8, <4>1 DEF Holds
    <3>3. CASE r.call = "Read"
      <4>1. r.chunk = r.size /\ r.remaining = 0 /\ r.offset = 0 /\ front = 0
        BY <2>1, <2>5, <3>3 DEF PayloadRead, Got
      <4>2. r' = [good EXCEPT !.at = Advance(r.at, r.hsize + r.size)]
        BY <1>8, <3>1, <3>3
      <4>3. /\ r'.pc = "idle" /\ r'.ret = "true" /\ r'.call = "Read" /\ r'.size = r.size
            /\ r'.remaining = 0 /\ r'.offset = 0 /\ r'.buffer = good.buffer
        BY <1>7, <3>3, <4>1, <4>2 DEF ReaderHandle
      <4>4. r'.size - r'.remaining = front + r.chunk
        BY <1>2, <4>1, <4>3
      <4>5. Answered(r', f)
        BY <2>4, <3>2, <4>3, <4>4 DEF Answered, Holds
      <4>6. MovesOn
        <5>1. r'.at = Advance(r.at, r.hsize + r.size)
          BY <1>7, <4>2 DEF ReaderHandle
        <5>2. r.hsize + r.size = FrameSize(f.rec) /\ AtByte(r.at, f, 0)
          BY <2>1, <3>3 DEF PayloadRead, FrameSize
        <5> QED
          BY <5>1, <5>2 DEF MovesOn
      <4> QED
        BY <4>3, <4>5, <4>6 DEF ReadsFrame, Streaming
    <3>4. CASE r.call = "StreamingRead"
      <4>1. front = r.size - r.remaining /\ GetOffset = r.offset
        BY <2>5, <3>4 DEF Got, GetOffset
      <4>2. r' = [good EXCEPT !.offset = r.offset + r.chunk, !.remaining = r.remaining - r.chunk]
        BY <1>8, <3>1, <3>4
      <4>3. /\ r'.pc = "idle" /\ r'.ret = "true" /\ r'.call = "StreamingRead"
            /\ r'.size = r.size /\ r'.done = 0 /\ r'.remaining = r.remaining - r.chunk
            /\ r'.offset = r.offset + r.chunk /\ r'.buffer = good.buffer
        BY <1>7, <3>4, <4>2 DEF ReaderHandle
      <4>4. r'.size - r'.remaining = front + r.chunk /\ r'.remaining <= r'.size
        <5>1. front = size - remaining
          BY <4>1 DEF size, remaining
        <5>2. size - (remaining - chunk) = front + chunk /\ remaining - chunk <= size
          BY <2>0, <2>5, <5>1
        <5> QED
          BY <4>3, <5>2 DEF size, remaining, chunk
      <4>5. AtByte(r'.offset, f, ByteSize(r'.size) + (r'.size - r'.remaining))
        <5>1. GetOffset \in Int /\ B + front \in Int /\ r.chunk \in Int
          BY <1>2, <1>4, <2>3, <2>5
        <5>2. AtByte(GetOffset + r.chunk, f, (B + front) + r.chunk)
          BY <2>4, <2>6, <5>1, Further
        <5>3. (B + front) + r.chunk = B + (front + r.chunk)
          BY <1>2, <2>3, <2>5
        <5> QED
          BY <2>3, <4>1, <4>3, <4>4, <5>2, <5>3
      <4>6. Holds(r', f, r'.size - r'.remaining)
        BY <3>2, <4>3, <4>4 DEF Holds
      <4>7. PieceRead(r', f)
        BY <2>4, <4>3, <4>4, <4>5, <4>6 DEF PieceRead
      <4>8. Answered(r', f)
        BY <2>4, <4>3, <4>6 DEF Answered
      <4>9. MovesOn
        <5>1. r'.at = r.at
          BY <1>7, <4>2 DEF ReaderHandle
        <5> QED
          BY <5>1 DEF MovesOn
      <4> QED
        BY <4>3, <4>7, <4>8, <4>9 DEF ReadsFrame
    <3> QED
      BY <1>3, <3>3, <3>4
  <2> QED
    BY <2>10, <2>11
<1>12. target = NoFrame => MovesOn
  BY DEF MovesOn
<1> QED
  BY <1>1, <1>10, <1>11, <1>12, StillReads DEF ReadSound

-----------------------------------------------------------------------------
LEMMA InitReads ==
  ASSUME Init, RingInv
  PROVE  ReadInv
<1>1. r.at = 0 /\ target = NoFrame
  BY DEF Init, NewReader
<1>2. 0 < 2 * BytesMax
  BY Constants
<1> QED
  BY <1>1, <1>2 DEF ReadInv

LEMMA StepReads ==
  ASSUME SafeReading, ReadInv, [Next]_vars
  PROVE  ReadInv'
<1>1. RingInv'
  BY StepSafe DEF SafeReading, ReadInv
<1>2. CASE UNCHANGED vars
  <2>1. ReadSound(r)
    BY DEF ReadInv, ReadSound
  <2> QED
    BY <1>1, <1>2, <2>1, StillReads DEF vars
<1>3. CASE Writer
  BY <1>1, <1>3, WriterReads
<1>4. CASE OpenRead \/ CloseRead
  BY <1>1, <1>4, OpenReads
<1>5. CASE NextRecordSize \/ StreamingReadStart \/ (\E n \in Sizes : Read(n)) \/ ReadNext
  <2>1. PICK call \in {"NextRecordSize", "Read", "StreamingReadStart"}, n \in Nat :
          (call = "Read" => n <= BufMax) /\ StartRead(call, n)
    <3>1. CASE NextRecordSize
      BY <3>1 DEF NextRecordSize
    <3>2. CASE StreamingReadStart
      BY <3>2 DEF StreamingReadStart
    <3>3. CASE \E n \in Sizes : Read(n)
      BY <3>3, Constants DEF Read, SafeReading
    <3>4. CASE ReadNext
      BY <3>4, HandleIs DEF ReadNext, ReadInv
    <3> QED
      BY <1>5, <3>1, <3>2, <3>3, <3>4
  <2> QED
    BY <1>1, <2>1, StartReads
<1>6. CASE ReadHeader
  BY <1>1, <1>6, HeaderReads
<1>7. CASE DecodeHeader
  BY <1>1, <1>7, DecodeReads
<1>8. CASE \E n \in Sizes : StreamingRead(n)
  BY <1>1, <1>8, PieceReads
<1>9. CASE ReadSegment
  BY <1>1, <1>9, SegmentReads
<1>10. CASE ReadFails
  BY <1>1, <1>10, FailReads
<1>11. CASE StreamingReadFinish
  BY <1>1, <1>11, FinishReads
<1> QED
  BY <1>2, <1>3, <1>4, <1>5, <1>6, <1>7, <1>8, <1>9, <1>10, <1>11 DEF Next, Reader

LEMMA ReadInvCorrect ==
  ASSUME SafeReading
  PROVE  Spec => []ReadInv
<1>1. Init => ReadInv
  BY InitSafe, InitReads
<1>2. ReadInv /\ [Next]_vars => ReadInv'
  BY StepReads
<1> QED
  BY <1>1, <1>2, PTL DEF Spec

(***************************************************************************)
(* A call of a reader that began on a record of the ring, and whose record *)
(* no write has popped since, delivers that record and nothing else, while *)
(* the writer writes, fails, dies and comes back in between: a reader      *)
(* needs no lock.                                                          *)
(***************************************************************************)
THEOREM ReadExactCorrect == SafeReading => (Spec => []ReadExact)
<1> SUFFICES ASSUME SafeReading PROVE Spec => []ReadExact
  OBVIOUS
<1>1. Spec => []ReadInv
  BY ReadInvCorrect
<1>2. ReadInv => ReadExact
  BY DEF ReadInv, ReadExact, ReadsFrame, Answered, Holds, Delivered
<1> QED
  BY <1>1, <1>2, PTL

(* The record behind a live one begins where that one ends. *)
LEMMA AfterIs ==
  ASSUME SafeUse, RingInv, NEW f, \E k \in DOMAIN live : live[k] = f
  PROVE  After(f) = (f.pos + FrameSize(f.rec)) % BytesMax
<1> DEFINE i == CHOOSE k \in DOMAIN live : live[k] = f
<1>1. i \in 1 .. Len(live) /\ live[i] = f
  BY DEF RingInv, TypeInv, TypeOK
<1> HIDE DEF i
<1>2. After(f) = IF i = Len(live) THEN end_offset % BytesMax ELSE live[i + 1].pos
  BY DEF After, i
<1>3. PICK p \in 0 .. BytesMax - 1 : p = f.pos
  BY <1>1, LiveFrame DEF Offset
<1>4. PICK n \in Nat : n = FrameSize(f.rec)
  BY <1>1, LiveFrame
<1>5. PICK s \in 0 .. 2 * BytesMax - 1 : s = start_offset
  BY Bounds
<1>6. PICK e \in 0 .. 2 * BytesMax - 1 : e = end_offset
  BY Bounds
<1>7. PICK u \in 0 .. BytesMax : u = Used
  BY Bounds
<1>8. BytesMax \in Nat \ {0}
  BY Constants
<1>9. PICK d \in Nat : d = Distance(f.pos)
  BY <1>1, LiveFrame
<1>10. d = (p - s) % BytesMax
  BY <1>3, <1>5, <1>9 DEF Distance
<1>11. (d + s) % BytesMax = p % BytesMax
  <2>1. PICK x \in Int : x = p - s
    BY <1>3, <1>5, <1>8
  <2>2. d \in 0 .. BytesMax - 1
    BY <1>8, <1>10, <2>1
  <2>3. d % BytesMax = x % BytesMax
    <3>1. d % BytesMax = d
      <4>1. ASSUME NEW y \in 0 .. BytesMax - 1 PROVE y % BytesMax = y
        <5>1. y \in Int
          BY <1>8
        <5> QED
          BY <1>8, <5>1, Wrap
      <4> QED
        BY <2>2, <4>1
    <3> QED
      BY <1>10, <2>1, <3>1
  <2>4. d \in Int /\ s \in Int
    BY <1>5, <1>8, <1>9
  <2>5. (d + s) % BytesMax = (x + s) % BytesMax
    BY <1>8, <2>1, <2>3, <2>4, Shift
  <2>6. x + s = p
    BY <1>3, <1>5, <1>8, <2>1
  <2> QED
    BY <2>5, <2>6
<1>12. (d + s + n) % BytesMax = (p + n) % BytesMax
  <2>1. d + s \in Int /\ p \in Int /\ n \in Int
    BY <1>3, <1>4, <1>5, <1>8, <1>9
  <2> QED
    BY <1>8, <1>11, <2>1, Shift
<1>13. CASE i = Len(live)
  <2>1. d + n = u
    <3>1. live # << >>
      BY <1>1
    <3> QED
      BY <1>1, <1>4, <1>7, <1>9, <1>13, <3>1 DEF RingInv, Layout, Contiguous, FrameEnd
  <2>2. e = s + u \/ e = s + u - BytesMax
    BY <1>5, <1>6, <1>7, Bounds
  <2>3. e % BytesMax = (d + s + n) % BytesMax
    <3>1. CASE e = s + u
      <4>1. e = d + s + n
        BY <1>4, <1>5, <1>7, <1>8, <1>9, <2>1, <3>1
      <4> QED
        BY <4>1
    <3>2. CASE e = s + u - BytesMax
      <4>1. PICK x \in Int : x = d + s + n
        BY <1>4, <1>5, <1>8, <1>9
      <4>2. e = x - BytesMax /\ e \in Int
        <5>1. e \in Int /\ s \in Int /\ u \in Int
          BY <1>5, <1>6, <1>7, <1>8
        <5>2. x = s + (d + n)
          BY <1>4, <1>9, <4>1, <5>1
        <5>3. x = s + u
          BY <2>1, <5>2
        <5> QED
          BY <1>8, <3>2, <5>1, <5>3
      <4>3. CASE e < BytesMax
        <5>1. e \in 0 .. BytesMax - 1 /\ x - BytesMax \in 0 .. BytesMax - 1
          BY <1>6, <1>8, <4>2, <4>3
        <5>2. e % BytesMax = e /\ x % BytesMax = x - BytesMax
          BY <1>8, <4>1, <4>2, <5>1, Wrap
        <5> QED
          BY <4>1, <4>2, <5>2
      <4>4. CASE ~(e < BytesMax)
        <5>1. e - BytesMax \in 0 .. BytesMax - 1 /\ x - 2 * BytesMax \in 0 .. BytesMax - 1
          BY <1>6, <1>8, <4>1, <4>2, <4>4
        <5>2. e % BytesMax = e - BytesMax /\ x % BytesMax = x - 2 * BytesMax
          BY <1>8, <4>1, <4>2, <5>1, Wrap
        <5>3. e - BytesMax = x - 2 * BytesMax
          BY <1>8, <4>1, <4>2
        <5> QED
          BY <4>1, <5>2, <5>3
      <4> QED
        BY <4>3, <4>4
    <3> QED
      BY <2>2, <3>1, <3>2
  <2> QED
    BY <1>2, <1>3, <1>4, <1>6, <1>12, <1>13, <2>3
<1>14. CASE i # Len(live)
  <2>1. i \in 1 .. Len(live) - 1 /\ i + 1 \in 1 .. Len(live)
    BY <1>1, <1>14 DEF RingInv, TypeInv, TypeOK
  <2>2. PICK q \in 0 .. BytesMax - 1 : q = live[i + 1].pos
    BY <2>1, LiveFrame DEF Offset
  <2>3. (q - s) % BytesMax = d + n
    BY <1>1, <1>4, <1>5, <1>9, <2>1, <2>2 DEF RingInv, Layout, Contiguous, FrameEnd, Distance
  <2>4. q = (d + s + n) % BytesMax
    <3>1. PICK x \in Int : x = q - s
      BY <1>5, <1>8, <2>2
    <3>2. PICK y \in 0 .. BytesMax - 1 : y = d + n
      BY <1>8, <2>3, <3>1
    <3>3. y % BytesMax = x % BytesMax
      <4>1. y % BytesMax = y
        <5>1. ASSUME NEW z \in 0 .. BytesMax - 1 PROVE z % BytesMax = z
          <6>1. z \in Int
            BY <1>8
          <6> QED
            BY <1>8, <6>1, Wrap
        <5> QED
          BY <3>2, <5>1
      <4> QED
        BY <2>3, <3>1, <3>2, <4>1
    <3>4. (y + s) % BytesMax = (x + s) % BytesMax
      <4>1. y \in Int /\ s \in Int
        BY <1>5, <1>8, <3>2
      <4> QED
        BY <1>8, <3>1, <3>3, <4>1, Shift
    <3>5. x + s = q /\ y + s = d + s + n
      BY <1>4, <1>5, <1>8, <1>9, <2>2, <3>1, <3>2
    <3>6. q % BytesMax = q
      <4>1. q \in Int
        BY <1>8, <2>2
      <4> QED
        BY <1>8, <2>2, <4>1, Wrap
    <3> QED
      BY <3>4, <3>5, <3>6
  <2> QED
    BY <1>2, <1>3, <1>4, <1>12, <1>14, <2>2, <2>4
<1> QED
  BY <1>13, <1>14

(* The end of the frame at read_offset_ is where the next one begins. *)
LEMMA AdvanceIs ==
  ASSUME SafeUse, RingInv, NEW f, \E k \in DOMAIN live : live[k] = f,
         NEW o \in Nat, o < 2 * BytesMax, AtByte(o, f, 0)
  PROVE  Advance(o, FrameSize(f.rec)) = After(f)
<1>1. /\ f \in Frame /\ ByteSize(Len(f.rec)) \in 1 .. kMaxSize /\ Len(f.rec) \in Nat
      /\ ByteSize(Len(f.rec)) + Len(f.rec) <= BytesMax
  BY TargetIs
<1>2. PICK n \in Nat : n = FrameSize(f.rec)
  BY <1>1, Constants DEF FrameSize
<1>3. n <= BytesMax
  BY <1>1, <1>2 DEF FrameSize
<1>4. BytesMax \in Nat \ {0} /\ Word \in Nat \ {0} /\ kMaxSize \in Nat /\ 4 * BytesMax + 2 * kMaxSize < Word
  BY Constants, GeometryAssumption
<1>5. (o + n) % Word = o + n
  <2>1. PICK x \in Int : x = o + n
    BY <1>2
  <2>2. x \in 0 .. Word - 1
    BY <1>2, <1>3, <1>4, <2>1
  <2> QED
    BY <1>4, <2>1, <2>2, Wrap
<1>6. (o + n) % BytesMax = (f.pos + n) % BytesMax
  <2>1. PICK z \in Int : z = 0
    OBVIOUS
  <2>2. AtByte(o, f, z) /\ o \in Int /\ n \in Int
    BY <1>2, <2>1
  <2>3. AtByte(o + n, f, z + n)
    BY <1>1, <2>2, Further
  <2>4. z + n = n
    BY <1>2, <2>1
  <2> QED
    BY <2>3, <2>4 DEF AtByte
<1>7. After(f) = (f.pos + n) % BytesMax
  BY <1>2, AfterIs
<1> QED
  BY <1>2, <1>5, <1>6, <1>7 DEF Advance

(***************************************************************************)
(* A reader goes through the records in order and skips none: whatever the *)
(* writer does while a call is on its way, the offset it leaves behind is  *)
(* that of the record that follows, or the end.                            *)
(***************************************************************************)
THEOREM ReadInOrderCorrect == SafeReading => (Spec => ReadInOrder)
<1> SUFFICES ASSUME SafeReading PROVE Spec => ReadInOrder
  OBVIOUS
<1> DEFINE Step == target # NoFrame /\ r.pc \in {"decode", "payload"} /\ r'.at # r.at
                     /\ r'.pc # "closed" => r'.at = After(target)
<1>1. ReadInv /\ [Next]_vars => [Step]_vars
  <2> SUFFICES ASSUME ReadInv, Next, target # NoFrame, r.pc \in {"decode", "payload"},
                      r'.at # r.at, r'.pc # "closed"
               PROVE  r'.at = After(target)
    BY DEF vars
  <2>1. SafeUse /\ RingInv /\ RingInv' /\ \E k \in DOMAIN live : live[k] = target
    BY StepSafe DEF SafeReading, ReadInv
  <2>2. DecodeHeader \/ ReadSegment
    <3>1. ~Writer
      BY <2>1, WriterKeeps
    <3>2. ~ReadFails
      BY <2>1, HandleIs, ReturnKeeps DEF ReadFails
    <3>3. ~CloseRead
      BY DEF CloseRead, NewReader
    <3>4. \A call, n : ~StartRead(call, n)
      BY DEF StartRead
    <3>5. ~OpenRead /\ ~ReadHeader /\ ~StreamingReadFinish /\ \A n : ~StreamingRead(n)
      BY DEF OpenRead, ReadHeader, StreamingReadFinish, StreamingRead
    <3>6. ~NextRecordSize /\ ~StreamingReadStart /\ ~ReadNext /\ \A n : ~Read(n)
      BY <3>4 DEF NextRecordSize, StreamingReadStart, ReadNext, Read
    <3> QED
      BY <3>1, <3>2, <3>3, <3>5, <3>6 DEF Next, Reader
  <2>3. MovesOn
    BY <2>1, <2>2, DecodeReads, SegmentReads
  <2>4. r.at \in Nat /\ r.at < 2 * BytesMax
    BY <2>1, HandleIs DEF ReadInv
  <2>5. AtByte(r.at, target, 0) /\ r'.at = Advance(r.at, FrameSize(target.rec))
    BY <2>3 DEF MovesOn
  <2> QED
    BY <2>1, <2>4, <2>5, AdvanceIs
<1>2. Spec => []ReadInv
  BY ReadInvCorrect
<1> QED
  BY <1>1, <1>2, PTL DEF Spec, ReadInOrder

-----------------------------------------------------------------------------
(***************************************************************************)
(* Turns: the streams change places between records, and each keeps to     *)
(* what a single one must.                                                 *)
(***************************************************************************)
SafeTurns ==
  /\ SafeUse
  /\ Overlap = "records"

(* The handle that waits is in no call, and amid no record. *)
OtherRests ==
  /\ other \in WriterHandle
  /\ other.pc \in {"closed", "idle"}
  /\ other.offset = 0 /\ other.done = 0

TurnsInv == RingInv /\ OtherRests

(* Another handle takes over, and finds the ring as the first has left it. *)
LEMMA SwitchSafe ==
  ASSUME SafeTurns, TurnsInv, Switch
  PROVE  TurnsInv' /\ Pending = {} /\ Pending' = {}
<1>1. /\ w' = other /\ other' = w
      /\ UNCHANGED <<start_offset, end_offset, data, live, r, target>>
  BY DEF Switch
<1>2. w \in WriterHandle /\ w.pc # "aborted"
  BY DEF TurnsInv, RingInv, TypeInv, TypeOK, NoAbort
<1>3. w.pc \in {"closed", "idle"} /\ ~Streaming(w)
  BY <1>2 DEF Switch, SafeTurns, InCall
<1>4. w.offset = 0 /\ w.done = 0
  BY <1>3 DEF TurnsInv, RingInv, PlaceOK, Streaming
<1>5. OtherRests'
  BY <1>1, <1>2, <1>3, <1>4 DEF OtherRests
<1>6. w' \in WriterHandle /\ w'.pc \in {"closed", "idle"} /\ w'.offset = 0 /\ w'.done = 0
  BY <1>1 DEF TurnsInv, OtherRests
<1>7. TypeInv'
  <2>1. TypeOK'
    BY <1>1, <1>6 DEF TurnsInv, RingInv, TypeInv, TypeOK
  <2>2. WriterSound' /\ ReaderSound'
    BY <1>1, <1>6 DEF TurnsInv, RingInv, TypeInv, WriterSound, ReaderSound, Streaming
  <2> QED
    BY <2>1, <2>2 DEF TypeInv
<1>8. LiveIntact'
  BY <1>1 DEF TurnsInv, RingInv, LiveIntact
<1>9. RingInv'
  BY <1>1, <1>3, <1>6, <1>7, <1>8, NothingBegun DEF TurnsInv
<1>10. Pending = {} /\ Pending' = {}
  BY <1>3, <1>6 DEF Pending, Streaming
<1> QED
  BY <1>5, <1>9, <1>10 DEF TurnsInv

LEMMA TurnsInitial ==
  ASSUME WInit
  PROVE  TurnsInv
<1>1. other \in WriterHandle /\ other.pc = "idle" /\ other.offset = 0 /\ other.done = 0
  BY NewWriterType DEF WInit, NewWriter
<1> QED
  BY <1>1, InitSafe DEF WInit, TurnsInv, OtherRests

LEMMA TurnsStep ==
  ASSUME SafeTurns, TurnsInv, [WNext]_wvars
  PROVE  TurnsInv'
<1>1. CASE Switch
  BY <1>1, SwitchSafe
<1>2. CASE Writer /\ UNCHANGED other
  <2>1. RingInv'
    BY <1>2, StepSafe DEF SafeTurns, TurnsInv, Next
  <2> QED
    BY <1>2, <2>1 DEF TurnsInv, OtherRests
<1>3. CASE UNCHANGED wvars
  <2>1. RingInv'
    BY <1>3, StepSafe DEF SafeTurns, TurnsInv, wvars, vars
  <2> QED
    BY <1>3, <2>1 DEF TurnsInv, OtherRests, wvars
<1> QED
  BY <1>1, <1>2, <1>3 DEF WNext, SafeTurns

LEMMA TurnsInvCorrect ==
  ASSUME SafeTurns
  PROVE  WSpec => []TurnsInv
<1>1. WInit => TurnsInv
  BY TurnsInitial
<1>2. TurnsInv /\ [WNext]_wvars => TurnsInv'
  BY TurnsStep
<1> QED
  BY <1>1, <1>2, PTL DEF WSpec

(***************************************************************************)
(* Two handles that take turns, record by record, leave a ring that parses *)
(* and whose records are intact, and no assertion fails: a handle keeps    *)
(* nothing of the ring from one record to the next, so it does not matter  *)
(* what the other has popped and written, or where it failed or died.      *)
(***************************************************************************)
THEOREM TurnsKeepTheRing == SafeTurns => (WSpec => []TurnsAreSafe)
<1> SUFFICES ASSUME SafeTurns PROVE WSpec => []TurnsAreSafe
  OBVIOUS
<1>1. WSpec => []TurnsInv
  BY TurnsInvCorrect
<1>2. TurnsInv => TurnsAreSafe
  BY DEF TurnsInv, TurnsAreSafe, RingInv, Layout
<1> QED
  BY <1>1, <1>2, PTL

(***************************************************************************)
(* Together the two are still one log of whole records: what either has    *)
(* been acknowledged is in it, in order, until room is made for a later    *)
(* record of either.                                                       *)
(***************************************************************************)
THEOREM TurnsAreLog == SafeTurns => (WSpec => ImplementsRingLog)
<1> SUFFICES ASSUME SafeTurns PROVE WSpec => ImplementsRingLog
  OBVIOUS
<1>1. WInit => Log!LogInit
  BY LogInitial DEF WInit
<1>2. TurnsInv /\ TurnsInv' /\ [WNext]_wvars => [Log!LogNext]_(Log!logvars)
  <2> SUFFICES ASSUME TurnsInv, TurnsInv', [WNext]_wvars
               PROVE  [Log!LogNext]_(Log!logvars)
    OBVIOUS
  <2>1. CASE Switch
    <3>1. UNCHANGED <<start_offset, end_offset, live>> /\ Pending' = Pending
      BY <2>1, SwitchSafe DEF Switch
    <3> QED
      BY <3>1, LogStutter
  <2>2. CASE Writer
    BY <2>2, StepLog DEF TurnsInv, SafeTurns, Next
  <2>3. CASE UNCHANGED wvars
    BY <2>3, StepLog DEF TurnsInv, SafeTurns, wvars, vars
  <2> QED
    BY <2>1, <2>2, <2>3 DEF WNext, SafeTurns
<1> QED
  BY <1>1, <1>2, TurnsInvCorrect, PTL DEF WSpec, ImplementsRingLog, Log!LogSpec

-----------------------------------------------------------------------------
(***************************************************************************)
(* No turns: the streams change places between any two steps, either may   *)
(* fail or die anywhere, and a record may be finished that was not begun.  *)
(* All that is asked of the clients is that no transfer is of no bytes.    *)
(***************************************************************************)
NoEmptyTransfers == 0 \notin Sizes /\ << >> \notin Records

(* WriterSound, of a handle that may be waiting. *)
HandleSound(g) ==
  /\ g.pc \in {"space", "popped", "header", "payload", "publish"} \/ Streaming(g) => g.rec \in Records
  /\ g.pc \in {"space", "popped", "header"} =>
       g.call \in {"Write", "StreamingWriteStart"} /\ g.chunk = Len(g.rec)
  /\ g.pc = "payload" =>
       \/ g.call = "Write" /\ g.chunk = Len(g.rec)
       \/ g.call = "StreamingWrite" /\ g.chunk <= g.remaining /\ g.remaining <= Len(g.rec)
  /\ Streaming(g) => g.remaining <= Len(g.rec)

(***************************************************************************)
(* The record a handle writes is smaller than the ring, the transfer it is *)
(* in is of some bytes, and its first system call has not moved more.      *)
(***************************************************************************)
Inside(g) ==
  /\ g.pc \in {"space", "popped", "header", "payload", "publish"} \/ Streaming(g)
       => FrameSize(g.rec) < BytesMax
  /\ g.pc = "payload" => g.chunk > 0 /\ g.done <= g.chunk
  /\ g.pc = "header" => g.done <= ByteSize(Len(g.rec))
  /\ g.pc \notin {"header", "payload"} => g.done = 0

RaceInv ==
  /\ TypeInv
  /\ other \in WriterHandle
  /\ HandleSound(other)
  /\ Inside(w)
  /\ Inside(other)

(* A transfer that is smaller than the ring: the sum of a place and a size *)
(* wraps exactly if the transfer reaches the end of the data area.         *)
LEMMA SimpleIs ==
  ASSUME NEW o \in Nat, NEW n \in 1 .. BytesMax - 1
  PROVE  /\ o % BytesMax \in 0 .. BytesMax - 1
         /\ Simple(o, n) <=> (o % BytesMax) + n < BytesMax
<1>1. PICK m \in Nat \ {0} : m = BytesMax
  BY Constants
<1>2. PICK k \in Nat, p \in 0 .. m - 1 : o = k * m + p /\ o % m = p
  BY <1>1, Division
<1>3. CASE p + n < m
  <2>1. p + n \in 0 .. m - 1
    BY <1>1, <1>2, <1>3
  <2>2. (k * m + (p + n)) % m = p + n
    BY <1>1, <1>2, <2>1, UniqueRemainder
  <2>3. k * m \in Nat /\ k * m + (p + n) = o + n
    BY <1>1, <1>2
  <2> QED
    BY <1>1, <1>2, <1>3, <2>2, <2>3 DEF Simple
<1>4. CASE ~(p + n < m)
  <2>1. p + n - m \in 0 .. m - 1 /\ p + n - m < p
    BY <1>1, <1>2, <1>4
  <2>2. ((k + 1) * m + (p + n - m)) % m = p + n - m
    <3>1. k + 1 \in Nat
      BY <1>2
    <3> QED
      BY <1>1, <2>1, <3>1, UniqueRemainder
  <2>3. (k + 1) * m = k * m + m /\ k * m \in Nat
    BY <1>1, <1>2
  <2>4. (k + 1) * m + (p + n - m) = o + n
    BY <1>1, <1>2, <2>3
  <2> QED
    BY <1>1, <1>2, <1>4, <2>1, <2>2, <2>4 DEF Simple
<1> QED
  BY <1>3, <1>4

(* The system call that is due lies inside the data area, and is the last  *)
(* one or the first part of the transfer.                                  *)
LEMMA SegmentInside ==
  ASSUME NEW o \in Nat, NEW n \in 1 .. BytesMax - 1, NEW done \in 0 .. n
  PROVE  /\ SegmentAt(o, done) + SegmentCount(o, n, done) <= BytesMax
         /\ More(o, n, done) => SegmentCount(o, n, done) \in 0 .. n
<1>1. BytesMax \in Nat \ {0} /\ Word \in Nat \ {0} /\ BytesMax < Word
  BY Constants
<1> DEFINE p == o % BytesMax
<1>2. p \in 0 .. BytesMax - 1 /\ (Simple(o, n) <=> p + n < BytesMax)
  BY SimpleIs
<1>3. EndBytes(o, n) = IF Simple(o, n) THEN n ELSE BytesMax - p
  BY DEF EndBytes
<1> HIDE DEF p
<1>4. CASE done = 0
  <2>1. SegmentAt(o, done) = p /\ SegmentCount(o, n, done) = EndBytes(o, n)
    BY <1>4 DEF SegmentAt, SegmentCount, p
  <2> QED
    BY <1>1, <1>2, <1>3, <2>1
<1>5. CASE done # 0
  <2> DEFINE x == n - done
  <2>1. x \in 0 .. Word - 1 /\ x <= BytesMax
    BY <1>1
  <2> HIDE DEF x
  <2>2. x % Word = x
    BY <1>1, <2>1, Wrap
  <2>3. SegmentAt(o, done) = 0 /\ SegmentCount(o, n, done) = x
    BY <1>5, <2>2 DEF SegmentAt, SegmentCount, x
  <2> QED
    BY <1>5, <2>1, <2>3 DEF More
<1> QED
  BY <1>4, <1>5

(* The WrappingWrite a handle is in. *)
LEMMA PutInside ==
  ASSUME TypeInv, Inside(w), w.pc \in {"header", "payload"}
  PROVE  PutOffset \in Nat /\ PutSize \in 1 .. BytesMax - 1 /\ w.done \in 0 .. PutSize
<1>1. w \in WriterHandle /\ w.done \in Nat /\ w.chunk \in Nat /\ w.remaining \in Nat
  BY DEF TypeInv, TypeOK, WriterHandle
<1>2. PICK rec \in Records : rec = w.rec
  BY DEF TypeInv, WriterSound
<1> DEFINE B == ByteSize(Len(rec))
           L == Len(rec)
<1>3. B \in 1 .. kMaxSize /\ L \in Nat /\ B + L < BytesMax
  BY <1>2, RecordLength DEF Inside, FrameSize
<1>4. w.pc = "header" => w.done <= B
  BY <1>2 DEF Inside
<1>5. w.pc = "payload" => w.chunk <= L
  <2>1. w.pc = "payload" => w.chunk = L \/ (w.chunk <= w.remaining /\ w.remaining <= L)
    BY <1>2 DEF TypeInv, WriterSound
  <2> HIDE DEF L
  <2> QED
    BY <1>1, <1>3, <2>1
<1>6. PutSize = IF w.pc = "header" THEN B ELSE w.chunk
  BY <1>2 DEF PutSize
<1>7. BytesMax \in Nat /\ kMaxSize \in Nat
  BY Constants
<1> HIDE DEF B, L
<1>8. PutSize \in 1 .. BytesMax - 1 /\ w.done \in 0 .. PutSize
  <2>1. CASE w.pc = "header"
    BY <1>1, <1>3, <1>4, <1>6, <1>7, <2>1
  <2>2. CASE w.pc = "payload"
    <3>1. w.chunk > 0 /\ w.done <= w.chunk
      BY <2>2 DEF Inside
    <3> QED
      BY <1>1, <1>3, <1>5, <1>6, <1>7, <2>2, <3>1
  <2> QED
    BY <2>1, <2>2
<1> QED
  BY <1>8, PutTypes

(* The handle that runs, at every step of its calls. *)
LEMMA InsideStays ==
  ASSUME NoEmptyTransfers, TypeInv, Inside(w), Writer
  PROVE  Inside(w')
<1>1. w \in WriterHandle
  BY DEF TypeInv, TypeOK
<1>2. ASSUME NEW v \in {"none", "true", "false"}, NEW g \in WriterHandle, w' = WriteReturns(g, v),
             Streaming(g) => FrameSize(g.rec) < BytesMax
      PROVE  Inside(w')
  <2>1. /\ w'.pc = "idle" /\ w'.done = 0 /\ w'.offset = g.offset
        /\ w'.rec = IF Streaming(g) THEN g.rec ELSE << >>
    BY <1>2, WriteReturnsIs
  <2> QED
    BY <1>2, <2>1 DEF Inside, Streaming
<1>3. w' = WriteReturns(w, "false") => Inside(w')
  BY <1>1, <1>2 DEF Inside
<1>4. CASE OpenAppend \/ StopWriter
  <2>1. w'.pc \in {"closed", "idle"} /\ w'.offset = 0 /\ w'.done = 0
    BY <1>4 DEF OpenAppend, StopWriter, NewWriter
  <2> QED
    BY <2>1 DEF Inside, Streaming
<1>5. ASSUME NEW call \in {"Write", "StreamingWriteStart"}, NEW rec \in Records, StartWrite(call, rec)
      PROVE  Inside(w')
  <2> DEFINE begun == [w EXCEPT !.pc = "space", !.call = call, !.ret = "none",
                                !.rec = rec, !.chunk = Len(rec)]
  <2>1. w.pc = "idle" /\ w.offset = 0 /\ w.done = 0
    BY <1>5 DEF StartWrite, Streaming, Inside
  <2>2. /\ begun \in WriterHandle /\ begun.pc = "space" /\ begun.rec = rec
        /\ begun.offset = 0 /\ begun.done = 0
    BY <1>1, <2>1, RecordLength DEF WriterHandle
  <2>3. w' = IF TooBig(rec) THEN WriteReturns(begun, "false") ELSE begun
    BY <1>5 DEF StartWrite
  <2> HIDE DEF begun
  <2>4. CASE TooBig(rec)
    BY <1>2, <2>2, <2>3, <2>4 DEF Streaming
  <2>5. CASE ~TooBig(rec)
    <3>1. FrameSize(rec) < BytesMax
      BY <2>5, RecordLength, Constants DEF TooBig
    <3> QED
      BY <2>2, <2>3, <2>5, <3>1 DEF Inside
  <2> QED
    BY <2>4, <2>5
<1>6. CASE PopRecord \/ PopFails
  <2>1. CASE w' = WriteReturns(w, "false")
    BY <1>3, <2>1
  <2>2. CASE /\ w.pc = "space"
             /\ w' = [w EXCEPT !.pc = "popped", !.before = BytesAvailable(start_offset, end_offset)]
    <3>1. w'.pc = "popped" /\ w'.rec = w.rec /\ w'.done = w.done
      BY <1>1, <2>2 DEF WriterHandle
    <3> QED
      BY <2>2, <3>1 DEF Inside
  <2> QED
    BY <1>6, <2>1, <2>2 DEF PopRecord, PopFails
<1>7. CASE ReduceStart \/ EnoughSpace
  <2>1. /\ w.pc \in {"popped", "space"} /\ w'.pc \in {"space", "aborted", "header"}
        /\ w'.rec = w.rec /\ w'.done = w.done /\ w'.offset = w.offset
    BY <1>1, <1>7 DEF ReduceStart, EnoughSpace, WriterHandle
  <2>2. FrameSize(w.rec) < BytesMax /\ w.done = 0
    BY <2>1 DEF Inside
  <2>3. w'.pc = "header" => w'.done <= ByteSize(Len(w'.rec))
    <3>1. w.rec \in Records
      BY <2>1 DEF TypeInv, WriterSound
    <3> QED
      BY <2>1, <2>2, <3>1, RecordLength, Constants
  <2> QED
    BY <2>1, <2>2, <2>3 DEF Inside
<1>8. CASE WriteSegment \/ WriteFails
  <2> DEFINE count == SegmentCount(PutOffset, PutSize, w.done)
  <2>1. /\ w.pc \in {"header", "payload"}
        /\ \/ w' = WriteReturns(w, "false")
           \/ More(PutOffset, PutSize, w.done) /\ w' = [w EXCEPT !.done = count]
           \/ w' = AfterPut
    BY <1>8 DEF WriteSegment, WriteFails
  <2>2. PutOffset \in Nat /\ PutSize \in 1 .. BytesMax - 1 /\ w.done \in 0 .. PutSize
    BY <2>1, PutInside
  <2>3. FrameSize(w.rec) < BytesMax /\ w.rec \in Records
    BY <2>1 DEF Inside, TypeInv, WriterSound
  <2>4. CASE More(PutOffset, PutSize, w.done) /\ w' = [w EXCEPT !.done = count]
    <3>1. count \in 0 .. PutSize
      BY <2>2, <2>4, SegmentInside
    <3> HIDE DEF count
    <3>2. w'.pc = w.pc /\ w'.rec = w.rec /\ w'.chunk = w.chunk /\ w'.done = count
      BY <1>1, <2>4 DEF WriterHandle
    <3>3. PutSize = IF w.pc = "header" THEN ByteSize(Len(w.rec)) ELSE w.chunk
      BY DEF PutSize
    <3>4. w.pc = "payload" => w.chunk > 0
      BY DEF Inside
    <3>5. count <= PutSize
      BY <2>2, <3>1
    <3> QED
      BY <2>1, <2>3, <3>2, <3>3, <3>4, <3>5 DEF Inside
  <2>5. CASE w' = AfterPut /\ w.call = "Write"
    <3>1. /\ w'.pc = IF w.pc = "header" THEN "payload" ELSE "publish"
          /\ w'.rec = w.rec /\ w'.chunk = w.chunk /\ w'.done = 0
      <4>1. w' = [w EXCEPT !.pc = IF w.pc = "header" THEN "payload" ELSE "publish", !.done = 0]
        BY <2>5 DEF AfterPut
      <4> QED
        BY <1>1, <4>1 DEF WriterHandle
    <3>2. w.chunk > 0 /\ 0 <= w.chunk
      <4>1. w.chunk = Len(w.rec)
        BY <2>1, <2>5 DEF TypeInv, WriterSound
      <4>2. w.rec \in Seq(Byte) /\ w.rec # << >>
        BY <2>3, RecordLength DEF NoEmptyTransfers
      <4> QED
        BY <4>1, <4>2
    <3> QED
      BY <2>1, <2>3, <3>1, <3>2 DEF Inside
  <2>6. CASE w' = AfterPut /\ w.call # "Write"
    <3> DEFINE o == (PutOffset + PutSize) % Word
               rest == IF w.pc = "header" THEN Len(w.rec) ELSE w.remaining - w.chunk
               g == [w EXCEPT !.offset = o, !.remaining = rest]
    <3>1. w' = WriteReturns(g, "true")
      BY <2>6 DEF AfterPut
    <3>2. g \in WriterHandle /\ g.rec = w.rec
      <4>1. o \in 0 .. Word - 1
        BY <2>2, OffsetTypes, PutTypes, <2>1
      <4>2. rest \in Nat
        <5>1. Len(w.rec) \in Nat
          BY <2>3, RecordLength
        <5>2. w.chunk \in Nat /\ w.remaining \in Nat
          BY <1>1 DEF WriterHandle
        <5>3. w.pc = "payload" => w.chunk <= w.remaining
          BY <2>6 DEF TypeInv, WriterSound
        <5> QED
          BY <2>1, <5>1, <5>2, <5>3
      <4> HIDE DEF o, rest
      <4> QED
        BY <1>1, <4>1, <4>2 DEF WriterHandle
    <3> HIDE DEF g
    <3> QED
      BY <1>2, <2>3, <3>1, <3>2
  <2> QED
    BY <1>3, <2>1, <2>4, <2>5, <2>6
<1>9. ASSUME NEW n \in Sizes, StreamingWrite(n)
      PROVE  Inside(w')
  <2>1. /\ w.pc = "idle" /\ Streaming(w) /\ w'.pc = "payload" /\ w'.chunk = n
        /\ w'.rec = w.rec /\ w'.done = w.done
    BY <1>1, <1>9 DEF StreamingWrite, WriterHandle
  <2>2. n > 0 /\ 0 <= n
    BY Constants DEF NoEmptyTransfers
  <2>3. FrameSize(w.rec) < BytesMax /\ w.done = 0
    BY <2>1 DEF Inside
  <2> QED
    BY <2>1, <2>2, <2>3 DEF Inside
<1>10. CASE Publish \/ StreamingWriteFinish
  <2>1. w.pc \in {"publish", "idle"} /\ w'.pc = "reduce" /\ w'.rec = w.rec /\ w'.done = w.done
    BY <1>1, <1>10 DEF Publish, StreamingWriteFinish, WriterHandle
  <2>2. Streaming(w') => Streaming(w)
    BY <1>1, <1>10 DEF Publish, StreamingWriteFinish, WriterHandle, Streaming
  <2> QED
    BY <2>1, <2>2 DEF Inside
<1>11. CASE ReduceEnd
  <2> DEFINE g == [w EXCEPT !.offset = 0]
  <2>1. w' = WriteReturns(g, "true")
    BY <1>11 DEF ReduceEnd
  <2>2. g \in WriterHandle /\ g.offset = 0
    <3>1. 0 \in 0 .. Word - 1
      BY Constants
    <3> QED
      BY <1>1, <3>1 DEF WriterHandle
  <2> HIDE DEF g
  <2> QED
    BY <1>2, <2>1, <2>2 DEF Streaming
<1> QED
  BY <1>4, <1>5, <1>6, <1>7, <1>8, <1>9, <1>10, <1>11
     DEF Writer, WriterStep, Write, StreamingWriteStart

LEMMA RaceInitial ==
  ASSUME WInit
  PROVE  RaceInv
<1>1. TypeInv
  BY InitTypes DEF WInit
<1>2. w = NewWriter /\ other = NewWriter /\ NewWriter \in WriterHandle
  BY NewWriterType DEF WInit, Init
<1>3. HandleSound(other) /\ Inside(w) /\ Inside(other)
  BY <1>2 DEF HandleSound, Inside, NewWriter, Streaming
<1> QED
  BY <1>1, <1>2, <1>3 DEF RaceInv

LEMMA RaceStep ==
  ASSUME NoEmptyTransfers, RaceInv, [WNext]_wvars
  PROVE  RaceInv'
<1>1. w \in WriterHandle /\ HandleSound(w)
  BY DEF RaceInv, TypeInv, TypeOK, WriterSound, HandleSound
<1>2. CASE Switch
  <2>1. /\ w' = other /\ other' = w
        /\ UNCHANGED <<start_offset, end_offset, data, live, r, target>>
    BY <1>2 DEF Switch
  <2>2. TypeOK'
    BY <2>1 DEF RaceInv, TypeInv, TypeOK
  <2>3. WriterSound'
    BY <2>1 DEF RaceInv, WriterSound, HandleSound, Streaming
  <2>4. ReaderSound'
    BY <2>1 DEF RaceInv, TypeInv, ReaderSound
  <2>5. HandleSound(other') /\ Inside(w') /\ Inside(other')
    BY <1>1, <2>1 DEF RaceInv
  <2> QED
    BY <1>1, <2>1, <2>2, <2>3, <2>4, <2>5 DEF RaceInv, TypeInv
<1>3. CASE Writer /\ UNCHANGED other
  <2>1. TypeInv'
    BY <1>3, StepTypes DEF RaceInv, Next
  <2> QED
    BY <1>3, <2>1, InsideStays DEF RaceInv
<1>4. CASE UNCHANGED wvars
  <2>1. TypeInv'
    BY <1>4, StepTypes DEF RaceInv, wvars, vars
  <2> QED
    BY <1>4, <2>1 DEF RaceInv, wvars
<1> QED
  BY <1>2, <1>3, <1>4 DEF WNext

(***************************************************************************)
(* Whatever two writers make of the shared offsets, reduced or not, no     *)
(* system call of WrappingWrite reaches past the end of the data area: the *)
(* file keeps its size, and a ring that is spoilt stays a ring.            *)
(***************************************************************************)
THEOREM RacesStayInside == NoEmptyTransfers => (WSpec => []StaysInside)
<1> SUFFICES ASSUME NoEmptyTransfers PROVE WSpec => []StaysInside
  OBVIOUS
<1>1. WInit => RaceInv
  BY RaceInitial
<1>2. RaceInv /\ [WNext]_wvars => RaceInv'
  BY RaceStep
<1>3. RaceInv => StaysInside
  <2> SUFFICES ASSUME RaceInv, w.pc \in {"header", "payload"}
               PROVE  SegmentAt(PutOffset, w.done) + SegmentCount(PutOffset, PutSize, w.done)
                        <= BytesMax
    BY DEF StaysInside
  <2>1. PutOffset \in Nat /\ PutSize \in 1 .. BytesMax - 1 /\ w.done \in 0 .. PutSize
    BY PutInside DEF RaceInv
  <2> QED
    BY <2>1, SegmentInside
<1> QED
  BY <1>1, <1>2, <1>3, PTL DEF WSpec
=============================================================================
