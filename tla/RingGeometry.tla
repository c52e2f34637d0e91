---------------------------- MODULE RingGeometry ----------------------------
(***************************************************************************)
(* The data area of a ringfile: how a record is framed, how many bytes two *)
(* offsets delimit, and how WrappingRead and WrappingWrite cut a transfer  *)
(* at the end of the file (src/src/ringfile.cc).  Offsets are relative to  *)
(* the end of the file header, as everywhere in the code.                  *)
(***************************************************************************)
EXTENDS Varint, Sequences

CONSTANT BytesMax   \* bytes_max(): the size of the data area

ASSUME GeometryAssumption ==
  /\ BytesMax \in Nat \ {0}
  /\ 4 * BytesMax + 2 * kMaxSize < Word
  /\ BytesMax < Exact
  /\ BytesMax < Weight[kMaxSize]

Offset == 0 .. BytesMax - 1

(* The bytes a record takes in the ring: its length as a varint, itself. *)
FrameSize(rec) == ByteSize(Len(rec)) + Len(rec)

FrameByte(rec, j) ==
  IF j < ByteSize(Len(rec)) THEN EncodedByte(Len(rec), j)
                            ELSE rec[j - ByteSize(Len(rec)) + 1]

(* Bug: the spare byte is left out of the limit. *)
TooBig_NoSpare(rec) == BytesMax < FrameSize(rec)

(* A record that Write and StreamingWriteStart refuse at once. *)
TooBig(rec) == BytesMax < FrameSize(rec) + 1

(* bytes_used() and bytes_available() for given start and end offsets. *)
BytesUsed(s, e) == IF s <= e THEN e - s ELSE (BytesMax - (s - e)) % Word

BytesAvailable(s, e) == (BytesMax - BytesUsed(s, e)) % Word

(* Bug: the reduction modulo bytes_max() is forgotten. *)
Advance_NoMod(o, n) == (o + n) % Word

(* Offsets are uint64_t and reduced modulo bytes_max() after an addition. *)
Advance(o, n) == ((o + n) % Word) % BytesMax

-----------------------------------------------------------------------------
(***************************************************************************)
(* A transfer of n bytes at o takes up to two system calls: EndBytes bytes *)
(* at o % BytesMax, then StartBytes bytes at 0.  start_bytes is unsigned,  *)
(* so a transfer of no bytes asks for almost Word of them.  Both numbers   *)
(* are computed before the first call: the second one is for what it left, *)
(* also if another process has moved the offsets between the two.          *)
(***************************************************************************)
Simple(o, n) == o % BytesMax < (o + n) % BytesMax

EndBytes(o, n) == IF Simple(o, n) THEN n ELSE BytesMax - (o % BytesMax)

StartBytes(o, n) == IF Simple(o, n) THEN 0 ELSE (n - EndBytes(o, n)) % Word

(* Bug: the offset is not reduced before the file is positioned. *)
SegmentAt_NoMod(o, done) == IF done = 0 THEN o ELSE 0

(* Place and length of the system call due when done bytes have moved. *)
SegmentAt(o, done) == IF done = 0 THEN o % BytesMax ELSE 0

SegmentCount(o, n, done) == IF done = 0 THEN EndBytes(o, n) ELSE (n - done) % Word

(* Bug: that the second system call has been made is not remembered. *)
More_Again(o, n, done) == StartBytes(o, n) # 0

(* A second system call follows the first. *)
More(o, n, done) == done = 0 /\ StartBytes(o, n) # 0

(***************************************************************************)
(* read() and write() refuse a count above SSIZE_MAX with -1, which the    *)
(* code compares, as an unsigned number, with the count it asked for.      *)
(***************************************************************************)
Refused(count) == count > (Word \div 2) - 1

TransferOK(count) == ~Refused(count) \/ count = Word - 1

(* A read that meets the end of the file returns less than asked for. *)
ReadFits(o, n, done) == SegmentAt(o, done) + SegmentCount(o, n, done) <= BytesMax

WholeReadFits(o, n) ==
  ReadFits(o, n, 0) /\ (More(o, n, 0) => ReadFits(o, n, EndBytes(o, n)))
=============================================================================
