---------------------------- MODULE VarintObject ----------------------------
(***************************************************************************)
(* An object of class Varint (src/src/varint.h) and the buffer its caller  *)
(* hands to Write and Read.                                                *)
(***************************************************************************)
EXTENDS Varint

CONSTANTS
  Values,   \* the values a caller sets
  Fills     \* what the bytes of a fresh buffer hold

VARIABLES
  value_,   \* Varint::value_
  buffer,   \* the caller's buffer of kMaxSize bytes
  ret,      \* what the last Read returned, 0 before that
  written   \* auxiliary: the value the buffer holds the encoding of, or -1

vars == <<value_, buffer, ret, written>>

Init ==
  /\ value_ = 0
  /\ \E fill \in Fills : buffer = [i \in BufferIndex |-> fill]
  /\ ret = 0
  /\ written = -1

set_value(v) ==
  /\ value_' = v
  /\ UNCHANGED <<buffer, ret, written>>

Write ==
  /\ buffer' = Encoded(value_, buffer)
  /\ written' = value_
  /\ UNCHANGED <<value_, ret>>

Read ==
  /\ \E out \in ReadOutcomes(buffer) : value_' = out.value /\ ret' = out.size
  /\ UNCHANGED <<buffer, written>>

Next ==
  \/ \E v \in Values : set_value(v)
  \/ Write
  \/ Read

Spec == Init /\ [][Next]_vars

-----------------------------------------------------------------------------
TypeOK ==
  /\ value_ \in 0 .. Word - 1
  /\ buffer \in [BufferIndex -> Byte]
  /\ ret \in 0 .. kMaxSize \cup UndefinedSizes
  /\ written \in -1 .. Word - 1

(***************************************************************************)
(* Read gives back the value the buffer was written with and consumes      *)
(* exactly the bytes Write produced, whatever follows them in the buffer   *)
(* (varint_test.cc fills the rest with 0xfe; PopRecord and Read always     *)
(* fetch kMaxSize bytes, so the rest is the next record).                  *)
(***************************************************************************)
RoundTrip ==
  written # -1 =>
    ReadOutcomes(buffer) = {[size |-> ByteSize(written), value |-> written]}

(***************************************************************************)
(* The number of groups is the one a reader of the format expects: the     *)
(* number of base-Radix digits of the value.  Only from Exact on may the   *)
(* rounding of value_ to double cost one redundant group, and never more   *)
(* than the kMaxSize bytes of header_buffer.                               *)
(***************************************************************************)
Digits(v) == CHOOSE n \in 1 .. kMaxSize : v < Weight[n] /\ (n = 1 \/ v >= Weight[n - 1])

SizeIsDigits ==
  /\ ByteSize(value_) \in {Digits(value_), Digits(value_) + 1}
  /\ ByteSize(value_) <= kMaxSize
  /\ value_ < Exact => ByteSize(value_) = Digits(value_)

(* Write and ByteSize each have a loop of their own: the bytes Write stores *)
(* are inside the ByteSize() that its callers hand to WrappingWrite.        *)
WriteStaysInside ==
  [][\A i \in BufferIndex : i >= ByteSize(value_) => buffer'[i] = buffer[i]]_vars
=============================================================================
