------------------------------- MODULE Varint -------------------------------
(***************************************************************************)
(* The variable length integer that prefixes every record of a ringfile    *)
(* (src/src/varint.cc).  A value is cut in groups of 7 bits, least         *)
(* significant group first, one group per byte; the high bit of a byte     *)
(* says that another byte follows.                                         *)
(*                                                                         *)
(* The module holds the pure functions.  VarintObject wraps them in the    *)
(* state of the class Varint, Ringfile uses them for record headers.       *)
(***************************************************************************)
EXTENDS Integers

CONSTANTS
  Radix,           \* values of one 7 bit group: 0x80 in the code
  kMaxSize,        \* Varint::kMaxSize, 10 in the code
  Word,            \* unsigned 64 bit arithmetic wraps at Word: 2^64
  Exact,           \* integers below Exact convert to double exactly: 2^53
  UndefinedSizes   \* what Read may return when it runs off its end

ASSUME VarintAssumption ==
  /\ Radix \in Nat \ {0, 1}
  /\ kMaxSize \in Nat \ {0}
  /\ Word \in Nat \ {0}
  /\ Exact \in Nat \ {0}
  /\ UndefinedSizes \subseteq Nat

(* A byte is a group and, Radix being the weight of the high bit, a marker. *)
Byte == 0 .. 2 * Radix - 1

(* The indices of header_buffer, uint8_t[Varint::kMaxSize]. *)
BufferIndex == 0 .. kMaxSize - 1

(* 2^(7*i): the factor of a shift by i groups, and exp2(i * 7). *)
Weight[i \in Nat] == IF i = 0 THEN 1 ELSE Radix * Weight[i - 1]

(* The powers of two. *)
Exp2[e \in Nat] == IF e = 0 THEN 1 ELSE 2 * Exp2[e - 1]

(***************************************************************************)
(* The comparison value_ < exp2(...) is made in double precision.  From    *)
(* Exact on, value_ is rounded to the nearest multiple of its last place   *)
(* before it is compared, ties to even.                                    *)
(***************************************************************************)
LastPlace(v) == CHOOSE u \in {Exp2[e] : e \in 0 .. 11} : v \div u \in (Exact \div 2) .. (Exact - 1)

ToDouble(v) ==
  IF v < Exact
    THEN v
    ELSE LET u == LastPlace(v)
             q == v \div u
             r == v % u
             up == 2 * r > u \/ (2 * r = u /\ q % 2 = 1)
         IN  IF up THEN (q + 1) * u ELSE q * u

(* Bug: the comparison is off by one at a group boundary. *)
Fits_OffByOne(v, n) == ToDouble(v) <= Weight[n]

(* value_ < exp2(n * 7): the value needs at most n groups. *)
Fits(v, n) == ToDouble(v) < Weight[n]

(* Bug: the size is computed on integers, while Write goes on comparing *)
(* doubles.                                                             *)
ByteSize_Exact(v) ==
  CHOOSE n \in 1 .. kMaxSize : v < Weight[n] /\ \A m \in 1 .. n - 1 : v >= Weight[m]

(* Varint::ByteSize: the first n for which the value fits in n groups. *)
ByteSize(v) ==
  CHOOSE n \in 1 .. kMaxSize : Fits(v, n) /\ \A m \in 1 .. n - 1 : ~Fits(v, m)

(* Bug: the marker is left out. *)
EncodedByte_NoMarker(v, i) == (v \div Weight[i]) % Radix

(* Bug: the group is not cut to its bits. *)
EncodedByte_NoMask(v, i) ==
  (v \div Weight[i]) + (IF Fits(v, i + 1) THEN 0 ELSE Radix)

(* The byte Varint::Write stores at index i. *)
EncodedByte(v, i) ==
  ((v \div Weight[i]) % Radix) + (IF Fits(v, i + 1) THEN 0 ELSE Radix)

(* The loop of Varint::Write comes to byte i: no byte before it was the last. *)
Reached(v, i) == \A j \in 0 .. i - 1 : ~Fits(v, j + 1)

(* Varint::Write: the buffer after the call.  ByteSize is not asked. *)
Encoded(v, buf) ==
  [i \in BufferIndex |-> IF Reached(v, i) THEN EncodedByte(v, i) ELSE buf[i]]

Terminators(buf) == {i \in BufferIndex : buf[i] < Radix}

(* What byte i of the buffer adds to value_ in Varint::Read. *)
Group(buf, i) == ((buf[i] % Radix) * Weight[i]) % Word

(* value_ after each number of bytes of the buffer has been read. *)
Accumulated(buf) ==
  LET acc[n \in 0 .. kMaxSize] == IF n = 0 THEN 0 ELSE (acc[n - 1] + Group(buf, n - 1)) % Word
  IN  acc

(***************************************************************************)
(* Varint::Read: the returned size and the value left in value_.  When     *)
(* every byte carries the marker the function ends without a return        *)
(* statement and the size is undefined.                                    *)
(***************************************************************************)
ReadOutcomes(buf) ==
  IF Terminators(buf) = {}
    THEN {[size |-> s, value |-> Accumulated(buf)[kMaxSize]] : s \in UndefinedSizes}
    ELSE LET last == CHOOSE i \in Terminators(buf) :
                       \A j \in Terminators(buf) : i <= j
         IN  {[size |-> last + 1, value |-> Accumulated(buf)[last + 1]]}
=============================================================================
