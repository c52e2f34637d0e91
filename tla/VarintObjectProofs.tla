------------------------- MODULE VarintObjectProofs -------------------------
(***************************************************************************)
(* What the class Varint promises its callers, for every sequence of calls *)
(* and all MachineNumbers: proofs about VarintObject.                      *)
(***************************************************************************)
EXTENDS VarintObject, VarintProofs

(* The values callers set have 64 bits, the buffers hold bytes. *)
CallersAreTyped == Values \subseteq 0 .. Word - 1 /\ Fills \subseteq Byte

(* The buffer starts with the encoding of the value written last. *)
HoldsWritten ==
  written # -1 => \A i \in 0 .. ByteSize(written) - 1 : buffer[i] = EncodedByte(written, i)

Inv == TypeOK /\ HoldsWritten

LEMMA InitInv ==
  ASSUME CallersAreTyped, Init
  PROVE  Inv
<1>1. Word \in Nat \ {0} /\ kMaxSize \in Nat
  BY VarintAssumption
<1> QED
  BY <1>1 DEF Init, Inv, TypeOK, HoldsWritten, CallersAreTyped

LEMMA StepInv ==
  ASSUME CallersAreTyped, MachineNumbers, Inv, [Next]_vars
  PROVE  Inv'
<1>1. Word \in Nat \ {0}
  BY VarintAssumption
<1>2. ASSUME NEW v \in Values, set_value(v) PROVE Inv'
  BY <1>2 DEF set_value, Inv, TypeOK, HoldsWritten, CallersAreTyped
<1>3. CASE Write
  <2>1. /\ value_ \in 0 .. Word - 1 /\ value_ \in Nat /\ value_ # -1
        /\ buffer \in [BufferIndex -> Byte]
    BY <1>1 DEF Inv, TypeOK
  <2>2. \E n \in 1 .. kMaxSize : Fits(value_, n)
    BY <2>1, AllAreEncodable DEF Encodable
  <2>3. /\ buffer' \in [BufferIndex -> Byte]
        /\ \A i \in 0 .. ByteSize(value_) - 1 : buffer'[i] = EncodedByte(value_, i)
    BY <1>3, <2>1, <2>2, EncodedIs DEF Write
  <2>4. HoldsWritten'
    BY <1>3, <2>3 DEF Write, HoldsWritten
  <2>5. TypeOK'
    BY <1>1, <1>3, <2>1, <2>3 DEF Write, Inv, TypeOK
  <2> QED
    BY <2>4, <2>5 DEF Inv
<1>4. CASE Read
  <2>1. buffer \in [BufferIndex -> Byte]
    BY DEF Inv, TypeOK
  <2>2. value_' \in 0 .. Word - 1 /\ ret' \in (0 .. kMaxSize) \cup UndefinedSizes
    BY <1>4, <2>1, ReadOutcomesType DEF Read
  <2> QED
    BY <1>4, <2>2 DEF Read, Inv, TypeOK, HoldsWritten
<1>5. CASE UNCHANGED vars
  BY <1>5 DEF vars, Inv, TypeOK, HoldsWritten
<1> QED
  BY <1>2, <1>3, <1>4, <1>5 DEF Next

(***************************************************************************)
(* Every call leaves 64 bit values and bytes, and Read returns a size of   *)
(* at most kMaxSize or what running off its end leaves in the register.    *)
(***************************************************************************)
THEOREM TypeCorrect ==
  ASSUME CallersAreTyped, MachineNumbers
  PROVE  Spec => []TypeOK
<1>1. Init => Inv
  BY InitInv
<1>2. Inv /\ [Next]_vars => Inv'
  BY StepInv
<1>3. Inv => TypeOK
  BY DEF Inv
<1> QED
  BY <1>1, <1>2, <1>3, PTL DEF Spec

(***************************************************************************)
(* At every moment, Read gives back the value that was written last and    *)
(* consumes exactly its bytes, whatever the buffer held before.            *)
(***************************************************************************)
THEOREM RoundTripCorrect ==
  ASSUME CallersAreTyped, MachineNumbers
  PROVE  Spec => []RoundTrip
<1>1. Init => Inv
  BY InitInv
<1>2. Inv /\ [Next]_vars => Inv'
  BY StepInv
<1>3. Inv => RoundTrip
  <2> SUFFICES ASSUME Inv, written # -1
               PROVE  ReadOutcomes(buffer) = {[size |-> ByteSize(written), value |-> written]}
    BY DEF RoundTrip
  <2>1. written \in 0 .. Word - 1 /\ buffer \in [BufferIndex -> Byte]
    BY VarintAssumption DEF Inv, TypeOK
  <2>2. Encodable(written)
    BY <2>1, AllAreEncodable
  <2>3. \A i \in 0 .. ByteSize(written) - 1 : buffer[i] = EncodedByte(written, i)
    BY DEF Inv, HoldsWritten
  <2> QED
    BY <2>1, <2>2, <2>3, HeaderReadsBack
<1> QED
  BY <1>1, <1>2, <1>3, PTL DEF Spec

(***************************************************************************)
(* The loop of Write, which tests each group anew, ends where ByteSize     *)
(* ends: it touches no byte past the size that ByteSize announces, so a    *)
(* caller may hand it a buffer of that many bytes.                         *)
(***************************************************************************)
THEOREM WriteStaysInsideCorrect ==
  ASSUME CallersAreTyped, MachineNumbers
  PROVE  Spec => WriteStaysInside
<1> DEFINE Inside == \A i \in BufferIndex : i >= ByteSize(value_) => buffer'[i] = buffer[i]
<1>1. Init => Inv
  BY InitInv
<1>2. Inv /\ [Next]_vars => Inv'
  BY StepInv
<1>3. Inv /\ [Next]_vars => [Inside]_vars
  <2> SUFFICES ASSUME Inv, Next PROVE Inside
    OBVIOUS
  <2>1. ASSUME NEW v \in Values, set_value(v) PROVE Inside
    BY <2>1 DEF set_value
  <2>2. CASE Write
    <3>1. value_ \in Nat /\ buffer \in [BufferIndex -> Byte] /\ BufferIndex \subseteq Nat
      BY VarintAssumption, IndicesAndBytes DEF Inv, TypeOK
    <3>2. \E n \in 1 .. kMaxSize : Fits(value_, n)
      BY AllAreEncodable DEF Inv, TypeOK, Encodable
    <3> QED
      BY <2>2, <3>1, <3>2, EncodedIs DEF Write
  <2>3. CASE Read
    BY <2>3 DEF Read
  <2> QED
    BY <2>1, <2>2, <2>3 DEF Next
<1> QED
  BY <1>1, <1>2, <1>3, PTL DEF Spec, WriteStaysInside

-----------------------------------------------------------------------------
(* The number of digits, as the least weight above the value has it. *)
LEMMA DigitsIs ==
  ASSUME MachineNumbers, NEW v \in 0 .. Word - 1
  PROVE  /\ Digits(v) \in 1 .. kMaxSize
         /\ v < Weight[Digits(v)]
         /\ Digits(v) = 1 \/ v >= Weight[Digits(v) - 1]
<1> DEFINE S == {n \in 1 .. kMaxSize : v < Weight[n]}
<1>1. v \in Nat /\ kMaxSize \in Nat \ {0} /\ v < Weight[kMaxSize]
  BY VarintAssumption, FitsIs
<1>2. PICK n \in S : \A m \in S : n <= m
  <2>1. S \in SUBSET Nat /\ S # {}
    BY <1>1
  <2> HIDE DEF S
  <2> QED
    BY <2>1, LeastNat
<1>3. n \in 1 .. kMaxSize /\ v < Weight[n]
  BY <1>2
<1>4. n = 1 \/ v >= Weight[n - 1]
  <2> SUFFICES ASSUME n # 1 PROVE v >= Weight[n - 1]
    OBVIOUS
  <2>1. n - 1 \in 1 .. kMaxSize /\ ~(n <= n - 1)
    BY <1>1, <1>3
  <2>2. n - 1 \notin S
    <3> HIDE DEF S
    <3> QED
      BY <1>2, <2>1
  <2>3. Weight[n - 1] \in Nat
    <3>1. n - 1 \in Nat
      BY <2>1
    <3> QED
      BY <3>1, WeightDef
  <2> QED
    BY <1>1, <2>1, <2>2, <2>3
<1> QED
  BY <1>3, <1>4 DEF Digits

(***************************************************************************)
(* The size of a 64 bit value: its digits, and at most one more byte where *)
(* the conversion to double rounds the value up to a group boundary.       *)
(***************************************************************************)
LEMMA SizeIs ==
  ASSUME MachineNumbers, NEW v \in 0 .. Word - 1
  PROVE  /\ ByteSize(v) \in {Digits(v), Digits(v) + 1}
         /\ ByteSize(v) <= kMaxSize
         /\ v < Exact => ByteSize(v) = Digits(v)
<1>1. v \in Nat /\ kMaxSize \in Nat
  BY VarintAssumption
<1>2. PICK d \in 1 .. kMaxSize : /\ d = Digits(v) /\ v < Weight[d]
                                 /\ d = 1 \/ v >= Weight[d - 1]
  BY DigitsIs
<1>3. PICK b \in 1 .. kMaxSize : /\ b = ByteSize(v) /\ Fits(v, b)
                                 /\ \A m \in 1 .. b - 1 : ~Fits(v, m)
  <2>1. \E n \in 1 .. kMaxSize : Fits(v, n)
    BY AllAreEncodable DEF Encodable
  <2> QED
    BY <2>1, ByteSizeIs
<1>4. b \in Nat /\ d \in Nat
  BY <1>1, <1>2, <1>3
<1>5. d <= b
  <2> SUFFICES ASSUME b < d PROVE FALSE
    BY <1>4
  <2>1. v < Weight[b]
    BY <1>3, <1>4, FitsIs
  <2>2. d # 1 /\ d - 1 \in Nat /\ b <= d - 1
    BY <1>3, <1>4
  <2>3. Weight[d - 1] \in Nat /\ Weight[b] \in Nat /\ v >= Weight[d - 1]
    BY <1>2, <1>4, <2>2, WeightDef
  <2>4. CASE b = d - 1
    BY <1>1, <2>1, <2>3, <2>4
  <2>5. CASE b < d - 1
    <3>1. Weight[b] < Weight[d - 1]
      BY <1>4, <2>2, <2>5, WeightGrows
    <3> QED
      BY <1>1, <2>1, <2>3, <3>1
  <2> QED
    BY <1>4, <2>2, <2>4, <2>5
<1>6. b <= d + 1
  <2> SUFFICES ASSUME d + 1 < b PROVE FALSE
    BY <1>4
  <2>1. Fits(v, d + 1)
    BY <1>2, <1>4, FitsIs
  <2>2. d + 1 \in 1 .. b - 1
    BY <1>4
  <2> QED
    BY <1>3, <2>1, <2>2
<1>7. ASSUME v < Exact PROVE b <= d
  <2> SUFFICES ASSUME d < b PROVE FALSE
    BY <1>4
  <2>1. Fits(v, d)
    BY <1>2, <1>4, <1>7, FitsIs
  <2>2. d \in 1 .. b - 1
    BY <1>2, <1>4
  <2> QED
    BY <1>3, <2>1, <2>2
<1> QED
  BY <1>1, <1>2, <1>3, <1>4, <1>5, <1>6, <1>7

(***************************************************************************)
(* ByteSize of the value an object holds is always the size that a reader  *)
(* of the format expects, but for one redundant group where it rounds.     *)
(***************************************************************************)
THEOREM SizeIsDigitsCorrect ==
  ASSUME CallersAreTyped, MachineNumbers
  PROVE  Spec => []SizeIsDigits
<1>1. Init => Inv
  BY InitInv
<1>2. Inv /\ [Next]_vars => Inv'
  BY StepInv
<1>3. Inv => SizeIsDigits
  BY SizeIs DEF Inv, TypeOK, SizeIsDigits
<1> QED
  BY <1>1, <1>2, <1>3, PTL DEF Spec
=============================================================================
