---------------------------- MODULE VarintProofs ----------------------------
(***************************************************************************)
(* What a record header says after it has been written, whatever follows   *)
(* it: proofs about the functions of Varint, for every radix, word and     *)
(* buffer size.                                                            *)
(***************************************************************************)
EXTENDS Varint, WellFoundedInduction, TLAPS

-----------------------------------------------------------------------------
(***************************************************************************)
(* Induction and recursion over the naturals, for a given set and a given  *)
(* step function: loops over the bytes of a header are reasoned about with *)
(* these.                                                                  *)
(***************************************************************************)

(* The least element of a nonempty set of naturals. *)
LEMMA LeastNat ==
  ASSUME NEW S \in SUBSET Nat, S # {}
  PROVE  \E x \in S : \A y \in S : x <= y
<1>1. PICK x \in S : \A y \in S : ~(<<y, x>> \in OpToRel(<, Nat))
  BY WFMin, NatLessThanWellFounded
<1>2. \A y \in S : y < x => <<y, x>> \in OpToRel(<, Nat)
  BY DEF OpToRel
<1>3. \A y \in S : ~(y < x)
  BY <1>1, <1>2
<1> QED
  BY <1>3

(* A set with 0 and with n + 1 for each n it has, has all naturals. *)
LEMMA SetInduction ==
  ASSUME NEW S, 0 \in S, \A n \in Nat : n \in S => n + 1 \in S
  PROVE  \A n \in Nat : n \in S
<1> DEFINE T == {n \in Nat : n \notin S}
<1> SUFFICES ASSUME T # {} PROVE FALSE
  OBVIOUS
<1>1. PICK x \in T : \A y \in T : x <= y
  BY LeastNat
<1>2. x # 0 /\ x - 1 \in Nat /\ x - 1 \in S
  BY <1>1
<1> QED
  BY <1>2

(* f starts with a, and g makes each of its values from the one before. *)
Recurs(f, T, a, g) ==
  /\ f \in [Nat -> T]
  /\ f[0] = a
  /\ \A n \in Nat : f[n + 1] = g[<<n, f[n]>>]

(* A sequence of values is defined by its first and the step to the next. *)
LEMMA RecursionExists ==
  ASSUME NEW T, NEW a \in T, NEW g \in [Nat \X T -> T]
  PROVE  \E f : Recurs(f, T, a, g)
<1> DEFINE Approx(n) == {f \in [0 .. n -> T] :
                           f[0] = a /\ \A i \in 0 .. n - 1 : f[i + 1] = g[<<i, f[i]>>]}
           S == {n \in Nat : Approx(n) # {}}
           U == {i \in Nat : \A n, m \in Nat : i <= n /\ i <= m =>
                               \A f1 \in Approx(n), f2 \in Approx(m) : f1[i] = f2[i]}
           F == [n \in Nat |-> (CHOOSE f \in Approx(n) : TRUE)[n]]
<1>1. \A n \in Nat : n \in S
  <2>1. 0 \in S
    <3>1. [i \in 0 .. 0 |-> a] \in Approx(0)
      OBVIOUS
    <3> QED
      BY <3>1
  <2>2. ASSUME NEW n \in Nat, n \in S PROVE n + 1 \in S
    <3>1. PICK f : f \in Approx(n)
      BY <2>2
    <3> DEFINE h == [i \in 0 .. n + 1 |-> IF i = n + 1 THEN g[<<n, f[n]>>] ELSE f[i]]
    <3>2. h \in [0 .. n + 1 -> T]
      <4>1. <<n, f[n]>> \in Nat \X T
        BY <3>1
      <4>2. g[<<n, f[n]>>] \in T
        BY <4>1
      <4> QED
        BY <3>1, <4>2
    <3>3. h[0] = a
      BY <3>1
    <3>4. ASSUME NEW i \in 0 .. n PROVE h[i + 1] = g[<<i, h[i]>>]
      <4>1. h[i] = f[i]
        OBVIOUS
      <4>2. CASE i = n
        <5>1. h[n + 1] = g[<<n, f[n]>>]
          OBVIOUS
        <5> HIDE DEF h
        <5> QED
          BY <4>1, <4>2, <5>1
      <4>3. CASE i < n
        <5>1. i \in 0 .. n - 1 /\ h[i + 1] = f[i + 1]
          BY <4>3
        <5> QED
          BY <3>1, <4>1, <5>1
      <4> QED
        BY <4>2, <4>3
    <3>5. (n + 1) - 1 = n
      OBVIOUS
    <3>6. h \in Approx(n + 1)
      <4> HIDE DEF h
      <4> QED
        BY <3>2, <3>3, <3>4, <3>5
    <3>7. n + 1 \in Nat /\ Approx(n + 1) # {}
      <4> HIDE DEF Approx, h
      <4> QED
        BY <3>6
    <3> HIDE DEF Approx
    <3> QED
      BY <3>7
  <2> HIDE DEF S
  <2> QED
    BY <2>1, <2>2, SetInduction
<1>2. \A i \in Nat : i \in U
  <2>1. 0 \in U
    OBVIOUS
  <2>2. ASSUME NEW i \in Nat, i \in U PROVE i + 1 \in U
    <3> SUFFICES ASSUME NEW n \in Nat, NEW m \in Nat, i + 1 <= n, i + 1 <= m,
                        NEW f1 \in Approx(n), NEW f2 \in Approx(m)
                 PROVE  f1[i + 1] = f2[i + 1]
      OBVIOUS
    <3>1. f1[i] = f2[i]
      BY <2>2
    <3>2. f1[i + 1] = g[<<i, f1[i]>>] /\ f2[i + 1] = g[<<i, f2[i]>>]
      OBVIOUS
    <3> QED
      BY <3>1, <3>2
  <2> HIDE DEF U
  <2> QED
    BY <2>1, <2>2, SetInduction
<1>3. \A n, m, i \in Nat : i <= n /\ i <= m =>
        \A f1 \in Approx(n), f2 \in Approx(m) : f1[i] = f2[i]
  <2> HIDE DEF Approx
  <2> QED
    BY <1>2
<1>4. \A n \in Nat : (CHOOSE f \in Approx(n) : TRUE) \in Approx(n)
  BY <1>1
<1>5. F \in [Nat -> T]
  <2>1. \A n \in Nat : \A f \in Approx(n) : f[n] \in T
    OBVIOUS
  <2> HIDE DEF Approx
  <2> QED
    BY <1>4, <2>1
<1>6. F[0] = a
  <2>1. \A f \in Approx(0) : f[0] = a
    OBVIOUS
  <2> HIDE DEF Approx
  <2> QED
    BY <1>4, <2>1
<1>7. ASSUME NEW n \in Nat PROVE F[n + 1] = g[<<n, F[n]>>]
  <2>1. ASSUME NEW f \in Approx(n), NEW h \in Approx(n + 1)
        PROVE  h[n + 1] = g[<<n, f[n]>>]
    <3>1. h[n + 1] = g[<<n, h[n]>>]
      OBVIOUS
    <3>2. h[n] = f[n]
      <4> HIDE DEF Approx
      <4> QED
        BY <1>3
    <3> QED
      BY <3>1, <3>2
  <2> HIDE DEF Approx
  <2> QED
    BY <1>4, <2>1
<1>8. Recurs(F, T, a, g)
  <2> HIDE DEF F
  <2> QED
    BY <1>5, <1>6, <1>7 DEF Recurs
<1> QED
  BY <1>8

-----------------------------------------------------------------------------
(* A function that has the powers of a number. *)
LEMMA PowersExist ==
  ASSUME NEW b \in Nat
  PROVE  \E f : f = [i \in Nat |-> IF i = 0 THEN 1 ELSE b * f[i - 1]]
<1> DEFINE g == [x \in Nat \X Nat |-> b * x[2]]
           Def(f) == [i \in Nat |-> IF i = 0 THEN 1 ELSE b * f[i - 1]]
<1>1. g \in [Nat \X Nat -> Nat]
  OBVIOUS
<1>2. PICK f : Recurs(f, Nat, 1, g)
  <2> HIDE DEF g
  <2>1. 1 \in Nat
    OBVIOUS
  <2> QED
    BY <1>1, <2>1, RecursionExists, Zenon
<1>3. f \in [Nat -> Nat] /\ f[0] = 1 /\ \A n \in Nat : f[n + 1] = b * f[n]
  BY <1>2 DEF Recurs
<1>4. f = Def(f)
  <2>1. ASSUME NEW i \in Nat PROVE f[i] = IF i = 0 THEN 1 ELSE b * f[i - 1]
    <3>1. CASE i = 0
      BY <1>3, <3>1
    <3>2. CASE i # 0
      <4>1. i - 1 \in Nat /\ (i - 1) + 1 = i
        BY <3>2
      <4> QED
        BY <1>3, <3>2, <4>1
    <3> QED
      BY <3>1, <3>2
  <2>2. Def(f) = [i \in Nat |-> f[i]]
    BY <2>1
  <2> HIDE DEF Def
  <2> QED
    BY <1>3, <2>2
<1> QED
  BY <1>4

(* Any such function. *)
LEMMA PowersAre ==
  ASSUME NEW b \in Nat, NEW P,
         P = [i \in Nat |-> IF i = 0 THEN 1 ELSE b * P[i - 1]]
  PROVE  /\ P \in [Nat -> Nat]
         /\ P[0] = 1
         /\ \A n \in Nat : P[n + 1] = b * P[n]
<1> DEFINE Def(f) == [i \in Nat |-> IF i = 0 THEN 1 ELSE b * f[i - 1]]
<1>1. P = Def(P)
  OBVIOUS
<1>2. \A i \in Nat : P[i] = IF i = 0 THEN 1 ELSE b * P[i - 1]
  <2>1. \A i \in Nat : Def(P)[i] = IF i = 0 THEN 1 ELSE b * P[i - 1]
    OBVIOUS
  <2> HIDE DEF Def
  <2> QED
    BY <1>1, <2>1, Zenon
<1>3. P[0] = 1 /\ \A n \in Nat : P[n + 1] = b * P[n]
  BY <1>2
<1>4. \A n \in Nat : P[n] \in Nat
  <2> DEFINE S == {i \in Nat : P[i] \in Nat}
  <2>1. 0 \in S /\ \A n \in Nat : n \in S => n + 1 \in S
    BY <1>3
  <2>2. \A n \in Nat : n \in S
    <3> HIDE DEF S
    <3> QED
      BY <2>1, SetInduction
  <2> QED
    BY <2>2
<1>5. P \in [Nat -> Nat]
  <2>1. Def(P) \in [Nat -> Nat]
    BY <1>4
  <2> HIDE DEF Def
  <2> QED
    BY <1>1, <2>1
<1> QED
  BY <1>3, <1>5

(* The powers of the radix, and those of two. *)
LEMMA WeightDef ==
  /\ Weight \in [Nat -> Nat]
  /\ Weight[0] = 1
  /\ \A n \in Nat : Weight[n + 1] = Radix * Weight[n]
<1>1. Radix \in Nat
  BY VarintAssumption
<1>2. \E f : f = [i \in Nat |-> IF i = 0 THEN 1 ELSE Radix * f[i - 1]]
  BY <1>1, PowersExist
<1>3. Weight = [i \in Nat |-> IF i = 0 THEN 1 ELSE Radix * Weight[i - 1]]
  BY <1>2 DEF Weight
<1> QED
  BY <1>1, <1>3, PowersAre

LEMMA Exp2Def ==
  /\ Exp2 \in [Nat -> Nat]
  /\ Exp2[0] = 1
  /\ \A n \in Nat : Exp2[n + 1] = 2 * Exp2[n]
<1>1. \E f : f = [i \in Nat |-> IF i = 0 THEN 1 ELSE 2 * f[i - 1]]
  BY PowersExist
<1>2. Exp2 = [i \in Nat |-> IF i = 0 THEN 1 ELSE 2 * Exp2[i - 1]]
  BY <1>1 DEF Exp2
<1> QED
  BY <1>2, PowersAre

(* A weight is at least 1. *)
LEMMA WeightPositive == \A n \in Nat : Weight[n] \in Nat \ {0}
<1> DEFINE S == {i \in Nat : Weight[i] >= 1}
<1>1. ASSUME NEW n \in Nat, Weight[n] \in Nat, Weight[n] >= 1
      PROVE  Radix * Weight[n] >= 1
  BY <1>1, VarintAssumption
<1>2. 0 \in S /\ \A n \in Nat : n \in S => n + 1 \in S
  BY <1>1, WeightDef
<1>3. \A n \in Nat : n \in S
  <2> HIDE DEF S
  <2> QED
    BY <1>2, SetInduction
<1> QED
  BY <1>3, WeightDef

(* Indices and bytes are numbers. *)
LEMMA IndicesAndBytes == BufferIndex \subseteq Nat /\ Byte \subseteq Nat
BY VarintAssumption DEF BufferIndex, Byte

(* The groups read so far, as the loop of Varint::Read collects them. *)
LEMMA AccumulatedDef ==
  ASSUME NEW buf \in [BufferIndex -> Byte]
  PROVE  /\ Accumulated(buf) \in [0 .. kMaxSize -> 0 .. Word - 1]
         /\ Accumulated(buf)[0] = 0
         /\ \A n \in BufferIndex : Accumulated(buf)[n + 1] = (Accumulated(buf)[n] + Group(buf, n)) % Word
<1> DEFINE g == [x \in Nat \X Nat |->
                   (x[2] + (IF x[1] \in BufferIndex THEN Group(buf, x[1]) ELSE 0)) % Word]
           Def(f) == [n \in 0 .. kMaxSize |-> IF n = 0 THEN 0 ELSE (f[n - 1] + Group(buf, n - 1)) % Word]
<1>1. kMaxSize \in Nat
  BY VarintAssumption
<1>2. \A i \in BufferIndex : Group(buf, i) \in Nat
  <2>1. ASSUME NEW b \in Nat, NEW x \in Nat PROVE ((b % Radix) * x) % Word \in Nat
    <3>1. b % Radix \in Nat
      BY VarintAssumption
    <3>2. (b % Radix) * x \in Nat
      BY <3>1
    <3> QED
      BY <3>2, VarintAssumption
  <2>2. \A i \in BufferIndex : buf[i] \in Nat /\ Weight[i] \in Nat
    BY WeightDef, IndicesAndBytes
  <2> QED
    BY <2>1, <2>2 DEF Group
<1>3. g \in [Nat \X Nat -> Nat]
  BY <1>2, VarintAssumption
<1>4. PICK f : Recurs(f, Nat, 0, g)
  <2> HIDE DEF g
  <2>1. 0 \in Nat
    OBVIOUS
  <2> QED
    BY <1>3, <2>1, RecursionExists, Zenon
<1>5. f \in [Nat -> Nat] /\ f[0] = 0 /\ \A n \in BufferIndex : f[n + 1] = (f[n] + Group(buf, n)) % Word
  <2>1. f \in [Nat -> Nat] /\ f[0] = 0 /\ \A n \in Nat : f[n + 1] = g[<<n, f[n]>>]
    BY <1>4 DEF Recurs
  <2>2. \A n \in BufferIndex : n \in Nat
    BY DEF BufferIndex
  <2>3. ASSUME NEW n \in Nat, NEW y \in Nat, n \in BufferIndex PROVE g[<<n, y>>] = (y + Group(buf, n)) % Word
    BY <2>3
  <2> HIDE DEF g
  <2> QED
    BY <2>1, <2>2, <2>3
<1> DEFINE h == [n \in 0 .. kMaxSize |-> f[n]]
<1>6. h \in [0 .. kMaxSize -> Nat] /\ h[0] = 0 /\ \A n \in BufferIndex : h[n + 1] = (h[n] + Group(buf, n)) % Word
  BY <1>1, <1>5 DEF BufferIndex
<1>7. h = Def(h)
  <2> HIDE DEF h
  <2>1. ASSUME NEW n \in 0 .. kMaxSize
        PROVE  h[n] = IF n = 0 THEN 0 ELSE (h[n - 1] + Group(buf, n - 1)) % Word
    <3>1. CASE n = 0
      BY <1>6, <3>1
    <3>2. CASE n # 0
      <4>1. n - 1 \in BufferIndex /\ (n - 1) + 1 = n
        BY <1>1, <3>2 DEF BufferIndex
      <4> QED
        BY <1>6, <3>2, <4>1
    <3> QED
      BY <3>1, <3>2
  <2>2. Def(h) = [n \in 0 .. kMaxSize |-> h[n]]
    BY <2>1
  <2> HIDE DEF Def
  <2> QED
    BY <1>6, <2>2
<1>8. Accumulated(buf) = Def(Accumulated(buf))
  BY <1>7 DEF Accumulated
<1>9. \A n \in 0 .. kMaxSize :
        Accumulated(buf)[n] = IF n = 0 THEN 0
           ELSE (Accumulated(buf)[n - 1] + Group(buf, n - 1)) % Word
  <2>1. \A n \in 0 .. kMaxSize :
          Def(Accumulated(buf))[n] = IF n = 0 THEN 0
           ELSE (Accumulated(buf)[n - 1] + Group(buf, n - 1)) % Word
    OBVIOUS
  <2> HIDE DEF Def
  <2> QED
    BY <1>8, <2>1, Zenon
<1>10. /\ Accumulated(buf)[0] = 0
       /\ \A n \in BufferIndex : Accumulated(buf)[n + 1] = (Accumulated(buf)[n] + Group(buf, n)) % Word
  BY <1>1, <1>9 DEF BufferIndex
<1>11. \A n \in 0 .. kMaxSize : Accumulated(buf)[n] \in 0 .. Word - 1
  <2> DEFINE S == {n \in Nat : n <= kMaxSize => Accumulated(buf)[n] \in 0 .. Word - 1}
  <2>1. 0 \in S /\ \A n \in Nat : n \in S => n + 1 \in S
    <3>1. 0 \in 0 .. Word - 1
      BY VarintAssumption
    <3>2. \A x \in Nat : x % Word \in 0 .. Word - 1
      BY VarintAssumption
    <3>3. \A x \in 0 .. Word - 1 : x \in Nat
      BY VarintAssumption
    <3>4. ASSUME NEW n \in Nat, n \in S, n + 1 <= kMaxSize
          PROVE  Accumulated(buf)[n + 1] \in 0 .. Word - 1
      <4>1. n \in BufferIndex /\ n <= kMaxSize
        BY <1>1, <3>4 DEF BufferIndex
      <4>2. Accumulated(buf)[n] + Group(buf, n) \in Nat
        BY <1>2, <3>3, <3>4, <4>1
      <4> QED
        BY <1>10, <3>2, <4>1, <4>2
    <3> QED
      BY <1>10, <3>1, <3>4
  <2>2. \A n \in Nat : n \in S
    <3> HIDE DEF S
    <3> QED
      BY <2>1, SetInduction
  <2> QED
    BY <1>1, <2>2
<1>12. Accumulated(buf) \in [0 .. kMaxSize -> 0 .. Word - 1]
  <2>1. Def(Accumulated(buf)) = [n \in 0 .. kMaxSize |-> Accumulated(buf)[n]]
    BY <1>9
  <2> HIDE DEF Def
  <2> QED
    BY <1>8, <1>11, <2>1
<1> QED
  BY <1>10, <1>12

-----------------------------------------------------------------------------
(* Quotient and remainder. *)
LEMMA Division ==
  ASSUME NEW v \in Nat, NEW m \in Nat \ {0}
  PROVE  /\ v \div m \in Nat
         /\ v % m \in 0 .. m - 1
         /\ v = (v \div m) * m + (v % m)
OBVIOUS

(* A remainder is no larger than the number. *)
LEMMA RemainderIsLess ==
  ASSUME NEW v \in Nat, NEW m \in Nat \ {0}
  PROVE  v % m \in Nat /\ v % m <= v
<1>1. v % m \in 0 .. m - 1 /\ v \div m \in Nat /\ v = (v \div m) * m + (v % m)
  BY Division
<1>2. (v \div m) * m \in Nat
  BY <1>1
<1> QED
  BY <1>1, <1>2

(* A number below the divisor is the remainder of itself and any multiple. *)
LEMMA UniqueRemainder ==
  ASSUME NEW m \in Nat \ {0}, NEW k \in Nat, NEW q \in 0 .. m - 1
  PROVE  (k * m + q) % m = q
<1> DEFINE v == k * m + q
<1>0. k * m \in Nat
  OBVIOUS
<1>1. v \in Nat
  BY <1>0
<1> HIDE DEF v
<1>2. PICK a \in Nat : v = a * m + (v % m)
  BY <1>1, Division
<1>3. v % m \in 0 .. m - 1
  BY <1>1, Division
<1>4. a = k
  <2>1. v = k * m + q
    BY DEF v
  <2>2. CASE a < k
    <3>1. (a + 1) * m <= k * m
      BY <2>2
    <3>2. (a + 1) * m = a * m + m
      OBVIOUS
    <3> QED
      BY <1>0, <1>2, <1>3, <2>1, <3>1, <3>2
  <2>3. CASE k < a
    <3>1. (k + 1) * m <= a * m
      BY <2>3
    <3>2. (k + 1) * m = k * m + m
      OBVIOUS
    <3> QED
      BY <1>0, <1>2, <1>3, <2>1, <3>1, <3>2
  <2> QED
    BY <2>2, <2>3
<1> QED
  BY <1>0, <1>2, <1>3, <1>4 DEF v

(* The low n + 1 groups of a number: the low n groups, and group n. *)
LEMMA OneMoreGroup ==
  ASSUME NEW v \in Nat, NEW b \in Nat \ {0}, NEW d \in Nat \ {0}
  PROVE  v % (b * d) = (v % d) + ((v \div d) % b) * d
<1> DEFINE q == v \div d
           s == q % b
           t == q \div b
           lo == v % d
<1>1. q \in Nat /\ lo \in 0 .. d - 1 /\ v = q * d + lo
  BY Division
<1>2. t \in Nat /\ s \in 0 .. b - 1 /\ q = t * b + s
  <2> HIDE DEF q
  <2> QED
    BY <1>1, Division
<1> HIDE DEF q, s, t, lo
<1>3. b * d \in Nat \ {0} /\ s * d \in Nat
  BY <1>2
<1>4. (s + 1) * d <= b * d /\ (s + 1) * d = s * d + d
  BY <1>2
<1>5. lo + s * d \in 0 .. b * d - 1
  BY <1>1, <1>3, <1>4
<1>6. v = t * (b * d) + (lo + s * d)
  <2>1. q * d = (t * b) * d + s * d
    BY <1>2
  <2>2. (t * b) * d = t * (b * d)
    BY <1>2
  <2>3. t * (b * d) \in Nat
    BY <1>2, <1>3
  <2> QED
    BY <1>1, <1>3, <2>1, <2>2, <2>3
<1>7. v % (b * d) = lo + s * d
  <2> DEFINE m == b * d
             low == lo + s * d
  <2>1. m \in Nat \ {0} /\ low \in 0 .. m - 1 /\ v = t * m + low
    BY <1>3, <1>5, <1>6
  <2> HIDE DEF m, low
  <2>2. v % m = low
    BY <1>2, <2>1, UniqueRemainder
  <2> QED
    BY <2>2 DEF m, low
<1> QED
  BY <1>7 DEF lo, s, q

-----------------------------------------------------------------------------
(***************************************************************************)
(* A value whose number of groups ByteSize finds, without the rounding of  *)
(* the conversion to double making it smaller than the value needs.        *)
(***************************************************************************)
Encodable(v) ==
  /\ v \in 0 .. Word - 1
  /\ \E n \in 1 .. kMaxSize : Fits(v, n)
  /\ \A n \in 1 .. kMaxSize : Fits(v, n) => v < Weight[n]

(* So are all values below Exact and the largest weight. *)
LEMMA ExactIsEncodable ==
  ASSUME NEW v \in Nat, v < Exact, v < Word, v < Weight[kMaxSize]
  PROVE  Encodable(v)
<1>1. kMaxSize \in 1 .. kMaxSize /\ v \in 0 .. Word - 1
  BY VarintAssumption
<1>2. \A n \in Nat : Fits(v, n) <=> v < Weight[n]
  BY DEF Fits, ToDouble
<1> QED
  BY <1>1, <1>2, VarintAssumption DEF Encodable

(* ByteSize is the first of the sizes that fit. *)
LEMMA ByteSizeIs ==
  ASSUME NEW v, \E n \in 1 .. kMaxSize : Fits(v, n)
  PROVE  /\ ByteSize(v) \in 1 .. kMaxSize
         /\ Fits(v, ByteSize(v))
         /\ \A m \in 1 .. ByteSize(v) - 1 : ~Fits(v, m)
<1> DEFINE S == {n \in 1 .. kMaxSize : Fits(v, n)}
<1>1. kMaxSize \in Nat
  BY VarintAssumption
<1>2. PICK n \in S : \A m \in S : n <= m
  <2>1. S \in SUBSET Nat /\ S # {}
    BY <1>1
  <2> HIDE DEF S
  <2> QED
    BY <2>1, LeastNat
<1>3. n \in 1 .. kMaxSize /\ Fits(v, n) /\ \A m \in 1 .. n - 1 : ~Fits(v, m)
  BY <1>1, <1>2
<1> QED
  BY <1>3 DEF ByteSize

(* A byte of an encoding holds its group, and says whether it is the last. *)
LEMMA EncodedByteIs ==
  ASSUME NEW v \in Nat, NEW i \in Nat
  PROVE  /\ EncodedByte(v, i) \in Byte
         /\ EncodedByte(v, i) % Radix = (v \div Weight[i]) % Radix
         /\ EncodedByte(v, i) < Radix <=> Fits(v, i + 1)
<1> DEFINE group == (v \div Weight[i]) % Radix
<1>1. v \div Weight[i] \in Nat
  BY WeightPositive, Division
<1>2. group \in 0 .. Radix - 1
  BY <1>1, VarintAssumption, Division
<1> HIDE DEF group
<1>3. Radix \in Nat \ {0, 1}
  BY VarintAssumption
<1>4. (0 * Radix + group) % Radix = group /\ (1 * Radix + group) % Radix = group
  BY <1>2, <1>3, UniqueRemainder
<1>5. CASE Fits(v, i + 1)
  <2>1. EncodedByte(v, i) = 0 * Radix + group
    BY <1>2, <1>3, <1>5 DEF EncodedByte, group
  <2> QED
    BY <1>2, <1>3, <1>4, <1>5, <2>1 DEF Byte, group
<1>6. CASE ~Fits(v, i + 1)
  <2>1. EncodedByte(v, i) = 1 * Radix + group
    BY <1>2, <1>3, <1>6 DEF EncodedByte, group
  <2> QED
    BY <1>2, <1>3, <1>4, <1>6, <2>1 DEF Byte, group
<1> QED
  BY <1>5, <1>6

(* An encoding fits the buffer, and is made of bytes. *)
LEMMA EncodedIs ==
  ASSUME NEW v \in Nat, \E n \in 1 .. kMaxSize : Fits(v, n), NEW buf \in [BufferIndex -> Byte]
  PROVE  /\ Encoded(v, buf) \in [BufferIndex -> Byte]
         /\ \A i \in 0 .. ByteSize(v) - 1 : i \in BufferIndex /\ Encoded(v, buf)[i] = EncodedByte(v, i)
         /\ \A i \in BufferIndex : i >= ByteSize(v) => Encoded(v, buf)[i] = buf[i]
<1>1. \A i \in BufferIndex : EncodedByte(v, i) \in Byte
  BY EncodedByteIs, IndicesAndBytes
<1>2. PICK b \in 1 .. kMaxSize : /\ b = ByteSize(v) /\ Fits(v, b)
                                 /\ \A m \in 1 .. b - 1 : ~Fits(v, m)
  BY ByteSizeIs
<1>3. kMaxSize \in Nat
  BY VarintAssumption
<1>4. ASSUME NEW i \in BufferIndex PROVE Reached(v, i) <=> i < b
  <2>1. i \in Nat /\ b \in Nat
    BY <1>3 DEF BufferIndex
  <2>2. CASE i < b
    <3>1. \A j \in 0 .. i - 1 : j + 1 \in 1 .. b - 1
      BY <2>1, <2>2
    <3> QED
      BY <1>2, <2>2, <3>1 DEF Reached
  <2>3. CASE i >= b
    <3>1. b - 1 \in 0 .. i - 1 /\ (b - 1) + 1 = b
      BY <1>3, <2>1, <2>3
    <3>2. ~Reached(v, i)
      BY <1>2, <3>1 DEF Reached
    <3> QED
      BY <2>1, <2>3, <3>2
  <2> QED
    BY <2>1, <2>2, <2>3
<1>5. Encoded(v, buf) = [i \in BufferIndex |-> IF i < b THEN EncodedByte(v, i) ELSE buf[i]]
  BY <1>4 DEF Encoded
<1> QED
  BY <1>1, <1>2, <1>3, <1>5 DEF BufferIndex

(***************************************************************************)
(* Varint::Read gives back the value that Varint::Write has put into the   *)
(* buffer, and the size Varint::ByteSize announced, whatever the bytes     *)
(* behind the encoding are.                                                *)
(***************************************************************************)
THEOREM HeaderReadsBack ==
  ASSUME NEW v, Encodable(v), NEW buf \in [BufferIndex -> Byte],
         \A i \in 0 .. ByteSize(v) - 1 : buf[i] = EncodedByte(v, i)
  PROVE  ReadOutcomes(buf) = {[size |-> ByteSize(v), value |-> v]}
<1> DEFINE B == ByteSize(v)
           last == CHOOSE i \in Terminators(buf) : \A j \in Terminators(buf) : i <= j
<1>1. v \in Nat /\ v < Word /\ Word \in Nat /\ Radix \in Nat \ {0} /\ kMaxSize \in Nat
  BY VarintAssumption DEF Encodable
<1>2. /\ B \in 1 .. kMaxSize
      /\ Fits(v, B)
      /\ \A m \in 1 .. B - 1 : ~Fits(v, m)
  BY ByteSizeIs DEF Encodable
<1>3. v < Weight[B]
  BY <1>2 DEF Encodable
<1> HIDE DEF B
<1>4. \A i \in 0 .. B - 1 :
        /\ i \in BufferIndex
        /\ buf[i] % Radix = (v \div Weight[i]) % Radix
        /\ buf[i] < Radix <=> i = B - 1
  <2>1. ASSUME NEW i \in 0 .. B - 1 PROVE buf[i] < Radix <=> i = B - 1
    <3>1. buf[i] < Radix <=> Fits(v, i + 1)
      BY <1>1, <1>2, EncodedByteIs DEF B
    <3>2. CASE i = B - 1
      BY <1>2, <3>1, <3>2
    <3>3. CASE i # B - 1
      <4>1. i + 1 \in 1 .. B - 1
        BY <1>2, <3>3
      <4> QED
        BY <1>2, <3>1, <3>3, <4>1
    <3> QED
      BY <3>2, <3>3
  <2>2. \A i \in 0 .. B - 1 : i \in BufferIndex /\ i \in Nat
    BY <1>1, <1>2 DEF BufferIndex
  <2>3. \A i \in 0 .. B - 1 : buf[i] % Radix = (v \div Weight[i]) % Radix
    BY <1>1, <2>2, EncodedByteIs DEF B
  <2> QED
    BY <2>1, <2>2, <2>3
<1>5. B - 1 \in Terminators(buf) /\ \A j \in Terminators(buf) : B - 1 <= j
  BY <1>1, <1>2, <1>4 DEF Terminators, BufferIndex
<1>6. last = B - 1
  <2>1. last \in Terminators(buf) /\ \A j \in Terminators(buf) : last <= j
    BY <1>5
  <2>2. Terminators(buf) \subseteq Nat
    BY IndicesAndBytes DEF Terminators
  <2> HIDE DEF last
  <2> QED
    BY <1>2, <1>5, <2>1, <2>2
<1>7. \A i \in 0 .. B - 1 : Group(buf, i) = ((v \div Weight[i]) % Radix) * Weight[i]
  <2> SUFFICES ASSUME NEW i \in 0 .. B - 1
               PROVE  Group(buf, i) = ((v \div Weight[i]) % Radix) * Weight[i]
    OBVIOUS
  <2> DEFINE d == Weight[i]
             x == ((v \div d) % Radix) * d
  <2>1. d \in Nat \ {0} /\ i \in Nat
    BY <1>2, WeightPositive
  <2> HIDE DEF d
  <2>2. v \div d \in Nat /\ v % d \in Nat /\ (v \div d) % Radix \in Nat
    <3>1. v \div d \in Nat /\ v % d \in 0 .. d - 1
      BY <1>1, <2>1, Division
    <3>2. (v \div d) % Radix \in 0 .. Radix - 1
      BY <1>1, <3>1, Division
    <3> QED
      BY <1>1, <2>1, <3>1, <3>2
  <2>3. v % (Radix * d) = (v % d) + x
    BY <1>1, <2>1, OneMoreGroup
  <2>4. v % (Radix * d) \in Nat /\ v % (Radix * d) <= v
    <3> DEFINE m == Radix * d
    <3>1. m \in Nat \ {0}
      BY <1>1, <2>1
    <3> HIDE DEF m
    <3>2. v % m \in Nat /\ v % m <= v
      BY <1>1, <3>1, RemainderIsLess
    <3> QED
      BY <3>2 DEF m
  <2>5. x \in Nat
    BY <2>1, <2>2
  <2>6. x < Word
    BY <1>1, <2>2, <2>3, <2>4, <2>5
  <2> HIDE DEF x
  <2>7. x % Word = x
    BY <1>1, <2>5, <2>6
  <2>8. Group(buf, i) = x % Word
    BY <1>4 DEF Group, x, d
  <2> QED
    BY <2>7, <2>8 DEF x, d
<1>8. Accumulated(buf)[B] = v
  <2> DEFINE S == {n \in Nat : n <= B => Accumulated(buf)[n] = v % Weight[n]}
  <2>1. 0 \in S
    <3>1. Accumulated(buf)[0] = 0 /\ Weight[0] = 1
      BY WeightDef, AccumulatedDef
    <3>2. v % 1 = 0
      BY <1>1
    <3> QED
      BY <3>1, <3>2
  <2>2. ASSUME NEW n \in Nat, n \in S PROVE n + 1 \in S
    <3> SUFFICES ASSUME n + 1 <= B PROVE Accumulated(buf)[n + 1] = v % Weight[n + 1]
      OBVIOUS
    <3>1. n \in 0 .. B - 1 /\ Accumulated(buf)[n] = v % Weight[n]
      BY <1>2, <2>2
    <3>2. Accumulated(buf)[n + 1] = ((v % Weight[n]) + ((v \div Weight[n]) % Radix) * Weight[n]) % Word
      BY <1>4, <1>7, <3>1, AccumulatedDef
    <3>3. Weight[n + 1] = Radix * Weight[n] /\ Weight[n] \in Nat \ {0}
      BY WeightDef, WeightPositive
    <3>4. v % (Radix * Weight[n]) = (v % Weight[n]) + ((v \div Weight[n]) % Radix) * Weight[n]
      BY <1>1, <3>3, OneMoreGroup
    <3>5. (v % Weight[n + 1]) % Word = v % Weight[n + 1]
      <4> DEFINE m == Weight[n + 1]
      <4>1. m \in Nat \ {0}
        BY WeightPositive
      <4> HIDE DEF m
      <4>2. v % m \in Nat /\ v % m <= v
        BY <1>1, <4>1, RemainderIsLess
      <4>3. (v % m) % Word = v % m
        BY <1>1, <4>2
      <4> QED
        BY <4>3 DEF m
    <3> QED
      BY <3>2, <3>3, <3>4, <3>5, Zenon
  <2>3. \A n \in Nat : n \in S
    <3> HIDE DEF S
    <3> QED
      BY <2>1, <2>2, SetInduction
  <2>4. Accumulated(buf)[B] = v % Weight[B] /\ Weight[B] \in Nat
    BY <1>2, <2>3, WeightDef
  <2> QED
    BY <1>1, <1>3, <2>4
<1>9. ReadOutcomes(buf) = {[size |-> last + 1, value |-> Accumulated(buf)[last + 1]]}
  BY <1>5 DEF ReadOutcomes
<1>10. last + 1 = B
  <2> HIDE DEF last
  <2> QED
    BY <1>2, <1>6
<1> QED
  BY <1>8, <1>9, <1>10 DEF B

(* Whatever the bytes of a buffer, Varint::Read leaves a 64 bit value. *)
LEMMA ReadOutcomesType ==
  ASSUME NEW buf \in [BufferIndex -> Byte], NEW out \in ReadOutcomes(buf)
  PROVE  out.value \in 0 .. Word - 1 /\ out.size \in (0 .. kMaxSize) \cup UndefinedSizes
<1> DEFINE last == CHOOSE i \in Terminators(buf) : \A j \in Terminators(buf) : i <= j
<1>1. kMaxSize \in Nat
  BY VarintAssumption
<1>2. \A n \in 0 .. kMaxSize : Accumulated(buf)[n] \in 0 .. Word - 1
  BY AccumulatedDef
<1>3. CASE Terminators(buf) = {}
  BY <1>1, <1>2, <1>3 DEF ReadOutcomes
<1>4. CASE Terminators(buf) # {}
  <2>1. Terminators(buf) \in SUBSET Nat /\ Terminators(buf) \subseteq BufferIndex
    BY IndicesAndBytes DEF Terminators
  <2>2. \E i \in Terminators(buf) : \A j \in Terminators(buf) : i <= j
    BY <1>4, <2>1, LeastNat
  <2>3. last \in BufferIndex
    BY <2>1, <2>2
  <2>4. out = [size |-> last + 1, value |-> Accumulated(buf)[last + 1]]
    BY <1>4 DEF ReadOutcomes
  <2> HIDE DEF last
  <2>5. last + 1 \in 0 .. kMaxSize
    BY <1>1, <2>3 DEF BufferIndex
  <2> QED
    BY <1>2, <2>4, <2>5
<1> QED
  BY <1>3, <1>4

-----------------------------------------------------------------------------
(***************************************************************************)
(* The conversion of value_ to double.  It may round, but never across a   *)
(* power of two, and the boundaries of the groups are powers of two.       *)
(***************************************************************************)
LEMMA Exp2Positive == \A n \in Nat : Exp2[n] \in Nat \ {0}
<1> DEFINE S == {i \in Nat : Exp2[i] >= 1}
<1>1. 0 \in S /\ \A n \in Nat : n \in S => n + 1 \in S
  BY Exp2Def
<1>2. \A n \in Nat : n \in S
  <2> HIDE DEF S
  <2> QED
    BY <1>1, SetInduction
<1> QED
  BY <1>2, Exp2Def

(* 2^(m + n) *)
LEMMA Exp2Sum ==
  ASSUME NEW m \in Nat, NEW n \in Nat
  PROVE  Exp2[m + n] = Exp2[m] * Exp2[n]
<1> DEFINE S == {i \in Nat : Exp2[m + i] = Exp2[m] * Exp2[i]}
<1>1. 0 \in S
  BY Exp2Def
<1>2. ASSUME NEW i \in Nat, i \in S PROVE i + 1 \in S
  <2>1. PICK a \in Nat : a = Exp2[m]
    BY Exp2Def
  <2>2. PICK b \in Nat : b = Exp2[i]
    BY Exp2Def
  <2>3. Exp2[(m + i) + 1] = 2 * (a * b) /\ Exp2[i + 1] = 2 * b
    BY <1>2, <2>1, <2>2, Exp2Def
  <2>4. 2 * (a * b) = a * (2 * b) /\ (m + i) + 1 = m + (i + 1)
    OBVIOUS
  <2> QED
    BY <2>1, <2>3, <2>4
<1>3. \A i \in Nat : i \in S
  <2> HIDE DEF S
  <2> QED
    BY <1>1, <1>2, SetInduction
<1> QED
  BY <1>3

(* The weights of the groups are powers of two if the radix is one. *)
LEMMA WeightIsPower ==
  ASSUME NEW a \in Nat, Radix = Exp2[a]
  PROVE  \A n \in Nat : \E k \in Nat : Weight[n] = Exp2[k]
<1> DEFINE S == {n \in Nat : \E k \in Nat : Weight[n] = Exp2[k]}
<1>1. 0 \in S
  BY WeightDef, Exp2Def
<1>2. ASSUME NEW n \in Nat, n \in S PROVE n + 1 \in S
  <2>1. PICK k \in Nat : Weight[n] = Exp2[k]
    BY <1>2
  <2>2. Weight[n + 1] = Exp2[a] * Exp2[k]
    BY <2>1, WeightDef
  <2>3. Exp2[a + k] = Exp2[a] * Exp2[k] /\ a + k \in Nat
    BY Exp2Sum
  <2> QED
    BY <2>2, <2>3
<1>3. \A n \in Nat : n \in S
  <2> HIDE DEF S
  <2> QED
    BY <1>1, <1>2, SetInduction
<1> QED
  BY <1>3

(* Products of naturals, ordered by a factor. *)
LEMMA Scaled ==
  ASSUME NEW a \in Nat, NEW b \in Nat, NEW u \in Nat \ {0}
  PROVE  /\ a * u \in Nat /\ b * u \in Nat
         /\ a < b <=> a * u < b * u
         /\ a <= b <=> a * u <= b * u
         /\ (a + 1) * u = a * u + u
<1>1. a * u \in Nat /\ b * u \in Nat /\ (a + 1) * u = a * u + u
  OBVIOUS
<1>2. ASSUME NEW x \in Nat, NEW y \in Nat, x < y PROVE x * u < y * u
  <2>1. PICK d \in Nat \ {0} : y = x + d
    <3>1. y - x \in Nat \ {0} /\ y = x + (y - x)
      BY <1>2
    <3> QED
      BY <3>1
  <2>2. y * u = x * u + d * u /\ x * u \in Nat
    BY <2>1
  <2>3. d * u \in Nat /\ d * u > 0
    OBVIOUS
  <2> QED
    BY <2>2, <2>3
<1>3. a < b => a * u < b * u
  BY <1>2
<1>4. b < a => b * u < a * u
  BY <1>2
<1> QED
  BY <1>1, <1>3, <1>4

(* A value rounded to a multiple of a power of two stays on its side. *)
LEMMA NotAcross ==
  ASSUME NEW v \in Nat, NEW e \in Nat, NEW k \in Nat, v \div Exp2[e] >= 1,
         NEW d, d \in {(v \div Exp2[e]) * Exp2[e], ((v \div Exp2[e]) + 1) * Exp2[e]}
  PROVE  /\ d \in Nat
         /\ v < Exp2[k] => d <= Exp2[k]
         /\ v >= Exp2[k] => d >= Exp2[k]
<1>1. PICK u \in Nat \ {0} : u = Exp2[e]
  BY Exp2Positive
<1>2. PICK q \in Nat : q = v \div u /\ q >= 1
  BY <1>1, Division
<1>3. v = q * u + (v % u) /\ v % u \in 0 .. u - 1
  BY <1>2, Division
<1>4. q * u \in Nat /\ (q + 1) * u = q * u + u /\ d \in {q * u, (q + 1) * u}
  BY <1>1, <1>2, Scaled
<1>5. q * u <= v /\ v < (q + 1) * u /\ d \in Nat /\ d >= q * u /\ d <= (q + 1) * u
  BY <1>3, <1>4
<1>6. CASE k >= e
  <2>1. PICK j \in Nat : k = e + j
    <3>1. k - e \in Nat /\ k = e + (k - e)
      BY <1>6
    <3> QED
      BY <3>1
  <2>2. PICK m \in Nat : m = Exp2[j]
    BY Exp2Def
  <2>3. Exp2[k] = m * u
    <3>1. Exp2[k] = u * m
      BY <1>1, <2>1, <2>2, Exp2Sum
    <3> QED
      BY <3>1
  <2>4. m * u \in Nat
    OBVIOUS
  <2>5. ASSUME v < m * u PROVE d <= m * u
    <3>1. q * u < m * u
      BY <1>4, <1>5, <2>4, <2>5
    <3>2. q < m
      BY <3>1, Scaled
    <3>3. q + 1 \in Nat /\ q + 1 <= m
      BY <3>2
    <3>4. (q + 1) * u <= m * u
      BY <3>3, Scaled
    <3> QED
      BY <1>4, <1>5, <2>4, <3>4
  <2>6. ASSUME v >= m * u PROVE d >= m * u
    <3>1. m * u < (q + 1) * u
      BY <1>4, <1>5, <2>4, <2>6
    <3>2. m < q + 1
      <4>1. q + 1 \in Nat
        OBVIOUS
      <4> QED
        BY <3>1, <4>1, Scaled
    <3>3. m <= q
      BY <3>2
    <3>4. m * u <= q * u
      BY <3>3, Scaled
    <3> QED
      BY <1>4, <1>5, <2>4, <3>4
  <2> QED
    BY <1>5, <2>3, <2>5, <2>6
<1>7. CASE k < e
  <2>1. PICK j \in Nat : e = k + j
    <3>1. e - k \in Nat /\ e = k + (e - k)
      BY <1>7
    <3> QED
      BY <3>1
  <2>2. PICK m \in Nat \ {0} : m = Exp2[j]
    BY Exp2Positive
  <2>3. PICK x \in Nat \ {0} : x = Exp2[k]
    BY Exp2Positive
  <2>4. u = x * m
    BY <1>1, <2>1, <2>2, <2>3, Exp2Sum
  <2>5. u >= x
    <3>1. 1 * x <= m * x
      <4>1. 1 \in Nat /\ 1 <= m
        OBVIOUS
      <4> QED
        BY <4>1, Scaled
    <3>2. m * x = x * m /\ 1 * x = x
      OBVIOUS
    <3> QED
      BY <2>4, <3>1, <3>2
  <2>6. q * u >= u
    <3>1. 1 * u <= q * u
      <4>1. 1 \in Nat /\ 1 <= q
        BY <1>2
      <4> QED
        BY <4>1, Scaled
    <3>2. 1 * u = u
      OBVIOUS
    <3> QED
      BY <3>1, <3>2
  <2>7. v >= x /\ d >= x
    BY <1>4, <1>5, <2>5, <2>6
  <2> QED
    BY <1>5, <2>3, <2>7
<1> QED
  BY <1>6, <1>7

(***************************************************************************)
(* Machine numbers: groups, the word and the integers below which doubles  *)
(* are exact are powers of two (7, 64 and 53 bits in the code), a word has *)
(* at most 11 bits more than are exact, and kMaxSize groups hold a word.   *)
(***************************************************************************)
MachineNumbers ==
  /\ \E groupBits, wordBits, exactBits \in Nat \ {0} :
       /\ Radix = Exp2[groupBits] /\ Word = Exp2[wordBits] /\ Exact = Exp2[exactBits]
       /\ wordBits <= exactBits + 11
  /\ Word < Weight[kMaxSize]

LEMMA Exp2Grows ==
  ASSUME NEW m \in Nat, NEW n \in Nat, m <= n
  PROVE  Exp2[m] <= Exp2[n]
<1>1. n - m \in Nat /\ m + (n - m) = n
  OBVIOUS
<1>2. PICK a \in Nat : a = Exp2[m]
  BY Exp2Def
<1>3. PICK b \in Nat \ {0} : b = Exp2[n - m]
  BY <1>1, Exp2Positive
<1>4. Exp2[n] = a * b
  BY <1>1, <1>2, <1>3, Exp2Sum
<1>5. 1 * a <= b * a
  <2>1. CASE a = 0
    BY <2>1
  <2>2. CASE a # 0
    <3>1. 1 \in Nat /\ 1 <= b /\ a \in Nat \ {0}
      BY <2>2
    <3> QED
      BY <3>1, Scaled
  <2> QED
    BY <2>1, <2>2
<1>6. 1 * a = a /\ b * a = a * b
  OBVIOUS
<1> QED
  BY <1>2, <1>4, <1>5, <1>6

(* A value too large to be exact has a last place, and reaches it. *)
LEMMA LastPlaceIs ==
  ASSUME MachineNumbers, NEW v \in Nat, v >= Exact, v < Word
  PROVE  \E e \in Nat : LastPlace(v) = Exp2[e] /\ v \div Exp2[e] >= 1
<1>1. PICK x \in Nat \ {0}, y \in Nat : Exact = Exp2[x] /\ Word = Exp2[y] /\ y <= x + 11
  BY DEF MachineNumbers
<1>2. PICK half \in Nat \ {0} : half = Exp2[x - 1]
  BY <1>1, Exp2Positive
<1>3. Exact = 2 * half /\ Exact \in Nat
  <2>1. x - 1 \in Nat /\ (x - 1) + 1 = x
    BY <1>1
  <2> QED
    BY <1>1, <1>2, <2>1, Exp2Def
<1>4. Exact \div 2 = half
  BY <1>3
<1> DEFINE T == {e \in Nat : v < Exp2[e + x]}
<1>5. 11 \in T
  <2>1. x + 11 \in Nat /\ x + 11 = 11 + x /\ Exp2[y] <= Exp2[x + 11]
    BY <1>1, Exp2Grows
  <2>2. Exp2[x + 11] \in Nat /\ Exp2[y] \in Nat
    BY <2>1, Exp2Def
  <2> QED
    BY <1>1, <2>1, <2>2
<1>6. PICK e \in T : \A i \in T : e <= i
  <2>1. T \in SUBSET Nat /\ T # {}
    BY <1>5
  <2> HIDE DEF T
  <2> QED
    BY <2>1, LeastNat
<1>7. e \in 0 .. 11 /\ e \in Nat
  BY <1>5, <1>6
<1>8. e # 0
  <2>1. v < Exp2[e + x]
    BY <1>6
  <2>2. e = 0 => e + x = x
    BY <1>1
  <2>3. Exact <= v /\ Exact = Exp2[x] /\ Exp2[x] \in Nat
    BY <1>1, <1>3
  <2> HIDE DEF T
  <2>4. e = 0 => v < Exp2[x]
    BY <2>1, <2>2
  <2> QED
    BY <2>3, <2>4
<1>9. PICK u \in Nat \ {0} : u = Exp2[e]
  BY <1>7, Exp2Positive
<1>10. v < Exact * u
  <2>1. Exp2[e + x] = Exp2[e] * Exp2[x]
    BY <1>1, <1>7, Exp2Sum
  <2>2. u * Exact = Exact * u
    BY <1>3
  <2> QED
    BY <1>1, <1>6, <1>9, <2>1, <2>2
<1>11. half * u <= v
  <2>1. e - 1 \in Nat /\ ~(e <= e - 1)
    BY <1>7, <1>8
  <2>2. e - 1 \notin T
    <3> HIDE DEF T
    <3> QED
      BY <1>6, <2>1
  <2>3. ~(v < Exp2[(e - 1) + x])
    BY <2>1, <2>2
  <2>4. x - 1 \in Nat /\ (e - 1) + x = e + (x - 1)
    BY <1>1, <1>7
  <2>5. Exp2[e + (x - 1)] = Exp2[e] * Exp2[x - 1]
    BY <1>7, <2>4, Exp2Sum
  <2>6. Exp2[e + (x - 1)] = u * half /\ u * half = half * u /\ half * u \in Nat
    BY <1>2, <1>9, <2>5
  <2> QED
    BY <2>3, <2>4, <2>6
<1>12. v \div u \in half .. Exact - 1
  <2>1. PICK q \in Nat : q = v \div u
    BY Division
  <2>2. v = q * u + (v % u) /\ v % u \in 0 .. u - 1
    BY <2>1, Division
  <2>3. q * u \in Nat /\ (q + 1) * u = q * u + u /\ q + 1 \in Nat
    BY Scaled
  <2>4. q * u <= v /\ v < (q + 1) * u
    BY <2>2, <2>3
  <2>5. Exact * u \in Nat /\ half * u \in Nat
    BY <1>3
  <2>6. q * u < Exact * u /\ half * u < (q + 1) * u
    BY <1>10, <1>11, <2>3, <2>4, <2>5
  <2>7. q < Exact
    BY <1>3, <2>6, Scaled
  <2>8. half < q + 1
    BY <2>3, <2>6, Scaled
  <2> QED
    BY <1>3, <2>1, <2>7, <2>8
<1>13. \E z \in {Exp2[i] : i \in 0 .. 11} : v \div z \in (Exact \div 2) .. (Exact - 1)
  BY <1>4, <1>7, <1>9, <1>12
<1>14. /\ LastPlace(v) \in {Exp2[i] : i \in 0 .. 11}
       /\ v \div LastPlace(v) \in (Exact \div 2) .. (Exact - 1)
  BY <1>13 DEF LastPlace
<1>15. PICK i \in 0 .. 11 : LastPlace(v) = Exp2[i]
  BY <1>14
<1>16. v \div Exp2[i] >= 1
  <2>1. v \div Exp2[i] \in half .. Exact - 1
    BY <1>4, <1>14, <1>15
  <2> QED
    BY <1>3, <2>1
<1> QED
  BY <1>15, <1>16

(* The conversion never takes a value to the other side of a power of two. *)
LEMMA ToDoubleIs ==
  ASSUME MachineNumbers, NEW v \in Nat, v < Word, NEW k \in Nat
  PROVE  /\ ToDouble(v) \in Nat
         /\ v < Exp2[k] => ToDouble(v) <= Exp2[k]
         /\ v >= Exp2[k] => ToDouble(v) >= Exp2[k]
<1>1. CASE v < Exact
  <2>1. ToDouble(v) = v /\ Exp2[k] \in Nat
    BY <1>1, Exp2Def DEF ToDouble
  <2> QED
    BY <2>1
<1>2. CASE ~(v < Exact)
  <2>1. v >= Exact
    BY <1>2, VarintAssumption
  <2>2. PICK e \in Nat : LastPlace(v) = Exp2[e] /\ v \div Exp2[e] >= 1
    BY <2>1, LastPlaceIs
  <2>3. ToDouble(v) \in {(v \div Exp2[e]) * Exp2[e], ((v \div Exp2[e]) + 1) * Exp2[e]}
    BY <1>2, <2>2 DEF ToDouble
  <2> QED
    BY <2>2, <2>3, NotAcross
<1> QED
  BY <1>1, <1>2

(* A weight is smaller than the next. *)
LEMMA WeightGrows ==
  ASSUME NEW m \in Nat, NEW n \in Nat, m < n
  PROVE  Weight[m] < Weight[n]
<1> DEFINE S == {i \in Nat : Weight[m] < Weight[(m + i) + 1]}
<1>1. ASSUME NEW i \in Nat PROVE Weight[i] < Weight[i + 1]
  <2>1. PICK a \in Nat \ {0} : a = Weight[i]
    BY WeightPositive
  <2>2. 1 * a < Radix * a
    <3>1. 1 \in Nat /\ Radix \in Nat /\ 1 < Radix
      BY VarintAssumption
    <3> QED
      BY <3>1, Scaled
  <2>3. 1 * a = a
    OBVIOUS
  <2> QED
    BY <2>1, <2>2, <2>3, WeightDef
<1>2. 0 \in S
  BY <1>1
<1>3. ASSUME NEW i \in Nat, i \in S PROVE i + 1 \in S
  <2>1. (m + i) + 1 \in Nat /\ ((m + i) + 1) + 1 = (m + (i + 1)) + 1
    OBVIOUS
  <2>2. Weight[(m + i) + 1] < Weight[(m + (i + 1)) + 1]
    BY <1>1, <2>1
  <2>3. /\ Weight[m] \in Nat /\ Weight[(m + i) + 1] \in Nat
        /\ Weight[(m + (i + 1)) + 1] \in Nat
    BY <2>1, WeightDef
  <2>4. Weight[m] < Weight[(m + i) + 1]
    BY <1>3
  <2> QED
    BY <2>2, <2>3, <2>4
<1>4. \A i \in Nat : i \in S
  <2> HIDE DEF S
  <2> QED
    BY <1>2, <1>3, SetInduction
<1>5. (n - m) - 1 \in Nat /\ (m + ((n - m) - 1)) + 1 = n
  OBVIOUS
<1> QED
  BY <1>4, <1>5

(***************************************************************************)
(* What the test value_ < exp2(n * 7) says of a 64 bit value.              *)
(***************************************************************************)
LEMMA FitsIs ==
  ASSUME MachineNumbers, NEW v \in 0 .. Word - 1
  PROVE  /\ \A n \in Nat : /\ Fits(v, n) => v < Weight[n]
                           /\ v < Weight[n] => Fits(v, n + 1)
                           /\ v < Exact => (Fits(v, n) <=> v < Weight[n])
         /\ Fits(v, kMaxSize)
<1>1. v \in Nat /\ v < Word /\ Word \in Nat /\ kMaxSize \in Nat
  BY VarintAssumption
<1>2. PICK a \in Nat, y \in Nat : Radix = Exp2[a] /\ Word = Exp2[y]
  BY DEF MachineNumbers
<1>3. ToDouble(v) \in Nat /\ ToDouble(v) <= Word
  BY <1>1, <1>2, ToDoubleIs
<1>4. Fits(v, kMaxSize)
  <2>1. Weight[kMaxSize] \in Nat /\ Word < Weight[kMaxSize]
    BY <1>1, WeightDef DEF MachineNumbers
  <2> QED
    BY <1>1, <1>3, <2>1 DEF Fits
<1>5. ASSUME NEW n \in Nat
      PROVE  /\ Fits(v, n) => v < Weight[n]
             /\ v < Weight[n] => Fits(v, n + 1)
             /\ v < Exact => (Fits(v, n) <=> v < Weight[n])
  <2>1. PICK k \in Nat : Weight[n] = Exp2[k]
    BY <1>2, WeightIsPower
  <2>2. Weight[n] \in Nat /\ Weight[n + 1] \in Nat /\ Weight[n] < Weight[n + 1]
    BY WeightDef, WeightGrows
  <2>3. v < Weight[n] => ToDouble(v) <= Weight[n]
    BY <1>1, <2>1, ToDoubleIs
  <2>4. v >= Weight[n] => ToDouble(v) >= Weight[n]
    BY <1>1, <2>1, ToDoubleIs
  <2>5. v < Exact => ToDouble(v) = v
    BY DEF ToDouble
  <2>6. Fits(v, n) => v < Weight[n]
    BY <1>1, <1>3, <2>2, <2>4 DEF Fits
  <2>7. v < Weight[n] => Fits(v, n + 1)
    BY <1>1, <1>3, <2>2, <2>3 DEF Fits
  <2>8. v < Exact => (Fits(v, n) <=> v < Weight[n])
    BY <2>5 DEF Fits
  <2> QED
    BY <2>6, <2>7, <2>8
<1> QED
  BY <1>4, <1>5

(* So Write and Read agree about every 64 bit value. *)
THEOREM AllAreEncodable ==
  ASSUME MachineNumbers
  PROVE  \A v \in 0 .. Word - 1 : Encodable(v)
<1> SUFFICES ASSUME NEW v \in 0 .. Word - 1 PROVE Encodable(v)
  OBVIOUS
<1>1. kMaxSize \in 1 .. kMaxSize /\ \A n \in 1 .. kMaxSize : n \in Nat
  BY VarintAssumption
<1> QED
  BY <1>1, FitsIs DEF Encodable
=============================================================================
