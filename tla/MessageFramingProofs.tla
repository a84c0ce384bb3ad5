------------------------ MODULE MessageFramingProofs ------------------------
(***************************************************************************)
(* Proofs about MessageFraming, for any length of the prefix, any radix    *)
(* and any message and data: the number in the prefix comes back, whole    *)
(* messages are handled and no others.                                     *)
(***************************************************************************)
EXTENDS MessageFraming, WellFoundedInduction, TLAPS

-----------------------------------------------------------------------------
(* Induction, from the order of the naturals being well-founded. *)

LEMMA Smallest ==
  ASSUME NEW T, T \subseteq Nat, T # {}
  PROVE  \E x \in T : \A y \in T : ~(y < x)
<1>1. \E x \in T : \A y \in T : ~(<<y, x>> \in OpToRel(<, Nat))
  BY NatLessThanWellFounded, WFMin
<1>2. QED
  BY <1>1 DEF OpToRel

LEMMA Induction ==
  ASSUME NEW S, 0 \in S, \A n \in Nat : n \in S => n + 1 \in S
  PROVE  \A n \in Nat : n \in S
<1>1. SUFFICES ASSUME Nat \ S # {} PROVE FALSE
  OBVIOUS
<1>2. PICK x \in Nat \ S : \A y \in Nat \ S : ~(y < x)
  BY <1>1, Smallest
<1>3. x # 0 /\ x - 1 \in Nat /\ x - 1 \notin Nat \ S
  BY <1>2
<1>4. QED
  BY <1>3, (x - 1) + 1 = x

LEMMA InductionUpTo ==
  ASSUME NEW N \in Nat, NEW S, 0 \in S,
         \A i \in 1 .. N : i - 1 \in S => i \in S
  PROVE  \A i \in 0 .. N : i \in S
<1> DEFINE T == {n \in Nat : n \in 0 .. N => n \in S}
<1>1. 0 \in T
  OBVIOUS
<1>2. ASSUME NEW n \in Nat, n \in T
      PROVE  n + 1 \in T
  <2>1. n + 1 \in 0 .. N => n + 1 \in 1 .. N /\ n \in 0 .. N /\ (n + 1) - 1 = n
    OBVIOUS
  <2>2. QED
    BY <1>2, <2>1
<1> HIDE DEF T
<1>3. \A n \in Nat : n \in T
  BY <1>1, <1>2, Induction
<1>4. QED
  BY <1>3 DEF T

\* A recursion over 0 .. N has a solution.
LEMMA Recursion ==
  ASSUME NEW F \in [Nat -> [Nat -> Nat]], NEW b \in Nat, NEW N \in Nat
  PROVE  \E f \in [0 .. N -> Nat] :
           \A i \in 0 .. N : f[i] = IF i = 0 THEN b ELSE F[i][f[i - 1]]
<1> DEFINE Solves(f, n) ==
             \A i \in 0 .. n : f[i] = IF i = 0 THEN b ELSE F[i][f[i - 1]]
           S == {n \in Nat : \E f \in [0 .. n -> Nat] : Solves(f, n)}
<1>1. 0 \in S
  <2>1. [i \in 0 .. 0 |-> b] \in [0 .. 0 -> Nat] /\ Solves([i \in 0 .. 0 |-> b], 0)
    OBVIOUS
  <2>2. QED
    BY <2>1
<1>2. ASSUME NEW n \in Nat, n \in S
      PROVE  n + 1 \in S
  <2>1. PICK f \in [0 .. n -> Nat] : Solves(f, n)
    BY <1>2
  <2> DEFINE g == [i \in 0 .. n + 1 |-> IF i = n + 1 THEN F[n + 1][f[n]] ELSE f[i]]
  <2>2. F[n + 1][f[n]] \in Nat
    BY n + 1 \in Nat, n \in 0 .. n, F[n + 1] \in [Nat -> Nat]
  <2>3. g \in [0 .. n + 1 -> Nat]
    <3>1. \A i \in 0 .. n + 1 : i # n + 1 => i \in 0 .. n
      OBVIOUS
    <3>2. \A i \in 0 .. n + 1 : (IF i = n + 1 THEN F[n + 1][f[n]] ELSE f[i]) \in Nat
      BY <2>2, <3>1
    <3>3. QED
      BY <3>2
  <2>4. ASSUME NEW i \in 0 .. n + 1
        PROVE  g[i] = IF i = 0 THEN b ELSE F[i][g[i - 1]]
    <3>1. CASE i = n + 1
      <4>1. i # 0 /\ i - 1 = n /\ g[n] = f[n]
        BY <3>1
      <4>2. QED
        BY <3>1, <4>1
    <3>2. CASE i # n + 1
      <4>1. i \in 0 .. n /\ (i # 0 => g[i - 1] = f[i - 1])
        BY <3>2
      <4>2. QED
        BY <2>1, <3>2, <4>1
    <3>3. QED
      BY <3>1, <3>2
  <2> HIDE DEF g
  <2>5. \E f_1 \in [0 .. n + 1 -> Nat] : Solves(f_1, n + 1)
    BY <2>3, <2>4
  <2> HIDE DEF Solves
  <2>6. QED
    BY <2>5, n + 1 \in Nat
<1> HIDE DEF S
<1>3. \A n \in Nat : n \in S => n + 1 \in S
  BY <1>2
<1>4. \A n \in Nat : n \in S
  BY <1>1, <1>3, Induction
<1>5. QED
  BY <1>4 DEF S

-----------------------------------------------------------------------------
(* The number in the prefix. *)

LEMMA WeightDef ==
  \A i \in 0 .. PrefixLength :
    Weight[i] = IF i = 0 THEN 1 ELSE Radix * Weight[i - 1]
<1> DEFINE F == [i \in Nat |-> [x \in Nat |-> Radix * x]]
<1>1. F \in [Nat -> [Nat -> Nat]]
  BY FramingAssumption
<1>2. PICK f \in [0 .. PrefixLength -> Nat] :
        \A i \in 0 .. PrefixLength : f[i] = IF i = 0 THEN 1 ELSE F[i][f[i - 1]]
  <2> HIDE DEF F
  <2>1. QED
    BY <1>1, Recursion, FramingAssumption
<1>3. f = [i \in 0 .. PrefixLength |-> IF i = 0 THEN 1 ELSE Radix * f[i - 1]]
  <2>1. \A i \in 0 .. PrefixLength : i # 0 => i \in Nat /\ f[i - 1] \in Nat
    BY FramingAssumption
  <2>2. QED
    BY <1>2, <2>1
<1> HIDE DEF F
<1>4. Weight = [i \in 0 .. PrefixLength |-> IF i = 0 THEN 1 ELSE Radix * Weight[i - 1]]
  BY <1>3 DEF Weight
<1>5. QED
  BY <1>4

LEMMA WeightType ==
  /\ \A i \in 0 .. PrefixLength : Weight[i] \in Nat \ {0}
  /\ Weight[0] = 1
  /\ \A i \in 1 .. PrefixLength : Weight[i] = Radix * Weight[i - 1]
<1> DEFINE S == {i \in 0 .. PrefixLength : Weight[i] \in Nat \ {0}}
<1>1. /\ Weight[0] = 1
      /\ \A i \in 1 .. PrefixLength : Weight[i] = Radix * Weight[i - 1]
  BY WeightDef, FramingAssumption
<1>2. 0 \in S
  BY <1>1, FramingAssumption
<1>3. ASSUME NEW i \in 1 .. PrefixLength, i - 1 \in S
      PROVE  i \in S
  <2>1. Weight[i - 1] \in Nat \ {0} /\ Radix \in Nat \ {0} /\ i \in 0 .. PrefixLength
    BY <1>3, FramingAssumption
  <2>2. \A x, y \in Nat \ {0} : x * y \in Nat \ {0}
    OBVIOUS
  <2>3. Weight[i] \in Nat \ {0}
    BY <1>1, <2>1, <2>2
  <2>4. QED
    BY <2>1, <2>3
<1> HIDE DEF S
<1>4. \A i \in 0 .. PrefixLength : i \in S
  BY <1>2, <1>3, InductionUpTo, FramingAssumption
<1>5. QED
  BY <1>1, <1>4 DEF S

\* What is left over by a greater weight is what is left over by a smaller one
\* and one more digit.
LEMMA DivMod ==
  ASSUME NEW n \in Nat, NEW w \in Nat \ {0}
  PROVE  /\ n \div w \in Nat /\ (n % w) \in 0 .. w - 1
         /\ n = w * (n \div w) + (n % w)
OBVIOUS

LEMMA ModUnique ==
  ASSUME NEW w \in Nat \ {0}, NEW q \in Nat, NEW m \in 0 .. w - 1
  PROVE  (w * q + m) % w = m
OBVIOUS

LEMMA OneMoreDigit ==
  ASSUME NEW n \in Nat, NEW w \in Nat \ {0}, NEW r \in Nat \ {0}
  PROVE  n % (r * w) = ((n \div w) % r) * w + (n % w)
<1> DEFINE q == n \div w
           m == n % w
           d == q % r
           e == q \div r
<1>1. q \in Nat /\ m \in 0 .. w - 1 /\ n = w * q + m
  BY DivMod
<1>2. e \in Nat /\ d \in 0 .. r - 1 /\ q = r * e + d
  BY <1>1, DivMod
<1> HIDE DEF q, m, d, e
<1>3. n = (r * w) * e + (d * w + m)
  BY <1>1, <1>2
<1>4. d * w + m \in 0 .. r * w - 1 /\ r * w \in Nat \ {0}
  <2>1. d * w \in Nat /\ r * w \in Nat \ {0}
    BY <1>2
  <2>2. (r - 1 - d) * w >= 0
    BY <1>2
  <2>3. d * w <= r * w - w
    BY <2>2, <1>2
  <2>4. QED
    BY <2>1, <2>3, <1>1
<1>5. n % (r * w) = d * w + m
  BY <1>2, <1>3, <1>4, ModUnique
<1>6. QED
  BY <1>5 DEF d, m, q

\* The number read from a prefix, byte by byte.
LEMMA UintSteps ==
  ASSUME NEW s \in Seq(Byte), Len(s) <= PrefixLength
  PROVE  \E v \in [0 .. Len(s) -> Nat] :
           /\ v[0] = 0
           /\ \A i \in 1 .. Len(s) : v[i] = v[i - 1] + s[i].value * Weight[i - 1]
           /\ Uint(s) = v[Len(s)]
<1> DEFINE F == [i \in Nat |-> [x \in Nat |->
                   IF i \in 1 .. Len(s) THEN x + s[i].value * Weight[i - 1] ELSE 0]]
<1>1. \A i \in 1 .. Len(s) : s[i].value * Weight[i - 1] \in Nat
  <2>1. ASSUME NEW i \in 1 .. Len(s)
        PROVE  s[i].value \in Nat /\ Weight[i - 1] \in Nat
    <3>1. s[i] \in Byte /\ i - 1 \in 0 .. PrefixLength
      BY FramingAssumption
    <3>2. s[i].value \in Nat
      BY <3>1, FramingAssumption DEF Byte
    <3>3. QED
      BY <3>1, <3>2, WeightType
  <2>2. \A x, y \in Nat : x * y \in Nat
    OBVIOUS
  <2>3. QED
    BY <2>1, <2>2
<1>2. F \in [Nat -> [Nat -> Nat]]
  <2>1. \A i, x \in Nat : (IF i \in 1 .. Len(s) THEN x + s[i].value * Weight[i - 1] ELSE 0) \in Nat
    BY <1>1
  <2>2. QED
    BY <2>1
<1>3. PICK f \in [0 .. Len(s) -> Nat] :
        \A i \in 0 .. Len(s) : f[i] = IF i = 0 THEN 0 ELSE F[i][f[i - 1]]
  <2> HIDE DEF F
  <2>1. QED
    BY <1>2, Recursion, Len(s) \in Nat
<1>4. \A i \in 0 .. Len(s) : i # 0 => f[i] = f[i - 1] + s[i].value * Weight[i - 1]
  <2>1. \A i \in 0 .. Len(s) : i # 0 =>
          i \in 1 .. Len(s) /\ i \in Nat /\ f[i - 1] \in Nat
    OBVIOUS
  <2>2. QED
    BY <1>3, <2>1
<1> HIDE DEF F
<1>5. f = [i \in 0 .. Len(s) |->
             IF i = 0 THEN 0 ELSE f[i - 1] + s[i].value * Weight[i - 1]]
  BY <1>3, <1>4
<1> DEFINE v == CHOOSE v : v = [i \in 0 .. Len(s) |->
             IF i = 0 THEN 0 ELSE v[i - 1] + s[i].value * Weight[i - 1]]
<1>6. v = [i \in 0 .. Len(s) |->
             IF i = 0 THEN 0 ELSE v[i - 1] + s[i].value * Weight[i - 1]]
  BY <1>5
<1>7. Uint(s) = v[Len(s)]
  BY DEF Uint
<1> HIDE DEF v
<1> DEFINE S == {i \in 0 .. Len(s) : v[i] \in Nat}
<1>8. 0 \in S
  BY <1>6
<1>9. ASSUME NEW i \in 1 .. Len(s), i - 1 \in S
      PROVE  i \in S
  <2>1. i \in 0 .. Len(s) /\ i # 0 /\ v[i - 1] \in Nat
    BY <1>9
  <2>2. v[i] = v[i - 1] + s[i].value * Weight[i - 1]
    BY <1>6, <2>1
  <2>3. s[i].value * Weight[i - 1] \in Nat
    BY <1>1
  <2>4. v[i] \in Nat
    BY <2>1, <2>2, <2>3
  <2>5. QED
    BY <2>1, <2>4
<1>10. \A i \in 0 .. Len(s) : i \in S
  <2> HIDE DEF S
  <2>1. QED
    BY <1>8, <1>9, InductionUpTo, Len(s) \in Nat
<1>11. v \in [0 .. Len(s) -> Nat]
  BY <1>6, <1>10
<1>12. v[0] = 0 /\ \A i \in 1 .. Len(s) : v[i] = v[i - 1] + s[i].value * Weight[i - 1]
  BY <1>6
<1>13. QED
  BY <1>7, <1>11, <1>12

\* The prefix of n, and of what bytes it is.
LEMMA PutUintShape ==
  ASSUME NEW n \in Nat
  PROVE  /\ PutUint(n) \in Seq(Byte) /\ Len(PutUint(n)) = PrefixLength
         /\ \A i \in 1 .. PrefixLength :
              /\ PutUint(n)[i] = [part |-> "prefix", value |-> Digit(n, i)]
              /\ Digit(n, i) \in 0 .. Radix - 1
<1>1. ASSUME NEW i \in 1 .. PrefixLength
      PROVE  Digit(n, i) \in 0 .. Radix - 1
  <2>1. Weight[i - 1] \in Nat \ {0} /\ Radix \in Nat \ {0}
    BY WeightType, FramingAssumption
  <2>2. QED
    BY <2>1, DivMod DEF Digit
<1>2. \A i \in 1 .. PrefixLength :
        [part |-> "prefix", value |-> Digit(n, i)] \in Byte
  BY <1>1 DEF Byte
<1>3. QED
  BY <1>1, <1>2, FramingAssumption DEF PutUint

\* binary.LittleEndian: Uint64 reads what PutUint64 wrote, if the number fits.
THEOREM NumberComesBack ==
  ASSUME NEW n \in 0 .. Weight[PrefixLength] - 1
  PROVE  Uint(PutUint(n)) = n
<1> DEFINE s == PutUint(n)
<1>1. PrefixLength \in Nat \ {0} /\ Radix \in Nat \ {0} /\ n \in Nat
      /\ Weight[PrefixLength] \in Nat \ {0}
  BY FramingAssumption, WeightType
<1>2. s \in Seq(Byte) /\ Len(s) = PrefixLength
  BY <1>1, PutUintShape
<1>3. PICK v \in [0 .. Len(s) -> Nat] :
        /\ v[0] = 0
        /\ \A i \in 1 .. Len(s) : v[i] = v[i - 1] + s[i].value * Weight[i - 1]
        /\ Uint(s) = v[Len(s)]
  BY <1>1, <1>2, UintSteps
<1>4. ASSUME NEW i \in 1 .. PrefixLength
      PROVE  s[i].value = Digit(n, i) /\ Digit(n, i) \in Nat
  <2> HIDE DEF s
  <2>1. /\ s[i] = [part |-> "prefix", value |-> Digit(n, i)]
        /\ Digit(n, i) \in 0 .. Radix - 1
    BY <1>1, PutUintShape DEF s
  <2>2. QED
    BY <1>1, <2>1
<1> HIDE DEF s
<1> DEFINE S == {i \in 0 .. PrefixLength : v[i] = n % Weight[i]}
<1>5. 0 \in S
  BY <1>1, <1>3, WeightType
<1>6. ASSUME NEW i \in 1 .. PrefixLength, i - 1 \in S
      PROVE  i \in S
  <2> DEFINE w == Weight[i - 1]
  <2>1. w \in Nat \ {0} /\ Weight[i] = Radix * w
    BY <1>1, WeightType
  <2>2. v[i] = (n % w) + Digit(n, i) * w
    BY <1>2, <1>3, <1>4, <1>6
  <2>3. n % (Radix * w) = Digit(n, i) * w + (n % w)
    BY <1>1, <2>1, OneMoreDigit DEF Digit
  <2>4. n % w \in Nat /\ Digit(n, i) * w \in Nat
    <3>1. \A x, y \in Nat : x * y \in Nat
      OBVIOUS
    <3>2. n % w \in 0 .. w - 1
      <4> HIDE DEF w
      <4>1. QED
        BY <1>1, <2>1, DivMod
    <3> HIDE DEF w
    <3>3. QED
      BY <1>4, <2>1, <3>1, <3>2
  <2> HIDE DEF w
  <2>5. v[i] = n % Weight[i]
    BY <2>1, <2>2, <2>3, <2>4
  <2>6. QED
    BY <2>5, <1>1
<1>7. \A i \in 0 .. PrefixLength : i \in S
  <2> HIDE DEF S
  <2>1. QED
    BY <1>1, <1>5, <1>6, InductionUpTo
<1>8. v[PrefixLength] = n % Weight[PrefixLength]
  BY <1>1, <1>7
<1>9. n % Weight[PrefixLength] = n
  BY <1>1
<1>10. QED
  BY <1>2, <1>3, <1>8, <1>9 DEF s

-----------------------------------------------------------------------------
(* The inductive invariant: whatever was read is where it is in what the      *)
(* sender writes.                                                            *)

\* The i-th byte the sender writes, how many it has written, how many of them
\* the receiver has read.
Stream(i) ==
  IF i <= PrefixLength THEN PutUint(size)[i]
  ELSE IF i <= PrefixLength + size THEN Message[i - PrefixLength]
  ELSE Data[i - PrefixLength - size]

Written ==
  CASE sender = "prefix"  -> 0
    [] sender = "payload" -> PrefixLength
    [] sender = "data"    -> PrefixLength + size
    [] OTHER              -> PrefixLength + size + dataSize

Got == Len(prefix) + Len(payload) + Len(data)

\* What is on its way comes next; nothing is lost unless the connection broke.
WireOK ==
  /\ Got + Len(wire) <= Written
  /\ broken \/ Got + Len(wire) = Written
  /\ broken => sender = "closed"
  /\ \A i \in 1 .. Len(wire) : wire[i] = Stream(Got + i)

\* What was read is what was written there.
BuffersOK ==
  /\ \A i \in 1 .. Len(prefix) : prefix[i] = Stream(i)
  /\ \A i \in 1 .. Len(payload) : payload[i] = Stream(Len(prefix) + i)
  /\ \A i \in 1 .. Len(data) : data[i] = Stream(Len(prefix) + Len(payload) + i)

\* How far the receiver is.
ReceiverOK ==
  /\ receiver = "prefix" => prefix = <<>> /\ payload = <<>>
  /\ receiver \in {"prefix", "payload"} => data = <<>>
  /\ Len(payload) <= payloadSize
  /\ receiver \notin {"prefix", "payload"} => Len(payload) = payloadSize
  /\ receiver = "data" => payload = Message
  /\ Short => data = <<>> /\ receiver # "data"
  /\ receiver = "returned" /\ ~Short =>
       Len(data) = dataSize \/ (role = "node" /\ broken)
  /\ receiver = "failed" => Short \/ (role = "client" /\ broken)

StreamInv == TypeOK /\ WireOK /\ BuffersOK /\ ReceiverOK

-----------------------------------------------------------------------------
(* What is sent, and where it is found. *)

LEMMA StreamShape ==
  ASSUME TypeOK
  PROVE  /\ size \in Nat \ {0} /\ size < Weight[PrefixLength] /\ dataSize \in Nat
         /\ PutUint(size) \in Seq(Byte) /\ Len(PutUint(size)) = PrefixLength
         /\ Message \in Seq(Byte) /\ Len(Message) = size
         /\ Data \in Seq(Byte) /\ Len(Data) = dataSize
         /\ \A i \in 1 .. PrefixLength : PutUint(size)[i].part = "prefix"
         /\ Message[1].part = "payload"
<1>1. /\ size \in Nat \ {0} /\ size < Weight[PrefixLength] /\ dataSize \in Nat
      /\ Weight[PrefixLength] \in Nat
  BY FramingAssumption, WeightType DEF TypeOK
<1>2. /\ PutUint(size) \in Seq(Byte) /\ Len(PutUint(size)) = PrefixLength
      /\ \A i \in 1 .. PrefixLength :
           PutUint(size)[i] = [part |-> "prefix", value |-> Digit(size, i)]
  BY <1>1, PutUintShape
<1>3. \A i \in 1 .. PrefixLength : PutUint(size)[i].part = "prefix"
  BY <1>2
<1>4. /\ \A i \in 1 .. size : [part |-> "payload", value |-> i] \in Byte
      /\ \A i \in 1 .. dataSize : [part |-> "data", value |-> i] \in Byte
  BY DEF Byte
<1>5. Message \in Seq(Byte) /\ Len(Message) = size /\ Message[1].part = "payload"
  <2>1. Message \in [1 .. size -> Byte]
    BY <1>4 DEF Message
  <2>2. Message[1].part = "payload"
    BY <1>1 DEF Message
  <2>3. QED
    BY <1>1, <2>1, <2>2
<1>6. Data \in Seq(Byte) /\ Len(Data) = dataSize
  <2>1. Data \in [1 .. dataSize -> Byte]
    BY <1>4 DEF Data
  <2>2. QED
    BY <1>1, <2>1
<1>7. QED
  BY <1>1, <1>2, <1>3, <1>5, <1>6

\* Sequences of the same bytes are the same.
LEMMA SameBytes ==
  ASSUME NEW s \in Seq(Byte), NEW t \in Seq(Byte), Len(s) = Len(t),
         \A i \in 1 .. Len(s) : s[i] = t[i]
  PROVE  s = t
<1>1. s = [i \in 1 .. Len(s) |-> s[i]] /\ t = [i \in 1 .. Len(t) |-> t[i]]
  OBVIOUS
<1>2. QED
  BY <1>1

\* Where each of the three parts is.
LEMMA StreamParts ==
  ASSUME TypeOK
  PROVE  /\ \A i \in 1 .. PrefixLength : Stream(i) = PutUint(size)[i]
         /\ \A i \in 1 .. size : Stream(PrefixLength + i) = Message[i]
         /\ \A i \in 1 .. dataSize : Stream(PrefixLength + size + i) = Data[i]
BY StreamShape, FramingAssumption DEF Stream

\* The message and the data do not change.
LEMMA StreamStays ==
  ASSUME size' = size, dataSize' = dataSize
  PROVE  /\ \A i : Stream(i)' = Stream(i)
         /\ Message' = Message /\ Data' = Data
         /\ PutUint(size)' = PutUint(size)
BY DEF Stream, Message, Data, PutUint

LEMMA UintType ==
  ASSUME NEW s \in Seq(Byte), Len(s) <= PrefixLength
  PROVE  Uint(s) \in Nat
<1>1. PICK v \in [0 .. Len(s) -> Nat] : Uint(s) = v[Len(s)]
  BY UintSteps
<1>2. Len(s) \in 0 .. Len(s)
  OBVIOUS
<1>3. QED
  BY <1>1, <1>2

LEMMA SizeType == ASSUME TypeOK PROVE payloadSize \in Nat
BY UintType DEF TypeOK, payloadSize

LEMMA GotType ==
  ASSUME TypeOK
  PROVE  /\ Len(prefix) \in Nat /\ Len(payload) \in Nat /\ Len(data) \in Nat
         /\ Len(wire) \in Nat /\ PrefixLength \in Nat \ {0}
BY FramingAssumption DEF TypeOK

\* The number in a whole prefix is the size of the message, and a payload that
\* long is the message.
LEMMA WholePrefix ==
  ASSUME TypeOK, BuffersOK, ~Short
  PROVE  /\ Len(prefix) = PrefixLength /\ payloadSize = size
         /\ Len(payload) = size => payload = Message
<1>1. Len(prefix) = PrefixLength
  BY GotType DEF Short, TypeOK
<1>2. prefix = PutUint(size)
  <2>1. \A i \in 1 .. Len(prefix) : prefix[i] = PutUint(size)[i]
    BY <1>1, StreamParts DEF BuffersOK
  <2>2. prefix \in Seq(Byte) /\ PutUint(size) \in Seq(Byte)
        /\ Len(PutUint(size)) = Len(prefix)
    BY <1>1, StreamShape DEF TypeOK
  <2>3. QED
    BY <2>1, <2>2, SameBytes
<1>3. payloadSize = size
  BY <1>2, StreamShape, NumberComesBack, WeightType, FramingAssumption DEF payloadSize
<1>4. Len(payload) = size => payload = Message
  <2>1. SUFFICES ASSUME Len(payload) = size PROVE payload = Message
    OBVIOUS
  <2>2. \A i \in 1 .. Len(payload) : payload[i] = Message[i]
    BY <1>1, <2>1, StreamParts DEF BuffersOK
  <2>3. payload \in Seq(Byte) /\ Message \in Seq(Byte) /\ Len(Message) = Len(payload)
    BY <2>1, StreamShape DEF TypeOK
  <2>4. QED
    BY <2>2, <2>3, SameBytes
<1>5. QED
  BY <1>1, <1>3, <1>4

\* What is read after a prefix in pieces begins with the rest of the prefix.
LEMMA ShortPrefix ==
  ASSUME TypeOK, BuffersOK, Short
  PROVE  payload # Message
<1>1. Len(prefix) + 1 \in 1 .. PrefixLength
  BY GotType DEF Short
<1>2. payload # <<>> => payload[1].part = "prefix"
  <2>1. payload # <<>> => 1 \in 1 .. Len(payload)
    BY DEF TypeOK
  <2>2. Stream(Len(prefix) + 1).part = "prefix"
    BY <1>1, StreamShape, StreamParts
  <2>3. QED
    BY <2>1, <2>2 DEF BuffersOK
<1>3. Message # <<>> /\ Message[1].part = "payload"
  BY StreamShape
<1>4. QED
  BY <1>2, <1>3

-----------------------------------------------------------------------------
(* The sender's steps. *)

LEMMA WriteStays ==
  ASSUME StreamInv, NEW step, NEW next, NEW bytes \in Seq(Byte),
         Write(step, bytes, next), step # "closed",
         next \in {"payload", "data", "close", "closed"},
         Written' = Written + Len(bytes),
         \A i \in 1 .. Len(bytes) : bytes[i] = Stream(Written + i)
  PROVE  StreamInv'
<1>1. TypeOK /\ ~broken /\ Got + Len(wire) = Written
  BY DEF StreamInv, WireOK, Write
<1>2. /\ wire' = wire \o bytes /\ sender' = next
      /\ UNCHANGED <<role, size, dataSize, broken, receiver, prefix, payload, data>>
  BY DEF Write
<1>3. /\ Len(wire') = Len(wire) + Len(bytes) /\ wire' \in Seq(Byte)
      /\ \A i \in 1 .. Len(wire') :
           wire'[i] = IF i <= Len(wire) THEN wire[i] ELSE bytes[i - Len(wire)]
  BY <1>1, <1>2 DEF TypeOK
<1>4. Got' = Got /\ Got \in Nat /\ Len(wire) \in Nat /\ Len(bytes) \in Nat
  BY <1>1, <1>2, GotType DEF Got
<1>5. TypeOK'
  BY <1>1, <1>2, <1>3 DEF TypeOK
<1>6. WireOK'
  <2>1. ASSUME NEW i \in 1 .. Len(wire')
        PROVE  wire'[i] = Stream(Got + i)
    <3>1. CASE i <= Len(wire)
      BY <1>3, <1>4, <2>1, <3>1 DEF StreamInv, WireOK
    <3>2. CASE i > Len(wire)
      <4>1. i - Len(wire) \in 1 .. Len(bytes) /\ Written + (i - Len(wire)) = Got + i
        BY <1>1, <1>3, <1>4, <2>1, <3>2
      <4>2. QED
        BY <1>3, <1>4, <3>2, <4>1
    <3>3. QED
      BY <1>4, <3>1, <3>2
  <2>2. QED
    BY <1>1, <1>2, <1>3, <1>4, <2>1, StreamStays DEF WireOK
<1>7. BuffersOK'
  BY <1>2, StreamStays DEF StreamInv, BuffersOK
<1>8. ReceiverOK'
  BY <1>2, StreamStays DEF StreamInv, ReceiverOK, Short, payloadSize
<1>9. QED
  BY <1>5, <1>6, <1>7, <1>8 DEF StreamInv

LEMMA SenderStays ==
  ASSUME StreamInv, Sender
  PROVE  StreamInv'
<1>1. /\ TypeOK /\ PrefixLength \in Nat
      /\ UNCHANGED <<size, dataSize>>
  BY FramingAssumption
     DEF StreamInv, Sender, SendPrefix, SendPayload, SendData, Close, Write
<1>2. CASE SendPrefix
  <2>1. sender = "prefix" /\ sender' = "payload" /\ Written = 0 /\ Written' = PrefixLength
    BY <1>2 DEF SendPrefix, Write, Written
  <2>2. \A i \in 1 .. Len(PutUint(size)) : PutUint(size)[i] = Stream(Written + i)
    BY <1>1, <2>1, StreamShape, StreamParts
  <2>3. QED
    BY <1>1, <1>2, <2>1, <2>2, StreamShape, WriteStays DEF SendPrefix
<1>3. CASE SendPayload
  <2>1. /\ sender = "payload" /\ sender' = "data"
        /\ Written = PrefixLength /\ Written' = PrefixLength + size
    BY <1>1, <1>3 DEF SendPayload, Write, Written
  <2>2. \A i \in 1 .. Len(Message) : Message[i] = Stream(Written + i)
    BY <1>1, <2>1, StreamShape, StreamParts
  <2>3. QED
    BY <1>1, <1>3, <2>1, <2>2, StreamShape, WriteStays DEF SendPayload
<1>4. CASE SendData
  <2>1. /\ sender = "data" /\ sender' = "close"
        /\ Written = PrefixLength + size /\ Written' = PrefixLength + size + dataSize
    BY <1>1, <1>4 DEF SendData, Write, Written
  <2>2. \A i \in 1 .. Len(Data) : Data[i] = Stream(Written + i)
    BY <1>1, <2>1, StreamShape, StreamParts
  <2>3. QED
    BY <1>1, <1>4, <2>1, <2>2, StreamShape, WriteStays DEF SendData
<1>5. CASE Close
  <2>1. /\ sender = "close" /\ sender' = "closed" /\ Len(<<>>) = 0 /\ <<>> \in Seq(Byte)
        /\ Written' = Written /\ Written \in Nat
    BY <1>1, <1>5, StreamShape DEF Close, Write, Written
  <2>2. Written' = Written + Len(<<>>) /\ \A i \in 1 .. Len(<<>>) : <<>>[i] = Stream(Written + i)
    BY <2>1
  <2>3. Write("close", <<>>, "closed")
    BY <1>5 DEF Close
  <2>4. QED
    BY <2>1, <2>2, <2>3, WriteStays
<1>6. QED
  BY <1>2, <1>3, <1>4, <1>5 DEF Sender

LEMMA BreakStays ==
  ASSUME StreamInv, Break
  PROVE  StreamInv'
<1>1. PICK n \in 0 .. Len(wire) : wire' = SubSeq(wire, 1, n)
  BY DEF Break
<1>2. /\ TypeOK /\ sender' = "closed" /\ broken' = TRUE
      /\ UNCHANGED <<role, size, dataSize, receiver, prefix, payload, data>>
  BY DEF Break, StreamInv
<1>3. /\ wire' \in Seq(Byte) /\ Len(wire') = n
      /\ \A i \in 1 .. n : wire'[i] = wire[i]
  BY <1>1, <1>2 DEF TypeOK
<1>4. Written <= Written' /\ Written \in Nat /\ Written' \in Nat
  BY <1>2, StreamShape, FramingAssumption DEF Written
<1>5. Got' = Got /\ Got \in Nat /\ Len(wire) \in Nat
  BY <1>2, GotType DEF Got
<1>6. TypeOK'
  BY <1>2, <1>3 DEF TypeOK
<1>7. WireOK'
  <2>1. Got' + Len(wire') <= Written'
    BY <1>3, <1>4, <1>5 DEF StreamInv, WireOK
  <2>2. \A i \in 1 .. Len(wire') : wire'[i] = Stream(Got + i)
    BY <1>1, <1>3, <1>5 DEF StreamInv, WireOK
  <2>3. QED
    BY <1>2, <1>5, <2>1, <2>2, StreamStays DEF WireOK
<1>8. BuffersOK'
  BY <1>2, StreamStays DEF StreamInv, BuffersOK
<1>9. ReceiverOK'
  BY <1>2, StreamStays DEF StreamInv, ReceiverOK, Short, payloadSize
<1>10. QED
  BY <1>6, <1>7, <1>8, <1>9 DEF StreamInv

-----------------------------------------------------------------------------
(* The receiver's steps. *)

\* A Read into a buffer takes bytes off the wire, none only at its end.
LEMMA ReadTakes ==
  ASSUME StreamInv, NEW room \in Nat, NEW n \in Readable(room), Drop(n)
  PROVE  /\ n \in Nat /\ n <= room /\ n <= Len(wire)
         /\ Taken(n) \in Seq(Byte) /\ Len(Taken(n)) = n
         /\ \A i \in 1 .. n : Taken(n)[i] = Stream(Got + i)
         /\ wire' \in Seq(Byte) /\ Len(wire') = Len(wire) - n
         /\ \A i \in 1 .. Len(wire') : wire'[i] = Stream(Got + n + i)
         /\ n = 0 => wire = <<>> /\ sender = "closed"
<1>1. wire \in Seq(Byte) /\ Got \in Nat /\ Len(wire) \in Nat
  BY GotType DEF StreamInv, TypeOK, Got
<1>2. /\ n \in Nat /\ n <= room /\ n <= Len(wire)
      /\ n = 0 => wire = <<>> /\ sender = "closed"
  BY <1>1 DEF Readable, Least
<1>3. /\ Taken(n) \in Seq(Byte) /\ Len(Taken(n)) = n
      /\ \A i \in 1 .. n : Taken(n)[i] = wire[i]
  BY <1>1, <1>2 DEF Taken
<1>4. /\ wire' \in Seq(Byte) /\ Len(wire') = Len(wire) - n
      /\ \A i \in 1 .. Len(wire') : wire'[i] = wire[n + i]
  BY <1>1, <1>2 DEF Drop
<1>5. \A i \in 1 .. n : Taken(n)[i] = Stream(Got + i)
  BY <1>1, <1>2, <1>3 DEF StreamInv, WireOK
<1>6. ASSUME NEW i \in 1 .. Len(wire')
      PROVE  wire'[i] = Stream(Got + n + i)
  <2>1. n + i \in 1 .. Len(wire) /\ Got + (n + i) = Got + n + i
    BY <1>1, <1>2, <1>4
  <2>2. QED
    BY <1>4, <2>1 DEF StreamInv, WireOK
<1>7. QED
  BY <1>2, <1>3, <1>4, <1>5, <1>6

\* Bytes read after those read before.
LEMMA Appended ==
  ASSUME NEW s \in Seq(Byte), NEW t \in Seq(Byte)
  PROVE  /\ s \o t \in Seq(Byte) /\ Len(s \o t) = Len(s) + Len(t)
         /\ \A i \in 1 .. Len(s \o t) :
              (s \o t)[i] = IF i <= Len(s) THEN s[i] ELSE t[i - Len(s)]
OBVIOUS

\* The wire stays as it should be when as much was read as is gone from it.
LEMMA WireStays ==
  ASSUME StreamInv, NEW n \in Nat, n <= Len(wire), Got' = Got + n,
         UNCHANGED <<role, size, dataSize, sender, broken>>,
         Len(wire') = Len(wire) - n,
         \A i \in 1 .. Len(wire') : wire'[i] = Stream(Got + n + i)
  PROVE  WireOK'
<1>1. Got \in Nat /\ Len(wire) \in Nat /\ Written' = Written
  BY GotType DEF StreamInv, Got, Written
<1>2. QED
  BY <1>1, StreamStays DEF StreamInv, WireOK

LEMMA ReadPrefixStays ==
  ASSUME StreamInv, ReadPrefix
  PROVE  StreamInv'
<1>1. /\ TypeOK /\ receiver = "prefix" /\ receiver' = "payload"
      /\ prefix = <<>> /\ payload = <<>> /\ data = <<>>
      /\ UNCHANGED <<role, size, dataSize, sender, broken, payload, data>>
  BY DEF StreamInv, ReceiverOK, ReadPrefix
<1>2. PICK n \in Readable(PrefixLength) : prefix' = Taken(n) /\ Drop(n)
  BY DEF ReadPrefix
<1>3. /\ n \in Nat /\ n <= PrefixLength /\ n <= Len(wire)
      /\ prefix' \in Seq(Byte) /\ Len(prefix') = n
      /\ \A i \in 1 .. n : prefix'[i] = Stream(Got + i)
      /\ wire' \in Seq(Byte) /\ Len(wire') = Len(wire) - n
      /\ \A i \in 1 .. Len(wire') : wire'[i] = Stream(Got + n + i)
  BY <1>2, ReadTakes, FramingAssumption
<1>4. Got = 0 /\ Got' = n
  BY <1>1, <1>3 DEF Got
<1>5. TypeOK'
  BY <1>1, <1>3 DEF TypeOK
<1>6. WireOK'
  BY <1>1, <1>3, <1>4, WireStays
<1>7. BuffersOK'
  BY <1>1, <1>3, <1>4, StreamStays DEF BuffersOK
<1>8. ReceiverOK'
  <2>1. payloadSize' \in Nat
    BY <1>5, UintType DEF TypeOK, payloadSize
  <2>2. QED
    BY <1>1, <2>1 DEF ReceiverOK
<1>9. QED
  BY <1>5, <1>6, <1>7, <1>8 DEF StreamInv

LEMMA ReadPayloadStays ==
  ASSUME StreamInv, ReadPayload
  PROVE  StreamInv'
<1>1. /\ TypeOK /\ receiver = "payload" /\ data = <<>> /\ Len(payload) < payloadSize
      /\ UNCHANGED <<role, size, dataSize, sender, broken, receiver, prefix, data>>
  BY DEF StreamInv, ReceiverOK, ReadPayload, MoreToRead
<1>2. payloadSize \in Nat /\ payloadSize' = payloadSize /\ Len(payload) \in Nat
      /\ payloadSize - Len(payload) \in Nat
  <2>1. payloadSize \in Nat /\ Len(payload) \in Nat
    BY <1>1, SizeType, GotType
  <2>2. QED
    BY <1>1, <2>1 DEF payloadSize
<1>3. PICK n \in Readable(payloadSize - Len(payload)) :
        payload' = payload \o Taken(n) /\ Drop(n)
  BY DEF ReadPayload
<1>4. /\ n \in Nat /\ n <= payloadSize - Len(payload) /\ n <= Len(wire)
      /\ Taken(n) \in Seq(Byte) /\ Len(Taken(n)) = n
      /\ \A i \in 1 .. n : Taken(n)[i] = Stream(Got + i)
      /\ wire' \in Seq(Byte) /\ Len(wire') = Len(wire) - n
      /\ \A i \in 1 .. Len(wire') : wire'[i] = Stream(Got + n + i)
  BY <1>2, <1>3, ReadTakes
<1>5. /\ payload' \in Seq(Byte) /\ Len(payload') = Len(payload) + n
      /\ \A i \in 1 .. Len(payload') :
           payload'[i] = IF i <= Len(payload) THEN payload[i]
                         ELSE Taken(n)[i - Len(payload)]
  <2>1. payload \in Seq(Byte) /\ payload' = payload \o Taken(n)
    BY <1>1, <1>3 DEF TypeOK
  <2>2. QED
    BY <1>4, <2>1, Appended
<1>6. /\ Got = Len(prefix) + Len(payload) /\ Got' = Got + n
      /\ Len(prefix) \in Nat /\ Len(data) = 0
  BY <1>1, <1>2, <1>4, <1>5, GotType DEF Got
<1>7. TypeOK'
  BY <1>1, <1>4, <1>5 DEF TypeOK
<1>8. WireOK'
  BY <1>1, <1>4, <1>6, WireStays
<1>9. BuffersOK'
  <2>1. ASSUME NEW i \in 1 .. Len(payload')
        PROVE  payload'[i] = Stream(Len(prefix) + i)
    <3>1. CASE i <= Len(payload)
      BY <1>2, <1>5, <3>1 DEF StreamInv, BuffersOK
    <3>2. CASE i > Len(payload)
      <4>1. i - Len(payload) \in 1 .. n /\ Got + (i - Len(payload)) = Len(prefix) + i
        BY <1>2, <1>4, <1>5, <1>6, <3>2
      <4>2. QED
        BY <1>2, <1>4, <1>5, <3>2, <4>1
    <3>3. QED
      BY <1>2, <3>1, <3>2
  <2>2. QED
    BY <1>1, <2>1, StreamStays DEF StreamInv, BuffersOK
<1>10. ReceiverOK'
  BY <1>1, <1>2, <1>4, <1>5 DEF StreamInv, ReceiverOK, Short
<1>11. QED
  BY <1>7, <1>8, <1>9, <1>10 DEF StreamInv

\* A step that reads nothing.
LEMMA NothingRead ==
  ASSUME StreamInv, receiver' \in {"payload", "data", "returned", "failed"},
         UNCHANGED <<role, size, dataSize, sender, broken, wire, prefix, payload, data>>
  PROVE  TypeOK' /\ WireOK' /\ BuffersOK'
<1>1. TypeOK'
  BY DEF StreamInv, TypeOK
<1>2. WireOK' /\ BuffersOK'
  BY StreamStays DEF StreamInv, WireOK, BuffersOK, Got, Written
<1>3. QED
  BY <1>1, <1>2

LEMMA ReceiveStays ==
  ASSUME StreamInv, Receive
  PROVE  StreamInv'
<1>1. /\ TypeOK /\ BuffersOK /\ receiver = "payload" /\ data = <<>>
      /\ UNCHANGED <<role, size, dataSize, sender, broken, wire, prefix, payload, data>>
      /\ receiver' \in {"data", "returned", "failed"}
  BY DEF StreamInv, ReceiverOK, Receive
<1>2. payloadSize' = payloadSize /\ Len(payload) = payloadSize
  BY <1>1, SizeType, GotType DEF StreamInv, ReceiverOK, Receive, MoreToRead, payloadSize
<1>3. receiver' = "data" => payload = Message
  BY DEF Receive, Unmarshal
<1>4. Short => receiver' # "data"
  BY <1>1, <1>3, ShortPrefix
<1>5. ~Short => receiver' = "data"
  <2>1. ~Short => payload = Message /\ payload # <<>>
    BY <1>1, <1>2, WholePrefix, StreamShape
  <2>2. QED
    BY <2>1 DEF Receive, Unmarshal
<1>6. ReceiverOK'
  BY <1>1, <1>2, <1>3, <1>4, <1>5, StreamStays, SizeType DEF ReceiverOK, Short
<1>7. QED
  BY <1>1, <1>6, NothingRead DEF StreamInv

LEMMA CopyDataStays ==
  ASSUME StreamInv, CopyData
  PROVE  StreamInv'
<1>1. /\ TypeOK /\ receiver = "data" /\ Len(data) < dataSize
      /\ payload = Message /\ ~Short /\ Len(payload) = payloadSize
      /\ UNCHANGED <<role, size, dataSize, sender, broken, prefix, payload>>
  BY DEF StreamInv, ReceiverOK, CopyData
<1>2. dataSize \in Nat /\ dataSize - Len(data) \in Nat
  BY <1>1, GotType, StreamShape
<1>3. PICK n \in Readable(dataSize - Len(data)) :
        data' = data \o Taken(n) /\ Drop(n) /\ receiver' = AfterCopy(n)
  BY DEF CopyData
<1>4. /\ n \in Nat /\ n <= dataSize - Len(data) /\ n <= Len(wire)
      /\ Taken(n) \in Seq(Byte) /\ Len(Taken(n)) = n
      /\ \A i \in 1 .. n : Taken(n)[i] = Stream(Got + i)
      /\ wire' \in Seq(Byte) /\ Len(wire') = Len(wire) - n
      /\ \A i \in 1 .. Len(wire') : wire'[i] = Stream(Got + n + i)
      /\ n = 0 => wire = <<>> /\ sender = "closed"
  BY <1>2, <1>3, ReadTakes
<1>5. /\ data' \in Seq(Byte) /\ Len(data') = Len(data) + n
      /\ \A i \in 1 .. Len(data') :
           data'[i] = IF i <= Len(data) THEN data[i] ELSE Taken(n)[i - Len(data)]
  <2>1. data \in Seq(Byte) /\ data' = data \o Taken(n)
    BY <1>1, <1>3 DEF TypeOK
  <2>2. QED
    BY <1>4, <2>1, Appended
<1>6. /\ Got' = Got + n
      /\ Len(prefix) \in Nat /\ Len(payload) \in Nat /\ Len(data) \in Nat
  <2>1. Len(prefix) \in Nat /\ Len(payload) \in Nat /\ Len(data) \in Nat
    BY <1>1, GotType
  <2>2. Got' = Len(prefix) + Len(payload) + Len(data')
    BY <1>1 DEF Got
  <2>3. QED
    BY <1>4, <1>5, <2>1, <2>2 DEF Got
<1>7. TypeOK'
  BY <1>1, <1>2, <1>3, <1>4, <1>5, <1>6 DEF TypeOK, AfterCopy
<1>8. WireOK'
  BY <1>1, <1>4, <1>6, WireStays
<1>9. BuffersOK'
  <2>1. ASSUME NEW i \in 1 .. Len(data')
        PROVE  data'[i] = Stream(Len(prefix) + Len(payload) + i)
    <3>1. CASE i <= Len(data)
      BY <1>5, <1>6, <3>1 DEF StreamInv, BuffersOK
    <3>2. CASE i > Len(data)
      <4>1. i - Len(data) \in 1 .. n
            /\ Got + (i - Len(data)) = Len(prefix) + Len(payload) + i
        BY <1>4, <1>5, <1>6, <3>2 DEF Got
      <4>2. QED
        BY <1>4, <1>5, <1>6, <3>2, <4>1
    <3>3. QED
      BY <1>6, <3>1, <3>2
  <2>2. QED
    BY <1>1, <2>1, StreamStays DEF StreamInv, BuffersOK
<1>10. receiver' # "data" =>
         broken /\ (receiver' = "failed" => role = "client")
                /\ (receiver' = "returned" => role = "node")
  <2>1. SUFFICES ASSUME n = 0, ~broken PROVE FALSE
    BY <1>1, <1>3 DEF AfterCopy, TypeOK
  <2>2. Got = Written /\ Written = PrefixLength + size + dataSize
    BY <1>4, <2>1, GotType DEF StreamInv, WireOK, Written, Got
  <2>3. Got = PrefixLength + size + Len(data)
    BY <1>1, WholePrefix DEF StreamInv, Got
  <2>4. QED
    BY <1>1, <1>2, <1>6, <2>2, <2>3, StreamShape, GotType
<1>11. ReceiverOK'
  BY <1>1, <1>3, <1>10, StreamStays, SizeType DEF StreamInv, ReceiverOK, Short, AfterCopy, payloadSize
<1>12. QED
  BY <1>7, <1>8, <1>9, <1>11 DEF StreamInv

LEMMA ReturnStays ==
  ASSUME StreamInv, Return
  PROVE  StreamInv'
<1>1. /\ receiver = "data" /\ receiver' = "returned" /\ Len(data) = dataSize
      /\ UNCHANGED <<role, size, dataSize, sender, broken, wire, prefix, payload, data>>
  BY DEF Return
<1>2. ReceiverOK'
  BY <1>1 DEF StreamInv, ReceiverOK, Short, payloadSize
<1>3. QED
  BY <1>1, <1>2, NothingRead DEF StreamInv

-----------------------------------------------------------------------------
(* The theorems. *)

LEMMA InitStream == Init => StreamInv
<1> SUFFICES ASSUME Init PROVE StreamInv
  OBVIOUS
<1>2. TypeOK
  <2>1. <<>> \in Seq(Byte) /\ Len(<<>>) = 0
    OBVIOUS
  <2>2. dataSize \in Nat /\ PrefixLength \in Nat
    BY FramingAssumption DEF Init
  <2>3. /\ prefix = <<>> /\ payload = <<>> /\ data = <<>> /\ wire = <<>>
        /\ receiver = "prefix" /\ sender = "prefix" /\ broken = FALSE
        /\ size \in Sizes /\ dataSize \in DataSizes /\ role \in {"client", "node"}
    BY DEF Init
  <2> HIDE DEF Byte
  <2>4. /\ wire \in Seq(Byte) /\ prefix \in Seq(Byte) /\ payload \in Seq(Byte)
        /\ data \in Seq(Byte) /\ Len(prefix) <= PrefixLength /\ Len(data) <= dataSize
    BY <2>1, <2>2, <2>3
  <2>5. QED
    BY <2>3, <2>4 DEF TypeOK
<1>3. /\ Len(prefix) = 0 /\ Len(payload) = 0 /\ Len(data) = 0 /\ Len(wire) = 0
      /\ payloadSize \in Nat
  BY <1>2, SizeType DEF Init
<1>4. WireOK /\ BuffersOK /\ ReceiverOK
  BY <1>3, GotType, <1>2 DEF Init, WireOK, BuffersOK, ReceiverOK, Got, Written, Short
<1>5. QED
  BY <1>2, <1>4 DEF StreamInv

LEMMA NextStream == StreamInv /\ [Next]_vars => StreamInv'
<1>1. ASSUME StreamInv, UNCHANGED vars
      PROVE  StreamInv'
  BY <1>1, StreamStays DEF vars, StreamInv, TypeOK, WireOK, BuffersOK, ReceiverOK,
     Got, Written, Short, payloadSize
<1>2. QED
  BY <1>1, SenderStays, BreakStays, ReadPrefixStays, ReadPayloadStays, ReceiveStays,
     CopyDataStays, ReturnStays DEF Next, Receiver

LEMMA AlwaysStream == Spec => []StreamInv
BY InitStream, NextStream, PTL DEF Spec

\* Buffers hold bytes, a prefix of its length at most, no more data than sent.
THEOREM TypeCorrect == Spec => []TypeOK
<1>1. StreamInv => TypeOK
  BY DEF StreamInv
<1>2. QED
  BY <1>1, AlwaysStream, PTL

\* A message is handled only as it was sent, and the data after it as they begin,
\* however the stream is split or broken, if its prefix came in one piece.
THEOREM MessagesFramed == Spec => []Framed
<1>1. StreamInv => Framed
  <2>1. SUFFICES ASSUME StreamInv, receiver \notin {"prefix", "payload"}, ~Short
                 PROVE  payload = Message /\ IsPrefix(data, Data)
    BY DEF Framed
  <2>2. /\ TypeOK /\ BuffersOK /\ Len(payload) = payloadSize
        /\ Len(prefix) = PrefixLength /\ payloadSize = size /\ payload = Message
    BY <2>1, WholePrefix DEF StreamInv, ReceiverOK
  <2>3. /\ data \in Seq(Byte) /\ Data \in Seq(Byte) /\ Len(data) <= Len(Data)
        /\ \A i \in 1 .. Len(data) : data[i] = Data[i]
    BY <2>2, StreamShape, StreamParts DEF TypeOK, BuffersOK
  <2>4. SubSeq(data, 1, Len(data)) = SubSeq(Data, 1, Len(data))
    <3>1. /\ SubSeq(data, 1, Len(data)) \in Seq(Byte)
          /\ SubSeq(Data, 1, Len(data)) \in Seq(Byte)
          /\ Len(SubSeq(data, 1, Len(data))) = Len(SubSeq(Data, 1, Len(data)))
          /\ \A i \in 1 .. Len(SubSeq(data, 1, Len(data))) :
               SubSeq(data, 1, Len(data))[i] = SubSeq(Data, 1, Len(data))[i]
      BY <2>3
    <3>2. QED
      BY <3>1, SameBytes
  <2>5. QED
    BY <2>2, <2>3, <2>4 DEF IsPrefix
<1>2. QED
  BY <1>1, AlwaysStream, PTL

\* No data are copied for what a prefix in pieces announces; a client goes on only
\* with all of the data, a storage node with a part of them only if the connection
\* broke (client.go:258-259, storagenode.go:57-60).
THEOREM DataCopied == Spec => []CopiedWhole
<1>1. StreamInv => CopiedWhole
  <2>1. SUFFICES ASSUME StreamInv, receiver = "returned", ~Short,
                        ~(role = "node" /\ broken)
                 PROVE  data = Data
    BY DEF StreamInv, ReceiverOK, CopiedWhole
  <2>2. /\ TypeOK /\ BuffersOK /\ Len(payload) = payloadSize /\ Len(data) = dataSize
        /\ Len(prefix) = PrefixLength /\ payloadSize = size
    BY <2>1, WholePrefix DEF StreamInv, ReceiverOK
  <2>3. /\ data \in Seq(Byte) /\ Data \in Seq(Byte) /\ Len(data) = Len(Data)
        /\ \A i \in 1 .. Len(data) : data[i] = Data[i]
    BY <2>2, StreamShape, StreamParts DEF TypeOK, BuffersOK
  <2>4. QED
    BY <2>3, SameBytes
<1>2. QED
  BY <1>1, AlwaysStream, PTL

=============================================================================
