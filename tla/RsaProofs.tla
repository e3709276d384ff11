------------------------------ MODULE RsaProofs ------------------------------
(***************************************************************************)
(* Proofs about Rsa, for every value of its constants: what montLadExp,    *)
(* millerRabin and extendedEuclidean compute is what their names say, and  *)
(* so the keys are made of primes and a message comes back.                *)
(***************************************************************************)
EXTENDS Rsa, BigMathsProofs

-----------------------------------------------------------------------------
(* Numbers of len words, and the lengths that keys have                    *)
Words(len) == [1..len -> Word]
Lengths == {PowerOfTwo[k] : k \in Nat}

LEMMA WordsAre ==
  ASSUME NEW len \in Nat \ {0}, NEW x \in Words(len)
  PROVE  /\ x \in Numeral /\ x \in Seq(Word) /\ Len(x) = len /\ x # Exit
         /\ Value(x) \in Nat /\ Value(x) \in Int /\ Value(x) < Room[len]
  <1>1. x \in Seq(Word) /\ Len(x) = len
    <2> HIDE DEF Word
    <2> QED
      BY DEF Words
  <1>2. x # Exit
    <2>1. Len(Exit) = 0
      BY DEF Exit
    <2> QED
      BY <1>1, <2>1
  <1>3. x \in Numeral
    BY <1>1, <1>2 DEF Numeral, Exit
  <1>4. Value(x) \in 0..Room[len]-1
    BY <1>1, len \in Nat, len <= len, ValueFits
  <1>5. Room[len] \in Nat
    BY RoomIsNat
  <1> QED
    BY <1>1, <1>2, <1>3, <1>4, <1>5

LEMMA WordsIfLen ==
  ASSUME NEW x \in Seq(Word), NEW len, Len(x) = len
  PROVE  x \in Words(len)
  BY DEF Words

LEMMA LengthsAre ==
  ASSUME NEW len \in Lengths
  PROVE  len \in Nat \ {0} /\ \E k \in Nat : len = PowerOfTwo[k]
  BY PowerRule DEF Lengths

(* What Holds says of words                                                *)
LEMMA HoldsWords ==
  ASSUME NEW len \in Nat \ {0}, NEW x, NEW v \in Int, Holds(x, v, len), x # Exit
  PROVE  x \in Words(len) /\ Value(x) = v /\ v < Room[len]
  <1>1. v \in 0..Room[len]-1 /\ x \in Seq(Word) /\ Len(x) = len /\ Value(x) = v
    BY DEF Holds
  <1>2. Room[len] \in Nat
    BY RoomIsNat
  <1> QED
    BY <1>1, <1>2, WordsIfLen

LEMMA HoldsFits ==
  ASSUME NEW len \in Nat \ {0}, NEW x, NEW v \in Nat, Holds(x, v, len), v < Room[len]
  PROVE  x \in Words(len) /\ Value(x) = v
  <1>1. v \in 0..Room[len]-1
    BY RoomIsNat
  <1>2. x \in Seq(Word) /\ Len(x) = len /\ Value(x) = v
    BY <1>1 DEF Holds
  <1> QED
    BY <1>2, WordsIfLen

(* Different words of one length stand for different numbers.              *)
LEMMA ValueTells ==
  ASSUME NEW len \in Nat \ {0}, NEW x \in Words(len), NEW y \in Words(len), Value(x) = Value(y)
  PROVE  x = y
  <1> SUFFICES ASSUME x # y
               PROVE  FALSE
    OBVIOUS
  <1> DEFINE D == {i \in 1..len : x[i] # y[i]}
  <1>1. x \in [1..len -> Word] /\ y \in [1..len -> Word]
    BY DEF Words
  <1>2. \E i \in 1..len : i \in D
    BY <1>1
  <1>3. PICK first \in 1..len : first \in D /\ \A j \in 1..first-1 : j \notin D
    <2> HIDE DEF D
    <2> QED
      BY <1>2, FirstExists
  <1>4. \A i \in 1..first-1 : x[i] = y[i]
    BY <1>3
  <1>5. x[first] # y[first] /\ x[first] \in Int /\ y[first] \in Int
    BY <1>1, <1>3, BaseRule DEF Word
  <1>6. Value(x) = Sums(x, len)[len] /\ Value(y) = Sums(y, len)[len]
    BY WordsAre, ValueIsSum
  <1> DEFINE u == Value(x)
  <1>7. u \in Int
    BY WordsAre
  <1>8. ASSUME x[first] < y[first]
        PROVE  FALSE
    <2>1. Sums(x, len)[len] < Sums(y, len)[len]
      BY <1>1, <1>4, <1>8, len \in Nat, SumsLess
    <2>2. u < u
      BY <1>6, <2>1 DEF u
    <2> HIDE DEF u
    <2> QED
      BY <1>7, <2>2
  <1>9. ASSUME y[first] < x[first]
        PROVE  FALSE
    <2>1. \A i \in 1..first-1 : y[i] = x[i]
      BY <1>4
    <2>2. Sums(y, len)[len] < Sums(x, len)[len]
      BY <1>1, <2>1, <1>9, len \in Nat, SumsLess
    <2>3. u < u
      BY <1>6, <2>2 DEF u
    <2> HIDE DEF u
    <2> QED
      BY <1>7, <2>3
  <1> QED
    BY <1>5, <1>8, <1>9

(* bigNumCmpLittle compares with the number of one word.                   *)
LEMMA CmpLittleExact ==
  ASSUME NEW len \in Nat \ {0}, NEW x \in Words(len), NEW w \in Word
  PROVE  /\ CmpLittle(x, w) = 1 <=> Value(x) > w
         /\ CmpLittle(x, w) = 0 <=> Value(x) = w
  <1>1. x \in Numeral /\ Len(x) = len /\ Value(x) \in Nat /\ x \in [1..len -> Word]
    BY WordsAre DEF Words
  <1>2. Base \in Nat /\ Base >= 2 /\ w \in 0..Base-1 /\ x[len] \in 0..Base-1
    BY <1>1, BaseRule DEF Word
  <1> DEFINE high == Sums(x, len)[len-1]
             last == x[len]
  <1>3. Value(x) = high * Base + last /\ high \in Int
    BY <1>1, LastWord
  <1>4. high \in 0..Room[len-1]-1
    <2>1. len - 1 \in 0..len /\ len \in Nat
      OBVIOUS
    <2> QED
      BY <1>1, <2>1, SumsFit
  <1>5. high >= 0
    <2>1. len - 1 \in Nat
      OBVIOUS
    <2>2. Room[len-1] \in Nat
      BY <2>1, RoomIsNat
    <2> QED
      BY <1>4, <2>2
  <1>6. CASE \E i \in 1..len-1 : x[i] # 0
    <2>1. CmpLittle(x, w) = 1
      BY <1>1, <1>6 DEF CmpLittle
    <2>2. high # 0
      <3> DEFINE y == SubSeq(x, 1, len - 1)
      <3>1. PICK i \in 1..len-1 : x[i] # 0
        BY <1>6
      <3>2. len - 1 \in Nat \ {0} /\ len - 1 \in 0..len
        OBVIOUS
      <3>3. y \in Seq(Word) /\ Len(y) = len - 1 /\ \A j \in 1..len-1 : y[j] = x[j]
        <4> HIDE DEF Word
        <4> QED
          BY <1>1
      <3> HIDE DEF y
      <3>4. y \in Numeral /\ y[i] # 0 /\ i \in 1..Len(y)
        <4>1. y # <<>>
          BY <3>2, <3>3
        <4> QED
          BY <3>1, <3>3, <4>1 DEF Numeral
      <3>5. Value(y) \in Nat \ {0}
        BY <3>4, ValuePositive
      <3>6. Value(y) = Sums(y, len - 1)[len-1] /\ y \in [1..len-1 -> Int]
        BY <3>3, ValueIsSum
      <3>7. x \in [1..len -> Int]
        BY <1>1, ValueIsSum
      <3>8. Sums(x, len)[len-1] = Sums(y, len - 1)[len-1]
        <4>1. \A j \in 1..len-1 : x[j] = y[j]
          BY <3>3
        <4> QED
          BY <3>2, <3>6, <3>7, <4>1, len \in Nat, SumsPrefix
      <3> QED
        BY <3>5, <3>6, <3>8
    <2>3. high * Base + last > w
      <3> HIDE DEF high, last
      <3>1. high >= 1
        BY <1>3, <1>5, <2>2
      <3>2. high * Base >= Base
        BY <1>2, <1>3, <3>1
      <3>3. high * Base \in Int /\ last \in Nat
        BY <1>2, <1>3 DEF last
      <3> QED
        BY <1>2, <3>2, <3>3
    <2>4. Value(x) > w
      BY <1>3, <2>3
    <2> QED
      BY <1>1, <1>2, <2>1, <2>4
  <1>7. CASE \A i \in 1..len-1 : x[i] = 0
    <2>1. high = 0
      <3>1. len - 1 \in 0..len /\ len \in Nat
        OBVIOUS
      <3>2. x \in [1..len -> Int]
        BY <1>1, ValueIsSum
      <3> QED
        BY <1>7, <3>1, <3>2, ZeroSums
    <2>2. Value(x) = last
      <3>1. 0 * Base + last = last
        BY <1>2
      <3> QED
        BY <1>3, <2>1, <3>1
    <2>3. CmpLittle(x, w) = Cmp(<<last>>, <<w>>)
      BY <1>1, <1>7 DEF CmpLittle
    <2>4. <<last>> \in Seq(Word) /\ <<w>> \in Seq(Word) /\ Value(<<last>>) = last /\ Value(<<w>>) = w
      <3>1. last \in Word
        BY <1>1
      <3> QED
        BY <3>1, ValueOfOne
    <2>5. Cmp(<<last>>, <<w>>) = 0 <=> last = w
      <3>1. Cmp(<<last>>, <<w>>) = 0 <=> At(<<last>>, 1, 1) = At(<<w>>, 1, 1)
        <4> DEFINE a == <<last>>
                   b == <<w>>
        <4>1. MaxLen(a, b) = 1
          BY DEF MaxLen
        <4>2. \A i \in 1..1 : i = 1
          OBVIOUS
        <4> HIDE DEF a, b
        <4>3. Cmp(a, b) = 0 <=> At(a, 1, 1) = At(b, 1, 1)
          BY <4>1, <4>2 DEF Cmp
        <4> QED
          BY <4>3 DEF a, b
      <3>2. At(<<last>>, 1, 1) = last /\ At(<<w>>, 1, 1) = w
        BY DEF At
      <3> QED
        BY <3>1, <3>2
    <2>6. Cmp(<<last>>, <<w>>) = -1 <=> last < w
      BY <2>4, CmpExact
    <2>7. Cmp(<<last>>, <<w>>) \in {-1, 0, 1}
      BY <2>4, CmpExact
    <2> HIDE DEF last
    <2> DEFINE c == Cmp(<<last>>, <<w>>)
    <2>8. (c = 0 <=> last = w) /\ (c = -1 <=> last < w) /\ c \in {-1, 0, 1}
      BY <2>5, <2>6, <2>7
    <2> HIDE DEF c
    <2>9. c = 1 <=> last > w
      BY <1>2, <2>8 DEF last
    <2> QED
      BY <2>2, <2>3, <2>8, <2>9 DEF c
  <1> QED
    BY <1>6, <1>7

-----------------------------------------------------------------------------
(* bigNumMult into twice the length of its longer operand, and its product *)
(* modulo a number of that length                                          *)
LEMMA MultInto ==
  ASSUME NEW len \in Lengths, NEW x \in Numeral, NEW y \in Numeral, Len(x) <= len, Len(y) = len
  PROVE  LET t == Mult(x, y, 2 * len)
             u == Mult(y, x, 2 * len)
         IN  /\ t = Exit \/ (t \in Words(2 * len) /\ Value(t) = Value(x) * Value(y))
             /\ u = Exit \/ (u \in Words(2 * len) /\ Value(u) = Value(x) * Value(y))
  <1>1. PICK k \in Nat : len = PowerOfTwo[k]
    BY DEF Lengths
  <1>2. len \in Nat \ {0} /\ 2 * len \in Nat \ {0} /\ W >= 2
    BY LengthsAre, KeyAssumption
  <1>3. Len(x) \in Nat \ {0} /\ x # Exit /\ y # Exit
    BY NumeralLen
  <1>4. MaxLen(x, y) = len /\ MaxLen(y, x) = len
    BY <1>2, <1>3 DEF MaxLen
  <1>5. /\ IsProduct(LongProduct[<<x, y>>], x, y, len)
        /\ IsProduct(LongProduct[<<y, x>>], y, x, len)
    BY <1>1, <1>2, <1>4, ProductsRule
  <1>6. ~(2 * len < Len(x) + Len(y)) /\ ~(2 * len < Len(y) + Len(x))
    BY <1>2, <1>3
  <1>7. ASSUME NEW c, c = Exit \/ (c \in Seq(Word) /\ Len(c) = 2 * len)
        PROVE  Low(c, 2 * len) = c
    <2>1. CASE c = Exit
      BY <2>1 DEF Low
    <2>2. CASE c # Exit
      <3>1. c \in Seq(Word) /\ Len(c) = 2 * len
        BY <1>7, <2>2
      <3>2. Low(c, 2 * len) = SubSeq(c, Len(c) - 2 * len + 1, Len(c))
        BY <2>2 DEF Low
      <3>3. Len(c) - 2 * len + 1 = 1
        BY <1>2, <3>1
      <3>4. SubSeq(c, 1, Len(c)) = c
        <4> HIDE DEF Word
        <4> QED
          BY <3>1
      <3> QED
        BY <3>2, <3>3, <3>4
    <2> QED
      BY <2>1, <2>2
  <1>8. /\ Mult(x, y, 2 * len) = Low(LongProduct[<<x, y>>], 2 * len)
        /\ Mult(y, x, 2 * len) = Low(LongProduct[<<y, x>>], 2 * len)
    BY <1>3, <1>6 DEF Mult
  <1> DEFINE c == LongProduct[<<x, y>>]
             d == LongProduct[<<y, x>>]
  <1>9. IsProduct(c, x, y, len) /\ IsProduct(d, y, x, len)
    BY <1>5
  <1>10. Mult(x, y, 2 * len) = Low(c, 2 * len) /\ Mult(y, x, 2 * len) = Low(d, 2 * len)
    BY <1>8
  <1> HIDE DEF c, d
  <1>11. /\ c = Exit \/ (c \in Seq(Word) /\ Len(c) = 2 * len /\ Value(c) = Value(x) * Value(y))
         /\ d = Exit \/ (d \in Seq(Word) /\ Len(d) = 2 * len /\ Value(d) = Value(y) * Value(x))
    BY <1>9 DEF IsProduct
  <1>12. Low(c, 2 * len) = c /\ Low(d, 2 * len) = d
    BY <1>7, <1>11
  <1>13. Value(y) * Value(x) = Value(x) * Value(y)
    <2>1. Value(x) \in Nat /\ Value(y) \in Nat
      BY CmpExact DEF Numeral
    <2> QED
      BY <2>1
  <1>14. c # Exit => c \in Words(2 * len)
    BY <1>11, WordsIfLen
  <1>15. d # Exit => d \in Words(2 * len)
    BY <1>11, WordsIfLen
  <1> QED
    BY <1>10, <1>11, <1>12, <1>13, <1>14, <1>15

LEMMA ModInto ==
  ASSUME NEW len \in Nat \ {0}, NEW x \in Numeral, NEW m \in Words(len), Value(m) # 0,
         NEW dest \in Words(len)
  PROVE  Mod(x, m, dest) \in Words(len) /\ Value(Mod(x, m, dest)) = Value(x) % Value(m)
  <1>1. m \in Numeral /\ Len(m) = len /\ Value(m) \in Nat \ {0} /\ Value(m) < Room[len]
        /\ Value(m) \in Nat
    BY WordsAre
  <1>2. Len(dest) = len /\ x # Exit /\ Value(x) \in Nat
    BY WordsAre, NumeralLen, CmpExact
  <1>3. Holds(Mod(x, m, Zero(len)), Value(x) % Value(m), len)
    BY <1>1, DivExact
  <1>4. Mod(x, m, dest) = Mod(x, m, Zero(len))
    <2> DEFINE rem == Remainders(x, m)[W * Len(x)]
    <2>1. Len(Zero(len)) = len
      BY DEF Zero
    <2>2. len - len = 0 /\ \A i \in 1..len : ~(i <= 0)
      OBVIOUS
    <2>3. Mod(x, m, dest) = PutLast(rem, dest, 0) /\ Mod(x, m, Zero(len)) = PutLast(rem, Zero(len), 0)
      BY <1>1, <1>2, <2>1, <2>2 DEF Mod
    <2> HIDE DEF rem
    <2>4. ASSUME NEW d, Len(d) = len
          PROVE  PutLast(rem, d, 0) = IF rem = Exit THEN Exit ELSE [i \in 1..len |-> rem[i-0+1]]
      BY <2>2, <2>4 DEF PutLast
    <2> QED
      BY <1>2, <2>1, <2>3, <2>4
  <1> DEFINE v == Value(x) % Value(m)
  <1>5. v \in Nat /\ v < Value(m)
    <2>1. v \in 0..Value(m)-1
      BY <1>1, <1>2, Value(x) \in Int, Division
    <2> HIDE DEF v
    <2> QED
      BY <1>1, <2>1
  <1>6. v < Room[len]
    <2>1. Room[len] \in Nat
      BY RoomIsNat
    <2> QED
      BY <1>1, <1>5, <2>1
  <1>7. Holds(Mod(x, m, Zero(len)), v, len)
    BY <1>3
  <1> HIDE DEF v
  <1>8. Mod(x, m, Zero(len)) \in Words(len) /\ Value(Mod(x, m, Zero(len))) = v
    BY <1>5, <1>6, <1>7, HoldsFits
  <1> QED
    BY <1>4, <1>8 DEF v

(* A product modulo m, or Exit                                             *)
IsModProduct(t, x, y, m, len) ==
  /\ t \in Words(len) \cup {Exit}
  /\ t # Exit => x # Exit /\ y # Exit /\ Value(t) = (Value(x) * Value(y)) % Value(m)

LEMMA ModTimesInto ==
  ASSUME NEW len \in Lengths, NEW x \in Numeral, NEW y \in Numeral, Len(x) <= len, Len(y) = len,
         NEW m \in Words(len), Value(m) # 0, NEW dest \in Words(len)
  PROVE  /\ IsModProduct(ModMultBuff(x, y, m, 2 * len, dest), x, y, m, len)
         /\ IsModProduct(ModMultBuff(y, x, m, 2 * len, dest), x, y, m, len)
  <1>1. len \in Nat \ {0} /\ 2 * len \in Nat \ {0}
    BY LengthsAre
  <1>2. x # Exit /\ y # Exit
    BY NumeralLen
  <1>3. ASSUME NEW t, t = Exit \/ (t \in Words(2 * len) /\ Value(t) = Value(x) * Value(y))
        PROVE  IsModProduct(Mod(t, m, dest), x, y, m, len)
    <2>1. CASE t = Exit
      BY <2>1 DEF Mod, IsModProduct
    <2>2. CASE t # Exit
      <3>1. t \in Numeral /\ Value(t) = Value(x) * Value(y)
        BY <1>1, <1>3, <2>2, WordsAre
      <3>2. Mod(t, m, dest) \in Words(len) /\ Value(Mod(t, m, dest)) = Value(t) % Value(m)
        BY <1>1, <3>1, ModInto
      <3> QED
        BY <1>2, <3>1, <3>2 DEF IsModProduct
    <2> QED
      BY <2>1, <2>2
  <1> DEFINE t == Mult(x, y, 2 * len)
             u == Mult(y, x, 2 * len)
  <1>4. t = Exit \/ (t \in Words(2 * len) /\ Value(t) = Value(x) * Value(y))
    BY MultInto
  <1>5. u = Exit \/ (u \in Words(2 * len) /\ Value(u) = Value(x) * Value(y))
    BY MultInto
  <1>6. ModMultBuff(x, y, m, 2 * len, dest) = Mod(t, m, dest)
        /\ ModMultBuff(y, x, m, 2 * len, dest) = Mod(u, m, dest)
    BY DEF ModMultBuff
  <1> HIDE DEF t, u
  <1> QED
    BY <1>3, <1>4, <1>5, <1>6

(* The same where what is computed from Exit is Exit                       *)
LEMMA ModTimesAny ==
  ASSUME NEW len \in Lengths, NEW x \in Words(len) \cup {Exit}, NEW y \in Words(len) \cup {Exit},
         NEW m \in Words(len), Value(m) # 0, NEW dest \in Words(len) \cup {Exit},
         dest = Exit => Exit \in {x, y}
  PROVE  IsModProduct(ModMultBuff(x, y, m, 2 * len, dest), x, y, m, len)
  <1>1. len \in Nat \ {0} /\ len <= len
    BY LengthsAre
  <1>2. CASE Exit \in {x, y}
    <2>1. ModMultBuff(x, y, m, 2 * len, dest) = Exit
      BY <1>2 DEF ModMultBuff, Mult, Mod
    <2> QED
      BY <2>1 DEF IsModProduct
  <1>3. CASE Exit \notin {x, y}
    <2>1. x \in Words(len) /\ y \in Words(len) /\ dest \in Words(len)
      BY <1>3
    <2>2. x \in Numeral /\ Len(x) = len /\ y \in Numeral /\ Len(y) = len
      BY <1>1, <2>1, WordsAre
    <2>3. Len(x) <= len
      BY <1>1, <2>2
    <2> QED
      BY <2>1, <2>2, <2>3, ModTimesInto
  <1> QED
    BY <1>2, <1>3

-----------------------------------------------------------------------------
(* The ladder                                                              *)
LadderStates(len) == [started : BOOLEAN, x1 : Words(len) \cup {Exit}, x2 : Words(len) \cup {Exit}]

LEMMA AlignedSame ==
  ASSUME NEW len \in Nat \ {0}, NEW x \in Words(len)
  PROVE  Aligned(x, len) = x
  <1>1. x \in Seq(Word) /\ Len(x) = len /\ len \in Nat /\ Len(x) <= len
    BY WordsAre
  <1>2. Aligned(x, len) \in Words(len) /\ Value(Aligned(x, len)) = Value(x)
    BY <1>1, PaddedValue, WordsIfLen
  <1> QED
    BY <1>2, ValueTells

LEMMA LadderSteps ==
  ASSUME NEW len \in Lengths, NEW m \in Words(len), Value(m) # 0,
         NEW s \in LadderStates(len), NEW bit \in {0, 1}
  PROVE  LET t == LadderStep(s, bit, m, len)
         IN  /\ t \in LadderStates(len)
             /\ ~s.started => t.started = (bit = 1) /\ t.x1 = s.x1 /\ t.x2 = s.x2
             /\ s.started /\ bit = 1 =>
                  /\ t.started
                  /\ IsModProduct(t.x1, s.x1, s.x2, m, len) /\ IsModProduct(t.x2, s.x2, s.x2, m, len)
             /\ s.started /\ bit = 0 =>
                  /\ t.started
                  /\ IsModProduct(t.x2, s.x2, s.x1, m, len) /\ IsModProduct(t.x1, s.x1, s.x1, m, len)
  <1> DEFINE W1 == Words(len) \cup {Exit}
             Times(x, y, dest) == ModMultBuff(x, y, m, 2 * len, dest)
             t == LadderStep(s, bit, m, len)
             al == Aligned(s.x2, len)
  <1>1. s.started \in BOOLEAN /\ s.x1 \in W1 /\ s.x2 \in W1
        /\ s = [started |-> s.started, x1 |-> s.x1, x2 |-> s.x2]
    BY DEF LadderStates
  <1>2. /\ IsModProduct(Times(s.x1, s.x2, s.x1), s.x1, s.x2, m, len)
        /\ IsModProduct(Times(s.x2, s.x1, s.x2), s.x2, s.x1, m, len)
        /\ IsModProduct(Times(s.x1, s.x1, s.x1), s.x1, s.x1, m, len)
    BY <1>1, ModTimesAny
  <1>3. IsModProduct(Times(s.x2, al, s.x2), s.x2, s.x2, m, len)
    <2>1. CASE s.x2 = Exit
      <3>1. Times(s.x2, al, s.x2) = Exit
        BY <2>1 DEF ModMultBuff, Mult, Mod
      <3> QED
        BY <3>1 DEF IsModProduct
    <2>2. CASE s.x2 # Exit
      <3>1. s.x2 \in Words(len) /\ len \in Nat \ {0}
        BY <1>1, <2>2, LengthsAre
      <3>2. al = s.x2
        BY <3>1, AlignedSame
      <3>3. IsModProduct(Times(s.x2, s.x2, s.x2), s.x2, s.x2, m, len)
        BY <1>1, ModTimesAny
      <3> QED
        BY <3>2, <3>3
    <2> QED
      BY <2>1, <2>2
  <1>4. CASE ~s.started
    <2>1. t = [s EXCEPT !.started = (bit = 1)]
      BY <1>4 DEF LadderStep
    <2>2. t.started = (bit = 1) /\ t.x1 = s.x1 /\ t.x2 = s.x2 /\ t \in LadderStates(len)
      BY <1>1, <2>1 DEF LadderStates
    <2> QED
      BY <1>4, <2>2
  <1>5. CASE s.started /\ bit = 1
    <2> DEFINE a == Times(s.x1, s.x2, s.x1)
               b == Times(s.x2, al, s.x2)
    <2>1. t = [s EXCEPT !.x1 = a, !.x2 = b]
      BY <1>5 DEF LadderStep
    <2>2. a \in W1 /\ b \in W1
      BY <1>2, <1>3 DEF IsModProduct
    <2> HIDE DEF a, b, t
    <2>3. t.started /\ t.x1 = a /\ t.x2 = b /\ t \in LadderStates(len)
      BY <1>1, <1>5, <2>1, <2>2 DEF LadderStates
    <2> QED
      BY <1>2, <1>3, <1>5, <2>3 DEF a, b, t
  <1>6. CASE s.started /\ bit = 0
    <2> DEFINE a == Times(s.x1, s.x1, s.x1)
               b == Times(s.x2, s.x1, s.x2)
    <2>1. t = [s EXCEPT !.x2 = b, !.x1 = a]
      BY <1>6 DEF LadderStep
    <2>2. a \in W1 /\ b \in W1
      BY <1>2 DEF IsModProduct
    <2> HIDE DEF a, b, t
    <2>3. t.started /\ t.x1 = a /\ t.x2 = b /\ t \in LadderStates(len)
      BY <1>1, <1>6, <2>1, <2>2 DEF LadderStates
    <2> QED
      BY <1>2, <1>6, <2>3 DEF a, b, t
  <1> QED
    BY <1>1, <1>4, <1>5, <1>6

LadderStart(a, m, len) ==
  [started |-> FALSE, x1 |-> Aligned(a, len),
   x2 |-> ModMultBuff(a, Aligned(a, len), m, 2 * len, Zero(Len(m)))]

LEMMA LadderStarts ==
  ASSUME NEW len \in Lengths, NEW m \in Words(len), Value(m) # 0, NEW a \in Numeral, Len(a) <= len
  PROVE  LET s == LadderStart(a, m, len)
         IN  /\ s \in LadderStates(len) /\ s.started = FALSE
             /\ s.x1 \in Words(len) /\ Value(s.x1) = Value(a)
             /\ IsModProduct(s.x2, a, s.x1, m, len)
  <1> DEFINE x == Aligned(a, len)
             y == ModMultBuff(a, x, m, 2 * len, Zero(Len(m)))
  <1>1. len \in Nat \ {0} /\ len \in Nat /\ a \in Seq(Word)
    BY LengthsAre, NumeralLen
  <1>2. x \in Words(len) /\ Value(x) = Value(a)
    BY <1>1, PaddedValue, WordsIfLen
  <1>3. Zero(Len(m)) \in Words(len)
    <2>1. Len(m) = len /\ 0 \in Word
      BY <1>1, WordsAre, BaseRule DEF Word
    <2> QED
      BY <2>1 DEF Zero, Words
  <1>4. x \in Numeral /\ Len(x) = len
    BY <1>1, <1>2, WordsAre
  <1> HIDE DEF x
  <1>5. IsModProduct(y, a, x, m, len)
    BY <1>3, <1>4, ModTimesInto
  <1> HIDE DEF y
  <1>6. y \in Words(len) \cup {Exit}
    BY <1>5 DEF IsModProduct
  <1>7. LadderStart(a, m, len) = [started |-> FALSE, x1 |-> x, x2 |-> y]
    BY DEF LadderStart, x, y
  <1> QED
    BY <1>2, <1>5, <1>6, <1>7 DEF LadderStates

LEMMA LadderRule ==
  ASSUME NEW len \in Lengths, NEW m \in Words(len), Value(m) # 0, NEW a \in Numeral, Len(a) <= len,
         NEW e \in Seq(Word)
  PROVE  /\ Ladder(a, e, m) \in [0..W*Len(e) -> LadderStates(len)]
         /\ Ladder(a, e, m)[0] = LadderStart(a, m, len)
         /\ \A i \in 1..W*Len(e) :
              Ladder(a, e, m)[i] = LadderStep(Ladder(a, e, m)[i-1], Bit(e, i), m, len)
  <1> DEFINE total == W * Len(e)
             S == LadderStates(len)
             start == LadderStart(a, m, len)
             step == [i \in 1..total |-> [s \in S |-> LadderStep(s, Bit(e, i), m, len)]]
             lad == Ladder(a, e, m)
  <1>1. total \in Nat /\ total \in Int
    BY WordAssumption
  <1>2. start \in S
    BY LadderStarts
  <1>3. ASSUME NEW i \in 1..total, NEW s \in S
        PROVE  LadderStep(s, Bit(e, i), m, len) \in S
    <2>1. Bit(e, i) \in {0, 1}
      BY BitIsBit
    <2> QED
      BY <2>1, LadderSteps
  <1>4. PICK f \in [0..total -> S] : Follows(f, 0, total, start, step)
    <2>1. ASSUME NEW i \in 0+1..total, NEW s \in S
          PROVE  step[i][s] \in S
      <3>1. i \in 1..total
        OBVIOUS
      <3>2. step[i][s] = LadderStep(s, Bit(e, i), m, len)
        BY <3>1
      <3> QED
        BY <1>3, <3>1, <3>2
    <2> HIDE DEF step, S, total, start
    <2> QED
      BY <1>1, <1>2, <2>1, 0 \in Int, RecursionExists, Zenon
  <1>5. f[0] = start /\ \A i \in 1..total : f[i] = LadderStep(f[i-1], Bit(e, i), m, len)
    <2>1. ASSUME NEW i \in 1..total
          PROVE  f[i] = LadderStep(f[i-1], Bit(e, i), m, len)
      <3> HIDE DEF total, start, S
      <3>1. i \in 0+1..total /\ i - 1 \in 0..total
        BY <1>1
      <3>2. f[i-1] \in S
        BY <3>1
      <3>3. f[i] = step[i][f[i-1]]
        BY <1>4, <3>1 DEF Follows
      <3> QED
        BY <3>2, <3>3
    <2>2. f[0] = start
      <3> HIDE DEF total, start
      <3> QED
        BY <1>1, <1>4 DEF Follows
    <2> QED
      BY <2>1, <2>2
  <1> HIDE DEF step
  <1>6. f = [i \in 0..total |->
               IF i = 0 THEN start ELSE LadderStep(f[i-1], Bit(e, i), m, len)]
    <2> HIDE DEF total, start, S
    <2>1. \A i \in 0..total :
            f[i] = IF i = 0 THEN start ELSE LadderStep(f[i-1], Bit(e, i), m, len)
      BY <1>1, <1>5
    <2> QED
      BY <2>1
  <1>7. lad = [i \in 0..total |->
                 IF i = 0 THEN start ELSE LadderStep(lad[i-1], Bit(e, i), m, len)]
    <2>1. MaxLen(a, m) = len
      <3>1. Len(a) \in Nat /\ len \in Nat /\ Len(m) = len
        BY NumeralLen, LengthsAre, WordsAre
      <3> QED
        BY <3>1 DEF MaxLen
    <2> DEFINE IsLadder(g) == g = [i \in 0..total |->
                 IF i = 0 THEN start ELSE LadderStep(g[i-1], Bit(e, i), m, len)]
    <2>2. lad = CHOOSE g : IsLadder(g)
      BY <2>1 DEF Ladder, LadderStart
    <2>3. IsLadder(f)
      BY <1>6
    <2> HIDE DEF IsLadder, lad
    <2>4. IsLadder(lad)
      BY <2>2, <2>3
    <2> QED
      BY <2>4 DEF IsLadder
  <1> HIDE DEF lad, total, start, S
  <1>8. lad[0] = start /\ \A i \in 1..total : lad[i] = LadderStep(lad[i-1], Bit(e, i), m, len)
    <2>1. \A i \in 0..total :
            lad[i] = IF i = 0 THEN start ELSE LadderStep(lad[i-1], Bit(e, i), m, len)
      BY <1>7
    <2>2. 0 \in 0..total /\ \A i \in 1..total : i \in 0..total /\ i # 0
      BY <1>1
    <2> QED
      BY <2>1, <2>2
  <1>9. \A i \in 0..total : lad[i] \in S
    <2> DEFINE T == {i \in 0..total : lad[i] \in S}
    <2>1. 0 \in T
      BY <1>1, <1>2, <1>8
    <2>2. ASSUME NEW i \in 0..total-1, i \in T
          PROVE  i + 1 \in T
      <3>1. i + 1 \in 1..total /\ (i + 1) - 1 = i /\ i + 1 \in 0..total
        BY <1>1
      <3>2. lad[i+1] = LadderStep(lad[i], Bit(e, i + 1), m, len)
        BY <1>8, <3>1
      <3>3. LadderStep(lad[i], Bit(e, i + 1), m, len) \in S
        BY <1>3, <2>2, <3>1
      <3> QED
        BY <3>1, <3>2, <3>3
    <2>3. \A i \in 0..total : i \in T
      <3> HIDE DEF T
      <3> QED
        BY <1>1, <2>1, <2>2, 0 \in Int, RangeInduction, Zenon
    <2> QED
      BY <2>3
  <1>10. lad \in [0..total -> S]
    BY <1>7, <1>9
  <1> QED
    BY <1>8, <1>10 DEF lad, total, start, S

(* The number that the first i bits of e stand for                         *)
Read(e, i) == Joined(e, Len(e), WordParts(e), i)

LEMMA ReadRule ==
  ASSUME NEW e \in Seq(Word)
  PROVE  /\ Read(e, 0) = 0 /\ Read(e, W*Len(e)) = Value(e)
         /\ \A i \in 1..W*Len(e) : Read(e, i) = 2 * Read(e, i-1) + Bit(e, i)
         /\ \A i \in 0..W*Len(e) : Read(e, i) \in Nat
  <1> DEFINE total == W * Len(e)
             f == [i \in 0..total |-> Read(e, i)]
  <1>1. total \in Nat /\ total \in Int /\ Len(e) \in Nat
    BY WordAssumption
  <1>2. /\ e \in [1..Len(e) -> Int]
        /\ WordParts(e) \in [1..Len(e) -> [0..W -> Int]]
        /\ WordBits(e) \in [1..total -> Int]
        /\ IsJoined(e, Len(e), WordParts(e), WordBits(e))
    BY WordsJoined, ValueIsSum
  <1>3. /\ Read(e, 0) = 0 /\ Read(e, total) = Sums(e, Len(e))[Len(e)]
        /\ \A i \in 1..total : Read(e, i) = 2 * Read(e, i-1) + WordBits(e)[i]
    <2>1. /\ Joined(e, Len(e), WordParts(e), 0) = 0
          /\ Joined(e, Len(e), WordParts(e), total) = Sums(e, Len(e))[Len(e)]
          /\ \A i \in 1..total : Joined(e, Len(e), WordParts(e), i)
               = 2 * Joined(e, Len(e), WordParts(e), i - 1) + WordBits(e)[i]
      BY <1>1, <1>2, JoinedRule
    <2> HIDE DEF total
    <2> QED
      BY <2>1, Zenon DEF Read
  <1>4. \A i \in 1..total : WordBits(e)[i] = Bit(e, i) /\ Bit(e, i) \in {0, 1}
    BY BitIsBit DEF WordBits
  <1> HIDE DEF total
  <1>5. \A i \in 1..total : Read(e, i) = 2 * Read(e, i-1) + Bit(e, i)
    BY <1>3, <1>4
  <1>6. \A i \in 0..total : Read(e, i) \in Nat
    <2> DEFINE T == {i \in 0..total : Read(e, i) \in Nat}
    <2>1. 0 \in T
      BY <1>1, <1>3
    <2>2. ASSUME NEW i \in 0..total-1, i \in T
          PROVE  i + 1 \in T
      <3>1. i + 1 \in 1..total /\ (i + 1) - 1 = i /\ i + 1 \in 0..total
        BY <1>1
      <3>2. Read(e, i + 1) = 2 * Read(e, i) + Bit(e, i + 1) /\ Bit(e, i + 1) \in {0, 1}
        BY <1>4, <1>5, <3>1
      <3>3. Read(e, i) \in Nat
        BY <2>2
      <3>4. Read(e, i + 1) \in Nat
        BY <3>2, <3>3
      <3> QED
        BY <3>1, <3>4
    <2>3. \A i \in 0..total : i \in T
      <3> HIDE DEF T
      <3> QED
        BY <1>1, <2>1, <2>2, 0 \in Int, RangeInduction, Zenon
    <2> QED
      BY <2>3
  <1>7. Value(e) = Sums(e, Len(e))[Len(e)]
    BY ValueIsSum
  <1> QED
    BY <1>3, <1>5, <1>6, <1>7 DEF total

(* A product of numbers that are the same as u and w modulo m              *)
LEMMA ModProductSame ==
  ASSUME NEW len \in Nat \ {0}, NEW m \in Words(len), Value(m) # 0, NEW x, NEW y, NEW t,
         IsModProduct(t, x, y, m, len), t # Exit,
         Value(x) \in Nat, Value(y) \in Nat, NEW u \in Int, NEW w \in Int,
         Congruent(Value(x), u, Value(m)), Congruent(Value(y), w, Value(m))
  PROVE  /\ t \in Words(len) /\ Value(t) < Value(m) /\ Value(t) \in Nat
         /\ Congruent(Value(t), u * w, Value(m))
  <1> DEFINE big == Value(m)
             i == Value(x)
             j == Value(y)
             k == Value(t)
  <1>1. big \in Nat \ {0} /\ big \in Int
    BY WordsAre
  <1>2. t \in Words(len) /\ k = (i * j) % big
    BY DEF IsModProduct
  <1>3. i \in Int /\ j \in Int /\ Congruent(i, u, big) /\ Congruent(j, w, big)
    OBVIOUS
  <1> HIDE DEF big, i, j, k
  <1>4. Congruent(i * j, u * w, big)
    BY <1>1, <1>3, SameTimes
  <1>5. i * j \in Int /\ u * w \in Int
    BY <1>3
  <1>6. ((i * j) % big) \in 0..big-1 /\ Congruent((i * j) % big, i * j, big)
    BY <1>1, <1>5, SameRest
  <1>7. k \in 0..big-1 /\ Congruent(k, i * j, big)
    BY <1>2, <1>6
  <1>8. k \in Nat /\ k < big /\ k \in Int
    BY <1>1, <1>7
  <1>9. Congruent(k, u * w, big)
    BY <1>1, <1>4, <1>5, <1>7, <1>8, SameOn
  <1> QED
    BY <1>2, <1>8, <1>9 DEF big, k

(* x1 and x2 hold the powers k and k+1 of v.                               *)
Climbs(s, k, v, m) ==
  \/ Exit \in {s.x1, s.x2}
  \/ /\ Congruent(Value(s.x1), Powers(v)[k], Value(m)) /\ Congruent(Value(s.x2), Powers(v)[k+1], Value(m))
     /\ Value(s.x1) < Value(m) \/ Value(s.x1) = v

LEMMA ClimbsOn ==
  ASSUME NEW len \in Lengths, NEW m \in Words(len), Value(m) # 0,
         NEW s \in LadderStates(len), s.started, NEW bit \in {0, 1}, NEW v \in Nat, NEW k \in Nat,
         Climbs(s, k, v, m)
  PROVE  Climbs(LadderStep(s, bit, m, len), 2 * k + bit, v, m)
  <1> DEFINE t == LadderStep(s, bit, m, len)
             w == Powers(v)
             x == w[k]
             y == w[k+1]
  <1>1. len \in Nat \ {0} /\ v \in Int /\ k + 1 \in Nat /\ t \in LadderStates(len)
    BY LengthsAre, LadderSteps
  <1>2. /\ bit = 1 => IsModProduct(t.x1, s.x1, s.x2, m, len) /\ IsModProduct(t.x2, s.x2, s.x2, m, len)
        /\ bit = 0 => IsModProduct(t.x2, s.x2, s.x1, m, len) /\ IsModProduct(t.x1, s.x1, s.x1, m, len)
    BY LadderSteps
  <1> HIDE DEF t
  <1> SUFFICES ASSUME t.x1 # Exit, t.x2 # Exit
               PROVE  Climbs(t, 2 * k + bit, v, m)
    BY DEF Climbs, t
  <1>3. s.x1 # Exit /\ s.x2 # Exit
    BY <1>2 DEF IsModProduct
  <1>4. s.x1 \in Words(len) /\ s.x2 \in Words(len)
    BY <1>3 DEF LadderStates
  <1>5. Value(s.x1) \in Nat /\ Value(s.x2) \in Nat
    BY <1>1, <1>4, WordsAre
  <1>6. Congruent(Value(s.x1), x, Value(m)) /\ Congruent(Value(s.x2), y, Value(m))
    BY <1>3 DEF Climbs
  <1>7. x \in Int /\ y \in Int
    BY <1>1, PowerIsInt
  <1>8. w[k+k] = x * x /\ w[k+(k+1)] = x * y /\ w[(k+1)+(k+1)] = y * y
    <2>1. w[k+k] = w[k] * w[k]
      BY <1>1, PowersPlus, ZenonT(40)
    <2>2. w[k+(k+1)] = w[k] * w[k+1]
      BY <1>1, PowersPlus, ZenonT(40)
    <2>3. w[(k+1)+(k+1)] = w[k+1] * w[k+1]
      BY <1>1, PowersPlus, ZenonT(40)
    <2> QED
      BY <2>1, <2>2, <2>3
  <1> HIDE DEF w, x, y
  <1>9. CASE bit = 1
    <2>1. Value(t.x1) < Value(m) /\ Congruent(Value(t.x1), x * y, Value(m))
      BY <1>1, <1>2, <1>5, <1>6, <1>7, <1>9, ModProductSame
    <2>2. Congruent(Value(t.x2), y * y, Value(m))
      BY <1>1, <1>2, <1>5, <1>6, <1>7, <1>9, ModProductSame
    <2>3. k + (k + 1) = 2 * k + bit /\ (k + 1) + (k + 1) = (2 * k + bit) + 1
      BY <1>9
    <2> QED
      BY <1>8, <2>1, <2>2, <2>3 DEF Climbs, w
  <1>10. CASE bit = 0
    <2>1. Value(t.x1) < Value(m) /\ Congruent(Value(t.x1), x * x, Value(m))
      BY <1>1, <1>2, <1>5, <1>6, <1>7, <1>10, ModProductSame
    <2>2. Congruent(Value(t.x2), y * x, Value(m))
      BY <1>1, <1>2, <1>5, <1>6, <1>7, <1>10, ModProductSame
    <2>3. k + k = 2 * k + bit /\ k + (k + 1) = (2 * k + bit) + 1 /\ y * x = x * y
      BY <1>7, <1>10
    <2> QED
      BY <1>8, <2>1, <2>2, <2>3 DEF Climbs, w
  <1> QED
    BY <1>9, <1>10

(* After i bits; before the first bit of 1, x1 and x2 hold v and its square *)
Climbed(s, i, e, v, m) ==
  IF s.started THEN Read(e, i) >= 1 /\ Climbs(s, Read(e, i), v, m)
  ELSE Read(e, i) = 0 /\ Climbs(s, 1, v, m)

LEMMA LadderClimbs ==
  ASSUME NEW len \in Lengths, NEW m \in Words(len), Value(m) # 0, NEW a \in Numeral, Len(a) <= len,
         NEW e \in Seq(Word)
  PROVE  \A i \in 0..W*Len(e) : Climbed(Ladder(a, e, m)[i], i, e, Value(a), m)
  <1> DEFINE total == W * Len(e)
             lad == Ladder(a, e, m)
             v == Value(a)
             T == {i \in 0..total : Climbed(lad[i], i, e, v, m)}
  <1>1. total \in Nat /\ total \in Int /\ len \in Nat \ {0}
    BY WordAssumption, LengthsAre
  <1>2. v \in Nat /\ v \in Int
    BY CmpExact DEF Numeral
  <1>3. /\ lad \in [0..total -> LadderStates(len)] /\ lad[0] = LadderStart(a, m, len)
        /\ \A i \in 1..total : lad[i] = LadderStep(lad[i-1], Bit(e, i), m, len)
    BY LadderRule
  <1>4. /\ Read(e, 0) = 0
        /\ \A i \in 1..total : Read(e, i) = 2 * Read(e, i-1) + Bit(e, i)
        /\ \A i \in 0..total : Read(e, i) \in Nat
    BY ReadRule
  <1>5. \A i \in 1..total : Bit(e, i) \in {0, 1}
    BY BitIsBit
  <1> HIDE DEF lad, total, v
  <1>6. 0 \in T
    <2> DEFINE s == lad[0]
    <2>1. /\ s \in LadderStates(len) /\ s.started = FALSE
          /\ s.x1 \in Words(len) /\ Value(s.x1) = v
          /\ IsModProduct(s.x2, a, s.x1, m, len)
      <3> DEFINE st == LadderStart(a, m, len)
      <3>1. /\ st \in LadderStates(len) /\ st.started = FALSE
            /\ st.x1 \in Words(len) /\ Value(st.x1) = Value(a)
            /\ IsModProduct(st.x2, a, st.x1, m, len)
        BY LadderStarts
      <3>2. s = st
        BY <1>3
      <3> HIDE DEF s, st
      <3> QED
        BY <3>1, <3>2 DEF v
    <2>2. Value(m) \in Nat \ {0} /\ Value(m) \in Int
      BY <1>1, WordsAre
    <2>3. Congruent(v, v, Value(m))
      BY <1>2, <2>2, SameSelf
    <2>4. Powers(v)[1] = v /\ Powers(v)[1+1] = v * v
      BY <1>2, PowersRule, ZenonT(40)
    <2> HIDE DEF s
    <2>5. Climbs(s, 1, v, m)
      <3> SUFFICES ASSUME s.x2 # Exit
                   PROVE  Climbs(s, 1, v, m)
        BY DEF Climbs
      <3>1. Value(a) = v /\ Value(a) \in Nat /\ Value(s.x1) \in Nat
        BY <1>2, <2>1 DEF v
      <3>2. Congruent(Value(s.x2), v * v, Value(m))
        BY <1>1, <1>2, <2>1, <2>3, <3>1, ModProductSame
      <3> QED
        BY <2>1, <2>3, <2>4, <3>2 DEF Climbs
    <2>6. Climbed(s, 0, e, v, m)
      BY <1>4, <2>1, <2>5 DEF Climbed
    <2> QED
      BY <1>1, <2>6 DEF s
  <1>7. ASSUME NEW i \in 0..total-1, i \in T
        PROVE  i + 1 \in T
    <2> DEFINE s == lad[i]
               bit == Bit(e, i + 1)
               t == lad[i+1]
               k == Read(e, i)
    <2>1. i + 1 \in 1..total /\ i + 1 \in 0..total /\ (i + 1) - 1 = i /\ i \in 0..total
      BY <1>1
    <2>2. s \in LadderStates(len) /\ bit \in {0, 1} /\ t = LadderStep(s, bit, m, len)
      BY <1>3, <1>5, <2>1
    <2>3. k \in Nat /\ Read(e, i + 1) = 2 * k + bit
      BY <1>4, <2>1
    <2>4. Climbed(s, i, e, v, m)
      BY <1>7
    <2> HIDE DEF s, bit, t, k
    <2>5. Climbed(t, i + 1, e, v, m)
      <3>1. CASE s.started
        <4>1. k >= 1 /\ Climbs(s, k, v, m)
          BY <2>4, <3>1 DEF Climbed, k
        <4>2. Climbs(t, 2 * k + bit, v, m)
          BY <1>2, <2>2, <2>3, <3>1, <4>1, ClimbsOn
        <4>3. t.started
          BY <2>2, <3>1, LadderSteps
        <4>4. 2 * k + bit >= 1
          BY <2>2, <2>3, <4>1
        <4> QED
          BY <2>3, <4>2, <4>3, <4>4 DEF Climbed
      <3>2. CASE ~s.started
        <4>1. k = 0 /\ Climbs(s, 1, v, m)
          BY <2>4, <3>2 DEF Climbed, k
        <4>2. t.started = (bit = 1) /\ t.x1 = s.x1 /\ t.x2 = s.x2
          BY <2>2, <3>2, LadderSteps
        <4>3. Climbs(t, 1, v, m)
          BY <4>1, <4>2 DEF Climbs
        <4>4. Read(e, i + 1) = bit
          BY <2>2, <2>3, <4>1
        <4>5. CASE bit = 1
          <5>1. t.started
            BY <4>2, <4>5
          <5> QED
            BY <4>3, <4>4, <4>5, <5>1 DEF Climbed
        <4>6. CASE bit = 0
          <5>2. ~(bit = 1)
            BY <4>6
          <5>1. ~t.started
            BY <4>2, <5>2, Zenon
          <5> QED
            BY <4>3, <4>4, <4>6, <5>1 DEF Climbed
        <4> QED
          BY <2>2, <4>5, <4>6
      <3> QED
        BY <3>1, <3>2
    <2> QED
      BY <2>1, <2>5 DEF t
  <1>8. \A i \in 0..total : i \in T
    <2> HIDE DEF T
    <2> QED
      BY <1>1, <1>6, <1>7, 0 \in Int, RangeInduction, Zenon
  <1> QED
    BY <1>8 DEF total, lad, v

(* montLadExp returns a power modulo m, or exits.                          *)
LEMMA MontLadExpExact ==
  ASSUME NEW len \in Lengths, NEW m \in Words(len), Value(m) # 0, NEW a \in Numeral, Len(a) <= len,
         NEW e \in Seq(Word), Value(e) # 0, NEW r, r = MontLadExp(a, e, m), r # Exit
  PROVE  /\ r \in Words(len)
         /\ Congruent(Value(r), Powers(Value(a))[Value(e)], Value(m))
         /\ Value(r) < Value(m) \/ Value(r) = Value(a)
  <1> DEFINE total == W * Len(e)
             s == Ladder(a, e, m)[total]
  <1>1. total \in Nat /\ len \in Nat \ {0} /\ Len(m) = len
    BY WordAssumption, LengthsAre, WordsAre
  <1>2. total \in 0..total
    BY <1>1
  <1>3. s \in LadderStates(len)
    BY <1>2, LadderRule
  <1>4. Climbed(s, total, e, Value(a), m)
    BY <1>2, LadderClimbs
  <1>5. Read(e, total) = Value(e)
    BY ReadRule
  <1>6. r = Finish(s, len)
    BY <1>1 DEF MontLadExp
  <1> HIDE DEF s, total
  <1>7. Exit \notin {s.x1, s.x2}
    BY <1>6 DEF Finish
  <1>8. s.x1 \in Words(len)
    BY <1>3, <1>7 DEF LadderStates
  <1>9. r = s.x1
    <2> DEFINE x == s.x1
    <2>1. x \in Seq(Word) /\ Len(x) = len
      BY <1>1, <1>8, WordsAre
    <2>2. r = SubSeq(x, Len(x) - len + 1, Len(x))
      BY <1>6, <1>7 DEF Finish, Low
    <2>3. Len(x) - len + 1 = 1
      BY <1>1, <2>1
    <2> HIDE DEF x
    <2>4. SubSeq(x, 1, Len(x)) = x
      <3> HIDE DEF Word
      <3> QED
        BY <2>1
    <2> QED
      BY <2>2, <2>3, <2>4 DEF x
  <1>10. Climbs(s, Value(e), Value(a), m)
    BY <1>4, <1>5 DEF Climbed
  <1> QED
    BY <1>7, <1>8, <1>9, <1>10 DEF Climbs

-----------------------------------------------------------------------------
(* The test of Miller and Rabin                                            *)
LEMMA Parity ==
  ASSUME NEW len \in Nat \ {0}, NEW x \in Words(len)
  PROVE  /\ x[len] \in Word
         /\ x[len] % 2 = 0 => \E h \in Int : Value(x) = 2 * h
         /\ x[len] % 2 # 0 => x[len] % 2 = 1 /\ \E h \in Int : Value(x) = 2 * h + 1
  <1> DEFINE high == Sums(x, len)[len-1]
             last == x[len]
             half == TwoTo[W-1]
  <1>1. Value(x) = high * Base + last /\ high \in Int /\ last \in Word
    <2>1. x \in Numeral /\ Len(x) = len
      BY WordsAre
    <2>2. last \in Word
      BY DEF Words
    <2> QED
      BY <2>1, <2>2, LastWord
  <1>2. Base = 2 * half /\ half \in Int /\ last \in Int
    BY <1>1, BaseIsEven DEF Word
  <1> HIDE DEF high, last, half
  <1>3. last = 2 * (last \div 2) + (last % 2) /\ (last % 2) \in {0, 1} /\ (last \div 2) \in Int
    BY <1>2
  <1>4. high * half \in Int /\ high * Base = 2 * (high * half)
    BY <1>1, <1>2
  <1>5. Value(x) = 2 * (high * half + (last \div 2)) + (last % 2)
    BY <1>1, <1>3, <1>4
  <1>6. high * half + (last \div 2) \in Int
    BY <1>3, <1>4
  <1> DEFINE h == high * half + (last \div 2)
  <1>7. h \in Int /\ Value(x) = 2 * h + (last % 2)
    BY <1>5, <1>6
  <1> HIDE DEF h
  <1>8. last % 2 = 0 => Value(x) = 2 * h
    BY <1>7
  <1>9. last % 2 # 0 => last % 2 = 1 /\ Value(x) = 2 * h + 1
    BY <1>3, <1>7
  <1> QED
    BY <1>1, <1>7, <1>8, <1>9 DEF last

LEMMA ZeroValue ==
  ASSUME NEW len \in Nat \ {0}
  PROVE  /\ Zero(len) \in Words(len) /\ Value(Zero(len)) = 0
         /\ \A x \in Words(len) : Value(x) = 0 <=> x = Zero(len)
  <1>1. Zero(len) \in Words(len) /\ \A i \in 1..len : Zero(len)[i] = 0
    <2>1. 0 \in Word
      BY BaseRule DEF Word
    <2> QED
      BY <2>1 DEF Zero, Words
  <1>2. Value(Zero(len)) = 0
    <2> DEFINE z == Zero(len)
    <2>1. z \in Seq(Word) /\ Len(z) = len /\ len \in Nat /\ len \in 0..len
      BY <1>1, WordsAre
    <2>2. \A i \in 1..len : z[i] = 0
      BY <1>1
    <2> HIDE DEF z
    <2>3. z \in [1..len -> Int] /\ Value(z) = Sums(z, len)[len]
      BY <2>1, ValueIsSum
    <2>4. Sums(z, len)[len] = 0
      BY <2>1, <2>2, <2>3, ZeroSums
    <2> QED
      BY <2>3, <2>4 DEF z
  <1>3. ASSUME NEW x \in Words(len), Value(x) = 0
        PROVE  x = Zero(len)
    BY <1>1, <1>2, <1>3, ValueTells
  <1> QED
    BY <1>1, <1>2, <1>3

SplitStates(len) == [d : Words(len) \ {Zero(len)}, s : Nat]

LEMMA SplitExact ==
  ASSUME NEW len \in Nat \ {0}, NEW y \in Words(len), Value(y) # 0
  PROVE  /\ Split(y).d \in Words(len) /\ Value(Split(y).d) \in Nat \ {0} /\ Split(y).s \in Nat
         /\ Value(Split(y).d) * PowerOfTwo[Split(y).s] = Value(y)
         /\ \E h \in Int : Value(Split(y).d) = 2 * h + 1
  <1> DEFINE D == SplitStates(len)
             odd == {t \in D : t.d[len] % 2 = 1}
             halved(t) == [d |-> RShift(t.d, 1), s |-> t.s + 1]
             size == [t \in D |-> Value(t.d)]
             next == [t \in D |-> IF t \in odd THEN t ELSE halved(t)]
             S == {t \in D : Value(t.d) * PowerOfTwo[t.s] = Value(y)}
             start == [d |-> y, s |-> 0]
             IsSplit(g) == g = [t \in D |-> IF t.d[len] % 2 = 1 THEN t ELSE g[halved(t)]]
             split == CHOOSE g : IsSplit(g)
  <1>1. ASSUME NEW t \in D
        PROVE  t.d \in Words(len) /\ Value(t.d) \in Nat \ {0} /\ t.s \in Nat
    <2>1. t.d \in Words(len) /\ t.d # Zero(len) /\ t.s \in Nat
      BY DEF SplitStates
    <2>2. Value(t.d) # 0
      BY <2>1, ZeroValue
    <2> QED
      BY <2>1, <2>2, WordsAre
  <1>2. ASSUME NEW t \in D, t \notin odd
        PROVE  /\ halved(t) \in D /\ Value(halved(t).d) \in Nat
               /\ Value(t.d) = 2 * Value(halved(t).d) /\ halved(t).s = t.s + 1
    <2> DEFINE x == t.d
               z == RShift(x, 1)
               v == Value(x)
    <2>1. x \in Words(len) /\ v \in Nat \ {0} /\ t.s \in Nat
      BY <1>1
    <2>2. x \in Numeral /\ Len(x) = len /\ v < Room[len]
      BY <2>1, WordsAre
    <2>3. x[len] % 2 # 1
      BY <1>2
    <2> HIDE DEF x
    <2>4. PICK h \in Int : v = 2 * h
      BY <2>1, <2>3, Parity
    <2>5. Holds(z, v \div 2, len)
      BY <2>2, RShiftExact
    <2> HIDE DEF v, z
    <2>6. v \div 2 = h /\ h \in Nat \ {0} /\ h < v
      BY <2>1, <2>4
    <2>7. Room[len] \in Nat /\ h < Room[len]
      <3>1. Room[len] \in Nat
        BY RoomIsNat
      <3> QED
        BY <2>1, <2>2, <2>6, <3>1
    <2>8. z \in Words(len) /\ Value(z) = h
      BY <2>5, <2>6, <2>7, HoldsFits
    <2>9. z # Zero(len)
      BY <2>6, <2>8, ZeroValue
    <2>10. halved(t) = [d |-> z, s |-> t.s + 1]
      BY DEF x, z
    <2>11. halved(t) \in D /\ halved(t).d = z /\ halved(t).s = t.s + 1
      BY <2>1, <2>8, <2>9, <2>10 DEF SplitStates
    <2> HIDE DEF halved
    <2> QED
      BY <2>4, <2>6, <2>8, <2>11 DEF v, x
  <1>3. Descends(D, size, odd, next)
    <2>1. size \in [D -> Nat]
      BY <1>1
    <2>2. ASSUME NEW t \in D
          PROVE  next[t] \in D
      BY <1>2
    <2>3. ASSUME NEW t \in D, t \notin odd
          PROVE  size[next[t]] < size[t]
      <3>1. next[t] = halved(t) /\ halved(t) \in D
        BY <1>2, <2>3
      <3>2. Value(t.d) = 2 * Value(halved(t).d) /\ Value(halved(t).d) \in Nat /\ Value(t.d) \in Nat \ {0}
        BY <1>1, <1>2, <2>3
      <3>3. size[next[t]] = Value(halved(t).d) /\ size[t] = Value(t.d)
        BY <3>1
      <3> HIDE DEF size, next, halved
      <3> QED
        BY <3>2, <3>3
    <2>4. next \in [D -> D]
      BY <2>2
    <2> HIDE DEF size, next, odd, D
    <2> QED
      BY <2>1, <2>3, <2>4 DEF Descends
  <1>4. Returns(split, D, odd, next)
    <2>1. PICK f \in [D -> D] : Returns(f, D, odd, next)
      <3> HIDE DEF D, odd, next, size
      <3> QED
        BY <1>3, DescentExists
    <2>2. f = [t \in D |-> f[t]]
      OBVIOUS
    <2>3. ASSUME NEW t \in D
          PROVE  f[t] = IF t.d[len] % 2 = 1 THEN t ELSE f[halved(t)]
      <3>1. f[t] = IF t \in odd THEN t ELSE f[next[t]]
        BY <2>1 DEF Returns
      <3> QED
        BY <3>1
    <2> HIDE DEF halved
    <2>4. IsSplit(f)
      BY <2>2, <2>3
    <2> HIDE DEF IsSplit
    <2>5. IsSplit(split)
      BY <2>4
    <2> HIDE DEF split
    <2>6. split = [t \in D |-> IF t.d[len] % 2 = 1 THEN t ELSE split[halved(t)]]
      BY <2>5 DEF IsSplit
    <2>7. ASSUME NEW t \in D
          PROVE  split[t] = IF t \in odd THEN t ELSE split[next[t]]
      <3>1. split[t] = IF t.d[len] % 2 = 1 THEN t ELSE split[halved(t)]
        BY <2>6
      <3> QED
        BY <3>1
    <2> HIDE DEF D, odd, next
    <2> QED
      BY <2>7 DEF Returns
  <1>5. Split(y) = split[start]
    <2>1. Len(y) = len
      BY WordsAre
    <2> QED
      BY <2>1 DEF Split, SplitStates, Words
  <1>6. start \in S
    <2>1. y # Zero(len) /\ Value(y) \in Nat
      BY ZeroValue, WordsAre
    <2>2. start \in D /\ start.d = y /\ start.s = 0
      BY <2>1 DEF SplitStates
    <2>3. PowerOfTwo[0] = 1
      BY PowerRule
    <2>4. Value(y) * 1 = Value(y)
      BY <2>1
    <2> HIDE DEF start, D
    <2> QED
      BY <2>2, <2>3, <2>4
  <1>7. ASSUME NEW t \in S, t \notin odd
        PROVE  next[t] \in S
    <2> DEFINE z == halved(t)
               h == Value(z.d)
               r == PowerOfTwo[t.s]
    <2>1. t \in D /\ z \in D /\ next[t] = z /\ z.s = t.s + 1 /\ t.s \in Nat
      BY <1>1, <1>2, <1>7
    <2>2. h \in Nat /\ Value(t.d) = 2 * h /\ Value(t.d) * r = Value(y)
      BY <1>2, <1>7
    <2>3. PowerOfTwo[z.s] = 2 * r /\ r \in Nat
      BY <2>1, PowerRule
    <2> HIDE DEF z, h, r
    <2>4. h * (2 * r) = (2 * h) * r
      BY <2>2, <2>3
    <2>5. h * PowerOfTwo[z.s] = Value(y)
      BY <2>2, <2>3, <2>4
    <2> HIDE DEF D, next
    <2> QED
      BY <2>1, <2>5 DEF h
  <1>8. split[start] \in S /\ split[start] \in odd
    <2>1. S \subseteq D
      OBVIOUS
    <2> HIDE DEF S, odd, D, size, next, split, start
    <2> QED
      BY <1>3, <1>4, <1>6, <1>7, <2>1, DescentStays
  <1> DEFINE t == split[start]
  <1>9. t \in D /\ Value(t.d) * PowerOfTwo[t.s] = Value(y) /\ t.d[len] % 2 = 1
    BY <1>8
  <1>10. Split(y) = t
    BY <1>5
  <1> HIDE DEF t, D, split, start
  <1>11. t.d \in Words(len) /\ Value(t.d) \in Nat \ {0} /\ t.s \in Nat
    BY <1>1, <1>9
  <1>12. \E h \in Int : Value(t.d) = 2 * h + 1
    <2>1. t.d[len] % 2 # 0
      BY <1>9
    <2> QED
      BY <1>11, <2>1, Parity
  <1> QED
    BY <1>9, <1>10, <1>11, <1>12

SquareStates(len) == [y : Words(len) \cup {Exit}, left : Nat]
SquareEnds(t, less1) == t.y \in {Exit, less1} \/ CmpLittle(t.y, 1) = 0 \/ t.left = 0
Squared(t, x) == [y |-> ModMult(t.y, t.y, x, t.y), left |-> t.left - 1]

LEMMA SquaredIs ==
  ASSUME NEW len \in Lengths, NEW x \in Words(len), Value(x) # 0, NEW less1,
         NEW t \in SquareStates(len), ~SquareEnds(t, less1)
  PROVE  /\ Squared(t, x) \in SquareStates(len) /\ Squared(t, x).left = t.left - 1
         /\ t.y \in Words(len) /\ t.left \in Nat \ {0}
         /\ IsModProduct(Squared(t, x).y, t.y, t.y, x, len)
  <1> DEFINE z == ModMult(t.y, t.y, x, t.y)
  <1>1. t.y \in Words(len) /\ t.left \in Nat \ {0}
    BY DEF SquareStates, SquareEnds
  <1>2. len \in Nat \ {0} /\ Len(t.y) = len
    BY <1>1, LengthsAre, WordsAre
  <1>3. z = ModMultBuff(t.y, t.y, x, 2 * len, t.y)
    <2>1. Len(t.y) + Len(t.y) = 2 * len
      BY <1>2
    <2> QED
      BY <2>1 DEF ModMult
  <1>4. IsModProduct(z, t.y, t.y, x, len)
    <2>1. t.y # Exit
      BY <1>1, <1>2, WordsAre
    <2>2. IsModProduct(ModMultBuff(t.y, t.y, x, 2 * len, t.y), t.y, t.y, x, len)
      BY <1>1, <2>1, ModTimesAny
    <2> QED
      BY <1>3, <2>2
  <1>5. Squared(t, x) = [y |-> z, left |-> t.left - 1]
    BY DEF Squared
  <1>6. z \in Words(len) \cup {Exit} /\ t.left - 1 \in Nat
    BY <1>1, <1>4 DEF IsModProduct
  <1> HIDE DEF z
  <1>7. Squared(t, x) \in SquareStates(len) /\ Squared(t, x).y = z /\ Squared(t, x).left = t.left - 1
    BY <1>5, <1>6 DEF SquareStates
  <1> QED
    BY <1>1, <1>4, <1>7

(* What each squaring keeps holds of the last one.                         *)
LEMMA SquaresStay ==
  ASSUME NEW len \in Lengths, NEW x \in Words(len), Value(x) # 0, NEW less1,
         NEW S, S \subseteq SquareStates(len),
         \A t \in S : ~SquareEnds(t, less1) => Squared(t, x) \in S,
         NEW start \in S
  PROVE  Squares(x, less1)[start] \in S /\ SquareEnds(Squares(x, less1)[start], less1)
  <1> DEFINE D == SquareStates(len)
             ended == {t \in D : SquareEnds(t, less1)}
             size == [t \in D |-> t.left]
             next == [t \in D |-> IF t \in ended THEN t ELSE Squared(t, x)]
             IsSquares(g) == g = [t \in D |-> IF SquareEnds(t, less1) THEN t ELSE g[Squared(t, x)]]
             squares == CHOOSE g : IsSquares(g)
  <1>1. Descends(D, size, ended, next)
    <2>1. ASSUME NEW t \in D, t \notin ended
          PROVE  Squared(t, x) \in D /\ Squared(t, x).left = t.left - 1 /\ t.left \in Nat \ {0}
      BY <2>1, SquaredIs
    <2>2. size \in [D -> Nat]
      BY DEF SquareStates
    <2>3. next \in [D -> D]
      BY <2>1
    <2>4. ASSUME NEW t \in D, t \notin ended
          PROVE  size[next[t]] < size[t]
      <3>1. next[t] = Squared(t, x) /\ Squared(t, x) \in D
        BY <2>1, <2>4
      <3>2. size[next[t]] = t.left - 1 /\ size[t] = t.left /\ t.left \in Nat
        BY <2>1, <2>4, <3>1
      <3> HIDE DEF size, next
      <3> QED
        BY <3>2
    <2> HIDE DEF size, next, ended, D
    <2> QED
      BY <2>2, <2>3, <2>4 DEF Descends
  <1>2. Squares(x, less1) = squares
    <2>1. Len(x) = len
      BY LengthsAre, WordsAre
    <2> QED
      BY <2>1 DEF Squares, SquareStates, SquareEnds, Squared, Words
  <1>3. Returns(squares, D, ended, next)
    <2>1. PICK f \in [D -> D] : Returns(f, D, ended, next)
      <3> HIDE DEF D, ended, next, size
      <3> QED
        BY <1>1, DescentExists
    <2>2. f = [t \in D |-> f[t]]
      OBVIOUS
    <2>3. ASSUME NEW t \in D
          PROVE  f[t] = IF SquareEnds(t, less1) THEN t ELSE f[Squared(t, x)]
      <3>1. f[t] = IF t \in ended THEN t ELSE f[next[t]]
        BY <2>1 DEF Returns
      <3> QED
        BY <3>1
    <2>4. IsSquares(f)
      BY <2>2, <2>3
    <2> HIDE DEF IsSquares
    <2>5. IsSquares(squares)
      BY <2>4
    <2> HIDE DEF squares
    <2>6. squares = [t \in D |-> IF SquareEnds(t, less1) THEN t ELSE squares[Squared(t, x)]]
      BY <2>5 DEF IsSquares
    <2>7. ASSUME NEW t \in D
          PROVE  squares[t] = IF t \in ended THEN t ELSE squares[next[t]]
      <3>1. squares[t] = IF SquareEnds(t, less1) THEN t ELSE squares[Squared(t, x)]
        BY <2>6
      <3> QED
        BY <3>1
    <2> HIDE DEF D, ended, next
    <2> QED
      BY <2>7 DEF Returns
  <1>4. \A t \in S : t \notin ended => next[t] \in S
    OBVIOUS
  <1>5. squares[start] \in S /\ squares[start] \in ended
    <2>1. S \subseteq D
      OBVIOUS
    <2> HIDE DEF ended, D, size, next, squares
    <2> QED
      BY <1>1, <1>3, <1>4, <2>1, DescentStays
  <1> QED
    BY <1>2, <1>5

(* What the test starts from                                               *)
LEMMA TestStarts ==
  ASSUME NEW len \in Lengths, NEW x \in Words(len), Value(x) > 2, NEW a \in Words(len)
  PROVE  LET less1 == SubLittle(x, 1, Len(x))
             t == Split(less1)
             first == MontLadExp(a, t.d, x)
         IN  /\ less1 \in Words(len) /\ Value(less1) = Value(x) - 1
             /\ Value(t.d) \in Nat \ {0} /\ t.s \in Nat
             /\ Value(t.d) * PowerOfTwo[t.s] = Value(x) - 1
             /\ \E h \in Int : Value(t.d) = 2 * h + 1
             /\ first # Exit => /\ first \in Words(len)
                                /\ Congruent(Value(first), Powers(Value(a))[Value(t.d)], Value(x))
                                /\ Value(first) < Value(x) \/ Value(first) = Value(a)
  <1> DEFINE less1 == SubLittle(x, 1, Len(x))
             t == Split(less1)
             first == MontLadExp(a, t.d, x)
             v == Value(x)
  <1>1. len \in Nat \ {0} /\ x \in Numeral /\ Len(x) = len /\ v \in Nat /\ v < Room[len]
    BY LengthsAre, WordsAre
  <1>2. less1 \in Words(len) /\ Value(less1) = v - 1
    <2>1. Holds(less1, v - 1, len)
      BY <1>1, SubLittleExact
    <2>2. v - 1 \in Nat /\ v - 1 < Room[len]
      <3>1. Room[len] \in Nat /\ v > 2
        BY <1>1, RoomIsNat
      <3> HIDE DEF v
      <3> QED
        BY <1>1, <3>1
    <2> HIDE DEF less1, v
    <2> QED
      BY <1>1, <2>1, <2>2, HoldsFits
  <1>3. Value(less1) # 0
    <2>1. v > 2
      OBVIOUS
    <2> HIDE DEF v, less1
    <2> QED
      BY <1>1, <1>2, <2>1
  <1> HIDE DEF less1
  <1>4. /\ t.d \in Words(len) /\ Value(t.d) \in Nat \ {0} /\ t.s \in Nat
        /\ Value(t.d) * PowerOfTwo[t.s] = Value(less1)
        /\ \E h \in Int : Value(t.d) = 2 * h + 1
    BY <1>1, <1>2, <1>3, SplitExact
  <1> HIDE DEF t
  <1>5. first # Exit => /\ first \in Words(len)
                        /\ Congruent(Value(first), Powers(Value(a))[Value(t.d)], v)
                        /\ Value(first) < v \/ Value(first) = Value(a)
    <2>1. a \in Numeral /\ Len(a) <= len /\ t.d \in Seq(Word) /\ v # 0
      BY <1>1, <1>4, WordsAre
    <2> QED
      BY <1>4, <2>1, MontLadExpExact
  <1> QED
    BY <1>2, <1>4, <1>5 DEF less1, t

(* An even number is halved at least once.                                 *)
LEMMA HalvedOnce ==
  ASSUME NEW u \in Nat, u % 2 = 1, NEW d \in Nat, NEW k \in Nat, d * PowerOfTwo[k] = u - 1,
         \E h \in Int : d = 2 * h + 1
  PROVE  k \in Nat \ {0}
  <1> SUFFICES ASSUME k = 0
               PROVE  FALSE
    OBVIOUS
  <1>1. PowerOfTwo[k] = 1
    BY PowerRule
  <1>2. PICK h \in Int : d = 2 * h + 1
    OBVIOUS
  <1>3. u = 2 * (h + 1)
    BY <1>1, <1>2
  <1> QED
    BY <1>3

(* A prime passes the test with every base from 1 to n-2, or the call      *)
(* exits.                                                                  *)
LEMMA PrimePasses ==
  ASSUME NEW len \in Lengths, NEW x \in Words(len), Value(x) > 2, PrimeNumber(Value(x)),
         NEW a \in Words(len), Value(a) # 0, Value(a) < Value(x) - 1
  PROVE  MillerRabin(x, a) \in {"prime", "exit"}
  <1> DEFINE less1 == SubLittle(x, 1, Len(x))
             t == Split(less1)
             first == MontLadExp(a, t.d, x)
             u == Value(x)
             v == Value(a)
             d == Value(t.d)
             k == t.s
             start == [y |-> first, left |-> k - 1]
             last == Squares(x, less1)[start]
             Root(z, left) == z # Exit =>
               /\ Value(z) < u /\ CmpLittle(z, 1) # 0
               /\ Congruent(Powers(Value(z))[PowerOfTwo[left+1]], 1, u)
             S == {z \in SquareStates(len) : Root(z.y, z.left)}
  <1>1. len \in Nat \ {0} /\ u \in Nat /\ u \in Int /\ u # 0 /\ u \in Nat \ {0}
        /\ v \in Nat /\ v \in Int /\ u > 2
    <2>1. len \in Nat \ {0} /\ u \in Nat /\ v \in Nat /\ u > 2
      BY LengthsAre, WordsAre
    <2> HIDE DEF u, v
    <2> QED
      BY <2>1
  <1>2. /\ less1 \in Words(len) /\ Value(less1) = u - 1
        /\ d \in Nat \ {0} /\ k \in Nat /\ d * PowerOfTwo[k] = u - 1
        /\ \E h \in Int : d = 2 * h + 1
        /\ first # Exit => /\ first \in Words(len) /\ Congruent(Value(first), Powers(v)[d], u)
                           /\ Value(first) < u \/ Value(first) = v
    BY TestStarts
  <1>3. MillerRabin(x, a) = IF first # Exit /\ CmpLittle(first, 1) = 0 THEN "prime"
                            ELSE Verdict(last.y, less1)
    BY DEF MillerRabin, Tested
  <1>4. Congruent(Powers(v)[u-1], 1, u)
    <2>1. ~Congruent(v, 0, u)
      <3>1. v \in 0..u-1 /\ 0 \in 0..u-1 /\ v # 0
        <4>1. v # 0 /\ v < u - 1
          OBVIOUS
        <4> HIDE DEF u, v
        <4> QED
          BY <1>1, <4>1
      <3> HIDE DEF u, v
      <3> QED
        BY <1>1, <3>1, SameIs
    <2>2. PrimeNumber(u)
      OBVIOUS
    <2> HIDE DEF u, v
    <2> QED
      BY <1>1, <2>1, <2>2, FermatOne
  <1>5. u % 2 = 1
    <2>1. \A i \in 2..u-1 : ~Divides(i, u)
      BY DEF PrimeNumber
    <2> HIDE DEF u
    <2>2. 2 \in 2..u-1
      BY <1>1
    <2>3. u % 2 # 0
      BY <2>1, <2>2 DEF Divides
    <2> QED
      BY <1>1, <2>3
  <1>6. k \in Nat \ {0}
    <2> HIDE DEF d, k, u
    <2> QED
      BY <1>1, <1>2, <1>5, HalvedOnce
  <1> SUFFICES ASSUME ~(first # Exit /\ CmpLittle(first, 1) = 0)
               PROVE  Verdict(last.y, less1) \in {"prime", "exit"}
    BY <1>3
  <1>7. start \in S
    <2>1. start \in SquareStates(len) /\ start.y = first /\ start.left = k - 1
      BY <1>2, <1>6 DEF SquareStates
    <2>2. ASSUME first # Exit
          PROVE  Root(first, k - 1)
      <3> DEFINE w == Value(first)
      <3>1. first \in Words(len) /\ Congruent(w, Powers(v)[d], u) /\ (w < u \/ w = v)
        BY <1>2, <2>2
      <3>2. w \in Nat /\ w \in Int
        BY <1>1, <3>1, WordsAre
      <3>3. w < u
        <4>1. v < u - 1
          OBVIOUS
        <4> HIDE DEF u, v, w
        <4> QED
          BY <1>1, <3>1, <3>2, <4>1
      <3>4. (k - 1) + 1 = k /\ PowerOfTwo[k] \in Nat
        <4>1. k \in Nat /\ (k - 1) + 1 = k
          <5> HIDE DEF k
          <5> QED
            BY <1>6
        <4> QED
          BY <4>1, PowerRule
      <3> DEFINE m == PowerOfTwo[k]
      <3> HIDE DEF w, u, v, d, m
      <3>5. Powers(v)[d] \in Int
        BY <1>1, <1>2, PowerIsInt
      <3>6. Congruent(Powers(w)[m], Powers(Powers(v)[d])[m], u)
        BY <1>1, <3>1, <3>2, <3>4, <3>5, PowersSame DEF m
      <3>7. Powers(Powers(v)[d])[m] = Powers(v)[u-1]
        <4>1. Powers(v)[d*m] = Powers(Powers(v)[d])[m]
          BY <1>1, <1>2, <3>4, PowersTimes DEF m
        <4>2. d * m = u - 1
          BY <1>2 DEF m
        <4> QED
          BY <4>1, <4>2
      <3>8. Powers(w)[m] \in Int /\ Powers(v)[u-1] \in Int
        BY <1>1, <3>2, <3>4, PowerIsInt DEF m
      <3>9. Congruent(Powers(w)[m], 1, u)
        BY <1>1, <1>4, <3>6, <3>7, <3>8, 1 \in Int, SameOn
      <3>10. CmpLittle(first, 1) # 0
        BY <2>2
      <3> QED
        BY <3>3, <3>4, <3>9, <3>10 DEF m, w
    <2> HIDE DEF start, Root
    <2>3. Root(start.y, start.left)
      <3>1. CASE first = Exit
        BY <2>1, <3>1 DEF Root
      <3>2. CASE first # Exit
        BY <2>1, <2>2, <3>2
      <3> QED
        BY <3>1, <3>2
    <2> QED
      BY <2>1, <2>3
  (* a square root of 1 is 1 or n-1 *)
  <1>8. ASSUME NEW z \in Words(len), Value(z) < u, Congruent(Value(z) * Value(z), 1, u)
        PROVE  CmpLittle(z, 1) = 0 \/ z = less1
    <2> DEFINE w == Value(z)
    <2>1. w \in Nat /\ w \in Int
      BY <1>1, WordsAre
    <2>2. w < u /\ Congruent(w * w, 1, u) /\ PrimeNumber(u)
      BY <1>8
    <2> HIDE DEF w, u
    <2>3. Congruent(w, 1, u) \/ Congruent(w, -1, u)
      BY <1>1, <2>1, <2>2, RootsOfOne
    <2>4. ASSUME Congruent(w, 1, u)
          PROVE  w = 1
      <3>1. w \in 0..u-1 /\ 1 \in 0..u-1
        BY <1>1, <2>1, <2>2
      <3> QED
        BY <1>1, <2>4, <3>1, SameIs
    <2>5. ASSUME Congruent(w, -1, u)
          PROVE  w = u - 1
      <3>1. w \in 0..u-1 /\ u - 1 \in 0..u-1
        BY <1>1, <2>1, <2>2
      <3>2. Congruent(-1, u - 1, u)
        <4>1. -1 = (u - 1) + (-1) * u
          BY <1>1
        <4> QED
          BY <4>1 DEF Congruent
      <3>3. Congruent(w, u - 1, u)
        <4>1. u - 1 \in Int /\ -1 \in Int
          BY <1>1
        <4> QED
          BY <1>1, <2>1, <2>5, <3>2, <4>1, SameOn
      <3> QED
        BY <1>1, <3>1, <3>3, SameIs
    <2>6. CASE w = 1
      <3>1. 1 \in Word
        BY BaseRule DEF Word
      <3> QED
        BY <1>1, <2>6, <3>1, CmpLittleExact DEF w
    <2>7. CASE w = u - 1
      <3>1. Value(z) = Value(less1)
        BY <1>2, <2>7 DEF w
      <3> HIDE DEF less1
      <3> QED
        BY <1>1, <1>2, <3>1, ValueTells
    <2> QED
      BY <2>3, <2>4, <2>5, <2>6, <2>7
  <1>9. ASSUME NEW z \in S, ~SquareEnds(z, less1)
        PROVE  Squared(z, x) \in S
    <2> DEFINE y == z.y
               s == Squared(z, x)
               w == Value(y)
    <2>1. /\ s \in SquareStates(len) /\ s.left = z.left - 1 /\ y \in Words(len) /\ z.left \in Nat \ {0}
          /\ IsModProduct(s.y, y, y, x, len)
      BY <1>1, <1>9, SquaredIs
    <2>2. y # Exit /\ w \in Nat /\ w \in Int
      BY <1>1, <2>1, WordsAre
    <2>3. w < u /\ CmpLittle(y, 1) # 0 /\ Congruent(Powers(w)[PowerOfTwo[z.left+1]], 1, u)
      BY <1>9, <2>2
    <2>4. y # less1
      BY <1>9 DEF SquareEnds
    <2> HIDE DEF s, y
    <2>5. ASSUME s.y # Exit
          PROVE  Root(s.y, s.left)
      <3> DEFINE r == Value(s.y)
                 m == PowerOfTwo[z.left]
      <3>1. s.y \in Words(len) /\ r < u /\ r \in Nat /\ Congruent(r, w * w, u)
        <4>1. Congruent(w, w, u)
          BY <1>1, <2>2, SameSelf
        <4> QED
          BY <1>1, <2>1, <2>2, <2>5, <4>1, ModProductSame
      <3>2. m \in Nat /\ PowerOfTwo[z.left+1] = 2 * m /\ (z.left - 1) + 1 = z.left
        <4>1. z.left \in Nat /\ (z.left - 1) + 1 = z.left
          BY <2>1
        <4> QED
          BY <4>1, PowerRule
      <3>3. CmpLittle(s.y, 1) # 0
        <4> SUFFICES ASSUME CmpLittle(s.y, 1) = 0
                     PROVE  FALSE
          OBVIOUS
        <4>1. r = 1
          <5>1. 1 \in Word
            BY BaseRule DEF Word
          <5> QED
            BY <1>1, <3>1, <5>1, CmpLittleExact
        <4> HIDE DEF u, r
        <4>2. w * w \in Int
          BY <2>2
        <4>3. Congruent(w * w, 1, u)
          BY <1>1, <3>1, <4>1, <4>2, 1 \in Int, SameBack
        <4> QED
          BY <1>8, <2>1, <2>3, <2>4, <4>3 DEF u
      <3> HIDE DEF r, u, w, m
      <3>4. w * w \in Int /\ r \in Int
        BY <2>2, <3>1
      <3>5. Congruent(Powers(r)[m], Powers(w*w)[m], u)
        BY <1>1, <3>1, <3>2, <3>4, PowersSame
      <3>6. Powers(w*w)[m] = Powers(w)[2*m]
        <4>1. Powers(w)[2*m] = Powers(Powers(w)[2])[m]
          BY <2>2, <3>2, 2 \in Nat, PowersTimes
        <4>2. Powers(w)[1+1] = Powers(w)[1] * w /\ Powers(w)[1] = w
          BY <2>2, 1 \in Nat, PowersRule
        <4> QED
          BY <4>1, <4>2
      <3>7. Congruent(Powers(w*w)[m], 1, u)
        BY <2>3, <3>2, <3>6
      <3>8. Powers(r)[m] \in Int /\ Powers(w*w)[m] \in Int
        BY <3>2, <3>4, PowerIsInt
      <3>9. Congruent(Powers(r)[m], 1, u)
        BY <1>1, <3>5, <3>7, <3>8, 1 \in Int, SameOn
      <3> QED
        BY <2>1, <3>1, <3>2, <3>3, <3>9 DEF m, r
    <2>6. Root(s.y, s.left)
      <3>1. CASE s.y = Exit
        BY <3>1
      <3>2. CASE s.y # Exit
        BY <2>5, <3>2
      <3> HIDE DEF Root
      <3> QED
        BY <3>1, <3>2
    <2> HIDE DEF Root
    <2> QED
      BY <2>1, <2>6 DEF s
  <1>10. last \in S /\ SquareEnds(last, less1)
    <2>1. S \subseteq SquareStates(len)
      OBVIOUS
    <2> HIDE DEF S, start, less1
    <2> QED
      BY <1>1, <1>7, <1>9, <2>1, SquaresStay
  <1>11. last \in SquareStates(len) /\ Root(last.y, last.left)
    BY <1>10
  <1> HIDE DEF last
  <1>12. CASE last.y = Exit
    BY <1>12 DEF Verdict
  <1>13. CASE last.y # Exit /\ last.y = less1
    BY <1>13 DEF Verdict
  <1>14. CASE last.y # Exit /\ last.y # less1
    <2> DEFINE z == last.y
               w == Value(z)
    <2>1. z \in Words(len) /\ last.left \in Nat
      BY <1>11, <1>14 DEF SquareStates
    <2>2. w < u /\ CmpLittle(z, 1) # 0 /\ Congruent(Powers(w)[PowerOfTwo[last.left+1]], 1, u)
      BY <1>11, <1>14
    <2>3. last.left = 0
      BY <1>10, <1>14, <2>2 DEF SquareEnds
    <2>4. PowerOfTwo[0+1] = 2
      <3>1. 0 \in Nat
        OBVIOUS
      <3>2. PowerOfTwo[0+1] = 2 * PowerOfTwo[0] /\ PowerOfTwo[0] = 1
        BY <3>1, PowerRule
      <3> QED
        BY <3>2
    <2>5. w \in Int
      BY <1>1, <2>1, WordsAre
    <2>6. Powers(w)[2] = w * w
      <3>1. Powers(w)[1+1] = Powers(w)[1] * w /\ Powers(w)[1] = w
        BY <2>5, 1 \in Nat, PowersRule
      <3> QED
        BY <3>1
    <2> HIDE DEF u, less1
    <2>7. Congruent(w * w, 1, u)
      BY <2>2, <2>3, <2>4, <2>6
    <2>8. CmpLittle(z, 1) = 0 \/ z = less1
      BY <1>8, <2>1, <2>2, <2>7
    <2> QED
      BY <1>14, <2>2, <2>8
  <1> QED
    BY <1>12, <1>13, <1>14

(* A base that shares a factor with a composite does not pass.             *)
LEMMA WitnessFails ==
  ASSUME NEW len \in Lengths, NEW x \in Words(len), Value(x) > 2, Value(x) % 2 = 1,
         NEW a \in Words(len), NEW g \in Nat, g >= 2, Congruent(Value(x), 0, g), Congruent(Value(a), 0, g)
  PROVE  MillerRabin(x, a) \in {"composite", "exit"}
  <1> DEFINE less1 == SubLittle(x, 1, Len(x))
             t == Split(less1)
             first == MontLadExp(a, t.d, x)
             u == Value(x)
             v == Value(a)
             d == Value(t.d)
             start == [y |-> first, left |-> t.s - 1]
             last == Squares(x, less1)[start]
             Shares(z) == z # Exit => Congruent(Value(z), 0, g)
             S == {z \in SquareStates(len) : Shares(z.y)}
  <1>1. len \in Nat \ {0} /\ u \in Nat /\ u \in Int /\ u # 0 /\ v \in Nat /\ v \in Int /\ u > 2 /\ g \in Int
    <2>1. len \in Nat \ {0} /\ u \in Nat /\ v \in Nat /\ u > 2
      BY LengthsAre, WordsAre
    <2> HIDE DEF u, v
    <2> QED
      BY <2>1
  <1>2. /\ less1 \in Words(len) /\ Value(less1) = u - 1
        /\ d \in Nat \ {0} /\ t.s \in Nat /\ d * PowerOfTwo[t.s] = u - 1
        /\ \E h \in Int : d = 2 * h + 1
        /\ first # Exit => /\ first \in Words(len) /\ Congruent(Value(first), Powers(v)[d], u)
                           /\ Value(first) < u \/ Value(first) = v
    BY TestStarts
  <1>3. MillerRabin(x, a) = IF first # Exit /\ CmpLittle(first, 1) = 0 THEN "prime"
                            ELSE Verdict(last.y, less1)
    BY DEF MillerRabin, Tested
  <1>4. ~Congruent(1, 0, g) /\ ~Congruent(u - 1, 0, g)
    <2>1. ~Congruent(1, 0, g)
      <3>1. g \in Nat \ {0} /\ 1 \in 0..g-1 /\ 0 \in 0..g-1
        OBVIOUS
      <3> QED
        BY <3>1, SameIs
    <2>2. ASSUME Congruent(u - 1, 0, g)
          PROVE  FALSE
      <3>1. Congruent(u, 0, g)
        OBVIOUS
      <3> HIDE DEF u
      <3>2. PICK i \in Int : u = 0 + i * g
        BY <3>1 DEF Congruent
      <3>3. PICK j \in Int : u - 1 = 0 + j * g
        BY <2>2 DEF Congruent
      <3>4. (i - j) * g = i * g - j * g /\ i * g \in Int /\ j * g \in Int
        OBVIOUS
      <3>5. 1 = 0 + (i - j) * g
        BY <1>1, <3>2, <3>3, <3>4
      <3>6. i - j \in Int
        OBVIOUS
      <3>7. Congruent(1, 0, g)
        BY <3>5, <3>6 DEF Congruent
      <3> QED
        BY <2>1, <3>7
    <2> QED
      BY <2>1, <2>2
  <1>5. ASSUME NEW z \in Words(len), CmpLittle(z, 1) = 0
        PROVE  Value(z) = 1
    <2>1. 1 \in Word
      BY BaseRule DEF Word
    <2> QED
      BY <1>1, <1>5, <2>1, CmpLittleExact
  <1>6. Shares(first)
    <2> SUFFICES ASSUME first # Exit
                 PROVE  Congruent(Value(first), 0, g)
      OBVIOUS
    <2> DEFINE w == Value(first)
    <2>1. first \in Words(len) /\ Congruent(w, Powers(v)[d], u)
      BY <1>2
    <2>2. w \in Int
      BY <1>1, <2>1, WordsAre
    <2>3. Powers(v)[d] \in Int
      BY <1>1, <1>2, PowerIsInt
    <2>4. Congruent(u, 0, g) /\ Congruent(v, 0, g)
      OBVIOUS
    <2> HIDE DEF w, u, v, d
    <2>5. Congruent(Powers(v)[d], 0, g)
      BY <1>1, <1>2, <2>4, PowersOfNone
    <2>6. PICK i \in Int : u = 0 + i * g
      BY <2>4 DEF Congruent
    <2>7. Congruent(w, Powers(v)[d], i * g)
      <3>1. i * g \in Int
        BY <1>1
      <3>2. u = i * g
        BY <2>6, <3>1
      <3> QED
        BY <2>1, <3>2
    <2>8. Congruent(w, Powers(v)[d], g)
      BY <1>1, <2>2, <2>3, <2>7, SameDown
    <2>9. Congruent(w, 0, g)
      BY <1>1, <2>2, <2>3, <2>5, <2>8, 0 \in Int, SameOn
    <2> QED
      BY <2>9 DEF w
  <1>7. ~(first # Exit /\ CmpLittle(first, 1) = 0)
    <2> SUFFICES ASSUME first # Exit, CmpLittle(first, 1) = 0
                 PROVE  FALSE
      OBVIOUS
    <2>1. first \in Words(len)
      BY <1>2
    <2>2. Value(first) = 1
      BY <1>5, <2>1
    <2>3. Congruent(1, 0, g)
      BY <1>6, <2>2
    <2> QED
      BY <1>4, <2>3
  <1>8. ASSUME NEW z \in S, ~SquareEnds(z, less1)
        PROVE  Squared(z, x) \in S
    <2> DEFINE y == z.y
               s == Squared(z, x)
               w == Value(y)
    <2>1. /\ s \in SquareStates(len) /\ y \in Words(len) /\ IsModProduct(s.y, y, y, x, len)
      BY <1>1, <1>8, SquaredIs
    <2>2. y # Exit /\ w \in Nat /\ w \in Int
      BY <1>1, <2>1, WordsAre
    <2>3. Congruent(w, 0, g)
      BY <1>8, <2>2
    <2> HIDE DEF s, y
    <2>4. ASSUME s.y # Exit
          PROVE  Congruent(Value(s.y), 0, g)
      <3> DEFINE r == Value(s.y)
      <3>1. r \in Nat /\ Congruent(r, w * w, u)
        <4>1. Congruent(w, w, u)
          BY <1>1, <2>2, SameSelf
        <4> QED
          BY <1>1, <2>1, <2>2, <2>4, <4>1, ModProductSame
      <3>2. Congruent(u, 0, g)
        OBVIOUS
      <3> HIDE DEF r, u, w
      <3>3. PICK i \in Int : u = 0 + i * g
        BY <3>2 DEF Congruent
      <3>4. i * g \in Int /\ w * w \in Int /\ r \in Int
        BY <1>1, <2>2, <3>1
      <3>5. Congruent(r, w * w, i * g)
        <4>1. u = i * g
          BY <3>3, <3>4
        <4> QED
          BY <3>1, <4>1
      <3>6. Congruent(r, w * w, g)
        BY <1>1, <3>4, <3>5, SameDown
      <3>7. Congruent(w * w, 0, g)
        <4>1. Congruent(w * w, 0 * 0, g)
          BY <1>1, <2>2, <2>3, 0 \in Int, SameTimes
        <4>2. 0 * 0 = 0
          OBVIOUS
        <4> QED
          BY <4>1, <4>2
      <3>8. Congruent(r, 0, g)
        BY <1>1, <3>4, <3>6, <3>7, 0 \in Int, SameOn
      <3> QED
        BY <3>8 DEF r
    <2> QED
      BY <2>1, <2>4 DEF s
  <1>9. start \in S
    <2>1. t.s \in Nat \ {0}
      <3> DEFINE k == t.s
      <3>1. u % 2 = 1
        OBVIOUS
      <3> HIDE DEF d, k, u
      <3>2. k \in Nat /\ d * PowerOfTwo[k] = u - 1
        BY <1>2 DEF k
      <3>3. k \in Nat \ {0}
        BY <1>1, <1>2, <3>1, <3>2, HalvedOnce
      <3> QED
        BY <3>3 DEF k
    <2>2. start \in SquareStates(len) /\ start.y = first
      BY <1>2, <2>1 DEF SquareStates
    <2> HIDE DEF start, Shares
    <2> QED
      BY <1>6, <2>2
  <1>10. last \in S /\ SquareEnds(last, less1)
    <2>1. S \subseteq SquareStates(len)
      OBVIOUS
    <2> HIDE DEF S, start, less1
    <2> QED
      BY <1>1, <1>8, <1>9, <2>1, SquaresStay
  <1>11. Shares(last.y)
    BY <1>10
  <1> HIDE DEF last
  <1>12. last.y # Exit => last.y # less1
    <2> SUFFICES ASSUME last.y # Exit, last.y = less1
                 PROVE  FALSE
      OBVIOUS
    <2>1. Congruent(Value(less1), 0, g)
      BY <1>11
    <2> QED
      BY <1>2, <1>4, <2>1
  <1>13. Verdict(last.y, less1) \in {"composite", "exit"}
    BY <1>12 DEF Verdict
  <1> QED
    BY <1>3, <1>7, <1>13

-----------------------------------------------------------------------------
(* The numbers that isPrime says yes to                                    *)
FactorLen == KeyLen \div 2

LEMMA KeyLengths ==
  /\ KeyLen \in Lengths /\ FactorLen \in Lengths /\ KeyLen = 2 * FactorLen
  /\ KeyLen \in Nat \ {0} /\ FactorLen \in Nat \ {0} /\ W >= 2
  /\ Drawn \subseteq Words(FactorLen) /\ 1 \in Word /\ 2 \in Word
  /\ E \in Word /\ E \in Nat \ {0}
  <1>1. PICK k \in 1..KeyLen : KeyLen = PowerOfTwo[k]
    BY KeyAssumption
  <1>2. KeyLen \in Nat /\ W >= 2 /\ E \in Word \ {0}
    BY KeyAssumption
  <1>3. k \in Nat /\ k - 1 \in Nat /\ (k - 1) + 1 = k
    BY <1>1, <1>2
  <1>4. PowerOfTwo[k] = 2 * PowerOfTwo[k-1] /\ PowerOfTwo[k-1] \in Nat \ {0}
    BY <1>3, PowerRule
  <1>5. FactorLen = PowerOfTwo[k-1] /\ KeyLen = 2 * FactorLen
    BY <1>1, <1>4 DEF FactorLen
  <1>6. KeyLen \in Lengths /\ FactorLen \in Lengths
    BY <1>1, <1>3, <1>5 DEF Lengths
  <1>7. Drawn \subseteq Words(FactorLen)
    BY DrawnAssumption DEF Words, FactorLen
  <1>8. Base \in Nat /\ Base >= 4
    BY <1>2, BaseIsFour, BaseRule
  <1>9. E \in Nat \ {0} /\ 1 \in Word /\ 2 \in Word
    BY <1>2, <1>8 DEF Word
  <1> QED
    BY <1>2, <1>5, <1>6, <1>7, <1>9, LengthsAre

(* isPrime's bases, and what it may answer                                 *)
Bases(x) ==
  {a \in [1..Len(x) -> Word] : Cmp(a, SubLittle(x, 1, Len(x))) = -1 /\ CmpLittle(a, 0) # 0}
Results(x) == {MillerRabin(x, a) : a \in Bases(x)}

LEMMA BasesAre ==
  ASSUME NEW x \in Drawn, Value(x) > 2, NEW a \in Words(FactorLen)
  PROVE  a \in Bases(x) <=> Value(a) # 0 /\ Value(a) < Value(x) - 1
  <1> DEFINE less1 == SubLittle(x, 1, Len(x))
  <1>1. FactorLen \in Lengths /\ FactorLen \in Nat \ {0} /\ x \in Words(FactorLen)
    BY KeyLengths
  <1>2. less1 \in Words(FactorLen) /\ Value(less1) = Value(x) - 1
    BY <1>1, TestStarts
  <1>3. Len(x) = FactorLen /\ a \in Seq(Word)
    BY <1>1, WordsAre
  <1> HIDE DEF less1
  <1>4. Cmp(a, less1) = -1 <=> Value(a) < Value(x) - 1
    <2>1. less1 \in Seq(Word)
      BY <1>1, <1>2, WordsAre
    <2> QED
      BY <1>2, <1>3, <2>1, CmpExact
  <1>5. CmpLittle(a, 0) = 0 <=> Value(a) = 0
    <2>1. 0 \in Word
      BY BaseRule DEF Word
    <2> QED
      BY <1>1, <2>1, CmpLittleExact
  <1>6. a \in Bases(x) <=> Cmp(a, less1) = -1 /\ CmpLittle(a, 0) # 0
    BY <1>3 DEF Bases, less1, Words
  <1> QED
    BY <1>4, <1>5, <1>6

LEMMA BaseIsWords ==
  ASSUME NEW x \in Drawn, NEW a \in Bases(x)
  PROVE  a \in Words(FactorLen)
  <1>1. Len(x) = FactorLen
    BY KeyLengths, WordsAre
  <1> QED
    BY <1>1 DEF Bases, Words

LEMMA OutcomesAre ==
  ASSUME NEW x \in Drawn
  PROVE  /\ ~(Value(x) > 2) => PrimeOutcomes(x) = {"exit"}
         /\ Value(x) > 2 /\ Value(x) % 2 # 1 => PrimeOutcomes(x) = {"composite"}
         /\ Value(x) > 2 /\ Value(x) % 2 = 1 =>
              /\ "composite" \in PrimeOutcomes(x) <=> "composite" \in Results(x)
              /\ "prime" \in PrimeOutcomes(x) => "composite" \notin Results(x)
  <1>1. FactorLen \in Nat \ {0} /\ x \in Words(FactorLen) /\ Len(x) = FactorLen /\ Value(x) \in Nat
    BY KeyLengths, WordsAre
  <1>2. CmpLittle(x, 2) = 1 <=> Value(x) > 2
    BY <1>1, KeyLengths, CmpLittleExact
  <1>3. x[Len(x)] % 2 = 0 <=> Value(x) % 2 # 1
    <2> DEFINE last == x[Len(x)]
               v == Value(x)
    <2>1. /\ last % 2 = 0 => \E h \in Int : v = 2 * h
          /\ last % 2 # 0 => last % 2 = 1 /\ \E h \in Int : v = 2 * h + 1
      BY <1>1, Parity
    <2>2. v \in Nat
      BY <1>1
    <2> HIDE DEF last, v
    <2>3. last % 2 = 0 => v % 2 # 1
      BY <2>1, <2>2
    <2>4. last % 2 # 0 => v % 2 = 1
      BY <2>1, <2>2
    <2> QED
      BY <2>3, <2>4 DEF last, v
  <1>4. PrimeOutcomes(x) =
          IF CmpLittle(x, 2) # 1 THEN {"exit"}
          ELSE IF x[Len(x)] % 2 = 0 THEN {"composite"}
          ELSE (Results(x) \cap {"exit"})
               \cup (IF "composite" \in Results(x) THEN {"composite"} ELSE {"prime"})
    BY DEF PrimeOutcomes, Results, Bases
  <1> QED
    BY <1>2, <1>3, <1>4

LEMMA PrimeAccepted ==
  ASSUME NEW x \in Drawn, Value(x) > 2, PrimeNumber(Value(x))
  PROVE  "composite" \notin PrimeOutcomes(x)
  <1>1. FactorLen \in Lengths /\ FactorLen \in Nat \ {0} /\ x \in Words(FactorLen)
    BY KeyLengths
  <1>2. Value(x) % 2 = 1
    <2> DEFINE v == Value(x)
    <2>1. v \in Nat /\ v > 2 /\ \A i \in 2..v-1 : ~Divides(i, v)
      BY <1>1, WordsAre DEF PrimeNumber
    <2> HIDE DEF v
    <2>2. 2 \in 2..v-1
      BY <2>1
    <2>3. v % 2 # 0
      BY <2>1, <2>2 DEF Divides
    <2>4. v % 2 = 1
      BY <2>1, <2>3
    <2> QED
      BY <2>4 DEF v
  <1>3. ASSUME NEW a \in Bases(x)
        PROVE  MillerRabin(x, a) # "composite"
    <2>1. a \in Words(FactorLen)
      BY BaseIsWords
    <2>2. Value(a) # 0 /\ Value(a) < Value(x) - 1
      BY <2>1, BasesAre
    <2>3. MillerRabin(x, a) \in {"prime", "exit"}
      BY <1>1, <2>1, <2>2, PrimePasses
    <2> QED
      BY <2>3
  <1>4. "composite" \notin Results(x)
    BY <1>3 DEF Results
  <1> QED
    BY <1>2, <1>4, OutcomesAre

LEMMA AcceptedIsLarge ==
  ASSUME NEW x \in Drawn, "prime" \in PrimeOutcomes(x)
  PROVE  Value(x) > 2 /\ Value(x) % 2 = 1
  BY OutcomesAre

LEMMA AcceptedIsPrime ==
  ASSUME WitnessesEnd, NEW x \in Drawn, "prime" \in PrimeOutcomes(x)
  PROVE  PrimeNumber(Value(x))
  <1>1. FactorLen \in Lengths /\ FactorLen \in Nat \ {0} /\ x \in Words(FactorLen) /\ Len(x) = FactorLen
    BY KeyLengths, WordsAre
  <1>2. Value(x) > 2 /\ Value(x) % 2 = 1
    BY AcceptedIsLarge
  <1> SUFFICES ASSUME ~PrimeNumber(Value(x))
               PROVE  FALSE
    OBVIOUS
  <1>3. PICK a \in Words(FactorLen) :
          /\ Value(a) # 0 /\ Value(a) < Value(x) - 1
          /\ ~Coprime(Value(a), Value(x)) /\ MillerRabin(x, a) # "exit"
    BY <1>1, <1>2 DEF WitnessesEnd, Words
  <1>4. PICK g \in 2..Value(a) : Divides(g, Value(a)) /\ Divides(g, Value(x))
    BY <1>3 DEF Coprime
  <1>5. Value(a) \in Int /\ Value(x) \in Int /\ g \in Nat \ {0} /\ g \in Nat /\ g >= 2
    <2>1. Value(a) \in Nat /\ Value(x) \in Nat
      BY <1>1, WordsAre
    <2> QED
      BY <2>1
  <1>6. Congruent(Value(a), 0, g) /\ Congruent(Value(x), 0, g)
    BY <1>4, <1>5, DividesIs
  <1>7. MillerRabin(x, a) \in {"composite", "exit"}
    BY <1>1, <1>2, <1>5, <1>6, WitnessFails
  <1>8. a \in Bases(x)
    BY <1>2, <1>3, BasesAre
  <1>9. "composite" \in Results(x)
    BY <1>3, <1>7, <1>8 DEF Results
  <1> QED
    BY <1>2, <1>9, OutcomesAre

-----------------------------------------------------------------------------
(* The inverse of e                                                        *)
EuclidStates(len) ==
  [r1 : Words(len), r2 : Words(len) \cup {Exit}, s1 : Words(len), s2 : Words(len) \cup {Exit}]
EuclidEnds(t) == Exit \in {t.r2, t.s2} \/ CmpLittle(t.r2, 0) = 0

LEMMA RestIs ==
  ASSUME NEW u \in Nat, NEW v \in Nat \ {0}
  PROVE  /\ (u % v) \in Nat /\ (u \div v) \in Nat /\ (u \div v) * v \in Nat
         /\ (u % v) < v /\ (u \div v) * v <= u /\ u - (u \div v) * v = (u % v) /\ u \div v <= u
  <1> DEFINE k == u \div v
             r == u % v
  <1>1. r \in 0..v-1 /\ k \in Int /\ u = k * v + r
    BY u \in Int, Division
  <1> HIDE DEF k, r
  <1>2. k * v \in Int /\ r \in Nat /\ r < v /\ k * v <= u /\ u - k * v = r
    BY <1>1
  <1>3. k \in Nat
    <2>1. CASE k <= -1
      <3>1. k * v <= -v
        BY <1>1, <2>1
      <3> QED
        BY <1>1, <1>2, <3>1
    <2> QED
      BY <1>1, <2>1
  <1>4. k * v \in Nat /\ k <= k * v
    BY <1>3
  <1>5. k <= u
    BY <1>2, <1>3, <1>4
  <1> QED
    BY <1>2, <1>3, <1>4, <1>5 DEF k, r

LEMMA EuclidSteps ==
  ASSUME NEW len \in Lengths, NEW m \in Words(len), Value(m) # 0,
         NEW t \in EuclidStates(len), ~EuclidEnds(t)
  PROVE  LET u == EuclidStep(t, m)
             k == Value(t.r1) \div Value(t.r2)
         IN  /\ t.r2 \in Words(len) /\ t.s2 \in Words(len) /\ Value(t.r2) # 0
             /\ u \in EuclidStates(len) /\ u.r1 = t.r2 /\ u.s1 = t.s2
             /\ u.r2 # Exit => Value(u.r2) = Value(t.r1) - k * Value(t.r2) /\ Value(u.r2) < Value(t.r2)
             /\ u.s2 # Exit => Congruent(Value(u.s2), Value(t.s1) - k * Value(t.s2), Value(m))
  <1> DEFINE v1 == Value(t.r1)
             v2 == Value(t.r2)
             w1 == Value(t.s1)
             w2 == Value(t.s2)
             k == v1 \div v2
             M == Value(m)
             quotient == Div(t.r1, t.r2, len)
             product == Mult(quotient, t.r2, 2 * len)
             times == ModMult(quotient, t.s2, m, t.s2)
             newR == Sub(t.r1, Low(product, len), len)
             less == Sub(m, times, len)
             newS == ModAdd(t.s1, less, m, t.s2)
  <1>1. len \in Nat \ {0} /\ len \in Nat /\ 2 * len \in Nat \ {0}
    BY LengthsAre
  <1>2. t.r1 \in Words(len) /\ t.r2 \in Words(len) /\ t.s1 \in Words(len) /\ t.s2 \in Words(len)
    BY DEF EuclidStates, EuclidEnds
  <1>3. v2 # 0
    <2>1. 0 \in Word /\ CmpLittle(t.r2, 0) # 0
      BY BaseRule DEF Word, EuclidEnds
    <2> QED
      BY <1>1, <1>2, <2>1, CmpLittleExact
  <1>4. /\ t.r1 \in Numeral /\ Len(t.r1) = len /\ v1 \in Nat /\ v1 < Room[len]
        /\ t.r2 \in Numeral /\ Len(t.r2) = len /\ v2 \in Nat \ {0} /\ v2 < Room[len]
        /\ t.s1 \in Numeral /\ Len(t.s1) = len /\ w1 \in Nat /\ w1 < Room[len]
        /\ t.s2 \in Numeral /\ Len(t.s2) = len /\ w2 \in Nat /\ w2 < Room[len]
        /\ m \in Numeral /\ Len(m) = len /\ M \in Nat \ {0} /\ M < Room[len]
    BY <1>1, <1>2, <1>3, WordsAre
  <1>5. Room[len] \in Nat
    BY <1>1, RoomIsNat
  <1>6. k \in Nat /\ k * v2 \in Nat /\ k * v2 <= v1 /\ v1 - k * v2 < v2 /\ k <= v1
    <2>1. v1 \in Nat /\ v2 \in Nat \ {0}
      BY <1>4
    <2> HIDE DEF v1, v2
    <2>2. /\ (v1 % v2) \in Nat /\ (v1 % v2) < v2 /\ v1 - k * v2 = (v1 % v2)
          /\ k \in Nat /\ k * v2 \in Nat /\ k * v2 <= v1 /\ k <= v1
      BY <2>1, RestIs
    <2> HIDE DEF k
    <2> QED
      BY <2>2
  <1>7. quotient \in Words(len) /\ Value(quotient) = k
    <2>1. Holds(quotient, k, len)
      BY <1>4, DivExact
    <2>2. k < Room[len]
      BY <1>4, <1>5, <1>6
    <2> HIDE DEF quotient, k
    <2> QED
      BY <1>1, <1>6, <2>1, <2>2, HoldsFits
  <1>8. quotient \in Numeral /\ Len(quotient) = len
    BY <1>1, <1>7, WordsAre
  <1>9. newR = Exit \/ (newR \in Words(len) /\ Value(newR) = v1 - k * v2)
    <2>1. product = Exit \/ (product \in Words(2 * len) /\ Value(product) = k * v2)
      <3>1. Len(quotient) <= len
        BY <1>1, <1>8
      <3>2. product = Exit \/ (product \in Words(2 * len) /\ Value(product) = Value(quotient) * v2)
        BY <1>4, <1>8, <3>1, MultInto
      <3> QED
        BY <1>7, <3>2
    <2>2. CASE product = Exit
      <3>1. newR = Exit
        BY <2>2 DEF Low, Sub
      <3> QED
        BY <3>1
    <2>3. CASE product # Exit
      <3> DEFINE low == Low(product, len)
      <3>1. product \in Seq(Word) /\ Len(product) = 2 * len /\ Value(product) = k * v2
        BY <1>1, <2>1, <2>3, WordsAre
      <3>2. low = SubSeq(product, Len(product) - len + 1, Len(product))
        BY <2>3 DEF Low
      <3>3. k * v2 \in 0..Room[len]-1 /\ len <= 2 * len
        BY <1>1, <1>4, <1>5, <1>6
      <3>4. low \in Seq(Word) /\ Len(low) = len /\ Value(low) = k * v2
        <4>1. Value(product) \in 0..Room[len]-1 /\ len <= Len(product)
          BY <3>1, <3>3
        <4> HIDE DEF product, low
        <4> QED
          BY <1>1, <3>1, <3>2, <4>1, LowValue
      <3>5. low \in Words(len)
        BY <3>4, WordsIfLen
      <3>6. low \in Numeral
        BY <1>1, <3>5, WordsAre
      <3>7. newR = Sub(t.r1, low, len)
        OBVIOUS
      <3>8. len <= len
        BY <1>1
      <3> HIDE DEF low, product, newR
      <3>9. Holds(newR, v1 - k * v2, len)
        BY <1>1, <1>4, <3>4, <3>6, <3>7, <3>8, SubExact
      <3> DEFINE d == v1 - k * v2
      <3>10. d \in Nat /\ d < Room[len]
        BY <1>4, <1>5, <1>6
      <3>11. Holds(newR, d, len)
        BY <3>9
      <3> HIDE DEF d
      <3>12. newR \in Words(len) /\ Value(newR) = d
        BY <1>1, <3>10, <3>11, HoldsFits
      <3> QED
        BY <3>12 DEF d
    <2> QED
      BY <2>2, <2>3
  <1>10. IsModProduct(times, quotient, t.s2, m, len)
    <2>1. Len(quotient) + Len(t.s2) = 2 * len
      BY <1>1, <1>4, <1>8
    <2>2. times = ModMultBuff(quotient, t.s2, m, 2 * len, t.s2)
      BY <2>1 DEF ModMult
    <2>3. Len(quotient) <= len
      BY <1>1, <1>8
    <2> HIDE DEF quotient, times
    <2>4. IsModProduct(ModMultBuff(quotient, t.s2, m, 2 * len, t.s2), quotient, t.s2, m, len)
      BY <1>2, <1>4, <1>8, <2>3, ModTimesInto
    <2> QED
      BY <2>2, <2>4
  <1>11. newS = Exit \/ (newS \in Words(len) /\ Congruent(Value(newS), w1 - k * w2, M))
    <2>1. CASE times = Exit
      <3>1. less = Exit
        BY <2>1 DEF Sub
      <3>2. newS = Exit
        BY <3>1 DEF ModAdd, Add, Mod
      <3> QED
        BY <3>2
    <2>2. CASE times # Exit
      <3> DEFINE c == (k * w2) % M
                 sum == Add(t.s1, less, len + 1)
                 v == w1 + (M - c)
      <3>1. times \in Words(len) /\ Value(times) = c
        BY <1>7, <1>10, <2>2 DEF IsModProduct
      <3>2. k * w2 \in Int /\ c \in Int /\ c \in 0..M-1 /\ Congruent(c, k * w2, M)
        <4>1. k \in Nat /\ w2 \in Nat /\ M \in Nat \ {0}
          BY <1>4, <1>6
        <4> HIDE DEF k, w2, M
        <4>2. k * w2 \in Int
          BY <4>1
        <4>3. c \in 0..M-1 /\ Congruent(c, k * w2, M)
          BY <4>1, <4>2, SameRest
        <4> HIDE DEF c
        <4> QED
          BY <4>1, <4>2, <4>3
      <3>3. times \in Numeral /\ Len(times) = len /\ len <= len
        BY <1>1, <3>1, WordsAre
      <3> HIDE DEF c, times
      <3>4. less \in Words(len) /\ Value(less) = M - c
        <4>1. Holds(less, M - c, len)
          BY <1>1, <1>4, <3>1, <3>3, SubExact
        <4>2. M - c \in Nat /\ M - c < Room[len]
          BY <1>4, <1>5, <3>2
        <4> HIDE DEF less
        <4> QED
          BY <1>1, <4>1, <4>2, HoldsFits
      <3>5. less \in Numeral /\ Len(less) = len /\ Value(less) \in Nat /\ Value(less) < Room[len]
        BY <1>1, <3>4, WordsAre
      <3> HIDE DEF less
      <3>6. sum \in Words(len + 1) /\ Value(sum) = v
        <4>1. len + 1 \in Nat \ {0} /\ len + 1 \in Nat /\ len <= len + 1
          BY <1>1
        <4>2. Holds(sum, v, len + 1)
          BY <1>4, <3>4, <3>5, <4>1, AddExact
        <4>3. v \in Nat /\ v < Room[len+1]
          <5>1. Room[len+1] = Room[len] * Base /\ Base >= 2 /\ Base \in Nat
            BY <1>1, RoomStep, BaseRule
          <5>2. Room[len] * Base >= Room[len] * 2
            BY <1>5, <5>1
          <5>3. Room[len] * Base \in Nat /\ Room[len] * 2 = Room[len] + Room[len]
            BY <1>5, <5>1
          <5>4. M - c \in Nat /\ M - c < Room[len]
            BY <3>4, <3>5
          <5> HIDE DEF w1, M
          <5>5. w1 \in Nat /\ w1 < Room[len]
            BY <1>4
          <5>6. w1 + (M - c) \in Nat /\ w1 + (M - c) < Room[len] * 2
            BY <1>5, <5>4, <5>5, <5>3
          <5>7. w1 + (M - c) < Room[len] * Base
            BY <1>5, <5>2, <5>3, <5>6
          <5> QED
            BY <5>1, <5>6, <5>7
        <4> HIDE DEF sum, v
        <4> QED
          BY <4>1, <4>2, <4>3, HoldsFits
      <3>7. newS = Mod(sum, m, t.s2)
        <4>1. MaxLen(t.s1, less) = len
          BY <1>4, <3>5 DEF MaxLen
        <4> QED
          BY <1>4, <4>1 DEF ModAdd
      <3>8. sum \in Numeral
        <4>1. len + 1 \in Nat \ {0}
          BY <1>1
        <4> QED
          BY <3>6, <4>1, WordsAre
      <3> HIDE DEF sum
      <3>9. newS \in Words(len) /\ Value(newS) = v % M
        <4> HIDE DEF v
        <4> QED
          BY <1>1, <1>2, <3>6, <3>7, <3>8, ModInto
      <3>10. Congruent(v % M, w1 - k * w2, M)
        <4> DEFINE x == k * w2
        <4>1. M \in Nat \ {0} /\ w1 \in Int /\ x \in Int /\ c \in Int /\ Congruent(c, x, M)
          BY <1>4, <3>2
        <4> HIDE DEF x, M, w1
        <4>2. PICK e \in Int : c = x + e * M
          BY <4>1 DEF Congruent
        <4> DEFINE f == 1 - e
        <4>3. f * M = M - e * M /\ e * M \in Int /\ f \in Int
          BY <4>1
        <4>4. v = (w1 - x) + f * M
          BY <4>1, <4>2, <4>3
        <4>5. Congruent(v, w1 - x, M) /\ v \in Int /\ w1 - x \in Int /\ M \in Int
          BY <4>1, <4>3, <4>4 DEF Congruent
        <4> HIDE DEF v, f
        <4>6. (v % M) \in 0..M-1 /\ Congruent(v % M, v, M)
          BY <4>1, <4>5, SameRest
        <4> DEFINE r == v % M
                   z == w1 - x
        <4>7. r \in Int /\ Congruent(r, v, M) /\ Congruent(v, z, M) /\ v \in Int /\ z \in Int /\ M \in Int
          BY <4>1, <4>5, <4>6
        <4> HIDE DEF r, z
        <4>8. Congruent(r, z, M)
          BY <4>7, SameOn
        <4> QED
          BY <4>8 DEF r, z, x
      <3> QED
        BY <3>9, <3>10
    <2> QED
      BY <2>1, <2>2
  <1>12. EuclidStep(t, m) = [r1 |-> t.r2, r2 |-> newR, s1 |-> t.s2, s2 |-> newS]
    BY <1>4 DEF EuclidStep
  <1> HIDE DEF newR, newS
  <1>13. EuclidStep(t, m) \in EuclidStates(len)
    BY <1>2, <1>9, <1>11, <1>12 DEF EuclidStates
  <1> DEFINE u == EuclidStep(t, m)
  <1>14. u.r1 = t.r2 /\ u.r2 = newR /\ u.s1 = t.s2 /\ u.s2 = newS
    BY <1>12
  <1> HIDE DEF u
  <1>15. u.r2 # Exit => Value(u.r2) = v1 - k * v2 /\ Value(u.r2) < v2
    BY <1>6, <1>9, <1>14
  <1>16. u.s2 # Exit => Congruent(Value(u.s2), w1 - k * w2, M)
    BY <1>11, <1>14
  <1> QED
    BY <1>2, <1>3, <1>13, <1>14, <1>15, <1>16 DEF u

(* What each step keeps holds of the last one.                             *)
LEMMA EuclidStays ==
  ASSUME NEW len \in Lengths, NEW m \in Words(len), Value(m) # 0,
         NEW S, S \subseteq EuclidStates(len),
         \A t \in S : ~EuclidEnds(t) => EuclidStep(t, m) \in S,
         NEW start \in S
  PROVE  Euclid(m)[start] \in S /\ EuclidEnds(Euclid(m)[start])
  <1> DEFINE D == EuclidStates(len)
             ended == {t \in D : EuclidEnds(t)}
             size == [t \in D |-> IF Exit \in {t.r2, t.s2} THEN 0 ELSE Value(t.r2)]
             next == [t \in D |-> IF t \in ended THEN t ELSE EuclidStep(t, m)]
             IsEuclid(g) == g = [t \in D |-> IF EuclidEnds(t) THEN t ELSE g[EuclidStep(t, m)]]
             euclid == CHOOSE g : IsEuclid(g)
  <1>1. Descends(D, size, ended, next)
    <2>1. ASSUME NEW t \in D, t \notin ended
          PROVE  LET u == EuclidStep(t, m)
                 IN  /\ u \in D /\ t.r2 \in Words(len) /\ Value(t.r2) # 0
                     /\ u.r2 # Exit => Value(u.r2) < Value(t.r2)
                     /\ Exit \notin {t.r2, t.s2}
      <3>1. ~EuclidEnds(t)
        BY <2>1
      <3>2. Exit \notin {t.r2, t.s2}
        BY <3>1 DEF EuclidEnds
      <3> QED
        BY <3>1, <3>2, EuclidSteps
    <2>2. ASSUME NEW t \in D
          PROVE  size[t] \in Nat
      <3>1. t.r2 \in Words(len) \cup {Exit}
        BY DEF EuclidStates
      <3>2. t.r2 # Exit => Value(t.r2) \in Nat
        BY <3>1, LengthsAre, WordsAre
      <3> HIDE DEF D
      <3> QED
        BY <3>2
    <2>3. size \in [D -> Nat]
      BY <2>2
    <2>4. next \in [D -> D]
      BY <2>1
    <2>5. ASSUME NEW t \in D, t \notin ended
          PROVE  size[next[t]] < size[t]
      <3> DEFINE u == EuclidStep(t, m)
      <3>1. next[t] = u /\ u \in D
        BY <2>1, <2>5
      <3>2. size[t] = Value(t.r2) /\ Value(t.r2) # 0 /\ size[t] \in Nat
        BY <2>1, <2>2, <2>5
      <3>3. size[u] = IF Exit \in {u.r2, u.s2} THEN 0 ELSE Value(u.r2)
        BY <3>1
      <3>4. u.r2 # Exit => Value(u.r2) < Value(t.r2)
        BY <2>1, <2>5
      <3> HIDE DEF size, next, u
      <3> QED
        BY <3>1, <3>2, <3>3, <3>4
    <2> HIDE DEF size, next, ended, D
    <2> QED
      BY <2>3, <2>4, <2>5 DEF Descends
  <1>2. Euclid(m) = euclid
    <2>1. Len(m) = len
      BY LengthsAre, WordsAre
    <2> QED
      BY <2>1 DEF Euclid, EuclidStates, EuclidEnds, Words
  <1>3. Returns(euclid, D, ended, next)
    <2>1. PICK f \in [D -> D] : Returns(f, D, ended, next)
      <3> HIDE DEF D, ended, next, size
      <3> QED
        BY <1>1, DescentExists
    <2>2. f = [t \in D |-> f[t]]
      OBVIOUS
    <2>3. ASSUME NEW t \in D
          PROVE  f[t] = IF EuclidEnds(t) THEN t ELSE f[EuclidStep(t, m)]
      <3>1. f[t] = IF t \in ended THEN t ELSE f[next[t]]
        BY <2>1 DEF Returns
      <3> QED
        BY <3>1
    <2>4. IsEuclid(f)
      BY <2>2, <2>3
    <2> HIDE DEF IsEuclid
    <2>5. IsEuclid(euclid)
      BY <2>4
    <2> HIDE DEF euclid
    <2>6. euclid = [t \in D |-> IF EuclidEnds(t) THEN t ELSE euclid[EuclidStep(t, m)]]
      BY <2>5 DEF IsEuclid
    <2>7. ASSUME NEW t \in D
          PROVE  euclid[t] = IF t \in ended THEN t ELSE euclid[next[t]]
      <3>1. euclid[t] = IF EuclidEnds(t) THEN t ELSE euclid[EuclidStep(t, m)]
        BY <2>6
      <3> QED
        BY <3>1
    <2> HIDE DEF D, ended, next
    <2> QED
      BY <2>7 DEF Returns
  <1>4. \A t \in S : t \notin ended => next[t] \in S
    OBVIOUS
  <1>5. euclid[start] \in S /\ euclid[start] \in ended
    <2>1. S \subseteq D
      OBVIOUS
    <2> HIDE DEF ended, D, size, next, euclid
    <2> QED
      BY <1>1, <1>3, <1>4, <2>1, DescentStays
  <1> QED
    BY <1>2, <1>5

(* Each remainder is a multiple of e, and what divides the last two divides *)
(* e and the totient.                                                      *)
Follower(t, e, m) ==
  /\ Value(t.r1) # 0 /\ Congruent(Value(t.r1), Value(t.s1) * e, m)
  /\ Exit \notin {t.r2, t.s2} =>
       /\ Congruent(Value(t.r2), Value(t.s2) * e, m)
       /\ \A g \in Nat \ {0} :
            Congruent(Value(t.r1), 0, g) /\ Congruent(Value(t.r2), 0, g) =>
              Congruent(m, 0, g) /\ Congruent(e, 0, g)

LEMMA FollowerKept ==
  ASSUME NEW len \in Lengths, NEW m \in Words(len), Value(m) # 0, NEW e \in Nat,
         NEW t \in EuclidStates(len), ~EuclidEnds(t), Follower(t, e, Value(m))
  PROVE  Follower(EuclidStep(t, m), e, Value(m))
  <1> DEFINE u == EuclidStep(t, m)
             v1 == Value(t.r1)
             v2 == Value(t.r2)
             w1 == Value(t.s1)
             w2 == Value(t.s2)
             k == v1 \div v2
             M == Value(m)
             z == Value(u.r2)
             y == Value(u.s2)
  <1>1. /\ t.r2 \in Words(len) /\ t.s2 \in Words(len) /\ v2 # 0
        /\ u \in EuclidStates(len) /\ u.r1 = t.r2 /\ u.s1 = t.s2
        /\ u.r2 # Exit => z = v1 - k * v2
        /\ u.s2 # Exit => Congruent(y, w1 - k * w2, M)
    BY EuclidSteps
  <1>2. v1 \in Nat /\ v2 \in Nat \ {0} /\ w1 \in Nat /\ w2 \in Nat /\ M \in Nat /\ M # 0
    BY <1>1, LengthsAre, WordsAre DEF EuclidStates
  <1>3. /\ u.r2 # Exit => z \in Int
        /\ u.s2 # Exit => y \in Int
    BY <1>1, LengthsAre, WordsAre DEF EuclidStates
  <1>4. Exit \notin {t.r2, t.s2}
    BY DEF EuclidEnds
  <1>5. /\ Congruent(v1, w1 * e, M) /\ Congruent(v2, w2 * e, M)
        /\ \A g \in Nat \ {0} :
             Congruent(v1, 0, g) /\ Congruent(v2, 0, g) => Congruent(M, 0, g) /\ Congruent(e, 0, g)
    BY <1>4 DEF Follower
  <1>6. Value(u.r1) = v2 /\ Value(u.s1) = w2
    BY <1>1
  <1>7. k \in Int
    <2> HIDE DEF v1, v2
    <2> QED
      BY <1>2
  <1> SUFFICES ASSUME Exit \notin {u.r2, u.s2}
               PROVE  /\ Congruent(z, y * e, M)
                      /\ \A g \in Nat \ {0} :
                           Congruent(v2, 0, g) /\ Congruent(z, 0, g) =>
                             Congruent(M, 0, g) /\ Congruent(e, 0, g)
    BY <1>2, <1>5, <1>6 DEF Follower
  <1>8. z = v1 - k * v2 /\ Congruent(y, w1 - k * w2, M) /\ z \in Int /\ y \in Int
    BY <1>1, <1>3
  <1> HIDE DEF u, v1, v2, w1, w2, k, M, z, y
  <1>9. Congruent(z, y * e, M)
    <2>1. PICK a \in Int : v1 = w1 * e + a * M
      BY <1>5 DEF Congruent
    <2>2. PICK b \in Int : v2 = w2 * e + b * M
      BY <1>5 DEF Congruent
    <2>3. PICK c \in Int : y = w1 - k * w2 + c * M
      BY <1>8 DEF Congruent
    <2> DEFINE f == a - k * b - c * e
    <2>4. f \in Int
      BY <1>7, <2>1, <2>2, <2>3
    <2>5. (w1 * e + a * M) - k * (w2 * e + b * M) = (w1 - k * w2 + c * M) * e + f * M
      BY <1>2, <1>7
    <2>6. z = y * e + f * M
      BY <1>8, <2>1, <2>2, <2>3, <2>5
    <2> QED
      BY <2>4, <2>6 DEF Congruent
  <1>10. ASSUME NEW g \in Nat \ {0}, Congruent(v2, 0, g), Congruent(z, 0, g)
         PROVE  Congruent(M, 0, g) /\ Congruent(e, 0, g)
    <2>1. PICK a \in Int : v2 = 0 + a * g
      BY <1>10 DEF Congruent
    <2>2. PICK b \in Int : z = 0 + b * g
      BY <1>10 DEF Congruent
    <2> DEFINE f == b + k * a
    <2>3. f \in Int
      BY <1>7
    <2>4. b * g + k * (a * g) = f * g
      BY <1>7
    <2>5. v1 = z + k * v2
      <3>1. k * v2 \in Int
        BY <1>2, <1>7
      <3> QED
        BY <1>2, <1>8, <3>1
    <2>6. v2 = a * g /\ z = b * g
      BY <2>1, <2>2
    <2>7. v1 = 0 + f * g
      BY <2>3, <2>4, <2>5, <2>6
    <2>8. Congruent(v1, 0, g)
      BY <2>3, <2>7 DEF Congruent
    <2> QED
      BY <1>5, <1>10, <2>8
  <1> QED
    BY <1>9, <1>10

(* extendedEuclidean finds the inverse when there is one.                  *)
LEMMA InverseExact ==
  ASSUME NEW len \in Lengths, NEW m \in Words(len), Value(m) >= 2, NEW e \in Word \ {0},
         Coprime(e, Value(m)), NEW d, d = Inverse(e, m), d # Exit
  PROVE  d \in Words(len) /\ Value(d) # 0 /\ Congruent(Value(d) * e, 1, Value(m))
  <1> DEFINE start == [r1 |-> m, r2 |-> Aligned(<<e>>, len), s1 |-> Zero(len), s2 |-> Aligned(<<1>>, len)]
             last == Euclid(m)[start]
             S == {t \in EuclidStates(len) : Follower(t, e, Value(m))}
             M == Value(m)
  <1>1. len \in Nat \ {0} /\ len \in Nat /\ Len(m) = len /\ M \in Nat /\ M # 0 /\ M \in Int
        /\ e \in Nat \ {0} /\ e \in Nat /\ e \in Int /\ e \in Word /\ 1 \in Word /\ 1 <= len
    BY LengthsAre, WordsAre, BaseRule DEF Word
  <1>2. /\ Aligned(<<e>>, len) \in Words(len) /\ Value(Aligned(<<e>>, len)) = e
        /\ Aligned(<<1>>, len) \in Words(len) /\ Value(Aligned(<<1>>, len)) = 1
    <2>1. ASSUME NEW w \in Word
          PROVE  Aligned(<<w>>, len) \in Words(len) /\ Value(Aligned(<<w>>, len)) = w
      <3> DEFINE x == <<w>>
                 y == Aligned(x, len)
      <3>1. x \in Seq(Word) /\ Len(x) = 1 /\ Value(x) = w
        BY ValueOfOne
      <3>2. Len(x) <= len
        BY <1>1, <3>1
      <3> HIDE DEF x
      <3>3. y \in Seq(Word) /\ Len(y) = len /\ Value(y) = w
        BY <1>1, <3>1, <3>2, PaddedValue
      <3> HIDE DEF y
      <3>4. y \in Words(len) /\ Value(y) = w
        BY <3>3, WordsIfLen
      <3> QED
        BY <3>4 DEF x, y
    <2> QED
      BY <1>1, <2>1
  <1>3. Zero(len) \in Words(len) /\ Value(Zero(len)) = 0
    BY <1>1, ZeroValue
  <1>4. start \in S
    <2>1. start \in EuclidStates(len)
      BY <1>2, <1>3 DEF EuclidStates
    <2>2. Congruent(M, 0 * e, M) /\ Congruent(e, 1 * e, M)
      <3>1. M = 0 * e + 1 * M /\ 1 * e = e
        BY <1>1
      <3>2. Congruent(e, e, M)
        BY <1>1, SameSelf
      <3> QED
        BY <3>1, <3>2, 1 \in Int DEF Congruent
    <2>3. Value(start.r1) = M /\ Value(start.r2) = e /\ Value(start.s1) = 0 /\ Value(start.s2) = 1
      BY <1>2, <1>3
    <2> HIDE DEF start
    <2>4. Follower(start, e, M)
      BY <1>1, <2>2, <2>3 DEF Follower
    <2> QED
      BY <2>1, <2>4
  <1>5. last \in S /\ EuclidEnds(last)
    <2>1. \A t \in S : ~EuclidEnds(t) => EuclidStep(t, m) \in S
      BY <1>1, EuclidSteps, FollowerKept
    <2> HIDE DEF S, start
    <2>2. S \subseteq EuclidStates(len)
      BY DEF S
    <2> QED
      BY <1>1, <1>4, <2>1, <2>2, EuclidStays
  <1>6. m # Exit
    BY <1>1, WordsAre
  <1>7. Exit \notin {last.r2, last.s2} /\ d = last.s1
    BY <1>1, <1>6 DEF Inverse
  <1> HIDE DEF start, last
  <1> DEFINE r == Value(last.r1)
             s == Value(last.s1)
  <1>8. last \in EuclidStates(len) /\ Follower(last, e, M)
    BY <1>5
  <1>9. last.r2 \in Words(len) /\ last.r1 \in Words(len) /\ last.s1 \in Words(len)
    BY <1>7, <1>8 DEF EuclidStates
  <1>10. Value(last.r2) = 0
    <2>1. CmpLittle(last.r2, 0) = 0 /\ 0 \in Word
      BY <1>5, <1>7, BaseRule DEF EuclidEnds, Word
    <2> QED
      BY <1>1, <1>9, <2>1, CmpLittleExact
  <1>11. r \in Nat \ {0} /\ s \in Nat /\ Congruent(r, s * e, M)
    BY <1>1, <1>8, <1>9, WordsAre DEF Follower
  <1>12. \A g \in Nat \ {0} :
           Congruent(r, 0, g) /\ Congruent(0, 0, g) => Congruent(M, 0, g) /\ Congruent(e, 0, g)
    BY <1>7, <1>8, <1>10 DEF Follower
  <1> HIDE DEF r, s, M
  <1>13. Congruent(M, 0, r) /\ Congruent(e, 0, r)
    <2>1. r = 0 + 1 * r /\ 0 = 0 + 0 * r
      BY <1>11
    <2>2. Congruent(r, 0, r) /\ Congruent(0, 0, r)
      BY <2>1, 0 \in Int, 1 \in Int DEF Congruent
    <2> QED
      BY <1>11, <1>12, <2>2
  <1>14. Divides(r, M) /\ Divides(r, e)
    BY <1>1, <1>11, <1>13, DividesIs
  <1>15. r <= e
    <2>1. PICK c \in Int : e = 0 + c * r
      BY <1>13 DEF Congruent
    <2>2. c >= 1
      <3>1. CASE c <= 0
        <4> DEFINE x == c * r
        <4>1. x <= 0 /\ x \in Int
          BY <1>11, <3>1
        <4>2. e = 0 + x /\ e \in Nat \ {0}
          BY <1>1, <2>1
        <4> HIDE DEF x
        <4> QED
          BY <4>1, <4>2
      <3> QED
        BY <3>1
    <2>3. c * r >= r
      BY <1>11, <2>2
    <2> QED
      BY <1>1, <1>11, <2>1, <2>3
  <1>16. r = 1
    <2>1. ~(r \in 2..e)
      BY <1>14 DEF Coprime, M
    <2> QED
      BY <1>1, <1>11, <1>15, <2>1
  <1>17. s * e \in Int
    BY <1>1, <1>11
  <1>18. Congruent(s * e, 1, M)
    BY <1>1, <1>11, <1>16, <1>17, 1 \in Int, SameBack
  <1>19. s # 0
    <2> SUFFICES ASSUME s = 0
                 PROVE  FALSE
      OBVIOUS
    <2>1. 0 * e = 0
      BY <1>1
    <2>2. Congruent(0, 1, M)
      BY <1>18, <2>1
    <2>3. M \in Nat \ {0} /\ 0 \in 0..M-1 /\ 1 \in 0..M-1
      BY <1>1 DEF M
    <2>4. 0 = 1
      BY <2>2, <2>3, SameIs
    <2> QED
      BY <2>4
  <1> QED
    BY <1>7, <1>9, <1>18, <1>19 DEF s, M

-----------------------------------------------------------------------------
(* A key, and what is computed with it                                     *)
Totient(x, y) == Mult(SubLittle(x, 1, Len(x)), SubLittle(y, 1, Len(y)), KeyLen)
Powered(c, d, modulus) == IF d = Exit THEN Exit ELSE MontLadExp(c, d, modulus)
Decrypted(c, len, x, y, modulus) == Unload(Powered(c, Inverse(E, Totient(x, y)), modulus), len)

LEMMA DecryptIs ==
  ASSUME NEW c, NEW len
  PROVE  DecryptRSA(c, len) = Decrypted(c, len, p, q, n)
  BY DEF DecryptRSA, Decrypted, Powered, Totient

LEMMA ModulusIs ==
  ASSUME NEW x \in Words(FactorLen), NEW y \in Words(FactorLen), NEW t, t = Mult(x, y, KeyLen), t # Exit
  PROVE  t \in Words(KeyLen) /\ Value(t) = Value(x) * Value(y)
  <1>1. FactorLen \in Lengths /\ FactorLen \in Nat \ {0} /\ KeyLen = 2 * FactorLen /\ FactorLen <= FactorLen
    BY KeyLengths
  <1>2. x \in Numeral /\ Len(x) = FactorLen /\ y \in Numeral /\ Len(y) = FactorLen
    BY <1>1, WordsAre
  <1>3. Len(x) <= FactorLen
    BY <1>1, <1>2
  <1>4. LET u == Mult(x, y, 2 * FactorLen)
        IN  u = Exit \/ (u \in Words(2 * FactorLen) /\ Value(u) = Value(x) * Value(y))
    BY <1>1, <1>2, <1>3, MultInto
  <1> QED
    BY <1>1, <1>4

LEMMA TotientIs ==
  ASSUME NEW x \in Words(FactorLen), Value(x) > 2, NEW y \in Words(FactorLen), Value(y) > 2,
         NEW t, t = Totient(x, y), t # Exit
  PROVE  t \in Words(KeyLen) /\ Value(t) = (Value(x) - 1) * (Value(y) - 1) /\ Value(t) >= 2
  <1> DEFINE x1 == SubLittle(x, 1, Len(x))
             y1 == SubLittle(y, 1, Len(y))
             a == Value(x) - 1
             b == Value(y) - 1
  <1>1. FactorLen \in Lengths /\ FactorLen \in Nat \ {0}
    BY KeyLengths
  <1>2. x1 \in Words(FactorLen) /\ Value(x1) = a
    BY <1>1, TestStarts
  <1>3. y1 \in Words(FactorLen) /\ Value(y1) = b
    BY <1>1, TestStarts
  <1>4. t = Mult(x1, y1, KeyLen)
    BY DEF Totient
  <1>5. a \in Nat /\ b \in Nat /\ a >= 2 /\ b >= 2
    <2>1. Value(x) \in Nat /\ Value(y) \in Nat
      BY <1>1, WordsAre
    <2> QED
      BY <2>1
  <1> HIDE DEF x1, y1, a, b
  <1>6. t \in Words(KeyLen) /\ Value(t) = a * b
    BY <1>2, <1>3, <1>4, ModulusIs
  <1>7. a * b >= 2
    BY <1>5
  <1> QED
    BY <1>6, <1>7 DEF a, b

(* Different primes, and a totient that e does not share a factor with     *)
IsKey(x, y, modulus) ==
  /\ x \in Words(FactorLen) /\ y \in Words(FactorLen) /\ modulus \in Words(KeyLen)
  /\ PrimeNumber(Value(x)) /\ PrimeNumber(Value(y)) /\ Value(x) # Value(y)
  /\ Value(x) > 2 /\ Value(y) > 2
  /\ Value(modulus) = Value(x) * Value(y)
  /\ Coprime(E, (Value(x) - 1) * (Value(y) - 1))

LEMMA KeyIs ==
  ASSUME NEW x, NEW y, NEW modulus, IsKey(x, y, modulus)
  PROVE  /\ Value(x) \in Nat /\ Value(y) \in Nat /\ Value(modulus) \in Nat \ {0}
         /\ Value(modulus) # 0
  <1>1. Value(x) \in Nat /\ Value(y) \in Nat /\ Value(modulus) \in Nat
    BY KeyLengths, WordsAre DEF IsKey
  <1> DEFINE a == Value(x)
             b == Value(y)
  <1>2. a \in Nat /\ b \in Nat /\ a > 2 /\ b > 2 /\ Value(modulus) = a * b
    BY <1>1 DEF IsKey
  <1> HIDE DEF a, b
  <1>3. a * b # 0
    BY <1>2
  <1> QED
    BY <1>1, <1>2, <1>3

LEMMA PrivateKeyIs ==
  ASSUME NEW x, NEW y, NEW modulus, IsKey(x, y, modulus),
         NEW d, d = Inverse(E, Totient(x, y)), d # Exit
  PROVE  /\ d \in Words(KeyLen) /\ Value(d) \in Nat /\ Value(d) # 0
         /\ Congruent(Value(d) * E, 1, (Value(x) - 1) * (Value(y) - 1))
  <1> DEFINE t == Totient(x, y)
  <1>1. t # Exit
    BY DEF Inverse
  <1>2. t \in Words(KeyLen) /\ Value(t) = (Value(x) - 1) * (Value(y) - 1) /\ Value(t) >= 2
    BY <1>1, TotientIs DEF IsKey
  <1>3. Coprime(E, Value(t))
    BY <1>2 DEF IsKey
  <1>4. KeyLen \in Lengths /\ E \in Word \ {0} /\ KeyLen \in Nat \ {0}
    BY KeyLengths
  <1> HIDE DEF t
  <1>5. d = Inverse(E, t)
    BY DEF t
  <1>6. d \in Words(KeyLen) /\ Value(d) # 0 /\ Congruent(Value(d) * E, 1, Value(t))
    BY <1>2, <1>3, <1>4, <1>5, InverseExact
  <1> QED
    BY <1>2, <1>4, <1>6, WordsAre

(* One power undoes the other, in either order.                            *)
LEMMA TurnedBack ==
  ASSUME NEW x, NEW y, NEW modulus, IsKey(x, y, modulus),
         NEW i \in Nat, NEW j \in Nat, Congruent(i * j, 1, (Value(x) - 1) * (Value(y) - 1)),
         NEW v \in Nat, NEW u \in Int, Congruent(u, Powers(v)[i], Value(modulus)),
         NEW r \in Int, Congruent(r, Powers(u)[j], Value(modulus))
  PROVE  Congruent(r, v, Value(modulus))
  <1> DEFINE a == Value(x)
             b == Value(y)
             M == Value(modulus)
             w == Powers(v)[i]
             k == i * j
  <1>1. a \in Nat /\ b \in Nat /\ M \in Nat /\ M \in Int /\ v \in Int
    BY KeyIs
  <1>2. /\ PrimeNumber(a) /\ PrimeNumber(b) /\ a # b /\ a > 2 /\ b > 1 /\ M = a * b
        /\ Congruent(k, 1, (a - 1) * (b - 1))
    BY <1>1 DEF IsKey
  <1>3. w \in Int /\ k \in Nat
    BY <1>1, PowerIsInt
  <1>4. Congruent(Powers(u)[j], Powers(w)[j], M)
    <2>1. Congruent(u, w, M)
      OBVIOUS
    <2> HIDE DEF w, M
    <2> QED
      BY <1>1, <1>3, <2>1, PowersSame
  <1>5. Powers(v)[k] = Powers(w)[j]
    BY <1>1, PowersTimes
  <1>6. Congruent(Powers(v)[k], v, M)
    <2> HIDE DEF a, b, M, k, w
    <2>1. Congruent(Powers(v)[k], v, a * b)
      BY <1>1, <1>2, <1>3, RsaTurns
    <2> QED
      BY <1>2, <2>1
  <1> DEFINE s == Powers(u)[j]
             t == Powers(w)[j]
  <1>7. s \in Int /\ t \in Int
    BY <1>3, PowerIsInt
  <1>8. Congruent(r, s, M) /\ Congruent(s, t, M) /\ Congruent(t, v, M)
    BY <1>4, <1>5, <1>6
  <1> HIDE DEF s, t, M
  <1>9. Congruent(r, t, M)
    BY <1>1, <1>7, <1>8, SameOn
  <1>10. Congruent(r, v, M)
    BY <1>1, <1>7, <1>8, <1>9, SameOn
  <1> QED
    BY <1>10 DEF M

(* A message and the number that it is loaded into                         *)
LEMMA LoadedIs ==
  ASSUME NEW m \in Seq(Word), Len(m) <= KeyLen
  PROVE  /\ MsgNum(m) \in Words(KeyLen)
         /\ Unload(MsgNum(m), Len(m)) \in {m, Exit}
  <1>1. KeyLen \in Nat \ {0} /\ 0 \in Word /\ Len(m) \in Nat
    BY KeyLengths, BaseRule DEF Word
  <1>2. \A i \in 1..KeyLen : KeyLen - i + 1 <= Len(m) => m[KeyLen-i+1] \in Word
    <2> HIDE DEF Word
    <2> QED
      BY <1>1
  <1>3. MsgNum(m) \in Words(KeyLen)
    BY <1>1, <1>2 DEF MsgNum, Words
  <1>4. ASSUME Unload(MsgNum(m), Len(m)) # Exit
        PROVE  Unload(MsgNum(m), Len(m)) = m
    <2>1. Unload(MsgNum(m), Len(m)) = [k \in 1..Len(m) |-> MsgNum(m)[KeyLen-k+1]]
      BY <1>4 DEF Unload
    <2>2. ASSUME NEW k \in 1..Len(m)
          PROVE  MsgNum(m)[KeyLen-k+1] = m[k]
      <3>1. KeyLen - k + 1 \in 1..KeyLen /\ KeyLen - (KeyLen - k + 1) + 1 = k
        BY <1>1
      <3> QED
        BY <1>1, <3>1 DEF MsgNum
    <2>3. m = [k \in 1..Len(m) |-> m[k]]
      OBVIOUS
    <2> HIDE DEF Words
    <2> QED
      BY <2>1, <2>2, <2>3
  <1> QED
    BY <1>3, <1>4

LEMMA UnloadedIs ==
  ASSUME NEW num \in Words(KeyLen)
  PROVE  /\ Unload(num, KeyLen) \in Words(KeyLen)
         /\ MsgNum(Unload(num, KeyLen)) = num
  <1> DEFINE turned == [k \in 1..KeyLen |-> num[KeyLen-k+1]]
  <1>1. KeyLen \in Nat \ {0} /\ num # Exit
    BY KeyLengths, WordsAre
  <1>2. Unload(num, KeyLen) = turned
    BY <1>1 DEF Unload
  <1>3. turned \in Words(KeyLen)
    BY <1>1 DEF Words
  <1>4. Len(turned) = KeyLen
    BY <1>1, <1>3, WordsAre
  <1>5. ASSUME NEW i \in 1..KeyLen
        PROVE  KeyLen - i + 1 <= Len(turned) /\ turned[KeyLen-i+1] = num[i]
    <2>1. KeyLen - i + 1 \in 1..KeyLen /\ KeyLen - (KeyLen - i + 1) + 1 = i
      BY <1>1
    <2> QED
      BY <1>1, <1>4, <2>1
  <1>6. num = [i \in 1..KeyLen |-> num[i]]
    BY DEF Words
  <1> HIDE DEF turned
  <1>7. MsgNum(turned) = num
    BY <1>5, <1>6 DEF MsgNum
  <1> QED
    BY <1>2, <1>3, <1>7

LEMMA EncryptIs ==
  ASSUME NEW m \in Seq(Word), Len(m) <= KeyLen, NEW modulus \in Words(KeyLen), Value(modulus) # 0,
         NEW r, r = EncryptRSA(m, modulus), r # Exit
  PROVE  /\ r \in Words(KeyLen) /\ Value(r) \in Nat /\ Value(MsgNum(m)) \in Nat
         /\ Congruent(Value(r), Powers(Value(MsgNum(m)))[E], Value(modulus))
         /\ Value(r) < Value(modulus) \/ Value(r) = Value(MsgNum(m))
  <1> DEFINE a == MsgNum(m)
             e == <<E>>
  <1>1. KeyLen \in Lengths /\ KeyLen \in Nat \ {0} /\ E \in Word /\ E \in Nat \ {0} /\ KeyLen <= KeyLen
    BY KeyLengths
  <1>2. e \in Seq(Word) /\ Value(e) = E
    BY <1>1, ValueOfOne
  <1>3. a \in Words(KeyLen)
    BY LoadedIs
  <1>4. r = MontLadExp(a, e, modulus)
    BY DEF EncryptRSA
  <1> HIDE DEF a, e
  <1>5. a \in Numeral /\ Len(a) <= KeyLen /\ Value(a) \in Nat
    BY <1>1, <1>3, WordsAre
  <1>6. Value(e) # 0
    BY <1>1, <1>2
  <1>7. /\ r \in Words(KeyLen) /\ Congruent(Value(r), Powers(Value(a))[Value(e)], Value(modulus))
        /\ Value(r) < Value(modulus) \/ Value(r) = Value(a)
    BY <1>1, <1>2, <1>4, <1>5, <1>6, MontLadExpExact
  <1> QED
    BY <1>1, <1>2, <1>5, <1>7, WordsAre DEF a

(* What is decrypted is what was encrypted.                                *)
LEMMA DecryptedExact ==
  ASSUME NEW x, NEW y, NEW modulus, IsKey(x, y, modulus),
         NEW m \in Seq(Word), Len(m) <= KeyLen, Value(MsgNum(m)) < Value(modulus),
         NEW c, c = EncryptRSA(m, modulus), c # Exit,
         NEW t, t = Decrypted(c, Len(m), x, y, modulus), t # Exit
  PROVE  t = m
  <1> DEFINE d == Inverse(E, Totient(x, y))
             a == MsgNum(m)
             M == Value(modulus)
             num == MontLadExp(c, d, modulus)
  <1>1. KeyLen \in Lengths /\ KeyLen \in Nat \ {0} /\ E \in Nat \ {0} /\ E \in Nat
    BY KeyLengths
  <1>2. M \in Nat \ {0} /\ modulus \in Words(KeyLen) /\ M # 0
    BY KeyIs DEF IsKey
  <1>3. Unload(Powered(c, d, modulus), Len(m)) # Exit /\ t = Unload(Powered(c, d, modulus), Len(m))
    BY DEF Decrypted
  <1>4. Powered(c, d, modulus) # Exit
    BY <1>3 DEF Unload
  <1>5. d # Exit /\ num # Exit /\ Powered(c, d, modulus) = num
    BY <1>4 DEF Powered
  <1>6. a \in Words(KeyLen) /\ Unload(a, Len(m)) \in {m, Exit}
    BY LoadedIs
  <1>7. /\ c \in Words(KeyLen) /\ Value(c) \in Nat /\ Value(a) \in Nat
        /\ Congruent(Value(c), Powers(Value(a))[E], M)
        /\ Value(c) < M \/ Value(c) = Value(a)
    BY <1>2, EncryptIs
  <1>8. Value(a) < M
    OBVIOUS
  <1>9. /\ d \in Words(KeyLen) /\ Value(d) \in Nat /\ Value(d) # 0
        /\ Congruent(Value(d) * E, 1, (Value(x) - 1) * (Value(y) - 1))
    BY <1>5, PrivateKeyIs
  <1>10. t = Unload(num, Len(m))
    BY <1>3, <1>5
  <1>11. num = MontLadExp(c, d, modulus)
    OBVIOUS
  <1> HIDE DEF num, d, a
  <1>12. c \in Numeral /\ Len(c) <= KeyLen /\ d \in Seq(Word)
    BY <1>1, <1>7, <1>9, WordsAre
  <1>13. /\ num \in Words(KeyLen) /\ Congruent(Value(num), Powers(Value(c))[Value(d)], M)
         /\ Value(num) < M \/ Value(num) = Value(c)
    BY <1>1, <1>2, <1>5, <1>9, <1>11, <1>12, MontLadExpExact
  <1>14. Value(num) \in Nat
    BY <1>1, <1>13, WordsAre
  <1>15. Congruent(Value(num), Value(a), M)
    <2> DEFINE i == E
               j == Value(d)
               u == Value(c)
               v == Value(a)
               r == Value(num)
    <2>1. i * j = j * i
      BY <1>1, <1>9
    <2>2. i \in Nat /\ j \in Nat /\ u \in Int /\ v \in Nat /\ r \in Int
      BY <1>1, <1>7, <1>9, <1>14
    <2>3. /\ Congruent(i * j, 1, (Value(x) - 1) * (Value(y) - 1))
          /\ Congruent(u, Powers(v)[i], Value(modulus)) /\ Congruent(r, Powers(u)[j], Value(modulus))
      BY <1>7, <1>9, <1>13, <2>1
    <2> HIDE DEF i, j, u, v, r
    <2>4. Congruent(r, v, Value(modulus))
      BY <2>2, <2>3, TurnedBack
    <2> QED
      BY <2>4 DEF r, v
  <1>16. Value(num) = Value(a)
    <2> DEFINE r == Value(num)
               v == Value(a)
    <2>1. r \in 0..M-1 /\ v \in 0..M-1 /\ Congruent(r, v, M)
      BY <1>2, <1>7, <1>8, <1>13, <1>14, <1>15
    <2> HIDE DEF r, v, M
    <2>2. r = v
      BY <1>2, <2>1, SameIs
    <2> QED
      BY <2>2 DEF r, v
  <1>17. num = a
    BY <1>1, <1>6, <1>13, <1>16, ValueTells
  <1> QED
    BY <1>6, <1>10, <1>17

(* A power of nothing: x2 is Exit from the start.                          *)
LEMMA PowerOfEmpty ==
  ASSUME NEW e \in Seq(Word), NEW modulus \in Words(KeyLen), Value(modulus) # 0
  PROVE  MontLadExp(<<>>, e, modulus) = Exit
  <1> DEFINE total == W * Len(e)
             S == {s \in LadderStates(KeyLen) : s.x2 = Exit}
             start == LadderStart(<<>>, modulus, KeyLen)
             step == [i \in 1..total |-> [s \in S |-> LadderStep(s, Bit(e, i), modulus, KeyLen)]]
             lad == Ladder(<<>>, e, modulus)
  <1>1. total \in Nat /\ total \in Int /\ KeyLen \in Nat \ {0} /\ KeyLen \in Nat /\ KeyLen \in Lengths
        /\ Len(modulus) = KeyLen
    BY WordAssumption, KeyLengths, WordsAre
  <1>2. start \in S
    <2>1. start.x2 = Exit
      BY DEF LadderStart, ModMultBuff, Mult, Mod, Exit
    <2>2. Aligned(<<>>, KeyLen) \in Words(KeyLen)
      <3>1. <<>> \in Seq(Word)
        OBVIOUS
      <3> QED
        BY <1>1, <3>1, AlignedIsWords DEF Words
    <2>3. start.x1 = Aligned(<<>>, KeyLen) /\ start.started = FALSE
          /\ start = [started |-> start.started, x1 |-> start.x1, x2 |-> start.x2]
      BY DEF LadderStart
    <2> HIDE DEF start
    <2> QED
      BY <2>1, <2>2, <2>3 DEF LadderStates
  <1>3. ASSUME NEW i \in 1..total, NEW s \in S
        PROVE  LadderStep(s, Bit(e, i), modulus, KeyLen) \in S
    <2> DEFINE t == LadderStep(s, Bit(e, i), modulus, KeyLen)
    <2>1. Bit(e, i) \in {0, 1}
      BY BitIsBit
    <2>2. /\ t \in LadderStates(KeyLen)
          /\ ~s.started => t.x2 = s.x2
          /\ s.started /\ Bit(e, i) = 1 => IsModProduct(t.x2, s.x2, s.x2, modulus, KeyLen)
          /\ s.started /\ Bit(e, i) = 0 => IsModProduct(t.x2, s.x2, s.x1, modulus, KeyLen)
      BY <1>1, <2>1, LadderSteps
    <2>3. s.x2 = Exit /\ s.started \in BOOLEAN
      BY DEF LadderStates
    <2> HIDE DEF t
    <2>4. t.x2 = Exit
      BY <2>1, <2>2, <2>3 DEF IsModProduct
    <2> QED
      BY <2>2, <2>4 DEF t
  <1>4. PICK f \in [0..total -> S] : Follows(f, 0, total, start, step)
    <2>1. ASSUME NEW i \in 0+1..total, NEW s \in S
          PROVE  step[i][s] \in S
      <3>1. i \in 1..total
        OBVIOUS
      <3>2. step[i][s] = LadderStep(s, Bit(e, i), modulus, KeyLen)
        BY <3>1
      <3> QED
        BY <1>3, <3>1, <3>2
    <2> HIDE DEF step, S, total, start
    <2> QED
      BY <1>1, <1>2, <2>1, 0 \in Int, RecursionExists, Zenon
  <1>5. f[0] = start /\ \A i \in 1..total : f[i] = LadderStep(f[i-1], Bit(e, i), modulus, KeyLen)
    <2>1. ASSUME NEW i \in 1..total
          PROVE  f[i] = LadderStep(f[i-1], Bit(e, i), modulus, KeyLen)
      <3> HIDE DEF total, start, S
      <3>1. i \in 0+1..total /\ i - 1 \in 0..total
        BY <1>1
      <3>2. f[i-1] \in S
        BY <3>1
      <3>3. f[i] = step[i][f[i-1]]
        BY <1>4, <3>1 DEF Follows
      <3> QED
        BY <3>2, <3>3
    <2>2. f[0] = start
      <3> HIDE DEF total, start
      <3> QED
        BY <1>1, <1>4 DEF Follows
    <2> QED
      BY <2>1, <2>2
  <1> HIDE DEF step
  <1>6. f = [i \in 0..total |->
               IF i = 0 THEN start ELSE LadderStep(f[i-1], Bit(e, i), modulus, KeyLen)]
    <2> HIDE DEF total, start, S
    <2>1. \A i \in 0..total :
            f[i] = IF i = 0 THEN start ELSE LadderStep(f[i-1], Bit(e, i), modulus, KeyLen)
      BY <1>1, <1>5
    <2> QED
      BY <2>1
  <1>7. lad = [i \in 0..total |->
                 IF i = 0 THEN start ELSE LadderStep(lad[i-1], Bit(e, i), modulus, KeyLen)]
    <2>1. MaxLen(<<>>, modulus) = KeyLen
      BY <1>1 DEF MaxLen
    <2> DEFINE IsLadder(g) == g = [i \in 0..total |->
                 IF i = 0 THEN start ELSE LadderStep(g[i-1], Bit(e, i), modulus, KeyLen)]
    <2>2. lad = CHOOSE g : IsLadder(g)
      BY <2>1 DEF Ladder, LadderStart
    <2>3. IsLadder(f)
      BY <1>6
    <2> HIDE DEF IsLadder, lad
    <2>4. IsLadder(lad)
      BY <2>2, <2>3
    <2> QED
      BY <2>4 DEF IsLadder
  <1>8. MontLadExp(<<>>, e, modulus) = Finish(lad[total], Len(modulus))
    BY DEF MontLadExp
  <1> HIDE DEF lad, total, start, S
  <1>9. \A i \in 0..total : lad[i] \in S
    <2> DEFINE T == {i \in 0..total : lad[i] \in S}
    <2>1. 0 \in T
      BY <1>1, <1>2, <1>7
    <2>2. ASSUME NEW i \in 0..total-1, i \in T
          PROVE  i + 1 \in T
      <3>1. i + 1 \in 1..total /\ (i + 1) - 1 = i /\ i + 1 \in 0..total /\ i + 1 # 0
        BY <1>1
      <3>2. lad[i+1] = LadderStep(lad[i], Bit(e, i + 1), modulus, KeyLen)
        BY <1>7, <3>1
      <3>3. LadderStep(lad[i], Bit(e, i + 1), modulus, KeyLen) \in S
        BY <1>3, <2>2, <3>1
      <3> QED
        BY <3>1, <3>2, <3>3
    <2>3. \A i \in 0..total : i \in T
      <3> HIDE DEF T
      <3> QED
        BY <1>1, <2>1, <2>2, 0 \in Int, RangeInduction, Zenon
    <2> QED
      BY <2>3
  <1>10. lad[total].x2 = Exit
    BY <1>1, <1>9 DEF S
  <1> QED
    BY <1>8, <1>10 DEF Finish

(* What is signed is recovered.                                            *)
LEMMA CheckedExact ==
  ASSUME NEW x, NEW y, NEW modulus, IsKey(x, y, modulus),
         NEW m \in Seq(Word), Len(m) <= KeyLen, Value(m) < Value(modulus),
         NEW c, c = Decrypted(m, KeyLen, x, y, modulus), c # Exit,
         NEW t, t = EncryptRSA(c, modulus), t # Exit
  PROVE  Value(t) = Value(m)
  <1> DEFINE d == Inverse(E, Totient(x, y))
             M == Value(modulus)
             num == MontLadExp(m, d, modulus)
  <1>1. KeyLen \in Lengths /\ KeyLen \in Nat \ {0} /\ E \in Nat \ {0} /\ E \in Nat /\ KeyLen <= KeyLen
    BY KeyLengths
  <1>2. M \in Nat \ {0} /\ modulus \in Words(KeyLen) /\ M # 0
    BY KeyIs DEF IsKey
  <1>3. Unload(Powered(m, d, modulus), KeyLen) # Exit /\ c = Unload(Powered(m, d, modulus), KeyLen)
    BY DEF Decrypted
  <1>4. Powered(m, d, modulus) # Exit
    BY <1>3 DEF Unload
  <1>5. d # Exit /\ num # Exit /\ Powered(m, d, modulus) = num
    BY <1>4 DEF Powered
  <1>6. /\ d \in Words(KeyLen) /\ Value(d) \in Nat /\ Value(d) # 0
        /\ Congruent(Value(d) * E, 1, (Value(x) - 1) * (Value(y) - 1))
    BY <1>5, PrivateKeyIs
  <1>7. c = Unload(num, KeyLen)
    BY <1>3, <1>5
  <1>8. num = MontLadExp(m, d, modulus)
    OBVIOUS
  <1> HIDE DEF num, d
  <1>9. d \in Seq(Word)
    BY <1>1, <1>6, WordsAre
  <1>10. m # <<>>
    BY <1>2, <1>5, <1>8, <1>9, PowerOfEmpty
  <1>11. m \in Numeral /\ Value(m) \in Nat
    BY <1>10, CmpExact DEF Numeral
  <1>12. /\ num \in Words(KeyLen) /\ Congruent(Value(num), Powers(Value(m))[Value(d)], M)
         /\ Value(num) < M \/ Value(num) = Value(m)
    BY <1>1, <1>2, <1>5, <1>6, <1>8, <1>9, <1>11, MontLadExpExact
  <1>13. Value(num) \in Nat /\ Value(num) < M
    BY <1>1, <1>12, WordsAre
  <1>14. c \in Words(KeyLen) /\ MsgNum(c) = num
    BY <1>7, <1>12, UnloadedIs
  <1>15. c \in Seq(Word) /\ Len(c) <= KeyLen
    BY <1>1, <1>14, WordsAre
  <1>16. /\ Value(t) \in Nat /\ Congruent(Value(t), Powers(Value(num))[E], M)
         /\ Value(t) < M \/ Value(t) = Value(num)
    BY <1>2, <1>14, <1>15, EncryptIs
  <1> DEFINE i == Value(d)
             j == E
             u == Value(num)
             v == Value(m)
             r == Value(t)
  <1>17. i \in Nat /\ j \in Nat /\ u \in Int /\ v \in Nat /\ r \in Int
    BY <1>1, <1>6, <1>11, <1>13, <1>16
  <1>18. /\ Congruent(i * j, 1, (Value(x) - 1) * (Value(y) - 1))
         /\ Congruent(u, Powers(v)[i], Value(modulus)) /\ Congruent(r, Powers(u)[j], Value(modulus))
    BY <1>6, <1>12, <1>16
  <1>19. r \in 0..M-1 /\ v \in 0..M-1
    BY <1>2, <1>11, <1>13, <1>16
  <1> HIDE DEF i, j, u, v, r
  <1>20. Congruent(r, v, M)
    BY <1>17, <1>18, TurnedBack
  <1> HIDE DEF M
  <1>21. r = v
    BY <1>2, <1>19, <1>20, SameIs
  <1> QED
    BY <1>21 DEF r, v

-----------------------------------------------------------------------------
(* The specification                                                       *)

(* The key was drawn and accepted, and the text is what the calls made of  *)
(* the message with it.                                                    *)
Accepted(x) == x \in Drawn /\ "prime" \in PrimeOutcomes(x)
KeyInv ==
  /\ p # None => Accepted(p)
  /\ pc = "p" => p = None
  /\ pc \notin {"p", "exited"} => p # None
  /\ n # None => Accepted(p) /\ Accepted(q) /\ n = Mult(p, q, KeyLen)
  /\ pc \notin {"p", "q", "exited"} => n # None
  /\ pc \in {"encrypted", "decrypted", "signed", "checked"} => msg \in Messages
  /\ pc = "encrypted" => text = EncryptRSA(msg, n) /\ text # Exit
  /\ pc = "decrypted" =>
       /\ EncryptRSA(msg, n) # Exit
       /\ text = Decrypted(EncryptRSA(msg, n), Len(msg), p, q, n) /\ text # Exit
  /\ pc = "signed" => text = Decrypted(msg, KeyLen, p, q, n) /\ text # Exit
  /\ pc = "checked" =>
       /\ Decrypted(msg, KeyLen, p, q, n) # Exit
       /\ text = EncryptRSA(Decrypted(msg, KeyLen, p, q, n), n) /\ text # Exit

LEMMA OutcomesKnown ==
  ASSUME NEW x
  PROVE  PrimeOutcomes(x) \subseteq {"exit", "composite", "prime"}
  BY DEF PrimeOutcomes

LEMMA DrawnIsNone ==
  ASSUME NEW x \in Drawn
  PROVE  x # None
  <1>1. x # Exit
    BY KeyLengths, WordsAre
  <1> QED
    BY <1>1 DEF None, Exit

LEMMA KeyInit ==
  ASSUME Init
  PROVE  KeyInv
  BY DEF Init, KeyInv

LEMMA StoppedKeeps ==
  ASSUME KeyInv, Stop
  PROVE  KeyInv'
  <1>1. pc' = "exited" /\ p' = p /\ q' = q /\ n' = n
    BY DEF Stop
  <1>2. p' # None => Accepted(p')
    BY <1>1 DEF KeyInv
  <1>3. n' # None => Accepted(p') /\ Accepted(q') /\ n' = Mult(p', q', KeyLen)
    BY <1>1 DEF KeyInv
  <1> QED
    BY <1>1, <1>2, <1>3 DEF KeyInv, Accepted

LEMMA KeyStep ==
  ASSUME KeyInv, [Next]_vars
  PROVE  KeyInv'
  <1>1. CASE DrawP
    <2>4. PICK x \in Drawn : \E outcome \in PrimeOutcomes(x) \ {"composite"} :
            IF outcome = "exit" THEN Stop ELSE pc' = "q" /\ p' = x /\ UNCHANGED <<q, n, text>>
      BY <1>1 DEF DrawP
    <2>1. PICK outcome \in PrimeOutcomes(x) \ {"composite"} :
            IF outcome = "exit" THEN Stop ELSE pc' = "q" /\ p' = x /\ UNCHANGED <<q, n, text>>
      BY <2>4
    <2>2. CASE outcome = "exit"
      BY <2>1, <2>2, StoppedKeeps
    <2>3. CASE outcome # "exit"
      <3>1. outcome = "prime"
        BY <2>3, OutcomesKnown
      <3>2. Accepted(x) /\ x # None
        BY <3>1, DrawnIsNone DEF Accepted
      <3>3. pc = "p" /\ pc' = "q" /\ p' = x /\ q' = q /\ n' = n
        BY <1>1, <2>1, <2>3 DEF DrawP
      <3>4. n = None
        <4>1. p = None
          BY <3>3 DEF KeyInv
        <4>2. n # None => Accepted(p)
          BY DEF KeyInv
        <4> QED
          BY <4>1, <4>2, DrawnIsNone DEF Accepted
      <3>5. Accepted(p') /\ n' = None /\ p' # None
        BY <3>2, <3>3, <3>4
      <3> QED
        BY <3>3, <3>5 DEF KeyInv, Accepted
    <2> QED
      BY <2>2, <2>3
  <1>2. CASE DrawQ
    <2>4. PICK x \in Drawn : \E outcome \in PrimeOutcomes(x) \ {"composite"} :
            IF outcome = "exit" THEN Stop ELSE Key(x, Mult(p, x, KeyLen))
      BY <1>2 DEF DrawQ
    <2>1. PICK outcome \in PrimeOutcomes(x) \ {"composite"} :
            IF outcome = "exit" THEN Stop ELSE Key(x, Mult(p, x, KeyLen))
      BY <2>4
    <2>2. CASE outcome = "exit" \/ Mult(p, x, KeyLen) = Exit
      BY <2>1, <2>2, StoppedKeeps DEF Key
    <2>3. CASE outcome # "exit" /\ Mult(p, x, KeyLen) # Exit
      <3>1. outcome = "prime"
        BY <2>3, OutcomesKnown
      <3>2. Accepted(x)
        BY <3>1 DEF Accepted
      <3>3. pc = "q" /\ pc' = "key" /\ q' = x /\ n' = Mult(p, x, KeyLen) /\ p' = p
        BY <1>2, <2>1, <2>3 DEF DrawQ, Key
      <3>4. p # None /\ Accepted(p)
        BY <3>3 DEF KeyInv
      <3>5. n' # None
        BY <2>3, <3>3 DEF None, Exit
      <3>6. p' # None /\ Accepted(p') /\ Accepted(q') /\ n' = Mult(p', q', KeyLen)
        BY <3>2, <3>3, <3>4
      <3> QED
        BY <3>3, <3>5, <3>6 DEF KeyInv, Accepted
    <2> QED
      BY <2>2, <2>3
  <1>3. ASSUME NEW from, NEW to, NEW result, Turn(from, to, result)
        PROVE  \/ Stop
               \/ /\ pc = from /\ pc' = to /\ result # Exit /\ text' = result
                  /\ p' = p /\ q' = q /\ n' = n
    BY <1>3 DEF Turn
  <1>4. p # None => Accepted(p)
    BY DEF KeyInv
  <1>5. n # None => Accepted(p) /\ Accepted(q) /\ n = Mult(p, q, KeyLen)
    BY DEF KeyInv
  <1>6. ASSUME NEW m \in Messages, Encrypt(m)
        PROVE  KeyInv'
    <2>1. Turn("key", "encrypted", EncryptRSA(m, n)) /\ msg' = m
      BY <1>6 DEF Encrypt
    <2>2. CASE Stop
      BY <2>2, StoppedKeeps
    <2>3. CASE ~Stop
      <3>1. /\ pc = "key" /\ pc' = "encrypted" /\ EncryptRSA(m, n) # Exit /\ text' = EncryptRSA(m, n)
            /\ p' = p /\ q' = q /\ n' = n
        BY <1>3, <2>1, <2>3
      <3>2. p # None /\ n # None
        BY <3>1 DEF KeyInv
      <3>3. text' = EncryptRSA(msg', n') /\ text' # Exit /\ msg' \in Messages
        BY <2>1, <3>1
      <3> QED
        BY <1>4, <1>5, <3>1, <3>2, <3>3 DEF KeyInv, Accepted
    <2> QED
      BY <2>2, <2>3
  <1>7. ASSUME NEW m \in Messages, Sign(m)
        PROVE  KeyInv'
    <2>1. Turn("key", "signed", DecryptRSA(m, KeyLen)) /\ msg' = m
      BY <1>7 DEF Sign
    <2>2. CASE Stop
      BY <2>2, StoppedKeeps
    <2>3. CASE ~Stop
      <3>1. /\ pc = "key" /\ pc' = "signed" /\ DecryptRSA(m, KeyLen) # Exit
            /\ text' = DecryptRSA(m, KeyLen)
            /\ p' = p /\ q' = q /\ n' = n
        BY <1>3, <2>1, <2>3
      <3>2. p # None /\ n # None
        BY <3>1 DEF KeyInv
      <3>3. DecryptRSA(m, KeyLen) = Decrypted(m, KeyLen, p, q, n)
        BY DecryptIs
      <3>4. text' = Decrypted(msg', KeyLen, p', q', n') /\ text' # Exit /\ msg' \in Messages
        BY <2>1, <3>1, <3>3
      <3> QED
        BY <1>4, <1>5, <3>1, <3>2, <3>4 DEF KeyInv, Accepted
    <2> QED
      BY <2>2, <2>3
  <1>8. CASE Decrypt
    <2>1. Turn("encrypted", "decrypted", DecryptRSA(text, Len(msg))) /\ msg' = msg
      BY <1>8 DEF Decrypt
    <2>2. CASE Stop
      BY <2>2, StoppedKeeps
    <2>3. CASE ~Stop
      <3>1. /\ pc = "encrypted" /\ pc' = "decrypted" /\ DecryptRSA(text, Len(msg)) # Exit
            /\ text' = DecryptRSA(text, Len(msg))
            /\ p' = p /\ q' = q /\ n' = n
        BY <1>3, <2>1, <2>3
      <3>2. p # None /\ n # None /\ msg \in Messages /\ text = EncryptRSA(msg, n) /\ text # Exit
        BY <3>1 DEF KeyInv
      <3>3. DecryptRSA(text, Len(msg)) = Decrypted(text, Len(msg), p, q, n)
        BY DecryptIs
      <3>4. /\ EncryptRSA(msg', n') # Exit /\ msg' \in Messages
            /\ text' = Decrypted(EncryptRSA(msg', n'), Len(msg'), p', q', n') /\ text' # Exit
        BY <2>1, <3>1, <3>2, <3>3
      <3> QED
        BY <1>4, <1>5, <3>1, <3>2, <3>4 DEF KeyInv, Accepted
    <2> QED
      BY <2>2, <2>3
  <1>9. CASE Check
    <2>1. Turn("signed", "checked", EncryptRSA(text, n)) /\ msg' = msg
      BY <1>9 DEF Check
    <2>2. CASE Stop
      BY <2>2, StoppedKeeps
    <2>3. CASE ~Stop
      <3>1. /\ pc = "signed" /\ pc' = "checked" /\ EncryptRSA(text, n) # Exit
            /\ text' = EncryptRSA(text, n)
            /\ p' = p /\ q' = q /\ n' = n
        BY <1>3, <2>1, <2>3
      <3>2. /\ p # None /\ n # None /\ msg \in Messages
            /\ text = Decrypted(msg, KeyLen, p, q, n) /\ text # Exit
        BY <3>1 DEF KeyInv
      <3>3. /\ Decrypted(msg', KeyLen, p', q', n') # Exit /\ msg' \in Messages
            /\ text' = EncryptRSA(Decrypted(msg', KeyLen, p', q', n'), n') /\ text' # Exit
        BY <2>1, <3>1, <3>2
      <3> QED
        BY <1>4, <1>5, <3>1, <3>2, <3>3 DEF KeyInv, Accepted
    <2> QED
      BY <2>2, <2>3
  <1>10. CASE UNCHANGED vars
    <2>1. pc' = pc /\ p' = p /\ q' = q /\ n' = n /\ msg' = msg /\ text' = text
      BY <1>10 DEF vars
    <2> QED
      BY <2>1 DEF KeyInv, Accepted
  <1> QED
    BY <1>1, <1>2, <1>6, <1>7, <1>8, <1>9, <1>10 DEF Next

(* The key is always what generateKeys drew and accepted, and the text     *)
(* what encryptRSA and decryptRSA make of the message.                     *)
THEOREM KeyInvariant == Spec => []KeyInv
  <1>1. Init => KeyInv
    BY KeyInit
  <1>2. KeyInv /\ [Next]_vars => KeyInv'
    BY KeyStep
  <1> QED
    BY <1>1, <1>2, PTL DEF Spec

(* isPrime (rsa.c) rejects no prime.                                       *)
THEOREM PrimesAreAccepted == Spec => []PrimesAreKeys
  <1>1. PrimesAreKeys
    BY PrimeAccepted DEF PrimesAreKeys
  <1> QED
    BY <1>1, PTL

LEMMA KeyIsPrime ==
  ASSUME WitnessesEnd, KeyInv
  PROVE  KeysArePrime
  <1>1. pc # "p" /\ p # None => PrimeNumber(Value(p))
    BY AcceptedIsPrime DEF KeyInv, Accepted
  <1>2. ASSUME n # None
        PROVE  PrimeNumber(Value(q)) /\ Value(n) = Value(p) * Value(q)
    <2>1. Accepted(p) /\ Accepted(q) /\ n = Mult(p, q, KeyLen)
      BY <1>2 DEF KeyInv
    <2>2. p \in Words(FactorLen) /\ q \in Words(FactorLen) /\ n # Exit
      BY <1>2, <2>1, KeyLengths DEF Accepted, None, Exit
    <2> QED
      BY <2>1, <2>2, ModulusIs, AcceptedIsPrime DEF Accepted
  <1> QED
    BY <1>1, <1>2 DEF KeysArePrime

LEMMA UsableIsKey ==
  ASSUME WitnessesEnd, KeyInv, Usable
  PROVE  IsKey(p, q, n)
  <1>1. n # None /\ Value(p) # Value(q) /\ Coprime(E, (Value(p) - 1) * (Value(q) - 1))
    BY DEF Usable
  <1>2. Accepted(p) /\ Accepted(q) /\ n = Mult(p, q, KeyLen)
    BY <1>1 DEF KeyInv
  <1>3. p \in Words(FactorLen) /\ q \in Words(FactorLen) /\ n # Exit
    BY <1>1, <1>2, KeyLengths DEF Accepted, None, Exit
  <1>4. n \in Words(KeyLen) /\ Value(n) = Value(p) * Value(q)
    BY <1>2, <1>3, ModulusIs
  <1>5. PrimeNumber(Value(p)) /\ PrimeNumber(Value(q)) /\ Value(p) > 2 /\ Value(q) > 2
    BY <1>2, AcceptedIsPrime, AcceptedIsLarge DEF Accepted
  <1> QED
    BY <1>1, <1>3, <1>4, <1>5 DEF IsKey

LEMMA TurnedMessage ==
  ASSUME WitnessesEnd, KeyInv
  PROVE  DecryptsToMessage /\ ChecksToMessage
  <1>1. ASSUME pc = "decrypted", Usable, Value(MsgNum(msg)) < Value(n)
        PROVE  text = msg
    <2>1. IsKey(p, q, n)
      BY <1>1, UsableIsKey
    <2>2. msg \in Seq(Word) /\ Len(msg) <= KeyLen
      BY <1>1, MessagesAssumption DEF KeyInv
    <2>3. /\ EncryptRSA(msg, n) # Exit /\ text # Exit
          /\ text = Decrypted(EncryptRSA(msg, n), Len(msg), p, q, n)
      BY <1>1 DEF KeyInv
    <2> QED
      BY <1>1, <2>1, <2>2, <2>3, DecryptedExact
  <1>2. ASSUME pc = "checked", Usable, Value(msg) < Value(n)
        PROVE  Value(text) = Value(msg)
    <2>1. IsKey(p, q, n)
      BY <1>2, UsableIsKey
    <2>2. msg \in Seq(Word) /\ Len(msg) <= KeyLen
      BY <1>2, MessagesAssumption DEF KeyInv
    <2>3. /\ Decrypted(msg, KeyLen, p, q, n) # Exit /\ text # Exit
          /\ text = EncryptRSA(Decrypted(msg, KeyLen, p, q, n), n)
      BY <1>2 DEF KeyInv
    <2> QED
      BY <1>2, <2>1, <2>2, <2>3, CheckedExact
  <1> QED
    BY <1>1, <1>2 DEF DecryptsToMessage, ChecksToMessage

(* The factors of a key are primes and n is their product (generateKeys),  *)
(* where a base that shares a factor with a composite can be tested.       *)
THEOREM KeysAreOfPrimes ==
  ASSUME WitnessesEnd
  PROVE  Spec => []KeysArePrime
  <1>1. KeyInv => KeysArePrime
    BY KeyIsPrime
  <1> QED
    BY <1>1, KeyInvariant, PTL

(* What decryptRSA returns is the message that encryptRSA was given.       *)
THEOREM MessagesComeBack ==
  ASSUME WitnessesEnd
  PROVE  Spec => []DecryptsToMessage
  <1>1. KeyInv => DecryptsToMessage
    BY TurnedMessage
  <1> QED
    BY <1>1, KeyInvariant, PTL

(* What is signed with the private key is recovered by the public one.     *)
THEOREM SignaturesCheck ==
  ASSUME WitnessesEnd
  PROVE  Spec => []ChecksToMessage
  <1>1. KeyInv => ChecksToMessage
    BY TurnedMessage
  <1> QED
    BY <1>1, KeyInvariant, PTL
==============================================================================
