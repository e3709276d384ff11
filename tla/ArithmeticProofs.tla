--------------------------- MODULE ArithmeticProofs ---------------------------
(***************************************************************************)
(* Every call of the arithmetic is exact, or exits, for words of any width *)
(* and numbers of any length; products for lengths that halve down to one  *)
(* word.  The operations modulo the curve's prime are exact wherever no    *)
(* carry and no negation goes astray.                                      *)
(***************************************************************************)
EXTENDS Arithmetic, BigMathsProofs

LEMMA LongestIsPower ==
  ASSUME NEW x \in Numbers, NEW y \in Numbers
  PROVE  \E k \in Nat : MaxLen(x, y) = PowerOfTwo[k]
  <1>1. PICK i \in 0..Len(x) : Len(x) = PowerOfTwo[i]
    BY LengthsAssumption
  <1>2. PICK j \in 0..Len(y) : Len(y) = PowerOfTwo[j]
    BY LengthsAssumption
  <1>3. Len(x) \in Nat /\ Len(y) \in Nat
    <2>1. x \in Numeral /\ y \in Numeral
      BY NumbersAssumption DEF Numeral
    <2> QED
      BY <2>1, NumeralLen
  <1>4. i \in Nat /\ j \in Nat
    BY <1>3
  <1> QED
    BY <1>1, <1>2, <1>4 DEF MaxLen

-----------------------------------------------------------------------------
(* Field elements: the place of bit BitMod among the words *)

LEMMA PowerPlus ==
  ASSUME NEW i \in Nat, NEW j \in Nat
  PROVE  PowerOfTwo[i+j] = PowerOfTwo[i] * PowerOfTwo[j]
  <1> DEFINE T == {k \in Nat : PowerOfTwo[i+k] = PowerOfTwo[i] * PowerOfTwo[k]}
  <1>1. 0 \in T
    BY PowerRule
  <1>2. ASSUME NEW k \in Nat, k \in T
        PROVE  k + 1 \in T
    <2>1. i + (k + 1) = (i + k) + 1 /\ i + k \in Nat
      OBVIOUS
    <2>2. PowerOfTwo[(i+k)+1] = 2 * PowerOfTwo[i+k] /\ PowerOfTwo[k+1] = 2 * PowerOfTwo[k]
      BY <2>1, PowerRule
    <2> DEFINE p == PowerOfTwo[i]
               q == PowerOfTwo[k]
    <2>3. p \in Int /\ q \in Int /\ PowerOfTwo[i+k] = p * q
      BY <1>2, PowerRule
    <2> HIDE DEF p, q
    <2>4. 2 * (p * q) = p * (2 * q)
      BY <2>3
    <2> QED
      BY <2>1, <2>2, <2>3, <2>4 DEF p, q
  <1>3. \A k \in Nat : k \in T
    <2> HIDE DEF T
    <2> QED
      BY <1>1, <1>2, SetInduction
  <1> QED
    BY <1>3

LEMMA TwoToIsPower ==
  ASSUME NEW k \in 0..W
  PROVE  TwoTo[k] = PowerOfTwo[k]
  <1> DEFINE T == {j \in 0..W : TwoTo[j] = PowerOfTwo[j]}
  <1>1. W \in Nat
    BY WordAssumption
  <1>2. 0 \in T
    <2>1. TwoTo[0] = 1
      BY TwoToRule
    <2>2. PowerOfTwo[0] = 1
      BY PowerRule
    <2> QED
      BY <1>1, <2>1, <2>2
  <1>3. ASSUME NEW j \in 0..W-1, j \in T
        PROVE  j + 1 \in T
    <2>1. j \in Nat /\ j + 1 \in 1..W /\ (j + 1) - 1 = j /\ j + 1 \in 0..W
      BY <1>1
    <2>2. PowerOfTwo[j+1] = 2 * PowerOfTwo[j]
      BY <2>1, PowerRule
    <2>3. TwoTo[j+1] = 2 * TwoTo[j]
      BY <2>1, TwoToRule
    <2> QED
      BY <1>3, <2>1, <2>2, <2>3
  <1>4. \A j \in 0..W : j \in T
    <2> HIDE DEF T
    <2> QED
      BY <1>1, <1>2, <1>3, 0 \in Int, W \in Int, RangeInduction, Zenon
  <1> QED
    BY <1>4

LEMMA RoomIsPower ==
  ASSUME NEW k \in Nat
  PROVE  W * k \in Nat /\ Room[k] = PowerOfTwo[W*k]
  <1> DEFINE T == {j \in Nat : W * j \in Nat /\ Room[j] = PowerOfTwo[W*j]}
  <1>1. W \in Nat
    BY WordAssumption
  <1>2. 0 \in T
    BY <1>1, RoomRule, PowerRule
  <1>3. ASSUME NEW j \in Nat, j \in T
        PROVE  j + 1 \in T
    <2>1. W * (j + 1) = W * j + W /\ W * j \in Nat /\ W * (j + 1) \in Nat
      BY <1>1
    <2>2. PowerOfTwo[W*j+W] = PowerOfTwo[W*j] * PowerOfTwo[W]
      BY <1>1, <2>1, PowerPlus
    <2>3. PowerOfTwo[W] = Base
      <3>1. W \in 0..W
        BY <1>1
      <3> QED
        BY <3>1, TwoToIsPower, WordAssumption
    <2>4. Room[j+1] = Room[j] * Base
      BY RoomStep
    <2> QED
      BY <1>3, <2>1, <2>2, <2>3, <2>4
  <1>4. \A j \in Nat : j \in T
    <2> HIDE DEF T
    <2> QED
      BY <1>2, <1>3, SetInduction
  <1> QED
    BY <1>4

Limit == PowerOfTwo[BitMod]
Top == TwoTo[BitDepth]
Under == TwoTo[W-BitDepth]

LEMMA FieldPlaces ==
  /\ W \in Nat /\ W >= 2 /\ BitDepth \in 1..W-1
  /\ N \in Nat /\ N >= 2 /\ BitMod \div W = N - 1 /\ BitMod = W * (N - 1) + BitDepth
  <1>1. BitMod \in Nat /\ W \in Nat \ {0} /\ BitMod > W /\ BitMod % W # 0
    BY FieldAssumption, WordAssumption
  <1> DEFINE q == BitMod \div W
             r == BitMod % W
  <1>2. BitMod = q * W + r /\ r \in 0..W-1 /\ q \in Int
    BY <1>1, Division
  <1>3. N = q + 1 /\ BitDepth = r
    BY DEF N, BitDepth
  <1>4. r # 0
    BY <1>1
  <1> HIDE DEF q, r
  <1>5. W >= 2 /\ r \in 1..W-1
    BY <1>1, <1>2, <1>4
  <1>6. q >= 1
    <2> SUFFICES ASSUME q <= 0
                 PROVE  FALSE
      BY <1>2
    <2>1. -q \in Nat /\ (-q) * W >= 0 /\ (-q) * W = -(q * W) /\ q * W \in Int
      BY <1>1, <1>2
    <2> QED
      BY <1>1, <1>2, <2>1
  <1>7. N \in Nat /\ N >= 2 /\ N - 1 = q
    BY <1>2, <1>3, <1>6
  <1>8. q * W = W * q
    BY <1>1, <1>2
  <1> QED
    BY <1>1, <1>2, <1>3, <1>5, <1>7, <1>8 DEF q

LEMMA FieldRule ==
  /\ Top \in Nat /\ Top >= 2 /\ Under \in Nat /\ Under >= 2 /\ Base = Top * Under
  /\ Room[N-1] \in Nat /\ Room[N-1] >= Base
  /\ Limit = Top * Room[N-1] /\ Limit \in Nat /\ Limit >= 2 * Base
  /\ CarryMult \in Nat /\ CarryMult < Base /\ CarryMult * CarryMult < Base
  <1>1. /\ W \in Nat /\ W >= 2 /\ BitDepth \in 1..W-1
        /\ N \in Nat /\ N >= 2 /\ BitMod = W * (N - 1) + BitDepth
    BY FieldPlaces
  <1>2. /\ BitDepth \in 0..W /\ W - BitDepth \in 0..W /\ BitDepth \in Nat /\ W - BitDepth \in Nat
        /\ W \in 0..W /\ BitDepth + (W - BitDepth) = W
    BY <1>1
  <1>3. Base = PowerOfTwo[BitDepth] * PowerOfTwo[W-BitDepth]
    <2>1. PowerOfTwo[BitDepth+(W-BitDepth)] = PowerOfTwo[BitDepth] * PowerOfTwo[W-BitDepth]
      BY <1>2, PowerPlus
    <2>2. TwoTo[W] = PowerOfTwo[W]
      BY <1>2, TwoToIsPower
    <2> QED
      BY <1>2, <2>1, <2>2, WordAssumption
  <1>4. Top = PowerOfTwo[BitDepth] /\ Under = PowerOfTwo[W-BitDepth]
    BY <1>2, TwoToIsPower DEF Top, Under
  <1>5. ASSUME NEW k \in Nat \ {0}
        PROVE  PowerOfTwo[k] \in Nat /\ PowerOfTwo[k] >= 2
    <2>1. k - 1 \in Nat /\ (k - 1) + 1 = k
      OBVIOUS
    <2>2. PowerOfTwo[k-1] \in Nat \ {0} /\ PowerOfTwo[(k-1)+1] = 2 * PowerOfTwo[k-1]
      BY <2>1, PowerRule
    <2> QED
      BY <2>1, <2>2
  <1>6. Top \in Nat /\ Top >= 2 /\ Under \in Nat /\ Under >= 2
    <2>1. BitDepth \in Nat \ {0} /\ W - BitDepth \in Nat \ {0}
      BY <1>1
    <2> QED
      BY <1>4, <1>5, <2>1
  <1>7. Room[N-1] \in Nat /\ Room[N-1] >= Base
    <2>1. N - 2 \in Nat /\ (N - 2) + 1 = N - 1
      BY <1>1
    <2>2. Room[N-2] \in Nat \ {0} /\ Room[N-1] = Room[N-2] * Base
      BY <2>1, RoomIsNat, RoomStep
    <2> DEFINE r == Room[N-2]
    <2>3. r - 1 \in Nat /\ r \in Nat
      BY <2>2
    <2> HIDE DEF r
    <2>4. (r - 1) * Base >= 0 /\ (r - 1) * Base = r * Base - Base /\ r * Base \in Nat
      BY <2>3, BaseRule
    <2>5. r * Base >= Base
      BY <2>4, BaseRule
    <2> QED
      BY <2>2, <2>4, <2>5 DEF r
  <1>8. Limit = Top * Room[N-1]
    <2>1. N - 1 \in Nat
      BY <1>1
    <2>2. W * (N - 1) \in Nat /\ Room[N-1] = PowerOfTwo[W*(N-1)]
      BY <2>1, RoomIsPower
    <2>3. PowerOfTwo[BitDepth+W*(N-1)] = PowerOfTwo[BitDepth] * PowerOfTwo[W*(N-1)]
      BY <1>2, <2>2, PowerPlus
    <2>4. BitDepth + W * (N - 1) = BitMod
      BY <1>1, <1>2, <2>2
    <2> QED
      BY <1>4, <2>2, <2>3, <2>4 DEF Limit
  <1>9. Limit \in Nat /\ Limit >= 2 * Base
    <2> DEFINE r == Room[N-1]
               t == Top
    <2>1. r \in Nat /\ r >= Base /\ t - 2 \in Nat /\ t \in Nat
      BY <1>6, <1>7
    <2> HIDE DEF r, t
    <2>2. (t - 2) * r >= 0 /\ (t - 2) * r = t * r - 2 * r /\ t * r \in Nat
      BY <2>1
    <2>3. t * r >= 2 * Base
      BY <2>1, <2>2, BaseRule
    <2> QED
      BY <1>8, <2>2, <2>3 DEF r, t
  <1>10. CarryMult \in Nat /\ CarryMult < Base /\ CarryMult * CarryMult < Base
    BY FieldAssumption, BaseRule DEF Word
  <1> QED
    BY <1>3, <1>4, <1>6, <1>7, <1>8, <1>9, <1>10
-----------------------------------------------------------------------------
(* A word is a digit of the number. *)

LEMMA DivisionTwice ==
  ASSUME NEW v \in Int, NEW r \in Nat \ {0}
  PROVE  (v \div r) \div Base = v \div (r * Base)
  <1> DEFINE q == v \div r
             w == v % r
             p == q \div Base
             d == q % Base
  <1>1. q \in Int /\ w \in 0..r-1 /\ v = q * r + w
    BY Division
  <1>2. Base \in Nat \ {0}
    BY BaseRule
  <1>3. p \in Int /\ d \in 0..Base-1 /\ q = p * Base + d
    BY <1>1, <1>2, Division
  <1> HIDE DEF q, w, p, d
  <1> DEFINE rest == d * r + w
             big == r * Base
  <1>4. big \in Nat \ {0} /\ rest \in 0..big-1
    <2>1. d * r >= 0 /\ d * r \in Int
      BY <1>3
    <2>2. Base - 1 - d \in Nat /\ r \in Nat
      BY <1>2, <1>3
    <2>3. (Base - 1 - d) * r >= 0
      BY <2>2
    <2>4. (Base - 1 - d) * r = Base * r - r - d * r
      BY <1>2, <1>3
    <2>5. Base * r = big /\ big \in Nat /\ big # 0
      BY <1>2
    <2> HIDE DEF big
    <2> QED
      BY <1>1, <2>1, <2>3, <2>4, <2>5
  <1>5. v = p * big + rest
    <2>1. (p * Base + d) * r = p * (r * Base) + d * r
      <3>1. p * Base \in Int /\ d \in Int /\ r \in Int /\ p \in Int
        BY <1>2, <1>3
      <3>2. (p * Base + d) * r = (p * Base) * r + d * r
        BY <3>1, Distributes
      <3>3. (p * Base) * r = p * (r * Base)
        BY <1>2, <3>1
      <3> QED
        BY <3>2, <3>3
    <2>2. q * r = p * big + d * r
      BY <1>3, <2>1
    <2>3. p * big \in Int /\ d * r \in Int /\ w \in Int
      BY <1>1, <1>3, <1>4
    <2> HIDE DEF big
    <2> QED
      BY <1>1, <2>2, <2>3
  <1> HIDE DEF rest, big
  <1>6. (p * big + rest) \div big = p
    BY <1>3, <1>4, DivisionUnique
  <1> QED
    BY <1>5, <1>6 DEF p, q, big

LEMMA SumsDivided ==
  ASSUME NEW len \in Nat, NEW d \in [1..len -> Word], NEW v \in Int, v = Sums(d, len)[len]
  PROVE  \A i \in 0..len : Sums(d, len)[i] = v \div Room[len-i]
  <1> DEFINE s == Sums(d, len)
             T == {k \in 0..len : s[len-k] = v \div Room[k]}
  <1>1. d \in [1..len -> Int]
    BY BaseRule DEF Word
  <1>2. s \in [0..len -> Int] /\ \A i \in 1..len : s[i] = s[i-1] * Base + d[i]
    BY <1>1, SumsRule
  <1> HIDE DEF s
  <1>3. 0 \in T
    <2>1. Room[0] = 1 /\ v \div 1 = v /\ len - 0 = len
      BY RoomRule
    <2> QED
      BY <2>1 DEF s
  <1>4. ASSUME NEW k \in 0..len-1, k \in T
        PROVE  k + 1 \in T
    <2> DEFINE i == len - k
    <2>1. i \in 1..len /\ i - 1 = len - (k + 1) /\ i - 1 \in 0..len /\ k \in Nat /\ k + 1 \in 0..len
      OBVIOUS
    <2>2. s[i] = s[i-1] * Base + d[i]
      BY <1>2, <2>1
    <2>3. s[i-1] \in Int /\ d[i] \in 0..Base-1
      BY <1>2, <2>1 DEF Word
    <2>4. (s[i-1] * Base + d[i]) \div Base = s[i-1]
      BY <2>3, BaseRule, DivisionUnique
    <2>5. Room[k] \in Nat \ {0} /\ Room[k+1] = Room[k] * Base
      BY <2>1, RoomIsNat, RoomStep
    <2>6. (v \div Room[k]) \div Base = v \div Room[k+1]
      BY <2>5, DivisionTwice
    <2>7. s[i] = v \div Room[k]
      BY <1>4
    <2>8. s[i-1] = v \div Room[k+1]
      BY <2>2, <2>4, <2>6, <2>7
    <2> QED
      BY <2>1, <2>8
  <1>5. \A k \in 0..len : k \in T
    <2> HIDE DEF T
    <2> QED
      BY <1>3, <1>4, 0 \in Int, len \in Int, RangeInduction, Zenon
  <1>6. ASSUME NEW i \in 0..len
        PROVE  s[i] = v \div Room[len-i]
    <2>1. len - i \in 0..len /\ len - (len - i) = i
      OBVIOUS
    <2>2. s[len-(len-i)] = v \div Room[len-i]
      BY <1>5, <2>1
    <2> QED
      BY <2>1, <2>2
  <1> QED
    BY <1>6 DEF s

Digits(v, len) == [i \in 1..len |-> (v \div Room[len-i]) % Base]

LEMMA DigitIs ==
  ASSUME NEW x \in Seq(Word), NEW i \in 1..Len(x)
  PROVE  x[i] = (Value(x) \div Room[Len(x)-i]) % Base
  <1> DEFINE len == Len(x)
             v == Value(x)
             s == Sums(x, len)
  <1>1. v = s[len] /\ x \in [1..len -> Int] /\ len \in Nat /\ x \in [1..len -> Word]
    BY ValueIsSum
  <1>2. s \in [0..len -> Int] /\ \A j \in 1..len : s[j] = s[j-1] * Base + x[j]
    BY <1>1, SumsRule
  <1>3. i \in 0..len /\ i - 1 \in 0..len /\ len \in 0..len /\ i \in 1..len
    BY <1>1
  <1>4. v \in Int
    BY <1>1, <1>2, <1>3
  <1> HIDE DEF len, v, s
  <1>5. s[i] = v \div Room[len-i]
    BY <1>1, <1>3, <1>4, SumsDivided DEF s
  <1>6. s[i-1] \in Int /\ x[i] \in 0..Base-1 /\ s[i] = s[i-1] * Base + x[i]
    BY <1>1, <1>2, <1>3 DEF Word
  <1>7. (s[i-1] * Base + x[i]) % Base = x[i]
    BY <1>6, BaseRule, DivisionUnique
  <1> QED
    BY <1>5, <1>6, <1>7 DEF v, len

LEMMA DigitsValue ==
  ASSUME NEW len \in Nat, NEW v \in 0..Room[len]-1
  PROVE  Digits(v, len) \in Seq(Word) /\ Len(Digits(v, len)) = len /\ Value(Digits(v, len)) = v
         /\ Digits(v, len) \in [1..len -> Word]
  <1> DEFINE y == Digits(v, len)
             s == Sums(y, len)
             T == {i \in 0..len : s[i] = v \div Room[len-i]}
  <1>1. ASSUME NEW i \in 0..len
        PROVE  Room[len-i] \in Nat \ {0} /\ v \div Room[len-i] \in Int
    <2>1. len - i \in Nat
      OBVIOUS
    <2>2. Room[len-i] \in Nat \ {0}
      BY <2>1, RoomIsNat
    <2>3. v \in Int
      OBVIOUS
    <2> QED
      BY <2>2, <2>3, Division
  <1>2. y = [i \in 1..len |-> (v \div Room[len-i]) % Base]
    BY DEF Digits
  <1>3. y \in [1..len -> Word]
    <2>1. ASSUME NEW i \in 1..len
          PROVE  (v \div Room[len-i]) % Base \in 0..Base-1
      <3>1. v \div Room[len-i] \in Int
        BY <1>1
      <3>2. Base \in Nat \ {0}
        BY BaseRule
      <3> QED
        BY <3>1, <3>2, Division
    <2> HIDE DEF y
    <2> QED
      BY <1>2, <2>1 DEF Word
  <1> HIDE DEF y
  <1>4. y \in [1..len -> Int] /\ y \in Seq(Word) /\ Len(y) = len
    <2>1. Word \subseteq Int
      BY BaseRule DEF Word
    <2> HIDE DEF Word
    <2>2. y \in [1..len -> Int]
      BY <1>3, <2>1
    <2>3. y \in Seq(Word) /\ Len(y) = len
      BY <1>3
    <2> QED
      BY <2>2, <2>3
  <1>5. s \in [0..len -> Int] /\ s[0] = 0 /\ \A i \in 1..len : s[i] = s[i-1] * Base + y[i]
    BY <1>4, SumsRule
  <1> HIDE DEF s
  <1>6. 0 \in T
    <2>1. Room[len] \in Nat \ {0}
      BY RoomIsNat
    <2>2. 0 * Room[len] + v = v
      BY <2>1
    <2>3. (0 * Room[len] + v) \div Room[len] = 0
      BY <2>1, DivisionUnique
    <2> QED
      BY <1>5, <2>2, <2>3
  <1>7. ASSUME NEW i \in 0..len-1, i \in T
        PROVE  i + 1 \in T
    <2> DEFINE k == len - (i + 1)
               q == v \div Room[k]
    <2>1. k \in Nat /\ k + 1 = len - i /\ i + 1 \in 1..len /\ (i + 1) - 1 = i /\ i + 1 \in 0..len
      OBVIOUS
    <2>2. Room[k] \in Nat \ {0} /\ Room[k+1] = Room[k] * Base
      BY <2>1, RoomIsNat, RoomStep
    <2>3. q \in Int
      BY <1>1, <2>1
    <2>4. q \div Base = v \div Room[k+1]
      <3>1. v \in Int
        OBVIOUS
      <3>2. (v \div Room[k]) \div Base = v \div (Room[k] * Base)
        BY <2>2, <3>1, DivisionTwice
      <3> QED
        BY <2>2, <3>2
    <2>5. y[i+1] = q % Base
      BY <1>2, <2>1
    <2>6. s[i+1] = s[i] * Base + y[i+1] /\ s[i] = v \div Room[len-i]
      BY <1>5, <1>7, <2>1
    <2> HIDE DEF q
    <2>7. q = (q \div Base) * Base + (q % Base)
      <3>1. Base \in Nat \ {0}
        BY BaseRule
      <3> QED
        BY <2>3, <3>1, Division
    <2>8. s[i+1] = q
      BY <2>1, <2>4, <2>5, <2>6, <2>7
    <2> QED
      BY <2>1, <2>8 DEF q
  <1>8. \A i \in 0..len : i \in T
    <2> HIDE DEF T
    <2> QED
      BY <1>6, <1>7, 0 \in Int, len \in Int, RangeInduction, Zenon
  <1>9. s[len] = v
    <2>1. len \in 0..len /\ len - len = 0 /\ Room[0] = 1 /\ v \div 1 = v
      BY RoomRule
    <2> QED
      BY <1>8, <2>1
  <1>10. Value(y) = v
    BY <1>4, <1>9, ValueIsSum DEF s
  <1> QED
    BY <1>3, <1>4, <1>10 DEF y
-----------------------------------------------------------------------------
(* The product with a word, where no carry reaches the next word *)

LEMMA TimesOn ==
  ASSUME NEW i \in Int, NEW j \in Int, i <= j, NEW k \in Nat
  PROVE  i * k \in Int /\ j * k \in Int /\ i * k <= j * k
  <1>1. j - i \in Nat
    OBVIOUS
  <1>2. (j - i) * k >= 0 /\ (j - i) * k = j * k - i * k /\ i * k \in Int /\ j * k \in Int
    BY <1>1
  <1> QED
    BY <1>2

LEMMA SumsAtMost ==
  ASSUME NEW len \in Nat, NEW d \in [1..len -> Int], NEW e \in [1..len -> Int],
         \A i \in 1..len : d[i] <= e[i]
  PROVE  Sums(d, len)[len] <= Sums(e, len)[len]
  <1> DEFINE p == Sums(d, len)
             q == Sums(e, len)
             T == {i \in 0..len : p[i] <= q[i]}
  <1>1. p \in [0..len -> Int] /\ p[0] = 0 /\ \A i \in 1..len : p[i] = p[i-1] * Base + d[i]
    BY SumsRule
  <1>2. q \in [0..len -> Int] /\ q[0] = 0 /\ \A i \in 1..len : q[i] = q[i-1] * Base + e[i]
    BY SumsRule
  <1> HIDE DEF p, q
  <1>3. 0 \in T
    BY <1>1, <1>2
  <1>4. ASSUME NEW i \in 0..len-1, i \in T
        PROVE  i + 1 \in T
    <2>1. i + 1 \in 1..len /\ (i + 1) - 1 = i /\ i + 1 \in 0..len /\ i \in 0..len
      OBVIOUS
    <2>2. p[i+1] = p[i] * Base + d[i+1]
      BY <1>1, <2>1
    <2>3. q[i+1] = q[i] * Base + e[i+1]
      BY <1>2, <2>1
    <2>4. p[i] \in Int /\ q[i] \in Int /\ p[i] <= q[i] /\ Base \in Nat
      BY <1>1, <1>2, <1>4, <2>1, BaseRule
    <2>5. p[i] * Base \in Int /\ q[i] * Base \in Int /\ p[i] * Base <= q[i] * Base
      BY <2>4, TimesOn
    <2>6. d[i+1] \in Int /\ e[i+1] \in Int /\ d[i+1] <= e[i+1]
      BY <2>1
    <2> QED
      BY <2>1, <2>2, <2>3, <2>5, <2>6
  <1>5. \A i \in 0..len : i \in T
    <2> HIDE DEF T
    <2> QED
      BY <1>3, <1>4, 0 \in Int, len \in Int, RangeInduction, Zenon
  <1> QED
    BY <1>5 DEF p, q

LEMMA SumsTimes ==
  ASSUME NEW len \in Nat, NEW d \in [1..len -> Int], NEW e \in [1..len -> Int], NEW m \in Int,
         \A i \in 1..len : e[i] = d[i] * m
  PROVE  Sums(e, len)[len] = Sums(d, len)[len] * m
  <1> DEFINE p == Sums(d, len)
             q == Sums(e, len)
             T == {i \in 0..len : q[i] = p[i] * m}
  <1>1. p \in [0..len -> Int] /\ p[0] = 0 /\ \A i \in 1..len : p[i] = p[i-1] * Base + d[i]
    BY SumsRule
  <1>2. q \in [0..len -> Int] /\ q[0] = 0 /\ \A i \in 1..len : q[i] = q[i-1] * Base + e[i]
    BY SumsRule
  <1> HIDE DEF p, q
  <1>3. 0 \in T
    BY <1>1, <1>2
  <1>4. ASSUME NEW i \in 0..len-1, i \in T
        PROVE  i + 1 \in T
    <2>1. i + 1 \in 1..len /\ (i + 1) - 1 = i /\ i + 1 \in 0..len /\ i \in 0..len
      OBVIOUS
    <2>2. p[i+1] = p[i] * Base + d[i+1]
      BY <1>1, <2>1
    <2>3. q[i+1] = q[i] * Base + e[i+1]
      BY <1>2, <2>1
    <2> DEFINE u == p[i]
               w == d[i+1]
    <2>4. u \in Int /\ w \in Int /\ Base \in Int /\ q[i] = u * m /\ e[i+1] = w * m
      BY <1>1, <1>4, <2>1, BaseRule
    <2> HIDE DEF u, w
    <2>5. (u * Base + w) * m = (u * m) * Base + w * m
      <3>1. (u * Base + w) * m = (u * Base) * m + w * m
        BY <2>4
      <3>2. (u * Base) * m = (u * m) * Base
        BY <2>4
      <3> QED
        BY <3>1, <3>2
    <2>6. q[i+1] = p[i+1] * m
      BY <2>2, <2>3, <2>4, <2>5 DEF u, w
    <2> QED
      BY <2>1, <2>6
  <1>5. \A i \in 0..len : i \in T
    <2> HIDE DEF T
    <2> QED
      BY <1>3, <1>4, 0 \in Int, len \in Int, RangeInduction, Zenon
  <1> QED
    BY <1>5 DEF p, q

LittleDigits(x, m) == [i \in 1..Len(x) |-> (x[i] * m) % Base]

LEMMA LittleDigitsValue ==
  ASSUME NEW x \in Seq(Word), NEW m \in Word
  PROVE  LET y == LittleDigits(x, m)
         IN  /\ y \in Seq(Word) /\ Len(y) = Len(x) /\ y \in [1..Len(x) -> Word]
             /\ Value(y) \in Nat /\ Value(y) <= Value(x) * m
             /\ (\A i \in 1..Len(x) : x[i] * m < Base) => Value(y) = Value(x) * m
  <1> DEFINE len == Len(x)
             y == LittleDigits(x, m)
             e == [i \in 1..len |-> x[i] * m]
  <1>1. len \in Nat /\ x \in [1..len -> Word] /\ x \in [1..len -> Int] /\ Value(x) = Sums(x, len)[len]
    BY ValueIsSum
  <1>2. y = [i \in 1..len |-> (x[i] * m) % Base]
    BY DEF LittleDigits
  <1> HIDE DEF len, y
  <1>3. m \in Nat /\ m \in Int /\ Base \in Nat \ {0}
    BY BaseRule DEF Word
  <1>4. ASSUME NEW i \in 1..len
        PROVE  /\ x[i] * m \in Int /\ (x[i] * m) % Base \in 0..Base-1 /\ (x[i] * m) % Base <= x[i] * m
               /\ x[i] * m < Base => (x[i] * m) % Base = x[i] * m
    <2> DEFINE p == x[i] * m
    <2>1. x[i] \in Nat
      BY <1>1, BaseRule DEF Word
    <2>2. p \in Nat
      BY <1>3, <2>1
    <2> HIDE DEF p
    <2>3. p % Base \in 0..Base-1 /\ p \div Base \in Int /\ p = (p \div Base) * Base + (p % Base)
      BY <1>3, <2>2, Division
    <2> DEFINE q == p \div Base
               r == p % Base
    <2>4. q \in Int /\ r \in 0..Base-1 /\ p = q * Base + r
      BY <2>3
    <2> HIDE DEF q, r
    <2>5. q >= 0
      <3> SUFFICES ASSUME q <= -1
                   PROVE  FALSE
        BY <2>4
      <3>1. q * Base <= (-1) * Base
        BY <1>3, <2>4, TimesOn
      <3> QED
        BY <1>3, <2>2, <2>4, <3>1
    <2>6. q * Base >= 0 /\ q * Base \in Int
      BY <1>3, <2>4, <2>5
    <2>7. p < Base => r = p
      <3> SUFFICES ASSUME p < Base
                   PROVE  r = p
        OBVIOUS
      <3>1. 0 * Base + p = p
        BY <1>3, <2>2
      <3>2. p \in 0..Base-1
        BY <1>3, <2>2
      <3>3. (0 * Base + p) % Base = p
        BY <1>3, <3>2, DivisionUnique
      <3> QED
        BY <3>1, <3>3 DEF r
    <2> QED
      BY <2>2, <2>4, <2>6, <2>7 DEF p, r
  <1>5. e \in [1..len -> Int] /\ \A i \in 1..len : e[i] = x[i] * m
    BY <1>4
  <1>6. y \in [1..len -> Word] /\ \A i \in 1..len : y[i] = (x[i] * m) % Base
    BY <1>2, <1>4 DEF Word
  <1> HIDE DEF e
  <1>7. y \in [1..len -> Int]
    <2>1. Word \subseteq Int
      BY BaseRule DEF Word
    <2> HIDE DEF Word
    <2> QED
      BY <1>6, <2>1
  <1>8. y \in Seq(Word) /\ Len(y) = len
    BY <1>1, <1>6
  <1>9. Value(y) = Sums(y, len)[len]
    BY <1>8, ValueIsSum
  <1>10. Sums(e, len)[len] = Value(x) * m
    <2>1. x \in [1..len -> Int] /\ e \in [1..len -> Int] /\ len \in Nat /\ m \in Int
      BY <1>1, <1>3, <1>5
    <2>2. \A i \in 1..len : e[i] = x[i] * m
      BY <1>5
    <2>3. Sums(e, len)[len] = Sums(x, len)[len] * m
      BY <2>1, <2>2, SumsTimes
    <2> QED
      BY <1>1, <2>3
  <1>11. Value(y) <= Value(x) * m
    <2>1. \A i \in 1..len : y[i] <= e[i]
      BY <1>4, <1>5, <1>6
    <2>2. Sums(y, len)[len] <= Sums(e, len)[len]
      BY <1>1, <1>5, <1>7, <2>1, SumsAtMost
    <2> QED
      BY <1>9, <1>10, <2>2
  <1>12. (\A i \in 1..len : x[i] * m < Base) => Value(y) = Value(x) * m
    <2> SUFFICES ASSUME \A i \in 1..len : x[i] * m < Base
                 PROVE  Value(y) = Value(x) * m
      OBVIOUS
    <2>1. \A i \in 1..len : y[i] = e[i]
      BY <1>4, <1>5, <1>6
    <2>2. len \in 0..len
      BY <1>1
    <2>3. Sums(y, len)[len] = Sums(e, len)[len]
      BY <1>1, <1>5, <1>7, <2>1, <2>2, SumsSame
    <2> QED
      BY <1>9, <1>10, <2>3
  <1>13. Value(y) \in Nat
    <2>1. Len(y) <= len
      BY <1>1, <1>8
    <2>2. Value(y) \in 0..Room[len]-1 /\ Room[len] \in Nat
      BY <1>1, <1>8, <2>1, ValueFits, RoomIsNat
    <2> QED
      BY <2>2
  <1> QED
    BY <1>6, <1>8, <1>11, <1>12, <1>13 DEF len, y

LEMMA MultByLittleFlat ==
  ASSUME NEW x \in Numeral, NEW m \in Word
  PROVE  MultByLittle(x, m, Zero(Len(x))) =
           IF (x[1] * m) \div Base # 0 THEN Exit ELSE LittleDigits(x, m)
  <1> DEFINE len == Len(x)
             off == Len(Zero(len)) - len
  <1>1. len \in Nat \ {0}
    BY NumeralLen
  <1>2. Len(Zero(len)) = len
    BY <1>1 DEF Zero
  <1>3. off = 0
    BY <1>1, <1>2
  <1>4. \A i \in 1..len : i > 0 /\ i - 0 = i
    BY <1>1
  <1>5. MultByLittle(x, m, Zero(len)) =
          IF off < 0 \/ ((x[1] * m) \div Base # 0 /\ off = 0) THEN Exit
          ELSE [i \in 1..Len(Zero(len)) |->
                  IF i > off THEN (x[i - off] * m) % Base
                  ELSE IF i = off /\ (x[1] * m) \div Base # 0 THEN (x[1] * m) \div Base ELSE Zero(len)[i]]
    BY DEF MultByLittle
  <1> HIDE DEF off
  <1>6. [i \in 1..len |-> IF i > 0 THEN (x[i - 0] * m) % Base
                          ELSE IF i = 0 /\ (x[1] * m) \div Base # 0 THEN (x[1] * m) \div Base ELSE Zero(len)[i]]
          = [i \in 1..len |-> (x[i] * m) % Base]
    BY <1>4
  <1> QED
    BY <1>2, <1>3, <1>5, <1>6 DEF LittleDigits

LEMMA TailWords ==
  ASSUME NEW x \in Numeral
  PROVE  Tail(x) \in Seq(Word) /\ Len(Tail(x)) = Len(x) - 1 /\ \A i \in 1..Len(x)-1 : Tail(x)[i] = x[i+1]
  <1>1. x \in Seq(Word) /\ x # <<>>
    BY DEF Numeral
  <1> HIDE DEF Word, Numeral
  <1> QED
    BY <1>1

LEMMA ConcatWords ==
  ASSUME NEW u \in Seq(Word), NEW v \in Seq(Word)
  PROVE  /\ u \o v \in Seq(Word) /\ Len(u \o v) = Len(u) + Len(v)
         /\ \A i \in 1..Len(u) : (u \o v)[i] = u[i]
         /\ \A i \in 1..Len(v) : (u \o v)[Len(u)+i] = v[i]
  OBVIOUS

LEMMA SameWords ==
  ASSUME NEW x \in Seq(Word), NEW len \in Nat, Len(x) = len
  PROVE  x = [i \in 1..len |-> x[i]]
  <1> HIDE DEF Word
  <1> QED
    OBVIOUS

LEMMA LittleCarry ==
  ASSUME NEW u \in Word, NEW m \in Word
  PROVE  (u * m) \div Base \in Word /\ (u * m) % Base \in Word
         /\ u * m = ((u * m) \div Base) * Base + ((u * m) % Base) /\ u * m \in Nat
  <1>1. LET x == <<(u * m) \div Base, (u * m) % Base>>
        IN  x \in Seq(Word) /\ Len(x) = 2 /\ Value(x) = u * m
    BY WordProduct
  <1> DEFINE x == <<(u * m) \div Base, (u * m) % Base>>
  <1>2. x \in Seq(Word) /\ Len(x) = 2
    BY <1>1
  <1>3. x[1] \in Word /\ x[2] \in Word
    <2> HIDE DEF x, Word
    <2> QED
      BY <1>2
  <1>4. u * m \in Nat /\ Base \in Nat \ {0} /\ u * m \in Int
    <2>1. u \in Nat /\ m \in Nat
      BY BaseRule DEF Word
    <2> QED
      BY <2>1, BaseRule
  <1>5. u * m = ((u * m) \div Base) * Base + ((u * m) % Base)
    <2> DEFINE p == u * m
    <2>1. p \in Int
      BY <1>4
    <2> HIDE DEF p
    <2>2. p = (p \div Base) * Base + (p % Base)
      BY <1>4, <2>1, Division
    <2> QED
      BY <2>2 DEF p
  <1> QED
    BY <1>3, <1>4, <1>5

LEMMA MultByLittleWide ==
  ASSUME NEW x \in Numeral, NEW m \in Word
  PROVE  LET y == MultByLittle(x, m, Zero(Len(x) + 1))
         IN  /\ y \in Seq(Word) /\ Len(y) = Len(x) + 1
             /\ Value(y) \in Nat /\ Value(y) <= Value(x) * m
             /\ (\A i \in 2..Len(x) : x[i] * m < Base) => Value(y) = Value(x) * m
  <1> DEFINE len == Len(x)
             dest == Zero(len + 1)
             off == Len(dest) - len
             carry == (x[1] * m) \div Base
             rest == LittleDigits(x, m)
             y == MultByLittle(x, m, dest)
  <1>1. len \in Nat \ {0} /\ x \in Seq(Word)
    BY NumeralLen
  <1>2. Len(dest) = len + 1 /\ \A i \in 1..len+1 : dest[i] = 0
    BY <1>1 DEF Zero
  <1>3. off = 1
    BY <1>1, <1>2
  <1>4. y = IF off < 0 \/ (carry # 0 /\ off = 0) THEN Exit
            ELSE [i \in 1..Len(dest) |->
                    IF i > off THEN (x[i - off] * m) % Base
                    ELSE IF i = off /\ carry # 0 THEN carry ELSE dest[i]]
    BY DEF MultByLittle
  <1>5. x[1] \in Word /\ Tail(x) \in Seq(Word) /\ Len(Tail(x)) = len - 1
        /\ Value(x) = x[1] * Room[len-1] + Value(Tail(x))
    BY HeadValue
  <1>6. carry \in Word /\ x[1] * m = carry * Base + ((x[1] * m) % Base) /\ x[1] * m \in Nat
        /\ (x[1] * m) % Base \in Word
    BY <1>5, LittleCarry
  <1>7. rest \in Seq(Word) /\ Len(rest) = len /\ rest \in [1..len -> Word] /\ Value(rest) \in Nat
    BY <1>1, LittleDigitsValue
  <1>8. rest = [i \in 1..len |-> (x[i] * m) % Base]
    BY DEF LittleDigits
  <1> HIDE DEF dest, off, carry, rest, y
  <1>9. y = [i \in 1..len+1 |-> IF i > 1 THEN rest[i-1] ELSE carry]
    <2>1. y = [i \in 1..len+1 |->
                    IF i > 1 THEN (x[i - 1] * m) % Base
                    ELSE IF i = 1 /\ carry # 0 THEN carry ELSE dest[i]]
      BY <1>2, <1>3, <1>4
    <2>2. \A i \in 1..len+1 : i > 1 => i - 1 \in 1..len
      BY <1>1
    <2>3. \A i \in 1..len+1 : i > 1 => (x[i - 1] * m) % Base = rest[i-1]
      BY <1>8, <2>2
    <2>4. \A i \in 1..len+1 : ~(i > 1) => i = 1 /\ dest[i] = 0
      BY <1>1, <1>2
    <2> QED
      BY <2>1, <2>3, <2>4
  <1>10. y = <<carry>> \o rest
    <2> DEFINE u == <<carry>>
    <2>1. u \in Seq(Word) /\ Len(u) = 1 /\ u[1] = carry
      BY <1>6
    <2> HIDE DEF u
    <2> DEFINE z == u \o rest
    <2>2. /\ z \in Seq(Word) /\ Len(z) = Len(u) + Len(rest)
          /\ \A i \in 1..Len(u) : z[i] = u[i]
          /\ \A i \in 1..Len(rest) : z[Len(u)+i] = rest[i]
      BY <1>7, <2>1, ConcatWords
    <2> HIDE DEF z
    <2>3. Len(z) = len + 1 /\ z[1] = carry /\ \A i \in 1..len : z[1+i] = rest[i]
      BY <1>1, <1>7, <2>1, <2>2
    <2>4. z = [i \in 1..len+1 |-> z[i]]
      BY <1>1, <2>2, <2>3, SameWords
    <2>5. ASSUME NEW i \in 1..len+1
          PROVE  z[i] = IF i > 1 THEN rest[i-1] ELSE carry
      <3>1. CASE i > 1
        <4>1. i - 1 \in 1..len /\ 1 + (i - 1) = i
          BY <1>1, <3>1
        <4> QED
          BY <2>3, <3>1, <4>1
      <3>2. CASE ~(i > 1)
        <4>1. i = 1
          BY <1>1, <3>2
        <4> QED
          BY <2>3, <4>1
      <3> QED
        BY <3>1, <3>2
    <2>6. y = z
      BY <1>9, <2>4, <2>5
    <2> QED
      BY <2>6 DEF u, z
  <1>11. y \in Seq(Word) /\ Len(y) = len + 1 /\ Value(y) = carry * Room[len] + Value(rest)
    <2>1. <<carry>> \in Seq(Word) /\ Len(<<carry>>) = 1 /\ Value(<<carry>>) = carry
      BY <1>6, ValueOfOne
    <2> DEFINE u == <<carry>>
    <2> HIDE DEF u
    <2>2. u \o rest \in Seq(Word) /\ Len(u \o rest) = Len(u) + Len(rest)
          /\ Value(u \o rest) = Value(u) * Room[Len(rest)] + Value(rest)
      BY <1>7, <2>1, ConcatValue DEF u
    <2> QED
      BY <1>1, <1>7, <1>10, <2>1, <2>2 DEF u
  <1>12. rest \in Numeral
    BY <1>1, <1>7 DEF Numeral
  <1>13. Value(rest) = ((x[1] * m) % Base) * Room[len-1] + Value(Tail(rest))
    <2>1. Value(rest) = rest[1] * Room[len-1] + Value(Tail(rest))
      BY <1>7, <1>12, HeadValue
    <2>2. rest[1] = (x[1] * m) % Base
      BY <1>1, <1>8
    <2> QED
      BY <2>1, <2>2
  <1>14. Tail(rest) = LittleDigits(Tail(x), m)
    <2>1. /\ Tail(rest) \in Seq(Word) /\ Len(Tail(rest)) = len - 1
          /\ \A i \in 1..len-1 : Tail(rest)[i] = rest[i+1]
      BY <1>7, <1>12, TailWords
    <2>2. \A i \in 1..len-1 : Tail(x)[i] = x[i+1]
      BY TailWords DEF len
    <2>3. LittleDigits(Tail(x), m) = [i \in 1..len-1 |-> (Tail(x)[i] * m) % Base]
      BY <1>5 DEF LittleDigits
    <2>4. \A i \in 1..len-1 : i + 1 \in 1..len
      BY <1>1
    <2>5. \A i \in 1..len-1 : Tail(rest)[i] = (Tail(x)[i] * m) % Base
      BY <1>8, <2>1, <2>2, <2>4
    <2>6. Tail(rest) = [i \in 1..len-1 |-> Tail(rest)[i]]
      <3>1. len - 1 \in Nat
        BY <1>1
      <3> QED
        BY <2>1, <3>1, SameWords
    <2> QED
      BY <2>3, <2>5, <2>6
  <1>15. /\ Value(Tail(rest)) \in Nat /\ Value(Tail(rest)) <= Value(Tail(x)) * m
         /\ (\A i \in 1..len-1 : Tail(x)[i] * m < Base) => Value(Tail(rest)) = Value(Tail(x)) * m
    BY <1>5, <1>14, LittleDigitsValue
  <1> DEFINE r == Room[len-1]
             p == x[1] * m
             low == p % Base
             t == Value(Tail(x))
             s == Value(Tail(rest))
             w == x[1]
  <1>16. r \in Nat /\ Room[len] = r * Base /\ Base \in Int
    <2>1. len - 1 \in Nat /\ (len - 1) + 1 = len
      BY <1>1
    <2> QED
      BY <2>1, RoomIsNat, RoomStep, BaseRule
  <1>17. /\ w \in Int /\ m \in Int /\ t \in Int /\ s \in Nat /\ p = w * m /\ p = carry * Base + low /\ low \in Int
         /\ carry \in Int /\ p \in Nat /\ Value(x) = w * r + t /\ Value(y) = carry * (r * Base) + (low * r + s)
    <2>1. t \in Nat
      <3>1. len - 1 \in Nat /\ Len(Tail(x)) <= len - 1
        BY <1>1, <1>5
      <3>2. t \in 0..Room[len-1]-1
        BY <1>5, <3>1, ValueFits
      <3> QED
        BY <1>16, <3>2
    <2> QED
      BY <1>5, <1>6, <1>11, <1>13, <1>15, <1>16, <2>1 DEF Word
  <1> HIDE DEF r, p, low, t, s, w
  <1>18. Value(y) = p * r + s
    <2>1. carry * (r * Base) = (carry * Base) * r
      BY <1>16, <1>17
    <2>2. (carry * Base + low) * r = (carry * Base) * r + low * r
      <3>1. carry * Base \in Int
        BY <1>16, <1>17
      <3> QED
        BY <1>16, <1>17, <3>1, Distributes
    <2>3. (carry * Base) * r \in Int /\ low * r \in Int
      <3>1. carry * Base \in Int
        BY <1>16, <1>17
      <3> QED
        BY <1>16, <1>17, <3>1
    <2>4. p * r = (carry * Base) * r + low * r
      BY <1>17, <2>2
    <2>5. Value(y) = (carry * Base) * r + (low * r + s)
      BY <1>17, <2>1
    <2>6. s \in Int
      BY <1>17
    <2> QED
      BY <2>3, <2>4, <2>5, <2>6
  <1>19. Value(x) * m = p * r + t * m
    <2>1. (w * r + t) * m = (w * r) * m + t * m
      <3>1. w * r \in Int
        BY <1>16, <1>17
      <3> QED
        BY <1>17, <3>1, Distributes
    <2>2. (w * r) * m = (w * m) * r
      BY <1>16, <1>17
    <2> QED
      BY <1>17, <2>1, <2>2
  <1>20. p * r \in Nat /\ t * m \in Int
    BY <1>16, <1>17
  <1>21. (\A i \in 2..len : x[i] * m < Base) => s = t * m
    <2> SUFFICES ASSUME \A i \in 2..len : x[i] * m < Base
                 PROVE  s = t * m
      OBVIOUS
    <2>1. \A i \in 1..len-1 : i + 1 \in 2..len /\ Tail(x)[i] = x[i+1]
      BY <1>1, TailWords DEF len
    <2>2. \A i \in 1..len-1 : Tail(x)[i] * m < Base
      BY <2>1
    <2> QED
      BY <1>15, <2>2 DEF s, t
  <1>22. s <= t * m
    BY <1>15 DEF s, t
  <1>23. Value(y) \in Nat /\ Value(y) <= Value(x) * m
    BY <1>17, <1>18, <1>19, <1>20, <1>22
  <1>24. (\A i \in 2..len : x[i] * m < Base) => Value(y) = Value(x) * m
    BY <1>18, <1>19, <1>21
  <1> QED
    BY <1>11, <1>23, <1>24 DEF len, y, dest

LEMMA WordSplit ==
  ASSUME NEW u \in Word
  PROVE  /\ u \div Top \in 0..Under-1 /\ u % Top \in 0..Top-1
         /\ u = (u \div Top) * Top + (u % Top)
  <1>1. Top \in Nat \ {0} /\ Under \in Nat \ {0} /\ Base = Top * Under
    BY FieldRule
  <1>2. u \in Nat /\ u < Base /\ u \in Int
    BY BaseRule DEF Word
  <1> DEFINE q == u \div Top
             r == u % Top
             t == Top
  <1>3. q \in Int /\ r \in 0..t-1 /\ u = q * t + r
    BY <1>1, <1>2, Division
  <1>4. t \in Nat \ {0} /\ Base = t * Under
    BY <1>1
  <1> HIDE DEF q, r, t
  <1>5. q >= 0
    <2> SUFFICES ASSUME q <= -1
                 PROVE  FALSE
      BY <1>3
    <2>1. q * t <= (-1) * t
      BY <1>3, <1>4, TimesOn
    <2> QED
      BY <1>2, <1>3, <1>4, <2>1
  <1>6. q < Under
    <2> SUFFICES ASSUME Under <= q
                 PROVE  FALSE
      BY <1>1, <1>3
    <2>1. Under * t <= q * t /\ q * t \in Int
      BY <1>1, <1>3, <1>4, TimesOn
    <2>2. Under * t = Base
      BY <1>1, <1>4
    <2> QED
      BY <1>2, <1>3, <1>4, <2>1, <2>2
  <1> QED
    BY <1>1, <1>3, <1>5, <1>6 DEF q, r, t

LEMMA HighLowOn ==
  ASSUME NEW t \in Int, NEW u \in Int, NEW s \in Int, NEW low \in Int, NEW high \in Int, NEW next \in Int
  PROVE  (s * t + low) * (t * u) + (high * t + next) = (s * (t * u) + (high + low * u)) * t + next
  <1> DEFINE base == t * u
  <1>1. base \in Int
    OBVIOUS
  <1>2. (s * t + low) * base = (s * t) * base + low * base
    <2> HIDE DEF base
    <2>1. s * t \in Int
      OBVIOUS
    <2> QED
      BY <1>1, <2>1, Distributes
  <1>3. low * base = (low * u) * t
    OBVIOUS
  <1>4. (s * t) * base = (s * base) * t
    <2> HIDE DEF base
    <2> QED
      BY <1>1
  <1>5. (s * base + (high + low * u)) * t = (s * base) * t + (high + low * u) * t
    <2>1. s * base \in Int /\ high + low * u \in Int
      <3> HIDE DEF base
      <3>1. low * u \in Int
        OBVIOUS
      <3> QED
        BY <1>1, <3>1
    <2> HIDE DEF base
    <2> QED
      BY <2>1, Distributes
  <1>6. (high + low * u) * t = high * t + (low * u) * t
    <2>1. low * u \in Int
      OBVIOUS
    <2> QED
      BY <2>1, Distributes
  <1>7. (s * base) * t \in Int /\ (low * u) * t \in Int /\ high * t \in Int
    <2> HIDE DEF base
    <2>1. low * u \in Int /\ s * base \in Int
      BY <1>1
    <2> QED
      BY <2>1
  <1> HIDE DEF base
  <1>8. (s * t + low) * base + (high * t + next) = (s * base + (high + low * u)) * t + next
    BY <1>2, <1>3, <1>4, <1>5, <1>6, <1>7
  <1> QED
    BY <1>8 DEF base

LEMMA HighWordsRule ==
  ASSUME NEW first \in Nat \ {0}, NEW len \in Nat, first <= len, NEW x \in [1..len -> Word]
  PROVE  LET hi == HighWords(x, first)
         IN  /\ hi \in [1..first -> Word] /\ hi \in Numeral /\ Len(hi) = first
             /\ Sums(x, len)[first] = Value(hi) * Top + (x[first] % Top)
  <1> DEFINE hi == HighWords(x, first)
             high(j) == x[j] \div Top
             low(j) == x[j] % Top
  <1>1. hi = [j \in 1..first |-> high(j) + (IF j = 1 THEN 0 ELSE low(j-1) * Under)]
    BY DEF HighWords, Top, Under
  <1>2. Top \in Nat /\ Top >= 2 /\ Under \in Nat /\ Under >= 2 /\ Base = Top * Under
    BY FieldRule
  <1>3. ASSUME NEW j \in 1..len
        PROVE  high(j) \in 0..Under-1 /\ low(j) \in 0..Top-1 /\ x[j] = high(j) * Top + low(j)
    <2>1. x[j] \in Word
      OBVIOUS
    <2> QED
      BY <2>1, WordSplit
  <1> HIDE DEF hi, high, low
  <1>4. ASSUME NEW j \in 1..first
        PROVE  hi[j] \in Word
    <2>1. j \in 1..len
      OBVIOUS
    <2>2. CASE j = 1
      <3>1. hi[j] = high(j)
        BY <1>1, <1>2, <1>3, <2>1, <2>2
      <3>2. Under <= Base
        <4>1. 1 * Under <= Top * Under
          BY <1>2, TimesOn
        <4> QED
          BY <1>2, <4>1
      <3> QED
        BY <1>2, <1>3, <2>1, <3>1, <3>2, BaseRule, SMTT(30) DEF Word
    <2>3. CASE j # 1
      <3>1. j - 1 \in 1..len
        BY <2>3
      <3>2. hi[j] = high(j) + low(j-1) * Under
        BY <1>1, <2>3
      <3> DEFINE l == low(j-1)
                 h == high(j)
      <3>3. l \in 0..Top-1 /\ h \in 0..Under-1 /\ hi[j] = h + l * Under
        BY <1>3, <2>1, <3>1, <3>2
      <3> HIDE DEF l, h
      <3>4. l * Under <= (Top - 1) * Under /\ l * Under \in Int
        BY <1>2, <3>3, TimesOn
      <3>5. (Top - 1) * Under = Base - Under
        <4> DEFINE t == Top
                   u == Under
        <4>1. t \in Int /\ u \in Int /\ Base = t * u
          BY <1>2
        <4> HIDE DEF t, u
        <4>2. (t - 1) * u = t * u - u
          BY <4>1
        <4> QED
          BY <4>1, <4>2 DEF t, u
      <3>6. l * Under >= 0
        <4>1. 0 * Under <= l * Under
          BY <1>2, <3>3, TimesOn
        <4> QED
          BY <1>2, <4>1
      <3> QED
        BY <1>2, <3>3, <3>4, <3>5, <3>6, BaseRule DEF Word
    <2> QED
      BY <2>2, <2>3
  <1>5. hi \in [1..first -> Word]
    BY <1>1, <1>4
  <1>6. hi \in Seq(Word) /\ Len(hi) = first /\ hi \in Numeral
    <2> HIDE DEF Word
    <2>1. hi \in Seq(Word) /\ Len(hi) = first
      BY <1>5
    <2>2. hi # <<>>
      BY <2>1
    <2> QED
      BY <2>1, <2>2 DEF Numeral
  <1>7. Value(hi) = Sums(hi, first)[first] /\ hi \in [1..first -> Int]
    BY <1>6, ValueIsSum
  <1>8. x \in [1..len -> Int]
    <2>1. Word \subseteq Int
      BY BaseRule DEF Word
    <2> HIDE DEF Word
    <2> QED
      BY <2>1
  <1> DEFINE p == Sums(x, len)
             q == Sums(hi, first)
             T == {i \in 1..first : p[i] = q[i] * Top + low(i)}
  <1>9. p \in [0..len -> Int] /\ p[0] = 0 /\ \A i \in 1..len : p[i] = p[i-1] * Base + x[i]
    BY <1>8, SumsRule
  <1>10. q \in [0..first -> Int] /\ q[0] = 0 /\ \A i \in 1..first : q[i] = q[i-1] * Base + hi[i]
    BY <1>7, SumsRule
  <1> HIDE DEF p, q
  <1>11. 1 \in T
    <2>1. 1 \in 1..first /\ 1 \in 1..len /\ 1 - 1 = 0
      OBVIOUS
    <2>2. p[1] = p[0] * Base + x[1] /\ q[1] = q[0] * Base + hi[1]
      BY <1>9, <1>10, <2>1
    <2>3. hi[1] = high(1) /\ x[1] = high(1) * Top + low(1)
      <3>1. hi[1] = high(1) + 0 /\ high(1) \in Int
        BY <1>1, <1>3, <2>1
      <3> QED
        BY <1>3, <2>1, <3>1
    <2>4. p[1] = x[1] /\ q[1] = hi[1]
      <3>1. 0 * Base = 0
        BY BaseRule
      <3>2. x[1] \in Int /\ hi[1] \in Int
        BY <1>7, <1>8, <2>1
      <3> QED
        BY <1>9, <1>10, <2>2, <3>1, <3>2
    <2> QED
      BY <2>1, <2>3, <2>4
  <1>12. ASSUME NEW i \in 1..first-1, i \in T
         PROVE  i + 1 \in T
    <2>1. i + 1 \in 1..first /\ i + 1 \in 1..len /\ (i + 1) - 1 = i /\ i \in 1..len /\ i \in 0..first /\ i + 1 # 1
      OBVIOUS
    <2>2. p[i+1] = p[i] * Base + x[i+1]
      BY <1>9, <2>1
    <2>3. q[i+1] = q[i] * Base + hi[i+1]
      BY <1>10, <2>1
    <2> DEFINE s == q[i]
               l == low(i)
               h == high(i+1)
               e == low(i+1)
    <2>4. s \in Int /\ l \in Int /\ h \in Int /\ e \in Int /\ Top \in Int /\ Under \in Int
      <3>1. low(i) \in Int /\ high(i+1) \in Int /\ low(i+1) \in Int
        BY <1>2, <1>3, <2>1
      <3> QED
        BY <1>2, <1>10, <2>1, <3>1
    <2>5. hi[i+1] = h + l * Under
      <3>1. hi[i+1] = high(i+1) + low((i+1)-1) * Under
        BY <1>1, <2>1
      <3> QED
        BY <2>1, <3>1
    <2>6. x[i+1] = h * Top + e /\ p[i] = s * Top + l
      BY <1>3, <1>12, <2>1
    <2> HIDE DEF s, l, h, e
    <2>7. (s * Top + l) * (Top * Under) + (h * Top + e) = (s * (Top * Under) + (h + l * Under)) * Top + e
      BY <2>4, HighLowOn
    <2>8. p[i+1] = (s * Top + l) * (Top * Under) + (h * Top + e)
      BY <1>2, <2>2, <2>6
    <2>9. q[i+1] = s * (Top * Under) + (h + l * Under)
      BY <1>2, <2>3, <2>5 DEF s
    <2>10. p[i+1] = q[i+1] * Top + e
      BY <2>7, <2>8, <2>9
    <2> QED
      BY <2>1, <2>10 DEF e
  <1>13. \A i \in 1..first : i \in T
    <2> HIDE DEF T
    <2> QED
      BY <1>11, <1>12, 1 \in Int, first \in Int, RangeInduction, Zenon
  <1>14. p[first] = q[first] * Top + low(first)
    BY <1>13
  <1> QED
    BY <1>5, <1>6, <1>7, <1>14 DEF p, q, hi, low

LEMMA HighLow ==
  ASSUME NEW first \in Nat \ {0}, NEW len \in Nat, len = first + (N - 1), NEW x \in [1..len -> Word]
  PROVE  LET hi == HighWords(x, first)
             lo == LowWords(x, first)
         IN  /\ hi \in [1..first -> Word] /\ hi \in Numeral /\ Len(hi) = first
             /\ lo \in [1..len -> Word] /\ lo \in Numeral /\ Len(lo) = len
             /\ Value(x) \in Nat /\ Value(hi) \in Nat /\ Value(lo) \in 0..Limit-1
             /\ Value(x) = Value(hi) * Limit + Value(lo)
             /\ Value(x) \div Limit = Value(hi) /\ Value(x) % Limit = Value(lo)
  <1> DEFINE hi == HighWords(x, first)
             lo == LowWords(x, first)
             low == x[first] % Top
  <1>1. N \in Nat /\ N >= 2 /\ N - 1 \in Nat /\ len \in Nat \ {0} /\ first <= len /\ len - first = N - 1
        /\ first \in 0..len /\ first \in 1..len
    BY FieldPlaces
  <1>2. Top \in Nat /\ Top >= 2 /\ Room[N-1] \in Nat /\ Room[N-1] # 0 /\ Limit = Top * Room[N-1] /\ Limit \in Nat \ {0}
    BY FieldRule, BaseRule
  <1>3. hi \in [1..first -> Word] /\ hi \in Numeral /\ Len(hi) = first
        /\ Sums(x, len)[first] = Value(hi) * Top + low
    BY <1>1, HighWordsRule
  <1>4. x \in Seq(Word) /\ Len(x) = len /\ x \in [1..len -> Int]
    <2>1. x \in Seq(Word) /\ Len(x) = len
      OBVIOUS
    <2>2. Word \subseteq Int
      BY BaseRule DEF Word
    <2> HIDE DEF Word
    <2>3. x \in [1..len -> Int]
      BY <2>2
    <2> QED
      BY <2>1, <2>3
  <1>5. low \in 0..Top-1
    <2>1. x[first] \in Word
      BY <1>1
    <2> QED
      BY <2>1, WordSplit
  <1>6. lo = [j \in 1..len |-> IF j < first THEN 0 ELSE IF j = first THEN low ELSE x[j]]
    BY <1>4 DEF LowWords, Top
  <1> HIDE DEF hi, lo, low
  <1>7. lo \in [1..len -> Word]
    <2>1. 0 \in Word /\ low \in Word
      <3>1. Top <= Base
        <4>1. Under \in Nat /\ Under >= 2 /\ Base = Top * Under
          BY FieldRule
        <4>2. 1 * Top <= Under * Top
          BY <1>2, <4>1, TimesOn
        <4>3. Under * Top = Top * Under
          BY <1>2, <4>1
        <4> QED
          BY <1>2, <4>1, <4>2, <4>3
      <3> QED
        BY <1>2, <1>5, <3>1, BaseRule DEF Word
    <2> HIDE DEF Word
    <2> QED
      BY <1>6, <2>1
  <1>8. lo \in Seq(Word) /\ Len(lo) = len /\ lo \in Numeral
    <2> HIDE DEF Word
    <2>1. lo \in Seq(Word) /\ Len(lo) = len
      BY <1>7
    <2>2. lo # <<>>
      BY <1>1, <2>1
    <2> QED
      BY <2>1, <2>2 DEF Numeral
  <1>9. Value(lo) = Sums(lo, len)[len] /\ lo \in [1..len -> Int]
    BY <1>8, ValueIsSum
  <1>10. Value(x) = Sums(x, len)[len]
    BY <1>4, ValueIsSum
  <1> DEFINE e == [i \in 1..len-first |-> x[first+i]]
  <1>11. e \in [1..len-first -> Word] /\ e \in [1..len-first -> Int] /\ \A i \in 1..len-first : e[i] = x[first+i]
    <2>1. \A i \in 1..len-first : first + i \in 1..len
      OBVIOUS
    <2>2. \A i \in 1..len-first : x[first+i] \in Word /\ x[first+i] \in Int
      BY <1>4, <2>1
    <2> HIDE DEF Word
    <2>3. e \in [1..len-first -> Word]
      BY <2>2
    <2>4. e \in [1..len-first -> Int]
      BY <2>2
    <2> QED
      BY <2>3, <2>4
  <1>12. \A i \in 1..len-first : e[i] = lo[first+i]
    <2>1. \A i \in 1..len-first : first + i \in 1..len /\ ~(first + i < first) /\ first + i # first
      OBVIOUS
    <2> QED
      BY <1>6, <1>11, <2>1
  <1> DEFINE rest == Sums(e, len - first)[len-first]
  <1> HIDE DEF e
  <1>13. rest \in 0..Room[N-1]-1
    <2>1. len - first \in Nat /\ len - first \in 0..len-first
      BY <1>1
    <2>2. Sums(e, len - first)[len-first] \in 0..Room[len-first]-1
      BY <1>11, <2>1, SumsFit
    <2> QED
      BY <1>1, <2>2
  <1>14. Value(x) = Sums(x, len)[first] * Room[N-1] + rest
    <2>1. Sums(x, len)[len] = Sums(x, len)[first] * Room[len-first] + Sums(e, len - first)[len-first]
      BY <1>1, <1>4, <1>11, SumsSplit
    <2> QED
      BY <1>1, <1>10, <2>1
  <1>15. Value(lo) = Sums(lo, len)[first] * Room[N-1] + rest
    <2>1. Sums(lo, len)[len] = Sums(lo, len)[first] * Room[len-first] + Sums(e, len - first)[len-first]
      BY <1>1, <1>9, <1>11, <1>12, SumsSplit, ZenonT(40)
    <2> QED
      BY <1>1, <1>9, <2>1
  <1>16. Sums(lo, len)[first] = low
    <2>1. first - 1 \in 0..len /\ \A i \in 1..first-1 : i \in 1..len /\ i < first
      BY <1>1
    <2>2. \A i \in 1..first-1 : lo[i] = 0
      BY <1>6, <2>1
    <2>3. Sums(lo, len)[first-1] = 0
      BY <1>1, <1>9, <2>1, <2>2, ZeroSums
    <2>4. Sums(lo, len)[first] = Sums(lo, len)[first-1] * Base + lo[first]
      BY <1>1, <1>9, SumsRule
    <2>5. lo[first] = low
      BY <1>1, <1>6
    <2>6. 0 * Base + low = low
      BY <1>5, BaseRule
    <2> QED
      BY <2>3, <2>4, <2>5, <2>6
  <1>17. Value(lo) \in 0..Limit-1
    <2> DEFINE r == Room[N-1]
               t == Top
    <2>1. r \in Nat /\ t \in Nat /\ low \in 0..t-1 /\ rest \in 0..r-1 /\ Value(lo) = low * r + rest
          /\ Limit = t * r /\ low \in Int /\ t \in Int /\ low < t
      BY <1>2, <1>5, <1>13, <1>15, <1>16
    <2> HIDE DEF r, t, rest
    <2>2. 0 \in 0..r-1
      BY <2>1
    <2>3. low * r + rest < t * r + 0
      BY <2>1, <2>2, LessOn
    <2>4. low * r >= 0 /\ t * r \in Int
      <3>1. 0 * r <= low * r /\ low * r \in Int
        BY <2>1, TimesOn
      <3> QED
        BY <2>1, <3>1
    <2> QED
      BY <2>1, <2>3, <2>4
  <1>18. Value(hi) \in Nat /\ Value(x) \in Nat
    <2>1. Value(hi) \in 0..Room[first]-1 /\ Room[first] \in Nat
      <3>1. hi \in Seq(Word) /\ first \in Nat /\ Len(hi) <= first
        BY <1>3, NumeralLen
      <3> QED
        BY <3>1, ValueFits, RoomIsNat
    <2>2. Value(x) \in 0..Room[len]-1 /\ Room[len] \in Nat
      <3>1. Len(x) <= len
        BY <1>4
      <3> QED
        BY <1>4, <3>1, ValueFits, RoomIsNat
    <2> QED
      BY <2>1, <2>2
  <1>19. Value(x) = Value(hi) * Limit + Value(lo)
    <2> DEFINE h == Value(hi)
               r == Room[N-1]
               t == Top
    <2>1. h \in Int /\ r \in Int /\ t \in Int /\ low \in Int /\ rest \in Int /\ Limit = t * r
          /\ Value(x) = (h * t + low) * r + rest /\ Value(lo) = low * r + rest
      BY <1>2, <1>3, <1>5, <1>13, <1>14, <1>15, <1>16, <1>18, SMTT(30)
    <2> HIDE DEF h, r, t, rest
    <2>2. (h * t + low) * r = (h * t) * r + low * r
      <3>1. h * t \in Int
        BY <2>1
      <3> QED
        BY <2>1, <3>1, Distributes
    <2>3. (h * t) * r = h * (t * r) /\ h * (t * r) \in Int /\ low * r \in Int
      <3>1. (h * t) * r = h * (t * r)
        BY <2>1
      <3>2. t * r \in Int
        BY <2>1
      <3> QED
        BY <2>1, <3>1, <3>2
    <2> QED
      BY <2>1, <2>2, <2>3 DEF h
  <1>20. Value(x) \div Limit = Value(hi) /\ Value(x) % Limit = Value(lo)
    <2> DEFINE h == Value(hi)
               l == Value(lo)
    <2>1. h \in Int /\ l \in 0..Limit-1 /\ Value(x) = h * Limit + l
      BY <1>17, <1>18, <1>19
    <2> HIDE DEF h, l
    <2>2. (h * Limit + l) \div Limit = h /\ (h * Limit + l) % Limit = l
      BY <1>2, <2>1, DivisionUnique
    <2> QED
      BY <2>1, <2>2 DEF h, l
  <1> QED
    BY <1>3, <1>7, <1>8, <1>17, <1>18, <1>19, <1>20 DEF hi, lo

(* x is as long as a number whose words from first on hold the bits below  *)
(* BitMod.                                                                 *)
IsFolded(x, first, len) ==
  first \in Nat \ {0} /\ len \in Nat /\ len = first + (N - 1) /\ x \in [1..len -> Word]

LEMMA FoldedIs ==
  ASSUME NEW x, NEW first, NEW len, IsFolded(x, first, len)
  PROVE  /\ x \in Numeral /\ x \in Seq(Word) /\ Len(x) = len /\ len \in Nat \ {0} /\ x # Exit
         /\ N - 1 \in Nat /\ first \in 1..len /\ len - N + 1 = first /\ len - (N - 1) = first
  <1>1. /\ first \in Nat \ {0} /\ len \in Nat /\ len = first + (N - 1) /\ x \in [1..len -> Word]
        /\ N \in Nat /\ N >= 2
    BY FieldPlaces DEF IsFolded
  <1>2. len \in Nat \ {0} /\ N - 1 \in Nat /\ first \in 1..len /\ len - N + 1 = first /\ len - (N - 1) = first
    BY <1>1
  <1> HIDE DEF Word
  <1>3. x \in Seq(Word) /\ Len(x) = len
    BY <1>1
  <1>4. x # <<>>
    BY <1>2, <1>3
  <1> QED
    BY <1>2, <1>3, <1>4 DEF Numeral, Exit

LEMMA PassRule ==
  ASSUME NEW x, NEW first, NEW len, IsFolded(x, first, len)
  PROVE  LET y == Pass(x, first)
             hi == HighWords(x, first)
             high == Value(x) \div Limit
             low == Value(x) % Limit
         IN  /\ hi \in [1..first -> Word] /\ Value(hi) = high
             /\ high \in Nat /\ low \in 0..Limit-1 /\ Value(x) = high * Limit + low
             /\ \/ y = Exit
                \/ y \in [1..len -> Word] /\ Value(y) <= high * CarryMult + low
             /\ hi[1] * CarryMult < Base => y \in [1..len -> Word]
             /\ (\A i \in 1..first : hi[i] * CarryMult < Base) => Value(y) = high * CarryMult + low
  <1> DEFINE hi == HighWords(x, first)
             lo == LowWords(x, first)
             mult == MultByLittle(hi, CarryMult, Zero(first))
             y == Pass(x, first)
             h == Value(hi)
             l == Value(lo)
  <1>1. x \in Numeral /\ Len(x) = len /\ len \in Nat \ {0} /\ first \in Nat \ {0} /\ first <= len
        /\ len = first + (N - 1) /\ x \in [1..len -> Word] /\ x \in Seq(Word)
    <2>1. x \in Numeral /\ x \in Seq(Word) /\ Len(x) = len /\ len \in Nat \ {0} /\ first \in 1..len
      BY FoldedIs
    <2>2. first \in Nat \ {0} /\ len = first + (N - 1) /\ x \in [1..len -> Word]
      BY DEF IsFolded
    <2> QED
      BY <2>1, <2>2
  <1>2. /\ hi \in [1..first -> Word] /\ hi \in Numeral /\ Len(hi) = first
        /\ lo \in [1..len -> Word] /\ lo \in Numeral /\ Len(lo) = len
        /\ Value(x) \in Nat /\ h \in Nat /\ l \in 0..Limit-1
        /\ Value(x) = h * Limit + l
        /\ Value(x) \div Limit = h /\ Value(x) % Limit = l
    BY <1>1, HighLow
  <1>3. y = Add(mult, lo, len)
    BY <1>1 DEF Pass
  <1>4. CarryMult \in Word /\ CarryMult \in Nat /\ Limit \in Nat /\ Limit >= 2 * Base /\ CarryMult < Base
    BY FieldRule, FieldAssumption
  <1> DEFINE e == LittleDigits(hi, CarryMult)
  <1>5. mult = IF (hi[1] * CarryMult) \div Base # 0 THEN Exit ELSE e
    BY <1>2, <1>4, MultByLittleFlat
  <1>6. /\ e \in Seq(Word) /\ Len(e) = first /\ Value(e) \in Nat /\ Value(e) <= h * CarryMult
        /\ (\A i \in 1..first : hi[i] * CarryMult < Base) => Value(e) = h * CarryMult
    <2>1. hi \in Seq(Word)
      BY <1>2, NumeralLen
    <2> QED
      BY <1>2, <1>4, <2>1, LittleDigitsValue
  <1>7. e \in Numeral
    <2> HIDE DEF Word, e
    <2>1. e # <<>>
      BY <1>1, <1>6
    <2> QED
      BY <1>6, <2>1 DEF Numeral
  <1> HIDE DEF hi, lo, mult, y, h, l, e
  <1>8. mult = Exit => y = Exit
    BY <1>3 DEF Add
  <1>9. mult = e => Holds(y, Value(e) + l, len)
    <2>1. Len(e) <= len /\ Len(lo) <= len /\ len \in Nat
      BY <1>1, <1>2, <1>6
    <2>2. Holds(Add(e, lo, len), Value(e) + Value(lo), len)
      BY <1>2, <1>7, <2>1, AddExact
    <2> QED
      BY <1>3, <2>2 DEF l
  <1>10. Value(e) + l <= Value(x) /\ Value(e) + l \in Nat
    <2>1. h * CarryMult <= h * Limit
      <3>1. CarryMult * h <= Limit * h
        BY <1>2, <1>4, BaseRule, TimesOn
      <3>2. CarryMult * h = h * CarryMult /\ Limit * h = h * Limit
        BY <1>2, <1>4
      <3> QED
        BY <3>1, <3>2
    <2>2. h * CarryMult \in Int /\ h * Limit \in Int
      BY <1>2, <1>4
    <2> QED
      BY <1>2, <1>6, <2>1, <2>2
  <1>11. Value(e) + l \in 0..Room[len]-1
    <2>1. Value(x) \in 0..Room[len]-1 /\ Room[len] \in Nat
      <3>1. len \in Nat /\ Len(x) <= len
        BY <1>1
      <3> QED
        BY <1>1, <3>1, ValueFits, RoomIsNat
    <2> QED
      BY <1>10, <2>1
  <1>12. mult = e => y \in [1..len -> Word] /\ Value(y) = Value(e) + l
    <2> SUFFICES ASSUME mult = e
                 PROVE  y \in [1..len -> Word] /\ Value(y) = Value(e) + l
      OBVIOUS
    <2>1. y \in Seq(Word) /\ Len(y) = len /\ Value(y) = Value(e) + l
      BY <1>9, <1>11 DEF Holds
    <2>2. y \in [1..len -> Word]
      <3> HIDE DEF Word
      <3> QED
        BY <2>1
    <2> QED
      BY <2>1, <2>2
  <1>13. hi[1] * CarryMult < Base => mult = e
    <2> SUFFICES ASSUME hi[1] * CarryMult < Base
                 PROVE  mult = e
      OBVIOUS
    <2> DEFINE p == hi[1] * CarryMult
    <2>1. hi[1] \in Nat
      <3>1. 1 \in 1..first
        BY <1>1
      <3>2. hi[1] \in Word
        BY <1>2, <3>1
      <3> QED
        BY <3>2, BaseRule DEF Word
    <2>2. p \in 0..Base-1
      <3>1. p \in Nat
        BY <1>4, <2>1
      <3>2. p < Base
        OBVIOUS
      <3> HIDE DEF p
      <3> QED
        BY <3>1, <3>2, BaseRule
    <2> HIDE DEF p
    <2>3. (0 * Base + p) \div Base = 0
      BY <2>2, BaseRule, DivisionUnique
    <2>4. 0 * Base + p = p
      BY <2>2, BaseRule
    <2> QED
      BY <1>5, <2>3, <2>4 DEF p
  <1>14. (\A i \in 1..first : hi[i] * CarryMult < Base) => Value(y) = h * CarryMult + l
    <2> SUFFICES ASSUME \A i \in 1..first : hi[i] * CarryMult < Base
                 PROVE  Value(y) = h * CarryMult + l
      OBVIOUS
    <2>1. 1 \in 1..first
      BY <1>1
    <2> QED
      BY <1>6, <1>12, <1>13, <2>1
  <1>15. mult = e => Value(y) <= h * CarryMult + l
    <2>1. h * CarryMult \in Int /\ l \in Int
      BY <1>2, <1>4
    <2> QED
      BY <1>6, <1>12, <2>1
  <1> QED
    BY <1>2, <1>5, <1>8, <1>12, <1>13, <1>14, <1>15 DEF hi, y, h, l

LEMMA RoomAtLeast ==
  ASSUME NEW k \in Nat \ {0}
  PROVE  Room[k] \in Nat \ {0} /\ Room[k] >= Base
  <1>1. k - 1 \in Nat /\ (k - 1) + 1 = k
    OBVIOUS
  <1>2. Room[k-1] \in Nat /\ Room[k-1] >= 1 /\ Room[k] = Room[k-1] * Base
    BY <1>1, RoomIsNat, RoomStep
  <1>3. 1 * Base <= Room[k-1] * Base /\ Room[k-1] * Base \in Int
    BY <1>2, BaseRule, TimesOn
  <1> QED
    BY <1>2, <1>3, BaseRule

LEMMA SmallNumber ==
  ASSUME NEW x \in Seq(Word), NEW len \in Nat \ {0}, Len(x) = len, Value(x) < Base
  PROVE  x[len] = Value(x) /\ \A i \in 1..len-1 : x[i] = 0
  <1> DEFINE v == Value(x)
  <1>1. v \in 0..Room[len]-1 /\ Room[len] \in Nat
    <2>1. Len(x) <= len /\ len \in Nat
      OBVIOUS
    <2> QED
      BY <2>1, ValueFits, RoomIsNat
  <1>2. v \in 0..Base-1 /\ v \in Int
    BY <1>1, BaseRule
  <1>3. \A i \in 1..len : x[i] = (v \div Room[len-i]) % Base
    BY DigitIs
  <1> HIDE DEF v
  <1>4. x[len] = v
    <2>1. len \in 1..len /\ len - len = 0 /\ Room[0] = 1 /\ v \div 1 = v
      BY <1>2, RoomRule
    <2>2. 0 * Base + v = v
      BY <1>2, BaseRule
    <2>3. (0 * Base + v) % Base = v
      BY <1>2, BaseRule, DivisionUnique
    <2>4. x[len] = v % Base
      BY <1>3, <2>1
    <2> QED
      BY <2>2, <2>3, <2>4
  <1>5. ASSUME NEW i \in 1..len-1
        PROVE  x[i] = 0
    <2> DEFINE r == Room[len-i]
    <2>1. i \in 1..len /\ len - i \in Nat \ {0}
      OBVIOUS
    <2>2. r \in Nat \ {0} /\ r >= Base
      BY <2>1, RoomAtLeast
    <2>3. x[i] = (v \div r) % Base
      BY <1>3, <2>1
    <2> HIDE DEF r
    <2>4. v \in 0..r-1 /\ 0 * r + v = v
      BY <1>2, <2>2, BaseRule
    <2>5. (0 * r + v) \div r = 0
      BY <2>2, <2>4, DivisionUnique
    <2>6. 0 \in 0..Base-1 /\ 0 * Base + 0 = 0
      BY BaseRule
    <2>7. (0 * Base + 0) % Base = 0
      BY <2>6, BaseRule, DivisionUnique
    <2> QED
      BY <2>3, <2>4, <2>5, <2>6, <2>7
  <1> QED
    BY <1>4, <1>5 DEF v

LEMMA ZeroNumber ==
  ASSUME NEW x \in Numeral, Value(x) = 0
  PROVE  \A i \in 1..Len(x) : x[i] = 0
  <1> SUFFICES ASSUME \E i \in 1..Len(x) : x[i] # 0
               PROVE  FALSE
    OBVIOUS
  <1> QED
    BY ValuePositive

LEMMA WithinRule ==
  ASSUME NEW x, NEW first, NEW len, IsFolded(x, first, len)
  PROVE  LET high == Value(x) \div Limit
         IN  /\ high \in Nat
             /\ ~Within(x, first) => high >= 1
             /\ Within(x, first) /\ high < Base => high = 0
  <1> DEFINE hi == HighWords(x, first)
             high == Value(x) \div Limit
  <1>1. hi \in [1..first -> Word] /\ Value(hi) = high /\ high \in Nat
    BY PassRule
  <1>2. first \in Nat \ {0} /\ len = first + (N - 1) /\ x \in [1..len -> Word] /\ first <= len
    <2>1. first \in 1..len
      BY FoldedIs
    <2>2. first \in Nat \ {0} /\ len = first + (N - 1) /\ x \in [1..len -> Word]
      BY DEF IsFolded
    <2> QED
      BY <2>1, <2>2
  <1>3. hi \in Seq(Word) /\ Len(hi) = first /\ hi \in Numeral
    <2> HIDE DEF Word, hi
    <2>1. hi \in Seq(Word) /\ Len(hi) = first
      BY <1>1, <1>2
    <2>2. hi # <<>>
      BY <1>2, <2>1
    <2> QED
      BY <2>1, <2>2 DEF Numeral
  <1>4. hi = [j \in 1..first |->
                (x[j] \div Top) + (IF j = 1 THEN 0 ELSE (x[j-1] % Top) * Under)]
    BY DEF HighWords, Top, Under
  <1>5. ASSUME NEW j \in 1..first
        PROVE  /\ x[j] \in Nat /\ x[j] \div Top \in 0..Under-1 /\ x[j] % Top \in 0..Top-1
               /\ x[j] = (x[j] \div Top) * Top + (x[j] % Top)
    <2>1. x[j] \in Word
      BY <1>2
    <2> QED
      BY <2>1, WordSplit, BaseRule DEF Word
  <1>6. Top \in Nat /\ Top >= 2 /\ Under \in Nat /\ Under >= 2
    BY FieldRule
  <1> HIDE DEF hi
  <1>7. first \in 1..first /\ (first # 1 => first - 1 \in 1..first)
    BY <1>2
  <1> DEFINE u == x[first] \div Top
             v == x[first] % Top
  <1>8. u \in 0..Under-1 /\ v \in 0..Top-1 /\ x[first] = u * Top + v
    BY <1>5, <1>7
  <1>9. ~(x[first] < Top) <=> u >= 1
    <2> DEFINE w == x[first]
               t == Top
    <2>1. w = u * t + v /\ t \in Nat /\ u \in Nat /\ v \in 0..t-1
      BY <1>6, <1>8
    <2> HIDE DEF u, v, w, t
    <2>2. u >= 1 => t <= w
      <3> SUFFICES ASSUME u >= 1
                   PROVE  t <= w
        OBVIOUS
      <3>1. 1 * t <= u * t /\ u * t \in Int
        BY <2>1, TimesOn
      <3> QED
        BY <2>1, <3>1
    <2>3. u = 0 => w < t
      BY <2>1
    <2>4. w \in Int
      <3>1. u * t \in Int
        BY <2>1
      <3> QED
        BY <2>1, <3>1
    <2> QED
      BY <2>1, <2>2, <2>3, <2>4 DEF w, t
  <1>10. ~Within(x, first) => high >= 1
    <2> SUFFICES ASSUME high = 0
                 PROVE  Within(x, first)
      BY <1>1
    <2>1. \A j \in 1..first : hi[j] = 0
      BY <1>1, <1>3, ZeroNumber
    <2>2. x[first] < Top
      <3>1. hi[first] = u + (IF first = 1 THEN 0 ELSE (x[first-1] % Top) * Under)
        BY <1>4, <1>7
      <3>2. (IF first = 1 THEN 0 ELSE (x[first-1] % Top) * Under) \in Nat
        <4>1. first # 1 => (x[first-1] % Top) \in Nat
          BY <1>5, <1>6, <1>7
        <4> QED
          BY <1>6, <4>1
      <3>3. hi[first] = 0
        BY <1>7, <2>1
      <3>4. u = 0
        <4> DEFINE z == IF first = 1 THEN 0 ELSE (x[first-1] % Top) * Under
        <4>1. z \in Nat /\ u \in Nat /\ u + z = 0
          BY <1>8, <3>1, <3>2, <3>3
        <4> HIDE DEF z, u
        <4> QED
          BY <4>1
      <3> QED
        BY <1>9, <3>4
    <2>3. ASSUME first # 1
          PROVE  x[first-1] = 0
      <3> DEFINE k == first - 1
                 w == x[k]
                 d == w \div Top
                 m == w % Top
      <3>1. k \in 1..first /\ hi[k] = 0 /\ hi[first] = 0 /\ first \in 1..first
        BY <1>7, <2>1, <2>3
      <3>2. d \in 0..Under-1 /\ m \in 0..Top-1 /\ w = d * Top + m
        BY <1>5, <3>1
      <3>3. d = 0
        <4>1. hi[k] = d + (IF k = 1 THEN 0 ELSE (x[k-1] % Top) * Under)
          BY <1>4, <3>1
        <4> DEFINE z == IF k = 1 THEN 0 ELSE (x[k-1] % Top) * Under
        <4>2. z \in Nat
          <5>1. k # 1 => k - 1 \in 1..first
            BY <3>1
          <5>2. k # 1 => x[k-1] % Top \in Nat
            BY <1>5, <1>6, <5>1
          <5> QED
            BY <1>6, <5>2
        <4>3. d + z = 0 /\ d \in Nat
          BY <3>1, <3>2, <4>1
        <4> HIDE DEF z, d
        <4> QED
          BY <4>2, <4>3
      <3>4. m = 0
        <4>1. hi[first] = u + m * Under
          BY <1>4, <1>7, <2>3
        <4>2. u \in Nat /\ m \in Nat /\ u + m * Under = 0
          BY <1>8, <3>1, <3>2, <4>1
        <4> HIDE DEF u, m
        <4>3. 1 <= m => 1 * Under <= m * Under
          BY <1>6, <4>2, TimesOn
        <4>4. m * Under \in Int
          BY <1>6, <4>2
        <4> QED
          BY <1>6, <4>2, <4>3, <4>4
      <3>5. 0 * Top + 0 = 0
        BY <1>6
      <3> QED
        BY <3>2, <3>3, <3>4, <3>5
    <2> QED
      BY <2>2, <2>3 DEF Within, Top
  <1>11. Within(x, first) /\ high < Base => high = 0
    <2> SUFFICES ASSUME Within(x, first), high < Base
                 PROVE  high = 0
      OBVIOUS
    <2>1. hi[first] = high
      BY <1>1, <1>2, <1>3, SmallNumber
    <2>2. x[first] < Top /\ (first # 1 => x[first-1] = 0)
      BY DEF Within, Top
    <2>3. u = 0
      BY <1>8, <1>9, <2>2
    <2>4. first # 1 => (x[first-1] % Top) * Under = 0
      <3>1. 0 * Top + 0 = 0 /\ 0 \in 0..Top-1 /\ Top \in Nat \ {0}
        BY <1>6
      <3>2. (0 * Top + 0) % Top = 0
        BY <3>1, DivisionUnique
      <3>3. 0 % Top = 0 /\ 0 * Under = 0
        BY <1>6, <3>1, <3>2
      <3> QED
        BY <2>2, <3>3
    <2>5. hi[first] = u + (IF first = 1 THEN 0 ELSE (x[first-1] % Top) * Under)
      BY <1>4, <1>7
    <2>6. hi[first] = 0 + 0
      BY <2>3, <2>4, <2>5
    <2> QED
      BY <2>1, <2>6
  <1> QED
    BY <1>1, <1>10, <1>11 DEF high

LEMMA PassSmaller ==
  ASSUME NEW x, NEW first, NEW len, IsFolded(x, first, len), ~Within(x, first)
  PROVE  LET y == Pass(x, first)
         IN  /\ Value(x) \in Nat /\ Value(x) > 0
             /\ y = Exit \/ (y \in [1..len -> Word] /\ Value(y) \in Nat /\ Value(y) < Value(x))
  <1> DEFINE y == Pass(x, first)
             high == Value(x) \div Limit
             low == Value(x) % Limit
             c == CarryMult
  <1>1. /\ high \in Nat /\ low \in 0..Limit-1 /\ Value(x) = high * Limit + low
        /\ y = Exit \/ (y \in [1..len -> Word] /\ Value(y) <= high * c + low)
    BY PassRule
  <1>2. high >= 1
    BY WithinRule
  <1>3. c \in Nat /\ c < Base /\ Limit \in Nat /\ Limit >= 2 * Base
    BY FieldRule
  <1>4. y \in [1..len -> Word] => Value(y) \in Nat
    <2> SUFFICES ASSUME y \in [1..len -> Word]
                 PROVE  Value(y) \in Nat
      OBVIOUS
    <2>1. len \in Nat
      BY FoldedIs
    <2> HIDE DEF y
    <2>2. y \in Seq(Word) /\ Len(y) = len
      <3> HIDE DEF Word
      <3> QED
        BY <2>1
    <2>3. Value(y) \in 0..Room[len]-1 /\ Room[len] \in Nat
      <3>1. Len(y) <= len
        BY <2>1, <2>2
      <3> QED
        BY <2>1, <2>2, <3>1, ValueFits, RoomIsNat
    <2> QED
      BY <2>3
  <1> HIDE DEF y, high, low, c
  <1>5. high * c + low < high * Limit + low /\ high * Limit > 0 /\ high * Limit \in Int /\ high * c \in Int
    <2>1. (c + 1) * high <= Limit * high /\ (c + 1) * high \in Int /\ Limit * high \in Int
      <3>1. c + 1 \in Int /\ Limit \in Int /\ c + 1 <= Limit
        BY <1>3, BaseRule
      <3> QED
        BY <1>1, <3>1, TimesOn
    <2>2. (c + 1) * high = high * c + high /\ Limit * high = high * Limit
      BY <1>1, <1>3
    <2>3. high * c >= 0 /\ high * c \in Int
      BY <1>1, <1>3
    <2> QED
      BY <1>1, <1>2, <2>1, <2>2, <2>3
  <1> QED
    BY <1>1, <1>3, <1>4, <1>5 DEF y

(* The folding of BitModulo *)
Folded(len, first) ==
  LET folded[x \in [1..len -> Word] \cup {Exit}] ==
        IF x = Exit \/ Within(x, first) THEN x ELSE folded[Pass(x, first)]
  IN  folded

LEMMA FoldedRule ==
  ASSUME NEW first \in Nat \ {0}, NEW len \in Nat, len = first + (N - 1),
         NEW S, S \subseteq [1..len -> Word] \cup {Exit},
         \A x \in S : x # Exit /\ ~Within(x, first) => Pass(x, first) \in S
  PROVE  \A x \in S : LET y == Folded(len, first)[x]
                      IN  y \in S /\ (y = Exit \/ Within(y, first))
  <1> DEFINE D == [1..len -> Word] \cup {Exit}
             size == [x \in D |-> IF x = Exit \/ Within(x, first) THEN 0 ELSE Value(x)]
             stop == {x \in D : x = Exit \/ Within(x, first)}
             next == [x \in D |-> IF x = Exit \/ Within(x, first) THEN x ELSE Pass(x, first)]
             fold == Folded(len, first)
  <1>1. ASSUME NEW x \in D, x # Exit, ~Within(x, first)
        PROVE  /\ Value(x) \in Nat /\ Value(x) > 0
               /\ \/ Pass(x, first) = Exit
                  \/ Pass(x, first) \in [1..len -> Word] /\ Value(Pass(x, first)) \in Nat
                     /\ Value(Pass(x, first)) < Value(x)
    <2>1. IsFolded(x, first, len)
      BY <1>1 DEF IsFolded
    <2> QED
      BY <1>1, <2>1, PassSmaller
  <1> HIDE DEF D
  <1>2. size \in [D -> Nat]
    BY <1>1
  <1>3. next \in [D -> D]
    <2>1. ASSUME NEW x \in D, x # Exit, ~Within(x, first)
          PROVE  Pass(x, first) \in D
      BY <1>1, <2>1 DEF D
    <2> QED
      BY <2>1
  <1>4. ASSUME NEW x \in D, x \notin stop
        PROVE  size[next[x]] < size[x]
    <2>1. x # Exit /\ ~Within(x, first) /\ next[x] = Pass(x, first) /\ size[x] = Value(x) /\ next[x] \in D
      BY <1>3, <1>4
    <2> DEFINE z == next[x]
    <2>2. z \in D /\ z = Pass(x, first) /\ size[x] > 0 /\ size[x] = Value(x)
      BY <1>1, <2>1
    <2>3. size[z] = IF z = Exit \/ Within(z, first) THEN 0 ELSE Value(z)
      BY <2>2
    <2> HIDE DEF z, size
    <2>4. z = Exit \/ Value(z) < Value(x)
      BY <1>1, <2>1, <2>2
    <2>5. size[z] < size[x]
      BY <2>2, <2>3, <2>4
    <2> QED
      BY <2>5 DEF z
  <1>5. ASSUME NEW x \in D
        PROVE  (x \in stop <=> x = Exit \/ Within(x, first))
               /\ (x \notin stop => next[x] = Pass(x, first))
    OBVIOUS
  <1> HIDE DEF size, stop, next
  <1>6. Descends(D, size, stop, next)
    BY <1>2, <1>3, <1>4 DEF Descends
  <1>7. PICK g \in [D -> D] : Returns(g, D, stop, next)
    BY <1>6, DescentExists
  <1>8. g = [x \in D |-> IF x = Exit \/ Within(x, first) THEN x ELSE g[Pass(x, first)]]
    BY <1>5, <1>7 DEF Returns
  <1>9. fold = [x \in D |-> IF x = Exit \/ Within(x, first) THEN x ELSE fold[Pass(x, first)]]
    BY <1>8 DEF Folded, D
  <1> HIDE DEF fold
  <1>10. Returns(fold, D, stop, next)
    BY <1>5, <1>9 DEF Returns
  <1>11. S \subseteq D
    BY DEF D
  <1>12. \A x \in S : x \notin stop => next[x] \in S
    BY <1>5, <1>11
  <1>13. \A x \in S : fold[x] \in S /\ fold[x] \in stop
    BY <1>6, <1>10, <1>11, <1>12, DescentStays
  <1> QED
    BY <1>5, <1>11, <1>13 DEF fold

LEMMA ElementRoom ==
  /\ Room[N] \in Nat \ {0} /\ Room[N] = Limit * Under /\ Room[N] >= 2 * Limit
  <1>1. N - 1 \in Nat /\ (N - 1) + 1 = N /\ N \in Nat
    BY FieldPlaces
  <1>2. Room[N] = Room[N-1] * Base /\ Room[N] \in Nat \ {0}
    <2>1. Room[(N-1)+1] = Room[N-1] * Base
      BY <1>1, RoomStep
    <2>2. Room[N] \in Nat \ {0}
      BY <1>1, RoomIsNat
    <2> QED
      BY <1>1, <2>1, <2>2
  <1> DEFINE t == Top
             u == Under
             r == Room[N-1]
             v == Limit
  <1>3. t \in Nat /\ u \in Nat /\ u >= 2 /\ r \in Nat /\ Base = t * u /\ v = t * r /\ v \in Nat
    BY FieldRule
  <1>4. Room[N] = r * Base
    BY <1>2
  <1> HIDE DEF t, u, r, v
  <1>5. r * (t * u) = (t * r) * u
    BY <1>3
  <1>6. Room[N] = v * u
    BY <1>3, <1>4, <1>5
  <1>7. 2 * v <= u * v /\ u * v = v * u
    BY <1>3, TimesOn
  <1> QED
    BY <1>2, <1>6, <1>7 DEF u, v

LEMMA FieldIs ==
  /\ Field = Limit - CarryMult /\ Field \in Nat \ {0} /\ Field <= Limit
  /\ Prime \in Numeral /\ Len(Prime) = N
  <1>1. /\ Limit \in Nat /\ Limit >= 2 * Base /\ CarryMult \in Nat /\ CarryMult < Base
    BY FieldRule
  <1>2. Room[N] \in Nat /\ Room[N] >= 2 * Limit /\ N \in Nat /\ N >= 2
    BY ElementRoom, FieldPlaces
  <1>3. Limit - CarryMult \in 0..Room[N]-1 /\ Limit - CarryMult \in Nat \ {0} /\ Limit - CarryMult <= Limit
    BY <1>1, <1>2, BaseRule
  <1>4. Prime = Digits(Limit - CarryMult, N)
    BY DEF Prime, Digits, Limit
  <1>5. Prime \in Seq(Word) /\ Len(Prime) = N /\ Value(Prime) = Limit - CarryMult
    BY <1>2, <1>3, <1>4, DigitsValue
  <1>6. Prime \in Numeral
    <2> HIDE DEF Word, Prime
    <2>1. Prime # <<>>
      BY <1>2, <1>5
    <2> QED
      BY <1>5, <2>1 DEF Numeral
  <1> QED
    BY <1>3, <1>5, <1>6 DEF Field

LEMMA TakenOff ==
  ASSUME NEW v \in Int, NEW h \in Int, NEW f \in Nat \ {0}
  PROVE  (v - h * f) % f = v % f
  <1> DEFINE q == v \div f
             r == v % f
  <1>1. q \in Int /\ r \in 0..f-1 /\ v = q * f + r
    BY Division
  <1> HIDE DEF q, r
  <1>2. (q - h) * f = q * f - h * f /\ q - h \in Int /\ q * f \in Int /\ h * f \in Int
    BY <1>1
  <1>3. ((q - h) * f + r) % f = r
    BY <1>1, <1>2, DivisionUnique
  <1>4. (q - h) * f + r = v - h * f
    BY <1>1, <1>2
  <1> QED
    BY <1>3, <1>4 DEF r

LEMMA LowBelow ==
  ASSUME NEW x, NEW first, NEW len, IsFolded(x, first, len), Value(x) < Limit
  PROVE  Low(x, N) \in [1..N -> Word] /\ Value(Low(x, N)) = Value(x)
  <1>1. /\ x \in Seq(Word) /\ Len(x) = len /\ x # Exit /\ len \in Nat
        /\ N \in Nat \ {0} /\ N <= len
    <2>1. x \in Seq(Word) /\ Len(x) = len /\ x # Exit /\ first \in 1..len /\ len - N + 1 = first /\ len \in Nat
      BY FoldedIs
    <2>2. N \in Nat /\ N >= 2
      BY FieldPlaces
    <2> QED
      BY <2>1, <2>2
  <1>2. Value(x) \in 0..Room[N]-1
    <2>1. Value(x) \in 0..Room[len]-1 /\ Room[len] \in Nat
      <3>1. Len(x) <= len
        BY <1>1
      <3> QED
        BY <1>1, <3>1, ValueFits, RoomIsNat
    <2>2. Room[N] >= 2 * Limit /\ Limit \in Nat /\ Room[N] \in Nat
      BY ElementRoom, FieldRule
    <2> QED
      BY <2>1, <2>2
  <1> DEFINE y == SubSeq(x, Len(x) - N + 1, Len(x))
  <1>3. y \in Seq(Word) /\ Len(y) = N /\ Value(y) = Value(x)
    BY <1>1, <1>2, LowValue
  <1>4. Low(x, N) = y
    BY <1>1 DEF Low
  <1> HIDE DEF y
  <1>5. y \in [1..N -> Word]
    <2> HIDE DEF Word
    <2> QED
      BY <1>3
  <1> QED
    BY <1>3, <1>4, <1>5

LEMMA LowWithin ==
  ASSUME NEW x, NEW first, NEW len, IsFolded(x, first, len), Within(x, first)
  PROVE  Low(x, N) \in [1..N -> Word] /\ Value(Low(x, N)) < Limit
  <1>1. /\ x \in Seq(Word) /\ Len(x) = len /\ x # Exit /\ len \in Nat
        /\ N \in Nat \ {0} /\ N <= len /\ first \in 1..len /\ len - N + 1 = first /\ N - 1 \in Nat
    <2>1. /\ x \in Seq(Word) /\ Len(x) = len /\ x # Exit /\ first \in 1..len /\ len - N + 1 = first
          /\ len \in Nat /\ N - 1 \in Nat
      BY FoldedIs
    <2>2. N \in Nat /\ N >= 2
      BY FieldPlaces
    <2> QED
      BY <2>1, <2>2
  <1> DEFINE y == SubSeq(x, first, len)
  <1>2. Low(x, N) = y
    BY <1>1 DEF Low
  <1>3. y \in Seq(Word) /\ Len(y) = N /\ y[1] = x[first]
    <2>1. 1 \in 1..N /\ first + 1 - 1 = first /\ len - first + 1 = N
      BY <1>1
    <2> HIDE DEF Word
    <2> QED
      BY <1>1, <2>1
  <1> HIDE DEF y
  <1>4. y \in [1..N -> Word] /\ y \in Numeral
    <2> HIDE DEF Word
    <2>1. y \in [1..N -> Word]
      BY <1>3
    <2>2. y # <<>>
      BY <1>1, <1>3
    <2> QED
      BY <1>3, <2>1, <2>2 DEF Numeral
  <1>5. Tail(y) \in Seq(Word) /\ Len(Tail(y)) = N - 1 /\ Value(y) = y[1] * Room[N-1] + Value(Tail(y)) /\ y[1] \in Word
    BY <1>3, <1>4, HeadValue
  <1>6. Value(Tail(y)) \in 0..Room[N-1]-1
    <2>1. Len(Tail(y)) <= N - 1
      BY <1>1, <1>5
    <2> QED
      BY <1>1, <1>5, <2>1, ValueFits
  <1> DEFINE t == Top
             r == Room[N-1]
             w == y[1]
             rest == Value(Tail(y))
  <1>7. /\ w \in Int /\ t \in Int /\ w < t /\ r \in Nat /\ rest \in 0..r-1 /\ 0 \in 0..r-1
        /\ Limit = t * r /\ Value(y) = w * r + rest /\ t * r \in Int
    <2>1. y[1] < Top /\ y[1] \in Int
      BY <1>3, <1>5, BaseRule DEF Within, Top, Word
    <2>2. Top \in Nat /\ Room[N-1] \in Nat /\ Room[N-1] >= Base /\ Limit = Top * Room[N-1] /\ Limit \in Nat
      BY FieldRule
    <2> QED
      BY <1>5, <1>6, <2>1, <2>2, BaseRule
  <1> HIDE DEF t, r, w, rest
  <1>8. w * r + rest < t * r + 0
    BY <1>7, LessOn
  <1> QED
    BY <1>2, <1>4, <1>7, <1>8

LEMMA SmallPass ==
  ASSUME NEW x, NEW first, NEW len, IsFolded(x, first, len),
         NEW k \in Nat, k < Base, k * CarryMult < Base, Value(x) < Limit * (k + 1)
  PROVE  LET y == Pass(x, first)
         IN  /\ y \in [1..len -> Word]
             /\ Value(y) < Limit * (k + 1) /\ Value(y) % Field = Value(x) % Field
  <1> DEFINE y == Pass(x, first)
             hi == HighWords(x, first)
             high == Value(x) \div Limit
             low == Value(x) % Limit
             c == CarryMult
  <1>1. /\ hi \in [1..first -> Word] /\ Value(hi) = high
        /\ high \in Nat /\ low \in 0..Limit-1 /\ Value(x) = high * Limit + low
        /\ hi[1] * c < Base => y \in [1..len -> Word]
        /\ (\A i \in 1..first : hi[i] * c < Base) => Value(y) = high * c + low
    BY PassRule
  <1>2. c \in Nat /\ c < Base /\ Limit \in Nat /\ Limit >= 2 * Base /\ Field = Limit - c /\ Field \in Nat \ {0}
    BY FieldRule, FieldIs
  <1>3. first \in Nat \ {0}
    BY DEF IsFolded
  <1>4. hi \in Seq(Word) /\ Len(hi) = first
    <2> HIDE DEF hi, Word
    <2> QED
      BY <1>1, <1>3
  <1>5. k * c < Base
    OBVIOUS
  <1> HIDE DEF y, hi, high, low, c
  <1>6. high <= k
    <2> SUFFICES ASSUME k + 1 <= high
                 PROVE  FALSE
      BY <1>1
    <2>1. (k + 1) * Limit <= high * Limit /\ (k + 1) * Limit \in Int /\ high * Limit \in Int
      BY <1>1, <1>2, TimesOn
    <2>2. (k + 1) * Limit = Limit * (k + 1)
      BY <1>2
    <2> QED
      BY <1>1, <2>1, <2>2
  <1>7. high * c < Base
    <2>1. high * c <= k * c /\ high * c \in Int /\ k * c \in Int
      BY <1>1, <1>2, <1>6, TimesOn
    <2> QED
      BY <1>5, <2>1, BaseRule
  <1>8. hi[first] = high /\ \A i \in 1..first-1 : hi[i] = 0
    <2>1. Value(hi) < Base
      BY <1>1, <1>6, BaseRule
    <2> QED
      BY <1>1, <1>3, <1>4, <2>1, SmallNumber
  <1>9. \A i \in 1..first : hi[i] * c < Base
    <2>1. ASSUME NEW i \in 1..first
          PROVE  hi[i] * c < Base
      <3>1. CASE i = first
        BY <1>7, <1>8, <3>1
      <3>2. CASE i # first
        <4>1. hi[i] = 0
          BY <1>3, <1>8, <3>2
        <4>2. 0 * c = 0
          BY <1>2
        <4> QED
          BY <4>1, <4>2, BaseRule
      <3> QED
        BY <3>1, <3>2
    <2> QED
      BY <2>1
  <1>10. y \in [1..len -> Word] /\ Value(y) = high * c + low
    <2>1. 1 \in 1..first
      BY <1>3
    <2> QED
      BY <1>1, <1>9, <2>1
  <1>11. high * c + low = Value(x) - high * Field
    <2>1. high * (Limit - c) = high * Limit - high * c /\ high * Limit \in Int /\ high * c \in Int
      BY <1>1, <1>2
    <2> QED
      BY <1>1, <1>2, <2>1
  <1>12. Value(x) \in Int /\ high * Field >= 0 /\ high * Field \in Int
    <2>1. high * Limit \in Int
      BY <1>1, <1>2
    <2> QED
      BY <1>1, <1>2, <2>1
  <1>13. (Value(x) - high * Field) % Field = Value(x) % Field
    <2>1. high \in Int
      BY <1>1
    <2> QED
      BY <1>2, <1>12, <2>1, TakenOff
  <1>14. Value(y) <= Value(x)
    BY <1>10, <1>11, <1>12
  <1>15. Value(y) < Limit * (k + 1)
    <2>1. Limit * (k + 1) \in Int
      BY <1>2
    <2>2. Value(y) \in Int
      BY <1>10, <1>11, <1>12
    <2> QED
      BY <1>12, <1>14, <2>1, <2>2
  <1> QED
    BY <1>10, <1>11, <1>13, <1>15 DEF y

LEMMA SmallFold ==
  ASSUME NEW x, NEW first, NEW len, IsFolded(x, first, len),
         NEW k \in Nat, k < Base, k * CarryMult < Base, Value(x) < Limit * (k + 1)
  PROVE  Stands(Low(Folded(len, first)[x], N), Value(x))
  <1> DEFINE S == {y \in [1..len -> Word] :
                     Value(y) < Limit * (k + 1) /\ Value(y) % Field = Value(x) % Field}
             z == Folded(len, first)[x]
  <1>1. first \in Nat \ {0} /\ len \in Nat /\ len = first + (N - 1) /\ x \in [1..len -> Word]
    BY DEF IsFolded
  <1>2. ASSUME NEW y \in S
        PROVE  y \in [1..len -> Word] /\ IsFolded(y, first, len)
               /\ Value(y) < Limit * (k + 1) /\ Value(y) % Field = Value(x) % Field
    BY <1>1 DEF IsFolded
  <1>3. ASSUME NEW y \in [1..len -> Word], Value(y) < Limit * (k + 1), Value(y) % Field = Value(x) % Field
        PROVE  y \in S
    BY <1>3
  <1>4. x \in S
    BY <1>1
  <1> HIDE DEF S
  <1>5. \A y \in S : Pass(y, first) \in S
    <2>1. ASSUME NEW y \in S
          PROVE  Pass(y, first) \in S
      <3>1. IsFolded(y, first, len) /\ Value(y) < Limit * (k + 1) /\ Value(y) % Field = Value(x) % Field
        BY <1>2
      <3>2. /\ Pass(y, first) \in [1..len -> Word]
            /\ Value(Pass(y, first)) < Limit * (k + 1) /\ Value(Pass(y, first)) % Field = Value(y) % Field
        BY <3>1, SmallPass
      <3> QED
        BY <1>3, <3>1, <3>2
    <2> QED
      BY <2>1
  <1>6. S \subseteq [1..len -> Word] \cup {Exit}
    BY <1>2
  <1>7. z \in S /\ (z = Exit \/ Within(z, first))
    BY <1>1, <1>4, <1>5, <1>6, FoldedRule
  <1> HIDE DEF z
  <1>8. IsFolded(z, first, len) /\ Value(z) < Limit * (k + 1) /\ Value(z) % Field = Value(x) % Field
    BY <1>2, <1>7
  <1>9. Within(z, first)
    BY <1>7, <1>8, FoldedIs
  <1> DEFINE high == Value(z) \div Limit
             low == Value(z) % Limit
  <1>10. high \in Nat /\ low \in 0..Limit-1 /\ Value(z) = high * Limit + low
    BY <1>8, PassRule
  <1>11. high < Base => high = 0
    BY <1>8, <1>9, WithinRule
  <1> HIDE DEF high, low
  <1>12. Limit \in Nat
    BY FieldRule
  <1>13. high <= k
    <2> SUFFICES ASSUME k + 1 <= high
                 PROVE  FALSE
      BY <1>10
    <2>1. (k + 1) * Limit <= high * Limit /\ (k + 1) * Limit \in Int /\ high * Limit \in Int
      BY <1>10, <1>12, TimesOn
    <2>2. (k + 1) * Limit = Limit * (k + 1)
      BY <1>12
    <2> QED
      BY <1>8, <1>10, <1>12, <2>1, <2>2
  <1>14. Value(z) < Limit
    <2>1. high = 0
      BY <1>10, <1>11, <1>13, BaseRule
    <2>2. 0 * Limit = 0
      BY <1>12
    <2> QED
      BY <1>10, <1>12, <2>1, <2>2
  <1>15. Low(z, N) \in [1..N -> Word] /\ Value(Low(z, N)) = Value(z)
    BY <1>8, <1>14, LowBelow
  <1> QED
    BY <1>8, <1>14, <1>15 DEF Stands, z, Limit

LEMMA BitModuloIs ==
  ASSUME NEW x, NEW first, NEW len, IsFolded(x, first, len)
  PROVE  BitModulo(x, Zero(N)) = Low(Folded(len, first)[Pass(x, first)], N)
  <1>1. /\ Len(x) = len /\ x # Exit /\ len - (N - 1) = first /\ first \in 1..len /\ len \in Nat
    BY FoldedIs
  <1>2. N \in Nat /\ BitMod \div W = N - 1
    BY FieldPlaces
  <1>3. Len(Zero(N)) = N
    BY <1>2 DEF Zero
  <1> DEFINE f == Len(x) - (BitMod \div W)
  <1>4. BitModulo(x, Zero(N)) =
          IF x = Exit THEN Exit
          ELSE IF f < 1 THEN Zero(N) ELSE Low(Folded(Len(x), f)[Pass(x, f)], Len(Zero(N)))
    BY DEF BitModulo, Folded
  <1>5. f = first /\ ~(first < 1)
    BY <1>1, <1>2
  <1> HIDE DEF f
  <1> QED
    BY <1>1, <1>3, <1>4, <1>5

LEMMA StandsFor ==
  ASSUME NEW x, NEW u, NEW v, Stands(x, u), u % Field = v % Field
  PROVE  Stands(x, v)
  BY DEF Stands

LEMMA WithinValue ==
  ASSUME NEW x, NEW first, NEW len, IsFolded(x, first, len)
  PROVE  Value(x) \in Nat /\ Value(x) \in Int
  <1>1. x \in Seq(Word) /\ Len(x) = len /\ len \in Nat
    BY FoldedIs
  <1>2. Len(x) <= len
    BY <1>1
  <1>3. Value(x) \in 0..Room[len]-1 /\ Room[len] \in Nat
    BY <1>1, <1>2, ValueFits, RoomIsNat
  <1> QED
    BY <1>3

LEMMA BitModuloSmall ==
  ASSUME NEW x, NEW first, NEW len, IsFolded(x, first, len),
         NEW k \in Nat, k < Base, k * CarryMult < Base, Value(x) < Limit * (k + 1)
  PROVE  Stands(BitModulo(x, Zero(N)), Value(x))
  <1> DEFINE y == Pass(x, first)
  <1>1. y \in [1..len -> Word] /\ Value(y) < Limit * (k + 1) /\ Value(y) % Field = Value(x) % Field
    BY SmallPass
  <1>2. IsFolded(y, first, len)
    BY <1>1 DEF IsFolded
  <1> HIDE DEF y
  <1>3. Stands(Low(Folded(len, first)[y], N), Value(y))
    BY <1>1, <1>2, SmallFold
  <1>4. BitModulo(x, Zero(N)) = Low(Folded(len, first)[y], N)
    BY BitModuloIs DEF y
  <1> QED
    BY <1>1, <1>3, <1>4, StandsFor

LEMMA BitModuloReduces ==
  ASSUME NEW x, NEW first, NEW len, IsFolded(x, first, len)
  PROVE  LET y == BitModulo(x, Zero(N))
         IN  y # Exit => y \in [1..N -> Word] /\ Value(y) < Limit
  <1> DEFINE D == [1..len -> Word] \cup {Exit}
             p == Pass(x, first)
             z == Folded(len, first)[p]
             y == BitModulo(x, Zero(N))
  <1>1. first \in Nat \ {0} /\ len \in Nat /\ len = first + (N - 1)
    BY DEF IsFolded
  <1>2. p \in D
    BY PassRule
  <1>3. ASSUME NEW u \in D, u # Exit
        PROVE  Pass(u, first) \in D
    <2>1. IsFolded(u, first, len)
      BY <1>1, <1>3 DEF IsFolded
    <2> QED
      BY <2>1, PassRule
  <1>4. D \subseteq [1..len -> Word] \cup {Exit}
    OBVIOUS
  <1>5. ASSUME NEW u \in D, u # Exit
        PROVE  IsFolded(u, first, len)
    BY <1>1, <1>5 DEF IsFolded
  <1> HIDE DEF D, p
  <1>6. z \in D /\ (z = Exit \/ Within(z, first))
    <2>1. \A u \in D : u # Exit /\ ~Within(u, first) => Pass(u, first) \in D
      BY <1>3
    <2> QED
      BY <1>1, <1>2, <1>4, <2>1, FoldedRule
  <1>7. y = Low(z, N)
    BY BitModuloIs DEF p
  <1> HIDE DEF z, y
  <1>8. z = Exit => y = Exit
    BY <1>7 DEF Low
  <1>9. z # Exit => y \in [1..N -> Word] /\ Value(y) < Limit
    BY <1>5, <1>6, <1>7, LowWithin
  <1> QED
    BY <1>8, <1>9 DEF y

LEMMA HighBelow ==
  ASSUME NEW v \in Int, NEW m \in Nat, v < Limit * m
  PROVE  v \div Limit < m
  <1> DEFINE q == v \div Limit
             r == v % Limit
  <1>1. Limit \in Nat \ {0}
    BY FieldRule, BaseRule
  <1>2. q \in Int /\ r \in 0..Limit-1 /\ v = q * Limit + r
    BY <1>1, Division
  <1> HIDE DEF q, r
  <1>3. q < m
    <2> SUFFICES ASSUME m <= q
                 PROVE  FALSE
      BY <1>2
    <2>1. m * Limit <= q * Limit /\ m * Limit \in Int /\ q * Limit \in Int
      BY <1>1, <1>2, TimesOn
    <2>2. m * Limit = Limit * m
      BY <1>1
    <2> QED
      BY <1>1, <1>2, <2>1, <2>2
  <1> QED
    BY <1>3 DEF q

LEMMA BitModuloRuns ==
  ASSUME NEW x, NEW first, NEW len, IsFolded(x, first, len), first >= 2, Value(x) < Limit * Base
  PROVE  BitModulo(x, Zero(N)) \in [1..N -> Word] /\ Value(BitModulo(x, Zero(N))) < Limit
  <1> DEFINE S == {u \in [1..len -> Word] : Value(u) < Limit * Base}
             p == Pass(x, first)
             z == Folded(len, first)[p]
  <1>1. first \in Nat \ {0} /\ len \in Nat /\ len = first + (N - 1) /\ x \in [1..len -> Word]
    BY DEF IsFolded
  <1>2. ASSUME NEW u \in S
        PROVE  u \in [1..len -> Word] /\ Value(u) < Limit * Base /\ IsFolded(u, first, len)
    BY <1>1 DEF IsFolded
  <1>3. ASSUME NEW u \in [1..len -> Word], Value(u) < Limit * Base
        PROVE  u \in S
    BY <1>3
  <1>4. x \in S
    BY <1>1
  <1> HIDE DEF S
  <1>5. ASSUME NEW u \in S
        PROVE  Pass(u, first) \in S
    <2> DEFINE y == Pass(u, first)
               hi == HighWords(u, first)
               high == Value(u) \div Limit
               low == Value(u) % Limit
               c == CarryMult
    <2>1. IsFolded(u, first, len) /\ Value(u) < Limit * Base
      BY <1>2
    <2>2. /\ hi \in [1..first -> Word] /\ Value(hi) = high
          /\ high \in Nat /\ low \in 0..Limit-1 /\ Value(u) = high * Limit + low
          /\ y = Exit \/ (y \in [1..len -> Word] /\ Value(y) <= high * c + low)
          /\ hi[1] * c < Base => y \in [1..len -> Word]
      BY <2>1, PassRule
    <2>3. c \in Nat /\ c < Base /\ Limit \in Nat /\ Limit >= 2 * Base /\ Base \in Nat /\ Base > 0
      BY FieldRule, BaseRule
    <2>4. Value(u) \in Int
      BY <2>1, WithinValue
    <2>5. high < Base
      BY <2>1, <2>3, <2>4, HighBelow
    <2> HIDE DEF y, hi, high, low, c
    <2>6. hi \in Seq(Word) /\ Len(hi) = first
      <3> HIDE DEF Word
      <3> QED
        BY <1>1, <2>2
    <2>7. hi[1] = 0
      <3>1. \A i \in 1..first-1 : hi[i] = 0
        BY <1>1, <2>2, <2>5, <2>6, SmallNumber
      <3>2. 1 \in 1..first-1
        BY <1>1
      <3> QED
        BY <3>1, <3>2
    <2>8. y \in [1..len -> Word]
      <3>1. 0 * c = 0
        BY <2>3
      <3> QED
        BY <2>2, <2>3, <2>7, <3>1
    <2>9. Value(y) <= high * c + low
      <3>1. y # Exit
        <4>1. IsFolded(y, first, len)
          BY <1>1, <2>8 DEF IsFolded
        <4> QED
          BY <4>1, FoldedIs
      <3> QED
        BY <2>2, <3>1
    <2>10. c * high <= Limit * high /\ c * high \in Int /\ Limit * high \in Int
      BY <2>2, <2>3, TimesOn
    <2>11. c * high = high * c /\ Limit * high = high * Limit
      BY <2>2, <2>3
    <2>12. Value(y) \in Int
      <3>1. IsFolded(y, first, len)
        BY <1>1, <2>8 DEF IsFolded
      <3> QED
        BY <3>1, WithinValue
    <2>13. Limit * Base \in Int
      BY <2>3
    <2>14. Value(y) < Limit * Base
      BY <2>1, <2>2, <2>4, <2>9, <2>10, <2>11, <2>12, <2>13
    <2> QED
      BY <1>3, <2>8, <2>14 DEF y
  <1>6. z \in S /\ (z = Exit \/ Within(z, first))
    <2>1. S \subseteq [1..len -> Word] \cup {Exit}
      BY <1>2
    <2>2. p \in S
      BY <1>4, <1>5
    <2>3. \A u \in S : u # Exit /\ ~Within(u, first) => Pass(u, first) \in S
      BY <1>5
    <2> HIDE DEF p
    <2> QED
      BY <1>1, <2>1, <2>2, <2>3, FoldedRule
  <1>7. BitModulo(x, Zero(N)) = Low(z, N)
    BY BitModuloIs
  <1> HIDE DEF z
  <1>8. IsFolded(z, first, len)
    BY <1>2, <1>6
  <1>9. Within(z, first)
    BY <1>6, <1>8, FoldedIs
  <1> QED
    BY <1>7, <1>8, <1>9, LowWithin

LEMMA BitModuloExact ==
  ASSUME NEW x, NEW first, NEW len, IsFolded(x, first, len), Value(x) < Limit * Limit,
         NEW j \in Nat, first <= j, CarryFree(Value(x) \div Limit, CarryMult, j)
  PROVE  Stands(BitModulo(x, Zero(N)), Value(x))
  <1> DEFINE y == Pass(x, first)
             hi == HighWords(x, first)
             high == Value(x) \div Limit
             low == Value(x) % Limit
             c == CarryMult
  <1>1. /\ hi \in [1..first -> Word] /\ Value(hi) = high
        /\ high \in Nat /\ low \in 0..Limit-1 /\ Value(x) = high * Limit + low
        /\ hi[1] * c < Base => y \in [1..len -> Word]
        /\ (\A i \in 1..first : hi[i] * c < Base) => Value(y) = high * c + low
    BY PassRule
  <1>2. /\ c \in Nat /\ c < Base /\ c * c < Base /\ Limit \in Nat /\ Limit >= 2 * Base
        /\ Field = Limit - c /\ Field \in Nat \ {0}
    BY FieldRule, FieldIs
  <1>3. first \in Nat \ {0} /\ len \in Nat /\ len = first + (N - 1)
    BY DEF IsFolded
  <1>4. \A k \in 0..j-1 : ((high \div Room[k]) % Base) * c < Base
    BY DEF CarryFree
  <1>5. high < Limit
    <2>1. Value(x) \in Int
      BY WithinValue
    <2> QED
      BY <1>2, <2>1, HighBelow
  <1> HIDE DEF y, hi, high, low, c
  <1>6. hi \in Seq(Word) /\ Len(hi) = first
    <2> HIDE DEF Word
    <2> QED
      BY <1>1, <1>3
  <1>7. ASSUME NEW i \in 1..first
        PROVE  hi[i] * c < Base
    <2>1. hi[i] = (high \div Room[first-i]) % Base
      BY <1>1, <1>6, DigitIs
    <2>2. first - i \in 0..j-1
      BY <1>3
    <2> QED
      BY <1>4, <2>1, <2>2
  <1>8. y \in [1..len -> Word] /\ Value(y) = high * c + low
    <2>1. 1 \in 1..first
      BY <1>3
    <2> QED
      BY <1>1, <1>7, <2>1
  <1>9. high * c + low = Value(x) - high * Field
    <2>1. high * (Limit - c) = high * Limit - high * c /\ high * Limit \in Int /\ high * c \in Int
      BY <1>1, <1>2
    <2> QED
      BY <1>1, <1>2, <2>1
  <1>10. (Value(x) - high * Field) % Field = Value(x) % Field
    <2>1. high \in Int /\ Value(x) \in Int
      <3>1. high * Limit \in Int
        BY <1>1, <1>2
      <3> QED
        BY <1>1, <1>2, <3>1
    <2> QED
      BY <1>2, <2>1, TakenOff
  <1>11. Value(y) < Limit * (c + 1)
    <2>1. high * c <= Limit * c /\ high * c \in Int /\ Limit * c \in Int
      BY <1>1, <1>2, <1>5, TimesOn
    <2>2. Limit * (c + 1) = Limit * c + Limit
      BY <1>2
    <2> QED
      BY <1>1, <1>2, <1>8, <2>1, <2>2
  <1>12. IsFolded(y, first, len)
    BY <1>3, <1>8 DEF IsFolded
  <1>13. Stands(Low(Folded(len, first)[y], N), Value(y))
    <2>1. c * CarryMult < Base
      BY <1>2 DEF c
    <2> QED
      BY <1>2, <1>11, <1>12, <2>1, SmallFold
  <1>14. BitModulo(x, Zero(N)) = Low(Folded(len, first)[y], N)
    BY BitModuloIs DEF y
  <1>15. Value(y) % Field = Value(x) % Field
    BY <1>8, <1>9, <1>10
  <1> QED
    BY <1>13, <1>14, <1>15, StandsFor

LEMMA WholeLow ==
  ASSUME NEW x \in [1..N -> Word]
  PROVE  Low(x, N) = x /\ IsFolded(x, 1, N)
  <1>1. N \in Nat /\ N >= 2 /\ N = 1 + (N - 1)
    BY FieldPlaces
  <1>2. IsFolded(x, 1, N)
    BY <1>1 DEF IsFolded
  <1>3. x \in Seq(Word) /\ Len(x) = N /\ x # Exit
    BY <1>2, FoldedIs
  <1>4. SubSeq(x, N - N + 1, N) = x
    <2> HIDE DEF Word
    <2>1. N - N + 1 = 1
      BY <1>1
    <2>2. SubSeq(x, 1, N) = x
      BY <1>1, <1>3
    <2> QED
      BY <2>1, <2>2
  <1> QED
    BY <1>2, <1>3, <1>4 DEF Low

LEMMA ElementRule ==
  ASSUME NEW x \in Elements
  PROVE  x \in Numbers /\ x \in Numeral /\ x \in [1..N -> Word] /\ Len(x) = N /\ Value(x) \in Nat /\ Value(x) < Limit
  <1>1. x \in Numbers /\ Len(x) = N /\ x[1] < TwoTo[BitDepth] /\ N \in Nat
    BY ElementsAssumption, FieldPlaces
  <1>2. x \in Numeral
    BY <1>1, NumbersAssumption DEF Numeral
  <1>3. x \in [1..N -> Word]
    <2>1. x \in Seq(Word)
      BY <1>2, NumeralLen
    <2> HIDE DEF Word
    <2> QED
      BY <1>1, <2>1
  <1>4. Low(x, N) = x /\ IsFolded(x, 1, N)
    BY <1>3, WholeLow
  <1>5. Within(x, 1)
    BY <1>1 DEF Within
  <1>6. Value(x) < Limit
    BY <1>4, <1>5, LowWithin
  <1>7. Value(x) \in Nat
    BY <1>4, WithinValue
  <1> QED
    BY <1>1, <1>2, <1>3, <1>6, <1>7

LEMMA BitModAddExact ==
  ASSUME NEW x \in Elements, NEW y \in Elements
  PROVE  Stands(BitModAdd(x, y), Value(x) + Value(y))
  <1> DEFINE s == Add(x, y, N + 1)
             v == Value(x) + Value(y)
  <1>1. /\ x \in Numeral /\ Len(x) = N /\ Value(x) \in Nat /\ Value(x) < Limit
        /\ y \in Numeral /\ Len(y) = N /\ Value(y) \in Nat /\ Value(y) < Limit
    BY ElementRule
  <1>2. N \in Nat /\ N >= 2 /\ N + 1 = 2 + (N - 1) /\ N + 1 \in Nat /\ 2 \in Nat \ {0}
    BY FieldPlaces
  <1>3. Room[N+1] \in Nat /\ Room[N+1] >= 2 * Limit /\ Limit \in Nat
    <2>1. Room[N] \in Int /\ Room[N] >= 2 * Limit /\ Limit \in Nat
      BY ElementRoom, FieldRule
    <2>2. Room[N+1] = Room[N] * Base /\ Room[N+1] \in Nat
      BY <1>2, RoomRule
    <2>3. 1 * Room[N] <= Base * Room[N] /\ 1 * Room[N] = Room[N] /\ Base * Room[N] = Room[N] * Base
      <3>1. 1 \in Int /\ Base \in Int /\ 1 <= Base /\ Room[N] \in Nat
        BY <1>2, BaseRule, RoomRule
      <3> QED
        BY <3>1, TimesOn
    <2> QED
      BY <2>1, <2>2, <2>3
  <1>4. v \in 0..Room[N+1]-1 /\ v < Limit * (1 + 1)
    <2>1. v \in Nat /\ v < 2 * Limit
      BY <1>1, <1>3
    <2> HIDE DEF v
    <2> QED
      BY <1>3, <2>1
  <1>5. Holds(s, v, N + 1)
    <2>1. Len(x) <= N + 1 /\ Len(y) <= N + 1
      BY <1>1, <1>2
    <2> QED
      BY <1>1, <1>2, <2>1, AddExact
  <1>6. s \in Seq(Word) /\ Len(s) = N + 1 /\ Value(s) = v
    BY <1>4, <1>5 DEF Holds
  <1>7. BitModAdd(x, y) = BitModulo(s, Zero(N))
    BY DEF BitModAdd
  <1> HIDE DEF s, v
  <1>8. IsFolded(s, 2, N + 1)
    <2>1. s \in [1..N+1 -> Word]
      <3> HIDE DEF Word
      <3> QED
        BY <1>2, <1>6
    <2> QED
      BY <1>2, <2>1 DEF IsFolded
  <1>9. Stands(BitModulo(s, Zero(N)), v)
    <2>1. 1 \in Nat /\ 1 < Base /\ 1 * CarryMult < Base
      BY FieldRule, BaseRule
    <2> QED
      BY <1>4, <1>6, <1>8, <2>1, BitModuloSmall
  <1> QED
    BY <1>7, <1>9 DEF v

LEMMA BitModMultExact ==
  ASSUME NEW x \in Elements, NEW y \in Elements, BitModMult(x, y) # Exit
  PROVE  LET p == BitModMult(x, y)
             product == Value(x) * Value(y)
         IN  /\ p \in [1..N -> Word] /\ Value(p) < Limit
             /\ CarryFree(product \div Limit, CarryMult, 2 * N) => Stands(p, product)
  <1> DEFINE s == Mult(x, y, 2 * N)
             v == Value(x) * Value(y)
             p == BitModMult(x, y)
  <1>1. /\ x \in Numbers /\ x \in Numeral /\ Len(x) = N /\ Value(x) \in Nat /\ Value(x) < Limit
        /\ y \in Numbers /\ y \in Numeral /\ Len(y) = N /\ Value(y) \in Nat /\ Value(y) < Limit
    BY ElementRule
  <1>2. N \in Nat /\ N >= 2 /\ 2 * N = N + N /\ 2 * N = (N + 1) + (N - 1) /\ 2 * N \in Nat /\ N + 1 <= 2 * N
        /\ N + 1 \in Nat \ {0}
    BY FieldPlaces
  <1>3. PICK k \in Nat : MaxLen(x, y) = PowerOfTwo[k]
    BY <1>1, LongestIsPower
  <1>4. s = Exit \/ (s \in Numeral /\ Len(s) = 2 * N /\ Value(s) = v)
    <2>1. W >= 2
      BY LengthsAssumption
    <2>2. Mult(x, y, Len(x) + Len(y)) = s
      BY <1>1, <1>2
    <2>3. LET q == Mult(x, y, Len(x) + Len(y))
          IN  q = Exit \/ (q \in Numeral /\ Len(q) = Len(x) + Len(y) /\ Value(q) = Value(x) * Value(y))
      BY <1>1, <1>3, <2>1, MultExact
    <2> HIDE DEF s
    <2> QED
      BY <1>1, <1>2, <2>2, <2>3
  <1>5. p = BitModulo(s, Zero(N)) /\ p # Exit
    BY DEF BitModMult
  <1> HIDE DEF s, p
  <1>6. s # Exit
    BY <1>5 DEF BitModulo
  <1>7. IsFolded(s, N + 1, 2 * N)
    <2>1. s \in Seq(Word) /\ Len(s) = 2 * N
      BY <1>4, <1>6, NumeralLen
    <2>2. s \in [1..2*N -> Word]
      <3> HIDE DEF Word
      <3> QED
        BY <1>2, <2>1
    <2> QED
      BY <1>2, <2>2 DEF IsFolded
  <1>8. p \in [1..N -> Word] /\ Value(p) < Limit
    BY <1>5, <1>7, BitModuloReduces
  <1>9. v < Limit * Limit
    <2> DEFINE i == Value(x)
               j == Value(y)
    <2>1. i \in 0..Limit-1 /\ j \in 0..Limit-1 /\ Limit \in Nat \ {0}
      BY <1>1, FieldRule, BaseRule
    <2> HIDE DEF i, j
    <2>2. i * j \in 0..Limit*Limit-1
      BY <2>1, ProductBelow
    <2>3. Limit * Limit \in Int
      BY <2>1
    <2>4. i * j < Limit * Limit
      BY <2>2, <2>3
    <2> QED
      BY <2>4 DEF i, j
  <1>10. CarryFree(v \div Limit, CarryMult, 2 * N) => Stands(p, v)
    <2> SUFFICES ASSUME CarryFree(v \div Limit, CarryMult, 2 * N)
                 PROVE  Stands(p, v)
      OBVIOUS
    <2> HIDE DEF v
    <2>1. Value(s) = v
      BY <1>4, <1>6
    <2> QED
      BY <1>2, <1>5, <1>7, <1>9, <2>1, BitModuloExact
  <1> QED
    BY <1>8, <1>10 DEF p

LEMMA BitModMultByLittleExact ==
  ASSUME NEW x \in Elements, NEW m \in Word
  PROVE  LET p == BitModMultByLittle(x, m)
             product == Value(x) * m
         IN  /\ p \in [1..N -> Word] /\ Value(p) < Limit
             /\ CarryFree(Value(x), m, N - 1) /\ CarryFree(product \div Limit, CarryMult, N)
                  => Stands(p, product)
  <1> DEFINE s == MultByLittle(x, m, Zero(N + 1))
             v == Value(x) * m
             p == BitModMultByLittle(x, m)
  <1>1. x \in Numeral /\ Len(x) = N /\ Value(x) \in Nat /\ Value(x) < Limit /\ x # Exit /\ x \in Seq(Word)
    BY ElementRule, NumeralLen
  <1>2. N \in Nat /\ N >= 2 /\ N + 1 = 2 + (N - 1) /\ N + 1 \in Nat /\ 2 \in Nat \ {0} /\ 2 >= 2
    BY FieldPlaces
  <1>3. /\ s \in Seq(Word) /\ Len(s) = N + 1
        /\ Value(s) \in Nat /\ Value(s) <= v
        /\ (\A i \in 2..N : x[i] * m < Base) => Value(s) = v
    BY <1>1, MultByLittleWide
  <1>4. p = BitModulo(s, Zero(N))
    BY <1>1 DEF BitModMultByLittle
  <1> HIDE DEF s, p
  <1>5. IsFolded(s, 2, N + 1)
    <2>1. s \in [1..N+1 -> Word]
      <3> HIDE DEF Word
      <3> QED
        BY <1>2, <1>3
    <2> QED
      BY <1>2, <2>1 DEF IsFolded
  <1>6. /\ m \in Nat /\ m < Base /\ Limit \in Nat /\ Limit >= 2 * Base /\ Base \in Nat /\ Base > 0
        /\ v \in Nat /\ v <= Limit * m
    <2>1. m \in Nat /\ m < Base /\ Limit \in Nat /\ Limit >= 2 * Base /\ Base \in Nat /\ Base > 0
      BY FieldRule, BaseRule DEF Word
    <2> DEFINE i == Value(x)
    <2>2. i \in Nat /\ i <= Limit
      BY <1>1, <2>1
    <2> HIDE DEF i
    <2>3. i * m <= Limit * m /\ i * m \in Nat
      BY <2>1, <2>2, TimesOn
    <2> QED
      BY <2>1, <2>3 DEF i
  <1>7. v < Limit * Base /\ v < Limit * Limit
    <2>1. (m + 1) * Limit <= Base * Limit /\ (m + 1) * Limit \in Int /\ Base * Limit \in Int
      <3>1. m + 1 \in Int /\ Base \in Int /\ m + 1 <= Base
        BY <1>6
      <3> QED
        BY <1>6, <3>1, TimesOn
    <2>2. (m + 1) * Limit = Limit * m + Limit /\ Base * Limit = Limit * Base
      BY <1>6
    <2>3. Base * Limit <= Limit * Limit /\ Limit * Limit \in Int
      <3>1. Limit \in Int /\ Base \in Int /\ Base <= Limit
        BY <1>6
      <3> QED
        BY <1>6, <3>1, TimesOn
    <2>4. Limit * m \in Int /\ Limit > 0
      BY <1>6
    <2> HIDE DEF v
    <2> QED
      BY <1>6, <2>1, <2>2, <2>3, <2>4
  <1> DEFINE free == CarryFree(Value(x), m, N - 1) /\ CarryFree(v \div Limit, CarryMult, N)
  <1>8. ASSUME free
        PROVE  Value(s) = v
    <2>1. \A k \in 0..(N-1)-1 : ((Value(x) \div Room[k]) % Base) * m < Base
      BY <1>8 DEF CarryFree
    <2>2. ASSUME NEW i \in 2..N
          PROVE  x[i] * m < Base
      <3>1. i \in 1..N /\ N - i \in 0..(N-1)-1
        BY <1>2
      <3>2. x[i] = (Value(x) \div Room[N-i]) % Base
        BY <1>1, <3>1, DigitIs
      <3> QED
        BY <2>1, <3>1, <3>2
    <2> QED
      BY <1>3, <2>2
  <1> HIDE DEF v
  <1>9. Value(s) < Limit * Base /\ Value(s) < Limit * Limit
    <2>1. Limit * Base \in Int /\ Limit * Limit \in Int
      BY <1>6
    <2> QED
      BY <1>3, <1>6, <1>7, <2>1
  <1>10. p \in [1..N -> Word] /\ Value(p) < Limit
    BY <1>2, <1>4, <1>5, <1>9, BitModuloRuns
  <1>11. ASSUME free
         PROVE  Stands(p, v)
    <2>1. Value(s) = v /\ CarryFree(v \div Limit, CarryMult, N)
      BY <1>8, <1>11
    <2> QED
      BY <1>2, <1>4, <1>5, <1>9, <2>1, BitModuloExact
  <1> QED
    BY <1>10, <1>11 DEF p, v

-----------------------------------------------------------------------------
(* Differences of field elements *)

Borrows(x, y) ==
  CHOOSE borrow : borrow =
    [i \in 0..N |-> IF i = N THEN 0 ELSE (x[i+1] - y[i+1] + borrow[i+1]) \div Base]
WordDifferences(x, y) == [i \in 1..N |-> x[i] - y[i]]

LEMMA BorrowsRule ==
  ASSUME NEW x \in [1..N -> Word], NEW y \in [1..N -> Word]
  PROVE  /\ WordDifferences(x, y) \in [1..N -> Int]
         /\ \A i \in 0..N : Borrows(x, y)[i] = Carries(WordDifferences(x, y), N)[i]
  <1> DEFINE e == WordDifferences(x, y)
             c == Carries(e, N)
             f == Borrows(x, y)
  <1>1. N \in Nat /\ N >= 2
    BY FieldPlaces
  <1>2. \A i \in 1..N : x[i] \in Int /\ y[i] \in Int
    BY BaseRule DEF Word
  <1>3. e \in [1..N -> Int] /\ \A i \in 1..N : e[i] = x[i] - y[i]
    BY <1>2 DEF WordDifferences
  <1> HIDE DEF e
  <1>4. c \in [0..N -> Int] /\ c[N] = 0 /\ \A i \in 1..N : c[i-1] = (e[i] + c[i]) \div Base
    BY <1>1, <1>3, CarriesRule
  <1> HIDE DEF c
  <1>5. c = [i \in 0..N |-> IF i = N THEN 0 ELSE (x[i+1] - y[i+1] + c[i+1]) \div Base]
    <2>1. ASSUME NEW i \in 0..N
          PROVE  c[i] = IF i = N THEN 0 ELSE (x[i+1] - y[i+1] + c[i+1]) \div Base
      <3>1. CASE i = N
        BY <1>4, <3>1
      <3>2. CASE i # N
        <4>1. i + 1 \in 1..N /\ (i + 1) - 1 = i
          BY <1>1, <3>2
        <4>2. c[i] = (e[i+1] + c[i+1]) \div Base
          BY <1>4, <4>1
        <4> QED
          BY <1>3, <3>2, <4>1, <4>2
      <3> QED
        BY <3>1, <3>2
    <2>2. c = [i \in 0..N |-> c[i]]
      BY <1>4
    <2> QED
      BY <2>1, <2>2
  <1>6. f = [i \in 0..N |-> IF i = N THEN 0 ELSE (x[i+1] - y[i+1] + f[i+1]) \div Base]
    BY <1>5 DEF Borrows
  <1> HIDE DEF f
  <1>7. \A i \in 0..N : f[i] = IF i = N THEN 0 ELSE (x[i+1] - y[i+1] + f[i+1]) \div Base
    BY <1>6
  <1> DEFINE T == {k \in 0..N : f[N-k] = c[N-k]}
  <1>8. 0 \in T
    <2>1. N - 0 = N /\ N \in 0..N
      BY <1>1
    <2>2. f[N] = 0
      BY <1>7, <2>1
    <2> QED
      BY <1>1, <1>4, <2>1, <2>2
  <1>9. ASSUME NEW k \in 0..N-1, k \in T
        PROVE  k + 1 \in T
    <2> DEFINE i == N - (k + 1)
    <2>1. i \in 0..N /\ i # N /\ i + 1 = N - k /\ i + 1 \in 1..N /\ (i + 1) - 1 = i /\ k + 1 \in 0..N
      BY <1>1
    <2> HIDE DEF i
    <2>2. f[i] = (x[i+1] - y[i+1] + f[i+1]) \div Base
      BY <1>7, <2>1
    <2>3. c[i] = (e[i+1] + c[i+1]) \div Base
      BY <1>4, <2>1
    <2>4. f[i+1] = c[i+1]
      BY <1>9, <2>1
    <2>5. f[i] = c[i]
      BY <1>3, <2>1, <2>2, <2>3, <2>4
    <2> QED
      BY <2>1, <2>5 DEF i
  <1>10. \A k \in 0..N : k \in T
    <2> HIDE DEF T
    <2> QED
      BY <1>1, <1>8, <1>9, 0 \in Int, N \in Int, RangeInduction, Zenon
  <1>11. ASSUME NEW i \in 0..N
         PROVE  f[i] = c[i]
    <2>1. N - i \in 0..N /\ N - (N - i) = i
      BY <1>1
    <2>2. f[N-(N-i)] = c[N-(N-i)]
      BY <1>10, <2>1
    <2> QED
      BY <2>1, <2>2
  <1> QED
    BY <1>3, <1>11 DEF e, f, c

LEMMA DifferencesRule ==
  ASSUME NEW x \in [1..N -> Word], NEW y \in [1..N -> Word]
  PROVE  LET d == Differences(x, y)
             r == [i \in 1..N |-> d[i] % Base]
         IN  /\ d \in [1..N -> Int]
             /\ r \in [1..N -> Word] /\ r \in Numeral /\ Len(r) = N
             /\ IF d[1] >= 0 THEN Value(r) = Value(x) - Value(y)
                ELSE Value(r) = Room[N] + (Value(x) - Value(y))
  <1> DEFINE d == Differences(x, y)
             r == [i \in 1..N |-> d[i] % Base]
             e == WordDifferences(x, y)
             c == Carries(e, N)
             q == Rippled(e, N)
  <1>1. N \in Nat /\ N >= 2 /\ N \in Nat \ {0}
    BY FieldPlaces
  <1>2. e \in [1..N -> Int] /\ \A i \in 0..N : Borrows(x, y)[i] = c[i]
    BY BorrowsRule
  <1>3. \A i \in 1..N : e[i] = x[i] - y[i]
    BY DEF WordDifferences
  <1>4. d = [i \in 1..N |-> x[i] - y[i] + Borrows(x, y)[i]]
    BY DEF Differences, Borrows
  <1> HIDE DEF e, d
  <1>5. c \in [0..N -> Int] /\ c[N] = 0 /\ \A i \in 1..N : c[i-1] = (e[i] + c[i]) \div Base
    BY <1>1, <1>2, CarriesRule
  <1>6. q = [i \in 1..N |-> (e[i] + c[i]) % Base]
    BY DEF Rippled
  <1>7. q \in [1..N -> Word] /\ \A i \in 1..N : e[i] + c[i] = c[i-1] * Base + q[i]
    BY <1>1, <1>2, RippledRule
  <1>8. Sums(e, N)[N] = c[0] * Room[N] + Sums(q, N)[N]
    BY <1>1, <1>2, RippledSums
  <1> HIDE DEF c, q, r
  <1>9. \A i \in 1..N : i \in 0..N /\ d[i] = e[i] + c[i]
    <2>1. \A i \in 1..N : i \in 0..N
      BY <1>1
    <2>2. \A i \in 1..N : d[i] = x[i] - y[i] + c[i]
      BY <1>2, <1>4, <2>1
    <2> QED
      BY <1>3, <2>1, <2>2
  <1>10. d \in [1..N -> Int]
    <2>1. \A i \in 1..N : d[i] \in Int
      BY <1>2, <1>5, <1>9
    <2>2. d = [i \in 1..N |-> d[i]]
      BY <1>4
    <2> QED
      BY <2>1, <2>2
  <1>11. r = q
    <2>1. r = [i \in 1..N |-> d[i] % Base]
      BY DEF r
    <2> QED
      BY <1>6, <1>9, <2>1
  <1>12. r \in [1..N -> Word]
    BY <1>7, <1>11
  <1>13. IsFolded(r, 1, N) /\ IsFolded(x, 1, N) /\ IsFolded(y, 1, N)
    BY <1>12, WholeLow
  <1>14. /\ r \in Seq(Word) /\ Len(r) = N /\ r \in Numeral
         /\ x \in Seq(Word) /\ Len(x) = N /\ y \in Seq(Word) /\ Len(y) = N
    BY <1>13, FoldedIs
  <1>15. /\ Value(r) = Sums(r, N)[N]
         /\ Value(x) = Sums(x, N)[N] /\ x \in [1..N -> Int]
         /\ Value(y) = Sums(y, N)[N] /\ y \in [1..N -> Int]
    BY <1>14, ValueIsSum
  <1>16. Sums(e, N)[N] = Value(x) - Value(y)
    <2>1. Sums(e, N)[N] = Sums(x, N)[N] - Sums(y, N)[N]
      BY <1>1, <1>2, <1>3, <1>15, SumsMinus
    <2> QED
      BY <1>15, <2>1
  <1> DEFINE room == Room[N]
             u == Value(x)
             v == Value(y)
             w == Value(r)
             top == c[0]
  <1>17. u - v = top * room + w
    BY <1>8, <1>11, <1>15, <1>16
  <1>18. room \in Nat \ {0} /\ u \in 0..room-1 /\ v \in 0..room-1 /\ w \in 0..room-1
    <2>1. Len(x) <= N /\ Len(y) <= N /\ Len(r) <= N
      BY <1>1, <1>14
    <2> QED
      BY <1>1, <1>14, <2>1, ValueFits, RoomIsNat
  <1>19. top \in Int /\ d[1] \in Int /\ q[1] \in 0..Base-1 /\ d[1] = top * Base + q[1]
    <2>1. 0 \in 0..N /\ 1 \in 1..N /\ 1 - 1 = 0
      BY <1>1
    <2>2. q[1] \in Word
      BY <1>7, <2>1
    <2>3. e[1] + c[1] = c[0] * Base + q[1]
      BY <1>7, <2>1
    <2> QED
      BY <1>5, <1>9, <1>10, <2>1, <2>2, <2>3 DEF Word
  <1> HIDE DEF room, u, v, w, top
  <1>20. top <= 0
    <2> SUFFICES ASSUME 1 <= top
                 PROVE  FALSE
      BY <1>19
    <2>1. 1 * room <= top * room /\ top * room \in Int
      BY <1>18, <1>19, TimesOn
    <2> QED
      BY <1>17, <1>18, <2>1
  <1>21. top >= -1
    <2> SUFFICES ASSUME top <= -2
                 PROVE  FALSE
      BY <1>19
    <2>1. top * room <= (-2) * room /\ top * room \in Int
      BY <1>18, <1>19, TimesOn
    <2> QED
      BY <1>17, <1>18, <2>1
  <1>22. top = 0 \/ top = -1
    BY <1>19, <1>20, <1>21
  <1>23. CASE top = 0
    <2>1. 0 * Base = 0 /\ 0 * room = 0 /\ Base \in Nat
      BY <1>18, BaseRule
    <2>2. d[1] >= 0 /\ w = u - v
      BY <1>17, <1>18, <1>19, <1>23, <2>1
    <2> QED
      BY <1>10, <1>12, <1>14, <2>2 DEF d, r, u, v, w
  <1>24. CASE top = -1
    <2>1. (-1) * Base = -Base /\ (-1) * room = -room /\ Base \in Nat
      BY <1>18, BaseRule
    <2>2. ~(d[1] >= 0) /\ w = room + (u - v)
      BY <1>17, <1>18, <1>19, <1>24, <2>1
    <2> QED
      BY <1>10, <1>12, <1>14, <2>2 DEF d, r, u, v, w, room
  <1> QED
    BY <1>22, <1>23, <1>24

LEMMA FullSums ==
  ASSUME NEW len \in Nat, NEW d \in [1..len -> Int], NEW last \in 1..len,
         \A i \in 1..len : d[i] = IF i < last THEN Base - 1 ELSE IF i = last THEN Base ELSE 0
  PROVE  Sums(d, len)[len] = Room[len]
  <1> DEFINE s == Sums(d, len)
             T == {i \in 0..len : s[i] = IF i < last THEN Room[i] - 1 ELSE Room[i]}
  <1>1. s \in [0..len -> Int] /\ s[0] = 0 /\ \A i \in 1..len : s[i] = s[i-1] * Base + d[i]
    BY SumsRule
  <1> HIDE DEF s
  <1>2. 0 \in T
    <2>1. Room[0] - 1 = 0 /\ 0 < last /\ 0 \in 0..len
      BY RoomRule
    <2> QED
      BY <1>1, <2>1
  <1>3. ASSUME NEW i \in 0..len-1, i \in T
        PROVE  i + 1 \in T
    <2> DEFINE r == Room[i]
    <2>1. i + 1 \in 1..len /\ (i + 1) - 1 = i /\ i + 1 \in 0..len /\ i \in Nat
      OBVIOUS
    <2>2. s[i+1] = s[i] * Base + d[i+1]
      BY <1>1, <2>1
    <2>3. r \in Nat /\ Room[i+1] = r * Base /\ Base \in Nat
      BY <2>1, RoomIsNat, RoomStep, BaseRule
    <2>4. s[i] = IF i < last THEN r - 1 ELSE r
      BY <1>3
    <2> HIDE DEF r
    <2>5. (r - 1) * Base = r * Base - Base /\ r * Base \in Int
      BY <2>3
    <2>6. CASE i + 1 < last
      <3>1. d[i+1] = Base - 1 /\ s[i] = r - 1
        BY <2>1, <2>4, <2>6
      <3>2. s[i+1] = Room[i+1] - 1
        BY <2>2, <2>3, <2>5, <3>1
      <3> QED
        BY <2>1, <2>6, <3>2
    <2>7. CASE i + 1 = last
      <3>1. d[i+1] = Base /\ s[i] = r - 1
        BY <2>1, <2>4, <2>7
      <3>2. s[i+1] = Room[i+1]
        BY <2>2, <2>3, <2>5, <3>1
      <3> QED
        BY <2>1, <2>7, <3>2
    <2>8. CASE i + 1 > last
      <3>1. d[i+1] = 0 /\ s[i] = r
        BY <2>1, <2>4, <2>8
      <3>2. s[i+1] = Room[i+1]
        BY <2>2, <2>3, <2>5, <3>1
      <3> QED
        BY <2>1, <2>8, <3>2
    <2> QED
      BY <2>6, <2>7, <2>8
  <1>4. \A i \in 0..len : i \in T
    <2> HIDE DEF T
    <2> QED
      BY <1>2, <1>3, 0 \in Int, len \in Int, RangeInduction, Zenon
  <1>5. len \in T /\ ~(len < last)
    BY <1>4
  <1>6. s[len] = Room[len]
    BY <1>5
  <1> QED
    BY <1>6 DEF s

LEMMA ZeroWord == (0 \in Word) /\ (0 % Base) = 0 /\ (Base % Base) = 0
  <1>1. Base \in Nat \ {0} /\ 0 \in 0..Base-1 /\ 0 * Base + 0 = 0 /\ 1 * Base + 0 = Base
    BY BaseRule
  <1>2. (0 * Base + 0) % Base = 0 /\ (1 * Base + 0) % Base = 0
    BY <1>1, DivisionUnique
  <1> QED
    BY <1>1, <1>2 DEF Word

LEMMA WordIsItself ==
  ASSUME NEW w \in 0..Base-1
  PROVE  (w % Base) = w
  <1>1. Base \in Nat \ {0} /\ 0 * Base + w = w
    BY BaseRule
  <1>2. (0 * Base + w) % Base = w
    BY <1>1, DivisionUnique
  <1> QED
    BY <1>1, <1>2

LEMMA Complement ==
  ASSUME NEW x \in [1..N -> Word], NEW r \in [1..N -> Word], NEW last \in 1..N,
         \A i \in 1..N : x[i] + r[i] = IF i < last THEN Base - 1 ELSE IF i = last THEN Base ELSE 0
  PROVE  Value(x) = Room[N] - Value(r)
  <1>1. N \in Nat
    BY FieldPlaces
  <1>2. /\ Value(x) = Sums(x, N)[N] /\ x \in [1..N -> Int]
        /\ Value(r) = Sums(r, N)[N] /\ r \in [1..N -> Int]
    <2>1. x \in Seq(Word) /\ Len(x) = N /\ r \in Seq(Word) /\ Len(r) = N
      <3>1. IsFolded(x, 1, N) /\ IsFolded(r, 1, N)
        BY WholeLow
      <3> QED
        BY <3>1, FoldedIs
    <2> QED
      BY <2>1, ValueIsSum
  <1> DEFINE f == [i \in 1..N |-> x[i] + r[i]]
  <1>3. f \in [1..N -> Int] /\ \A i \in 1..N : f[i] = x[i] + r[i]
    BY <1>2
  <1> HIDE DEF f
  <1>4. Sums(f, N)[N] = Sums(x, N)[N] + Sums(r, N)[N]
    BY <1>1, <1>2, <1>3, SumsPlus
  <1>5. Sums(f, N)[N] = Room[N]
    <2>1. \A i \in 1..N : f[i] = IF i < last THEN Base - 1 ELSE IF i = last THEN Base ELSE 0
      BY <1>3
    <2> QED
      BY <1>1, <1>3, <2>1, FullSums
  <1>6. N \in 0..N
    BY <1>1
  <1>7. Sums(x, N)[N] \in Int /\ Sums(r, N)[N] \in Int
    BY <1>1, <1>2, <1>6, SumsRule
  <1> QED
    BY <1>2, <1>4, <1>5, <1>7

LEMMA NegatedExact ==
  ASSUME NEW d \in [1..N -> Int], NEW dest, NEW r \in [1..N -> Word], \A i \in 1..N : r[i] = d[i] % Base,
         \E i \in 2..N : r[i] # 0
  PROVE  Negated(d, dest) \in [1..N -> Word] /\ Value(Negated(d, dest)) = Room[N] - Value(r)
  <1> DEFINE IsLast(k) == d[k] % Base # 0 /\ \A i \in k+1..N : d[i] % Base = 0
             last == CHOOSE k \in 2..N : IsLast(k)
             x == Negated(d, dest)
  <1>1. N \in Nat /\ N >= 2 /\ N - 1 \in Nat
    BY FieldPlaces
  <1>2. ~(\A i \in 2..N : d[i] % Base = 0)
    <2>1. PICK i \in 2..N : r[i] # 0
      OBVIOUS
    <2>2. i \in 1..N
      OBVIOUS
    <2> QED
      BY <2>1, <2>2
  <1>3. \E k \in 2..N : IsLast(k)
    <2> DEFINE D == {j \in 1..N-1 : r[N+1-j] # 0}
    <2>1. \E j \in 1..N-1 : j \in D
      <3>1. PICK i \in 2..N : r[i] # 0
        OBVIOUS
      <3>2. N + 1 - i \in 1..N-1 /\ N + 1 - (N + 1 - i) = i
        BY <1>1
      <3>3. N + 1 - i \in D
        BY <3>1, <3>2
      <3> QED
        BY <3>2, <3>3
    <2>2. PICK j \in 1..N-1 : j \in D /\ \A i \in 1..j-1 : i \notin D
      <3> HIDE DEF D
      <3> QED
        BY <1>1, <2>1, FirstExists
    <2> DEFINE k == N + 1 - j
    <2>3. k \in 2..N /\ k \in 1..N /\ r[k] # 0
      BY <1>1, <2>2
    <2>4. ASSUME NEW i \in k+1..N
          PROVE  d[i] % Base = 0
      <3>1. N + 1 - i \in 1..j-1 /\ N + 1 - i \in 1..N-1 /\ N + 1 - (N + 1 - i) = i /\ i \in 1..N
        BY <1>1
      <3>2. r[N+1-(N+1-i)] = 0
        BY <2>2, <3>1
      <3> QED
        BY <3>1, <3>2
    <2>5. IsLast(k)
      BY <2>3, <2>4
    <2> HIDE DEF IsLast
    <2> QED
      BY <2>3, <2>5
  <1>4. last \in 2..N /\ IsLast(last)
    <2> HIDE DEF IsLast
    <2> QED
      BY <1>3
  <1>5. x = [i \in 1..N |->
               IF i < last THEN Base - 1 - (d[i] % Base) ELSE (Base - (d[i] % Base)) % Base]
    BY <1>2 DEF Negated
  <1> HIDE DEF last, x
  <1>6. last \in 1..N /\ r[last] # 0 /\ \A i \in 1..N : i > last => r[i] = 0
    BY <1>1, <1>4
  <1>7. ASSUME NEW i \in 1..N
        PROVE  r[i] \in 0..Base-1 /\ r[i] \in Int
    BY BaseRule DEF Word
  <1>8. ASSUME NEW i \in 1..N
        PROVE  /\ x[i] \in Word
               /\ x[i] + r[i] = IF i < last THEN Base - 1 ELSE IF i = last THEN Base ELSE 0
    <2>1. x[i] = IF i < last THEN Base - 1 - r[i] ELSE (Base - r[i]) % Base
      BY <1>5
    <2>2. r[i] \in 0..Base-1 /\ Base \in Nat
      BY <1>7, BaseRule
    <2>3. CASE i < last
      BY <2>1, <2>2, <2>3 DEF Word
    <2>4. CASE i = last
      <3>1. Base - r[i] \in 0..Base-1
        BY <1>6, <2>2, <2>4
      <3>2. x[i] = Base - r[i]
        BY <1>6, <2>1, <2>4, <3>1, WordIsItself
      <3> QED
        BY <1>6, <2>2, <2>4, <3>1, <3>2 DEF Word
    <2>5. CASE i > last
      <3>1. r[i] = 0
        BY <1>6, <2>5
      <3>2. Base - r[i] = Base /\ ~(i < last) /\ i # last
        BY <1>6, <2>2, <2>5, <3>1
      <3>3. x[i] = 0
        BY <2>1, <3>2, ZeroWord
      <3> QED
        BY <3>1, <3>2, <3>3, ZeroWord
    <2> QED
      BY <1>6, <2>3, <2>4, <2>5
  <1>9. x \in [1..N -> Word]
    <2>1. x = [i \in 1..N |-> x[i]]
      BY <1>5
    <2>2. \A i \in 1..N : x[i] \in Word
      BY <1>8
    <2> HIDE DEF Word
    <2> QED
      BY <2>1, <2>2
  <1>10. Value(x) = Room[N] - Value(r)
    BY <1>6, <1>8, <1>9, Complement
  <1> QED
    BY <1>9, <1>10 DEF x

LEMMA NegatedFirstOdd ==
  ASSUME NEW temp \in Int, (temp % 2) # 0, W >= 2
  PROVE  /\ (temp % Base) \in 1..Base-1
         /\ NegatedFirst(temp, 0) = Base - (temp % Base)
  <1> DEFINE Chosen(k) == temp % TwoTo[k] # 0 /\ temp % TwoTo[k-1] = 0
             s == CHOOSE k \in 1..W : Chosen(k)
             w == temp % Base
             half == TwoTo[W-1]
  <1>1. W \in Nat /\ 1 \in 1..W /\ 0 \in 0..W /\ 1 \in 0..W
    BY WordAssumption
  <1>2. TwoTo[0] = 1 /\ TwoTo[1] = 2
    <2>1. TwoTo[1] = 2 * TwoTo[1-1] /\ TwoTo[0] = 1
      BY <1>1, TwoToRule
    <2> QED
      BY <2>1
  <1>3. Chosen(1)
    <2>1. temp % 1 = 0 /\ 1 - 1 = 0
      OBVIOUS
    <2> QED
      BY <1>2, <2>1
  <1>4. ASSUME NEW k \in 1..W, Chosen(k)
        PROVE  k = 1
    <2> SUFFICES ASSUME k >= 2
                 PROVE  FALSE
      BY <1>1
    <2>1. k - 1 \in 1..W /\ k - 2 \in 0..W /\ (k - 1) - 1 = k - 2 /\ k - 1 \in 0..W
      BY <1>1
    <2>2. TwoTo[k-1] = 2 * TwoTo[k-2] /\ TwoTo[k-1] \in Nat \ {0} /\ TwoTo[k-2] \in Nat \ {0}
      <3>1. TwoTo[k-1] = 2 * TwoTo[(k-1)-1]
        BY <2>1, TwoToRule
      <3>2. TwoTo[k-1] \in Nat \ {0} /\ TwoTo[k-2] \in Nat \ {0}
        BY <2>1, TwoToRule
      <3> QED
        BY <2>1, <3>1, <3>2
    <2> DEFINE p == TwoTo[k-2]
               big == TwoTo[k-1]
               q == temp \div big
    <2>3. big \in Nat \ {0} /\ p \in Nat /\ big = 2 * p /\ temp % big = 0
      BY <1>4, <2>2
    <2> HIDE DEF p, big
    <2>4. temp = q * big + (temp % big) /\ q \in Int
      BY <2>3, Division
    <2> HIDE DEF q
    <2>5. q * (2 * p) = (q * p) * 2 /\ q * p \in Int
      BY <2>3, <2>4
    <2> DEFINE m == q * p
    <2>6. temp = m * 2 + 0 /\ m \in Int
      <3>1. temp = q * (2 * p)
        <4>1. q * big \in Int
          BY <2>3, <2>4
        <4> QED
          BY <2>3, <2>4, <4>1
      <3> QED
        BY <2>5, <3>1
    <2> HIDE DEF m
    <2>7. (m * 2 + 0) % 2 = 0
      BY <2>6, DivisionUnique
    <2> QED
      BY <2>6, <2>7
  <1>5. s = 1
    <2>1. s \in 1..W /\ Chosen(s)
      <3> HIDE DEF Chosen
      <3> QED
        BY <1>1, <1>3
    <2> HIDE DEF s, Chosen
    <2> QED
      BY <1>4, <2>1
  <1>6. NegatedFirst(temp, 0) =
          IF s = W THEN 0
          ELSE (Base - 1 - (w \div TwoTo[s]) * TwoTo[s] + (0 % TwoTo[s])) % Base
    BY DEF NegatedFirst
  <1> HIDE DEF s
  <1>7. NegatedFirst(temp, 0) = (Base - 1 - (w \div 2) * 2 + (0 % 2)) % Base
    BY <1>2, <1>5, <1>6
  <1>8. half \in Nat /\ Base = 2 * half /\ Base \in Nat \ {0}
    BY BaseIsEven, BaseRule
  <1> DEFINE q == temp \div Base
  <1>9. w \in 0..Base-1 /\ q \in Int /\ temp = q * Base + w
    BY <1>8, Division
  <1> HIDE DEF w, q, half
  <1>10. (w % 2) # 0
    <2> SUFFICES ASSUME (w % 2) = 0
                 PROVE  FALSE
      OBVIOUS
    <2> DEFINE h == w \div 2
               m == q * half + h
    <2>1. h \in Int /\ w = h * 2 + (w % 2)
      BY <1>9, Division
    <2> HIDE DEF h
    <2>2. q * (2 * half) = (q * half) * 2 /\ q * half \in Int
      BY <1>8, <1>9
    <2>3. temp = m * 2 + 0 /\ m \in Int
      BY <1>8, <1>9, <2>1, <2>2
    <2> HIDE DEF m
    <2>4. (m * 2 + 0) % 2 = 0
      BY <2>3, DivisionUnique
    <2> QED
      BY <2>3, <2>4
  <1>11. (w \div 2) * 2 = w - 1 /\ (0 % 2) = 0 /\ w >= 1
    <2>1. (w \div 2) \in Int /\ (w % 2) \in 0..1 /\ w = (w \div 2) * 2 + (w % 2)
      BY <1>9, Division
    <2> QED
      BY <1>9, <1>10, <2>1
  <1>12. Base - 1 - (w - 1) + 0 = Base - w /\ Base - w \in 0..Base-1
    BY <1>8, <1>9, <1>11
  <1>13. NegatedFirst(temp, 0) = Base - w
    BY <1>7, <1>11, <1>12, WordIsItself
  <1> QED
    BY <1>9, <1>11, <1>13 DEF w

LEMMA NegatedTop ==
  ASSUME NEW d \in [1..N -> Int], NEW r \in [1..N -> Word], \A i \in 1..N : r[i] = d[i] % Base,
         \A i \in 2..N : r[i] = 0, (d[1] % 2) # 0, W >= 2
  PROVE  Negated(d, Zero(N)) \in [1..N -> Word] /\ Value(Negated(d, Zero(N))) = Room[N] - Value(r)
  <1> DEFINE x == Negated(d, Zero(N))
  <1>1. N \in Nat /\ N >= 2 /\ 1 \in 1..N
    BY FieldPlaces
  <1>2. Zero(N)[1] = 0
    BY <1>1 DEF Zero
  <1>3. \A i \in 2..N : d[i] % Base = 0
    <2>1. \A i \in 2..N : i \in 1..N
      BY <1>1
    <2> QED
      BY <2>1
  <1>4. x = [i \in 1..N |-> IF i = 1 THEN NegatedFirst(d[1], Zero(N)[1]) ELSE 0]
    BY <1>3 DEF Negated
  <1> HIDE DEF x
  <1>5. d[1] \in Int /\ (d[1] % Base) \in 1..Base-1 /\ NegatedFirst(d[1], 0) = Base - (d[1] % Base)
    BY <1>1, NegatedFirstOdd
  <1>6. x[1] = Base - r[1] /\ r[1] \in 1..Base-1
    BY <1>1, <1>2, <1>4, <1>5
  <1>7. ASSUME NEW i \in 1..N
        PROVE  /\ x[i] \in Word
               /\ x[i] + r[i] = IF i < 1 THEN Base - 1 ELSE IF i = 1 THEN Base ELSE 0
    <2>1. CASE i = 1
      BY <1>6, <2>1, BaseRule DEF Word
    <2>2. CASE i # 1
      <3>1. i \in 2..N
        BY <1>1, <2>2
      <3>2. x[i] = 0 /\ r[i] = 0
        BY <1>4, <2>2, <3>1
      <3> QED
        BY <2>2, <3>2, ZeroWord
    <2> QED
      BY <2>1, <2>2
  <1>8. x \in [1..N -> Word]
    <2>1. x = [i \in 1..N |-> x[i]]
      BY <1>4
    <2>2. \A i \in 1..N : x[i] \in Word
      BY <1>7
    <2> HIDE DEF Word
    <2> QED
      BY <2>1, <2>2
  <1>9. Value(x) = Room[N] - Value(r)
    BY <1>1, <1>7, <1>8, Complement
  <1> QED
    BY <1>8, <1>9 DEF x

LEMMA TakenOnce ==
  ASSUME NEW v \in Int, NEW f \in Nat \ {0}
  PROVE  (v - f) % f = v % f
  <1>1. 1 \in Int /\ 1 * f = f
    OBVIOUS
  <1>2. (v - 1 * f) % f = v % f
    BY <1>1, TakenOff
  <1> QED
    BY <1>1, <1>2

(* Where only the first word of the difference is not zero, its last bit   *)
(* is 1 unless the difference slips.                                       *)
LEMMA OddFirst ==
  ASSUME NEW r \in [1..N -> Word], \A i \in 2..N : r[i] = 0,
         NEW temp \in Int, r[1] = temp % Base,
         NEW u \in Nat, NEW v \in Nat, v - u = Room[N] - Value(r), ~Slips(u, v)
  PROVE  (temp % 2) # 0
  <1> DEFINE room == Room[N-1]
             w == r[1]
             g == Base - w
             half == TwoTo[W-1]
             q == temp \div Base
  <1>1. N \in Nat /\ N >= 2 /\ 1 \in 1..N /\ N - 1 \in Nat /\ (N - 1) + 1 = N
    BY FieldPlaces
  <1>2. IsFolded(r, 1, N)
    BY WholeLow
  <1>3. r \in Numeral /\ Len(r) = N
    BY <1>2, FoldedIs
  <1>4. Tail(r) \in Seq(Word) /\ Len(Tail(r)) = N - 1 /\ \A i \in 1..N-1 : Tail(r)[i] = r[i+1]
    BY <1>3, TailWords
  <1>5. Value(r) = r[1] * Room[N-1] + Value(Tail(r))
    BY <1>3, HeadValue
  <1>6. Value(Tail(r)) = 0
    <2>1. Value(Tail(r)) = Sums(Tail(r), N - 1)[N-1] /\ Tail(r) \in [1..N-1 -> Int]
      BY <1>4, ValueIsSum
    <2>2. \A i \in 1..N-1 : i + 1 \in 2..N
      BY <1>1
    <2>3. \A i \in 1..N-1 : Tail(r)[i] = 0
      BY <1>4, <2>2
    <2>4. N - 1 \in 0..N-1
      BY <1>1
    <2>5. Sums(Tail(r), N - 1)[N-1] = 0
      BY <1>1, <2>1, <2>3, <2>4, ZeroSums
    <2> QED
      BY <2>1, <2>5
  <1>7. room \in Nat \ {0} /\ Room[N] = room * Base
    <2>1. Room[(N-1)+1] = Room[N-1] * Base
      BY <1>1, RoomStep
    <2> QED
      BY <1>1, <2>1, RoomIsNat
  <1>8. half \in Nat /\ Base = 2 * half /\ Base \in Nat \ {0}
    BY BaseIsEven, BaseRule
  <1>9. w \in 0..Base-1 /\ q \in Int /\ temp = q * Base + w
    <2>1. temp % Base \in 0..Base-1 /\ temp \div Base \in Int /\ temp = (temp \div Base) * Base + (temp % Base)
      BY <1>8, Division
    <2> QED
      BY <2>1
  <1>10. v - u = room * Base - w * room
    <2>1. w * room + 0 = w * room
      BY <1>7, <1>9
    <2> QED
      BY <1>5, <1>6, <1>7, <2>1
  <1>11. Slips(u, v) <=> u < v /\ (v - u) % room = 0 /\ ((v - u) \div room) % 2 = 0
    BY DEF Slips
  <1> HIDE DEF room, w, q, half
  <1>12. v - u = g * room + 0 /\ g \in Int /\ g >= 1
    <2>1. (Base - w) * room = Base * room - w * room
      BY <1>7, <1>8, <1>9
    <2>2. Base * room = room * Base /\ room * Base \in Int /\ w * room \in Int
      BY <1>7, <1>8, <1>9
    <2> QED
      BY <1>8, <1>9, <1>10, <2>1, <2>2
  <1> HIDE DEF g
  <1>13. (g * room + 0) \div room = g /\ (g * room + 0) % room = 0
    <2>1. 0 \in 0..room-1
      BY <1>7
    <2> QED
      BY <1>7, <1>12, <2>1, DivisionUnique
  <1>14. u < v
    <2>1. 1 * room <= g * room /\ g * room \in Int
      BY <1>7, <1>12, TimesOn
    <2> QED
      BY <1>7, <1>12, <2>1
  <1>15. (g % 2) # 0
    BY <1>11, <1>12, <1>13, <1>14
  <1> SUFFICES ASSUME (temp % 2) = 0
               PROVE  FALSE
    OBVIOUS
  <1> DEFINE h == temp \div 2
             m == half + q * half - h
  <1>16. h \in Int /\ temp = h * 2 + (temp % 2)
    BY Division
  <1> HIDE DEF h
  <1>17. q * (2 * half) = (q * half) * 2 /\ q * half \in Int
    BY <1>8, <1>9
  <1>18. g = m * 2 + 0 /\ m \in Int
    <2>1. g = Base - w
      BY DEF g
    <2> QED
      BY <1>8, <1>9, <1>16, <1>17, <2>1
  <1> HIDE DEF m
  <1>19. (m * 2 + 0) % 2 = 0
    BY <1>18, DivisionUnique
  <1> QED
    BY <1>15, <1>18, <1>19

LEMMA ModSubExact ==
  ASSUME W >= 2, NEW x \in Elements, NEW y \in Elements, ~Slips(Value(x), Value(y))
  PROVE  IF Value(y) - Value(x) > Field THEN ModSub(x, y, Prime, Zero(N)) = Exit
         ELSE Stands(ModSub(x, y, Prime, Zero(N)), Field + Value(x) - Value(y))
  <1> DEFINE d == Differences(x, y)
             r == [i \in 1..N |-> d[i] % Base]
             u == Value(x)
             v == Value(y)
             x0 == ModSub(x, y, Prime, Zero(N))
             neg == Negated(d, Zero(N))
  <1>1. /\ x \in [1..N -> Word] /\ x \in Numeral /\ u \in Nat /\ u < Limit
        /\ y \in [1..N -> Word] /\ y \in Numeral /\ v \in Nat /\ v < Limit
    BY ElementRule
  <1>2. N \in Nat /\ N >= 2 /\ 1 \in 1..N
    BY FieldPlaces
  <1>3. /\ Field = Limit - CarryMult /\ Field \in Nat \ {0} /\ Field <= Limit
        /\ Prime \in Numeral /\ Len(Prime) = N /\ Limit \in Nat
    BY FieldIs, FieldRule
  <1>4. /\ d \in [1..N -> Int]
        /\ r \in [1..N -> Word] /\ r \in Numeral /\ Len(r) = N
        /\ IF d[1] >= 0 THEN Value(r) = u - v ELSE Value(r) = Room[N] + (u - v)
    BY <1>1, DifferencesRule
  <1>5. x0 = IF d[1] >= 0 THEN r ELSE Sub(Prime, neg, N)
    <2>1. Exit \notin {x, y}
      BY <1>1, NumeralLen
    <2> QED
      BY <2>1 DEF ModSub
  <1>6. \A i \in 1..N : r[i] = d[i] % Base
    OBVIOUS
  <1>7. ~Slips(u, v)
    OBVIOUS
  <1> HIDE DEF d, r, u, v, x0, neg
  <1>8. CASE d[1] >= 0
    <2>1. x0 = r /\ Value(r) = u - v
      BY <1>4, <1>5, <1>8
    <2>2. Value(r) \in Nat
      <3>1. IsFolded(r, 1, N)
        BY <1>4, WholeLow
      <3> QED
        BY <3>1, WithinValue
    <2>3. ~(v - u > Field) /\ u - v < Limit
      BY <1>1, <1>3, <2>1, <2>2
    <2>4. (u - v) % Field = (Field + u - v) % Field
      <3> DEFINE t == Field + u - v
      <3>1. t \in Int /\ t - Field = u - v
        BY <1>1, <1>3
      <3> HIDE DEF t
      <3>2. (t - Field) % Field = t % Field
        BY <1>3, <3>1, TakenOnce
      <3> QED
        BY <3>1, <3>2 DEF t
    <2>5. Stands(r, Field + u - v)
      BY <1>4, <2>1, <2>3, <2>4 DEF Stands, Limit
    <2> QED
      BY <2>1, <2>3, <2>5 DEF x0, u, v
  <1>9. CASE ~(d[1] >= 0)
    <2>1. x0 = Sub(Prime, neg, N) /\ Value(r) = Room[N] + (u - v)
      BY <1>4, <1>5, <1>9
    <2>2. neg \in [1..N -> Word] /\ Value(neg) = Room[N] - Value(r)
      <3>1. CASE \E i \in 2..N : r[i] # 0
        BY <1>4, <1>6, <3>1, NegatedExact DEF neg
      <3>2. CASE ~\E i \in 2..N : r[i] # 0
        <4>1. \A i \in 2..N : r[i] = 0
          BY <3>2
        <4>2. d[1] \in Int /\ r[1] = d[1] % Base
          BY <1>2, <1>4, <1>6
        <4>3. v - u = Room[N] - Value(r)
          <5>1. Room[N] \in Int
            BY ElementRoom
          <5> QED
            BY <1>1, <2>1, <5>1
        <4>4. (d[1] % 2) # 0
          BY <1>1, <1>4, <1>7, <4>1, <4>2, <4>3, OddFirst
        <4> QED
          BY <1>4, <1>6, <4>1, <4>4, NegatedTop DEF neg
      <3> QED
        BY <3>1, <3>2
    <2>3. neg \in Numeral /\ Len(neg) = N
      <3>1. IsFolded(neg, 1, N)
        BY <2>2, WholeLow
      <3> QED
        BY <3>1, FoldedIs
    <2>4. Value(neg) = v - u
      <3>1. Room[N] \in Int
        BY ElementRoom
      <3> QED
        BY <1>1, <2>1, <2>2, <3>1
    <2>5. Holds(x0, Field - (v - u), N)
      <3>1. Holds(Sub(Prime, neg, N), Value(Prime) - Value(neg), N)
        <4>1. Len(Prime) <= N
          BY <1>2, <1>3
        <4> QED
          BY <1>2, <1>3, <2>3, <4>1, SubExact
      <3> QED
        BY <2>1, <2>4, <3>1 DEF Field
    <2>6. Value(neg) \in Nat
      <3>1. IsFolded(neg, 1, N)
        BY <2>2, WholeLow
      <3> QED
        BY <3>1, WithinValue
    <2>7. Room[N] \in Nat /\ Room[N] >= 2 * Limit
      BY ElementRoom
    <2>8. CASE v - u > Field
      <3>1. Field - (v - u) \notin 0..Room[N]-1
        BY <1>1, <1>3, <2>8
      <3>2. x0 = Exit
        BY <2>5, <3>1 DEF Holds
      <3> QED
        BY <2>8, <3>2 DEF x0, u, v
    <2>9. CASE ~(v - u > Field)
      <3>1. (Field - (v - u) \in 0..Room[N]-1 /\ Field - (v - u) < Limit) \/ v = u
        BY <1>1, <1>3, <2>4, <2>6, <2>7, <2>9
      <3>2. v # u
        <4>1. Value(r) = Room[N] + (u - v)
          BY <2>1
        <4>2. Value(r) \in 0..Room[N]-1
          <5>1. r \in Seq(Word) /\ Len(r) <= N
            BY <1>2, <1>4, NumeralLen
          <5> QED
            BY <1>2, <5>1, ValueFits
        <4> QED
          BY <1>1, <2>7, <4>1, <4>2
      <3>3. x0 \in Seq(Word) /\ Len(x0) = N /\ Value(x0) = Field - (v - u) /\ Value(x0) < Limit
        BY <2>5, <3>1, <3>2 DEF Holds
      <3>4. x0 \in [1..N -> Word]
        <4> HIDE DEF Word
        <4> QED
          BY <1>2, <3>3
      <3>5. Field - (v - u) = Field + u - v
        BY <1>1, <1>3
      <3>6. Stands(x0, Field + u - v)
        BY <3>3, <3>4, <3>5 DEF Stands, Limit
      <3> QED
        BY <2>9, <3>6 DEF x0, u, v
    <2> QED
      BY <2>8, <2>9
  <1> QED
    BY <1>8, <1>9

-----------------------------------------------------------------------------
(* What each call leaves *)

Results ==
  /\ a \in Numbers /\ b \in Numbers
  /\ op = "add" => out = Add(a, b, MaxLen(a, b))
  /\ op = "sub" => out = Sub(a, b, Len(a))
  /\ op = "subLittle" => out = SubLittle(a, 1, Len(a))
  /\ op = "rShift" => out = RShift(a, 1)
  /\ op = "mult" => out = Mult(a, b, Len(a) + Len(b))
  /\ op = "divMod" => n \in Moduli /\ out = <<Div(a, n, Len(a)), Mod(a, n, Zero(Len(n)))>>
  /\ op = "modMult" => n \in Moduli /\ out = ModMult(a, b, n, Zero(Len(n)))
  /\ op = "modAdd" => n \in Moduli /\ out = ModAdd(a, b, n, Zero(Len(n)))
  /\ op = "bitModAdd" => AreElements /\ out = BitModAdd(a, b)
  /\ op = "modSub" => AreElements /\ out = ModSub(a, b, Prime, Zero(N))
  /\ op = "bitModMult" => AreElements /\ out = BitModMult(a, b)
  /\ op = "bitModMultByLittle" =>
       a \in Elements /\ Len(b) = 1 /\ out = BitModMultByLittle(a, b[1])

LEMMA ResultsInit == Init => Results
  BY DEF Init, Results

LEMMA ResultsStep ==
  ASSUME Results, [Next]_vars
  PROVE  Results'
  <1>1. CASE BigNumAdd
    BY <1>1 DEF Results, BigNumAdd, Plain, Call
  <1>2. CASE BigNumSub
    BY <1>2 DEF Results, BigNumSub, Plain, Call
  <1>3. CASE BigNumSubLittle
    BY <1>3 DEF Results, BigNumSubLittle, Plain, Call
  <1>4. CASE BigNumRShift
    BY <1>4 DEF Results, BigNumRShift, Plain, Call
  <1>5. CASE BigNumMult
    BY <1>5 DEF Results, BigNumMult, Plain, Call
  <1>6. CASE BigNumDivMod
    BY <1>6 DEF Results, BigNumDivMod, Modular, Call
  <1>7. CASE BigNumModMult
    BY <1>7 DEF Results, BigNumModMult, Modular, Call
  <1>8. CASE BigNumModAdd
    BY <1>8 DEF Results, BigNumModAdd, Modular, Call
  <1>9. CASE BigNumBitModAdd
    BY <1>9 DEF Results, BigNumBitModAdd, AreElements, Plain, Call
  <1>10. CASE BigNumModSub
    BY <1>10 DEF Results, BigNumModSub, AreElements, Plain, Call
  <1>11. CASE BigNumBitModMult
    BY <1>11 DEF Results, BigNumBitModMult, AreElements, Plain, Call
  <1>12. CASE BigNumBitModMultByLittle
    BY <1>12 DEF Results, BigNumBitModMultByLittle, AreElements, Plain, Call
  <1>13. CASE UNCHANGED vars
    BY <1>13 DEF Results, AreElements, vars
  <1> QED
    BY <1>1, <1>2, <1>3, <1>4, <1>5, <1>6, <1>7, <1>8, <1>9, <1>10, <1>11, <1>12, <1>13 DEF Next

LEMMA ModulusRule ==
  ASSUME NEW m \in Moduli
  PROVE  m \in Numeral /\ Value(m) \in Nat \ {0}
  <1>1. m \in Numbers /\ \E i \in 1..Len(m) : m[i] # 0
    BY ModuliAssumption
  <1>2. m \in Numeral
    BY <1>1, NumbersAssumption DEF Numeral
  <1> QED
    BY <1>1, <1>2, ValuePositive

(* bigNumAdd, bigNumSub, bigNumSubLittle and bigNumRShift are exact, or    *)
(* exit where the result is negative or does not fit, for words of any     *)
(* width and numbers of any lengths.                                       *)
THEOREM SumsAreExact == Spec => []SumsExact
  <1>1. Results => SumsExact
    <2> SUFFICES ASSUME Results
                 PROVE  SumsExact
      OBVIOUS
    <2>1. a \in Numeral /\ b \in Numeral
      BY NumbersAssumption DEF Results, Numeral
    <2>2. Len(a) \in Nat /\ Len(b) \in Nat /\ Len(a) <= Len(a)
      BY <2>1, NumeralLen
    <2>3. op = "add" => Holds(out, Value(a) + Value(b), MaxLen(a, b))
      <3>1. MaxLen(a, b) \in Nat /\ Len(a) <= MaxLen(a, b) /\ Len(b) <= MaxLen(a, b)
        BY <2>2 DEF MaxLen
      <3> QED
        BY <2>1, <3>1, AddExact DEF Results
    <2>4. op = "sub" => Holds(out, Value(a) - Value(b), Len(a))
      BY <2>1, <2>2, SubExact DEF Results
    <2>5. op = "subLittle" => Holds(out, Value(a) - 1, Len(a))
      BY <2>1, SubLittleExact DEF Results
    <2>6. op = "rShift" => Holds(out, Value(a) \div 2, Len(a))
      BY <2>1, RShiftExact DEF Results
    <2> QED
      BY <2>3, <2>4, <2>5, <2>6 DEF SumsExact
  <1> QED
    BY <1>1, ResultsInit, ResultsStep, PTL DEF Spec

(* Long division finds the quotient and the remainder and never exits, for *)
(* words of any width, numbers of any lengths and any modulus that is not  *)
(* zero: the remainder's extra word is enough for every shift of           *)
(* bigNumMod and bigNumDivide.                                             *)
THEOREM DivisionIsExact == Spec => []DivisionExact
  <1>1. Results => DivisionExact
    <2> SUFFICES ASSUME Results, op = "divMod"
                 PROVE  /\ Holds(out[1], Value(a) \div Value(n), Len(a))
                        /\ Holds(out[2], Value(a) % Value(n), Len(n))
      BY DEF DivisionExact
    <2>1. n \in Moduli /\ out[1] = Div(a, n, Len(a)) /\ out[2] = Mod(a, n, Zero(Len(n)))
      BY DEF Results
    <2>2. a \in Numeral
      BY NumbersAssumption DEF Results, Numeral
    <2>3. n \in Numeral /\ Value(n) \in Nat \ {0}
      BY <2>1, ModulusRule
    <2> QED
      BY <2>1, <2>2, <2>3, DivExact
  <1> QED
    BY <1>1, ResultsInit, ResultsStep, PTL DEF Spec

(* What bigNumMult returns is the exact product, for words of two bits or  *)
(* more and lengths that halve down to one word: the carries between the   *)
(* halves that bigNumLongMult adds are never lost, only an exit is left.   *)
THEOREM ProductsAreExact == Spec => []ProductsExact
  <1>1. Results => ProductsExact
    <2> SUFFICES ASSUME Results, op = "mult", out # Exit
                 PROVE  Holds(out, Value(a) * Value(b), Len(a) + Len(b))
      BY DEF ProductsExact
    <2>1. out = Mult(a, b, Len(a) + Len(b)) /\ a \in Numbers /\ b \in Numbers
      BY DEF Results
    <2>2. a \in Numeral /\ b \in Numeral
      BY <2>1, NumbersAssumption DEF Numeral
    <2>3. PICK k \in Nat : MaxLen(a, b) = PowerOfTwo[k]
      BY <2>1, LongestIsPower
    <2>4. out \in Numeral /\ Len(out) = Len(a) + Len(b) /\ Value(out) = Value(a) * Value(b)
      BY <2>1, <2>2, <2>3, MultExact, LengthsAssumption
    <2>5. out \in Seq(Word) /\ Len(out) \in Nat /\ Len(out) <= Len(out)
      BY <2>4, NumeralLen
    <2>6. Value(out) \in 0..Room[Len(out)]-1
      BY <2>5, ValueFits
    <2> QED
      BY <2>4, <2>5, <2>6 DEF Holds
  <1> QED
    BY <1>1, ResultsInit, ResultsStep, PTL DEF Spec

(* bigNumModAdd and bigNumModMult reduce the exact sum and product, for    *)
(* any modulus that is not zero: the buffer of the sum has the room for    *)
(* its carry, and a product that lost one exits.                           *)
THEOREM ModularIsExact == Spec => []ModularExact
  <1>1. Results => ModularExact
    <2> SUFFICES ASSUME Results
                 PROVE  ModularExact
      OBVIOUS
    <2>1. a \in Numbers /\ b \in Numbers
      BY DEF Results
    <2>2. a \in Numeral /\ b \in Numeral
      BY <2>1, NumbersAssumption DEF Numeral
    <2>3. op = "modAdd" => Holds(out, (Value(a) + Value(b)) % Value(n), Len(n))
      <3> SUFFICES ASSUME op = "modAdd"
                   PROVE  Holds(out, (Value(a) + Value(b)) % Value(n), Len(n))
        OBVIOUS
      <3>1. n \in Moduli /\ out = ModAdd(a, b, n, Zero(Len(n)))
        BY DEF Results
      <3>2. n \in Numeral /\ Value(n) \in Nat \ {0}
        BY <3>1, ModulusRule
      <3> QED
        BY <2>2, <3>1, <3>2, ModAddExact
    <2>4. op = "modMult" /\ out # Exit => Holds(out, (Value(a) * Value(b)) % Value(n), Len(n))
      <3> SUFFICES ASSUME op = "modMult", out # Exit
                   PROVE  Holds(out, (Value(a) * Value(b)) % Value(n), Len(n))
        OBVIOUS
      <3>1. n \in Moduli /\ out = ModMult(a, b, n, Zero(Len(n)))
        BY DEF Results
      <3>2. n \in Numeral /\ Value(n) \in Nat \ {0}
        BY <3>1, ModulusRule
      <3>3. PICK k \in Nat : MaxLen(a, b) = PowerOfTwo[k]
        BY <2>1, LongestIsPower
      <3> QED
        BY <2>2, <3>1, <3>2, <3>3, ModMultExact, LengthsAssumption
    <2> QED
      BY <2>3, <2>4 DEF ModularExact
  <1> QED
    BY <1>1, ResultsInit, ResultsStep, PTL DEF Spec

(* Sums and differences of field elements are exact modulo the prime, for  *)
(* words of any width and fields of two words or more. bigNumModSub is     *)
(* right wherever bigNumMod's shifts can see that the difference is not    *)
(* zero, and exits where adding the prime once is not enough.              *)
THEOREM FieldSumsAreExact == Spec => []FieldSumsExact
  <1>1. Results => FieldSumsExact
    <2> SUFFICES ASSUME Results
                 PROVE  FieldSumsExact
      OBVIOUS
    <2>1. op = "bitModAdd" => Stands(out, Value(a) + Value(b))
      <3> SUFFICES ASSUME op = "bitModAdd"
                   PROVE  Stands(out, Value(a) + Value(b))
        OBVIOUS
      <3>1. a \in Elements /\ b \in Elements /\ out = BitModAdd(a, b)
        BY DEF Results, AreElements
      <3> QED
        BY <3>1, BitModAddExact
    <2>2. op = "modSub" /\ ~Slips(Value(a), Value(b)) =>
            IF Value(b) - Value(a) > Field THEN out = Exit
            ELSE Stands(out, Field + Value(a) - Value(b))
      <3> SUFFICES ASSUME op = "modSub", ~Slips(Value(a), Value(b))
                   PROVE  IF Value(b) - Value(a) > Field THEN out = Exit
                          ELSE Stands(out, Field + Value(a) - Value(b))
        OBVIOUS
      <3>1. a \in Elements /\ b \in Elements /\ out = ModSub(a, b, Prime, Zero(N))
        BY DEF Results, AreElements
      <3> QED
        BY <3>1, ModSubExact, LengthsAssumption
    <2> QED
      BY <2>1, <2>2 DEF FieldSumsExact
  <1> QED
    BY <1>1, ResultsInit, ResultsStep, PTL DEF Spec

(* The product of two field elements, and of an element and a word, is     *)
(* folded below 2^BitMod, and stands for the exact product wherever        *)
(* bigNumMultByLittle loses no carry from the words it multiplies.         *)
THEOREM FieldProductsAreExact == Spec => []FieldProductsExact
  <1>1. Results => FieldProductsExact
    <2> SUFFICES ASSUME Results
                 PROVE  FieldProductsExact
      OBVIOUS
    <2>1. ASSUME op = "bitModMult", out # Exit
          PROVE  LET product == Value(a) * Value(b)
                 IN  /\ out \in [1..N -> Word] /\ Value(out) < PowerOfTwo[BitMod]
                     /\ CarryFree(product \div PowerOfTwo[BitMod], CarryMult, 2 * N) => Stands(out, product)
      <3>1. a \in Elements /\ b \in Elements /\ out = BitModMult(a, b)
        BY <2>1 DEF Results, AreElements
      <3> QED
        BY <2>1, <3>1, BitModMultExact DEF Limit
    <2>2. ASSUME op = "bitModMultByLittle"
          PROVE  LET product == Value(a) * b[1]
                 IN  /\ out \in [1..N -> Word] /\ Value(out) < PowerOfTwo[BitMod]
                     /\ CarryFree(Value(a), b[1], N - 1) /\ CarryFree(product \div PowerOfTwo[BitMod], CarryMult, N)
                          => Stands(out, product)
      <3>1. a \in Elements /\ b \in Numbers /\ Len(b) = 1 /\ out = BitModMultByLittle(a, b[1])
        BY <2>2 DEF Results
      <3>2. b \in Seq(Word)
        BY <3>1, NumbersAssumption
      <3>3. b[1] \in Word
        <4> HIDE DEF Word
        <4> QED
          BY <3>1, <3>2
      <3> QED
        BY <3>1, <3>3, BitModMultByLittleExact DEF Limit
    <2> QED
      BY <2>1, <2>2 DEF FieldProductsExact
  <1> QED
    BY <1>1, ResultsInit, ResultsStep, PTL DEF Spec
=============================================================================
