---------------------------- MODULE BigMathsProofs ----------------------------
(***************************************************************************)
(* The operators of BigMaths against the arithmetic of the natural         *)
(* numbers, for words of any width and numbers of any length; products for *)
(* lengths that halve down to one word.                                    *)
(***************************************************************************)
EXTENDS BigMaths, NumberTheory

LEMMA Division ==
  ASSUME NEW x \in Int, NEW y \in Nat \ {0}
  PROVE  x % y \in 0..y-1 /\ x \div y \in Int /\ x = (x \div y) * y + (x % y)
  OBVIOUS

(* Powers of two, and the numbers that words can hold *)

LEMMA TwoToRule ==
  /\ TwoTo \in [0..W -> Nat \ {0}]
  /\ TwoTo[0] = 1
  /\ \A k \in 1..W : TwoTo[k] = 2 * TwoTo[k-1]
  <1> DEFINE S == Nat \ {0}
             step == [k \in 1..W |-> [x \in S |-> 2 * x]]
  <1>1. W \in Nat \ {0}
    BY WordAssumption
  <1>2. PICK f \in [0..W -> S] : Follows(f, 0, W, 1, step)
    <2>1. \A k \in 0+1..W : \A x \in S : step[k][x] \in S
      OBVIOUS
    <2>2. 1 \in S
      OBVIOUS
    <2> HIDE DEF step, S
    <2> QED
      BY <1>1, <2>1, <2>2, 0 \in Int, W \in Int, RecursionExists, Zenon
  <1>3. f[0] = 1 /\ \A k \in 1..W : f[k] = 2 * f[k-1]
    <2>1. ASSUME NEW k \in 1..W
          PROVE  f[k] = 2 * f[k-1]
      <3>1. k \in 0+1..W /\ k - 1 \in 0..W
        BY <1>1
      <3> QED
        BY <1>2, <3>1 DEF Follows
    <2> QED
      BY <1>1, <1>2, <2>1 DEF Follows
  <1>4. f = [k \in 0..W |-> IF k = 0 THEN 1 ELSE 2 * f[k-1]]
    BY <1>1, <1>3
  <1>5. TwoTo = [k \in 0..W |-> IF k = 0 THEN 1 ELSE 2 * TwoTo[k-1]]
    BY <1>4 DEF TwoTo
  <1>6. TwoTo[0] = 1 /\ \A k \in 1..W : TwoTo[k] = 2 * TwoTo[k-1]
    <2>1. 0 \in 0..W
      BY <1>1
    <2>2. ASSUME NEW k \in 1..W
          PROVE  TwoTo[k] = 2 * TwoTo[k-1]
      <3>1. k \in 0..W /\ k # 0
        BY <1>1
      <3> QED
        BY <1>5, <3>1
    <2>3. TwoTo[0] = 1
      BY <1>5, <2>1
    <2> QED
      BY <2>2, <2>3
  <1>7. \A k \in 0..W : TwoTo[k] \in S
    <2> DEFINE T == {k \in 0..W : TwoTo[k] \in S}
    <2>1. 0 \in T
      BY <1>1, <1>6
    <2>2. ASSUME NEW k \in 0..W-1, k \in T
          PROVE  k + 1 \in T
      <3>1. k + 1 \in 1..W /\ (k + 1) - 1 = k
        BY <1>1
      <3> QED
        BY <1>6, <2>2, <3>1
    <2>3. \A k \in 0..W : k \in T
      <3> HIDE DEF T
      <3> QED
        BY <1>1, <2>1, <2>2, 0 \in Int, W \in Int, RangeInduction, Zenon
    <2> QED
      BY <2>3
  <1> QED
    BY <1>5, <1>6, <1>7

LEMMA BaseIsEven == Base \in Nat /\ TwoTo[W-1] \in Nat \ {0} /\ Base = 2 * TwoTo[W-1]
  <1>1. W \in 1..W /\ W - 1 \in 0..W
    BY WordAssumption
  <1> QED
    BY <1>1, TwoToRule, WordAssumption

LEMMA BaseRule == Base \in Nat /\ Base \in Int /\ Base # 0 /\ Base >= 2
  BY BaseIsEven

LEMMA RoomRule ==
  /\ \A k \in Nat : Room[k] \in Nat \ {0}
  /\ Room[0] = 1
  /\ \A k \in Nat : Room[k+1] = Room[k] * Base
  <1> DEFINE S == Nat \ {0}
             step == [k \in Nat |-> [x \in S |-> x * Base]]
  <1>1. PICK f \in [Nat -> S] : NatFollows(f, 1, step)
    <2>1. ASSUME NEW k \in Nat \ {0}, NEW x \in S
          PROVE  step[k][x] \in S
      <3>1. x * Base \in Nat /\ x * Base # 0
        BY BaseRule
      <3> QED
        BY <3>1
    <2>2. 1 \in S
      OBVIOUS
    <2> HIDE DEF step, S
    <2> QED
      BY <2>1, <2>2, NatRecursionExists, Zenon
  <1>2. f[0] = 1 /\ \A k \in Nat \ {0} : f[k] = f[k-1] * Base
    <2>1. ASSUME NEW k \in Nat \ {0}
          PROVE  f[k] = f[k-1] * Base
      <3>1. k - 1 \in Nat
        OBVIOUS
      <3> QED
        BY <1>1, <3>1 DEF NatFollows
    <2> QED
      BY <1>1, <2>1 DEF NatFollows
  <1>3. f = [k \in Nat |-> IF k = 0 THEN 1 ELSE f[k-1] * Base]
    BY <1>2
  <1>4. Room = [k \in Nat |-> IF k = 0 THEN 1 ELSE Room[k-1] * Base]
    BY <1>3 DEF Room
  <1>5. Room[0] = 1 /\ \A k \in Nat : Room[k+1] = Room[k] * Base
    BY <1>4
  <1>6. \A k \in Nat : Room[k] \in Nat \ {0}
    <2> DEFINE T == {k \in Nat : Room[k] \in S}
    <2>1. 0 \in T
      BY <1>5
    <2>2. ASSUME NEW k \in Nat, k \in T
          PROVE  k + 1 \in T
      <3>1. Room[k] \in S /\ Room[k+1] = Room[k] * Base
        BY <1>5, <2>2
      <3>2. Room[k] * Base \in Nat /\ Room[k] * Base # 0
        BY <3>1, BaseRule
      <3> QED
        BY <3>1, <3>2
    <2>3. \A k \in Nat : k \in T
      <3> HIDE DEF T
      <3> QED
        BY <2>1, <2>2, SetInduction
    <2> QED
      BY <2>3
  <1> QED
    BY <1>5, <1>6
LEMMA RoomIsNat ==
  ASSUME NEW k \in Nat
  PROVE  Room[k] \in Nat /\ Room[k] \in Int /\ Room[k] # 0 /\ Room[k] >= 1
  BY RoomRule

LEMMA RoomStep ==
  ASSUME NEW k \in Nat
  PROVE  Room[k+1] = Room[k] * Base
  BY RoomRule

-----------------------------------------------------------------------------
(* The number that the first digits stand for; digits may be negative, or  *)
(* larger than a word.                                                     *)
Sums(d, len) ==
  CHOOSE value : value = [i \in 0..len |-> IF i = 0 THEN 0 ELSE value[i-1] * Base + d[i]]

LEMMA SumsRule ==
  ASSUME NEW len \in Nat, NEW d \in [1..len -> Int]
  PROVE  /\ Sums(d, len) \in [0..len -> Int]
         /\ Sums(d, len)[0] = 0
         /\ \A i \in 1..len : Sums(d, len)[i] = Sums(d, len)[i-1] * Base + d[i]
  <1> DEFINE step == [i \in 1..len |-> [x \in Int |-> x * Base + d[i]]]
             value == Sums(d, len)
  <1>1. PICK f \in [0..len -> Int] : Follows(f, 0, len, 0, step)
    <2>1. ASSUME NEW i \in 0+1..len, NEW x \in Int
          PROVE  step[i][x] \in Int
      <3>1. x * Base \in Int /\ i \in 1..len
        BY BaseRule
      <3>2. step[i][x] = x * Base + d[i]
        BY <3>1
      <3> QED
        BY <3>1, <3>2
    <2> HIDE DEF step
    <2> QED
      BY <2>1, 0 \in Int, len \in Int, RecursionExists, Zenon
  <1>2. f[0] = 0 /\ \A i \in 1..len : f[i] = f[i-1] * Base + d[i]
    <2>1. ASSUME NEW i \in 1..len
          PROVE  f[i] = f[i-1] * Base + d[i]
      <3>1. i \in 0+1..len /\ i - 1 \in 0..len
        OBVIOUS
      <3>2. f[i-1] \in Int
        BY <3>1
      <3> QED
        BY <1>1, <3>1, <3>2 DEF Follows
    <2> QED
      BY <1>1, <2>1 DEF Follows
  <1>3. f = [i \in 0..len |-> IF i = 0 THEN 0 ELSE f[i-1] * Base + d[i]]
    <2>1. \A i \in 0..len : f[i] = IF i = 0 THEN 0 ELSE f[i-1] * Base + d[i]
      BY <1>2
    <2> QED
      BY <2>1
  <1>4. value = [i \in 0..len |-> IF i = 0 THEN 0 ELSE value[i-1] * Base + d[i]]
    BY <1>3 DEF Sums
  <1> HIDE DEF value
  <1>5. \A i \in 0..len : value[i] = IF i = 0 THEN 0 ELSE value[i-1] * Base + d[i]
    BY <1>4
  <1>6. value[0] = 0 /\ \A i \in 1..len : value[i] = value[i-1] * Base + d[i]
    <2>1. 0 \in 0..len /\ \A i \in 1..len : i \in 0..len /\ i # 0
      OBVIOUS
    <2> QED
      BY <1>5, <2>1
  <1>7. \A i \in 0..len : value[i] \in Int
    <2> DEFINE T == {i \in 0..len : value[i] \in Int}
    <2>1. 0 \in T
      BY <1>6
    <2>2. ASSUME NEW i \in 0..len-1, i \in T
          PROVE  i + 1 \in T
      <3>1. i + 1 \in 1..len /\ (i + 1) - 1 = i /\ i + 1 \in 0..len
        OBVIOUS
      <3>2. value[i+1] = value[i] * Base + d[i+1]
        BY <1>6, <3>1
      <3>3. value[i] \in Int /\ d[i+1] \in Int /\ Base \in Int
        BY <2>2, <3>1, BaseRule
      <3>4. value[i+1] \in Int
        BY <3>2, <3>3
      <3> QED
        BY <3>1, <3>4
    <2>3. \A i \in 0..len : i \in T
      <3> HIDE DEF T
      <3> QED
        BY <2>1, <2>2, 0 \in Int, len \in Int, RangeInduction, Zenon
    <2> QED
      BY <2>3
  <1> QED
    BY <1>4, <1>6, <1>7 DEF value

LEMMA ValueIsSum ==
  ASSUME NEW x \in Seq(Word)
  PROVE  Value(x) = Sums(x, Len(x))[Len(x)] /\ x \in [1..Len(x) -> Int] /\ Len(x) \in Nat
  <1>1. Value(x) = Sums(x, Len(x))[Len(x)]
    BY DEF Value, Sums
  <1>2. Word \subseteq Int
    BY BaseRule DEF Word
  <1>3. Len(x) \in Nat /\ x \in [1..Len(x) -> Word]
    OBVIOUS
  <1>4. x \in [1..Len(x) -> Int]
    <2> HIDE DEF Word
    <2> QED
      BY <1>2, <1>3
  <1> QED
    BY <1>1, <1>3, <1>4

(* Words stand for less than there is room for.                            *)
LEMMA SumsFit ==
  ASSUME NEW len \in Nat, NEW d \in [1..len -> Word]
  PROVE  \A i \in 0..len : Sums(d, len)[i] \in 0..Room[i]-1
  <1> DEFINE T == {i \in 0..len : Sums(d, len)[i] \in 0..Room[i]-1}
             value == Sums(d, len)
  <1>1. /\ value[0] = 0
        /\ \A i \in 1..len : value[i] = value[i-1] * Base + d[i]
    <2>1. d \in [1..len -> Int]
      BY BaseRule DEF Word
    <2> QED
      BY <2>1, SumsRule
  <1>2. 0 \in T
    BY <1>1, RoomRule
  <1>3. ASSUME NEW i \in 0..len-1, i \in T
        PROVE  i + 1 \in T
    <2>1. i + 1 \in 1..len /\ (i + 1) - 1 = i /\ i + 1 \in 0..len /\ i \in Nat
      OBVIOUS
    <2>2. value[i+1] = value[i] * Base + d[i+1] /\ d[i+1] \in 0..Base-1
      BY <1>1, <2>1 DEF Word
    <2>3. value[i] \in 0..Room[i]-1 /\ Room[i] \in Nat /\ Room[i+1] \in Nat /\ Room[i+1] = Room[i] * Base
      <3>1. value[i] \in 0..Room[i]-1
        BY <1>3
      <3>2. Room[i] \in Nat /\ Room[i+1] = Room[i] * Base /\ Room[i+1] \in Nat
        <4>1. i + 1 \in Nat
          BY <2>1
        <4> QED
          BY <2>1, <4>1, RoomRule
      <3> QED
        BY <3>1, <3>2
    <2> DEFINE v == value[i]
               r == Room[i]
               w == d[i+1]
    <2>4. v * Base \in 0..(r - 1) * Base
      <3>1. v \in Nat /\ v <= r - 1 /\ r \in Nat /\ Base \in Nat
        BY <2>3, BaseRule
      <3> HIDE DEF v, r
      <3> QED
        BY <3>1
    <2>5. (r - 1) * Base = r * Base - Base
      BY <2>3, BaseRule
    <2>6. v * Base + w \in 0..r*Base - 1
      <3>1. r * Base \in Int /\ v * Base \in Int /\ Base \in Int
        BY <2>3, BaseRule
      <3>2. w \in 0..Base-1
        BY <2>2
      <3> HIDE DEF v, r, w
      <3> QED
        BY <2>4, <2>5, <3>1, <3>2
    <2> QED
      BY <2>1, <2>2, <2>3, <2>6
  <1>4. \A i \in 0..len : i \in T
    <2> HIDE DEF T
    <2> QED
      BY <1>2, <1>3, 0 \in Int, len \in Int, RangeInduction, Zenon
  <1> QED
    BY <1>4
-----------------------------------------------------------------------------
(* Carries *)

Carries(d, len) ==
  CHOOSE carry : carry = [i \in 0..len |-> IF i = len THEN 0 ELSE (d[i+1] + carry[i+1]) \div Base]

LEMMA CarriesRule ==
  ASSUME NEW len \in Nat, NEW d \in [1..len -> Int]
  PROVE  /\ Carries(d, len) \in [0..len -> Int]
         /\ Carries(d, len)[len] = 0
         /\ \A i \in 1..len : Carries(d, len)[i-1] = (d[i] + Carries(d, len)[i]) \div Base
  <1> DEFINE step == [k \in 1..len |-> [x \in Int |-> (d[len-k+1] + x) \div Base]]
             carry == Carries(d, len)
  <1>1. PICK f \in [0..len -> Int] : Follows(f, 0, len, 0, step)
    <2>1. ASSUME NEW k \in 0+1..len, NEW x \in Int
          PROVE  step[k][x] \in Int
      <3>1. k \in 1..len /\ len - k + 1 \in 1..len
        OBVIOUS
      <3>2. step[k][x] = (d[len-k+1] + x) \div Base
        BY <3>1
      <3>3. d[len-k+1] + x \in Int
        BY <3>1
      <3> QED
        BY <3>2, <3>3, BaseRule
    <2> HIDE DEF step
    <2> QED
      BY <2>1, 0 \in Int, len \in Int, RecursionExists, Zenon
  <1> DEFINE g == [i \in 0..len |-> f[len-i]]
  <1>2. g[len] = 0 /\ \A i \in 1..len : g[i-1] = (d[i] + g[i]) \div Base
    <2>1. g[len] = f[0] /\ f[0] = 0
      BY <1>1 DEF Follows
    <2>2. ASSUME NEW i \in 1..len
          PROVE  g[i-1] = (d[i] + g[i]) \div Base
      <3> DEFINE k == len - i + 1
      <3>1. k \in 1..len /\ k \in 0+1..len /\ k - 1 \in 0..len /\ len - k + 1 = i
        OBVIOUS
      <3>2. f[k] = step[k][f[k-1]] /\ f[k-1] \in Int
        BY <1>1, <3>1 DEF Follows
      <3>3. g[i-1] = f[k] /\ g[i] = f[k-1]
        OBVIOUS
      <3>4. step[k][f[k-1]] = (d[len-k+1] + f[k-1]) \div Base
        <4> HIDE DEF k
        <4> QED
          BY <3>1, <3>2
      <3> HIDE DEF k, step, g
      <3> QED
        BY <3>1, <3>2, <3>3, <3>4
    <2> QED
      BY <2>1, <2>2
  <1>3. g = [i \in 0..len |-> IF i = len THEN 0 ELSE (d[i+1] + g[i+1]) \div Base]
    <2>1. ASSUME NEW i \in 0..len, i # len
          PROVE  g[i] = (d[i+1] + g[i+1]) \div Base
      <3>1. i + 1 \in 1..len /\ (i + 1) - 1 = i
        BY <2>1
      <3> HIDE DEF g
      <3> QED
        BY <1>2, <3>1
    <2>2. \A i \in 0..len : g[i] = IF i = len THEN 0 ELSE (d[i+1] + g[i+1]) \div Base
      BY <1>2, <2>1
    <2>3. g = [i \in 0..len |-> g[i]]
      OBVIOUS
    <2> HIDE DEF g
    <2> QED
      BY <2>2, <2>3
  <1>4. carry = [i \in 0..len |-> IF i = len THEN 0 ELSE (d[i+1] + carry[i+1]) \div Base]
    <2> HIDE DEF g
    <2> QED
      BY <1>3 DEF Carries
  <1> HIDE DEF carry, g
  <1>5. carry[len] = 0
    <2>1. len \in 0..len
      OBVIOUS
    <2> QED
      BY <1>4, <2>1
  <1>6. \A i \in 1..len : carry[i-1] = (d[i] + carry[i]) \div Base
    <2> SUFFICES ASSUME NEW i \in 1..len
                 PROVE  carry[i-1] = (d[i] + carry[i]) \div Base
      OBVIOUS
    <2>1. i - 1 \in 0..len /\ i - 1 # len /\ (i - 1) + 1 = i
      OBVIOUS
    <2>2. \A k \in 0..len : k # len => carry[k] = (d[k+1] + carry[k+1]) \div Base
      BY <1>4
    <2>3. carry[i-1] = (d[(i-1)+1] + carry[(i-1)+1]) \div Base
      BY <2>1, <2>2
    <2> QED
      BY <2>1, <2>3
  <1>7. \A i \in 0..len : carry[i] \in Int
    <2> DEFINE T == {k \in 0..len : carry[len-k] \in Int}
    <2>1. 0 \in T
      BY <1>5
    <2>2. ASSUME NEW k \in 0..len-1, k \in T
          PROVE  k + 1 \in T
      <3>1. len - k \in 1..len /\ (len - k) - 1 = len - (k + 1) /\ k + 1 \in 0..len
        OBVIOUS
      <3>2. d[len-k] + carry[len-k] \in Int
        BY <2>2, <3>1
      <3>3. carry[len-(k+1)] = (d[len-k] + carry[len-k]) \div Base
        BY <1>6, <3>1
      <3>4. carry[len-(k+1)] \in Int
        BY <3>2, <3>3, BaseRule
      <3> QED
        BY <3>1, <3>4
    <2>3. \A k \in 0..len : k \in T
      <3> HIDE DEF T
      <3> QED
        BY <2>1, <2>2, 0 \in Int, len \in Int, RangeInduction, Zenon
    <2>4. \A i \in 0..len : len - i \in 0..len /\ len - (len - i) = i
      OBVIOUS
    <2> QED
      BY <2>3, <2>4
  <1>8. carry \in [0..len -> Int]
    BY <1>4, <1>7
  <1> QED
    BY <1>5, <1>6, <1>8 DEF carry

(* What Ripple leaves in the place of each digit                           *)
Rippled(d, len) == [i \in 1..len |-> (d[i] + Carries(d, len)[i]) % Base]

LEMMA RippledRule ==
  ASSUME NEW len \in Nat, NEW d \in [1..len -> Int]
  PROVE  /\ Rippled(d, len) \in [1..len -> Word]
         /\ Ripple(d) = IF Carries(d, len)[0] # 0 THEN Exit ELSE Rippled(d, len)
         /\ \A i \in 1..len :
              d[i] + Carries(d, len)[i] = Carries(d, len)[i-1] * Base + Rippled(d, len)[i]
  <1>1. Len(d) = len
    OBVIOUS
  <1>2. Ripple(d) = IF Carries(d, len)[0] # 0 THEN Exit ELSE Rippled(d, len)
    BY <1>1 DEF Ripple, Carries, Rippled
  <1> DEFINE carry == Carries(d, len)
  <1>3. carry \in [0..len -> Int] /\ \A i \in 1..len : carry[i-1] = (d[i] + carry[i]) \div Base
    BY CarriesRule
  <1> HIDE DEF carry
  <1>4. ASSUME NEW i \in 1..len
        PROVE  /\ (d[i] + carry[i]) % Base \in Word
               /\ d[i] + carry[i] = carry[i-1] * Base + ((d[i] + carry[i]) % Base)
    <2> DEFINE x == d[i] + carry[i]
    <2>1. x \in Int /\ carry[i-1] = x \div Base
      BY <1>3
    <2> HIDE DEF x
    <2>2. x % Base \in 0..Base-1 /\ x = (x \div Base) * Base + (x % Base)
      BY <2>1, BaseRule, Division
    <2> QED
      BY <2>1, <2>2 DEF Word, x
  <1> QED
    BY <1>2, <1>4 DEF carry, Rippled

LEMMA CarriedOn ==
  ASSUME NEW x \in Int, NEW y \in Int, NEW carried \in Int, NEW first \in Int, NEW room \in Int,
         NEW base \in Int, NEW digit \in Int, NEW word \in Int, NEW next \in Int,
         x + carried = first * room + y, digit + next = carried * base + word
  PROVE  (x * base + digit) + next = first * (room * base) + (y * base + word)
  <1>1. (x + carried) * base = (first * room + y) * base
    OBVIOUS
  <1>2. (x + carried) * base = x * base + carried * base
    OBVIOUS
  <1>3. (first * room + y) * base = first * (room * base) + y * base
    OBVIOUS
  <1> QED
    BY <1>1, <1>2, <1>3

(* The digits with the carry into the last of them stand for the words up  *)
(* to there, with the carry out of the first.                              *)
LEMMA RippledSums ==
  ASSUME NEW len \in Nat, NEW d \in [1..len -> Int]
  PROVE  Sums(d, len)[len] = Carries(d, len)[0] * Room[len] + Sums(Rippled(d, len), len)[len]
  <1> DEFINE carry == Carries(d, len)
             r == Rippled(d, len)
             before == Sums(d, len)
             after == Sums(r, len)
             T == {i \in 0..len : before[i] + carry[i] = carry[0] * Room[i] + after[i]}
  <1>1. r \in [1..len -> Int] /\ \A i \in 1..len : d[i] + carry[i] = carry[i-1] * Base + r[i]
    <2>1. Word \subseteq Int
      BY BaseRule DEF Word
    <2> HIDE DEF Word
    <2> QED
      BY <2>1, RippledRule
  <1>2. carry \in [0..len -> Int] /\ carry[len] = 0
    BY CarriesRule
  <1>3. /\ before \in [0..len -> Int] /\ before[0] = 0
        /\ \A i \in 1..len : before[i] = before[i-1] * Base + d[i]
    BY SumsRule
  <1>4. /\ after \in [0..len -> Int] /\ after[0] = 0
        /\ \A i \in 1..len : after[i] = after[i-1] * Base + r[i]
    BY <1>1, SumsRule
  <1> HIDE DEF carry, r, before, after
  <1>5. 0 \in T
    <2>1. 0 \in 0..len
      OBVIOUS
    <2>2. carry[0] \in Int /\ Room[0] = 1
      BY <1>2, <2>1, RoomRule
    <2> QED
      BY <1>3, <1>4, <2>1, <2>2
  <1>6. ASSUME NEW i \in 0..len-1, i \in T
        PROVE  i + 1 \in T
    <2>1. i + 1 \in 1..len /\ (i + 1) - 1 = i /\ i + 1 \in 0..len /\ i \in Nat /\ i \in 0..len /\ 0 \in 0..len
      OBVIOUS
    <2> DEFINE v == before[i]
               u == after[i]
               c == carry[i]
               top == carry[0]
               k == Room[i]
    <2>2. v \in Int /\ u \in Int /\ c \in Int /\ top \in Int /\ carry[i+1] \in Int /\ k \in Int /\ Base \in Int
      <3>1. v \in Int /\ u \in Int
        BY <1>3, <1>4, <2>1
      <3>2. c \in Int /\ top \in Int /\ carry[i+1] \in Int
        BY <1>2, <2>1
      <3>3. k \in Int /\ Base \in Int
        BY <2>1, RoomIsNat, BaseRule
      <3> QED
        BY <3>1, <3>2, <3>3
    <2>3. v + c = top * k + u
      BY <1>6
    <2>4. /\ before[i+1] = v * Base + d[i+1] /\ after[i+1] = u * Base + r[i+1]
          /\ d[i+1] + carry[i+1] = c * Base + r[i+1] /\ Room[i+1] = k * Base
      <3>1. before[i+1] = v * Base + d[i+1]
        BY <1>3, <2>1
      <3>2. after[i+1] = u * Base + r[i+1]
        BY <1>4, <2>1
      <3>3. d[i+1] + carry[i+1] = c * Base + r[i+1]
        BY <1>1, <2>1
      <3>4. Room[i+1] = k * Base
        BY <2>1, RoomRule
      <3> QED
        BY <3>1, <3>2, <3>3, <3>4
    <2>5. d[i+1] \in Int /\ r[i+1] \in Int
      BY <1>1, <2>1
    <2> HIDE DEF v, u, c, top, k
    <2>6. (v * Base + d[i+1]) + carry[i+1] = top * (k * Base) + (u * Base + r[i+1])
      <3> DEFINE digit == d[i+1]
                 word == r[i+1]
                 next == carry[i+1]
      <3>1. /\ v \in Int /\ u \in Int /\ c \in Int /\ top \in Int /\ k \in Int /\ Base \in Int
            /\ digit \in Int /\ word \in Int /\ next \in Int
        BY <2>2, <2>5
      <3>2. v + c = top * k + u
        BY <2>3
      <3>3. digit + next = c * Base + word
        BY <2>4
      <3> HIDE DEF digit, word, next
      <3>4. (v * Base + digit) + next = top * (k * Base) + (u * Base + word)
        BY <3>1, <3>2, <3>3, CarriedOn
      <3> QED
        BY <3>4 DEF digit, word, next
    <2>7. before[i+1] + carry[i+1] = top * Room[i+1] + after[i+1]
      BY <2>4, <2>6
    <2> QED
      BY <2>1, <2>7 DEF top
  <1>7. \A i \in 0..len : i \in T
    <2> HIDE DEF T
    <2> QED
      BY <1>5, <1>6, 0 \in Int, len \in Int, RangeInduction, Zenon
  <1>8. before[len] + carry[len] = carry[0] * Room[len] + after[len]
    <2>1. len \in 0..len
      OBVIOUS
    <2> QED
      BY <1>7, <2>1
  <1>9. before[len] \in Int
    BY <1>3
  <1> QED
    BY <1>2, <1>8, <1>9 DEF carry, r, before, after

LEMMA NoCarry ==
  ASSUME NEW x \in Int, NEW room \in Nat \ {0}, NEW w \in 0..room-1
  PROVE  x * room + w \in 0..room-1 <=> x = 0
  <1>1. CASE x = 0
    BY <1>1
  <1>2. CASE x >= 1
    <2>1. x - 1 \in Nat /\ (x - 1) * room >= 0 /\ (x - 1) * room = x * room - room
      BY <1>2
    <2> QED
      BY <1>2, <2>1
  <1>3. CASE x <= -1
    <2>1. -1 - x \in Nat /\ (-1 - x) * room >= 0 /\ (-1 - x) * room = -room - x * room
      BY <1>3
    <2> QED
      BY <1>3, <2>1
  <1> QED
    BY <1>1, <1>2, <1>3

(* Ripple is exact where its digits stand for a number that its words can  *)
(* hold, and an exit where they do not.                                    *)
LEMMA RippleExact ==
  ASSUME NEW len \in Nat \ {0}, NEW d \in [1..len -> Int]
  PROVE  Holds(Ripple(d), Sums(d, len)[len], len)
  <1> DEFINE top == Carries(d, len)[0]
             x == Rippled(d, len)
             w == Sums(x, len)[len]
             v == Sums(d, len)[len]
  <1>1. x \in [1..len -> Word] /\ Ripple(d) = IF top # 0 THEN Exit ELSE x
    BY RippledRule
  <1>2. x \in Seq(Word) /\ Len(x) = len
    <2> HIDE DEF x
    <2> QED
      BY <1>1
  <1>3. Value(x) = w
    <2> HIDE DEF x
    <2> QED
      BY <1>2, ValueIsSum DEF w
  <1>4. w \in 0..Room[len]-1
    <2> HIDE DEF x
    <2>1. len \in 0..len
      OBVIOUS
    <2> QED
      BY <1>1, <2>1, SumsFit
  <1>5. v = top * Room[len] + w
    BY RippledSums
  <1>6. top \in Int
    <2>1. 0 \in 0..len
      OBVIOUS
    <2> QED
      BY <2>1, CarriesRule
  <1>7. Room[len] \in Nat \ {0}
    BY RoomIsNat
  <1> HIDE DEF top, x, w, v
  <1>8. v \in 0..Room[len]-1 <=> top = 0
    <2> DEFINE room == Room[len]
    <2>1. room \in Nat \ {0} /\ w \in 0..room-1 /\ v = top * room + w
      BY <1>4, <1>5, <1>7
    <2> HIDE DEF room
    <2>2. top * room + w \in 0..room-1 <=> top = 0
      BY <1>6, <2>1, NoCarry
    <2> QED
      BY <2>1, <2>2 DEF room
  <1>9. top = 0 => v = w
    BY <1>4, <1>5, <1>7
  <1>10. Holds(Ripple(d), v, len)
    BY <1>1, <1>2, <1>3, <1>8, <1>9 DEF Holds
  <1> QED
    BY <1>10 DEF v

(* The number of digits behind others is that of them all without these.   *)
LEMMA SumsSplit ==
  ASSUME NEW m \in Nat, NEW d \in [1..m -> Int], NEW off \in 0..m,
         NEW e \in [1..m-off -> Int], \A i \in 1..m-off : e[i] = d[off+i]
  PROVE  Sums(d, m)[m] = Sums(d, m)[off] * Room[m-off] + Sums(e, m - off)[m-off]
  <1> DEFINE len == m - off
             whole == Sums(d, m)
             part == Sums(e, len)
             T == {i \in 0..len : whole[off+i] = whole[off] * Room[i] + part[i]}
  <1>1. /\ whole \in [0..m -> Int]
        /\ \A i \in 1..m : whole[i] = whole[i-1] * Base + d[i]
    BY SumsRule
  <1>2. /\ part \in [0..len -> Int] /\ part[0] = 0
        /\ \A i \in 1..len : part[i] = part[i-1] * Base + e[i]
    <2>1. len \in Nat
      OBVIOUS
    <2> HIDE DEF len
    <2>2. e \in [1..len -> Int]
      BY DEF len
    <2> QED
      BY <2>1, <2>2, SumsRule
  <1>3. len \in Nat /\ len + off = m /\ off \in Nat
    OBVIOUS
  <1> HIDE DEF whole, part, len
  <1>4. 0 \in T
    <2>1. whole[off] \in Int /\ off + 0 = off /\ 0 \in 0..len
      BY <1>1, <1>3
    <2>2. Room[0] = 1
      BY RoomRule
    <2> DEFINE x == whole[off]
    <2>3. x * 1 + 0 = x
      BY <2>1
    <2> QED
      BY <1>2, <2>1, <2>2, <2>3
  <1>5. ASSUME NEW i \in 0..len-1, i \in T
        PROVE  i + 1 \in T
    <2> DEFINE x == whole[off]
               y == part[i]
               z == whole[off+i]
               room == Room[i]
               digit == d[off+i+1]
    <2>1. x \in Int /\ y \in Int /\ z \in Int /\ room \in Int /\ digit \in Int /\ Base \in Int
      <3>1. off \in 0..m /\ off + i \in 0..m /\ off + i + 1 \in 1..m /\ i \in 0..len /\ i \in Nat
        BY <1>3
      <3>2. x \in Int /\ z \in Int
        BY <1>1, <3>1
      <3>3. y \in Int
        BY <1>2, <3>1
      <3>4. room \in Int
        BY <3>1, RoomIsNat
      <3>5. digit \in Int
        BY <3>1
      <3> QED
        BY <3>2, <3>3, <3>4, <3>5, BaseRule
    <2>2. whole[off+(i+1)] = z * Base + digit
      <3>1. off + (i + 1) = off + i + 1 /\ (off + i + 1) - 1 = off + i /\ off + i + 1 \in 1..m
        BY <1>3
      <3> QED
        BY <1>1, <3>1
    <2>3. part[i+1] = y * Base + digit
      <3>1. i + 1 \in 1..len /\ (i + 1) - 1 = i /\ off + (i + 1) = off + i + 1
        BY <1>3
      <3>2. e[i+1] = d[off+(i+1)]
        BY <3>1 DEF len
      <3> QED
        BY <1>2, <3>1, <3>2
    <2>4. Room[i+1] = room * Base
      <3>1. i \in Nat
        BY <1>3
      <3> QED
        BY <3>1, RoomStep
    <2>5. z = x * room + y
      BY <1>5
    <2> HIDE DEF x, y, z, room, digit
    <2>6. z * Base + digit = x * (room * Base) + (y * Base + digit)
      <3>1. (x * room + y) * Base = x * (room * Base) + y * Base
        BY <2>1
      <3> QED
        BY <2>1, <2>5, <3>1
    <2>7. whole[off+(i+1)] = x * Room[i+1] + part[i+1]
      BY <2>2, <2>3, <2>4, <2>6
    <2>8. i + 1 \in 0..len
      BY <1>3
    <2> QED
      BY <2>7, <2>8 DEF x
  <1>6. \A i \in 0..len : i \in T
    <2> HIDE DEF T
    <2> QED
      BY <1>3, <1>4, <1>5, 0 \in Int, len \in Int, RangeInduction, Zenon
  <1>7. whole[off+len] = whole[off] * Room[len] + part[len]
    <2>1. len \in 0..len
      BY <1>3
    <2> QED
      BY <1>6, <2>1
  <1>8. off + len = m
    BY <1>3
  <1>9. whole[m] = whole[off] * Room[len] + part[len]
    BY <1>7, <1>8
  <1> QED
    BY <1>9 DEF whole, part, len

LEMMA ZeroSums ==
  ASSUME NEW len \in Nat, NEW d \in [1..len -> Int], NEW off \in 0..len, \A i \in 1..off : d[i] = 0
  PROVE  Sums(d, len)[off] = 0
  <1> DEFINE sum == Sums(d, len)
             T == {i \in 0..off : sum[i] = 0}
  <1>1. sum[0] = 0 /\ \A i \in 1..len : sum[i] = sum[i-1] * Base + d[i]
    BY SumsRule
  <1> HIDE DEF sum
  <1>2. 0 \in T
    BY <1>1
  <1>3. ASSUME NEW i \in 0..off-1, i \in T
        PROVE  i + 1 \in T
    <2>1. i + 1 \in 1..len /\ i + 1 \in 1..off /\ (i + 1) - 1 = i /\ i + 1 \in 0..off
      OBVIOUS
    <2>2. sum[i+1] = sum[i] * Base + d[i+1] /\ sum[i] = 0 /\ d[i+1] = 0
      BY <1>1, <1>3, <2>1
    <2>3. sum[i+1] = 0 * Base + 0
      BY <2>2
    <2> QED
      BY <2>1, <2>3, BaseRule
  <1>4. \A i \in 0..off : i \in T
    <2> HIDE DEF T
    <2> QED
      BY <1>2, <1>3, 0 \in Int, off \in Int, RangeInduction, Zenon
  <1>5. off \in 0..off
    OBVIOUS
  <1> QED
    BY <1>4, <1>5 DEF sum

(* The sum of digits stands for the sum of numbers.                        *)
LEMMA SumsPlus ==
  ASSUME NEW len \in Nat, NEW d \in [1..len -> Int], NEW e \in [1..len -> Int],
         NEW f \in [1..len -> Int], \A i \in 1..len : f[i] = d[i] + e[i]
  PROVE  Sums(f, len)[len] = Sums(d, len)[len] + Sums(e, len)[len]
  <1> DEFINE sumd == Sums(d, len)
             sume == Sums(e, len)
             sumf == Sums(f, len)
             T == {i \in 0..len : sumf[i] = sumd[i] + sume[i]}
  <1>1. /\ sumd \in [0..len -> Int] /\ sumd[0] = 0
        /\ \A i \in 1..len : sumd[i] = sumd[i-1] * Base + d[i]
    BY SumsRule
  <1>2. /\ sume \in [0..len -> Int] /\ sume[0] = 0
        /\ \A i \in 1..len : sume[i] = sume[i-1] * Base + e[i]
    BY SumsRule
  <1>3. /\ sumf \in [0..len -> Int] /\ sumf[0] = 0
        /\ \A i \in 1..len : sumf[i] = sumf[i-1] * Base + f[i]
    BY SumsRule
  <1> HIDE DEF sumd, sume, sumf
  <1>4. 0 \in T
    BY <1>1, <1>2, <1>3
  <1>5. ASSUME NEW i \in 0..len-1, i \in T
        PROVE  i + 1 \in T
    <2> DEFINE x == sumd[i]
               y == sume[i]
               z == sumf[i]
               dx == d[i+1]
               ex == e[i+1]
    <2>1. i + 1 \in 1..len /\ (i + 1) - 1 = i /\ i + 1 \in 0..len /\ i \in 0..len
      OBVIOUS
    <2>2. x \in Int /\ y \in Int /\ z \in Int /\ dx \in Int /\ ex \in Int /\ Base \in Int
      BY <1>1, <1>2, <1>3, <2>1, BaseRule
    <2>3. sumd[i+1] = x * Base + dx
      BY <1>1, <2>1
    <2>4. sume[i+1] = y * Base + ex
      BY <1>2, <2>1
    <2>5. sumf[i+1] = z * Base + (dx + ex)
      BY <1>3, <2>1
    <2>6. z = x + y
      BY <1>5
    <2> HIDE DEF x, y, z, dx, ex
    <2>7. z * Base + (dx + ex) = (x * Base + dx) + (y * Base + ex)
      <3>1. (x + y) * Base = x * Base + y * Base
        BY <2>2
      <3> QED
        BY <2>2, <2>6, <3>1
    <2> QED
      BY <2>1, <2>3, <2>4, <2>5, <2>7
  <1>6. \A i \in 0..len : i \in T
    <2> HIDE DEF T
    <2> QED
      BY <1>4, <1>5, 0 \in Int, len \in Int, RangeInduction, Zenon
  <1>7. len \in 0..len
    OBVIOUS
  <1>8. sumf[len] = sumd[len] + sume[len]
    BY <1>6, <1>7
  <1> QED
    BY <1>8 DEF sumd, sume, sumf

LEMMA SumsMinus ==
  ASSUME NEW len \in Nat, NEW d \in [1..len -> Int], NEW e \in [1..len -> Int],
         NEW f \in [1..len -> Int], \A i \in 1..len : f[i] = d[i] - e[i]
  PROVE  Sums(f, len)[len] = Sums(d, len)[len] - Sums(e, len)[len]
  <1> DEFINE x == Sums(d, len)[len]
             y == Sums(e, len)[len]
             z == Sums(f, len)[len]
  <1>1. \A i \in 1..len : d[i] = f[i] + e[i]
    OBVIOUS
  <1>2. x = z + y
    BY <1>1, SumsPlus
  <1>3. x \in Int /\ y \in Int /\ z \in Int
    <2>1. len \in 0..len
      OBVIOUS
    <2> QED
      BY <2>1, SumsRule
  <1> HIDE DEF x, y, z
  <1>4. z = x - y
    BY <1>2, <1>3
  <1> QED
    BY <1>4 DEF x, y, z

LEMMA AlignedIsWords ==
  ASSUME NEW x \in Seq(Word), NEW len \in Nat
  PROVE  Aligned(x, len) \in [1..len -> Word] /\ Aligned(x, len) \in [1..len -> Int]
  <1>1. ASSUME NEW i \in 1..len
        PROVE  At(x, len, i) \in Word
    <2>1. CASE Len(x) - (len - i) < 1
      BY <2>1, BaseRule DEF At, Word
    <2>2. CASE ~(Len(x) - (len - i) < 1)
      <3>1. Len(x) - (len - i) \in 1..Len(x)
        BY <2>2
      <3>2. x[Len(x) - (len - i)] \in Word
        BY <3>1
      <3> QED
        BY <2>2, <3>2 DEF At
    <2> QED
      BY <2>1, <2>2
  <1>2. Aligned(x, len) \in [1..len -> Word]
    BY <1>1 DEF Aligned
  <1>3. Word \subseteq Int
    BY BaseRule DEF Word
  <1> HIDE DEF Word
  <1> QED
    BY <1>2, <1>3

(* Zeros in front do not change the number ...                             *)
LEMMA AlignedLong ==
  ASSUME NEW x \in Seq(Word), NEW len \in Nat, Len(x) <= len
  PROVE  Sums(Aligned(x, len), len)[len] = Value(x)
  <1> DEFINE t == Aligned(x, len)
             off == len - Len(x)
  <1>1. t \in [1..len -> Int]
    BY AlignedIsWords
  <1>2. off \in 0..len /\ len - off = Len(x) /\ Len(x) \in Nat
    OBVIOUS
  <1>3. \A i \in 1..off : t[i] = 0
    BY DEF Aligned, At
  <1>4. x \in [1..Len(x) -> Int] /\ Value(x) = Sums(x, Len(x))[Len(x)]
    BY ValueIsSum
  <1>5. ASSUME NEW i \in 1..len-off
        PROVE  x[i] = t[off+i]
    <2>1. off + i \in 1..len /\ Len(x) - (len - (off + i)) = i /\ ~(i < 1)
      OBVIOUS
    <2>2. t[off+i] = At(x, len, off + i)
      BY <2>1 DEF Aligned
    <2> HIDE DEF off
    <2> QED
      BY <2>1, <2>2 DEF At
  <1> HIDE DEF t, off
  <1>6. Sums(t, len)[off] = 0
    BY <1>1, <1>2, <1>3, ZeroSums
  <1>7. Sums(t, len)[len] = Sums(t, len)[off] * Room[len-off] + Sums(x, len - off)[len-off]
    <2>1. x \in [1..len-off -> Int]
      BY <1>2, <1>4
    <2> QED
      BY <1>1, <1>2, <1>5, <2>1, SumsSplit
  <1>8. Sums(t, len)[len] = 0 * Room[Len(x)] + Value(x)
    BY <1>2, <1>4, <1>6, <1>7
  <1>9. Value(x) \in Int /\ Room[Len(x)] \in Int
    <2>1. Len(x) \in 0..Len(x)
      BY <1>2
    <2> QED
      BY <1>2, <1>4, <2>1, SumsRule, RoomIsNat
  <1>10. Sums(t, len)[len] = Value(x)
    <2> DEFINE r == Room[Len(x)]
               v == Value(x)
    <2>1. r \in Int /\ v \in Int
      BY <1>9
    <2> HIDE DEF r, v
    <2>2. 0 * r + v = v
      BY <2>1
    <2> QED
      BY <1>8, <2>2 DEF r, v
  <1> QED
    BY <1>10 DEF t

(* ... and words cut off in front are a multiple of the room that the rest *)
(* has.                                                                    *)
LEMMA AlignedShort ==
  ASSUME NEW x \in Seq(Word), NEW len \in Nat, len <= Len(x)
  PROVE  \E high \in Nat : Value(x) = high * Room[len] + Sums(Aligned(x, len), len)[len]
  <1> DEFINE t == Aligned(x, len)
             off == Len(x) - len
  <1>1. t \in [1..len -> Int]
    BY AlignedIsWords
  <1>2. off \in 0..Len(x) /\ Len(x) - off = len /\ Len(x) \in Nat
    OBVIOUS
  <1>3. x \in [1..Len(x) -> Int] /\ Value(x) = Sums(x, Len(x))[Len(x)]
    BY ValueIsSum
  <1>4. ASSUME NEW i \in 1..Len(x)-off
        PROVE  t[i] = x[off+i]
    <2>1. i \in 1..len /\ Len(x) - (len - i) = off + i /\ ~(off + i < 1)
      OBVIOUS
    <2>2. t[i] = At(x, len, i)
      BY <2>1 DEF Aligned
    <2> HIDE DEF off
    <2> QED
      BY <2>1, <2>2 DEF At
  <1>5. Sums(x, Len(x))[off] \in Nat
    <2>1. x \in [1..Len(x) -> Word] /\ off \in Nat
      OBVIOUS
    <2>2. Sums(x, Len(x))[off] \in 0..Room[off]-1
      BY <1>2, <2>1, SumsFit
    <2> HIDE DEF off
    <2> QED
      BY <2>1, <2>2, RoomIsNat
  <1> HIDE DEF t, off
  <1>6. Sums(x, Len(x))[Len(x)] =
          Sums(x, Len(x))[off] * Room[Len(x)-off] + Sums(t, Len(x) - off)[Len(x)-off]
    <2>1. t \in [1..Len(x)-off -> Int]
      BY <1>1, <1>2
    <2> QED
      BY <1>2, <1>3, <1>4, <2>1, SumsSplit
  <1>7. Value(x) = Sums(x, Len(x))[off] * Room[len] + Sums(t, len)[len]
    BY <1>2, <1>3, <1>6
  <1> QED
    BY <1>5, <1>7 DEF t
-----------------------------------------------------------------------------
(* Comparison *)

LEMMA SumsSame ==
  ASSUME NEW len \in Nat, NEW d \in [1..len -> Int], NEW e \in [1..len -> Int],
         NEW off \in 0..len, \A i \in 1..off : d[i] = e[i]
  PROVE  Sums(d, len)[off] = Sums(e, len)[off]
  <1> DEFINE sumd == Sums(d, len)
             sume == Sums(e, len)
             T == {i \in 0..off : sumd[i] = sume[i]}
  <1>1. sumd[0] = 0 /\ \A i \in 1..len : sumd[i] = sumd[i-1] * Base + d[i]
    BY SumsRule
  <1>2. sume[0] = 0 /\ \A i \in 1..len : sume[i] = sume[i-1] * Base + e[i]
    BY SumsRule
  <1> HIDE DEF sumd, sume
  <1>3. 0 \in T
    BY <1>1, <1>2
  <1>4. ASSUME NEW i \in 0..off-1, i \in T
        PROVE  i + 1 \in T
    <2>1. i + 1 \in 1..len /\ i + 1 \in 1..off /\ (i + 1) - 1 = i /\ i + 1 \in 0..off
      OBVIOUS
    <2>2. sumd[i+1] = sumd[i] * Base + d[i+1] /\ sume[i+1] = sume[i] * Base + e[i+1]
      BY <1>1, <1>2, <2>1
    <2>3. sumd[i] = sume[i] /\ d[i+1] = e[i+1]
      BY <1>4, <2>1
    <2>4. sumd[i+1] = sume[i+1]
      BY <2>2, <2>3
    <2> QED
      BY <2>1, <2>4
  <1>5. \A i \in 0..off : i \in T
    <2> HIDE DEF T
    <2> QED
      BY <1>3, <1>4, 0 \in Int, off \in Int, RangeInduction, Zenon
  <1>6. off \in 0..off
    OBVIOUS
  <1> QED
    BY <1>5, <1>6 DEF sumd, sume

LEMMA LessOn ==
  ASSUME NEW x \in Int, NEW y \in Int, NEW base \in Nat, NEW dx \in 0..base-1, NEW dy \in 0..base-1,
         x < y \/ (x = y /\ dx < dy)
  PROVE  x * base + dx < y * base + dy
  <1>1. CASE x = y /\ dx < dy
    <2>1. x * base = y * base /\ x * base \in Int
      BY <1>1
    <2> QED
      BY <1>1, <2>1
  <1>2. CASE x < y
    <2>1. y - x - 1 \in Nat /\ (y - x - 1) * base >= 0 /\ (y - x - 1) * base = y * base - x * base - base
      BY <1>2
    <2> QED
      BY <2>1
  <1> QED
    BY <1>1, <1>2

(* The first word in which they differ decides.                            *)
LEMMA SumsLess ==
  ASSUME NEW len \in Nat, NEW d \in [1..len -> Word], NEW e \in [1..len -> Word],
         NEW first \in 1..len, \A i \in 1..first-1 : d[i] = e[i], d[first] < e[first]
  PROVE  Sums(d, len)[len] < Sums(e, len)[len]
  <1> DEFINE sumd == Sums(d, len)
             sume == Sums(e, len)
             T == {i \in first..len : sumd[i] < sume[i]}
  <1>1. d \in [1..len -> Int] /\ e \in [1..len -> Int]
    <2>1. Word \subseteq Int
      BY BaseRule DEF Word
    <2> HIDE DEF Word
    <2> QED
      BY <2>1
  <1>2. sumd \in [0..len -> Int] /\ \A i \in 1..len : sumd[i] = sumd[i-1] * Base + d[i]
    BY <1>1, SumsRule
  <1>3. sume \in [0..len -> Int] /\ \A i \in 1..len : sume[i] = sume[i-1] * Base + e[i]
    BY <1>1, SumsRule
  <1>4. sumd[first-1] = sume[first-1]
    <2>1. first - 1 \in 0..len
      OBVIOUS
    <2> QED
      BY <1>1, <2>1, SumsSame
  <1> HIDE DEF sumd, sume
  <1>5. ASSUME NEW i \in 1..len, sumd[i-1] < sume[i-1] \/ (sumd[i-1] = sume[i-1] /\ d[i] < e[i])
        PROVE  sumd[i] < sume[i]
    <2> DEFINE x == sumd[i-1]
               y == sume[i-1]
               dx == d[i]
               dy == e[i]
    <2>1. x \in Int /\ y \in Int
      <3>1. i - 1 \in 0..len
        OBVIOUS
      <3> QED
        BY <1>2, <1>3, <3>1
    <2>2. dx \in 0..Base-1 /\ dy \in 0..Base-1 /\ Base \in Nat
      BY BaseRule DEF Word
    <2>3. sumd[i] = x * Base + dx /\ sume[i] = y * Base + dy
      BY <1>2, <1>3
    <2>4. x < y \/ (x = y /\ dx < dy)
      BY <1>5
    <2> HIDE DEF x, y, dx, dy
    <2>5. x * Base + dx < y * Base + dy
      BY <2>1, <2>2, <2>4, LessOn
    <2> QED
      BY <2>3, <2>5
  <1>6. first \in T
    <2>1. sumd[first] < sume[first]
      BY <1>4, <1>5
    <2> QED
      BY <2>1
  <1>7. ASSUME NEW i \in first..len-1, i \in T
        PROVE  i + 1 \in T
    <2>1. i + 1 \in 1..len /\ (i + 1) - 1 = i /\ i + 1 \in first..len
      OBVIOUS
    <2>2. sumd[(i+1)-1] < sume[(i+1)-1]
      BY <1>7, <2>1
    <2>3. sumd[i+1] < sume[i+1]
      BY <1>5, <2>1, <2>2
    <2> QED
      BY <2>1, <2>3
  <1>8. \A i \in first..len : i \in T
    <2> HIDE DEF T
    <2> QED
      BY <1>6, <1>7, first \in Int, len \in Int, RangeInduction, Zenon
  <1>9. len \in first..len
    OBVIOUS
  <1>10. sumd[len] < sume[len]
    BY <1>8, <1>9
  <1> QED
    BY <1>10 DEF sumd, sume

LEMMA FirstExists ==
  ASSUME NEW len \in Nat, NEW D, \E i \in 1..len : i \in D
  PROVE  \E first \in 1..len : first \in D /\ \A j \in 1..first-1 : j \notin D
  <1> SUFFICES ASSUME \A first \in 1..len : first \in D => \E j \in 1..first-1 : j \in D
               PROVE  FALSE
    OBVIOUS
  <1> DEFINE T == {i \in 0..len : \A j \in 1..i : j \notin D}
  <1>1. 0 \in T
    OBVIOUS
  <1>2. ASSUME NEW i \in 0..len-1, i \in T
        PROVE  i + 1 \in T
    <2>1. i + 1 \in 1..len /\ (i + 1) - 1 = i /\ i + 1 \in 0..len
      OBVIOUS
    <2>2. \A j \in 1..i : j \notin D
      BY <1>2
    <2>3. i + 1 \notin D
      BY <2>1, <2>2
    <2>4. \A j \in 1..i+1 : j \notin D
      BY <2>2, <2>3
    <2> QED
      BY <2>1, <2>4
  <1>3. \A i \in 0..len : i \in T
    <2> HIDE DEF T
    <2> QED
      BY <1>1, <1>2, 0 \in Int, len \in Int, RangeInduction, Zenon
  <1>4. len \in 0..len
    OBVIOUS
  <1> QED
    BY <1>3, <1>4

(* bigNumCmp compares the numbers, whatever their lengths.                 *)
LEMMA CmpExact ==
  ASSUME NEW x \in Seq(Word), NEW y \in Seq(Word)
  PROVE  /\ Cmp(x, y) = -1 <=> Value(x) < Value(y)
         /\ Cmp(x, y) \in {-1, 0, 1}
         /\ Value(x) \in Nat /\ Value(y) \in Nat
  <1> DEFINE len == MaxLen(x, y)
             d == Aligned(x, len)
             e == Aligned(y, len)
             Differs(i) == At(x, len, i) # At(y, len, i)
             first == CHOOSE i \in 1..len : Differs(i) /\ \A j \in 1..i-1 : ~Differs(j)
  <1>1. len \in Nat /\ Len(x) <= len /\ Len(y) <= len
    BY DEF MaxLen
  <1>2. Cmp(x, y) = IF \A i \in 1..len : ~Differs(i) THEN 0
                    ELSE IF At(x, len, first) < At(y, len, first) THEN -1 ELSE 1
    BY DEF Cmp
  <1> HIDE DEF len
  <1>3. d \in [1..len -> Word] /\ e \in [1..len -> Word] /\ d \in [1..len -> Int] /\ e \in [1..len -> Int]
    BY <1>1, AlignedIsWords
  <1>4. Sums(d, len)[len] = Value(x) /\ Sums(e, len)[len] = Value(y)
    BY <1>1, AlignedLong
  <1>5. \A i \in 1..len : d[i] = At(x, len, i) /\ e[i] = At(y, len, i)
    BY DEF Aligned
  <1> HIDE DEF d, e
  <1>6. Value(x) \in Nat /\ Value(y) \in Nat
    <2>1. len \in 0..len /\ Room[len] \in Nat
      BY <1>1, RoomIsNat
    <2>2. Sums(d, len)[len] \in 0..Room[len]-1 /\ Sums(e, len)[len] \in 0..Room[len]-1
      BY <1>1, <1>3, <2>1, SumsFit
    <2> QED
      BY <1>4, <2>1, <2>2
  <1>7. CASE \A i \in 1..len : ~Differs(i)
    <2>1. \A i \in 1..len : d[i] = e[i]
      BY <1>5, <1>7
    <2>2. Value(x) = Value(y)
      <3>1. len \in 0..len
        BY <1>1
      <3> QED
        BY <1>1, <1>3, <1>4, <2>1, <3>1, SumsSame
    <2>3. Cmp(x, y) = 0
      BY <1>2, <1>7
    <2> QED
      BY <1>6, <2>2, <2>3
  <1>8. CASE \E i \in 1..len : Differs(i)
    <2>1. first \in 1..len /\ Differs(first) /\ \A j \in 1..first-1 : ~Differs(j)
      <3> DEFINE D == {i \in 1..len : Differs(i)}
      <3>1. \E i \in 1..len : i \in D
        BY <1>8
      <3>2. \E k \in 1..len : k \in D /\ \A j \in 1..k-1 : j \notin D
        <4> HIDE DEF D
        <4> QED
          BY <1>1, <3>1, FirstExists
      <3>3. \E k \in 1..len : Differs(k) /\ \A j \in 1..k-1 : ~Differs(j)
        <4>1. PICK k \in 1..len : k \in D /\ \A j \in 1..k-1 : j \notin D
          BY <3>2
        <4>2. \A j \in 1..k-1 : j \in 1..len
          BY <1>1
        <4> QED
          BY <4>1, <4>2
      <3> HIDE DEF Differs
      <3> QED
        BY <3>3
    <2> HIDE DEF first
    <2>2. \A j \in 1..first-1 : d[j] = e[j]
      <3>1. \A j \in 1..first-1 : j \in 1..len
        BY <1>1, <2>1
      <3> QED
        BY <1>5, <2>1, <3>1
    <2>3. d[first] = At(x, len, first) /\ e[first] = At(y, len, first) /\ d[first] # e[first]
      BY <1>5, <2>1
    <2>4. d[first] \in Int /\ e[first] \in Int
      BY <1>3, <2>1
    <2>5. CASE d[first] < e[first]
      <3>1. Value(x) < Value(y)
        BY <1>1, <1>3, <1>4, <2>1, <2>2, <2>5, SumsLess
      <3>2. Cmp(x, y) = -1
        BY <1>2, <1>8, <2>3, <2>5 DEF first
      <3> QED
        BY <1>6, <3>1, <3>2
    <2>6. CASE e[first] < d[first]
      <3>1. Value(y) < Value(x)
        <4>1. \A j \in 1..first-1 : e[j] = d[j]
          BY <2>2
        <4> QED
          BY <1>1, <1>3, <1>4, <2>1, <2>6, <4>1, SumsLess
      <3>2. ~(d[first] < e[first])
        BY <2>4, <2>6
      <3>3. Cmp(x, y) = 1
        BY <1>2, <1>8, <2>3, <3>2 DEF first
      <3> QED
        BY <1>6, <3>1, <3>3
    <2> QED
      BY <2>3, <2>4, <2>5, <2>6
  <1> QED
    BY <1>7, <1>8
-----------------------------------------------------------------------------
(* Sums, differences and shifts *)

LEMMA NumeralLen ==
  ASSUME NEW x \in Numeral
  PROVE  x \in Seq(Word) /\ Len(x) \in Nat \ {0} /\ x # Exit
  BY DEF Numeral, Exit

LEMMA ValueFits ==
  ASSUME NEW x \in Seq(Word), NEW len \in Nat, Len(x) <= len
  PROVE  Value(x) \in 0..Room[len]-1
  <1>1. len \in 0..len
    OBVIOUS
  <1>2. Sums(Aligned(x, len), len)[len] \in 0..Room[len]-1
    BY <1>1, AlignedIsWords, SumsFit
  <1> QED
    BY <1>2, AlignedLong

LEMMA AddExact ==
  ASSUME NEW x \in Numeral, NEW y \in Numeral, NEW len \in Nat, Len(x) <= len, Len(y) <= len
  PROVE  Holds(Add(x, y, len), Value(x) + Value(y), len)
  <1> DEFINE d == Aligned(x, len)
             e == Aligned(y, len)
             f == [i \in 1..len |-> At(x, len, i) + At(y, len, i)]
  <1>1. x \in Seq(Word) /\ y \in Seq(Word) /\ Len(x) \in Nat \ {0} /\ Len(y) \in Nat \ {0} /\ x # Exit /\ y # Exit
    BY NumeralLen
  <1>2. Add(x, y, len) = Ripple(f)
    BY <1>1 DEF Add
  <1>3. \A i \in 1..len : f[i] = d[i] + e[i]
    BY DEF Aligned
  <1>4. DOMAIN f = 1..len /\ f = [i \in 1..len |-> f[i]]
    OBVIOUS
  <1>5. d \in [1..len -> Int] /\ e \in [1..len -> Int]
    BY <1>1, AlignedIsWords
  <1> HIDE DEF d, e, f
  <1>6. f \in [1..len -> Int]
    BY <1>3, <1>4, <1>5
  <1>7. Sums(f, len)[len] = Sums(d, len)[len] + Sums(e, len)[len]
    BY <1>3, <1>5, <1>6, SumsPlus
  <1>8. Sums(d, len)[len] = Value(x) /\ Sums(e, len)[len] = Value(y)
    BY <1>1, AlignedLong DEF d, e
  <1>9. len \in Nat \ {0}
    BY <1>1
  <1>10. Holds(Ripple(f), Sums(f, len)[len], len)
    BY <1>6, <1>9, RippleExact
  <1> QED
    BY <1>2, <1>7, <1>8, <1>10

(* The last words of y, where it has more than the destination, are all    *)
(* that counts of a number that is not above x.                            *)
LEMMA DigitsTaken ==
  ASSUME NEW x \in Numeral, NEW y \in Numeral, NEW len \in Nat,
         Len(x) <= len, Value(y) <= Value(x) \/ Len(y) <= len
  PROVE  Holds(Ripple([i \in 1..len |-> At(x, len, i) - At(y, len, i)]), Value(x) - Value(y), len)
  <1> DEFINE d == Aligned(x, len)
             e == Aligned(y, len)
             f == [i \in 1..len |-> At(x, len, i) - At(y, len, i)]
  <1>1. x \in Seq(Word) /\ y \in Seq(Word) /\ Len(x) \in Nat \ {0} /\ Len(y) \in Nat \ {0}
    BY NumeralLen
  <1>2. \A i \in 1..len : f[i] = d[i] - e[i]
    BY DEF Aligned
  <1>3. DOMAIN f = 1..len /\ f = [i \in 1..len |-> f[i]]
    OBVIOUS
  <1>4. d \in [1..len -> Int] /\ e \in [1..len -> Int] /\ e \in [1..len -> Word]
    BY <1>1, AlignedIsWords
  <1> HIDE DEF d, e, f
  <1>5. f \in [1..len -> Int]
    BY <1>2, <1>3, <1>4
  <1>6. Sums(f, len)[len] = Sums(d, len)[len] - Sums(e, len)[len]
    BY <1>2, <1>4, <1>5, SumsMinus
  <1>7. Sums(d, len)[len] = Value(x)
    BY <1>1, AlignedLong DEF d
  <1>8. Sums(e, len)[len] = Value(y)
    <2>1. CASE Len(y) <= len
      BY <1>1, <2>1, AlignedLong DEF e
    <2>2. CASE ~(Len(y) <= len)
      <3>1. len <= Len(y) /\ Value(y) <= Value(x)
        BY <1>1, <2>2
      <3>2. PICK high \in Nat : Value(y) = high * Room[len] + Sums(e, len)[len]
        BY <1>1, <3>1, AlignedShort DEF e
      <3> DEFINE room == Room[len]
                 low == Sums(e, len)[len]
                 v == Value(y)
                 u == Value(x)
      <3>3. u \in 0..room-1
        BY <1>1, ValueFits
      <3>4. low \in 0..room-1 /\ room \in Nat \ {0} /\ v \in Nat
        <4>1. len \in 0..len
          OBVIOUS
        <4> QED
          BY <1>1, <1>4, <4>1, SumsFit, RoomIsNat, CmpExact
      <3>5. v = high * room + low /\ v <= u
        BY <3>1, <3>2
      <3> HIDE DEF room, low, v, u
      <3>6. v \in 0..room-1
        BY <3>3, <3>4, <3>5
      <3>7. high = 0
        BY <3>4, <3>5, <3>6, NoCarry
      <3>8. high * room = 0
        BY <3>4, <3>7
      <3>9. v = low
        BY <3>4, <3>5, <3>8
      <3> QED
        BY <3>9 DEF v, low
    <2> QED
      BY <2>1, <2>2
  <1>9. len \in Nat \ {0}
    BY <1>1
  <1>10. Holds(Ripple(f), Sums(f, len)[len], len)
    BY <1>5, <1>9, RippleExact
  <1>11. Holds(Ripple(f), Value(x) - Value(y), len)
    BY <1>6, <1>7, <1>8, <1>10
  <1> QED
    BY <1>11 DEF f

LEMMA SubExact ==
  ASSUME NEW x \in Numeral, NEW y \in Numeral, NEW len \in Nat, Len(x) <= len
  PROVE  Holds(Sub(x, y, len), Value(x) - Value(y), len)
  <1>1. x \in Seq(Word) /\ y \in Seq(Word) /\ Len(x) \in Nat \ {0} /\ x # Exit /\ y # Exit
    BY NumeralLen
  <1>2. Value(x) \in Nat /\ Value(y) \in Nat /\ (Cmp(x, y) = -1 <=> Value(x) < Value(y))
    BY <1>1, CmpExact
  <1>3. CASE Value(x) < Value(y)
    <2>1. Sub(x, y, len) = Exit
      BY <1>2, <1>3 DEF Sub
    <2>2. Value(x) - Value(y) \notin 0..Room[len]-1
      BY <1>2, <1>3
    <2> QED
      BY <2>1, <2>2 DEF Holds
  <1>4. CASE ~(Value(x) < Value(y))
    <2>1. Sub(x, y, len) = Ripple([i \in 1..len |-> At(x, len, i) - At(y, len, i)])
      BY <1>1, <1>2, <1>4 DEF Sub
    <2>2. Value(y) <= Value(x)
      BY <1>2, <1>4
    <2> QED
      BY <2>1, <2>2, DigitsTaken
  <1> QED
    BY <1>3, <1>4

LEMMA OneWord ==
  ASSUME NEW w \in Word
  PROVE  <<w>> \in Numeral /\ Value(<<w>>) = w
  <1> DEFINE x == <<w>>
  <1>1. x \in Numeral /\ Len(x) = 1 /\ x[1] = w
    BY DEF Numeral
  <1>2. x \in [1..1 -> Int] /\ Value(x) = Sums(x, 1)[1]
    <2>1. x \in Seq(Word)
      BY <1>1 DEF Numeral
    <2> HIDE DEF x
    <2> QED
      BY <1>1, <2>1, ValueIsSum
  <1> HIDE DEF x
  <1>3. Sums(x, 1)[1] = Sums(x, 1)[0] * Base + w /\ Sums(x, 1)[0] = 0
    <2> DEFINE sum == Sums(x, 1)
    <2>1. sum[0] = 0 /\ \A i \in 1..1 : sum[i] = sum[i-1] * Base + x[i]
      BY <1>2, 1 \in Nat, SumsRule
    <2> HIDE DEF sum
    <2>2. sum[1] = sum[1-1] * Base + x[1]
      BY <2>1
    <2> QED
      BY <1>1, <2>1, <2>2 DEF sum
  <1>4. 0 * Base + w = w
    BY BaseRule DEF Word
  <1> QED
    BY <1>1, <1>2, <1>3, <1>4 DEF x

LEMMA SubLittleExact ==
  ASSUME NEW x \in Numeral
  PROVE  Holds(SubLittle(x, 1, Len(x)), Value(x) - 1, Len(x))
  <1>1. Len(x) \in Nat \ {0}
    BY NumeralLen
  <1>2. 1 \in Word
    BY BaseRule DEF Word
  <1>3. <<1>> \in Numeral /\ Value(<<1>>) = 1 /\ Len(<<1>>) <= Len(x)
    <2>1. Len(<<1>>) = 1
      OBVIOUS
    <2> QED
      BY <1>1, <1>2, <2>1, OneWord
  <1>4. Holds(Ripple([i \in 1..Len(x) |-> At(x, Len(x), i) - At(<<1>>, Len(x), i)]),
              Value(x) - Value(<<1>>), Len(x))
    <2>1. Len(x) \in Nat /\ Len(x) <= Len(x)
      BY <1>1
    <2> QED
      BY <1>3, <2>1, DigitsTaken
  <1> QED
    BY <1>3, <1>4 DEF SubLittle

LEMMA HalfOn ==
  ASSUME NEW x \in Int, NEW y \in Int, NEW low \in Int, NEW half \in Int, NEW word \in Int, NEW rest \in Int,
         NEW last \in Int, x = 2 * y + low, word = 2 * rest + last
  PROVE  x * (2 * half) + word = 2 * (y * (2 * half) + (rest + low * half)) + last
  <1>1. (2 * y + low) * (2 * half) = 2 * (y * (2 * half)) + 2 * (low * half)
    OBVIOUS
  <1> DEFINE p == y * (2 * half)
             q == low * half
             r == x * (2 * half)
  <1>2. p \in Int /\ q \in Int /\ r \in Int /\ r = 2 * p + 2 * q
    BY <1>1
  <1> HIDE DEF p, q, r
  <1>3. r + word = 2 * (p + (rest + q)) + last
    BY <1>2
  <1> QED
    BY <1>3 DEF p, q, r

(* The last bit of each word goes to the front of the next one.            *)
LEMMA RShiftExact ==
  ASSUME NEW x \in Numeral
  PROVE  Holds(RShift(x, 1), Value(x) \div 2, Len(x))
  <1> DEFINE len == Len(x)
             r == RShift(x, 1)
             half == TwoTo[W-1]
             Last(i) == IF i = 0 THEN 0 ELSE x[i] % 2
             sumx == Sums(x, len)
             sumr == Sums(r, len)
             T == {i \in 0..len : sumx[i] = 2 * sumr[i] + Last(i)}
  <1>1. x \in Seq(Word) /\ len \in Nat \ {0} /\ x \in [1..len -> Word] /\ x \in [1..len -> Int]
    BY NumeralLen, ValueIsSum
  <1>2. half \in Nat \ {0} /\ Base = 2 * half /\ half \in Int
    BY BaseIsEven
  <1>3. TwoTo[1] = 2
    <2>1. 1 \in 1..W /\ 1 - 1 = 0
      BY WordAssumption
    <2> QED
      BY <2>1, TwoToRule
  <1>4. r = [i \in 1..len |-> (x[i] \div 2) + (IF i = 1 THEN 0 ELSE (x[i-1] % 2) * half)]
    BY <1>3 DEF RShift
  <1> HIDE DEF len, r, half
  <1>5. ASSUME NEW i \in 1..len
        PROVE  /\ r[i] = (x[i] \div 2) + Last(i-1) * half
               /\ r[i] \in Word
               /\ x[i] \in Int /\ x[i] \div 2 \in Int /\ x[i] % 2 \in {0, 1}
               /\ x[i] = 2 * (x[i] \div 2) + (x[i] % 2)
    <2>1. x[i] \in 0..Base-1
      BY <1>1 DEF Word
    <2> DEFINE w == x[i]
               rest == w \div 2
               last == w % 2
    <2>2. w \in 0..2*half-1
      BY <1>2, <2>1
    <2>3. w \in Int /\ rest \in 0..half-1 /\ last \in {0, 1} /\ w = 2 * rest + last
      <3> HIDE DEF w
      <3> QED
        BY <1>2, <2>2
    <2>4. Last(i-1) \in {0, 1}
      <3>1. CASE i = 1
        BY <3>1
      <3>2. CASE i # 1
        <4>1. i - 1 \in 1..len /\ i - 1 # 0
          BY <1>1, <3>2
        <4>2. x[i-1] \in Int
          BY <1>1, <4>1
        <4> QED
          BY <4>1, <4>2
      <3> QED
        BY <3>1, <3>2
    <2>5. r[i] = rest + Last(i-1) * half
      <3>1. CASE i = 1
        <4>1. r[i] = rest + 0 /\ Last(i-1) = 0
          BY <1>4, <3>1
        <4>2. 0 * half = 0
          BY <1>2
        <4> QED
          BY <4>1, <4>2
      <3>2. CASE i # 1
        <4>1. i - 1 # 0
          BY <1>1, <3>2
        <4> QED
          BY <1>4, <3>2, <4>1
      <3> QED
        BY <3>1, <3>2
    <2> HIDE DEF rest, last, w, Last
    <2>6. rest + Last(i-1) * half \in 0..2*half-1
      <3>1. Last(i-1) * half \in {0, half}
        BY <1>2, <2>4
      <3> QED
        BY <1>2, <2>3, <3>1
    <2>7. r[i] \in Word
      BY <1>2, <2>5, <2>6 DEF Word
    <2> QED
      BY <2>3, <2>5, <2>7 DEF rest, last, w
  <1>6. r \in [1..len -> Word] /\ r \in [1..len -> Int]
    <2>1. r = [i \in 1..len |-> r[i]]
      BY <1>4
    <2>2. Word \subseteq Int
      BY BaseRule DEF Word
    <2> HIDE DEF Word
    <2> QED
      BY <1>5, <2>1, <2>2
  <1>7. /\ sumx \in [0..len -> Int] /\ sumx[0] = 0
        /\ \A i \in 1..len : sumx[i] = sumx[i-1] * Base + x[i]
    BY <1>1, SumsRule
  <1>8. /\ sumr \in [0..len -> Int] /\ sumr[0] = 0
        /\ \A i \in 1..len : sumr[i] = sumr[i-1] * Base + r[i]
    BY <1>1, <1>6, SumsRule
  <1> HIDE DEF sumx, sumr
  <1>9. 0 \in T
    BY <1>1, <1>7, <1>8
  <1>10. ASSUME NEW i \in 0..len-1, i \in T
         PROVE  i + 1 \in T
    <2>1. i + 1 \in 1..len /\ (i + 1) - 1 = i /\ i + 1 # 0 /\ i \in 0..len /\ i + 1 \in 0..len
      BY <1>1
    <2> DEFINE u == sumx[i]
               v == sumr[i]
               low == Last(i)
               word == x[i+1]
               rest == x[i+1] \div 2
               last == x[i+1] % 2
    <2>2. u \in Int /\ v \in Int
      BY <1>7, <1>8, <2>1
    <2>3. /\ r[i+1] = rest + low * half
          /\ word \in Int /\ rest \in Int /\ last \in Int
          /\ word = 2 * rest + last
      <3>1. /\ r[i+1] = rest + Last((i+1)-1) * half
            /\ word \in Int /\ rest \in Int /\ last \in {0, 1}
            /\ word = 2 * rest + last
        BY <1>5, <2>1
      <3> QED
        BY <2>1, <3>1
    <2>4. low \in Int
      <3>1. CASE i = 0
        BY <3>1
      <3>2. CASE i # 0
        <4>1. i \in 1..len
          BY <1>1, <3>2
        <4> QED
          BY <1>5, <3>2, <4>1
      <3> QED
        BY <3>1, <3>2
    <2>5. sumx[i+1] = u * Base + word /\ sumr[i+1] = v * Base + r[i+1]
      BY <1>7, <1>8, <2>1
    <2>6. u = 2 * v + low
      BY <1>10
    <2>7. Last(i+1) = last
      BY <2>1
    <2> HIDE DEF u, v, low, word, rest, last, Last
    <2>8. u * (2 * half) + word = 2 * (v * (2 * half) + (rest + low * half)) + last
      BY <1>2, <2>2, <2>3, <2>4, <2>6, HalfOn
    <2>9. sumx[i+1] = 2 * sumr[i+1] + Last(i+1)
      BY <1>2, <2>3, <2>5, <2>7, <2>8
    <2> QED
      BY <2>1, <2>9
  <1>11. \A i \in 0..len : i \in T
    <2> HIDE DEF T
    <2> QED
      BY <1>1, <1>9, <1>10, 0 \in Int, len \in Int, RangeInduction, Zenon
  <1>12. sumx[len] = 2 * sumr[len] + (x[len] % 2) /\ x[len] % 2 \in {0, 1}
    <2>1. len \in 0..len /\ len \in 1..len /\ len # 0
      BY <1>1
    <2>2. sumx[len] = 2 * sumr[len] + Last(len)
      BY <1>11, <2>1
    <2> QED
      BY <1>5, <2>1, <2>2
  <1>13. Value(x) = sumx[len]
    BY <1>1, ValueIsSum DEF sumx, len
  <1>14. r \in Seq(Word) /\ Len(r) = len
    BY <1>1, <1>6
  <1>15. Value(r) = sumr[len]
    BY <1>14, ValueIsSum DEF sumr
  <1>16. Value(r) \in 0..Room[len]-1
    BY <1>1, <1>14, ValueFits
  <1>17. Value(x) \div 2 = Value(r)
    <2> DEFINE v == sumr[len]
               last == x[len] % 2
    <2>1. v \in Int /\ last \in {0, 1} /\ sumx[len] = 2 * v + last
      BY <1>1, <1>8, <1>12
    <2> HIDE DEF v, last
    <2>2. (2 * v + last) \div 2 = v
      BY <2>1
    <2> QED
      BY <1>13, <1>15, <2>1, <2>2 DEF v
  <1> QED
    BY <1>14, <1>16, <1>17 DEF Holds, len, r
-----------------------------------------------------------------------------
(* One step of the long division *)

LEMMA DivisionUnique ==
  ASSUME NEW q \in Int, NEW y \in Nat \ {0}, NEW r \in 0..y-1
  PROVE  (q * y + r) \div y = q /\ (q * y + r) % y = r
  <1> DEFINE x == q * y + r
             p == x \div y
             s == x % y
  <1>1. x \in Int
    OBVIOUS
  <1>2. s \in 0..y-1 /\ p \in Int /\ x = p * y + s
    <2> HIDE DEF x
    <2> QED
      BY <1>1, Division
  <1>3. q * y + r = p * y + s
    BY <1>2
  <1> HIDE DEF x, p, s
  <1>4. (p - q) * y = p * y - q * y
    BY <1>2
  <1>5. (p - q) * y + s \in 0..y-1
    BY <1>2, <1>3, <1>4
  <1>6. p - q = 0
    BY <1>2, <1>5, NoCarry
  <1>7. p = q
    BY <1>2, <1>6
  <1>8. s = r
    BY <1>2, <1>3, <1>7
  <1> QED
    BY <1>7, <1>8 DEF x, p, s

LEMMA DoubleExact ==
  ASSUME NEW x \in Numeral
  PROVE  Holds(LShift(x, 1), 2 * Value(x), Len(x))
  <1> DEFINE len == Len(x)
             f == [i \in 1..len |-> x[i] * TwoTo[1]]
  <1>1. len \in Nat \ {0} /\ x \in [1..len -> Int] /\ Value(x) = Sums(x, len)[len]
    BY NumeralLen, ValueIsSum
  <1>2. TwoTo[1] = 2
    <2>1. 1 \in 1..W /\ 1 - 1 = 0
      BY WordAssumption
    <2> QED
      BY <2>1, TwoToRule
  <1>3. LShift(x, 1) = Ripple(f)
    BY DEF LShift
  <1> HIDE DEF len
  <1>4. f \in [1..len -> Int] /\ \A i \in 1..len : f[i] = x[i] + x[i]
    BY <1>1, <1>2
  <1> HIDE DEF f
  <1>5. Sums(f, len)[len] = Value(x) + Value(x)
    <2>1. len \in Nat /\ Sums(f, len)[len] = Sums(x, len)[len] + Sums(x, len)[len]
      BY <1>1, <1>4, SumsPlus
    <2> QED
      BY <1>1, <2>1
  <1>6. Value(x) \in Int
    <2>1. len \in 0..len
      BY <1>1
    <2> QED
      BY <1>1, <2>1, SumsRule
  <1>7. Value(x) + Value(x) = 2 * Value(x)
    BY <1>6
  <1>8. Holds(Ripple(f), Sums(f, len)[len], len)
    BY <1>1, <1>4, RippleExact
  <1> QED
    BY <1>3, <1>5, <1>7, <1>8 DEF len

LEMMA LastWord ==
  ASSUME NEW x \in Numeral
  PROVE  /\ Value(x) = Sums(x, Len(x))[Len(x)-1] * Base + x[Len(x)]
         /\ Sums(x, Len(x))[Len(x)-1] \in Int
  <1> DEFINE len == Len(x)
  <1>1. len \in Nat \ {0} /\ x \in [1..len -> Int] /\ Value(x) = Sums(x, len)[len]
    BY NumeralLen, ValueIsSum
  <1> HIDE DEF len
  <1>2. len \in 1..len /\ len - 1 \in 0..len
    BY <1>1
  <1> QED
    BY <1>1, <1>2, SumsRule DEF len

(* Shifting makes room for a bit.                                          *)
LEMMA ShiftedExact ==
  ASSUME NEW x \in Numeral, NEW bit \in {0, 1}, 2 * Value(x) + bit < Room[Len(x)]
  PROVE  /\ Shifted(x, bit) \in Numeral
         /\ Len(Shifted(x, bit)) = Len(x)
         /\ Value(Shifted(x, bit)) = 2 * Value(x) + bit
  <1> DEFINE len == Len(x)
             z == LShift(x, 1)
             y == [z EXCEPT ![Len(z)] = @ + bit]
             half == TwoTo[W-1]
             front == Sums(z, len)[len-1]
             v == Value(x)
             last == z[len]
  <1>1. len \in Nat \ {0} /\ v \in Nat
    BY NumeralLen, CmpExact
  <1>2. 2 * v \in 0..Room[len]-1
    <2>1. Room[len] \in Nat
      BY <1>1, RoomIsNat
    <2> HIDE DEF v
    <2> QED
      BY <1>1, <2>1 DEF v
  <1>3. z \in Seq(Word) /\ Len(z) = len /\ Value(z) = 2 * v
    BY <1>2, DoubleExact DEF Holds
  <1>4. Shifted(x, bit) = y
    <2>1. z # Exit
      BY <1>1, <1>3 DEF Exit
    <2> HIDE DEF z
    <2> QED
      BY <2>1 DEF Shifted, SetLast, z
  <1> HIDE DEF len, z
  <1>5. z \in Numeral
    BY <1>1, <1>3 DEF Numeral
  <1>6. 2 * v = front * Base + last /\ front \in Int
    BY <1>3, <1>5, LastWord
  <1>7. last \in 0..Base-1
    <2>1. len \in 1..Len(z)
      BY <1>1, <1>3
    <2>2. z[len] \in Word
      BY <1>3, <2>1
    <2> QED
      BY <2>2 DEF Word
  <1>8. half \in Int /\ Base = 2 * half /\ Base \in Nat
    BY BaseIsEven
  <1>9. last + bit \in 0..Base-1
    <2> HIDE DEF half, front, v, last
    <2>1. front * Base = 2 * (front * half)
      BY <1>6, <1>8
    <2> DEFINE p == front * half
    <2>2. p \in Int
      BY <1>6, <1>8
    <2>3. last = 2 * (v - p)
      BY <1>1, <1>6, <1>7, <2>1, <2>2
    <2> HIDE DEF p
    <2> QED
      BY <1>1, <1>7, <1>8, <2>2, <2>3
  <1>10. /\ y \in [1..len -> Word]
         /\ y[len] = last + bit
         /\ \A i \in 1..len-1 : y[i] = z[i]
    <2>1. len \in 1..len /\ z \in [1..len -> Word] /\ last + bit \in Word
      <3>1. len \in 1..len
        BY <1>1
      <3>2. z \in [1..len -> Word]
        BY <1>3
      <3>3. last + bit \in Word
        BY <1>9 DEF Word
      <3> QED
        BY <3>1, <3>2, <3>3
    <2>2. y = [z EXCEPT ![len] = @ + bit]
      BY <1>3
    <2> HIDE DEF y
    <2> QED
      BY <1>1, <2>1, <2>2
  <1> HIDE DEF y
  <1>11. y \in Seq(Word) /\ Len(y) = len /\ y \in Numeral
    <2>1. y \in Seq(Word) /\ Len(y) = len
      BY <1>1, <1>10
    <2> QED
      BY <1>1, <2>1 DEF Numeral
  <1>12. Sums(y, len)[len-1] = front
    <2>1. y \in [1..len -> Int] /\ z \in [1..len -> Int]
      BY <1>3, <1>11, ValueIsSum
    <2>2. len - 1 \in 0..len
      BY <1>1
    <2> QED
      BY <1>1, <1>10, <2>1, <2>2, SumsSame
  <1>13. Value(y) = front * Base + (last + bit)
    BY <1>10, <1>11, <1>12, LastWord
  <1>14. Value(y) = 2 * v + bit
    <2> HIDE DEF half, front, v, last
    <2> DEFINE p == front * Base
    <2>1. p \in Int
      BY <1>6, <1>8
    <2>2. Value(y) = p + (last + bit) /\ 2 * v = p + last
      BY <1>6, <1>13
    <2> HIDE DEF p
    <2> QED
      BY <1>1, <1>7, <2>1, <2>2
  <1> QED
    BY <1>4, <1>11, <1>14 DEF len, v

(* What a remainder is while bits are shifted into it                      *)
Remainder(m) == {x \in [1..Len(m)+1 -> Word] : Value(x) < Value(m)}

LEMMA RemainderIs ==
  ASSUME NEW m \in Numeral, NEW x \in Remainder(m)
  PROVE  /\ x \in Numeral /\ Len(x) = Len(m) + 1
         /\ Value(x) \in Nat /\ Value(m) \in Nat /\ Value(x) < Value(m)
  <1>1. x \in [1..Len(m)+1 -> Word] /\ Value(x) < Value(m)
    BY DEF Remainder
  <1>2. m \in Seq(Word) /\ Len(m) \in Nat
    BY NumeralLen
  <1>3. x \in Seq(Word) /\ Len(x) = Len(m) + 1
    BY <1>1, <1>2
  <1>4. x \in Numeral
    BY <1>2, <1>3 DEF Numeral
  <1> QED
    BY <1>1, <1>2, <1>3, <1>4, CmpExact

(* The extra word of the remainder is enough for every shift, and what is  *)
(* reduced is below the divisor again.                                     *)
LEMMA DivisionStep ==
  ASSUME NEW m \in Numeral, NEW x \in Remainder(m), NEW bit \in {0, 1}
  PROVE  LET s == Shifted(x, bit)
             v == 2 * Value(x) + bit
         IN  /\ Reduced(s, m) \in Remainder(m)
             /\ Cmp(s, m) = -1 <=> v < Value(m)
             /\ Value(Reduced(s, m)) = IF v < Value(m) THEN v ELSE v - Value(m)
  <1> DEFINE s == Shifted(x, bit)
             v == 2 * Value(x) + bit
             len == Len(m)
             u == Value(x)
             w == Value(m)
             room == Room[len]
  <1>1. x \in Numeral /\ Len(x) = len + 1 /\ u \in Nat /\ w \in Nat /\ u < w
    BY RemainderIs
  <1>2. m \in Seq(Word) /\ len \in Nat \ {0} /\ len <= len
    BY NumeralLen
  <1>3. w \in 0..room-1 /\ room \in Nat
    BY <1>2, ValueFits, RoomIsNat
  <1>4. v \in Nat /\ v < Room[len+1] /\ v < 2 * w
    <2>1. Room[len+1] = room * Base
      BY <1>2, RoomStep
    <2> HIDE DEF u, w, room, len
    <2>2. 2 * u + bit \in Nat /\ 2 * u + bit < 2 * w /\ 2 * w < 2 * room
      BY <1>1, <1>3
    <2>3. 2 * room <= room * Base
      <3>1. Base - 2 \in Nat /\ room * (Base - 2) >= 0 /\ room * (Base - 2) = room * Base - 2 * room
        BY <1>3, BaseRule
      <3>2. room * Base \in Int
        BY <1>3, BaseRule
      <3> QED
        BY <1>3, <3>1, <3>2
    <2>4. room * Base \in Int
      BY <1>3, BaseRule
    <2> QED
      BY <1>3, <2>1, <2>2, <2>3, <2>4 DEF u
  <1>5. s \in Numeral /\ Len(s) = len + 1 /\ Value(s) = v
    <2>1. 2 * Value(x) + bit < Room[Len(x)]
      BY <1>1, <1>4
    <2> QED
      BY <1>1, <2>1, ShiftedExact
  <1> HIDE DEF s
  <1>6. s \in Seq(Word) /\ s # Exit /\ Len(s) \in Nat
    BY <1>5, NumeralLen
  <1>7. Cmp(s, m) = -1 <=> v < w
    BY <1>2, <1>5, <1>6, CmpExact
  <1>8. CASE v < w
    <2>1. Reduced(s, m) = s
      BY <1>6, <1>7, <1>8 DEF Reduced
    <2>2. s \in Remainder(m)
      <3>1. s \in [1..len+1 -> Word]
        BY <1>5, <1>6
      <3> QED
        BY <1>5, <1>8, <3>1 DEF Remainder
    <2> QED
      BY <1>5, <1>7, <1>8, <2>1, <2>2 DEF s
  <1>9. CASE ~(v < w)
    <2>1. Reduced(s, m) = Sub(s, m, Len(s))
      BY <1>6, <1>7, <1>9 DEF Reduced
    <2> DEFINE y == Sub(s, m, Len(s))
    <2>2. Holds(y, v - w, len + 1)
      BY <1>5, <1>6, SubExact
    <2>3. v - w \in 0..Room[len+1]-1
      <3>1. Room[len+1] \in Nat
        BY <1>2, RoomIsNat
      <3> HIDE DEF v, w
      <3> QED
        BY <1>1, <1>4, <1>9, <3>1 DEF w
    <2> HIDE DEF y
    <2>4. y \in Seq(Word) /\ Len(y) = len + 1 /\ Value(y) = v - w
      BY <2>2, <2>3 DEF Holds
    <2>5. v - w < w
      <3> HIDE DEF v, w
      <3> QED
        BY <1>1, <1>4, <1>9 DEF w
    <2>6. y \in Remainder(m)
      <3>1. y \in [1..len+1 -> Word]
        BY <2>4
      <3> QED
        BY <2>4, <2>5, <3>1 DEF Remainder
    <2> QED
      BY <1>7, <1>9, <2>1, <2>4, <2>6 DEF s, y
  <1> QED
    BY <1>8, <1>9
-----------------------------------------------------------------------------
(* Bits of words *)

LEMMA BitIsBit ==
  ASSUME NEW x \in Seq(Word), NEW i \in 1..W*Len(x)
  PROVE  Bit(x, i) \in {0, 1}
  <1>1. W \in Nat \ {0} /\ Len(x) \in Nat
    BY WordAssumption
  <1> DEFINE len == Len(x)
             q == (i - 1) \div W
             r == (i - 1) % W
  <1>2. W * len \in Nat
    BY <1>1
  <1>3. i - 1 \in Nat /\ i - 1 < W * len
    BY <1>2
  <1>4. r \in 0..W-1 /\ q \in Int /\ i - 1 = q * W + r
    <2>1. i - 1 \in Int
      BY <1>3
    <2> QED
      BY <1>1, <2>1, Division
  <1>5. q + 1 \in 1..len
    <2> HIDE DEF q, r, len
    <2>1. q >= 0
      <3> SUFFICES ASSUME q <= -1
                   PROVE  FALSE
        BY <1>4
      <3>1. -1 - q \in Nat /\ (-1 - q) * W >= 0 /\ (-1 - q) * W = -W - q * W
        BY <1>1, <1>4
      <3> QED
        BY <1>1, <1>3, <1>4, <3>1
    <2>2. q < len
      <3> SUFFICES ASSUME q >= len
                   PROVE  FALSE
        BY <1>1, <1>4 DEF len
      <3>1. q - len \in Nat /\ (q - len) * W >= 0 /\ (q - len) * W = q * W - W * len
        BY <1>1, <1>4 DEF len
      <3> QED
        BY <1>1, <1>2, <1>3, <1>4, <3>1
    <2> QED
      BY <1>1, <1>4, <2>1, <2>2 DEF len
  <1>6. x[q+1] \in Int /\ TwoTo[W-1-r] \in Nat \ {0}
    <2>1. W - 1 - r \in 0..W
      BY <1>1, <1>4
    <2>2. x[q+1] \in Word
      BY <1>5
    <2> QED
      BY <2>1, <2>2, TwoToRule, BaseRule DEF Word
  <1>7. Bit(x, i) = (x[q+1] \div TwoTo[W-1-r]) % 2
    BY DEF Bit
  <1> DEFINE y == x[q+1]
             p == TwoTo[W-1-r]
  <1> HIDE DEF y, p
  <1>8. y \div p \in Int
    BY <1>6, Division DEF y, p
  <1>9. (y \div p) % 2 \in {0, 1}
    <2> DEFINE t == y \div p
    <2> HIDE DEF t
    <2>1. t \in Int
      BY <1>8 DEF t
    <2>2. t % 2 \in {0, 1}
      BY <2>1
    <2> QED
      BY <2>2 DEF t
  <1> QED
    BY <1>7, <1>9 DEF y, p

(* Bit i of so many words is bit j of word k.                              *)
LEMMA BitPlace ==
  ASSUME NEW len \in Nat, NEW i \in 1..W*len
  PROVE  \E k \in 1..len, j \in 1..W :
           /\ i = (k - 1) * W + j
           /\ (i - 1) \div W = k - 1 /\ (i - 1) % W = j - 1
           /\ j < W => i \div W = k - 1 /\ i % W = j
           /\ j = W => i \div W = k /\ i % W = 0
  <1>1. W \in Nat \ {0} /\ W * len \in Nat
    BY WordAssumption
  <1> DEFINE q == (i - 1) \div W
             r == (i - 1) % W
  <1>2. i - 1 \in Nat /\ i - 1 < W * len
    BY <1>1
  <1>3. r \in 0..W-1 /\ q \in Int /\ i - 1 = q * W + r
    <2>1. i - 1 \in Int
      BY <1>2
    <2> QED
      BY <1>1, <2>1, Division
  <1> HIDE DEF q, r
  <1>4. q >= 0
    <2> SUFFICES ASSUME q <= -1
                 PROVE  FALSE
      BY <1>3
    <2>1. -1 - q \in Nat /\ (-1 - q) * W >= 0 /\ (-1 - q) * W = -W - q * W
      BY <1>1, <1>3
    <2> QED
      BY <1>1, <1>2, <1>3, <2>1
  <1>5. q < len
    <2> SUFFICES ASSUME q >= len
                 PROVE  FALSE
      BY <1>3
    <2>1. q - len \in Nat /\ (q - len) * W >= 0 /\ (q - len) * W = q * W - W * len
      BY <1>1, <1>3
    <2> QED
      BY <1>1, <1>2, <1>3, <2>1
  <1> DEFINE k == q + 1
             j == r + 1
  <1>6. k \in 1..len /\ j \in 1..W /\ k - 1 = q /\ j - 1 = r
    BY <1>1, <1>3, <1>4, <1>5
  <1>7. i = (k - 1) * W + j
    <2>1. q * W \in Int
      BY <1>1, <1>3
    <2> QED
      BY <1>3, <1>6, <2>1
  <1>8. (i - 1) \div W = k - 1 /\ (i - 1) % W = j - 1
    BY <1>6 DEF q, r
  <1>9. j < W => i \div W = k - 1 /\ i % W = j
    <2> SUFFICES ASSUME j < W
                 PROVE  i \div W = k - 1 /\ i % W = j
      OBVIOUS
    <2>1. j \in 0..W-1 /\ q \in Int /\ i = q * W + j
      BY <1>1, <1>3, <1>6, <1>7
    <2> HIDE DEF k, j
    <2> QED
      BY <1>1, <1>6, <2>1, DivisionUnique
  <1>10. j = W => i \div W = k /\ i % W = 0
    <2> SUFFICES ASSUME j = W
                 PROVE  i \div W = k /\ i % W = 0
      OBVIOUS
    <2>1. k * W = q * W + W /\ q * W \in Int
      BY <1>1, <1>3
    <2>2. 0 \in 0..W-1 /\ k \in Int /\ i = k * W + 0
      BY <1>1, <1>3, <1>6, <1>7, <2>1
    <2> HIDE DEF k, j
    <2> QED
      BY <1>1, <2>2, DivisionUnique
  <1> HIDE DEF k, j
  <1> QED
    BY <1>6, <1>7, <1>8, <1>9, <1>10

(* The number that the first i bits stand for, of words x that are joined  *)
(* from their bits: part[k][j] is what the first j bits of word k are.     *)
Joined(x, len, part, i) ==
  Sums(x, len)[i \div W] * TwoTo[i % W] + (IF i % W = 0 THEN 0 ELSE part[(i \div W) + 1][i % W])

IsJoined(x, len, part, bits) ==
  \A k \in 1..len :
    /\ part[k][0] = 0 /\ part[k][W] = x[k]
    /\ \A j \in 1..W : part[k][j] = 2 * part[k][j-1] + bits[(k-1)*W+j]

LEMMA JoinedOn ==
  ASSUME NEW u \in Int, NEW p \in Int, NEW w \in Int, NEW bit \in Int
  PROVE  u * (2 * p) + (2 * w + bit) = 2 * (u * p + w) + bit
  <1> DEFINE t == u * p
  <1>1. t \in Int /\ u * (2 * p) = 2 * t
    OBVIOUS
  <1> HIDE DEF t
  <1>2. 2 * t + (2 * w + bit) = 2 * (t + w) + bit
    BY <1>1
  <1> QED
    BY <1>1, <1>2 DEF t

LEMMA JoinedRule ==
  ASSUME NEW len \in Nat, NEW x \in [1..len -> Int], NEW part \in [1..len -> [0..W -> Int]],
         NEW bits \in [1..W*len -> Int], IsJoined(x, len, part, bits)
  PROVE  /\ Joined(x, len, part, 0) = 0
         /\ Joined(x, len, part, W * len) = Sums(x, len)[len]
         /\ \A i \in 1..W*len :
              Joined(x, len, part, i) = 2 * Joined(x, len, part, i - 1) + bits[i]
  <1> DEFINE sum == Sums(x, len)
  <1>1. W \in Nat \ {0} /\ W * len \in Nat /\ len * W = W * len
    BY WordAssumption
  <1>2. /\ sum \in [0..len -> Int] /\ sum[0] = 0
        /\ \A k \in 1..len : sum[k] = sum[k-1] * Base + x[k]
    BY SumsRule
  <1>3. TwoTo \in [0..W -> Nat \ {0}] /\ TwoTo[0] = 1 /\ TwoTo[W] = Base
    BY TwoToRule, WordAssumption
  <1> HIDE DEF sum
  <1>4. Joined(x, len, part, 0) = 0
    <2>1. 0 \div W = 0 /\ 0 % W = 0
      <3>1. 0 \in 0..W-1 /\ 0 * W + 0 = 0
        BY <1>1
      <3> QED
        BY <1>1, <3>1, 0 \in Int, DivisionUnique
    <2>2. Joined(x, len, part, 0) = sum[0] * TwoTo[0] + 0
      BY <2>1 DEF Joined, sum
    <2> QED
      BY <1>2, <1>3, <2>2
  <1>5. Joined(x, len, part, W * len) = sum[len]
    <2>1. (W * len) \div W = len /\ (W * len) % W = 0
      <3>1. 0 \in 0..W-1 /\ len * W + 0 = W * len
        BY <1>1
      <3> QED
        BY <1>1, <3>1, len \in Int, DivisionUnique
    <2>2. Joined(x, len, part, W * len) = sum[len] * TwoTo[0] + 0
      BY <2>1 DEF Joined, sum
    <2>3. sum[len] \in Int
      <3>1. len \in 0..len
        OBVIOUS
      <3> QED
        BY <1>2, <3>1
    <2> QED
      BY <1>3, <2>2, <2>3
  <1>6. ASSUME NEW i \in 1..W*len
        PROVE  Joined(x, len, part, i) = 2 * Joined(x, len, part, i - 1) + bits[i]
    <2>1. PICK k \in 1..len, j \in 1..W :
            /\ i = (k - 1) * W + j
            /\ (i - 1) \div W = k - 1 /\ (i - 1) % W = j - 1
            /\ j < W => i \div W = k - 1 /\ i % W = j
            /\ j = W => i \div W = k /\ i % W = 0
      BY BitPlace
    <2> DEFINE u == sum[k-1]
               p == TwoTo[j-1]
               w == part[k][j-1]
               bit == bits[i]
    <2>2. j - 1 \in 0..W /\ j \in 0..W /\ k - 1 \in 0..len /\ k \in 0..len /\ j \in Int /\ k \in Int
      BY <1>1
    <2>3. u \in Int /\ p \in Int /\ w \in Int /\ bit \in Int
      <3>1. part[k] \in [0..W -> Int]
        OBVIOUS
      <3>2. part[k][j-1] \in Int
        BY <2>2, <3>1
      <3>3. sum[k-1] \in Int
        BY <1>2, <2>2
      <3>4. TwoTo[j-1] \in Nat \ {0}
        BY <1>3, <2>2
      <3>5. bits[i] \in Int
        OBVIOUS
      <3> QED
        BY <3>2, <3>3, <3>4, <3>5
    <2>4. /\ part[k][0] = 0 /\ part[k][W] = x[k]
          /\ part[k][j] = 2 * w + bit
      BY <2>1 DEF IsJoined
    <2>5. Joined(x, len, part, i - 1) = u * p + w
      <3>1. Joined(x, len, part, i - 1) = u * p + (IF j - 1 = 0 THEN 0 ELSE part[(k-1)+1][j-1])
        BY <2>1 DEF Joined, sum
      <3>2. (k - 1) + 1 = k
        OBVIOUS
      <3>3. j - 1 = 0 => w = 0
        BY <2>4
      <3> QED
        BY <3>1, <3>2, <3>3
    <2>6. TwoTo[j] = 2 * p
      BY TwoToRule
    <2>7. Joined(x, len, part, i) = u * TwoTo[j] + part[k][j]
      <3>1. CASE j < W
        <4>1. Joined(x, len, part, i) = u * TwoTo[j] + (IF j = 0 THEN 0 ELSE part[(k-1)+1][j])
          BY <2>1, <3>1 DEF Joined, sum
        <4>2. (k - 1) + 1 = k /\ j # 0
          OBVIOUS
        <4> QED
          BY <4>1, <4>2
      <3>2. CASE j = W
        <4>1. Joined(x, len, part, i) = sum[k] * TwoTo[0] + 0
          BY <2>1, <3>2 DEF Joined, sum
        <4>2. sum[k] = u * Base + x[k] /\ sum[k] \in Int
          BY <1>2, <2>2
        <4>3. sum[k] * 1 + 0 = sum[k]
          BY <4>2
        <4> QED
          BY <1>3, <2>4, <3>2, <4>1, <4>2, <4>3
      <3> QED
        BY <1>1, <2>2, <3>1, <3>2
    <2> HIDE DEF u, p, w, bit
    <2>8. u * (2 * p) + (2 * w + bit) = 2 * (u * p + w) + bit
      BY <2>3, JoinedOn
    <2>9. Joined(x, len, part, i) = 2 * Joined(x, len, part, i - 1) + bit
      BY <2>4, <2>5, <2>6, <2>7, <2>8
    <2> QED
      BY <2>9 DEF bit
  <1> QED
    BY <1>4, <1>5, <1>6 DEF sum

LEMMA HalvedOn ==
  ASSUME NEW x \in Nat, NEW p \in Nat \ {0}
  PROVE  x \div p = 2 * (x \div (2 * p)) + ((x \div p) % 2)
  <1> DEFINE q == x \div p
             r == x % p
             h == q \div 2
             e == q % 2
             s == e * p + r
  <1>1. q \in Int /\ r \in 0..p-1 /\ x = q * p + r
    BY Division
  <1>2. h \in Int /\ e \in 0..1 /\ q = 2 * h + e
    <2> HIDE DEF q
    <2>1. 2 \in Nat \ {0}
      OBVIOUS
    <2> QED
      BY <1>1, <2>1
  <1> HIDE DEF q, r, h, e
  <1>3. s \in 0..(2 * p)-1
    <2>1. CASE e = 0
      BY <1>1, <2>1
    <2>2. CASE e = 1
      BY <1>1, <2>2
    <2> QED
      BY <1>2, <2>1, <2>2
  <1>4. x = h * (2 * p) + s
    <2>1. (2 * h + e) * p = h * (2 * p) + e * p
      BY <1>2
    <2> DEFINE t == h * (2 * p)
               u == e * p
    <2>2. t \in Int /\ u \in Int
      BY <1>2
    <2>3. x = (t + u) + r
      BY <1>1, <1>2, <2>1
    <2> HIDE DEF t, u
    <2>4. x = t + (u + r)
      BY <1>1, <2>2, <2>3
    <2> QED
      BY <2>4 DEF t, u
  <1> HIDE DEF s
  <1>5. x \div (2 * p) = h
    <2>1. 2 * p \in Nat \ {0}
      OBVIOUS
    <2> QED
      BY <1>2, <1>3, <1>4, <2>1, DivisionUnique
  <1> QED
    BY <1>2, <1>5 DEF q, e

LEMMA BitAt ==
  ASSUME NEW x \in Seq(Word), NEW k \in 1..Len(x), NEW j \in 1..W
  PROVE  Bit(x, (k-1)*W+j) = (x[k] \div TwoTo[W-j]) % 2
  <1> DEFINE i == (k-1)*W+j
             t == (k-1)*W
  <1>1. W \in Nat \ {0} /\ k - 1 \in Int /\ j - 1 \in 0..W-1 /\ t \in Int
    BY WordAssumption
  <1>2. i - 1 = (k-1)*W + (j-1)
    <2> HIDE DEF t
    <2>1. (t + j) - 1 = t + (j - 1)
      BY <1>1
    <2> QED
      BY <2>1 DEF t
  <1> HIDE DEF i
  <1>3. (i - 1) \div W = k - 1 /\ (i - 1) % W = j - 1
    <2> DEFINE q == k - 1
               r == j - 1
    <2>1. q \in Int /\ r \in 0..W-1 /\ i - 1 = q * W + r
      BY <1>1, <1>2
    <2> HIDE DEF q, r
    <2>2. (q * W + r) \div W = q /\ (q * W + r) % W = r
      BY <1>1, <2>1, DivisionUnique
    <2> QED
      BY <2>1, <2>2 DEF q, r
  <1>4. ((i - 1) \div W) + 1 = k /\ W - 1 - ((i - 1) % W) = W - j
    BY <1>1, <1>3
  <1> QED
    BY <1>4 DEF Bit, i

(* The words of a number are joined from its bits.                         *)
WordParts(x) == [k \in 1..Len(x) |-> [j \in 0..W |-> x[k] \div TwoTo[W-j]]]
WordBits(x) == [i \in 1..W*Len(x) |-> Bit(x, i)]

LEMMA PlaceInBits ==
  ASSUME NEW len \in Nat, NEW k \in 1..len, NEW j \in 1..W
  PROVE  (k-1)*W+j \in 1..W*len
  <1>1. W \in Nat \ {0} /\ k - 1 \in Nat /\ len - k \in Nat
    BY WordAssumption
  <1> DEFINE t == (k-1)*W
             u == (len-k)*W
  <1>2. t \in Nat /\ u \in Nat
    BY <1>1
  <1>3. W * len = t + W + u
    BY <1>1
  <1> HIDE DEF t, u
  <1>4. t + j \in 1..(t + W + u)
    BY <1>1, <1>2
  <1> QED
    BY <1>3, <1>4 DEF t

LEMMA WordsJoined ==
  ASSUME NEW x \in Seq(Word)
  PROVE  /\ WordParts(x) \in [1..Len(x) -> [0..W -> Int]]
         /\ WordBits(x) \in [1..W*Len(x) -> Int]
         /\ IsJoined(x, Len(x), WordParts(x), WordBits(x))
  <1> DEFINE len == Len(x)
             part == WordParts(x)
             bits == WordBits(x)
  <1>1. W \in Nat \ {0} /\ len \in Nat
    BY WordAssumption
  <1>2. /\ \A k \in 0..W : TwoTo[k] \in Nat \ {0}
        /\ TwoTo[0] = 1 /\ TwoTo[W] = Base
        /\ \A k \in 1..W : TwoTo[k] = 2 * TwoTo[k-1]
    BY TwoToRule, WordAssumption
  <1>3. ASSUME NEW k \in 1..len
        PROVE  x[k] \in Nat /\ x[k] \in 0..Base-1
    BY BaseRule DEF Word
  <1>4. ASSUME NEW k \in 1..len, NEW j \in 0..W
        PROVE  part[k][j] = x[k] \div TwoTo[W-j] /\ part[k][j] \in Int
    <2>1. part[k][j] = x[k] \div TwoTo[W-j]
      BY DEF WordParts
    <2>2. W - j \in 0..W
      BY <1>1
    <2>3. TwoTo[W-j] \in Nat \ {0} /\ x[k] \in Int
      BY <1>2, <1>3, <2>2
    <2> QED
      BY <2>1, <2>3, Division
  <1>5. part \in [1..len -> [0..W -> Int]]
    BY <1>4 DEF WordParts
  <1>6. bits \in [1..W*len -> Int]
    <2>1. ASSUME NEW i \in 1..W*len
          PROVE  Bit(x, i) \in Int
      BY BitIsBit
    <2> QED
      BY <2>1 DEF WordBits
  <1>7. ASSUME NEW k \in 1..len
        PROVE  part[k][0] = 0 /\ part[k][W] = x[k]
    <2> DEFINE y == x[k]
    <2>1. y \in 0..Base-1 /\ Base \in Nat \ {0} /\ y \in Int
      BY <1>3, BaseRule
    <2>2. part[k][0] = y \div Base
      <3>1. 0 \in 0..W /\ W - 0 = W
        BY <1>1
      <3> QED
        BY <1>2, <1>4, <3>1
    <2>3. part[k][W] = y \div 1
      <3>1. W \in 0..W /\ W - W = 0
        BY <1>1
      <3> QED
        BY <1>2, <1>4, <3>1
    <2> HIDE DEF y
    <2>4. y \div Base = 0
      <3>1. y = 0 * Base + y
        BY <2>1
      <3> QED
        BY <2>1, <3>1, 0 \in Int, DivisionUnique
    <2>5. y \div 1 = y
      BY <2>1
    <2> QED
      BY <2>2, <2>3, <2>4, <2>5 DEF y
  <1>8. ASSUME NEW k \in 1..len, NEW j \in 1..W
        PROVE  part[k][j] = 2 * part[k][j-1] + bits[(k-1)*W+j]
    <2> DEFINE y == x[k]
               p == TwoTo[W-j]
    <2>1. j - 1 \in 0..W /\ j \in 0..W /\ W - (j - 1) \in 1..W /\ (W - (j - 1)) - 1 = W - j /\ W - j \in 0..W
      BY <1>1
    <2>2. TwoTo[W-(j-1)] = 2 * p /\ p \in Nat \ {0}
      BY <1>2, <2>1
    <2>3. part[k][j] = y \div p
      BY <1>4, <2>1
    <2>4. part[k][j-1] = y \div (2 * p)
      BY <1>4, <2>1, <2>2
    <2>5. y \in Nat
      BY <1>3
    <2>6. bits[(k-1)*W+j] = (y \div p) % 2
      <3>1. (k-1)*W+j \in 1..W*len
        BY <1>1, PlaceInBits
      <3>2. bits[(k-1)*W+j] = Bit(x, (k-1)*W+j)
        BY <3>1 DEF WordBits
      <3> QED
        BY <3>2, BitAt
    <2> HIDE DEF y, p
    <2>7. y \div p = 2 * (y \div (2 * p)) + ((y \div p) % 2)
      BY <2>2, <2>5, HalvedOn
    <2> QED
      BY <2>3, <2>4, <2>6, <2>7
  <1> HIDE DEF part, bits
  <1> QED
    BY <1>5, <1>6, <1>7, <1>8 DEF IsJoined, part, bits
-----------------------------------------------------------------------------
(* The remainders of a long division *)

LEMMA ValuePositive ==
  ASSUME NEW m \in Numeral, \E i \in 1..Len(m) : m[i] # 0
  PROVE  Value(m) \in Nat \ {0}
  <1> DEFINE len == Len(m)
             D == {i \in 1..len : m[i] # 0}
             zeros == Zero(len)
  <1>1. m \in Seq(Word) /\ len \in Nat
    BY NumeralLen
  <1>2. PICK first \in 1..len : first \in D /\ \A j \in 1..first-1 : j \notin D
    <2>1. \E i \in 1..len : i \in D
      OBVIOUS
    <2> HIDE DEF D
    <2> QED
      BY <1>1, <2>1, FirstExists
  <1>3. m \in [1..len -> Word] /\ zeros \in [1..len -> Word] /\ zeros \in [1..len -> Int]
    BY <1>1, BaseRule DEF Zero, Word
  <1>4. Sums(zeros, len)[len] < Sums(m, len)[len]
    <2>1. \A i \in 1..first-1 : zeros[i] = m[i]
      BY <1>2 DEF Zero
    <2>2. zeros[first] < m[first]
      <3>1. m[first] \in Word /\ m[first] # 0
        BY <1>2, <1>3
      <3> QED
        BY <3>1, BaseRule DEF Zero, Word
    <2> HIDE DEF zeros
    <2> QED
      BY <1>1, <1>3, <2>1, <2>2, SumsLess
  <1>5. Sums(zeros, len)[len] = 0
    <2>1. len \in 0..len /\ \A i \in 1..len : zeros[i] = 0
      BY <1>1 DEF Zero
    <2> HIDE DEF zeros
    <2> QED
      BY <1>1, <1>3, <2>1, ZeroSums
  <1>6. Value(m) = Sums(m, len)[len] /\ Value(m) \in Nat
    BY <1>1, ValueIsSum, CmpExact
  <1> QED
    BY <1>4, <1>5, <1>6

LEMMA ZeroIsRemainder ==
  ASSUME NEW m \in Numeral, Value(m) \in Nat \ {0}
  PROVE  Zero(Len(m) + 1) \in Remainder(m) /\ Value(Zero(Len(m) + 1)) = 0
  <1> DEFINE len == Len(m) + 1
             zeros == Zero(len)
  <1>1. len \in Nat
    BY NumeralLen
  <1>2. zeros \in [1..len -> Word] /\ zeros \in [1..len -> Int] /\ \A i \in 1..len : zeros[i] = 0
    BY <1>1, BaseRule DEF Zero, Word
  <1> HIDE DEF zeros
  <1>3. zeros \in Seq(Word) /\ Len(zeros) = len
    BY <1>1, <1>2
  <1>4. Sums(zeros, len)[len] = 0
    <2>1. len \in 0..len
      BY <1>1
    <2> QED
      BY <1>1, <1>2, <2>1, ZeroSums
  <1>5. Value(zeros) = 0
    BY <1>3, <1>4, ValueIsSum
  <1> QED
    BY <1>2, <1>5 DEF Remainder, zeros

LEMMA RemaindersRule ==
  ASSUME NEW x \in Seq(Word), NEW m \in Numeral, Value(m) \in Nat \ {0}
  PROVE  /\ Remainders(x, m) \in [0..W*Len(x) -> Remainder(m)]
         /\ Remainders(x, m)[0] = Zero(Len(m) + 1)
         /\ \A i \in 1..W*Len(x) :
              Remainders(x, m)[i] = Reduced(Shifted(Remainders(x, m)[i-1], Bit(x, i)), m)
  <1> DEFINE total == W * Len(x)
             S == Remainder(m)
             zeros == Zero(Len(m) + 1)
             step == [i \in 1..total |-> [r \in S |-> Reduced(Shifted(r, Bit(x, i)), m)]]
             rem == Remainders(x, m)
  <1>1. total \in Nat
    BY WordAssumption
  <1>2. zeros \in S
    BY ZeroIsRemainder
  <1>3. ASSUME NEW i \in 1..total, NEW r \in S
        PROVE  Reduced(Shifted(r, Bit(x, i)), m) \in S
    BY BitIsBit, DivisionStep
  <1>4. PICK f \in [0..total -> S] : Follows(f, 0, total, zeros, step)
    <2>1. ASSUME NEW i \in 0+1..total, NEW r \in S
          PROVE  step[i][r] \in S
      <3>1. i \in 1..total
        OBVIOUS
      <3>2. step[i][r] = Reduced(Shifted(r, Bit(x, i)), m)
        BY <3>1
      <3> QED
        BY <1>3, <3>1, <3>2
    <2> HIDE DEF step, S, total, zeros
    <2>2. total \in Int
      BY <1>1
    <2> QED
      BY <1>2, <2>1, <2>2, 0 \in Int, RecursionExists, Zenon
  <1>5. f[0] = zeros /\ \A i \in 1..total : f[i] = Reduced(Shifted(f[i-1], Bit(x, i)), m)
    <2>1. ASSUME NEW i \in 1..total
          PROVE  f[i] = Reduced(Shifted(f[i-1], Bit(x, i)), m)
      <3> HIDE DEF total, zeros
      <3>1. i \in 0+1..total /\ i - 1 \in 0..total
        BY <1>1
      <3>2. f[i-1] \in S
        BY <3>1
      <3>3. f[i] = step[i][f[i-1]]
        BY <1>4, <3>1 DEF Follows
      <3> QED
        BY <3>2, <3>3
    <2>2. f[0] = zeros
      <3> HIDE DEF total, zeros
      <3> QED
        BY <1>1, <1>4 DEF Follows
    <2> QED
      BY <2>1, <2>2
  <1> HIDE DEF step
  <1>6. f = [i \in 0..total |->
               IF i = 0 THEN zeros ELSE Reduced(Shifted(f[i-1], Bit(x, i)), m)]
    <2> HIDE DEF total, zeros, S
    <2>1. \A i \in 0..total :
            f[i] = IF i = 0 THEN zeros ELSE Reduced(Shifted(f[i-1], Bit(x, i)), m)
      BY <1>1, <1>5
    <2> QED
      BY <2>1
  <1>7. rem = [i \in 0..total |->
                 IF i = 0 THEN zeros ELSE Reduced(Shifted(rem[i-1], Bit(x, i)), m)]
    BY <1>6 DEF Remainders
  <1> HIDE DEF rem, total, zeros, S
  <1>8. rem[0] = zeros /\ \A i \in 1..total : rem[i] = Reduced(Shifted(rem[i-1], Bit(x, i)), m)
    <2>1. \A i \in 0..total :
            rem[i] = IF i = 0 THEN zeros ELSE Reduced(Shifted(rem[i-1], Bit(x, i)), m)
      BY <1>7
    <2>2. 0 \in 0..total /\ \A i \in 1..total : i \in 0..total /\ i # 0
      BY <1>1
    <2> QED
      BY <2>1, <2>2
  <1>9. \A i \in 0..total : rem[i] \in S
    <2> DEFINE T == {i \in 0..total : rem[i] \in S}
    <2>1. 0 \in T
      BY <1>1, <1>2, <1>8
    <2>2. ASSUME NEW i \in 0..total-1, i \in T
          PROVE  i + 1 \in T
      <3>1. i + 1 \in 1..total /\ i + 1 \in 0..total /\ (i + 1) - 1 = i
        BY <1>1
      <3>2. rem[i+1] = Reduced(Shifted(rem[i], Bit(x, i + 1)), m)
        BY <1>8, <3>1
      <3> QED
        BY <1>3, <2>2, <3>1, <3>2
    <2>3. \A i \in 0..total : i \in T
      <3> HIDE DEF T
      <3>1. total \in Int
        BY <1>1
      <3> QED
        BY <2>1, <2>2, <3>1, 0 \in Int, RangeInduction, Zenon
    <2> QED
      BY <2>3
  <1>10. rem \in [0..total -> S]
    BY <1>7, <1>9
  <1> QED
    BY <1>8, <1>10 DEF rem, total, zeros, S
-----------------------------------------------------------------------------
(* The quotient of a long division: its bits, and what the first bits of   *)
(* word k are                                                              *)
QuotientBit(x, m, i) ==
  IF Cmp(Shifted(Remainders(x, m)[i-1], Bit(x, i)), m) = -1 THEN 0 ELSE 1
QuotientSums(x, m, k) ==
  CHOOSE sum : sum =
    [j \in 0..W |-> IF j = 0 THEN 0 ELSE 2 * sum[j-1] + QuotientBit(x, m, (k-1) * W + j)]
Quotient(x, m) == [k \in 1..Len(x) |-> QuotientSums(x, m, k)[W]]

LEMMA QuotientSumsRule ==
  ASSUME NEW x, NEW m, NEW k
  PROVE  /\ QuotientSums(x, m, k) \in [0..W -> Int]
         /\ QuotientSums(x, m, k)[0] = 0
         /\ \A j \in 1..W : QuotientSums(x, m, k)[j] =
              2 * QuotientSums(x, m, k)[j-1] + QuotientBit(x, m, (k-1) * W + j)
         /\ \A j \in 0..W : QuotientSums(x, m, k)[j] \in 0..TwoTo[j]-1
  <1> DEFINE bit == [j \in 1..W |-> QuotientBit(x, m, (k-1) * W + j)]
             step == [j \in 1..W |-> [s \in Nat |-> 2 * s + bit[j]]]
             sum == QuotientSums(x, m, k)
  <1>1. W \in Nat \ {0}
    BY WordAssumption
  <1>2. \A j \in 1..W : bit[j] = QuotientBit(x, m, (k-1) * W + j) /\ bit[j] \in {0, 1}
    BY DEF QuotientBit
  <1> HIDE DEF bit
  <1>3. PICK f \in [0..W -> Nat] : Follows(f, 0, W, 0, step)
    <2>1. ASSUME NEW j \in 0+1..W, NEW s \in Nat
          PROVE  step[j][s] \in Nat
      <3>1. j \in 1..W
        OBVIOUS
      <3>2. step[j][s] = 2 * s + bit[j]
        BY <3>1
      <3> QED
        BY <1>2, <3>1, <3>2
    <2> HIDE DEF step
    <2> QED
      BY <1>1, <2>1, 0 \in Int, 0 \in Nat, W \in Int, RecursionExists, Zenon
  <1>4. f[0] = 0 /\ \A j \in 1..W : f[j] = 2 * f[j-1] + bit[j]
    <2>1. ASSUME NEW j \in 1..W
          PROVE  f[j] = 2 * f[j-1] + bit[j]
      <3>1. j \in 0+1..W /\ j - 1 \in 0..W
        BY <1>1
      <3>2. f[j-1] \in Nat
        BY <3>1
      <3> QED
        BY <1>3, <3>1, <3>2 DEF Follows
    <2> QED
      BY <1>1, <1>3, <2>1 DEF Follows
  <1>5. f = [j \in 0..W |-> IF j = 0 THEN 0 ELSE 2 * f[j-1] + QuotientBit(x, m, (k-1) * W + j)]
    <2>1. \A j \in 0..W :
            f[j] = IF j = 0 THEN 0 ELSE 2 * f[j-1] + QuotientBit(x, m, (k-1) * W + j)
      BY <1>1, <1>2, <1>4
    <2> QED
      BY <2>1
  <1>6. sum =
          [j \in 0..W |-> IF j = 0 THEN 0 ELSE 2 * sum[j-1] + QuotientBit(x, m, (k-1) * W + j)]
    BY <1>5 DEF QuotientSums
  <1> HIDE DEF sum
  <1>7. sum[0] = 0 /\ \A j \in 1..W : sum[j] = 2 * sum[j-1] + bit[j]
    <2>1. \A j \in 0..W :
            sum[j] = IF j = 0 THEN 0 ELSE 2 * sum[j-1] + QuotientBit(x, m, (k-1) * W + j)
      BY <1>6
    <2>2. 0 \in 0..W /\ \A j \in 1..W : j \in 0..W /\ j # 0
      BY <1>1
    <2> QED
      BY <1>2, <2>1, <2>2
  <1>8. \A j \in 0..W : sum[j] \in 0..TwoTo[j]-1
    <2> DEFINE T == {j \in 0..W : sum[j] \in 0..TwoTo[j]-1}
    <2>1. 0 \in T
      BY <1>1, <1>7, TwoToRule
    <2>2. ASSUME NEW j \in 0..W-1, j \in T
          PROVE  j + 1 \in T
      <3>1. j + 1 \in 1..W /\ j + 1 \in 0..W /\ j \in 0..W /\ (j + 1) - 1 = j
        BY <1>1
      <3> DEFINE next == sum[j+1]
                 now == sum[j]
                 last == bit[j+1]
                 p == TwoTo[j]
                 top == TwoTo[j+1]
      <3>2. next = 2 * now + last /\ now \in 0..p-1 /\ last \in {0, 1}
        BY <1>2, <1>7, <2>2, <3>1
      <3>3. top = 2 * p /\ p \in Nat
        BY <3>1, TwoToRule
      <3> HIDE DEF next, now, last, p, top
      <3>4. next \in 0..top-1
        BY <3>2, <3>3
      <3> QED
        BY <3>1, <3>4 DEF next, top
    <2>3. \A j \in 0..W : j \in T
      <3> HIDE DEF T
      <3> QED
        BY <1>1, <2>1, <2>2, 0 \in Int, W \in Int, RangeInduction, Zenon
    <2> QED
      BY <2>3
  <1>9. sum \in [0..W -> Int]
    <2>1. ASSUME NEW j \in 0..W
          PROVE  sum[j] \in Int
      <3>1. TwoTo[j] \in Nat
        BY TwoToRule
      <3> QED
        BY <1>8, <3>1
    <2> QED
      BY <1>6, <2>1
  <1> QED
    BY <1>2, <1>7, <1>8, <1>9 DEF sum

LEMMA QuotientJoined ==
  ASSUME NEW x \in Seq(Word), NEW m
  PROVE  LET part == [k \in 1..Len(x) |-> QuotientSums(x, m, k)]
             bits == [i \in 1..W*Len(x) |-> QuotientBit(x, m, i)]
         IN  /\ Quotient(x, m) \in [1..Len(x) -> Word]
             /\ Quotient(x, m) \in [1..Len(x) -> Int]
             /\ part \in [1..Len(x) -> [0..W -> Int]]
             /\ bits \in [1..W*Len(x) -> Int]
             /\ IsJoined(Quotient(x, m), Len(x), part, bits)
  <1> DEFINE len == Len(x)
             part == [k \in 1..len |-> QuotientSums(x, m, k)]
             bits == [i \in 1..W*len |-> QuotientBit(x, m, i)]
             quot == Quotient(x, m)
  <1>1. W \in 0..W /\ len \in Nat
    BY WordAssumption
  <1>2. ASSUME NEW k \in 1..len
        PROVE  /\ quot[k] = QuotientSums(x, m, k)[W]
               /\ quot[k] \in Word /\ quot[k] \in Int
    <2>1. quot[k] = QuotientSums(x, m, k)[W]
      BY DEF Quotient
    <2>2. QuotientSums(x, m, k)[W] \in 0..TwoTo[W]-1
      BY <1>1, QuotientSumsRule
    <2>3. TwoTo[W] = Base /\ Base \in Nat
      BY BaseRule, WordAssumption
    <2> QED
      BY <2>1, <2>2, <2>3 DEF Word
  <1>3. quot \in [1..len -> Word] /\ quot \in [1..len -> Int]
    BY <1>2 DEF Quotient
  <1>4. part \in [1..len -> [0..W -> Int]]
    BY QuotientSumsRule
  <1>5. bits \in [1..W*len -> Int]
    <2>1. \A i \in 1..W*len : QuotientBit(x, m, i) \in Int
      BY DEF QuotientBit
    <2> QED
      BY <2>1
  <1>6. ASSUME NEW k \in 1..len
        PROVE  part[k][0] = 0 /\ part[k][W] = quot[k]
    BY <1>2, QuotientSumsRule
  <1>7. ASSUME NEW k \in 1..len, NEW j \in 1..W
        PROVE  part[k][j] = 2 * part[k][j-1] + bits[(k-1)*W+j]
    <2>1. (k-1)*W+j \in 1..W*len
      BY <1>1, PlaceInBits
    <2>2. bits[(k-1)*W+j] = QuotientBit(x, m, (k-1)*W+j)
      BY <2>1
    <2>3. part[k] = QuotientSums(x, m, k)
      OBVIOUS
    <2> HIDE DEF bits, part
    <2> QED
      BY <2>2, <2>3, QuotientSumsRule
  <1> HIDE DEF part, bits, quot
  <1>8. IsJoined(quot, len, part, bits)
    BY <1>6, <1>7 DEF IsJoined
  <1> QED
    BY <1>3, <1>4, <1>5, <1>8 DEF quot, part, bits

LEMMA DivIsQuotient ==
  ASSUME NEW x \in Numeral, NEW m \in Numeral, Value(m) \in Nat \ {0}
  PROVE  Div(x, m, Len(x)) = Quotient(x, m)
  <1> DEFINE rem == Remainders(x, m)
             total == W * Len(x)
  <1>1. x \in Seq(Word) /\ x # Exit /\ m # Exit /\ total \in Nat
    BY NumeralLen, WordAssumption
  <1>2. rem[total] # Exit
    <2>1. total \in 0..total
      BY <1>1
    <2>2. rem[total] \in Remainder(m)
      BY <1>1, <2>1, RemaindersRule
    <2> QED
      BY <2>2, RemainderIs, NumeralLen
  <1> QED
    BY <1>1, <1>2 DEF Div, Quotient, QuotientSums, QuotientBit
-----------------------------------------------------------------------------
(* Quotient and remainder *)

(* A bit more of the dividend                                              *)
LEMMA DivisionOn ==
  ASSUME NEW all \in Int, NEW times \in Int, NEW left \in Int, NEW unit \in Int,
         NEW last \in {0, 1}, all = times * unit + left
  PROVE  /\ 2 * all + last = (2 * times + 0) * unit + (2 * left + last)
         /\ 2 * all + last = (2 * times + 1) * unit + (2 * left + last - unit)
  <1> DEFINE t == times * unit
  <1>1. /\ t \in Int /\ (2 * times + 0) * unit = 2 * t
        /\ (2 * times + 1) * unit = 2 * t + unit /\ all = t + left
    OBVIOUS
  <1> HIDE DEF t
  <1>2. /\ 2 * all + last = 2 * t + (2 * left + last)
        /\ 2 * all + last = (2 * t + unit) + (2 * left + last - unit)
    BY <1>1
  <1> QED
    BY <1>1, <1>2

LEMMA DivisionRuns ==
  ASSUME NEW x \in Numeral, NEW m \in Numeral, Value(m) \in Nat \ {0}
  PROVE  /\ Quotient(x, m) \in Seq(Word) /\ Len(Quotient(x, m)) = Len(x)
         /\ Value(x) = Value(Quotient(x, m)) * Value(m) + Value(Remainders(x, m)[W*Len(x)])
  <1> DEFINE len == Len(x)
             total == W * len
             rem == Remainders(x, m)
             quot == Quotient(x, m)
             part == [k \in 1..len |-> QuotientSums(x, m, k)]
             bits == [i \in 1..total |-> QuotientBit(x, m, i)]
             X(i) == Joined(x, len, WordParts(x), i)
             Q(i) == Joined(quot, len, part, i)
             R(i) == Value(rem[i])
             w == Value(m)
             Split(i) == X(i) \in Int /\ Q(i) \in Int /\ X(i) = Q(i) * w + R(i)
  <1>1. /\ x \in Seq(Word) /\ len \in Nat /\ total \in Nat /\ w \in Int
        /\ x \in [1..len -> Int]
    BY NumeralLen, WordAssumption, ValueIsSum
  <1>2. /\ X(0) = 0 /\ X(total) = Value(x)
        /\ \A i \in 1..total : X(i) = 2 * X(i-1) + Bit(x, i)
    <2>1. /\ WordParts(x) \in [1..len -> [0..W -> Int]]
          /\ WordBits(x) \in [1..total -> Int]
          /\ IsJoined(x, len, WordParts(x), WordBits(x))
      BY <1>1, WordsJoined
    <2>2. /\ X(0) = 0 /\ X(total) = Sums(x, len)[len]
          /\ \A i \in 1..total : X(i) = 2 * X(i-1) + WordBits(x)[i]
      BY <1>1, <2>1, JoinedRule
    <2>3. \A i \in 1..total : WordBits(x)[i] = Bit(x, i)
      BY DEF WordBits
    <2> HIDE DEF X
    <2> QED
      BY <1>1, <2>2, <2>3, ValueIsSum
  <1>3. quot \in Seq(Word) /\ Len(quot) = len
    <2>1. quot \in [1..len -> Word]
      BY <1>1, QuotientJoined
    <2> QED
      BY <1>1, <2>1
  <1>4. /\ Q(0) = 0 /\ Q(total) = Value(quot)
        /\ \A i \in 1..total : Q(i) = 2 * Q(i-1) + QuotientBit(x, m, i)
    <2>1. /\ quot \in [1..len -> Int]
          /\ part \in [1..len -> [0..W -> Int]]
          /\ bits \in [1..total -> Int]
          /\ IsJoined(quot, len, part, bits)
      BY <1>1, QuotientJoined
    <2>2. \A i \in 1..total : bits[i] = QuotientBit(x, m, i)
      OBVIOUS
    <2> HIDE DEF quot, part, bits
    <2>3. /\ Q(0) = 0 /\ Q(total) = Sums(quot, len)[len]
          /\ \A i \in 1..total : Q(i) = 2 * Q(i-1) + bits[i]
      BY <1>1, <2>1, JoinedRule
    <2> HIDE DEF Q
    <2> QED
      BY <1>3, <2>2, <2>3, ValueIsSum
  <1>5. /\ rem \in [0..total -> Remainder(m)]
        /\ rem[0] = Zero(Len(m) + 1)
        /\ \A i \in 1..total : rem[i] = Reduced(Shifted(rem[i-1], Bit(x, i)), m)
    BY <1>1, RemaindersRule
  <1>6. Split(0)
    <2>1. R(0) = 0
      BY <1>5, ZeroIsRemainder
    <2> HIDE DEF X, Q, R, w
    <2> QED
      BY <1>1, <1>2, <1>4, <2>1
  <1>7. ASSUME NEW i \in 0..total-1, Split(i)
        PROVE  Split(i + 1)
    <2> DEFINE bit == Bit(x, i + 1)
               v == 2 * R(i) + bit
    <2>1. i + 1 \in 1..total /\ i \in 0..total /\ (i + 1) - 1 = i
      BY <1>1
    <2>2. bit \in {0, 1} /\ rem[i] \in Remainder(m)
      BY <1>1, <1>5, <2>1, BitIsBit
    <2>3. rem[i+1] = Reduced(Shifted(rem[i], bit), m)
      BY <1>5, <2>1
    <2>4. /\ Cmp(Shifted(rem[i], bit), m) = -1 <=> v < w
          /\ R(i+1) = IF v < w THEN v ELSE v - w
      BY <2>2, <2>3, DivisionStep
    <2>5. QuotientBit(x, m, i + 1) = IF v < w THEN 0 ELSE 1
      BY <2>1, <2>4 DEF QuotientBit
    <2>6. X(i+1) = 2 * X(i) + bit /\ Q(i+1) = 2 * Q(i) + (IF v < w THEN 0 ELSE 1)
      <3> HIDE DEF X, Q, v, bit
      <3> QED
        BY <1>2, <1>4, <2>1, <2>5 DEF bit
    <2>7. R(i) \in Int
      BY <2>2, RemainderIs
    <2> HIDE DEF X, Q, R, w, bit
    <2>8. v \in Int /\ v = 2 * R(i) + bit
      BY <2>2, <2>7
    <2>9. /\ 2 * X(i) + bit = (2 * Q(i) + 0) * w + (2 * R(i) + bit)
          /\ 2 * X(i) + bit = (2 * Q(i) + 1) * w + (2 * R(i) + bit - w)
      <3> DEFINE old == X(i)
                 quo == Q(i)
                 rest == R(i)
      <3>1. old \in Int /\ quo \in Int /\ rest \in Int /\ old = quo * w + rest /\ w \in Int
        BY <1>1, <1>7, <2>7
      <3> HIDE DEF old, quo, rest
      <3>2. bit \in {0, 1}
        BY <2>2
      <3> HIDE DEF v, Split
      <3>3. 2 * old + bit = (2 * quo + 0) * w + (2 * rest + bit)
        BY <3>1, <3>2, DivisionOn
      <3>4. 2 * old + bit = (2 * quo + 1) * w + (2 * rest + bit - w)
        BY <3>1, <3>2, DivisionOn
      <3> QED
        BY <3>3, <3>4 DEF old, quo, rest
    <2> HIDE DEF v
    <2>10. X(i+1) \in Int /\ Q(i+1) \in Int
      BY <1>7, <2>2, <2>6
    <2>11. CASE v < w
      <3>1. Q(i+1) = 2 * Q(i) + 0 /\ R(i+1) = 2 * R(i) + bit
        BY <2>4, <2>6, <2>8, <2>11
      <3> QED
        BY <2>6, <2>9, <2>10, <3>1
    <2>12. CASE ~(v < w)
      <3>1. Q(i+1) = 2 * Q(i) + 1 /\ R(i+1) = 2 * R(i) + bit - w
        <4>1. Q(i+1) = 2 * Q(i) + 1
          BY <2>6, <2>12
        <4>2. R(i+1) = v - w
          BY <2>4, <2>12
        <4> QED
          BY <1>1, <2>2, <2>7, <2>8, <4>1, <4>2
      <3> QED
        BY <2>6, <2>9, <2>10, <3>1
    <2> QED
      BY <2>11, <2>12
  <1>8. Split(total)
    <2> DEFINE T == {i \in 0..total : Split(i)}
    <2> HIDE DEF Split, total
    <2>1. 0 \in T
      BY <1>1, <1>6
    <2>2. ASSUME NEW i \in 0..total-1, i \in T
          PROVE  i + 1 \in T
      <3>1. i + 1 \in 0..total
        BY <1>1
      <3> QED
        BY <1>7, <2>2, <3>1
    <2>3. \A i \in 0..total : i \in T
      <3> HIDE DEF T
      <3>1. total \in Int
        BY <1>1
      <3> QED
        BY <2>1, <2>2, <3>1, 0 \in Int, RangeInduction, Zenon
    <2>4. total \in 0..total
      BY <1>1
    <2> QED
      BY <2>3, <2>4
  <1> QED
    BY <1>2, <1>3, <1>4, <1>8

LEMMA DivExact ==
  ASSUME NEW x \in Numeral, NEW m \in Numeral, Value(m) \in Nat \ {0}
  PROVE  /\ Holds(Div(x, m, Len(x)), Value(x) \div Value(m), Len(x))
         /\ Holds(Mod(x, m, Zero(Len(m))), Value(x) % Value(m), Len(m))
  <1> DEFINE lenx == Len(x)
             len == Len(m)
             quot == Quotient(x, m)
             r == Remainders(x, m)[W*lenx]
             rest == Aligned(r, len)
             w == Value(m)
             v == Value(x)
             q == Value(quot)
             s == Value(r)
  <1>1. /\ x \in Seq(Word) /\ m \in Seq(Word) /\ lenx \in Nat /\ len \in Nat \ {0}
        /\ x # Exit /\ W * lenx \in Nat
    BY NumeralLen, WordAssumption
  <1>2. quot \in Seq(Word) /\ Len(quot) = lenx /\ v = q * w + s
    BY DivisionRuns
  <1>3. r \in Remainder(m)
    <2>1. W*lenx \in 0..W*lenx
      BY <1>1
    <2> QED
      BY <1>1, <2>1, RemaindersRule
  <1>4. r \in Numeral /\ Len(r) = len + 1 /\ s \in Nat /\ s < w
    BY <1>3, RemainderIs
  <1>5. Div(x, m, lenx) = quot
    BY DivIsQuotient
  <1>6. Mod(x, m, Zero(len)) = rest
    <2> DEFINE zeros == Zero(len)
    <2>1. Len(zeros) = len
      BY <1>1 DEF Zero
    <2>2. r # Exit
      BY <1>4, NumeralLen
    <2>3. len - len = 0
      BY <1>1
    <2>4. Mod(x, m, zeros) = PutLast(r, zeros, 0)
      <3> HIDE DEF zeros
      <3> QED
        BY <1>1, <2>1, <2>3 DEF Mod
    <2> HIDE DEF zeros, r, len
    <2>5. PutLast(r, zeros, 0) = [i \in 1..len |-> IF i <= 0 THEN zeros[i] ELSE r[i-0+1]]
      BY <2>1, <2>2 DEF PutLast
    <2>6. ASSUME NEW i \in 1..len
          PROVE  (IF i <= 0 THEN zeros[i] ELSE r[i-0+1]) = At(r, len, i)
      <3>1. Len(r) - (len - i) = i + 1 /\ i - 0 + 1 = i + 1 /\ ~(i <= 0) /\ ~(i + 1 < 1)
        BY <1>1, <1>4
      <3> QED
        BY <3>1 DEF At
    <2> QED
      BY <2>4, <2>5, <2>6 DEF Aligned, zeros
  <1>7. rest \in Seq(Word) /\ Len(rest) = len /\ Value(rest) = s
    <2>1. r \in Seq(Word) /\ len <= Len(r)
      BY <1>1, <1>4, NumeralLen
    <2>2. PICK high \in Nat : s = high * Room[len] + Sums(rest, len)[len]
      BY <1>1, <2>1, AlignedShort
    <2>3. rest \in [1..len -> Word]
      BY <1>1, <2>1, AlignedIsWords
    <2> HIDE DEF rest
    <2>4. rest \in Seq(Word) /\ Len(rest) = len
      BY <1>1, <2>3
    <2>5. Value(rest) = Sums(rest, len)[len]
      BY <2>4, ValueIsSum
    <2>6. Value(rest) \in 0..Room[len]-1
      BY <1>1, <2>4, ValueFits
    <2>7. w \in 0..Room[len]-1 /\ Room[len] \in Nat \ {0}
      BY <1>1, ValueFits, RoomIsNat
    <2>8. s \in 0..Room[len]-1
      BY <1>4, <2>7
    <2> DEFINE room == Room[len]
               low == Value(rest)
    <2>9. high * room + low \in 0..room-1 /\ high \in Int /\ room \in Nat \ {0} /\ low \in 0..room-1
      BY <2>2, <2>5, <2>6, <2>7, <2>8
    <2>10. s = high * room + low
      BY <2>2, <2>5
    <2> HIDE DEF room, low
    <2>11. high = 0
      BY <2>9, NoCarry
    <2>12. s = low
      BY <2>9, <2>10, <2>11
    <2> QED
      BY <2>4, <2>12 DEF low
  <1>8. v \div w = q /\ v % w = s
    <2>1. q \in Int /\ s \in 0..w-1 /\ w \in Nat \ {0}
      BY <1>2, <1>4, CmpExact
    <2> HIDE DEF q, s, v, w
    <2> QED
      BY <1>2, <2>1, DivisionUnique
  <1> HIDE DEF quot, r, rest
  <1>9. Holds(quot, q, lenx)
    <2>1. q \in 0..Room[lenx]-1
      BY <1>1, <1>2, ValueFits
    <2> QED
      BY <1>2, <2>1 DEF Holds
  <1>10. Holds(rest, s, len)
    <2>1. s \in 0..Room[len]-1
      <3>1. len <= len
        BY <1>1
      <3>2. Value(rest) \in 0..Room[len]-1
        BY <1>1, <1>7, <3>1, ValueFits
      <3> QED
        BY <1>7, <3>2
    <2> QED
      BY <1>7, <2>1 DEF Holds
  <1> QED
    BY <1>5, <1>6, <1>8, <1>9, <1>10
-----------------------------------------------------------------------------
(* The recursion of the product is one over the length of its operands. *)
HalfOf(p, h, k) == SubSeq(p, k*h + 1, (k+1)*h)
HalfLen(x, y) == Even(MaxLen(x, y)) \div 2
Part(x, y, product, k, l) ==
  Low(product[<<HalfOf(PaddedA(x, y), HalfLen(x, y), k), HalfOf(PaddedB(x, y), HalfLen(x, y), l)>>],
      2 * HalfLen(x, y))

LEMMA ProductByIs ==
  ASSUME NEW x, NEW y, NEW product
  PROVE  ProductBy(x, y, product) =
           IF Len(x) = 1 /\ Len(y) = 1
           THEN <<(x[1] * y[1]) \div Base, (x[1] * y[1]) % Base>>
           ELSE IF Exit \in {Part(x, y, product, 0, 0), Part(x, y, product, 0, 1),
                             Part(x, y, product, 1, 0), Part(x, y, product, 1, 1)}
                THEN Exit
                ELSE Combine(Part(x, y, product, 0, 0), Part(x, y, product, 0, 1),
                             Part(x, y, product, 1, 0), Part(x, y, product, 1, 1), HalfLen(x, y))
  BY DEF ProductBy, Part, HalfOf, HalfLen

LEMMA EvenRule ==
  ASSUME NEW k \in Nat
  PROVE  /\ Even(k) \in Nat /\ Even(k) \in k..k+1 /\ Even(k) \div 2 \in Nat
         /\ 2 * (Even(k) \div 2) = Even(k)
         /\ k % 2 = 0 => Even(k) = k
  <1> DEFINE q == k \div 2
             r == k % 2
  <1>1. k = 2 * q + r /\ r \in {0, 1} /\ q \in Nat
    OBVIOUS
  <1> HIDE DEF q, r
  <1>2. Even(k) = k + r
    BY DEF Even, r
  <1>3. CASE r = 0
    <2>1. (2 * q) \div 2 = q
      BY <1>1
    <2> QED
      BY <1>1, <1>2, <1>3, <2>1
  <1>4. CASE r = 1
    <2>1. (2 * (q + 1)) \div 2 = q + 1
      BY <1>1
    <2>2. Even(k) = 2 * (q + 1)
      BY <1>1, <1>2, <1>4
    <2> QED
      BY <1>1, <1>2, <1>4, <2>1, <2>2 DEF r
  <1> QED
    BY <1>1, <1>3, <1>4

LEMMA PaddedIsWords ==
  ASSUME NEW x \in Numeral, NEW y \in Numeral
  PROVE  LET len == Even(MaxLen(x, y))
         IN  /\ PaddedA(x, y) \in Seq(Word) /\ Len(PaddedA(x, y)) = len
             /\ PaddedB(x, y) \in Seq(Word) /\ Len(PaddedB(x, y)) = len
             /\ MaxLen(x, y) = len => PaddedA(x, y) = Aligned(x, len) /\ PaddedB(x, y) = Aligned(y, len)
  <1> DEFINE max == MaxLen(x, y)
             len == Even(max)
  <1>1. x \in Seq(Word) /\ y \in Seq(Word) /\ Len(x) \in Nat \ {0} /\ Len(y) \in Nat \ {0}
    BY NumeralLen
  <1>2. max \in Nat /\ len \in Nat /\ Len(x) <= len /\ Len(y) <= len /\ (max = Len(x) \/ max = Len(y))
        /\ Len(x) <= max /\ Len(y) <= max /\ 0 \in Word
    <2>1. max \in Nat /\ (max = Len(x) \/ max = Len(y)) /\ Len(x) <= max /\ Len(y) <= max
      BY <1>1 DEF MaxLen
    <2> HIDE DEF max
    <2>2. len \in Nat /\ max <= len
      BY <2>1, EvenRule
    <2>3. 0 \in Word
      BY BaseRule DEF Word
    <2> HIDE DEF len
    <2> QED
      BY <1>1, <2>1, <2>2, <2>3
  <1> HIDE DEF len, max
  <1>3. Aligned(x, len) \in Seq(Word) /\ Len(Aligned(x, len)) = len
    BY <1>1, <1>2, AlignedIsWords
  <1>4. Aligned(y, len) \in Seq(Word) /\ Len(Aligned(y, len)) = len
    BY <1>1, <1>2, AlignedIsWords
  <1>5. ASSUME NEW z \in Seq(Word), Len(z) <= len
        PROVE  Len(z) = len => z = Aligned(z, len)
    <2> SUFFICES ASSUME Len(z) = len
                 PROVE  z = Aligned(z, len)
      OBVIOUS
    <2>1. z = [i \in 1..len |-> z[i]]
      OBVIOUS
    <2>2. ASSUME NEW i \in 1..len
          PROVE  z[i] = At(z, len, i)
      <3>1. Len(z) - (len - i) = i /\ ~(i < 1)
        BY <1>2
      <3> QED
        BY <3>1 DEF At
    <2> QED
      BY <2>1, <2>2 DEF Aligned
  <1>6. CASE Len(x) >= Len(y)
    <2> DEFINE off == Len(x) - Len(y)
               padded == [i \in 1..len |-> IF i > off /\ i <= off + Len(y) THEN y[i - off] ELSE 0]
    <2>1. PaddedA(x, y) = Aligned(x, len)
      BY <1>3, <1>6 DEF PaddedA, len, max
    <2>2. PaddedB(x, y) = IF Len(y) = len THEN y ELSE padded
      BY <1>1, <1>6 DEF PaddedB, len, max
    <2>3. padded \in Seq(Word) /\ Len(padded) = len
      <3>1. ASSUME NEW i \in 1..len
            PROVE  (IF i > off /\ i <= off + Len(y) THEN y[i - off] ELSE 0) \in Word
        <4>1. i > off /\ i <= off + Len(y) => i - off \in 1..Len(y)
          BY <1>1, <1>2
        <4> QED
          BY <1>1, <1>2, <4>1
      <3>2. padded \in [1..len -> Word]
        BY <3>1
      <3> HIDE DEF padded
      <3> QED
        BY <1>2, <3>2
    <2>4. max = len => padded = Aligned(y, len)
      <3> SUFFICES ASSUME max = len
                   PROVE  padded = Aligned(y, len)
        OBVIOUS
      <3>1. ASSUME NEW i \in 1..len
            PROVE  (IF i > off /\ i <= off + Len(y) THEN y[i - off] ELSE 0) = At(y, len, i)
        <4>1. Len(x) = len
          BY <1>1, <1>2, <1>6
        <4>2. Len(y) - (len - i) = i - off /\ i <= off + Len(y) /\ (i - off < 1 <=> ~(i > off))
          BY <1>1, <1>2, <4>1
        <4> QED
          BY <4>2 DEF At
      <3> QED
        BY <3>1 DEF Aligned
    <2> HIDE DEF padded
    <2> QED
      BY <1>1, <1>2, <1>3, <1>5, <2>1, <2>2, <2>3, <2>4 DEF len, max
  <1>7. CASE Len(x) < Len(y)
    <2> DEFINE off == Len(y) - Len(x)
               padded == [i \in 1..len |-> IF i > off /\ i <= off + Len(x) THEN x[i - off] ELSE 0]
    <2>1. PaddedB(x, y) = Aligned(y, len)
      BY <1>1, <1>4, <1>7 DEF PaddedB, len, max
    <2>2. PaddedA(x, y) = IF Len(x) = len THEN x ELSE padded
      BY <1>1, <1>7 DEF PaddedA, len, max
    <2>3. padded \in Seq(Word) /\ Len(padded) = len
      <3>1. ASSUME NEW i \in 1..len
            PROVE  (IF i > off /\ i <= off + Len(x) THEN x[i - off] ELSE 0) \in Word
        <4>1. i > off /\ i <= off + Len(x) => i - off \in 1..Len(x)
          BY <1>1, <1>2
        <4> QED
          BY <1>1, <1>2, <4>1
      <3>2. padded \in [1..len -> Word]
        BY <3>1
      <3> HIDE DEF padded
      <3> QED
        BY <1>2, <3>2
    <2>4. max = len => padded = Aligned(x, len)
      <3> SUFFICES ASSUME max = len
                   PROVE  padded = Aligned(x, len)
        OBVIOUS
      <3>1. ASSUME NEW i \in 1..len
            PROVE  (IF i > off /\ i <= off + Len(x) THEN x[i - off] ELSE 0) = At(x, len, i)
        <4>1. Len(y) = len
          BY <1>1, <1>2, <1>7
        <4>2. Len(x) - (len - i) = i - off /\ i <= off + Len(x) /\ (i - off < 1 <=> ~(i > off))
          BY <1>1, <1>2, <4>1
        <4> QED
          BY <4>2 DEF At
      <3> QED
        BY <3>1 DEF Aligned
    <2> HIDE DEF padded
    <2> QED
      BY <1>1, <1>2, <1>4, <1>5, <2>1, <2>2, <2>3, <2>4 DEF len, max
  <1> QED
    BY <1>1, <1>6, <1>7

LEMMA HalfOfRule ==
  ASSUME NEW h \in Nat, NEW p \in Seq(Word), Len(p) = 2 * h, NEW k \in {0, 1}
  PROVE  /\ HalfOf(p, h, k) \in Seq(Word) /\ Len(HalfOf(p, h, k)) = h
         /\ \A i \in 1..h : HalfOf(p, h, k)[i] = p[k*h+i]
  <1>1. 0*h + 1 = 1 /\ (0+1)*h = h /\ 1*h + 1 = h + 1 /\ (1+1)*h = 2*h
    OBVIOUS
  <1>2. CASE k = 0
    <2>1. HalfOf(p, h, k) = SubSeq(p, 1, h)
      BY <1>1, <1>2 DEF HalfOf
    <2>2. SubSeq(p, 1, h) = [i \in 1..h |-> p[i]]
      OBVIOUS
    <2>3. \A i \in 1..h : p[i] \in Word /\ k*h+i = i
      BY <1>2
    <2> QED
      BY <2>1, <2>2, <2>3
  <1>3. CASE k = 1
    <2>1. HalfOf(p, h, k) = SubSeq(p, h + 1, 2*h)
      BY <1>1, <1>3 DEF HalfOf
    <2>2. SubSeq(p, h + 1, 2*h) = [i \in 1..h |-> p[h+i]]
      <3>1. SubSeq(p, h + 1, 2*h) = [i \in 1..2*h-(h+1)+1 |-> p[i+(h+1)-1]]
        OBVIOUS
      <3>2. 2*h-(h+1)+1 = h /\ \A i \in 1..h : i+(h+1)-1 = h+i
        OBVIOUS
      <3> QED
        BY <3>1, <3>2
    <2>3. \A i \in 1..h : p[h+i] \in Word /\ k*h+i = h+i
      BY <1>3
    <2> QED
      BY <2>1, <2>2, <2>3
  <1> QED
    BY <1>2, <1>3

LEMMA HalvesRule ==
  ASSUME NEW x \in Numeral, NEW y \in Numeral, ~(Len(x) = 1 /\ Len(y) = 1),
         NEW k \in {0, 1}, NEW l \in {0, 1}
  PROVE  LET h == HalfLen(x, y)
             p == HalfOf(PaddedA(x, y), h, k)
             q == HalfOf(PaddedB(x, y), h, l)
         IN  /\ h \in Nat \ {0} /\ h < MaxLen(x, y)
             /\ p \in Numeral /\ Len(p) = h /\ q \in Numeral /\ Len(q) = h
             /\ MaxLen(p, q) = h
  <1> DEFINE h == HalfLen(x, y)
             max == MaxLen(x, y)
             p == HalfOf(PaddedA(x, y), h, k)
             q == HalfOf(PaddedB(x, y), h, l)
  <1>1. max \in Nat /\ max >= 2
    <2>1. Len(x) \in Nat \ {0} /\ Len(y) \in Nat \ {0}
      BY NumeralLen
    <2> DEFINE i == Len(x)
               j == Len(y)
    <2>2. i \in Nat \ {0} /\ j \in Nat \ {0} /\ ~(i = 1 /\ j = 1)
      BY <2>1
    <2>3. max = IF i >= j THEN i ELSE j
      BY DEF MaxLen
    <2> HIDE DEF i, j, max
    <2> QED
      BY <2>2, <2>3
  <1> HIDE DEF max
  <1>2. h \in Nat /\ 2 * h = Even(max) /\ Even(max) \in max..max+1
    BY <1>1, EvenRule DEF HalfLen, max
  <1>3. /\ PaddedA(x, y) \in Seq(Word) /\ Len(PaddedA(x, y)) = 2 * h
        /\ PaddedB(x, y) \in Seq(Word) /\ Len(PaddedB(x, y)) = 2 * h
    BY <1>2, PaddedIsWords DEF max
  <1> HIDE DEF h
  <1>4. h # 0 /\ h < max
    BY <1>1, <1>2
  <1>5. p \in Seq(Word) /\ Len(p) = h /\ q \in Seq(Word) /\ Len(q) = h
    BY <1>2, <1>3, HalfOfRule
  <1> HIDE DEF p, q
  <1>6. p \in Numeral /\ q \in Numeral
    BY <1>2, <1>4, <1>5 DEF Numeral
  <1>7. MaxLen(p, q) = h
    BY <1>5 DEF MaxLen
  <1> QED
    BY <1>2, <1>4, <1>5, <1>6, <1>7 DEF h, p, q, max

LEMMA ProductDepends ==
  ASSUME NEW x \in Numeral, NEW y \in Numeral, NEW f, NEW g,
         \A u \in Numeral, v \in Numeral : MaxLen(u, v) < MaxLen(x, y) => f[<<u, v>>] = g[<<u, v>>]
  PROVE  ProductBy(x, y, f) = ProductBy(x, y, g)
  <1>1. CASE Len(x) = 1 /\ Len(y) = 1
    BY <1>1, ProductByIs
  <1>2. CASE ~(Len(x) = 1 /\ Len(y) = 1)
    <2>1. ASSUME NEW k \in {0, 1}, NEW l \in {0, 1}
          PROVE  Part(x, y, f, k, l) = Part(x, y, g, k, l)
      BY <1>2, HalvesRule DEF Part
    <2>2. 0 \in {0, 1} /\ 1 \in {0, 1}
      OBVIOUS
    <2>3. /\ Part(x, y, f, 0, 0) = Part(x, y, g, 0, 0) /\ Part(x, y, f, 0, 1) = Part(x, y, g, 0, 1)
          /\ Part(x, y, f, 1, 0) = Part(x, y, g, 1, 0) /\ Part(x, y, f, 1, 1) = Part(x, y, g, 1, 1)
      BY <2>1, <2>2
    <2> QED
      BY <2>3, ProductByIs
  <1> QED
    BY <1>1, <1>2

Size(p) == MaxLen(p[1], p[2])
Small(len) == {p \in Numeral \X Numeral : Size(p) <= len}
IsProductTo(len, f) == f = [p \in Small(len) |-> ProductBy(p[1], p[2], f)]

LEMMA SizeRule ==
  ASSUME NEW p \in Numeral \X Numeral
  PROVE  p[1] \in Numeral /\ p[2] \in Numeral /\ Size(p) \in Nat \ {0} /\ p = <<p[1], p[2]>>
  <1>1. p[1] \in Numeral /\ p[2] \in Numeral /\ p = <<p[1], p[2]>>
    OBVIOUS
  <1>2. Len(p[1]) \in Nat \ {0} /\ Len(p[2]) \in Nat \ {0}
    BY <1>1, NumeralLen
  <1> QED
    BY <1>1, <1>2 DEF Size, MaxLen

LEMMA SmallerPair ==
  ASSUME NEW u \in Numeral, NEW v \in Numeral
  PROVE  <<u, v>> \in Numeral \X Numeral /\ Size(<<u, v>>) = MaxLen(u, v)
  BY DEF Size

LEMMA ProductsAgree ==
  ASSUME NEW i \in Nat, NEW j \in Nat, NEW f, NEW g, IsProductTo(i, f), IsProductTo(j, g)
  PROVE  \A p \in Numeral \X Numeral : Size(p) <= i /\ Size(p) <= j => f[p] = g[p]
  <1> DEFINE Same(p) == Size(p) <= i /\ Size(p) <= j => f[p] = g[p]
             T == {k \in Nat : \A p \in Small(k) : Same(p)}
  <1>1. 0 \in T
    BY SizeRule DEF Small
  <1>2. ASSUME NEW k \in Nat, k \in T
        PROVE  k + 1 \in T
    <2> SUFFICES ASSUME NEW p \in Small(k+1), Size(p) <= i, Size(p) <= j
                 PROVE  f[p] = g[p]
      OBVIOUS
    <2>1. /\ p \in Numeral \X Numeral /\ Size(p) \in Nat /\ Size(p) <= k + 1
          /\ p[1] \in Numeral /\ p[2] \in Numeral
      BY SizeRule DEF Small
    <2>2. f[p] = ProductBy(p[1], p[2], f) /\ g[p] = ProductBy(p[1], p[2], g)
      BY <2>1 DEF IsProductTo, Small
    <2>3. ASSUME NEW u \in Numeral, NEW v \in Numeral, MaxLen(u, v) < MaxLen(p[1], p[2])
          PROVE  f[<<u, v>>] = g[<<u, v>>]
      <3> DEFINE r == <<u, v>>
      <3>1. r \in Numeral \X Numeral /\ Size(r) = MaxLen(u, v) /\ Size(r) \in Nat
        BY SmallerPair, SizeRule
      <3>2. Size(r) < Size(p)
        BY <2>3, <3>1 DEF Size
      <3> HIDE DEF r
      <3>3. r \in Small(k) /\ Size(r) <= i /\ Size(r) <= j
        BY <2>1, <3>1, <3>2 DEF Small
      <3> QED
        BY <1>2, <3>3 DEF r
    <2>4. ProductBy(p[1], p[2], f) = ProductBy(p[1], p[2], g)
      BY <2>1, <2>3, ProductDepends
    <2> QED
      BY <2>2, <2>4
  <1>3. \A k \in Nat : k \in T
    <2> HIDE DEF T
    <2> QED
      BY <1>1, <1>2, SetInduction
  <1> SUFFICES ASSUME NEW p \in Numeral \X Numeral
               PROVE  Same(p)
    OBVIOUS
  <1>4. Size(p) \in Nat /\ p \in Small(Size(p))
    BY SizeRule DEF Small
  <1> HIDE DEF Same
  <1> QED
    BY <1>3, <1>4

LEMMA ProductToExists ==
  ASSUME NEW len \in Nat
  PROVE  \E f : IsProductTo(len, f)
  <1> DEFINE T == {k \in Nat : \E f : IsProductTo(k, f)}
  <1>1. 0 \in T
    <2> DEFINE f == [p \in Small(0) |-> 0]
    <2>1. Small(0) = {}
      BY SizeRule DEF Small
    <2>2. IsProductTo(0, f)
      BY <2>1 DEF IsProductTo
    <2> QED
      BY <2>2
  <1>2. ASSUME NEW k \in Nat, k \in T
        PROVE  k + 1 \in T
    <2>1. PICK f : IsProductTo(k, f)
      BY <1>2
    <2> DEFINE g == [p \in Small(k+1) |-> ProductBy(p[1], p[2], f)]
    <2>2. ASSUME NEW p \in Small(k+1)
          PROVE  ProductBy(p[1], p[2], f) = ProductBy(p[1], p[2], g)
      <3>1. /\ p \in Numeral \X Numeral /\ Size(p) \in Nat /\ Size(p) <= k + 1
            /\ p[1] \in Numeral /\ p[2] \in Numeral
        BY SizeRule DEF Small
      <3>2. ASSUME NEW u \in Numeral, NEW v \in Numeral, MaxLen(u, v) < MaxLen(p[1], p[2])
            PROVE  f[<<u, v>>] = g[<<u, v>>]
        <4> DEFINE r == <<u, v>>
        <4>1. r \in Numeral \X Numeral /\ Size(r) = MaxLen(u, v) /\ Size(r) \in Nat
          BY SmallerPair, SizeRule
        <4>2. Size(r) < Size(p)
          BY <3>2, <4>1 DEF Size
        <4> HIDE DEF r
        <4>3. r \in Small(k) /\ r \in Small(k+1)
          BY <3>1, <4>1, <4>2 DEF Small
        <4>4. f[r] = ProductBy(r[1], r[2], f) /\ g[r] = ProductBy(r[1], r[2], f)
          BY <2>1, <4>3 DEF IsProductTo
        <4> QED
          BY <4>4 DEF r
      <3> HIDE DEF g
      <3> QED
        BY <3>1, <3>2, ProductDepends
    <2>3. IsProductTo(k + 1, g)
      BY <2>2 DEF IsProductTo
    <2> QED
      BY <2>3
  <1>3. \A k \in Nat : k \in T
    <2> HIDE DEF T
    <2> QED
      BY <1>1, <1>2, SetInduction
  <1> QED
    BY <1>3

LEMMA LongProductRule ==
  ASSUME NEW x \in Numeral, NEW y \in Numeral
  PROVE  LongProduct[<<x, y>>] = ProductBy(x, y, LongProduct)
  <1> DEFINE part == [k \in Nat |-> CHOOSE f : IsProductTo(k, f)]
             Pairs == Numeral \X Numeral
             whole == [p \in Pairs |-> part[Size(p)][p]]
  <1>1. ASSUME NEW k \in Nat
        PROVE  IsProductTo(k, part[k])
    BY ProductToExists
  <1> HIDE DEF part
  <1>2. ASSUME NEW p \in Pairs
        PROVE  whole[p] = ProductBy(p[1], p[2], whole)
    <2>1. Size(p) \in Nat /\ p[1] \in Numeral /\ p[2] \in Numeral
      BY SizeRule
    <2> DEFINE f == part[Size(p)]
    <2>2. IsProductTo(Size(p), f)
      BY <1>1, <2>1
    <2> HIDE DEF f
    <2>3. f[p] = ProductBy(p[1], p[2], f)
      BY <2>1, <2>2 DEF IsProductTo, Small
    <2>4. ASSUME NEW u \in Numeral, NEW v \in Numeral, MaxLen(u, v) < MaxLen(p[1], p[2])
          PROVE  f[<<u, v>>] = whole[<<u, v>>]
      <3> DEFINE r == <<u, v>>
                 g == part[Size(r)]
      <3>1. r \in Pairs /\ Size(r) = MaxLen(u, v) /\ Size(r) \in Nat
        BY SmallerPair, SizeRule
      <3>2. Size(r) < Size(p)
        BY <2>4, <3>1 DEF Size
      <3> HIDE DEF r
      <3>3. whole[r] = g[r]
        BY <3>1
      <3>4. IsProductTo(Size(r), g)
        BY <1>1, <3>1
      <3> HIDE DEF g
      <3>5. Size(r) <= Size(p) /\ Size(r) <= Size(r)
        BY <2>1, <3>1, <3>2
      <3>6. f[r] = g[r]
        BY <2>1, <2>2, <3>1, <3>4, <3>5, ProductsAgree
      <3> QED
        BY <3>3, <3>6 DEF r
    <2>5. whole[p] = f[p]
      BY DEF f
    <2> HIDE DEF whole
    <2>6. ProductBy(p[1], p[2], f) = ProductBy(p[1], p[2], whole)
      BY <2>1, <2>4, ProductDepends
    <2> QED
      BY <2>3, <2>5, <2>6
  <1>3. whole = [p \in Pairs |-> ProductBy(p[1], p[2], whole)]
    BY <1>2
  <1> HIDE DEF whole
  <1>4. LongProduct = [p \in Pairs |-> ProductBy(p[1], p[2], LongProduct)]
    BY <1>3 DEF LongProduct
  <1>5. <<x, y>> \in Pairs /\ <<x, y>>[1] = x /\ <<x, y>>[2] = y
    OBVIOUS
  <1> QED
    BY <1>4, <1>5
-----------------------------------------------------------------------------
(* The number that joined words stand for *)

LEMMA SumsPrefix ==
  ASSUME NEW len \in Nat, NEW d \in [1..len -> Int], NEW off \in 0..len,
         NEW e \in [1..off -> Int], \A i \in 1..off : d[i] = e[i]
  PROVE  Sums(d, len)[off] = Sums(e, off)[off]
  <1> DEFINE sumd == Sums(d, len)
             sume == Sums(e, off)
             T == {i \in 0..off : sumd[i] = sume[i]}
  <1>1. /\ sumd[0] = 0 /\ \A i \in 1..len : sumd[i] = sumd[i-1] * Base + d[i]
        /\ sume[0] = 0 /\ \A i \in 1..off : sume[i] = sume[i-1] * Base + e[i]
    <2>1. sumd[0] = 0 /\ \A i \in 1..len : sumd[i] = sumd[i-1] * Base + d[i]
      BY SumsRule
    <2>2. off \in Nat
      OBVIOUS
    <2>3. sume[0] = 0 /\ \A i \in 1..off : sume[i] = sume[i-1] * Base + e[i]
      BY <2>2, SumsRule
    <2> QED
      BY <2>1, <2>3
  <1> HIDE DEF sumd, sume
  <1>2. 0 \in T
    BY <1>1
  <1>3. ASSUME NEW i \in 0..off-1, i \in T
        PROVE  i + 1 \in T
    <2>1. i + 1 \in 1..len /\ i + 1 \in 1..off /\ i + 1 \in 0..off /\ (i + 1) - 1 = i
      OBVIOUS
    <2>2. sumd[i+1] = sumd[i] * Base + d[i+1] /\ sume[i+1] = sume[i] * Base + e[i+1]
      BY <1>1, <2>1
    <2> QED
      BY <1>3, <2>1, <2>2
  <1>4. \A i \in 0..off : i \in T
    <2> HIDE DEF T
    <2>1. off \in Int
      OBVIOUS
    <2> QED
      BY <1>2, <1>3, <2>1, 0 \in Int, RangeInduction, Zenon
  <1>5. off \in 0..off
    OBVIOUS
  <1> QED
    BY <1>4, <1>5 DEF sumd, sume

LEMMA ConcatValue ==
  ASSUME NEW u \in Seq(Word), NEW v \in Seq(Word)
  PROVE  /\ u \o v \in Seq(Word) /\ Len(u \o v) = Len(u) + Len(v)
         /\ Value(u \o v) = Value(u) * Room[Len(v)] + Value(v)
  <1> DEFINE d == u \o v
             i == Len(u)
             j == Len(v)
             len == i + j
  <1>1. /\ i \in Nat /\ j \in Nat /\ d \in Seq(Word) /\ Len(d) = len
        /\ \A k \in 1..i : d[k] = u[k]
        /\ \A k \in 1..j : d[i+k] = v[k]
    OBVIOUS
  <1>2. /\ Value(u) = Sums(u, i)[i] /\ u \in [1..i -> Int]
        /\ Value(v) = Sums(v, j)[j] /\ v \in [1..j -> Int]
    BY ValueIsSum
  <1>3. Value(d) = Sums(d, len)[len] /\ d \in [1..len -> Int]
    BY <1>1, ValueIsSum
  <1> HIDE DEF d, i, j
  <1>4. len \in Nat /\ i \in 0..len /\ len - i = j
    BY <1>1
  <1> HIDE DEF len
  <1>5. Sums(d, len)[len] = Sums(d, len)[i] * Room[len-i] + Sums(v, len - i)[len-i]
    BY <1>1, <1>2, <1>3, <1>4, SumsSplit
  <1>6. Sums(d, len)[i] = Sums(u, i)[i]
    BY <1>1, <1>2, <1>3, <1>4, SumsPrefix
  <1>7. Value(d) = Value(u) * Room[j] + Value(v)
    BY <1>2, <1>3, <1>4, <1>5, <1>6
  <1> QED
    BY <1>1, <1>7 DEF d, i, j, len

LEMMA ValueOfOne ==
  ASSUME NEW w \in Word
  PROVE  <<w>> \in Seq(Word) /\ Len(<<w>>) = 1 /\ Value(<<w>>) = w
  <1> DEFINE x == <<w>>
  <1>1. x \in Seq(Word) /\ Len(x) = 1 /\ x[1] = w
    OBVIOUS
  <1>2. Value(x) = Sums(x, 1)[1] /\ x \in [1..1 -> Int]
    BY <1>1, ValueIsSum
  <1> HIDE DEF x
  <1>3. Sums(x, 1)[0] = 0 /\ Sums(x, 1)[1] = Sums(x, 1)[1-1] * Base + x[1]
    <2>1. 1 \in 1..1 /\ 1 \in Nat
      OBVIOUS
    <2> QED
      BY <1>2, <2>1, SumsRule
  <1>4. w \in Int
    BY BaseRule DEF Word
  <1>5. 0 * Base + w = w
    BY <1>4, BaseRule
  <1> QED
    BY <1>1, <1>2, <1>3, <1>5 DEF x

LEMMA HeadValue ==
  ASSUME NEW x \in Numeral
  PROVE  /\ x[1] \in Word /\ Tail(x) \in Seq(Word) /\ Len(Tail(x)) = Len(x) - 1
         /\ Value(x) = x[1] * Room[Len(x)-1] + Value(Tail(x))
  <1> DEFINE h == <<x[1]>>
             t == Tail(x)
  <1>1. x \in Seq(Word) /\ x # <<>> /\ Len(x) \in Nat \ {0}
    BY NumeralLen DEF Numeral
  <1>2. x[1] \in Word /\ t \in Seq(Word) /\ Len(t) = Len(x) - 1
    <2>1. 1 \in 1..Len(x)
      BY <1>1
    <2> QED
      BY <1>1, <2>1
  <1>3. x = h \o t
    BY <1>1
  <1>4. h \in Seq(Word) /\ Value(h) = x[1]
    BY <1>2, ValueOfOne
  <1> HIDE DEF h, t
  <1>5. Value(h \o t) = Value(h) * Room[Len(t)] + Value(t)
    BY <1>2, <1>4, ConcatValue
  <1> QED
    BY <1>2, <1>3, <1>4, <1>5 DEF t

LEMMA HalvesValue ==
  ASSUME NEW h \in Nat, NEW p \in Seq(Word), Len(p) = 2 * h
  PROVE  /\ SubSeq(p, 1, h) = HalfOf(p, h, 0) /\ SubSeq(p, h + 1, 2*h) = HalfOf(p, h, 1)
         /\ Value(p) = Value(HalfOf(p, h, 0)) * Room[h] + Value(HalfOf(p, h, 1))
  <1> DEFINE u == HalfOf(p, h, 0)
             v == HalfOf(p, h, 1)
  <1>1. 0*h + 1 = 1 /\ (0+1)*h = h /\ 1*h + 1 = h + 1 /\ (1+1)*h = 2*h
    OBVIOUS
  <1>2. SubSeq(p, 1, h) = u /\ SubSeq(p, h + 1, 2*h) = v
    BY <1>1 DEF HalfOf
  <1>3. /\ u \in Seq(Word) /\ Len(u) = h /\ v \in Seq(Word) /\ Len(v) = h
        /\ \A i \in 1..h : u[i] = p[0*h+i] /\ v[i] = p[1*h+i]
    BY HalfOfRule
  <1> HIDE DEF u, v
  <1>4. p = u \o v
    <2> DEFINE r == u \o v
    <2>1. /\ r \in Seq(Word) /\ Len(r) = Len(u) + Len(v)
          /\ \A i \in 1..Len(u) : r[i] = u[i]
          /\ \A i \in 1..Len(v) : r[Len(u)+i] = v[i]
      BY <1>3
    <2> HIDE DEF r
    <2>2. ASSUME NEW i \in 1..2*h
          PROVE  r[i] = p[i]
      <3>1. CASE i <= h
        <4>1. i \in 1..h /\ 0*h + i = i
          BY <3>1
        <4> QED
          BY <1>3, <2>1, <4>1
      <3>2. CASE ~(i <= h)
        <4> DEFINE j == i - h
        <4>1. j \in 1..h /\ 1*h + j = i /\ h + j = i
          BY <3>2
        <4> HIDE DEF j
        <4>2. r[h+j] = v[j]
          BY <1>3, <2>1, <4>1
        <4>3. v[j] = p[1*h+j]
          BY <1>3, <4>1
        <4> QED
          BY <4>1, <4>2, <4>3
      <3> QED
        BY <3>1, <3>2
    <2>3. Len(r) = 2 * h
      BY <1>3, <2>1
    <2>4. r = p
      BY <2>1, <2>2, <2>3
    <2> QED
      BY <2>4 DEF r
  <1>5. Value(u \o v) = Value(u) * Room[Len(v)] + Value(v)
    BY <1>3, ConcatValue
  <1> QED
    BY <1>2, <1>3, <1>4, <1>5 DEF u, v
-----------------------------------------------------------------------------
(* One level of the product *)

LEMMA RoomPlus ==
  ASSUME NEW i \in Nat, NEW j \in Nat
  PROVE  Room[i+j] = Room[i] * Room[j]
  <1> DEFINE T == {k \in Nat : Room[i+k] = Room[i] * Room[k]}
  <1>1. 0 \in T
    <2>1. i + 0 = i /\ Room[0] = 1 /\ Room[i] \in Int
      BY RoomRule
    <2>2. Room[i] * 1 = Room[i]
      BY <2>1
    <2> QED
      BY <2>1, <2>2
  <1>2. ASSUME NEW k \in Nat, k \in T
        PROVE  k + 1 \in T
    <2> DEFINE r == Room[i]
               s == Room[k]
    <2>1. /\ Room[i+k+1] = Room[i+k] * Base /\ Room[k+1] = s * Base
          /\ r \in Int /\ s \in Int /\ Base \in Int /\ Room[i+k] = r * s
      <3>1. i + k \in Nat
        OBVIOUS
      <3>2. Room[i+k+1] = Room[i+k] * Base /\ Room[k+1] = Room[k] * Base
        BY <3>1, RoomStep
      <3>3. Room[i] \in Int /\ Room[k] \in Int
        BY RoomIsNat
      <3> QED
        BY <1>2, <3>2, <3>3, BaseRule
    <2>2. i + (k + 1) = i + k + 1
      OBVIOUS
    <2> HIDE DEF r, s
    <2>3. (r * s) * Base = r * (s * Base)
      BY <2>1
    <2>4. Room[i+(k+1)] = r * Room[k+1]
      BY <2>1, <2>2, <2>3
    <2> QED
      BY <2>4 DEF r
  <1>3. \A k \in Nat : k \in T
    <2> HIDE DEF T
    <2> QED
      BY <1>1, <1>2, SetInduction
  <1> QED
    BY <1>3

LEMMA ProductBelow ==
  ASSUME NEW i \in Nat \ {0}, NEW j \in Nat \ {0}, NEW u \in 0..i-1, NEW v \in 0..j-1
  PROVE  u * v \in 0..i*j-1
  <1> DEFINE p == u * v
             q == u * j
             r == i * j
  <1>1. j - v \in Nat /\ u \in Nat /\ u * (j - v) = q - p /\ u * (j - v) >= 0 /\ p >= 0
    OBVIOUS
  <1>2. i - u \in Nat \ {0} /\ (i - u) * j = r - q /\ (i - u) * j >= 1
    <2>1. i - u \in Nat \ {0}
      OBVIOUS
    <2> DEFINE t == i - u
    <2> HIDE DEF t
    <2>2. t \in Nat \ {0} => t * j >= 1
      OBVIOUS
    <2> QED
      BY <2>1, <2>2 DEF t
  <1>3. p \in Int /\ q \in Int /\ r \in Int
    OBVIOUS
  <1> HIDE DEF p, q, r
  <1>4. p \in 0..r-1
    BY <1>1, <1>2, <1>3
  <1> QED
    BY <1>4 DEF p, r

LEMMA WordProduct ==
  ASSUME NEW u \in Word, NEW v \in Word
  PROVE  LET x == <<(u * v) \div Base, (u * v) % Base>>
         IN  x \in Seq(Word) /\ Len(x) = 2 /\ Value(x) = u * v
  <1> DEFINE p == u * v
             q == p \div Base
             r == p % Base
             x == <<q, r>>
  <1>1. Base \in Nat \ {0} /\ u \in 0..Base-1 /\ v \in 0..Base-1
    BY BaseRule DEF Word
  <1>2. p \in 0..Base*Base-1
    BY <1>1, ProductBelow
  <1> HIDE DEF p
  <1>3. p \in Int /\ r \in 0..Base-1 /\ q \in Int /\ p = q * Base + r
    <2>1. p \in Int
      BY <1>1, <1>2
    <2> QED
      BY <1>1, <2>1, Division
  <1> HIDE DEF q, r
  <1>4. q \in 0..Base-1
    <2>1. q >= 0
      <3> SUFFICES ASSUME q <= -1
                   PROVE  FALSE
        BY <1>3
      <3>1. -1 - q \in Nat /\ (-1 - q) * Base >= 0 /\ (-1 - q) * Base = -Base - q * Base
        BY <1>1, <1>3
      <3> QED
        BY <1>1, <1>2, <1>3, <3>1
    <2>2. q < Base
      <3> SUFFICES ASSUME q >= Base
                   PROVE  FALSE
        BY <1>1, <1>3
      <3>1. q - Base \in Nat /\ (q - Base) * Base >= 0 /\ (q - Base) * Base = q * Base - Base * Base
        BY <1>1, <1>3
      <3> QED
        BY <1>1, <1>2, <1>3, <3>1
    <2> QED
      BY <1>1, <1>3, <2>1, <2>2
  <1>5. q \in Word /\ r \in Word
    BY <1>3, <1>4 DEF Word
  <1>6. x = <<q>> \o <<r>>
    <2> DEFINE joined == <<q>> \o <<r>>
    <2>1. joined \in Seq(Word) /\ x \in Seq(Word)
      BY <1>5
    <2>2. Len(joined) = 2 /\ Len(x) = 2
      BY <1>5
    <2>3. joined[1] = q /\ joined[2] = r
      BY <1>5
    <2>4. \A i \in 1..Len(joined) : joined[i] = x[i]
      BY <2>2, <2>3
    <2> HIDE DEF joined
    <2>5. joined = [i \in 1..2 |-> joined[i]]
      BY <2>1, <2>2
    <2>6. x = [i \in 1..2 |-> x[i]]
      BY <2>1, <2>2
    <2> HIDE DEF x
    <2>7. joined = x
      BY <2>2, <2>4, <2>5, <2>6
    <2> QED
      BY <2>7 DEF joined
  <1>7. /\ <<q>> \in Seq(Word) /\ Len(<<q>>) = 1 /\ Value(<<q>>) = q
        /\ <<r>> \in Seq(Word) /\ Len(<<r>>) = 1 /\ Value(<<r>>) = r
    BY <1>5, ValueOfOne
  <1>8. Value(<<q>> \o <<r>>) = q * Room[1] + r
    BY <1>7, ConcatValue, ZenonT(40)
  <1>9. Room[1] = Base
    <2>1. Room[0+1] = Room[0] * Base /\ Room[0] = 1
      BY RoomRule
    <2> QED
      BY <2>1, BaseRule
  <1>10. Value(x) = p
    BY <1>3, <1>6, <1>8, <1>9
  <1>11. x \in Seq(Word) /\ Len(x) = 2
    BY <1>5
  <1> QED
    BY <1>10, <1>11 DEF p, q, r

LEMMA BaseIsFour ==
  ASSUME W >= 2
  PROVE  Base >= 4
  <1>1. W \in 1..W /\ W - 1 \in 1..W /\ (W - 1) - 1 \in 0..W
    BY WordAssumption
  <1>2. Base = 2 * TwoTo[W-1] /\ TwoTo[W-1] = 2 * TwoTo[(W-1)-1] /\ TwoTo[(W-1)-1] \in Nat \ {0}
    BY <1>1, BaseIsEven, TwoToRule
  <1> QED
    BY <1>2

(* Three numbers of a length have room for their sum in one word more.     *)
LEMMA MultiAddExact ==
  ASSUME W >= 2, NEW h \in Nat \ {0},
         NEW u \in Seq(Word), NEW v \in Seq(Word), NEW w \in Seq(Word),
         Len(u) = h, Len(v) = h, Len(w) = h
  PROVE  LET s == MultiAdd(u, v, w, h + 1)
         IN  s \in Numeral /\ Len(s) = h + 1 /\ Value(s) = Value(u) + Value(v) + Value(w)
  <1> DEFINE r == Room[h]
             t == Add(u, v, h + 1)
             s == Add(t, w, h + 1)
             vu == Value(u)
             vv == Value(v)
             vw == Value(w)
  <1>1. u \in Numeral /\ v \in Numeral /\ w \in Numeral /\ h + 1 \in Nat
    BY DEF Numeral
  <1>2. h <= h + 1 /\ h <= h
    OBVIOUS
  <1>3. vu \in 0..r-1 /\ vv \in 0..r-1 /\ vw \in 0..r-1 /\ r \in Nat \ {0}
    BY <1>2, ValueFits, RoomIsNat
  <1>4. Room[h+1] = r * Base
    BY RoomStep
  <1>5. 4 * r <= r * Base /\ r * Base \in Int
    <2>1. Base - 4 \in Nat /\ r \in Nat
      BY <1>3, BaseIsFour, BaseRule
    <2> HIDE DEF r
    <2>2. r * (Base - 4) >= 0 /\ r * (Base - 4) = r * Base - 4 * r /\ r * Base \in Int
      BY <2>1, BaseRule
    <2> QED
      BY <2>1, <2>2
  <1>6. vu + vv \in 0..Room[h+1]-1 /\ vu + vv + vw \in 0..Room[h+1]-1
    <2> DEFINE big == r * Base
    <2>1. big \in Int /\ 4 * r <= big /\ Room[h+1] = big
      BY <1>4, <1>5
    <2> HIDE DEF big, r, vu, vv, vw
    <2> QED
      BY <1>3, <2>1
  <1>7. Holds(t, vu + vv, h + 1)
    BY <1>1, <1>2, AddExact
  <1>8. t \in Seq(Word) /\ Len(t) = h + 1 /\ Value(t) = vu + vv
    BY <1>6, <1>7 DEF Holds
  <1> HIDE DEF t
  <1>9. t \in Numeral
    BY <1>1, <1>8 DEF Numeral
  <1>10. Holds(s, Value(t) + vw, h + 1)
    BY <1>1, <1>2, <1>8, <1>9, AddExact
  <1> HIDE DEF s
  <1>11. s \in Seq(Word) /\ Len(s) = h + 1 /\ Value(s) = vu + vv + vw
    BY <1>6, <1>8, <1>10 DEF Holds
  <1>12. s \in Numeral
    BY <1>11 DEF Numeral
  <1> QED
    BY <1>11, <1>12 DEF MultiAdd, s, t

LEMMA Distributes ==
  ASSUME NEW u \in Int, NEW v \in Int, NEW r \in Int
  PROVE  u * r \in Int /\ v * r \in Int /\ (u + v) * r = u * r + v * r
  OBVIOUS

(* a*b from the products of the halves of a = w*r + x and b = y*r + z, and *)
(* from the halves of these                                                *)
LEMMA HalvesJoined ==
  ASSUME NEW r \in Int,
         NEW wy \in Int, NEW wz \in Int, NEW xy \in Int, NEW xz \in Int,
         NEW wy0 \in Int, NEW wz0 \in Int, NEW xy0 \in Int, NEW xz0 \in Int,
         NEW wy1 \in Int, NEW wz1 \in Int, NEW xy1 \in Int, NEW xz1 \in Int,
         NEW c1 \in Int, NEW c2 \in Int, NEW d1 \in Int, NEW d2 \in Int,
         wy = wy0 * r + wy1, wz = wz0 * r + wz1, xy = xy0 * r + xy1, xz = xz0 * r + xz1,
         wy1 + xy0 + wz0 = c1 * r + d1, xy1 + wz1 + xz0 = c2 * r + d2
  PROVE  (((wy0 + c1) * r + (d1 + c2)) * r + d2) * r + xz1
           = (wy * r + (xy + wz)) * r + xz
  <1> DEFINE s1 == (wy0 + c1) * r + (d1 + c2)
             s2 == s1 * r + d2
  <1>1. s1 = wy + (xy0 + (wz0 + c2)) /\ s1 \in Int
    <2>1. (wy0 + c1) * r = wy0 * r + c1 * r /\ wy0 * r \in Int /\ c1 * r \in Int
      BY Distributes
    <2> QED
      BY <2>1
  <1> HIDE DEF s1
  <1>2. s2 = wy * r + (xy + wz) + xz0 /\ s2 \in Int
    <2>1. /\ s1 * r = wy * r + (xy0 + (wz0 + c2)) * r
          /\ wy * r \in Int /\ (xy0 + (wz0 + c2)) * r \in Int
      <3>1. xy0 + (wz0 + c2) \in Int
        OBVIOUS
      <3> QED
        BY <1>1, <3>1, Distributes
    <2>2. (xy0 + (wz0 + c2)) * r = xy0 * r + (wz0 + c2) * r /\ xy0 * r \in Int /\ (wz0 + c2) * r \in Int
      <3>1. wz0 + c2 \in Int
        OBVIOUS
      <3> QED
        BY <3>1, Distributes
    <2>3. (wz0 + c2) * r = wz0 * r + c2 * r /\ wz0 * r \in Int /\ c2 * r \in Int
      BY Distributes
    <2> QED
      BY <2>1, <2>2, <2>3
  <1>3. s2 * r + xz1 = (wy * r + (xy + wz)) * r + xz
    <2> DEFINE t == wy * r + (xy + wz)
    <2>1. t \in Int /\ s2 = t + xz0
      BY <1>2
    <2> HIDE DEF s2, t
    <2>2. s2 * r = t * r + xz0 * r /\ t * r \in Int /\ xz0 * r \in Int
      BY <2>1, Distributes
    <2>3. s2 * r + xz1 = t * r + xz
      BY <2>2
    <2> QED
      BY <2>3 DEF t
  <1> QED
    BY <1>3 DEF s1, s2

LEMMA AddRight ==
  ASSUME NEW x \in Numeral, NEW w \in Word
  PROVE  LET s == Add(x, <<w>>, Len(x))
         IN  s = Exit \/ (s \in Seq(Word) /\ Len(s) = Len(x) /\ Value(s) = Value(x) + w)
  <1> DEFINE s == Add(x, <<w>>, Len(x))
  <1>1. Len(x) \in Nat \ {0}
    BY NumeralLen
  <1>2. <<w>> \in Numeral /\ Len(<<w>>) = 1 /\ Value(<<w>>) = w
    BY ValueOfOne DEF Numeral
  <1>3. Len(x) <= Len(x) /\ Len(<<w>>) <= Len(x)
    BY <1>1, <1>2
  <1>4. Holds(s, Value(x) + Value(<<w>>), Len(x))
    BY <1>1, <1>2, <1>3, AddExact
  <1> QED
    BY <1>2, <1>4 DEF Holds

LEMMA CombineExact ==
  ASSUME W >= 2, NEW h \in Nat \ {0},
         NEW wy \in Seq(Word), NEW wz \in Seq(Word), NEW xy \in Seq(Word), NEW xz \in Seq(Word),
         Len(wy) = 2 * h, Len(wz) = 2 * h, Len(xy) = 2 * h, Len(xz) = 2 * h
  PROVE  LET c == Combine(wy, wz, xy, xz, h)
         IN  \/ c = Exit
             \/ /\ c \in Seq(Word) /\ Len(c) = 4 * h
                /\ Value(c) = (Value(wy) * Room[h] + (Value(xy) + Value(wz))) * Room[h] + Value(xz)
  <1> DEFINE Hi(p) == HalfOf(p, h, 0)
             Lo(p) == HalfOf(p, h, 1)
             p1 == MultiAdd(Lo(wy), Hi(xy), Hi(wz), h + 1)
             p2 == MultiAdd(Lo(xy), Lo(wz), Hi(xz), h + 1)
             pos0 == Add(Hi(wy), <<p1[1]>>, h)
             pos1 == Add(Tail(p1), <<p2[1]>>, h)
             pos2 == Tail(p2)
             c == Combine(wy, wz, xy, xz, h)
  <1>1. ASSUME NEW p \in {wy, wz, xy, xz}
        PROVE  /\ SubSeq(p, 1, h) = Hi(p) /\ SubSeq(p, h + 1, 2*h) = Lo(p)
               /\ Hi(p) \in Numeral /\ Len(Hi(p)) = h /\ Lo(p) \in Numeral /\ Len(Lo(p)) = h
               /\ Hi(p) \in Seq(Word) /\ Lo(p) \in Seq(Word)
               /\ Value(p) = Value(Hi(p)) * Room[h] + Value(Lo(p))
    <2>1. p \in Seq(Word) /\ Len(p) = 2 * h /\ h \in Nat /\ 0 \in {0, 1} /\ 1 \in {0, 1}
      OBVIOUS
    <2>2. /\ SubSeq(p, 1, h) = Hi(p) /\ SubSeq(p, h + 1, 2*h) = Lo(p)
          /\ Value(p) = Value(Hi(p)) * Room[h] + Value(Lo(p))
      BY <2>1, HalvesValue
    <2>3. Hi(p) \in Seq(Word) /\ Len(Hi(p)) = h
      BY <2>1, HalfOfRule
    <2>4. Lo(p) \in Seq(Word) /\ Len(Lo(p)) = h
      BY <2>1, HalfOfRule
    <2> HIDE DEF Hi, Lo
    <2>5. Hi(p) \in Numeral /\ Lo(p) \in Numeral
      BY <2>3, <2>4 DEF Numeral
    <2> QED
      BY <2>2, <2>3, <2>4, <2>5
  <1>2. c = IF pos0 = Exit \/ pos1 = Exit THEN Exit ELSE pos0 \o pos1 \o pos2 \o Lo(xz)
    <2>1. /\ SubSeq(wy, 1, h) = Hi(wy) /\ SubSeq(wy, h + 1, 2*h) = Lo(wy)
          /\ SubSeq(wz, 1, h) = Hi(wz) /\ SubSeq(wz, h + 1, 2*h) = Lo(wz)
          /\ SubSeq(xy, 1, h) = Hi(xy) /\ SubSeq(xy, h + 1, 2*h) = Lo(xy)
          /\ SubSeq(xz, 1, h) = Hi(xz) /\ SubSeq(xz, h + 1, 2*h) = Lo(xz)
      BY <1>1
    <2> HIDE DEF Hi, Lo
    <2> QED
      BY <2>1 DEF Combine
  <1> HIDE DEF Hi, Lo, c
  <1>3. /\ p1 \in Numeral /\ Len(p1) = h + 1
        /\ Value(p1) = Value(Lo(wy)) + Value(Hi(xy)) + Value(Hi(wz))
    <2>1. /\ Lo(wy) \in Seq(Word) /\ Hi(xy) \in Seq(Word) /\ Hi(wz) \in Seq(Word)
          /\ Len(Lo(wy)) = h /\ Len(Hi(xy)) = h /\ Len(Hi(wz)) = h
      BY <1>1
    <2> QED
      BY <2>1, MultiAddExact
  <1>4. /\ p2 \in Numeral /\ Len(p2) = h + 1
        /\ Value(p2) = Value(Lo(xy)) + Value(Lo(wz)) + Value(Hi(xz))
    <2>1. /\ Lo(xy) \in Seq(Word) /\ Lo(wz) \in Seq(Word) /\ Hi(xz) \in Seq(Word)
          /\ Len(Lo(xy)) = h /\ Len(Lo(wz)) = h /\ Len(Hi(xz)) = h
      BY <1>1
    <2> QED
      BY <2>1, MultiAddExact
  <1> HIDE DEF p1, p2
  <1>5. /\ p1[1] \in Word /\ Tail(p1) \in Numeral /\ Tail(p1) \in Seq(Word) /\ Len(Tail(p1)) = h
        /\ Value(p1) = p1[1] * Room[h] + Value(Tail(p1))
    <2>1. /\ p1[1] \in Word /\ Tail(p1) \in Seq(Word) /\ Len(Tail(p1)) = (h + 1) - 1
          /\ Value(p1) = p1[1] * Room[(h+1)-1] + Value(Tail(p1))
      BY <1>3, HeadValue
    <2>2. (h + 1) - 1 = h
      OBVIOUS
    <2> HIDE DEF p1
    <2>3. Tail(p1) \in Numeral
      BY <2>1, <2>2 DEF Numeral
    <2> QED
      BY <2>1, <2>2, <2>3
  <1>6. /\ p2[1] \in Word /\ pos2 \in Numeral /\ pos2 \in Seq(Word) /\ Len(pos2) = h
        /\ Value(p2) = p2[1] * Room[h] + Value(pos2)
    <2>1. /\ p2[1] \in Word /\ Tail(p2) \in Seq(Word) /\ Len(Tail(p2)) = (h + 1) - 1
          /\ Value(p2) = p2[1] * Room[(h+1)-1] + Value(Tail(p2))
      BY <1>4, HeadValue
    <2>2. (h + 1) - 1 = h
      OBVIOUS
    <2>3. Tail(p2) \in Numeral
      BY <2>1, <2>2 DEF Numeral
    <2> QED
      BY <2>1, <2>2, <2>3
  <1> SUFFICES ASSUME ~(pos0 = Exit \/ pos1 = Exit)
               PROVE  /\ c \in Seq(Word) /\ Len(c) = 4 * h
                      /\ Value(c) = (Value(wy) * Room[h] + (Value(xy) + Value(wz))) * Room[h] + Value(xz)
    BY <1>2 DEF c
  <1>7. pos0 \in Seq(Word) /\ Len(pos0) = h /\ Value(pos0) = Value(Hi(wy)) + p1[1]
    <2>1. Hi(wy) \in Numeral /\ Len(Hi(wy)) = h
      BY <1>1
    <2> QED
      BY <1>5, <2>1, AddRight
  <1>8. pos1 \in Seq(Word) /\ Len(pos1) = h /\ Value(pos1) = Value(Tail(p1)) + p2[1]
    BY <1>5, <1>6, AddRight
  <1>9. c = pos0 \o pos1 \o pos2 \o Lo(xz)
    BY <1>2
  <1>10. Lo(xz) \in Seq(Word) /\ Len(Lo(xz)) = h
    BY <1>1
  <1> HIDE DEF pos0, pos1, pos2
  <1> DEFINE s1 == pos0 \o pos1
             s2 == s1 \o pos2
             r == Room[h]
  <1>11. s1 \in Seq(Word) /\ Len(s1) = h + h /\ Value(s1) = Value(pos0) * r + Value(pos1)
    <2>1. /\ s1 \in Seq(Word) /\ Len(s1) = Len(pos0) + Len(pos1)
          /\ Value(s1) = Value(pos0) * Room[Len(pos1)] + Value(pos1)
      BY <1>7, <1>8, ConcatValue
    <2> HIDE DEF s1
    <2> QED
      BY <1>7, <1>8, <2>1
  <1> HIDE DEF s1
  <1>12. s2 \in Seq(Word) /\ Len(s2) = (h + h) + h /\ Value(s2) = Value(s1) * r + Value(pos2)
    BY <1>6, <1>11, ConcatValue, ZenonT(40)
  <1> HIDE DEF s2
  <1>13. /\ c \in Seq(Word) /\ Len(c) = ((h + h) + h) + h
         /\ Value(c) = Value(s2) * r + Value(Lo(xz))
    <2>1. c = s2 \o Lo(xz)
      BY <1>9 DEF s1, s2
    <2>2. /\ s2 \o Lo(xz) \in Seq(Word) /\ Len(s2 \o Lo(xz)) = Len(s2) + Len(Lo(xz))
          /\ Value(s2 \o Lo(xz)) = Value(s2) * Room[Len(Lo(xz))] + Value(Lo(xz))
      BY <1>10, <1>12, ConcatValue
    <2> QED
      BY <1>10, <1>12, <2>1, <2>2
  <1>14. Len(c) = 4 * h
    BY <1>13
  <1> HIDE DEF r
  <1>15. Value(c) = (Value(wy) * r + (Value(xy) + Value(wz))) * r + Value(xz)
    <2>1. ASSUME NEW p \in {wy, wz, xy, xz}
          PROVE  /\ Value(p) \in Int /\ Value(Hi(p)) \in Int /\ Value(Lo(p)) \in Int
                 /\ Value(p) = Value(Hi(p)) * r + Value(Lo(p))
      <3>1. Value(p) = Value(Hi(p)) * r + Value(Lo(p))
        BY <1>1 DEF r
      <3>2. p \in Seq(Word) /\ 2 * h \in Nat /\ Len(p) <= 2 * h
        OBVIOUS
      <3>3. Value(p) \in 0..Room[2*h]-1
        BY <3>2, ValueFits
      <3>4. Hi(p) \in Seq(Word) /\ Lo(p) \in Seq(Word) /\ Len(Hi(p)) <= h /\ Len(Lo(p)) <= h
        BY <1>1
      <3>5. Value(Hi(p)) \in 0..Room[h]-1
        BY <3>4, ValueFits
      <3>6. Value(Lo(p)) \in 0..Room[h]-1
        BY <3>4, ValueFits
      <3> QED
        BY <3>1, <3>3, <3>5, <3>6
    <2>2. r \in Int /\ p1[1] \in Int /\ p2[1] \in Int
      <3>1. r \in Int
        <4>1. h \in Nat
          OBVIOUS
        <4> QED
          BY <4>1, RoomIsNat DEF r
      <3>2. p1[1] \in 0..Base-1 /\ p2[1] \in 0..Base-1
        BY <1>5, <1>6 DEF Word
      <3> QED
        BY <3>1, <3>2
    <2>3. Value(Tail(p1)) \in Int
      <3>1. Tail(p1) \in Seq(Word) /\ Len(Tail(p1)) <= h /\ h \in Nat
        BY <1>5
      <3>2. Value(Tail(p1)) \in 0..Room[h]-1
        BY <3>1, ValueFits
      <3> QED
        BY <3>2
    <2>4. Value(pos2) \in Int
      <3>1. pos2 \in Seq(Word) /\ Len(pos2) <= h
        BY <1>6
      <3> QED
        BY <3>1, ValueFits
    <2>5. /\ Value(Lo(wy)) + Value(Hi(xy)) + Value(Hi(wz)) = p1[1] * r + Value(Tail(p1))
          /\ Value(Lo(xy)) + Value(Lo(wz)) + Value(Hi(xz)) = p2[1] * r + Value(pos2)
      BY <1>3, <1>4, <1>5, <1>6 DEF r
    <2>6. Value(c) = (((Value(Hi(wy)) + p1[1]) * r + (Value(Tail(p1)) + p2[1])) * r + Value(pos2)) * r
                       + Value(Lo(xz))
      BY <1>7, <1>8, <1>11, <1>12, <1>13
    <2> DEFINE wyv == Value(wy)
               wzv == Value(wz)
               xyv == Value(xy)
               xzv == Value(xz)
               wy0 == Value(Hi(wy))
               wz0 == Value(Hi(wz))
               xy0 == Value(Hi(xy))
               xz0 == Value(Hi(xz))
               wy1 == Value(Lo(wy))
               wz1 == Value(Lo(wz))
               xy1 == Value(Lo(xy))
               xz1 == Value(Lo(xz))
               c1 == p1[1]
               c2 == p2[1]
               d1 == Value(Tail(p1))
               d2 == Value(pos2)
    <2>7. wyv \in Int /\ wy0 \in Int /\ wy1 \in Int /\ wyv = wy0 * r + wy1
      BY <2>1
    <2>8. wzv \in Int /\ wz0 \in Int /\ wz1 \in Int /\ wzv = wz0 * r + wz1
      BY <2>1
    <2>9. xyv \in Int /\ xy0 \in Int /\ xy1 \in Int /\ xyv = xy0 * r + xy1
      BY <2>1
    <2>10. xzv \in Int /\ xz0 \in Int /\ xz1 \in Int /\ xzv = xz0 * r + xz1
      BY <2>1
    <2>11. c1 \in Int /\ c2 \in Int /\ d1 \in Int /\ d2 \in Int
      BY <2>2, <2>3, <2>4
    <2>12. wy1 + xy0 + wz0 = c1 * r + d1
      BY <2>5
    <2>13. xy1 + wz1 + xz0 = c2 * r + d2
      BY <2>5
    <2>14. Value(c) = (((wy0 + c1) * r + (d1 + c2)) * r + d2) * r + xz1
      BY <2>6
    <2> HIDE DEF wyv, wzv, xyv, xzv, wy0, wz0, xy0, xz0, wy1, wz1, xy1, xz1, c1, c2, d1, d2
    <2>15. (((wy0 + c1) * r + (d1 + c2)) * r + d2) * r + xz1 = (wyv * r + (xyv + wzv)) * r + xzv
      BY <2>2, <2>7, <2>8, <2>9, <2>10, <2>11, <2>12, <2>13, HalvesJoined
    <2> QED
      BY <2>14, <2>15 DEF wyv, wzv, xyv, xzv
  <1> QED
    BY <1>13, <1>14, <1>15 DEF r

-----------------------------------------------------------------------------
(* The product of numbers whose lengths halve down to one word *)
LEMMA PowerRule ==
  /\ \A k \in Nat : PowerOfTwo[k] \in Nat \ {0}
  /\ PowerOfTwo[0] = 1
  /\ \A k \in Nat : PowerOfTwo[k+1] = 2 * PowerOfTwo[k]
  <1> DEFINE S == Nat \ {0}
             step == [k \in Nat |-> [x \in S |-> 2 * x]]
  <1>1. PICK f \in [Nat -> S] : NatFollows(f, 1, step)
    <2>1. ASSUME NEW k \in Nat \ {0}, NEW x \in S
          PROVE  step[k][x] \in S
      OBVIOUS
    <2>2. 1 \in S
      OBVIOUS
    <2> HIDE DEF step, S
    <2> QED
      BY <2>1, <2>2, NatRecursionExists, Zenon
  <1>2. f[0] = 1 /\ \A k \in Nat \ {0} : f[k] = 2 * f[k-1]
    <2>1. ASSUME NEW k \in Nat \ {0}
          PROVE  f[k] = 2 * f[k-1]
      <3>1. k - 1 \in Nat
        OBVIOUS
      <3> QED
        BY <1>1, <3>1 DEF NatFollows
    <2> QED
      BY <1>1, <2>1 DEF NatFollows
  <1>3. f = [k \in Nat |-> IF k = 0 THEN 1 ELSE 2 * f[k-1]]
    BY <1>2
  <1>4. PowerOfTwo = [k \in Nat |-> IF k = 0 THEN 1 ELSE 2 * PowerOfTwo[k-1]]
    BY <1>3 DEF PowerOfTwo
  <1>5. PowerOfTwo[0] = 1 /\ \A k \in Nat : PowerOfTwo[k+1] = 2 * PowerOfTwo[k]
    BY <1>4
  <1>6. \A k \in Nat : PowerOfTwo[k] \in Nat \ {0}
    <2> DEFINE T == {k \in Nat : PowerOfTwo[k] \in S}
    <2>1. 0 \in T
      BY <1>5
    <2>2. ASSUME NEW k \in Nat, k \in T
          PROVE  k + 1 \in T
      BY <1>5, <2>2
    <2>3. \A k \in Nat : k \in T
      <3> HIDE DEF T
      <3> QED
        BY <2>1, <2>2, SetInduction
    <2> QED
      BY <2>3
  <1> QED
    BY <1>5, <1>6

(* The product of two numbers of which the longer has len words is exact,  *)
(* or the call exits.                                                      *)
IsProduct(c, x, y, len) ==
  c = Exit \/ (c \in Seq(Word) /\ Len(c) = 2 * len /\ Value(c) = Value(x) * Value(y))

LEMMA OneWordProduct ==
  ASSUME NEW x \in Numeral, NEW y \in Numeral, MaxLen(x, y) = 1
  PROVE  IsProduct(LongProduct[<<x, y>>], x, y, 1)
  <1>1. Len(x) = 1 /\ Len(y) = 1
    <2>1. Len(x) \in Nat \ {0} /\ Len(y) \in Nat \ {0}
      BY NumeralLen
    <2> DEFINE i == Len(x)
               j == Len(y)
    <2>2. i \in Nat \ {0} /\ j \in Nat \ {0} /\ 1 = IF i >= j THEN i ELSE j
      BY <2>1 DEF MaxLen
    <2> HIDE DEF i, j
    <2>3. i = 1 /\ j = 1
      BY <2>2
    <2> QED
      BY <2>3 DEF i, j
  <1>2. ASSUME NEW z \in Numeral, Len(z) = 1
        PROVE  z[1] \in Word /\ Value(z) = z[1]
    <2>1. z[1] \in Word /\ z = <<z[1]>>
      <3>1. z \in [1..1 -> Word]
        BY <1>2 DEF Numeral
      <3>2. z = [i \in 1..1 |-> z[i]] /\ z[1] \in Word
        BY <3>1
      <3> QED
        BY <3>2
    <2>2. Value(<<z[1]>>) = z[1]
      BY <2>1, ValueOfOne
    <2> QED
      BY <2>1, <2>2
  <1> DEFINE c == <<(x[1] * y[1]) \div Base, (x[1] * y[1]) % Base>>
  <1>3. LongProduct[<<x, y>>] = c
    BY <1>1, LongProductRule, ProductByIs
  <1>4. x[1] \in Word /\ y[1] \in Word /\ Value(x) = x[1] /\ Value(y) = y[1]
    BY <1>1, <1>2
  <1>5. c \in Seq(Word) /\ Len(c) = 2 /\ Value(c) = x[1] * y[1]
    BY <1>4, WordProduct
  <1> HIDE DEF c
  <1> QED
    BY <1>3, <1>4, <1>5 DEF IsProduct

LEMMA PaddedValue ==
  ASSUME NEW x \in Seq(Word), NEW len \in Nat, Len(x) <= len
  PROVE  Aligned(x, len) \in Seq(Word) /\ Len(Aligned(x, len)) = len
         /\ Value(Aligned(x, len)) = Value(x)
  <1> DEFINE z == Aligned(x, len)
  <1>1. z \in [1..len -> Word]
    BY AlignedIsWords
  <1>2. z \in Seq(Word) /\ Len(z) = len
    BY <1>1
  <1>3. Value(z) = Sums(z, Len(z))[Len(z)]
    BY <1>2, ValueIsSum
  <1>4. Sums(z, len)[len] = Value(x)
    BY AlignedLong
  <1> QED
    BY <1>2, <1>3, <1>4

LEMMA ProductOfHalves ==
  ASSUME NEW r \in Int, NEW u0 \in Int, NEW u1 \in Int, NEW v0 \in Int, NEW v1 \in Int
  PROVE  (u0 * r + u1) * (v0 * r + v1)
           = ((u0 * v0) * r + (u1 * v0 + u0 * v1)) * r + u1 * v1
  <1> DEFINE u == u0 * r + u1
             v == v0 * r + v1
             p == u0 * v0
             q == u1 * v0
             s == u0 * v1
  <1>1. u \in Int /\ v \in Int /\ p \in Int /\ q \in Int /\ s \in Int /\ u1 * v1 \in Int
    OBVIOUS
  <1>2. u * v = (u * v0) * r + u * v1 /\ u * v0 \in Int /\ u * v1 \in Int
    <2> HIDE DEF u
    <2> QED
      BY <1>1
  <1>3. u * v0 = p * r + q
    OBVIOUS
  <1>4. u * v1 = s * r + u1 * v1
    OBVIOUS
  <1> HIDE DEF u, v, p, q, s
  <1>5. u * v = (p * r + (q + s)) * r + u1 * v1
    <2>1. (p * r + q) * r + s * r = (p * r + (q + s)) * r
      BY <1>1
    <2>2. (p * r + q) * r \in Int /\ s * r \in Int /\ (p * r + (q + s)) * r \in Int
      BY <1>1
    <2>3. u * v = (p * r + q) * r + (s * r + u1 * v1)
      BY <1>2, <1>3, <1>4
    <2> QED
      BY <1>1, <2>1, <2>2, <2>3
  <1> QED
    BY <1>5 DEF u, v, p, q, s

LEMMA ProductDoubles ==
  ASSUME W >= 2, NEW h \in Nat \ {0},
         \A u \in Numeral : \A v \in Numeral :
           MaxLen(u, v) = h => IsProduct(LongProduct[<<u, v>>], u, v, h),
         NEW x \in Numeral, NEW y \in Numeral, MaxLen(x, y) = 2 * h
  PROVE  IsProduct(LongProduct[<<x, y>>], x, y, 2 * h)
  <1> DEFINE len == 2 * h
             p == PaddedA(x, y)
             q == PaddedB(x, y)
             c == LongProduct[<<x, y>>]
             part(k, l) == Part(x, y, LongProduct, k, l)
             val(k, l) == Value(HalfOf(p, h, k)) * Value(HalfOf(q, h, l))
  <1>1. HalfLen(x, y) = h /\ Even(MaxLen(x, y)) = len /\ len \in Nat
    <2>1. len \in Nat /\ len % 2 = 0
      OBVIOUS
    <2>2. Even(len) = len /\ 2 * (Even(len) \div 2) = Even(len) /\ Even(len) \div 2 \in Nat
      BY <2>1, EvenRule
    <2>3. Even(len) \div 2 = h
      BY <2>1, <2>2
    <2> QED
      BY <2>1, <2>2, <2>3 DEF HalfLen
  <1>2. Len(x) \in Nat /\ Len(y) \in Nat /\ Len(x) <= len /\ Len(y) <= len
    <2>1. Len(x) \in Nat /\ Len(y) \in Nat
      BY NumeralLen
    <2>2. Len(x) <= MaxLen(x, y) /\ Len(y) <= MaxLen(x, y)
      BY <2>1 DEF MaxLen
    <2> QED
      BY <2>1, <2>2
  <1>3. ~(Len(x) = 1 /\ Len(y) = 1)
    <2> SUFFICES ASSUME Len(x) = 1, Len(y) = 1
                 PROVE  FALSE
      OBVIOUS
    <2>1. MaxLen(x, y) = 1
      BY DEF MaxLen
    <2> QED
      BY <2>1
  <1>4. x \in Seq(Word) /\ y \in Seq(Word)
    BY NumeralLen
  <1>5. /\ p \in Seq(Word) /\ Len(p) = len /\ Value(p) = Value(x)
        /\ q \in Seq(Word) /\ Len(q) = len /\ Value(q) = Value(y)
    <2>1. p = Aligned(x, len) /\ q = Aligned(y, len)
      BY <1>1, PaddedIsWords
    <2>2. p \in Seq(Word) /\ Len(p) = len /\ Value(p) = Value(x)
      BY <1>1, <1>2, <1>4, <2>1, PaddedValue
    <2>3. q \in Seq(Word) /\ Len(q) = len /\ Value(q) = Value(y)
      BY <1>1, <1>2, <1>4, <2>1, PaddedValue
    <2> QED
      BY <2>2, <2>3
  <1>6. ASSUME NEW k \in {0, 1}, NEW l \in {0, 1}
        PROVE  \/ part(k, l) = Exit
               \/ part(k, l) \in Seq(Word) /\ Len(part(k, l)) = 2 * h /\ Value(part(k, l)) = val(k, l)
    <2> DEFINE u == HalfOf(p, h, k)
               v == HalfOf(q, h, l)
               d == LongProduct[<<u, v>>]
    <2>1. u \in Numeral /\ v \in Numeral /\ MaxLen(u, v) = h
      BY <1>1, <1>3, HalvesRule
    <2>2. IsProduct(d, u, v, h)
      BY <2>1
    <2>3. part(k, l) = Low(d, 2 * h)
      BY <1>1 DEF Part
    <2> HIDE DEF u, v, d, part
    <2>4. d = Exit => part(k, l) = Exit
      BY <2>3 DEF Low
    <2>5. ASSUME d # Exit
          PROVE  part(k, l) = d
      <3>1. d \in Seq(Word) /\ Len(d) = 2 * h
        BY <2>2, <2>5 DEF IsProduct
      <3>2. 2 * h \in Nat /\ 2 * h - 2 * h + 1 = 1
        OBVIOUS
      <3>3. part(k, l) = SubSeq(d, 1, 2 * h)
        BY <2>3, <2>5, <3>1, <3>2 DEF Low
      <3>4. SubSeq(d, 1, Len(d)) = d
        BY <3>1
      <3> QED
        BY <3>1, <3>3, <3>4
    <2>6. d = Exit \/ (d \in Seq(Word) /\ Len(d) = 2 * h /\ Value(d) = Value(u) * Value(v))
      BY <2>2 DEF IsProduct
    <2> QED
      BY <2>4, <2>5, <2>6 DEF u, v
  <1> DEFINE wy == part(0, 0)
             wz == part(0, 1)
             xy == part(1, 0)
             xz == part(1, 1)
  <1>7. c = IF Exit \in {wy, wz, xy, xz} THEN Exit ELSE Combine(wy, wz, xy, xz, h)
    <2> HIDE DEF c
    <2>1. c = ProductBy(x, y, LongProduct)
      BY LongProductRule DEF c
    <2> QED
      BY <1>1, <1>3, <2>1, ProductByIs
  <1>8. 0 \in {0, 1} /\ 1 \in {0, 1}
    OBVIOUS
  <1> HIDE DEF c, part, val
  <1> SUFFICES ASSUME ~(Exit \in {wy, wz, xy, xz})
               PROVE  IsProduct(c, x, y, 2 * h)
    BY <1>7 DEF IsProduct, c
  <1>9. wy \in Seq(Word) /\ Len(wy) = 2 * h /\ Value(wy) = val(0, 0)
    BY <1>6, <1>8
  <1>10. wz \in Seq(Word) /\ Len(wz) = 2 * h /\ Value(wz) = val(0, 1)
    BY <1>6, <1>8
  <1>11. xy \in Seq(Word) /\ Len(xy) = 2 * h /\ Value(xy) = val(1, 0)
    BY <1>6, <1>8
  <1>12. xz \in Seq(Word) /\ Len(xz) = 2 * h /\ Value(xz) = val(1, 1)
    BY <1>6, <1>8
  <1> HIDE DEF wy, wz, xy, xz
  <1>13. c = Combine(wy, wz, xy, xz, h)
    BY <1>7
  <1> DEFINE r == Room[h]
  <1>14. \/ c = Exit
         \/ /\ c \in Seq(Word) /\ Len(c) = 4 * h
            /\ Value(c) = (Value(wy) * r + (Value(xy) + Value(wz))) * r + Value(xz)
    BY <1>9, <1>10, <1>11, <1>12, <1>13, CombineExact
  <1> DEFINE u0 == Value(HalfOf(p, h, 0))
             u1 == Value(HalfOf(p, h, 1))
             v0 == Value(HalfOf(q, h, 0))
             v1 == Value(HalfOf(q, h, 1))
  <1>15. Value(x) = u0 * r + u1 /\ Value(y) = v0 * r + v1
    <2>1. h \in Nat
      OBVIOUS
    <2>2. Value(p) = u0 * r + u1
      BY <1>5, <2>1, HalvesValue
    <2>3. Value(q) = v0 * r + v1
      BY <1>5, <2>1, HalvesValue
    <2> QED
      BY <1>5, <2>2, <2>3
  <1>16. r \in Int
    <2>1. h \in Nat
      OBVIOUS
    <2> QED
      BY <2>1, RoomIsNat
  <1>17. ASSUME NEW z \in {p, q}, NEW k \in {0, 1}
         PROVE  Value(HalfOf(z, h, k)) \in Int
    <2>1. z \in Seq(Word) /\ Len(z) = 2 * h /\ h \in Nat
      BY <1>5
    <2>2. HalfOf(z, h, k) \in Seq(Word) /\ Len(HalfOf(z, h, k)) = h
      BY <2>1, HalfOfRule
    <2>3. Len(HalfOf(z, h, k)) <= h
      BY <2>2
    <2>4. Value(HalfOf(z, h, k)) \in 0..Room[h]-1
      BY <2>1, <2>2, <2>3, ValueFits
    <2> QED
      BY <2>4
  <1>18. u0 \in Int /\ u1 \in Int /\ v0 \in Int /\ v1 \in Int
    BY <1>8, <1>17
  <1>19. val(0, 0) = u0 * v0 /\ val(0, 1) = u0 * v1 /\ val(1, 0) = u1 * v0 /\ val(1, 1) = u1 * v1
    BY DEF val
  <1> HIDE DEF u0, u1, v0, v1, r
  <1>20. Value(x) * Value(y) = ((u0 * v0) * r + (u1 * v0 + u0 * v1)) * r + u1 * v1
    BY <1>15, <1>16, <1>18, ProductOfHalves
  <1>21. (Value(wy) * r + (Value(xy) + Value(wz))) * r + Value(xz)
           = ((u0 * v0) * r + (u1 * v0 + u0 * v1)) * r + u1 * v1
    BY <1>9, <1>10, <1>11, <1>12, <1>19
  <1>22. 4 * h = 2 * (2 * h)
    OBVIOUS
  <1> QED
    BY <1>14, <1>20, <1>21, <1>22 DEF IsProduct

LEMMA ProductsRule ==
  ASSUME W >= 2, NEW k \in Nat, NEW x \in Numeral, NEW y \in Numeral, MaxLen(x, y) = PowerOfTwo[k]
  PROVE  IsProduct(LongProduct[<<x, y>>], x, y, PowerOfTwo[k])
  <1> DEFINE Right(i) == \A u \in Numeral : \A v \in Numeral :
                           MaxLen(u, v) = PowerOfTwo[i] => IsProduct(LongProduct[<<u, v>>], u, v, PowerOfTwo[i])
             T == {i \in Nat : Right(i)}
  <1>1. 0 \in T
    BY PowerRule, OneWordProduct
  <1>2. ASSUME NEW i \in Nat, i \in T
        PROVE  i + 1 \in T
    <2>1. PowerOfTwo[i] \in Nat \ {0} /\ PowerOfTwo[i+1] = 2 * PowerOfTwo[i]
      BY PowerRule
    <2> DEFINE h == PowerOfTwo[i]
    <2>2. h \in Nat \ {0} /\ \A u \in Numeral : \A v \in Numeral :
            MaxLen(u, v) = h => IsProduct(LongProduct[<<u, v>>], u, v, h)
      BY <1>2, <2>1
    <2> HIDE DEF h
    <2>3. \A u \in Numeral : \A v \in Numeral :
            MaxLen(u, v) = 2 * h => IsProduct(LongProduct[<<u, v>>], u, v, 2 * h)
      BY <2>2, ProductDoubles
    <2>4. Right(i + 1)
      BY <2>1, <2>3 DEF h
    <2> QED
      BY <2>4
  <1>3. \A i \in Nat : i \in T
    <2> HIDE DEF T
    <2> QED
      BY <1>1, <1>2, SetInduction
  <1> QED
    BY <1>3

(* The last words stand for the whole number if it is small enough.        *)
LEMMA LowValue ==
  ASSUME NEW p \in Seq(Word), NEW len \in Nat \ {0}, len <= Len(p), Value(p) \in 0..Room[len]-1
  PROVE  LET q == SubSeq(p, Len(p) - len + 1, Len(p))
         IN  q \in Seq(Word) /\ Len(q) = len /\ Value(q) = Value(p)
  <1> DEFINE h == Len(p) - len
             u == SubSeq(p, 1, h)
             q == SubSeq(p, h + 1, Len(p))
  <1>1. h \in Nat /\ Len(p) \in Nat /\ h + len = Len(p)
    OBVIOUS
  <1>2. u \in Seq(Word) /\ Len(u) = h /\ \A i \in 1..h : u[i] = p[i]
    <2> HIDE DEF h
    <2> QED
      BY <1>1
  <1>3. q \in Seq(Word) /\ Len(q) = len /\ \A i \in 1..len : q[i] = p[h+i]
    <2> HIDE DEF h
    <2>1. Len(p) = h + len
      BY <1>1
    <2> QED
      BY <1>1, <2>1
  <1> HIDE DEF h, u, q
  <1>4. p = u \o q
    <2> DEFINE r == u \o q
    <2>1. /\ r \in Seq(Word) /\ Len(r) = Len(u) + Len(q)
          /\ \A i \in 1..Len(u) : r[i] = u[i]
          /\ \A i \in 1..Len(q) : r[Len(u)+i] = q[i]
      <3>1. u \in Seq(Word) /\ q \in Seq(Word)
        BY <1>2, <1>3
      <3> QED
        BY <3>1
    <2> HIDE DEF r
    <2>2. ASSUME NEW i \in 1..h+len
          PROVE  r[i] = p[i]
      <3>1. CASE i <= h
        <4>1. i \in 1..h
          BY <1>1, <3>1
        <4> QED
          BY <1>2, <2>1, <4>1
      <3>2. CASE ~(i <= h)
        <4> DEFINE j == i - h
        <4>1. j \in 1..len /\ h + j = i
          BY <1>1, <3>2
        <4> HIDE DEF j
        <4>2. r[h+j] = q[j]
          BY <1>2, <1>3, <2>1, <4>1
        <4>3. q[j] = p[h+j]
          BY <1>3, <4>1
        <4> QED
          BY <4>1, <4>2, <4>3
      <3> QED
        BY <3>1, <3>2
    <2>3. Len(r) = h + len
      BY <1>2, <1>3, <2>1
    <2>4. r = p
      BY <1>1, <2>1, <2>2, <2>3
    <2> QED
      BY <2>4 DEF r
  <1>5. Value(p) = Value(u) * Room[len] + Value(q)
    BY <1>2, <1>3, <1>4, ConcatValue
  <1>6. Value(u) \in Int
    <2>1. Len(u) <= h
      BY <1>1, <1>2
    <2>2. Value(u) \in 0..Room[h]-1
      BY <1>1, <1>2, <2>1, ValueFits
    <2> QED
      BY <2>2
  <1>7. Value(q) \in 0..Room[len]-1
    <2>1. Len(q) <= len
      BY <1>3
    <2> QED
      BY <1>3, <2>1, ValueFits
  <1>8. Value(u) = 0
    <2> DEFINE room == Room[len]
               high == Value(u)
               low == Value(q)
    <2>1. room \in Nat \ {0} /\ low \in 0..room-1 /\ high \in Int /\ high * room + low \in 0..room-1
      BY <1>5, <1>6, <1>7, RoomIsNat
    <2> HIDE DEF room, high, low
    <2>2. high = 0
      BY <2>1, NoCarry
    <2> QED
      BY <2>2 DEF high
  <1>9. Value(q) = Value(p)
    <2>1. Room[len] \in Nat
      BY RoomIsNat
    <2> QED
      BY <1>5, <1>7, <1>8, <2>1
  <1> QED
    BY <1>3, <1>9 DEF q, h

LEMMA MultExact ==
  ASSUME W >= 2, NEW x \in Numeral, NEW y \in Numeral, NEW k \in Nat, MaxLen(x, y) = PowerOfTwo[k]
  PROVE  LET p == Mult(x, y, Len(x) + Len(y))
         IN  p = Exit \/ (p \in Numeral /\ Len(p) = Len(x) + Len(y) /\ Value(p) = Value(x) * Value(y))
  <1> DEFINE c == LongProduct[<<x, y>>]
             i == Len(x)
             j == Len(y)
             len == i + j
             p == Mult(x, y, len)
             max == MaxLen(x, y)
  <1>1. i \in Nat \ {0} /\ j \in Nat \ {0} /\ x # Exit /\ y # Exit /\ x \in Seq(Word) /\ y \in Seq(Word)
    BY NumeralLen
  <1>2. max \in Nat /\ i <= max /\ j <= max
    BY <1>1 DEF MaxLen
  <1>3. IsProduct(c, x, y, max)
    BY ProductsRule
  <1>4. p = Low(c, len)
    <2> HIDE DEF c
    <2>1. len \in Nat /\ ~(len < i + j)
      BY <1>1
    <2> QED
      BY <1>1, <2>1 DEF Mult, c
  <1> HIDE DEF c, p, max
  <1> SUFFICES ASSUME c # Exit
               PROVE  p \in Numeral /\ Len(p) = len /\ Value(p) = Value(x) * Value(y)
    BY <1>4 DEF Low, p
  <1>5. c \in Seq(Word) /\ Len(c) = 2 * max /\ Value(c) = Value(x) * Value(y)
    BY <1>3 DEF IsProduct
  <1>6. p = SubSeq(c, Len(c) - len + 1, Len(c))
    BY <1>4 DEF Low
  <1>7. Value(c) \in 0..Room[len]-1
    <2>1. Value(x) \in 0..Room[i]-1
      <3>1. Len(x) <= i
        BY <1>1
      <3> QED
        BY <1>1, <3>1, ValueFits
    <2>2. Value(y) \in 0..Room[j]-1
      <3>1. Len(y) <= j
        BY <1>1
      <3> QED
        BY <1>1, <3>1, ValueFits
    <2>3. Room[i] \in Nat \ {0} /\ Room[j] \in Nat \ {0}
      BY <1>1, RoomIsNat
    <2>4. Room[len] = Room[i] * Room[j]
      BY <1>1, RoomPlus
    <2> DEFINE ri == Room[i]
               rj == Room[j]
               vx == Value(x)
               vy == Value(y)
    <2>5. ri \in Nat \ {0} /\ rj \in Nat \ {0} /\ vx \in 0..ri-1 /\ vy \in 0..rj-1
      BY <2>1, <2>2, <2>3
    <2> HIDE DEF ri, rj, vx, vy
    <2>6. vx * vy \in 0..ri*rj-1
      BY <2>5, ProductBelow
    <2> QED
      BY <1>5, <2>4, <2>6 DEF ri, rj, vx, vy
  <1>8. len \in Nat \ {0} /\ len <= Len(c)
    BY <1>1, <1>2, <1>5
  <1> HIDE DEF len
  <1>9. p \in Seq(Word) /\ Len(p) = len /\ Value(p) = Value(c)
    BY <1>5, <1>6, <1>7, <1>8, LowValue
  <1>10. p \in Numeral
    BY <1>8, <1>9 DEF Numeral
  <1> QED
    BY <1>5, <1>9, <1>10

(* bigNumModAdd has room for the carry of the sum.                         *)
LEMMA ModAddExact ==
  ASSUME NEW x \in Numeral, NEW y \in Numeral, NEW m \in Numeral, Value(m) \in Nat \ {0}
  PROVE  Holds(ModAdd(x, y, m, Zero(Len(m))), (Value(x) + Value(y)) % Value(m), Len(m))
  <1> DEFINE max == MaxLen(x, y)
             s == Add(x, y, max + 1)
             vx == Value(x)
             vy == Value(y)
             r == Room[max]
  <1>1. x \in Seq(Word) /\ y \in Seq(Word) /\ Len(x) \in Nat \ {0} /\ Len(y) \in Nat \ {0}
    BY NumeralLen
  <1>2. max \in Nat /\ Len(x) <= max /\ Len(y) <= max
    BY <1>1 DEF MaxLen
  <1>3. max + 1 \in Nat \ {0} /\ Len(x) <= max + 1 /\ Len(y) <= max + 1
    <2> HIDE DEF max
    <2> QED
      BY <1>1, <1>2
  <1> HIDE DEF max
  <1>4. vx \in 0..r-1 /\ vy \in 0..r-1
    <2>1. vx \in 0..r-1
      BY <1>1, <1>2, ValueFits
    <2>2. vy \in 0..r-1
      BY <1>1, <1>2, ValueFits
    <2> QED
      BY <2>1, <2>2
  <1>5. r \in Nat /\ Room[max+1] = r * Base
    BY <1>2, RoomIsNat, RoomStep
  <1>6. vx + vy \in 0..Room[max+1]-1
    <2>1. Base - 2 \in Nat
      BY BaseRule
    <2> HIDE DEF r
    <2>2. r * (Base - 2) >= 0 /\ r * (Base - 2) = r * Base - 2 * r /\ r * Base \in Int
      BY <1>5, <2>1, BaseRule
    <2> DEFINE big == r * Base
    <2>3. big \in Int /\ big >= 2 * r /\ Room[max+1] = big
      BY <1>5, <2>2
    <2> HIDE DEF big, vx, vy
    <2> QED
      BY <1>4, <1>5, <2>3
  <1>7. Holds(s, vx + vy, max + 1)
    BY <1>3, AddExact
  <1> HIDE DEF s, vx, vy
  <1>8. s \in Numeral /\ Value(s) = vx + vy
    <2>1. s \in Seq(Word) /\ Len(s) = max + 1 /\ Value(s) = vx + vy
      BY <1>6, <1>7 DEF Holds
    <2> QED
      BY <1>3, <2>1 DEF Numeral
  <1>9. Len(Zero(Len(m))) = Len(m)
    <2>1. Len(m) \in Nat
      BY NumeralLen
    <2> QED
      BY <2>1 DEF Zero
  <1>10. ModAdd(x, y, m, Zero(Len(m))) = Mod(s, m, Zero(Len(m)))
    BY <1>9 DEF ModAdd, s, max
  <1>11. Holds(Mod(s, m, Zero(Len(m))), Value(s) % Value(m), Len(m))
    BY <1>8, DivExact
  <1> QED
    BY <1>8, <1>10, <1>11 DEF vx, vy

LEMMA ModMultExact ==
  ASSUME W >= 2, NEW x \in Numeral, NEW y \in Numeral, NEW m \in Numeral, Value(m) \in Nat \ {0},
         NEW k \in Nat, MaxLen(x, y) = PowerOfTwo[k],
         ModMult(x, y, m, Zero(Len(m))) # Exit
  PROVE  Holds(ModMult(x, y, m, Zero(Len(m))), (Value(x) * Value(y)) % Value(m), Len(m))
  <1> DEFINE p == Mult(x, y, Len(x) + Len(y))
  <1>1. ModMult(x, y, m, Zero(Len(m))) = Mod(p, m, Zero(Len(m)))
    BY DEF ModMult, ModMultBuff
  <1> HIDE DEF p
  <1>2. p # Exit
    BY <1>1 DEF Mod
  <1>3. p \in Numeral /\ Value(p) = Value(x) * Value(y)
    BY <1>2, MultExact DEF p
  <1>4. Holds(Mod(p, m, Zero(Len(m))), Value(p) % Value(m), Len(m))
    BY <1>3, DivExact
  <1> QED
    BY <1>1, <1>3, <1>4
===============================================================================
