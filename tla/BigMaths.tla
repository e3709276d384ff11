------------------------------- MODULE BigMaths -------------------------------
(***************************************************************************)
(* The big numbers of bigmaths.c: a number is the sequence of its words,   *)
(* most significant first, and an operator returns the contents of dest,   *)
(* or Exit where the code prints an error and exits; what is computed from *)
(* Exit is Exit.  dest is passed in where the code leaves some of its      *)
(* words as they were; elsewhere its length n is enough.  A word has W     *)
(* bits, 32 in the code, and Base values.                                  *)
(***************************************************************************)
EXTENDS Integers, Sequences

CONSTANTS W, Base

TwoTo[k \in 0..W] == IF k = 0 THEN 1 ELSE 2 * TwoTo[k-1]
ASSUME WordAssumption == W \in Nat \ {0} /\ Base = TwoTo[W]

Word == 0..Base-1
Exit == <<>>
Zero(n) == [i \in 1..n |-> 0]
MaxLen(a, b) == IF Len(a) >= Len(b) THEN Len(a) ELSE Len(b)

(* Word i of a aligned to the right of n words: the op1 and op2 of every   *)
(* loop, 0 where iA or iB is negative.                                     *)
At(a, n, i) == IF Len(a) - (n - i) < 1 THEN 0 ELSE a[Len(a) - (n - i)]
Aligned(a, n) == [i \in 1..n |-> At(a, n, i)]

(* Digits with their carries, or borrows, taken from right to left; one    *)
(* out of the first word is an error.                                      *)
Ripple(digits) ==
  LET n == Len(digits)
      carry[i \in 0..n] == IF i = n THEN 0 ELSE (digits[i+1] + carry[i+1]) \div Base
  IN  IF carry[0] # 0 THEN Exit ELSE [i \in 1..n |-> (digits[i] + carry[i]) % Base]

(* -1, 0 or 1 for LESS_THAN, EQUAL, GREATER_THAN *)
Cmp(a, b) ==
  LET n == MaxLen(a, b)
      Differs(i) == At(a, n, i) # At(b, n, i)
      first == CHOOSE i \in 1..n : Differs(i) /\ \A j \in 1..i-1 : ~Differs(j)
  IN  IF \A i \in 1..n : ~Differs(i) THEN 0
      ELSE IF At(a, n, first) < At(b, n, first) THEN -1 ELSE 1
CmpLittle(a, b) ==
  IF \E i \in 1..Len(a)-1 : a[i] # 0 THEN 1 ELSE Cmp(<<a[Len(a)]>>, <<b>>)

AddMutant(a, b, n) == \* the carry out of the first word is lost
  IF Exit \in {a, b} \/ n < Len(a) \/ n < Len(b) THEN Exit
  ELSE Aligned(Ripple([i \in 1..n+1 |-> At(a, n + 1, i) + At(b, n + 1, i)]), n)
Add(a, b, n) ==
  IF Exit \in {a, b} \/ n < Len(a) \/ n < Len(b) THEN Exit
  ELSE Ripple([i \in 1..n |-> At(a, n, i) + At(b, n, i)])
AddLittle(a, b, n) ==
  IF n < Len(a) THEN Exit ELSE Ripple([i \in 1..n |-> At(a, n, i) + At(<<b>>, n, i)])
MultiAdd(a, b, c, n) == Add(Add(a, b, n), c, n)

Sub(a, b, n) ==
  IF Exit \in {a, b} \/ Cmp(a, b) = -1 \/ n < Len(a) THEN Exit
  ELSE Ripple([i \in 1..n |-> At(a, n, i) - At(b, n, i)])
SubLittle(a, b, n) == Ripple([i \in 1..n |-> At(a, n, i) - At(<<b>>, n, i)])

RShift(a, s) ==
  [i \in 1..Len(a) |->
     (a[i] \div TwoTo[s]) + (IF i = 1 THEN 0 ELSE (a[i-1] % TwoTo[s]) * TwoTo[W-s])]
LShift(a, s) == Ripple([i \in 1..Len(a) |-> a[i] * TwoTo[s]])

(* Long division: the remainder after the first i bits of a, in a word     *)
(* more than n has, so that the shift never loses a bit.                   *)
Bit(a, i) == (a[((i-1) \div W) + 1] \div TwoTo[W - 1 - ((i-1) % W)]) % 2
SetLast(rem, bit) == IF rem = Exit THEN Exit ELSE [rem EXCEPT ![Len(rem)] = @ + bit]
Shifted(rem, bit) == SetLast(LShift(rem, 1), bit)
ReducedMutant(rem, n) == \* "cmpRes == GREATER_THAN"
  IF rem = Exit \/ Cmp(rem, n) # 1 THEN rem ELSE Sub(rem, n, Len(rem))
Reduced(rem, n) ==
  IF rem = Exit \/ Cmp(rem, n) = -1 THEN rem ELSE Sub(rem, n, Len(rem))
Remainders(a, n) ==
  LET rem[i \in 0..W*Len(a)] ==
        IF i = 0 THEN Zero(Len(n) + 1) ELSE Reduced(Shifted(rem[i-1], Bit(a, i)), n)
  IN  rem

PutLast(rem, dest, front) ==
  IF front < 0 \/ rem = Exit THEN Exit
  ELSE [i \in 1..Len(dest) |-> IF i <= front THEN dest[i] ELSE rem[i - front + 1]]
Mod(a, n, dest) ==
  IF a = Exit THEN Exit
  ELSE PutLast(Remainders(a, n)[W * Len(a)], dest, Len(dest) - Len(n))

Div(a, b, n) ==
  LET rem == Remainders(a, b)
      QuotientBit(i) == IF Cmp(Shifted(rem[i-1], Bit(a, i)), b) = -1 THEN 0 ELSE 1
      WordOf(i) ==
        LET sum[j \in 0..W] == IF j = 0 THEN 0 ELSE 2 * sum[j-1] + QuotientBit((i-1) * W + j)
        IN  sum[W]
  IN  IF Exit \in {a, b} \/ n # Len(a) \/ rem[W * Len(a)] = Exit THEN Exit ELSE [i \in 1..n |-> WordOf(i)]

(* bigNumMult pads the longer operand to an even length, then the shorter  *)
(* one to the same length; the second padding is placed by the lengths     *)
(* before the first.                                                       *)
Even(n) == n + (n % 2)
PaddedA(a, b) ==
  LET longest == Even(MaxLen(a, b))
      one == IF Len(a) >= Len(b) THEN Aligned(a, longest) ELSE a
      off == Len(b) - Len(a)
  IN  IF Len(one) = longest THEN one
      ELSE [i \in 1..longest |-> IF i > off /\ i <= off + Len(a) THEN a[i - off] ELSE 0]
PaddedB(a, b) ==
  LET longest == Even(MaxLen(a, b))
      one == IF Len(a) < Len(b) THEN Aligned(b, longest) ELSE b
      off == Len(a) - Len(b)
  IN  IF Len(one) = longest THEN one
      ELSE [i \in 1..longest |-> IF i > off /\ i <= off + Len(b) THEN b[i - off] ELSE 0]

(* a*b = [wy,wz+xy,xz] from the products of the halves, each of 2h words.  *)
CombineMutant(wy, wz, xy, xz, h) == \* pos2Temp is not carried into pos1
  LET Hi(p) == SubSeq(p, 1, h)
      Lo(p) == SubSeq(p, h+1, 2*h)
      pos1Temp == MultiAdd(Lo(wy), Hi(xy), Hi(wz), h + 1)
      pos2Temp == MultiAdd(Lo(xy), Lo(wz), Hi(xz), h + 1)
      pos0 == Add(Hi(wy), <<pos1Temp[1]>>, h)
  IN  IF pos0 = Exit THEN Exit ELSE pos0 \o Tail(pos1Temp) \o Tail(pos2Temp) \o Lo(xz)
Combine(wy, wz, xy, xz, h) ==
  LET Hi(p) == SubSeq(p, 1, h)
      Lo(p) == SubSeq(p, h+1, 2*h)
      pos1Temp == MultiAdd(Lo(wy), Hi(xy), Hi(wz), h + 1)
      pos2Temp == MultiAdd(Lo(xy), Lo(wz), Hi(xz), h + 1)
      pos0 == Add(Hi(wy), <<pos1Temp[1]>>, h)
      pos1 == Add(Tail(pos1Temp), <<pos2Temp[1]>>, h)
  IN  IF pos0 = Exit \/ pos1 = Exit THEN Exit ELSE pos0 \o pos1 \o Tail(pos2Temp) \o Lo(xz)

(* The last n words: what a destination of n words keeps of a product.     *)
Low(x, n) == IF x = Exit THEN Exit ELSE SubSeq(x, Len(x) - n + 1, Len(x))

(* bigNumLongMult: the product of single words, or of the padded halves,  *)
(* for which product is asked.                                             *)
ProductBy(a, b, product) ==
  LET h == Even(MaxLen(a, b)) \div 2
      Half(x, k) == SubSeq(x, k*h + 1, (k+1)*h)
      Product(k, l) == Low(product[<<Half(PaddedA(a, b), k), Half(PaddedB(a, b), l)>>], 2*h)
      wy == Product(0, 0)
      wz == Product(0, 1)
      xy == Product(1, 0)
      xz == Product(1, 1)
  IN  IF Len(a) = 1 /\ Len(b) = 1 THEN <<(a[1] * b[1]) \div Base, (a[1] * b[1]) % Base>>
      ELSE IF Exit \in {wy, wz, xy, xz} THEN Exit ELSE Combine(wy, wz, xy, xz, h)

Numeral == Seq(Word) \ {<<>>}
LongProduct[ab \in Numeral \X Numeral] == ProductBy(ab[1], ab[2], LongProduct)

(* dest has at most twice the words of the longest operand, as everywhere  *)
(* in the code.                                                            *)
Mult(a, b, n) ==
  IF Exit \in {a, b} \/ n < Len(a) + Len(b) THEN Exit ELSE Low(LongProduct[<<a, b>>], n)

ModMultBuff(a, b, n, lenBuff, dest) == Mod(Mult(a, b, lenBuff), n, dest)
ModMult(a, b, n, dest) == ModMultBuff(a, b, n, Len(a) + Len(b), dest)
ModAddMutant(a, b, n, dest) == \* no room for the carry of the sum
  IF Len(dest) # Len(n) THEN Exit ELSE Mod(Add(a, b, MaxLen(a, b)), n, dest)
ModAdd(a, b, n, dest) ==
  IF Len(dest) # Len(n) THEN Exit ELSE Mod(Add(a, b, MaxLen(a, b) + 1), n, dest)
-----------------------------------------------------------------------------
(* What the properties say of words: the number that they stand for, how   *)
(* many numbers k of them can hold, and that dest holds the words of v, or *)
(* the call has exited because v is negative or too big for them.          *)
PowerOfTwo[k \in Nat] == IF k = 0 THEN 1 ELSE 2 * PowerOfTwo[k-1]
Room[k \in Nat] == IF k = 0 THEN 1 ELSE Room[k-1] * Base
Value(x) ==
  LET value[i \in 0..Len(x)] == IF i = 0 THEN 0 ELSE value[i-1] * Base + x[i]
  IN  value[Len(x)]
Holds(x, v, len) ==
  IF v \in 0..Room[len]-1 THEN x \in Seq(Word) /\ Len(x) = len /\ Value(x) = v ELSE x = Exit
=============================================================================
