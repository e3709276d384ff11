------------------------------ MODULE Arithmetic ------------------------------
(***************************************************************************)
(* Calls of bigmaths.c as rsa.c and x25519.c make them, on any operands of *)
(* the lengths they use, against the arithmetic of the natural numbers.    *)
(***************************************************************************)
EXTENDS FieldMaths, FiniteSets

CONSTANTS Numbers, \* operands
          Moduli,  \* divisors and moduli
          Elements \* operands of X25519's sums and products: below 2^BitMod

ASSUME NumbersAssumption == Numbers \subseteq Seq(Word) \ {<<>>}
ASSUME ModuliAssumption == \A m \in Moduli : m \in Numbers /\ \E i \in 1..Len(m) : m[i] # 0
ASSUME ElementsAssumption ==
  Elements \subseteq {x \in Numbers : Len(x) = N /\ x[1] < TwoTo[BitDepth]}

(* Keys and elements have lengths that can be halved down to one word.     *)
ASSUME LengthsAssumption ==
  W >= 2 /\ \A x \in Numbers : \E k \in 0..Len(x) : Len(x) = PowerOfTwo[k]

VARIABLES a, b, n, \* the operands of the call; n is Exit where there is no modulus
          op,      \* which call was made
          out      \* what it left in dest, or Exit; a pair for division

vars == <<a, b, n, op, out>>

Init ==
  /\ a \in Numbers /\ b \in Numbers /\ n = Exit
  /\ op = "none" /\ out = Exit

Call(name, result) ==
  /\ op = "none"
  /\ op' = name /\ out' = result
  /\ UNCHANGED <<a, b>>
Plain(name, result) == Call(name, result) /\ UNCHANGED n
Modular(name, Result(_)) == \E m \in Moduli : n' = m /\ Call(name, Result(m))

BigNumAdd == Plain("add", Add(a, b, MaxLen(a, b)))
BigNumSub == Plain("sub", Sub(a, b, Len(a)))
BigNumSubLittle == Plain("subLittle", SubLittle(a, 1, Len(a)))
BigNumRShift == Plain("rShift", RShift(a, 1))
BigNumMult == Plain("mult", Mult(a, b, Len(a) + Len(b)))
BigNumDivMod ==
  Modular("divMod", LAMBDA m : <<Div(a, m, Len(a)), Mod(a, m, Zero(Len(m)))>>)
BigNumModMult == Modular("modMult", LAMBDA m : ModMult(a, b, m, Zero(Len(m))))
BigNumModAdd == Modular("modAdd", LAMBDA m : ModAdd(a, b, m, Zero(Len(m))))

(* The prime of the curve, in N words                                      *)
Prime == [i \in 1..N |-> ((PowerOfTwo[BitMod] - CarryMult) \div Room[N-i]) % Base]
AreElements == a \in Elements /\ b \in Elements

BigNumBitModAdd == AreElements /\ Plain("bitModAdd", BitModAdd(a, b))
BigNumModSub == AreElements /\ Plain("modSub", ModSub(a, b, Prime, Zero(N)))
BigNumBitModMult == AreElements /\ Plain("bitModMult", BitModMult(a, b))
BigNumBitModMultByLittle ==
  /\ a \in Elements /\ Len(b) = 1
  /\ Plain("bitModMultByLittle", BitModMultByLittle(a, b[1]))

Next == \/ BigNumAdd \/ BigNumSub \/ BigNumSubLittle \/ BigNumRShift \/ BigNumMult
        \/ BigNumDivMod \/ BigNumModMult \/ BigNumModAdd
        \/ BigNumBitModAdd \/ BigNumModSub \/ BigNumBitModMult \/ BigNumBitModMultByLittle
Spec == Init /\ [][Next]_vars
-----------------------------------------------------------------------------
(* Sums and differences are exact, and a call that cannot hold its result  *)
(* exits: no wrapped number is ever used as a key.                         *)
SumsExact ==
  /\ op = "add" => Holds(out, Value(a) + Value(b), MaxLen(a, b))
  /\ op = "sub" => Holds(out, Value(a) - Value(b), Len(a))
  /\ op = "subLittle" => Holds(out, Value(a) - 1, Len(a))
  /\ op = "rShift" => Holds(out, Value(a) \div 2, Len(a))

(* A product that is returned is exact, for lengths that are powers of two. *)
ProductsExact ==
  op = "mult" /\ out # Exit => Holds(out, Value(a) * Value(b), Len(a) + Len(b))

(* Long division finds quotient and remainder, and never exits: the        *)
(* remainder's extra word is enough for every shift.                       *)
DivisionExact ==
  op = "divMod" =>
    /\ Holds(out[1], Value(a) \div Value(n), Len(a))
    /\ Holds(out[2], Value(a) % Value(n), Len(n))

(* Sums and products modulo n are reduced and right, whatever the lengths  *)
(* of the operands.                                                        *)
ModularExact ==
  /\ op = "modAdd" => Holds(out, (Value(a) + Value(b)) % Value(n), Len(n))
  /\ op = "modMult" /\ out # Exit => Holds(out, (Value(a) * Value(b)) % Value(n), Len(n))

(* A field element that stands for v: reduced below 2^BitMod, though not   *)
(* always below the prime                                                  *)
Field == Value(Prime)
Stands(x, v) == x \in [1..N -> Word] /\ Value(x) < PowerOfTwo[BitMod] /\ Value(x) % Field = v % Field

(* Differences that modSub gets wrong: negative ones with no bit in the    *)
(* words after the first and none in the last bit of that                  *)
Slips(x, y) ==
  LET first == Room[N-1]
  IN  x < y /\ (y - x) % first = 0 /\ ((y - x) \div first) % 2 = 0

(* Sums and differences of field elements are exact modulo the prime for   *)
(* all other operands, and a difference that is lower than the prime can   *)
(* mend exits.                                                             *)
FieldSumsExact ==
  /\ op = "bitModAdd" => Stands(out, Value(a) + Value(b))
  /\ op = "modSub" /\ ~Slips(Value(a), Value(b)) =>
       IF Value(b) - Value(a) > Field THEN out = Exit
       ELSE Stands(out, Field + Value(a) - Value(b))

(* None of the words of v from the last up to word len gives a carry when  *)
(* it is multiplied by m.                                                  *)
CarryFree(v, m, len) == \A k \in 0..len-1 : ((v \div Room[k]) % Base) * m < Base

(* A product of field elements is reduced by its folding, and exact where  *)
(* no carry between the words of what is folded is lost.                   *)
FieldProductsExact ==
  /\ op = "bitModMult" /\ out # Exit =>
       LET product == Value(a) * Value(b)
       IN  /\ out \in [1..N -> Word] /\ Value(out) < PowerOfTwo[BitMod]
           /\ CarryFree(product \div PowerOfTwo[BitMod], CarryMult, 2 * N) => Stands(out, product)
  /\ op = "bitModMultByLittle" =>
       LET product == Value(a) * b[1]
       IN  /\ out \in [1..N -> Word] /\ Value(out) < PowerOfTwo[BitMod]
           /\ CarryFree(Value(a), b[1], N - 1) /\ CarryFree(product \div PowerOfTwo[BitMod], CarryMult, N)
                => Stands(out, product)
=============================================================================
