----------------------------- MODULE FieldMaths -----------------------------
(***************************************************************************)
(* The operations of bigmaths.c that only X25519 uses: sums, differences   *)
(* and products modulo p = 2^BitMod - CarryMult, without long division.    *)
(* The code has BitMod = 255 and CarryMult = 19.                           *)
(***************************************************************************)
EXTENDS BigMaths

CONSTANTS BitMod, CarryMult
ASSUME FieldAssumption ==
  /\ BitMod \in Nat /\ BitMod > W /\ BitMod % W # 0 \* "Doesn't affect 25519"
  /\ CarryMult \in Word /\ CarryMult * CarryMult < Base

N == (BitMod \div W) + 1 \* words of an element, 8 in the code
BitDepth == BitMod % W

(* The carry of a word never reaches the next one: the variable is         *)
(* declared again inside the loop.  Only that of the first word is looked  *)
(* at, once the word has been multiplied.                                  *)
MultByLittle(a, b, dest) ==
  LET off == Len(dest) - Len(a)
      carry == (a[1] * b) \div Base
  IN  IF off < 0 \/ (carry # 0 /\ off = 0) THEN Exit
      ELSE [i \in 1..Len(dest) |->
              IF i > off THEN (a[i - off] * b) % Base
              ELSE IF i = off /\ carry # 0 THEN carry ELSE dest[i]]

(* The words of a from bit BitMod on, where first is the last word with    *)
(* bits above it.                                                          *)
HighWords(a, first) ==
  [j \in 1..first |->
     (a[j] \div TwoTo[BitDepth])
       + (IF j = 1 THEN 0 ELSE (a[j-1] % TwoTo[BitDepth]) * TwoTo[W-BitDepth])]
LowWords(a, first) ==
  [j \in 1..Len(a) |->
     IF j < first THEN 0 ELSE IF j = first THEN a[j] % TwoTo[BitDepth] ELSE a[j]]

(* 2^BitMod = CarryMult modulo p: what is above BitMod is taken away,      *)
(* multiplied and added, until nothing is above it.                        *)
Pass(a, first) ==
  Add(MultByLittle(HighWords(a, first), CarryMult, Zero(first)), LowWords(a, first), Len(a))
Within(a, first) == a[first] < TwoTo[BitDepth] /\ (first = 1 \/ a[first-1] = 0)
BitModuloMutant(a, dest) == \* a single pass
  LET first == Len(a) - (BitMod \div W)
  IN  IF a = Exit \/ first < 1 THEN a ELSE Low(Pass(a, first), Len(dest))
BitModulo(a, dest) ==
  LET first == Len(a) - (BitMod \div W)
      folded[x \in [1..Len(a) -> Word] \cup {Exit}] ==
        IF x = Exit \/ Within(x, first) THEN x ELSE folded[Pass(x, first)]
  IN  IF a = Exit THEN Exit
      ELSE IF first < 1 THEN dest ELSE Low(folded[Pass(a, first)], Len(dest))

BitModAdd(a, b) == BitModulo(Add(a, b, N + 1), Zero(N))
BitModMult(a, b) == BitModulo(Mult(a, b, 2 * N), Zero(N))
BitModMultByLittle(a, b) ==
  IF a = Exit THEN Exit ELSE BitModulo(MultByLittle(a, b, Zero(N + 1)), Zero(N))

(* bigNumModSub: where the first word borrows, the difference is negated   *)
(* bit by bit from its lowest 1 on and taken from p.  temp is the first    *)
(* word before it is stored, old what dest has in its place.               *)
Differences(a, b) ==
  LET borrow[i \in 0..N] ==
        IF i = N THEN 0 ELSE (a[i+1] - b[i+1] + borrow[i+1]) \div Base
  IN  [i \in 1..N |-> a[i] - b[i] + borrow[i]]
NegatedFirst(temp, old) ==
  LET s == CHOOSE k \in 1..W : temp % TwoTo[k] # 0 /\ temp % TwoTo[k-1] = 0
  IN  IF s = W THEN old
      ELSE (Base - 1 - ((temp % Base) \div TwoTo[s]) * TwoTo[s] + (old % TwoTo[s])) % Base
Negated(d, dest) ==
  IF \A i \in 2..N : d[i] % Base = 0
  THEN [i \in 1..N |-> IF i = 1 THEN NegatedFirst(d[1], dest[1]) ELSE 0]
  ELSE LET last == CHOOSE k \in 2..N : d[k] % Base # 0 /\ \A i \in k+1..N : d[i] % Base = 0
       IN  [i \in 1..N |->
              IF i < last THEN Base - 1 - (d[i] % Base) ELSE (Base - (d[i] % Base)) % Base]
ModSubMutant(a, b, p, dest) == \* the borrow of the first word is not looked at
  IF Exit \in {a, b} THEN Exit ELSE [i \in 1..N |-> Differences(a, b)[i] % Base]
ModSub(a, b, p, dest) ==
  IF Exit \in {a, b} THEN Exit
  ELSE LET d == Differences(a, b)
       IN  IF d[1] >= 0 THEN [i \in 1..N |-> d[i] % Base]
           ELSE Sub(p, Negated(d, dest), N)

(* a^p by squaring, bit 1 of the N words first; the caller gives p - 2     *)
BitModInv(a, p) ==
  LET square[root \in Seq(Word)] == BitModMult(root, root)
      power[i \in 0..N*W-1] ==
        IF i = 0 THEN [k \in 1..N |-> IF k = N THEN 1 ELSE 0]
        ELSE IF Bit(p, i + 1) = 1 THEN BitModMult(square[power[i-1]], a) ELSE square[power[i-1]]
  IN  power[N*W-1]
=============================================================================
