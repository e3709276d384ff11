--------------------------------- MODULE Rsa ---------------------------------
(***************************************************************************)
(* rsa.c: a key pair is generated from random numbers, and a message is    *)
(* encrypted and decrypted with it, or signed and checked, which is the    *)
(* same in the other order.  A message is the sequence of its words.       *)
(* Operators whose names end in Mutant are plausible slips of the          *)
(* definition after them; no specification uses them.                      *)
(***************************************************************************)
EXTENDS BigMaths, Primes

CONSTANTS Drawn,   \* what randomNumber may return for p and q
          KeyLen,  \* the length of n in words
          E,       \* the public exponent, 65537 in the code
          Messages \* messages, at most KeyLen words long

ASSUME DrawnAssumption == Drawn \subseteq [1..KeyLen \div 2 -> Word]
ASSUME KeyAssumption == \* the lengths that the callers ask for, from 2 words to 16
  /\ KeyLen \in Nat /\ \E k \in 1..KeyLen : KeyLen = PowerOfTwo[k]
  /\ W >= 2 /\ E \in Word \ {0}
ASSUME MessagesAssumption == \A m \in Messages : m \in Seq(Word) /\ Len(m) <= KeyLen

VARIABLES pc, p, q, n, \* generateKeys, and the key
          msg,         \* the message the caller started from
          text         \* what it has been turned into

vars == <<pc, p, q, n, msg, text>>

(* montLadExp: square and always multiply.  x1 is as long as the longer of *)
(* a and mod and keeps its first words; it is reduced only by a product,   *)
(* so an exponent of 1 returns a as it is.                                 *)
LadderStep(s, bit, mod, long) ==
  LET ModTimes(x, y, dest) == ModMultBuff(x, y, mod, 2 * long, dest)
  IN  IF ~s.started THEN [s EXCEPT !.started = (bit = 1)]
      ELSE IF bit = 1
      THEN [s EXCEPT !.x1 = ModTimes(@, s.x2, @), !.x2 = ModTimes(@, Aligned(@, long), @)]
      ELSE [s EXCEPT !.x2 = ModTimes(@, s.x1, @), !.x1 = ModTimes(@, @, @)]
Ladder(a, exp, mod) == \* after each bit of exp
  LET long == MaxLen(a, mod)
      start == [started |-> FALSE, x1 |-> Aligned(a, long),
                x2 |-> ModMultBuff(a, Aligned(a, long), mod, 2 * long, Zero(Len(mod)))]
      ladder[i \in 0..W*Len(exp)] ==
        IF i = 0 THEN start ELSE LadderStep(ladder[i-1], Bit(exp, i), mod, long)
  IN  ladder
Finish(s, len) == IF Exit \in {s.x1, s.x2} THEN Exit ELSE Low(s.x1, len)
MontLadExp(a, exp, mod) == Finish(Ladder(a, exp, mod)[W * Len(exp)], Len(mod))

(* millerRabin: one base.  n-1 is d*2^s with d odd; the power d of the     *)
(* base is squared while it is neither 1 nor n-1, and s-1 times at most.   *)
Split(less1) ==
  LET len == Len(less1)
      split[t \in [d : [1..len -> Word] \ {Zero(len)}, s : Nat]] ==
        IF t.d[len] % 2 = 1 THEN t ELSE split[[d |-> RShift(t.d, 1), s |-> t.s + 1]]
  IN  split[[d |-> less1, s |-> 0]]
Squares(x, less1) ==
  LET Ends(y) == y \in {Exit, less1} \/ CmpLittle(y, 1) = 0
      squares[t \in [y : [1..Len(x) -> Word] \cup {Exit}, left : Nat]] ==
        IF Ends(t.y) \/ t.left = 0 THEN t
        ELSE squares[[y |-> ModMult(t.y, t.y, x, t.y), left |-> t.left - 1]]
  IN  squares
Verdict(y, less1) == IF y = Exit THEN "exit" ELSE IF y = less1 THEN "prime" ELSE "composite"

MillerRabinMutant(x, a) == \* a first power of 1 is not looked for
  LET less1 == SubLittle(x, 1, Len(x))
      split == Split(less1)
      first == MontLadExp(a, split.d, x)
  IN  Verdict(Squares(x, less1)[[y |-> first, left |-> split.s - 1]].y, less1)
Tested(first, x, less1, s) ==
  IF first # Exit /\ CmpLittle(first, 1) = 0 THEN "prime"
  ELSE Verdict(Squares(x, less1)[[y |-> first, left |-> s - 1]].y, less1)
MillerRabin(x, a) ==
  LET less1 == SubLittle(x, 1, Len(x))
      split == Split(less1)
  IN  Tested(MontLadExp(a, split.d, x), x, less1, split.s)

(* isPrime tries 30 bases from 1 to n-2.  A composite passes them all with *)
(* a probability below 4^-30: here the bases drawn include a witness when  *)
(* there is one.                                                           *)
PrimeOutcomesMutant(x) == \* one base that does not expose it is enough
  LET Below(a) == Cmp(a, SubLittle(x, 1, Len(x))) = -1
      bases == {a \in [1..Len(x) -> Word] : Below(a) /\ CmpLittle(a, 0) # 0}
  IN  IF CmpLittle(x, 2) # 1 THEN {"exit"}
      ELSE IF x[Len(x)] % 2 = 0 THEN {"composite"}
      ELSE {MillerRabin(x, a) : a \in bases}

PrimeOutcomes(x) ==
  LET Below(a) == Cmp(a, SubLittle(x, 1, Len(x))) = -1
      bases == {a \in [1..Len(x) -> Word] : Below(a) /\ CmpLittle(a, 0) # 0}
      Outcomes(results) ==
        (results \cap {"exit"}) \cup (IF "composite" \in results THEN {"composite"} ELSE {"prime"})
  IN  IF CmpLittle(x, 2) # 1 THEN {"exit"}
      ELSE IF x[Len(x)] % 2 = 0 THEN {"composite"}
      ELSE Outcomes({MillerRabin(x, a) : a \in bases})

(* extendedEuclidean: the inverse of e modulo the totient, never negative. *)
(* The loop keeps r1, r2 and s1, s2, and stops when r2 is 0; of the last   *)
(* product, e*d, nothing is used, but it is made and may exit.             *)
EuclidStep(t, totient) ==
  LET L == Len(totient)
      quotient == Div(t.r1, t.r2, L)
      times == ModMult(quotient, t.s2, totient, t.s2)
  IN  [r1 |-> t.r2, r2 |-> Sub(t.r1, Low(Mult(quotient, t.r2, 2 * L), L), L),
       s1 |-> t.s2, s2 |-> ModAdd(t.s1, Sub(totient, times, L), totient, t.s2)]
Euclid(totient) ==
  LET words == [1..Len(totient) -> Word]
      euclid[t \in [r1 : words, r2 : words \cup {Exit}, s1 : words, s2 : words \cup {Exit}]] ==
        IF Exit \in {t.r2, t.s2} \/ CmpLittle(t.r2, 0) = 0 THEN t
        ELSE euclid[EuclidStep(t, totient)]
  IN  euclid
Inverse(e, totient) ==
  LET L == Len(totient)
      start == [r1 |-> totient, r2 |-> Aligned(<<e>>, L), s1 |-> Zero(L), s2 |-> Aligned(<<1>>, L)]
      Ended(t) == IF Exit \in {t.r2, t.s2} \/ ModMult(<<e>>, t.s1, totient, t.s1) = Exit
                  THEN Exit ELSE t.s1
  IN  IF totient = Exit THEN Exit ELSE Ended(Euclid(totient)[start])

(* The words of a message, or of a number, from the least significant end. *)
MsgNumMutant(m) == [i \in 1..KeyLen |-> IF i <= Len(m) THEN m[i] ELSE 0]
MsgNum(m) == [i \in 1..KeyLen |-> IF KeyLen - i + 1 <= Len(m) THEN m[KeyLen - i + 1] ELSE 0]

EncryptRSA(m, modulus) ==
  IF Cmp(MsgNum(m), modulus) = 1 THEN Exit ELSE MontLadExp(MsgNum(m), <<E>>, modulus)

(* decryptRSA fills a buffer of len words, which must hold the number      *)
(* without its leading zeros.                                              *)
UnloadMutant(num, len) == \* copied without turning the words round
  IF num = Exit \/ \E i \in 1..KeyLen - len : num[i] # 0 THEN Exit
  ELSE [k \in 1..len |-> num[KeyLen - len + k]]
Unload(num, len) ==
  IF num = Exit \/ \E i \in 1..KeyLen - len : num[i] # 0 THEN Exit
  ELSE [k \in 1..len |-> num[KeyLen - k + 1]]
DecryptRSA(c, len) ==
  LET totient == Mult(SubLittle(p, 1, Len(p)), SubLittle(q, 1, Len(q)), KeyLen)
      Power(d) == IF d = Exit THEN Exit ELSE MontLadExp(c, d, n)
  IN  Unload(Power(Inverse(E, totient)), len)

None == <<>>
Init ==
  /\ pc = "p" /\ p = None /\ q = None /\ n = None
  /\ msg = None /\ text = None

Stop == pc' = "exited" /\ UNCHANGED <<p, q, n, text>>

(* generateKeys draws until isPrime says yes, p and then q. *)
DrawP ==
  /\ pc = "p"
  /\ \E x \in Drawn : \E outcome \in PrimeOutcomes(x) \ {"composite"} :
       IF outcome = "exit" THEN Stop ELSE pc' = "q" /\ p' = x /\ UNCHANGED <<q, n, text>>
  /\ UNCHANGED msg

Key(x, modulus) ==
  IF modulus = Exit THEN Stop
  ELSE pc' = "key" /\ q' = x /\ n' = modulus /\ UNCHANGED <<p, text>>
DrawQ ==
  /\ pc = "q"
  /\ \E x \in Drawn : \E outcome \in PrimeOutcomes(x) \ {"composite"} :
       IF outcome = "exit" THEN Stop ELSE Key(x, Mult(p, x, KeyLen))
  /\ UNCHANGED msg

Turn(from, to, result) ==
  /\ pc = from
  /\ IF result = Exit THEN Stop ELSE pc' = to /\ text' = result /\ UNCHANGED <<p, q, n>>

(* A message is encrypted, then decrypted into a buffer of its length. *)
Encrypt(m) == Turn("key", "encrypted", EncryptRSA(m, n)) /\ msg' = m
Decrypt == Turn("encrypted", "decrypted", DecryptRSA(text, Len(msg))) /\ UNCHANGED msg

(* A hash is signed with the private key, then recovered with the public   *)
(* one, as x509.c does.                                                    *)
Sign(m) == Turn("key", "signed", DecryptRSA(m, KeyLen)) /\ msg' = m
Check == Turn("signed", "checked", EncryptRSA(text, n)) /\ UNCHANGED msg

Next ==
  \/ DrawP \/ DrawQ
  \/ \E m \in Messages : Encrypt(m) \/ Sign(m)
  \/ Decrypt \/ Check
Spec == Init /\ [][Next]_vars
-----------------------------------------------------------------------------
(* For a composite that randomNumber may return, one base at least that    *)
(* shares a factor with it is tested without running into the error of     *)
(* bigNumMult (bigmaths.c:212).                                            *)
WitnessesEnd ==
  \A x \in Drawn :
    Value(x) > 2 /\ Value(x) % 2 = 1 /\ ~PrimeNumber(Value(x)) =>
      \E a \in [1..Len(x) -> Word] :
        /\ Value(a) # 0 /\ Value(a) < Value(x) - 1
        /\ ~Coprime(Value(a), Value(x)) /\ MillerRabin(x, a) # "exit"

(* The factors of a key are primes, and n is their product: isPrime        *)
(* accepts no composite that some base exposes, and rejects no prime.      *)
KeysArePrime ==
  /\ pc # "p" /\ p # None => PrimeNumber(Value(p))
  /\ n # None => PrimeNumber(Value(q)) /\ Value(n) = Value(p) * Value(q)
PrimesAreKeys ==
  pc = "p" => \A x \in Drawn :
    Value(x) > 2 /\ PrimeNumber(Value(x)) => "composite" \notin PrimeOutcomes(x)

(* The private exponent exists, and the message is below n *)
Usable ==
  n # None /\ Value(p) # Value(q) /\ Coprime(E, (Value(p) - 1) * (Value(q) - 1))

(* With different primes and a totient that e does not share a factor      *)
(* with, what is decrypted is what was encrypted, for every message that   *)
(* encryptRSA accepts (one equal to n excepted), leading zeros or not.     *)
DecryptsToMessage ==
  pc = "decrypted" /\ Usable /\ Value(MsgNum(msg)) < Value(n) => text = msg

(* What is signed is recovered by the public key. *)
ChecksToMessage ==
  pc = "checked" /\ Usable /\ Value(msg) < Value(n) => Value(text) = Value(msg)

(* rsatest.cpp:8-19 takes the key that generateKeys returns, encrypts a    *)
(* message below n and expects it back: so it does for every key of two    *)
(* different primes.                                                       *)
KeysWork ==
  pc = "decrypted" /\ Value(p) # Value(q) /\ Value(MsgNum(msg)) < Value(n) => text = msg
=============================================================================
