------------------------------- MODULE Primes -------------------------------
(* The numbers that the properties of Rsa speak of                         *)
EXTENDS Integers

Divides(d, x) == x % d = 0
PrimeNumber(x) == x > 1 /\ \A d \in 2..x-1 : ~Divides(d, x)
Coprime(x, y) == \A d \in 2..x : ~(Divides(d, x) /\ Divides(d, y))
=============================================================================
