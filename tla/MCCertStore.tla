----------------------------- MODULE MCCertStore -----------------------------
(* Instances of CertStore for TLC: who runs, with which keys and names.    *)
EXTENDS CertStore, TLC

CONSTANTS p1, p2, f1, f2, k1, k2

Procs == {p1, p2}
OneFile == {f1}
Keys == {k1, k2}
Letters == {"a", "b"}

(* One process west of Greenwich, one east *)
Zones == [p \in Procs |-> IF p = p1 THEN -1 ELSE 1]

(* 512-bit keys, as the key generation and the tests use, or 2048-bit ones *)
Words512 == [k \in Keys |-> 16]
Words2048 == [k \in Keys |-> 64]

Short == <<"a">>
Two == <<"b", "a">>
TooLong == <<"a", "b", "a">>

OnKey(op, k) == [op |-> op, fname |-> f1, key |-> k]
Named(op, k, s) == [op |-> op, fname |-> f1, key |-> k, name |-> s]
Plain(op) == [op |-> op, fname |-> f1]

(* Two subjects, and two signers whose names differ in length *)
CertCalls ==
  {Named("generateX509", k1, Short), Named("generateX509", k2, Two),
   Named("signX509", k1, Short), Named("signX509", k2, Two),
   OnKey("checkX509", k1), OnKey("checkX509", k2)}

(* Keys and certificates in one file, as the test suite keeps them *)
MixedCalls ==
  {OnKey("savePublicKey", k1), OnKey("saveKeyPair", k1), OnKey("saveKeyPair", k2),
   Plain("readPublicKey"), Plain("readKeyPair"), OnKey("checkX509", k1),
   Named("generateX509", k2, Short), Named("generateX509", k1, TooLong),
   Named("signX509", k1, Short)}

KeyCalls == {OnKey("savePublicKey", k1), Plain("readPublicKey")}
=============================================================================
