------------------------------ MODULE MCSecret ------------------------------
(***************************************************************************)
(* Module Channel with the arithmetic of the code below it: two words of   *)
(* 12 bits, p = 2^23 - 15 and A = 22, for eight words, 2^255 - 19 and      *)
(* 486662.                                                                 *)
(***************************************************************************)
EXTENDS Channel, Curve25519, TLC

CONSTANTS a,
          Known \* the products that are asked for, computed once

Prime == <<2047, 4081>>
Base9 == <<0, 9>>
ClientNumber == <<1025, 3000>>
ServerNumber == <<17, 1234>>
SomeNumbers == a :> {ClientNumber} @@ "server" :> {ServerNumber}
Privates == {ClientNumber, ServerNumber}

(* X25519 of the points that these numbers lead to                         *)
Computed ==
  LET rounds[r \in 0..2] ==
        IF r = 0 THEN {}
        ELSE {<<p, k, X25519(p, k)>> : p \in {Base9} \cup {pkx[3] : pkx \in rounds[r-1]}, k \in Privates}
  IN  rounds[2]
Looked(p, k) == (CHOOSE pkx \in Known : pkx[1] = p /\ pkx[2] = k)[3]

OneOffer == {[random |-> 1289, cipher |-> <<3, 5>>, group |-> 29, signature |-> 9]}
NoHello ==
  [random |-> 0, cipher |-> <<0, 0>>, group |-> 0, signature |-> 0, key |-> <<0, 0>>]
Texts == a :> 1
Vectors == a :> <<0, 4095>>
=============================
