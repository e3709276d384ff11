------------------------------ MODULE MCChannel ------------------------------
EXTENDS Channel, TLC

CONSTANTS a, b

(* What X25519 is meant to be: numbers multiplied in any order give the    *)
(* same.                                                                   *)
Meant(p, k) ==
  LET v == ((p[1] * 32 + p[2]) * (k[1] * 32 + k[2])) % 1009
  IN  <<v \div 32, v % 32>>
SomeNumbers == a :> {<<3, 7>>} @@ b :> {<<20, 30>>} @@ "server" :> {<<9, 1>>, <<30, 4>>}
Base9 == <<0, 9>>
ASSUME MeantCommutes == \A c \in Clients : Commutes(c)

Names(c) == [random |-> c, cipher |-> <<1, 3>>, group |-> 35, signature |-> 9]
OneOffer == {Names(1289)}
NoHello ==
  [random |-> 4095, cipher |-> <<7, 7>>, group |-> 63, signature |-> 63,
   key |-> <<4095, 4095>>]
Texts == a :> 1 @@ b :> 3
Vectors == a :> <<0, 4095>> @@ b :> <<4095, 4095>>
ASSUME VectorsGoOn == CountersGoOn
=============================
