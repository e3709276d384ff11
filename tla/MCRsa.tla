-------------------------------- MODULE MCRsa --------------------------------
EXTENDS Rsa

(* Odd and even, prime and composite, with strong liars (25) or without    *)
Candidates == {<<x>> : x \in {2, 3, 5, 9, 11, 12, 13, 15, 25}}
SomeMessages == {<<x>> : x \in {0, 1, 2, 19}} \cup {<<x, y>> : x \in {0, 7, 30}, y \in {0, 1, 4}}

ASSUME TheseWitnessesEnd == WitnessesEnd
=============================================================================
