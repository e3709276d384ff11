---------------------------- MODULE MCArithmetic ----------------------------
EXTENDS Arithmetic

(* Words that are extreme, and one that is not                             *)
Some == {0, 1, 5, Base-1}

(* Five bits: the field elements                                           *)
FiveBits == {x \in [1..2 -> Word] : x[1] < 4}

(* Numbers of one word, of two, and of four that are extreme               *)
Lengths124 ==
  [1..1 -> Word] \cup [1..2 -> Some] \cup FiveBits \cup
  {<<x[1], y[1], x[2], y[2]>> : x \in [1..2 -> {0, Base-1}], y \in [1..2 -> {1, Base-1}]}
Divisors == {<<1>>, <<3>>, <<Base-1>>, <<0, 5>>, <<1, 1>>, <<3, 2>>, <<Base-1, Base-1>>}
=============================================================================
