-------------------------------- MODULE Base64 --------------------------------
(***************************************************************************)
(* base64.c.  Bytes and characters are their codes, numbered from 0 as in  *)
(* the code's arrays: B(x, i) is inp.data[i].  The empty text is also what *)
(* is left of a call that ends the process.  Operators whose names end in  *)
(* Mutant are plausible slips of the definition after them; nothing else   *)
(* uses them.                                                              *)
(***************************************************************************)
EXTENDS Integers, Sequences

Byte == 0..255
B(x, i) == IF i < Len(x) THEN x[i+1] ELSE 0

(* 'A'..'Z', 'a'..'z', '0'..'9', '+', '/' and '='                          *)
CharMutant(v) == \* digits from 51 on
  CASE v < 26 -> 65 + v
    [] v \in 26..50 -> 97 + v - 26
    [] v \in 51..60 -> 48 + v - 51
    [] v \in {61, 62} -> 43
    [] v = 63 -> 47
Char(v) ==
  CASE v < 26 -> 65 + v
    [] v \in 26..51 -> 97 + v - 26
    [] v \in 52..61 -> 48 + v - 52
    [] v = 62 -> 43
    [] v = 63 -> 47
Equals == 61
CharValue(c) ==
  CASE c \in 65..90 -> c - 65
    [] c \in 97..122 -> c - 97 + 26
    [] c \in 48..57 -> c - 48 + 52
    [] c = 43 -> 62
    [] c = 47 -> 63
    [] OTHER -> -1

(* Six bits, from byte i*6/8 and the one after it *)
Chunk(x, i) ==
  LET at == (i * 6) \div 8
  IN  CASE i % 4 = 0 -> B(x, at) \div 4
        [] i % 4 = 1 -> (B(x, at) % 4) * 16 + B(x, at + 1) \div 16
        [] i % 4 = 2 -> (B(x, at) % 16) * 4 + B(x, at + 1) \div 64
        [] i % 4 = 3 -> B(x, at) % 64

PaddingBits(bytes) == (6 - ((8 * bytes) % 6)) % 6

(* A '=' for each two padding bits *)
Base64Encode(x) ==
  LET chunks == (8 * Len(x) + PaddingBits(Len(x))) \div 6
  IN  [i \in 1..chunks + PaddingBits(Len(x)) \div 2 |->
         IF i <= chunks THEN Char(Chunk(x, i-1)) ELSE Equals]

(* A character's bits go to byte i*6/8 and, shifted, to the next: byte o   *)
(* takes its high bits from one character and its low bits from the next.  *)
Joined(text, o) ==
  LET v(i) == CharValue(text[i+1])
      first == (4 * o) \div 3
  IN  CASE o % 3 = 0 -> v(first) * 4 + v(first + 1) \div 16
        [] o % 3 = 1 -> (v(first) % 16) * 16 + v(first + 1) \div 4
        [] o % 3 = 2 -> (v(first) % 4) * 64 + v(first + 1)

(* The '=' characters at the end of a text, however many *)
Trailing(text) ==
  LET NotEquals == {i \in 1..Len(text) : text[i] # Equals}
  IN  IF NotEquals = {} THEN Len(text)
      ELSE Len(text) - (CHOOSE i \in NotEquals : \A j \in NotEquals : j <= i)

Base64Decode(text) ==
  LET length == Len(text) - Trailing(text)
  IN  IF \E i \in 1..length : CharValue(text[i]) = -1 THEN <<>>
      ELSE [o \in 1..(length * 6) \div 8 |-> Joined(text, o-1)]
=============================================================================
