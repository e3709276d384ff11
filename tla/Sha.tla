--------------------------------- MODULE Sha ---------------------------------
(***************************************************************************)
(* sha.c: how a message is filled up to whole blocks of 64 bytes before it *)
(* is hashed.  The rounds of the hash itself are not modelled.             *)
(***************************************************************************)
EXTENDS Integers, Sequences

BlockLen == 64
LenBytes == 8 \* the last bytes hold the length in bits

LenPaddedMutant(lenMsg) == \* no room for the length
  ((lenMsg + 1 + BlockLen - 1) \div BlockLen) * BlockLen
LenPadded(lenMsg) == ((lenMsg + 1 + LenBytes + BlockLen - 1) \div BlockLen) * BlockLen

Sha256Pad(msg) ==
  LET lenPadded == LenPadded(Len(msg))
      units == <<1, 256, 65536, 16777216>>
      Length(i) == \* byte i from the end of the length in bits
        IF i > 3 THEN 0 ELSE ((Len(msg) * 8) \div units[i+1]) % 256
  IN  [i \in 1..lenPadded |->
         IF i > lenPadded - LenBytes THEN Length(lenPadded - i)
         ELSE IF i <= Len(msg) THEN msg[i]
         ELSE IF i = Len(msg) + 1 THEN 128 ELSE 0]
=============================================================================
