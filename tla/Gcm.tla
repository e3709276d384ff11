--------------------------------- MODULE Gcm ---------------------------------
(***************************************************************************)
(* gcm.c: a message encrypted with a counter, and its tag.  AES and the    *)
(* multiplication of the tag are symbols: a byte of the key stream is      *)
(* named by what it depends on, and so is a tag.  Characters are records;  *)
(* v says which one it is.                                                 *)
(***************************************************************************)
EXTENDS Integers, Sequences

CONSTANTS BlockBytes, \* bytes of a block: 32
          Words,      \* values of a word: 2^32
          LongIsWord  \* whether ULONG_MAX is the largest word
ASSUME BlockAssumption ==
  BlockBytes \in Nat \ {0} /\ Words \in Nat \ {0} /\ LongIsWord \in BOOLEAN

(* increment: a word that equals ULONG_MAX becomes 0 and the one before it *)
(* is next.  Where long has 64 bits no word does, and the last one wraps   *)
(* round by itself.  (An iv of nothing but the largest word exits.)        *)
IncrementMutant(iv) == iv \* the counter stands still
Increment(iv) ==
  LET Full(i) == LongIsWord /\ iv[i] = Words - 1
      last == CHOOSE i \in DOMAIN iv : ~Full(i) /\ \A j \in i+1..Len(iv) : Full(j)
  IN  [i \in DOMAIN iv |->
         IF i < last THEN iv[i] ELSE IF i = last THEN (iv[i] + 1) % Words ELSE 0]

(* The counter of each block; the iv itself encrypts the tag.              *)
Counters(iv, numBlocks) ==
  LET counter[i \in 0..numBlocks] == IF i = 0 THEN iv ELSE Increment(counter[i-1])
  IN  counter

(* plaintextXOR: a byte and one of the key stream.  The same one again     *)
(* takes it away.                                                          *)
Stream(key, counter, place) == <<key, counter, place>>
Sealed(byte, stream) == [is |-> "sealed", v |-> <<stream, byte>>]
XorByte(byte, stream) ==
  IF byte.is = "sealed" /\ byte.v[1] = stream THEN byte.v[2] ELSE Sealed(byte, stream)

NumBlocks(length) == (length + BlockBytes - 1) \div BlockBytes
Encrypted(bytes, iv, key) ==
  LET counter == Counters(iv, NumBlocks(Len(bytes)))
  IN  [i \in 1..Len(bytes) |->
         XorByte(bytes[i], Stream(key, counter[NumBlocks(i)], i % BlockBytes))]

(* The tag is computed from the encrypted blocks, which in reverse are     *)
(* those that came in.                                                     *)
Tag(key, iv, bytes) == [is |-> "tag", v |-> <<key, iv, bytes>>]
GcmTagMutant(bytes, iv, key, reverse) == \* always from the blocks that come out
  Tag(key, iv, Encrypted(bytes, iv, key))
GcmTag(bytes, iv, key, reverse) ==
  Tag(key, iv, IF reverse THEN bytes ELSE Encrypted(bytes, iv, key))
=============================================================================
