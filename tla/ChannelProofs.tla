---------------------------- MODULE ChannelProofs ----------------------------
(***************************************************************************)
(* Proofs about Channel, for every set of clients, every size, every text  *)
(* and every multiplication of points.  A character can be anything, so    *)
(* sequences come without a set that their elements are in.  First what    *)
(* the connections carry, then what needs the parser and the numbers:      *)
(* hellos are read back, secrets agree, messages are heard, and the key    *)
(* stream is not used twice.                                               *)
(***************************************************************************)
EXTENDS Channel, NumberTheory, SequenceTheorems, TLAPS

Sequence(s) == Len(s) \in Nat /\ s = [i \in 1..Len(s) |-> s[i]]
Chars(s) == {s[i] : i \in 1..Len(s)}

LEMMA SequenceIsSeq ==
  ASSUME NEW s, Sequence(s)
  PROVE  s \in Seq(Chars(s))
  <1>1. [i \in 1..Len(s) |-> s[i]] \in [1..Len(s) -> Chars(s)]
    BY DEF Chars
  <1>2. s \in [1..Len(s) -> Chars(s)]
    BY <1>1 DEF Sequence
  <1> QED
    BY <1>2, SeqDef DEF Sequence

LEMMA SeqIsSequence ==
  ASSUME NEW S, NEW s \in Seq(S)
  PROVE  Sequence(s)
  <1>1. Len(s) \in Nat /\ s \in [1..Len(s) -> S]
    BY LenProperties
  <1> QED
    BY <1>1 DEF Sequence

(* A table over 1..n is a sequence of length n.                            *)
LEMMA TableIsSequence ==
  ASSUME NEW n \in Nat, NEW f, f = [i \in 1..n |-> f[i]]
  PROVE  Sequence(f) /\ Len(f) = n
  <1> DEFINE S == {f[i] : i \in 1..n}
  <1>1. [i \in 1..n |-> f[i]] \in [1..n -> S]
    OBVIOUS
  <1>2. f \in [1..n -> S]
    BY <1>1
  <1> HIDE DEF S
  <1>3. f \in Seq(S)
    BY <1>2, SeqDef
  <1>4. Len(f) = n
    BY <1>2, <1>3
  <1> QED
    BY <1>3, <1>4, SeqIsSequence

LEMMA JoinedIsSequence ==
  ASSUME NEW s, NEW t, Sequence(s), Sequence(t)
  PROVE  /\ Sequence(s \o t) /\ Len(s \o t) = Len(s) + Len(t)
         /\ \A i \in 1..Len(s) : (s \o t)[i] = s[i]
         /\ \A i \in 1..Len(s \o t) :
              \/ i \in 1..Len(s) /\ (s \o t)[i] = s[i]
              \/ i - Len(s) \in 1..Len(t) /\ (s \o t)[i] = t[i - Len(s)]
  <1> DEFINE S == Chars(s) \cup Chars(t)
  <1>1. s \in Seq(S) /\ t \in Seq(S)
    <2>1. s \in Seq(Chars(s)) /\ t \in Seq(Chars(t))
      BY SequenceIsSeq
    <2> QED
      BY <2>1, SeqMonotonic
  <1> HIDE DEF S
  <1>2. /\ s \o t \in Seq(S) /\ Len(s \o t) = Len(s) + Len(t)
        /\ \A i \in 1..Len(s) + Len(t) : (s \o t)[i] = IF i <= Len(s) THEN s[i] ELSE t[i - Len(s)]
    BY <1>1, ConcatProperties
  <1>3. Sequence(s \o t)
    BY <1>2, SeqIsSequence
  <1>4. Len(s) \in Nat /\ Len(t) \in Nat
    BY DEF Sequence
  <1> QED
    BY <1>2, <1>3, <1>4

LEMMA PartIsSequence ==
  ASSUME NEW s, Sequence(s), NEW m \in Nat \ {0}, NEW n \in Int, n <= Len(s)
  PROVE  /\ Sequence(SubSeq(s, m, n))
         /\ Len(SubSeq(s, m, n)) = IF m <= n THEN n - m + 1 ELSE 0
         /\ \A i \in 1..Len(SubSeq(s, m, n)) :
              i + m - 1 \in 1..Len(s) /\ SubSeq(s, m, n)[i] = s[i + m - 1]
  <1>1. Len(s) \in Nat
    BY DEF Sequence
  <1>2. \A i \in m..n : s[i] \in Chars(s)
    BY <1>1 DEF Chars
  <1>3. /\ SubSeq(s, m, n) \in Seq(Chars(s))
        /\ Len(SubSeq(s, m, n)) = IF m <= n THEN n - m + 1 ELSE 0
        /\ \A i \in 1..n - m + 1 : SubSeq(s, m, n)[i] = s[m + i - 1]
    BY <1>2, SubSeqProperties
  <1>4. Sequence(SubSeq(s, m, n))
    BY <1>3, SeqIsSequence
  <1>5. ASSUME NEW i \in 1..Len(SubSeq(s, m, n))
        PROVE  i + m - 1 \in 1..Len(s) /\ SubSeq(s, m, n)[i] = s[i + m - 1]
    <2>1. i \in 1..n - m + 1 /\ m + i - 1 = i + m - 1 /\ i + m - 1 \in 1..Len(s)
      BY <1>1, <1>3
    <2> QED
      BY <1>3, <2>1
  <1> QED
    BY <1>3, <1>4, <1>5
-----------------------------------------------------------------------------
(* Tags among characters *)

NoTag(s) == Sequence(s) /\ \A i \in 1..Len(s) : s[i].is # "tag"
OnlyTag(s, tag) == Sequence(s) /\ \A i \in 1..Len(s) : s[i].is = "tag" => s[i] = tag

LEMMA NoTagOnly ==
  ASSUME NEW s, NEW tag, NoTag(s)
  PROVE  OnlyTag(s, tag)
  BY DEF NoTag, OnlyTag

LEMMA JoinedTags ==
  ASSUME NEW s, NEW t
  PROVE  /\ NoTag(s) /\ NoTag(t) => NoTag(s \o t)
         /\ \A tag : OnlyTag(s, tag) /\ OnlyTag(t, tag) => OnlyTag(s \o t, tag)
  <1>1. ASSUME NoTag(s), NoTag(t)
        PROVE  NoTag(s \o t)
    BY <1>1, JoinedIsSequence DEF NoTag
  <1>2. ASSUME NEW tag, OnlyTag(s, tag), OnlyTag(t, tag)
        PROVE  OnlyTag(s \o t, tag)
    BY <1>2, JoinedIsSequence DEF OnlyTag
  <1> QED
    BY <1>1, <1>2

LEMMA PartTags ==
  ASSUME NEW s, NEW m \in Nat \ {0}, NEW n \in Int, n <= Len(s)
  PROVE  /\ NoTag(s) => NoTag(SubSeq(s, m, n))
         /\ \A tag : OnlyTag(s, tag) => OnlyTag(SubSeq(s, m, n), tag)
  <1>1. ASSUME NoTag(s)
        PROVE  NoTag(SubSeq(s, m, n))
    <2>1. Sequence(s)
      BY <1>1 DEF NoTag
    <2>2. /\ Sequence(SubSeq(s, m, n))
          /\ \A i \in 1..Len(SubSeq(s, m, n)) :
               i + m - 1 \in 1..Len(s) /\ SubSeq(s, m, n)[i] = s[i + m - 1]
      BY <2>1, PartIsSequence
    <2> QED
      BY <1>1, <2>2 DEF NoTag
  <1>2. ASSUME NEW tag, OnlyTag(s, tag)
        PROVE  OnlyTag(SubSeq(s, m, n), tag)
    <2>1. Sequence(s)
      BY <1>2 DEF OnlyTag
    <2>2. /\ Sequence(SubSeq(s, m, n))
          /\ \A i \in 1..Len(SubSeq(s, m, n)) :
               i + m - 1 \in 1..Len(s) /\ SubSeq(s, m, n)[i] = s[i + m - 1]
      BY <2>1, PartIsSequence
    <2> QED
      BY <1>2, <2>2 DEF OnlyTag
  <1> QED
    BY <1>1, <1>2

(* Sizes are natural numbers, whatever they are divided by.                *)
LEMMA Sizes ==
  /\ WordDigits \div 4 \in Nat /\ WordDigits \div 2 \in Nat
  /\ KeyWords * WordDigits \in Nat
  /\ \A i \in Nat \ {0} : ((i - 1) % WordDigits) + 1 \in 1..WordDigits
  <1>1. WordDigits \in Nat \ {0} /\ KeyWords \in Nat
    BY SizesAssumption
  <1>2. ASSUME NEW i \in Nat \ {0}
        PROVE  ((i - 1) % WordDigits) + 1 \in 1..WordDigits
    <2>1. (i - 1) % WordDigits \in 0..WordDigits - 1
      BY <1>1
    <2> QED
      BY <1>1, <2>1
  <1>3. WordDigits \div 4 \in Nat /\ WordDigits \div 2 \in Nat
    BY <1>1
  <1>4. KeyWords * WordDigits \in Nat
    BY <1>1
  <1> QED
    BY <1>2, <1>3, <1>4

LEMMA Blocks ==
  ASSUME NEW n \in Nat
  PROVE  NumBlocks(n) \in Nat /\ BlockBytes * NumBlocks(n) \in Nat
  <1>1. BlockBytes \in Nat \ {0} /\ n + BlockBytes - 1 \in Nat
    BY BlockAssumption
  <1>2. (n + BlockBytes - 1) \div BlockBytes \in Nat
    BY <1>1
  <1> QED
    BY <1>1, <1>2 DEF NumBlocks

(* Hellos are digits.                                                      *)
OnlyDigits(s) == Sequence(s) /\ \A i \in 1..Len(s) : s[i].is = "digit"

LEMMA DigitsAreDigits ==
  ASSUME NEW v, NEW n \in Nat
  PROVE  OnlyDigits(Digits(v, n)) /\ Len(Digits(v, n)) = n
  <1>1. Digits(v, n) = [i \in 1..n |-> Digits(v, n)[i]]
    BY DEF Digits
  <1>2. Sequence(Digits(v, n)) /\ Len(Digits(v, n)) = n
    BY <1>1, TableIsSequence
  <1>3. \A i \in 1..n : Digits(v, n)[i].is = "digit"
    BY DEF Digits, Digit
  <1> QED
    BY <1>2, <1>3 DEF OnlyDigits

LEMMA DigitsNoTag ==
  ASSUME NEW v, NEW n \in Nat
  PROVE  NoTag(Digits(v, n)) /\ Len(Digits(v, n)) = n
  BY DigitsAreDigits DEF OnlyDigits, NoTag

LEMMA KeyDigitsAreDigits ==
  ASSUME NEW key
  PROVE  OnlyDigits(KeyDigits(key))
  <1> DEFINE n == KeyWords * WordDigits
             Place(i) == ((i - 1) % WordDigits) + 1
             Word(i) == Digits(key[((i - 1) \div WordDigits) + 1], WordDigits)
  <1>1. n \in Nat /\ WordDigits \in Nat
    BY Sizes, SizesAssumption
  <1>2. KeyDigits(key) = [i \in 1..n |-> KeyDigits(key)[i]]
    BY DEF KeyDigits
  <1>3. Sequence(KeyDigits(key)) /\ Len(KeyDigits(key)) = n
    BY <1>1, <1>2, TableIsSequence
  <1>4. ASSUME NEW i \in 1..n
        PROVE  KeyDigits(key)[i].is = "digit"
    <2>1. Place(i) \in 1..WordDigits
      BY <1>1, Sizes
    <2>2. Word(i)[Place(i)].is = "digit"
      BY <1>1, <2>1, DigitsAreDigits DEF OnlyDigits
    <2> QED
      BY <2>2 DEF KeyDigits
  <1> QED
    BY <1>3, <1>4 DEF OnlyDigits

LEMMA HelloIsDigits ==
  ASSUME NEW h
  PROVE  OnlyDigits(HelloText(h))
  <1>1. ASSUME NEW s, NEW t, OnlyDigits(s), OnlyDigits(t) PROVE OnlyDigits(s \o t)
    BY <1>1, JoinedIsSequence DEF OnlyDigits
  <1>2. ASSUME NEW s, OnlyDigits(s) PROVE OnlyDigits(Chunk(s))
    BY <1>1, <1>2, DigitsAreDigits DEF Chunk
  <1>3. /\ OnlyDigits(Digits(h.random, WordDigits)) /\ OnlyDigits(Digits(h.group, WordDigits \div 2))
        /\ OnlyDigits(Digits(h.signature, WordDigits \div 2)) /\ OnlyDigits(KeyDigits(h.key))
        /\ OnlyDigits(Digits(h.cipher[1], WordDigits \div 4))
        /\ OnlyDigits(Digits(h.cipher[2], WordDigits \div 4))
    BY Sizes, SizesAssumption, DigitsAreDigits, KeyDigitsAreDigits
  <1>4. OnlyDigits(Digits(h.cipher[1], WordDigits \div 4) \o Digits(h.cipher[2], WordDigits \div 4))
    BY <1>1, <1>3
  <1> QED
    BY <1>1, <1>2, <1>3, <1>4 DEF HelloText

LEMMA HelloNoTag ==
  ASSUME NEW h
  PROVE  NoTag(HelloText(h))
  BY HelloIsDigits DEF OnlyDigits, NoTag
-----------------------------------------------------------------------------
(* Encryption *)

LEMMA XorTwice ==
  ASSUME NEW byte, NEW stream, byte.is # "sealed"
  PROVE  /\ XorByte(byte, stream).is = "sealed"
         /\ XorByte(XorByte(byte, stream), stream) = byte
  <1>1. XorByte(byte, stream) = Sealed(byte, stream)
    BY DEF XorByte
  <1>2. /\ Sealed(byte, stream).is = "sealed"
        /\ Sealed(byte, stream).v[1] = stream /\ Sealed(byte, stream).v[2] = byte
    BY DEF Sealed
  <1> QED
    BY <1>1, <1>2 DEF XorByte

(* Bytes that are not encrypted yet come out encrypted, and come back when *)
(* that is encrypted again with the same vector and key.                   *)
LEMMA EncryptedTwice ==
  ASSUME NEW bytes, NEW iv, NEW key,
         Sequence(bytes), \A i \in 1..Len(bytes) : bytes[i].is # "sealed"
  PROVE  LET sealed == Encrypted(bytes, iv, key)
         IN  /\ NoTag(sealed) /\ Len(sealed) = Len(bytes)
             /\ Encrypted(sealed, iv, key) = bytes
  <1> DEFINE counter == Counters(iv, NumBlocks(Len(bytes)))
             stream(i) == Stream(key, counter[NumBlocks(i)], i % BlockBytes)
             sealed == Encrypted(bytes, iv, key)
  <1>1. Len(bytes) \in Nat
    BY DEF Sequence
  <1>2. sealed = [i \in 1..Len(bytes) |-> XorByte(bytes[i], stream(i))]
    BY DEF Encrypted
  <1> HIDE DEF sealed
  <1>3. Sequence(sealed) /\ Len(sealed) = Len(bytes)
    <2>1. sealed = [i \in 1..Len(bytes) |-> sealed[i]]
      BY <1>2
    <2> QED
      BY <1>1, <2>1, TableIsSequence
  <1> HIDE DEF stream
  <1>4. ASSUME NEW i \in 1..Len(bytes)
        PROVE  sealed[i].is = "sealed" /\ XorByte(sealed[i], stream(i)) = bytes[i]
    <2>1. sealed[i] = XorByte(bytes[i], stream(i))
      BY <1>2
    <2> QED
      BY <2>1, XorTwice
  <1>5. Encrypted(sealed, iv, key) = [i \in 1..Len(bytes) |-> XorByte(sealed[i], stream(i))]
    BY <1>3 DEF Encrypted, stream
  <1>6. Encrypted(sealed, iv, key) = [i \in 1..Len(bytes) |-> bytes[i]]
    BY <1>4, <1>5
  <1>7. Encrypted(sealed, iv, key) = bytes
    BY <1>6 DEF Sequence
  <1>8. NoTag(sealed)
    BY <1>3, <1>4 DEF NoTag
  <1> QED
    BY <1>3, <1>7, <1>8 DEF sealed

LEMMA TextIsPlain ==
  ASSUME NEW c \in Clients
  PROVE  Sequence(Padded(c)) /\ \A i \in 1..Len(Padded(c)) : Padded(c)[i].is # "sealed"
  <1> DEFINE n == BlockBytes * NumBlocks(LenText[c])
  <1>1. n \in Nat
    <2>1. LenText[c] \in Nat
      BY SizesAssumption
    <2> QED
      BY <2>1, Blocks
  <1>2. Padded(c) = [i \in 1..n |-> Padded(c)[i]]
    BY DEF Padded
  <1>3. Sequence(Padded(c)) /\ Len(Padded(c)) = n
    BY <1>1, <1>2, TableIsSequence
  <1>4. \A i \in 1..n : Padded(c)[i].is = "text"
    BY DEF Padded
  <1> QED
    BY <1>3, <1>4

(* The tag that a client sends is the only one in its packet.              *)
CipherTag(c, key) == Tag(key, Iv[c], Cipher(c, key))

LEMMA PacketTags ==
  ASSUME NEW c \in Clients, NEW key
  PROVE  OnlyTag(Packet(c, key), CipherTag(c, key))
  <1> DEFINE end == <<Vector(Iv[c]), GcmTag(Padded(c), Iv[c], key, FALSE), NUL>>
             head == Digits(Len(Padded(c)), 3)
             tag == CipherTag(c, key)
  <1>1. OnlyTag(head, tag)
    BY DigitsNoTag, NoTagOnly
  <1>2. OnlyTag(Cipher(c, key), tag)
    BY TextIsPlain, EncryptedTwice, NoTagOnly DEF Cipher
  <1>3. OnlyTag(end, tag)
    <2>1. end[1].is = "iv" /\ end[2] = tag /\ end[3].is = "nul"
      BY DEF Vector, NUL, GcmTag, CipherTag, Cipher
    <2>2. Len(end) = 3 /\ end \in Seq({end[1], end[2], end[3]})
      OBVIOUS
    <2>3. Sequence(end)
      BY <2>2, SeqIsSequence
    <2> HIDE DEF end
    <2>4. \A i \in 1..Len(end) : i = 1 \/ i = 2 \/ i = 3
      BY <2>2
    <2> QED
      BY <2>1, <2>3, <2>4 DEF OnlyTag
  <1>4. OnlyTag(head \o Cipher(c, key), tag)
    BY <1>1, <1>2, JoinedTags
  <1>5. OnlyTag(head \o Cipher(c, key) \o end, tag)
    BY <1>3, <1>4, JoinedTags
  <1> QED
    BY <1>5 DEF Packet
-----------------------------------------------------------------------------
(* Receiving *)

(* A buffer holds the tags of the part of the stream that was received.    *)
LEMMA BufferTags ==
  ASSUME NEW s, Sequence(s), NEW n \in 0..LenBuff, n <= Len(s), LenBuff > 0
  PROVE  LET buffer == [Received(s, n) EXCEPT ![LenBuff] = NUL]
         IN  /\ Sequence(buffer) /\ Len(buffer) = LenBuff
             /\ NoTag(s) => NoTag(buffer)
             /\ \A tag : OnlyTag(s, tag) => OnlyTag(buffer, tag)
  <1> DEFINE part == SubSeq(s, 1, n)
             zeros == [i \in 1..LenBuff-n |-> NUL]
             received == Received(s, n)
             buffer == [received EXCEPT ![LenBuff] = NUL]
  <1>1. LenBuff \in Nat /\ n \in Nat /\ LenBuff - n \in Nat
    BY SizesAssumption
  <1>2. Sequence(part) /\ Len(part) = n
    <2>1. 1 \in Nat \ {0} /\ n \in Int /\ n <= Len(s)
      BY <1>1
    <2>2. /\ Sequence(SubSeq(s, 1, n))
          /\ Len(SubSeq(s, 1, n)) = IF 1 <= n THEN n - 1 + 1 ELSE 0
      BY <2>1, PartIsSequence, Zenon
    <2> QED
      BY <1>1, <2>2
  <1>3. Sequence(zeros) /\ Len(zeros) = LenBuff - n
    BY <1>1, TableIsSequence
  <1>4. NoTag(zeros)
    <2>1. \A i \in 1..Len(zeros) : zeros[i].is = "nul"
      BY <1>3 DEF NUL
    <2> QED
      BY <1>3, <2>1 DEF NoTag
  <1>5. received = part \o zeros
    BY DEF Received
  <1> HIDE DEF part, zeros, received
  <1>6. Sequence(received) /\ Len(received) = LenBuff
    <2>1. Sequence(part \o zeros) /\ Len(part \o zeros) = Len(part) + Len(zeros)
      BY <1>2, <1>3, JoinedIsSequence
    <2> QED
      BY <1>1, <1>2, <1>3, <1>5, <2>1
  <1>7. /\ buffer = [i \in 1..LenBuff |-> buffer[i]]
        /\ \A i \in 1..LenBuff : buffer[i] = NUL \/ buffer[i] = received[i]
    <2>1. received = [i \in 1..LenBuff |-> received[i]]
      BY <1>6 DEF Sequence
    <2> QED
      BY <2>1
  <1>8. Sequence(buffer) /\ Len(buffer) = LenBuff
    <2> HIDE DEF buffer
    <2> QED
      BY <1>1, <1>7, TableIsSequence
  <1>9. NUL.is = "nul"
    BY DEF NUL
  <1> HIDE DEF buffer
  <1>10. ASSUME NoTag(s)
         PROVE  NoTag(buffer)
    <2>1. NoTag(received)
      BY <1>1, <1>4, <1>5, <1>10, PartTags, JoinedTags DEF part
    <2> QED
      BY <1>6, <1>7, <1>8, <1>9, <2>1 DEF NoTag
  <1>11. ASSUME NEW tag, OnlyTag(s, tag)
         PROVE  OnlyTag(buffer, tag)
    <2>1. OnlyTag(received, tag)
      <3>1. OnlyTag(zeros, tag)
        BY <1>4, NoTagOnly
      <3>2. OnlyTag(part, tag)
        BY <1>1, <1>11, PartTags DEF part
      <3> QED
        BY <1>5, <3>1, <3>2, JoinedTags
    <2> QED
      BY <1>6, <1>7, <1>8, <1>9, <2>1 DEF OnlyTag
  <1> QED
    BY <1>8, <1>10, <1>11 DEF buffer, received

(* What is opened is what was sealed, with the only tag there is.          *)
LEMMA OpenedIsSealed ==
  ASSUME NEW c \in Clients, NEW key, NEW buffer,
         5 + LenMsg(buffer) \in 1..Len(buffer),
         OnlyTag(buffer, CipherTag(c, key)),
         Opened(buffer) # <<>>
  PROVE  Opened(buffer) = Padded(c) /\ ~NoTag(buffer)
  <1> DEFINE bytes == SubSeq(buffer, 4, 3 + LenMsg(buffer))
             iv == VectorOf(buffer[4 + LenMsg(buffer)])
             found == buffer[5 + LenMsg(buffer)]
  <1>1. found = GcmTag(bytes, iv, serverSecret, TRUE) /\ Opened(buffer) = Encrypted(bytes, iv, serverSecret)
    BY DEF Opened
  <1>2. found = Tag(serverSecret, iv, bytes)
    BY <1>1 DEF GcmTag
  <1>3. found.is = "tag"
    BY <1>2 DEF Tag
  <1>4. found = CipherTag(c, key)
    BY <1>3 DEF OnlyTag
  <1>5. serverSecret = key /\ iv = Iv[c] /\ bytes = Cipher(c, key)
    BY <1>2, <1>4 DEF Tag, CipherTag
  <1>6. Opened(buffer) = Encrypted(Cipher(c, key), Iv[c], key)
    BY <1>1, <1>5
  <1>7. Opened(buffer) = Padded(c)
    BY <1>6, TextIsPlain, EncryptedTwice DEF Cipher
  <1>8. ~NoTag(buffer)
    BY <1>3 DEF NoTag
  <1> QED
    BY <1>7, <1>8
-----------------------------------------------------------------------------
(* Type correctness *)

LEMMA BoundTypes ==
  ASSUME cuts \in 0..MaxCuts, crashes \in 0..MaxCrashes
  PROVE  /\ \A stream, open, n : Receive(stream, open, n) => cuts' \in 0..MaxCuts
         /\ crashes < MaxCrashes /\ crashes' = crashes + 1 => crashes' \in 0..MaxCrashes
  <1>1. MaxCuts \in Nat /\ MaxCrashes \in Nat
    BY SizesAssumption
  <1>2. ASSUME NEW stream, NEW open, NEW n, Receive(stream, open, n)
        PROVE  cuts' \in 0..MaxCuts
    <2>1. \/ cuts' = cuts + 1 /\ cuts' <= MaxCuts
          \/ cuts' = cuts + 0 /\ cuts' <= MaxCuts
      BY <1>2 DEF Receive
    <2> QED
      BY <1>1, <2>1
  <1>3. crashes < MaxCrashes /\ crashes' = crashes + 1 => crashes' \in 0..MaxCrashes
    BY <1>1
  <1> QED
    BY <1>2, <1>3

LEMMA ClientTypes ==
  ASSUME TypeOK, NEW c \in Clients, NEW phase \in Phases, client' = [client EXCEPT ![c] = phase]
  PROVE  client' \in [Clients -> Phases]
  BY DEF TypeOK

LEMMA TypeInit == Init => TypeOK
  <1> SUFFICES ASSUME Init
               PROVE  TypeOK
    OBVIOUS
  <1>1. client \in [Clients -> Phases] /\ server \in ServerPhases
    BY DEF Init, Phases, ServerPhases
  <1>2. conn = Nobody /\ server = "accept"
    BY DEF Init
  <1>3. queue \in Seq(Clients) /\ Len(queue) <= Backlog
    BY SizesAssumption DEF Init
  <1>4. cuts \in 0..MaxCuts /\ crashes \in 0..MaxCrashes
    BY SizesAssumption DEF Init
  <1> QED
    BY <1>1, <1>2, <1>3, <1>4 DEF TypeOK

LEMMA TypeStep ==
  ASSUME TypeOK, [Next]_vars
  PROVE  TypeOK'
  <1> USE DEF bounds, clientVars, serverVars
  <1>1. ASSUME NEW c \in Clients, Connect(c)
        PROVE  TypeOK'
    <2>1. client' \in [Clients -> Phases]
      BY <1>1, ClientTypes DEF Connect, Phases
    <2>2. queue' \in Seq(Clients) /\ Len(queue') <= Backlog
      <3>1. CASE server # "crashed" /\ Len(queue) < Backlog
        <4>1. queue' = Append(queue, c)
          BY <1>1, <3>1 DEF Connect
        <4>2. queue' \in Seq(Clients) /\ Len(queue') = Len(queue) + 1
          BY <4>1, AppendProperties DEF TypeOK
        <4>3. Len(queue) \in Nat /\ Backlog \in Nat
          BY SizesAssumption DEF TypeOK
        <4> QED
          BY <3>1, <4>2, <4>3
      <3>2. CASE ~(server # "crashed" /\ Len(queue) < Backlog)
        <4>1. queue' = queue
          BY <1>1, <3>2 DEF Connect
        <4> QED
          BY <4>1 DEF TypeOK
      <3> QED
        BY <3>1, <3>2
    <2> QED
      BY <1>1, <2>1, <2>2 DEF TypeOK, Connect
  <1>2. ASSUME NEW c \in Clients, SendClientHello(c)
        PROVE  TypeOK'
    <2>1. client' \in [Clients -> Phases]
      BY <1>2, ClientTypes DEF SendClientHello, Phases
    <2> QED
      BY <1>2, <2>1 DEF TypeOK, SendClientHello
  <1>3. ASSUME NEW c \in Clients, NEW n \in 0..LenBuff, WaitForServerHello(c, n)
        PROVE  TypeOK'
    <2>1. client' \in [Clients -> Phases]
      BY <1>3, ClientTypes DEF WaitForServerHello, Phases
    <2>2. cuts' \in 0..MaxCuts
      BY <1>3, BoundTypes DEF WaitForServerHello, TypeOK
    <2> QED
      BY <1>3, <2>1, <2>2 DEF TypeOK, WaitForServerHello
  <1>4. ASSUME NEW c \in Clients, GcmSendMessage(c)
        PROVE  TypeOK'
    <2>1. client' \in [Clients -> Phases]
      BY <1>4, ClientTypes DEF GcmSendMessage, Phases
    <2> QED
      BY <1>4, <2>1 DEF TypeOK, GcmSendMessage
  <1>5. ASSUME Accept
        PROVE  TypeOK'
    <2>1. queue \in Seq(Clients) /\ queue # <<>> /\ conn' = Head(queue) /\ queue' = Tail(queue)
      BY <1>5 DEF TypeOK, Accept
    <2>2. conn' \in Clients /\ queue' \in Seq(Clients) /\ Len(queue') = Len(queue) - 1
      BY <2>1, HeadTailProperties
    <2>3. Len(queue') <= Backlog
      BY <2>1, <2>2, SizesAssumption DEF TypeOK
    <2>4. conn' # Nobody
      BY <2>2, NamesAssumption DEF Nobody
    <2>5. server' \in ServerPhases
      BY <1>5 DEF Accept, ServerPhases
    <2> QED
      BY <1>5, <2>2, <2>3, <2>4, <2>5 DEF TypeOK, Accept
  <1>6. ASSUME NEW n \in 0..LenBuff, WaitForRequest(n)
        PROVE  TypeOK'
    <2>1. cuts' \in 0..MaxCuts
      BY <1>6, BoundTypes DEF WaitForRequest, TypeOK
    <2> QED
      BY <1>6, <2>1 DEF TypeOK, WaitForRequest, ServerPhases
  <1>7. ASSUME SendServerHello
        PROVE  TypeOK'
    BY <1>7 DEF TypeOK, SendServerHello, ServerPhases
  <1>8. ASSUME NEW n \in 0..LenBuff, GcmReceiveMessage(n)
        PROVE  TypeOK'
    <2>1. cuts' \in 0..MaxCuts
      BY <1>8, BoundTypes DEF GcmReceiveMessage, TypeOK
    <2>2. server' \in {"close", "crashed"} /\ server = "message"
      BY <1>8 DEF GcmReceiveMessage
    <2>3. UNCHANGED <<client, conn, queue, crashes>>
      BY <1>8 DEF GcmReceiveMessage
    <2> QED
      BY <2>1, <2>2, <2>3 DEF TypeOK, ServerPhases
  <1>9. ASSUME Close
        PROVE  TypeOK'
    BY <1>9 DEF TypeOK, Close, ServerPhases
  <1>10. ASSUME NEW c \in Clients, CrashClient(c)
         PROVE  TypeOK'
    <2>1. client' \in [Clients -> Phases]
      BY <1>10, ClientTypes DEF CrashClient, Phases
    <2>2. crashes' \in 0..MaxCrashes
      BY <1>10, BoundTypes DEF CrashClient, TypeOK
    <2> QED
      BY <1>10, <2>1, <2>2 DEF TypeOK, CrashClient
  <1>11. ASSUME CrashServer
         PROVE  TypeOK'
    <2>1. crashes' \in 0..MaxCrashes
      BY <1>11, BoundTypes DEF CrashServer, TypeOK
    <2> QED
      BY <1>11, <2>1 DEF TypeOK, CrashServer, ServerPhases
  <1>12. ASSUME UNCHANGED vars
         PROVE  TypeOK'
    BY <1>12 DEF TypeOK, vars
  <1> QED
    BY <1>1, <1>2, <1>3, <1>4, <1>5, <1>6, <1>7, <1>8, <1>9, <1>10, <1>11, <1>12
       DEF Next, ServerWork, ClientWork

(* The state of the clients, of the server and of the queue has its types, *)
(* and the server has a connection whenever it works on one.               *)
THEOREM TypeCorrect == Spec => []TypeOK
  <1>1. TypeOK /\ [Next]_vars => TypeOK'
    BY TypeStep
  <1> QED
    BY TypeInit, <1>1, PTL DEF Spec
-----------------------------------------------------------------------------
(* What is delivered was sent *)

(* A table over the clients                                                *)
PerClient(f) == f = [c \in Clients |-> f[c]]

(* What is on its way holds no tag before the client has sent its message, *)
(* and then no other than that of its message under its secret.            *)
Mail ==
  /\ PerClient(up) /\ PerClient(heard) /\ PerClient(secret)
  /\ \A c \in Clients :
       IF client[c] = "sent" THEN OnlyTag(up[c], CipherTag(c, secret[c])) ELSE NoTag(up[c])
  /\ \A c \in Clients : heard[c] # <<>> => client[c] = "sent" /\ heard[c] = Padded(c)

(* The server serves nobody twice: who waits has begun, does not wait      *)
(* twice, is not being served, and nothing was delivered of it.            *)
Once ==
  /\ \A i, j \in 1..Len(queue) : queue[i] = queue[j] => i = j
  /\ \A i \in 1..Len(queue) :
       queue[i] # conn /\ client[queue[i]] # "start" /\ heard[queue[i]] = <<>>
  /\ conn # Nobody => client[conn] # "start"
  /\ server \in {"request", "reply", "message"} => heard[conn] = <<>>

LEMMA EmptyNoTag == NoTag(<<>>)
  <1>1. <<>> \in Seq({}) /\ Len(<<>>) = 0
    BY EmptySeq
  <1>2. Sequence(<<>>)
    BY <1>1, SeqIsSequence
  <1> QED
    BY <1>1, <1>2 DEF NoTag

LEMMA MailInit == Init => Mail
  <1> SUFFICES ASSUME Init
               PROVE  Mail
    OBVIOUS
  <1>1. /\ up = [c \in Clients |-> <<>>] /\ heard = [c \in Clients |-> <<>>]
        /\ secret = [c \in Clients |-> NoKey] /\ client = [c \in Clients |-> "start"]
    BY DEF Init
  <1>2. PerClient(up) /\ PerClient(heard) /\ PerClient(secret)
    BY <1>1 DEF PerClient
  <1>3. \A c \in Clients : up[c] = <<>> /\ heard[c] = <<>> /\ client[c] = "start"
    BY <1>1
  <1> QED
    BY <1>2, <1>3, EmptyNoTag DEF Mail

(* A step that leaves secrets and what was heard alone, and changes one    *)
(* client's place and stream, keeps Mail when it holds of that client.     *)
LEMMA MailOfOne ==
  ASSUME TypeOK, Mail, NEW c \in Clients, NEW phase \in Phases, NEW stream,
         client' = [client EXCEPT ![c] = phase], up' = [up EXCEPT ![c] = stream],
         client[c] = "sent" => phase = "sent",
         UNCHANGED <<secret, heard>>,
         IF phase = "sent" THEN OnlyTag(stream, CipherTag(c, secret[c])) ELSE NoTag(stream)
  PROVE  Mail'
  <1>1. PerClient(up') /\ \A d \in Clients : up'[d] = IF d = c THEN stream ELSE up[d]
    <2>1. up = [d \in Clients |-> up[d]]
      BY DEF Mail, PerClient
    <2>2. \A d \in Clients : up'[d] = IF d = c THEN stream ELSE up[d]
      BY <2>1
    <2>3. up' = [d \in Clients |-> up'[d]]
      BY <2>1
    <2> QED
      BY <2>2, <2>3 DEF PerClient
  <1>2. \A d \in Clients : client'[d] = IF d = c THEN phase ELSE client[d]
    BY DEF TypeOK
  <1>3. ASSUME NEW d \in Clients
        PROVE  IF client'[d] = "sent" THEN OnlyTag(up'[d], CipherTag(d, secret[d])) ELSE NoTag(up'[d])
    <2>1. CASE d = c
      BY <1>1, <1>2, <2>1
    <2>2. CASE d # c
      BY <1>1, <1>2, <2>2 DEF Mail
    <2> QED
      BY <2>1, <2>2
  <1>4. \A d \in Clients : heard[d] # <<>> => client'[d] = "sent" /\ heard[d] = Padded(d)
    BY <1>2 DEF Mail
  <1> QED
    BY <1>1, <1>3, <1>4 DEF Mail

(* A receive takes the front of a stream away.                             *)
LEMMA MailReceived ==
  ASSUME TypeOK, Mail, NEW c \in Clients, NEW n \in 0..LenBuff, NEW open,
         Receive(up[c], open, n), up' = [up EXCEPT ![c] = From(@, n)],
         UNCHANGED <<client, secret>>
  PROVE  /\ Sequence(up[c]) /\ n <= Len(up[c])
         /\ PerClient(up')
         /\ \A d \in Clients :
              IF client[d] = "sent" THEN OnlyTag(up'[d], CipherTag(d, secret[d])) ELSE NoTag(up'[d])
  <1>1. Sequence(up[c])
    BY DEF Mail, NoTag, OnlyTag
  <1>2. Len(up[c]) \in Nat /\ n \in Nat /\ LenBuff \in Nat
    BY <1>1, SizesAssumption DEF Sequence
  <1>3. n <= Len(up[c])
    BY <1>2 DEF Receive
  <1>4. PerClient(up') /\ \A d \in Clients : up'[d] = IF d = c THEN From(up[c], n) ELSE up[d]
    <2>1. up = [d \in Clients |-> up[d]]
      BY DEF Mail, PerClient
    <2>2. \A d \in Clients : up'[d] = IF d = c THEN From(up[c], n) ELSE up[d]
      BY <2>1
    <2>3. up' = [d \in Clients |-> up'[d]]
      BY <2>1
    <2> QED
      BY <2>2, <2>3 DEF PerClient
  <1>5. /\ NoTag(up[c]) => NoTag(From(up[c], n))
        /\ \A tag : OnlyTag(up[c], tag) => OnlyTag(From(up[c], n), tag)
    <2>1. n + 1 \in Nat \ {0} /\ Len(up[c]) \in Int /\ Len(up[c]) <= Len(up[c])
      BY <1>2
    <2> QED
      BY <2>1, PartTags DEF From
  <1>6. ASSUME NEW d \in Clients
        PROVE  IF client[d] = "sent" THEN OnlyTag(up'[d], CipherTag(d, secret[d])) ELSE NoTag(up'[d])
    <2>1. CASE d = c
      BY <1>4, <1>5, <2>1 DEF Mail
    <2>2. CASE d # c
      BY <1>4, <2>2 DEF Mail
    <2> QED
      BY <2>1, <2>2
  <1> QED
    BY <1>1, <1>3, <1>4, <1>6

LEMMA MailOfPlace ==
  ASSUME TypeOK, Mail, NEW c \in Clients, NEW phase \in Phases \ {"sent"},
         client' = [client EXCEPT ![c] = phase], client[c] # "sent",
         UNCHANGED <<secret, heard, up>>
  PROVE  Mail'
  <1>1. \A d \in Clients : client'[d] = IF d = c THEN phase ELSE client[d]
    BY DEF TypeOK
  <1>2. \A d \in Clients :
          IF client'[d] = "sent" THEN OnlyTag(up[d], CipherTag(d, secret[d])) ELSE NoTag(up[d])
    BY <1>1 DEF Mail
  <1>3. \A d \in Clients : heard[d] # <<>> => client'[d] = "sent" /\ heard[d] = Padded(d)
    BY <1>1 DEF Mail
  <1> QED
    BY <1>2, <1>3 DEF Mail

LEMMA MailKept ==
  ASSUME Mail, UNCHANGED <<client, secret, up, heard>>
  PROVE  Mail'
  BY DEF Mail

(* What gcmReceiveMessage finds is nothing, or what the client has sent.   *)
LEMMA Heard ==
  ASSUME TypeOK, Mail, NEW n \in 0..LenBuff, GcmReceiveMessage(n)
  PROVE  \/ heard' = heard
         \/ \E text : /\ heard' = [heard EXCEPT ![conn] = text]
                      /\ text # <<>> => client[conn] = "sent" /\ text = Padded(conn)
  <1> DEFINE buffer == [Received(up[conn], n) EXCEPT ![LenBuff] = NUL]
  <1>1. conn \in Clients
    BY DEF GcmReceiveMessage, TypeOK
  <1>2. Sequence(up[conn]) /\ n <= Len(up[conn])
    <2>1. /\ Receive(up[conn], ClientOpen(conn), n)
          /\ up' = [up EXCEPT ![conn] = From(@, n)]
          /\ UNCHANGED <<client, secret>>
      BY DEF GcmReceiveMessage, clientVars
    <2> QED
      BY <1>1, <2>1, MailReceived
  <1>3. \/ heard' = heard
        \/ 5 + LenMsg(buffer) \in 1..LenBuff /\ heard' = [heard EXCEPT ![conn] = Opened(buffer)]
    BY DEF GcmReceiveMessage
  <1>4. ASSUME 5 + LenMsg(buffer) \in 1..LenBuff, Opened(buffer) # <<>>
        PROVE  client[conn] = "sent" /\ Opened(buffer) = Padded(conn)
    <2>1. LenBuff > 0
      BY <1>4, SizesAssumption
    <2>2. /\ Len(buffer) = LenBuff
          /\ NoTag(up[conn]) => NoTag(buffer)
          /\ \A tag : OnlyTag(up[conn], tag) => OnlyTag(buffer, tag)
      BY <1>2, <2>1, BufferTags
    <2> HIDE DEF buffer
    <2>3. OnlyTag(up[conn], CipherTag(conn, secret[conn]))
      BY <1>1, NoTagOnly DEF Mail
    <2>4. OnlyTag(buffer, CipherTag(conn, secret[conn]))
      BY <2>2, <2>3
    <2>5. Opened(buffer) = Padded(conn) /\ ~NoTag(buffer)
      BY <1>1, <1>4, <2>2, <2>4, OpenedIsSealed
    <2>6. client[conn] = "sent"
      BY <1>1, <2>2, <2>5 DEF Mail
    <2> QED
      BY <2>5, <2>6
  <1> QED
    BY <1>3, <1>4

LEMMA MailStep ==
  ASSUME TypeOK, Mail, [Next]_vars
  PROVE  Mail'
  <1> USE DEF clientVars
  <1>1. ASSUME NEW c \in Clients, Connect(c)
        PROVE  Mail'
    <2>1. CASE client' = [client EXCEPT ![c] = "connected"]
      BY <1>1, <2>1, MailOfPlace DEF Connect, Phases
    <2>2. CASE client' = [client EXCEPT ![c] = "done"]
      BY <1>1, <2>2, MailOfPlace DEF Connect, Phases
    <2> QED
      BY <1>1, <2>1, <2>2 DEF Connect
  <1>2. ASSUME NEW c \in Clients, SendClientHello(c)
        PROVE  Mail'
    <2>1. /\ client[c] = "connected" /\ client' = [client EXCEPT ![c] = "waiting"]
          /\ up' = [up EXCEPT ![c] = up[c] \o HelloText(hello[c])]
          /\ UNCHANGED <<secret, heard>>
      BY <1>2 DEF SendClientHello
    <2>2. NoTag(up[c] \o HelloText(hello[c]))
      BY <2>1, HelloNoTag, JoinedTags DEF Mail
    <2>3. "waiting" \in Phases
      BY DEF Phases
    <2> QED
      BY <2>1, <2>2, <2>3, MailOfOne
  <1>3. ASSUME NEW c \in Clients, NEW n \in 0..LenBuff, WaitForServerHello(c, n)
        PROVE  Mail'
    <2>1. PICK key : secret' = [secret EXCEPT ![c] = key]
      BY <1>3 DEF WaitForServerHello
    <2>2. /\ client[c] = "waiting" /\ client' = [client EXCEPT ![c] = "agreed"]
          /\ UNCHANGED <<up, heard>>
      BY <1>3 DEF WaitForServerHello
    <2>3. PerClient(secret') /\ \A d \in Clients \ {c} : secret'[d] = secret[d]
      <3>1. secret = [d \in Clients |-> secret[d]]
        BY DEF Mail, PerClient
      <3>2. secret' = [d \in Clients |-> secret'[d]] /\ \A d \in Clients \ {c} : secret'[d] = secret[d]
        BY <2>1, <3>1
      <3> QED
        BY <3>2 DEF PerClient
    <2>4. \A d \in Clients : client'[d] = IF d = c THEN "agreed" ELSE client[d]
      BY <2>2 DEF TypeOK
    <2>5. \A d \in Clients :
            IF client'[d] = "sent" THEN OnlyTag(up[d], CipherTag(d, secret'[d])) ELSE NoTag(up[d])
      BY <2>2, <2>3, <2>4 DEF Mail
    <2>6. \A d \in Clients : heard[d] # <<>> => client'[d] = "sent" /\ heard[d] = Padded(d)
      BY <2>2, <2>4 DEF Mail
    <2> QED
      BY <2>2, <2>3, <2>5, <2>6 DEF Mail
  <1>4. ASSUME NEW c \in Clients, GcmSendMessage(c)
        PROVE  Mail'
    <2>1. client[c] = "agreed" /\ NoTag(up[c]) /\ UNCHANGED <<secret, heard>>
      BY <1>4 DEF GcmSendMessage, Mail
    <2>2. ASSUME client' = [client EXCEPT ![c] = "done"],
                 NEW left \in AfterClose(up[c], down[c]), up' = [up EXCEPT ![c] = left]
          PROVE  Mail'
      <3>1. left = up[c] \/ left = <<>>
        BY <2>2 DEF AfterClose
      <3>2. NoTag(left) /\ "done" \in Phases
        BY <2>1, <3>1, EmptyNoTag DEF Phases
      <3> QED
        BY <2>1, <2>2, <3>2, MailOfOne
    <2>3. ASSUME client' = [client EXCEPT ![c] = "sent"],
                 NEW left \in AfterClose(up[c] \o Packet(c, secret[c]), down[c]),
                 up' = [up EXCEPT ![c] = left]
          PROVE  Mail'
      <3>1. OnlyTag(up[c] \o Packet(c, secret[c]), CipherTag(c, secret[c]))
        BY <2>1, NoTagOnly, PacketTags, JoinedTags
      <3>2. left = up[c] \o Packet(c, secret[c]) \/ left = <<>>
        BY <2>3 DEF AfterClose
      <3>3. OnlyTag(left, CipherTag(c, secret[c])) /\ "sent" \in Phases
        BY <3>1, <3>2, EmptyNoTag, NoTagOnly DEF Phases
      <3> QED
        BY <2>1, <2>3, <3>3, MailOfOne
    <2> QED
      BY <1>4, <2>2, <2>3 DEF GcmSendMessage
  <1>5. ASSUME NEW n \in 0..LenBuff, WaitForRequest(n)
        PROVE  Mail'
    <2>1. conn \in Clients
      BY <1>5 DEF TypeOK, WaitForRequest
    <2>2. /\ Receive(up[conn], ClientOpen(conn), n) /\ up' = [up EXCEPT ![conn] = From(@, n)]
          /\ UNCHANGED <<client, secret, heard>>
      BY <1>5 DEF WaitForRequest
    <2>3. /\ PerClient(up')
          /\ \A d \in Clients :
               IF client[d] = "sent" THEN OnlyTag(up'[d], CipherTag(d, secret[d])) ELSE NoTag(up'[d])
      BY <2>1, <2>2, MailReceived
    <2> QED
      BY <2>2, <2>3 DEF Mail
  <1>6. ASSUME NEW n \in 0..LenBuff, GcmReceiveMessage(n)
        PROVE  Mail'
    <2>1. conn \in Clients
      BY <1>6 DEF TypeOK, GcmReceiveMessage
    <2>2. /\ Receive(up[conn], ClientOpen(conn), n) /\ up' = [up EXCEPT ![conn] = From(@, n)]
          /\ UNCHANGED <<client, secret>>
      BY <1>6 DEF GcmReceiveMessage
    <2>3. /\ PerClient(up')
          /\ \A d \in Clients :
               IF client[d] = "sent" THEN OnlyTag(up'[d], CipherTag(d, secret[d])) ELSE NoTag(up'[d])
      BY <2>1, <2>2, MailReceived
    <2>4. /\ PerClient(heard')
          /\ \A d \in Clients : heard'[d] # <<>> => client[d] = "sent" /\ heard'[d] = Padded(d)
      <3>1. CASE heard' = heard
        BY <3>1 DEF Mail
      <3>2. ASSUME NEW text, heard' = [heard EXCEPT ![conn] = text],
                   text # <<>> => client[conn] = "sent" /\ text = Padded(conn)
            PROVE  /\ PerClient(heard')
                   /\ \A d \in Clients : heard'[d] # <<>> => client[d] = "sent" /\ heard'[d] = Padded(d)
        <4>1. heard = [d \in Clients |-> heard[d]]
          BY DEF Mail, PerClient
        <4>2. /\ heard' = [d \in Clients |-> heard'[d]]
              /\ \A d \in Clients : heard'[d] = IF d = conn THEN text ELSE heard[d]
          BY <2>1, <3>2, <4>1
        <4> QED
          BY <3>2, <4>2 DEF Mail, PerClient
      <3> QED
        BY <1>6, <3>1, <3>2, Heard
    <2> QED
      BY <2>2, <2>3, <2>4 DEF Mail
  <1>7. ASSUME NEW c \in Clients, CrashClient(c)
        PROVE  Mail'
    <2>1. client[c] # "sent" /\ NoTag(up[c]) /\ UNCHANGED <<secret, heard>>
      BY <1>7 DEF CrashClient, ClientOpen, Mail
    <2>2. PICK left \in AfterClose(up[c], down[c]) : up' = [up EXCEPT ![c] = left]
      BY <1>7 DEF CrashClient
    <2>3. NoTag(left) /\ "done" \in Phases
      BY <2>1, EmptyNoTag DEF AfterClose, Phases
    <2> QED
      BY <1>7, <2>1, <2>2, <2>3, MailOfOne DEF CrashClient
  <1>8. ASSUME Accept \/ SendServerHello \/ Close \/ CrashServer
        PROVE  Mail'
    BY <1>8, MailKept DEF Accept, SendServerHello, Close, CrashServer
  <1>9. ASSUME UNCHANGED vars
        PROVE  Mail'
    BY <1>9, MailKept DEF vars
  <1> QED
    BY <1>1, <1>2, <1>3, <1>4, <1>5, <1>6, <1>7, <1>8, <1>9 DEF Next, ServerWork, ClientWork

(* That holds with the types in every state: a tag is on its way only once *)
(* the client has sent its message, and it is that message's.              *)
THEOREM MailInvariant == Spec => [](TypeOK /\ Mail)
  <1>1. TypeOK /\ Mail /\ [Next]_vars => Mail'
    BY MailStep
  <1> QED
    BY TypeCorrect, MailInit, <1>1, PTL DEF Spec

(* A message that the server prints is the one that the client of that     *)
(* connection has sent, whatever the sizes, wherever the streams are cut   *)
(* and whoever is killed, and even where the secrets do not agree.         *)
THEOREM MessagesAreSent == Spec => []DeliveredIsSent
  <1>1. TypeOK /\ Mail => DeliveredIsSent
    BY DEF Mail, DeliveredIsSent
  <1> QED
    BY MailInvariant, <1>1, PTL
-----------------------------------------------------------------------------
(* What is delivered is delivered once *)

LEMMA OnceInit == Init => Once
  BY EmptySeq DEF Init, Once, Nobody

LEMMA OnceKept ==
  ASSUME TypeOK, Once, UNCHANGED <<queue, conn, heard>>,
         \A c \in Clients : client[c] # "start" => client'[c] # "start",
         server' \in {"request", "reply", "message"} => server \in {"request", "reply", "message"}
  PROVE  Once'
  <1>1. \A i \in 1..Len(queue) : queue[i] \in Clients
    BY DEF TypeOK
  <1>2. \A i \in 1..Len(queue) :
          queue[i] # conn /\ client'[queue[i]] # "start" /\ heard[queue[i]] = <<>>
    BY <1>1 DEF Once
  <1>3. conn # Nobody => client'[conn] # "start"
    BY DEF Once, TypeOK
  <1>4. server' \in {"request", "reply", "message"} => heard[conn] = <<>>
    BY DEF Once
  <1> QED
    BY <1>2, <1>3, <1>4 DEF Once

LEMMA OnceStep ==
  ASSUME TypeOK, Mail, Once, [Next]_vars
  PROVE  Once'
  <1> USE DEF clientVars
  <1>1. ASSUME NEW c \in Clients, NEW phase \in Phases \ {"start"},
               client' = [client EXCEPT ![c] = phase]
        PROVE  \A d \in Clients : client[d] # "start" => client'[d] # "start"
    BY <1>1 DEF TypeOK
  <1>2. ASSUME NEW c \in Clients, Connect(c)
        PROVE  Once'
    <2>1. client[c] = "start" /\ heard[c] = <<>> /\ c # conn
      BY <1>2, NamesAssumption DEF Connect, Mail, Once, Nobody
    <2>2. \A d \in Clients : client[d] # "start" => client'[d] # "start"
      BY <1>1, <1>2 DEF Connect, Phases
    <2>3. UNCHANGED <<server, conn, heard>>
      BY <1>2 DEF Connect, serverVars
    <2>4. CASE UNCHANGED queue
      BY <2>2, <2>3, <2>4, OnceKept
    <2>5. CASE client' = [client EXCEPT ![c] = "connected"] /\ queue' = Append(queue, c)
      <3>1. queue \in Seq(Clients) /\ Len(queue) \in Nat
        BY DEF TypeOK
      <3>2. /\ Len(queue') = Len(queue) + 1 /\ queue'[Len(queue) + 1] = c
            /\ \A i \in 1..Len(queue) : queue'[i] = queue[i] /\ queue[i] \in Clients
        BY <2>5, <3>1, AppendProperties
      <3>3. \A i \in 1..Len(queue) : queue[i] # c
        BY <1>2 DEF Connect, Once
      <3>4. \A i, j \in 1..Len(queue') : queue'[i] = queue'[j] => i = j
        BY <3>1, <3>2, <3>3 DEF Once
      <3>5. client'[c] # "start"
        BY <2>5 DEF TypeOK
      <3>6. ASSUME NEW i \in 1..Len(queue')
            PROVE  queue'[i] # conn /\ client'[queue'[i]] # "start" /\ heard[queue'[i]] = <<>>
        <4>1. CASE i = Len(queue) + 1
          BY <2>1, <3>2, <3>5, <4>1
        <4>2. CASE i \in 1..Len(queue)
          BY <2>2, <3>2, <4>2 DEF Once
        <4> QED
          BY <3>1, <3>2, <4>1, <4>2
      <3>7. conn # Nobody => client'[conn] # "start"
        BY <2>2 DEF Once, TypeOK
      <3> QED
        BY <2>3, <3>4, <3>6, <3>7 DEF Once
    <2> QED
      BY <1>2, <2>4, <2>5 DEF Connect
  <1>3. ASSUME NEW c \in Clients, SendClientHello(c)
        PROVE  Once'
    BY <1>1, <1>3, OnceKept DEF SendClientHello, Phases, serverVars
  <1>4. ASSUME NEW c \in Clients, NEW n \in 0..LenBuff, WaitForServerHello(c, n)
        PROVE  Once'
    BY <1>1, <1>4, OnceKept DEF WaitForServerHello, Phases, serverVars
  <1>5. ASSUME NEW c \in Clients, GcmSendMessage(c)
        PROVE  Once'
    <2>1. client' = [client EXCEPT ![c] = "done"] \/ client' = [client EXCEPT ![c] = "sent"]
      BY <1>5 DEF GcmSendMessage
    <2>2. \A d \in Clients : client[d] # "start" => client'[d] # "start"
      BY <1>1, <2>1 DEF Phases
    <2> QED
      BY <1>5, <2>2, OnceKept DEF GcmSendMessage, serverVars
  <1>6. ASSUME Accept
        PROVE  Once'
    <2>1. queue \in Seq(Clients) /\ queue # <<>> /\ Len(queue) \in Nat
      BY <1>6 DEF Accept, TypeOK
    <2>2. /\ Len(queue) >= 1 /\ Head(queue) = queue[1]
          /\ Len(Tail(queue)) = Len(queue) - 1
          /\ \A i \in 1..Len(Tail(queue)) : Tail(queue)[i] = queue[i + 1]
      BY <2>1, HeadTailProperties, EmptySeq
    <2>3. conn' = queue[1] /\ queue' = Tail(queue) /\ UNCHANGED <<client, heard>>
      BY <1>6, <2>2 DEF Accept
    <2>4. \A i \in 1..Len(queue') : i + 1 \in 1..Len(queue) /\ i + 1 # 1 /\ queue'[i] = queue[i + 1]
      BY <2>1, <2>2, <2>3
    <2>5. \A i, j \in 1..Len(queue') : queue'[i] = queue'[j] => i = j
      BY <2>1, <2>2, <2>3, <2>4 DEF Once
    <2>6. 1 \in 1..Len(queue)
      BY <2>1, <2>2
    <2>7. client[conn'] # "start" /\ heard[conn'] = <<>>
      BY <2>3, <2>6 DEF Once
    <2>8. \A i \in 1..Len(queue') :
            queue'[i] # conn' /\ client[queue'[i]] # "start" /\ heard[queue'[i]] = <<>>
      BY <2>3, <2>4, <2>6 DEF Once
    <2> QED
      BY <2>3, <2>5, <2>7, <2>8 DEF Once
  <1>7. ASSUME NEW n \in 0..LenBuff, WaitForRequest(n)
        PROVE  Once'
    BY <1>7, OnceKept DEF WaitForRequest
  <1>8. ASSUME SendServerHello
        PROVE  Once'
    BY <1>8, OnceKept DEF SendServerHello
  <1>9. ASSUME NEW n \in 0..LenBuff, GcmReceiveMessage(n)
        PROVE  Once'
    <2>1. server' \in {"close", "crashed"} /\ UNCHANGED <<client, conn, queue>>
      BY <1>9 DEF GcmReceiveMessage
    <2>2. \A d \in Clients \ {conn} : heard'[d] = heard[d]
      <3>1. CASE heard' = heard
        BY <3>1
      <3>2. ASSUME NEW text, heard' = [heard EXCEPT ![conn] = text]
            PROVE  \A d \in Clients \ {conn} : heard'[d] = heard[d]
        <4>1. heard = [d \in Clients |-> heard[d]]
          BY DEF Mail, PerClient
        <4> QED
          BY <3>2, <4>1
      <3> QED
        BY <1>9, <3>1, <3>2, Heard
    <2>3. \A i \in 1..Len(queue) : queue[i] \in Clients \ {conn}
      BY DEF Once, TypeOK
    <2>4. \A i \in 1..Len(queue) : heard'[queue[i]] = <<>>
      BY <2>2, <2>3 DEF Once
    <2> QED
      BY <2>1, <2>4 DEF Once
  <1>10. ASSUME Close
         PROVE  Once'
    <2>1. conn' = Nobody /\ server' = "accept" /\ UNCHANGED <<client, queue, heard>>
      BY <1>10 DEF Close
    <2>2. \A i \in 1..Len(queue) : queue[i] # Nobody
      BY NamesAssumption DEF TypeOK, Nobody
    <2> QED
      BY <2>1, <2>2 DEF Once
  <1>11. ASSUME NEW c \in Clients, CrashClient(c)
         PROVE  Once'
    BY <1>1, <1>11, OnceKept DEF CrashClient, Phases, serverVars
  <1>12. ASSUME CrashServer
         PROVE  Once'
    BY <1>12, OnceKept DEF CrashServer
  <1>13. ASSUME UNCHANGED vars
         PROVE  Once'
    BY <1>13, OnceKept DEF vars, serverVars
  <1> QED
    BY <1>2, <1>3, <1>4, <1>5, <1>6, <1>7, <1>8, <1>9, <1>10, <1>11, <1>12, <1>13
       DEF Next, ServerWork, ClientWork

(* The refinement: who has sent and what was heard are the state of        *)
(* Delivery.  Only the two calls of msg.c change it; the tag decides that  *)
(* what is delivered is the message, and Once that it is the first.        *)
LEMMA DeliveryInit == Init => Abstract!Init
  <1>1. Init => {c \in Clients : client[c] = "sent"} = {}
    BY DEF Init
  <1> QED
    BY <1>1 DEF Init, Abstract!Init

LEMMA DeliveryStutters ==
  ASSUME UNCHANGED heard, \A c \in Clients : (client'[c] = "sent") <=> (client[c] = "sent")
  PROVE  UNCHANGED Abstract!vars
  <1>1. {c \in Clients : client'[c] = "sent"} = {c \in Clients : client[c] = "sent"}
    OBVIOUS
  <1> QED
    BY <1>1 DEF Abstract!vars

LEMMA DeliveryStep ==
  ASSUME TypeOK, Mail, Once, [Next]_vars
  PROVE  [Abstract!Next]_Abstract!vars
  <1> USE DEF clientVars
  <1>1. ASSUME NEW c \in Clients, NEW phase \in Phases \ {"sent"}, client[c] # "sent",
               client' = [client EXCEPT ![c] = phase], UNCHANGED heard
        PROVE  UNCHANGED Abstract!vars
    <2>1. \A d \in Clients : (client'[d] = "sent") <=> (client[d] = "sent")
      BY <1>1 DEF TypeOK
    <2> QED
      BY <1>1, <2>1, DeliveryStutters
  <1>2. ASSUME NEW c \in Clients, Connect(c)
        PROVE  UNCHANGED Abstract!vars
    <2>1. client' = [client EXCEPT ![c] = "connected"] \/ client' = [client EXCEPT ![c] = "done"]
      BY <1>2 DEF Connect
    <2>2. client[c] # "sent" /\ UNCHANGED heard
      BY <1>2 DEF Connect
    <2> QED
      BY <1>1, <2>1, <2>2 DEF Phases
  <1>3. ASSUME NEW c \in Clients, SendClientHello(c)
        PROVE  UNCHANGED Abstract!vars
    BY <1>1, <1>3 DEF SendClientHello, Phases
  <1>4. ASSUME NEW c \in Clients, NEW n \in 0..LenBuff, WaitForServerHello(c, n)
        PROVE  UNCHANGED Abstract!vars
    BY <1>1, <1>4 DEF WaitForServerHello, Phases
  <1>5. ASSUME NEW c \in Clients, CrashClient(c)
        PROVE  UNCHANGED Abstract!vars
    BY <1>1, <1>5 DEF CrashClient, ClientOpen, Phases
  <1>6. ASSUME NEW c \in Clients, GcmSendMessage(c)
        PROVE  [Abstract!Next]_Abstract!vars
    <2>1. client[c] = "agreed" /\ UNCHANGED heard
      BY <1>6 DEF GcmSendMessage
    <2>2. CASE client' = [client EXCEPT ![c] = "done"]
      BY <1>1, <2>1, <2>2 DEF Phases
    <2>3. CASE client' = [client EXCEPT ![c] = "sent"]
      <3>1. \A d \in Clients : client'[d] = IF d = c THEN "sent" ELSE client[d]
        BY <2>3 DEF TypeOK
      <3>2. {d \in Clients : client'[d] = "sent"} = {d \in Clients : client[d] = "sent"} \cup {c}
        BY <3>1
      <3>3. c \notin {d \in Clients : client[d] = "sent"}
        BY <2>1
      <3>4. Abstract!Send(c)
        BY <2>1, <3>2, <3>3 DEF Abstract!Send
      <3> QED
        BY <3>4 DEF Abstract!Next
    <2> QED
      BY <1>6, <2>2, <2>3 DEF GcmSendMessage
  <1>7. ASSUME NEW n \in 0..LenBuff, GcmReceiveMessage(n)
        PROVE  [Abstract!Next]_Abstract!vars
    <2>1. conn \in Clients /\ heard[conn] = <<>> /\ UNCHANGED client
      BY <1>7 DEF GcmReceiveMessage, TypeOK, Once
    <2>2. CASE heard' = heard
      BY <2>1, <2>2, DeliveryStutters
    <2>3. ASSUME NEW text, heard' = [heard EXCEPT ![conn] = text],
                 text # <<>> => client[conn] = "sent" /\ text = Padded(conn)
          PROVE  [Abstract!Next]_Abstract!vars
      <3>1. heard = [d \in Clients |-> heard[d]]
        BY DEF Mail, PerClient
      <3>2. CASE text = <<>>
        <4>1. heard' = heard
          BY <2>1, <2>3, <3>1, <3>2
        <4> QED
          BY <2>1, <4>1, DeliveryStutters
      <3>3. CASE text # <<>>
        <4>1. conn \in {d \in Clients : client[d] = "sent"}
          BY <2>1, <2>3, <3>3
        <4>2. [d \in Clients |-> Padded(d)][conn] = text
          BY <2>1, <2>3, <3>3
        <4>3. heard' = [heard EXCEPT ![conn] = [d \in Clients |-> Padded(d)][conn]]
          BY <2>3, <4>2
        <4>4. Abstract!Deliver(conn)
          BY <2>1, <4>1, <4>3 DEF Abstract!Deliver
        <4> QED
          BY <2>1, <4>4 DEF Abstract!Next
      <3> QED
        BY <3>2, <3>3
    <2> QED
      BY <1>7, <2>2, <2>3, Heard
  <1>8. ASSUME \/ Accept \/ SendServerHello \/ Close \/ CrashServer \/ UNCHANGED vars
               \/ \E n \in 0..LenBuff : WaitForRequest(n)
        PROVE  UNCHANGED Abstract!vars
    <2>1. UNCHANGED <<client, heard>>
      BY <1>8 DEF Accept, SendServerHello, Close, CrashServer, vars, WaitForRequest
    <2> QED
      BY <2>1, DeliveryStutters
  <1> QED
    BY <1>2, <1>3, <1>4, <1>5, <1>6, <1>7, <1>8 DEF Next, ServerWork, ClientWork

(* Handshake and message together do no more than Delivery says: what the  *)
(* server prints of a client is its message, after that was sent, and once *)
(* only.                                                                   *)
THEOREM ChannelDelivers == Spec => IsDelivery
  <1>1. TypeOK /\ Mail /\ Once /\ [Next]_vars => Once'
    BY OnceStep
  <1>2. TypeOK /\ Mail /\ Once /\ [Next]_vars => [Abstract!Next]_Abstract!vars
    BY DeliveryStep
  <1> QED
    BY MailInvariant, OnceInit, <1>1, DeliveryInit, <1>2, PTL DEF Spec, IsDelivery, Abstract!Spec

-----------------------------------------------------------------------------
(* Numbers are taken apart digit by digit.                                 *)
LEMMA RestRule ==
  ASSUME NEW v \in Nat
  PROVE  /\ Rest(v, 0) = v
         /\ \A n \in Nat : Rest(v, n) \in Nat
         /\ \A n \in Nat : Rest(v, n + 1) = Rest(v, n) \div Radix
  <1> DEFINE step == [k \in Nat |-> [x \in Nat |-> x \div Radix]]
             rest == CHOOSE rest : rest = [k \in Nat |-> IF k = 0 THEN v ELSE rest[k-1] \div Radix]
  <1>1. \A x \in Nat : x \div Radix \in Nat
    BY SizesAssumption
  <1>2. PICK f \in [Nat -> Nat] : NatFollows(f, v, step)
    <2>1. \A k \in Nat \ {0} : \A x \in Nat : step[k][x] \in Nat
      BY <1>1
    <2> HIDE DEF step
    <2> QED
      BY <2>1, NatRecursionExists, Zenon
  <1>3. f[0] = v /\ \A k \in Nat \ {0} : f[k] = f[k-1] \div Radix
    <2>1. ASSUME NEW k \in Nat \ {0}
          PROVE  f[k] = f[k-1] \div Radix
      <3>1. k \in Nat /\ f[k-1] \in Nat
        BY <1>2
      <3>2. step[k][f[k-1]] = f[k-1] \div Radix
        BY <3>1
      <3> HIDE DEF step
      <3> QED
        BY <1>2, <3>2 DEF NatFollows
    <2> QED
      BY <1>2, <2>1 DEF NatFollows
  <1>4. f = [k \in Nat |-> IF k = 0 THEN v ELSE f[k-1] \div Radix]
    BY <1>3
  <1>5. rest = [k \in Nat |-> IF k = 0 THEN v ELSE rest[k-1] \div Radix]
    BY <1>4
  <1>6. \A n \in Nat : Rest(v, n) = rest[n]
    BY DEF Rest
  <1> HIDE DEF rest
  <1>7. \A n \in Nat \ {0} : rest[n] = rest[n-1] \div Radix
    BY <1>5
  <1>8. rest[0] = v
    BY <1>5
  <1>9. \A n \in Nat : rest[n] \in Nat
    <2> DEFINE T == {n \in Nat : rest[n] \in Nat}
    <2>1. 0 \in T
      BY <1>8
    <2>2. \A n \in Nat : n \in T => n + 1 \in T
      BY <1>1, <1>7
    <2> HIDE DEF T
    <2>3. \A n \in Nat : n \in T
      BY <2>1, <2>2, SetInduction
    <2> QED
      BY <2>3 DEF T
  <1>10. \A n \in Nat : rest[n+1] = rest[n] \div Radix
    BY <1>7
  <1> QED
    BY <1>6, <1>8, <1>9, <1>10

(* More digits are enough where fewer are, and for smaller numbers.        *)
LEMMA RestIsMonotonic ==
  ASSUME NEW v \in Nat, NEW u \in Nat, v <= u
  PROVE  \A n \in Nat : Rest(v, n) <= Rest(u, n)
  <1> DEFINE T == {n \in Nat : Rest(v, n) <= Rest(u, n)}
  <1>1. 0 \in T
    BY RestRule
  <1>2. ASSUME NEW n \in Nat, n \in T
        PROVE  n + 1 \in T
    <2>1. /\ Rest(v, n) \in Nat /\ Rest(u, n) \in Nat /\ Rest(v, n) <= Rest(u, n)
          /\ Rest(v, n + 1) = Rest(v, n) \div Radix /\ Rest(u, n + 1) = Rest(u, n) \div Radix
      <3>1. n + 1 \in Nat /\ Rest(v, n) <= Rest(u, n)
        BY <1>2
      <3> QED
        BY <3>1, RestRule
    <2>2. \A x, y \in Nat : x <= y => x \div Radix <= y \div Radix
      <3>1. Radix \in Nat \ {0}
        BY SizesAssumption
      <3>2. ASSUME NEW x \in Nat, NEW y \in Nat, x <= y
            PROVE  x \div Radix <= y \div Radix
        BY <3>1, <3>2
      <3> QED
        BY <3>2
    <2> QED
      BY <2>1, <2>2
  <1> HIDE DEF T
  <1>3. \A n \in Nat : n \in T
    BY <1>1, <1>2, SetInduction
  <1> QED
    BY <1>3 DEF T

LEMMA WordsFit ==
  ASSUME NEW v \in 0..Words-1
  PROVE  Fits(v, WordDigits)
  <1>1. Words \in Nat \ {0} /\ WordDigits \in Nat /\ Words - 1 \in Nat /\ v \in Nat /\ v <= Words - 1
    BY SizesAssumption, BlockAssumption
  <1>2. Rest(v, WordDigits) <= Rest(Words - 1, WordDigits) /\ Rest(v, WordDigits) \in Nat
    BY <1>1, RestIsMonotonic, RestRule
  <1> QED
    BY <1>1, <1>2, WordsAssumption DEF Fits

(* Lengths have two digits in a hello, and three in front of a message.    *)
LEMMA LengthsFit ==
  ASSUME NEW v \in Nat
  PROVE  /\ v < Radix * Radix => Fits(v, 2)
         /\ v < Radix * Radix * Radix => Fits(v, 3)
  <1>1. Radix \in Nat \ {0}
    BY SizesAssumption
  <1>2. Rest(v, 1) = v \div Radix /\ Rest(v, 2) = Rest(v, 1) \div Radix /\ Rest(v, 3) = Rest(v, 2) \div Radix
    BY RestRule
  <1>3. ASSUME NEW x \in Nat, NEW y \in Nat, x < y * Radix
        PROVE  x \div Radix < y /\ x \div Radix \in Nat
    <2>1. x = (Radix * (x \div Radix)) + (x % Radix) /\ x % Radix \in 0..Radix-1 /\ x \div Radix \in Nat
      BY <1>1
    <2>2. Radix * (x \div Radix) < Radix * y
      BY <1>1, <1>3, <2>1
    <2> QED
      BY <1>1, <2>1, <2>2
  <1>4. ASSUME v < Radix * Radix
        PROVE  Fits(v, 2)
    <2>1. v \div Radix < Radix /\ v \div Radix \in Nat
      BY <1>1, <1>3, <1>4
    <2>2. (v \div Radix) \div Radix = 0
      BY <1>1, <2>1
    <2> QED
      BY <1>2, <2>2 DEF Fits
  <1>5. ASSUME v < Radix * Radix * Radix
        PROVE  Fits(v, 3)
    <2>1. v \div Radix < Radix * Radix /\ v \div Radix \in Nat /\ Radix * Radix \in Nat
      BY <1>1, <1>3, <1>5
    <2>2. (v \div Radix) \div Radix < Radix /\ (v \div Radix) \div Radix \in Nat
      BY <1>1, <1>3, <2>1
    <2>3. ((v \div Radix) \div Radix) \div Radix = 0
      BY <1>1, <2>2
    <2> QED
      BY <1>2, <2>3 DEF Fits
  <1> QED
    BY <1>4, <1>5
-----------------------------------------------------------------------------
(* A number stands at i in n characters.                                   *)
StandsAt(buffer, i, v, n) == \A t \in 1..n : buffer[i + t - 1] = Digits(v, n)[t]

(* And then strtoul finds it there.                                        *)
LEMMA NumberRead ==
  ASSUME NEW buffer, NEW i \in Nat, NEW n \in Nat, NEW v, Fits(v, n), StandsAt(buffer, i, v, n)
  PROVE  Number(buffer, i, i + n - 1) = v
  <1> DEFINE j == i + n - 1
             f == [k \in i-1..j |-> Rest(v, j - k)]
             next(g, k) == IF k < i THEN 0
                           ELSE IF \A l \in i..k : buffer[l].is = "digit"
                                THEN g[k-1] * Radix + buffer[k].v[1]
                                ELSE g[k-1]
             value == CHOOSE value : value = [k \in i-1..j |-> next(value, k)]
  <1>1. v \in Nat /\ Rest(v, n) = 0 /\ Radix \in Nat \ {0} /\ j \in Int
    BY SizesAssumption DEF Fits
  <1>2. ASSUME NEW k \in i..j
        PROVE  /\ buffer[k].is = "digit"
               /\ Rest(v, (j - k) + 1) * Radix + buffer[k].v[1] = Rest(v, j - k)
    <2>1. /\ k - i + 1 \in 1..n /\ i + (k - i + 1) - 1 = k /\ n - (k - i + 1) = j - k
          /\ j - k \in Nat
      OBVIOUS
    <2>2. buffer[k] = Digits(v, n)[k - i + 1]
      <3>1. buffer[i + (k - i + 1) - 1] = Digits(v, n)[k - i + 1]
        BY <2>1 DEF StandsAt
      <3> QED
        BY <2>1, <3>1
    <2>3. buffer[k] = Digit(Rest(v, j - k) % Radix)
      <3>1. Digits(v, n)[k - i + 1] = Digit(Rest(v, n - (k - i + 1)) % Radix)
        BY <2>1 DEF Digits
      <3> QED
        BY <2>1, <2>2, <3>1
    <2>4. buffer[k].is = "digit" /\ buffer[k].v[1] = Rest(v, j - k) % Radix
      BY <2>3 DEF Digit
    <2>5. Rest(v, j - k) \in Nat /\ Rest(v, (j - k) + 1) = Rest(v, j - k) \div Radix
      BY <1>1, <2>1, RestRule
    <2>6. \A x \in Nat : (x \div Radix) * Radix + (x % Radix) = x
      BY <1>1
    <2> QED
      BY <2>4, <2>5, <2>6
  <1>3. ASSUME NEW g, g = [k \in i-1..j |-> next(g, k)]
        PROVE  /\ g[i-1] = 0
               /\ \A k \in i..j : g[k] = g[k-1] * Radix + buffer[k].v[1]
    <2>1. g[i-1] = 0
      <3>1. i - 1 \in i-1..j /\ i - 1 < i
        OBVIOUS
      <3> QED
        BY <1>3, <3>1
    <2>2. ASSUME NEW k \in i..j
          PROVE  g[k] = g[k-1] * Radix + buffer[k].v[1]
      <3>1. k \in i-1..j /\ ~(k < i)
        OBVIOUS
      <3>2. \A l \in i..k : buffer[l].is = "digit"
        BY <1>2
      <3> QED
        BY <1>3, <3>1, <3>2
    <2> QED
      BY <2>1, <2>2
  <1>4. f = [k \in i-1..j |-> next(f, k)]
    <2>1. ASSUME NEW k \in i-1..j
          PROVE  f[k] = next(f, k)
      <3>1. CASE k < i
        <4>1. k = i - 1 /\ j - k = n
          BY <3>1
        <4> QED
          BY <1>1, <3>1, <4>1
      <3>2. CASE ~(k < i)
        <4>1. k \in i..j /\ k - 1 \in i-1..j /\ j - (k - 1) = (j - k) + 1
          BY <3>2
        <4>2. f[k-1] = Rest(v, (j - k) + 1) /\ f[k] = Rest(v, j - k)
          BY <4>1
        <4>3. \A l \in i..k : buffer[l].is = "digit"
          BY <1>2
        <4> HIDE DEF f
        <4>4. next(f, k) = f[k-1] * Radix + buffer[k].v[1]
          BY <3>2, <4>3
        <4> QED
          BY <1>2, <4>1, <4>2, <4>4
      <3> QED
        BY <3>1, <3>2
    <2> QED
      BY <2>1
  <1> HIDE DEF f, next
  <1>5. value = [k \in i-1..j |-> next(value, k)]
    BY <1>4
  <1> HIDE DEF value
  <1>6. \A k \in i-1..j : value[k] = Rest(v, j - k)
    <2> DEFINE T == {k \in i-1..j : value[k] = Rest(v, j - k)}
    <2>1. i - 1 \in T
      <3>1. j - (i - 1) = n /\ i - 1 \in i-1..j
        OBVIOUS
      <3> QED
        BY <1>1, <1>3, <1>5, <3>1
    <2>2. ASSUME NEW k \in i-1..j-1, k \in T
          PROVE  k + 1 \in T
      <3>1. k + 1 \in i..j /\ (k + 1) - 1 = k /\ j - k = (j - (k + 1)) + 1 /\ k + 1 \in i-1..j
        BY <1>1
      <3>2. value[k+1] = value[(k+1)-1] * Radix + buffer[k+1].v[1]
        BY <1>3, <1>5, <3>1
      <3>3. Rest(v, (j - (k+1)) + 1) * Radix + buffer[k+1].v[1] = Rest(v, j - (k+1))
        BY <1>2, <3>1
      <3>4. value[k] = Rest(v, j - k)
        BY <2>2
      <3> QED
        BY <3>1, <3>2, <3>3, <3>4
    <2> HIDE DEF T
    <2>3. \A k \in i-1..j : k \in T
      <3>1. i - 1 \in Int /\ j \in Int
        OBVIOUS
      <3> QED
        BY <2>1, <2>2, <3>1, RangeInduction
    <2> QED
      BY <2>3 DEF T
  <1>7. value[j] = v
    <2>1. j \in i-1..j /\ j - j = 0
      OBVIOUS
    <2>2. value[j] = Rest(v, j - j)
      BY <1>6, <2>1
    <2>3. Rest(v, 0) = v
      BY <1>1, RestRule
    <2> QED
      BY <2>1, <2>2, <2>3
  <1> QED
    BY <1>7 DEF Number, value, next
-----------------------------------------------------------------------------
(* The layout of a hello *)

LEMMA Halves ==
  /\ WordDigits \in Nat \ {0} /\ WordDigits \div 2 \in Nat \ {0} /\ WordDigits \div 4 \in Nat \ {0}
  /\ WordDigits = 2 * (WordDigits \div 2) /\ WordDigits \div 2 = 2 * (WordDigits \div 4)
  /\ KeyWords \in Nat \ {0} /\ KeyWords * WordDigits \in Nat \ {0}
  /\ WordDigits <= KeyWords * WordDigits
  <1>1. WordDigits \in Nat \ {0} /\ WordDigits % 4 = 0 /\ KeyWords \in Nat \ {0}
    BY SizesAssumption
  <1>2. WordDigits = 4 * (WordDigits \div 4)
    BY <1>1
  <1>3. KeyWords * WordDigits \in Nat \ {0} /\ WordDigits <= KeyWords * WordDigits
    BY <1>1
  <1> QED
    BY <1>1, <1>2, <1>3

(* A number stands at i in n characters within a sequence.                 *)
Field(s, i, v, n) == i \in Nat \ {0} /\ n \in Nat /\ i + n - 1 <= Len(s) /\ StandsAt(s, i, v, n)

LEMMA JoinedFields ==
  ASSUME NEW s, NEW t, Sequence(s), Sequence(t), NEW i, NEW v, NEW n
  PROVE  /\ Field(s, i, v, n) => Field(s \o t, i, v, n)
         /\ Field(t, i, v, n) => Field(s \o t, Len(s) + i, v, n)
  <1>1. Len(s) \in Nat /\ Len(t) \in Nat
    BY DEF Sequence
  <1>2. /\ Len(s \o t) = Len(s) + Len(t)
        /\ \A k \in 1..Len(s) : (s \o t)[k] = s[k]
        /\ \A k \in 1..Len(s \o t) :
             \/ k \in 1..Len(s) /\ (s \o t)[k] = s[k]
             \/ k - Len(s) \in 1..Len(t) /\ (s \o t)[k] = t[k - Len(s)]
    BY JoinedIsSequence
  <1>3. ASSUME Field(s, i, v, n)
        PROVE  Field(s \o t, i, v, n)
    <2>1. i \in Nat \ {0} /\ n \in Nat /\ i + n - 1 <= Len(s)
      BY <1>3 DEF Field
    <2>2. \A k \in 1..n : i + k - 1 \in 1..Len(s)
      BY <1>1, <2>1
    <2>3. StandsAt(s \o t, i, v, n)
      BY <1>2, <1>3, <2>2 DEF Field, StandsAt
    <2> QED
      BY <1>1, <1>2, <2>1, <2>3 DEF Field
  <1>4. ASSUME Field(t, i, v, n)
        PROVE  Field(s \o t, Len(s) + i, v, n)
    <2>1. i \in Nat \ {0} /\ n \in Nat /\ i + n - 1 <= Len(t)
      BY <1>4 DEF Field
    <2>2. ASSUME NEW k \in 1..n
          PROVE  (s \o t)[(Len(s) + i) + k - 1] = Digits(v, n)[k]
      <3>1. /\ (Len(s) + i) + k - 1 \in 1..Len(s \o t)
            /\ ~((Len(s) + i) + k - 1 \in 1..Len(s))
            /\ ((Len(s) + i) + k - 1) - Len(s) = i + k - 1
        BY <1>1, <1>2, <2>1
      <3>2. (s \o t)[(Len(s) + i) + k - 1] = t[i + k - 1]
        BY <1>2, <3>1
      <3> QED
        BY <1>4, <3>2 DEF Field, StandsAt
    <2>3. Len(s) + i \in Nat \ {0} /\ (Len(s) + i) + n - 1 <= Len(s \o t)
      BY <1>1, <1>2, <2>1
    <2> QED
      BY <2>1, <2>2, <2>3 DEF Field, StandsAt
  <1> QED
    BY <1>3, <1>4

LEMMA DigitsField ==
  ASSUME NEW v, NEW n \in Nat
  PROVE  Sequence(Digits(v, n)) /\ Len(Digits(v, n)) = n /\ Field(Digits(v, n), 1, v, n)
  <1>1. Sequence(Digits(v, n)) /\ Len(Digits(v, n)) = n
    BY DigitsNoTag DEF NoTag
  <1>2. \A t \in 1..n : 1 + t - 1 = t
    OBVIOUS
  <1>3. StandsAt(Digits(v, n), 1, v, n)
    BY <1>2 DEF StandsAt
  <1> QED
    BY <1>1, <1>3 DEF Field

(* A chunk: its length, and what stands in it, two places on               *)
LEMMA ChunkFields ==
  ASSUME NEW s, Sequence(s)
  PROVE  /\ Sequence(Chunk(s)) /\ Len(Chunk(s)) = Len(s) + 2
         /\ Field(Chunk(s), 1, Len(s), 2)
         /\ \A i, v, n : Field(s, i, v, n) => Field(Chunk(s), 2 + i, v, n)
  <1> DEFINE head == Digits(Len(s), 2)
  <1>1. Sequence(head) /\ Len(head) = 2 /\ Field(head, 1, Len(s), 2) /\ Len(s) \in Nat
    BY DigitsField DEF Sequence
  <1>2. Chunk(s) = head \o s
    BY DEF Chunk
  <1> HIDE DEF head
  <1>3. Sequence(head \o s) /\ Len(head \o s) = Len(head) + Len(s)
    BY <1>1, JoinedIsSequence
  <1>4. Len(head \o s) = Len(s) + 2
    BY <1>1, <1>3
  <1>5. Field(head \o s, 1, Len(s), 2)
    BY <1>1, JoinedFields
  <1>6. \A i, v, n : Field(s, i, v, n) => Field(head \o s, 2 + i, v, n)
    BY <1>1, JoinedFields
  <1> QED
    BY <1>2, <1>3, <1>4, <1>5, <1>6

LEMMA NumberChunk ==
  ASSUME NEW v, NEW n \in Nat
  PROVE  /\ Sequence(Chunk(Digits(v, n))) /\ Len(Chunk(Digits(v, n))) = n + 2
         /\ Field(Chunk(Digits(v, n)), 1, n, 2) /\ Field(Chunk(Digits(v, n)), 3, v, n)
  <1>1. Sequence(Digits(v, n)) /\ Len(Digits(v, n)) = n /\ Field(Digits(v, n), 1, v, n)
    BY DigitsField
  <1>2. Field(Chunk(Digits(v, n)), 2 + 1, v, n)
    BY <1>1, ChunkFields
  <1> QED
    BY <1>1, <1>2, ChunkFields

LEMMA PairChunk ==
  ASSUME NEW v, NEW u, NEW n \in Nat
  PROVE  LET pair == Chunk(Digits(v, n) \o Digits(u, n))
         IN  /\ Sequence(pair) /\ Len(pair) = 2 * n + 2
             /\ Field(pair, 1, 2 * n, 2) /\ Field(pair, 3, v, n) /\ Field(pair, 3 + n, u, n)
  <1> DEFINE s == Digits(v, n)
             t == Digits(u, n)
  <1>1. /\ Sequence(s) /\ Len(s) = n /\ Field(s, 1, v, n)
        /\ Sequence(t) /\ Len(t) = n /\ Field(t, 1, u, n)
    BY DigitsField
  <1> HIDE DEF s, t
  <1>2. Sequence(s \o t) /\ Len(s \o t) = 2 * n
    <2>1. Sequence(s \o t) /\ Len(s \o t) = Len(s) + Len(t)
      BY <1>1, JoinedIsSequence
    <2> QED
      BY <1>1, <2>1
  <1>3. Field(s \o t, 1, v, n) /\ Field(s \o t, n + 1, u, n)
    BY <1>1, JoinedFields
  <1>4. /\ Sequence(Chunk(s \o t)) /\ Len(Chunk(s \o t)) = 2 * n + 2
        /\ Field(Chunk(s \o t), 1, 2 * n, 2)
        /\ Field(Chunk(s \o t), 2 + 1, v, n) /\ Field(Chunk(s \o t), 2 + (n + 1), u, n)
    BY <1>2, <1>3, ChunkFields
  <1>5. 2 + (n + 1) = 3 + n /\ 2 + 1 = 3
    OBVIOUS
  <1> QED
    BY <1>4, <1>5 DEF s, t

(* A key: word w in its place                                              *)
LEMMA KeyChunk ==
  ASSUME NEW key
  PROVE  LET chunk == Chunk(KeyDigits(key))
         IN  /\ Sequence(chunk) /\ Len(chunk) = KeyWords * WordDigits + 2
             /\ Field(chunk, 1, KeyWords * WordDigits, 2)
             /\ \A w \in 1..KeyWords : Field(chunk, 3 + (w - 1) * WordDigits, key[w], WordDigits)
  <1> DEFINE n == KeyWords * WordDigits
  <1>1. n \in Nat /\ WordDigits \in Nat \ {0} /\ KeyWords \in Nat \ {0}
    BY Halves
  <1>2. Sequence(KeyDigits(key)) /\ Len(KeyDigits(key)) = n
    <2>1. KeyDigits(key) = [i \in 1..n |-> KeyDigits(key)[i]]
      BY DEF KeyDigits
    <2> QED
      BY <1>1, <2>1, TableIsSequence
  <1>3. ASSUME NEW w \in 1..KeyWords
        PROVE  /\ (w - 1) * WordDigits \in Nat
               /\ Field(KeyDigits(key), (w - 1) * WordDigits + 1, key[w], WordDigits)
    <2> DEFINE i == (w - 1) * WordDigits + 1
    <2>1. (w - 1) * WordDigits \in Nat /\ i + WordDigits - 1 <= n
      <3>1. i + WordDigits - 1 = w * WordDigits /\ (w - 1) * WordDigits \in Nat
        BY <1>1
      <3>2. w * WordDigits <= KeyWords * WordDigits
        BY <1>1
      <3> QED
        BY <3>1, <3>2
    <2>2. ASSUME NEW t \in 1..WordDigits
          PROVE  KeyDigits(key)[i + t - 1] = Digits(key[w], WordDigits)[t]
      <3>1. i + t - 1 \in 1..n
        BY <1>1, <2>1
      <3>2. ((i + t - 1) - 1) \div WordDigits = w - 1 /\ ((i + t - 1) - 1) % WordDigits = t - 1
        <4>1. \A q, r \in Nat : r < WordDigits =>
                (q * WordDigits + r) \div WordDigits = q /\ (q * WordDigits + r) % WordDigits = r
          BY <1>1
        <4>2. (i + t - 1) - 1 = (w - 1) * WordDigits + (t - 1) /\ w - 1 \in Nat /\ t - 1 \in Nat /\ t - 1 < WordDigits
          BY <1>1, <2>1
        <4> HIDE DEF i
        <4> QED
          BY <4>1, <4>2
      <3>3. (w - 1) + 1 = w /\ (t - 1) + 1 = t
        OBVIOUS
      <3> HIDE DEF i
      <3> QED
        BY <3>1, <3>2, <3>3 DEF KeyDigits
    <2> QED
      BY <1>1, <1>2, <2>1, <2>2 DEF Field, StandsAt
  <1>4. \A w \in 1..KeyWords : Field(Chunk(KeyDigits(key)), 3 + (w - 1) * WordDigits, key[w], WordDigits)
    <2>1. ASSUME NEW w \in 1..KeyWords
          PROVE  Field(Chunk(KeyDigits(key)), 3 + (w - 1) * WordDigits, key[w], WordDigits)
      <3>1. Field(Chunk(KeyDigits(key)), 2 + ((w - 1) * WordDigits + 1), key[w], WordDigits)
        BY <1>2, <1>3, ChunkFields
      <3>2. 2 + ((w - 1) * WordDigits + 1) = 3 + (w - 1) * WordDigits
        BY <1>3
      <3> QED
        BY <3>1, <3>2
    <2> QED
      BY <2>1
  <1> QED
    BY <1>1, <1>2, <1>4, ChunkFields

(* The five chunks one behind the other                                    *)
LEMMA HelloLayout ==
  ASSUME NEW h
  PROVE  LET text == HelloText(h)
             second == 2 + WordDigits
             short == 2 + (WordDigits \div 2)
             half == WordDigits \div 2
             byte == WordDigits \div 4
         IN  /\ Sequence(text) /\ Len(text) = second + 3 * short + 2 + KeyWords * WordDigits
             /\ Field(text, 1, WordDigits, 2) /\ Field(text, 3, h.random, WordDigits)
             /\ Field(text, second + 1, half, 2)
             /\ Field(text, second + 3, h.cipher[1], byte)
             /\ Field(text, second + 3 + byte, h.cipher[2], byte)
             /\ Field(text, second + short + 1, half, 2)
             /\ Field(text, second + short + 3, h.group, half)
             /\ Field(text, second + 2 * short + 1, half, 2)
             /\ Field(text, second + 2 * short + 3, h.signature, half)
             /\ Field(text, second + 3 * short + 1, KeyWords * WordDigits, 2)
             /\ \A w \in 1..KeyWords :
                  Field(text, second + 3 * short + 3 + (w - 1) * WordDigits, h.key[w], WordDigits)
  <1> DEFINE second == 2 + WordDigits
             short == 2 + (WordDigits \div 2)
             half == WordDigits \div 2
             byte == WordDigits \div 4
             c0 == Chunk(Digits(h.random, WordDigits))
             c1 == Chunk(Digits(h.cipher[1], byte) \o Digits(h.cipher[2], byte))
             c2 == Chunk(Digits(h.group, half))
             c3 == Chunk(Digits(h.signature, half))
             c4 == Chunk(KeyDigits(h.key))
  <1>1. /\ second \in Nat /\ short \in Nat /\ half \in Nat /\ byte \in Nat /\ WordDigits \in Nat
        /\ half = 2 * byte /\ KeyWords * WordDigits \in Nat
        /\ second = WordDigits + 2 /\ short = half + 2
    BY Halves
  <1>2. /\ Sequence(c0) /\ Len(c0) = second
        /\ Field(c0, 1, WordDigits, 2) /\ Field(c0, 3, h.random, WordDigits)
    BY <1>1, NumberChunk
  <1>3. /\ Sequence(c1) /\ Len(c1) = short
        /\ Field(c1, 1, half, 2) /\ Field(c1, 3, h.cipher[1], byte) /\ Field(c1, 3 + byte, h.cipher[2], byte)
    BY <1>1, PairChunk
  <1>4. /\ Sequence(c2) /\ Len(c2) = short /\ Field(c2, 1, half, 2) /\ Field(c2, 3, h.group, half)
    BY <1>1, NumberChunk
  <1>5. /\ Sequence(c3) /\ Len(c3) = short /\ Field(c3, 1, half, 2) /\ Field(c3, 3, h.signature, half)
    BY <1>1, NumberChunk
  <1>6. /\ Sequence(c4) /\ Len(c4) = KeyWords * WordDigits + 2
        /\ Field(c4, 1, KeyWords * WordDigits, 2)
        /\ \A w \in 1..KeyWords : Field(c4, 3 + (w - 1) * WordDigits, h.key[w], WordDigits)
    BY KeyChunk
  <1>7. HelloText(h) = c0 \o c1 \o c2 \o c3 \o c4
    BY DEF HelloText
  <1> HIDE DEF second, short, half, byte, c0, c1, c2, c3, c4
  <1>8. /\ Sequence(c0 \o c1) /\ Len(c0 \o c1) = second + short
        /\ Field(c0 \o c1, 1, WordDigits, 2) /\ Field(c0 \o c1, 3, h.random, WordDigits)
        /\ Field(c0 \o c1, second + 1, half, 2)
        /\ Field(c0 \o c1, second + 3, h.cipher[1], byte)
        /\ Field(c0 \o c1, second + (3 + byte), h.cipher[2], byte)
    BY <1>2, <1>3, JoinedIsSequence, JoinedFields
  <1>9. /\ Sequence(c0 \o c1 \o c2) /\ Len(c0 \o c1 \o c2) = second + short + short
        /\ Field(c0 \o c1 \o c2, 1, WordDigits, 2) /\ Field(c0 \o c1 \o c2, 3, h.random, WordDigits)
        /\ Field(c0 \o c1 \o c2, second + 1, half, 2)
        /\ Field(c0 \o c1 \o c2, second + 3, h.cipher[1], byte)
        /\ Field(c0 \o c1 \o c2, second + (3 + byte), h.cipher[2], byte)
        /\ Field(c0 \o c1 \o c2, (second + short) + 1, half, 2)
        /\ Field(c0 \o c1 \o c2, (second + short) + 3, h.group, half)
    BY <1>4, <1>8, JoinedIsSequence, JoinedFields
  <1> DEFINE front == c0 \o c1 \o c2 \o c3
  <1>10. /\ Sequence(front) /\ Len(front) = second + short + short + short
         /\ Field(front, 1, WordDigits, 2) /\ Field(front, 3, h.random, WordDigits)
         /\ Field(front, second + 1, half, 2)
         /\ Field(front, second + 3, h.cipher[1], byte)
         /\ Field(front, second + (3 + byte), h.cipher[2], byte)
         /\ Field(front, (second + short) + 1, half, 2)
         /\ Field(front, (second + short) + 3, h.group, half)
         /\ Field(front, (second + short + short) + 1, half, 2)
         /\ Field(front, (second + short + short) + 3, h.signature, half)
    BY <1>5, <1>9, JoinedIsSequence, JoinedFields
  <1>11. HelloText(h) = front \o c4
    BY <1>7
  <1> HIDE DEF front
  <1> DEFINE text == HelloText(h)
  <1>12. Sequence(text) /\ Len(text) = Len(front) + Len(c4)
    BY <1>6, <1>10, <1>11, JoinedIsSequence
  <1>13. /\ Field(text, 1, WordDigits, 2) /\ Field(text, 3, h.random, WordDigits)
         /\ Field(text, second + 1, half, 2)
         /\ Field(text, second + 3, h.cipher[1], byte)
         /\ Field(text, second + (3 + byte), h.cipher[2], byte)
         /\ Field(text, (second + short) + 1, half, 2)
         /\ Field(text, (second + short) + 3, h.group, half)
         /\ Field(text, (second + short + short) + 1, half, 2)
         /\ Field(text, (second + short + short) + 3, h.signature, half)
    BY <1>6, <1>10, <1>11, JoinedFields
  <1>14. /\ Field(text, Len(front) + 1, KeyWords * WordDigits, 2)
         /\ \A w \in 1..KeyWords : Field(text, Len(front) + (3 + (w - 1) * WordDigits), h.key[w], WordDigits)
    BY <1>6, <1>10, <1>11, JoinedFields
  <1> HIDE DEF text
  <1>15. /\ Len(text) = second + 3 * short + 2 + KeyWords * WordDigits
         /\ second + (3 + byte) = second + 3 + byte
         /\ (second + short + short) + 1 = second + 2 * short + 1
         /\ (second + short + short) + 3 = second + 2 * short + 3
         /\ Len(front) + 1 = second + 3 * short + 1
    BY <1>1, <1>6, <1>10, <1>12
  <1>16. ASSUME NEW w \in 1..KeyWords
         PROVE  Field(text, second + 3 * short + 3 + (w - 1) * WordDigits, h.key[w], WordDigits)
    <2>1. (w - 1) * WordDigits \in Nat
      BY <1>1
    <2>2. Len(front) + (3 + (w - 1) * WordDigits) = second + 3 * short + 3 + (w - 1) * WordDigits
      BY <1>1, <1>10, <2>1
    <2> QED
      BY <1>14, <2>2
  <1> QED
    BY <1>12, <1>13, <1>14, <1>15, <1>16 DEF second, short, half, byte, text
-----------------------------------------------------------------------------
(* Reading a hello *)

(* What a hello may hold, so that everything has the room it gets          *)
FitsHello(h) ==
  /\ Fits(h.random, WordDigits)
  /\ Fits(h.cipher[1], WordDigits \div 4) /\ Fits(h.cipher[2], WordDigits \div 4)
  /\ h.cipher = <<h.cipher[1], h.cipher[2]>>
  /\ Fits(h.group, WordDigits \div 2) /\ Fits(h.signature, WordDigits \div 2)
  /\ h.key \in Keys

LEMMA HelloFits ==
  ASSUME NEW offer \in Offers, NEW key \in Keys
  PROVE  FitsHello(Hello(offer, key))
  <1>1. /\ Hello(offer, key).random = offer.random /\ Hello(offer, key).cipher = offer.cipher
        /\ Hello(offer, key).group = offer.group /\ Hello(offer, key).signature = offer.signature
        /\ Hello(offer, key).key = key
    BY DEF Hello
  <1> QED
    BY <1>1, OffersAssumption DEF FitsHello

(* What stands before the cut is found by the parser, whatever follows.    *)
LEMMA ParsedRight ==
  ASSUME NEW h, FitsHello(h), NEW buffer, NEW old, NEW m \in 0..LenBuff,
         \A i \in 1..m : buffer[i] = HelloText(h)[i]
  PROVE  RightUpTo(m, Parsed(buffer, old), h)
  <1> DEFINE text == HelloText(h)
             second == 2 + WordDigits
             short == 2 + (WordDigits \div 2)
             half == WordDigits \div 2
             byte == WordDigits \div 4
             all == KeyWords * WordDigits
             number == [i \in 1..LenBuff |-> [j \in 0..LenBuff |-> Number(buffer, i, j)]]
             next == [i \in 1..LenBuff |-> i + 2 + number[i][i+1]]
             start == CHOOSE start : start = [k \in 0..5 |-> IF k = 0 THEN 1 ELSE next[start[k-1]]]
             Reached(k) == \A l \in 1..k+1 : start[l] > start[l-1] + 2
             Part(k, from, to) == number[start[k] + 1 + from][start[k] + 1 + to]
             Size(k) == start[k+1] - start[k] - 2
             got == Parsed(buffer, old)
  <1>1. /\ second \in Nat \ {0} /\ short \in Nat \ {0} /\ half \in Nat \ {0} /\ byte \in Nat \ {0}
        /\ all \in Nat \ {0} /\ half = 2 * byte /\ WordDigits = 2 * half /\ WordDigits <= all
        /\ second = WordDigits + 2 /\ short = half + 2 /\ LenBuff \in Nat
        /\ WordDigits \in Nat \ {0}
    BY Halves, SizesAssumption
  <1>2. Fits(WordDigits, 2) /\ Fits(half, 2) /\ Fits(all, 2)
    <2>1. all < Radix * Radix /\ Radix * Radix \in Nat
      BY SizesAssumption
    <2>2. WordDigits < Radix * Radix /\ half < Radix * Radix
      BY <1>1, <2>1
    <2> QED
      BY <1>1, <2>1, <2>2, LengthsFit
  <1>3. /\ Field(text, 1, WordDigits, 2) /\ Field(text, 3, h.random, WordDigits)
        /\ Field(text, second + 1, half, 2)
        /\ Field(text, second + 3, h.cipher[1], byte)
        /\ Field(text, second + 3 + byte, h.cipher[2], byte)
        /\ Field(text, second + short + 1, half, 2)
        /\ Field(text, second + short + 3, h.group, half)
        /\ Field(text, second + 2 * short + 1, half, 2)
        /\ Field(text, second + 2 * short + 3, h.signature, half)
        /\ Field(text, second + 3 * short + 1, all, 2)
        /\ \A w \in 1..KeyWords :
             Field(text, second + 3 * short + 3 + (w - 1) * WordDigits, h.key[w], WordDigits)
    BY HelloLayout
  <1>4. ASSUME NEW i, NEW v, NEW n \in Nat \ {0}, Field(text, i, v, n), Fits(v, n), i + n - 1 <= m
        PROVE  number[i][i + n - 1] = v
    <2>1. i \in 1..LenBuff /\ i + n - 1 \in 0..LenBuff /\ i \in Nat
      <3>1. i \in Nat \ {0}
        BY <1>4 DEF Field
      <3> QED
        BY <1>1, <1>4, <3>1
    <2>2. StandsAt(buffer, i, v, n)
      <3>1. \A t \in 1..n : i + t - 1 \in 1..m
        BY <1>4, <2>1
      <3> QED
        BY <1>4, <3>1 DEF Field, StandsAt
    <2>3. Number(buffer, i, i + n - 1) = v
      BY <1>4, <2>1, <2>2, NumberRead
    <2> QED
      BY <2>1, <2>3
  <1> HIDE DEF number
  <1>5. start[0] = 1 /\ \A k \in 1..5 : start[k] = next[start[k-1]]
    <2> DEFINE s1 == next[1]
               s2 == next[s1]
               s3 == next[s2]
               s4 == next[s3]
               s5 == next[s4]
               f == [k \in 0..5 |-> IF k = 0 THEN 1 ELSE IF k = 1 THEN s1 ELSE IF k = 2 THEN s2
                                    ELSE IF k = 3 THEN s3 ELSE IF k = 4 THEN s4 ELSE s5]
    <2> HIDE DEF next
    <2>1. f = [k \in 0..5 |-> IF k = 0 THEN 1 ELSE next[f[k-1]]]
      <3>1. f[0] = 1 /\ f[1] = s1 /\ f[2] = s2 /\ f[3] = s3 /\ f[4] = s4 /\ f[5] = s5
        OBVIOUS
      <3>2. ASSUME NEW k \in 0..5
            PROVE  f[k] = IF k = 0 THEN 1 ELSE next[f[k-1]]
        <4>1. k = 0 \/ k = 1 \/ k = 2 \/ k = 3 \/ k = 4 \/ k = 5
          OBVIOUS
        <4> HIDE DEF f
        <4> QED
          BY <3>1, <4>1
      <3> QED
        BY <3>2
    <2> HIDE DEF f
    <2>2. start = [k \in 0..5 |-> IF k = 0 THEN 1 ELSE next[start[k-1]]]
      BY <2>1
    <2> HIDE DEF start
    <2> QED
      BY <2>2
  <1> HIDE DEF start
  <1>6. ASSUME NEW k \in 1..5, NEW p, start[k-1] = p, NEW n, Field(text, p, n, 2), Fits(n, 2), p + 1 <= m
        PROVE  start[k] = p + 2 + n
    <2>1. p \in Nat \ {0} /\ p \in 1..LenBuff /\ p + 2 - 1 = p + 1
      BY <1>1, <1>6 DEF Field
    <2>2. number[p][p + 1] = n
      BY <1>4, <1>6, <2>1
    <2>3. next[p] = p + 2 + n
      BY <2>1, <2>2
    <2> HIDE DEF next
    <2> QED
      BY <1>5, <1>6, <2>3
  <1> HIDE DEF next
  <1> HIDE DEF text, second, short, half, byte, all
  <1>7. m >= 2 => start[1] = second + 1
    <2>1. m >= 2 => start[1] = 1 + 2 + WordDigits
      BY <1>2, <1>3, <1>5, <1>6
    <2> QED
      BY <1>1, <2>1
  <1>8. m >= second + 2 => start[1] = second + 1 /\ start[2] = second + short + 1
    <2>1. m >= second + 2 => start[1] = second + 1
      BY <1>1, <1>7
    <2>2. m >= second + 2 => start[2] = (second + 1) + 2 + half
      <3>1. (second + 1) + 1 = second + 2
        BY <1>1
      <3> QED
        BY <1>2, <1>3, <1>6, <2>1, <3>1
    <2> QED
      BY <1>1, <2>1, <2>2
  <1>9. m >= second + short + 2 => start[3] = second + 2 * short + 1 /\ m >= second + 2
    <2>1. m >= second + short + 2 => start[2] = second + short + 1 /\ m >= second + 2
      BY <1>1, <1>8
    <2>2. (second + short + 1) + 1 = second + short + 2
      BY <1>1
    <2>3. m >= second + short + 2 => start[3] = (second + short + 1) + 2 + half
      BY <1>2, <1>3, <1>6, <2>1, <2>2
    <2> QED
      BY <1>1, <2>1, <2>3
  <1>10. m >= second + 2 * short + 2 => start[4] = second + 3 * short + 1 /\ m >= second + short + 2
    <2>1. m >= second + 2 * short + 2 => start[3] = second + 2 * short + 1 /\ m >= second + short + 2
      BY <1>1, <1>9
    <2>2. (second + 2 * short + 1) + 1 = second + 2 * short + 2
      BY <1>1
    <2>3. m >= second + 2 * short + 2 => start[4] = (second + 2 * short + 1) + 2 + half
      BY <1>2, <1>3, <1>6, <2>1, <2>2
    <2> QED
      BY <1>1, <2>1, <2>3
  <1>11. m >= second + 3 * short + 2 => start[5] = second + 3 * short + 3 + all /\ m >= second + 2 * short + 2
    <2>1. m >= second + 3 * short + 2 => start[4] = second + 3 * short + 1 /\ m >= second + 2 * short + 2
      BY <1>1, <1>10
    <2>2. (second + 3 * short + 1) + 1 = second + 3 * short + 2
      BY <1>1
    <2>3. m >= second + 3 * short + 2 => start[5] = (second + 3 * short + 1) + 2 + all
      BY <1>2, <1>3, <1>6, <2>1, <2>2
    <2> QED
      BY <1>1, <2>1, <2>3
  <1>12. /\ got.random = IF Reached(0) THEN Part(0, 1, Size(0)) ELSE old.random
         /\ got.cipher = IF Reached(1) THEN <<Part(1, 1, byte), Part(1, byte + 1, 2 * byte)>> ELSE old.cipher
         /\ got.group = IF Reached(2) THEN Part(2, 1, Size(2)) ELSE old.group
         /\ got.signature = IF Reached(3) THEN Part(3, 1, Size(3)) ELSE old.signature
    BY DEF Parsed, start, next, number, byte
  <1>13. \A w \in 1..KeyWords :
           got.key[w] =
             LET j == LeftAfter(w)
                 from == Size(4) - j - WordDigits + 1
             IN  IF Reached(4) /\ j < Size(4)
                 THEN Part(4, IF from < 1 THEN 1 ELSE from, Size(4) - j) ELSE old.key[w]
    BY DEF Parsed, start, next, number
  <1> HIDE DEF got
  <1>14. start[0] = 1
    BY <1>5
  <1>15. ASSUME m >= second
         PROVE  got.random = h.random
    <2>1. start[1] = second + 1
      BY <1>1, <1>7, <1>15
    <2>2. Reached(0)
      BY <1>1, <1>14, <2>1
    <2>3. Part(0, 1, Size(0)) = number[3][3 + WordDigits - 1]
      <3>1. Size(0) = WordDigits
        BY <1>1, <1>14, <2>1
      <3>2. start[0] + 1 + 1 = 3 /\ start[0] + 1 + WordDigits = 3 + WordDigits - 1
        BY <1>1, <1>14
      <3> QED
        BY <3>1, <3>2
    <2>4. number[3][3 + WordDigits - 1] = h.random
      <3>1. 3 + WordDigits - 1 <= m
        BY <1>1, <1>15
      <3> QED
        BY <1>1, <1>3, <1>4, <3>1 DEF FitsHello
    <2> QED
      BY <1>12, <2>2, <2>3, <2>4
  <1>16. ASSUME m >= second + short
         PROVE  got.cipher = h.cipher
    <2>1. start[1] = second + 1 /\ start[2] = second + short + 1
      BY <1>1, <1>8, <1>16
    <2>2. Reached(1)
      <3>1. start[1] > start[0] + 2 /\ start[2] > start[1] + 2
        BY <1>1, <1>14, <2>1
      <3>2. \A l \in 1..1+1 : l = 1 \/ l = 2
        OBVIOUS
      <3> QED
        BY <3>1, <3>2
    <2>3. /\ start[1] + 1 + 1 = second + 3 /\ start[1] + 1 + byte = second + 3 + byte - 1
          /\ start[1] + 1 + (byte + 1) = second + 3 + byte
          /\ start[1] + 1 + 2 * byte = (second + 3 + byte) + byte - 1
          /\ second + 3 + byte - 1 <= m /\ (second + 3 + byte) + byte - 1 <= m
      BY <1>1, <1>16, <2>1
    <2>4. number[second + 3][second + 3 + byte - 1] = h.cipher[1]
      BY <1>1, <1>3, <1>4, <2>3 DEF FitsHello, byte
    <2>5. number[second + 3 + byte][(second + 3 + byte) + byte - 1] = h.cipher[2]
      BY <1>1, <1>3, <1>4, <2>3 DEF FitsHello, byte
    <2>6. Part(1, 1, byte) = h.cipher[1] /\ Part(1, byte + 1, 2 * byte) = h.cipher[2]
      BY <2>3, <2>4, <2>5
    <2>7. h.cipher = <<h.cipher[1], h.cipher[2]>>
      BY DEF FitsHello
    <2> HIDE DEF Reached, Part
    <2> QED
      BY <1>12, <2>2, <2>6, <2>7
  <1>17. ASSUME m >= second + 2 * short
         PROVE  got.group = h.group
    <2>1. start[1] = second + 1 /\ start[2] = second + short + 1 /\ start[3] = second + 2 * short + 1
      BY <1>1, <1>8, <1>9, <1>17
    <2>2. Reached(2)
      <3>1. start[1] > start[0] + 2 /\ start[2] > start[1] + 2 /\ start[3] > start[2] + 2
        BY <1>1, <1>14, <2>1
      <3>2. \A l \in 1..2+1 : l = 1 \/ l = 2 \/ l = 3
        OBVIOUS
      <3> QED
        BY <3>1, <3>2
    <2>3. /\ Size(2) = half /\ start[2] + 1 + 1 = second + short + 3
          /\ start[2] + 1 + half = (second + short + 3) + half - 1
          /\ (second + short + 3) + half - 1 <= m
      BY <1>1, <1>17, <2>1
    <2>4. number[second + short + 3][(second + short + 3) + half - 1] = h.group
      BY <1>1, <1>3, <1>4, <2>3 DEF FitsHello, half
    <2>5. Part(2, 1, Size(2)) = h.group
      BY <2>3, <2>4
    <2> HIDE DEF Reached, Part, Size
    <2> QED
      BY <1>12, <2>2, <2>5
  <1>18. ASSUME m >= second + 3 * short
         PROVE  got.signature = h.signature
    <2>1. /\ start[1] = second + 1 /\ start[2] = second + short + 1 /\ start[3] = second + 2 * short + 1
          /\ start[4] = second + 3 * short + 1
      BY <1>1, <1>8, <1>9, <1>10, <1>18
    <2>2. Reached(3)
      <3>1. /\ start[1] > start[0] + 2 /\ start[2] > start[1] + 2 /\ start[3] > start[2] + 2
            /\ start[4] > start[3] + 2
        BY <1>1, <1>14, <2>1
      <3>2. \A l \in 1..3+1 : l = 1 \/ l = 2 \/ l = 3 \/ l = 4
        OBVIOUS
      <3> QED
        BY <3>1, <3>2
    <2>3. /\ Size(3) = half /\ start[3] + 1 + 1 = second + 2 * short + 3
          /\ start[3] + 1 + half = (second + 2 * short + 3) + half - 1
          /\ (second + 2 * short + 3) + half - 1 <= m
      BY <1>1, <1>18, <2>1
    <2>4. number[second + 2 * short + 3][(second + 2 * short + 3) + half - 1] = h.signature
      BY <1>1, <1>3, <1>4, <2>3 DEF FitsHello, half
    <2>5. Part(3, 1, Size(3)) = h.signature
      BY <2>3, <2>4
    <2> HIDE DEF Reached, Part, Size
    <2> QED
      BY <1>12, <2>2, <2>5
  <1>19. ASSUME NEW w \in 1..KeyWords, m >= second + 3 * short + 2 + w * WordDigits
         PROVE  got.key[w] = h.key[w]
    <2> DEFINE before == (w - 1) * WordDigits
               i == second + 3 * short + 3 + before
    <2>1. /\ before \in Nat /\ w * WordDigits = before + WordDigits
          /\ LeftAfter(w) = all - (before + WordDigits) /\ before + WordDigits <= all
      <3>1. w \in Nat /\ KeyWords \in Nat /\ 1 <= w /\ w <= KeyWords
        BY Halves
      <3>2. before \in Nat /\ w * WordDigits = before + WordDigits
        BY <1>1, <3>1
      <3>3. w * WordDigits <= KeyWords * WordDigits /\ (KeyWords - w) * WordDigits = KeyWords * WordDigits - w * WordDigits
        BY <1>1, <3>1
      <3> HIDE DEF before
      <3>4. LeftAfter(w) = KeyWords * WordDigits - w * WordDigits
        BY <3>3 DEF LeftAfter
      <3> QED
        BY <3>2, <3>3, <3>4 DEF all
    <2> HIDE DEF before
    <2>2. m >= second + 3 * short + 2 /\ i + WordDigits - 1 <= m
      BY <1>1, <1>19, <2>1
    <2>3. /\ start[1] = second + 1 /\ start[2] = second + short + 1 /\ start[3] = second + 2 * short + 1
          /\ start[4] = second + 3 * short + 1 /\ start[5] = second + 3 * short + 3 + all
      BY <1>1, <1>8, <1>9, <1>10, <1>11, <2>2
    <2>4. Reached(4)
      <3>1. /\ start[1] > start[0] + 2 /\ start[2] > start[1] + 2 /\ start[3] > start[2] + 2
            /\ start[4] > start[3] + 2 /\ start[5] > start[4] + 2
        BY <1>1, <1>14, <2>3
      <3>2. \A l \in 1..4+1 : l = 1 \/ l = 2 \/ l = 3 \/ l = 4 \/ l = 5
        OBVIOUS
      <3> QED
        BY <3>1, <3>2
    <2>5. Size(4) = all
      BY <1>1, <2>3
    <2>6. /\ LeftAfter(w) < Size(4)
          /\ Size(4) - LeftAfter(w) - WordDigits + 1 = before + 1
          /\ Size(4) - LeftAfter(w) = before + WordDigits
      BY <1>1, <2>1, <2>5
    <2>7. Part(4, before + 1, before + WordDigits) = number[i][i + WordDigits - 1]
      <3>1. /\ start[4] + 1 + (before + 1) = i
            /\ start[4] + 1 + (before + WordDigits) = i + WordDigits - 1
        BY <1>1, <2>1, <2>3
      <3> QED
        BY <3>1
    <2>8. Field(text, i, h.key[w], WordDigits)
      BY <1>3 DEF before
    <2>9. Fits(h.key[w], WordDigits)
      <3>1. h.key[w] \in 0..Words-1
        BY DEF FitsHello, Keys
      <3> QED
        BY <3>1, WordsFit
    <2>10. number[i][i + WordDigits - 1] = h.key[w]
      BY <1>1, <1>4, <2>2, <2>8, <2>9
    <2>11. ~(before + 1 < 1)
      BY <2>1
    <2> HIDE DEF Reached, Part, Size
    <2>12. got.key[w] = Part(4, before + 1, before + WordDigits)
      BY <1>13, <2>4, <2>6, <2>11
    <2> QED
      BY <2>7, <2>10, <2>12
  <1> HIDE DEF Reached, Part, Size
  <1> QED
    BY <1>15, <1>16, <1>17, <1>18, <1>19 DEF RightUpTo, second, short, got
-----------------------------------------------------------------------------
(* What each step does, client by client *)

Tables ==
  /\ PerClient(client) /\ PerClient(private) /\ PerClient(hello) /\ PerClient(answer)
  /\ PerClient(secret) /\ PerClient(up) /\ PerClient(down) /\ PerClient(heard)
  /\ took \in [Clients -> [request : Int, answer : Int, message : Int]]

SameHello(d) == private'[d] = private[d] /\ hello'[d] = hello[d]
SameSecret(d) == answer'[d] = answer[d] /\ secret'[d] = secret[d]
Same(d) ==
  /\ client'[d] = client[d] /\ SameHello(d) /\ SameSecret(d)
  /\ up'[d] = up[d] /\ down'[d] = down[d] /\ heard'[d] = heard[d] /\ took'[d] = took[d]
SameServer == UNCHANGED serverVars

LEMMA TablesInit == Init => Tables
  <1> SUFFICES ASSUME Init
               PROVE  Tables
    OBVIOUS
  <1>1. \A v : PerClient([c \in Clients |-> v])
    BY DEF PerClient
  <1>2. /\ PerClient(client) /\ PerClient(private) /\ PerClient(hello) /\ PerClient(answer)
        /\ PerClient(secret) /\ PerClient(up) /\ PerClient(down) /\ PerClient(heard)
    BY <1>1 DEF Init
  <1>3. took = [c \in Clients |-> [request |-> -1, answer |-> -1, message |-> -1]]
    BY DEF Init
  <1>4. took \in [Clients -> [request : Int, answer : Int, message : Int]]
    BY <1>3
  <1> QED
    BY <1>2, <1>4 DEF Tables

LEMMA ConnectDoes ==
  ASSUME Tables, NEW c \in Clients, Connect(c)
  PROVE  /\ Tables' /\ SameServer /\ \A d \in Clients \ {c} : Same(d)
         /\ client[c] = "start" /\ SameSecret(c)
         /\ up'[c] = up[c] /\ down'[c] = down[c] /\ heard'[c] = heard[c] /\ took'[c] = took[c]
         /\ private'[c] \in Drawn[c]
         /\ \E offer \in Offers : hello'[c] = Hello(offer, Multiplied(G, private'[c]))
         /\ \/ client'[c] = "connected" /\ queue' = Append(queue, c)
            \/ client'[c] = "done" /\ queue' = queue
  <1>1. /\ client[c] = "start"
        /\ UNCHANGED <<answer, secret, serverVars, up, down, heard, took>>
    BY DEF Connect
  <1>2. PICK offer \in Offers, number \in Drawn[c] :
          /\ private' = [private EXCEPT ![c] = number]
          /\ hello' = [hello EXCEPT ![c] = Hello(offer, Multiplied(G, number))]
    BY DEF Connect
  <1>3. PerClient(private') /\ private'[c] = number /\ \A d \in Clients \ {c} : private'[d] = private[d]
    BY <1>2 DEF Tables, PerClient
  <1>4. /\ PerClient(hello') /\ hello'[c] = Hello(offer, Multiplied(G, number))
        /\ \A d \in Clients \ {c} : hello'[d] = hello[d]
    BY <1>2 DEF Tables, PerClient
  <1>5. PICK phase \in {"connected", "done"} :
          /\ client' = [client EXCEPT ![c] = phase]
          /\ queue' = IF phase = "connected" THEN Append(queue, c) ELSE queue
    BY DEF Connect
  <1>6. PerClient(client') /\ client'[c] = phase /\ \A d \in Clients \ {c} : client'[d] = client[d]
    BY <1>5 DEF Tables, PerClient
  <1>7. Tables'
    BY <1>1, <1>3, <1>4, <1>6 DEF Tables
  <1> QED
    BY <1>1, <1>2, <1>3, <1>4, <1>5, <1>6, <1>7 DEF Same, SameHello, SameSecret, SameServer

LEMMA SendClientHelloDoes ==
  ASSUME Tables, NEW c \in Clients, SendClientHello(c)
  PROVE  /\ Tables' /\ SameServer /\ queue' = queue /\ \A d \in Clients \ {c} : Same(d)
         /\ client[c] = "connected" /\ client'[c] = "waiting" /\ SameHello(c) /\ SameSecret(c)
         /\ up'[c] = up[c] \o HelloText(hello[c])
         /\ down'[c] = down[c] /\ heard'[c] = heard[c] /\ took'[c] = took[c]
  <1>1. /\ client[c] = "connected" /\ client' = [client EXCEPT ![c] = "waiting"]
        /\ up' = [up EXCEPT ![c] = up[c] \o HelloText(hello[c])]
        /\ UNCHANGED <<private, hello, answer, secret, serverVars, queue, down, heard, took>>
    BY DEF SendClientHello
  <1>2. PerClient(client') /\ client'[c] = "waiting" /\ \A d \in Clients \ {c} : client'[d] = client[d]
    BY <1>1 DEF Tables, PerClient
  <1>3. /\ PerClient(up') /\ up'[c] = up[c] \o HelloText(hello[c])
        /\ \A d \in Clients \ {c} : up'[d] = up[d]
    BY <1>1 DEF Tables, PerClient
  <1>4. Tables'
    BY <1>1, <1>2, <1>3 DEF Tables
  <1> QED
    BY <1>1, <1>2, <1>3, <1>4 DEF Same, SameHello, SameSecret, SameServer

LEMMA WaitForServerHelloDoes ==
  ASSUME Tables, NEW c \in Clients, NEW n \in 0..LenBuff, WaitForServerHello(c, n)
  PROVE  /\ Tables' /\ SameServer /\ queue' = queue /\ \A d \in Clients \ {c} : Same(d)
         /\ client[c] = "waiting" /\ client'[c] = "agreed" /\ SameHello(c)
         /\ Receive(down[c], ServerHas(c), n)
         /\ answer'[c] = Parsed(Received(down[c], n), Unset)
         /\ secret'[c] = Multiplied(answer'[c].key, private[c])
         /\ up'[c] = up[c] /\ heard'[c] = heard[c] /\ took'[c].answer = n
         /\ took'[c].request = took[c].request /\ took'[c].message = took[c].message
  <1>1. /\ client[c] = "waiting" /\ client' = [client EXCEPT ![c] = "agreed"]
        /\ Receive(down[c], ServerHas(c), n)
        /\ answer' = [answer EXCEPT ![c] = Parsed(Received(down[c], n), Unset)]
        /\ secret' = [secret EXCEPT ![c] = Multiplied(answer'[c].key, private[c])]
        /\ down' = [down EXCEPT ![c] = From(down[c], n)]
        /\ took' = [took EXCEPT ![c].answer = n]
        /\ UNCHANGED <<private, hello, serverVars, queue, up, heard>>
    BY DEF WaitForServerHello
  <1>2. PerClient(client') /\ client'[c] = "agreed" /\ \A d \in Clients \ {c} : client'[d] = client[d]
    BY <1>1 DEF Tables, PerClient
  <1>3. /\ PerClient(answer') /\ answer'[c] = Parsed(Received(down[c], n), Unset)
        /\ \A d \in Clients \ {c} : answer'[d] = answer[d]
    BY <1>1 DEF Tables, PerClient
  <1>4. /\ PerClient(secret') /\ secret'[c] = Multiplied(answer'[c].key, private[c])
        /\ \A d \in Clients \ {c} : secret'[d] = secret[d]
    BY <1>1 DEF Tables, PerClient
  <1>5. PerClient(down') /\ \A d \in Clients \ {c} : down'[d] = down[d]
    BY <1>1 DEF Tables, PerClient
  <1>6. took \in [Clients -> [request : Int, answer : Int, message : Int]] /\ n \in Int
    BY DEF Tables
  <1>7. /\ took'[c].answer = n /\ took'[c].request = took[c].request /\ took'[c].message = took[c].message
        /\ \A d \in Clients \ {c} : took'[d] = took[d]
        /\ took' \in [Clients -> [request : Int, answer : Int, message : Int]]
    BY <1>1, <1>6
  <1>8. Tables'
    BY <1>1, <1>2, <1>3, <1>4, <1>5, <1>7 DEF Tables
  <1> QED
    BY <1>1, <1>2, <1>3, <1>4, <1>5, <1>7, <1>8 DEF Same, SameHello, SameSecret, SameServer

LEMMA GcmSendMessageDoes ==
  ASSUME Tables, NEW c \in Clients, GcmSendMessage(c)
  PROVE  /\ Tables' /\ SameServer /\ queue' = queue /\ \A d \in Clients \ {c} : Same(d)
         /\ client[c] = "agreed" /\ SameHello(c) /\ SameSecret(c)
         /\ down'[c] = down[c] /\ heard'[c] = heard[c] /\ took'[c] = took[c]
         /\ \/ client'[c] = "done" /\ up'[c] \in {up[c], <<>>}
            \/ /\ client'[c] = "sent" /\ up'[c] \in {up[c] \o Packet(c, secret[c]), <<>>}
               /\ LenToSend(c) <= LenBuff
  <1>1. /\ client[c] = "agreed"
        /\ UNCHANGED <<private, hello, answer, secret, serverVars, queue, down, heard, took>>
    BY DEF GcmSendMessage
  <1>2. LenBuff < LenToSend(c) \/ LenToSend(c) <= LenBuff
    <2>1. Len(Padded(c)) \in Nat
      BY TextIsPlain DEF Sequence
    <2> QED
      BY <2>1, SizesAssumption DEF LenToSend
  <1>3. PICK phase, left :
          /\ client' = [client EXCEPT ![c] = phase] /\ up' = [up EXCEPT ![c] = left]
          /\ \/ phase = "done" /\ left \in {up[c], <<>>}
             \/ /\ phase = "sent" /\ left \in {up[c] \o Packet(c, secret[c]), <<>>}
                /\ LenToSend(c) <= LenBuff
    <2>1. \A stream, unread, left : left \in AfterClose(stream, unread) => left \in {stream, <<>>}
      BY DEF AfterClose
    <2>2. CASE LenBuff < LenToSend(c)
      BY <2>1, <2>2 DEF GcmSendMessage
    <2>3. CASE ~(LenBuff < LenToSend(c))
      <3>1. client' = [client EXCEPT ![c] = "sent"] /\ LenToSend(c) <= LenBuff
        BY <1>2, <2>3 DEF GcmSendMessage
      <3>2. PICK left \in AfterClose(up[c] \o Packet(c, secret[c]), down[c]) : up' = [up EXCEPT ![c] = left]
        BY <2>3 DEF GcmSendMessage
      <3>3. left \in {up[c] \o Packet(c, secret[c]), <<>>}
        BY <2>1, <3>2
      <3> QED
        BY <3>1, <3>2, <3>3
    <2> QED
      BY <2>2, <2>3
  <1>4. PerClient(client') /\ client'[c] = phase /\ \A d \in Clients \ {c} : client'[d] = client[d]
    BY <1>3 DEF Tables, PerClient
  <1>5. PerClient(up') /\ up'[c] = left /\ \A d \in Clients \ {c} : up'[d] = up[d]
    BY <1>3 DEF Tables, PerClient
  <1>6. Tables'
    BY <1>1, <1>4, <1>5 DEF Tables
  <1> QED
    BY <1>1, <1>3, <1>4, <1>5, <1>6 DEF Same, SameHello, SameSecret, SameServer

Queued(c) == \E i \in 1..Len(queue) : queue[i] = c

LEMMA AcceptDoes ==
  ASSUME TypeOK, Tables, Accept
  PROVE  /\ Tables' /\ \A d \in Clients : Same(d)
         /\ server = "accept" /\ server' = "request" /\ Queued(conn')
         /\ \A d : Queued(d)' => Queued(d)
  <1>1. /\ server = "accept" /\ server' = "request" /\ conn' = Head(queue) /\ queue' = Tail(queue)
        /\ queue # <<>> /\ UNCHANGED <<clientVars, up, down, heard, took>>
    BY DEF Accept
  <1>2. queue \in Seq(Clients) /\ queue # <<>> /\ Len(queue) \in Nat
    BY <1>1 DEF TypeOK
  <1>3. /\ Len(queue) >= 1 /\ Head(queue) = queue[1]
        /\ Len(Tail(queue)) = Len(queue) - 1
        /\ \A i \in 1..Len(Tail(queue)) : Tail(queue)[i] = queue[i + 1]
    BY <1>2, HeadTailProperties, EmptySeq
  <1>4. Queued(conn')
    <2>1. 1 \in 1..Len(queue)
      BY <1>2, <1>3
    <2> QED
      BY <1>1, <1>3, <2>1 DEF Queued
  <1>5. ASSUME NEW d, Queued(d)'
        PROVE  Queued(d)
    <2>1. PICK i \in 1..Len(Tail(queue)) : Tail(queue)[i] = d
      BY <1>1, <1>5 DEF Queued
    <2>2. i + 1 \in 1..Len(queue) /\ queue[i + 1] = d
      BY <1>2, <1>3, <2>1
    <2> QED
      BY <2>2 DEF Queued
  <1>6. \A d \in Clients : Same(d)
    BY <1>1 DEF clientVars, Same, SameHello, SameSecret
  <1>7. Tables'
    BY <1>1 DEF clientVars, Tables
  <1> QED
    BY <1>1, <1>4, <1>5, <1>6, <1>7

(* A server that works on a connection has one.                            *)
LEMMA ConnIsClient ==
  ASSUME TypeOK, server \notin {"accept", "crashed"}
  PROVE  conn \in Clients
  BY DEF TypeOK

LEMMA WaitForRequestDoes ==
  ASSUME TypeOK, Tables, NEW n \in 0..LenBuff, WaitForRequest(n)
  PROVE  /\ Tables' /\ conn \in Clients /\ conn' = conn /\ queue' = queue
         /\ server = "request" /\ server' = "reply"
         /\ Receive(up[conn], ClientOpen(conn), n)
         /\ \E old : request' = Parsed(Received(up[conn], n), old)
         /\ \A d \in Clients \ {conn} : Same(d)
         /\ client'[conn] = client[conn] /\ SameHello(conn) /\ SameSecret(conn)
         /\ up'[conn] = From(up[conn], n) /\ down'[conn] = down[conn] /\ heard'[conn] = heard[conn]
         /\ took'[conn].request = n
         /\ took'[conn].answer = took[conn].answer /\ took'[conn].message = took[conn].message
  <1>1. /\ server = "request" /\ server' = "reply" /\ conn' = conn /\ queue' = queue
        /\ Receive(up[conn], ClientOpen(conn), n)
        /\ up' = [up EXCEPT ![conn] = From(up[conn], n)]
        /\ took' = [took EXCEPT ![conn].request = n]
        /\ UNCHANGED <<clientVars, down, heard>>
    BY DEF WaitForRequest
  <1>2. conn \in Clients
    BY <1>1, ConnIsClient
  <1>3. \E old : request' = Parsed(Received(up[conn], n), old)
    BY DEF WaitForRequest
  <1>4. /\ PerClient(up') /\ up'[conn] = From(up[conn], n)
        /\ \A d \in Clients \ {conn} : up'[d] = up[d]
    BY <1>1, <1>2 DEF Tables, PerClient
  <1>5. took \in [Clients -> [request : Int, answer : Int, message : Int]] /\ n \in Int
    BY DEF Tables
  <1>6. /\ took'[conn].request = n
        /\ took'[conn].answer = took[conn].answer /\ took'[conn].message = took[conn].message
        /\ \A d \in Clients \ {conn} : took'[d] = took[d]
        /\ took' \in [Clients -> [request : Int, answer : Int, message : Int]]
    BY <1>1, <1>2, <1>5
  <1>7. Tables'
    BY <1>1, <1>4, <1>6 DEF clientVars, Tables
  <1> QED
    BY <1>1, <1>2, <1>3, <1>4, <1>6, <1>7 DEF clientVars, Same, SameHello, SameSecret

LEMMA SendServerHelloDoes ==
  ASSUME TypeOK, Tables, SendServerHello
  PROVE  /\ Tables' /\ conn \in Clients /\ conn' = conn /\ queue' = queue /\ request' = request
         /\ server = "reply" /\ server' = "message"
         /\ serverPrivate' \in Drawn["server"]
         /\ \E offer \in Offers : serverHello' = Hello(offer, Multiplied(G, serverPrivate'))
         /\ serverSecret' = Multiplied(request.key, serverPrivate')
         /\ \A d \in Clients \ {conn} : Same(d)
         /\ client'[conn] = client[conn] /\ SameHello(conn) /\ SameSecret(conn)
         /\ up'[conn] = up[conn] /\ heard'[conn] = heard[conn] /\ took'[conn] = took[conn]
         /\ down'[conn] = down[conn] \o HelloText(serverHello')
  <1>1. /\ server = "reply" /\ server' = "message" /\ conn' = conn /\ queue' = queue
        /\ down' = [down EXCEPT ![conn] = down[conn] \o HelloText(serverHello')]
        /\ serverSecret' = Multiplied(request.key, serverPrivate')
        /\ UNCHANGED <<clientVars, request, up, heard, took>>
    BY DEF SendServerHello
  <1>2. conn \in Clients
    BY <1>1, ConnIsClient
  <1>3. /\ serverPrivate' \in Drawn["server"]
        /\ \E offer \in Offers : serverHello' = Hello(offer, Multiplied(G, serverPrivate'))
    BY DEF SendServerHello
  <1>4. /\ PerClient(down') /\ down'[conn] = down[conn] \o HelloText(serverHello')
        /\ \A d \in Clients \ {conn} : down'[d] = down[d]
    BY <1>1, <1>2 DEF Tables, PerClient
  <1>5. Tables'
    BY <1>1, <1>4 DEF clientVars, Tables
  <1> QED
    BY <1>1, <1>2, <1>3, <1>4, <1>5 DEF clientVars, Same, SameHello, SameSecret

LEMMA GcmReceiveMessageDoes ==
  ASSUME TypeOK, Tables, NEW n \in 0..LenBuff, GcmReceiveMessage(n)
  PROVE  /\ Tables' /\ conn \in Clients /\ queue' = queue
         /\ UNCHANGED <<conn, serverPrivate, serverHello, serverSecret, request>>
         /\ server = "message" /\ server' \in {"close", "crashed"}
         /\ Receive(up[conn], ClientOpen(conn), n)
         /\ \A d \in Clients \ {conn} : Same(d)
         /\ client'[conn] = client[conn] /\ SameHello(conn) /\ SameSecret(conn)
         /\ up'[conn] = From(up[conn], n) /\ down'[conn] = down[conn]
         /\ took'[conn].message = n
         /\ took'[conn].request = took[conn].request /\ took'[conn].answer = took[conn].answer
         /\ LET buffer == [Received(up[conn], n) EXCEPT ![LenBuff] = NUL]
            IN  n # 0 /\ 5 + LenMsg(buffer) \in 1..LenBuff => heard'[conn] = Opened(buffer)
  <1> DEFINE buffer == [Received(up[conn], n) EXCEPT ![LenBuff] = NUL]
  <1>1. /\ server = "message" /\ queue' = queue
        /\ UNCHANGED <<conn, serverPrivate, serverHello, serverSecret, request>>
        /\ Receive(up[conn], ClientOpen(conn), n)
        /\ up' = [up EXCEPT ![conn] = From(up[conn], n)]
        /\ took' = [took EXCEPT ![conn].message = n]
        /\ UNCHANGED <<clientVars, down>>
    BY DEF GcmReceiveMessage
  <1>2. conn \in Clients
    BY <1>1, ConnIsClient
  <1>3. PICK text : /\ server' \in {"close", "crashed"}
                    /\ heard' = heard \/ heard' = [heard EXCEPT ![conn] = text]
                    /\ n # 0 /\ 5 + LenMsg(buffer) \in 1..LenBuff =>
                         text = Opened(buffer) /\ heard' = [heard EXCEPT ![conn] = text]
    <2>1. \/ n = 0 /\ heard' = heard /\ server' = "close"
          \/ ~(5 + LenMsg(buffer) \in 1..LenBuff) /\ heard' = heard /\ server' \in {"close", "crashed"}
          \/ heard' = [heard EXCEPT ![conn] = Opened(buffer)] /\ server' = "close"
      BY DEF GcmReceiveMessage
    <2> HIDE DEF buffer
    <2> QED
      BY <2>1
  <1> HIDE DEF buffer
  <1>4. /\ PerClient(up') /\ up'[conn] = From(up[conn], n)
        /\ \A d \in Clients \ {conn} : up'[d] = up[d]
    BY <1>1, <1>2 DEF Tables, PerClient
  <1>5. took \in [Clients -> [request : Int, answer : Int, message : Int]] /\ n \in Int
    BY DEF Tables
  <1>6. /\ took'[conn].message = n
        /\ took'[conn].request = took[conn].request /\ took'[conn].answer = took[conn].answer
        /\ \A d \in Clients \ {conn} : took'[d] = took[d]
        /\ took' \in [Clients -> [request : Int, answer : Int, message : Int]]
    BY <1>1, <1>2, <1>5
  <1>7. /\ PerClient(heard') /\ \A d \in Clients \ {conn} : heard'[d] = heard[d]
        /\ heard' = [heard EXCEPT ![conn] = text] => heard'[conn] = text
    BY <1>2, <1>3 DEF Tables, PerClient
  <1>8. Tables'
    BY <1>1, <1>4, <1>6, <1>7 DEF clientVars, Tables
  <1>9. n # 0 /\ 5 + LenMsg(buffer) \in 1..LenBuff => heard'[conn] = Opened(buffer)
    BY <1>3, <1>7
  <1> QED
    BY <1>1, <1>2, <1>3, <1>4, <1>6, <1>7, <1>8, <1>9 DEF clientVars, Same, SameHello, SameSecret, buffer

(* What closing does to the stream to the client                           *)
SameBut(d) ==
  /\ client'[d] = client[d] /\ SameHello(d) /\ SameSecret(d)
  /\ up'[d] = up[d] /\ heard'[d] = heard[d] /\ took'[d] = took[d]

LEMMA CloseDoes ==
  ASSUME TypeOK, Tables, Close
  PROVE  /\ Tables' /\ conn \in Clients /\ conn' = Nobody /\ queue' = queue
         /\ server = "close" /\ server' = "accept"
         /\ \A d \in Clients : SameBut(d) /\ (d # conn => down'[d] = down[d])
  <1>1. /\ server = "close" /\ server' = "accept" /\ conn' = Nobody
        /\ UNCHANGED <<clientVars, queue, up, heard, took>>
    BY DEF Close
  <1>2. conn \in Clients
    BY <1>1, ConnIsClient
  <1>3. PICK left : down' = [down EXCEPT ![conn] = left]
    BY DEF Close
  <1>4. PerClient(down') /\ \A d \in Clients \ {conn} : down'[d] = down[d]
    BY <1>2, <1>3 DEF Tables, PerClient
  <1>5. Tables'
    BY <1>1, <1>4 DEF clientVars, Tables
  <1> QED
    BY <1>1, <1>2, <1>4, <1>5 DEF clientVars, SameBut, SameHello, SameSecret

LEMMA CrashClientDoes ==
  ASSUME Tables, NEW c \in Clients, CrashClient(c)
  PROVE  /\ Tables' /\ SameServer /\ queue' = queue /\ \A d \in Clients \ {c} : Same(d)
         /\ client[c] \in {"connected", "waiting", "agreed"} /\ client'[c] = "done"
         /\ SameHello(c) /\ SameSecret(c)
         /\ up'[c] \in {up[c], <<>>}
         /\ down'[c] = down[c] /\ heard'[c] = heard[c] /\ took'[c] = took[c]
  <1>1. /\ client[c] \in {"connected", "waiting", "agreed"} /\ client' = [client EXCEPT ![c] = "done"]
        /\ UNCHANGED <<private, hello, answer, secret, serverVars, queue, down, heard, took>>
    BY DEF CrashClient, ClientOpen
  <1>2. PICK left \in {up[c], <<>>} : up' = [up EXCEPT ![c] = left]
    BY DEF CrashClient, AfterClose
  <1>3. PerClient(client') /\ client'[c] = "done" /\ \A d \in Clients \ {c} : client'[d] = client[d]
    BY <1>1 DEF Tables, PerClient
  <1>4. PerClient(up') /\ up'[c] = left /\ \A d \in Clients \ {c} : up'[d] = up[d]
    BY <1>2 DEF Tables, PerClient
  <1>5. Tables'
    BY <1>1, <1>3, <1>4 DEF Tables
  <1> QED
    BY <1>1, <1>2, <1>3, <1>4, <1>5 DEF Same, SameHello, SameSecret, SameServer

LEMMA CrashServerDoes ==
  ASSUME TypeOK, Tables, CrashServer
  PROVE  /\ Tables' /\ conn' = conn /\ server' = "crashed" /\ queue' = queue
         /\ \A d \in Clients : SameBut(d) /\ (d # conn => down'[d] = down[d])
  <1>1. /\ server' = "crashed" /\ conn' = conn
        /\ UNCHANGED <<clientVars, queue, up, heard, took>>
    BY DEF CrashServer
  <1>2. PerClient(down') /\ \A d \in Clients \ {conn} : down'[d] = down[d]
    <2>1. CASE down' = down
      BY <2>1 DEF Tables
    <2>2. ASSUME NEW left, down' = [down EXCEPT ![conn] = left]
          PROVE  PerClient(down') /\ \A d \in Clients \ {conn} : down'[d] = down[d]
      BY <2>2 DEF Tables, PerClient
    <2> QED
      BY <2>1, <2>2 DEF CrashServer
  <1>3. Tables'
    BY <1>1, <1>2 DEF clientVars, Tables
  <1> QED
    BY <1>1, <1>2, <1>3 DEF clientVars, SameBut, SameHello, SameSecret
-----------------------------------------------------------------------------
(* Streams *)

LEMMA EmptySequence == Sequence(<<>>) /\ Len(<<>>) = 0
  BY EmptyNoTag, EmptySeq DEF NoTag

LEMMA NothingIsEmpty ==
  ASSUME NEW s, Sequence(s), Len(s) = 0
  PROVE  s = <<>>
  <1>1. s = [i \in 1..0 |-> s[i]] /\ <<>> = [i \in 1..0 |-> <<>>[i]]
    <2>1. <<>> = [i \in 1..Len(<<>>) |-> <<>>[i]] /\ Len(<<>>) = 0
      BY EmptySequence DEF Sequence
    <2> QED
      BY <2>1 DEF Sequence
  <1>2. [i \in 1..0 |-> s[i]] = [i \in 1..0 |-> <<>>[i]]
    OBVIOUS
  <1> QED
    BY <1>1, <1>2

LEMMA EmptyJoined ==
  ASSUME NEW s, Sequence(s)
  PROVE  <<>> \o s = s
  <1> DEFINE t == <<>> \o s
  <1>1. Len(s) \in Nat /\ s = [i \in 1..Len(s) |-> s[i]]
    BY DEF Sequence
  <1>2. /\ Sequence(t) /\ Len(t) = Len(<<>>) + Len(s)
        /\ \A i \in 1..Len(t) :
             \/ i \in 1..Len(<<>>) /\ t[i] = <<>>[i]
             \/ i - Len(<<>>) \in 1..Len(s) /\ t[i] = s[i - Len(<<>>)]
    BY EmptySequence, JoinedIsSequence
  <1> HIDE DEF t
  <1>3. Len(t) = Len(s) /\ \A i \in 1..Len(s) : t[i] = s[i]
    BY <1>1, <1>2, EmptySequence
  <1>4. t = [i \in 1..Len(s) |-> t[i]]
    BY <1>2, <1>3 DEF Sequence
  <1>5. t = s
    BY <1>1, <1>3, <1>4
  <1> QED
    BY <1>5 DEF t

LEMMA ReceivesUpTo ==
  ASSUME NEW stream, Sequence(stream), NEW open, NEW n, Receive(stream, open, n)
  PROVE  /\ n \in 0..LenBuff /\ n <= Len(stream) /\ (n = 0 => stream = <<>> /\ ~open)
         /\ stream = <<>> => n = 0
  <1>1. Len(stream) \in Nat /\ LenBuff \in Nat
    BY SizesAssumption DEF Sequence
  <1>2. n \in 0..(IF Len(stream) <= LenBuff THEN Len(stream) ELSE LenBuff)
    BY DEF Receive
  <1>3. n \in 0..LenBuff /\ n <= Len(stream)
    BY <1>1, <1>2
  <1>4. stream = <<>> => n = 0
    BY <1>3, EmptySequence
  <1> QED
    BY <1>3, <1>4 DEF Receive

LEMMA NothingLeft ==
  ASSUME NEW s, Sequence(s)
  PROVE  From(s, Len(s)) = <<>>
  <1>1. Len(s) \in Nat /\ Len(s) + 1 \in Nat \ {0} /\ Len(s) \in Int /\ Len(s) <= Len(s) /\ ~(Len(s) + 1 <= Len(s))
    BY DEF Sequence
  <1>2. /\ Sequence(SubSeq(s, Len(s) + 1, Len(s)))
        /\ Len(SubSeq(s, Len(s) + 1, Len(s))) = IF Len(s) + 1 <= Len(s) THEN Len(s) - (Len(s) + 1) + 1 ELSE 0
    BY <1>1, PartIsSequence, Zenon
  <1>3. Len(SubSeq(s, Len(s) + 1, Len(s))) = 0
    BY <1>1, <1>2
  <1> QED
    BY <1>2, <1>3, NothingIsEmpty DEF From

LEMMA StreamsAreSequences ==
  ASSUME Mail
  PROVE  \A c \in Clients : Sequence(up[c])
  BY DEF Mail, NoTag, OnlyTag

LEMMA HelloIsSequence ==
  ASSUME NEW h
  PROVE  Sequence(HelloText(h)) /\ Len(HelloText(h)) = HelloLength /\ HelloLength \in Nat \ {0}
  <1>1. \A g : /\ Sequence(HelloText(g))
               /\ Len(HelloText(g)) =
                    (2 + WordDigits) + 3 * (2 + (WordDigits \div 2)) + 2 + KeyWords * WordDigits
    BY HelloLayout
  <1>2. Len(HelloText(h)) = HelloLength
    BY <1>1 DEF HelloLength
  <1>3. HelloLength \in Nat \ {0}
    <2>1. HelloLength = (2 + WordDigits) + 3 * (2 + (WordDigits \div 2)) + 2 + KeyWords * WordDigits
      BY <1>1 DEF HelloLength
    <2> QED
      BY <2>1, Halves
  <1> QED
    BY <1>1, <1>2, <1>3

LEMMA HelloIsNotEmpty ==
  ASSUME NEW h
  PROVE  HelloText(h) # <<>>
  BY HelloIsSequence, EmptySequence

(* The buffer begins with what was received.                               *)
LEMMA ReceivedIs ==
  ASSUME NEW s, Sequence(s), NEW n \in 0..LenBuff, n <= Len(s)
  PROVE  /\ Sequence(Received(s, n)) /\ Len(Received(s, n)) = LenBuff
         /\ \A i \in 1..n : Received(s, n)[i] = s[i]
  <1> DEFINE part == SubSeq(s, 1, n)
             zeros == [i \in 1..LenBuff-n |-> NUL]
  <1>1. LenBuff \in Nat /\ n \in Nat /\ LenBuff - n \in Nat
    BY SizesAssumption
  <1>2. /\ Sequence(part) /\ Len(part) = n
        /\ \A i \in 1..n : part[i] = s[i]
    <2>1. 1 \in Nat \ {0} /\ n \in Int
      BY <1>1
    <2>2. /\ Sequence(part)
          /\ Len(part) = IF 1 <= n THEN n - 1 + 1 ELSE 0
          /\ \A i \in 1..Len(part) : i + 1 - 1 \in 1..Len(s) /\ part[i] = s[i + 1 - 1]
      BY <2>1, PartIsSequence, Zenon
    <2> HIDE DEF part
    <2>3. Len(part) = n
      BY <1>1, <2>2
    <2>4. \A i \in 1..n : i + 1 - 1 = i
      BY <1>1
    <2> QED
      BY <2>2, <2>3, <2>4
  <1>3. Sequence(zeros) /\ Len(zeros) = LenBuff - n
    BY <1>1, TableIsSequence
  <1>4. Received(s, n) = part \o zeros
    BY DEF Received
  <1> HIDE DEF part, zeros
  <1>5. /\ Sequence(part \o zeros) /\ Len(part \o zeros) = Len(part) + Len(zeros)
        /\ \A i \in 1..Len(part) : (part \o zeros)[i] = part[i]
    BY <1>2, <1>3, JoinedIsSequence
  <1> QED
    BY <1>1, <1>2, <1>3, <1>4, <1>5
-----------------------------------------------------------------------------
(* Where the hellos are *)

(* Nobody has received anything of the client, or sent it anything.        *)
Asking(c) == server # "crashed" /\ (Queued(c) \/ (conn = c /\ server = "request"))
Unanswered(c) == server # "crashed" /\ (Queued(c) \/ (conn = c /\ server \in {"request", "reply"}))
Answering(c) == conn = c /\ server \in {"message", "close"}

Place(c) ==
  /\ client[c] # "start" =>
       /\ private[c] \in Drawn[c]
       /\ \E offer \in Offers : hello[c] = Hello(offer, Multiplied(G, private[c]))
  /\ client[c] \in {"start", "connected"} => up[c] = <<>>
  /\ client[c] = "start" => down[c] = <<>>
  /\ client[c] \in {"start", "connected", "waiting"} => took[c].answer = -1
  /\ Asking(c) => up[c] \in {<<>>, HelloText(hello[c])}
  /\ Unanswered(c) => client[c] \notin {"agreed", "sent"} /\ down[c] = <<>> /\ took[c].answer = -1
  /\ Answering(c) /\ took[c].answer = -1 => down[c] \in {<<>>, HelloText(serverHello)}
Course == Tables /\ \A c \in Clients : Place(c)

LEMMA CourseInit == Init => Course
  <1> SUFFICES ASSUME Init
               PROVE  Course
    OBVIOUS
  <1>1. /\ client = [c \in Clients |-> "start"] /\ up = [c \in Clients |-> <<>>]
        /\ down = [c \in Clients |-> <<>>] /\ conn = Nobody /\ queue = <<>>
        /\ took = [c \in Clients |-> [request |-> -1, answer |-> -1, message |-> -1]]
        /\ server = "accept"
    BY DEF Init
  <1>2. \A c \in Clients : client[c] = "start" /\ up[c] = <<>> /\ down[c] = <<>> /\ took[c].answer = -1
    BY <1>1
  <1>3. \A c \in Clients : Place(c)
    BY <1>1, <1>2 DEF Place, Answering
  <1> QED
    BY <1>3, TablesInit DEF Course

(* A client that a step does not touch keeps its place, unless the server  *)
(* comes to it.                                                            *)
LEMMA PlaceKept ==
  ASSUME NEW c, Place(c), Same(c), Asking(c)' => Asking(c), Unanswered(c)' => Unanswered(c),
         Answering(c)' => Answering(c) /\ serverHello' = serverHello
  PROVE  Place(c)'
  <1>1. /\ client'[c] = client[c] /\ private'[c] = private[c] /\ hello'[c] = hello[c]
        /\ up'[c] = up[c] /\ down'[c] = down[c] /\ took'[c] = took[c]
    BY DEF Same, SameHello
  <1> QED
    BY <1>1 DEF Place

(* The stream to a client may be lost when the server leaves it.           *)
LEMMA PlaceLeft ==
  ASSUME NEW c, Place(c), SameBut(c), Asking(c)' => Asking(c), Unanswered(c)' => Unanswered(c),
         ~Answering(c)', client[c] = "start" \/ Unanswered(c)' => down'[c] = down[c]
  PROVE  Place(c)'
  <1>1. /\ client'[c] = client[c] /\ private'[c] = private[c] /\ hello'[c] = hello[c]
        /\ up'[c] = up[c] /\ took'[c] = took[c]
    BY DEF SameBut, SameHello
  <1> QED
    BY <1>1 DEF Place

(* The server goes on with what it did, and the queue is as it was.        *)
LEMMA ServerKept ==
  ASSUME SameServer, NEW c, Queued(c)' => Queued(c)
  PROVE  /\ Asking(c)' => Asking(c)
         /\ Unanswered(c)' => Unanswered(c)
         /\ Answering(c)' => Answering(c) /\ serverHello' = serverHello
  BY DEF SameServer, serverVars, Asking, Unanswered, Answering

LEMMA QueueKept ==
  ASSUME queue' = queue
  PROVE  \A c : Queued(c)' => Queued(c)
  BY DEF Queued

LEMMA ConnIsNotQueued ==
  ASSUME Once
  PROVE  ~Queued(conn)
  BY DEF Once, Queued

LEMMA PlaceOfClients ==
  ASSUME TypeOK, Mail, Once, Course, NEW c \in Clients,
         \/ Connect(c) \/ SendClientHello(c) \/ GcmSendMessage(c) \/ CrashClient(c)
         \/ \E n \in 0..LenBuff : WaitForServerHello(c, n)
  PROVE  Course'
  <1>1. \A d \in Clients : Place(d)
    BY DEF Course
  <1>2. ASSUME SameServer, NEW d \in Clients, Same(d), Queued(d)' => Queued(d)
        PROVE  Place(d)'
    BY <1>1, <1>2, ServerKept, PlaceKept
  <1>3. CASE Connect(c)
    <2>1. /\ Tables' /\ SameServer /\ \A d \in Clients \ {c} : Same(d)
          /\ client[c] = "start"
          /\ up'[c] = up[c] /\ down'[c] = down[c] /\ took'[c] = took[c]
          /\ private'[c] \in Drawn[c]
          /\ \E offer \in Offers : hello'[c] = Hello(offer, Multiplied(G, private'[c]))
          /\ \/ client'[c] = "connected" /\ queue' = Append(queue, c)
             \/ client'[c] = "done" /\ queue' = queue
      BY <1>3, ConnectDoes DEF Course
    <2>2. c # conn
      BY <2>1, NamesAssumption DEF Once, Nobody
    <2>3. ASSUME NEW d \in Clients \ {c}, Queued(d)'
          PROVE  Queued(d)
      <3>1. CASE queue' = queue
        BY <2>3, <3>1, QueueKept
      <3>2. CASE queue' = Append(queue, c)
        <4>1. queue \in Seq(Clients)
          BY DEF TypeOK
        <4>2. /\ Len(Append(queue, c)) = Len(queue) + 1 /\ Append(queue, c)[Len(queue) + 1] = c
              /\ \A i \in 1..Len(queue) : Append(queue, c)[i] = queue[i]
          BY <4>1, AppendProperties
        <4>3. PICK i \in 1..Len(Append(queue, c)) : Append(queue, c)[i] = d
          BY <2>3, <3>2 DEF Queued
        <4>4. Len(queue) \in Nat
          BY <4>1
        <4>5. i \in 1..Len(queue)
          BY <4>2, <4>3, <4>4
        <4> QED
          BY <4>2, <4>3, <4>5 DEF Queued
      <3> QED
        BY <2>1, <3>1, <3>2
    <2>4. \A d \in Clients \ {c} : Place(d)'
      BY <1>2, <2>1, <2>3
    <2>5. up[c] = <<>> /\ down[c] = <<>> /\ took[c].answer = -1
      BY <1>1, <2>1 DEF Place
    <2>6. client'[c] \notin {"agreed", "sent"} /\ ~Answering(c)'
      BY <2>1, <2>2 DEF SameServer, serverVars, Answering
    <2>7. Place(c)'
      BY <2>1, <2>5, <2>6 DEF Place
    <2> QED
      BY <2>1, <2>4, <2>7 DEF Course
  <1>4. CASE SendClientHello(c)
    <2>1. /\ Tables' /\ SameServer /\ queue' = queue /\ \A d \in Clients \ {c} : Same(d)
          /\ client[c] = "connected" /\ client'[c] = "waiting"
          /\ private'[c] = private[c] /\ hello'[c] = hello[c]
          /\ up'[c] = up[c] \o HelloText(hello[c])
          /\ down'[c] = down[c] /\ took'[c] = took[c]
      BY <1>4, SendClientHelloDoes DEF Course, SameHello
    <2>2. \A d \in Clients \ {c} : Place(d)'
      BY <1>2, <2>1, QueueKept
    <2>3. up[c] = <<>>
      BY <1>1, <2>1 DEF Place
    <2>4. up'[c] = HelloText(hello[c])
      BY <2>1, <2>3, HelloIsSequence, EmptyJoined
    <2>5. Unanswered(c)' => Unanswered(c)
      BY <2>1, QueueKept, ServerKept
    <2>6. Answering(c)' => Answering(c) /\ serverHello' = serverHello
      BY <2>1, QueueKept, ServerKept
    <2>7. Place(c)'
      BY <1>1, <2>1, <2>4, <2>5, <2>6 DEF Place
    <2> QED
      BY <2>1, <2>2, <2>7 DEF Course
  <1>5. CASE GcmSendMessage(c)
    <2>1. /\ Tables' /\ SameServer /\ queue' = queue /\ \A d \in Clients \ {c} : Same(d)
          /\ client[c] = "agreed" /\ client'[c] \in {"done", "sent"}
          /\ private'[c] = private[c] /\ hello'[c] = hello[c]
          /\ down'[c] = down[c] /\ took'[c] = took[c]
      BY <1>5, GcmSendMessageDoes DEF Course, SameHello
    <2>2. \A d \in Clients \ {c} : Place(d)'
      BY <1>2, <2>1, QueueKept
    <2>3. ~Unanswered(c) /\ ~Asking(c)
      BY <1>1, <2>1 DEF Place, Unanswered, Asking
    <2>4. ~Unanswered(c)' /\ ~Asking(c)'
      BY <2>1, <2>3, QueueKept, ServerKept
    <2>5. Answering(c)' => Answering(c) /\ serverHello' = serverHello
      BY <2>1, QueueKept, ServerKept
    <2>6. Place(c)'
      BY <1>1, <2>1, <2>4, <2>5 DEF Place
    <2> QED
      BY <2>1, <2>2, <2>6 DEF Course
  <1>6. CASE CrashClient(c)
    <2>1. /\ Tables' /\ SameServer /\ queue' = queue /\ \A d \in Clients \ {c} : Same(d)
          /\ client[c] # "start" /\ client'[c] = "done"
          /\ private'[c] = private[c] /\ hello'[c] = hello[c]
          /\ up'[c] \in {up[c], <<>>}
          /\ down'[c] = down[c] /\ took'[c] = took[c]
      BY <1>6, CrashClientDoes DEF Course, SameHello
    <2>2. \A d \in Clients \ {c} : Place(d)'
      BY <1>2, <2>1, QueueKept
    <2>3. /\ Unanswered(c)' => Unanswered(c)
          /\ Asking(c)' => Asking(c)
          /\ Answering(c)' => Answering(c) /\ serverHello' = serverHello
      BY <2>1, QueueKept, ServerKept
    <2>4. Place(c)'
      BY <1>1, <2>1, <2>3 DEF Place
    <2> QED
      BY <2>1, <2>2, <2>4 DEF Course
  <1>7. ASSUME NEW n \in 0..LenBuff, WaitForServerHello(c, n)
        PROVE  Course'
    <2>1. /\ Tables' /\ SameServer /\ queue' = queue /\ \A d \in Clients \ {c} : Same(d)
          /\ client[c] = "waiting" /\ client'[c] = "agreed"
          /\ private'[c] = private[c] /\ hello'[c] = hello[c]
          /\ Receive(down[c], ServerHas(c), n) /\ took'[c].answer = n
      BY <1>7, WaitForServerHelloDoes DEF Course, SameHello
    <2>2. \A d \in Clients \ {c} : Place(d)'
      BY <1>2, <2>1, QueueKept
    <2>3. ~Unanswered(c)
      <3>1. SUFFICES ASSUME Unanswered(c)
                     PROVE  FALSE
        OBVIOUS
      <3>2. down[c] = <<>>
        BY <1>1, <3>1 DEF Place
      <3>3. n = 0 /\ ~ServerHas(c)
        BY <2>1, <3>2, EmptySequence, ReceivesUpTo
      <3> QED
        BY <3>1, <3>3 DEF ServerHas, Unanswered, Queued
    <2>4. ~Unanswered(c)' /\ ~Asking(c)'
      BY <2>1, <2>3, QueueKept, ServerKept DEF Asking, Unanswered
    <2>5. n # -1
      OBVIOUS
    <2>6. Place(c)'
      BY <1>1, <2>1, <2>4, <2>5 DEF Place
    <2> QED
      BY <2>1, <2>2, <2>6 DEF Course
  <1> QED
    BY <1>3, <1>4, <1>5, <1>6, <1>7

LEMMA PlaceOfServer ==
  ASSUME TypeOK, Mail, Once, Course,
         \/ Accept \/ SendServerHello \/ Close \/ CrashServer
         \/ \E n \in 0..LenBuff : WaitForRequest(n) \/ GcmReceiveMessage(n)
  PROVE  Course'
  <1>1. Tables /\ \A d \in Clients : Place(d)
    BY DEF Course
  <1>2. CASE Accept
    <2>1. /\ Tables' /\ \A d \in Clients : Same(d)
          /\ server = "accept" /\ server' = "request" /\ Queued(conn')
          /\ \A d : Queued(d)' => Queued(d)
      BY <1>1, <1>2, AcceptDoes
    <2>2. ASSUME NEW d \in Clients
          PROVE  Place(d)'
      <3>1. Asking(d)' => Asking(d)
        BY <2>1 DEF Asking
      <3>2. Unanswered(d)' => Unanswered(d)
        BY <2>1 DEF Unanswered
      <3>3. ~Answering(d)'
        BY <2>1 DEF Answering
      <3> QED
        BY <1>1, <2>1, <3>1, <3>2, <3>3, PlaceKept
    <2> QED
      BY <2>1, <2>2 DEF Course
  <1>3. ASSUME NEW n \in 0..LenBuff, WaitForRequest(n)
        PROVE  Course'
    <2>1. /\ Tables' /\ conn \in Clients /\ conn' = conn /\ queue' = queue
          /\ server = "request" /\ server' = "reply"
          /\ Receive(up[conn], ClientOpen(conn), n)
          /\ \A d \in Clients \ {conn} : Same(d)
          /\ client'[conn] = client[conn] /\ private'[conn] = private[conn] /\ hello'[conn] = hello[conn]
          /\ down'[conn] = down[conn] /\ took'[conn].answer = took[conn].answer
      BY <1>1, <1>3, WaitForRequestDoes DEF SameHello
    <2>2. ASSUME NEW d \in Clients \ {conn}
          PROVE  Place(d)'
      <3>1. Asking(d)' => Asking(d)
        BY <2>1, QueueKept DEF Asking
      <3>2. Unanswered(d)' => Unanswered(d)
        BY <2>1, QueueKept DEF Unanswered
      <3>3. ~Answering(d)'
        BY <2>1 DEF Answering
      <3> QED
        BY <1>1, <2>1, <3>1, <3>2, <3>3, PlaceKept
    <2>3. client[conn] \notin {"start", "connected"}
      <3>1. SUFFICES ASSUME client[conn] \in {"start", "connected"}
                     PROVE  FALSE
        OBVIOUS
      <3>2. client[conn] = "connected"
        BY <2>1, <3>1, NamesAssumption DEF Once, Nobody
      <3>3. up[conn] = <<>>
        BY <1>1, <2>1, <3>2 DEF Place
      <3>4. ~ClientOpen(conn)
        BY <2>1, <3>3, EmptySequence, ReceivesUpTo
      <3> QED
        BY <3>2, <3>4 DEF ClientOpen
    <2>4. Unanswered(conn) /\ ~Asking(conn)'
      <3>1. ~Queued(conn)'
        BY <2>1, ConnIsNotQueued DEF Queued
      <3> QED
        BY <2>1, <3>1 DEF Unanswered, Asking
    <2>5. Place(conn)'
      <3>1. ~Answering(conn)'
        BY <2>1 DEF Answering
      <3>2. client'[conn] \notin {"start", "connected", "agreed", "sent"} /\ down'[conn] = <<>>
            /\ took'[conn].answer = -1
        BY <1>1, <2>1, <2>3, <2>4 DEF Place
      <3>3. /\ private'[conn] \in Drawn[conn]
            /\ \E offer \in Offers : hello'[conn] = Hello(offer, Multiplied(G, private'[conn]))
        BY <1>1, <2>1, <2>3 DEF Place
      <3>4. ASSUME NEW c, c = conn
            PROVE  Place(c)'
        BY <2>1, <2>4, <3>1, <3>2, <3>3, <3>4 DEF Place
      <3> QED
        BY <2>1, <3>4 DEF Place, Asking, Unanswered, Answering, Queued
    <2> QED
      BY <2>1, <2>2, <2>5 DEF Course
  <1>4. CASE SendServerHello
    <2>1. /\ Tables' /\ conn \in Clients /\ conn' = conn /\ queue' = queue
          /\ server = "reply" /\ server' = "message"
          /\ \A d \in Clients \ {conn} : Same(d)
          /\ client'[conn] = client[conn] /\ private'[conn] = private[conn] /\ hello'[conn] = hello[conn]
          /\ up'[conn] = up[conn] /\ took'[conn] = took[conn]
          /\ down'[conn] = down[conn] \o HelloText(serverHello')
      BY <1>1, <1>4, SendServerHelloDoes DEF SameHello
    <2>2. ASSUME NEW d \in Clients \ {conn}
          PROVE  Place(d)'
      <3>1. Asking(d)' => Asking(d)
        BY <2>1, QueueKept DEF Asking
      <3>2. Unanswered(d)' => Unanswered(d)
        BY <2>1, QueueKept DEF Unanswered
      <3>3. ~Answering(d)'
        BY <2>1 DEF Answering
      <3> QED
        BY <1>1, <2>1, <3>1, <3>2, <3>3, PlaceKept
    <2>3. Unanswered(conn) /\ ~Asking(conn)' /\ ~Unanswered(conn)'
      <3>1. ~Queued(conn)'
        BY <2>1, ConnIsNotQueued DEF Queued
      <3> QED
        BY <2>1, <3>1 DEF Unanswered, Asking
    <2>4. down[conn] = <<>>
      BY <1>1, <2>1, <2>3 DEF Place
    <2>5. down'[conn] = HelloText(serverHello')
      BY <2>1, <2>4, HelloIsSequence, EmptyJoined
    <2>6. client[conn] # "start"
      BY <2>1, NamesAssumption DEF Once, Nobody
    <2>7. ASSUME NEW c, c = conn
          PROVE  Place(c)'
      <3>1. Place(c)
        BY <1>1, <2>1, <2>7
      <3>2. ~Asking(c)' /\ ~Unanswered(c)'
        BY <2>1, <2>3, <2>7 DEF Asking, Unanswered, Queued
      <3> QED
        BY <2>1, <2>5, <2>6, <2>7, <3>1, <3>2 DEF Place
    <2> QED
      BY <2>1, <2>2, <2>7 DEF Course
  <1>5. ASSUME NEW n \in 0..LenBuff, GcmReceiveMessage(n)
        PROVE  Course'
    <2>1. /\ Tables' /\ conn \in Clients /\ conn' = conn /\ queue' = queue
          /\ serverHello' = serverHello /\ server = "message" /\ server' \in {"close", "crashed"}
          /\ Receive(up[conn], ClientOpen(conn), n)
          /\ \A d \in Clients \ {conn} : Same(d)
          /\ client'[conn] = client[conn] /\ private'[conn] = private[conn] /\ hello'[conn] = hello[conn]
          /\ down'[conn] = down[conn] /\ took'[conn].answer = took[conn].answer
      BY <1>1, <1>5, GcmReceiveMessageDoes DEF SameHello
    <2>2. ASSUME NEW d \in Clients \ {conn}
          PROVE  Place(d)'
      <3>1. Asking(d)' => Asking(d)
        BY <2>1, QueueKept DEF Asking
      <3>2. Unanswered(d)' => Unanswered(d)
        BY <2>1, QueueKept DEF Unanswered
      <3>3. ~Answering(d)'
        BY <2>1 DEF Answering
      <3> QED
        BY <1>1, <2>1, <3>1, <3>2, <3>3, PlaceKept
    <2>3. client[conn] \notin {"start", "connected"}
      <3>1. SUFFICES ASSUME client[conn] \in {"start", "connected"}
                     PROVE  FALSE
        OBVIOUS
      <3>2. client[conn] = "connected"
        BY <2>1, <3>1, NamesAssumption DEF Once, Nobody
      <3>3. up[conn] = <<>>
        BY <1>1, <2>1, <3>2 DEF Place
      <3>4. ~ClientOpen(conn)
        BY <2>1, <3>3, EmptySequence, ReceivesUpTo
      <3> QED
        BY <3>2, <3>4 DEF ClientOpen
    <2>4. ASSUME NEW c, c = conn
          PROVE  Place(c)'
      <3>1. Place(c)
        BY <1>1, <2>1, <2>4
      <3>2. ~Queued(conn)'
        BY <2>1, ConnIsNotQueued DEF Queued
      <3>3. ~Asking(c)' /\ ~Unanswered(c)'
        BY <2>1, <2>4, <3>2 DEF Asking, Unanswered, Queued
      <3>4. Answering(c)
        BY <2>1, <2>4 DEF Answering
      <3> QED
        BY <2>1, <2>3, <2>4, <3>1, <3>3, <3>4 DEF Place
    <2> QED
      BY <2>1, <2>2, <2>4 DEF Course
  <1>6. CASE Close
    <2>1. /\ Tables' /\ conn \in Clients /\ server = "close" /\ server' = "accept" /\ queue' = queue
          /\ \A d \in Clients : SameBut(d) /\ (d # conn => down'[d] = down[d])
      BY <1>1, <1>6, CloseDoes
    <2>2. ASSUME NEW d \in Clients
          PROVE  Place(d)'
      <3>1. Asking(d)' => Asking(d)
        BY <2>1, QueueKept DEF Asking
      <3>2. Unanswered(d)' => Unanswered(d) /\ d # conn
        BY <2>1, QueueKept, ConnIsNotQueued DEF Unanswered
      <3>3. ~Answering(d)'
        BY <2>1 DEF Answering
      <3>4. client[conn] # "start"
        BY <2>1, NamesAssumption DEF Once, Nobody
      <3> QED
        BY <1>1, <2>1, <3>1, <3>2, <3>3, <3>4, PlaceLeft
    <2> QED
      BY <2>1, <2>2 DEF Course
  <1>7. CASE CrashServer
    <2>1. /\ Tables' /\ server' = "crashed"
          /\ \A d \in Clients : SameBut(d) /\ (d # conn => down'[d] = down[d])
      BY <1>1, <1>7, CrashServerDoes
    <2>2. ASSUME NEW d \in Clients
          PROVE  Place(d)'
      <3>1. ~Asking(d)' /\ ~Unanswered(d)' /\ ~Answering(d)'
        BY <2>1 DEF Asking, Unanswered, Answering
      <3>2. d = conn => client[d] # "start"
        BY NamesAssumption DEF Once, Nobody
      <3> QED
        BY <1>1, <2>1, <3>1, <3>2, PlaceLeft
    <2> QED
      BY <2>1, <2>2 DEF Course
  <1> QED
    BY <1>2, <1>3, <1>4, <1>5, <1>6, <1>7

LEMMA CourseStep ==
  ASSUME TypeOK, Mail, Once, Course, [Next]_vars
  PROVE  Course'
  <1>1. ASSUME UNCHANGED vars
        PROVE  Course'
    <2>1. /\ UNCHANGED <<client, private, hello, answer, secret, up, down, heard, took>>
          /\ UNCHANGED <<server, conn, serverHello, queue>>
      BY <1>1 DEF vars, clientVars, serverVars
    <2> QED
      BY <2>1 DEF Course, Tables, PerClient, Place, Asking, Unanswered, Answering, Queued
  <1> QED
    BY <1>1, PlaceOfClients, PlaceOfServer DEF Next, ClientWork, ServerWork

(* Before the server has read a client's hello, nothing else is on its way *)
(* to it, and before the client has read the server's nothing else is on   *)
(* its way back; a client holds back its message until it has an answer.   *)
THEOREM CourseInvariant == Spec => [](TypeOK /\ Mail /\ Once /\ Course)
  <1>1. Init => TypeOK /\ Mail /\ Once /\ Course
    BY TypeInit, MailInit, OnceInit, CourseInit
  <1>2. TypeOK /\ Mail /\ Once /\ Course /\ [Next]_vars => TypeOK' /\ Mail' /\ Once' /\ Course'
    BY TypeStep, MailStep, OnceStep, CourseStep
  <1> QED
    BY <1>1, <1>2, PTL DEF Spec
-----------------------------------------------------------------------------
(* What is known of the other side's hello *)

LEMMA HelloSent ==
  ASSUME NEW p \in Clients \cup {"server"}, NEW offer \in Offers, NEW number \in Drawn[p]
  PROVE  /\ FitsHello(Hello(offer, Multiplied(G, number)))
         /\ Hello(offer, Multiplied(G, number)).key = Multiplied(G, number)
  <1>1. Multiplied(G, number) \in Keys
    BY KeysAssumption
  <1> QED
    BY <1>1, HelloFits DEF Hello

LEMMA NothingIsRight ==
  ASSUME NEW n \in Int, n <= 0, NEW got, NEW sent
  PROVE  RightUpTo(n, got, sent)
  <1> DEFINE short == 2 + (WordDigits \div 2)
             second == 2 + WordDigits
             last == second + 3 * short + 2
  <1>1. short \in Nat /\ second \in Nat \ {0} /\ WordDigits \in Nat /\ KeyWords \in Nat
    BY Halves, SizesAssumption
  <1>2. /\ ~(n >= second) /\ ~(n >= second + short) /\ ~(n >= second + 2 * short)
        /\ ~(n >= second + 3 * short)
        /\ last \in Nat \ {0}
    <2> HIDE DEF second, short
    <2> QED
      BY <1>1
  <1>3. ASSUME NEW w \in 1..KeyWords
        PROVE  ~(n >= last + w * WordDigits)
    <2>1. w * WordDigits \in Nat
      BY <1>1
    <2> HIDE DEF last
    <2> QED
      BY <1>2, <2>1
  <1> QED
    BY <1>2, <1>3 DEF RightUpTo

LEMMA ReceivedRight ==
  ASSUME NEW h, FitsHello(h), NEW stream \in {<<>>, HelloText(h)}, NEW open, NEW n,
         Receive(stream, open, n), NEW old
  PROVE  RightUpTo(n, Parsed(Received(stream, n), old), h)
  <1>1. Sequence(stream)
    BY EmptySequence, HelloIsSequence
  <1>2. n \in 0..LenBuff /\ n <= Len(stream) /\ n \in Int
    BY <1>1, ReceivesUpTo
  <1>3. CASE n = 0
    BY <1>2, <1>3, NothingIsRight
  <1>4. CASE n # 0
    <2>1. stream = HelloText(h)
      BY <1>4, EmptySequence, ReceivesUpTo
    <2>2. \A i \in 1..n : Received(stream, n)[i] = HelloText(h)[i]
      BY <1>1, <1>2, <2>1, ReceivedIs
    <2> QED
      BY <1>2, <2>2, ParsedRight
  <1> QED
    BY <1>3, <1>4

(* What the server answers with, and the secret that it has then           *)
Answered ==
  server \in {"message", "close"} =>
    /\ serverPrivate \in Drawn["server"]
    /\ \E offer \in Offers : serverHello = Hello(offer, Multiplied(G, serverPrivate))
    /\ serverSecret = Multiplied(request.key, serverPrivate)
RequestRight ==
  server \in {"reply", "message", "close"} => RightUpTo(took[conn].request, request, hello[conn])
AnswerRight(c) == Answering(c) => RightUpTo(took[c].answer, answer[c], serverHello)
Right == Answered /\ RequestRight /\ \A c \in Clients : AnswerRight(c)

LEMMA RightInit == Init => Right
  BY DEF Init, Right, Answered, RequestRight, AnswerRight, Answering

LEMMA AnsweredKept ==
  ASSUME Answered, UNCHANGED <<serverPrivate, serverHello, serverSecret, request>>,
         server' \in {"message", "close"} => server \in {"message", "close"}
  PROVE  Answered'
  BY DEF Answered

LEMMA RequestKept ==
  ASSUME RequestRight, UNCHANGED <<conn, request>>,
         server' \in {"reply", "message", "close"} =>
           /\ server \in {"reply", "message", "close"}
           /\ took'[conn].request = took[conn].request /\ hello'[conn] = hello[conn]
  PROVE  RequestRight'
  BY DEF RequestRight

LEMMA AnswerKept ==
  ASSUME NEW c, AnswerRight(c), took'[c].answer = took[c].answer, answer'[c] = answer[c],
         Answering(c)' => Answering(c) /\ serverHello' = serverHello
  PROVE  AnswerRight(c)'
  BY DEF AnswerRight

LEMMA RightOfClients ==
  ASSUME TypeOK, Mail, Once, Course, Right, NEW c \in Clients,
         \/ Connect(c) \/ SendClientHello(c) \/ GcmSendMessage(c) \/ CrashClient(c)
         \/ \E n \in 0..LenBuff : WaitForServerHello(c, n)
  PROVE  Right'
  <1>1. Tables /\ \A d \in Clients : Place(d)
    BY DEF Course
  <1>2. Answered /\ RequestRight /\ \A d \in Clients : AnswerRight(d)
    BY DEF Right
  <1>3. ASSUME SameServer, \A d \in Clients \ {c} : Same(d),
               conn = c => hello'[c] = hello[c],
               took'[c].request = took[c].request, AnswerRight(c)'
        PROVE  Right'
    <2>1. UNCHANGED <<server, conn, serverPrivate, serverHello, serverSecret, request>>
      BY <1>3 DEF SameServer, serverVars
    <2>2. Answered'
      BY <1>2, <2>1, AnsweredKept
    <2>3. RequestRight'
      <3>1. server' \in {"reply", "message", "close"} =>
              /\ server \in {"reply", "message", "close"}
              /\ took'[conn].request = took[conn].request /\ hello'[conn] = hello[conn]
        BY <1>3, <2>1, ConnIsClient DEF Same, SameHello
      <3> QED
        BY <1>2, <2>1, <3>1, RequestKept
    <2>4. ASSUME NEW d \in Clients \ {c}
          PROVE  AnswerRight(d)'
      BY <1>2, <1>3, <2>1, AnswerKept DEF Same, SameSecret, Answering
    <2> QED
      BY <1>3, <2>2, <2>3, <2>4 DEF Right
  <1>4. CASE Connect(c)
    <2>1. /\ SameServer /\ \A d \in Clients \ {c} : Same(d)
          /\ client[c] = "start" /\ took'[c] = took[c] /\ answer'[c] = answer[c]
      BY <1>1, <1>4, ConnectDoes DEF SameSecret
    <2>2. c # conn
      BY <2>1, NamesAssumption DEF Once, Nobody
    <2>3. AnswerRight(c)'
      BY <2>1, <2>2 DEF SameServer, serverVars, AnswerRight, Answering
    <2> QED
      BY <1>3, <2>1, <2>2, <2>3
  <1>5. CASE SendClientHello(c) \/ GcmSendMessage(c) \/ CrashClient(c)
    <2>1. /\ SameServer /\ \A d \in Clients \ {c} : Same(d)
          /\ hello'[c] = hello[c] /\ took'[c] = took[c] /\ answer'[c] = answer[c]
      BY <1>1, <1>5, SendClientHelloDoes, GcmSendMessageDoes, CrashClientDoes DEF SameHello, SameSecret
    <2>2. AnswerRight(c)'
      BY <1>2, <2>1, AnswerKept DEF SameServer, serverVars, Answering
    <2> QED
      BY <1>3, <2>1, <2>2
  <1>6. ASSUME NEW n \in 0..LenBuff, WaitForServerHello(c, n)
        PROVE  Right'
    <2>1. /\ SameServer /\ \A d \in Clients \ {c} : Same(d)
          /\ client[c] = "waiting" /\ hello'[c] = hello[c] /\ took'[c].request = took[c].request
          /\ Receive(down[c], ServerHas(c), n) /\ took'[c].answer = n
          /\ answer'[c] = Parsed(Received(down[c], n), Unset)
      BY <1>1, <1>6, WaitForServerHelloDoes DEF SameHello
    <2>2. ASSUME Answering(c)
          PROVE  RightUpTo(n, answer'[c], serverHello)
      <3>1. down[c] \in {<<>>, HelloText(serverHello)}
        BY <1>1, <2>1, <2>2 DEF Place
      <3>2. PICK offer \in Offers : serverHello = Hello(offer, Multiplied(G, serverPrivate))
        BY <1>2, <2>2 DEF Answered, Answering
      <3>3. serverPrivate \in Drawn["server"]
        BY <1>2, <2>2 DEF Answered, Answering
      <3>4. FitsHello(serverHello)
        BY <3>2, <3>3, HelloSent
      <3> QED
        BY <2>1, <3>1, <3>4, ReceivedRight
    <2>3. AnswerRight(c)'
      <3>1. Answering(c)' = Answering(c) /\ serverHello' = serverHello
        BY <2>1 DEF SameServer, serverVars, Answering
      <3> QED
        BY <2>1, <2>2, <3>1 DEF AnswerRight
    <2> QED
      BY <1>3, <2>1, <2>3
  <1> QED
    BY <1>4, <1>5, <1>6

LEMMA RightOfServer ==
  ASSUME TypeOK, Mail, Once, Course, Right,
         \/ Accept \/ SendServerHello \/ Close \/ CrashServer
         \/ \E n \in 0..LenBuff : WaitForRequest(n) \/ GcmReceiveMessage(n)
  PROVE  Right'
  <1>1. Tables /\ \A d \in Clients : Place(d)
    BY DEF Course
  <1>2. Answered /\ RequestRight /\ \A d \in Clients : AnswerRight(d)
    BY DEF Right
  <1>3. ASSUME server' \in {"accept", "request", "crashed"}
        PROVE  Right'
    BY <1>3 DEF Right, Answered, RequestRight, AnswerRight, Answering
  <1>4. CASE Accept \/ Close \/ CrashServer
    BY <1>3, <1>4 DEF Accept, Close, CrashServer
  <1>5. ASSUME NEW n \in 0..LenBuff, WaitForRequest(n)
        PROVE  Right'
    <2>1. /\ conn \in Clients /\ conn' = conn /\ server = "request" /\ server' = "reply"
          /\ Receive(up[conn], ClientOpen(conn), n)
          /\ \E old : request' = Parsed(Received(up[conn], n), old)
          /\ hello'[conn] = hello[conn] /\ took'[conn].request = n
      BY <1>1, <1>5, WaitForRequestDoes DEF SameHello
    <2>2. up[conn] \in {<<>>, HelloText(hello[conn])}
      BY <1>1, <2>1 DEF Place, Asking
    <2>3. client[conn] # "start"
      BY <2>1, NamesAssumption DEF Once, Nobody
    <2>4. FitsHello(hello[conn])
      <3>1. /\ private[conn] \in Drawn[conn]
            /\ \E offer \in Offers : hello[conn] = Hello(offer, Multiplied(G, private[conn]))
        BY <1>1, <2>1, <2>3 DEF Place
      <3> QED
        BY <2>1, <3>1, HelloSent
    <2>5. RightUpTo(n, request', hello[conn])
      BY <2>1, <2>2, <2>4, ReceivedRight
    <2>6. RequestRight'
      BY <2>1, <2>5 DEF RequestRight
    <2> QED
      BY <2>1, <2>6 DEF Right, Answered, AnswerRight, Answering
  <1>6. CASE SendServerHello
    <2>1. /\ conn \in Clients /\ conn' = conn /\ request' = request
          /\ server = "reply" /\ server' = "message"
          /\ serverPrivate' \in Drawn["server"]
          /\ \E offer \in Offers : serverHello' = Hello(offer, Multiplied(G, serverPrivate'))
          /\ serverSecret' = Multiplied(request.key, serverPrivate')
          /\ hello'[conn] = hello[conn] /\ took'[conn] = took[conn]
      BY <1>1, <1>6, SendServerHelloDoes DEF SameHello
    <2>2. Answered'
      BY <2>1 DEF Answered
    <2>3. RequestRight'
      BY <1>2, <2>1, RequestKept
    <2>4. ASSUME NEW c \in Clients
          PROVE  AnswerRight(c)'
      <3>1. SUFFICES ASSUME c = conn
                     PROVE  RightUpTo(took'[c].answer, answer'[c], serverHello')
        BY <2>1 DEF AnswerRight, Answering
      <3>2. took[c].answer = -1
        BY <1>1, <2>1, <3>1 DEF Place, Unanswered
      <3>3. took'[c].answer = -1
        BY <2>1, <3>1, <3>2
      <3>4. -1 \in Int /\ -1 <= 0
        OBVIOUS
      <3> QED
        BY <3>3, <3>4, NothingIsRight
    <2> QED
      BY <2>2, <2>3, <2>4 DEF Right
  <1>7. ASSUME NEW n \in 0..LenBuff, GcmReceiveMessage(n)
        PROVE  Right'
    <2>1. /\ conn \in Clients
          /\ UNCHANGED <<conn, serverPrivate, serverHello, serverSecret, request>>
          /\ server = "message" /\ server' \in {"close", "crashed"}
          /\ \A d \in Clients \ {conn} : Same(d)
          /\ hello'[conn] = hello[conn] /\ answer'[conn] = answer[conn]
          /\ took'[conn].request = took[conn].request /\ took'[conn].answer = took[conn].answer
      BY <1>1, <1>7, GcmReceiveMessageDoes DEF SameHello, SameSecret
    <2>2. Answered'
      BY <1>2, <2>1, AnsweredKept
    <2>3. RequestRight'
      BY <1>2, <2>1, RequestKept
    <2>4. ASSUME NEW c \in Clients
          PROVE  AnswerRight(c)'
      <3>1. Answering(c)' => Answering(c) /\ serverHello' = serverHello
        BY <2>1 DEF Answering
      <3>2. took'[c].answer = took[c].answer /\ answer'[c] = answer[c]
        BY <2>1 DEF Same, SameSecret
      <3> QED
        BY <1>2, <3>1, <3>2, AnswerKept
    <2> QED
      BY <2>2, <2>3, <2>4 DEF Right
  <1> QED
    BY <1>4, <1>5, <1>6, <1>7

LEMMA RightStep ==
  ASSUME TypeOK, Mail, Once, Course, Right, [Next]_vars
  PROVE  Right'
  <1>1. ASSUME UNCHANGED vars
        PROVE  Right'
    <2>1. /\ UNCHANGED <<hello, answer, took>>
          /\ UNCHANGED <<server, conn, serverPrivate, serverHello, serverSecret, request>>
      BY <1>1 DEF vars, clientVars, serverVars
    <2> QED
      BY <2>1 DEF Right, Answered, RequestRight, AnswerRight, Answering
  <1> QED
    BY <1>1, RightOfClients, RightOfServer DEF Next, ClientWork, ServerWork

(* Wherever the stream was cut, the fields of a hello that lie before the  *)
(* cut are those that the peer has sent: waitForRequest and                *)
(* waitForServerHello parse the zeros behind the cut as what it left out.  *)
THEOREM FieldsAreRight == Spec => []FieldsBeforeCutRight
  <1> DEFINE Known == TypeOK /\ Mail /\ Once /\ Course /\ Right
  <1>1. Init => Known
    BY TypeInit, MailInit, OnceInit, CourseInit, RightInit
  <1>2. Known /\ [Next]_vars => Known'
    BY TypeStep, MailStep, OnceStep, CourseStep, RightStep
  <1>3. Known => FieldsBeforeCutRight
    BY DEF Right, RequestRight, AnswerRight, Answering, FieldsBeforeCutRight
  <1> QED
    BY <1>1, <1>2, <1>3, PTL DEF Spec
-----------------------------------------------------------------------------
(* Secrets *)

KeyTable(key) == key = [w \in 1..KeyWords |-> key[w]]
ClientSecret(c) ==
  /\ client[c] \in {"agreed", "sent"} => took[c].answer # -1
  /\ took[c].answer # -1 => secret[c] = Multiplied(answer[c].key, private[c]) /\ KeyTable(answer[c].key)
RequestTable == server \in {"reply", "message", "close"} => KeyTable(request.key)
Secrets == RequestTable /\ \A c \in Clients : ClientSecret(c)

LEMMA ParsedKey ==
  ASSUME NEW buffer, NEW old
  PROVE  KeyTable(Parsed(buffer, old).key)
  <1> DEFINE number == [i \in 1..LenBuff |-> [j \in 0..LenBuff |-> Number(buffer, i, j)]]
             next == [i \in 1..LenBuff |-> i + 2 + number[i][i+1]]
             start == CHOOSE start : start = [k \in 0..5 |-> IF k = 0 THEN 1 ELSE next[start[k-1]]]
             Reached(k) == \A l \in 1..k+1 : start[l] > start[l-1] + 2
             Part(k, from, to) == number[start[k] + 1 + from][start[k] + 1 + to]
             Size(k) == start[k+1] - start[k] - 2
             KeyWord(w) ==
               LET j == LeftAfter(w)
                   from == Size(4) - j - WordDigits + 1
               IN  IF Reached(4) /\ j < Size(4)
                   THEN Part(4, IF from < 1 THEN 1 ELSE from, Size(4) - j) ELSE old.key[w]
  <1>1. Parsed(buffer, old).key = [w \in 1..KeyWords |-> KeyWord(w)]
    BY DEF Parsed, number, next, start
  <1> HIDE DEF KeyWord
  <1> QED
    BY <1>1 DEF KeyTable

(* A hello of which everything is known is known with its key.             *)
LEMMA WholeKey ==
  ASSUME NEW got, NEW sent, KeyTable(got.key), FitsHello(sent), RightUpTo(HelloLength, got, sent)
  PROVE  got.key = sent.key
  <1> DEFINE short == 2 + (WordDigits \div 2)
             second == 2 + WordDigits
             last == second + 3 * short + 2
  <1>1. short \in Nat /\ second \in Nat /\ WordDigits \in Nat /\ KeyWords \in Nat
    BY Halves, SizesAssumption
  <1>2. HelloLength = last + KeyWords * WordDigits
    <2>1. Len(HelloText(Unset)) = second + 3 * short + 2 + KeyWords * WordDigits
      BY HelloLayout
    <2> QED
      BY <2>1 DEF HelloLength
  <1>3. last \in Nat
    <2> HIDE DEF short, second
    <2> QED
      BY <1>1
  <1>4. ASSUME NEW w \in 1..KeyWords
        PROVE  got.key[w] = sent.key[w]
    <2>1. w * WordDigits <= KeyWords * WordDigits /\ w * WordDigits \in Nat /\ KeyWords * WordDigits \in Nat
      BY <1>1
    <2>2. HelloLength >= last + w * WordDigits
      <3> HIDE DEF last
      <3> QED
        BY <1>2, <1>3, <2>1
    <2> QED
      BY <2>2 DEF RightUpTo, short, second, last
  <1>5. sent.key = [w \in 1..KeyWords |-> sent.key[w]]
    BY DEF FitsHello, Keys
  <1> QED
    BY <1>4, <1>5 DEF KeyTable

LEMMA SecretsInit == Init => Secrets
  <1> SUFFICES ASSUME Init
               PROVE  Secrets
    OBVIOUS
  <1>1. /\ client = [c \in Clients |-> "start"] /\ server = "accept"
        /\ took = [c \in Clients |-> [request |-> -1, answer |-> -1, message |-> -1]]
    BY DEF Init
  <1> QED
    BY <1>1 DEF Secrets, RequestTable, ClientSecret

LEMMA SecretKept ==
  ASSUME NEW c, ClientSecret(c), client'[c] \in {"agreed", "sent"} => client[c] \in {"agreed", "sent"},
         private'[c] = private[c], answer'[c] = answer[c], secret'[c] = secret[c],
         took'[c].answer = took[c].answer
  PROVE  ClientSecret(c)'
  BY DEF ClientSecret

LEMMA SecretsStep ==
  ASSUME TypeOK, Course, Secrets, [Next]_vars
  PROVE  Secrets'
  <1>1. Tables /\ \A d \in Clients : Place(d)
    BY DEF Course
  <1>2. RequestTable /\ \A d \in Clients : ClientSecret(d)
    BY DEF Secrets
  <1>3. ASSUME NEW c \in Clients, SameServer, \A d \in Clients \ {c} : Same(d), ClientSecret(c)'
        PROVE  Secrets'
    <2>1. RequestTable'
      BY <1>2, <1>3 DEF RequestTable, SameServer, serverVars
    <2>2. \A d \in Clients \ {c} : ClientSecret(d)'
      BY <1>2, <1>3, SecretKept DEF Same, SameHello, SameSecret
    <2> QED
      BY <1>3, <2>1, <2>2 DEF Secrets
  <1>4. ASSUME NEW c \in Clients, Connect(c)
        PROVE  Secrets'
    <2>1. /\ SameServer /\ \A d \in Clients \ {c} : Same(d)
          /\ client[c] = "start" /\ took'[c] = took[c] /\ client'[c] \in {"connected", "done"}
      BY <1>1, <1>4, ConnectDoes
    <2>2. took[c].answer = -1
      BY <1>1, <2>1 DEF Place
    <2>3. ClientSecret(c)'
      BY <2>1, <2>2 DEF ClientSecret
    <2> QED
      BY <1>3, <2>1, <2>3
  <1>5. ASSUME NEW c \in Clients, SendClientHello(c) \/ GcmSendMessage(c) \/ CrashClient(c)
        PROVE  Secrets'
    <2>1. /\ SameServer /\ \A d \in Clients \ {c} : Same(d)
          /\ client'[c] \in {"agreed", "sent"} => client[c] \in {"agreed", "sent"}
          /\ private'[c] = private[c] /\ answer'[c] = answer[c] /\ secret'[c] = secret[c]
          /\ took'[c] = took[c]
      BY <1>1, <1>5, SendClientHelloDoes, GcmSendMessageDoes, CrashClientDoes DEF SameHello, SameSecret
    <2>2. ClientSecret(c)'
      BY <1>2, <2>1, SecretKept
    <2> QED
      BY <1>3, <2>1, <2>2
  <1>6. ASSUME NEW c \in Clients, NEW n \in 0..LenBuff, WaitForServerHello(c, n)
        PROVE  Secrets'
    <2>1. /\ SameServer /\ \A d \in Clients \ {c} : Same(d)
          /\ private'[c] = private[c] /\ took'[c].answer = n
          /\ answer'[c] = Parsed(Received(down[c], n), Unset)
          /\ secret'[c] = Multiplied(answer'[c].key, private[c])
      BY <1>1, <1>6, WaitForServerHelloDoes DEF SameHello
    <2>2. KeyTable(answer'[c].key) /\ n # -1
      BY <2>1, ParsedKey
    <2>3. ClientSecret(c)'
      BY <2>1, <2>2 DEF ClientSecret
    <2> QED
      BY <1>3, <2>1, <2>3
  <1>7. ASSUME RequestTable', \A d \in Clients : SameBut(d) \/ Same(d) \/
                 (d = conn /\ client'[d] = client[d] /\ SameHello(d) /\ SameSecret(d)
                  /\ took'[d].answer = took[d].answer)
        PROVE  Secrets'
    <2>1. \A d \in Clients : ClientSecret(d)'
      BY <1>2, <1>7, SecretKept DEF Same, SameBut, SameHello, SameSecret
    <2> QED
      BY <1>7, <2>1 DEF Secrets
  <1>8. CASE Accept \/ Close \/ CrashServer
    <2>1. \A d \in Clients : SameBut(d) \/ Same(d)
      BY <1>1, <1>8, AcceptDoes, CloseDoes, CrashServerDoes
    <2>2. server' \in {"request", "accept", "crashed"}
      BY <1>8 DEF Accept, Close, CrashServer
    <2> QED
      BY <1>7, <2>1, <2>2 DEF RequestTable
  <1>9. ASSUME NEW n \in 0..LenBuff, WaitForRequest(n)
        PROVE  Secrets'
    <2>1. /\ conn \in Clients /\ \A d \in Clients \ {conn} : Same(d)
          /\ \E old : request' = Parsed(Received(up[conn], n), old)
          /\ client'[conn] = client[conn] /\ SameHello(conn) /\ SameSecret(conn)
          /\ took'[conn].answer = took[conn].answer
      BY <1>1, <1>9, WaitForRequestDoes
    <2>2. RequestTable'
      BY <2>1, ParsedKey DEF RequestTable
    <2> QED
      BY <1>7, <2>1, <2>2
  <1>10. CASE SendServerHello \/ \E n \in 0..LenBuff : GcmReceiveMessage(n)
    <2>1. /\ conn \in Clients /\ \A d \in Clients \ {conn} : Same(d)
          /\ request' = request /\ server \in {"reply", "message"}
          /\ client'[conn] = client[conn] /\ SameHello(conn) /\ SameSecret(conn)
          /\ took'[conn].answer = took[conn].answer
      BY <1>1, <1>10, SendServerHelloDoes, GcmReceiveMessageDoes
    <2>2. RequestTable'
      BY <1>2, <2>1 DEF RequestTable
    <2> QED
      BY <1>7, <2>1, <2>2
  <1>11. ASSUME UNCHANGED vars
         PROVE  Secrets'
    <2>1. UNCHANGED <<client, private, answer, secret, took, server, request>>
      BY <1>11 DEF vars, clientVars, serverVars
    <2> QED
      BY <2>1 DEF Secrets, RequestTable, ClientSecret
  <1> QED
    BY <1>4, <1>5, <1>6, <1>8, <1>9, <1>10, <1>11 DEF Next, ClientWork, ServerWork

LEMMA Agree ==
  ASSUME \A c \in Clients : Commutes(c), TypeOK, Course, Right, Secrets
  PROVE  WholeHellosAgree
  <1> SUFFICES ASSUME NEW c \in Clients, conn = c, server \in {"message", "close"},
                      client[c] \in {"agreed", "sent", "done"}, Whole(c)
               PROVE  serverSecret = secret[c]
    BY DEF WholeHellosAgree
  <1>1. /\ private[c] \in Drawn[c]
        /\ \E offer \in Offers : hello[c] = Hello(offer, Multiplied(G, private[c]))
    BY DEF Course, Place
  <1>2. FitsHello(hello[c]) /\ hello[c].key = Multiplied(G, private[c])
    BY <1>1, HelloSent
  <1>3. /\ serverPrivate \in Drawn["server"]
        /\ \E offer \in Offers : serverHello = Hello(offer, Multiplied(G, serverPrivate))
        /\ serverSecret = Multiplied(request.key, serverPrivate)
    BY DEF Right, Answered
  <1>4. FitsHello(serverHello) /\ serverHello.key = Multiplied(G, serverPrivate)
    BY <1>3, HelloSent
  <1>5. request.key = hello[c].key
    BY <1>2, WholeKey DEF Right, RequestRight, Secrets, RequestTable, Whole
  <1>6. took[c].answer # -1
    BY HelloIsSequence DEF Whole
  <1>7. answer[c].key = serverHello.key /\ secret[c] = Multiplied(answer[c].key, private[c])
    BY <1>4, <1>6, WholeKey DEF Right, AnswerRight, Answering, Secrets, ClientSecret, Whole
  <1> QED
    BY <1>1, <1>2, <1>3, <1>4, <1>5, <1>7 DEF Commutes

(* When client and server have each received the other's hello whole, what *)
(* generatePrivateECDH has computed on both sides is the same secret, if   *)
(* the multiplication is what X25519 promises.                             *)
THEOREM HellosAgree ==
  ASSUME \A c \in Clients : Commutes(c)
  PROVE  Spec => []WholeHellosAgree
  <1> DEFINE Known == TypeOK /\ Mail /\ Once /\ Course /\ Right /\ Secrets
  <1>1. Init => Known
    BY TypeInit, MailInit, OnceInit, CourseInit, RightInit, SecretsInit
  <1>2. Known /\ [Next]_vars => Known'
    BY TypeStep, MailStep, OnceStep, CourseStep, RightStep, SecretsStep
  <1>3. Known => WholeHellosAgree
    BY Agree
  <1> QED
    BY <1>1, <1>2, <1>3, PTL DEF Spec
-----------------------------------------------------------------------------
(* Messages *)

LEMMA SameSequence ==
  ASSUME NEW s, NEW t, Sequence(s), Sequence(t), Len(s) = Len(t),
         \A i \in 1..Len(s) : s[i] = t[i]
  PROVE  s = t
  BY DEF Sequence

(* What lies where in a packet                                             *)
LEMMA PacketLayout ==
  ASSUME NEW c \in Clients, NEW key
  PROVE  /\ Sequence(Packet(c, key)) /\ Len(Packet(c, key)) = LenToSend(c)
         /\ Len(Padded(c)) \in Nat
         /\ Sequence(Cipher(c, key)) /\ Len(Cipher(c, key)) = Len(Padded(c))
         /\ StandsAt(Packet(c, key), 1, Len(Padded(c)), 3)
         /\ \A i \in 1..Len(Padded(c)) : Packet(c, key)[3 + i] = Cipher(c, key)[i]
         /\ Packet(c, key)[4 + Len(Padded(c))] = Vector(Iv[c])
         /\ Packet(c, key)[5 + Len(Padded(c))] = GcmTag(Padded(c), Iv[c], key, FALSE)
         /\ Packet(c, key)[6 + Len(Padded(c))] = NUL
  <1> DEFINE end == <<Vector(Iv[c]), GcmTag(Padded(c), Iv[c], key, FALSE), NUL>>
             len == Len(Padded(c))
             head == Digits(len, 3)
             bytes == Cipher(c, key)
             front == head \o bytes
  <1>1. Packet(c, key) = front \o end
    BY DEF Packet
  <1>2. len \in Nat
    BY TextIsPlain DEF Sequence
  <1>3. Sequence(head) /\ Len(head) = 3
    BY DigitsNoTag DEF NoTag
  <1>4. Sequence(bytes) /\ Len(bytes) = len
    BY TextIsPlain, EncryptedTwice DEF Cipher, NoTag
  <1>5. /\ Sequence(end) /\ Len(end) = 3
        /\ end[1] = Vector(Iv[c]) /\ end[2] = GcmTag(Padded(c), Iv[c], key, FALSE) /\ end[3] = NUL
    <2>1. Len(end) = 3 /\ end \in Seq({end[1], end[2], end[3]})
      OBVIOUS
    <2>2. Sequence(end)
      BY <2>1, SeqIsSequence
    <2> QED
      BY <2>1, <2>2
  <1> HIDE DEF end, head, bytes, len
  <1>6. /\ Sequence(front) /\ Len(front) = 3 + len
        /\ \A i \in 1..3 : front[i] = head[i]
        /\ \A i \in 1..len : front[3 + i] = bytes[i]
    <2>1. /\ Sequence(head \o bytes) /\ Len(head \o bytes) = Len(head) + Len(bytes)
          /\ \A i \in 1..Len(head) : (head \o bytes)[i] = head[i]
          /\ \A i \in 1..Len(head \o bytes) :
               \/ i \in 1..Len(head) /\ (head \o bytes)[i] = head[i]
               \/ i - Len(head) \in 1..Len(bytes) /\ (head \o bytes)[i] = bytes[i - Len(head)]
      BY <1>3, <1>4, JoinedIsSequence
    <2>2. ASSUME NEW i \in 1..len
          PROVE  front[3 + i] = bytes[i]
      <3>1. 3 + i \in 1..3 + len /\ ~(3 + i \in 1..3) /\ (3 + i) - 3 = i
        BY <1>2
      <3> QED
        BY <1>3, <1>4, <2>1, <3>1
    <2> QED
      BY <1>3, <1>4, <2>1, <2>2
  <1> HIDE DEF front
  <1>7. /\ Sequence(front \o end) /\ Len(front \o end) = Len(front) + Len(end)
        /\ \A i \in 1..Len(front) : (front \o end)[i] = front[i]
        /\ \A i \in 1..Len(front \o end) :
             \/ i \in 1..Len(front) /\ (front \o end)[i] = front[i]
             \/ i - Len(front) \in 1..Len(end) /\ (front \o end)[i] = end[i - Len(front)]
    BY <1>5, <1>6, JoinedIsSequence, ZenonT(40)
  <1>8. Len(front \o end) = 6 + len /\ LenToSend(c) = 6 + len
    BY <1>2, <1>5, <1>6, <1>7 DEF LenToSend, len
  <1>9. ASSUME NEW k \in 1..3
        PROVE  (front \o end)[3 + k + len] = end[k]
    <2>1. /\ 3 + k + len \in 1..6 + len /\ ~(3 + k + len \in 1..3 + len)
          /\ (3 + k + len) - (3 + len) = k
      BY <1>2
    <2> QED
      BY <1>6, <1>7, <1>8, <2>1
  <1>10. \A i \in 1..3 : 1 + i - 1 = i /\ (front \o end)[i] = head[i]
    <2>1. \A i \in 1..3 : i \in 1..3 + len /\ 1 + i - 1 = i
      BY <1>2
    <2> QED
      BY <1>6, <1>7, <2>1
  <1>11. \A i \in 1..len : (front \o end)[3 + i] = bytes[i]
    <2>1. \A i \in 1..len : 3 + i \in 1..3 + len
      BY <1>2
    <2> QED
      BY <1>6, <1>7, <2>1
  <1>12. /\ (front \o end)[4 + len] = end[1] /\ (front \o end)[5 + len] = end[2]
         /\ (front \o end)[6 + len] = end[3]
    <2>1. /\ 3 + 1 + len = 4 + len /\ 3 + 2 + len = 5 + len /\ 3 + 3 + len = 6 + len
          /\ 1 \in 1..3 /\ 2 \in 1..3 /\ 3 \in 1..3
      BY <1>2
    <2>2. /\ (front \o end)[3 + 1 + len] = end[1] /\ (front \o end)[3 + 2 + len] = end[2]
          /\ (front \o end)[3 + 3 + len] = end[3]
      BY <1>9, <2>1, Zenon
    <2> QED
      BY <2>1, <2>2, Zenon
  <1>13. StandsAt(front \o end, 1, len, 3)
    BY <1>10 DEF StandsAt, head
  <1> QED
    BY <1>1, <1>2, <1>4, <1>5, <1>7, <1>8, <1>11, <1>12, <1>13 DEF len, bytes

(* A packet that is received whole is opened, with the client's secret.    *)
LEMMA PacketOpened ==
  ASSUME NEW c \in Clients, LenToSend(c) <= LenBuff
  PROVE  LET buffer == [Received(Packet(c, serverSecret), LenToSend(c)) EXCEPT ![LenBuff] = NUL]
         IN  5 + LenMsg(buffer) \in 1..LenBuff /\ Opened(buffer) = Padded(c)
  <1> DEFINE packet == Packet(c, serverSecret)
             len == Len(Padded(c))
             received == Received(packet, LenToSend(c))
             buffer == [received EXCEPT ![LenBuff] = NUL]
             bytes == SubSeq(buffer, 4, 3 + len)
  <1>1. /\ Sequence(packet) /\ Len(packet) = LenToSend(c) /\ len \in Nat
        /\ LenToSend(c) = len + 6 /\ LenBuff \in Nat
    <2>1. Sequence(packet) /\ Len(packet) = LenToSend(c) /\ len \in Nat
      BY PacketLayout
    <2> QED
      BY <2>1, SizesAssumption DEF LenToSend
  <1>2. /\ Sequence(received) /\ Len(received) = LenBuff
        /\ \A i \in 1..len + 6 : received[i] = packet[i]
    <2>1. LenToSend(c) \in 0..LenBuff /\ LenToSend(c) <= Len(packet)
      BY <1>1
    <2>2. /\ Sequence(received) /\ Len(received) = LenBuff
          /\ \A i \in 1..LenToSend(c) : received[i] = packet[i]
      BY <1>1, <2>1, ReceivedIs
    <2> QED
      BY <1>1, <2>2
  <1>3. /\ buffer = [i \in 1..LenBuff |-> buffer[i]]
        /\ \A i \in 1..len + 5 : buffer[i] = packet[i]
    <2>1. received = [i \in 1..LenBuff |-> received[i]]
      BY <1>2 DEF Sequence
    <2> HIDE DEF received
    <2>2. \A i \in 1..len + 5 : i \in 1..LenBuff /\ i # LenBuff /\ i \in 1..len + 6
      BY <1>1
    <2>3. \A i \in 1..LenBuff : i # LenBuff => buffer[i] = received[i]
      BY <2>1
    <2>4. buffer = [i \in 1..LenBuff |-> buffer[i]]
      BY <2>1
    <2> HIDE DEF buffer
    <2> QED
      BY <1>2, <2>2, <2>3, <2>4
  <1>4. Sequence(buffer) /\ Len(buffer) = LenBuff
    <2> HIDE DEF buffer
    <2> QED
      BY <1>1, <1>3, TableIsSequence
  <1> HIDE DEF buffer, received
  <1>5. LenMsg(buffer) = len
    <2>1. Fits(len, 3)
      <3>1. len < Radix * Radix * Radix
        <4>1. LenBuff <= Radix * Radix * Radix /\ Radix * Radix * Radix \in Nat
          BY SizesAssumption
        <4> HIDE DEF len
        <4> QED
          BY <1>1, <4>1
      <3> QED
        BY <1>1, <3>1, LengthsFit
    <2>2. StandsAt(buffer, 1, len, 3)
      <3>1. \A t \in 1..3 : 1 + t - 1 \in 1..len + 5
        BY <1>1
      <3>2. StandsAt(packet, 1, len, 3)
        BY PacketLayout
      <3> QED
        BY <1>3, <3>1, <3>2 DEF StandsAt
    <2>3. Number(buffer, 1, 1 + 3 - 1) = len
      BY <2>1, <2>2, NumberRead
    <2> QED
      BY <2>3 DEF LenMsg
  <1>6. /\ buffer[4 + len] = Vector(Iv[c])
        /\ buffer[5 + len] = GcmTag(Padded(c), Iv[c], serverSecret, FALSE)
    <2>1. 4 + len \in 1..len + 5 /\ 5 + len \in 1..len + 5
      BY <1>1
    <2> QED
      BY <1>3, <2>1, PacketLayout
  <1>7. bytes = Cipher(c, serverSecret)
    <2>1. /\ Sequence(bytes) /\ Len(bytes) = IF 4 <= 3 + len THEN (3 + len) - 4 + 1 ELSE 0
          /\ \A i \in 1..Len(bytes) : i + 4 - 1 \in 1..Len(buffer) /\ bytes[i] = buffer[i + 4 - 1]
      <3>1. 4 \in Nat \ {0} /\ 3 + len \in Int /\ 3 + len <= Len(buffer)
        BY <1>1, <1>4
      <3> HIDE DEF len
      <3> QED
        BY <1>4, <3>1, PartIsSequence, ZenonT(30)
    <2> HIDE DEF bytes
    <2>2. Len(bytes) = len
      BY <1>1, <2>1
    <2>3. ASSUME NEW i \in 1..len
          PROVE  bytes[i] = Cipher(c, serverSecret)[i]
      <3>1. i + 4 - 1 = 3 + i /\ 3 + i \in 1..len + 5
        BY <1>1
      <3>2. bytes[i] = buffer[3 + i]
        BY <2>1, <2>2, <3>1
      <3> QED
        BY <1>3, <3>1, <3>2, PacketLayout
    <2>4. Sequence(Cipher(c, serverSecret)) /\ Len(Cipher(c, serverSecret)) = len
      BY PacketLayout
    <2> QED
      BY <2>1, <2>2, <2>3, <2>4, SameSequence
  <1>8. VectorOf(buffer[4 + len]) = Iv[c]
    BY <1>6 DEF Vector, VectorOf
  <1>9. buffer[5 + len] = GcmTag(bytes, Iv[c], serverSecret, TRUE)
    BY <1>6, <1>7 DEF GcmTag, Cipher
  <1>10. Opened(buffer) = Encrypted(Cipher(c, serverSecret), Iv[c], serverSecret)
    BY <1>5, <1>7, <1>8, <1>9 DEF Opened, bytes
  <1>11. Opened(buffer) = Padded(c)
    BY <1>10, TextIsPlain, EncryptedTwice DEF Cipher
  <1>12. 5 + LenMsg(buffer) \in 1..LenBuff
    BY <1>1, <1>5
  <1> QED
    BY <1>11, <1>12 DEF buffer, received

(* Behind a hello that the server has read whole comes the message, and    *)
(* when that was read the client has the answer.                           *)
Following(c) ==
  conn = c /\ took[c].request = HelloLength =>
    /\ server \in {"reply", "message"} =>
         /\ client[c] # "connected"
         /\ up[c] = <<>> \/ (client[c] = "sent" /\ up[c] = Packet(c, secret[c]))
    /\ server = "close" /\ took[c].message = LenToSend(c) => took[c].answer # -1
HeardOf(c) ==
  conn = c /\ server = "close" /\ Whole(c) /\ took[c].message = LenToSend(c) => heard[c] = Padded(c)
Heeded == \A c \in Clients : Following(c) /\ HeardOf(c)

LEMMA FollowingInit == Init => Heeded
  BY NamesAssumption DEF Init, Heeded, Following, HeardOf, Nobody

LEMMA FollowingKept ==
  ASSUME NEW c, Same(c), Following(c), HeardOf(c), UNCHANGED <<server, conn>>
  PROVE  Following(c)' /\ HeardOf(c)'
  BY DEF Same, SameSecret, Following, HeardOf, Whole

LEMMA FollowingStep ==
  ASSUME \A c \in Clients : Commutes(c), TypeOK, Mail, Once, Course, Right, Secrets, Heeded, [Next]_vars
  PROVE  Heeded'
  <1>1. Tables /\ \A d \in Clients : Place(d)
    BY DEF Course
  <1>2. \A d \in Clients : Following(d) /\ HeardOf(d)
    BY DEF Heeded
  <1>3. ASSUME NEW c \in Clients, SameServer, \A d \in Clients \ {c} : Same(d),
               Following(c)', HeardOf(c)'
        PROVE  Heeded'
    <2>1. UNCHANGED <<server, conn>>
      BY <1>3 DEF SameServer, serverVars
    <2> QED
      BY <1>2, <1>3, <2>1, FollowingKept DEF Heeded
  <1>4. ASSUME NEW c \in Clients, Connect(c)
        PROVE  Heeded'
    <2>1. SameServer /\ client[c] = "start" /\ \A d \in Clients \ {c} : Same(d)
      BY <1>1, <1>4, ConnectDoes
    <2>2. c # conn'
      <3>1. conn' = conn
        BY <2>1 DEF SameServer, serverVars
      <3> QED
        BY <2>1, <3>1, NamesAssumption DEF Once, Nobody
    <2>3. Following(c)' /\ HeardOf(c)'
      BY <2>2 DEF Following, HeardOf
    <2> QED
      BY <1>3, <2>1, <2>3
  <1>5. ASSUME NEW c \in Clients, SendClientHello(c)
        PROVE  Heeded'
    <2>1. /\ SameServer /\ \A d \in Clients \ {c} : Same(d)
          /\ client[c] = "connected" /\ took'[c] = took[c] /\ heard'[c] = heard[c]
      BY <1>1, <1>5, SendClientHelloDoes
    <2>2. UNCHANGED <<server, conn>>
      BY <2>1 DEF SameServer, serverVars
    <2>3. Following(c)'
      BY <1>2, <2>1, <2>2 DEF Following
    <2>4. HeardOf(c)'
      BY <1>2, <2>1, <2>2 DEF HeardOf, Whole
    <2> QED
      BY <1>3, <2>1, <2>3, <2>4
  <1>6. ASSUME NEW c \in Clients, GcmSendMessage(c)
        PROVE  Heeded'
    <2>1. /\ SameServer /\ \A d \in Clients \ {c} : Same(d)
          /\ client[c] = "agreed" /\ took'[c] = took[c] /\ heard'[c] = heard[c] /\ secret'[c] = secret[c]
          /\ \/ client'[c] = "done" /\ up'[c] \in {up[c], <<>>}
             \/ client'[c] = "sent" /\ up'[c] \in {up[c] \o Packet(c, secret[c]), <<>>}
      BY <1>1, <1>6, GcmSendMessageDoes DEF SameSecret
    <2>2. UNCHANGED <<server, conn>>
      BY <2>1 DEF SameServer, serverVars
    <2>3. <<>> \o Packet(c, secret[c]) = Packet(c, secret[c])
      BY PacketLayout, EmptyJoined
    <2>4. Following(c)'
      BY <1>2, <2>1, <2>2, <2>3 DEF Following
    <2>5. HeardOf(c)'
      BY <1>2, <2>1, <2>2 DEF HeardOf, Whole
    <2> QED
      BY <1>3, <2>1, <2>4, <2>5
  <1>7. ASSUME NEW c \in Clients, CrashClient(c)
        PROVE  Heeded'
    <2>1. /\ SameServer /\ \A d \in Clients \ {c} : Same(d)
          /\ client[c] # "sent" /\ client'[c] = "done" /\ took'[c] = took[c] /\ heard'[c] = heard[c]
          /\ up'[c] \in {up[c], <<>>}
      BY <1>1, <1>7, CrashClientDoes
    <2>2. UNCHANGED <<server, conn>>
      BY <2>1 DEF SameServer, serverVars
    <2>3. Following(c)'
      BY <1>2, <2>1, <2>2 DEF Following
    <2>4. HeardOf(c)'
      BY <1>2, <2>1, <2>2 DEF HeardOf, Whole
    <2> QED
      BY <1>3, <2>1, <2>3, <2>4
  <1>8. ASSUME NEW c \in Clients, NEW n \in 0..LenBuff, WaitForServerHello(c, n)
        PROVE  Heeded'
    <2>1. /\ SameServer /\ \A d \in Clients \ {c} : Same(d)
          /\ client[c] = "waiting" /\ client'[c] = "agreed"
          /\ took'[c].answer = n /\ took'[c].request = took[c].request
          /\ took'[c].message = took[c].message
          /\ up'[c] = up[c] /\ heard'[c] = heard[c]
      BY <1>1, <1>8, WaitForServerHelloDoes
    <2>2. UNCHANGED <<server, conn>>
      BY <2>1 DEF SameServer, serverVars
    <2>3. n # -1
      OBVIOUS
    <2>4. Following(c)'
      BY <1>2, <2>1, <2>2, <2>3 DEF Following
    <2>5. took[c].answer = -1
      BY <1>1, <2>1 DEF Place
    <2>6. HeardOf(c)'
      BY <1>2, <2>1, <2>2, <2>5 DEF HeardOf, Whole, Following
    <2> QED
      BY <1>3, <2>1, <2>4, <2>6
  <1>9. ASSUME server' \in {"accept", "request", "crashed"}
        PROVE  Heeded'
    BY <1>9 DEF Heeded, Following, HeardOf
  <1>10. CASE Accept \/ Close \/ CrashServer
    BY <1>9, <1>10 DEF Accept, Close, CrashServer
  <1>11. ASSUME NEW n \in 0..LenBuff, WaitForRequest(n)
         PROVE  Heeded'
    <2>1. /\ conn \in Clients /\ conn' = conn /\ server = "request" /\ server' = "reply"
          /\ Receive(up[conn], ClientOpen(conn), n)
          /\ client'[conn] = client[conn]
          /\ up'[conn] = From(up[conn], n) /\ took'[conn].request = n
      BY <1>1, <1>11, WaitForRequestDoes
    <2>2. ASSUME n = HelloLength
          PROVE  client[conn] # "connected" /\ up'[conn] = <<>>
      <3>1. up[conn] \in {<<>>, HelloText(hello[conn])}
        BY <1>1, <2>1 DEF Place, Asking
      <3>2. n # 0
        BY <2>2, HelloIsSequence
      <3>3. up[conn] = HelloText(hello[conn]) /\ up[conn] # <<>>
        BY <2>1, <3>1, <3>2, EmptySequence, ReceivesUpTo
      <3>4. Sequence(up[conn]) /\ Len(up[conn]) = n
        BY <2>2, <3>3, HelloIsSequence
      <3>5. up'[conn] = <<>>
        BY <2>1, <3>4, NothingLeft
      <3> QED
        BY <1>1, <2>1, <3>3, <3>5 DEF Place
    <2>3. \A c \in Clients : Following(c)' /\ HeardOf(c)'
      BY <2>1, <2>2 DEF Following, HeardOf
    <2> QED
      BY <2>3 DEF Heeded
  <1>12. CASE SendServerHello
    <2>1. /\ conn \in Clients /\ conn' = conn /\ server = "reply" /\ server' = "message"
          /\ client'[conn] = client[conn] /\ secret'[conn] = secret[conn]
          /\ up'[conn] = up[conn] /\ took'[conn] = took[conn]
      BY <1>1, <1>12, SendServerHelloDoes DEF SameSecret
    <2>2. \A c \in Clients : Following(c)' /\ HeardOf(c)'
      BY <1>2, <2>1 DEF Following, HeardOf
    <2> QED
      BY <2>2 DEF Heeded
  <1>13. ASSUME NEW n \in 0..LenBuff, GcmReceiveMessage(n)
         PROVE  Heeded'
    <2> DEFINE buffer == [Received(up[conn], n) EXCEPT ![LenBuff] = NUL]
    <2>1. /\ conn \in Clients /\ conn' = conn /\ server = "message" /\ server' \in {"close", "crashed"}
          /\ Receive(up[conn], ClientOpen(conn), n)
          /\ client'[conn] = client[conn] /\ took'[conn].message = n
          /\ took'[conn].request = took[conn].request /\ took'[conn].answer = took[conn].answer
          /\ n # 0 /\ 5 + LenMsg(buffer) \in 1..LenBuff => heard'[conn] = Opened(buffer)
      BY <1>1, <1>13, GcmReceiveMessageDoes
    <2>2. ASSUME took[conn].request = HelloLength, n = LenToSend(conn)
          PROVE  /\ client[conn] = "sent" /\ up[conn] = Packet(conn, secret[conn])
                 /\ took[conn].answer # -1 /\ n # 0
      <3>1. n # 0
        <4>1. Len(Padded(conn)) \in Nat
          BY <2>1, PacketLayout
        <4> QED
          BY <2>2, <4>1 DEF LenToSend
      <3>2. up[conn] # <<>>
        BY <2>1, <3>1, EmptySequence, ReceivesUpTo
      <3>3. client[conn] = "sent" /\ up[conn] = Packet(conn, secret[conn])
        BY <1>2, <2>1, <2>2, <3>2 DEF Following
      <3> QED
        BY <2>1, <3>1, <3>3 DEF Secrets, ClientSecret
    <2>3. ASSUME took[conn].request = HelloLength, took[conn].answer = HelloLength, n = LenToSend(conn)
          PROVE  heard'[conn] = Padded(conn)
      <3>1. client[conn] = "sent" /\ up[conn] = Packet(conn, secret[conn]) /\ n # 0
        BY <2>2, <2>3
      <3>2. serverSecret = secret[conn]
        BY <2>1, <2>3, <3>1, Agree DEF WholeHellosAgree, Whole
      <3>3. buffer = [Received(Packet(conn, serverSecret), LenToSend(conn)) EXCEPT ![LenBuff] = NUL]
        BY <2>3, <3>1, <3>2
      <3>4. LenToSend(conn) <= LenBuff
        BY <2>3
      <3> HIDE DEF buffer
      <3>5. 5 + LenMsg(buffer) \in 1..LenBuff /\ Opened(buffer) = Padded(conn)
        BY <2>1, <3>3, <3>4, PacketOpened
      <3> QED
        BY <2>1, <3>1, <3>5
    <2> HIDE DEF buffer
    <2>4. ASSUME NEW c \in Clients
          PROVE  Following(c)' /\ HeardOf(c)'
      <3>1. CASE c = conn
        BY <2>1, <2>2, <2>3, <3>1 DEF Following, HeardOf, Whole
      <3>2. CASE c # conn
        BY <2>1, <3>2 DEF Following, HeardOf
      <3> QED
        BY <3>1, <3>2
    <2> QED
      BY <2>4 DEF Heeded
  <1>14. ASSUME UNCHANGED vars
         PROVE  Heeded'
    <2>1. UNCHANGED <<client, secret, up, heard, took, server, conn>>
      BY <1>14 DEF vars, clientVars, serverVars
    <2> QED
      BY <2>1 DEF Heeded, Following, HeardOf, Whole
  <1> QED
    BY <1>4, <1>5, <1>6, <1>7, <1>8, <1>10, <1>11, <1>12, <1>13, <1>14 DEF Next, ClientWork, ServerWork

(* When the hellos were received whole and the message in one piece, what  *)
(* gcmReceiveMessage prints is the message, to the last byte.              *)
THEOREM MessagesAreHeard ==
  ASSUME \A c \in Clients : Commutes(c)
  PROVE  Spec => []WholeMessageHeard
  <1> DEFINE Known == TypeOK /\ Mail /\ Once /\ Course /\ Right /\ Secrets /\ Heeded
  <1>1. Init => Known
    BY TypeInit, MailInit, OnceInit, CourseInit, RightInit, SecretsInit, FollowingInit
  <1>2. Known /\ [Next]_vars => Known'
    BY TypeStep, MailStep, OnceStep, CourseStep, RightStep, SecretsStep, FollowingStep
  <1>3. Known => WholeMessageHeard
    BY DEF Heeded, HeardOf, WholeMessageHeard
  <1> QED
    BY <1>1, <1>2, <1>3, PTL DEF Spec
-----------------------------------------------------------------------------
(* Counters and places in a block *)

LEMMA SmallMultiple ==
  ASSUME NEW W \in Nat \ {0}, NEW d \in Int, -W < W * d, W * d < W
  PROVE  d = 0
  <1>1. d >= 1 => W * d >= W
    OBVIOUS
  <1>2. d <= -1 => W * d <= -W
    OBVIOUS
  <1> QED
    BY <1>1, <1>2

(* A block number and a place in the block are those of one byte only.     *)
LEMMA PlacesDiffer ==
  ASSUME NEW i \in Nat \ {0}, NEW j \in Nat \ {0},
         NumBlocks(i) = NumBlocks(j), i % BlockBytes = j % BlockBytes
  PROVE  i = j
  <1> DEFINE B == BlockBytes
             q == NumBlocks(i)
  <1>1. B \in Nat \ {0}
    BY BlockAssumption
  <1>2. ASSUME NEW k \in Nat \ {0}
        PROVE  NumBlocks(k) \in Int /\ B * NumBlocks(k) - k \in 0..B-1
    <2> DEFINE n == k + B - 1
    <2>1. n \in Nat /\ n \div B \in Int /\ n % B \in 0..B-1 /\ n = B * (n \div B) + (n % B)
      BY <1>1
    <2>2. NumBlocks(k) = n \div B
      BY DEF NumBlocks
    <2>3. B * (n \div B) - k = B - 1 - (n % B)
      BY <1>1, <2>1
    <2> HIDE DEF n
    <2> QED
      BY <1>1, <2>1, <2>2, <2>3
  <1>3. -B < i - j /\ i - j < B
    BY <1>1, <1>2
  <1>4. /\ i \div B \in Int /\ j \div B \in Int
        /\ i = B * (i \div B) + (i % B) /\ j = B * (j \div B) + (j % B)
        /\ i % B \in Int /\ j % B \in Int
    BY <1>1
  <1> DEFINE d == (i \div B) - (j \div B)
  <1>5. i - j = B * (i \div B) - B * (j \div B) /\ B * d = B * (i \div B) - B * (j \div B)
    BY <1>1, <1>4
  <1>6. d = 0
    <2>1. d \in Int /\ B * d = i - j
      BY <1>4, <1>5
    <2> HIDE DEF d
    <2> QED
      BY <1>1, <1>3, <2>1, SmallMultiple
  <1> QED
    BY <1>1, <1>4, <1>6

(* The bytes of n whole blocks lie in the blocks 1 to n.                   *)
LEMMA BlocksOfBytes ==
  ASSUME NEW n \in Nat
  PROVE  /\ NumBlocks(BlockBytes * n) = n /\ n <= BlockBytes * n /\ BlockBytes * n \in Nat
         /\ \A i \in 1..BlockBytes * n : NumBlocks(i) \in 1..n
  <1> DEFINE B == BlockBytes
  <1>1. B \in Nat \ {0} /\ B * n \in Nat /\ n <= B * n
    BY BlockAssumption
  <1>2. ASSUME NEW k \in Nat
        PROVE  /\ NumBlocks(k) \in Int
               /\ B * NumBlocks(k) <= k + B - 1 /\ k < B * NumBlocks(k) + 1
    <2> DEFINE m == k + B - 1
    <2>1. m \in Nat /\ m \div B \in Int /\ m % B \in 0..B-1 /\ m = B * (m \div B) + (m % B)
      BY <1>1
    <2>2. NumBlocks(k) = m \div B
      BY DEF NumBlocks
    <2>3. B * (m \div B) <= m /\ k < B * (m \div B) + 1
      BY <1>1, <2>1
    <2> QED
      BY <2>1, <2>2, <2>3
  <1>3. ASSUME NEW k \in 1..B * n
        PROVE  NumBlocks(k) \in 1..n
    <2> DEFINE q == NumBlocks(k)
    <2>1. q \in Int /\ B * q <= k + B - 1 /\ k <= B * q
      BY <1>1, <1>2
    <2> HIDE DEF q
    <2>2. q >= 1
      <3>1. q <= 0 => B * q <= 0
        BY <1>1, <2>1
      <3> QED
        BY <1>1, <2>1, <3>1
    <2>3. q <= n
      <3>1. q >= n + 1 => B * q >= B * n + B
        BY <1>1, <2>1
      <3> QED
        BY <1>1, <2>1, <3>1
    <2> QED
      BY <2>1, <2>2, <2>3 DEF q
  <1>4. NumBlocks(B * n) = n
    <2> DEFINE q == NumBlocks(B * n)
    <2>1. q \in Int /\ B * q <= B * n + B - 1 /\ B * n <= B * q
      BY <1>1, <1>2
    <2> HIDE DEF q
    <2>2. q <= n
      <3>1. q >= n + 1 => B * q >= B * n + B
        BY <1>1, <2>1
      <3> QED
        BY <1>1, <2>1, <3>1
    <2>3. q >= n
      <3>1. q <= n - 1 => B * q <= B * n - B
        BY <1>1, <2>1
      <3> QED
        BY <1>1, <2>1, <3>1
    <2> QED
      BY <2>1, <2>2, <2>3 DEF q
  <1> QED
    BY <1>1, <1>3, <1>4

LEMMA IncrementedKey ==
  ASSUME NEW x \in Keys
  PROVE  Increment(x) \in Keys
  <1>1. Words \in Nat \ {0} /\ DOMAIN x = 1..KeyWords
    BY BlockAssumption DEF Keys
  <1>2. \A i \in 1..KeyWords : (x[i] + 1) % Words \in 0..Words-1 /\ x[i] \in 0..Words-1
    BY <1>1 DEF Keys
  <1> DEFINE Full(i) == LongIsWord /\ x[i] = Words - 1
             last == CHOOSE i \in DOMAIN x : ~Full(i) /\ \A j \in i+1..Len(x) : Full(j)
  <1>3. Increment(x) =
          [i \in DOMAIN x |-> IF i < last THEN x[i] ELSE IF i = last THEN (x[i] + 1) % Words ELSE 0]
    BY DEF Increment
  <1> HIDE DEF last
  <1>4. \A i \in 1..KeyWords :
          (IF i < last THEN x[i] ELSE IF i = last THEN (x[i] + 1) % Words ELSE 0) \in 0..Words-1
    BY <1>1, <1>2
  <1> QED
    BY <1>1, <1>3, <1>4 DEF Keys

(* Of the words that are not full one is the last.                         *)
LEMMA LastExists ==
  ASSUME NEW n \in Nat, NEW Open, Open \cap (1..n) # {}
  PROVE  \E i \in 1..n : i \in Open /\ \A j \in i+1..n : j \notin Open
  <1> DEFINE T == {m \in 0..n : Open \cap (1..m) # {} =>
                     \E i \in 1..m : i \in Open /\ \A j \in i+1..m : j \notin Open}
  <1>1. 0 \in T
    OBVIOUS
  <1>2. ASSUME NEW m \in 0..n-1, m \in T
        PROVE  m + 1 \in T
    <2>1. CASE m + 1 \in Open
      <3>1. m + 1 \in 1..m+1 /\ \A j \in (m+1)+1..m+1 : j \notin Open
        OBVIOUS
      <3> QED
        BY <2>1, <3>1
    <2>2. CASE m + 1 \notin Open
      <3>1. SUFFICES ASSUME Open \cap (1..m+1) # {}
                     PROVE  \E i \in 1..m+1 : i \in Open /\ \A j \in i+1..m+1 : j \notin Open
        OBVIOUS
      <3>2. Open \cap (1..m) # {}
        BY <2>2, <3>1
      <3>3. PICK i \in 1..m : i \in Open /\ \A j \in i+1..m : j \notin Open
        BY <1>2, <3>2
      <3>4. \A j \in i+1..m+1 : j \notin Open
        BY <2>2, <3>3
      <3> QED
        BY <3>3, <3>4
    <2> QED
      BY <2>1, <2>2
  <1>3. \A m \in 0..n : m \in T
    <2> HIDE DEF T
    <2>1. 0 \in Int /\ n \in Int
      OBVIOUS
    <2> QED
      BY <1>1, <1>2, <2>1, RangeInduction, Zenon
  <1>4. n \in T
    BY <1>3
  <1> QED
    BY <1>4

(* The last word goes up by one and wraps round.                           *)
LEMMA IncrementLast ==
  ASSUME NEW x \in Keys, LongIsWord => \E w \in 1..KeyWords : x[w] # Words - 1
  PROVE  Increment(x)[KeyWords] = IF x[KeyWords] = Words - 1 THEN 0 ELSE x[KeyWords] + 1
  <1> DEFINE Full(i) == LongIsWord /\ x[i] = Words - 1
             Last(i) == ~Full(i) /\ \A j \in i+1..Len(x) : Full(j)
             last == CHOOSE i \in DOMAIN x : Last(i)
  <1>1. /\ Words \in Nat \ {0} /\ KeyWords \in Nat \ {0} /\ DOMAIN x = 1..KeyWords /\ Len(x) = KeyWords
        /\ x[KeyWords] \in 0..Words-1
    <2>1. Words \in Nat \ {0} /\ KeyWords \in Nat \ {0} /\ DOMAIN x = 1..KeyWords
          /\ x = [i \in 1..KeyWords |-> x[i]]
      BY BlockAssumption, SizesAssumption DEF Keys
    <2>2. Len(x) = KeyWords
      BY <2>1, TableIsSequence
    <2>3. x[KeyWords] \in 0..Words-1
      BY <2>1 DEF Keys
    <2> QED
      BY <2>1, <2>2, <2>3
  <1>2. Increment(x) =
          [i \in DOMAIN x |-> IF i < last THEN x[i] ELSE IF i = last THEN (x[i] + 1) % Words ELSE 0]
    BY DEF Increment
  <1>3. last \in 1..KeyWords /\ Last(last)
    <2> DEFINE Open == {i \in 1..KeyWords : ~Full(i)}
    <2>1. Open \cap (1..KeyWords) # {}
      <3>1. CASE ~LongIsWord
        BY <1>1, <3>1
      <3>2. CASE LongIsWord
        BY <3>2
      <3> QED
        BY <3>1, <3>2
    <2>2. PICK i \in 1..KeyWords : i \in Open /\ \A j \in i+1..KeyWords : j \notin Open
      <3> HIDE DEF Open
      <3> QED
        BY <1>1, <2>1, LastExists
    <2>3. Last(i)
      BY <1>1, <2>2
    <2> HIDE DEF Last
    <2> QED
      BY <1>1, <2>3
  <1> HIDE DEF last
  <1>4. Increment(x)[KeyWords] =
          IF KeyWords < last THEN x[KeyWords]
          ELSE IF KeyWords = last THEN (x[KeyWords] + 1) % Words ELSE 0
    BY <1>1, <1>2
  <1>5. CASE last = KeyWords
    <2>1. (x[KeyWords] + 1) % Words = IF x[KeyWords] = Words - 1 THEN 0 ELSE x[KeyWords] + 1
      BY <1>1
    <2> QED
      BY <1>1, <1>4, <1>5, <2>1
  <1>6. CASE last # KeyWords
    <2>1. last < KeyWords /\ KeyWords \in last+1..Len(x)
      BY <1>1, <1>3, <1>6
    <2>2. x[KeyWords] = Words - 1
      BY <1>3, <2>1
    <2> QED
      BY <1>1, <1>3, <1>4, <1>6, <2>1, <2>2
  <1> QED
    BY <1>5, <1>6

LEMMA CounterRule ==
  ASSUME NEW iv \in Keys, NEW n \in Nat
  PROVE  /\ Counters(iv, n)[0] = iv
         /\ \A i \in 1..n : Counters(iv, n)[i-1] \in Keys /\ Counters(iv, n)[i] = Increment(Counters(iv, n)[i-1])
  <1> DEFINE step == [i \in 1..n |-> [x \in Keys |-> Increment(x)]]
             counter == CHOOSE counter :
                          counter = [i \in 0..n |-> IF i = 0 THEN iv ELSE Increment(counter[i-1])]
  <1>1. PICK f \in [0..n -> Keys] : Follows(f, 0, n, iv, step)
    <2>1. \A i \in 0+1..n : \A x \in Keys : step[i][x] \in Keys
      BY IncrementedKey
    <2> HIDE DEF step
    <2> QED
      BY <2>1, 0 \in Int, n \in Int, RecursionExists, Zenon
  <1>2. f[0] = iv /\ \A i \in 1..n : f[i-1] \in Keys /\ f[i] = Increment(f[i-1])
    <2>1. ASSUME NEW i \in 1..n
          PROVE  f[i-1] \in Keys /\ f[i] = Increment(f[i-1])
      <3>1. i - 1 \in 0..n /\ i \in 0+1..n
        OBVIOUS
      <3>2. f[i-1] \in Keys /\ f[i] = step[i][f[i-1]]
        BY <1>1, <3>1 DEF Follows
      <3> QED
        BY <3>2
    <2> QED
      BY <1>1, <2>1 DEF Follows
  <1>3. f = [i \in 0..n |-> IF i = 0 THEN iv ELSE Increment(f[i-1])]
    <2>1. \A i \in 0..n : f[i] = IF i = 0 THEN iv ELSE Increment(f[i-1])
      BY <1>2
    <2> QED
      BY <2>1
  <1>4. counter = [i \in 0..n |-> IF i = 0 THEN iv ELSE Increment(counter[i-1])]
    BY <1>3
  <1> HIDE DEF counter
  <1>5. counter[0] = iv /\ \A i \in 1..n : counter[i] = Increment(counter[i-1])
    <2>1. 0 \in 0..n /\ \A i \in 1..n : i \in 0..n /\ i # 0
      OBVIOUS
    <2> QED
      BY <1>4, <2>1
  <1>6. \A i \in 0..n : counter[i] \in Keys
    <2> DEFINE T == {i \in 0..n : counter[i] \in Keys}
    <2>1. 0 \in T
      BY <1>5
    <2>2. ASSUME NEW i \in 0..n-1, i \in T
          PROVE  i + 1 \in T
      <3>1. i + 1 \in 1..n /\ i + 1 \in 0..n /\ (i + 1) - 1 = i
        OBVIOUS
      <3>2. counter[i+1] = Increment(counter[i])
        BY <1>5, <3>1
      <3> QED
        BY <2>2, <3>1, <3>2, IncrementedKey
    <2>3. \A i \in 0..n : i \in T
      <3> HIDE DEF T
      <3> QED
        BY <2>1, <2>2, 0 \in Int, n \in Int, RangeInduction, Zenon
    <2> QED
      BY <2>3
  <1>7. \A i \in 1..n : i - 1 \in 0..n
    OBVIOUS
  <1> QED
    BY <1>5, <1>6, <1>7 DEF Counters, counter

(* Fewer than Words increments give counters that all differ.              *)
LEMMA CountersDiffer ==
  ASSUME NEW iv \in Keys, NEW n \in Nat, n < Words,
         LongIsWord => \A j \in 0..n-1 : \E w \in 1..KeyWords : Counters(iv, n)[j][w] # Words - 1
  PROVE  \A i, j \in 0..n : Counters(iv, n)[i] = Counters(iv, n)[j] => i = j
  <1> DEFINE counter == Counters(iv, n)
             last == iv[KeyWords]
             T == {j \in 0..n : counter[j][KeyWords] = IF last + j < Words THEN last + j ELSE last + j - Words}
  <1>1. Words \in Nat \ {0} /\ KeyWords \in 1..KeyWords /\ last \in 0..Words-1
    BY BlockAssumption, SizesAssumption DEF Keys
  <1>2. 0 \in T
    <2>1. last + 0 < Words /\ last + 0 = last
      BY <1>1
    <2>2. counter[0] = iv
      BY CounterRule
    <2> QED
      BY <2>1, <2>2
  <1>3. ASSUME NEW j \in 0..n-1, j \in T
        PROVE  j + 1 \in T
    <2>1. j + 1 \in 1..n /\ (j + 1) - 1 = j
      OBVIOUS
    <2>2. counter[j] \in Keys /\ counter[j+1] = Increment(counter[j])
      BY <2>1, CounterRule
    <2>3. LongIsWord => \E w \in 1..KeyWords : counter[j][w] # Words - 1
      OBVIOUS
    <2>4. counter[j][KeyWords] = IF last + j < Words THEN last + j ELSE last + j - Words
      BY <1>3
    <2> HIDE DEF counter
    <2>5. counter[j+1][KeyWords] = IF counter[j][KeyWords] = Words - 1 THEN 0 ELSE counter[j][KeyWords] + 1
      BY <2>2, <2>3, IncrementLast
    <2> HIDE DEF last
    <2>6. counter[j+1][KeyWords] = IF last + (j + 1) < Words THEN last + (j + 1) ELSE last + (j + 1) - Words
      BY <1>1, <2>4, <2>5
    <2> QED
      BY <2>1, <2>6
  <1>4. \A j \in 0..n : j \in T
    <2> HIDE DEF T
    <2> QED
      BY <1>2, <1>3, 0 \in Int, n \in Int, RangeInduction, Zenon
  <1>5. ASSUME NEW i \in 0..n, NEW j \in 0..n, counter[i] = counter[j]
        PROVE  i = j
    <2>1. /\ counter[i][KeyWords] = IF last + i < Words THEN last + i ELSE last + i - Words
          /\ counter[j][KeyWords] = IF last + j < Words THEN last + j ELSE last + j - Words
      BY <1>4
    <2> HIDE DEF counter, last
    <2> QED
      BY <1>1, <1>5, <2>1
  <1> QED
    BY <1>5
-----------------------------------------------------------------------------
(* What is sealed on a stream *)

Plain(s) == Sequence(s) /\ \A i \in 1..Len(s) : s[i].is # "sealed"
SealedOnce(s, iv) ==
  /\ Sequence(s)
  /\ \A i \in 1..Len(s) : s[i].is = "sealed" =>
       /\ s[i].v[1][2] # iv
       /\ \A j \in 1..Len(s) : s[j].is = "sealed" /\ s[j].v[1] = s[i].v[1] => j = i

LEMMA PlainIsOnce ==
  ASSUME NEW s, NEW iv, Plain(s)
  PROVE  SealedOnce(s, iv)
  BY DEF Plain, SealedOnce

LEMMA JoinedSealed ==
  ASSUME NEW s, NEW t, NEW iv
  PROVE  /\ Plain(s) /\ Plain(t) => Plain(s \o t)
         /\ Plain(s) /\ SealedOnce(t, iv) => SealedOnce(s \o t, iv)
         /\ SealedOnce(s, iv) /\ Plain(t) => SealedOnce(s \o t, iv)
  <1>1. SUFFICES ASSUME Sequence(s), Sequence(t)
                 PROVE  /\ Plain(s) /\ Plain(t) => Plain(s \o t)
                        /\ Plain(s) /\ SealedOnce(t, iv) => SealedOnce(s \o t, iv)
                        /\ SealedOnce(s, iv) /\ Plain(t) => SealedOnce(s \o t, iv)
    BY DEF Plain, SealedOnce
  <1> DEFINE u == s \o t
  <1>2. Len(s) \in Nat /\ Len(t) \in Nat
    BY <1>1 DEF Sequence
  <1>3. /\ Sequence(u) /\ Len(u) = Len(s) + Len(t)
        /\ \A i \in 1..Len(u) :
             \/ i \in 1..Len(s) /\ u[i] = s[i]
             \/ i - Len(s) \in 1..Len(t) /\ u[i] = t[i - Len(s)]
    BY <1>1, JoinedIsSequence
  <1> HIDE DEF u
  <1>4. ASSUME Plain(s), Plain(t)
        PROVE  Plain(u)
    BY <1>3, <1>4 DEF Plain
  <1>5. ASSUME Plain(s), SealedOnce(t, iv)
        PROVE  SealedOnce(u, iv)
    <2>1. ASSUME NEW i \in 1..Len(u), u[i].is = "sealed"
          PROVE  i - Len(s) \in 1..Len(t) /\ u[i] = t[i - Len(s)]
      BY <1>3, <1>5, <2>1 DEF Plain
    <2>2. ASSUME NEW i \in 1..Len(u), u[i].is = "sealed",
                 NEW j \in 1..Len(u), u[j].is = "sealed", u[j].v[1] = u[i].v[1]
          PROVE  j = i
      <3>1. /\ i - Len(s) \in 1..Len(t) /\ u[i] = t[i - Len(s)]
            /\ j - Len(s) \in 1..Len(t) /\ u[j] = t[j - Len(s)]
        BY <2>1, <2>2
      <3>2. j - Len(s) = i - Len(s)
        BY <1>5, <2>2, <3>1 DEF SealedOnce
      <3> QED
        BY <1>2, <3>2
    <2> QED
      BY <1>3, <1>5, <2>1, <2>2 DEF SealedOnce
  <1>6. ASSUME SealedOnce(s, iv), Plain(t)
        PROVE  SealedOnce(u, iv)
    <2>1. ASSUME NEW i \in 1..Len(u), u[i].is = "sealed"
          PROVE  i \in 1..Len(s) /\ u[i] = s[i]
      BY <1>3, <1>6, <2>1 DEF Plain
    <2> QED
      BY <1>3, <1>6, <2>1 DEF SealedOnce
  <1> QED
    BY <1>4, <1>5, <1>6 DEF u

LEMMA SealedRest ==
  ASSUME NEW s, Sequence(s), NEW n \in Nat, NEW iv
  PROVE  /\ Plain(s) => Plain(From(s, n))
         /\ SealedOnce(s, iv) => SealedOnce(From(s, n), iv)
  <1> DEFINE t == From(s, n)
  <1>1. Len(s) \in Nat
    BY DEF Sequence
  <1>2. Sequence(t) /\ \A i \in 1..Len(t) : i + n \in 1..Len(s) /\ t[i] = s[i + n]
    <2>1. n + 1 \in Nat \ {0} /\ Len(s) \in Int /\ Len(s) <= Len(s)
      BY <1>1
    <2>2. /\ Sequence(SubSeq(s, n + 1, Len(s)))
          /\ \A i \in 1..Len(SubSeq(s, n + 1, Len(s))) :
               i + (n + 1) - 1 \in 1..Len(s) /\ SubSeq(s, n + 1, Len(s))[i] = s[i + (n + 1) - 1]
      BY <2>1, PartIsSequence
    <2>3. Len(t) \in Nat /\ t = SubSeq(s, n + 1, Len(s))
      BY <2>2 DEF From, Sequence
    <2>4. \A i \in 1..Len(t) : i + (n + 1) - 1 = i + n
      OBVIOUS
    <2> QED
      BY <2>2, <2>3, <2>4
  <1> HIDE DEF t
  <1>3. Plain(s) => Plain(t)
    BY <1>2 DEF Plain
  <1>4. ASSUME SealedOnce(s, iv)
        PROVE  SealedOnce(t, iv)
    <2>1. ASSUME NEW i \in 1..Len(t), t[i].is = "sealed",
                 NEW j \in 1..Len(t), t[j].is = "sealed", t[j].v[1] = t[i].v[1]
          PROVE  j = i
      <3>1. j + n = i + n
        BY <1>2, <1>4, <2>1 DEF SealedOnce
      <3> QED
        BY <3>1
    <2> QED
      BY <1>2, <1>4, <2>1, ZenonT(40) DEF SealedOnce
  <1> QED
    BY <1>3, <1>4 DEF t

LEMMA CipherOnce ==
  ASSUME CountersGoOn, NEW c \in Clients, LenToSend(c) <= LenBuff, NEW key
  PROVE  SealedOnce(Cipher(c, key), Iv[c])
  <1> DEFINE n == NumBlocks(LenText[c])
             len == BlockBytes * n
             counter == Counters(Iv[c], n)
             stream(i) == Stream(key, counter[NumBlocks(i)], i % BlockBytes)
             sealed == Cipher(c, key)
  <1>1. n \in Nat
    <2>1. LenText[c] \in Nat
      BY SizesAssumption
    <2> QED
      BY <2>1, Blocks
  <1>2. /\ NumBlocks(len) = n /\ n <= len /\ len \in Nat
        /\ \A i \in 1..len : NumBlocks(i) \in 1..n
    <2> HIDE DEF n
    <2> QED
      BY <1>1, BlocksOfBytes
  <1>3. Len(Padded(c)) = len
    <2>1. Padded(c) = [i \in 1..len |-> Padded(c)[i]]
      BY DEF Padded
    <2> QED
      BY <1>2, <2>1, TableIsSequence
  <1>4. n < Words
    <2>1. LenToSend(c) = 3 + len + 3
      BY <1>3 DEF LenToSend
    <2>2. LenBuff <= Words /\ LenBuff \in Nat /\ Words \in Nat
      BY SizesAssumption, BlockAssumption
    <2> HIDE DEF len, n
    <2> QED
      BY <1>1, <1>2, <2>1, <2>2
  <1>5. \A i, j \in 0..n : counter[i] = counter[j] => i = j
    <2>1. Iv[c] \in Keys
      BY KeysAssumption
    <2>2. LongIsWord => \A j \in 0..n-1 : \E w \in 1..KeyWords : Counters(Iv[c], n)[j][w] # Words - 1
      BY <1>2, <1>3 DEF CountersGoOn
    <2> HIDE DEF n
    <2> QED
      BY <1>1, <1>4, <2>1, <2>2, CountersDiffer
  <1>6. counter[0] = Iv[c]
    BY <1>1, KeysAssumption, CounterRule
  <1>7. sealed = [i \in 1..len |-> XorByte(Padded(c)[i], stream(i))]
    BY <1>2, <1>3 DEF Cipher, Encrypted
  <1> HIDE DEF n, len, counter
  <1>8. Sequence(sealed) /\ Len(sealed) = len
    BY <1>3, TextIsPlain, EncryptedTwice DEF Cipher, NoTag
  <1>9. ASSUME NEW i \in 1..len
        PROVE  /\ sealed[i].v[1] = stream(i)
               /\ stream(i)[2] = counter[NumBlocks(i)] /\ stream(i)[3] = i % BlockBytes
    <2>1. Padded(c)[i].is # "sealed"
      BY <1>3, TextIsPlain
    <2>2. sealed[i] = Sealed(Padded(c)[i], stream(i))
      BY <1>7, <2>1 DEF XorByte
    <2> QED
      BY <2>2 DEF Sealed, Stream
  <1> HIDE DEF stream, sealed
  <1>10. ASSUME NEW i \in 1..len
         PROVE  sealed[i].v[1][2] # Iv[c]
    <2>1. NumBlocks(i) \in 0..n /\ NumBlocks(i) # 0 /\ 0 \in 0..n
      BY <1>1, <1>2
    <2>2. counter[NumBlocks(i)] # counter[0]
      BY <1>5, <2>1
    <2> QED
      BY <1>6, <1>9, <2>2
  <1>11. ASSUME NEW i \in 1..len, NEW j \in 1..len, sealed[j].v[1] = sealed[i].v[1]
         PROVE  j = i
    <2>1. counter[NumBlocks(i)] = counter[NumBlocks(j)] /\ i % BlockBytes = j % BlockBytes
      BY <1>9, <1>11
    <2>2. NumBlocks(i) \in 0..n /\ NumBlocks(j) \in 0..n
      BY <1>1, <1>2
    <2>3. NumBlocks(i) = NumBlocks(j)
      BY <1>5, <2>1, <2>2
    <2>4. i \in Nat \ {0} /\ j \in Nat \ {0}
      OBVIOUS
    <2> QED
      BY <2>1, <2>3, <2>4, PlacesDiffer
  <1>12. SealedOnce(sealed, Iv[c])
    BY <1>8, <1>10, <1>11 DEF SealedOnce
  <1> QED
    BY <1>12 DEF sealed

LEMMA PacketOnce ==
  ASSUME CountersGoOn, NEW c \in Clients, LenToSend(c) <= LenBuff, NEW key
  PROVE  SealedOnce(Packet(c, key), Iv[c])
  <1> DEFINE end == <<Vector(Iv[c]), GcmTag(Padded(c), Iv[c], key, FALSE), NUL>>
             head == Digits(Len(Padded(c)), 3)
  <1>1. Plain(head)
    BY DigitsAreDigits DEF OnlyDigits, Plain
  <1>2. Plain(end)
    <2>1. end[1].is = "iv" /\ end[2].is = "tag" /\ end[3].is = "nul"
      BY DEF Vector, NUL, GcmTag, Tag
    <2>2. Len(end) = 3 /\ end \in Seq({end[1], end[2], end[3]})
      OBVIOUS
    <2>3. Sequence(end)
      BY <2>2, SeqIsSequence
    <2> HIDE DEF end
    <2>4. \A i \in 1..Len(end) : i = 1 \/ i = 2 \/ i = 3
      BY <2>2
    <2> QED
      BY <2>1, <2>3, <2>4 DEF Plain
  <1> HIDE DEF end, head
  <1>3. SealedOnce(head \o Cipher(c, key), Iv[c])
    BY <1>1, CipherOnce, JoinedSealed
  <1>4. SealedOnce((head \o Cipher(c, key)) \o end, Iv[c])
    BY <1>2, <1>3, JoinedSealed
  <1> QED
    BY <1>4 DEF Packet, end, head

Sealing ==
  \A c \in Clients : SealedOnce(up[c], Iv[c]) /\ (client[c] # "sent" => Plain(up[c]))

LEMMA NothingIsPlain == Plain(<<>>)
  BY EmptySequence DEF Plain

LEMMA SealingInit == Init => Sealing
  <1> SUFFICES ASSUME Init
               PROVE  Sealing
    OBVIOUS
  <1>1. \A c \in Clients : up[c] = <<>>
    BY DEF Init
  <1> QED
    BY <1>1, NothingIsPlain, PlainIsOnce DEF Sealing

LEMMA SealingStep ==
  ASSUME CountersGoOn, TypeOK, Mail, Course, Sealing, [Next]_vars
  PROVE  Sealing'
  <1> DEFINE Holds(c) == SealedOnce(up[c], Iv[c]) /\ (client[c] # "sent" => Plain(up[c]))
  <1>1. Tables
    BY DEF Course
  <1>2. \A d \in Clients : Holds(d)
    BY DEF Sealing
  <1>3. ASSUME NEW c \in Clients, client'[c] = client[c], up'[c] = up[c]
        PROVE  Holds(c)'
    BY <1>2, <1>3
  <1>4. ASSUME NEW c \in Clients, \A d \in Clients \ {c} : Same(d), Holds(c)'
        PROVE  Sealing'
    BY <1>3, <1>4 DEF Same, Sealing
  <1>5. ASSUME NEW c \in Clients, Connect(c) \/ \E n \in 0..LenBuff : WaitForServerHello(c, n)
        PROVE  Sealing'
    <2>1. /\ \A d \in Clients \ {c} : Same(d)
          /\ client[c] \in {"start", "waiting"} /\ up'[c] = up[c]
      BY <1>1, <1>5, ConnectDoes, WaitForServerHelloDoes
    <2>2. Plain(up[c])
      BY <1>2, <2>1
    <2> QED
      BY <1>2, <1>4, <2>1, <2>2
  <1>6. ASSUME NEW c \in Clients, SendClientHello(c)
        PROVE  Sealing'
    <2>1. /\ \A d \in Clients \ {c} : Same(d)
          /\ client[c] = "connected" /\ up'[c] = up[c] \o HelloText(hello[c])
      BY <1>1, <1>6, SendClientHelloDoes
    <2>2. Plain(up[c])
      BY <1>2, <2>1
    <2>3. Plain(HelloText(hello[c]))
      BY HelloIsDigits DEF OnlyDigits, Plain
    <2>4. Plain(up'[c])
      BY <2>1, <2>2, <2>3, JoinedSealed
    <2>5. Holds(c)'
      BY <2>4, PlainIsOnce
    <2> QED
      BY <1>4, <2>1, <2>5
  <1>7. ASSUME NEW c \in Clients, GcmSendMessage(c)
        PROVE  Sealing'
    <2>1. /\ \A d \in Clients \ {c} : Same(d)
          /\ client[c] = "agreed"
          /\ \/ client'[c] = "done" /\ up'[c] \in {up[c], <<>>}
             \/ /\ client'[c] = "sent" /\ up'[c] \in {up[c] \o Packet(c, secret[c]), <<>>}
                /\ LenToSend(c) <= LenBuff
      BY <1>1, <1>7, GcmSendMessageDoes
    <2>2. Plain(up[c])
      BY <1>2, <2>1
    <2>3. CASE client'[c] = "done" /\ up'[c] \in {up[c], <<>>}
      <3>1. Plain(up'[c])
        BY <2>2, <2>3, NothingIsPlain
      <3>2. Holds(c)'
        BY <3>1, PlainIsOnce
      <3> QED
        BY <1>4, <2>1, <3>2
    <2>4. CASE /\ client'[c] = "sent" /\ up'[c] \in {up[c] \o Packet(c, secret[c]), <<>>}
               /\ LenToSend(c) <= LenBuff
      <3>1. SealedOnce(Packet(c, secret[c]), Iv[c])
        BY <2>4, PacketOnce
      <3>2. SealedOnce(up[c] \o Packet(c, secret[c]), Iv[c])
        BY <2>2, <3>1, JoinedSealed
      <3>3. SealedOnce(up'[c], Iv[c])
        BY <2>4, <3>2, NothingIsPlain, PlainIsOnce
      <3>4. Holds(c)'
        BY <2>4, <3>3
      <3> QED
        BY <1>4, <2>1, <3>4
    <2> QED
      BY <2>1, <2>3, <2>4
  <1>8. ASSUME NEW c \in Clients, CrashClient(c)
        PROVE  Sealing'
    <2>1. /\ \A d \in Clients \ {c} : Same(d)
          /\ client[c] # "sent" /\ up'[c] \in {up[c], <<>>}
      BY <1>1, <1>8, CrashClientDoes
    <2>2. Plain(up'[c])
      BY <1>2, <2>1, NothingIsPlain
    <2>3. Holds(c)'
      BY <2>2, PlainIsOnce
    <2> QED
      BY <1>4, <2>1, <2>3
  <1>9. ASSUME NEW n \in 0..LenBuff, WaitForRequest(n) \/ GcmReceiveMessage(n)
        PROVE  Sealing'
    <2>1. /\ conn \in Clients /\ \A d \in Clients \ {conn} : Same(d)
          /\ client'[conn] = client[conn] /\ up'[conn] = From(up[conn], n)
      BY <1>1, <1>9, WaitForRequestDoes, GcmReceiveMessageDoes
    <2>2. Sequence(up[conn]) /\ n \in Nat
      BY <1>2, <2>1, SizesAssumption DEF SealedOnce
    <2>3. Holds(conn)
      BY <1>2, <2>1
    <2>4. SealedOnce(up'[conn], Iv[conn]) /\ (client'[conn] # "sent" => Plain(up'[conn]))
      BY <2>1, <2>2, <2>3, SealedRest
    <2>5. ASSUME NEW c \in Clients
          PROVE  Holds(c)'
      BY <1>3, <2>1, <2>4 DEF Same
    <2> QED
      BY <2>5 DEF Sealing
  <1>10. CASE SendServerHello
    <2>1. /\ \A d \in Clients \ {conn} : Same(d)
          /\ client'[conn] = client[conn] /\ up'[conn] = up[conn]
      BY <1>1, <1>10, SendServerHelloDoes
    <2>2. \A c \in Clients : client'[c] = client[c] /\ up'[c] = up[c]
      BY <2>1 DEF Same
    <2> QED
      BY <1>3, <2>2 DEF Sealing
  <1>11. CASE Accept \/ Close \/ CrashServer
    <2>1. \A d \in Clients : SameBut(d) \/ Same(d)
      BY <1>1, <1>11, AcceptDoes, CloseDoes, CrashServerDoes
    <2> QED
      BY <1>3, <2>1 DEF Same, SameBut, Sealing
  <1>12. ASSUME UNCHANGED vars
         PROVE  Sealing'
    <2>1. UNCHANGED <<client, up>>
      BY <1>12 DEF vars, clientVars
    <2> QED
      BY <2>1 DEF Sealing
  <1> QED
    BY <1>5, <1>6, <1>7, <1>8, <1>9, <1>10, <1>11, <1>12 DEF Next, ClientWork, ServerWork

(* No byte of a message is encrypted with a part of the key stream that    *)
(* encrypts another or the tag: gcmSendMessage increments the counter for  *)
(* each block, and does so less often than a word has values.              *)
THEOREM KeystreamIsFresh ==
  ASSUME CountersGoOn
  PROVE  Spec => []KeystreamOnce
  <1> DEFINE Known == TypeOK /\ Mail /\ Once /\ Course /\ Sealing
  <1>1. Init => Known
    BY TypeInit, MailInit, OnceInit, CourseInit, SealingInit
  <1>2. Known /\ [Next]_vars => Known'
    BY TypeStep, MailStep, OnceStep, CourseStep, SealingStep
  <1>3. Known => KeystreamOnce
    BY DEF Sealing, SealedOnce, KeystreamOnce
  <1> QED
    BY <1>1, <1>2, <1>3, PTL DEF Spec
=============================================================================
