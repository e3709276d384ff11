------------------------------ MODULE CodecProofs ------------------------------
(***************************************************************************)
(* Proofs about Codec, for all documents and for all changes of a byte:    *)
(* the base64 of bytes gives them back, a reader has what was encoded, or  *)
(* exits when a length byte has wrapped round, and whatever it is given,   *)
(* what it has fits its fields; so equal hashes are of equal TBS.          *)
(***************************************************************************)
EXTENDS Codec, TLAPS

-----------------------------------------------------------------------------
(* base64.c: what is encoded is decoded *)
LEMMA CharRight ==
  ASSUME NEW v \in 0..63
  PROVE  /\ Char(v) \in Int /\ Char(v) # Equals
         /\ CharValue(Char(v)) = v
  <1>1. CASE v < 26
    <2>1. Char(v) = 65 + v
      BY <1>1 DEF Char
    <2> QED
      BY <1>1, <2>1 DEF CharValue, Equals
  <1>2. CASE v \in 26..51
    <2>1. Char(v) = 97 + v - 26
      BY <1>2 DEF Char
    <2> QED
      BY <1>2, <2>1 DEF CharValue, Equals
  <1>3. CASE v \in 52..61
    <2>1. Char(v) = 48 + v - 52
      BY <1>3 DEF Char
    <2> QED
      BY <1>3, <2>1 DEF CharValue, Equals
  <1>4. CASE v = 62
    <2>1. Char(v) = 43
      BY <1>4 DEF Char
    <2> QED
      BY <1>4, <2>1 DEF CharValue, Equals
  <1>5. CASE v = 63
    <2>1. Char(v) = 47
      BY <1>5 DEF Char
    <2> QED
      BY <1>5, <2>1 DEF CharValue, Equals
  <1> QED
    BY <1>1, <1>2, <1>3, <1>4, <1>5

LEMMA ByteAt ==
  ASSUME NEW x \in Seq(Byte), NEW i \in Nat
  PROVE  B(x, i) \in Byte /\ B(x, i) \in Int /\ (i < Len(x) => B(x, i) = x[i+1])
  <1>1. CASE i < Len(x)
    <2>1. i + 1 \in 1..Len(x)
      BY <1>1
    <2>2. x[i+1] \in Byte
      BY <2>1
    <2>3. B(x, i) = x[i+1]
      BY <1>1 DEF B
    <2>4. \A b \in Byte : b \in Int
      BY DEF Byte
    <2> QED
      BY <2>2, <2>3, <2>4
  <1>2. CASE ~(i < Len(x))
    BY <1>2 DEF B, Byte
  <1> QED
    BY <1>1, <1>2

LEMMA ChunkIs ==
  ASSUME NEW x, NEW i \in Nat, NEW at \in Nat, (i * 6) \div 8 = at
  PROVE  /\ i % 4 = 0 => Chunk(x, i) = B(x, at) \div 4
         /\ i % 4 = 1 => Chunk(x, i) = (B(x, at) % 4) * 16 + B(x, at+1) \div 16
         /\ i % 4 = 2 => Chunk(x, i) = (B(x, at) % 16) * 4 + B(x, at+1) \div 64
         /\ i % 4 = 3 => Chunk(x, i) = B(x, at) % 64
  <1> DEFINE r == i % 4
             Q(k) == CASE k = 0 -> B(x, at) \div 4
                       [] k = 1 -> (B(x, at) % 4) * 16 + B(x, at + 1) \div 16
                       [] k = 2 -> (B(x, at) % 16) * 4 + B(x, at + 1) \div 64
                       [] k = 3 -> B(x, at) % 64
  <1>1. Chunk(x, i) = Q(r)
    BY DEF Chunk
  <1>2. /\ Q(0) = B(x, at) \div 4
        /\ Q(1) = (B(x, at) % 4) * 16 + B(x, at + 1) \div 16
        /\ Q(2) = (B(x, at) % 16) * 4 + B(x, at + 1) \div 64
        /\ Q(3) = B(x, at) % 64
    OBVIOUS
  <1> HIDE DEF Q, r
  <1> QED
    BY <1>1, <1>2 DEF r

(* The four characters of the k-th three bytes                             *)
LEMMA ChunksAre ==
  ASSUME NEW x \in Seq(Byte), NEW k \in Nat
  PROVE  /\ Chunk(x, 4*k) = B(x, 3*k) \div 4
         /\ Chunk(x, 4*k+1) = (B(x, 3*k) % 4) * 16 + B(x, 3*k+1) \div 16
         /\ Chunk(x, 4*k+2) = (B(x, 3*k+1) % 16) * 4 + B(x, 3*k+2) \div 64
         /\ Chunk(x, 4*k+3) = B(x, 3*k+2) % 64
  <1>1. /\ ((4*k) * 6) \div 8 = 3*k /\ (4*k) % 4 = 0
        /\ ((4*k+1) * 6) \div 8 = 3*k /\ (4*k+1) % 4 = 1
        /\ ((4*k+2) * 6) \div 8 = 3*k+1 /\ (4*k+2) % 4 = 2
        /\ ((4*k+3) * 6) \div 8 = 3*k+2 /\ (4*k+3) % 4 = 3
    OBVIOUS
  <1>2. /\ 4*k \in Nat /\ 4*k+1 \in Nat /\ 4*k+2 \in Nat /\ 4*k+3 \in Nat
        /\ 3*k \in Nat /\ 3*k+1 \in Nat /\ 3*k+2 \in Nat /\ (3*k+1)+1 = 3*k+2
    OBVIOUS
  <1>3. Chunk(x, 4*k) = B(x, 3*k) \div 4
    BY <1>1, <1>2, ChunkIs
  <1>4. Chunk(x, 4*k+1) = (B(x, 3*k) % 4) * 16 + B(x, 3*k+1) \div 16
    BY <1>1, <1>2, ChunkIs
  <1>5. Chunk(x, 4*k+2) = (B(x, 3*k+1) % 16) * 4 + B(x, (3*k+1)+1) \div 64
    BY <1>1, <1>2, ChunkIs
  <1>6. Chunk(x, 4*k+3) = B(x, 3*k+2) % 64
    BY <1>1, <1>2, ChunkIs
  <1> QED
    BY <1>2, <1>3, <1>4, <1>5, <1>6

LEMMA ChunkIsSmall ==
  ASSUME NEW x \in Seq(Byte), NEW i \in Nat
  PROVE  Chunk(x, i) \in 0..63
  <1> DEFINE k == i \div 4
             b0 == B(x, 3*k)
             b1 == B(x, 3*k+1)
             b2 == B(x, 3*k+2)
  <1>1. k \in Nat /\ (i = 4*k \/ i = 4*k+1 \/ i = 4*k+2 \/ i = 4*k+3)
    OBVIOUS
  <1>2. b0 \in 0..255 /\ b1 \in 0..255 /\ b2 \in 0..255
    BY <1>1, ByteAt, SMTT(30) DEF Byte
  <1>3. /\ Chunk(x, 4*k) = b0 \div 4
        /\ Chunk(x, 4*k+1) = (b0 % 4) * 16 + b1 \div 16
        /\ Chunk(x, 4*k+2) = (b1 % 16) * 4 + b2 \div 64
        /\ Chunk(x, 4*k+3) = b2 % 64
    BY <1>1, ChunksAre
  <1> HIDE DEF b0, b1, b2, k
  <1>4. /\ b0 \div 4 \in 0..63 /\ (b0 % 4) * 16 + b1 \div 16 \in 0..63
        /\ (b1 % 16) * 4 + b2 \div 64 \in 0..63 /\ b2 % 64 \in 0..63
    BY <1>2
  <1> QED
    BY <1>1, <1>3, <1>4

(* How many characters three bytes, and what is left of them, become       *)
Quads(n) == 4 * (n \div 3) + (IF n % 3 = 0 THEN 0 ELSE (n % 3) + 1)
Equal(n) == IF n % 3 = 0 THEN 0 ELSE 3 - (n % 3)

LEMMA LengthsAre ==
  ASSUME NEW n \in Nat
  PROVE  /\ (8 * n + PaddingBits(n)) \div 6 = Quads(n)
         /\ PaddingBits(n) \div 2 = Equal(n)
         /\ Quads(n) \in Nat /\ Equal(n) \in Nat
         /\ (Quads(n) * 6) \div 8 = n
  <1> DEFINE k == n \div 3
  <1>1. k \in Nat /\ n \in Int
    OBVIOUS
  <1>2. CASE n % 3 = 0
    <2>1. n = 3 * k /\ (8 * n) % 6 = 0
      BY <1>2
    <2>2. PaddingBits(n) = 0 /\ Quads(n) = 4 * k /\ Equal(n) = 0
      BY <1>2, <2>1 DEF PaddingBits, Quads, Equal
    <2> HIDE DEF k
    <2> QED
      BY <1>1, <2>1, <2>2
  <1>3. CASE n % 3 = 1
    <2>1. n = 3 * k + 1 /\ (8 * n) % 6 = 2
      BY <1>3
    <2>2. PaddingBits(n) = 4 /\ Quads(n) = 4 * k + 2 /\ Equal(n) = 2
      BY <1>3, <2>1 DEF PaddingBits, Quads, Equal
    <2> HIDE DEF k
    <2> QED
      BY <1>1, <2>1, <2>2
  <1>4. CASE n % 3 = 2
    <2>1. n = 3 * k + 2 /\ (8 * n) % 6 = 4
      BY <1>4
    <2>2. PaddingBits(n) = 2 /\ Quads(n) = 4 * k + 3 /\ Equal(n) = 1
      BY <1>4, <2>1 DEF PaddingBits, Quads, Equal
    <2> HIDE DEF k
    <2> QED
      BY <1>1, <2>1, <2>2
  <1>5. n % 3 \in 0..2
    OBVIOUS
  <1> QED
    BY <1>2, <1>3, <1>4, <1>5

LEMMA EncodedIs ==
  ASSUME NEW x \in Seq(Byte), NEW n \in Nat, n = Len(x), NEW t, t = Base64Encode(x)
  PROVE  /\ t \in Seq(Int) /\ Len(t) = Quads(n) + Equal(n)
         /\ \A i \in 1..Quads(n) : t[i] # Equals /\ CharValue(t[i]) = Chunk(x, i-1)
         /\ \A i \in Quads(n)+1..Quads(n)+Equal(n) : t[i] = Equals
  <1>1. Quads(n) \in Nat /\ Equal(n) \in Nat
    BY LengthsAre
  <1> DEFINE long == Quads(n) + Equal(n)
             char == [i \in 1..long |-> IF i <= Quads(n) THEN Char(Chunk(x, i-1)) ELSE Equals]
  <1>2. t = char
    BY LengthsAre DEF Base64Encode
  <1>3. ASSUME NEW i \in 1..Quads(n)
        PROVE  /\ Char(Chunk(x, i-1)) \in Int /\ Char(Chunk(x, i-1)) # Equals
               /\ CharValue(Char(Chunk(x, i-1))) = Chunk(x, i-1)
    <2>1. i - 1 \in Nat
      BY <1>1
    <2>2. Chunk(x, i-1) \in 0..63
      BY <2>1, ChunkIsSmall
    <2> QED
      BY <2>2, CharRight
  <1>4. char \in [1..long -> Int]
    <2> SUFFICES ASSUME NEW i \in 1..long
                 PROVE  (IF i <= Quads(n) THEN Char(Chunk(x, i-1)) ELSE Equals) \in Int
      OBVIOUS
    <2>1. CASE i <= Quads(n)
      <3>1. i \in 1..Quads(n)
        BY <1>1, <2>1
      <3> QED
        BY <2>1, <3>1, <1>3
    <2>2. CASE ~(i <= Quads(n))
      BY <2>2 DEF Equals
    <2> QED
      BY <2>1, <2>2
  <1>5. long \in Nat
    BY <1>1
  <1>6. t \in Seq(Int) /\ Len(t) = long
    <2> HIDE DEF char, long
    <2> QED
      BY <1>2, <1>4, <1>5
  <1>7. ASSUME NEW i \in 1..Quads(n)
        PROVE  t[i] # Equals /\ CharValue(t[i]) = Chunk(x, i-1)
    <2>1. i \in 1..long /\ i <= Quads(n)
      BY <1>1
    <2>2. t[i] = Char(Chunk(x, i-1))
      BY <1>2, <2>1
    <2> QED
      BY <1>3, <2>2
  <1>8. ASSUME NEW i \in Quads(n)+1..Quads(n)+Equal(n)
        PROVE  t[i] = Equals
    <2>1. i \in 1..long /\ ~(i <= Quads(n))
      BY <1>1
    <2> QED
      BY <1>2, <2>1
  <1> QED
    BY <1>6, <1>7, <1>8

LEMMA TrailingIs ==
  ASSUME NEW x \in Seq(Byte), NEW n \in Nat, n = Len(x), NEW t, t = Base64Encode(x)
  PROVE  Trailing(t) = Equal(n)
  <1> DEFINE q == Quads(n)
             S == {i \in 1..Len(t) : t[i] # Equals}
  <1>1. q \in Nat /\ Equal(n) \in Nat /\ q \in Int /\ Equal(n) \in Int
    BY LengthsAre
  <1>2. /\ Len(t) = q + Equal(n)
        /\ \A i \in 1..q : t[i] # Equals
        /\ \A i \in q+1..q+Equal(n) : t[i] = Equals
    BY EncodedIs
  <1> HIDE DEF q
  <1>3. S = 1..q
    <2>1. ASSUME NEW i \in 1..Len(t), t[i] # Equals
          PROVE  i \in 1..q
      <3>1. ~(i \in q+1..q+Equal(n))
        BY <1>2, <2>1
      <3> QED
        BY <1>1, <1>2, <3>1
    <2>2. ASSUME NEW i \in 1..q
          PROVE  i \in 1..Len(t) /\ t[i] # Equals
      BY <1>1, <1>2
    <2> QED
      BY <2>1, <2>2
  <1>4. Trailing(t) = IF S = {} THEN Len(t)
                      ELSE Len(t) - (CHOOSE i \in S : \A j \in S : j <= i)
    BY DEF Trailing
  <1> HIDE DEF S
  <1>5. CASE q = 0
    <2>1. S = {}
      BY <1>3, <1>5
    <2> QED
      BY <1>1, <1>2, <1>4, <1>5, <2>1
  <1>6. CASE q # 0
    <2> DEFINE m == CHOOSE i \in S : \A j \in S : j <= i
    <2>1. q \in S /\ \A j \in S : j <= q
      BY <1>1, <1>3, <1>6
    <2>2. m \in S /\ \A j \in S : j <= m
      BY <2>1
    <2> HIDE DEF m
    <2>3. m = q
      BY <1>1, <1>3, <2>1, <2>2
    <2>4. S # {}
      BY <2>1
    <2>5. Trailing(t) = Len(t) - m
      BY <1>4, <2>4 DEF m
    <2> QED
      BY <1>1, <1>2, <2>3, <2>5
  <1> QED
    BY <1>5, <1>6

(* Byte p is made of the characters around 4p/3.                           *)
LEMMA CharactersAround ==
  ASSUME NEW n \in Nat, NEW k \in Nat, NEW j \in 0..2, 3*k + j < n
  PROVE  4*k + j + 1 < Quads(n)
  <1> DEFINE m == n \div 3
             r == n % 3
  <1>1. m \in Nat /\ r \in 0..2 /\ n = 3*m + r
    OBVIOUS
  <1>2. Quads(n) = 4*m + (IF r = 0 THEN 0 ELSE r + 1)
    BY DEF Quads
  <1> HIDE DEF m, r
  <1> QED
    BY <1>1, <1>2

LEMMA JoinedIs ==
  ASSUME NEW t, NEW k \in Nat, NEW j \in 0..2, NEW u, NEW w,
         u = CharValue(t[4*k+j+1]), w = CharValue(t[4*k+j+2])
  PROVE  /\ j = 0 => Joined(t, 3*k+j) = u * 4 + w \div 16
         /\ j = 1 => Joined(t, 3*k+j) = (u % 16) * 16 + w \div 4
         /\ j = 2 => Joined(t, 3*k+j) = (u % 4) * 64 + w
  <1> DEFINE v(i) == CharValue(t[i+1])
             first == (4 * (3*k+j)) \div 3
             r == (3*k+j) % 3
             Q(r_) == CASE r_ = 0 -> v(first) * 4 + v(first + 1) \div 16
                        [] r_ = 1 -> (v(first) % 16) * 16 + v(first + 1) \div 4
                        [] r_ = 2 -> (v(first) % 4) * 64 + v(first + 1)
  <1>1. Joined(t, 3*k+j) = Q(r)
    BY DEF Joined
  <1>2. r = j /\ first = 4*k+j
    OBVIOUS
  <1>3. v(first) = u /\ v(first + 1) = w
    <2>1. (4*k+j) + 1 = 4*k+j+1 /\ ((4*k+j) + 1) + 1 = 4*k+j+2
      OBVIOUS
    <2> HIDE DEF first
    <2> QED
      BY <1>2, <2>1
  <1>4. /\ Q(0) = v(first) * 4 + v(first + 1) \div 16
        /\ Q(1) = (v(first) % 16) * 16 + v(first + 1) \div 4
        /\ Q(2) = (v(first) % 4) * 64 + v(first + 1)
    OBVIOUS
  <1> HIDE DEF Q, v, first, r
  <1> QED
    BY <1>1, <1>2, <1>3, <1>4

LEMMA BytesBack ==
  ASSUME NEW x \in Seq(Byte), NEW n \in Nat, n = Len(x), NEW t, t = Base64Encode(x),
         NEW p \in Nat, p < n
  PROVE  Joined(t, p) = B(x, p)
  <1> DEFINE k == p \div 3
             j == p % 3
  <1>1. k \in Nat /\ j \in 0..2 /\ p = 3*k + j
    OBVIOUS
  <1> HIDE DEF k, j
  <1>2. 4*k + j + 1 < Quads(n)
    BY <1>1, CharactersAround
  <1>3. Quads(n) \in Nat
    BY LengthsAre
  <1>4. \A i \in 1..Quads(n) : CharValue(t[i]) = Chunk(x, i-1)
    BY EncodedIs
  <1>5. /\ 4*k+j+1 \in 1..Quads(n) /\ (4*k+j+1)-1 = 4*k+j
        /\ 4*k+j+2 \in 1..Quads(n) /\ (4*k+j+2)-1 = 4*k+j+1
    BY <1>1, <1>2, <1>3
  <1> DEFINE u == CharValue(t[4*k+j+1])
             w == CharValue(t[4*k+j+2])
             b0 == B(x, 3*k)
             b1 == B(x, 3*k+1)
             b2 == B(x, 3*k+2)
  <1>6. u = Chunk(x, 4*k+j) /\ w = Chunk(x, 4*k+j+1)
    BY <1>4, <1>5
  <1>7. /\ Chunk(x, 4*k) = b0 \div 4
        /\ Chunk(x, 4*k+1) = (b0 % 4) * 16 + b1 \div 16
        /\ Chunk(x, 4*k+2) = (b1 % 16) * 4 + b2 \div 64
        /\ Chunk(x, 4*k+3) = b2 % 64
    BY <1>1, ChunksAre
  <1>8. b0 \in 0..255 /\ b1 \in 0..255 /\ b2 \in 0..255
    <2>1. 3*k \in Nat /\ 3*k+1 \in Nat /\ 3*k+2 \in Nat
      BY <1>1
    <2>2. b0 \in Byte /\ b1 \in Byte /\ b2 \in Byte
      BY <2>1, ByteAt
    <2> QED
      BY <2>2 DEF Byte
  <1>9. /\ j = 0 => Joined(t, p) = u * 4 + w \div 16
        /\ j = 1 => Joined(t, p) = (u % 16) * 16 + w \div 4
        /\ j = 2 => Joined(t, p) = (u % 4) * 64 + w
    BY <1>1, JoinedIs
  <1>10. /\ j = 0 => B(x, p) = b0 /\ 4*k+j = 4*k /\ 4*k+j+1 = 4*k+1
         /\ j = 1 => B(x, p) = b1 /\ 4*k+j = 4*k+1 /\ 4*k+j+1 = 4*k+2
         /\ j = 2 => B(x, p) = b2 /\ 4*k+j = 4*k+2 /\ 4*k+j+1 = 4*k+3
    BY <1>1
  <1>11. /\ (b0 \div 4) * 4 + ((b0 % 4) * 16 + b1 \div 16) \div 16 = b0
         /\ (((b0 % 4) * 16 + b1 \div 16) % 16) * 16 + ((b1 % 16) * 4 + b2 \div 64) \div 4 = b1
         /\ (((b1 % 16) * 4 + b2 \div 64) % 4) * 64 + (b2 % 64) = b2
    <2> HIDE DEF b0, b1, b2
    <2>1. ((b0 % 4) * 16 + b1 \div 16) \div 16 = b0 % 4
      BY <1>8
    <2>2. ((b0 % 4) * 16 + b1 \div 16) % 16 = b1 \div 16
      BY <1>8
    <2>3. ((b1 % 16) * 4 + b2 \div 64) \div 4 = b1 % 16
      BY <1>8
    <2>4. ((b1 % 16) * 4 + b2 \div 64) % 4 = b2 \div 64
      BY <1>8
    <2>5. /\ (b0 \div 4) * 4 + (b0 % 4) = b0
          /\ (b1 \div 16) * 16 + (b1 % 16) = b1
          /\ (b2 \div 64) * 64 + (b2 % 64) = b2
      BY <1>8
    <2> QED
      BY <2>1, <2>2, <2>3, <2>4, <2>5
  <1> HIDE DEF u, w, b0, b1, b2
  <1>12. CASE j = 0
    BY <1>6, <1>7, <1>9, <1>10, <1>11, <1>12
  <1>13. CASE j = 1
    BY <1>6, <1>7, <1>9, <1>10, <1>11, <1>13
  <1>14. CASE j = 2
    BY <1>6, <1>7, <1>9, <1>10, <1>11, <1>14
  <1> QED
    BY <1>1, <1>12, <1>13, <1>14

LEMMA Base64Back ==
  ASSUME NEW x \in Seq(Byte)
  PROVE  Base64Decode(Base64Encode(x)) = x
  <1> DEFINE n == Len(x)
             t == Base64Encode(x)
             length == Len(t) - Trailing(t)
             bytes == [o \in 1..(length * 6) \div 8 |-> Joined(t, o-1)]
  <1>1. n \in Nat
    OBVIOUS
  <1>2. n \in Nat /\ Quads(n) \in Nat /\ Equal(n) \in Nat /\ (Quads(n) * 6) \div 8 = n
    BY <1>1, LengthsAre
  <1>3. Len(t) = Quads(n) + Equal(n) /\ Trailing(t) = Equal(n)
    BY <1>2, EncodedIs, TrailingIs
  <1>4. length = Quads(n)
    BY <1>2, <1>3
  <1>5. \A i \in 1..length : CharValue(t[i]) # -1
    <2> SUFFICES ASSUME NEW i \in 1..Quads(n)
                 PROVE  CharValue(t[i]) # -1
      BY <1>4
    <2>1. CharValue(t[i]) = Chunk(x, i-1) /\ i-1 \in Nat
      BY <1>2, EncodedIs
    <2>2. Chunk(x, i-1) \in 0..63
      BY <2>1, ChunkIsSmall
    <2>3. \A c \in 0..63 : c # -1
      OBVIOUS
    <2> HIDE DEF t
    <2> QED
      BY <2>1, <2>2, <2>3, Zenon
  <1>6. Base64Decode(t) = bytes
    BY <1>5 DEF Base64Decode
  <1>7. ASSUME NEW o \in 1..n
        PROVE  Joined(t, o-1) = x[o]
    <2>1. o-1 \in Nat /\ o-1 < n /\ (o-1)+1 = o
      BY <1>2
    <2>2. Joined(t, o-1) = B(x, o-1)
      BY <1>2, <2>1, BytesBack
    <2> QED
      BY <2>1, <2>2, ByteAt
  <1>8. (length * 6) \div 8 = n
    BY <1>2, <1>4
  <1>9. bytes = [o \in 1..n |-> x[o]]
    <2> HIDE DEF length, t, n
    <2> QED
      BY <1>7, <1>8
  <1>10. x = [o \in 1..n |-> x[o]]
    OBVIOUS
  <1> QED
    BY <1>6, <1>9, <1>10

-----------------------------------------------------------------------------
(* der.c: what is encoded is decoded.  x stands in der from byte at on:    *)
Part(der_, at, x) ==
  /\ at + Len(x) <= Len(der_) + 1
  /\ \A i \in 1..Len(x) : der_[at + i - 1] = x[i]

LEMMA PartJoin ==
  ASSUME NEW d \in Seq(Byte), NEW at \in Nat, NEW x \in Seq(Byte), NEW y \in Seq(Byte),
         Part(d, at, x \o y)
  PROVE  Part(d, at, x) /\ Part(d, at + Len(x), y)
  <1>1. Len(x \o y) = Len(x) + Len(y) /\ Len(x) \in Nat /\ Len(y) \in Nat /\ Len(d) \in Nat
    OBVIOUS
  <1>2. at + Len(x) <= Len(d) + 1 /\ (at + Len(x)) + Len(y) <= Len(d) + 1
    BY <1>1 DEF Part
  <1>3. ASSUME NEW i \in 1..Len(x)
        PROVE  d[at + i - 1] = x[i]
    <2>1. i \in 1..Len(x \o y)
      BY <1>1
    <2>2. (x \o y)[i] = x[i]
      OBVIOUS
    <2> QED
      BY <2>1, <2>2 DEF Part
  <1>4. ASSUME NEW i \in 1..Len(y)
        PROVE  d[(at + Len(x)) + i - 1] = y[i]
    <2>1. Len(x) + i \in 1..Len(x \o y) /\ at + (Len(x) + i) - 1 = (at + Len(x)) + i - 1
      BY <1>1
    <2>2. (x \o y)[Len(x) + i] = y[i]
      OBVIOUS
    <2>3. d[at + (Len(x) + i) - 1] = (x \o y)[Len(x) + i]
      BY <2>1 DEF Part
    <2> QED
      BY <2>1, <2>2, <2>3
  <1>5. Part(d, at, x)
    BY <1>1, <1>2, <1>3 DEF Part
  <1>6. Part(d, at + Len(x), y)
    BY <1>1, <1>2, <1>4 DEF Part
  <1> QED
    BY <1>5, <1>6

LEMMA PartWhole ==
  ASSUME NEW d \in Seq(Byte)
  PROVE  Part(d, 1, d)
  <1>1. Len(d) \in Nat /\ \A i \in 1..Len(d) : 1 + i - 1 = i
    OBVIOUS
  <1> QED
    BY <1>1 DEF Part

LEMMA ByteIn ==
  /\ \A b \in Byte : b \in Nat /\ b <= 255
  /\ \A n \in Int : n % 256 \in Byte
  /\ DER_INTEGER \in Byte /\ DER_BITSTRING \in Byte /\ DER_UTF8STRING \in Byte
  /\ DER_SEQUENCE \in Byte /\ 4 \in Byte /\ 0 \in Byte
  BY DEF Byte, DER_INTEGER, DER_BITSTRING, DER_UTF8STRING, DER_SEQUENCE

LEMMA JoinLong ==
  ASSUME NEW x \in Seq(Byte), NEW y \in Seq(Byte)
  PROVE  x \o y \in Seq(Byte) /\ Len(x \o y) = Len(x) + Len(y)
  OBVIOUS

LEMMA IntLong ==
  ASSUME NEW v \in Int
  PROVE  /\ EncodeInt(v) \in Seq(Byte) /\ Len(EncodeInt(v)) = 6
         /\ <<DER_INTEGER, 4>> \in Seq(Byte) /\ Len(<<DER_INTEGER, 4>>) = 2
         /\ IntBytes(v) \in Seq(Byte) /\ Len(IntBytes(v)) = 4
  <1>1. v % 256 \in Byte /\ (v \div 16777216) % 256 \in Byte /\ (v \div 65536) % 256 \in Byte
        /\ (v \div 256) % 256 \in Byte /\ 2 \in Byte /\ 4 \in Byte
    BY DEF Byte
  <1> HIDE DEF Byte
  <1>2. IntBytes(v) \in Seq(Byte) /\ Len(IntBytes(v)) = 4
    BY <1>1 DEF IntBytes
  <1>3. <<DER_INTEGER, 4>> \in Seq(Byte) /\ Len(<<DER_INTEGER, 4>>) = 2
    BY <1>1 DEF DER_INTEGER
  <1> DEFINE head == <<DER_INTEGER, 4>>
             tail == IntBytes(v)
  <1>4. EncodeInt(v) = head \o tail
    BY DEF EncodeInt
  <1>5. head \in Seq(Byte) /\ tail \in Seq(Byte) /\ Len(head) = 2 /\ Len(tail) = 4
    BY <1>2, <1>3
  <1> HIDE DEF head, tail
  <1>6. head \o tail \in Seq(Byte) /\ Len(head \o tail) = 6
    <2>1. head \o tail \in Seq(Byte) /\ Len(head \o tail) = Len(head) + Len(tail)
      BY <1>5, JoinLong, Zenon
    <2> QED
      BY <1>5, <2>1
  <1> QED
    BY <1>2, <1>3, <1>4, <1>6

LEMMA LabelledLong ==
  ASSUME NEW x \in Seq(Byte), NEW label \in Byte
  PROVE  /\ <<label, Len(x) % 256>> \in Seq(Byte)
         /\ <<label, Len(x) % 256>> \o x \in Seq(Byte)
         /\ Len(<<label, Len(x) % 256>> \o x) = Len(x) + 2
  <1>1. Len(x) % 256 \in Byte
    BY ByteIn
  <1> HIDE DEF Byte
  <1>2. <<label, Len(x) % 256>> \in Seq(Byte) /\ Len(<<label, Len(x) % 256>>) = 2
    BY <1>1
  <1> QED
    BY <1>2

LEMMA BignumLong ==
  ASSUME NEW x \in Seq(Byte)
  PROVE  EncodeBignum(x) \in Seq(Byte) /\ Len(EncodeBignum(x)) = Len(x) + 2
  BY LabelledLong, ByteIn DEF EncodeBignum

LEMMA StringLong ==
  ASSUME NEW x \in Seq(Byte)
  PROVE  EncodeString(x) \in Seq(Byte) /\ Len(EncodeString(x)) = Len(x) + 2
  BY LabelledLong, ByteIn DEF EncodeString

LEMMA SequenceLong ==
  ASSUME NEW f \in Seq(Byte)
  PROVE  /\ EncodeSequence(f) \in Seq(Byte) /\ Len(EncodeSequence(f)) = Len(f) + 7
         /\ <<DER_SEQUENCE>> \in Seq(Byte) /\ Len(<<DER_SEQUENCE>>) = 1
         /\ EncodeSequence(f) = (<<DER_SEQUENCE>> \o EncodeInt(Len(f))) \o f
  <1>1. Len(f) \in Int
    OBVIOUS
  <1>2. EncodeInt(Len(f)) \in Seq(Byte) /\ Len(EncodeInt(Len(f))) = 6
    BY <1>1, IntLong
  <1>3. DER_SEQUENCE \in Byte
    BY ByteIn
  <1> HIDE DEF Byte
  <1>4. <<DER_SEQUENCE>> \in Seq(Byte) /\ Len(<<DER_SEQUENCE>>) = 1
    BY <1>3
  <1> DEFINE label == <<DER_SEQUENCE>>
             size == EncodeInt(Len(f))
  <1>5. label \in Seq(Byte) /\ size \in Seq(Byte) /\ Len(label) = 1 /\ Len(size) = 6
    BY <1>2, <1>4
  <1>6. EncodeSequence(f) = (label \o size) \o f
    BY DEF EncodeSequence
  <1> HIDE DEF label, size
  <1>7. label \o size \in Seq(Byte) /\ Len(label \o size) = 7
    <2>1. label \o size \in Seq(Byte) /\ Len(label \o size) = Len(label) + Len(size)
      BY <1>5, JoinLong, Zenon
    <2> QED
      BY <1>5, <2>1
  <1>8. EncodeSequence(f) \in Seq(Byte) /\ Len(EncodeSequence(f)) = Len(f) + 7
    BY <1>6, <1>7, JoinLong
  <1> QED
    BY <1>4, <1>6, <1>8 DEF label, size

LEMMA IntRange ==
  ASSUME NEW v \in IntValue
  PROVE  v \in Int /\ -2147483647 - 1 <= v /\ v <= 2147483647
  <1>1. MaxInt \in Int
    BY SMT DEF MaxInt
  <1>2. v \in Int /\ -MaxInt - 1 <= v /\ v <= MaxInt
    BY <1>1, SMT DEF IntValue
  <1> QED
    BY <1>1, <1>2, SMT DEF MaxInt

(* Four bytes show an int whole, of either sign.                           *)
LEMMA SignedBack ==
  ASSUME NEW y \in Int, -128 <= y, y <= 127
  PROVE  Signed(y % 256) = y
  BY SMT DEF Signed

LEMMA IntBytesBack ==
  ASSUME NEW v \in IntValue
  PROVE  Signed((v \div 16777216) % 256) * 16777216 + ((v \div 65536) % 256) * 65536
           + ((v \div 256) % 256) * 256 + (v % 256) = v
  <1> DEFINE w == v \div 256
             x == v \div 65536
             y == v \div 16777216
  <1>1. v \in Int /\ -2147483647 - 1 <= v /\ v <= 2147483647
    BY IntRange, SMT
  <1>2. w \in Int /\ x \in Int /\ y \in Int /\ v = 256 * w + (v % 256)
    BY <1>1, SMT
  <1>3. x = w \div 256 /\ y = x \div 256
    BY <1>1, SMT
  <1>4. -128 <= y /\ y <= 127
    BY <1>1, SMT
  <1> HIDE DEF w, x, y
  <1>5. w = 256 * x + (w % 256) /\ x = 256 * y + (x % 256)
    BY <1>2, <1>3, SMT
  <1>6. Signed(y % 256) = y
    BY <1>2, <1>4, SignedBack
  <1>7. v % 256 \in Int /\ w % 256 \in Int /\ x % 256 \in Int
    BY <1>1, <1>2
  <1> DEFINE b == v % 256
             c == w % 256
             e == x % 256
  <1>8. v = 256 * w + b /\ w = 256 * x + c /\ x = 256 * y + e /\ b \in Int /\ c \in Int
        /\ e \in Int
    BY <1>2, <1>5, <1>7
  <1>9. y * 16777216 + e * 65536 + c * 256 + b = v
    <2> HIDE DEF b, c, e
    <2> QED
      BY <1>2, <1>8, SMT
  <1> QED
    BY <1>6, <1>9, SMT DEF w, x, y

LEMMA IntAt ==
  ASSUME NEW d \in Seq(Byte), NEW at \in Nat \ {0}, NEW v \in IntValue, Part(d, at, EncodeInt(v))
  PROVE  DecodeInt(d, at) = Done(v, at + 6)
  <1>1. v \in Int
    BY IntRange
  <1> DEFINE head == <<DER_INTEGER, 4>>
             tail == IntBytes(v)
  <1>2. EncodeInt(v) = head \o tail
    BY DEF EncodeInt
  <1>3. head \in Seq(Byte) /\ Len(head) = 2 /\ tail \in Seq(Byte) /\ Len(tail) = 4
    BY <1>1, IntLong
  <1>4. head[1] = DER_INTEGER /\ head[2] = 4
    OBVIOUS
  <1> HIDE DEF head, tail
  <1>5. Part(d, at, head) /\ Part(d, at + 2, tail)
    BY <1>2, <1>3, PartJoin
  <1>6. ~(at + 5 > Len(d))
    BY <1>3, <1>5 DEF Part
  <1>7. d[at + 1 - 1] = head[1] /\ d[at + 2 - 1] = head[2]
    BY <1>3, <1>5 DEF Part
  <1>8. /\ d[at + 2 + 1 - 1] = tail[1] /\ d[at + 2 + 2 - 1] = tail[2]
        /\ d[at + 2 + 3 - 1] = tail[3] /\ d[at + 2 + 4 - 1] = tail[4]
    BY <1>3, <1>5 DEF Part
  <1>9. /\ at + 1 - 1 = at /\ at + 2 - 1 = at + 1 /\ at + 2 + 1 - 1 = at + 2
        /\ at + 2 + 2 - 1 = at + 3 /\ at + 2 + 3 - 1 = at + 4 /\ at + 2 + 4 - 1 = at + 5
    OBVIOUS
  <1>10. /\ d[at] = DER_INTEGER /\ d[at+1] = 4
         /\ d[at+2] = tail[1] /\ d[at+3] = tail[2] /\ d[at+4] = tail[3] /\ d[at+5] = tail[4]
    BY <1>4, <1>7, <1>8, <1>9
  <1>11. Signed(tail[1]) * 16777216 + tail[2] * 65536 + tail[3] * 256 + tail[4] = v
    BY IntBytesBack, SMT DEF tail, IntBytes
  <1> QED
    BY <1>6, <1>10, <1>11, SMT DEF DecodeInt

LEMMA IntNext ==
  ASSUME NEW d, NEW at
  PROVE  DecodeInt(d, at).next = 0 \/ DecodeInt(d, at).next = at + 6
  BY SMT DEF DecodeInt, Done, Exit

LEMMA PartIs ==
  ASSUME NEW d \in Seq(Byte), NEW at \in Nat \ {0}, NEW x \in Seq(Byte), Part(d, at, x),
         NEW last, last = at + Len(x) - 1
  PROVE  SubSeq(d, at, last) = x
  <1>1. Len(x) \in Nat /\ Len(d) \in Nat /\ last <= Len(d) /\ last \in Int
    BY DEF Part
  <1> DEFINE y == SubSeq(d, at, last)
  <1>2. y \in Seq(Byte) /\ Len(y) = Len(x)
    BY <1>1
  <1>3. ASSUME NEW i \in 1..Len(x)
        PROVE  y[i] = x[i]
    <2>1. y[i] = d[at + i - 1]
      BY <1>1
    <2> QED
      BY <2>1 DEF Part
  <1> HIDE DEF y
  <1>4. y = x
    BY <1>2, <1>3
  <1> QED
    BY <1>4 DEF y

LEMMA LabelledAt ==
  ASSUME NEW d \in Seq(Byte), NEW at \in Nat \ {0}, NEW x \in Seq(Byte), NEW label \in Byte,
         Part(d, at, <<label, Len(x) % 256>> \o x)
  PROVE  /\ d[at] = label /\ d[at+1] = Len(x) % 256
         /\ Part(d, at + 2, x) /\ at + 1 + Len(x) <= Len(d) /\ at + 1 <= Len(d)
  <1> DEFINE head == <<label, Len(x) % 256>>
  <1>1. head \in Seq(Byte) /\ Len(head) = 2 /\ head[1] = label /\ head[2] = Len(x) % 256
    <2>1. Len(x) % 256 \in Byte
      BY ByteIn
    <2> HIDE DEF Byte
    <2> QED
      BY <2>1
  <1> HIDE DEF head
  <1>2. Part(d, at, head) /\ Part(d, at + 2, x)
    <2>1. Part(d, at, head \o x)
      BY DEF head
    <2>2. Part(d, at, head) /\ Part(d, at + Len(head), x)
      BY <1>1, <2>1, PartJoin
    <2> QED
      BY <1>1, <2>2
  <1>3. d[at + 1 - 1] = head[1] /\ d[at + 2 - 1] = head[2]
    BY <1>1, <1>2 DEF Part
  <1>4. at + 1 - 1 = at /\ at + 2 - 1 = at + 1
    OBVIOUS
  <1>5. at + 1 + Len(x) <= Len(d) /\ at + 1 <= Len(d)
    BY <1>2 DEF Part
  <1> QED
    BY <1>1, <1>2, <1>3, <1>4, <1>5

LEMMA BignumAt ==
  ASSUME NEW d \in Seq(Byte), NEW at \in Nat \ {0}, NEW x \in Numbers, Part(d, at, EncodeBignum(x))
  PROVE  /\ DecodeBignum(d, at).next = at + 2 + (Len(x) % 256)
         /\ Len(x) < 256 => DecodeBignum(d, at) = Done(x, at + 2 + Len(x))
  <1>1. x \in Seq(Byte) /\ Len(x) \in Nat /\ Len(x) % 4 = 0 /\ Len(d) \in Nat
    BY DEF Numbers
  <1>2. /\ d[at] = DER_BITSTRING /\ d[at+1] = Len(x) % 256
        /\ Part(d, at + 2, x) /\ at + 1 + Len(x) <= Len(d) /\ at + 1 <= Len(d)
    BY <1>1, ByteIn, LabelledAt DEF EncodeBignum
  <1> DEFINE l == Len(x) % 256
  <1>3. l \in Nat /\ l <= Len(x) /\ l <= 255
    BY <1>1
  <1> DEFINE value == SubSeq(d, at + 2, at + 1 + 4 * (l \div 4))
  <1>4. DecodeBignum(d, at) = Done(value, at + 2 + l)
    <2>1. ~(at + 1 > Len(d)) /\ ~(at + 1 + l > Len(d)) /\ ~(l > 255)
      BY <1>1, <1>2, <1>3
    <2> HIDE DEF l
    <2> QED
      BY <1>2, <2>1 DEF DecodeBignum, DecodeBytes, l
  <1>5. CASE Len(x) < 256
    <2>1. l = Len(x) /\ 4 * (l \div 4) = Len(x)
      BY <1>1, <1>5
    <2> HIDE DEF l
    <2>2. at + 1 + 4 * (l \div 4) = (at + 2) + Len(x) - 1 /\ at + 2 \in Nat \ {0}
      BY <1>1, <2>1
    <2>3. value = x
      BY <1>1, <1>2, <2>2, PartIs
    <2> HIDE DEF value
    <2>4. DecodeBignum(d, at) = Done(x, at + 2 + Len(x))
      BY <1>4, <2>1, <2>3
    <2> QED
      BY <1>4, <2>4 DEF Done, l
  <1> HIDE DEF value
  <1> QED
    BY <1>4, <1>5 DEF Done

LEMMA StringAt ==
  ASSUME NEW d \in Seq(Byte), NEW at \in Nat \ {0}, NEW size \in {14, 50}, NEW x \in Strings(size),
         Part(d, at, EncodeString(x))
  PROVE  DecodeString(d, at, size) = Done(x, at + 2 + size)
  <1>1. x \in Seq(Byte) /\ Len(x) = size /\ Len(d) \in Nat
    BY DEF Strings
  <1>2. /\ d[at] = DER_UTF8STRING /\ d[at+1] = Len(x) % 256
        /\ Part(d, at + 2, x) /\ at + 1 + Len(x) <= Len(d) /\ at + 1 <= Len(d)
    BY <1>1, ByteIn, LabelledAt DEF EncodeString
  <1>3. size % 256 = size /\ 1 * (size \div 1) = size /\ size \in Nat
    OBVIOUS
  <1> DEFINE r == DecodeBytes(d, at, DER_UTF8STRING, size, 1)
             value == SubSeq(d, at + 2, at + 1 + 1 * (size \div 1))
  <1>4. r = Done(value, at + 2 + size)
    <2>1. ~(at + 1 > Len(d)) /\ ~(at + 1 + size > Len(d)) /\ ~(size > size)
      BY <1>1, <1>2, <1>3
    <2> HIDE DEF Strings
    <2> QED
      BY <1>1, <1>2, <1>3, <2>1 DEF DecodeBytes
  <1>5. value = x
    <2> DEFINE first == at + 2
               last == at + 1 + 1 * (size \div 1)
    <2>1. last = first + Len(x) - 1 /\ first \in Nat \ {0} /\ Part(d, first, x)
      BY <1>1, <1>2, <1>3
    <2> HIDE DEF first, last
    <2>2. SubSeq(d, first, last) = x
      BY <1>1, <2>1, PartIs, SMTT(30)
    <2> QED
      BY <2>2 DEF first, last
  <1> DEFINE zeroes == [i \in 1..size - Len(x) |-> 0]
  <1>6. zeroes = <<>>
    <2>1. size - Len(x) = 0
      BY <1>1, <1>3
    <2>2. zeroes \in [1..0 -> Int]
      BY <2>1
    <2> HIDE DEF zeroes
    <2>3. zeroes \in Seq(Int) /\ Len(zeroes) = 0
      BY <2>2
    <2> QED
      BY <2>3
  <1>7. x \o zeroes = x
    BY <1>1, <1>6
  <1> HIDE DEF r, value
  <1>8. ~Failed(r) /\ r.value = x
    BY <1>3, <1>4, <1>5 DEF Failed, Done
  <1>9. Padded(r, size) = [r EXCEPT !.value = x \o zeroes]
    BY <1>8 DEF Padded
  <1>10. DecodeString(d, at, size) = Padded(r, size)
    BY DEF DecodeString, r
  <1> HIDE DEF zeroes
  <1> QED
    BY <1>4, <1>5, <1>7, <1>9, <1>10 DEF Done

LEMMA OpenedAt ==
  ASSUME NEW d \in Seq(Byte), NEW at \in Nat \ {0}, NEW f \in Seq(Byte), Len(f) \in IntValue,
         Part(d, at, EncodeSequence(f))
  PROVE  /\ Opened(d, at) = Done(Len(f), at + 7) /\ Part(d, at + 7, f)
         /\ Fresh(Opened(d, at)) = Done(<<>>, at + 7)
  <1> DEFINE label == <<DER_SEQUENCE>>
             size == EncodeInt(Len(f))
  <1>1. Len(f) \in Int
    OBVIOUS
  <1>2. label \in Seq(Byte) /\ Len(label) = 1 /\ label[1] = DER_SEQUENCE
    BY SequenceLong
  <1>3. size \in Seq(Byte) /\ Len(size) = 6
    BY <1>1, IntLong
  <1>4. EncodeSequence(f) = (label \o size) \o f
    BY SequenceLong
  <1> HIDE DEF label, size
  <1>5. label \o size \in Seq(Byte) /\ Len(label \o size) = 7
    <2>1. label \o size \in Seq(Byte) /\ Len(label \o size) = Len(label) + Len(size)
      BY <1>2, <1>3, JoinLong, Zenon
    <2> QED
      BY <1>2, <1>3, <2>1
  <1>6. Part(d, at, label \o size) /\ Part(d, at + 7, f)
    BY <1>4, <1>5, PartJoin
  <1>7. Part(d, at, label) /\ Part(d, at + 1, size)
    BY <1>2, <1>3, <1>6, PartJoin
  <1>8. d[at + 1 - 1] = label[1] /\ at + 1 - 1 = at /\ at <= Len(d)
    BY <1>2, <1>7 DEF Part
  <1>9. DecodeInt(d, at + 1) = Done(Len(f), (at + 1) + 6)
    BY <1>7, IntAt DEF size
  <1>10. Opened(d, at) = Done(Len(f), at + 7)
    <2>1. (at + 1) + 6 = at + 7 /\ ~(at > Len(d)) /\ d[at] = DER_SEQUENCE
      BY <1>2, <1>8
    <2> QED
      BY <1>9, <2>1 DEF Opened
  <1>11. Fresh(Opened(d, at)) = Done(<<>>, at + 7)
    BY <1>10 DEF Fresh, Failed, Done
  <1> QED
    BY <1>6, <1>10, <1>11

(* A field more: tuples are read from the front.                           *)
LEMMA AppendedIs ==
  ASSUME NEW S, NEW n \in Nat, NEW s \in Seq(S), NEW t \in Seq(S), NEW e \in S,
         Len(s) = n, Len(t) = n + 1, t[n + 1] = e, \A i \in 1..n : s[i] = t[i]
  PROVE  Append(s, e) = t
  <1> DEFINE u == Append(s, e)
  <1>1. u \in Seq(S) /\ Len(u) = n + 1
    OBVIOUS
  <1>2. u[n + 1] = e
    OBVIOUS
  <1>3. \A i \in 1..n : u[i] = s[i]
    OBVIOUS
  <1> HIDE DEF u
  <1>4. \A i \in 1..n + 1 : i \in 1..n \/ i = n + 1
    OBVIOUS
  <1>5. \A i \in 1..n + 1 : u[i] = t[i]
    BY <1>2, <1>3, <1>4
  <1>6. u = t
    BY <1>1, <1>5
  <1> QED
    BY <1>6 DEF u

LEMMA Appended1 ==
  ASSUME NEW a
  PROVE  Append(<<>>, a) = <<a>>
  <1> DEFINE S == {a}
             s == <<>>
             t == <<a>>
             n == 0
  <1>1. s \in Seq(S) /\ Len(s) = n /\ a \in S /\ n \in Nat
    OBVIOUS
  <1>2. t \in Seq(S) /\ Len(t) = n + 1 /\ t[n + 1] = a
    OBVIOUS
  <1>3. \A i \in 1..n : s[i] = t[i]
    OBVIOUS
  <1> HIDE DEF S, s, t, n
  <1>4. Append(s, a) = t
    BY <1>1, <1>2, <1>3, AppendedIs
  <1> QED
    BY <1>4 DEF s, t

LEMMA Appended2 ==
  ASSUME NEW a, NEW b
  PROVE  Append(<<a>>, b) = <<a, b>>
  <1> DEFINE S == {a, b}
             s == <<a>>
             t == <<a, b>>
             n == 1
  <1>1. s \in Seq(S) /\ Len(s) = n /\ b \in S /\ n \in Nat
    OBVIOUS
  <1>2. t \in Seq(S) /\ Len(t) = n + 1 /\ t[n + 1] = b
    OBVIOUS
  <1>3. \A i \in 1..n : s[i] = t[i]
    OBVIOUS
  <1> HIDE DEF S, s, t, n
  <1>4. Append(s, b) = t
    BY <1>1, <1>2, <1>3, AppendedIs
  <1> QED
    BY <1>4 DEF s, t

LEMMA Appended3 ==
  ASSUME NEW a, NEW b, NEW c
  PROVE  Append(<<a, b>>, c) = <<a, b, c>>
  <1> DEFINE S == {a, b, c}
             s == <<a, b>>
             t == <<a, b, c>>
             n == 2
  <1>1. s \in Seq(S) /\ Len(s) = n /\ c \in S /\ n \in Nat
    OBVIOUS
  <1>2. t \in Seq(S) /\ Len(t) = n + 1 /\ t[n + 1] = c
    OBVIOUS
  <1>3. \A i \in 1..n : s[i] = t[i]
    OBVIOUS
  <1> HIDE DEF S, s, t, n
  <1>4. Append(s, c) = t
    BY <1>1, <1>2, <1>3, AppendedIs
  <1> QED
    BY <1>4 DEF s, t

LEMMA Appended4 ==
  ASSUME NEW a, NEW b, NEW c, NEW d
  PROVE  Append(<<a, b, c>>, d) = <<a, b, c, d>>
  <1> DEFINE S == {a, b, c, d}
             s == <<a, b, c>>
             t == <<a, b, c, d>>
             n == 3
  <1>1. s \in Seq(S) /\ Len(s) = n /\ d \in S /\ n \in Nat
    OBVIOUS
  <1>2. t \in Seq(S) /\ Len(t) = n + 1 /\ t[n + 1] = d
    OBVIOUS
  <1>3. \A i \in 1..n : s[i] = t[i]
    OBVIOUS
  <1> HIDE DEF S, s, t, n
  <1>4. Append(s, d) = t
    BY <1>1, <1>2, <1>3, AppendedIs
  <1> QED
    BY <1>4 DEF s, t

LEMMA Appended5 ==
  ASSUME NEW a, NEW b, NEW c, NEW d, NEW e
  PROVE  Append(<<a, b, c, d>>, e) = <<a, b, c, d, e>>
  <1> DEFINE S == {a, b, c, d, e}
             s == <<a, b, c, d>>
             t == <<a, b, c, d, e>>
             n == 4
  <1>1. s \in Seq(S) /\ Len(s) = n /\ e \in S /\ n \in Nat
    OBVIOUS
  <1>2. t \in Seq(S) /\ Len(t) = n + 1 /\ t[n + 1] = e
    OBVIOUS
  <1>3. \A i \in 1..n : s[i] = t[i]
    OBVIOUS
  <1> HIDE DEF S, s, t, n
  <1>4. Append(s, e) = t
    BY <1>1, <1>2, <1>3, AppendedIs
  <1> QED
    BY <1>4 DEF s, t

LEMMA Appended6 ==
  ASSUME NEW a, NEW b, NEW c, NEW d, NEW e, NEW f
  PROVE  Append(<<a, b, c, d, e>>, f) = <<a, b, c, d, e, f>>
  <1> DEFINE S == {a, b, c, d, e, f}
             s == <<a, b, c, d, e>>
             t == <<a, b, c, d, e, f>>
             n == 5
  <1>1. s \in Seq(S) /\ Len(s) = n /\ f \in S /\ n \in Nat
    OBVIOUS
  <1>2. t \in Seq(S) /\ Len(t) = n + 1 /\ t[n + 1] = f
    OBVIOUS
  <1>3. \A i \in 1..n : s[i] = t[i]
    OBVIOUS
  <1> HIDE DEF S, s, t, n
  <1>4. Append(s, f) = t
    BY <1>1, <1>2, <1>3, AppendedIs
  <1> QED
    BY <1>4 DEF s, t

LEMMA Appended7 ==
  ASSUME NEW a, NEW b, NEW c, NEW d, NEW e, NEW f, NEW g
  PROVE  Append(<<a, b, c, d, e, f>>, g) = <<a, b, c, d, e, f, g>>
  <1> DEFINE S == {a, b, c, d, e, f, g}
             s == <<a, b, c, d, e, f>>
             t == <<a, b, c, d, e, f, g>>
             n == 6
  <1>1. s \in Seq(S) /\ Len(s) = n /\ g \in S /\ n \in Nat
    OBVIOUS
  <1>2. t \in Seq(S) /\ Len(t) = n + 1 /\ t[n + 1] = g
    OBVIOUS
  <1>3. \A i \in 1..n : s[i] = t[i]
    OBVIOUS
  <1> HIDE DEF S, s, t, n
  <1>4. Append(s, g) = t
    BY <1>1, <1>2, <1>3, AppendedIs
  <1> QED
    BY <1>4 DEF s, t
LEMMA WithIs ==
  ASSUME NEW r, NEW f
  PROVE  /\ Failed(r) \/ Failed(f) => With(r, f) = Exit
         /\ With(r, f).next = 0 \/ With(r, f).next = f.next
         /\ Failed(Exit) /\ Exit.next = 0
  BY DEF With, Failed, Exit, Done

LEMMA WithDone ==
  ASSUME NEW s, NEW a \in Nat \ {0}, NEW x, NEW b \in Nat \ {0}
  PROVE  With(Done(s, a), Done(x, b)) = Done(Append(s, x), b)
  BY DEF With, Failed, Done

LEMMA DoneIs ==
  ASSUME NEW s, NEW a \in Nat \ {0}
  PROVE  Done(s, a).next = a /\ Done(s, a).value = s /\ ~Failed(Done(s, a))
  BY DEF Failed, Done

(* A reader that compares the length takes no other.                       *)
LEMMA ClosedIs ==
  ASSUME NEW r, NEW o
  PROVE  /\ ~Failed(r) /\ r.next - o.next = o.value => Closed(r, o) = r
         /\ Failed(r) \/ r.next - o.next # o.value => Failed(Closed(r, o))
  BY DEF Closed, Failed, Exit

LEMMA NumberIs ==
  ASSUME NEW x \in Numbers
  PROVE  /\ x \in Seq(Byte) /\ Len(x) \in Nat /\ Len(x) <= MaxNumber
         /\ EncodeBignum(x) \in Seq(Byte) /\ Len(EncodeBignum(x)) = Len(x) + 2
         /\ Len(x) >= 256 => Len(x) % 256 <= Len(x) - 256
         /\ Len(x) % 256 \in Nat /\ Len(x) % 256 <= Len(x) /\ Len(x) % 256 <= 255
  <1>1. x \in Seq(Byte) /\ Len(x) \in Nat /\ Len(x) <= MaxNumber
    BY DEF Numbers
  <1>2. EncodeBignum(x) \in Seq(Byte) /\ Len(EncodeBignum(x)) = Len(x) + 2
    BY <1>1, BignumLong
  <1> QED
    BY <1>1, <1>2

LEMMA SmallInt ==
  ASSUME NEW n \in Nat, n <= 7000
  PROVE  n \in IntValue
  <1>1. MaxInt \in Int /\ n <= MaxInt /\ -MaxInt - 1 <= n
    BY SMT DEF MaxInt
  <1> QED
    BY <1>1, SMT DEF IntValue

-----------------------------------------------------------------------------
(* keystore.c                                                              *)
(* Two fields in a sequence: where they stand, and how they are read       *)
LEMMA PairLong ==
  ASSUME NEW x \in Seq(Byte), NEW y \in Seq(Byte)
  PROVE  /\ x \o y \in Seq(Byte) /\ Len(x \o y) = Len(x) + Len(y)
         /\ EncodeSequence(x \o y) \in Seq(Byte)
         /\ Len(EncodeSequence(x \o y)) = Len(x) + Len(y) + 7
         /\ Len(x) \in Nat /\ Len(y) \in Nat
  <1> DEFINE f == x \o y
             s == EncodeSequence(f)
  <1>1. f \in Seq(Byte) /\ Len(f) = Len(x) + Len(y) /\ Len(x) \in Nat /\ Len(y) \in Nat
    OBVIOUS
  <1> HIDE DEF f
  <1>2. s \in Seq(Byte) /\ Len(s) = Len(f) + 7
    BY <1>1, SequenceLong
  <1> HIDE DEF s
  <1>3. s \in Seq(Byte) /\ Len(s) = Len(x) + Len(y) + 7
    BY <1>1, <1>2
  <1> QED
    BY <1>1, <1>3, Zenon DEF f, s

(* Two fields from byte at on: where the first begins, the second, and what*)
(* comes after them                                                        *)
EncodePair(x, y) == EncodeSequence(x \o y)
FirstAt(at) == at + 7
SecondAt(at, x) == at + 7 + Len(x)
AfterPair(at, x, y) == at + 7 + Len(x) + Len(y)

LEMMA PairAt ==
  ASSUME NEW d \in Seq(Byte), NEW at \in Nat \ {0}, NEW x \in Seq(Byte), NEW y \in Seq(Byte),
         Len(x) + Len(y) \in IntValue, Part(d, at, EncodePair(x, y))
  PROVE  /\ FirstAt(at) \in Nat \ {0} /\ SecondAt(at, x) \in Nat \ {0}
         /\ AfterPair(at, x, y) \in Nat \ {0}
         /\ Part(d, FirstAt(at), x) /\ Part(d, SecondAt(at, x), y)
         /\ Opened(d, at) = Done(Len(x) + Len(y), FirstAt(at))
         /\ AfterPair(at, x, y) = at + Len(EncodePair(x, y))
         /\ AfterPair(at, x, y) - FirstAt(at) = Len(x) + Len(y)
  <1> DEFINE l == Len(x)
             m == Len(y)
             f == x \o y
             s == EncodeSequence(f)
             a == at + 7
             b == a + l
             c == b + m
  <1>1. l \in Nat /\ m \in Nat /\ f \in Seq(Byte) /\ Len(f) = l + m /\ Len(s) = l + m + 7
    BY PairLong
  <1>2. Part(d, at, s) /\ l + m \in IntValue
    BY DEF EncodePair
  <1> HIDE DEF l, m, s, f
  <1>3. /\ a \in Nat \ {0} /\ b \in Nat \ {0} /\ c \in Nat \ {0} /\ c - a = l + m
        /\ c = at + Len(s)
    BY <1>1
  <1> HIDE DEF b, c
  <1>4. Len(f) \in IntValue
    BY <1>1, <1>2
  <1>5. Opened(d, at) = Done(Len(f), at + 7) /\ Part(d, at + 7, f)
    BY <1>1, <1>2, <1>4, OpenedAt DEF s
  <1>6. Opened(d, at) = Done(l + m, a) /\ Part(d, a, f)
    BY <1>1, <1>3, <1>5
  <1>7. Part(d, a, x) /\ Part(d, a + Len(x), y)
    <2>1. Part(d, a, x \o y) /\ a \in Nat
      BY <1>3, <1>6 DEF f
    <2> QED
      BY <2>1, PartJoin
  <1>8. Part(d, a, x) /\ Part(d, b, y)
    BY <1>7 DEF b, l
  <1>9. c = at + Len(EncodePair(x, y))
    BY <1>3 DEF s, f, EncodePair
  <1>10. a = FirstAt(at) /\ b = SecondAt(at, x) /\ c = AfterPair(at, x, y)
    BY DEF FirstAt, SecondAt, AfterPair, b, c, l, m
  <1> HIDE DEF a
  <1> QED
    BY <1>3, <1>6, <1>8, <1>9, <1>10 DEF l, m

LEMMA FirstRead ==
  ASSUME NEW a \in Nat \ {0}, NEW b \in Nat \ {0}, NEW x, NEW l
  PROVE  With(Fresh(Done(l, a)), Done(x, b)) = Done(Append(<<>>, x), b)
  <1> DEFINE e == <<>>
  <1>1. Fresh(Done(l, a)) = Done(e, a)
    BY DoneIs DEF Fresh
  <1> HIDE DEF e
  <1>2. With(Done(e, a), Done(x, b)) = Done(Append(e, x), b)
    BY WithDone
  <1>3. With(Fresh(Done(l, a)), Done(x, b)) = Done(Append(e, x), b)
    BY <1>1, <1>2
  <1> QED
    BY <1>3 DEF e

LEMMA PairRead ==
  ASSUME NEW a \in Nat \ {0}, NEW b \in Nat \ {0}, NEW c \in Nat \ {0}, NEW x, NEW y,
         NEW l, c - a = l
  PROVE  Closed(With(With(Fresh(Done(l, a)), Done(x, b)), Done(y, c)), Done(l, a))
           = Done(<<x, y>>, c)
  <1> DEFINE opened == Done(l, a)
             f == Done(x, b)
             g == Done(y, c)
             t == <<x, y>>
             s == <<x>>
             r == With(Fresh(opened), f)
  <1>1. t = Append(s, y)
    BY Appended2
  <1>2. r = Done(s, b)
    <2>1. s = Append(<<>>, x)
      BY Appended1
    <2> HIDE DEF s
    <2> QED
      BY <2>1, FirstRead
  <1> HIDE DEF s, t, r
  <1>3. With(r, g) = Done(t, c)
    <2>1. With(Done(s, b), Done(y, c)) = Done(Append(s, y), c)
      BY WithDone
    <2> QED
      BY <1>1, <1>2, <2>1
  <1>4. opened.next = a /\ opened.value = l
    BY DoneIs
  <1>5. With(r, g).next = c /\ ~Failed(With(r, g))
    BY <1>3, DoneIs
  <1>6. Closed(With(r, g), opened) = Done(t, c)
    BY <1>3, <1>4, <1>5, ClosedIs
  <1> QED
    BY <1>6 DEF r, t

LEMMA PairRefused ==
  ASSUME NEW a \in Nat \ {0}, NEW c \in Nat \ {0}, NEW l, c - a = l, NEW f, NEW g,
         Failed(f) \/ Failed(g) \/ (g.next \in Nat /\ g.next # c)
  PROVE  Failed(Closed(With(With(Fresh(Done(l, a)), f), g), Done(l, a)))
  <1> DEFINE opened == Done(l, a)
             n == With(Fresh(opened), f)
             e == With(n, g)
  <1>1. opened.next = a /\ opened.value = c - a
    BY DoneIs
  <1>2. Failed(f) \/ Failed(g) => Failed(e)
    BY WithIs
  <1>3. e.next = 0 \/ e.next = g.next
    BY WithIs
  <1> HIDE DEF n, e, opened
  <1>4. Failed(e) \/ e.next - opened.next # opened.value
    BY <1>1, <1>2, <1>3 DEF Failed
  <1>5. Failed(Closed(e, opened))
    BY <1>4, ClosedIs
  <1> QED
    BY <1>5 DEF n, e, opened

LEMMA PairDone ==
  ASSUME NEW d \in Seq(Byte), NEW at \in Nat \ {0}, NEW x \in Seq(Byte), NEW y \in Seq(Byte),
         Len(x) + Len(y) \in IntValue, Part(d, at, EncodePair(x, y)), NEW p, NEW q
  PROVE  Closed(With(With(Fresh(Opened(d, at)), Done(p, SecondAt(at, x))), Done(q, AfterPair(at, x, y))),
                Opened(d, at))
           = Done(<<p, q>>, at + Len(EncodePair(x, y)))
  <1> DEFINE l == Len(x) + Len(y)
             a == FirstAt(at)
             b == SecondAt(at, x)
             c == AfterPair(at, x, y)
             opened == Opened(d, at)
             e == at + Len(EncodePair(x, y))
  <1>1. /\ a \in Nat \ {0} /\ b \in Nat \ {0} /\ c \in Nat \ {0} /\ c - a = l
        /\ opened = Done(l, a) /\ c = e
    BY PairAt
  <1> HIDE DEF a, b, c, l, opened, e
  <1>2. Closed(With(With(Fresh(Done(l, a)), Done(p, b)), Done(q, c)), Done(l, a)) = Done(<<p, q>>, c)
    <2>1. a \in Nat \ {0} /\ b \in Nat \ {0} /\ c \in Nat \ {0} /\ c - a = l
      BY <1>1
    <2> HIDE DEF a, b, c, l
    <2>2. \A z : c - a = z =>
            Closed(With(With(Fresh(Done(z, a)), Done(p, b)), Done(q, c)), Done(z, a))
              = Done(<<p, q>>, c)
      BY <2>1, PairRead, SMTT(30)
    <2> QED
      BY <2>1, <2>2, Zenon
  <1>3. Closed(With(With(Fresh(opened), Done(p, b)), Done(q, c)), opened) = Done(<<p, q>>, e)
    BY <1>1, <1>2
  <1> QED
    BY <1>3 DEF b, c, opened, e

LEMMA PairFailed ==
  ASSUME NEW d \in Seq(Byte), NEW at \in Nat \ {0}, NEW x \in Seq(Byte), NEW y \in Seq(Byte),
         Len(x) + Len(y) \in IntValue, Part(d, at, EncodePair(x, y)), NEW f, NEW g,
         Failed(f) \/ Failed(g) \/ (g.next \in Nat /\ g.next # AfterPair(at, x, y))
  PROVE  Failed(Closed(With(With(Fresh(Opened(d, at)), f), g), Opened(d, at)))
  <1> DEFINE l == Len(x) + Len(y)
             a == FirstAt(at)
             c == AfterPair(at, x, y)
             opened == Opened(d, at)
  <1>1. a \in Nat \ {0} /\ c \in Nat \ {0} /\ c - a = l /\ opened = Done(l, a)
    BY PairAt
  <1>2. Failed(f) \/ Failed(g) \/ (g.next \in Nat /\ g.next # c)
    OBVIOUS
  <1> HIDE DEF a, c, l, opened
  <1>3. Failed(Closed(With(With(Fresh(Done(l, a)), f), g), Done(l, a)))
    BY <1>1, <1>2, PairRefused
  <1>4. Failed(Closed(With(With(Fresh(opened), f), g), opened))
    BY <1>1, <1>3
  <1> QED
    BY <1>4 DEF opened

(* What the second field is read from                                      *)
LEMMA PairNext ==
  ASSUME NEW d \in Seq(Byte), NEW at \in Nat \ {0}, NEW x \in Seq(Byte), NEW y \in Seq(Byte),
         Len(x) + Len(y) \in IntValue, Part(d, at, EncodePair(x, y)), NEW f, f.next \in Nat \ {0}
  PROVE  /\ With(Fresh(Opened(d, at)), f).next = f.next
         /\ Opened(d, at).next = FirstAt(at)
  <1> DEFINE opened == Opened(d, at)
             l == Len(x) + Len(y)
             a == FirstAt(at)
             e == <<>>
  <1>1. opened = Done(l, a) /\ a \in Nat \ {0}
    BY PairAt
  <1> HIDE DEF opened, l, a
  <1>2. Fresh(opened) = Done(e, a) /\ opened.next = a
    BY <1>1, DoneIs DEF Fresh
  <1> HIDE DEF e
  <1>3. ~Failed(Fresh(opened)) /\ ~Failed(f)
    BY <1>1, <1>2, DoneIs DEF Failed
  <1>4. With(Fresh(opened), f).next = f.next
    BY <1>3 DEF With, Done
  <1> QED
    BY <1>2, <1>4 DEF opened, a

-----------------------------------------------------------------------------
(* keystore.c                                                              *)
LEMMA PublicKeyLong ==
  ASSUME NEW v \in PublicKey
  PROVE  /\ v[1] \in Numbers /\ v[2] \in IntValue /\ v = <<v[1], v[2]>>
         /\ EncodeBignum(v[1]) \in Seq(Byte) /\ EncodeInt(v[2]) \in Seq(Byte)
         /\ Len(EncodeBignum(v[1])) = Len(v[1]) + 2 /\ Len(EncodeInt(v[2])) = 6
         /\ Len(v[1]) \in Nat /\ Len(v[1]) <= MaxNumber
         /\ PublicKeyToDER(v) \in Seq(Byte) /\ Len(PublicKeyToDER(v)) = Len(v[1]) + 15
  <1>1. v[1] \in Numbers /\ v[2] \in IntValue /\ v = <<v[1], v[2]>>
    BY DEF PublicKey
  <1> DEFINE n == EncodeBignum(v[1])
             e == EncodeInt(v[2])
             l == Len(v[1])
  <1>2. n \in Seq(Byte) /\ Len(n) = l + 2 /\ l \in Nat /\ l <= MaxNumber
    BY <1>1, NumberIs
  <1>3. e \in Seq(Byte) /\ Len(e) = 6
    BY <1>1, IntRange, IntLong
  <1>4. PublicKeyToDER(v) = EncodeSequence(n \o e)
    BY DEF PublicKeyToDER
  <1> HIDE DEF n, e, l
  <1>5. PublicKeyToDER(v) \in Seq(Byte) /\ Len(PublicKeyToDER(v)) = Len(n) + Len(e) + 7
    BY <1>2, <1>3, <1>4, PairLong
  <1>6. Len(PublicKeyToDER(v)) = l + 15
    BY <1>2, <1>3, <1>5
  <1> QED
    BY <1>1, <1>2, <1>3, <1>5, <1>6 DEF n, e, l

LEMMA PublicKeyAt ==
  ASSUME NEW d \in Seq(Byte), NEW at \in Nat \ {0}, NEW v \in PublicKey,
         Part(d, at, PublicKeyToDER(v))
  PROVE  /\ Len(v[1]) < 256 => DerToPublicKey(d, at) = Done(v, at + Len(PublicKeyToDER(v)))
         /\ Len(v[1]) >= 256 => Failed(DerToPublicKey(d, at))
  <1> DEFINE p == v[1]
             q == v[2]
             k == Len(p)
             w == k % 256
             x == EncodeBignum(p)
             y == EncodeInt(q)
             a == FirstAt(at)
             b == SecondAt(at, x)
             c == AfterPair(at, x, y)
             opened == Opened(d, at)
             f == DecodeBignum(d, opened.next)
             n == With(Fresh(opened), f)
             g == DecodeInt(d, n.next)
  <1>1. DerToPublicKey(d, at) = Closed(With(n, g), opened)
    BY DEF DerToPublicKey
  <1>2. p \in Numbers /\ q \in IntValue /\ v = <<p, q>>
    BY PublicKeyLong
  <1>3. Len(x) = k + 2 /\ Len(y) = 6 /\ k \in Nat /\ k <= MaxNumber
    BY PublicKeyLong
  <1>4. PublicKeyToDER(v) = EncodePair(x, y) /\ Part(d, at, PublicKeyToDER(v))
    BY DEF PublicKeyToDER, EncodePair
  <1>5. x \in Seq(Byte) /\ y \in Seq(Byte)
    BY PublicKeyLong
  <1> HIDE DEF k, x, y, p, q
  <1>6. x \in Seq(Byte) /\ y \in Seq(Byte) /\ Len(x) + Len(y) \in IntValue
        /\ Part(d, at, EncodePair(x, y))
    BY <1>3, <1>4, <1>5, SmallInt DEF MaxNumber
  <1>7. b = a + 2 + k /\ c = b + 6
    BY <1>3 DEF FirstAt, SecondAt, AfterPair
  <1>8. /\ a \in Nat \ {0} /\ b \in Nat \ {0} /\ c \in Nat \ {0} /\ Part(d, a, x)
        /\ Part(d, b, y)
    BY <1>6, PairAt
  <1>9. opened.next = a /\ (f.next \in Nat \ {0} => n.next = f.next)
    <2> HIDE DEF f, a
    <2>1. f.next \in Nat \ {0} => With(Fresh(opened), f).next = f.next
      BY <1>6, PairNext
    <2>2. opened.next = a
      <3>1. Done(0, 1).next \in Nat \ {0}
        BY DEF Done
      <3> QED
        BY <1>6, <3>1, PairNext DEF a
    <2> QED
      BY <2>1, <2>2
  <1>10. w \in Nat /\ (k >= 256 => w < k)
    BY <1>3
  <1> HIDE DEF a, b, c, opened, w
  <1>11. f.next = a + 2 + w /\ (k < 256 => f = Done(p, b))
    BY <1>2, <1>7, <1>8, <1>9, BignumAt DEF x, k, w
  <1>12. n.next = a + 2 + w /\ (k < 256 => n.next = b)
    BY <1>10, <1>7, <1>8, <1>9, <1>11, DoneIs
  <1>13. CASE k < 256
    <2>1. g = Done(q, c)
      BY <1>2, <1>7, <1>8, <1>12, <1>13, IntAt DEF y
    <2> HIDE DEF f, g
    <2>2. Closed(With(n, g), opened) = Done(<<p, q>>, at + Len(EncodePair(x, y)))
      <3>1. f = Done(p, SecondAt(at, x)) /\ g = Done(q, AfterPair(at, x, y))
        BY <1>11, <1>13, <2>1 DEF b, c
      <3>2. Closed(With(With(Fresh(Opened(d, at)), Done(p, SecondAt(at, x))),
                        Done(q, AfterPair(at, x, y))), Opened(d, at))
              = Done(<<p, q>>, at + Len(EncodePair(x, y)))
        BY <1>6, PairDone
      <3> QED
        BY <3>1, <3>2 DEF opened
    <2> QED
      BY <1>1, <1>2, <1>4, <1>13, <2>2 DEF k, p
  <1>14. CASE k >= 256
    <2>1. g.next = 0 \/ g.next = a + 2 + w + 6
      BY <1>12, IntNext
    <2> HIDE DEF f, g
    <2>2. Failed(g) \/ (g.next \in Nat /\ g.next # c)
      BY <1>3, <1>7, <1>8, <1>14, <1>10, <2>1 DEF Failed
    <2>3. Failed(Closed(With(n, g), opened))
      BY <1>6, <2>2, PairFailed DEF opened, c
    <2> QED
      BY <1>1, <1>14, <2>3 DEF k, p
  <1> QED
    BY <1>3, <1>13, <1>14 DEF k, p

LEMMA StringIs ==
  ASSUME NEW size \in {14, 50}, NEW x \in Strings(size)
  PROVE  x \in Seq(Byte) /\ Len(x) = size
         /\ EncodeString(x) \in Seq(Byte) /\ Len(EncodeString(x)) = size + 2
  <1>1. x \in Seq(Byte) /\ Len(x) = size
    BY DEF Strings
  <1>2. EncodeString(x) \in Seq(Byte) /\ Len(EncodeString(x)) = Len(x) + 2
    BY <1>1, StringLong
  <1> QED
    BY <1>1, <1>2

LEMMA StringsAre ==
  /\ \A x \in Strings(14) : EncodeString(x) \in Seq(Byte) /\ Len(EncodeString(x)) = 16
  /\ \A x \in Strings(50) : EncodeString(x) \in Seq(Byte) /\ Len(EncodeString(x)) = 52
  <1>1. ASSUME NEW x \in Strings(14)
        PROVE  EncodeString(x) \in Seq(Byte) /\ Len(EncodeString(x)) = 16
    <2>1. EncodeString(x) \in Seq(Byte) /\ Len(EncodeString(x)) = 14 + 2
      BY StringIs
    <2> QED
      BY <2>1
  <1>2. ASSUME NEW x \in Strings(50)
        PROVE  EncodeString(x) \in Seq(Byte) /\ Len(EncodeString(x)) = 52
    <2>1. EncodeString(x) \in Seq(Byte) /\ Len(EncodeString(x)) = 50 + 2
      BY StringIs
    <2> QED
      BY <2>1
  <1> QED
    BY <1>1, <1>2

LEMMA PrivateKeyLong ==
  ASSUME NEW v \in PrivateKey
  PROVE  /\ v[1] \in Numbers /\ v[2] \in Numbers /\ v = <<v[1], v[2]>>
         /\ EncodeBignum(v[1]) \in Seq(Byte) /\ EncodeBignum(v[2]) \in Seq(Byte)
         /\ Len(EncodeBignum(v[1])) = Len(v[1]) + 2 /\ Len(EncodeBignum(v[2])) = Len(v[2]) + 2
         /\ Len(v[1]) \in Nat /\ Len(v[1]) <= MaxNumber
         /\ Len(v[2]) \in Nat /\ Len(v[2]) <= MaxNumber
         /\ PrivateKeyToDER(v) \in Seq(Byte)
         /\ Len(PrivateKeyToDER(v)) = Len(v[1]) + Len(v[2]) + 11
  <1> DEFINE p == v[1]
             q == v[2]
  <1>1. p \in Numbers /\ q \in Numbers /\ v = <<p, q>>
    BY DEF PrivateKey
  <1> HIDE DEF p, q
  <1> DEFINE x == EncodeBignum(p)
             y == EncodeBignum(q)
             k == Len(p)
             l == Len(q)
  <1>2. x \in Seq(Byte) /\ Len(x) = k + 2 /\ k \in Nat /\ k <= MaxNumber
    BY <1>1, NumberIs
  <1>3. y \in Seq(Byte) /\ Len(y) = l + 2 /\ l \in Nat /\ l <= MaxNumber
    BY <1>1, NumberIs
  <1>4. PrivateKeyToDER(v) = EncodeSequence(x \o y)
    BY DEF PrivateKeyToDER, p, q
  <1> HIDE DEF x, y, k, l
  <1>5. PrivateKeyToDER(v) \in Seq(Byte) /\ Len(PrivateKeyToDER(v)) = Len(x) + Len(y) + 7
    <2>1. x \in Seq(Byte) /\ y \in Seq(Byte)
      BY <1>2, <1>3
    <2> QED
      BY <1>4, <2>1, PairLong
  <1>6. Len(PrivateKeyToDER(v)) = k + l + 11
    BY <1>2, <1>3, <1>5
  <1> QED
    BY <1>1, <1>2, <1>3, <1>5, <1>6 DEF p, q, x, y, k, l

LEMMA PrivateKeyIs ==
  ASSUME NEW v \in PrivateKey
  PROVE  PrivateKeyToDER(v) \in Seq(Byte)
         /\ Len(PrivateKeyToDER(v)) = Len(v[1]) + Len(v[2]) + 11
  BY PrivateKeyLong, Zenon

LEMMA PrivateKeySmall ==
  ASSUME NEW v \in PrivateKey
  PROVE  Len(v[1]) \in Nat /\ Len(v[1]) <= MaxNumber /\ Len(v[2]) \in Nat
         /\ Len(v[2]) <= MaxNumber
  BY PrivateKeyLong, Zenon

LEMMA KeyPairLong ==
  ASSUME NEW v \in KeyPair
  PROVE  /\ v[1] \in PublicKey /\ v[2] \in PrivateKey /\ v = <<v[1], v[2]>>
         /\ PublicKeyToDER(v[1]) \in Seq(Byte) /\ PrivateKeyToDER(v[2]) \in Seq(Byte)
         /\ Len(PublicKeyToDER(v[1])) = Len(v[1][1]) + 15
         /\ Len(PrivateKeyToDER(v[2])) = Len(v[2][1]) + Len(v[2][2]) + 11
         /\ Len(v[1][1]) \in Nat /\ Len(v[1][1]) <= MaxNumber
         /\ Len(v[2][1]) \in Nat /\ Len(v[2][1]) <= MaxNumber
         /\ Len(v[2][2]) \in Nat /\ Len(v[2][2]) <= MaxNumber
         /\ KeyPairToDER(v) \in Seq(Byte)
         /\ Len(KeyPairToDER(v)) = Len(v[1][1]) + Len(v[2][1]) + Len(v[2][2]) + 33
  <1> DEFINE p == v[1]
             q == v[2]
  <1>1. p \in PublicKey /\ q \in PrivateKey /\ v = <<p, q>>
    BY DEF KeyPair
  <1> HIDE DEF p, q
  <1> DEFINE x == PublicKeyToDER(p)
             y == PrivateKeyToDER(q)
             k == Len(p[1])
             l == Len(q[1])
             m == Len(q[2])
  <1>2. x \in Seq(Byte) /\ Len(x) = k + 15 /\ k \in Nat /\ k <= MaxNumber
    BY <1>1, PublicKeyLong
  <1>3. y \in Seq(Byte) /\ Len(y) = l + m + 11 /\ l \in Nat /\ l <= MaxNumber /\ m \in Nat
        /\ m <= MaxNumber
    BY <1>1, PrivateKeyIs, PrivateKeySmall
  <1>4. KeyPairToDER(v) = EncodeSequence(x \o y)
    BY DEF KeyPairToDER, p, q
  <1> HIDE DEF x, y, k, l, m
  <1>5. KeyPairToDER(v) \in Seq(Byte) /\ Len(KeyPairToDER(v)) = Len(x) + Len(y) + 7
    <2>1. x \in Seq(Byte) /\ y \in Seq(Byte)
      BY <1>2, <1>3
    <2> QED
      BY <1>4, <2>1, PairLong
  <1>6. Len(KeyPairToDER(v)) = k + l + m + 33
    BY <1>2, <1>3, <1>5
  <1> QED
    <2>1. v[1] \in PublicKey /\ v[2] \in PrivateKey /\ v = <<v[1], v[2]>>
      BY <1>1 DEF p, q
    <2>2. PublicKeyToDER(v[1]) \in Seq(Byte) /\ PrivateKeyToDER(v[2]) \in Seq(Byte)
      BY <1>2, <1>3 DEF p, q, x, y
    <2>3. Len(PublicKeyToDER(v[1])) = Len(v[1][1]) + 15
      BY <1>2 DEF p, x, k
    <2>4. Len(PrivateKeyToDER(v[2])) = Len(v[2][1]) + Len(v[2][2]) + 11
      BY <1>3 DEF q, y, l, m
    <2>5. Len(v[1][1]) \in Nat /\ Len(v[1][1]) <= MaxNumber
      BY <1>2 DEF p, k
    <2>6. Len(v[2][1]) \in Nat /\ Len(v[2][1]) <= MaxNumber
      BY <1>3 DEF q, l
    <2>7. Len(v[2][2]) \in Nat /\ Len(v[2][2]) <= MaxNumber
      BY <1>3 DEF q, m
    <2>8. Len(KeyPairToDER(v)) = Len(v[1][1]) + Len(v[2][1]) + Len(v[2][2]) + 33
      BY <1>6 DEF p, q, k, l, m
    <2> QED
      BY <1>5, <2>1, <2>2, <2>3, <2>4, <2>5, <2>6, <2>7, <2>8, Zenon

LEMMA KeyPairIs ==
  ASSUME NEW v \in KeyPair
  PROVE  KeyPairToDER(v) \in Seq(Byte)
         /\ Len(KeyPairToDER(v)) = Len(v[1][1]) + Len(v[2][1]) + Len(v[2][2]) + 33
  BY KeyPairLong, Zenon

LEMMA ValidityLong ==
  ASSUME NEW v \in Validity
  PROVE  /\ v[1] \in Strings(14) /\ v[2] \in Strings(14) /\ v = <<v[1], v[2]>>
         /\ EncodeString(v[1]) \in Seq(Byte) /\ EncodeString(v[2]) \in Seq(Byte)
         /\ Len(EncodeString(v[1])) = 16 /\ Len(EncodeString(v[2])) = 16
         /\ ValidityToDER(v) \in Seq(Byte) /\ Len(ValidityToDER(v)) = 39
  <1> DEFINE p == v[1]
             q == v[2]
  <1>1. p \in Strings(14) /\ q \in Strings(14) /\ v = <<p, q>>
    BY DEF Validity
  <1> HIDE DEF p, q
  <1> DEFINE x == EncodeString(p)
             y == EncodeString(q)
  <1>2. x \in Seq(Byte) /\ Len(x) = 16
    BY <1>1, StringsAre
  <1>3. y \in Seq(Byte) /\ Len(y) = 16
    BY <1>1, StringsAre
  <1>4. ValidityToDER(v) = EncodeSequence(x \o y)
    BY DEF ValidityToDER, p, q
  <1> HIDE DEF x, y
  <1>5. ValidityToDER(v) \in Seq(Byte) /\ Len(ValidityToDER(v)) = Len(x) + Len(y) + 7
    <2>1. x \in Seq(Byte) /\ y \in Seq(Byte)
      BY <1>2, <1>3
    <2> QED
      BY <1>4, <2>1, PairLong
  <1>6. Len(ValidityToDER(v)) = 39
    BY <1>2, <1>3, <1>5
  <1> QED
    BY <1>1, <1>2, <1>3, <1>5, <1>6 DEF p, q, x, y

LEMMA ValidityIs ==
  ASSUME NEW v \in Validity
  PROVE  ValidityToDER(v) \in Seq(Byte) /\ Len(ValidityToDER(v)) = 39
  BY ValidityLong, Zenon

LEMMA CertifiedKeyLong ==
  ASSUME NEW v \in CertifiedKey
  PROVE  /\ v[1] \in IntValue /\ v[2] \in Numbers /\ v = <<v[1], v[2]>>
         /\ EncodeInt(v[1]) \in Seq(Byte) /\ EncodeBignum(v[2]) \in Seq(Byte)
         /\ Len(EncodeInt(v[1])) = 6 /\ Len(EncodeBignum(v[2])) = Len(v[2]) + 2
         /\ Len(v[2]) \in Nat /\ Len(v[2]) <= MaxNumber
         /\ CertifiedKeyToDER(v) \in Seq(Byte) /\ Len(CertifiedKeyToDER(v)) = Len(v[2]) + 15
  <1> DEFINE p == v[1]
             q == v[2]
  <1>1. p \in IntValue /\ q \in Numbers /\ v = <<p, q>>
    BY DEF CertifiedKey
  <1> HIDE DEF p, q
  <1> DEFINE x == EncodeInt(p)
             y == EncodeBignum(q)
             k == Len(q)
  <1>2. x \in Seq(Byte) /\ Len(x) = 6
    BY <1>1, IntRange, IntLong
  <1>3. y \in Seq(Byte) /\ Len(y) = k + 2 /\ k \in Nat /\ k <= MaxNumber
    BY <1>1, NumberIs
  <1>4. CertifiedKeyToDER(v) = EncodeSequence(x \o y)
    BY DEF CertifiedKeyToDER, p, q
  <1> HIDE DEF x, y, k
  <1>5. CertifiedKeyToDER(v) \in Seq(Byte) /\ Len(CertifiedKeyToDER(v)) = Len(x) + Len(y) + 7
    <2>1. x \in Seq(Byte) /\ y \in Seq(Byte)
      BY <1>2, <1>3
    <2> QED
      BY <1>4, <2>1, PairLong
  <1>6. Len(CertifiedKeyToDER(v)) = k + 15
    BY <1>2, <1>3, <1>5
  <1> QED
    BY <1>1, <1>2, <1>3, <1>5, <1>6 DEF p, q, x, y, k

LEMMA KeyInfoLong ==
  ASSUME NEW v \in KeyInfo
  PROVE  /\ v[1] \in IntValue /\ v[2] \in CertifiedKey /\ v = <<v[1], v[2]>>
         /\ EncodeInt(v[1]) \in Seq(Byte) /\ CertifiedKeyToDER(v[2]) \in Seq(Byte)
         /\ Len(EncodeInt(v[1])) = 6 /\ Len(CertifiedKeyToDER(v[2])) = Len(v[2][2]) + 15
         /\ Len(v[2][2]) \in Nat /\ Len(v[2][2]) <= MaxNumber
         /\ KeyInfoToDER(v) \in Seq(Byte) /\ Len(KeyInfoToDER(v)) = Len(v[2][2]) + 28
  <1> DEFINE p == v[1]
             q == v[2]
  <1>1. p \in IntValue /\ q \in CertifiedKey /\ v = <<p, q>>
    BY DEF KeyInfo
  <1> HIDE DEF p, q
  <1> DEFINE x == EncodeInt(p)
             y == CertifiedKeyToDER(q)
             k == Len(q[2])
  <1>2. x \in Seq(Byte) /\ Len(x) = 6
    BY <1>1, IntRange, IntLong
  <1>3. y \in Seq(Byte) /\ Len(y) = k + 15 /\ k \in Nat /\ k <= MaxNumber
    BY <1>1, CertifiedKeyLong
  <1>4. KeyInfoToDER(v) = EncodeSequence(x \o y)
    BY DEF KeyInfoToDER, p, q
  <1> HIDE DEF x, y, k
  <1>5. KeyInfoToDER(v) \in Seq(Byte) /\ Len(KeyInfoToDER(v)) = Len(x) + Len(y) + 7
    <2>1. x \in Seq(Byte) /\ y \in Seq(Byte)
      BY <1>2, <1>3
    <2> QED
      BY <1>4, <2>1, PairLong
  <1>6. Len(KeyInfoToDER(v)) = k + 28
    BY <1>2, <1>3, <1>5
  <1> QED
    BY <1>1, <1>2, <1>3, <1>5, <1>6 DEF p, q, x, y, k

LEMMA KeyInfoIs ==
  ASSUME NEW v \in KeyInfo
  PROVE  KeyInfoToDER(v) \in Seq(Byte) /\ Len(KeyInfoToDER(v)) = Len(v[2][2]) + 28
  BY KeyInfoLong, Zenon

LEMMA KeyInfoSmall ==
  ASSUME NEW v \in KeyInfo
  PROVE  Len(v[2][2]) \in Nat /\ Len(v[2][2]) <= MaxNumber
  BY KeyInfoLong, Zenon

(* Whatever stands there, a number ends within its length byte.            *)
LEMMA BignumNext ==
  ASSUME NEW d \in Seq(Byte), NEW at \in Nat \ {0}
  PROVE  DecodeBignum(d, at).next \in Nat /\ DecodeBignum(d, at).next <= at + 257
  <1> DEFINE r == DecodeBignum(d, at)
  <1>1. CASE r = Exit
    BY <1>1 DEF Exit
  <1>2. CASE at + 1 <= Len(d) /\ r.next = at + 2 + d[at+1]
    <2>1. at + 1 \in 1..Len(d)
      BY <1>2
    <2>2. d[at+1] \in Byte
      BY <2>1
    <2>3. d[at+1] \in Nat /\ d[at+1] <= 255
      BY <2>2, ByteIn
    <2> HIDE DEF r
    <2>4. r.next \in Nat /\ r.next <= at + 257
      BY <1>2, <2>3
    <2> QED
      BY <2>4 DEF r
  <1>3. r = Exit \/ (at + 1 <= Len(d) /\ r.next = at + 2 + d[at+1])
    BY DEF DecodeBignum, DecodeBytes, Done
  <1> QED
    BY <1>1, <1>2, <1>3

LEMMA PrivateKeyAt ==
  ASSUME NEW d \in Seq(Byte), NEW at \in Nat \ {0}, NEW v \in PrivateKey, Part(d, at, PrivateKeyToDER(v))
  PROVE  /\ Len(v[1]) < 256 /\ Len(v[2]) < 256 => DerToPrivateKey(d, at) = Done(v, at + Len(PrivateKeyToDER(v)))
         /\ ~(Len(v[1]) < 256 /\ Len(v[2]) < 256) => Failed(DerToPrivateKey(d, at))
  <1> DEFINE p == v[1]
             q == v[2]
             k == Len(p)
             l == Len(q)
             w == k % 256
             u == l % 256
             x == EncodeBignum(p)
             y == EncodeBignum(q)
             a == FirstAt(at)
             b == SecondAt(at, x)
             c == AfterPair(at, x, y)
             opened == Opened(d, at)
             f == DecodeBignum(d, opened.next)
             n == With(Fresh(opened), f)
             g == DecodeBignum(d, n.next)
  <1>1. DerToPrivateKey(d, at) = Closed(With(n, g), opened)
    BY DEF DerToPrivateKey
  <1>2. p \in Numbers /\ q \in Numbers /\ v = <<p, q>>
    BY PrivateKeyLong
  <1>3. Len(x) = k + 2 /\ Len(y) = l + 2 /\ k \in Nat /\ l \in Nat /\ k <= MaxNumber
        /\ l <= MaxNumber
    BY PrivateKeyLong
  <1>4. PrivateKeyToDER(v) = EncodePair(x, y) /\ Part(d, at, PrivateKeyToDER(v))
    BY DEF PrivateKeyToDER, EncodePair
  <1>5. x \in Seq(Byte) /\ y \in Seq(Byte)
    BY PrivateKeyLong
  <1> HIDE DEF x, y, p, q, k, l
  <1>6. x \in Seq(Byte) /\ y \in Seq(Byte) /\ Len(x) + Len(y) \in IntValue
        /\ Part(d, at, EncodePair(x, y))
    BY <1>3, <1>4, <1>5, SmallInt DEF MaxNumber
  <1>7. b = a + 2 + k /\ c = b + 2 + l
    BY <1>3 DEF FirstAt, SecondAt, AfterPair
  <1>8. /\ a \in Nat \ {0} /\ b \in Nat \ {0} /\ c \in Nat \ {0} /\ Part(d, a, x)
        /\ Part(d, b, y)
    BY <1>6, PairAt
  <1>9. opened.next = a /\ (f.next \in Nat \ {0} => n.next = f.next)
    <2> HIDE DEF f, a
    <2>1. f.next \in Nat \ {0} => With(Fresh(opened), f).next = f.next
      BY <1>6, PairNext
    <2>2. opened.next = a
      <3>1. Done(0, 1).next \in Nat \ {0}
        BY DEF Done
      <3> QED
        BY <1>6, <3>1, PairNext DEF a
    <2> QED
      BY <2>1, <2>2
  <1>10. w \in Nat /\ u \in Nat /\ (k >= 256 => w <= k - 256) /\ (l >= 256 => u < l)
    BY <1>3
  <1> HIDE DEF a, b, c, opened, w, u
  <1>11. f.next = a + 2 + w /\ (k < 256 => f = Done(p, b))
    BY <1>2, <1>7, <1>8, <1>9, BignumAt DEF x, k, w
  <1>12. n.next = a + 2 + w /\ (k < 256 => n.next = b)
    BY <1>7, <1>8, <1>9, <1>11, <1>10, DoneIs
  <1>13. ASSUME k < 256
         PROVE  g.next = b + 2 + u /\ (l < 256 => g = Done(q, c))
    <2>1. g = DecodeBignum(d, b)
      BY <1>12, <1>13
    <2>2. Part(d, b, EncodeBignum(q)) /\ b \in Nat \ {0} /\ q \in Numbers
      BY <1>2, <1>8 DEF y
    <2> HIDE DEF g
    <2>3. DecodeBignum(d, b).next = b + 2 + (Len(q) % 256)
      BY <2>2, BignumAt
    <2>4. Len(q) < 256 => DecodeBignum(d, b) = Done(q, b + 2 + Len(q))
      BY <2>2, BignumAt
    <2> QED
      BY <1>7, <2>1, <2>3, <2>4 DEF l, u
  <1>14. CASE k < 256 /\ l < 256
    <2>1. f = Done(p, b) /\ g = Done(q, c)
      BY <1>11, <1>13, <1>14
    <2> HIDE DEF f, g
    <2>2. Closed(With(n, g), opened) = Done(<<p, q>>, at + Len(EncodePair(x, y)))
      <3>1. f = Done(p, SecondAt(at, x)) /\ g = Done(q, AfterPair(at, x, y))
        BY <2>1 DEF b, c
      <3>2. Closed(With(With(Fresh(Opened(d, at)), Done(p, SecondAt(at, x))),
                        Done(q, AfterPair(at, x, y))), Opened(d, at))
              = Done(<<p, q>>, at + Len(EncodePair(x, y)))
        BY <1>6, PairDone
      <3> QED
        BY <3>1, <3>2 DEF opened
    <2> QED
      BY <1>1, <1>2, <1>4, <1>14, <2>2 DEF k, l, p, q
  <1>15. CASE ~(k < 256 /\ l < 256)
    <2>1. g.next \in Nat /\ g.next # c
      <3>1. CASE k < 256
        <4>1. g.next = b + 2 + u
          BY <1>13, <3>1
        <4> HIDE DEF g
        <4> QED
          BY <1>3, <1>7, <1>8, <1>10, <1>15, <3>1, <4>1
      <3>2. CASE ~(k < 256)
        <4>1. n.next \in Nat \ {0}
          BY <1>8, <1>12, <1>10
        <4>2. g.next \in Nat /\ g.next <= n.next + 257
          BY <4>1, BignumNext
        <4> HIDE DEF g, n
        <4> QED
          BY <1>3, <1>7, <1>8, <1>12, <1>10, <3>2, <4>2
      <3> QED
        BY <3>1, <3>2
    <2> HIDE DEF f, g
    <2>2. Failed(Closed(With(n, g), opened))
      BY <1>6, <2>1, PairFailed DEF opened, c
    <2> QED
      BY <1>1, <1>15, <2>2 DEF k, l, p, q
  <1> QED
    BY <1>14, <1>15 DEF k, l, p, q

LEMMA PairOpened ==
  ASSUME NEW d \in Seq(Byte), NEW at \in Nat \ {0}, NEW x \in Seq(Byte), NEW y \in Seq(Byte),
         Len(x) + Len(y) \in IntValue, Part(d, at, EncodePair(x, y))
  PROVE  Opened(d, at).next = FirstAt(at)
  <1>1. Done(0, 1).next \in Nat \ {0}
    BY DEF Done
  <1> QED
    BY <1>1, PairNext

LEMMA SecondFrom ==
  ASSUME NEW d \in Seq(Byte), NEW at \in Nat \ {0}, NEW x \in Seq(Byte), NEW y \in Seq(Byte),
         Len(x) + Len(y) \in IntValue, Part(d, at, EncodePair(x, y)), NEW p
  PROVE  With(Fresh(Opened(d, at)), Done(p, SecondAt(at, x))).next = SecondAt(at, x)
  <1> DEFINE b == SecondAt(at, x)
             f == Done(p, b)
  <1>1. b \in Nat \ {0}
    BY PairAt
  <1> HIDE DEF b
  <1>2. f.next = b /\ f.next \in Nat \ {0}
    BY <1>1, DoneIs
  <1> HIDE DEF f
  <1>3. With(Fresh(Opened(d, at)), f).next = b
    BY <1>2, PairNext
  <1> QED
    BY <1>3 DEF f, b

LEMMA ValidityAt ==
  ASSUME NEW d \in Seq(Byte), NEW at \in Nat \ {0}, NEW v \in Validity, Part(d, at, ValidityToDER(v))
  PROVE  DerToValidity(d, at) = Done(v, at + Len(ValidityToDER(v)))
  <1> DEFINE p == v[1]
             q == v[2]
             x == EncodeString(p)
             y == EncodeString(q)
             a == FirstAt(at)
             b == SecondAt(at, x)
             c == AfterPair(at, x, y)
             opened == Opened(d, at)
             f == DecodeString(d, opened.next, 14)
             n == With(Fresh(opened), f)
             g == DecodeString(d, n.next, 14)
  <1>1. DerToValidity(d, at) = Closed(With(n, g), opened)
    BY DEF DerToValidity
  <1>2. p \in Strings(14) /\ q \in Strings(14) /\ v = <<p, q>>
    BY ValidityLong
  <1>3. Len(x) = 16 /\ Len(y) = 16
    BY ValidityLong
  <1>4. ValidityToDER(v) = EncodePair(x, y) /\ Part(d, at, EncodePair(x, y))
    BY DEF ValidityToDER, EncodePair
  <1>5. x \in Seq(Byte) /\ y \in Seq(Byte)
    BY ValidityLong
  <1> HIDE DEF x, y, p, q
  <1>6. x \in Seq(Byte) /\ y \in Seq(Byte) /\ Len(x) + Len(y) \in IntValue
    <2>1. Len(x) + Len(y) \in Nat /\ Len(x) + Len(y) <= 5000
      BY <1>3 DEF MaxNumber
    <2> QED
      BY <1>5, <2>1, SmallInt
  <1>7. b = a + 16 /\ c = b + 16
    BY <1>3 DEF FirstAt, SecondAt, AfterPair
  <1>8. /\ a \in Nat \ {0} /\ b \in Nat \ {0} /\ c \in Nat \ {0} /\ Part(d, a, x)
        /\ Part(d, b, y)
    BY <1>4, <1>6, PairAt
  <1>9. opened.next = a
    BY <1>4, <1>6, PairOpened
  <1>10. f = Done(p, b) => n.next = b
    BY <1>4, <1>6, SecondFrom
  <1>11. f = Done(p, b) /\ g = Done(q, c)
           => Closed(With(n, g), opened) = Done(<<p, q>>, at + Len(EncodePair(x, y)))
    <2>1. Closed(With(With(Fresh(Opened(d, at)), Done(p, SecondAt(at, x))), Done(q, AfterPair(at, x, y))),
                 Opened(d, at))
            = Done(<<p, q>>, at + Len(EncodePair(x, y)))
      BY <1>4, <1>6, PairDone
    <2> HIDE DEF f, g, opened, b, c
    <2>2. b = SecondAt(at, x) /\ c = AfterPair(at, x, y) /\ opened = Opened(d, at)
      BY DEF b, c, opened
    <2> QED
      BY <2>1, <2>2
  <1>12. Failed(f) \/ Failed(g) \/ (g.next \in Nat /\ g.next # c) => Failed(Closed(With(n, g), opened))
    BY <1>4, <1>6, PairFailed
  <1> HIDE DEF a, b, c, opened, n
  <1>13. f = Done(p, b)
    <2>1. Part(d, a, EncodeString(p)) /\ a \in Nat \ {0} /\ p \in Strings(14) /\ 14 \in {14, 50}
      BY <1>2, <1>8 DEF x
    <2>2. DecodeString(d, a, 14) = Done(p, a + 2 + 14)
      BY <2>1, StringAt
    <2> QED
      BY <1>7, <1>8, <1>9, <2>2
  <1>14. g = Done(q, c)
    <2>1. Part(d, b, EncodeString(q)) /\ b \in Nat \ {0} /\ q \in Strings(14) /\ 14 \in {14, 50}
      BY <1>2, <1>8 DEF y
    <2>2. DecodeString(d, b, 14) = Done(q, b + 2 + 14)
      BY <2>1, StringAt
    <2>3. g = DecodeString(d, b, 14)
      BY <1>10, <1>13
    <2> HIDE DEF g
    <2> QED
      BY <1>7, <1>8, <2>2, <2>3
  <1> QED
    BY <1>1, <1>2, <1>4, <1>11, <1>13, <1>14

LEMMA CertifiedKeyAt ==
  ASSUME NEW d \in Seq(Byte), NEW at \in Nat \ {0}, NEW v \in CertifiedKey, Part(d, at, CertifiedKeyToDER(v))
  PROVE  /\ Len(v[2]) < 256
           => DerToCertifiedKey(d, at) = Done(v, at + Len(CertifiedKeyToDER(v)))
         /\ ~(Len(v[2]) < 256) => Failed(DerToCertifiedKey(d, at))
  <1> DEFINE p == v[1]
             q == v[2]
             x == EncodeInt(p)
             y == EncodeBignum(q)
             a == FirstAt(at)
             b == SecondAt(at, x)
             c == AfterPair(at, x, y)
             opened == Opened(d, at)
             f == DecodeInt(d, opened.next)
             n == With(Fresh(opened), f)
             g == DecodeBignum(d, n.next)
  <1>1. DerToCertifiedKey(d, at) = Closed(With(n, g), opened)
    BY DEF DerToCertifiedKey
  <1>2. p \in IntValue /\ q \in Numbers /\ v = <<p, q>>
    BY CertifiedKeyLong
  <1>3. Len(x) = 6 /\ Len(y) = Len(q) + 2 /\ Len(q) \in Nat /\ Len(q) <= MaxNumber
    BY CertifiedKeyLong
  <1>4. CertifiedKeyToDER(v) = EncodePair(x, y) /\ Part(d, at, EncodePair(x, y))
    BY DEF CertifiedKeyToDER, EncodePair
  <1>5. x \in Seq(Byte) /\ y \in Seq(Byte)
    BY CertifiedKeyLong
  <1> HIDE DEF x, y, p, q
  <1>6. x \in Seq(Byte) /\ y \in Seq(Byte) /\ Len(x) + Len(y) \in IntValue
    <2>1. Len(x) + Len(y) \in Nat /\ Len(x) + Len(y) <= 5000
      BY <1>3 DEF MaxNumber
    <2> QED
      BY <1>5, <2>1, SmallInt
  <1>7. b = a + 6 /\ c = b + 2 + Len(q)
    BY <1>3 DEF FirstAt, SecondAt, AfterPair
  <1>8. /\ a \in Nat \ {0} /\ b \in Nat \ {0} /\ c \in Nat \ {0} /\ Part(d, a, x)
        /\ Part(d, b, y)
    BY <1>4, <1>6, PairAt
  <1>9. opened.next = a
    BY <1>4, <1>6, PairOpened
  <1>10. f = Done(p, b) => n.next = b
    BY <1>4, <1>6, SecondFrom
  <1>11. f = Done(p, b) /\ g = Done(q, c)
           => Closed(With(n, g), opened) = Done(<<p, q>>, at + Len(EncodePair(x, y)))
    <2>1. Closed(With(With(Fresh(Opened(d, at)), Done(p, SecondAt(at, x))), Done(q, AfterPair(at, x, y))),
                 Opened(d, at))
            = Done(<<p, q>>, at + Len(EncodePair(x, y)))
      BY <1>4, <1>6, PairDone
    <2> HIDE DEF f, g, opened, b, c
    <2>2. b = SecondAt(at, x) /\ c = AfterPair(at, x, y) /\ opened = Opened(d, at)
      BY DEF b, c, opened
    <2> QED
      BY <2>1, <2>2
  <1>12. Failed(f) \/ Failed(g) \/ (g.next \in Nat /\ g.next # c) => Failed(Closed(With(n, g), opened))
    BY <1>4, <1>6, PairFailed
  <1> HIDE DEF a, b, c, opened, n
  <1>13. f = Done(p, b)
    <2>1. Part(d, a, EncodeInt(p)) /\ a \in Nat \ {0} /\ p \in IntValue
      BY <1>2, <1>8 DEF x
    <2>2. DecodeInt(d, a) = Done(p, a + 6)
      BY <2>1, IntAt
    <2> QED
      BY <1>7, <1>9, <2>2
  <1>14. g = DecodeBignum(d, b)
    BY <1>10, <1>13
  <1>15. Part(d, b, EncodeBignum(q)) /\ b \in Nat \ {0} /\ q \in Numbers
    BY <1>2, <1>8 DEF y
  <1> HIDE DEF f, g
  <1>16. CASE Len(q) < 256
    <2>1. DecodeBignum(d, b) = Done(q, b + 2 + Len(q))
      BY <1>15, <1>16, BignumAt
    <2>2. g = Done(q, c)
      BY <1>7, <1>14, <2>1
    <2> QED
      BY <1>1, <1>2, <1>4, <1>11, <1>13, <1>16, <2>2 DEF q
  <1>17. CASE ~(Len(q) < 256)
    <2>1. DecodeBignum(d, b).next = b + 2 + (Len(q) % 256)
      BY <1>15, BignumAt
    <2>2. Len(q) % 256 \in Nat /\ Len(q) % 256 # Len(q)
      BY <1>3, <1>17
    <2>3. g.next \in Nat /\ g.next # c
      BY <1>3, <1>7, <1>8, <1>14, <2>1, <2>2
    <2> QED
      BY <1>1, <1>12, <1>17, <2>3 DEF q
  <1> QED
    BY <1>16, <1>17 DEF q

LEMMA KeyInfoAt ==
  ASSUME NEW d \in Seq(Byte), NEW at \in Nat \ {0}, NEW v \in KeyInfo, Part(d, at, KeyInfoToDER(v))
  PROVE  /\ Len(v[2][2]) < 256
           => DerToKeyInfo(d, at) = Done(v, at + Len(KeyInfoToDER(v)))
         /\ ~(Len(v[2][2]) < 256) => Failed(DerToKeyInfo(d, at))
  <1> DEFINE p == v[1]
             q == v[2]
             x == EncodeInt(p)
             y == CertifiedKeyToDER(q)
             a == FirstAt(at)
             b == SecondAt(at, x)
             c == AfterPair(at, x, y)
             opened == Opened(d, at)
             f == DecodeInt(d, opened.next)
             n == With(Fresh(opened), f)
             g == DerToCertifiedKey(d, n.next)
  <1>1. DerToKeyInfo(d, at) = Closed(With(n, g), opened)
    BY DEF DerToKeyInfo
  <1>2. p \in IntValue /\ q \in CertifiedKey /\ v = <<p, q>>
    BY KeyInfoLong
  <1>3. Len(x) = 6 /\ Len(y) = Len(q[2]) + 15 /\ Len(q[2]) \in Nat /\ Len(q[2]) <= MaxNumber
    BY KeyInfoLong
  <1>4. KeyInfoToDER(v) = EncodePair(x, y) /\ Part(d, at, EncodePair(x, y))
    BY DEF KeyInfoToDER, EncodePair
  <1>5. x \in Seq(Byte) /\ y \in Seq(Byte)
    BY KeyInfoLong
  <1> HIDE DEF x, y, p, q
  <1>6. x \in Seq(Byte) /\ y \in Seq(Byte) /\ Len(x) + Len(y) \in IntValue
    <2>1. Len(x) + Len(y) \in Nat /\ Len(x) + Len(y) <= 5000
      BY <1>3 DEF MaxNumber
    <2> QED
      BY <1>5, <2>1, SmallInt
  <1>7. b = a + 6 /\ c = b + Len(y)
    BY <1>3 DEF FirstAt, SecondAt, AfterPair
  <1>8. /\ a \in Nat \ {0} /\ b \in Nat \ {0} /\ c \in Nat \ {0} /\ Part(d, a, x)
        /\ Part(d, b, y)
    BY <1>4, <1>6, PairAt
  <1>9. opened.next = a
    BY <1>4, <1>6, PairOpened
  <1>10. f = Done(p, b) => n.next = b
    BY <1>4, <1>6, SecondFrom
  <1>11. f = Done(p, b) /\ g = Done(q, c)
           => Closed(With(n, g), opened) = Done(<<p, q>>, at + Len(EncodePair(x, y)))
    <2>1. Closed(With(With(Fresh(Opened(d, at)), Done(p, SecondAt(at, x))), Done(q, AfterPair(at, x, y))),
                 Opened(d, at))
            = Done(<<p, q>>, at + Len(EncodePair(x, y)))
      BY <1>4, <1>6, PairDone
    <2> HIDE DEF f, g, opened, b, c
    <2>2. b = SecondAt(at, x) /\ c = AfterPair(at, x, y) /\ opened = Opened(d, at)
      BY DEF b, c, opened
    <2> QED
      BY <2>1, <2>2
  <1>12. Failed(f) \/ Failed(g) \/ (g.next \in Nat /\ g.next # c) => Failed(Closed(With(n, g), opened))
    BY <1>4, <1>6, PairFailed
  <1> HIDE DEF a, b, c, opened, n
  <1>13. f = Done(p, b)
    <2>1. Part(d, a, EncodeInt(p)) /\ a \in Nat \ {0} /\ p \in IntValue
      BY <1>2, <1>8 DEF x
    <2>2. DecodeInt(d, a) = Done(p, a + 6)
      BY <2>1, IntAt
    <2> QED
      BY <1>7, <1>9, <2>2
  <1>14. g = DerToCertifiedKey(d, b)
    BY <1>10, <1>13
  <1>15. Part(d, b, CertifiedKeyToDER(q)) /\ b \in Nat \ {0} /\ q \in CertifiedKey
    BY <1>2, <1>8 DEF y
  <1> HIDE DEF f, g
  <1>16. CASE Len(q[2]) < 256
    <2>1. DerToCertifiedKey(d, b) = Done(q, b + Len(CertifiedKeyToDER(q)))
      BY <1>15, <1>16, CertifiedKeyAt
    <2>2. g = Done(q, c)
      BY <1>7, <1>14, <2>1 DEF y
    <2> QED
      BY <1>1, <1>2, <1>4, <1>11, <1>13, <1>16, <2>2 DEF q
  <1>17. CASE ~(Len(q[2]) < 256)
    <2>1. Failed(DerToCertifiedKey(d, b))
      BY <1>15, <1>17, CertifiedKeyAt
    <2>2. Failed(g)
      BY <1>14, <2>1
    <2> QED
      BY <1>1, <1>12, <1>17, <2>2 DEF q
  <1> QED
    BY <1>16, <1>17 DEF q

LEMMA KeyPairAt ==
  ASSUME NEW d \in Seq(Byte), NEW at \in Nat \ {0}, NEW v \in KeyPair, Part(d, at, KeyPairToDER(v))
  PROVE  /\ Len(v[1][1]) < 256 /\ Len(v[2][1]) < 256 /\ Len(v[2][2]) < 256
           => DerToKeyPair(d, at) = Done(v, at + Len(KeyPairToDER(v)))
         /\ ~(Len(v[1][1]) < 256 /\ Len(v[2][1]) < 256 /\ Len(v[2][2]) < 256) => Failed(DerToKeyPair(d, at))
  <1> DEFINE p == v[1]
             q == v[2]
             x == PublicKeyToDER(p)
             y == PrivateKeyToDER(q)
             a == FirstAt(at)
             b == SecondAt(at, x)
             c == AfterPair(at, x, y)
             opened == Opened(d, at)
             f == DerToPublicKey(d, opened.next)
             n == With(Fresh(opened), f)
             g == DerToPrivateKey(d, n.next)
  <1>1. DerToKeyPair(d, at) = Closed(With(n, g), opened)
    BY DEF DerToKeyPair
  <1>2. p \in PublicKey /\ q \in PrivateKey /\ v = <<p, q>>
    BY KeyPairLong
  <1>3. /\ Len(x) = Len(p[1]) + 15 /\ Len(p[1]) \in Nat /\ Len(p[1]) <= MaxNumber
        /\ Len(y) = Len(q[1]) + Len(q[2]) + 11 /\ Len(q[1]) \in Nat /\ Len(q[1]) <= MaxNumber
        /\ Len(q[2]) \in Nat /\ Len(q[2]) <= MaxNumber
    BY KeyPairLong
  <1>4. KeyPairToDER(v) = EncodePair(x, y) /\ Part(d, at, EncodePair(x, y))
    BY DEF KeyPairToDER, EncodePair
  <1>5. x \in Seq(Byte) /\ y \in Seq(Byte)
    BY KeyPairLong
  <1> HIDE DEF x, y, p, q
  <1>6. x \in Seq(Byte) /\ y \in Seq(Byte) /\ Len(x) + Len(y) \in IntValue
    <2>1. Len(x) + Len(y) \in Nat /\ Len(x) + Len(y) <= 7000
      <3> DEFINE j == Len(p[1])
                 k == Len(q[1])
                 l == Len(q[2])
      <3>1. /\ Len(x) = j + 15 /\ Len(y) = k + l + 11 /\ j \in Nat /\ k \in Nat /\ l \in Nat
            /\ j <= MaxNumber /\ k <= MaxNumber /\ l <= MaxNumber
        BY <1>3
      <3> HIDE DEF j, k, l
      <3> QED
        BY <3>1, SMT DEF MaxNumber
    <2> QED
      BY <1>5, <2>1, SmallInt
  <1>7. b = a + Len(x) /\ c = b + Len(y)
    BY <1>3 DEF FirstAt, SecondAt, AfterPair
  <1>8. /\ a \in Nat \ {0} /\ b \in Nat \ {0} /\ c \in Nat \ {0} /\ Part(d, a, x)
        /\ Part(d, b, y)
    BY <1>4, <1>6, PairAt
  <1>9. opened.next = a
    BY <1>4, <1>6, PairOpened
  <1>10. f = Done(p, b) => n.next = b
    BY <1>4, <1>6, SecondFrom
  <1>11. f = Done(p, b) /\ g = Done(q, c)
           => Closed(With(n, g), opened) = Done(<<p, q>>, at + Len(EncodePair(x, y)))
    <2>1. Closed(With(With(Fresh(Opened(d, at)), Done(p, SecondAt(at, x))), Done(q, AfterPair(at, x, y))),
                 Opened(d, at))
            = Done(<<p, q>>, at + Len(EncodePair(x, y)))
      BY <1>4, <1>6, PairDone
    <2> HIDE DEF f, g, opened, b, c
    <2>2. b = SecondAt(at, x) /\ c = AfterPair(at, x, y) /\ opened = Opened(d, at)
      BY DEF b, c, opened
    <2> QED
      BY <2>1, <2>2
  <1>12. Failed(f) \/ Failed(g) \/ (g.next \in Nat /\ g.next # c) => Failed(Closed(With(n, g), opened))
    BY <1>4, <1>6, PairFailed
  <1> HIDE DEF a, b, c, opened, n
  <1>13. Part(d, a, PublicKeyToDER(p)) /\ a \in Nat \ {0} /\ p \in PublicKey
         /\ f = DerToPublicKey(d, a)
    BY <1>2, <1>8, <1>9 DEF x
  <1>14. Part(d, b, PrivateKeyToDER(q)) /\ b \in Nat \ {0} /\ q \in PrivateKey
    BY <1>2, <1>8 DEF y
  <1>15. Len(p[1]) < 256 => f = Done(p, b)
    <2> HIDE DEF f
    <2>1. Len(p[1]) < 256 => f = Done(p, a + Len(PublicKeyToDER(p)))
      BY <1>13, PublicKeyAt
    <2> QED
      BY <1>7, <2>1 DEF x
  <1>16. f = Done(p, b) => g = DerToPrivateKey(d, b)
    BY <1>10
  <1> HIDE DEF g
  <1>17. CASE Len(p[1]) < 256 /\ Len(q[1]) < 256 /\ Len(q[2]) < 256
    <2>1. DerToPrivateKey(d, b) = Done(q, b + Len(PrivateKeyToDER(q)))
      BY <1>14, <1>17, PrivateKeyAt
    <2>2. f = Done(p, b) /\ g = Done(q, c)
      <3> HIDE DEF f
      <3> QED
        BY <1>7, <1>15, <1>16, <1>17, <2>1 DEF y
    <2> HIDE DEF f
    <2> QED
      BY <1>1, <1>2, <1>4, <1>11, <1>17, <2>2 DEF p, q
  <1>18. CASE ~(Len(p[1]) < 256)
    <2> HIDE DEF f
    <2>1. Failed(f)
      BY <1>3, <1>13, <1>18, PublicKeyAt
    <2> QED
      BY <1>1, <1>12, <1>18, <2>1 DEF p, q
  <1>19. CASE Len(p[1]) < 256 /\ ~(Len(q[1]) < 256 /\ Len(q[2]) < 256)
    <2> HIDE DEF f
    <2>1. Failed(DerToPrivateKey(d, b))
      BY <1>14, <1>19, PrivateKeyAt
    <2>2. Failed(g)
      BY <1>15, <1>16, <1>19, <2>1
    <2> QED
      BY <1>1, <1>12, <1>19, <2>2 DEF p, q
  <1> QED
    BY <1>17, <1>18, <1>19 DEF p, q

-----------------------------------------------------------------------------
(* x509.c: the TBS, seven fields long                                      *)
LEMMA TBSIs ==
  ASSUME NEW v \in TBS
  PROVE  /\ v[1] \in IntValue /\ v[2] \in IntValue /\ v[3] \in IntValue /\ v[4] \in Strings(50)
         /\ v[5] \in Validity /\ v[6] \in Strings(50) /\ v[7] \in KeyInfo
         /\ v = <<v[1], v[2], v[3], v[4], v[5], v[6], v[7]>>
  BY DEF TBS

(* Seven fields one after the other: their length, and where each begins   *)
Seven(a, b, c, e, f, g, h) == a \o b \o c \o e \o f \o g \o h

SevenFields(a, b, c, e, f, g, h) ==
  /\ a \in Seq(Byte) /\ b \in Seq(Byte) /\ c \in Seq(Byte) /\ e \in Seq(Byte)
  /\ f \in Seq(Byte) /\ g \in Seq(Byte) /\ h \in Seq(Byte)
  /\ Len(a) = 6 /\ Len(b) = 6 /\ Len(c) = 6 /\ Len(e) = 52 /\ Len(f) = 39 /\ Len(g) = 52

LEMMA SevenLong ==
  ASSUME NEW a, NEW b, NEW c, NEW e, NEW f, NEW g, NEW h, SevenFields(a, b, c, e, f, g, h)
  PROVE  /\ Seven(a, b, c, e, f, g, h) \in Seq(Byte)
         /\ Len(Seven(a, b, c, e, f, g, h)) = 161 + Len(h)
         /\ \A d \in Seq(Byte), at \in Nat \ {0} :
              Part(d, at, Seven(a, b, c, e, f, g, h)) =>
                /\ Part(d, at, a) /\ Part(d, at + 6, b) /\ Part(d, at + 12, c)
                /\ Part(d, at + 18, e)
                /\ Part(d, at + 70, f) /\ Part(d, at + 109, g) /\ Part(d, at + 161, h)
  <1> DEFINE s2 == a \o b
             s3 == s2 \o c
             s4 == s3 \o e
             s5 == s4 \o f
             s6 == s5 \o g
             s7 == s6 \o h
  <1>1. /\ a \in Seq(Byte) /\ b \in Seq(Byte) /\ c \in Seq(Byte) /\ e \in Seq(Byte)
        /\ f \in Seq(Byte) /\ g \in Seq(Byte) /\ h \in Seq(Byte)
        /\ Len(a) = 6 /\ Len(b) = 6 /\ Len(c) = 6 /\ Len(e) = 52 /\ Len(f) = 39 /\ Len(g) = 52
    BY DEF SevenFields
  <1>2. s2 \in Seq(Byte) /\ Len(s2) = 12
    <2>1. a \in Seq(Byte) /\ b \in Seq(Byte)
      BY <1>1
    <2>2. s2 \in Seq(Byte) /\ Len(s2) = Len(a) + Len(b)
      BY <2>1, JoinLong, Zenon
    <2> HIDE DEF s2
    <2> QED
      BY <1>1, <2>2
  <1> HIDE DEF s2
  <1>3. s3 \in Seq(Byte) /\ Len(s3) = 18
    <2>1. s2 \in Seq(Byte) /\ c \in Seq(Byte)
      BY <1>1, <1>2
    <2>2. s3 \in Seq(Byte) /\ Len(s3) = Len(s2) + Len(c)
      BY <2>1, JoinLong, Zenon
    <2> HIDE DEF s3
    <2> QED
      BY <1>1, <1>2, <2>2
  <1> HIDE DEF s3
  <1>4. s4 \in Seq(Byte) /\ Len(s4) = 70
    <2>1. s3 \in Seq(Byte) /\ e \in Seq(Byte)
      BY <1>1, <1>3
    <2>2. s4 \in Seq(Byte) /\ Len(s4) = Len(s3) + Len(e)
      BY <2>1, JoinLong, Zenon
    <2> HIDE DEF s4
    <2> QED
      BY <1>1, <1>3, <2>2
  <1> HIDE DEF s4
  <1>5. s5 \in Seq(Byte) /\ Len(s5) = 109
    <2>1. s4 \in Seq(Byte) /\ f \in Seq(Byte)
      BY <1>1, <1>4
    <2>2. s5 \in Seq(Byte) /\ Len(s5) = Len(s4) + Len(f)
      BY <2>1, JoinLong, Zenon
    <2> HIDE DEF s5
    <2> QED
      BY <1>1, <1>4, <2>2
  <1> HIDE DEF s5
  <1>6. s6 \in Seq(Byte) /\ Len(s6) = 161
    <2>1. s5 \in Seq(Byte) /\ g \in Seq(Byte)
      BY <1>1, <1>5
    <2>2. s6 \in Seq(Byte) /\ Len(s6) = Len(s5) + Len(g)
      BY <2>1, JoinLong, Zenon
    <2> HIDE DEF s6
    <2> QED
      BY <1>1, <1>5, <2>2
  <1> HIDE DEF s6
  <1>7. s7 \in Seq(Byte) /\ Len(s7) = 161 + Len(h)
    <2>1. s6 \in Seq(Byte) /\ h \in Seq(Byte)
      BY <1>1, <1>6
    <2>2. s7 \in Seq(Byte) /\ Len(s7) = Len(s6) + Len(h)
      BY <2>1, JoinLong, Zenon
    <2> HIDE DEF s7
    <2> QED
      BY <1>1, <1>6, <2>2
  <1> HIDE DEF s7
  <1>8. Seven(a, b, c, e, f, g, h) = s7
    BY DEF Seven, s2, s3, s4, s5, s6, s7
  <1>9. ASSUME NEW d \in Seq(Byte), NEW at \in Nat \ {0}, Part(d, at, s7)
        PROVE  /\ Part(d, at, a) /\ Part(d, at + 6, b) /\ Part(d, at + 12, c)
               /\ Part(d, at + 18, e)
               /\ Part(d, at + 70, f) /\ Part(d, at + 109, g) /\ Part(d, at + 161, h)
    <2>1. Part(d, at, s6) /\ Part(d, at + 161, h)
      <3>1. Part(d, at, s6 \o h) /\ at \in Nat /\ h \in Seq(Byte) /\ s6 \in Seq(Byte)
            /\ Len(s6) = 161
        BY <1>1, <1>6, <1>9 DEF s7
      <3>2. Part(d, at, s6) /\ Part(d, at + Len(s6), h)
        BY <3>1, PartJoin
      <3> QED
        BY <3>1, <3>2
    <2>2. Part(d, at, s5) /\ Part(d, at + 109, g)
      <3>1. Part(d, at, s5 \o g) /\ at \in Nat /\ g \in Seq(Byte) /\ s5 \in Seq(Byte)
            /\ Len(s5) = 109
        BY <1>1, <1>5, <2>1 DEF s6
      <3>2. Part(d, at, s5) /\ Part(d, at + Len(s5), g)
        BY <3>1, PartJoin
      <3> QED
        BY <3>1, <3>2
    <2>3. Part(d, at, s4) /\ Part(d, at + 70, f)
      <3>1. Part(d, at, s4 \o f) /\ at \in Nat /\ f \in Seq(Byte) /\ s4 \in Seq(Byte)
            /\ Len(s4) = 70
        BY <1>1, <1>4, <2>2 DEF s5
      <3>2. Part(d, at, s4) /\ Part(d, at + Len(s4), f)
        BY <3>1, PartJoin
      <3> QED
        BY <3>1, <3>2
    <2>4. Part(d, at, s3) /\ Part(d, at + 18, e)
      <3>1. Part(d, at, s3 \o e) /\ at \in Nat /\ e \in Seq(Byte) /\ s3 \in Seq(Byte)
            /\ Len(s3) = 18
        BY <1>1, <1>3, <2>3 DEF s4
      <3>2. Part(d, at, s3) /\ Part(d, at + Len(s3), e)
        BY <3>1, PartJoin
      <3> QED
        BY <3>1, <3>2
    <2>5. Part(d, at, s2) /\ Part(d, at + 12, c)
      <3>1. Part(d, at, s2 \o c) /\ at \in Nat /\ c \in Seq(Byte) /\ s2 \in Seq(Byte)
            /\ Len(s2) = 12
        BY <1>1, <1>2, <2>4 DEF s3
      <3>2. Part(d, at, s2) /\ Part(d, at + Len(s2), c)
        BY <3>1, PartJoin
      <3> QED
        BY <3>1, <3>2
    <2>6. Part(d, at, a) /\ Part(d, at + 6, b)
      <3>1. Part(d, at, a \o b) /\ at \in Nat /\ b \in Seq(Byte) /\ a \in Seq(Byte)
            /\ Len(a) = 6
        BY <1>1, <2>5 DEF s2
      <3>2. Part(d, at, a) /\ Part(d, at + Len(a), b)
        BY <3>1, PartJoin
      <3> QED
        BY <3>1, <3>2
    <2> QED
      BY <2>1, <2>2, <2>3, <2>4, <2>5, <2>6
  <1> QED
    BY <1>7, <1>8, <1>9

LEMMA TBSFields ==
  ASSUME NEW v \in TBS
  PROVE  /\ EncodeInt(v[1]) \in Seq(Byte) /\ Len(EncodeInt(v[1])) = 6
         /\ EncodeInt(v[2]) \in Seq(Byte) /\ Len(EncodeInt(v[2])) = 6
         /\ EncodeInt(v[3]) \in Seq(Byte) /\ Len(EncodeInt(v[3])) = 6
         /\ EncodeString(v[4]) \in Seq(Byte) /\ Len(EncodeString(v[4])) = 52
         /\ ValidityToDER(v[5]) \in Seq(Byte) /\ Len(ValidityToDER(v[5])) = 39
         /\ EncodeString(v[6]) \in Seq(Byte) /\ Len(EncodeString(v[6])) = 52
         /\ KeyInfoToDER(v[7]) \in Seq(Byte) /\ Len(KeyInfoToDER(v[7])) = Len(v[7][2][2]) + 28
         /\ Len(v[7][2][2]) \in Nat /\ Len(v[7][2][2]) <= MaxNumber
  <1>1. /\ v[1] \in IntValue /\ v[2] \in IntValue /\ v[3] \in IntValue /\ v[4] \in Strings(50)
        /\ v[5] \in Validity /\ v[6] \in Strings(50) /\ v[7] \in KeyInfo
    BY TBSIs
  <1>2. v[1] \in Int /\ v[2] \in Int /\ v[3] \in Int
    BY <1>1, IntRange
  <1>3. EncodeInt(v[1]) \in Seq(Byte) /\ Len(EncodeInt(v[1])) = 6
    BY <1>2, IntLong
  <1>4. EncodeInt(v[2]) \in Seq(Byte) /\ Len(EncodeInt(v[2])) = 6
    BY <1>2, IntLong
  <1>5. EncodeInt(v[3]) \in Seq(Byte) /\ Len(EncodeInt(v[3])) = 6
    BY <1>2, IntLong
  <1>6. EncodeString(v[4]) \in Seq(Byte) /\ Len(EncodeString(v[4])) = 52
    BY <1>1, StringsAre
  <1>7. ValidityToDER(v[5]) \in Seq(Byte) /\ Len(ValidityToDER(v[5])) = 39
    BY <1>1, ValidityIs
  <1>8. EncodeString(v[6]) \in Seq(Byte) /\ Len(EncodeString(v[6])) = 52
    BY <1>1, StringsAre
  <1>9. KeyInfoToDER(v[7]) \in Seq(Byte) /\ Len(KeyInfoToDER(v[7])) = Len(v[7][2][2]) + 28
    BY <1>1, KeyInfoIs
  <1>10. Len(v[7][2][2]) \in Nat /\ Len(v[7][2][2]) <= MaxNumber
    BY <1>1, KeyInfoSmall
  <1> QED
    BY <1>3, <1>4, <1>5, <1>6, <1>7, <1>8, <1>9, <1>10

TBSPlain(v) ==
  Seven(EncodeInt(v[1]), EncodeInt(v[2]), EncodeInt(v[3]), EncodeString(v[4]),
        ValidityToDER(v[5]), EncodeString(v[6]), KeyInfoToDER(v[7]))

LEMMA TBSLong ==
  ASSUME NEW v \in TBS
  PROVE  /\ TBSPlain(v) \in Seq(Byte) /\ Len(TBSPlain(v)) = Len(v[7][2][2]) + 189
         /\ TBSToDER(v) = EncodeSequence(TBSPlain(v))
         /\ TBSToDER(v) \in Seq(Byte) /\ Len(TBSToDER(v)) = Len(v[7][2][2]) + 196
  <1> DEFINE k == Len(v[7][2][2])
             s == TBSPlain(v)
             h == KeyInfoToDER(v[7])
  <1>1. k \in Nat /\ Len(h) = k + 28
    BY TBSFields
  <1>2. s \in Seq(Byte) /\ Len(s) = 161 + Len(h)
    <2> DEFINE a == EncodeInt(v[1])
               b == EncodeInt(v[2])
               c == EncodeInt(v[3])
               e == EncodeString(v[4])
               f == ValidityToDER(v[5])
               g == EncodeString(v[6])
    <2>1. /\ a \in Seq(Byte) /\ b \in Seq(Byte) /\ c \in Seq(Byte) /\ e \in Seq(Byte)
          /\ f \in Seq(Byte) /\ g \in Seq(Byte) /\ h \in Seq(Byte)
          /\ Len(a) = 6 /\ Len(b) = 6 /\ Len(c) = 6 /\ Len(e) = 52 /\ Len(f) = 39 /\ Len(g) = 52
      BY TBSFields
    <2>2. s = Seven(a, b, c, e, f, g, h)
      BY DEF TBSPlain
    <2>3. SevenFields(a, b, c, e, f, g, h)
      BY <2>1, Zenon DEF SevenFields
    <2> HIDE DEF s, a, b, c, e, f, g, h
    <2>4. Seven(a, b, c, e, f, g, h) \in Seq(Byte)
          /\ Len(Seven(a, b, c, e, f, g, h)) = 161 + Len(h)
      BY <2>3, SevenLong
    <2> QED
      BY <2>2, <2>4
  <1>3. TBSToDER(v) = EncodeSequence(s)
    BY DEF TBSToDER, TBSPlain, Seven
  <1> HIDE DEF s, k, h
  <1>4. Len(s) = k + 189
    BY <1>1, <1>2
  <1>5. EncodeSequence(s) \in Seq(Byte) /\ Len(EncodeSequence(s)) = Len(s) + 7
    BY <1>2, SequenceLong
  <1>6. Len(EncodeSequence(s)) = k + 196
    BY <1>1, <1>4, <1>5
  <1> QED
    BY <1>2, <1>3, <1>4, <1>5, <1>6 DEF s, k

LEMMA UntilDone ==
  ASSUME NEW end \in Int, NEW s, NEW a \in Nat \ {0}, a < end, NEW x, NEW b \in Nat \ {0}, NEW blank
  PROVE  WithUntil(end, Done(s, a), Done(x, b), blank) = Done(Append(s, x), b)
  <1> DEFINE r == Done(s, a)
             f == Done(x, b)
  <1>1. r.next = a
    BY DoneIs
  <1>2. With(r, f) = Done(Append(s, x), b)
    BY WithDone
  <1> HIDE DEF r, f
  <1>3. ~(r.next >= end)
    BY <1>1
  <1>4. WithUntil(end, r, f, blank) = With(r, f)
    BY <1>3 DEF WithUntil
  <1> QED
    BY <1>2, <1>4 DEF r, f

LEMMA UntilFailed ==
  ASSUME NEW end \in Int, NEW s, NEW a \in Nat \ {0}, a < end, NEW f, Failed(f), NEW blank
  PROVE  Failed(WithUntil(end, Done(s, a), f, blank))
  <1> DEFINE r == Done(s, a)
  <1>1. r.next = a
    BY DoneIs
  <1> HIDE DEF r
  <1>2. ~(r.next >= end)
    BY <1>1
  <1>3. WithUntil(end, r, f, blank) = With(r, f)
    BY <1>2 DEF WithUntil
  <1>4. Failed(With(r, f))
    BY WithIs
  <1> QED
    BY <1>3, <1>4 DEF r

(* Once it has failed, a reader does not go on.                            *)
LEMMA UntilStopped ==
  ASSUME NEW end, NEW r, Failed(r), NEW f, NEW blank
  PROVE  Failed(WithUntil(end, r, f, blank))
  <1>1. WithUntil(end, r, f, blank) = With(r, f)
    BY DEF WithUntil
  <1>2. Failed(With(r, f))
    BY WithIs
  <1> QED
    BY <1>1, <1>2

LEMMA TBSAt ==
  ASSUME NEW d \in Seq(Byte), NEW at \in Nat \ {0}, NEW v \in TBS, Part(d, at, TBSToDER(v))
  PROVE  /\ Len(v[7][2][2]) < 256 => DerTBSToAsn1(d, at) = Done(v, at + Len(TBSToDER(v)))
         /\ ~(Len(v[7][2][2]) < 256) => Failed(DerTBSToAsn1(d, at))
  <1> DEFINE k == Len(v[7][2][2])
             s == TBSPlain(v)
             opened == Opened(d, at)
             end == opened.next + opened.value
             r1 == TakeInt(d, end, Fresh(opened))
             r2 == TakeInt(d, end, r1)
             r3 == TakeInt(d, end, r2)
             r4 == TakeName(d, end, r3)
             r5 == TakeValidity(d, end, r4)
             r6 == TakeName(d, end, r5)
             r7 == TakeKeyInfo(d, end, r6)
  <1>1. DerTBSToAsn1(d, at) = UsedUp(r7, end)
    BY DEF DerTBSToAsn1
  <1> HIDE DEF k, s, opened, end, r1, r2, r3, r4, r5, r6, r7
  <1>2. k \in Nat /\ k <= MaxNumber
    BY TBSFields DEF k
  <1>3. s \in Seq(Byte) /\ Len(s) = k + 189 /\ TBSToDER(v) = EncodeSequence(s)
        /\ Len(TBSToDER(v)) = k + 196
    BY TBSLong DEF s, k
  <1>4. Len(s) \in IntValue
    <2>1. k + 189 \in Nat /\ k + 189 <= 7000
      BY <1>2, SMT DEF MaxNumber
    <2> QED
      BY <1>3, <2>1, SmallInt
  <1>5. opened = Done(k + 189, at + 7) /\ Part(d, at + 7, s)
        /\ Fresh(opened) = Done(<<>>, at + 7)
    <2>1. Part(d, at, EncodeSequence(s))
      BY <1>3
    <2>2. /\ Opened(d, at) = Done(Len(s), at + 7) /\ Part(d, at + 7, s)
          /\ Fresh(Opened(d, at)) = Done(<<>>, at + 7)
      BY <1>3, <1>4, <2>1, OpenedAt
    <2> QED
      BY <1>3, <2>2 DEF opened
  <1>6. opened.next = at + 7 /\ opened.value = k + 189 /\ end = at + 196 + k /\ end \in Nat
    <2>1. at + 7 \in Nat \ {0}
      OBVIOUS
    <2>2. opened.next = at + 7 /\ opened.value = k + 189
      BY <1>5, <2>1, DoneIs
    <2>3. end = (at + 7) + (k + 189)
      BY <2>2 DEF end
    <2> QED
      BY <1>2, <2>2, <2>3
  <1>7. v[1] \in IntValue /\ v[2] \in IntValue /\ v[3] \in IntValue /\ v[4] \in Strings(50)
        /\ v[5] \in Validity /\ v[6] \in Strings(50) /\ v[7] \in KeyInfo
        /\ v = <<v[1], v[2], v[3], v[4], v[5], v[6], v[7]>>
    BY TBSIs
  <1>8. SevenFields(EncodeInt(v[1]), EncodeInt(v[2]), EncodeInt(v[3]), EncodeString(v[4]),
                    ValidityToDER(v[5]), EncodeString(v[6]), KeyInfoToDER(v[7]))
    BY TBSFields DEF SevenFields
  <1>9. /\ Part(d, at + 7, EncodeInt(v[1]))
        /\ Part(d, at + 13, EncodeInt(v[2]))
        /\ Part(d, at + 19, EncodeInt(v[3]))
        /\ Part(d, at + 25, EncodeString(v[4]))
        /\ Part(d, at + 77, ValidityToDER(v[5]))
        /\ Part(d, at + 116, EncodeString(v[6]))
        /\ Part(d, at + 168, KeyInfoToDER(v[7]))
    <2>1. Part(d, at + 7, Seven(EncodeInt(v[1]), EncodeInt(v[2]), EncodeInt(v[3]), EncodeString(v[4]),
                                ValidityToDER(v[5]), EncodeString(v[6]), KeyInfoToDER(v[7])))
      BY <1>5 DEF s, TBSPlain
    <2> DEFINE b == at + 7
    <2>2. b \in Nat \ {0}
      OBVIOUS
    <2> HIDE DEF b
    <2>3. /\ Part(d, b, EncodeInt(v[1]))
          /\ Part(d, b + 6, EncodeInt(v[2]))
          /\ Part(d, b + 12, EncodeInt(v[3]))
          /\ Part(d, b + 18, EncodeString(v[4]))
          /\ Part(d, b + 70, ValidityToDER(v[5]))
          /\ Part(d, b + 109, EncodeString(v[6]))
          /\ Part(d, b + 161, KeyInfoToDER(v[7]))
      BY <1>8, <2>1, <2>2, SevenLong DEF b
    <2>4. b + 6 = at + 13 /\ b + 12 = at + 19 /\ b + 18 = at + 25 /\ b + 70 = at + 77
          /\ b + 109 = at + 116 /\ b + 161 = at + 168
      BY DEF b
    <2> QED
      BY <2>3, <2>4 DEF b
  <1>10. r1 = Done(<<v[1]>>, at + 13)
    <2> DEFINE t == <<>>
               b == at + 7
               c == at + 13
               p == v[1]
    <2>1. b \in Nat \ {0} /\ c \in Nat \ {0} /\ c = b + 6 /\ b < end
      BY <1>2, <1>6
    <2>2. p \in IntValue /\ Part(d, b, EncodeInt(p))
      BY <1>7, <1>9
    <2>3. Fresh(opened) = Done(t, b)
      BY <1>5, <1>6
    <2>4. Append(t, p) = <<v[1]>>
      BY Appended1
    <2> HIDE DEF t, b, c, p
    <2>5. Fresh(opened).next = b
      BY <2>1, <2>3, DoneIs
    <2>6. DecodeInt(d, b) = Done(p, b + 6)
      BY <2>1, <2>2, IntAt
    <2>7. DecodeInt(d, Fresh(opened).next) = Done(p, c)
      BY <2>1, <2>5, <2>6
    <2>8. WithUntil(end, Done(t, b), Done(p, c), 0) = Done(Append(t, p), c)
      BY <1>6, <2>1, UntilDone
    <2>9. r1 = WithUntil(end, Fresh(opened), DecodeInt(d, Fresh(opened).next), 0)
      BY DEF r1, TakeInt
    <2>10. r1 = Done(Append(t, p), c)
      BY <2>3, <2>7, <2>8, <2>9
    <2> QED
      BY <2>10, <2>4 DEF c
  <1>11. r2 = Done(<<v[1], v[2]>>, at + 19)
    <2> DEFINE t == <<v[1]>>
               b == at + 13
               c == at + 19
               p == v[2]
    <2>1. b \in Nat \ {0} /\ c \in Nat \ {0} /\ c = b + 6 /\ b < end
      BY <1>2, <1>6
    <2>2. p \in IntValue /\ Part(d, b, EncodeInt(p))
      BY <1>7, <1>9
    <2>3. r1 = Done(t, b)
      BY <1>10
    <2>4. Append(t, p) = <<v[1], v[2]>>
      BY Appended2
    <2> HIDE DEF t, b, c, p
    <2>5. r1.next = b
      BY <2>1, <2>3, DoneIs
    <2>6. DecodeInt(d, b) = Done(p, b + 6)
      BY <2>1, <2>2, IntAt
    <2>7. DecodeInt(d, r1.next) = Done(p, c)
      BY <2>1, <2>5, <2>6
    <2>8. WithUntil(end, Done(t, b), Done(p, c), 0) = Done(Append(t, p), c)
      BY <1>6, <2>1, UntilDone
    <2>9. r2 = WithUntil(end, r1, DecodeInt(d, r1.next), 0)
      BY DEF r2, TakeInt
    <2>10. r2 = Done(Append(t, p), c)
      BY <2>3, <2>7, <2>8, <2>9
    <2> QED
      BY <2>10, <2>4 DEF c
  <1>12. r3 = Done(<<v[1], v[2], v[3]>>, at + 25)
    <2> DEFINE t == <<v[1], v[2]>>
               b == at + 19
               c == at + 25
               p == v[3]
    <2>1. b \in Nat \ {0} /\ c \in Nat \ {0} /\ c = b + 6 /\ b < end
      BY <1>2, <1>6
    <2>2. p \in IntValue /\ Part(d, b, EncodeInt(p))
      BY <1>7, <1>9
    <2>3. r2 = Done(t, b)
      BY <1>11
    <2>4. Append(t, p) = <<v[1], v[2], v[3]>>
      BY Appended3
    <2> HIDE DEF t, b, c, p
    <2>5. r2.next = b
      BY <2>1, <2>3, DoneIs
    <2>6. DecodeInt(d, b) = Done(p, b + 6)
      BY <2>1, <2>2, IntAt
    <2>7. DecodeInt(d, r2.next) = Done(p, c)
      BY <2>1, <2>5, <2>6
    <2>8. WithUntil(end, Done(t, b), Done(p, c), 0) = Done(Append(t, p), c)
      BY <1>6, <2>1, UntilDone
    <2>9. r3 = WithUntil(end, r2, DecodeInt(d, r2.next), 0)
      BY DEF r3, TakeInt
    <2>10. r3 = Done(Append(t, p), c)
      BY <2>3, <2>7, <2>8, <2>9
    <2> QED
      BY <2>10, <2>4 DEF c
  <1>13. r4 = Done(<<v[1], v[2], v[3], v[4]>>, at + 77)
    <2> DEFINE t == <<v[1], v[2], v[3]>>
               b == at + 25
               c == at + 77
               p == v[4]
    <2>1. b \in Nat \ {0} /\ c \in Nat \ {0} /\ c = b + 52 /\ b < end
      BY <1>2, <1>6
    <2>2. p \in Strings(50) /\ Part(d, b, EncodeString(p))
      BY <1>7, <1>9
    <2>3. r3 = Done(t, b)
      BY <1>12
    <2>4. Append(t, p) = <<v[1], v[2], v[3], v[4]>>
      BY Appended4
    <2> HIDE DEF t, b, c, p
    <2>5. r3.next = b
      BY <2>1, <2>3, DoneIs
    <2>6. DecodeString(d, b, 50) = Done(p, b + 2 + 50)
      BY <2>1, <2>2, StringAt
    <2>7. DecodeString(d, r3.next, 50) = Done(p, c)
      BY <2>1, <2>5, <2>6
    <2>8. WithUntil(end, Done(t, b), Done(p, c), Blank(50)) = Done(Append(t, p), c)
      BY <1>6, <2>1, UntilDone
    <2>9. r4 = WithUntil(end, r3, DecodeString(d, r3.next, 50), Blank(50))
      BY DEF r4, TakeName
    <2>10. r4 = Done(Append(t, p), c)
      BY <2>3, <2>7, <2>8, <2>9
    <2> QED
      BY <2>10, <2>4 DEF c
  <1>14. r5 = Done(<<v[1], v[2], v[3], v[4], v[5]>>, at + 116)
    <2> DEFINE t == <<v[1], v[2], v[3], v[4]>>
               b == at + 77
               c == at + 116
               p == v[5]
    <2>1. b \in Nat \ {0} /\ c \in Nat \ {0} /\ c = b + 39 /\ b < end
      BY <1>2, <1>6
    <2>2. p \in Validity /\ Part(d, b, ValidityToDER(p))
      BY <1>7, <1>9
    <2>3. r4 = Done(t, b)
      BY <1>13
    <2>4. Append(t, p) = <<v[1], v[2], v[3], v[4], v[5]>>
      BY Appended5
    <2> HIDE DEF t, b, c, p
    <2>5. r4.next = b
      BY <2>1, <2>3, DoneIs
    <2>6. DerToValidity(d, b) = Done(p, b + 39)
      <3>1. DerToValidity(d, b) = Done(p, b + Len(ValidityToDER(p)))
        BY <2>1, <2>2, ValidityAt
      <3> QED
        BY <2>2, <3>1, ValidityIs
    <2>7. DerToValidity(d, r4.next) = Done(p, c)
      BY <2>1, <2>5, <2>6
    <2>8. WithUntil(end, Done(t, b), Done(p, c), BlankValidity) = Done(Append(t, p), c)
      BY <1>6, <2>1, UntilDone
    <2>9. r5 = WithUntil(end, r4, DerToValidity(d, r4.next), BlankValidity)
      BY DEF r5, TakeValidity
    <2>10. r5 = Done(Append(t, p), c)
      BY <2>3, <2>7, <2>8, <2>9
    <2> QED
      BY <2>10, <2>4 DEF c
  <1>15. r6 = Done(<<v[1], v[2], v[3], v[4], v[5], v[6]>>, at + 168)
    <2> DEFINE t == <<v[1], v[2], v[3], v[4], v[5]>>
               b == at + 116
               c == at + 168
               p == v[6]
    <2>1. b \in Nat \ {0} /\ c \in Nat \ {0} /\ c = b + 52 /\ b < end
      BY <1>2, <1>6
    <2>2. p \in Strings(50) /\ Part(d, b, EncodeString(p))
      BY <1>7, <1>9
    <2>3. r5 = Done(t, b)
      BY <1>14
    <2>4. Append(t, p) = <<v[1], v[2], v[3], v[4], v[5], v[6]>>
      BY Appended6
    <2> HIDE DEF t, b, c, p
    <2>5. r5.next = b
      BY <2>1, <2>3, DoneIs
    <2>6. DecodeString(d, b, 50) = Done(p, b + 2 + 50)
      BY <2>1, <2>2, StringAt
    <2>7. DecodeString(d, r5.next, 50) = Done(p, c)
      BY <2>1, <2>5, <2>6
    <2>8. WithUntil(end, Done(t, b), Done(p, c), Blank(50)) = Done(Append(t, p), c)
      BY <1>6, <2>1, UntilDone
    <2>9. r6 = WithUntil(end, r5, DecodeString(d, r5.next, 50), Blank(50))
      BY DEF r6, TakeName
    <2>10. r6 = Done(Append(t, p), c)
      BY <2>3, <2>7, <2>8, <2>9
    <2> QED
      BY <2>10, <2>4 DEF c
  <1> DEFINE t == <<v[1], v[2], v[3], v[4], v[5], v[6]>>
             b == at + 168
             p == v[7]
             g == DerToKeyInfo(d, r6.next)
  <1>16. b \in Nat \ {0} /\ end = b + k + 28 /\ b < end /\ end \in Nat \ {0}
    BY <1>2, <1>6
  <1>17. p \in KeyInfo /\ Part(d, b, KeyInfoToDER(p)) /\ k = Len(p[2][2])
    BY <1>7, <1>9 DEF k
  <1>18. Append(t, p) = v
    BY <1>7, Appended7
  <1>19. r6 = Done(t, b)
    BY <1>15
  <1>20. r7 = WithUntil(end, r6, g, BlankKeyInfo)
    BY DEF r7, TakeKeyInfo
  <1> HIDE DEF t, b, p
  <1>21. r6.next = b
    BY <1>16, <1>19, DoneIs
  <1>22. g = DerToKeyInfo(d, b)
    BY <1>21
  <1> HIDE DEF g
  <1>23. CASE k < 256
    <2>1. DerToKeyInfo(d, b) = Done(p, b + Len(KeyInfoToDER(p)))
      BY <1>16, <1>17, <1>23, KeyInfoAt
    <2>2. Len(KeyInfoToDER(p)) = k + 28
      BY <1>17, KeyInfoIs
    <2>3. g = Done(p, end)
      BY <1>2, <1>16, <1>22, <2>1, <2>2
    <2>4. WithUntil(end, Done(t, b), Done(p, end), BlankKeyInfo) = Done(Append(t, p), end)
      BY <1>16, UntilDone
    <2>5. r7 = Done(v, end)
      BY <1>18, <1>19, <1>20, <2>3, <2>4
    <2>6. r7.next = end /\ ~Failed(r7)
      BY <1>16, <2>5, DoneIs
    <2>7. ~(r7.next < end)
      BY <1>16, <2>6
    <2>8. UsedUp(r7, end) = r7
      BY <2>6, <2>7, Zenon DEF UsedUp
    <2>9. end = at + (k + 196)
      BY <1>2, <1>6
    <2>10. Done(v, end) = Done(v, at + Len(TBSToDER(v)))
      BY <1>3, <2>9
    <2> QED
      BY <1>1, <1>23, <2>5, <2>8, <2>10 DEF k
  <1>24. CASE ~(k < 256)
    <2>1. Failed(g)
      BY <1>16, <1>17, <1>22, <1>24, KeyInfoAt
    <2>2. Failed(WithUntil(end, Done(t, b), g, BlankKeyInfo))
      BY <1>16, <2>1, UntilFailed
    <2>3. Failed(r7)
      BY <1>19, <1>20, <2>2
    <2>4. UsedUp(r7, end) = Exit /\ Failed(Exit)
      BY <2>3, WithIs DEF UsedUp
    <2> QED
      BY <1>1, <1>24, <2>4 DEF k
  <1> QED
    BY <1>23, <1>24 DEF k

(* A certificate: a TBS, the algorithm and the signature                   *)
LEMMA CertificateIs ==
  ASSUME NEW v \in Certificate
  PROVE  v[1] \in TBS /\ v[2] \in IntValue /\ v[3] \in Numbers /\ v = <<v[1], v[2], v[3]>>
  BY DEF Certificate

LEMMA TBSSmall ==
  ASSUME NEW v \in TBS
  PROVE  Len(v[7][2][2]) \in Nat /\ Len(v[7][2][2]) <= MaxNumber
  BY TBSFields, Zenon

LEMMA TBSEncoded ==
  ASSUME NEW v \in TBS
  PROVE  TBSToDER(v) \in Seq(Byte) /\ Len(TBSToDER(v)) = Len(v[7][2][2]) + 196
  BY TBSLong, ZenonT(40)

(* Three fields one after the other                                        *)
Three(a, b, c) == a \o b \o c

LEMMA ThreeLong ==
  ASSUME NEW a \in Seq(Byte), NEW b \in Seq(Byte), NEW c \in Seq(Byte)
  PROVE  /\ Three(a, b, c) \in Seq(Byte) /\ Len(Three(a, b, c)) = Len(a) + Len(b) + Len(c)
         /\ \A d \in Seq(Byte), at \in Nat \ {0} :
              Part(d, at, Three(a, b, c)) =>
                Part(d, at, a) /\ Part(d, at + Len(a), b) /\ Part(d, at + Len(a) + Len(b), c)
  <1> DEFINE s == a \o b
             t == s \o c
  <1>1. s \in Seq(Byte) /\ Len(s) = Len(a) + Len(b)
    BY JoinLong, Zenon
  <1> HIDE DEF s
  <1>2. t \in Seq(Byte) /\ Len(t) = Len(s) + Len(c)
    BY <1>1, JoinLong, Zenon
  <1>3. Three(a, b, c) = t
    BY DEF Three, s
  <1>4. ASSUME NEW d \in Seq(Byte), NEW at \in Nat \ {0}, Part(d, at, t)
        PROVE  Part(d, at, a) /\ Part(d, at + Len(a), b) /\ Part(d, at + Len(a) + Len(b), c)
    <2>1. Part(d, at, s \o c) /\ at \in Nat /\ s \in Seq(Byte)
      BY <1>1, <1>4
    <2>2. Part(d, at, s) /\ Part(d, at + Len(s), c)
      BY <2>1, PartJoin
    <2>3. Part(d, at, a \o b)
      BY <2>2 DEF s
    <2>4. Part(d, at, a) /\ Part(d, at + Len(a), b)
      BY <2>3, PartJoin
    <2>5. Len(a) \in Nat /\ Len(b) \in Nat
      OBVIOUS
    <2>6. at + Len(s) = at + Len(a) + Len(b)
      BY <1>1, <2>5
    <2> QED
      BY <2>2, <2>4, <2>6
  <1> HIDE DEF t
  <1>5. Len(t) = Len(a) + Len(b) + Len(c)
    BY <1>1, <1>2
  <1> QED
    BY <1>2, <1>3, <1>4, <1>5

Asn1Plain(v) == Three(TBSToDER(v[1]), EncodeInt(v[2]), EncodeBignum(v[3]))

LEMMA Asn1Long ==
  ASSUME NEW v \in Certificate
  PROVE  /\ Asn1Plain(v) \in Seq(Byte)
         /\ Len(Asn1Plain(v)) = Len(v[1][7][2][2]) + Len(v[3]) + 204
         /\ Asn1ToDER(v) = EncodeSequence(Asn1Plain(v)) /\ Asn1ToDER(v) \in Seq(Byte)
         /\ Len(Asn1ToDER(v)) = Len(v[1][7][2][2]) + Len(v[3]) + 211
  <1> DEFINE k == Len(v[1][7][2][2])
             m == Len(v[3])
             x == TBSToDER(v[1])
             y == EncodeInt(v[2])
             z == EncodeBignum(v[3])
             s == Asn1Plain(v)
  <1>1. v[1] \in TBS /\ v[2] \in IntValue /\ v[3] \in Numbers
    BY CertificateIs
  <1>2. k \in Nat /\ x \in Seq(Byte) /\ Len(x) = k + 196
    BY <1>1, TBSSmall, TBSEncoded
  <1>3. y \in Seq(Byte) /\ Len(y) = 6
    BY <1>1, IntRange, IntLong
  <1>4. m \in Nat /\ z \in Seq(Byte) /\ Len(z) = m + 2
    BY <1>1, NumberIs
  <1>5. s = Three(x, y, z)
    BY DEF Asn1Plain
  <1>6. Asn1ToDER(v) = EncodeSequence(s)
    BY DEF Asn1ToDER, Asn1Plain, Three
  <1> HIDE DEF k, m, x, y, z, s
  <1>7. s \in Seq(Byte) /\ Len(s) = Len(x) + Len(y) + Len(z)
    <2>1. x \in Seq(Byte) /\ y \in Seq(Byte) /\ z \in Seq(Byte)
      BY <1>2, <1>3, <1>4
    <2>2. /\ Three(x, y, z) \in Seq(Byte)
          /\ Len(Three(x, y, z)) = Len(x) + Len(y) + Len(z)
      BY <2>1, ThreeLong, Zenon
    <2> QED
      BY <1>5, <2>2
  <1>8. Len(s) = k + m + 204
    BY <1>2, <1>3, <1>4, <1>7
  <1>9. EncodeSequence(s) \in Seq(Byte) /\ Len(EncodeSequence(s)) = Len(s) + 7
    BY <1>7, SequenceLong
  <1>10. Len(EncodeSequence(s)) = k + m + 211
    BY <1>2, <1>4, <1>8, <1>9
  <1> QED
    BY <1>6, <1>7, <1>8, <1>9, <1>10, ZenonT(60) DEF s, k, m

LEMMA Asn1Back ==
  ASSUME NEW v \in Certificate
  PROVE  /\ Len(v[1][7][2][2]) < 256 /\ Len(v[3]) < 256
              => DerToAsn1(Asn1ToDER(v), 1) = Done(v, Len(Asn1ToDER(v)) + 1)
         /\ ~(Len(v[1][7][2][2]) < 256 /\ Len(v[3]) < 256) => Failed(DerToAsn1(Asn1ToDER(v), 1))
  <1> DEFINE d == Asn1ToDER(v)
             k == Len(v[1][7][2][2])
             m == Len(v[3])
             u == m % 256
             p == v[1]
             q == v[2]
             n == v[3]
             x == TBSToDER(p)
             y == EncodeInt(q)
             z == EncodeBignum(n)
             s == Asn1Plain(v)
             opened == Opened(d, 1)
             end == Len(d) + 1
             r1 == TakeTBS(d, end, Fresh(opened))
             r2 == TakeInt(d, end, r1)
             r3 == TakeNumber(d, end, r2)
             b == k + 204
             c == k + 210
  <1>1. DerToAsn1(d, 1) = IF Failed(opened) \/ opened.value # end - opened.next THEN Exit ELSE UsedUp(r3, end)
    BY DEF DerToAsn1
  <1>2. p \in TBS /\ q \in IntValue /\ n \in Numbers /\ v = <<p, q, n>>
    BY CertificateIs
  <1>3. k = Len(p[7][2][2]) /\ m = Len(n) /\ s = Three(x, y, z)
    BY DEF Asn1Plain
  <1>4. /\ s \in Seq(Byte) /\ Len(s) = k + m + 204 /\ d = EncodeSequence(s) /\ d \in Seq(Byte)
        /\ Len(d) = k + m + 211
    <2>1. s \in Seq(Byte) /\ Len(s) = k + m + 204
      BY Asn1Long, ZenonT(60)
    <2>2. d = EncodeSequence(s)
      BY Asn1Long, ZenonT(60)
    <2>3. d \in Seq(Byte) /\ Len(d) = k + m + 211
      BY Asn1Long, ZenonT(60)
    <2> QED
      BY <2>1, <2>2, <2>3
  <1> HIDE DEF d, k, m, p, q, n, s, opened, r1, r2, r3
  <1>5. k \in Nat /\ k <= MaxNumber /\ x \in Seq(Byte) /\ Len(x) = k + 196
    BY <1>2, <1>3, TBSSmall, TBSEncoded
  <1>6. y \in Seq(Byte) /\ Len(y) = 6
    BY <1>2, IntRange, IntLong
  <1>7. m \in Nat /\ m <= MaxNumber /\ z \in Seq(Byte) /\ Len(z) = m + 2
    BY <1>2, <1>3, NumberIs
  <1>8. Len(s) \in IntValue
    <2>1. k + m + 204 \in Nat /\ k + m + 204 <= 7000
      BY <1>5, <1>7, SMT DEF MaxNumber
    <2> QED
      BY <1>4, <2>1, SmallInt
  <1>9. opened = Done(Len(s), 8) /\ Part(d, 8, s) /\ Fresh(opened) = Done(<<>>, 8)
    <2>1. Part(d, 1, EncodeSequence(s))
      BY <1>4, PartWhole
    <2>2. /\ Opened(d, 1) = Done(Len(s), 1 + 7) /\ Part(d, 1 + 7, s)
          /\ Fresh(Opened(d, 1)) = Done(<<>>, 1 + 7)
      BY <1>4, <1>8, <2>1, OpenedAt
    <2> QED
      BY <2>2 DEF opened
  <1> HIDE DEF x, y, z
  <1>10. /\ b \in Nat \ {0} /\ c \in Nat \ {0} /\ end \in Nat \ {0} /\ 8 < end /\ b < end
         /\ c < end
         /\ end = c + 2 + m /\ b = 8 + (k + 196) /\ c = b + 6 /\ Len(s) = end - 8
    BY <1>4, <1>5, <1>7
  <1>11. Part(d, 8, x) /\ Part(d, b, y) /\ Part(d, c, z)
    <2>1. Part(d, 8, x) /\ Part(d, 8 + Len(x), y) /\ Part(d, 8 + Len(x) + Len(y), z)
      <3>1. /\ Part(d, 8, Three(x, y, z)) /\ 8 \in Nat \ {0} /\ d \in Seq(Byte)
            /\ x \in Seq(Byte) /\ y \in Seq(Byte) /\ z \in Seq(Byte)
        BY <1>3, <1>4, <1>5, <1>6, <1>7, <1>9
      <3> QED
        BY <3>1, ThreeLong, ZenonT(40)
    <2>2. 8 + Len(x) = b /\ 8 + Len(x) + Len(y) = c
      BY <1>5, <1>6
    <2> QED
      BY <2>1, <2>2
  <1> HIDE DEF b, c, end
  <1>12. ~Failed(opened) /\ opened.next = 8 /\ opened.value = end - opened.next
    <2>1. opened.next = 8 /\ opened.value = Len(s) /\ ~Failed(opened)
      BY <1>9, DoneIs
    <2> QED
      BY <1>10, <2>1
  <1>13. DerToAsn1(d, 1) = UsedUp(r3, end)
    BY <1>1, <1>12
  <1>14. Fresh(opened).next = 8
    BY <1>9, DoneIs
  <1>15. r1 = WithUntil(end, Done(<<>>, 8), DerTBSToAsn1(d, 8), BlankTBS)
    BY <1>9, <1>14 DEF r1, TakeTBS
  <1>16. Part(d, 8, TBSToDER(p))
    BY <1>11 DEF x
  <1>17. CASE ~(k < 256)
    <2>1. Failed(DerTBSToAsn1(d, 8))
      BY <1>2, <1>3, <1>4, <1>16, <1>17, TBSAt
    <2> DEFINE t == <<>>
    <2>2. r1 = WithUntil(end, Done(t, 8), DerTBSToAsn1(d, 8), BlankTBS)
      BY <1>15
    <2> HIDE DEF t
    <2>3. Failed(r1)
      BY <1>10, <2>1, <2>2, UntilFailed
    <2>4. Failed(r2)
      BY <2>3, UntilStopped DEF r2, TakeInt
    <2>5. Failed(r3)
      BY <2>4, UntilStopped DEF r3, TakeNumber
    <2>6. UsedUp(r3, end) = Exit /\ Failed(Exit)
      BY <2>5, WithIs DEF UsedUp
    <2> QED
      BY <1>13, <1>17, <2>6 DEF d, k
  <1>18. CASE k < 256
    <2> DEFINE t1 == <<p>>
               t2 == <<p, q>>
    <2>1. r1 = Done(t1, b)
      <3> DEFINE t == <<>>
      <3>1. r1 = WithUntil(end, Done(t, 8), DerTBSToAsn1(d, 8), BlankTBS)
        BY <1>15
      <3>2. Append(t, p) = t1
        BY Appended1
      <3> HIDE DEF t, t1
      <3>3. DerTBSToAsn1(d, 8) = Done(p, 8 + Len(TBSToDER(p)))
        BY <1>2, <1>3, <1>4, <1>16, <1>18, TBSAt
      <3>4. DerTBSToAsn1(d, 8) = Done(p, b)
        BY <1>5, <1>10, <3>3 DEF x
      <3>5. WithUntil(end, Done(t, 8), Done(p, b), BlankTBS) = Done(Append(t, p), b)
        BY <1>10, UntilDone
      <3> QED
        BY <3>1, <3>2, <3>4, <3>5
    <2>2. r2 = Done(t2, c)
      <3>1. Append(t1, q) = t2
        BY Appended2
      <3> HIDE DEF t1, t2
      <3>2. r1.next = b
        BY <1>10, <2>1, DoneIs
      <3>3. DecodeInt(d, b) = Done(q, b + 6)
        <4>1. Part(d, b, EncodeInt(q)) /\ b \in Nat \ {0} /\ d \in Seq(Byte) /\ q \in IntValue
          BY <1>2, <1>4, <1>10, <1>11 DEF y
        <4> QED
          BY <4>1, IntAt
      <3>4. DecodeInt(d, r1.next) = Done(q, c)
        BY <1>10, <3>2, <3>3
      <3>5. WithUntil(end, Done(t1, b), Done(q, c), 0) = Done(Append(t1, q), c)
        BY <1>10, UntilDone
      <3>6. r2 = WithUntil(end, r1, DecodeInt(d, r1.next), 0)
        BY DEF r2, TakeInt
      <3> QED
        BY <2>1, <3>1, <3>4, <3>5, <3>6
    <2>3. Append(t2, n) = v
      BY <1>2, Appended3
    <2> HIDE DEF t1, t2
    <2>4. r2.next = c
      BY <1>10, <2>2, DoneIs
    <2>5. r3 = WithUntil(end, Done(t2, c), DecodeBignum(d, c), <<>>)
      BY <2>2, <2>4 DEF r3, TakeNumber
    <2>6. Part(d, c, EncodeBignum(n)) /\ c \in Nat \ {0} /\ n \in Numbers /\ d \in Seq(Byte)
      BY <1>2, <1>4, <1>10, <1>11 DEF z
    <2> DEFINE w == DecodeBignum(d, c)
               blank == <<>>
    <2> HIDE DEF blank
    <2>7. CASE m < 256
      <3>1. w = Done(n, c + 2 + Len(n))
        BY <1>3, <2>6, <2>7, BignumAt
      <3>2. w = Done(n, end)
        BY <1>3, <1>10, <3>1
      <3> HIDE DEF w
      <3>3. r3 = WithUntil(end, Done(t2, c), w, blank)
        BY <2>5 DEF w, blank
      <3>4. WithUntil(end, Done(t2, c), Done(n, end), blank) = Done(Append(t2, n), end)
        BY <1>10, UntilDone
      <3>5. r3 = Done(v, end)
        BY <2>3, <3>2, <3>3, <3>4
      <3>6. r3.next = end /\ ~Failed(r3)
        BY <1>10, <3>5, DoneIs
      <3>7. ~(r3.next < end)
        BY <1>10, <3>6
      <3>8. UsedUp(r3, end) = r3
        BY <3>6, <3>7 DEF UsedUp
      <3> QED
        BY <1>13, <1>18, <2>7, <3>5, <3>8 DEF d, k, m, end
    <2>8. CASE ~(m < 256)
      <3>1. w.next = c + 2 + (Len(n) % 256)
        BY <2>6, BignumAt
      <3>2. u \in Nat /\ u < m
        BY <1>7, <2>8
      <3>3. w.next = c + 2 + u
        BY <1>3, <3>1
      <3> HIDE DEF w, u
      <3>4. r3 = WithUntil(end, Done(t2, c), w, blank)
        BY <2>5 DEF w, blank
      <3>5. WithUntil(end, Done(t2, c), w, blank) = With(Done(t2, c), w)
        <4> DEFINE r == Done(t2, c)
        <4>1. r.next = c
          BY <1>10, DoneIs
        <4> HIDE DEF r
        <4>2. ~(r.next >= end)
          BY <1>10, <4>1
        <4>3. WithUntil(end, r, w, blank) = With(r, w)
          BY <4>2 DEF WithUntil
        <4> QED
          BY <4>3 DEF r
      <3>6. With(Done(t2, c), w).next = 0 \/ With(Done(t2, c), w).next = w.next
        BY WithIs
      <3>7. r3.next < end
        <4> DEFINE t == With(Done(t2, c), w).next
        <4>1. r3.next = t /\ (t = 0 \/ t = c + 2 + u)
          BY <3>3, <3>4, <3>5, <3>6
        <4> HIDE DEF t
        <4>2. c \in Nat /\ m \in Nat /\ u \in Nat /\ u < m /\ end = c + 2 + m
          BY <1>7, <1>10, <3>2
        <4>3. t < end
          BY <4>1, <4>2
        <4> QED
          BY <4>1, <4>3
      <3>8. UsedUp(r3, end) = Exit /\ Failed(Exit)
        BY <3>7, WithIs DEF UsedUp
      <3> QED
        BY <1>13, <1>18, <2>8, <3>8 DEF d, k, m
    <2> QED
      BY <2>7, <2>8
  <1> QED
    BY <1>17, <1>18

-----------------------------------------------------------------------------
(* What a reader has in the end, whatever it was given                     *)
Typed(r, S) == Failed(r) \/ (r.next \in Nat \ {0} /\ r.value \in S)

LEMMA TypedDone ==
  ASSUME NEW S, NEW x \in S, NEW n \in Nat \ {0}
  PROVE  Typed(Done(x, n), S)
  BY DoneIs DEF Typed

LEMMA TypedExit ==
  ASSUME NEW S
  PROVE  Typed(Exit, S)
  BY DEF Typed, Failed, Exit

LEMMA TypedNext ==
  ASSUME NEW S, NEW r, Typed(r, S)
  PROVE  r.next \in Nat
  BY DEF Typed, Failed

LEMMA TypedWith ==
  ASSUME NEW S, NEW T, NEW U, NEW r, NEW f, Typed(r, S), Typed(f, T),
         \A s \in S, t \in T : Append(s, t) \in U
  PROVE  Typed(With(r, f), U)
  <1>1. CASE Failed(r) \/ Failed(f)
    <2>1. Failed(With(r, f))
      BY <1>1, WithIs
    <2> QED
      BY <2>1 DEF Typed
  <1>2. CASE ~(Failed(r) \/ Failed(f))
    <2> DEFINE x == Append(r.value, f.value)
    <2>1. r.value \in S /\ f.value \in T /\ f.next \in Nat \ {0}
      BY <1>2 DEF Typed
    <2>2. x \in U
      BY <2>1
    <2>3. With(r, f) = Done(x, f.next)
      BY <1>2 DEF With
    <2> HIDE DEF x
    <2> QED
      BY <2>1, <2>2, <2>3, TypedDone
  <1> QED
    BY <1>1, <1>2

LEMMA TypedClosed ==
  ASSUME NEW S, NEW r, NEW o, Typed(r, S)
  PROVE  Typed(Closed(r, o), S)
  <1>1. Closed(r, o) = r \/ Closed(r, o) = Exit
    BY DEF Closed
  <1> QED
    BY <1>1, TypedExit

LEMMA TypedUsedUp ==
  ASSUME NEW S, NEW r, NEW end, Typed(r, S)
  PROVE  Typed(UsedUp(r, end), S)
  <1>1. UsedUp(r, end) = r \/ UsedUp(r, end) = Exit
    BY DEF UsedUp
  <1> QED
    BY <1>1, TypedExit

LEMMA TypedFresh ==
  ASSUME NEW S, NEW o, Typed(o, S)
  PROVE  Typed(Fresh(o), {<<>>})
  <1> DEFINE e == <<>>
  <1>1. CASE Failed(o)
    <2>1. Fresh(o) = Exit
      BY <1>1 DEF Fresh
    <2> QED
      BY <2>1, TypedExit
  <1>2. CASE ~Failed(o)
    <2>1. o.next \in Nat \ {0}
      BY <1>2 DEF Typed
    <2>2. Fresh(o) = Done(e, o.next)
      BY <1>2 DEF Fresh
    <2>3. e \in {e}
      OBVIOUS
    <2> HIDE DEF e
    <2>4. Typed(Fresh(o), {e})
      BY <2>1, <2>2, <2>3, TypedDone
    <2> QED
      BY <2>4 DEF e
  <1> QED
    BY <1>1, <1>2

LEMMA TypedUntil ==
  ASSUME NEW S, NEW T, NEW U, NEW r, NEW f, NEW end, NEW blank \in T, Typed(r, S), Typed(f, T),
         \A s \in S, t \in T : Append(s, t) \in U
  PROVE  Typed(WithUntil(end, r, f, blank), U)
  <1>1. Typed(With(r, f), U)
    BY TypedWith
  <1>2. CASE Failed(r)
    <2>1. Failed(WithUntil(end, r, f, blank))
      BY <1>2, UntilStopped
    <2> QED
      BY <2>1 DEF Typed
  <1>3. CASE ~Failed(r)
    <2> DEFINE g == Done(blank, r.next)
    <2>1. r.next \in Nat \ {0}
      BY <1>3 DEF Typed
    <2>2. Typed(g, T)
      BY <2>1, TypedDone
    <2> HIDE DEF g
    <2>3. Typed(With(r, g), U)
      BY <2>2, TypedWith
    <2>4. WithUntil(end, r, f, blank) = With(r, g) \/ WithUntil(end, r, f, blank) = With(r, f)
      BY DEF WithUntil, g
    <2> QED
      BY <1>1, <2>3, <2>4
  <1> QED
    BY <1>2, <1>3

(* der.c: an int has 32 bits, a number less than 256 bytes, a string the   *)
(* size of its field.                                                      *)
LEMMA BytesInt ==
  ASSUME NEW a \in Byte, NEW b \in Byte, NEW c \in Byte, NEW e \in Byte
  PROVE  Signed(a) * 16777216 + b * 65536 + c * 256 + e \in IntValue
  <1>1. /\ a \in Int /\ b \in Int /\ c \in Int /\ e \in Int /\ 0 <= a /\ a <= 255
        /\ 0 <= b /\ b <= 255 /\ 0 <= c /\ c <= 255 /\ 0 <= e /\ e <= 255
    BY DEF Byte
  <1> DEFINE s == Signed(a)
             n == s * 16777216 + b * 65536 + c * 256 + e
  <1>2. s \in Int /\ -128 <= s /\ s <= 127
    BY <1>1, SMT DEF Signed
  <1> HIDE DEF s
  <1>3. n \in Int /\ -2147483647 - 1 <= n /\ n <= 2147483647
    BY <1>1, <1>2, SMT
  <1> HIDE DEF n
  <1>4. MaxInt \in Int /\ n \in Int /\ -MaxInt - 1 <= n /\ n <= MaxInt
    BY <1>3, SMT DEF MaxInt
  <1>5. n \in IntValue
    BY <1>4, SMT DEF IntValue
  <1> QED
    BY <1>5, SMT DEF n, s

LEMMA IntTyped ==
  ASSUME NEW d \in Seq(Byte), NEW at \in Nat
  PROVE  Typed(DecodeInt(d, at), IntValue)
  <1> DEFINE n == Signed(d[at+2]) * 16777216 + d[at+3] * 65536 + d[at+4] * 256 + d[at+5]
             c == at + 5 > Len(d) \/ d[at] # DER_INTEGER \/ d[at+1] # 4
  <1>1. DecodeInt(d, at) = IF c THEN Exit ELSE Done(n, at + 6)
    BY DEF DecodeInt
  <1>2. CASE c
    BY <1>1, <1>2, TypedExit
  <1>3. CASE ~c
    <2>1. Len(d) \in Nat /\ at + 5 <= Len(d)
      BY <1>3
    <2>2. at + 2 \in 1..Len(d) /\ at + 3 \in 1..Len(d) /\ at + 4 \in 1..Len(d)
          /\ at + 5 \in 1..Len(d)
      BY <2>1
    <2>3. d[at+2] \in Byte /\ d[at+3] \in Byte /\ d[at+4] \in Byte /\ d[at+5] \in Byte
      BY <2>2
    <2>4. n \in IntValue
      BY <2>3, BytesInt, SMT
    <2>5. DecodeInt(d, at) = Done(n, at + 6) /\ at + 6 \in Nat \ {0}
      BY <1>1, <1>3
    <2> HIDE DEF n
    <2> QED
      BY <2>4, <2>5, TypedDone
  <1> QED
    BY <1>2, <1>3

LEMMA BytesTyped ==
  ASSUME NEW d \in Seq(Byte), NEW at \in Nat, NEW label, NEW max \in Nat, NEW unit \in {1, 4}
  PROVE  \/ DecodeBytes(d, at, label, max, unit) = Exit
         \/ \E n \in Byte :
              /\ n <= max
              /\ DecodeBytes(d, at, label, max, unit)
                   = Done(SubSeq(d, at + 2, at + 1 + unit * (n \div unit)), at + 2 + n)
              /\ SubSeq(d, at + 2, at + 1 + unit * (n \div unit)) \in Seq(Byte)
              /\ Len(SubSeq(d, at + 2, at + 1 + unit * (n \div unit))) = unit * (n \div unit)
  <1> DEFINE n == d[at+1]
             c == at + 1 > Len(d) \/ d[at] # label \/ at + 1 + n > Len(d) \/ n > max
             l == unit * (n \div unit)
             x == SubSeq(d, at + 2, at + 1 + l)
  <1>1. DecodeBytes(d, at, label, max, unit) = IF c THEN Exit ELSE Done(x, at + 2 + n)
    BY DEF DecodeBytes
  <1>2. CASE c
    BY <1>1, <1>2
  <1>3. CASE ~c
    <2>1. Len(d) \in Nat /\ at + 1 \in 1..Len(d)
      BY <1>3
    <2>2. n \in Byte
      BY <2>1
    <2>3. n \in Nat /\ n <= 255 /\ at + 1 + n <= Len(d)
      BY <1>3, <2>1, <2>2, ByteIn
    <2>4. DecodeBytes(d, at, label, max, unit) = Done(x, at + 2 + n) /\ (n <= max)
      <3>1. DecodeBytes(d, at, label, max, unit) = Done(x, at + 2 + n)
        BY <1>1, <1>3
      <3>2. n <= max
        BY <1>3, <2>3
      <3> QED
        BY <3>1, <3>2
    <2> HIDE DEF n
    <2>5. l \in Nat /\ l <= n
      BY <2>3
    <2> HIDE DEF l
    <2>6. at + 2 \in Nat /\ at + 1 + l \in Nat /\ at + 1 + l <= Len(d) /\ 1 <= at + 2
      BY <2>1, <2>3, <2>5
    <2>7. x \in Seq(Byte) /\ Len(x) = l
      BY <2>1, <2>5, <2>6
    <2> QED
      BY <2>2, <2>7, <2>4 DEF l
  <1> QED
    BY <1>2, <1>3

ShortNumbers == {x \in Numbers : Len(x) < 256}

LEMMA BignumTyped ==
  ASSUME NEW d \in Seq(Byte), NEW at \in Nat
  PROVE  Typed(DecodeBignum(d, at), ShortNumbers)
  <1> DEFINE r == DecodeBignum(d, at)
  <1>1. CASE r = Exit
    BY <1>1, TypedExit
  <1>2. CASE r # Exit
    <2>1. PICK n \in Byte :
            /\ n <= 255
            /\ r = Done(SubSeq(d, at + 2, at + 1 + 4 * (n \div 4)), at + 2 + n)
            /\ SubSeq(d, at + 2, at + 1 + 4 * (n \div 4)) \in Seq(Byte)
            /\ Len(SubSeq(d, at + 2, at + 1 + 4 * (n \div 4))) = 4 * (n \div 4)
      <3>1. DecodeBignum(d, at) = DecodeBytes(d, at, DER_BITSTRING, 255, 4)
        BY DEF DecodeBignum
      <3>2. 255 \in Nat /\ 4 \in {1, 4}
        OBVIOUS
      <3> QED
        BY <1>2, <3>1, <3>2, BytesTyped
    <2> DEFINE l == 4 * (n \div 4)
               x == SubSeq(d, at + 2, at + 1 + l)
    <2>2. n \in Nat /\ n <= 255
      BY ByteIn
    <2>3. l \in Nat /\ l <= 255 /\ l % 4 = 0
      BY <2>2
    <2>4. x \in Seq(Byte) /\ Len(x) = l /\ r = Done(x, at + 2 + n)
      BY <2>1
    <2> HIDE DEF l, x, r
    <2>5. x \in Numbers
      <3>1. Len(x) % 4 = 0 /\ Len(x) <= MaxNumber
        BY <2>3, <2>4, SMT DEF MaxNumber
      <3> QED
        BY <2>4, <3>1 DEF Numbers
    <2>6. x \in ShortNumbers
      BY <2>3, <2>4, <2>5 DEF ShortNumbers
    <2>7. at + 2 + n \in Nat \ {0}
      BY <2>2
    <2> QED
      BY <2>4, <2>6, <2>7, TypedDone DEF r
  <1> QED
    BY <1>1, <1>2

LEMMA StringTyped ==
  ASSUME NEW d \in Seq(Byte), NEW at \in Nat, NEW size \in {14, 50}
  PROVE  Typed(DecodeString(d, at, size), Strings(size))
  <1> DEFINE b == DecodeBytes(d, at, DER_UTF8STRING, size, 1)
  <1>1. DecodeString(d, at, size) = Padded(b, size)
    BY DEF DecodeString
  <1>2. CASE b = Exit
    <2>1. Padded(b, size) = Exit
      BY <1>2, WithIs DEF Padded
    <2> QED
      BY <1>1, <2>1, TypedExit
  <1>3. CASE b # Exit
    <2>1. PICK n \in Byte :
            /\ n <= size
            /\ b = Done(SubSeq(d, at + 2, at + 1 + 1 * (n \div 1)), at + 2 + n)
            /\ SubSeq(d, at + 2, at + 1 + 1 * (n \div 1)) \in Seq(Byte)
            /\ Len(SubSeq(d, at + 2, at + 1 + 1 * (n \div 1))) = 1 * (n \div 1)
      <3>1. size \in Nat /\ 1 \in {1, 4}
        OBVIOUS
      <3> QED
        BY <1>3, <3>1, BytesTyped
    <2> DEFINE x == SubSeq(d, at + 2, at + 1 + 1 * (n \div 1))
               z == [i \in 1..size - Len(x) |-> 0]
               y == x \o z
    <2>2. n \in Nat /\ n <= size /\ 1 * (n \div 1) = n /\ size \in Nat
      BY <2>1, ByteIn
    <2>3. x \in Seq(Byte) /\ Len(x) = n /\ b = Done(x, at + 2 + n)
      BY <2>1, <2>2
    <2> HIDE DEF x, b
    <2>4. at + 2 + n \in Nat \ {0}
      BY <2>2
    <2>5. ~Failed(b) /\ b.value = x /\ b.next = at + 2 + n
      BY <2>3, <2>4, DoneIs
    <2>6. z \in Seq(Byte) /\ Len(z) = size - n
      <3>1. size - Len(x) \in Nat
        BY <2>2, <2>3
      <3>2. 0 \in Byte
        BY ByteIn
      <3> QED
        BY <2>3, <3>1, <3>2
    <2>7. Padded(b, size) = Done(y, at + 2 + n)
      <3>1. b = [next |-> at + 2 + n, value |-> x]
        BY <2>3 DEF Done
      <3>2. Padded(b, size) = [b EXCEPT !.value = @ \o [i \in 1..size - Len(@) |-> 0]]
        BY <2>5 DEF Padded
      <3> QED
        BY <3>1, <3>2 DEF Done
    <2> HIDE DEF z
    <2>8. y \in Seq(Byte) /\ Len(y) = size
      <3>1. y \in Seq(Byte) /\ Len(y) = Len(x) + Len(z)
        BY <2>3, <2>6, JoinLong, Zenon
      <3> HIDE DEF y
      <3> QED
        BY <2>2, <2>3, <2>6, <3>1
    <2> HIDE DEF y
    <2>9. y \in Strings(size)
      BY <2>8 DEF Strings
    <2> QED
      BY <1>1, <2>4, <2>7, <2>9, TypedDone
  <1> QED
    BY <1>2, <1>3

LEMMA BlankTyped ==
  ASSUME NEW size \in {14, 50}
  PROVE  Blank(size) \in Strings(size)
  BY ByteIn DEF Blank, Strings

LEMMA OpenedTyped ==
  ASSUME NEW d \in Seq(Byte), NEW at \in Nat
  PROVE  Typed(Opened(d, at), IntValue) /\ Typed(Fresh(Opened(d, at)), {<<>>})
  <1>1. Typed(DecodeInt(d, at + 1), IntValue)
    BY IntTyped
  <1>2. Opened(d, at) = Exit \/ Opened(d, at) = DecodeInt(d, at + 1)
    BY DEF Opened
  <1>3. Typed(Opened(d, at), IntValue)
    BY <1>1, <1>2, TypedExit
  <1> QED
    BY <1>3, TypedFresh

(* Tuples grow by a field.                                                 *)
One(A) == {<<a>> : a \in A}

LEMMA OneMore ==
  ASSUME NEW A, NEW C
  PROVE  /\ \A s \in {<<>>}, a \in A : Append(s, a) \in One(A)
         /\ \A s \in One(A), b \in C : Append(s, b) \in A \X C
  <1>1. ASSUME NEW s \in {<<>>}, NEW a \in A
        PROVE  Append(s, a) \in One(A)
    <2> DEFINE t == <<a>>
    <2>1. Append(s, a) = t
      BY Appended1
    <2>2. t \in One(A)
      BY DEF One
    <2> QED
      BY <2>1, <2>2
  <1>2. ASSUME NEW s \in One(A), NEW b \in C
        PROVE  Append(s, b) \in A \X C
    <2>1. PICK a \in A : s = <<a>>
      BY DEF One
    <2> DEFINE t == <<a>>
               u == <<a, b>>
    <2>2. Append(t, b) = u
      BY Appended2
    <2>3. u \in A \X C
      OBVIOUS
    <2> HIDE DEF t, u
    <2>4. s = t
      BY <2>1 DEF t
    <2> QED
      BY <2>2, <2>3, <2>4
  <1> QED
    BY <1>1, <1>2

Grows(S, T, U) == \A s \in S, t \in T : Append(s, t) \in U
Tuples2(A, C) == A \X C
Tuples3(A, C, D) == A \X C \X D
Tuples4(A, C, D, E) == A \X C \X D \X E
Tuples5(A, C, D, E, F) == A \X C \X D \X E \X F
Tuples6(A, C, D, E, F, G) == A \X C \X D \X E \X F \X G
Tuples7(A, C, D, E, F, G, H) == A \X C \X D \X E \X F \X G \X H

LEMMA Grown3 ==
  ASSUME NEW A, NEW C, NEW D
  PROVE  Grows(Tuples2(A, C), D, Tuples3(A, C, D))
  <1> SUFFICES ASSUME NEW s \in A \X C, NEW e \in D
               PROVE  Append(s, e) \in A \X C \X D
    BY DEF Grows, Tuples2, Tuples3
  <1> DEFINE t == <<s[1], s[2]>>
             u == <<s[1], s[2], e>>
  <1>1. s = t /\ s[1] \in A /\ s[2] \in C
    OBVIOUS
  <1>2. Append(t, e) = u
    BY Appended3
  <1>3. u \in A \X C \X D
    BY <1>1
  <1> HIDE DEF t, u
  <1> QED
    BY <1>1, <1>2, <1>3

LEMMA Grown4 ==
  ASSUME NEW A, NEW C, NEW D, NEW E
  PROVE  Grows(Tuples3(A, C, D), E, Tuples4(A, C, D, E))
  <1> SUFFICES ASSUME NEW s \in A \X C \X D, NEW e \in E
               PROVE  Append(s, e) \in A \X C \X D \X E
    BY DEF Grows, Tuples3, Tuples4
  <1> DEFINE t == <<s[1], s[2], s[3]>>
             u == <<s[1], s[2], s[3], e>>
  <1>1. s = t /\ s[1] \in A /\ s[2] \in C /\ s[3] \in D
    OBVIOUS
  <1>2. Append(t, e) = u
    BY Appended4
  <1>3. u \in A \X C \X D \X E
    BY <1>1
  <1> HIDE DEF t, u
  <1> QED
    BY <1>1, <1>2, <1>3

LEMMA Grown5 ==
  ASSUME NEW A, NEW C, NEW D, NEW E, NEW F
  PROVE  Grows(Tuples4(A, C, D, E), F, Tuples5(A, C, D, E, F))
  <1> SUFFICES ASSUME NEW s \in A \X C \X D \X E, NEW e \in F
               PROVE  Append(s, e) \in A \X C \X D \X E \X F
    BY DEF Grows, Tuples4, Tuples5
  <1> DEFINE t == <<s[1], s[2], s[3], s[4]>>
             u == <<s[1], s[2], s[3], s[4], e>>
  <1>1. s = t /\ s[1] \in A /\ s[2] \in C /\ s[3] \in D /\ s[4] \in E
    OBVIOUS
  <1>2. Append(t, e) = u
    BY Appended5
  <1>3. u \in A \X C \X D \X E \X F
    BY <1>1
  <1> HIDE DEF t, u
  <1> QED
    BY <1>1, <1>2, <1>3

LEMMA Grown6 ==
  ASSUME NEW A, NEW C, NEW D, NEW E, NEW F, NEW G
  PROVE  Grows(Tuples5(A, C, D, E, F), G, Tuples6(A, C, D, E, F, G))
  <1> SUFFICES ASSUME NEW s \in A \X C \X D \X E \X F, NEW e \in G
               PROVE  Append(s, e) \in A \X C \X D \X E \X F \X G
    BY DEF Grows, Tuples5, Tuples6
  <1> DEFINE t == <<s[1], s[2], s[3], s[4], s[5]>>
             u == <<s[1], s[2], s[3], s[4], s[5], e>>
  <1>1. s = t /\ s[1] \in A /\ s[2] \in C /\ s[3] \in D /\ s[4] \in E /\ s[5] \in F
    OBVIOUS
  <1>2. Append(t, e) = u
    BY Appended6
  <1>3. u \in A \X C \X D \X E \X F \X G
    BY <1>1
  <1> HIDE DEF t, u
  <1> QED
    BY <1>1, <1>2, <1>3

LEMMA Grown7 ==
  ASSUME NEW A, NEW C, NEW D, NEW E, NEW F, NEW G, NEW H
  PROVE  Grows(Tuples6(A, C, D, E, F, G), H, Tuples7(A, C, D, E, F, G, H))
  <1> SUFFICES ASSUME NEW s \in A \X C \X D \X E \X F \X G, NEW e \in H
               PROVE  Append(s, e) \in A \X C \X D \X E \X F \X G \X H
    BY DEF Grows, Tuples6, Tuples7
  <1> DEFINE t == <<s[1], s[2], s[3], s[4], s[5], s[6]>>
             u == <<s[1], s[2], s[3], s[4], s[5], s[6], e>>
  <1>1. s = t /\ s[1] \in A /\ s[2] \in C /\ s[3] \in D /\ s[4] \in E /\ s[5] \in F
        /\ s[6] \in G
    OBVIOUS
  <1>2. Append(t, e) = u
    BY Appended7
  <1>3. u \in A \X C \X D \X E \X F \X G \X H
    BY <1>1
  <1> HIDE DEF t, u
  <1> QED
    BY <1>1, <1>2, <1>3

LEMMA FirstTyped ==
  ASSUME NEW d \in Seq(Byte), NEW at \in Nat, NEW A, NEW f, Typed(f, A)
  PROVE  Typed(With(Fresh(Opened(d, at)), f), One(A))
  <1> DEFINE r == Fresh(Opened(d, at))
             S == {<<>>}
             U == One(A)
  <1>1. Typed(r, S)
    BY OpenedTyped
  <1>2. \A s \in S, a \in A : Append(s, a) \in U
    BY OneMore
  <1> HIDE DEF r, S, U
  <1>3. Typed(With(r, f), U)
    BY <1>1, <1>2, TypedWith
  <1> QED
    BY <1>3 DEF r, U

LEMMA PairTyped ==
  ASSUME NEW d \in Seq(Byte), NEW at \in Nat, NEW A, NEW f, Typed(f, A), NEW C, NEW g, Typed(g, C)
  PROVE  Typed(Closed(With(With(Fresh(Opened(d, at)), f), g), Opened(d, at)), A \X C)
  <1> DEFINE r == With(Fresh(Opened(d, at)), f)
             S == One(A)
             U == A \X C
             o == Opened(d, at)
  <1>1. Typed(r, S)
    BY FirstTyped
  <1>2. \A s \in S, b \in C : Append(s, b) \in U
    BY OneMore
  <1> HIDE DEF r, S, U, o
  <1>3. Typed(With(r, g), U)
    BY <1>1, <1>2, TypedWith
  <1>4. Typed(Closed(With(r, g), o), U)
    BY <1>3, TypedClosed
  <1> QED
    BY <1>4 DEF r, U, o

ShortCertifiedKey == IntValue \X ShortNumbers
ShortKeyInfo == IntValue \X ShortCertifiedKey
ShortTBS == IntValue \X IntValue \X IntValue \X Strings(50) \X Validity \X Strings(50) \X ShortKeyInfo
ShortCertificate == ShortTBS \X IntValue \X ShortNumbers

LEMMA ValidityTyped ==
  ASSUME NEW d \in Seq(Byte), NEW at \in Nat
  PROVE  Typed(DerToValidity(d, at), Validity)
  <1> DEFINE f == DecodeString(d, Opened(d, at).next, 14)
             n == With(Fresh(Opened(d, at)), f)
             g == DecodeString(d, n.next, 14)
             A == Strings(14)
             C == Strings(14)
  <1>1. Opened(d, at).next \in Nat
    BY OpenedTyped, TypedNext
  <1>2. Typed(f, A)
    BY <1>1, StringTyped
  <1>3. n.next \in Nat
    <2> HIDE DEF f, A
    <2>1. Typed(n, One(A))
      BY <1>2, FirstTyped
    <2> HIDE DEF n
    <2> QED
      BY <2>1, TypedNext
  <1>4. Typed(g, C)
    <2> HIDE DEF n
    <2> QED
      BY <1>3, StringTyped
  <1>5. DerToValidity(d, at) = Closed(With(n, g), Opened(d, at)) /\ Validity = A \X C
    BY DEF DerToValidity, Validity
  <1> HIDE DEF f, g, A, C
  <1>6. Typed(Closed(With(With(Fresh(Opened(d, at)), f), g), Opened(d, at)), A \X C)
    BY <1>2, <1>4, PairTyped
  <1> QED
    BY <1>5, <1>6

LEMMA ShortCertifiedKeyTyped ==
  ASSUME NEW d \in Seq(Byte), NEW at \in Nat
  PROVE  Typed(DerToCertifiedKey(d, at), ShortCertifiedKey)
  <1> DEFINE f == DecodeInt(d, Opened(d, at).next)
             n == With(Fresh(Opened(d, at)), f)
             g == DecodeBignum(d, n.next)
             A == IntValue
             C == ShortNumbers
  <1>1. Opened(d, at).next \in Nat
    BY OpenedTyped, TypedNext
  <1>2. Typed(f, A)
    BY <1>1, IntTyped
  <1>3. n.next \in Nat
    <2> HIDE DEF f, A
    <2>1. Typed(n, One(A))
      BY <1>2, FirstTyped
    <2> HIDE DEF n
    <2> QED
      BY <2>1, TypedNext
  <1>4. Typed(g, C)
    <2> HIDE DEF n
    <2> QED
      BY <1>3, BignumTyped
  <1>5. DerToCertifiedKey(d, at) = Closed(With(n, g), Opened(d, at))
        /\ ShortCertifiedKey = A \X C
    BY DEF DerToCertifiedKey, ShortCertifiedKey
  <1> HIDE DEF f, g, A, C
  <1>6. Typed(Closed(With(With(Fresh(Opened(d, at)), f), g), Opened(d, at)), A \X C)
    BY <1>2, <1>4, PairTyped
  <1> QED
    BY <1>5, <1>6

LEMMA ShortKeyInfoTyped ==
  ASSUME NEW d \in Seq(Byte), NEW at \in Nat
  PROVE  Typed(DerToKeyInfo(d, at), ShortKeyInfo)
  <1> DEFINE f == DecodeInt(d, Opened(d, at).next)
             n == With(Fresh(Opened(d, at)), f)
             g == DerToCertifiedKey(d, n.next)
             A == IntValue
             C == ShortCertifiedKey
  <1>1. Opened(d, at).next \in Nat
    BY OpenedTyped, TypedNext
  <1>2. Typed(f, A)
    BY <1>1, IntTyped
  <1>3. n.next \in Nat
    <2> HIDE DEF f, A
    <2>1. Typed(n, One(A))
      BY <1>2, FirstTyped
    <2> HIDE DEF n
    <2> QED
      BY <2>1, TypedNext
  <1>4. Typed(g, C)
    <2> HIDE DEF n
    <2> QED
      BY <1>3, ShortCertifiedKeyTyped
  <1>5. DerToKeyInfo(d, at) = Closed(With(n, g), Opened(d, at)) /\ ShortKeyInfo = A \X C
    BY DEF DerToKeyInfo, ShortKeyInfo
  <1> HIDE DEF f, g, A, C
  <1>6. Typed(Closed(With(With(Fresh(Opened(d, at)), f), g), Opened(d, at)), A \X C)
    BY <1>2, <1>4, PairTyped
  <1> QED
    BY <1>5, <1>6

LEMMA BlanksTyped ==
  /\ 0 \in IntValue /\ <<>> \in ShortNumbers
  /\ Blank(50) \in Strings(50) /\ BlankValidity \in Validity /\ BlankKeyInfo \in ShortKeyInfo
  /\ BlankTBS \in ShortTBS
  <1> DEFINE e == <<>>
             b == Blank(50)
             c == Blank(14)
  <1>1. 0 \in IntValue
    BY SmallInt
  <1>2. e \in ShortNumbers
    <2>1. e \in Seq(Byte) /\ Len(e) = 0 /\ 0 % 4 = 0 /\ 0 <= MaxNumber
      BY SMT DEF MaxNumber
    <2> HIDE DEF e
    <2>2. e \in Numbers
      BY <2>1 DEF Numbers
    <2> QED
      BY <2>1, <2>2 DEF ShortNumbers
  <1>3. b \in Strings(50) /\ c \in Strings(14)
    BY BlankTyped
  <1>4. BlankValidity = <<c, c>> /\ BlankKeyInfo = <<0, <<0, e>>>>
    BY DEF BlankValidity, BlankKeyInfo
  <1> HIDE DEF e, b, c
  <1>5. BlankValidity \in Validity
    BY <1>3, <1>4 DEF Validity
  <1>6. BlankKeyInfo \in ShortKeyInfo
    BY <1>1, <1>2, <1>4 DEF ShortKeyInfo, ShortCertifiedKey
  <1>7. BlankTBS \in ShortTBS
    BY <1>1, <1>3, <1>5, <1>6 DEF BlankTBS, ShortTBS, b
  <1> QED
    BY <1>1, <1>2, <1>3, <1>5, <1>6, <1>7 DEF e, b

LEMMA TakeIntTyped ==
  ASSUME NEW d \in Seq(Byte), NEW end, NEW S, NEW U, NEW r, Typed(r, S),
         \A s \in S, t \in IntValue : Append(s, t) \in U
  PROVE  Typed(TakeInt(d, end, r), U)
  <1> DEFINE T == IntValue
             b == 0
             f == DecodeInt(d, r.next)
  <1>1. r.next \in Nat
    BY TypedNext
  <1>2. Typed(f, T)
    BY <1>1, IntTyped
  <1>3. b \in T
    BY BlanksTyped
  <1>4. TakeInt(d, end, r) = WithUntil(end, r, f, b)
    BY DEF TakeInt
  <1>5. \A s \in S, t \in T : Append(s, t) \in U
    OBVIOUS
  <1> HIDE DEF T, b, f
  <1> QED
    BY <1>2, <1>3, <1>4, <1>5, TypedUntil

LEMMA TakeNameTyped ==
  ASSUME NEW d \in Seq(Byte), NEW end, NEW S, NEW U, NEW r, Typed(r, S),
         \A s \in S, t \in Strings(50) : Append(s, t) \in U
  PROVE  Typed(TakeName(d, end, r), U)
  <1> DEFINE T == Strings(50)
             b == Blank(50)
             f == DecodeString(d, r.next, 50)
  <1>1. r.next \in Nat
    BY TypedNext
  <1>2. Typed(f, T)
    BY <1>1, StringTyped
  <1>3. b \in T
    BY BlanksTyped
  <1>4. TakeName(d, end, r) = WithUntil(end, r, f, b)
    BY DEF TakeName
  <1>5. \A s \in S, t \in T : Append(s, t) \in U
    OBVIOUS
  <1> HIDE DEF T, b, f
  <1> QED
    BY <1>2, <1>3, <1>4, <1>5, TypedUntil

LEMMA TakeValidityTyped ==
  ASSUME NEW d \in Seq(Byte), NEW end, NEW S, NEW U, NEW r, Typed(r, S),
         \A s \in S, t \in Validity : Append(s, t) \in U
  PROVE  Typed(TakeValidity(d, end, r), U)
  <1> DEFINE T == Validity
             b == BlankValidity
             f == DerToValidity(d, r.next)
  <1>1. r.next \in Nat
    BY TypedNext
  <1>2. Typed(f, T)
    BY <1>1, ValidityTyped
  <1>3. b \in T
    BY BlanksTyped
  <1>4. TakeValidity(d, end, r) = WithUntil(end, r, f, b)
    BY DEF TakeValidity
  <1>5. \A s \in S, t \in T : Append(s, t) \in U
    OBVIOUS
  <1> HIDE DEF T, b, f
  <1> QED
    BY <1>2, <1>3, <1>4, <1>5, TypedUntil

LEMMA TakeKeyInfoTyped ==
  ASSUME NEW d \in Seq(Byte), NEW end, NEW S, NEW U, NEW r, Typed(r, S),
         \A s \in S, t \in ShortKeyInfo : Append(s, t) \in U
  PROVE  Typed(TakeKeyInfo(d, end, r), U)
  <1> DEFINE T == ShortKeyInfo
             b == BlankKeyInfo
             f == DerToKeyInfo(d, r.next)
  <1>1. r.next \in Nat
    BY TypedNext
  <1>2. Typed(f, T)
    BY <1>1, ShortKeyInfoTyped
  <1>3. b \in T
    BY BlanksTyped
  <1>4. TakeKeyInfo(d, end, r) = WithUntil(end, r, f, b)
    BY DEF TakeKeyInfo
  <1>5. \A s \in S, t \in T : Append(s, t) \in U
    OBVIOUS
  <1> HIDE DEF T, b, f
  <1> QED
    BY <1>2, <1>3, <1>4, <1>5, TypedUntil

LEMMA TakeNumberTyped ==
  ASSUME NEW d \in Seq(Byte), NEW end, NEW S, NEW U, NEW r, Typed(r, S),
         \A s \in S, t \in ShortNumbers : Append(s, t) \in U
  PROVE  Typed(TakeNumber(d, end, r), U)
  <1> DEFINE T == ShortNumbers
             b == <<>>
             f == DecodeBignum(d, r.next)
  <1>1. r.next \in Nat
    BY TypedNext
  <1>2. Typed(f, T)
    BY <1>1, BignumTyped
  <1>3. b \in T
    BY BlanksTyped
  <1>4. TakeNumber(d, end, r) = WithUntil(end, r, f, b)
    BY DEF TakeNumber
  <1>5. \A s \in S, t \in T : Append(s, t) \in U
    OBVIOUS
  <1> HIDE DEF T, b, f
  <1> QED
    BY <1>2, <1>3, <1>4, <1>5, TypedUntil

LEMMA ShortTBSTyped ==
  ASSUME NEW d \in Seq(Byte), NEW at \in Nat
  PROVE  Typed(DerTBSToAsn1(d, at), ShortTBS)
  <1> DEFINE opened == Opened(d, at)
             end == opened.next + opened.value
             r0 == Fresh(opened)
             r1 == TakeInt(d, end, r0)
             r2 == TakeInt(d, end, r1)
             r3 == TakeInt(d, end, r2)
             r4 == TakeName(d, end, r3)
             r5 == TakeValidity(d, end, r4)
             r6 == TakeName(d, end, r5)
             r7 == TakeKeyInfo(d, end, r6)
             S0 == {<<>>}
             S1 == One(IntValue)
             S2 == Tuples2(IntValue, IntValue)
             S3 == Tuples3(IntValue, IntValue, IntValue)
             S4 == Tuples4(IntValue, IntValue, IntValue, Strings(50))
             S5 == Tuples5(IntValue, IntValue, IntValue, Strings(50), Validity)
             S6 == Tuples6(IntValue, IntValue, IntValue, Strings(50), Validity, Strings(50))
             S7 == Tuples7(IntValue, IntValue, IntValue, Strings(50), Validity, Strings(50), ShortKeyInfo)
  <1>1. DerTBSToAsn1(d, at) = UsedUp(r7, end)
    BY DEF DerTBSToAsn1
  <1>2. Typed(r0, S0)
    BY OpenedTyped
  <1> HIDE DEF r0, end
  <1>3. Typed(r1, S1)
    <2>1. Grows(S0, IntValue, S1)
      BY OneMore DEF Grows
    <2> HIDE DEF S0, S1
    <2> QED
      BY <1>2, <2>1, TakeIntTyped DEF Grows
  <1> HIDE DEF r1
  <1>4. Typed(r2, S2)
    <2>1. Grows(S1, IntValue, S2)
      BY OneMore DEF Grows, Tuples2
    <2> HIDE DEF S1, S2
    <2> QED
      BY <1>3, <2>1, TakeIntTyped DEF Grows
  <1> HIDE DEF r2
  <1>5. Typed(r3, S3)
    <2>1. Grows(S2, IntValue, S3)
      BY Grown3
    <2> HIDE DEF S2, S3
    <2> QED
      BY <1>4, <2>1, TakeIntTyped DEF Grows
  <1> HIDE DEF r3
  <1>6. Typed(r4, S4)
    <2>1. Grows(S3, Strings(50), S4)
      BY Grown4
    <2> HIDE DEF S3, S4
    <2> QED
      BY <1>5, <2>1, TakeNameTyped DEF Grows
  <1> HIDE DEF r4
  <1>7. Typed(r5, S5)
    <2>1. Grows(S4, Validity, S5)
      BY Grown5
    <2> HIDE DEF S4, S5
    <2> QED
      BY <1>6, <2>1, TakeValidityTyped DEF Grows
  <1> HIDE DEF r5
  <1>8. Typed(r6, S6)
    <2>1. Grows(S5, Strings(50), S6)
      BY Grown6
    <2> HIDE DEF S5, S6
    <2> QED
      BY <1>7, <2>1, TakeNameTyped DEF Grows
  <1> HIDE DEF r6
  <1>9. Typed(r7, S7)
    <2>1. Grows(S6, ShortKeyInfo, S7)
      BY Grown7
    <2> HIDE DEF S6, S7
    <2> QED
      BY <1>8, <2>1, TakeKeyInfoTyped DEF Grows
  <1> HIDE DEF r7
  <1>10. S7 = ShortTBS
    BY DEF ShortTBS, Tuples7
  <1> HIDE DEF S7
  <1> QED
    BY <1>1, <1>9, <1>10, TypedUsedUp

LEMMA TakeTBSTyped ==
  ASSUME NEW d \in Seq(Byte), NEW end, NEW S, NEW U, NEW r, Typed(r, S),
         \A s \in S, t \in ShortTBS : Append(s, t) \in U
  PROVE  Typed(TakeTBS(d, end, r), U)
  <1> DEFINE T == ShortTBS
             b == BlankTBS
             f == DerTBSToAsn1(d, r.next)
  <1>1. r.next \in Nat
    BY TypedNext
  <1>2. Typed(f, T)
    BY <1>1, ShortTBSTyped
  <1>3. b \in T
    BY BlanksTyped
  <1>4. TakeTBS(d, end, r) = WithUntil(end, r, f, b)
    BY DEF TakeTBS
  <1>5. \A s \in S, t \in T : Append(s, t) \in U
    OBVIOUS
  <1> HIDE DEF T, b, f
  <1> QED
    BY <1>2, <1>3, <1>4, <1>5, TypedUntil

LEMMA ShortCertificateTyped ==
  ASSUME NEW d \in Seq(Byte), NEW at \in Nat
  PROVE  Typed(DerToAsn1(d, at), ShortCertificate)
  <1> DEFINE opened == Opened(d, at)
             end == Len(d) + 1
             r0 == Fresh(opened)
             r1 == TakeTBS(d, end, r0)
             r2 == TakeInt(d, end, r1)
             r3 == TakeNumber(d, end, r2)
             S0 == {<<>>}
             S1 == One(ShortTBS)
             S2 == Tuples2(ShortTBS, IntValue)
             S3 == Tuples3(ShortTBS, IntValue, ShortNumbers)
  <1>1. DerToAsn1(d, at) = Exit \/ DerToAsn1(d, at) = UsedUp(r3, end)
    BY DEF DerToAsn1
  <1>2. Typed(r0, S0)
    BY OpenedTyped
  <1> HIDE DEF r0, end
  <1>3. Typed(r1, S1)
    <2>1. Grows(S0, ShortTBS, S1)
      BY OneMore DEF Grows
    <2> HIDE DEF S0, S1
    <2> QED
      BY <1>2, <2>1, TakeTBSTyped DEF Grows
  <1> HIDE DEF r1
  <1>4. Typed(r2, S2)
    <2>1. Grows(S1, IntValue, S2)
      BY OneMore DEF Grows, Tuples2
    <2> HIDE DEF S1, S2
    <2> QED
      BY <1>3, <2>1, TakeIntTyped DEF Grows
  <1> HIDE DEF r2
  <1>5. Typed(r3, S3)
    <2>1. Grows(S2, ShortNumbers, S3)
      BY Grown3
    <2> HIDE DEF S2, S3
    <2> QED
      BY <1>4, <2>1, TakeNumberTyped DEF Grows
  <1> HIDE DEF r3
  <1>6. S3 = ShortCertificate
    BY DEF ShortCertificate, Tuples3
  <1> HIDE DEF S3
  <1> QED
    BY <1>1, <1>5, <1>6, TypedUsedUp, TypedExit

-----------------------------------------------------------------------------
(* sha.c: the blocks hold the message and its length.                      *)
LEMMA PaddedLong ==
  ASSUME NEW n \in Nat
  PROVE  LenPadded(n) \in Nat /\ LenPadded(n) >= n + 9
  BY SMT DEF LenPadded, BlockLen, LenBytes

LEMMA LengthBack ==
  ASSUME NEW b \in Nat, b < 16777216, b % 8 = 0
  PROVE  (((b \div 1) % 256) + 256 * ((b \div 256) % 256) + 65536 * ((b \div 65536) % 256)) \div 8 = b \div 8
  <1>1. b \div 65536 \in Nat /\ b \div 65536 < 256 /\ b \div 256 \in Nat /\ b \div 1 = b
    BY SMT
  <1>2. b = (b % 256) + 256 * (b \div 256) /\ (b \div 256) \div 256 = b \div 65536
    BY SMT
  <1>3. b \div 256 = ((b \div 256) % 256) + 256 * ((b \div 256) \div 256)
    BY <1>1, SMT
  <1>4. (b \div 65536) % 256 = b \div 65536
    BY <1>1, SMT
  <1> QED
    BY <1>1, <1>2, <1>3, <1>4, SMT

MaxBits == 16777216

LEMMA PadBack ==
  ASSUME NEW msg \in Seq(Byte), Len(msg) * 8 < MaxBits
  PROVE  Message(Sha256Pad(msg)) = msg
  <1> DEFINE n == Len(msg)
             m == n * 8
             l == LenPadded(n)
             units == <<1, 256, 65536, 16777216>>
             Length(i) == IF i > 3 THEN 0 ELSE (m \div units[i+1]) % 256
             Cell(i) == IF i > l - LenBytes THEN Length(l - i)
                        ELSE IF i <= n THEN msg[i]
                        ELSE IF i = n + 1 THEN 128 ELSE 0
             blocks == [i \in 1..l |-> Cell(i)]
  <1>1. Sha256Pad(msg) = blocks
    BY SMT DEF Sha256Pad
  <1>2. n \in Nat /\ l \in Nat /\ l >= n + 9
    BY PaddedLong
  <1>3. LenBytes = 8
    BY DEF LenBytes
  <1>4. Length(0) = (m \div 1) % 256 /\ Length(1) = (m \div 256) % 256
        /\ Length(2) = (m \div 65536) % 256
    BY SMT
  <1> HIDE DEF Length, l, n
  <1>5. /\ l \in 1..l /\ l - 1 \in 1..l /\ l - 2 \in 1..l
        /\ \A i \in 1..n : i \in 1..l /\ i <= l - 8
    BY <1>2
  <1>6. Cell(l) = Length(0) /\ Cell(l - 1) = Length(1) /\ Cell(l - 2) = Length(2)
    <2>1. l > l - 8 /\ l - 1 > l - 8 /\ l - 2 > l - 8 /\ l - l = 0 /\ l - (l - 1) = 1
          /\ l - (l - 2) = 2
      BY <1>2
    <2> QED
      BY <1>3, <2>1
  <1>7. \A i \in 1..n : Cell(i) = msg[i]
    BY <1>2, <1>3, <1>5
  <1> HIDE DEF Cell
  <1>8. Len(blocks) = l
    BY <1>2
  <1>9. /\ blocks[l] = Length(0) /\ blocks[l - 1] = Length(1) /\ blocks[l - 2] = Length(2)
        /\ \A i \in 1..n : blocks[i] = msg[i]
    BY <1>5, <1>6, <1>7
  <1> HIDE DEF blocks
  <1>10. (blocks[l] + 256 * blocks[l - 1] + 65536 * blocks[l - 2]) \div 8 = n
    <2>1. m \in Nat /\ m < 16777216 /\ m % 8 = 0 /\ m \div 8 = n
      BY <1>2, SMT DEF n, MaxBits
    <2> HIDE DEF m
    <2>2. (((m \div 1) % 256) + 256 * ((m \div 256) % 256) + 65536 * ((m \div 65536) % 256)) \div 8 = m \div 8
      BY <2>1, LengthBack, SMT
    <2> DEFINE a == (m \div 1) % 256
               b == (m \div 256) % 256
               c == (m \div 65536) % 256
    <2>3. (a + 256 * b + 65536 * c) \div 8 = n
      BY <2>1, <2>2, SMT
    <2>4. blocks[l] = a /\ blocks[l - 1] = b /\ blocks[l - 2] = c
      BY <1>4, <1>9, SMT
    <2>5. a \in Int /\ b \in Int /\ c \in Int
      BY <2>1, SMT
    <2> HIDE DEF a, b, c
    <2> QED
      BY <2>3, <2>4, <2>5, SMT
  <1>11. Message(blocks) = SubSeq(blocks, 1, n)
    <2> DEFINE k(j) == (blocks[j] + 256 * blocks[j - 1] + 65536 * blocks[j - 2]) \div 8
    <2>1. Message(blocks) = SubSeq(blocks, 1, k(Len(blocks)))
      BY SMT DEF Message
    <2>2. k(l) = n
      BY <1>10, SMT
    <2> HIDE DEF k
    <2> QED
      BY <1>8, <2>1, <2>2
  <1>12. SubSeq(blocks, 1, n) = msg
    <2> DEFINE s == SubSeq(blocks, 1, n)
    <2>1. s = [i \in 1..n |-> blocks[i]]
      BY <1>2, <1>8 
    <2>2. \A i \in 1..n : s[i] = msg[i]
      BY <1>9, <2>1
    <2>3. msg = [i \in 1..n |-> msg[i]]
      BY DEF n
    <2> QED
      BY <1>9, <2>1, <2>3
  <1> QED
    BY <1>1, <1>11, <1>12

-----------------------------------------------------------------------------
(* What is encoded and decoded, by the kind of the document                *)
LEMMA DocumentIs ==
  ASSUME NEW e \in Document
  PROVE  \/ e.kind = "public key" /\ e.value \in PublicKey
         \/ e.kind = "key pair" /\ e.value \in KeyPair
         \/ e.kind = "certificate" /\ e.value \in Certificate
  BY DEF Document

LEMMA EncodeIs ==
  ASSUME NEW e \in Document
  PROVE  Encode(e) \in Seq(Byte)
  <1>1. CASE e.kind = "public key" /\ e.value \in PublicKey
    <2>1. Encode(e) = PublicKeyToDER(e.value)
      BY <1>1 DEF Encode
    <2> QED
      BY <1>1, <2>1, PublicKeyLong
  <1>2. CASE e.kind = "key pair" /\ e.value \in KeyPair
    <2>1. Encode(e) = KeyPairToDER(e.value)
      BY <1>2 DEF Encode
    <2> QED
      BY <1>2, <2>1, KeyPairIs
  <1>3. CASE e.kind = "certificate" /\ e.value \in Certificate
    <2>1. Encode(e) = Asn1ToDER(e.value)
      BY <1>3 DEF Encode
    <2> QED
      BY <1>3, <2>1, Asn1Long
  <1> QED
    BY <1>1, <1>2, <1>3, DocumentIs

(* A document that is not changed is read as it was, or not at all.        *)
LEMMA DecodeBack ==
  ASSUME NEW e \in Document
  PROVE  /\ Short(e) => ~Failed(Decode(e.kind, Encode(e))) /\ Decode(e.kind, Encode(e)).value = e.value
         /\ ~Short(e) => Failed(Decode(e.kind, Encode(e)))
  <1> DEFINE v == e.value
             x == Encode(e)
             r == Decode(e.kind, x)
  <1>1. x \in Seq(Byte)
    BY EncodeIs
  <1>2. Part(x, 1, x)
    BY <1>1, PartWhole
  <1>3. ASSUME NEW n \in Nat \ {0}, r = Done(v, n)
        PROVE  ~Failed(r) /\ r.value = v
    <2> HIDE DEF r, v
    <2> QED
      BY <1>3, DoneIs
  <1>4. CASE e.kind = "public key" /\ v \in PublicKey
    <2>1. x = PublicKeyToDER(v) /\ r = DerToPublicKey(x, 1)
      BY <1>4 DEF Encode, Decode
    <2>2. Short(e) <=> Len(v[1]) < 256
      BY <1>4 DEF Short, NumbersOf
    <2>3. Len(v[1]) \in Nat /\ Len(x) \in Nat
      <3>1. Len(x) \in Nat
        BY <1>1
      <3>2. Len(v[1]) \in Nat
        BY <1>4, PublicKeyLong
      <3> QED
        BY <3>1, <3>2
    <2> HIDE DEF v, x, r
    <2>4. Part(x, 1, PublicKeyToDER(v)) /\ 1 \in Nat \ {0}
      BY <1>2, <2>1
    <2>5. /\ Len(v[1]) < 256 => DerToPublicKey(x, 1) = Done(v, 1 + Len(PublicKeyToDER(v)))
          /\ Len(v[1]) >= 256 => Failed(DerToPublicKey(x, 1))
      BY <1>1, <1>4, <2>4, PublicKeyAt
    <2>6. 1 + Len(PublicKeyToDER(v)) \in Nat \ {0}
      BY <2>1, <2>3
    <2>7. /\ Len(v[1]) < 256 => ~Failed(r) /\ r.value = v
          /\ ~(Len(v[1]) < 256) => Failed(r)
      BY <1>3, <2>1, <2>3, <2>5, <2>6
    <2> QED
      BY <2>2, <2>7 DEF v, x, r
  <1>5. CASE e.kind = "key pair" /\ v \in KeyPair
    <2> DEFINE c == Len(v[1][1]) < 256 /\ Len(v[2][1]) < 256 /\ Len(v[2][2]) < 256
    <2>1. x = KeyPairToDER(v) /\ r = DerToKeyPair(x, 1)
      BY <1>5 DEF Encode, Decode
    <2>2. Short(e) <=> c
      BY <1>5 DEF Short, NumbersOf
    <2>3. Len(x) \in Nat
      BY <1>1
    <2> HIDE DEF v, x, r
    <2>4. Part(x, 1, KeyPairToDER(v)) /\ 1 \in Nat \ {0}
      BY <1>2, <2>1
    <2>5. /\ c => DerToKeyPair(x, 1) = Done(v, 1 + Len(KeyPairToDER(v)))
          /\ ~c => Failed(DerToKeyPair(x, 1))
      BY <1>1, <1>5, <2>4, KeyPairAt
    <2>6. 1 + Len(KeyPairToDER(v)) \in Nat \ {0}
      BY <2>1, <2>3
    <2> HIDE DEF c
    <2>7. (c => ~Failed(r) /\ r.value = v) /\ (~c => Failed(r))
      BY <1>3, <2>1, <2>5, <2>6
    <2> QED
      BY <2>2, <2>7 DEF v, x, r
  <1>6. CASE e.kind = "certificate" /\ v \in Certificate
    <2> DEFINE c == Len(v[1][7][2][2]) < 256 /\ Len(v[3]) < 256
    <2>1. x = Asn1ToDER(v) /\ r = DerToAsn1(x, 1)
      BY <1>6 DEF Encode, Decode
    <2>2. Short(e) <=> c
      BY <1>6 DEF Short, NumbersOf
    <2>3. Len(x) \in Nat
      BY <1>1
    <2> HIDE DEF v, x, r
    <2>4. /\ c => DerToAsn1(x, 1) = Done(v, Len(x) + 1)
          /\ ~c => Failed(DerToAsn1(x, 1))
      BY <1>6, <2>1, Asn1Back
    <2>5. Len(x) + 1 \in Nat \ {0}
      BY <2>3
    <2> HIDE DEF c
    <2>6. (c => ~Failed(r) /\ r.value = v) /\ (~c => Failed(r))
      BY <1>3, <2>1, <2>4, <2>5
    <2> QED
      BY <2>2, <2>6 DEF v, x, r
  <1> HIDE DEF r, x
  <1>7. \/ e.kind = "public key" /\ v \in PublicKey
        \/ e.kind = "key pair" /\ v \in KeyPair
        \/ e.kind = "certificate" /\ v \in Certificate
    BY DocumentIs
  <1> HIDE DEF v
  <1> QED
    BY <1>4, <1>5, <1>6, <1>7 DEF v, r, x

(* The bytes of a TBS that was read give it back: no other has the same.   *)
LEMMA ShortTBSIs ==
  ASSUME NEW v \in ShortTBS
  PROVE  v \in TBS /\ Len(v[7][2][2]) < 256
  <1>1. v[7] \in ShortKeyInfo /\ v = <<v[1], v[2], v[3], v[4], v[5], v[6], v[7]>>
        /\ v[1] \in IntValue /\ v[2] \in IntValue /\ v[3] \in IntValue /\ v[4] \in Strings(50)
        /\ v[5] \in Validity /\ v[6] \in Strings(50)
    BY DEF ShortTBS
  <1>2. v[7][2] \in ShortCertifiedKey /\ v[7][1] \in IntValue /\ v[7] = <<v[7][1], v[7][2]>>
    BY <1>1 DEF ShortKeyInfo
  <1>3. v[7][2][2] \in ShortNumbers /\ v[7][2][1] \in IntValue
        /\ v[7][2] = <<v[7][2][1], v[7][2][2]>>
    BY <1>2 DEF ShortCertifiedKey
  <1>4. v[7][2][2] \in Numbers /\ Len(v[7][2][2]) < 256
    BY <1>3 DEF ShortNumbers
  <1>5. v[7][2] \in CertifiedKey
    BY <1>3, <1>4 DEF CertifiedKey
  <1>6. v[7] \in KeyInfo
    BY <1>2, <1>5 DEF KeyInfo
  <1>7. v \in TBS
    BY <1>1, <1>6 DEF TBS
  <1> QED
    BY <1>4, <1>7

LEMMA TBSOnce ==
  ASSUME NEW u \in ShortTBS, NEW v \in TBS, TBSToDER(u) = TBSToDER(v)
  PROVE  u = v
  <1> DEFINE x == TBSToDER(u)
             k == Len(u[7][2][2])
             l == Len(v[7][2][2])
  <1>1. u \in TBS /\ k < 256
    BY ShortTBSIs
  <1>2. x \in Seq(Byte) /\ Len(x) = k + 196 /\ k \in Nat
    BY <1>1, TBSEncoded, TBSSmall
  <1>3. Len(TBSToDER(v)) = l + 196 /\ l \in Nat
    BY TBSEncoded, TBSSmall
  <1>4. x = TBSToDER(v)
    OBVIOUS
  <1> HIDE DEF k, l, x
  <1>5. l = k
    BY <1>2, <1>3, <1>4
  <1>6. Part(x, 1, x) /\ 1 \in Nat \ {0} /\ Len(x) \in Nat
    BY <1>2, PartWhole
  <1>7. DerTBSToAsn1(x, 1) = Done(u, 1 + Len(x))
    <2>1. Part(x, 1, TBSToDER(u)) /\ Len(u[7][2][2]) < 256
      BY <1>1, <1>6 DEF x, k
    <2>2. DerTBSToAsn1(x, 1) = Done(u, 1 + Len(TBSToDER(u)))
      BY <1>1, <1>2, <1>6, <2>1, TBSAt
    <2> QED
      BY <2>2 DEF x
  <1>8. DerTBSToAsn1(x, 1) = Done(v, 1 + Len(x))
    <2>1. Part(x, 1, TBSToDER(v)) /\ Len(v[7][2][2]) < 256
      BY <1>1, <1>4, <1>5, <1>6 DEF l
    <2>2. DerTBSToAsn1(x, 1) = Done(v, 1 + Len(TBSToDER(v)))
      BY <1>2, <1>6, <2>1, TBSAt
    <2> QED
      BY <1>4, <2>2
  <1>9. 1 + Len(x) \in Nat \ {0}
    BY <1>6
  <1>10. Done(u, 1 + Len(x)).value = u /\ Done(v, 1 + Len(x)).value = v
    BY <1>9, DoneIs
  <1> QED
    BY <1>7, <1>8, <1>10

(* A TBS is short enough for its length to be held.                        *)
LEMMA TBSFits ==
  ASSUME NEW v \in TBS
  PROVE  TBSToDER(v) \in Seq(Byte) /\ Len(TBSToDER(v)) * 8 < MaxBits
  <1> DEFINE k == Len(v[7][2][2])
             x == TBSToDER(v)
  <1>1. x \in Seq(Byte) /\ Len(x) = k + 196 /\ k \in Nat /\ k <= MaxNumber
    BY TBSEncoded, TBSSmall
  <1> HIDE DEF k, x
  <1>2. Len(x) * 8 < MaxBits
    BY <1>1, SMT DEF MaxNumber, MaxBits
  <1> QED
    BY <1>1, <1>2 DEF x
-----------------------------------------------------------------------------
(* The document on its way: what is held is what was made of it.           *)
CodecInv ==
  /\ doc \in Document /\ der \in Seq(Byte) /\ changed \in BOOLEAN
  /\ stage \in {"saved", "der", "text", "read", "hashed"}
  /\ stage # "saved" /\ ~changed => der = Encode(doc)
  /\ stage \in {"text", "read", "hashed"} => text = Base64Encode(der)
  /\ stage \in {"read", "hashed"} => read = Decode(doc.kind, der)
  /\ stage = "hashed" =>
       doc.kind = "certificate" /\ ~Failed(read) /\ padded = Sha256Pad(TBSBytes(read.value))

LEMMA CodecInit == Init => CodecInv
  <1> SUFFICES ASSUME Init PROVE CodecInv
    OBVIOUS
  <1>1. doc \in Document
    BY DocsAssumption DEF Init
  <1>2. der \in Seq(Byte) /\ changed \in BOOLEAN /\ stage = "saved"
    <2>1. der = <<>> /\ changed = FALSE /\ stage = "saved"
      BY DEF Init
    <2>2. <<>> \in Seq(Byte)
      OBVIOUS
    <2> QED
      BY <2>1, <2>2
  <1> QED
    BY <1>1, <1>2 DEF CodecInv

LEMMA CodecStep == CodecInv /\ [Next]_vars => CodecInv'
  <1> SUFFICES ASSUME CodecInv, [Next]_vars PROVE CodecInv'
    OBVIOUS
  <1>1. CASE ToDER
    <2>1. der' = Encode(doc) /\ stage' = "der" /\ UNCHANGED <<doc, changed>>
      BY <1>1 DEF ToDER
    <2>2. Encode(doc) \in Seq(Byte) /\ doc \in Document /\ changed \in BOOLEAN
      BY EncodeIs DEF CodecInv
    <2>3. doc' \in Document /\ der' \in Seq(Byte) /\ changed' \in BOOLEAN /\ der' = Encode(doc')
      BY <2>1, <2>2
    <2> QED
      BY <2>1, <2>3 DEF CodecInv
  <1>2. CASE ToText
    <2>1. stage = "der" /\ stage' = "text" /\ text' = Base64Encode(der)
          /\ UNCHANGED <<doc, der, changed>>
      BY <1>2 DEF ToText
    <2> QED
      BY <2>1 DEF CodecInv
  <1>3. CASE Read
    <2>1. /\ stage = "text" /\ stage' = "read" /\ read' = Decode(doc.kind, Base64Decode(text))
          /\ UNCHANGED <<doc, der, text, changed>>
      BY <1>3 DEF Read
    <2>2. Base64Decode(text) = der
      BY <2>1, Base64Back DEF CodecInv
    <2>3. read' = Decode(doc.kind, der)
      BY <2>1, <2>2
    <2> QED
      BY <2>1, <2>3 DEF CodecInv
  <1>4. CASE HashTBS
    <2>1. /\ stage = "read" /\ doc.kind = "certificate" /\ ~Failed(read) /\ stage' = "hashed"
          /\ padded' = Sha256Pad(TBSBytes(read.value))
          /\ UNCHANGED <<doc, der, text, changed, read>>
      BY <1>4 DEF HashTBS
    <2> QED
      BY <2>1 DEF CodecInv
  <1>5. ASSUME NEW i \in 1..Len(der), NEW b \in Changes(der[i]), Change(i, b)
        PROVE  CodecInv'
    <2>1. stage = "der" /\ changed' = TRUE /\ der' = [der EXCEPT ![i] = b]
          /\ UNCHANGED <<stage, doc>>
      BY <1>5 DEF Change
    <2>2. der \in Seq(Byte)
      BY DEF CodecInv
    <2>3. der[i] \in Byte
      BY <2>2
    <2>4. b \in Byte
      BY <2>3, ChangesAssumption
    <2>5. der' \in Seq(Byte)
      BY <2>1, <2>2, <2>4
    <2> QED
      BY <2>1, <2>5 DEF CodecInv
  <1>6. CASE UNCHANGED vars
    BY <1>6 DEF vars, CodecInv
  <1> QED
    BY <1>1, <1>2, <1>3, <1>4, <1>5, <1>6 DEF Next

(* A document is at every moment what the steps before have made of it.    *)
THEOREM CodecInvariant == Spec => []CodecInv
  BY CodecInit, CodecStep, PTL DEF Spec

(* keystore.c, x509.c: a document whose numbers have less than 64 words is *)
(* read from its file as it was saved, whatever its numbers look like.     *)
THEOREM DocumentsAreKept == Spec => []KeptWhole
  <1>1. CodecInv => KeptWhole
    <2> SUFFICES ASSUME CodecInv, stage = "read", ~changed, Short(doc)
                 PROVE  ~Failed(read) /\ read.value = doc.value
      BY DEF KeptWhole
    <2>1. doc \in Document /\ read = Decode(doc.kind, Encode(doc))
      BY DEF CodecInv
    <2> QED
      BY <2>1, DecodeBack
  <1> QED
    BY CodecInit, CodecStep, <1>1, PTL DEF Spec

(* der.c: a document with a longer number, whose length byte has wrapped   *)
(* round, is refused by the readers of keystore.c and x509.c.              *)
THEOREM LongNumbersAreRefused == Spec => []WrappedRefused
  <1>1. CodecInv => WrappedRefused
    <2> SUFFICES ASSUME CodecInv, stage = "read", ~changed, ~Short(doc)
                 PROVE  Failed(read)
      BY DEF WrappedRefused
    <2>1. doc \in Document /\ read = Decode(doc.kind, Encode(doc))
      BY DEF CodecInv
    <2> QED
      BY <2>1, DecodeBack
  <1> QED
    BY CodecInit, CodecStep, <1>1, PTL DEF Spec

(* What a reader of a certificate has is a certificate with short numbers. *)
LEMMA HashedIs ==
  ASSUME CodecInv, stage = "hashed"
  PROVE  /\ read.value[1] \in ShortTBS /\ read.value[1] \in TBS
         /\ padded = Sha256Pad(TBSToDER(read.value[1]))
         /\ Message(padded) = TBSToDER(read.value[1])
         /\ doc.value \in Certificate
  <1>1. /\ doc \in Document /\ doc.kind = "certificate" /\ der \in Seq(Byte)
        /\ read = Decode(doc.kind, der)
        /\ ~Failed(read) /\ padded = Sha256Pad(TBSBytes(read.value))
    BY DEF CodecInv
  <1>2. read = DerToAsn1(der, 1)
    BY <1>1 DEF Decode
  <1>3. Typed(read, ShortCertificate)
    BY <1>1, <1>2, ShortCertificateTyped
  <1>4. read.value \in ShortCertificate
    BY <1>1, <1>3 DEF Typed
  <1>5. read.value[1] \in ShortTBS
    BY <1>4 DEF ShortCertificate
  <1>6. read.value[1] \in TBS
    BY <1>5, ShortTBSIs
  <1>7. padded = Sha256Pad(TBSToDER(read.value[1]))
    BY <1>1 DEF TBSBytes
  <1>8. Message(padded) = TBSToDER(read.value[1])
    BY <1>6, <1>7, TBSFits, PadBack
  <1>9. doc.value \in Certificate
    BY <1>1, DocumentIs
  <1> QED
    BY <1>5, <1>6, <1>7, <1>8, <1>9

(* sha.c: the blocks that checkSignature hashes show the whole TBS it has  *)
(* read, whatever byte of the certificate was changed.                     *)
THEOREM HashesShowTheWhole == Spec => []HashedWhole
  <1>1. CodecInv => HashedWhole
    BY HashedIs DEF HashedWhole, TBSBytes
  <1> QED
    BY CodecInit, CodecStep, <1>1, PTL DEF Spec

(* x509.c: when checkSignature hashes the blocks that were signed, the TBS *)
(* it has read is the TBS that was signed, whatever byte was changed.      *)
THEOREM SignedIsWhatIsRead == Spec => []SignedIsRead
  <1>1. CodecInv => SignedIsRead
    <2> SUFFICES ASSUME CodecInv, stage = "hashed", padded = Sha256Pad(TBSBytes(doc.value))
                 PROVE  read.value[1] = doc.value[1]
      BY DEF SignedIsRead
    <2> DEFINE u == read.value[1]
               v == doc.value[1]
    <2>1. u \in ShortTBS /\ Message(padded) = TBSToDER(u) /\ doc.value \in Certificate
      BY HashedIs
    <2>2. v \in TBS
      BY <2>1, CertificateIs
    <2>3. padded = Sha256Pad(TBSToDER(v))
      BY DEF TBSBytes
    <2> HIDE DEF u, v
    <2>4. Message(padded) = TBSToDER(v)
      BY <2>2, <2>3, TBSFits, PadBack
    <2>5. u = v
      BY <2>1, <2>2, <2>4, TBSOnce
    <2> QED
      BY <2>5 DEF u, v
  <1> QED
    BY CodecInit, CodecStep, <1>1, PTL DEF Spec
=============================================================================
