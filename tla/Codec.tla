-------------------------------- MODULE Codec --------------------------------
(***************************************************************************)
(* A document on its way to a file and back: its DER, one byte of which    *)
(* may be changed while the file is handed over, the base64 of it, what a  *)
(* reader makes of that, and what of a certificate is then hashed.         *)
(* PemFile takes a block of a file for what this module shows the encoding *)
(* to be.                                                                  *)
(***************************************************************************)
EXTENDS Der, Sha

CONSTANTS Docs,      \* documents: a kind, and a value of that kind
          Changes(_), \* what a byte may be changed to
          MaxChanged \* bound: longer documents are not changed

(* What the documents hold.  Numbers beyond 2048 bytes fit no buffer of    *)
(* the encoders; a name has 50 bytes, a time 14.                           *)
MaxInt == 2147483647
IntValue == (-MaxInt - 1)..MaxInt
MaxNumber == 2048
Numbers == {x \in Seq(Byte) : Len(x) % 4 = 0 /\ Len(x) <= MaxNumber}
Strings(size) == [1..size -> Byte]
PublicKey == Numbers \X IntValue
PrivateKey == Numbers \X Numbers
KeyPair == PublicKey \X PrivateKey
Validity == Strings(14) \X Strings(14)
CertifiedKey == IntValue \X Numbers
KeyInfo == IntValue \X CertifiedKey
TBS == IntValue \X IntValue \X IntValue \X Strings(50) \X Validity \X Strings(50) \X KeyInfo
Certificate == TBS \X IntValue \X Numbers
Document ==
  [kind : {"public key"}, value : PublicKey] \cup [kind : {"key pair"}, value : KeyPair]
    \cup [kind : {"certificate"}, value : Certificate]

ASSUME DocsAssumption == \A d \in Docs : d \in Document
ASSUME ChangesAssumption == \A b \in Byte : Changes(b) \subseteq Byte

(* keystore.c and x509.c: what is written and read for each kind           *)
Encode(d) ==
  CASE d.kind = "public key" -> PublicKeyToDER(d.value)
    [] d.kind = "key pair" -> KeyPairToDER(d.value)
    [] d.kind = "certificate" -> Asn1ToDER(d.value)
Decode(kind, bytes) ==
  CASE kind = "public key" -> DerToPublicKey(bytes, 1)
    [] kind = "key pair" -> DerToKeyPair(bytes, 1)
    [] kind = "certificate" -> DerToAsn1(bytes, 1)

VARIABLES stage,   \* where the document is
          doc,     \* what was saved
          der, text,
          changed, \* one byte of der is not what was saved
          read,    \* what the reader has, or Exit
          padded   \* what checkSignature hashes, filled up
vars == <<stage, doc, der, text, changed, read, padded>>

Init ==
  /\ stage = "saved" /\ doc \in Docs
  /\ der = <<>> /\ text = <<>> /\ changed = FALSE /\ read = Exit /\ padded = <<>>

ToDER ==
  /\ stage = "saved" /\ stage' = "der"
  /\ der' = Encode(doc)
  /\ UNCHANGED <<doc, text, changed, read, padded>>

Change(i, b) ==
  /\ stage = "der" /\ ~changed /\ Len(der) <= MaxChanged
  /\ changed' = TRUE
  /\ der' = [der EXCEPT ![i] = b] /\ der' # der
  /\ UNCHANGED <<stage, doc, text, read, padded>>

ToText ==
  /\ stage = "der" /\ stage' = "text"
  /\ text' = Base64Encode(der)
  /\ UNCHANGED <<doc, der, changed, read, padded>>

Read ==
  /\ stage = "text" /\ stage' = "read"
  /\ read' = Decode(doc.kind, Base64Decode(text))
  /\ UNCHANGED <<doc, der, text, changed, padded>>

(* checkSignature exits on another algorithm; it encodes the TBS again and *)
(* hashes it.                                                              *)
rsa_pkcs1_sha256 == 1025
TBSBytes(certif) == TBSToDER(certif[1])
HashTBS ==
  /\ stage = "read" /\ doc.kind = "certificate" /\ ~Failed(read)
  /\ read.value[2] = rsa_pkcs1_sha256
  /\ stage' = "hashed"
  /\ padded' = Sha256Pad(TBSBytes(read.value))
  /\ UNCHANGED <<doc, der, text, changed, read>>

Next == ToDER \/ ToText \/ Read \/ HashTBS \/ \E i \in 1..Len(der) : \E b \in Changes(der[i]) : Change(i, b)
Spec == Init /\ [][Next]_vars
-----------------------------------------------------------------------------
NumbersOf(d) ==
  CASE d.kind = "public key" -> {d.value[1]}
    [] d.kind = "key pair" -> {d.value[1][1], d.value[2][1], d.value[2][2]}
    [] d.kind = "certificate" -> {d.value[1][7][2][2], d.value[3]}
Short(d) == \A x \in NumbersOf(d) : Len(x) < 256

(* A document whose numbers have less than 64 words is read as it was      *)
(* saved, byte for byte, whatever its numbers look like.                   *)
KeptWhole ==
  stage = "read" /\ ~changed /\ Short(doc) => ~Failed(read) /\ read.value = doc.value

(* A longer number, whose length byte has wrapped round, never passes for  *)
(* a shorter one: the reader exits.                                        *)
WrappedRefused == stage = "read" /\ ~changed /\ ~Short(doc) => Failed(read)

(* Whatever byte of a certificate was changed, a reader that comes to hash *)
(* what was signed has the TBS that was signed: no change of a label, a    *)
(* length or a field gives another reading of the signed bytes.            *)
SignedIsRead ==
  stage = "hashed" /\ padded = Sha256Pad(TBSBytes(doc.value)) => read.value[1] = doc.value[1]

(* The message in blocks filled up for the hash, by the length at the end  *)
Message(blocks) ==
  LET n == Len(blocks)
  IN  SubSeq(blocks, 1, (blocks[n] + 256 * blocks[n-1] + 65536 * blocks[n-2]) \div 8)

(* What is hashed shows the TBS whole, even where its length just fits     *)
(* into the last block: no two are filled up to the same.                  *)
HashedWhole == stage = "hashed" => Message(padded) = TBSBytes(read.value)
=============================================================================
