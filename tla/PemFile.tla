------------------------------- MODULE PemFile -------------------------------
(***************************************************************************)
(* What the key store (keystore.c) and the certificate code (x509.c) leave *)
(* on disk, at the grain of the pieces a reader can tell apart.  A PEM     *)
(* file is a sequence of blocks; every block is a record with one field,   *)
(* whose name says which piece it is.  base64 is a bijection on whole DER  *)
(* documents (module Base64 checks that), so a block stands for the base64 *)
(* text of its DER elements.                                               *)
(***************************************************************************)
EXTENDS Integers, Sequences

CONSTANTS Key,       \* RSA keys: the identity of a generated pair
          Words,     \* Words[k]: lenN of k, in 32-bit words
          Char,      \* non-zero characters of names
          Nul,       \* the zero byte
          NameField, \* sizeof(tbsCertif.issuer) = sizeof(tbsCertif.subject)
          Century    \* YY keeps a date modulo one century

(* x509test.cpp:10: a signing key is larger than the 256-bit hash (8 words) *)
ASSUME WordsAssumption == Words \in [Key -> 9..128]
ASSUME CharAssumption == Nul \notin Char
ASSUME FieldAssumption == NameField \in Nat \ {0}
ASSUME CenturyAssumption == Century \in Nat \ {0}

Field == [1..NameField -> Char \cup {Nul}]
Zeros == [i \in 1..NameField |-> Nul]
StampMutant(t) == t \* tm_year printed without %100
Stamp(t) == t % Century

(* The fields of a TBS certificate that vary, up to the subject's key.     *)
CertHead == [issuer : Field, notBefore : 0..Century-1,
             notAfter : 0..Century-1, subject : Field]
TBS == [head : CertHead, spki : Key]
Signature == [by : Key, over : TBS]

Kind == {"certificate", "publicKey", "keyPair"}

(* A signature block holds one signature, or none: the zero-length bit     *)
(* string of an unsigned certificate.  Several stand for a number that a   *)
(* short write has put together from pieces of them.  What is cut          *)
(* elsewhere and reads as nothing is Broken.                               *)
Broken == [cut |-> TRUE]
Block == [begin : Kind] \cup [end : Kind] \cup [head : CertHead] \cup [spki : Key]
           \cup [sig : SUBSET Signature] \cup [pub : Key] \cup [priv : Key] \cup {Broken}

PublicKeyDoc(k) == <<[begin |-> "publicKey"], [pub |-> k], [end |-> "publicKey"]>>
KeyPairDoc(pub, priv) ==
  <<[begin |-> "keyPair"], [pub |-> pub], [priv |-> priv], [end |-> "keyPair"]>>
CertificateDoc(tbs, sig) ==
  <<[begin |-> "certificate"], [head |-> tbs.head], [spki |-> tbs.spki],
    [sig |-> sig], [end |-> "certificate"]>>

(* One byte holds the length of a DER bit string, so a number of 64 words  *)
(* or more is written with its length modulo 256 and no reader accepts it: *)
(* the bytes left over fail the next tag or the enclosing length.          *)
Fits(k) == (4 * Words[k]) % 256 = 4 * Words[k]

Is(block, name) == DOMAIN block = {name}

(* The readers match the header, find the footer and decode what is in     *)
(* between; whatever follows the footer is never looked at.                *)
Framed(file, kind, n) ==
  /\ Len(file) >= n
  /\ file[1] = [begin |-> kind]
  /\ file[n] = [end |-> kind]

IsPublicKey(file) ==
  Framed(file, "publicKey", 3) /\ Is(file[2], "pub") /\ Fits(file[2].pub)

IsKeyPairMutant(file) == \* nothing may follow the footer
  /\ Framed(file, "keyPair", 4) /\ Len(file) = 4
  /\ Is(file[2], "pub") /\ Fits(file[2].pub)
  /\ Is(file[3], "priv")

IsKeyPair(file) ==
  /\ Framed(file, "keyPair", 4)
  /\ Is(file[2], "pub") /\ Fits(file[2].pub)
  /\ Is(file[3], "priv")

IsCertificate(file) ==
  /\ Framed(file, "certificate", 5)
  /\ Is(file[2], "head")
  /\ Is(file[3], "spki") /\ Fits(file[3].spki)
  /\ Is(file[4], "sig") /\ \A s \in file[4].sig : Fits(s.by)

TBSOf(file) == [head |-> file[2].head, spki |-> file[3].spki]
SigOf(file) == file[4].sig

(* Operators whose names end in Mutant are plausible slips of the          *)
(* definition after them; no specification uses them.                      *)

(* write(2) at offset 0 of a file that another process may have extended   *)
(* since this one truncated it: the bytes past the new ones stay.          *)
OverlayMutant(new, old) == old \o new \* fopen(fname,"a")
Overlay(new, old) ==
  [i \in 1..(IF Len(new) >= Len(old) THEN Len(new) ELSE Len(old)) |->
     IF i <= Len(new) THEN new[i] ELSE old[i]]

(* What a write of new that is cut inside a block can leave where old has  *)
(* been: pieces of both.  The fields before the cut are new, those behind  *)
(* it old, and the one it is in reads as some name, date, key or number.   *)
Blended(S, new, old) == IF new = old THEN {new} ELSE S
BlendedHeads(new, old) ==
  LET names == Blended(Field, new.issuer, old.issuer)
      begins == Blended(0..Century-1, new.notBefore, old.notBefore)
      ends == Blended(0..Century-1, new.notAfter, old.notAfter)
      subjects == Blended(Field, new.subject, old.subject)
  IN  {[old EXCEPT !.issuer = x] : x \in names}
        \cup {[old EXCEPT !.issuer = new.issuer, !.notBefore = t] : t \in begins}
        \cup {[new EXCEPT !.subject = old.subject, !.notAfter = t] : t \in ends}
        \cup {[new EXCEPT !.subject = x] : x \in subjects}

BlendedBlocks(new, old) ==
  LET Both(name) == Is(new, name) /\ Is(old, name)
      Keys(name) == {k \in Key : Both(name)}
  IN  IF new = old THEN {new}
      ELSE {Broken}
             \cup {[pub |-> k] : k \in Keys("pub")} \cup {[priv |-> k] : k \in Keys("priv")}
             \cup {[spki |-> k] : k \in Keys("spki")}
             \cup (IF Both("head") THEN {[head |-> h] : h \in BlendedHeads(new.head, old.head)} ELSE {})
             \cup (IF Both("sig") THEN {[sig |-> new.sig \cup old.sig]} ELSE {})

(* write(2) has stored n blocks of new at offset 0, or a part of the next  *)
(* one too.  The blocks of old behind the cut are taken to be in place     *)
(* although those of another length are not, which readers find out.       *)
ShortOverlays(new, n, old) ==
  LET stored == SubSeq(new, 1, n)
      next == IF n < Len(old) THEN old[n+1] ELSE Broken
  IN  {Overlay(stored, old)}
        \cup {Overlay(Append(stored, b), old) : b \in BlendedBlocks(new[n+1], next)}
=============================================================================
