--------------------------------- MODULE Der ---------------------------------
(***************************************************************************)
(* der.c, and the way keystore.c and x509.c nest its elements.  A big      *)
(* number is the sequence of its bytes, four to a word, from the most      *)
(* significant; a key, a TBS or a certificate is the tuple of its fields.  *)
(* Operators whose names end in Mutant are plausible slips of the          *)
(* definition after them; no specification uses them.                      *)
(***************************************************************************)
EXTENDS Base64

DER_INTEGER == 2
DER_BITSTRING == 3
DER_UTF8STRING == 12
DER_SEQUENCE == 48

(* One byte holds the length of a bignum or a string, four an int. *)
IntBytesMutant(v) == <<0, (v \div 65536) % 256, (v \div 256) % 256, v % 256>> \* three of the bytes
IntBytes(v) == <<(v \div 16777216) % 256, (v \div 65536) % 256, (v \div 256) % 256, v % 256>>
EncodeInt(v) == <<DER_INTEGER, 4>> \o IntBytes(v)
EncodeBignum(v) == <<DER_BITSTRING, Len(v) % 256>> \o v
EncodeString(v) == <<DER_UTF8STRING, Len(v) % 256>> \o v
EncodeSequence(fields) == <<DER_SEQUENCE>> \o EncodeInt(Len(fields)) \o fields

PublicKeyToDER(v) == EncodeSequence(EncodeBignum(v[1]) \o EncodeInt(v[2]))
PrivateKeyToDER(v) == EncodeSequence(EncodeBignum(v[1]) \o EncodeBignum(v[2]))
KeyPairToDER(v) == EncodeSequence(PublicKeyToDER(v[1]) \o PrivateKeyToDER(v[2]))
ValidityToDER(v) == EncodeSequence(EncodeString(v[1]) \o EncodeString(v[2]))
CertifiedKeyToDER(v) == EncodeSequence(EncodeInt(v[1]) \o EncodeBignum(v[2]))
KeyInfoToDER(v) == EncodeSequence(EncodeInt(v[1]) \o CertifiedKeyToDER(v[2]))
TBSToDER(v) ==
  EncodeSequence(EncodeInt(v[1]) \o EncodeInt(v[2]) \o EncodeInt(v[3]) \o EncodeString(v[4])
                 \o ValidityToDER(v[5]) \o EncodeString(v[6]) \o KeyInfoToDER(v[7]))
Asn1ToDER(v) == EncodeSequence(TBSToDER(v[1]) \o EncodeInt(v[2]) \o EncodeBignum(v[3]))

(* Reading: at is the index of the next byte, counted from 1; Exit is the  *)
(* end of the process.                                                     *)
Exit == [next |-> 0, value |-> <<>>]
Done(value, next) == [next |-> next, value |-> value]
Failed(r) == r.next = 0

Signed(b) == IF b < 128 THEN b ELSE b - 256
DecodeInt(der, at) ==
  IF at + 5 > Len(der) \/ der[at] # DER_INTEGER \/ der[at+1] # 4 THEN Exit
  ELSE Done(Signed(der[at+2]) * 16777216 + der[at+3] * 65536 + der[at+4] * 256 + der[at+5], at + 6)

(* The label, a length byte and that many bytes; a bignum's bytes after    *)
(* its last whole word are passed over.                                    *)
DecodeBytes(der, at, label, max, unit) ==
  IF at + 1 > Len(der) \/ der[at] # label \/ at + 1 + der[at+1] > Len(der) \/ der[at+1] > max
  THEN Exit
  ELSE Done(SubSeq(der, at + 2, at + 1 + unit * (der[at+1] \div unit)), at + 2 + der[at+1])

(* A string's field is cleared before the bytes are copied to it. *)
Padded(r, size) ==
  IF Failed(r) THEN Exit
  ELSE [r EXCEPT !.value = @ \o [i \in 1..size - Len(@) |-> 0]]

DecodeBignum(der, at) == DecodeBytes(der, at, DER_BITSTRING, 255, 4)
DecodeString(der, at, size) == Padded(DecodeBytes(der, at, DER_UTF8STRING, size, 1), size)

(* The length that a sequence declares.  Its fields are read one after the *)
(* other, each from where the one before it ends.                          *)
Opened(der, at) ==
  IF at > Len(der) \/ der[at] # DER_SEQUENCE THEN Exit ELSE DecodeInt(der, at + 1)
Fresh(opened) == IF Failed(opened) THEN Exit ELSE Done(<<>>, opened.next)
With(r, field) ==
  IF Failed(r) \/ Failed(field) THEN Exit ELSE Done(Append(r.value, field.value), field.next)

(* Most readers read every field and then compare the length ...           *)
ClosedMutant(r, opened) == r \* the length is not compared
Closed(r, opened) == IF Failed(r) \/ r.next - opened.next # opened.value THEN Exit ELSE r

(* ... those of certificates and their TBS take fields in turn until the   *)
(* length is used up, and leave the others blank: a byte that is left      *)
(* after the last field is an error.                                       *)
WithUntil(end, r, field, blank) ==
  IF ~Failed(r) /\ r.next >= end THEN With(r, Done(blank, r.next)) ELSE With(r, field)
UsedUp(r, end) == IF Failed(r) \/ r.next < end THEN Exit ELSE r
Blank(size) == [i \in 1..size |-> 0]

DerToPublicKey(der, at) ==
  LET opened == Opened(der, at)
      n == With(Fresh(opened), DecodeBignum(der, opened.next))
      e == With(n, DecodeInt(der, n.next))
  IN  Closed(e, opened)
DerToPrivateKey(der, at) ==
  LET opened == Opened(der, at)
      p == With(Fresh(opened), DecodeBignum(der, opened.next))
      q == With(p, DecodeBignum(der, p.next))
  IN  Closed(q, opened)
DerToKeyPair(der, at) ==
  LET opened == Opened(der, at)
      public == With(Fresh(opened), DerToPublicKey(der, opened.next))
      private == With(public, DerToPrivateKey(der, public.next))
  IN  Closed(private, opened)

DerToValidity(der, at) ==
  LET opened == Opened(der, at)
      notBefore == With(Fresh(opened), DecodeString(der, opened.next, 14))
      notAfter == With(notBefore, DecodeString(der, notBefore.next, 14))
  IN  Closed(notAfter, opened)
DerToCertifiedKey(der, at) ==
  LET opened == Opened(der, at)
      e == With(Fresh(opened), DecodeInt(der, opened.next))
      n == With(e, DecodeBignum(der, e.next))
  IN  Closed(n, opened)
DerToKeyInfo(der, at) ==
  LET opened == Opened(der, at)
      algorithm == With(Fresh(opened), DecodeInt(der, opened.next))
      key == With(algorithm, DerToCertifiedKey(der, algorithm.next))
  IN  Closed(key, opened)
BlankValidity == <<Blank(14), Blank(14)>>
BlankKeyInfo == <<0, <<0, <<>>>>>>
BlankTBS == <<0, 0, 0, Blank(50), BlankValidity, Blank(50), BlankKeyInfo>>

TakeInt(der, end, r) == WithUntil(end, r, DecodeInt(der, r.next), 0)
TakeName(der, end, r) == WithUntil(end, r, DecodeString(der, r.next, 50), Blank(50))
TakeValidity(der, end, r) == WithUntil(end, r, DerToValidity(der, r.next), BlankValidity)
TakeKeyInfo(der, end, r) == WithUntil(end, r, DerToKeyInfo(der, r.next), BlankKeyInfo)

DerTBSToAsn1(der, at) ==
  LET opened == Opened(der, at)
      end == opened.next + opened.value
      version == TakeInt(der, end, Fresh(opened))
      serialNumber == TakeInt(der, end, version)
      signature == TakeInt(der, end, serialNumber)
      issuer == TakeName(der, end, signature)
      validity == TakeValidity(der, end, issuer)
      subject == TakeName(der, end, validity)
      keyInfo == TakeKeyInfo(der, end, subject)
  IN  UsedUp(keyInfo, end)

(* A certificate must end where the document does. *)
TakeTBS(der, end, r) == WithUntil(end, r, DerTBSToAsn1(der, r.next), BlankTBS)
TakeNumber(der, end, r) == WithUntil(end, r, DecodeBignum(der, r.next), <<>>)
DerToAsn1(der, at) ==
  LET opened == Opened(der, at)
      end == Len(der) + 1
      tbs == TakeTBS(der, end, Fresh(opened))
      algorithm == TakeInt(der, end, tbs)
      value == TakeNumber(der, end, algorithm)
  IN  IF Failed(opened) \/ opened.value # end - opened.next THEN Exit ELSE UsedUp(value, end)
=============================================================================
