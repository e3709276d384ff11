------------------------------- MODULE MCCodec -------------------------------
EXTENDS Codec

Number(words, first) == first \o [i \in 1..4*words - 4 |-> (37 * i) % 256]
Firsts == {<<0, 0, 0, 1>>, <<2, 4, 0, 1>>, <<3, 4, 2, 4>>}
Exponents == {65537, -1}

PublicKeys(words) ==
  {[kind |-> "public key", value |-> <<Number(w, f), e>>] :
     w \in words, f \in Firsts, e \in Exponents}
KeyPairs(words) ==
  {[kind |-> "key pair",
    value |-> <<<<Number(2*w, <<128, 0, 0, 0>>), 65537>>, <<Number(w, f), Number(w, g)>>>>] :
     w \in words, f \in Firsts, g \in Firsts}

Letters(n, size) == [i \in 1..size |-> IF i <= n THEN 97 ELSE 0]
Time == [i \in 1..14 |-> IF i = 14 THEN 0 ELSE IF i = 13 THEN 90 ELSE 48]
Certificates(words, signature) ==
  {[kind |-> "certificate",
    value |-> <<<<2, 0, 1025, Letters(n, 50), <<Time, Time>>, Letters(50 - n, 50),
                  <<1025, <<65537, Number(w, f)>>>>>>, 1025, s>>] :
     n \in {6, 50}, w \in words, f \in {<<2, 4, 0, 1>>, <<128, 0, 0, 0>>}, s \in signature}

(* Unsigned certificates whose TBS end shortly before, at and after the    *)
(* place where the length still fits into the last block                   *)
Lengthened ==
  {[kind |-> "certificate",
    value |-> <<<<2, 0, 1025, Letters(6, 50), <<Time, Time>>, Letters(6, 50),
                  <<1025, <<65537, Number(w, <<2, 4, 0, 1>>)>>>>>>, 1025, <<>>>>] :
     w \in 11..16}

(* An issuer which, once its length is changed to 0, reads as the fields    *)
(* behind it: two empty times, an empty subject, and a key whose number is *)
(* all the rest                                                            *)
Disguise ==
  <<48, 2, 4, 0, 0, 0, 4, 12, 0, 12, 0>> \o <<12, 0>>
    \o <<48, 2, 4, 0, 0, 0, 153, 2, 4, 0, 0, 4, 1>>
    \o <<48, 2, 4, 0, 0, 0, 140, 2, 4, 0, 1, 0, 1, 3, 132>> \o [i \in 1..9 |-> 0]
Disguised ==
  {[kind |-> "certificate",
    value |-> <<<<2, 0, 1025, Disguise, <<Time, Time>>, Letters(6, 50),
                  <<1025, <<65537, Number(1, <<2, 4, 0, 1>>)>>>>>>, 1025, <<>>>>]}

(* Keys of 1 to 128 words; signed and unsigned certificates *)
SomeDocs ==
  PublicKeys({1, 2, 16, 63, 64, 65, 128}) \cup KeyPairs({1, 8, 31, 32, 64})
    \cup Certificates({1, 16, 64}, {<<>>, Number(1, <<0, 0, 0, 9>>), Number(16, <<2, 4, 0, 1>>)})
    \cup Lengthened \cup Disguised

(* Small steps away, the ends of a byte, and other labels *)
Nearby(b) ==
  {(b + 1) % 256, (b + 255) % 256, (b + 4) % 256, (b + 252) % 256, 0, 128, DER_BITSTRING}
=============================================================================
