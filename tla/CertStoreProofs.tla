--------------------------- MODULE CertStoreProofs ---------------------------
(***************************************************************************)
(* Proofs about CertStore, for every value of its constants.  Types are    *)
(* proved first, together with Phase, which says what a process in the     *)
(* middle of a call holds; Traceable is added to make the invariant Core   *)
(* that Authentic and CompleteSaveKept rest on.  Then come what results    *)
(* mean, crashes and short writes included, and what holds while no write  *)
(* has been short.                                                         *)
(***************************************************************************)
EXTENDS CertStore, SequenceTheorems, TLAPS

(* A write over a file of blocks leaves a file of blocks.                  *)
LEMMA OverlayType ==
  ASSUME NEW S, NEW new \in Seq(S), NEW old \in Seq(S)
  PROVE  /\ Overlay(new, old) \in Seq(S)
         /\ Len(Overlay(new, old)) >= Len(new)
         /\ \A i \in 1..Len(new) : Overlay(new, old)[i] = new[i]
  <1> DEFINE n == IF Len(new) >= Len(old) THEN Len(new) ELSE Len(old)
  <1>1. n \in Nat /\ n >= Len(new)
    OBVIOUS
  <1>2. \A i \in 1..n : (IF i <= Len(new) THEN new[i] ELSE old[i]) \in S
    OBVIOUS
  <1>3. Overlay(new, old) \in [1..n -> S]
    BY <1>2 DEF Overlay
  <1>4. Overlay(new, old) \in Seq(S) /\ Len(Overlay(new, old)) = n
    BY <1>1, <1>3, SeqDef
  <1> QED
    BY <1>1, <1>4 DEF Overlay

(* Tuples of elements of S are sequences over S, as long as the documents  *)
(* are.                                                                    *)
LEMMA TupleTypes ==
  ASSUME NEW S, NEW a \in S, NEW b \in S, NEW c \in S, NEW d \in S, NEW e \in S
  PROVE  /\ <<a, b, c>> \in Seq(S)
         /\ <<a, b, c, d>> \in Seq(S)
         /\ <<a, b, c, d, e>> \in Seq(S)
  OBVIOUS

(* The pieces that documents are made of are blocks.                       *)
LEMMA BlockTypes ==
  /\ \A kind \in Kind : [begin |-> kind] \in Block /\ [end |-> kind] \in Block
  /\ \A k \in Key : [pub |-> k] \in Block /\ [priv |-> k] \in Block /\ [spki |-> k] \in Block
  /\ \A h \in CertHead : [head |-> h] \in Block
  /\ \A sig \in SUBSET Signature : [sig |-> sig] \in Block
  /\ Broken \in Block
  BY DEF Block

(* A block holds what its name says.                                       *)
LEMMA PartTypes ==
  ASSUME NEW b \in Block
  PROVE  /\ Is(b, "pub") => b.pub \in Key
         /\ Is(b, "priv") => b.priv \in Key
         /\ Is(b, "spki") => b.spki \in Key
         /\ Is(b, "head") => b.head \in CertHead
         /\ Is(b, "sig") => b.sig \in SUBSET Signature
  <1>1. CASE b = Broken
    <2>1. DOMAIN b = {"cut"}
      BY <1>1 DEF Broken
    <2> QED
      BY <2>1 DEF Is
  <1>2. CASE b # Broken
    BY <1>2 DEF Block, Is
  <1> QED
    BY <1>1, <1>2

(* The documents that the saves of keystore.c and x509.c write are         *)
(* sequences of blocks.                                                    *)
LEMMA DocTypes ==
  /\ \A k \in Key : PublicKeyDoc(k) \in Seq(Block)
  /\ \A k, j \in Key : KeyPairDoc(k, j) \in Seq(Block)
  /\ \A tbs \in TBS, sig \in SUBSET Signature : CertificateDoc(tbs, sig) \in Seq(Block)
  <1>1. "publicKey" \in Kind /\ "keyPair" \in Kind /\ "certificate" \in Kind
    BY DEF Kind
  <1>2. ASSUME NEW k \in Key PROVE PublicKeyDoc(k) \in Seq(Block)
    BY <1>1, BlockTypes, TupleTypes DEF PublicKeyDoc
  <1>3. ASSUME NEW k \in Key, NEW j \in Key PROVE KeyPairDoc(k, j) \in Seq(Block)
    BY <1>1, BlockTypes, TupleTypes DEF KeyPairDoc
  <1>4. ASSUME NEW tbs \in TBS, NEW sig \in SUBSET Signature
        PROVE  CertificateDoc(tbs, sig) \in Seq(Block)
    <2>1. tbs.head \in CertHead /\ tbs.spki \in Key
      BY DEF TBS
    <2> QED
      BY <1>1, <2>1, BlockTypes, TupleTypes DEF CertificateDoc
  <1> QED
    BY <1>2, <1>3, <1>4

(* What the readers' checks find in a file: a document that IsPublicKey,   *)
(* IsKeyPair or IsCertificate accepts holds keys, fields and signatures at *)
(* the places the readers take them from.                                  *)
LEMMA ReadTypes ==
  ASSUME NEW doc \in Seq(Block)
  PROVE  /\ IsPublicKey(doc) => doc[2].pub \in Key
         /\ IsKeyPair(doc) => doc[2].pub \in Key /\ doc[3].priv \in Key
         /\ IsCertificate(doc) => TBSOf(doc) \in TBS /\ SigOf(doc) \in SUBSET Signature
  <1>1. \A n \in 1..5 : Len(doc) >= n => doc[n] \in Block
    OBVIOUS
  <1> QED
    BY <1>1, PartTypes DEF IsPublicKey, IsKeyPair, IsCertificate, Framed, TBSOf, SigOf, TBS

-----------------------------------------------------------------------------
(* Short writes *)

(* A head put together from pieces of two heads is a head.                 *)
LEMMA BlendedHeadTypes ==
  ASSUME NEW new \in CertHead, NEW old \in CertHead
  PROVE  BlendedHeads(new, old) \subseteq CertHead
  <1> DEFINE names == Blended(Field, new.issuer, old.issuer)
             begins == Blended(0..Century-1, new.notBefore, old.notBefore)
             ends == Blended(0..Century-1, new.notAfter, old.notAfter)
             subjects == Blended(Field, new.subject, old.subject)
  <1>1. /\ names \subseteq Field /\ subjects \subseteq Field
        /\ begins \subseteq 0..Century-1 /\ ends \subseteq 0..Century-1
    BY DEF Blended, CertHead
  <1>2. BlendedHeads(new, old) =
          {[old EXCEPT !.issuer = x] : x \in names}
            \cup {[old EXCEPT !.issuer = new.issuer, !.notBefore = t] : t \in begins}
            \cup {[new EXCEPT !.subject = old.subject, !.notAfter = t] : t \in ends}
            \cup {[new EXCEPT !.subject = x] : x \in subjects}
    BY DEF BlendedHeads
  <1> HIDE DEF names, begins, ends, subjects
  <1>3. \A x \in names : [old EXCEPT !.issuer = x] \in CertHead
    BY <1>1 DEF CertHead
  <1>4. \A t \in begins : [old EXCEPT !.issuer = new.issuer, !.notBefore = t] \in CertHead
    BY <1>1 DEF CertHead
  <1>5. \A t \in ends : [new EXCEPT !.subject = old.subject, !.notAfter = t] \in CertHead
    BY <1>1 DEF CertHead
  <1>6. \A x \in subjects : [new EXCEPT !.subject = x] \in CertHead
    BY <1>1 DEF CertHead
  <1> QED
    BY <1>2, <1>3, <1>4, <1>5, <1>6

(* A block that a write was cut in is a block, and has signatures of its   *)
(* two pieces only.                                                        *)
LEMMA BlendedTypes ==
  ASSUME NEW new \in Block, NEW old \in Block, NEW b \in BlendedBlocks(new, old)
  PROVE  /\ b \in Block
         /\ Is(b, "sig") => \/ b = new
                            \/ Is(new, "sig") /\ Is(old, "sig") /\ b.sig = new.sig \cup old.sig
  <1>1. CASE new = old
    BY <1>1 DEF BlendedBlocks
  <1>2. CASE b = Broken
    BY <1>2, BlockTypes DEF Broken, Is
  <1>3. CASE \E k \in Key : b \in {[pub |-> k], [priv |-> k], [spki |-> k]}
    BY <1>3, BlockTypes DEF Is
  <1>4. CASE Is(new, "head") /\ Is(old, "head")
             /\ \E h \in BlendedHeads(new.head, old.head) : b = [head |-> h]
    <2>1. new.head \in CertHead /\ old.head \in CertHead
      BY <1>4, PartTypes
    <2> QED
      BY <1>4, <2>1, BlendedHeadTypes, BlockTypes DEF Is
  <1>5. CASE Is(new, "sig") /\ Is(old, "sig") /\ b = [sig |-> new.sig \cup old.sig]
    <2>1. new.sig \in SUBSET Signature /\ old.sig \in SUBSET Signature
      BY <1>5, PartTypes
    <2>2. new.sig \cup old.sig \in SUBSET Signature
      BY <2>1
    <2> QED
      BY <1>5, <2>2, BlockTypes
  <1> QED
    BY <1>1, <1>2, <1>3, <1>4, <1>5 DEF BlendedBlocks

(* A short write puts a sequence of blocks over the file, each of which is *)
(* one of the document written, except the last, which may have a piece of *)
(* what was in the file.                                                   *)
LEMMA ShortOverlayFront ==
  ASSUME NEW new \in Seq(Block), NEW old \in Seq(Block), NEW n \in Nat, n < Len(new),
         NEW left \in ShortOverlays(new, n, old)
  PROVE  \E front \in Seq(Block) :
           /\ left = Overlay(front, old)
           /\ \A sigs : SignaturesIn(new, sigs) /\ SignaturesIn(old, sigs) =>
                          SignaturesIn(front, sigs)
  <1> DEFINE stored == SubSeq(new, 1, n)
             next == IF n < Len(old) THEN old[n+1] ELSE Broken
  <1>1. /\ stored \in Seq(Block) /\ Len(stored) = n
        /\ \A i \in 1..n : stored[i] = new[i] /\ i \in 1..Len(new)
    OBVIOUS
  <1>2. n+1 \in 1..Len(new) /\ new[n+1] \in Block /\ next \in Block
    BY BlockTypes
  <1>3. \A sigs : SignaturesIn(new, sigs) => SignaturesIn(stored, sigs)
    BY <1>1 DEF SignaturesIn
  <1>4. CASE left = Overlay(stored, old)
    BY <1>1, <1>3, <1>4
  <1>5. ASSUME NEW b \in BlendedBlocks(new[n+1], next), left = Overlay(Append(stored, b), old)
        PROVE  \E front \in Seq(Block) :
                 /\ left = Overlay(front, old)
                 /\ \A sigs : SignaturesIn(new, sigs) /\ SignaturesIn(old, sigs) =>
                                SignaturesIn(front, sigs)
    <2> DEFINE front == Append(stored, b)
    <2>1. /\ b \in Block
          /\ Is(b, "sig") => \/ b = new[n+1]
                             \/ /\ Is(new[n+1], "sig") /\ Is(next, "sig")
                                /\ b.sig = new[n+1].sig \cup next.sig
      BY <1>2, BlendedTypes
    <2>2. /\ front \in Seq(Block) /\ Len(front) = n+1 /\ front[n+1] = b
          /\ \A i \in 1..n : front[i] = stored[i]
      <3> HIDE DEF stored
      <3> QED
        BY <1>1, <2>1, AppendProperties
    <2>3. Is(next, "sig") => n+1 \in 1..Len(old) /\ next = old[n+1]
      BY DEF Broken, Is
    <2>4. ASSUME NEW sigs, SignaturesIn(new, sigs), SignaturesIn(old, sigs)
          PROVE  SignaturesIn(front, sigs)
      <3>1. ASSUME NEW i \in 1..n, Is(front[i], "sig"), NEW s \in front[i].sig
            PROVE  \E x \in sigs : x.sig = s
        BY <1>1, <1>3, <2>2, <2>4, <3>1 DEF SignaturesIn
      <3>2. ASSUME Is(b, "sig"), NEW s \in b.sig
            PROVE  \E x \in sigs : x.sig = s
        <4>1. CASE Is(new[n+1], "sig") /\ s \in new[n+1].sig
          BY <1>2, <2>4, <4>1 DEF SignaturesIn
        <4>2. CASE Is(next, "sig") /\ s \in next.sig
          BY <2>3, <2>4, <4>2 DEF SignaturesIn
        <4> QED
          BY <2>1, <3>2, <4>1, <4>2
      <3>3. \A i \in 1..Len(front) : i \in 1..n \/ i = n+1
        BY <2>2
      <3> HIDE DEF front
      <3> QED
        BY <2>2, <3>1, <3>2, <3>3 DEF SignaturesIn
    <2> HIDE DEF front
    <2> QED
      BY <1>5, <2>2, <2>4 DEF front
  <1> QED
    BY <1>4, <1>5 DEF ShortOverlays

-----------------------------------------------------------------------------
(* Type correctness *)

(* A call names a file, and the key and the name its operation takes.      *)
LEMMA CallTypes ==
  ASSUME NEW c \in Calls
  PROVE  /\ c.fname \in File
         /\ c.op \in {"savePublicKey", "saveKeyPair", "checkX509", "generateX509", "signX509"}
              => c.key \in Key
         /\ c.op \in {"generateX509", "signX509"} => c.name \in Name
         /\ c.op \in {"savePublicKey", "saveKeyPair", "checkX509", "generateX509", "signX509",
                     "readPublicKey", "readKeyPair"}
         /\ c # NoResult
  BY CallsAssumption DEF Call, NoResult

(* What each operation returns is a result.                                *)
LEMMA ResultTypes ==
  /\ \A op \in {"none", "savePublicKey", "saveKeyPair", "generateX509", "signX509"} :
       [op |-> op] \in Result
  /\ \A c \in Calls, w \in Reason, d \in Seq(Block) :
       [op |-> "exit", call |-> c, why |-> w, seen |-> d] \in Result
  /\ \A f \in File, d \in Seq(Block), k \in Key :
       [op |-> "readPublicKey", fname |-> f, seen |-> d, pub |-> k] \in Result
  /\ \A f \in File, d \in Seq(Block), k, j \in Key :
       [op |-> "readKeyPair", fname |-> f, seen |-> d, pub |-> k, priv |-> j] \in Result
  /\ \A v \in {"VALID", "OUT_OF_DATE", "INVALID_SIGNATURE"}, k \in Key, t \in TBS,
        s \in SUBSET Signature, n \in Nat :
       [op |-> "checkX509", verdict |-> v, key |-> k, tbs |-> t, sig |-> s, at |-> n] \in Result
  BY DEF Result

(* A generated certificate's subject and dates, and a signed one's issuer, *)
(* have the size and the characters of their fields (x509.c:96, 144,       *)
(* 158-166).                                                               *)
LEMMA FieldTypes ==
  /\ Zeros \in Field
  /\ \A s \in Name : SubjectFields(s) \subseteq Field
  /\ \A x \in Field, s \in Name : IssuerField(x, s) \in Field
  /\ \A t \in Nat : Stamp(t) \in 0..Century-1
  <1>1. Zeros \in Field
    BY DEF Zeros, Field
  <1>2. \A s \in Name : SubjectFields(s) \subseteq Field
    BY DEF SubjectFields
  <1>3. ASSUME NEW x \in Field, NEW s \in Name PROVE IssuerField(x, s) \in Field
    <2>1. PICK n \in 0..NameField+1 : s \in [1..n -> Char]
      BY DEF Name
    <2>2. n \in Nat
      BY <2>1, FieldAssumption
    <2>3. s \in Seq(Char) /\ Len(s) = n
      BY <2>1, <2>2, SeqDef
    <2>4. \A i \in 1..NameField : i <= Len(s) => s[i] \in Char
      BY <2>3, FieldAssumption
    <2> QED
      BY <2>4 DEF IssuerField, Field
  <1>4. \A t \in Nat : Stamp(t) \in 0..Century-1
    BY CenturyAssumption DEF Stamp
  <1> QED
    BY <1>1, <1>2, <1>3, <1>4

(* signX509 makes a signature over a TBS of the right type.                *)
LEMMA SignedTypes ==
  ASSUME NEW c \in Calls, c.op = "signX509", NEW doc \in Seq(Block), IsCertificate(doc)
  PROVE  SignedTBS(c, doc) \in TBS /\ NewSignature(c, doc) \in Signature
  <1>1. TBSOf(doc) \in TBS /\ c.key \in Key /\ c.name \in Name
    BY ReadTypes, CallTypes
  <1>2. IssuerField(TBSOf(doc).head.issuer, c.name) \in Field
    BY <1>1, FieldTypes DEF TBS, CertHead
  <1>3. SignedTBS(c, doc) \in TBS
    BY <1>1, <1>2 DEF SignedTBS, TBS, CertHead
  <1> QED
    BY <1>1, <1>3 DEF NewSignature, Signature

(* What the pieces of an action do to the control state *)
LEMMA GotoTypes ==
  ASSUME TypeOK, NEW p \in Proc, NEW l \in PC, NEW doc \in Seq(Block), Goto(p, l, doc)
  PROVE  /\ pc' \in [Proc -> PC] /\ pc'[p] = l
         /\ buf' \in [Proc -> Seq(Block)] /\ buf'[p] = doc
         /\ \A q \in Proc \ {p} : pc'[q] = pc[q] /\ buf'[q] = buf[q]
  BY DEF Goto, TypeOK

(* An invocation is counted, sets the call of its process only, and        *)
(* touches no file.                                                        *)
LEMMA InvokeTypes ==
  ASSUME TypeOK, NEW p \in Proc, NEW c \in Calls, NEW op, Invoke(p, op, c)
  PROVE  /\ call' \in [Proc -> Calls \cup {NoResult}] /\ call'[p] = c
         /\ \A q \in Proc \ {p} : call'[q] = call[q]
         /\ calls' \in Nat /\ pc[p] = "idle" /\ c.op = op
         /\ UNCHANGED <<file, last, now, faults>>
  BY DEF Invoke, TypeOK, disk

(* A new result for p is a result, and the others keep theirs.             *)
LEMMA SetResultTypes ==
  ASSUME TypeOK, NEW p \in Proc, NEW r \in Result, result' = [result EXCEPT ![p] = r]
  PROVE  /\ result' \in [Proc -> Result] /\ result'[p] = r
         /\ \A q \in Proc \ {p} : result'[q] = result[q]
  BY DEF TypeOK

(* The state after an invocation that went to l with doc and result r *)
LEMMA InvocationTypes ==
  ASSUME TypeOK, NEW p \in Proc, NEW c \in Calls, NEW op, NEW l \in PC, NEW doc \in Seq(Block),
         Invoke(p, op, c), Goto(p, l, doc), result' \in [Proc -> Result],
         made' \subseteq [head : CertHead, spki : Key, name : Name, at : Nat],
         issued' \subseteq [sig : Signature, name : Name], torn' \in BOOLEAN
  PROVE  TypeOK'
  <1>1. \A q \in Proc : pc'[q] \in {"open", "flush", "verdict"} => call'[q] \in Calls
    <2>1. ASSUME NEW q \in Proc \ {p}, pc'[q] \in {"open", "flush", "verdict"}
          PROVE  call'[q] \in Calls
      <3>1. pc'[q] = pc[q] /\ call'[q] = call[q]
        BY GotoTypes, InvokeTypes
      <3> QED
        BY <2>1, <3>1 DEF TypeOK
    <2>2. call'[p] = c
      BY InvokeTypes
    <2> QED
      BY <2>1, <2>2
  <1>2. file' \in [File -> Seq(Block)] /\ last' \in [File -> Seq(Block)]
    BY InvokeTypes DEF TypeOK
  <1>3. now' \in Nat /\ calls' \in Nat /\ faults' \in Nat
    BY InvokeTypes DEF TypeOK
  <1> QED
    BY <1>1, <1>2, <1>3, GotoTypes, InvokeTypes DEF TypeOK

(* A call that exits at once keeps the types of the state.                 *)
LEMMA ExitTypes ==
  ASSUME TypeOK, NEW p \in Proc, NEW c \in Calls, NEW op, Invoke(p, op, c),
         NEW why \in Reason, Exit(p, c, why), UNCHANGED history
  PROVE  TypeOK'
  <1>1. last[c.fname] \in Seq(Block)
    BY CallTypes DEF TypeOK
  <1>2. result' \in [Proc -> Result]
    BY <1>1, ResultTypes, SetResultTypes DEF Exit
  <1>3. Goto(p, "exited", <<>>)
    BY DEF Exit
  <1> QED
    BY <1>2, <1>3, EmptySeq, InvocationTypes DEF TypeOK, PC, history

(* The program starts with empty files and idle processes of the right     *)
(* types.                                                                  *)
LEMMA TypeInit == Init => TypeOK
  <1> SUFFICES ASSUME Init PROVE TypeOK
    OBVIOUS
  <1>1. NoResult \in Result
    BY ResultTypes DEF NoResult
  <1>2. <<>> \in Seq(Block)
    BY EmptySeq
  <1> QED
    BY <1>1, <1>2, TimeAssumption DEF Init, TypeOK, PC, None

(* savePublicKey and saveKeyPair keep the types of the state.              *)
LEMMA SaveTypes ==
  ASSUME TypeOK, NEW p \in Proc, NEW c \in Calls
  PROVE  /\ SavePublicKey(p, c) => TypeOK'
         /\ SaveKeyPair(p, c) => TypeOK'
  <1>1. ASSUME SavePublicKey(p, c) PROVE TypeOK'
    <2>1. PublicKeyDoc(c.key) \in Seq(Block)
      BY <1>1, CallTypes, DocTypes DEF SavePublicKey, Invoke
    <2> QED
      BY <1>1, <2>1, InvocationTypes DEF SavePublicKey, StartWrite, PC, TypeOK, history
  <1>2. ASSUME SaveKeyPair(p, c) PROVE TypeOK'
    <2>1. KeyPairDoc(c.key, c.key) \in Seq(Block)
      BY <1>2, CallTypes, DocTypes DEF SaveKeyPair, Invoke
    <2> QED
      BY <1>2, <2>1, InvocationTypes DEF SaveKeyPair, StartWrite, PC, TypeOK, history
  <1> QED
    BY <1>1, <1>2

(* readPublicKey and readKeyPair keep the types of the state, whether they *)
(* return or exit.                                                         *)
LEMMA ReadTypesStep ==
  ASSUME TypeOK, NEW p \in Proc, NEW c \in Calls
  PROVE  /\ ReadPublicKey(p, c) => TypeOK'
         /\ ReadKeyPair(p, c) => TypeOK'
  <1>0. file[c.fname] \in Seq(Block) /\ last[c.fname] \in Seq(Block) /\ c.fname \in File
    BY CallTypes DEF TypeOK
  <1>1. ASSUME ReadPublicKey(p, c) PROVE TypeOK'
    <2>1. CASE IsPublicKey(file[c.fname])
      <3> DEFINE r == [op |-> "readPublicKey", fname |-> c.fname, seen |-> last[c.fname],
                       pub |-> file[c.fname][2].pub]
      <3>1. r \in Result
        BY <1>0, <2>1, ReadTypes, ResultTypes
      <3>2. Return(p, r)
        BY <1>1, <2>1 DEF ReadPublicKey
      <3> HIDE DEF r
      <3>3. result' \in [Proc -> Result]
        BY <3>1, <3>2, SetResultTypes DEF Return
      <3> QED
        BY <1>1, <3>2, <3>3, EmptySeq, InvocationTypes DEF ReadPublicKey, Return, PC, TypeOK, history
    <2>2. CASE ~IsPublicKey(file[c.fname])
      BY <1>1, <2>2, ExitTypes DEF ReadPublicKey, Reason
    <2> QED
      BY <2>1, <2>2
  <1>2. ASSUME ReadKeyPair(p, c) PROVE TypeOK'
    <2>1. CASE IsKeyPair(file[c.fname])
      <3> DEFINE r == [op |-> "readKeyPair", fname |-> c.fname, seen |-> last[c.fname],
                       pub |-> file[c.fname][2].pub, priv |-> file[c.fname][3].priv]
      <3>1. r \in Result
        BY <1>0, <2>1, ReadTypes, ResultTypes
      <3>2. Return(p, r)
        BY <1>2, <2>1 DEF ReadKeyPair
      <3> HIDE DEF r
      <3>3. result' \in [Proc -> Result]
        BY <3>1, <3>2, SetResultTypes DEF Return
      <3> QED
        BY <1>2, <3>2, <3>3, EmptySeq, InvocationTypes DEF ReadKeyPair, Return, PC, TypeOK, history
    <2>2. CASE ~IsKeyPair(file[c.fname])
      BY <1>2, <2>2, ExitTypes DEF ReadKeyPair, Reason
    <2> QED
      BY <2>1, <2>2
  <1> QED
    BY <1>1, <1>2

(* generateX509 keeps the types of the state, and what it records of the   *)
(* certificate is well formed.                                             *)
LEMMA GenerateTypes ==
  ASSUME TypeOK, NEW p \in Proc, NEW c \in Calls, GenerateX509(p, c)
  PROVE  TypeOK'
  <1>1. c.key \in Key /\ c.name \in Name /\ Invoke(p, "generateX509", c)
    BY CallTypes DEF GenerateX509, Invoke
  <1>2. CASE Len(c.name) > NameField
    BY <1>1, <1>2, ExitTypes DEF GenerateX509, history, Reason
  <1>3. CASE ~(Len(c.name) > NameField)
    <2> DEFINE NewHead(x) == [issuer |-> Zeros, notBefore |-> Stamp(now),
                              notAfter |-> Stamp(now + Life), subject |-> x]
               NewDoc(x) == CertificateDoc([head |-> NewHead(x), spki |-> c.key], {})
               NewMade(x) == [head |-> NewHead(x), spki |-> c.key, name |-> c.name, at |-> now]
    <2>1. PICK x \in SubjectFields(c.name) :
            StartWrite(p, NewDoc(x)) /\ made' = made \cup {NewMade(x)}
      BY <1>3 DEF GenerateX509
    <2>2. Zeros \in Field /\ x \in Field
      BY <1>1, FieldTypes
    <2>3. Stamp(now) \in 0..Century-1 /\ Stamp(now + Life) \in 0..Century-1
      BY FieldTypes, TimeAssumption DEF TypeOK
    <2>4. NewHead(x) \in CertHead
      BY <2>2, <2>3 DEF CertHead
    <2>5. [head |-> NewHead(x), spki |-> c.key] \in TBS
      BY <1>1, <2>4 DEF TBS
    <2>6. NewDoc(x) \in Seq(Block)
      BY <2>5, DocTypes
    <2>7. NewMade(x) \in [head : CertHead, spki : Key, name : Name, at : Nat]
      BY <1>1, <2>4 DEF TypeOK
    <2> HIDE DEF NewHead, NewDoc, NewMade
    <2>8. made' \subseteq [head : CertHead, spki : Key, name : Name, at : Nat]
      BY <2>1, <2>7 DEF TypeOK
    <2> QED
      BY <1>1, <2>1, <2>6, <2>8, InvocationTypes DEF GenerateX509, StartWrite, PC, TypeOK
  <1> QED
    BY <1>2, <1>3

(* signX509 starts to write what it has signed, or exits.                  *)
Signs(p, c) ==
  /\ IsCertificate(file[c.fname])
  /\ StartWrite(p, CertificateDoc(SignedTBS(c, file[c.fname]), {NewSignature(c, file[c.fname])}))
  /\ issued' = issued \cup {[sig |-> NewSignature(c, file[c.fname]), name |-> c.name]}

SignExits(p, c) ==
  \E why \in Reason :
    Exit(p, c, why) /\ UNCHANGED issued /\ (why = "file" => ~IsCertificate(file[c.fname]))

LEMMA SignCases ==
  ASSUME NEW p \in Proc, NEW c \in Calls, SignX509(p, c)
  PROVE  /\ Invoke(p, "signX509", c) /\ UNCHANGED <<made, torn>>
         /\ Signs(p, c) \/ SignExits(p, c)
  <1>1. CASE ~IsCertificate(file[c.fname])
    BY <1>1 DEF SignX509, SignExits, Reason
  <1>2. CASE IsCertificate(file[c.fname])
    <2>1. CASE Exit(p, c, "name") /\ UNCHANGED issued
      BY <2>1 DEF SignX509, SignExits, Reason
    <2>2. CASE Exit(p, c, "number") /\ UNCHANGED issued
      BY <2>2 DEF SignX509, SignExits, Reason
    <2> QED
      BY <1>2, <2>1, <2>2 DEF SignX509, Signs
  <1> QED
    BY <1>1, <1>2

(* signX509 keeps the types of the state, and what it records of the       *)
(* signature is well formed.                                               *)
LEMMA SignTypes ==
  ASSUME TypeOK, NEW p \in Proc, NEW c \in Calls, SignX509(p, c)
  PROVE  TypeOK'
  <1>1. /\ c.op = "signX509" /\ c.key \in Key /\ c.name \in Name
        /\ Invoke(p, "signX509", c) /\ file[c.fname] \in Seq(Block)
        /\ UNCHANGED <<made, torn>>
    BY SignCases, CallTypes DEF Invoke, TypeOK
  <1>2. CASE Signs(p, c)
    <2> DEFINE tbs == SignedTBS(c, file[c.fname])
               sig == NewSignature(c, file[c.fname])
               doc == CertificateDoc(tbs, {sig})
    <2>1. tbs \in TBS /\ sig \in Signature
      BY <1>1, <1>2, SignedTypes DEF Signs
    <2>2. StartWrite(p, doc) /\ issued' = issued \cup {[sig |-> sig, name |-> c.name]}
      BY <1>2 DEF Signs
    <2> HIDE DEF tbs, sig
    <2>3. doc \in Seq(Block)
      BY <2>1, DocTypes
    <2>4. issued' \subseteq [sig : Signature, name : Name]
      BY <1>1, <2>1, <2>2 DEF TypeOK
    <2> HIDE DEF doc
    <2> QED
      BY <1>1, <2>2, <2>3, <2>4, InvocationTypes DEF StartWrite, PC, TypeOK
  <1>3. CASE SignExits(p, c)
    <2>1. PICK why \in Reason : Exit(p, c, why) /\ UNCHANGED issued
      BY <1>3 DEF SignExits
    <2> QED
      BY <1>1, <2>1, ExitTypes DEF history
  <1> QED
    BY <1>2, <1>3, SignCases

(* The read of checkX509 keeps the types of the state.                     *)
LEMMA CheckTypes ==
  ASSUME TypeOK, NEW p \in Proc, NEW c \in Calls, CheckX509(p, c)
  PROVE  TypeOK'
  <1>1. Invoke(p, "checkX509", c) /\ UNCHANGED history /\ file[c.fname] \in Seq(Block)
    BY CallTypes DEF CheckX509, TypeOK
  <1>2. CASE IsCertificate(file[c.fname])
    <2>1. SubSeq(file[c.fname], 1, 5) \in Seq(Block)
      BY <1>1, <1>2 DEF IsCertificate, Framed
    <2> QED
      BY <1>1, <1>2, <2>1, InvocationTypes DEF CheckX509, PC, TypeOK, history
  <1>3. CASE ~IsCertificate(file[c.fname])
    BY <1>1, <1>3, ExitTypes DEF CheckX509, Reason
  <1> QED
    BY <1>2, <1>3

(* The exit of a call under way is a result.                               *)
LEMMA ExitOfCall ==
  ASSUME TypeOK, NEW p \in Proc, call[p] \in Calls, NEW why \in Reason, Exit(p, call[p], why)
  PROVE  Goto(p, "exited", <<>>) /\ result' \in [Proc -> Result]
  <1>1. last[call[p].fname] \in Seq(Block)
    BY CallTypes DEF TypeOK
  <1> QED
    BY <1>1, ResultTypes, SetResultTypes DEF Exit

(* What checkX509 returns or exits with is a result: it comes from a       *)
(* document that IsCertificate has accepted, which is what Phase says of   *)
(* the process.                                                            *)
LEMMA VerdictResult ==
  ASSUME TypeOK, Phase, NEW p \in Proc, CheckX509Verdict(p)
  PROVE  /\ pc[p] = "verdict" /\ call[p] \in Calls /\ call[p].key \in Key
         /\ IsCertificate(buf[p]) /\ buf[p] \in Seq(Block)
         /\ result' \in [Proc -> Result]
         /\ \/ Goto(p, "idle", <<>>)
            \/ Goto(p, "exited", <<>>)
         /\ UNCHANGED <<call, now, calls, faults, file, last, made, issued, torn>>
  <1>1. /\ pc[p] = "verdict" /\ call[p] \in Calls /\ call[p].key \in Key
        /\ IsCertificate(buf[p]) /\ buf[p] \in Seq(Block)
    BY CallTypes DEF TypeOK, Phase, CheckX509Verdict
  <1>2. CASE ~MustRefuse(call[p].key, buf[p]) /\
             Return(p, [op |-> "checkX509", verdict |-> Verdict(p, buf[p]), key |-> call[p].key,
                        tbs |-> TBSOf(buf[p]), sig |-> SigOf(buf[p]), at |-> now])
    <2>1. Verdict(p, buf[p]) \in {"VALID", "OUT_OF_DATE", "INVALID_SIGNATURE"}
      BY DEF Verdict
    <2>2. TBSOf(buf[p]) \in TBS /\ SigOf(buf[p]) \in SUBSET Signature /\ now \in Nat
      BY <1>1, ReadTypes DEF TypeOK
    <2> DEFINE r == [op |-> "checkX509", verdict |-> Verdict(p, buf[p]), key |-> call[p].key,
                     tbs |-> TBSOf(buf[p]), sig |-> SigOf(buf[p]), at |-> now]
    <2>3. r \in Result
      BY <1>1, <2>1, <2>2, ResultTypes
    <2>4. Return(p, r)
      BY <1>2
    <2> HIDE DEF r
    <2> QED
      BY <1>1, <2>3, <2>4, SetResultTypes DEF Return, CheckX509Verdict, disk, history
  <1>3. CASE Exit(p, call[p], "number")
    <2>1. Goto(p, "exited", <<>>) /\ result' \in [Proc -> Result]
      BY <1>1, <1>3, ExitOfCall DEF Reason
    <2> QED
      BY <1>1, <2>1 DEF CheckX509Verdict, disk, history
  <1> QED
    BY <1>2, <1>3 DEF CheckX509Verdict

(* A step that leaves the call where it is, at l with doc, and result r *)
LEMMA ContinueTypes ==
  ASSUME TypeOK, NEW p \in Proc, NEW l \in PC, NEW doc \in Seq(Block), Goto(p, l, doc),
         l \in {"open", "flush", "verdict"} => call[p] \in Calls,
         result' \in [Proc -> Result],
         file' \in [File -> Seq(Block)], last' \in [File -> Seq(Block)],
         now' \in Nat, faults' \in Nat, torn' \in BOOLEAN,
         UNCHANGED <<call, calls, made, issued>>
  PROVE  TypeOK'
  <1>1. ASSUME NEW q \in Proc, pc'[q] \in {"open", "flush", "verdict"} PROVE call'[q] \in Calls
    BY <1>1, GotoTypes DEF TypeOK
  <1> QED
    BY <1>1, GotoTypes DEF TypeOK

(* The verdict of checkX509 keeps the types of the state.                  *)
LEMMA VerdictTypes ==
  ASSUME TypeOK, Phase, NEW p \in Proc, CheckX509Verdict(p)
  PROVE  TypeOK'
  BY VerdictResult, ContinueTypes, EmptySeq DEF TypeOK, PC

(* The truncation of a file keeps the types of the state.                  *)
LEMMA OpenTypes ==
  ASSUME TypeOK, NEW p \in Proc, OpenForWrite(p)
  PROVE  TypeOK'
  <1>1. call[p] \in Calls /\ call[p].fname \in File /\ buf[p] \in Seq(Block)
    BY CallTypes DEF TypeOK, OpenForWrite
  <1>2. file' \in [File -> Seq(Block)] /\ last' \in [File -> Seq(Block)]
    BY <1>1, EmptySeq DEF OpenForWrite, TypeOK, None
  <1> QED
    BY <1>1, <1>2, ContinueTypes DEF OpenForWrite, TypeOK, PC, history

(* A save returns no more than its name, which is a result.                *)
LEMMA SavedResult ==
  ASSUME TypeOK, Phase, NEW p \in Proc, pc[p] = "flush", Return(p, [op |-> call[p].op])
  PROVE  /\ call[p] \in Calls /\ call[p].fname \in File /\ buf[p] \in Seq(Block)
         /\ Goto(p, "idle", <<>>) /\ result' \in [Proc -> Result]
         /\ result'[p] = [op |-> call[p].op]
         /\ call[p].op \in {"savePublicKey", "saveKeyPair", "generateX509", "signX509"}
         /\ \A q \in Proc \ {p} : result'[q] = result[q]
  <1>1. /\ call[p] \in Calls /\ call[p].fname \in File /\ buf[p] \in Seq(Block)
        /\ call[p].op \in {"savePublicKey", "saveKeyPair", "generateX509", "signX509"}
    BY CallTypes DEF TypeOK, Phase
  <1>2. [op |-> call[p].op] \in Result
    BY <1>1, ResultTypes
  <1> QED
    BY <1>1, <1>2, SetResultTypes DEF Return

(* A complete write keeps the types of the state.                          *)
LEMMA FlushTypes ==
  ASSUME TypeOK, Phase, NEW p \in Proc, Flush(p)
  PROVE  TypeOK'
  <1>1. Overlay(buf[p], file[call[p].fname]) \in Seq(Block)
    BY SavedResult, OverlayType DEF Flush, TypeOK
  <1>2. file' \in [File -> Seq(Block)] /\ last' \in [File -> Seq(Block)]
    BY <1>1, SavedResult DEF Flush, TypeOK
  <1> QED
    BY <1>2, SavedResult, EmptySeq, ContinueTypes DEF Flush, TypeOK, PC, history

(* A short write keeps the types of the state.                             *)
LEMMA ShortFlushTypes ==
  ASSUME TypeOK, Phase, NEW p \in Proc, NEW n \in 0..4, ShortFlush(p, n)
  PROVE  TypeOK'
  <1>1. PICK left \in ShortOverlays(buf[p], n, file[call[p].fname]) :
          file' = [file EXCEPT ![call[p].fname] = left]
    BY DEF ShortFlush
  <1>2. buf[p] \in Seq(Block) /\ file[call[p].fname] \in Seq(Block) /\ n \in Nat /\ n < Len(buf[p])
    BY SavedResult DEF ShortFlush, TypeOK
  <1>3. PICK front \in Seq(Block) : left = Overlay(front, file[call[p].fname])
    BY <1>1, <1>2, ShortOverlayFront
  <1>4. left \in Seq(Block)
    BY <1>2, <1>3, OverlayType
  <1>5. file' \in [File -> Seq(Block)] /\ last' \in [File -> Seq(Block)]
    BY <1>1, <1>4, SavedResult, EmptySeq DEF ShortFlush, TypeOK, None
  <1>6. /\ now' \in Nat /\ faults' \in Nat /\ torn' \in BOOLEAN
        /\ UNCHANGED <<call, calls, made, issued>>
    BY DEF ShortFlush, Fault, TypeOK
  <1>7. result' \in [Proc -> Result] /\ Goto(p, "idle", <<>>)
    BY SavedResult DEF ShortFlush
  <1>8. "idle" \in PC /\ <<>> \in Seq(Block)
    BY EmptySeq DEF PC
  <1> QED
    BY <1>5, <1>6, <1>7, <1>8, ContinueTypes

(* A failed fopen, a crash and a restart keep the types of the state.      *)
LEMMA EndTypes ==
  ASSUME TypeOK, NEW p \in Proc
  PROVE  /\ FopenFails(p) => TypeOK'
         /\ Crash(p) => TypeOK'
         /\ Restart(p) => TypeOK'
  <1>1. NoResult \in Result
    BY ResultTypes DEF NoResult
  <1>2. ASSUME Crash(p) PROVE TypeOK'
    <2>1. result' \in [Proc -> Result] /\ faults' \in Nat
      BY <1>1, <1>2 DEF Crash, Fault, TypeOK
    <2> QED
      BY <1>2, <2>1, EmptySeq, ContinueTypes DEF Crash, TypeOK, PC, disk, history
  <1>3. ASSUME Restart(p) PROVE TypeOK'
    <2>1. result' \in [Proc -> Result]
      BY <1>1, <1>3 DEF Restart, TypeOK
    <2> QED
      BY <1>3, <2>1, EmptySeq, ContinueTypes DEF Restart, TypeOK, PC, disk, history
  <1>4. ASSUME FopenFails(p) PROVE TypeOK'
    <2>1. call[p] \in Calls /\ faults' \in Nat /\ Exit(p, call[p], "fopen")
      BY <1>4 DEF FopenFails, Fault, TypeOK
    <2>2. Goto(p, "exited", <<>>) /\ result' \in [Proc -> Result]
      BY <2>1, ExitOfCall DEF Reason
    <2> QED
      BY <1>4, <2>1, <2>2, EmptySeq, ContinueTypes DEF FopenFails, TypeOK, PC, disk, history
  <1> QED
    BY <1>2, <1>3, <1>4

(* Every step keeps the types of the state, once Phase says what a process *)
(* in the middle of a call is doing.                                       *)
LEMMA TypeStep == TypeOK /\ Phase /\ [Next]_vars => TypeOK'
  <1> SUFFICES ASSUME TypeOK, Phase, [Next]_vars PROVE TypeOK'
    OBVIOUS
  <1>1. ASSUME NEW p \in Proc, NEW c \in Calls, Invocation(p, c) PROVE TypeOK'
    BY <1>1, SaveTypes, ReadTypesStep, GenerateTypes, SignTypes, CheckTypes DEF Invocation
  <1>2. ASSUME NEW p \in Proc, Continue(p) PROVE TypeOK'
    BY <1>2, VerdictTypes, OpenTypes, FlushTypes DEF Continue
  <1>3. ASSUME NEW p \in Proc, Failure(p) \/ Restart(p) PROVE TypeOK'
    BY <1>3, ShortFlushTypes, EndTypes DEF Failure
  <1>4. ASSUME Tick PROVE TypeOK'
    BY <1>4 DEF Tick, TypeOK, disk, history
  <1>5. CASE UNCHANGED vars
    BY <1>5 DEF vars, TypeOK
  <1> QED
    BY <1>1, <1>2, <1>3, <1>4, <1>5 DEF Next

-----------------------------------------------------------------------------
(* Phase and Traceable *)

Saves == {"savePublicKey", "saveKeyPair", "generateX509", "signX509"}

(* A step of p keeps Phase if it does for p: the others stay where they    *)
(* were.                                                                   *)
LEMMA PhaseLocal ==
  ASSUME TypeOK, Phase, NEW p \in Proc, NEW l \in PC, NEW doc \in Seq(Block), Goto(p, l, doc),
         \A q \in Proc \ {p} : call'[q] = call[q],
         l = "verdict" => call'[p].op = "checkX509" /\ IsCertificate(doc),
         l \in {"open", "flush"} => call'[p].op \in Saves
  PROVE  Phase'
  <1>1. ASSUME NEW q \in Proc \ {p}
        PROVE  pc'[q] = pc[q] /\ buf'[q] = buf[q] /\ call'[q] = call[q]
    BY GotoTypes
  <1>2. pc'[p] = l /\ buf'[p] = doc
    BY GotoTypes
  <1> QED
    BY <1>1, <1>2 DEF Phase, Saves

(* An empty document holds no signature.                                   *)
LEMMA EmptySignatures == \A sigs : SignaturesIn(<<>>, sigs)
  BY DEF SignaturesIn

(* A document with keys holds no signature.                                *)
LEMMA KeySignatures ==
  \A sigs : /\ \A k \in Key : SignaturesIn(PublicKeyDoc(k), sigs)
            /\ \A k, j \in Key : SignaturesIn(KeyPairDoc(k, j), sigs)
  BY DEF SignaturesIn, PublicKeyDoc, KeyPairDoc, Is

(* The signatures of a certificate's document are those it was made with.  *)
LEMMA CertificateSignatures ==
  ASSUME NEW tbs, NEW sig, NEW sigs, \A s \in sig : \E x \in sigs : x.sig = s
  PROVE  SignaturesIn(CertificateDoc(tbs, sig), sigs)
  <1> DEFINE doc == CertificateDoc(tbs, sig)
  <1>1. Len(doc) = 5 /\ doc[4] = [sig |-> sig]
    BY DEF CertificateDoc
  <1>2. \A i \in 1..5 : i # 4 => ~Is(doc[i], "sig")
    BY DEF CertificateDoc, Is
  <1> HIDE DEF doc
  <1>3. ASSUME NEW i \in 1..Len(doc), Is(doc[i], "sig"), NEW s \in doc[i].sig
        PROVE  \E x \in sigs : x.sig = s
    <2>1. i = 4
      BY <1>1, <1>2, <1>3
    <2> QED
      BY <1>1, <1>3, <2>1
  <1>4. SignaturesIn(doc, sigs)
    BY <1>3 DEF SignaturesIn
  <1> QED
    BY <1>4 DEF doc

(* A prefix of a document holds no signature that the document does not.   *)
LEMMA PrefixSignatures ==
  ASSUME NEW doc \in Seq(Block), NEW sigs, SignaturesIn(doc, sigs), NEW n \in Nat, n <= Len(doc)
  PROVE  SignaturesIn(SubSeq(doc, 1, n), sigs)
  BY DEF SignaturesIn

(* A file that was written over holds signatures of what was written and   *)
(* of what was there.                                                      *)
LEMMA OverlaySignatures ==
  ASSUME NEW new \in Seq(Block), NEW old \in Seq(Block), NEW sigs,
         SignaturesIn(new, sigs), SignaturesIn(old, sigs)
  PROVE  SignaturesIn(Overlay(new, old), sigs)
  <1> DEFINE n == IF Len(new) >= Len(old) THEN Len(new) ELSE Len(old)
             doc == Overlay(new, old)
  <1>1. doc \in Seq(Block) /\ DOMAIN doc = 1..n /\ n \in Nat
    BY OverlayType DEF Overlay
  <1>2. Len(doc) = n
    BY <1>1
  <1>3. \A i \in 1..n : doc[i] = IF i <= Len(new) THEN new[i] ELSE old[i]
    BY DEF Overlay
  <1>4. \A i \in 1..n : i <= Len(new) => i \in 1..Len(new)
    OBVIOUS
  <1>5. \A i \in 1..n : ~(i <= Len(new)) => i \in 1..Len(old)
    OBVIOUS
  <1> HIDE DEF doc, n
  <1>6. SignaturesIn(doc, sigs)
    BY <1>2, <1>3, <1>4, <1>5 DEF SignaturesIn
  <1> QED
    BY <1>6 DEF doc

(* What is traceable to some signatures is traceable to more.              *)
LEMMA MoreSignatures ==
  ASSUME NEW doc, NEW sigs, NEW more, sigs \subseteq more, SignaturesIn(doc, sigs)
  PROVE  SignaturesIn(doc, more)
  BY DEF SignaturesIn

(* Traceable has to be looked at for the process that steps and for the    *)
(* files; signatures already issued stay issued.                           *)
LEMMA TraceLocal ==
  ASSUME TypeOK, Traceable, NEW p \in Proc, NEW l \in PC, NEW doc \in Seq(Block), Goto(p, l, doc),
         issued \subseteq issued', SignaturesIn(doc, issued'),
         \A f \in File : file'[f] = file[f] \/ SignaturesIn(file'[f], issued')
  PROVE  Traceable'
  <1>1. ASSUME NEW f \in File PROVE SignaturesIn(file'[f], issued')
    BY MoreSignatures DEF Traceable
  <1>2. ASSUME NEW q \in Proc PROVE SignaturesIn(buf'[q], issued')
    <2>1. buf'[q] = IF q = p THEN doc ELSE buf[q]
      BY GotoTypes
    <2> QED
      BY <2>1, MoreSignatures DEF Traceable
  <1> QED
    BY <1>1, <1>2 DEF Traceable

Core == TypeOK /\ Phase /\ Traceable

(* An invocation leaves the files and the other processes alone.           *)
LEMMA InvokeOthers ==
  ASSUME TypeOK, NEW p \in Proc, NEW c \in Calls, NEW op, Invoke(p, op, c)
  PROVE  /\ \A q \in Proc \ {p} : call'[q] = call[q]
         /\ call'[p] = c /\ c.op = op
         /\ \A f \in File : file'[f] = file[f]
  BY InvokeTypes

(* An invocation that ends at once: it returned or exited *)
LEMMA ReturnsCore ==
  ASSUME Core, NEW p \in Proc, NEW c \in Calls, NEW op, Invoke(p, op, c), UNCHANGED issued,
         Goto(p, "idle", <<>>) \/ Goto(p, "exited", <<>>)
  PROVE  Phase' /\ Traceable'
  <1>1. <<>> \in Seq(Block) /\ "idle" \in PC /\ "exited" \in PC
    BY EmptySeq DEF PC
  <1>2. Phase'
    BY <1>1, InvokeOthers, PhaseLocal DEF Core
  <1>3. Traceable'
    BY <1>1, InvokeOthers, EmptySignatures, TraceLocal DEF Core
  <1> QED
    BY <1>2, <1>3

(* An invocation that goes on to write doc *)
LEMMA StartsCore ==
  ASSUME Core, NEW p \in Proc, NEW c \in Calls, Invoke(p, c.op, c), c.op \in Saves,
         NEW doc \in Seq(Block), StartWrite(p, doc), issued \subseteq issued',
         SignaturesIn(doc, issued')
  PROVE  Phase' /\ Traceable'
  <1>1. "open" \in PC /\ Goto(p, "open", doc)
    BY DEF PC, StartWrite
  <1>2. Phase'
    BY <1>1, InvokeOthers, PhaseLocal DEF Core
  <1>3. Traceable'
    BY <1>1, InvokeOthers, TraceLocal DEF Core
  <1> QED
    BY <1>2, <1>3

(* The operations of keystore.c keep Core.                                 *)
LEMMA KeysCore ==
  ASSUME Core, NEW p \in Proc, NEW c \in Calls,
         SavePublicKey(p, c) \/ SaveKeyPair(p, c) \/ ReadPublicKey(p, c) \/ ReadKeyPair(p, c)
  PROVE  Phase' /\ Traceable'
  <1>1. CASE SavePublicKey(p, c)
    <2>1. c.op = "savePublicKey" /\ c.key \in Key /\ c.op \in Saves
      BY <1>1, CallTypes DEF SavePublicKey, Invoke, Saves
    <2>2. Invoke(p, c.op, c) /\ StartWrite(p, PublicKeyDoc(c.key)) /\ UNCHANGED issued
      BY <1>1, <2>1 DEF SavePublicKey, history
    <2> QED
      BY <2>1, <2>2, DocTypes, KeySignatures, StartsCore
  <1>2. CASE SaveKeyPair(p, c)
    <2>1. c.op = "saveKeyPair" /\ c.key \in Key /\ c.op \in Saves
      BY <1>2, CallTypes DEF SaveKeyPair, Invoke, Saves
    <2>2. Invoke(p, c.op, c) /\ StartWrite(p, KeyPairDoc(c.key, c.key)) /\ UNCHANGED issued
      BY <1>2, <2>1 DEF SaveKeyPair, history
    <2> QED
      BY <2>1, <2>2, DocTypes, KeySignatures, StartsCore
  <1>3. CASE ReadPublicKey(p, c)
    <2>1. Goto(p, "idle", <<>>) \/ Goto(p, "exited", <<>>)
      BY <1>3 DEF ReadPublicKey, Return, Exit
    <2> QED
      BY <1>3, <2>1, ReturnsCore DEF ReadPublicKey, history
  <1>4. CASE ReadKeyPair(p, c)
    <2>1. Goto(p, "idle", <<>>) \/ Goto(p, "exited", <<>>)
      BY <1>4 DEF ReadKeyPair, Return, Exit
    <2> QED
      BY <1>4, <2>1, ReturnsCore DEF ReadKeyPair, history
  <1> QED
    BY <1>1, <1>2, <1>3, <1>4

(* What generateX509 is about to write, and what it remembers of it *)
LEMMA GeneratedDoc ==
  ASSUME TypeOK, NEW p \in Proc, NEW c \in Calls, GenerateX509(p, c), Len(c.name) <= NameField
  PROVE  \E head \in CertHead :
           /\ head.issuer = Zeros
           /\ c.key \in Key /\ c.name \in Name
           /\ StartWrite(p, CertificateDoc([head |-> head, spki |-> c.key], {}))
           /\ made' = made \cup {[head |-> head, spki |-> c.key, name |-> c.name, at |-> now]}
  <1> DEFINE NewHead(x) == [issuer |-> Zeros, notBefore |-> Stamp(now),
                            notAfter |-> Stamp(now + Life), subject |-> x]
  <1>1. c.key \in Key /\ c.name \in Name
    BY CallTypes DEF GenerateX509, Invoke
  <1>2. Len(c.name) \in Nat
    <2>1. PICK n \in 0..NameField+1 : c.name \in [1..n -> Char]
      BY <1>1 DEF Name
    <2>2. n \in Nat
      BY <2>1, FieldAssumption
    <2> QED
      BY <2>1, <2>2, SeqDef
  <1>3. ~(Len(c.name) > NameField)
    BY <1>2, FieldAssumption
  <1>4. PICK x \in SubjectFields(c.name) :
          /\ StartWrite(p, CertificateDoc([head |-> NewHead(x), spki |-> c.key], {}))
          /\ made' = made \cup {[head |-> NewHead(x), spki |-> c.key, name |-> c.name, at |-> now]}
    BY <1>3, Zenon DEF GenerateX509
  <1>5. Zeros \in Field /\ x \in Field
    BY <1>1, FieldTypes
  <1>6. Stamp(now) \in 0..Century-1 /\ Stamp(now + Life) \in 0..Century-1
    <2>1. now \in Nat /\ now + Life \in Nat
      BY TimeAssumption DEF TypeOK
    <2>2. \A t \in Nat : Stamp(t) \in 0..Century-1
      BY FieldTypes
    <2> QED
      BY <2>1, <2>2
  <1>7. NewHead(x) \in CertHead /\ NewHead(x).issuer = Zeros
    BY <1>5, <1>6 DEF CertHead
  <1> HIDE DEF NewHead
  <1> QED
    BY <1>1, <1>4, <1>7

(* The operations of x509.c, up to the verdict of a check, keep Core: a    *)
(* signature that signX509 writes is recorded in the step that makes it.   *)
LEMMA CertificatesCore ==
  ASSUME Core, NEW p \in Proc, NEW c \in Calls,
         GenerateX509(p, c) \/ SignX509(p, c) \/ CheckX509(p, c)
  PROVE  Phase' /\ Traceable'
  <1>1. CASE GenerateX509(p, c)
    <2>1. /\ c.op = "generateX509" /\ c.op \in Saves
          /\ Invoke(p, c.op, c) /\ UNCHANGED issued
      BY <1>1 DEF GenerateX509, Invoke, Saves
    <2>2. CASE Len(c.name) <= NameField
      <3>1. PICK head \in CertHead :
              /\ c.key \in Key
              /\ StartWrite(p, CertificateDoc([head |-> head, spki |-> c.key], {}))
        BY <1>1, <2>2, GeneratedDoc DEF Core
      <3>2. [head |-> head, spki |-> c.key] \in TBS
        BY <3>1 DEF TBS
      <3>3. SignaturesIn(CertificateDoc([head |-> head, spki |-> c.key], {}), issued')
        BY CertificateSignatures
      <3> QED
        BY <2>1, <3>1, <3>2, <3>3, DocTypes, StartsCore
    <2>3. CASE Len(c.name) > NameField
      BY <1>1, <2>1, <2>3, ReturnsCore DEF GenerateX509, Exit
    <2>4. Len(c.name) <= NameField \/ Len(c.name) > NameField
      BY <1>1, <2>1, CallTypes, FieldAssumption, SeqDef DEF Name
    <2> QED
      BY <2>2, <2>3, <2>4
  <1>2. CASE SignX509(p, c)
    <2>1. /\ c.op = "signX509" /\ c.op \in Saves /\ Invoke(p, c.op, c)
          /\ file[c.fname] \in Seq(Block)
      BY <1>2, SignCases, CallTypes DEF Invoke, Saves, Core, TypeOK
    <2>2. CASE Signs(p, c)
      <3> DEFINE tbs == SignedTBS(c, file[c.fname])
                 sig == NewSignature(c, file[c.fname])
      <3>1. tbs \in TBS /\ sig \in Signature
        BY <2>1, <2>2, SignedTypes DEF Signs
      <3>2. /\ StartWrite(p, CertificateDoc(tbs, {sig}))
            /\ issued' = issued \cup {[sig |-> sig, name |-> c.name]}
        BY <2>2 DEF Signs
      <3> HIDE DEF tbs, sig
      <3>3. \A s \in {sig} : \E x \in issued' : x.sig = s
        <4> DEFINE entry == [sig |-> sig, name |-> c.name]
        <4>1. entry \in issued' /\ entry.sig = sig
          BY <3>2
        <4> QED
          BY <4>1
      <3>4. SignaturesIn(CertificateDoc(tbs, {sig}), issued')
        BY <3>3, CertificateSignatures
      <3> QED
        BY <2>1, <3>1, <3>2, <3>4, DocTypes, StartsCore
    <2>3. CASE SignExits(p, c)
      BY <2>1, <2>3, ReturnsCore DEF SignExits, Exit
    <2> QED
      BY <1>2, <2>2, <2>3, SignCases
  <1>3. CASE CheckX509(p, c)
    <2>1. /\ Invoke(p, "checkX509", c) /\ UNCHANGED issued /\ c.fname \in File
          /\ file[c.fname] \in Seq(Block)
      BY <1>3, CallTypes DEF CheckX509, Core, TypeOK, history
    <2>2. CASE IsCertificate(file[c.fname])
      <3> DEFINE doc == SubSeq(file[c.fname], 1, 5)
      <3>1. Len(file[c.fname]) >= 5
        BY <2>2 DEF IsCertificate, Framed
      <3>2. doc \in Seq(Block) /\ Len(doc) = 5 /\ \A i \in 1..5 : doc[i] = file[c.fname][i]
        BY <2>1, <3>1
      <3>3. IsCertificate(doc)
        BY <2>2, <3>2 DEF IsCertificate, Framed
      <3>4. SignaturesIn(doc, issued')
        BY <2>1, <3>1, PrefixSignatures DEF Core, Traceable
      <3>5. Goto(p, "verdict", doc) /\ "verdict" \in PC
        BY <1>3, <2>2 DEF CheckX509, PC
      <3> HIDE DEF doc
      <3>6. Phase'
        BY <2>1, <3>2, <3>3, <3>5, InvokeOthers, PhaseLocal DEF Core
      <3>7. Traceable'
        BY <2>1, <3>2, <3>4, <3>5, InvokeOthers, TraceLocal DEF Core
      <3> QED
        BY <3>6, <3>7
    <2>3. CASE ~IsCertificate(file[c.fname])
      BY <1>3, <2>1, <2>3, ReturnsCore DEF CheckX509, Exit
    <2> QED
      BY <2>2, <2>3
  <1> QED
    BY <1>1, <1>2, <1>3

(* The steps in the middle of a call, and the end of it *)
LEMMA ContinueCore ==
  ASSUME Core, NEW p \in Proc, NEW l \in PC, NEW doc \in Seq(Block), Goto(p, l, doc),
         UNCHANGED <<call, issued>>,
         l # "verdict", l \in {"open", "flush"} => call[p].op \in Saves,
         SignaturesIn(doc, issued),
         \A f \in File : file'[f] = file[f] \/ SignaturesIn(file'[f], issued)
  PROVE  Phase' /\ Traceable'
  <1>1. Phase'
    BY PhaseLocal DEF Core
  <1>2. Traceable'
    BY TraceLocal DEF Core
  <1> QED
    BY <1>1, <1>2

(* The verdict of checkX509 keeps Core.                                    *)
LEMMA VerdictCore ==
  ASSUME Core, NEW p \in Proc, CheckX509Verdict(p) \/ FopenFails(p) \/ Crash(p) \/ Restart(p)
  PROVE  Phase' /\ Traceable'
  <1>1. Goto(p, "idle", <<>>) \/ Goto(p, "exited", <<>>)
    BY DEF CheckX509Verdict, FopenFails, Crash, Restart, Return, Exit
  <1>2. UNCHANGED <<call, issued>> /\ \A f \in File : file'[f] = file[f]
    BY DEF CheckX509Verdict, FopenFails, Crash, Restart, disk, history
  <1>3. "idle" \in PC /\ "exited" \in PC /\ <<>> \in Seq(Block)
    BY EmptySeq DEF PC
  <1> QED
    BY <1>1, <1>2, <1>3, EmptySignatures, ContinueCore

(* The truncation of a file keeps Core.                                    *)
LEMMA OpenCore ==
  ASSUME Core, NEW p \in Proc, OpenForWrite(p)
  PROVE  Phase' /\ Traceable'
  <1>1. /\ call[p].op \in Saves /\ buf[p] \in Seq(Block) /\ SignaturesIn(buf[p], issued)
        /\ Goto(p, "flush", buf[p]) /\ "flush" \in PC
        /\ UNCHANGED <<call, issued>>
    BY DEF OpenForWrite, Core, TypeOK, Phase, Traceable, Saves, PC, history
  <1>2. file' = [file EXCEPT ![call[p].fname] = <<>>] /\ file \in [File -> Seq(Block)]
    BY DEF OpenForWrite, Core, TypeOK
  <1>3. \A f \in File : file'[f] = file[f] \/ SignaturesIn(file'[f], issued)
    BY <1>2, EmptySignatures
  <1> QED
    BY <1>1, <1>3, ContinueCore

(* A write that leaves the bytes of new at the front of a file.            *)
LEMMA WriteCore ==
  ASSUME Core, NEW p \in Proc, pc[p] = "flush", Return(p, [op |-> call[p].op]),
         NEW new \in Seq(Block), SignaturesIn(new, issued),
         file' = [file EXCEPT ![call[p].fname] = Overlay(new, file[call[p].fname])],
         UNCHANGED <<call, issued>>
  PROVE  Phase' /\ Traceable'
  <1>1. call[p].fname \in File /\ Goto(p, "idle", <<>>) /\ "idle" \in PC
    BY SavedResult DEF Core, PC
  <1>2. file[call[p].fname] \in Seq(Block) /\ file \in [File -> Seq(Block)]
    BY <1>1 DEF Core, TypeOK
  <1>3. SignaturesIn(Overlay(new, file[call[p].fname]), issued)
    BY <1>1, <1>2, OverlaySignatures DEF Core, Traceable
  <1>4. \A f \in File : file'[f] = file[f] \/ SignaturesIn(file'[f], issued)
    BY <1>2, <1>3
  <1> QED
    BY <1>1, <1>4, EmptySeq, EmptySignatures, ContinueCore

(* Complete and short writes keep Core: what they put on disk was in       *)
(* memory or on disk, and traceable there.                                 *)
LEMMA FlushCore ==
  ASSUME Core, NEW p \in Proc
  PROVE  /\ Flush(p) => Phase' /\ Traceable'
         /\ \A n \in 0..4 : ShortFlush(p, n) => Phase' /\ Traceable'
  <1>1. buf[p] \in Seq(Block) /\ SignaturesIn(buf[p], issued)
    BY DEF Core, TypeOK, Traceable
  <1>2. ASSUME Flush(p) PROVE Phase' /\ Traceable'
    BY <1>1, <1>2, WriteCore DEF Flush, history
  <1>3. ASSUME NEW n \in 0..4, ShortFlush(p, n) PROVE Phase' /\ Traceable'
    <2>1. /\ pc[p] = "flush" /\ Return(p, [op |-> call[p].op]) /\ UNCHANGED <<call, issued>>
          /\ n \in Nat /\ n < Len(buf[p])
      BY <1>3 DEF ShortFlush
    <2>2. file[call[p].fname] \in Seq(Block) /\ SignaturesIn(file[call[p].fname], issued)
      BY <2>1, SavedResult DEF Core, TypeOK, Traceable
    <2>3. PICK left \in ShortOverlays(buf[p], n, file[call[p].fname]) :
            file' = [file EXCEPT ![call[p].fname] = left]
      BY <1>3 DEF ShortFlush
    <2>4. PICK front \in Seq(Block) :
            /\ left = Overlay(front, file[call[p].fname])
            /\ SignaturesIn(front, issued)
      BY <1>1, <2>1, <2>2, ShortOverlayFront
    <2> QED
      BY <2>1, <2>3, <2>4, WriteCore
  <1> QED
    BY <1>2, <1>3

(* Core is inductive: every step keeps it.                                 *)
LEMMA CoreStep == Core /\ [Next]_vars => Core'
  <1> SUFFICES ASSUME Core, [Next]_vars PROVE Core'
    OBVIOUS
  <1>1. TypeOK'
    BY TypeStep DEF Core
  <1>2. ASSUME NEW p \in Proc, NEW c \in Calls, Invocation(p, c) PROVE Phase' /\ Traceable'
    BY <1>2, KeysCore, CertificatesCore DEF Invocation
  <1>3. ASSUME NEW p \in Proc, Continue(p) \/ Failure(p) \/ Restart(p) PROVE Phase' /\ Traceable'
    BY <1>3, VerdictCore, OpenCore, FlushCore DEF Continue, Failure
  <1>4. ASSUME Tick \/ UNCHANGED vars PROVE Phase' /\ Traceable'
    <2>1. UNCHANGED <<pc, call, buf, file, issued>>
      BY <1>4 DEF Tick, vars, disk, history
    <2>2. Phase'
      BY <2>1 DEF Core, Phase
    <2>3. Traceable'
      BY <2>1 DEF Core, Traceable
    <2> QED
      BY <2>2, <2>3
  <1> QED
    BY <1>1, <1>2, <1>3, <1>4 DEF Next, Core

(* Core holds at the start.                                                *)
LEMMA CoreInit == Init => Core
  <1> SUFFICES ASSUME Init PROVE Core
    OBVIOUS
  <1>1. Phase
    BY DEF Init, Phase
  <1>2. Traceable
    BY EmptySignatures DEF Init, Traceable
  <1> QED
    BY <1>1, <1>2, TypeInit DEF Core

(* Every state that the key store and the certificate code can reach is    *)
(* well typed, for any number of processes, files, keys and calls,         *)
(* whatever is interleaved, killed or cut short: no reader takes a key or  *)
(* a field from a block that has none.                                     *)
THEOREM TypeCorrect == Spec => []TypeOK
  <1>1. Spec => []Core
    BY CoreInit, CoreStep, PTL DEF Spec
  <1>2. Core => TypeOK
    BY DEF Core
  <1> QED
    BY <1>1, <1>2, PTL

(* Core always holds: with the types, that a process in the middle of a    *)
(* save or a check is in the call it says it is, with a certificate to     *)
(* judge when it is about to judge, and that every signature on disk or in *)
(* memory was made by signX509.                                            *)
THEOREM CoreInvariant == Spec => []Core
  BY CoreInit, CoreStep, PTL DEF Spec

-----------------------------------------------------------------------------
(* Authentic *)

(* Certificates made and signatures issued stay recorded.                  *)
LEMMA HistoryGrows == [Next]_vars => issued \subseteq issued' /\ made \subseteq made'
  <1> SUFFICES ASSUME [Next]_vars PROVE issued \subseteq issued' /\ made \subseteq made'
    OBVIOUS
  <1>1. ASSUME NEW p \in Proc, NEW c \in Calls, Invocation(p, c)
        PROVE  issued \subseteq issued' /\ made \subseteq made'
    BY <1>1 DEF Invocation, SavePublicKey, SaveKeyPair, ReadPublicKey, ReadKeyPair,
                GenerateX509, SignX509, CheckX509, history
  <1>2. ASSUME NEW p \in Proc, Continue(p) \/ Failure(p) \/ Restart(p)
        PROVE  UNCHANGED <<issued, made>>
    BY <1>2 DEF Continue, Failure, CheckX509Verdict, OpenForWrite, Flush, FopenFails, Crash,
                ShortFlush, Restart, history
  <1>3. CASE Tick \/ UNCHANGED vars
    BY <1>3 DEF Tick, vars, history
  <1> QED
    BY <1>1, <1>2, <1>3 DEF Next

(* exit(1) changes the result of its process, to an exit.                  *)
LEMMA ExitResult ==
  ASSUME TypeOK, NEW p \in Proc, NEW c, NEW why, Exit(p, c, why), NEW q \in Proc
  PROVE  \/ result'[q] = result[q]
         \/ /\ result'[q].op = "exit" /\ result'[q].call = c
            /\ result'[q].why = why /\ result'[q].seen = last[c.fname]
  <1> DEFINE r == [op |-> "exit", call |-> c, why |-> why, seen |-> last[c.fname]]
  <1>1. r.op = "exit" /\ r.call = c /\ r.why = why /\ r.seen = last[c.fname]
    OBVIOUS
  <1>2. result' = [result EXCEPT ![p] = r]
    BY DEF Exit
  <1> HIDE DEF r
  <1>3. result'[q] = IF q = p THEN r ELSE result[q]
    BY <1>2 DEF TypeOK
  <1> QED
    BY <1>1, <1>3

(* A return changes the result of its process, to what it returns.         *)
LEMMA ReturnResult ==
  ASSUME TypeOK, NEW p \in Proc, NEW r, Return(p, r)
  PROVE  \A q \in Proc : result'[q] = IF q = p THEN r ELSE result[q]
  BY DEF Return, TypeOK

(* Only the verdict step returns from a check *)
LEMMA CheckResults ==
  ASSUME Core, [Next]_vars, NEW q \in Proc
  PROVE  \/ result'[q] = result[q]
         \/ result'[q].op # "checkX509"
         \/ /\ CheckX509Verdict(q)
            /\ result'[q] = [op |-> "checkX509", verdict |-> Verdict(q, buf[q]),
                             key |-> call[q].key, tbs |-> TBSOf(buf[q]),
                             sig |-> SigOf(buf[q]), at |-> now]
  <1>0. TypeOK /\ Phase
    BY DEF Core
  <1>1. ASSUME NEW p \in Proc, NEW c \in Calls, Invocation(p, c)
        PROVE  result'[q] = result[q] \/ result'[q].op # "checkX509"
    <2>1. CASE SavePublicKey(p, c) \/ SaveKeyPair(p, c)
      BY <2>1 DEF SavePublicKey, SaveKeyPair, StartWrite
    <2>2. CASE ReadPublicKey(p, c)
      BY <1>0, <2>2, ExitResult, ReturnResult DEF ReadPublicKey
    <2>3. CASE ReadKeyPair(p, c)
      BY <1>0, <2>3, ExitResult, ReturnResult DEF ReadKeyPair
    <2>4. CASE GenerateX509(p, c)
      BY <1>0, <2>4, ExitResult DEF GenerateX509, StartWrite
    <2>5. CASE SignX509(p, c)
      BY <1>0, <2>5, SignCases, ExitResult DEF Signs, SignExits, StartWrite
    <2>6. CASE CheckX509(p, c)
      BY <1>0, <2>6, ExitResult DEF CheckX509
    <2> QED
      BY <1>1, <2>1, <2>2, <2>3, <2>4, <2>5, <2>6 DEF Invocation
  <1>2. ASSUME NEW p \in Proc, CheckX509Verdict(p)
        PROVE  \/ result'[q] = result[q]
               \/ result'[q].op # "checkX509"
               \/ /\ p = q
                  /\ result'[q] = [op |-> "checkX509", verdict |-> Verdict(q, buf[q]),
                                   key |-> call[q].key, tbs |-> TBSOf(buf[q]),
                                   sig |-> SigOf(buf[q]), at |-> now]
    BY <1>0, <1>2, ExitResult, ReturnResult DEF CheckX509Verdict
  <1>3. ASSUME NEW p \in Proc, OpenForWrite(p) \/ Tick \/ UNCHANGED vars
        PROVE  result'[q] = result[q]
    BY <1>3 DEF OpenForWrite, Tick, vars
  <1>4. ASSUME NEW p \in Proc, Flush(p) \/ \E n \in 0..4 : ShortFlush(p, n)
        PROVE  result'[q] = result[q] \/ result'[q].op # "checkX509"
    <2>1. pc[p] = "flush" /\ Return(p, [op |-> call[p].op])
      BY <1>4 DEF Flush, ShortFlush
    <2> QED
      BY <1>0, <2>1, SavedResult
  <1>5. ASSUME NEW p \in Proc, Crash(p) \/ Restart(p)
        PROVE  result'[q] = result[q] \/ result'[q].op # "checkX509"
    BY <1>0, <1>5 DEF Crash, Restart, NoResult, TypeOK
  <1>6. ASSUME NEW p \in Proc, FopenFails(p)
        PROVE  result'[q] = result[q] \/ result'[q].op # "checkX509"
    BY <1>0, <1>6, ExitResult DEF FopenFails
  <1> QED
    BY <1>1, <1>2, <1>3, <1>4, <1>5, <1>6 DEF Next, Continue, Failure

(* A VALID verdict on a document in memory is backed by a signature made *)
LEMMA ValidIsIssued ==
  ASSUME Core, NEW p \in Proc, CheckX509Verdict(p), Verdict(p, buf[p]) = "VALID"
  PROVE  \E i \in issued : i.sig = [by |-> call[p].key, over |-> TBSOf(buf[p])]
  <1>1. IsCertificate(buf[p]) /\ SignaturesIn(buf[p], issued)
    BY DEF Core, Phase, Traceable, CheckX509Verdict
  <1>2. SigOf(buf[p]) = {[by |-> call[p].key, over |-> TBSOf(buf[p])]}
    BY DEF Verdict, SignatureValid
  <1>3. 4 \in 1..Len(buf[p]) /\ Is(buf[p][4], "sig")
    BY <1>1 DEF IsCertificate, Framed, Core, TypeOK
  <1> QED
    BY <1>1, <1>2, <1>3 DEF SignaturesIn, SigOf

(* Authentic is kept by every step, given Core: a new VALID verdict is     *)
(* backed by a signature in the document judged, an old one by a history   *)
(* that only grows.                                                        *)
LEMMA AuthenticStep == Core /\ Authentic /\ [Next]_vars => Authentic'
  <1> SUFFICES ASSUME Core, Authentic, [Next]_vars, NEW q \in Proc,
                      result'[q].op = "checkX509", result'[q].verdict = "VALID"
               PROVE  \E i \in issued' : i.sig = [by |-> result'[q].key, over |-> result'[q].tbs]
    BY DEF Authentic
  <1>1. issued \subseteq issued'
    BY HistoryGrows
  <1>2. CASE result'[q] = result[q]
    BY <1>1, <1>2 DEF Authentic
  <1>3. CASE CheckX509Verdict(q)
             /\ result'[q] = [op |-> "checkX509", verdict |-> Verdict(q, buf[q]),
                              key |-> call[q].key, tbs |-> TBSOf(buf[q]),
                              sig |-> SigOf(buf[q]), at |-> now]
    <2>1. Verdict(q, buf[q]) = "VALID"
      BY <1>3
    <2>2. result'[q].key = call[q].key /\ result'[q].tbs = TBSOf(buf[q])
      BY <1>3
    <2> QED
      BY <1>1, <1>3, <2>1, <2>2, ValidIsIssued
  <1> QED
    BY <1>2, <1>3, CheckResults

(* checkX509 says VALID only of what signX509 signed with the key it is    *)
(* checked against (x509.c:52-73, 532-564), for every number of processes, *)
(* files, keys and names, however their reads and writes of shared files   *)
(* interleave, crash or fall short.                                        *)
THEOREM ValidIsAuthentic == Spec => []Authentic
  <1>1. Init => Authentic
    BY DEF Init, Authentic, NoResult
  <1> QED
    BY <1>1, CoreInvariant, AuthenticStep, PTL DEF Spec

-----------------------------------------------------------------------------
(* CompleteSaveKept *)

(* f still starts with what was saved in it *)
Kept(f) ==
  last[f] # None =>
    Len(file[f]) >= Len(last[f]) /\ \A i \in 1..Len(last[f]) : file[f][i] = last[f][i]

(* A file that a step does not write keeps its saved document.             *)
LEMMA KeptUnlessWritten ==
  ASSUME CompleteSaveKept, NEW f \in File, UNCHANGED <<file, last>> \/ last'[f] = None
  PROVE  Kept(f)'
  BY DEF CompleteSaveKept, Kept

(* A step that writes the file of p's call leaves the other files alone *)
LEMMA KeptElsewhere ==
  ASSUME TypeOK, CompleteSaveKept, NEW g \in File, NEW x, NEW y,
         file' = [file EXCEPT ![g] = x], last' = [last EXCEPT ![g] = y], Kept(g)'
  PROVE  CompleteSaveKept'
  <1>1. ASSUME NEW f \in File \ {g} PROVE Kept(f)'
    <2>1. file'[f] = file[f] /\ last'[f] = last[f]
      BY DEF TypeOK
    <2> QED
      BY <2>1 DEF CompleteSaveKept, Kept
  <1>2. \A f \in File : Kept(f)'
    BY <1>1
  <1> QED
    BY <1>2 DEF CompleteSaveKept, Kept

(* CompleteSaveKept is kept by every step, given Core: a save that         *)
(* completes puts its whole document at the front of whatever is there, a  *)
(* truncation or a short write forgets the saved document in the same      *)
(* step.                                                                   *)
LEMMA KeptStep == Core /\ CompleteSaveKept /\ [Next]_vars => CompleteSaveKept'
  <1> SUFFICES ASSUME Core, CompleteSaveKept, [Next]_vars PROVE CompleteSaveKept'
    OBVIOUS
  <1>0. TypeOK /\ Phase
    BY DEF Core
  <1>1. CASE UNCHANGED <<file, last>>
    BY <1>1 DEF CompleteSaveKept
  <1>2. ASSUME NEW p \in Proc, OpenForWrite(p) PROVE CompleteSaveKept'
    <2>1. PICK g \in File : g = call[p].fname
      BY <1>0, <1>2, CallTypes DEF OpenForWrite, TypeOK
    <2>2. file' = [file EXCEPT ![g] = <<>>] /\ last' = [last EXCEPT ![g] = None]
      BY <1>2, <2>1 DEF OpenForWrite
    <2>3. Kept(g)'
      BY <1>0, <2>2, KeptUnlessWritten DEF TypeOK
    <2> QED
      BY <1>0, <2>2, <2>3, KeptElsewhere
  <1>3. ASSUME NEW p \in Proc, Flush(p) PROVE CompleteSaveKept'
    <2>1. PICK g \in File : g = call[p].fname
      BY <1>0, <1>3, SavedResult DEF Flush
    <2>2. PICK old \in Seq(Block), doc \in Seq(Block) : old = file[g] /\ doc = buf[p]
      BY <1>0, <2>1 DEF TypeOK
    <2>3. /\ Len(Overlay(doc, old)) >= Len(doc)
          /\ \A i \in 1..Len(doc) : Overlay(doc, old)[i] = doc[i]
      BY <2>2, OverlayType
    <2>4. file' = [file EXCEPT ![g] = Overlay(doc, old)] /\ last' = [last EXCEPT ![g] = doc]
      BY <1>3, <2>1, <2>2 DEF Flush
    <2>5. file'[g] = Overlay(doc, old) /\ last'[g] = doc
      BY <1>0, <2>1, <2>4 DEF TypeOK
    <2>6. Kept(g)'
      BY <2>3, <2>5 DEF Kept
    <2> QED
      BY <1>0, <2>4, <2>6, KeptElsewhere
  <1>4. ASSUME NEW p \in Proc, NEW n \in 0..4, ShortFlush(p, n) PROVE CompleteSaveKept'
    <2>1. PICK g \in File : g = call[p].fname
      BY <1>0, <1>4, SavedResult DEF ShortFlush
    <2>2. PICK new : file' = [file EXCEPT ![g] = new]
      BY <1>4, <2>1 DEF ShortFlush
    <2>3. last' = [last EXCEPT ![g] = None]
      BY <1>4, <2>1 DEF ShortFlush
    <2>4. Kept(g)'
      BY <1>0, <2>3, KeptUnlessWritten DEF TypeOK
    <2> QED
      BY <1>0, <2>2, <2>3, <2>4, KeptElsewhere
  <1>5. ASSUME NEW p \in Proc, NEW c \in Calls, Invocation(p, c) PROVE UNCHANGED <<file, last>>
    BY <1>5 DEF Invocation, SavePublicKey, SaveKeyPair, ReadPublicKey, ReadKeyPair,
                GenerateX509, SignX509, CheckX509, Invoke, disk
  <1>6. ASSUME NEW p \in Proc, CheckX509Verdict(p) \/ FopenFails(p) \/ Crash(p) \/ Restart(p)
        PROVE  UNCHANGED <<file, last>>
    BY <1>6 DEF CheckX509Verdict, FopenFails, Crash, Restart, disk
  <1>7. ASSUME Tick \/ UNCHANGED vars PROVE UNCHANGED <<file, last>>
    BY <1>7 DEF Tick, vars, disk
  <1> QED
    BY <1>1, <1>2, <1>3, <1>4, <1>5, <1>6, <1>7 DEF Next, Continue, Failure

(* A document saved completely stays at the front of its file until the    *)
(* next truncation or short write of that file (keystore.c:14-44,          *)
(* x509.c:78-88), even while other processes have the file open for        *)
(* writing.                                                                *)
THEOREM SavesAreKept == Spec => []CompleteSaveKept
  <1>1. Init => CompleteSaveKept
    BY DEF Init, CompleteSaveKept
  <1> QED
    BY <1>1, CoreInvariant, KeptStep, PTL DEF Spec

-----------------------------------------------------------------------------
(* SavesAccepted, which holds with crashes and short writes.               *)

(* A completely saved document of its kind would have been read.           *)
LEMMA SavedWouldBeRead ==
  ASSUME Core, CompleteSaveKept, NEW f \in File
  PROVE  /\ IsPublicKey(last[f]) => IsPublicKey(file[f])
         /\ IsKeyPair(last[f]) => IsKeyPair(file[f])
         /\ IsCertificate(last[f]) => IsCertificate(file[f])
  <1>1. last[f] \in Seq(Block) /\ file[f] \in Seq(Block)
    BY DEF Core, TypeOK
  <1>2. Len(last[f]) > 0 =>
          Len(file[f]) >= Len(last[f]) /\ \A i \in 1..Len(last[f]) : file[f][i] = last[f][i]
    BY <1>1, EmptySeq DEF CompleteSaveKept, None
  <1>3. ASSUME NEW n \in {3, 4, 5}, Len(last[f]) >= n
        PROVE  Len(file[f]) >= n /\ \A i \in 1..n : file[f][i] = last[f][i]
    BY <1>1, <1>2, <1>3
  <1>4. IsPublicKey(last[f]) => IsPublicKey(file[f])
    BY <1>3 DEF IsPublicKey, Framed
  <1>5. IsKeyPair(last[f]) => IsKeyPair(file[f])
    BY <1>3 DEF IsKeyPair, Framed
  <1>6. IsCertificate(last[f]) => IsCertificate(file[f])
    BY <1>3 DEF IsCertificate, Framed
  <1> QED
    BY <1>4, <1>5, <1>6

(* The reader in c refuses doc *)
Refuses(c, doc) ==
  CASE c.op = "readPublicKey" -> ~IsPublicKey(doc)
    [] c.op = "readKeyPair" -> ~IsKeyPair(doc)
    [] OTHER -> ~IsCertificate(doc)

LEMMA AcceptedStep ==
  ASSUME Core, CompleteSaveKept, SavesAccepted, [Next]_vars
  PROVE  SavesAccepted'
  <1> SUFFICES ASSUME NEW q \in Proc, result'[q].op = "exit", result'[q].why = "file"
               PROVE  Refuses(result'[q].call, result'[q].seen)
    BY DEF SavesAccepted, Refuses
  <1>0. TypeOK /\ Phase
    BY DEF Core
  <1>1. CASE result'[q] = result[q]
    BY <1>1 DEF SavesAccepted, Refuses
  <1>2. ASSUME NEW p \in Proc, NEW c, NEW why, Exit(p, c, why),
               why = "file" => Refuses(c, last[c.fname])
        PROVE  Refuses(result'[q].call, result'[q].seen)
    <2>1. \/ result'[q] = result[q]
          \/ /\ result'[q].op = "exit" /\ result'[q].call = c
             /\ result'[q].why = why /\ result'[q].seen = last[c.fname]
      BY <1>0, <1>2, ExitResult
    <2> QED
      BY <1>1, <1>2, <2>1
  <1>3. ASSUME NEW p \in Proc, NEW r, Return(p, r), r.op # "exit"
        PROVE  Refuses(result'[q].call, result'[q].seen)
    BY <1>0, <1>1, <1>3, ReturnResult
  <1>4. ASSUME NEW p \in Proc, NEW c \in Calls, Invocation(p, c)
        PROVE  Refuses(result'[q].call, result'[q].seen)
    <2>0. c.fname \in File
      BY CallTypes
    <2>1. CASE SavePublicKey(p, c) \/ SaveKeyPair(p, c)
      BY <1>1, <2>1 DEF SavePublicKey, SaveKeyPair, StartWrite
    <2>2. CASE ReadPublicKey(p, c)
      <3>1. CASE IsPublicKey(file[c.fname])
        BY <1>3, <2>2, <3>1 DEF ReadPublicKey
      <3>2. CASE ~IsPublicKey(file[c.fname])
        <4>1. Exit(p, c, "file") /\ c.op = "readPublicKey"
          BY <2>2, <3>2 DEF ReadPublicKey, Invoke
        <4>2. Refuses(c, last[c.fname])
          BY <2>0, <3>2, <4>1, SavedWouldBeRead DEF Refuses
        <4> QED
          BY <1>2, <4>1, <4>2
      <3> QED
        BY <3>1, <3>2
    <2>3. CASE ReadKeyPair(p, c)
      <3>1. CASE IsKeyPair(file[c.fname])
        BY <1>3, <2>3, <3>1 DEF ReadKeyPair
      <3>2. CASE ~IsKeyPair(file[c.fname])
        <4>1. Exit(p, c, "file") /\ c.op = "readKeyPair"
          BY <2>3, <3>2 DEF ReadKeyPair, Invoke
        <4>2. Refuses(c, last[c.fname])
          BY <2>0, <3>2, <4>1, SavedWouldBeRead DEF Refuses
        <4> QED
          BY <1>2, <4>1, <4>2
      <3> QED
        BY <3>1, <3>2
    <2>4. CASE GenerateX509(p, c)
      <3>1. CASE Exit(p, c, "name")
        BY <1>2, <3>1
      <3>2. CASE UNCHANGED result
        BY <1>1, <3>2
      <3> QED
        BY <2>4, <3>1, <3>2 DEF GenerateX509, StartWrite
    <2>5. CASE SignX509(p, c)
      <3>1. c.op = "signX509"
        BY <2>5 DEF SignX509, Invoke
      <3>2. CASE Signs(p, c)
        BY <1>1, <3>2 DEF Signs, StartWrite
      <3>3. CASE SignExits(p, c)
        <4>1. PICK why \in Reason : Exit(p, c, why) /\ (why = "file" => ~IsCertificate(file[c.fname]))
          BY <3>3 DEF SignExits
        <4>2. why = "file" => Refuses(c, last[c.fname])
          BY <2>0, <3>1, <4>1, SavedWouldBeRead DEF Refuses
        <4> QED
          BY <1>2, <4>1, <4>2
      <3> QED
        BY <2>5, <3>2, <3>3, SignCases
    <2>6. CASE CheckX509(p, c)
      <3>1. CASE IsCertificate(file[c.fname])
        BY <1>1, <2>6, <3>1 DEF CheckX509
      <3>2. CASE ~IsCertificate(file[c.fname])
        <4>1. Exit(p, c, "file") /\ c.op = "checkX509"
          BY <2>6, <3>2 DEF CheckX509, Invoke
        <4>2. Refuses(c, last[c.fname])
          BY <2>0, <3>2, <4>1, SavedWouldBeRead DEF Refuses
        <4> QED
          BY <1>2, <4>1, <4>2
      <3> QED
        BY <3>1, <3>2
    <2> QED
      BY <1>4, <2>1, <2>2, <2>3, <2>4, <2>5, <2>6 DEF Invocation
  <1>5. ASSUME NEW p \in Proc, CheckX509Verdict(p)
        PROVE  Refuses(result'[q].call, result'[q].seen)
    <2>1. CASE Exit(p, call[p], "number")
      BY <1>2, <2>1
    <2>2. CASE Return(p, [op |-> "checkX509", verdict |-> Verdict(p, buf[p]), key |-> call[p].key,
                          tbs |-> TBSOf(buf[p]), sig |-> SigOf(buf[p]), at |-> now])
      BY <1>3, <2>2
    <2> QED
      BY <1>5, <2>1, <2>2 DEF CheckX509Verdict
  <1>6. ASSUME NEW p \in Proc, Flush(p) \/ \E n \in 0..4 : ShortFlush(p, n)
        PROVE  Refuses(result'[q].call, result'[q].seen)
    <2>1. pc[p] = "flush" /\ Return(p, [op |-> call[p].op])
      BY <1>6 DEF Flush, ShortFlush
    <2>2. call[p].op # "exit"
      BY <1>0, <2>1, SavedResult
    <2> QED
      BY <1>3, <2>1, <2>2
  <1>7. ASSUME NEW p \in Proc, FopenFails(p)
        PROVE  Refuses(result'[q].call, result'[q].seen)
    BY <1>2, <1>7 DEF FopenFails
  <1>8. ASSUME NEW p \in Proc, Crash(p) \/ Restart(p)
        PROVE  result'[q] = result[q] \/ result'[q].op = "none"
    BY <1>0, <1>8 DEF Crash, Restart, NoResult, TypeOK
  <1>9. ASSUME \/ Tick \/ UNCHANGED vars \/ \E p \in Proc : OpenForWrite(p)
        PROVE  result'[q] = result[q]
    BY <1>9 DEF OpenForWrite, Tick, vars
  <1> QED
    BY <1>1, <1>4, <1>5, <1>6, <1>7, <1>8, <1>9 DEF Next, Continue, Failure

(* A document saved completely, and not truncated or written short since,  *)
(* is not refused by a reader of its kind (keystore.c:46-142,              *)
(* x509.c:52-73, 90-120), whatever older documents have left behind it,    *)
(* for any number of processes, files and keys.                            *)
THEOREM SavedIsAccepted == Spec => []SavesAccepted
  <1>1. Init => SavesAccepted
    BY DEF Init, SavesAccepted, NoResult
  <1>2. Core /\ CompleteSaveKept /\ SavesAccepted /\ [Next]_vars => SavesAccepted'
    BY AcceptedStep
  <1> QED
    BY <1>1, <1>2, CoreInvariant, SavesAreKept, PTL DEF Spec

-----------------------------------------------------------------------------
(* While no write has been short, files and buffers hold whole documents,  *)
(* so that what is read was saved, what is signed was generated, and the   *)
(* files are the registers of FileRegister.                                *)

StartsWith(doc, saved) ==
  Len(doc) >= Len(saved) /\ \A i \in 1..Len(saved) : doc[i] = saved[i]

LEMMA Headers ==
  /\ \A a, b : [begin |-> a] = [begin |-> b] => a = b
  /\ \A k, j : [pub |-> k] = [pub |-> j] => k = j
  <1>1. \A a : [begin |-> a].begin = a /\ [pub |-> a].pub = a
    OBVIOUS
  <1> QED
    BY <1>1

LEMMA PublicKeyParts ==
  ASSUME NEW k
  PROVE  /\ Len(PublicKeyDoc(k)) = 3
         /\ PublicKeyDoc(k)[1] = [begin |-> "publicKey"] /\ PublicKeyDoc(k)[2] = [pub |-> k]
  BY DEF PublicKeyDoc

LEMMA KeyPairParts ==
  ASSUME NEW k, NEW j
  PROVE  /\ Len(KeyPairDoc(k, j)) = 4
         /\ KeyPairDoc(k, j)[1] = [begin |-> "keyPair"]
         /\ KeyPairDoc(k, j)[2] = [pub |-> k] /\ KeyPairDoc(k, j)[3] = [priv |-> j]
  BY DEF KeyPairDoc

LEMMA CertificateParts ==
  ASSUME NEW tbs, NEW sig
  PROVE  LET doc == CertificateDoc(tbs, sig)
         IN  /\ Len(doc) = 5 /\ Framed(doc, "certificate", 5)
             /\ TBSOf(doc) = [head |-> tbs.head, spki |-> tbs.spki] /\ SigOf(doc) = sig
  <1> DEFINE doc == CertificateDoc(tbs, sig)
  <1>1. /\ Len(doc) = 5
        /\ doc[1] = [begin |-> "certificate"] /\ doc[2] = [head |-> tbs.head]
        /\ doc[3] = [spki |-> tbs.spki] /\ doc[4] = [sig |-> sig]
        /\ doc[5] = [end |-> "certificate"]
    BY DEF CertificateDoc
  <1> HIDE DEF doc
  <1> QED
    BY <1>1 DEF Framed, TBSOf, SigOf, doc

(* A reader that accepts a file which starts with a whole document has     *)
(* read this document.                                                     *)
LEMMA ReadWhole ==
  ASSUME NEW doc \in Seq(Block), NEW saved \in Seq(Block), NEW ms,
         Whole(saved, ms), StartsWith(doc, saved)
  PROVE  /\ IsPublicKey(doc) => saved = PublicKeyDoc(doc[2].pub)
         /\ IsKeyPair(doc) => saved = KeyPairDoc(doc[2].pub, doc[3].priv) /\ doc[2].pub = doc[3].priv
         /\ IsCertificate(doc) =>
              /\ WholeCertificate(saved, ms) /\ SubSeq(doc, 1, 5) = saved
              /\ TBSOf(doc) = TBSOf(saved) /\ SigOf(doc) = SigOf(saved)
  <1>1. /\ IsPublicKey(doc) => doc[1] = [begin |-> "publicKey"]
        /\ IsKeyPair(doc) => doc[1] = [begin |-> "keyPair"]
        /\ IsCertificate(doc) => doc[1] = [begin |-> "certificate"]
    BY DEF IsPublicKey, IsKeyPair, IsCertificate, Framed
  <1>2. ASSUME NEW k \in Key, saved = PublicKeyDoc(k)
        PROVE  doc[1] = [begin |-> "publicKey"] /\ doc[2].pub = k
    <2>1. Len(saved) = 3 /\ saved[1] = [begin |-> "publicKey"] /\ saved[2] = [pub |-> k]
      BY <1>2, PublicKeyParts
    <2>2. doc[1] = saved[1] /\ doc[2] = saved[2]
      BY <2>1 DEF StartsWith
    <2> QED
      BY <2>1, <2>2
  <1>3. ASSUME NEW k \in Key, saved = KeyPairDoc(k, k)
        PROVE  doc[1] = [begin |-> "keyPair"] /\ doc[2].pub = k /\ doc[3].priv = k
    <2>1. /\ Len(saved) = 4 /\ saved[1] = [begin |-> "keyPair"]
          /\ saved[2] = [pub |-> k] /\ saved[3] = [priv |-> k]
      BY <1>3, KeyPairParts
    <2>2. doc[1] = saved[1] /\ doc[2] = saved[2] /\ doc[3] = saved[3]
      BY <2>1 DEF StartsWith
    <2> QED
      BY <2>1, <2>2
  <1>4. ASSUME WholeCertificate(saved, ms)
        PROVE  /\ doc[1] = [begin |-> "certificate"] /\ SubSeq(doc, 1, 5) = saved
               /\ TBSOf(doc) = TBSOf(saved) /\ SigOf(doc) = SigOf(saved)
    <2>1. Len(saved) = 5 /\ saved[1] = [begin |-> "certificate"]
      BY <1>4, CertificateParts DEF WholeCertificate, Framed
    <2>2. Len(doc) >= 5 /\ \A i \in 1..5 : doc[i] = saved[i]
      BY <2>1 DEF StartsWith
    <2>3. SubSeq(doc, 1, 5) = saved
      <3>1. SubSeq(doc, 1, 5) = [i \in 1..5 |-> doc[i]]
        BY <2>2, SubSeqProperties
      <3>2. saved = [i \in 1..5 |-> saved[i]]
        BY <2>1, LenProperties
      <3> QED
        BY <2>2, <3>1, <3>2
    <2> QED
      BY <2>1, <2>2, <2>3 DEF TBSOf, SigOf
  <1>5. CASE \E k \in Key : saved = PublicKeyDoc(k)
    BY <1>1, <1>2, <1>5, Headers
  <1>6. CASE \E k \in Key : saved = KeyPairDoc(k, k)
    BY <1>1, <1>3, <1>6, Headers
  <1>7. CASE WholeCertificate(saved, ms)
    BY <1>1, <1>4, <1>7, Headers
  <1> QED
    BY <1>5, <1>6, <1>7 DEF Whole

LEMMA WholeNotEmpty ==
  ASSUME NEW doc, NEW ms, Whole(doc, ms)
  PROVE  doc # None
  <1>1. CASE WholeCertificate(doc, ms)
    <2>1. Len(doc) = 5
      BY <1>1, CertificateParts DEF WholeCertificate
    <2> QED
      BY <2>1, EmptySeq DEF None
  <1>2. CASE \E k \in Key : doc = PublicKeyDoc(k) \/ doc = KeyPairDoc(k, k)
    <2>1. PICK k \in Key : doc = PublicKeyDoc(k) \/ doc = KeyPairDoc(k, k)
      BY <1>2
    <2>2. Len(PublicKeyDoc(k)) = 3 /\ Len(KeyPairDoc(k, k)) = 4
      <3>1. Len(PublicKeyDoc(k)) = 3
        BY PublicKeyParts
      <3>2. Len(KeyPairDoc(k, k)) = 4
        BY KeyPairParts
      <3> QED
        BY <3>1, <3>2
    <2>3. Len(doc) = 3 \/ Len(doc) = 4
      BY <2>1, <2>2
    <2>4. Len(doc) # 0
      BY <2>3
    <2> QED
      BY <2>4, EmptySeq DEF None
  <1> QED
    BY <1>1, <1>2 DEF Whole

LEMMA WholeKept ==
  ASSUME NEW doc, NEW ms, NEW more, ms \subseteq more, Whole(doc, ms)
  PROVE  Whole(doc, more)
  BY DEF Whole, WholeCertificate, GeneratedIn

(* What a reader finds, when no write has been short                       *)
LEMMA FileIsWhole ==
  ASSUME Core, CompleteSaveKept, Untorn, ~torn, NEW f \in File, Len(file[f]) > 0
  PROVE  /\ last[f] # None /\ Whole(last[f], made) /\ StartsWith(file[f], last[f])
         /\ file[f] \in Seq(Block) /\ last[f] \in Seq(Block)
  <1>1. Whole(last[f], made)
    BY EmptySeq DEF Untorn
  <1>2. last[f] # None
    BY <1>1, WholeNotEmpty
  <1> QED
    BY <1>1, <1>2 DEF CompleteSaveKept, StartsWith, Core, TypeOK
-----------------------------------------------------------------------------
(* Untorn *)

LEMMA UntornLocal ==
  ASSUME TypeOK, Untorn, NEW p \in Proc, NEW l \in PC, NEW doc \in Seq(Block), Goto(p, l, doc),
         made \subseteq made', ~torn' => ~torn,
         ~torn' /\ l \in {"open", "flush", "verdict"} => Whole(doc, made'),
         ~torn' => \A f \in File :
           \/ file'[f] = file[f] /\ last'[f] = last[f]
           \/ Whole(last'[f], made')
           \/ last'[f] = None /\ file'[f] = <<>>
  PROVE  Untorn'
  <1> SUFFICES ASSUME ~torn'
               PROVE  /\ \A f \in File :
                           Whole(last'[f], made') \/ (last'[f] = None /\ file'[f] = <<>>)
                      /\ \A q \in Proc : pc'[q] \in {"open", "flush", "verdict"} =>
                                           Whole(buf'[q], made')
    BY DEF Untorn
  <1>1. \A f \in File : Whole(last'[f], made') \/ (last'[f] = None /\ file'[f] = <<>>)
    BY WholeKept DEF Untorn
  <1>2. /\ pc'[p] = l /\ buf'[p] = doc
        /\ \A q \in Proc \ {p} : pc'[q] = pc[q] /\ buf'[q] = buf[q]
    BY GotoTypes
  <1>3. ASSUME NEW q \in Proc, pc'[q] \in {"open", "flush", "verdict"}
        PROVE  Whole(buf'[q], made')
    <2>1. CASE q = p
      BY <1>2, <1>3, <2>1
    <2>2. CASE q # p
      BY <1>2, <1>3, <2>2, WholeKept DEF Untorn
    <2> QED
      BY <2>1, <2>2
  <1> QED
    BY <1>1, <1>3

(* A step that leaves the disk alone                                       *)
LEMMA UntornInMemory ==
  ASSUME TypeOK, Untorn, NEW p \in Proc, NEW l \in PC, NEW doc \in Seq(Block), Goto(p, l, doc),
         made \subseteq made', UNCHANGED <<file, last, torn>>,
         ~torn /\ l \in {"open", "flush", "verdict"} => Whole(doc, made')
  PROVE  Untorn'
  BY UntornLocal

LEMMA UntornEnded ==
  ASSUME TypeOK, Untorn, NEW p \in Proc, Goto(p, "idle", <<>>) \/ Goto(p, "exited", <<>>),
         UNCHANGED <<file, last, torn, made>>
  PROVE  Untorn'
  <1>1. "idle" \in PC /\ "exited" \in PC /\ <<>> \in Seq(Block)
    BY EmptySeq DEF PC
  <1> QED
    BY <1>1, UntornInMemory

(* What signX509 writes is whole, and its signature is of a generated      *)
(* certificate.                                                            *)
LEMMA SignedWhole ==
  ASSUME Core, CompleteSaveKept, Untorn, ~torn, NEW c \in Calls, c.op = "signX509",
         IsCertificate(file[c.fname])
  PROVE  LET tbs == SignedTBS(c, file[c.fname])
             sig == NewSignature(c, file[c.fname])
         IN  /\ Whole(CertificateDoc(tbs, {sig}), made) /\ GeneratedIn(sig.over, made)
             /\ CertificateDoc(tbs, {sig}) \in Seq(Block)
  <1> DEFINE old == file[c.fname]
             tbs == SignedTBS(c, old)
             sig == NewSignature(c, old)
             doc == CertificateDoc(tbs, {sig})
  <1>1. c.fname \in File /\ c.key \in Key
    BY CallTypes
  <1>2. Len(old) > 0 /\ old \in Seq(Block)
    BY <1>1 DEF IsCertificate, Framed, Core, TypeOK
  <1>3. GeneratedIn(TBSOf(old), made)
    <2>1. WholeCertificate(last[c.fname], made) /\ TBSOf(old) = TBSOf(last[c.fname])
      BY <1>1, <1>2, FileIsWhole, ReadWhole
    <2> QED
      BY <2>1 DEF WholeCertificate
  <1>4. TBSOf(old) \in TBS /\ tbs \in TBS /\ sig \in Signature
    BY <1>2, ReadTypes, SignedTypes
  <1>5. tbs.spki = TBSOf(old).spki
        /\ [tbs.head EXCEPT !.issuer = Zeros] = [TBSOf(old).head EXCEPT !.issuer = Zeros]
    BY <1>4 DEF SignedTBS, TBS, CertHead
  <1>6. GeneratedIn(tbs, made)
    BY <1>3, <1>5 DEF GeneratedIn
  <1>7. sig = [by |-> c.key, over |-> tbs]
    BY DEF NewSignature
  <1> HIDE DEF tbs, sig
  <1>8. /\ Framed(doc, "certificate", 5) /\ SigOf(doc) = {sig}
        /\ TBSOf(doc) = tbs
    BY <1>4, CertificateParts DEF TBS
  <1>9. doc = CertificateDoc(TBSOf(doc), SigOf(doc))
    BY <1>8
  <1>10. \E k \in Key : SigOf(doc) = {[by |-> k, over |-> TBSOf(doc)]}
    BY <1>1, <1>7, <1>8
  <1>11. WholeCertificate(doc, made)
    BY <1>6, <1>8, <1>9, <1>10 DEF WholeCertificate
  <1>12. sig.over = tbs
    BY <1>7
  <1>13. doc \in Seq(Block)
    BY <1>4, DocTypes
  <1> QED
    BY <1>6, <1>11, <1>12, <1>13 DEF Whole, tbs, sig

LEMMA GeneratedWhole ==
  ASSUME NEW head \in CertHead, head.issuer = Zeros, NEW k \in Key, NEW m, NEW ms, m \in ms,
         m.head = head, m.spki = k
  PROVE  Whole(CertificateDoc([head |-> head, spki |-> k], {}), ms)
  <1> DEFINE tbs == [head |-> head, spki |-> k]
             doc == CertificateDoc(tbs, {})
  <1>1. tbs.head = head /\ tbs.spki = k /\ tbs = [head |-> tbs.head, spki |-> tbs.spki]
    OBVIOUS
  <1>2. [head EXCEPT !.issuer = Zeros] = head
    BY DEF CertHead
  <1>3. GeneratedIn(tbs, ms)
    BY <1>1, <1>2 DEF GeneratedIn
  <1> HIDE DEF tbs
  <1>4. Framed(doc, "certificate", 5) /\ SigOf(doc) = {} /\ TBSOf(doc) = tbs
    BY <1>1, CertificateParts
  <1>5. doc = CertificateDoc(TBSOf(doc), SigOf(doc))
    BY <1>4
  <1> QED
    BY <1>3, <1>4, <1>5 DEF Whole, WholeCertificate, tbs

LEMMA UntornInvocation ==
  ASSUME Core, CompleteSaveKept, Untorn, NEW p \in Proc, NEW c \in Calls, Invocation(p, c)
  PROVE  Untorn'
  <1>1. TypeOK /\ "open" \in PC /\ "verdict" \in PC
    BY DEF Core, PC
  <1>2. CASE SavePublicKey(p, c) \/ SaveKeyPair(p, c)
    <2>1. c.key \in Key /\ UNCHANGED <<file, last, torn, made>>
      BY <1>2, CallTypes DEF SavePublicKey, SaveKeyPair, Invoke, disk, history
    <2>2. PICK doc : Goto(p, "open", doc) /\ doc \in {PublicKeyDoc(c.key), KeyPairDoc(c.key, c.key)}
      BY <1>2 DEF SavePublicKey, SaveKeyPair, StartWrite
    <2>3. doc \in Seq(Block) /\ Whole(doc, made)
      BY <2>1, <2>2, DocTypes DEF Whole
    <2> QED
      BY <1>1, <2>1, <2>2, <2>3, UntornInMemory
  <1>3. CASE ReadPublicKey(p, c) \/ ReadKeyPair(p, c)
    <2>1. Goto(p, "idle", <<>>) \/ Goto(p, "exited", <<>>)
      BY <1>3 DEF ReadPublicKey, ReadKeyPair, Return, Exit
    <2>2. UNCHANGED <<file, last, torn, made>>
      BY <1>3 DEF ReadPublicKey, ReadKeyPair, Invoke, disk, history
    <2> QED
      BY <1>1, <2>1, <2>2, UntornEnded
  <1>4. CASE GenerateX509(p, c)
    <2>1. UNCHANGED <<file, last, torn>>
      BY <1>4 DEF GenerateX509, Invoke, disk
    <2>2. CASE Goto(p, "exited", <<>>) /\ UNCHANGED made
      BY <1>1, <2>1, <2>2, UntornEnded
    <2>3. CASE Len(c.name) <= NameField
      <3>1. PICK head \in CertHead :
              /\ head.issuer = Zeros /\ c.key \in Key
              /\ StartWrite(p, CertificateDoc([head |-> head, spki |-> c.key], {}))
              /\ made' = made \cup {[head |-> head, spki |-> c.key, name |-> c.name, at |-> now]}
        BY <1>1, <1>4, <2>3, GeneratedDoc
      <3> DEFINE m == [head |-> head, spki |-> c.key, name |-> c.name, at |-> now]
                 doc == CertificateDoc([head |-> head, spki |-> c.key], {})
      <3>2. m \in made' /\ m.head = head /\ m.spki = c.key /\ made \subseteq made'
        BY <3>1
      <3>3. [head |-> head, spki |-> c.key] \in TBS
        BY <3>1 DEF TBS
      <3>4. doc \in Seq(Block) /\ Goto(p, "open", doc)
        BY <3>1, <3>3, DocTypes DEF StartWrite
      <3> HIDE DEF m
      <3>5. Whole(doc, made')
        BY <3>1, <3>2, GeneratedWhole
      <3> HIDE DEF doc
      <3> QED
        BY <1>1, <2>1, <3>2, <3>4, <3>5, UntornInMemory
    <2> QED
      BY <1>4, <2>2, <2>3, CallTypes, FieldAssumption, SeqDef
         DEF GenerateX509, Invoke, Exit, Name
  <1>5. CASE SignX509(p, c)
    <2>1. UNCHANGED <<file, last, torn, made>> /\ c.op = "signX509"
      BY <1>5, SignCases DEF Invoke, disk
    <2>2. CASE Signs(p, c)
      <3> DEFINE doc == CertificateDoc(SignedTBS(c, file[c.fname]), {NewSignature(c, file[c.fname])})
      <3>1. Goto(p, "open", doc) /\ IsCertificate(file[c.fname])
        BY <2>2 DEF Signs, StartWrite
      <3>2. doc \in Seq(Block)
        <4>1. file[c.fname] \in Seq(Block)
          BY <1>1, CallTypes DEF TypeOK
        <4> QED
          BY <2>1, <3>1, <4>1, SignedTypes, DocTypes
      <3>3. ~torn => Whole(doc, made)
        BY <2>1, <3>1, SignedWhole
      <3> HIDE DEF doc
      <3> QED
        BY <1>1, <2>1, <3>1, <3>2, <3>3, UntornInMemory
    <2>3. CASE SignExits(p, c)
      BY <1>1, <2>1, <2>3, UntornEnded DEF SignExits, Exit
    <2> QED
      BY <1>5, <2>2, <2>3, SignCases
  <1>6. CASE CheckX509(p, c)
    <2>1. UNCHANGED <<file, last, torn, made>> /\ c.fname \in File /\ file[c.fname] \in Seq(Block)
      BY <1>1, <1>6, CallTypes DEF CheckX509, Invoke, disk, history, TypeOK
    <2>2. CASE IsCertificate(file[c.fname])
      <3> DEFINE doc == SubSeq(file[c.fname], 1, 5)
      <3>1. Goto(p, "verdict", doc)
        BY <1>6, <2>2 DEF CheckX509
      <3>2. Len(file[c.fname]) >= 5
        BY <2>2 DEF IsCertificate, Framed
      <3>3. doc \in Seq(Block)
        BY <2>1, <3>2
      <3>4. ~torn => Whole(doc, made)
        <4>1. ASSUME ~torn
              PROVE  WholeCertificate(last[c.fname], made) /\ doc = last[c.fname]
          BY <2>1, <2>2, <3>2, <4>1, FileIsWhole, ReadWhole, SMTT(30)
        <4> QED
          BY <4>1 DEF Whole
      <3> HIDE DEF doc
      <3> QED
        BY <1>1, <2>1, <3>1, <3>3, <3>4, UntornInMemory
    <2>3. CASE ~IsCertificate(file[c.fname])
      BY <1>1, <1>6, <2>1, <2>3, UntornEnded DEF CheckX509, Exit
    <2> QED
      BY <2>2, <2>3
  <1> QED
    BY <1>2, <1>3, <1>4, <1>5, <1>6 DEF Invocation

LEMMA UntornStep ==
  ASSUME Core, CompleteSaveKept, Untorn, [Next]_vars
  PROVE  Untorn'
  <1>0. TypeOK /\ Phase
    BY DEF Core
  <1>1. ASSUME NEW p \in Proc, NEW c \in Calls, Invocation(p, c)
        PROVE  Untorn'
    BY <1>1, UntornInvocation
  <1>2. ASSUME NEW p \in Proc, CheckX509Verdict(p) \/ FopenFails(p) \/ Crash(p) \/ Restart(p)
        PROVE  Untorn'
    <2>1. Goto(p, "idle", <<>>) \/ Goto(p, "exited", <<>>)
      BY <1>2 DEF CheckX509Verdict, FopenFails, Crash, Restart, Return, Exit
    <2>2. UNCHANGED <<file, last, torn, made>>
      BY <1>2 DEF CheckX509Verdict, FopenFails, Crash, Restart, disk, history
    <2> QED
      BY <1>0, <2>1, <2>2, UntornEnded
  <1>3. ASSUME NEW p \in Proc, OpenForWrite(p)
        PROVE  Untorn'
    <2>1. /\ Goto(p, "flush", buf[p]) /\ "flush" \in PC /\ buf[p] \in Seq(Block)
          /\ UNCHANGED <<torn, made>> /\ (~torn => Whole(buf[p], made))
      BY <1>0, <1>3 DEF OpenForWrite, PC, history, Untorn, TypeOK
    <2>2. /\ file' = [file EXCEPT ![call[p].fname] = <<>>]
          /\ last' = [last EXCEPT ![call[p].fname] = None]
      BY <1>3 DEF OpenForWrite
    <2>3. \A f \in File : \/ file'[f] = file[f] /\ last'[f] = last[f]
                          \/ last'[f] = None /\ file'[f] = <<>>
      BY <1>0, <2>2 DEF TypeOK
    <2> QED
      BY <1>0, <2>1, <2>3, UntornLocal
  <1>4. ASSUME NEW p \in Proc, Flush(p)
        PROVE  Untorn'
    <2>1. /\ Goto(p, "idle", <<>>) /\ "idle" \in PC /\ <<>> \in Seq(Block)
          /\ UNCHANGED <<torn, made>> /\ (~torn => Whole(buf[p], made))
      BY <1>0, <1>4, EmptySeq DEF Flush, Return, PC, history, Untorn
    <2>2. PICK new : file' = [file EXCEPT ![call[p].fname] = new]
      BY <1>4 DEF Flush
    <2>3. last' = [last EXCEPT ![call[p].fname] = buf[p]]
      BY <1>4 DEF Flush
    <2>4. \A f \in File : (file'[f] = file[f] /\ last'[f] = last[f]) \/ last'[f] = buf[p]
      BY <1>0, <2>2, <2>3 DEF TypeOK
    <2> QED
      BY <1>0, <2>1, <2>4, UntornLocal
  <1>5. ASSUME NEW p \in Proc, NEW n \in 0..4, ShortFlush(p, n)
        PROVE  Untorn'
    BY <1>5 DEF ShortFlush, Untorn
  <1>6. ASSUME Tick \/ UNCHANGED vars
        PROVE  Untorn'
    <2>1. UNCHANGED <<pc, buf, file, last, torn, made>>
      BY <1>6 DEF Tick, vars, disk, history
    <2> QED
      BY <2>1 DEF Untorn
  <1> QED
    BY <1>1, <1>2, <1>3, <1>4, <1>5, <1>6 DEF Next, Continue, Failure
-----------------------------------------------------------------------------
(* What is returned *)

LEMMA TornStays == [Next]_vars /\ torn => torn'
  BY DEF Next, Invocation, SavePublicKey, SaveKeyPair, ReadPublicKey, ReadKeyPair,
         GenerateX509, SignX509, CheckX509, Continue, Failure, CheckX509Verdict, OpenForWrite,
         Flush, ShortFlush, FopenFails, Crash, Restart, Tick, history, vars

(* A return of readPublicKey or readKeyPair is that of the reading step.   *)
LEMMA ReadResults ==
  ASSUME Core, [Next]_vars, NEW q \in Proc
  PROVE  \/ result'[q] = result[q]
         \/ result'[q].op \notin {"readPublicKey", "readKeyPair"}
         \/ \E c \in Calls :
              /\ IsPublicKey(file[c.fname]) /\ UNCHANGED torn
              /\ result'[q] = [op |-> "readPublicKey", fname |-> c.fname, seen |-> last[c.fname],
                               pub |-> file[c.fname][2].pub]
         \/ \E c \in Calls :
              /\ IsKeyPair(file[c.fname]) /\ UNCHANGED torn
              /\ result'[q] = [op |-> "readKeyPair", fname |-> c.fname, seen |-> last[c.fname],
                               pub |-> file[c.fname][2].pub, priv |-> file[c.fname][3].priv]
  <1>0. TypeOK /\ Phase
    BY DEF Core
  <1>1. ASSUME NEW p \in Proc, NEW c \in Calls, ReadPublicKey(p, c)
        PROVE  \/ result'[q] = result[q] \/ result'[q].op = "exit"
               \/ /\ IsPublicKey(file[c.fname]) /\ UNCHANGED torn
                  /\ result'[q] = [op |-> "readPublicKey", fname |-> c.fname, seen |-> last[c.fname],
                                   pub |-> file[c.fname][2].pub]
    <2>1. CASE IsPublicKey(file[c.fname])
      <3>1. Return(p, [op |-> "readPublicKey", fname |-> c.fname, seen |-> last[c.fname],
                       pub |-> file[c.fname][2].pub]) /\ UNCHANGED torn
        BY <1>1, <2>1 DEF ReadPublicKey, history
      <3> QED
        BY <1>0, <2>1, <3>1, ReturnResult
    <2>2. CASE ~IsPublicKey(file[c.fname])
      <3>1. Exit(p, c, "file")
        BY <1>1, <2>2 DEF ReadPublicKey
      <3> QED
        BY <1>0, <3>1, ExitResult
    <2> QED
      BY <2>1, <2>2
  <1>2. ASSUME NEW p \in Proc, NEW c \in Calls, ReadKeyPair(p, c)
        PROVE  \/ result'[q] = result[q] \/ result'[q].op = "exit"
               \/ /\ IsKeyPair(file[c.fname]) /\ UNCHANGED torn
                  /\ result'[q] = [op |-> "readKeyPair", fname |-> c.fname, seen |-> last[c.fname],
                                   pub |-> file[c.fname][2].pub, priv |-> file[c.fname][3].priv]
    <2>1. CASE IsKeyPair(file[c.fname])
      <3>1. Return(p, [op |-> "readKeyPair", fname |-> c.fname, seen |-> last[c.fname],
                       pub |-> file[c.fname][2].pub, priv |-> file[c.fname][3].priv]) /\ UNCHANGED torn
        BY <1>2, <2>1 DEF ReadKeyPair, history
      <3> QED
        BY <1>0, <2>1, <3>1, ReturnResult
    <2>2. CASE ~IsKeyPair(file[c.fname])
      <3>1. Exit(p, c, "file")
        BY <1>2, <2>2 DEF ReadKeyPair
      <3> QED
        BY <1>0, <3>1, ExitResult
    <2> QED
      BY <2>1, <2>2
  <1>3. CASE \E p \in Proc, c \in Calls : \/ SavePublicKey(p, c) \/ SaveKeyPair(p, c)
                                        \/ GenerateX509(p, c) \/ SignX509(p, c) \/ CheckX509(p, c)
    <2>1. result' = result \/ \E p \in Proc : \E c, why : Exit(p, c, why)
      BY <1>3, SignCases DEF SavePublicKey, SaveKeyPair, GenerateX509, Signs, SignExits, CheckX509,
                             StartWrite
    <2> QED
      BY <1>0, <2>1, ExitResult
  <1>4. ASSUME NEW p \in Proc, CheckX509Verdict(p)
        PROVE  result'[q] = result[q] \/ result'[q].op \in {"checkX509", "exit"}
    <2>1. \/ \E c, why : Exit(p, c, why)
          \/ Return(p, [op |-> "checkX509", verdict |-> Verdict(p, buf[p]), key |-> call[p].key,
                        tbs |-> TBSOf(buf[p]), sig |-> SigOf(buf[p]), at |-> now])
      BY <1>4 DEF CheckX509Verdict
    <2> QED
      BY <1>0, <2>1, ExitResult, ReturnResult
  <1>5. ASSUME NEW p \in Proc, Flush(p) \/ \E n \in 0..4 : ShortFlush(p, n)
        PROVE  result'[q] = result[q] \/ result'[q].op \notin {"readPublicKey", "readKeyPair"}
    <2>1. pc[p] = "flush" /\ Return(p, [op |-> call[p].op])
      BY <1>5 DEF Flush, ShortFlush
    <2> QED
      BY <1>0, <2>1, SavedResult
  <1>6. ASSUME NEW p \in Proc, Crash(p) \/ Restart(p)
        PROVE  result'[q] = result[q] \/ result'[q].op \notin {"readPublicKey", "readKeyPair"}
    BY <1>0, <1>6 DEF Crash, Restart, NoResult, TypeOK
  <1>7. ASSUME \/ Tick \/ UNCHANGED vars \/ \E p \in Proc : OpenForWrite(p)
        PROVE  result'[q] = result[q]
    BY <1>7 DEF OpenForWrite, Tick, vars
  <1>8. ASSUME NEW p \in Proc, FopenFails(p)
        PROVE  result'[q] = result[q] \/ result'[q].op = "exit"
    BY <1>0, <1>8, ExitResult DEF FopenFails
  <1> QED
    BY <1>1, <1>2, <1>3, <1>4, <1>5, <1>6, <1>7, <1>8 DEF Next, Invocation, Continue, Failure

LEMMA ReadsStep ==
  ASSUME Core, CompleteSaveKept, Untorn, ReadsReturnSaves, [Next]_vars
  PROVE  ReadsReturnSaves'
  <1> SUFFICES ASSUME ~torn', NEW q \in Proc
               PROVE  /\ result'[q].op = "readPublicKey" =>
                           result'[q].seen = PublicKeyDoc(result'[q].pub)
                      /\ result'[q].op = "readKeyPair" =>
                           /\ result'[q].pub = result'[q].priv
                           /\ result'[q].seen = KeyPairDoc(result'[q].pub, result'[q].priv)
    BY DEF ReadsReturnSaves
  <1>1. ~torn
    BY TornStays
  <1>2. CASE result'[q] = result[q]
    BY <1>1, <1>2 DEF ReadsReturnSaves
  <1>3. ASSUME NEW c \in Calls, IsPublicKey(file[c.fname]),
               result'[q] = [op |-> "readPublicKey", fname |-> c.fname, seen |-> last[c.fname],
                             pub |-> file[c.fname][2].pub]
        PROVE  result'[q].op = "readPublicKey" /\ result'[q].seen = PublicKeyDoc(result'[q].pub)
    <2>1. c.fname \in File /\ Len(file[c.fname]) > 0
      BY <1>3, CallTypes DEF IsPublicKey, Framed, Core, TypeOK
    <2>2. last[c.fname] = PublicKeyDoc(file[c.fname][2].pub)
      BY <1>1, <1>3, <2>1, FileIsWhole, ReadWhole
    <2> QED
      BY <1>3, <2>2
  <1>4. ASSUME NEW c \in Calls, IsKeyPair(file[c.fname]),
               result'[q] = [op |-> "readKeyPair", fname |-> c.fname, seen |-> last[c.fname],
                             pub |-> file[c.fname][2].pub, priv |-> file[c.fname][3].priv]
        PROVE  /\ result'[q].op = "readKeyPair" /\ result'[q].pub = result'[q].priv
               /\ result'[q].seen = KeyPairDoc(result'[q].pub, result'[q].priv)
    <2>1. c.fname \in File /\ Len(file[c.fname]) > 0
      BY <1>4, CallTypes DEF IsKeyPair, Framed, Core, TypeOK
    <2>2. /\ last[c.fname] = KeyPairDoc(file[c.fname][2].pub, file[c.fname][3].priv)
          /\ file[c.fname][2].pub = file[c.fname][3].priv
      BY <1>1, <1>4, <2>1, FileIsWhole, ReadWhole
    <2> QED
      BY <1>4, <2>2
  <1> QED
    BY <1>2, <1>3, <1>4, ReadResults

LEMMA OwnStep ==
  ASSUME Core, CompleteSaveKept, Untorn, OwnSignatureAccepted, [Next]_vars
  PROVE  OwnSignatureAccepted'
  <1> SUFFICES ASSUME NEW q \in Proc, ~torn', result'[q].op = "checkX509",
                      result'[q].verdict = "INVALID_SIGNATURE", NEW s \in result'[q].sig
               PROVE  s.by # result'[q].key
    BY DEF OwnSignatureAccepted
  <1>1. ~torn
    BY TornStays
  <1>2. CASE result'[q] = result[q]
    BY <1>1, <1>2 DEF OwnSignatureAccepted
  <1>3. CASE CheckX509Verdict(q)
             /\ result'[q] = [op |-> "checkX509", verdict |-> Verdict(q, buf[q]),
                              key |-> call[q].key, tbs |-> TBSOf(buf[q]),
                              sig |-> SigOf(buf[q]), at |-> now]
    <2>1. /\ Verdict(q, buf[q]) = "INVALID_SIGNATURE"
          /\ result'[q].key = call[q].key /\ s \in SigOf(buf[q])
      BY <1>3
    <2>2. IsCertificate(buf[q]) /\ buf[q] \in Seq(Block) /\ Whole(buf[q], made)
      BY <1>1, <1>3 DEF Core, TypeOK, Phase, Untorn, CheckX509Verdict
    <2>3. WholeCertificate(buf[q], made)
      <3>1. StartsWith(buf[q], buf[q])
        BY <2>2 DEF StartsWith
      <3> QED
        BY <2>2, <3>1, ReadWhole
    <2>4. PICK k \in Key : SigOf(buf[q]) = {[by |-> k, over |-> TBSOf(buf[q])]}
      BY <2>1, <2>3 DEF WholeCertificate
    <2>5. s.by = k
      BY <2>1, <2>4
    <2>6. ~SignatureValid(call[q].key, buf[q])
      BY <2>1 DEF Verdict
    <2>7. k # call[q].key
      BY <2>4, <2>6 DEF SignatureValid
    <2> QED
      BY <2>1, <2>5, <2>7
  <1> QED
    BY <1>2, <1>3, CheckResults

LEMMA BindingStep ==
  ASSUME Core, CompleteSaveKept, Untorn, GenuineBinding, [Next]_vars
  PROVE  GenuineBinding'
  <1> SUFFICES ASSUME ~torn', NEW i \in issued'
               PROVE  GeneratedIn(i.sig.over, made')
    BY DEF GenuineBinding
  <1>1. ~torn
    BY TornStays
  <1>2. made \subseteq made'
    BY HistoryGrows
  <1>3. CASE i \in issued
    BY <1>1, <1>2, <1>3 DEF GenuineBinding, GeneratedIn
  <1>4. ASSUME NEW p \in Proc, NEW c \in Calls, SignX509(p, c), i \notin issued
        PROVE  GeneratedIn(i.sig.over, made')
    <2>1. c.op = "signX509" /\ IsCertificate(file[c.fname])
          /\ i = [sig |-> NewSignature(c, file[c.fname]), name |-> c.name]
      BY <1>4, SignCases DEF Signs, SignExits, Invoke
    <2>2. GeneratedIn(NewSignature(c, file[c.fname]).over, made)
      BY <1>1, <2>1, SignedWhole
    <2>3. i.sig = NewSignature(c, file[c.fname])
      BY <2>1
    <2> QED
      BY <1>2, <2>2, <2>3 DEF GeneratedIn
  <1>5. ASSUME i \notin issued
        PROVE  \E p \in Proc, c \in Calls : SignX509(p, c)
    BY <1>5 DEF Next, Invocation, SavePublicKey, SaveKeyPair, ReadPublicKey, ReadKeyPair,
           GenerateX509, CheckX509, Continue, Failure, CheckX509Verdict, OpenForWrite,
           Flush, ShortFlush, FopenFails, Crash, Restart, Tick, history, vars
  <1> QED
    BY <1>3, <1>4, <1>5

LEMMA InvariantStep == IInv /\ [Next]_vars => IInv'
  <1> SUFFICES ASSUME IInv, [Next]_vars PROVE IInv'
    OBVIOUS
  <1>1. /\ Core /\ Authentic /\ CompleteSaveKept /\ Untorn
        /\ GenuineBinding /\ ReadsReturnSaves /\ OwnSignatureAccepted
    BY DEF IInv, Core
  <1>2. Core' /\ Authentic' /\ CompleteSaveKept'
    BY <1>1, CoreStep, AuthenticStep, KeptStep
  <1>3. Untorn' /\ GenuineBinding' /\ ReadsReturnSaves' /\ OwnSignatureAccepted'
    BY <1>1, UntornStep, BindingStep, ReadsStep, OwnStep
  <1> QED
    BY <1>2, <1>3 DEF IInv, Core

LEMMA InvariantInit == Init => IInv
  <1> SUFFICES ASSUME Init PROVE IInv
    OBVIOUS
  <1>1. Core
    BY CoreInit
  <1>2. Authentic /\ OwnSignatureAccepted /\ ReadsReturnSaves
    BY DEF Init, Authentic, OwnSignatureAccepted, ReadsReturnSaves, NoResult
  <1>3. CompleteSaveKept /\ Untorn /\ GenuineBinding
    BY DEF Init, CompleteSaveKept, Untorn, GenuineBinding, None
  <1> QED
    BY <1>1, <1>2, <1>3 DEF IInv, Core

(* The inductive invariant of the key store and the certificate code.      *)
THEOREM Invariant == Spec => []IInv
  BY InvariantInit, InvariantStep, PTL DEF Spec

(* Without short writes a signature binds the subject, the dates and the   *)
(* key of one certificate that generateX509 made (x509.c:36-50, 470-530),  *)
(* whatever other processes saved in its file before it was read.          *)
THEOREM BindingIsGenuine == Spec => []GenuineBinding
  <1>1. IInv => GenuineBinding
    BY DEF IInv
  <1> QED
    BY Invariant, <1>1, PTL

(* Without short writes the readers of keystore.c return whole documents   *)
(* that were saved.                                                        *)
THEOREM SavesAreRead == Spec => []ReadsReturnSaves
  <1>1. IInv => ReadsReturnSaves
    BY DEF IInv
  <1> QED
    BY Invariant, <1>1, PTL

(* Without short writes checkX509 does not refuse a certificate with the   *)
(* key that signed it.                                                     *)
THEOREM SignerAccepts == Spec => []OwnSignatureAccepted
  <1>1. IInv => OwnSignatureAccepted
    BY DEF IInv
  <1> QED
    BY Invariant, <1>1, PTL

-----------------------------------------------------------------------------
(* ValidWithinLife *)

(* Certificates are dated by the time they were made at.                   *)
Dated == \A m \in made : m.head.notAfter = Stamp(m.at + Life)

LEMMA Entry ==
  ASSUME NEW p \in Proc, NEW c \in Calls, GenerateX509(p, c), ~(Len(c.name) > NameField)
  PROVE  \E m : /\ made' = made \cup {m} /\ m.at = now /\ m.head.notAfter = Stamp(now + Life)
  <1> DEFINE NewHead(x) == [issuer |-> Zeros, notBefore |-> Stamp(now),
                            notAfter |-> Stamp(now + Life), subject |-> x]
  <1>1. PICK x \in SubjectFields(c.name) :
          made' = made \cup {[head |-> NewHead(x), spki |-> c.key, name |-> c.name, at |-> now]}
    BY DEF GenerateX509
  <1> DEFINE m == [head |-> NewHead(x), spki |-> c.key, name |-> c.name, at |-> now]
  <1>2. m.at = now /\ m.head.notAfter = Stamp(now + Life)
    OBVIOUS
  <1>3. made' = made \cup {m}
    BY <1>1
  <1> HIDE DEF m
  <1> QED
    BY <1>2, <1>3

LEMMA DatedStep == Dated /\ [Next]_vars => Dated'
  <1> SUFFICES ASSUME Dated, [Next]_vars PROVE Dated'
    OBVIOUS
  <1>1. ASSUME NEW p \in Proc, NEW c \in Calls, GenerateX509(p, c)
        PROVE  Dated'
    <2>1. CASE Len(c.name) > NameField
      BY <1>1, <2>1 DEF GenerateX509, Dated
    <2>2. CASE ~(Len(c.name) > NameField)
      BY <1>1, <2>2, Entry DEF Dated
    <2> QED
      BY <2>1, <2>2
  <1>2. CASE UNCHANGED made
    BY <1>2 DEF Dated
  <1> QED
    BY <1>1, <1>2 DEF Next, Invocation, SavePublicKey, SaveKeyPair, ReadPublicKey, ReadKeyPair,
         SignX509, CheckX509, Continue, Failure, CheckX509Verdict, OpenForWrite,
         Flush, ShortFlush, FopenFails, Crash, Restart, Tick, history, vars

LEMMA LifeStep ==
  ASSUME IInv, Dated, ValidWithinLife, [Next]_vars
  PROVE  ValidWithinLife'
  <1> SUFFICES ASSUME NEW q \in Proc, ~torn', result'[q].op = "checkX509",
                      result'[q].verdict = "VALID"
               PROVE  \E m \in made' :
                        /\ m.spki = result'[q].tbs.spki
                        /\ m.head = [result'[q].tbs.head EXCEPT !.issuer = Zeros]
                        /\ result'[q].at + Zone[q] <= m.at + Life
    BY DEF ValidWithinLife
  <1>0. TypeOK /\ Phase /\ Core /\ Untorn
    BY DEF IInv, Core
  <1>1. made \subseteq made' /\ ~torn
    BY HistoryGrows, TornStays
  <1>2. CASE result'[q] = result[q]
    BY <1>1, <1>2 DEF ValidWithinLife
  <1>3. CASE CheckX509Verdict(q)
             /\ result'[q] = [op |-> "checkX509", verdict |-> Verdict(q, buf[q]),
                              key |-> call[q].key, tbs |-> TBSOf(buf[q]),
                              sig |-> SigOf(buf[q]), at |-> now]
    <2> DEFINE tbs == TBSOf(buf[q])
    <2>1. IsCertificate(buf[q]) /\ buf[q] \in Seq(Block) /\ Whole(buf[q], made)
      BY <1>0, <1>1, <1>3 DEF TypeOK, Phase, Untorn, CheckX509Verdict
    <2>2. GeneratedIn(tbs, made)
      <3>1. StartsWith(buf[q], buf[q])
        BY <2>1 DEF StartsWith
      <3>2. WholeCertificate(buf[q], made)
        BY <2>1, <3>1, ReadWhole
      <3> QED
        BY <3>2 DEF WholeCertificate
    <2>3. tbs \in TBS /\ tbs.head = buf[q][2].head
      BY <2>1, ReadTypes DEF TBSOf
    <2>4. tbs.head \in CertHead
      BY <2>3 DEF TBS
    <2>5. PICK m \in made : m.spki = tbs.spki /\ m.head = [tbs.head EXCEPT !.issuer = Zeros]
      BY <2>2 DEF GeneratedIn
    <2> HIDE DEF tbs
    <2>6. tbs.head.notAfter = Stamp(m.at + Life)
      BY <2>4, <2>5 DEF Dated, CertHead
    <2>7. Verdict(q, buf[q]) = "VALID" /\ result'[q].tbs = tbs /\ result'[q].at = now
      BY <1>3 DEF tbs
    <2>8. ~(Instant(q, tbs.head.notAfter) < now)
      BY <2>3, <2>7 DEF Verdict, OutOfDate
    <2>9. /\ m.at \in Nat /\ Life \in Nat /\ Century \in Nat \ {0} /\ Zone[q] \in Int
          /\ now \in Nat /\ tbs.head.notAfter \in Int
      BY <1>0, <2>4, TimeAssumption, CenturyAssumption, ZoneAssumption DEF TypeOK, CertHead
    <2>10. Stamp(m.at + Life) <= m.at + Life
      BY <2>9 DEF Stamp
    <2>11. now + Zone[q] <= m.at + Life
      BY <2>6, <2>8, <2>9, <2>10 DEF Instant
    <2> QED
      BY <1>1, <2>5, <2>7, <2>11
  <1> QED
    BY <1>0, <1>2, <1>3, CheckResults

(* Without short writes no check says VALID later than a life after the    *)
(* certificate was made, give or take the zone, though stamps drop the     *)
(* century and name no zone (x509.c:158-185), and however the saves of     *)
(* several processes overlapped.                                           *)
THEOREM VerdictsAreInTime == Spec => []ValidWithinLife
  <1>1. Init => Dated /\ ValidWithinLife
    BY DEF Init, Dated, ValidWithinLife, NoResult
  <1>2. IInv /\ Dated /\ ValidWithinLife /\ [Next]_vars => ValidWithinLife'
    BY LifeStep
  <1> QED
    BY <1>1, <1>2, Invariant, DatedStep, PTL DEF Spec

-----------------------------------------------------------------------------
(* The files are registers.                                                *)

LEMMA RegisterInit == Init => Register!Init
  <1> SUFFICES ASSUME Init PROVE Register!Init
    OBVIOUS
  <1>1. \A p \in Proc : Got(p) = None
    BY DEF Init, Got, NoResult
  <1> QED
    BY <1>1 DEF Init, Register!Init

(* A step of one process changes nothing that another has read.            *)
Alone(p) ==
  \A q \in Proc \ {p} :
    pc'[q] = pc[q] /\ buf'[q] = buf[q] /\ call'[q] = call[q] /\ result'[q] = result[q]

LEMMA GotOfOne ==
  ASSUME NEW p \in Proc, Alone(p)
  PROVE  [q \in Proc |-> Got(q)]' = [[q \in Proc |-> Got(q)] EXCEPT ![p] = Got(p)']
  <1>1. \A q \in Proc \ {p} : Got(q)' = Got(q)
    BY DEF Got, Alone
  <1> QED
    BY <1>1

LEMMA Forgets ==
  ASSUME NEW p \in Proc, Alone(p), Got(p)' = None, UNCHANGED <<last, torn>>
  PROVE  Register!Next
  <1>1. Register!Forget(p)
    BY GotOfOne DEF Register!Forget
  <1> QED
    BY <1>1 DEF Register!Next

LEMMA Stutters ==
  ASSUME NEW p \in Proc, Alone(p), Got(p)' = Got(p), UNCHANGED <<last, torn>>
  PROVE  UNCHANGED Register!vars
  <1>1. [q \in Proc |-> Got(q)]' = [q \in Proc |-> Got(q)]
    BY GotOfOne
  <1> QED
    BY <1>1 DEF Register!vars

LEMMA Reads ==
  ASSUME NEW p \in Proc, Alone(p), UNCHANGED <<last, torn>>, NEW f \in File, NEW doc,
         Got(p)' = [fname |-> f, doc |-> doc], ~torn => last[f] # None /\ doc = last[f]
  PROVE  Register!Next
  <1>1. CASE torn
    <2>1. [q \in Proc |-> Got(q)]'[p] = Got(p)'
      OBVIOUS
    <2>2. Register!Read(p, f)
      BY <1>1, <2>1, GotOfOne DEF Register!Read
    <2> QED
      BY <2>2 DEF Register!Next
  <1>2. CASE ~torn
    <2>1. Register!Read(p, f)
      BY <1>2, GotOfOne DEF Register!Read
    <2> QED
      BY <2>1 DEF Register!Next
  <1> QED
    BY <1>1, <1>2

LEMMA AloneInvoked ==
  ASSUME TypeOK, NEW p \in Proc, NEW c \in Calls, NEW op, Invoke(p, op, c),
         NEW l \in PC, NEW doc \in Seq(Block), Goto(p, l, doc),
         \A q \in Proc \ {p} : result'[q] = result[q]
  PROVE  /\ Alone(p) /\ pc[p] = "idle" /\ pc'[p] = l /\ buf'[p] = doc /\ call'[p] = c
         /\ UNCHANGED last
  BY GotoTypes, InvokeTypes DEF Alone

LEMMA AloneExits ==
  ASSUME TypeOK, NEW p \in Proc, NEW c, NEW why, Exit(p, c, why),
         \A q \in Proc \ {p} : call'[q] = call[q]
  PROVE  Alone(p) /\ Got(p)' = None
  <1>1. /\ pc'[p] = "exited" /\ result'[p].op = "exit"
        /\ \A q \in Proc \ {p} : pc'[q] = pc[q] /\ buf'[q] = buf[q] /\ result'[q] = result[q]
    BY DEF Exit, Goto, TypeOK
  <1> QED
    BY <1>1 DEF Alone, Got

LEMMA AloneContinues ==
  ASSUME TypeOK, NEW p \in Proc, NEW l \in PC, NEW doc \in Seq(Block), Goto(p, l, doc),
         UNCHANGED call, NEW r, result' = [result EXCEPT ![p] = r]
  PROVE  Alone(p) /\ pc'[p] = l /\ result'[p] = r
  <1>1. result'[p] = r /\ \A q \in Proc \ {p} : result'[q] = result[q]
    BY DEF TypeOK
  <1> QED
    BY <1>1, GotoTypes DEF Alone

LEMMA RegisterInvocation ==
  ASSUME IInv, NEW p \in Proc, NEW c \in Calls, Invocation(p, c)
  PROVE  [Register!Next]_Register!vars
  <1>0. TypeOK /\ Core /\ CompleteSaveKept /\ Untorn /\ c.fname \in File
    BY CallTypes DEF IInv, Core
  <1>1. /\ UNCHANGED <<last, torn>>
        /\ \E op : Invoke(p, op, c)
    BY DEF Invocation, SavePublicKey, SaveKeyPair, ReadPublicKey, ReadKeyPair,
           GenerateX509, SignX509, CheckX509, Invoke, disk, history
  <1>2. /\ pc[p] = "idle" /\ call'[p] = c
        /\ \A q \in Proc \ {p} : call'[q] = call[q]
    BY <1>0, <1>1, InvokeTypes
  <1>3. ASSUME NEW why, Exit(p, c, why)
        PROVE  Register!Next
    BY <1>0, <1>1, <1>2, <1>3, AloneExits, Forgets
  <1>4. ASSUME NEW doc, StartWrite(p, doc)
        PROVE  UNCHANGED Register!vars
    <2>1. Alone(p) /\ pc'[p] = "open" /\ UNCHANGED result
      BY <1>0, <1>2, <1>4 DEF StartWrite, Goto, Alone, TypeOK
    <2>2. Got(p)' = Got(p)
      BY <1>2, <2>1 DEF Got
    <2> QED
      BY <1>1, <2>1, <2>2, Stutters
  <1>5. ASSUME NEW r, Return(p, r)
        PROVE  Alone(p) /\ pc'[p] = "idle" /\ result'[p] = r
    BY <1>0, <1>2, <1>5 DEF Return, Goto, Alone, TypeOK
  <1>6. CASE SavePublicKey(p, c) \/ SaveKeyPair(p, c)
    BY <1>4, <1>6 DEF SavePublicKey, SaveKeyPair
  <1>7. CASE ReadPublicKey(p, c)
    <2>1. CASE ~IsPublicKey(file[c.fname])
      BY <1>3, <1>7, <2>1 DEF ReadPublicKey
    <2>2. CASE IsPublicKey(file[c.fname])
      <3> DEFINE r == [op |-> "readPublicKey", fname |-> c.fname, seen |-> last[c.fname],
                       pub |-> file[c.fname][2].pub]
      <3>1. Alone(p) /\ pc'[p] = "idle" /\ result'[p] = r
        BY <1>5, <1>7, <2>2 DEF ReadPublicKey
      <3>2. Got(p)' = [fname |-> c.fname, doc |-> PublicKeyDoc(file[c.fname][2].pub)]
        BY <3>1 DEF Got
      <3>3. Len(file[c.fname]) > 0
        BY <2>2 DEF IsPublicKey, Framed
      <3>4. ~torn => last[c.fname] # None /\ PublicKeyDoc(file[c.fname][2].pub) = last[c.fname]
        BY <1>0, <2>2, <3>3, FileIsWhole, ReadWhole
      <3> QED
        BY <1>0, <1>1, <3>1, <3>2, <3>4, Reads
    <2> QED
      BY <2>1, <2>2
  <1>8. CASE ReadKeyPair(p, c)
    <2>1. CASE ~IsKeyPair(file[c.fname])
      BY <1>3, <1>8, <2>1 DEF ReadKeyPair
    <2>2. CASE IsKeyPair(file[c.fname])
      <3> DEFINE r == [op |-> "readKeyPair", fname |-> c.fname, seen |-> last[c.fname],
                       pub |-> file[c.fname][2].pub, priv |-> file[c.fname][3].priv]
                 doc == KeyPairDoc(file[c.fname][2].pub, file[c.fname][3].priv)
      <3>1. Alone(p) /\ pc'[p] = "idle" /\ result'[p] = r
        BY <1>5, <1>8, <2>2 DEF ReadKeyPair
      <3>2. Got(p)' = [fname |-> c.fname, doc |-> doc]
        BY <3>1 DEF Got
      <3>3. Len(file[c.fname]) > 0
        BY <2>2 DEF IsKeyPair, Framed
      <3>4. ~torn => last[c.fname] # None /\ doc = last[c.fname]
        BY <1>0, <2>2, <3>3, FileIsWhole, ReadWhole
      <3> QED
        BY <1>0, <1>1, <3>1, <3>2, <3>4, Reads
    <2> QED
      BY <2>1, <2>2
  <1>9. CASE GenerateX509(p, c) \/ SignX509(p, c)
    BY <1>3, <1>4, <1>9, SignCases DEF GenerateX509, Signs, SignExits
  <1>10. CASE CheckX509(p, c)
    <2>1. CASE ~IsCertificate(file[c.fname])
      BY <1>3, <1>10, <2>1 DEF CheckX509
    <2>2. CASE IsCertificate(file[c.fname])
      <3> DEFINE doc == SubSeq(file[c.fname], 1, 5)
      <3>1. Alone(p) /\ pc'[p] = "verdict" /\ buf'[p] = doc
        BY <1>0, <1>2, <1>10, <2>2 DEF CheckX509, Goto, Alone, TypeOK
      <3>2. Got(p)' = [fname |-> c.fname, doc |-> doc]
        BY <1>2, <3>1 DEF Got
      <3>3. Len(file[c.fname]) > 0
        BY <2>2 DEF IsCertificate, Framed
      <3>4. ~torn => last[c.fname] # None /\ doc = last[c.fname]
        BY <1>0, <2>2, <3>3, FileIsWhole, ReadWhole
      <3> QED
        BY <1>0, <1>1, <3>1, <3>2, <3>4, Reads
    <2> QED
      BY <2>1, <2>2
  <1> QED
    BY <1>6, <1>7, <1>8, <1>9, <1>10 DEF Invocation

LEMMA RegisterStep == IInv /\ [Next]_vars => [Register!Next]_Register!vars
  <1> SUFFICES ASSUME IInv, [Next]_vars PROVE [Register!Next]_Register!vars
    OBVIOUS
  <1>0. TypeOK /\ Phase /\ "idle" \in PC /\ "exited" \in PC /\ <<>> \in Seq(Block)
    BY EmptySeq DEF IInv, PC
  <1>1. ASSUME NEW p \in Proc, NEW c \in Calls, Invocation(p, c)
        PROVE  [Register!Next]_Register!vars
    BY <1>1, RegisterInvocation
  <1>2. ASSUME NEW p \in Proc, CheckX509Verdict(p)
        PROVE  [Register!Next]_Register!vars
    <2>1. UNCHANGED <<call, last, torn>>
      BY <1>2 DEF CheckX509Verdict, disk, history
    <2>2. ASSUME NEW c, NEW why, Exit(p, c, why)
          PROVE  Register!Next
      BY <1>0, <2>1, <2>2, AloneExits, Forgets
    <2>3. ASSUME NEW r, r.op = "checkX509", Return(p, r)
          PROVE  Register!Next
      <3>1. Alone(p) /\ pc'[p] = "idle" /\ result'[p] = r
        BY <1>0, <2>1, <2>3, AloneContinues DEF Return
      <3>2. Got(p)' = None
        BY <2>3, <3>1 DEF Got
      <3> QED
        BY <2>1, <3>1, <3>2, Forgets
    <2> QED
      BY <1>2, <2>2, <2>3 DEF CheckX509Verdict
  <1>3. ASSUME NEW p \in Proc, OpenForWrite(p)
        PROVE  [Register!Next]_Register!vars
    <2>1. /\ pc[p] = "open" /\ Goto(p, "flush", buf[p]) /\ UNCHANGED <<call, result, torn>>
          /\ last' = [last EXCEPT ![call[p].fname] = None] /\ call[p].fname \in File
      BY <1>0, <1>3, CallTypes DEF OpenForWrite, history, TypeOK
    <2>2. Alone(p) /\ pc'[p] = "flush"
      BY <1>0, <2>1 DEF Goto, Alone, TypeOK
    <2>3. Got(p)' = Got(p)
      BY <2>1, <2>2 DEF Got
    <2>4. [q \in Proc |-> Got(q)]' = [q \in Proc |-> Got(q)]
      BY <2>2, <2>3, GotOfOne
    <2>5. Register!Lose(p, call[p].fname)
      BY <2>1, <2>4 DEF Register!Lose
    <2> QED
      BY <2>1, <2>5 DEF Register!Next
  <1>4. ASSUME NEW p \in Proc, pc[p] = "flush", Return(p, [op |-> call[p].op]), UNCHANGED call
        PROVE  Alone(p) /\ Got(p)' = None /\ call[p].fname \in File
    <2>1. /\ call[p].fname \in File
          /\ call[p].op \in {"savePublicKey", "saveKeyPair", "generateX509", "signX509"}
      BY <1>0, <1>4, SavedResult
    <2>2. Alone(p) /\ pc'[p] = "idle" /\ result'[p] = [op |-> call[p].op]
      BY <1>0, <1>4, AloneContinues DEF Return
    <2> QED
      BY <2>1, <2>2 DEF Got
  <1>5. ASSUME NEW p \in Proc, Flush(p)
        PROVE  [Register!Next]_Register!vars
    <2>1. Alone(p) /\ Got(p)' = None /\ call[p].fname \in File
      BY <1>4, <1>5 DEF Flush
    <2>2. last' = [last EXCEPT ![call[p].fname] = buf[p]] /\ UNCHANGED torn
      BY <1>5 DEF Flush, history
    <2>3. last'[call[p].fname] = buf[p] /\ buf[p] \in Seq(Block)
      BY <1>0, <2>1, <2>2 DEF TypeOK
    <2>4. Register!Save(p, call[p].fname)
      BY <2>1, <2>2, <2>3, GotOfOne DEF Register!Save
    <2> QED
      BY <2>1, <2>4 DEF Register!Next
  <1>6. ASSUME NEW p \in Proc, NEW n \in 0..4, ShortFlush(p, n)
        PROVE  [Register!Next]_Register!vars
    <2>1. Alone(p) /\ Got(p)' = None /\ call[p].fname \in File
      BY <1>4, <1>6 DEF ShortFlush
    <2>2. last' = [last EXCEPT ![call[p].fname] = None] /\ torn' = TRUE
      BY <1>6 DEF ShortFlush
    <2>3. Register!Lose(p, call[p].fname)
      BY <2>1, <2>2, GotOfOne DEF Register!Lose
    <2> QED
      BY <2>1, <2>3 DEF Register!Next
  <1>7. ASSUME NEW p \in Proc, Crash(p) \/ Restart(p)
        PROVE  [Register!Next]_Register!vars
    <2>1. /\ UNCHANGED <<call, last, torn>> /\ result' = [result EXCEPT ![p] = NoResult]
          /\ Goto(p, "idle", <<>>) \/ Goto(p, "exited", <<>>)
      BY <1>7 DEF Crash, Restart, disk, history
    <2>2. Alone(p) /\ pc'[p] # "verdict" /\ result'[p] = NoResult
      BY <1>0, <2>1, AloneContinues
    <2>3. Got(p)' = None
      BY <2>2 DEF Got, NoResult
    <2> QED
      BY <2>1, <2>2, <2>3, Forgets
  <1>8. ASSUME NEW p \in Proc, FopenFails(p)
        PROVE  [Register!Next]_Register!vars
    <2>1. Exit(p, call[p], "fopen") /\ UNCHANGED <<call, last, torn>>
      BY <1>8 DEF FopenFails, disk, history
    <2> QED
      BY <1>0, <2>1, AloneExits, Forgets
  <1>9. ASSUME Tick \/ UNCHANGED vars
        PROVE  UNCHANGED Register!vars
    <2>1. UNCHANGED <<pc, call, buf, result, last, torn>>
      BY <1>9 DEF Tick, vars, disk, history
    <2>2. \A q \in Proc : Got(q)' = Got(q)
      BY <2>1 DEF Got
    <2> QED
      BY <2>1, <2>2 DEF Register!vars
  <1> QED
    BY <1>1, <1>2, <1>3, <1>5, <1>6, <1>7, <1>8, <1>9 DEF Next, Continue, Failure

(* The key store and the certificate code implement FileRegister: as long  *)
(* as no write is short, each read returns what the last completed save    *)
(* has put in its file, for any number of processes, files and keys.       *)
THEOREM FilesAreRegisters == Spec => IsRegister
  <1>1. IInv /\ [Next]_vars => [Register!Next]_Register!vars
    BY RegisterStep
  <1> QED
    BY Invariant, RegisterInit, <1>1, PTL DEF Spec, IsRegister, Register!Spec
=============================================================================
