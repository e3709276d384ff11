------------------------------ MODULE CertStore ------------------------------
(***************************************************************************)
(* Processes that save and read keys (keystore.c) and generate, sign and   *)
(* check certificates (x509.c) in files they share.  A call runs in        *)
(* the steps other processes can see: reading a file, fopen(fname,"w")     *)
(* which truncates it, and fclose which writes the stdio buffer.  Between  *)
(* any two of them another process may run, or this one may be killed;     *)
(* nothing locks a file, and no result of fprintf or fclose is looked at.  *)
(***************************************************************************)
EXTENDS PemFile

CONSTANTS Proc, File,
          Calls,      \* the calls the processes may make, a subset of Call
          Zone,       \* Zone[p]: local time minus UTC where p runs
          Life,       \* expiryDays
          PtrSize,    \* sizeof(subject), the size of a pointer
          Start,      \* the date of the first state, counted from the year 2000
          MaxTicks,   \* bound: the clock stops at Start + MaxTicks
          MaxCalls,   \* bound: calls in a behaviour
          MaxFaults   \* bound: crashes and short writes in a behaviour

Name == UNION {[1..n -> Char] : n \in 0..NameField+1}
Call ==
  [op : {"savePublicKey", "saveKeyPair", "checkX509"}, fname : File, key : Key]
    \cup [op : {"readPublicKey", "readKeyPair"}, fname : File]
    \cup [op : {"generateX509", "signX509"}, fname : File, key : Key, name : Name]

ASSUME CallsAssumption == \A c \in Calls : c \in Call
ASSUME ZoneAssumption == Zone \in [Proc -> Int]
ASSUME TimeAssumption == Life \in Nat /\ Start \in Nat /\ MaxTicks \in Nat
ASSUME SizeAssumption == PtrSize \in Nat \ {0}
ASSUME BoundAssumption == MaxCalls \in Nat /\ MaxFaults \in Nat

VARIABLES file,   \* what is on disk
          pc,     \* where each process is: see PC
          call,   \* the call it is in, or its last one
          buf,    \* the document it has read, or is about to write
          now,    \* time(NULL)
          result, \* what its last call returned or how it ended
          calls, faults,                  \* counted against the bounds
          last,   \* history: the document completely written to a file, if any
          made,   \* history: certificates generated
          issued, \* history: signatures made
          torn    \* history: some write has stored only part of a document

disk == <<file, last>>
history == <<made, issued, torn>>
vars == <<file, pc, call, buf, now, result, calls, faults, last, made, issued, torn>>

PC == {"idle", "open", "flush", "verdict", "exited"}
None == <<>>
NoResult == [op |-> "none"]
Init ==
  /\ file = [f \in File |-> <<>>]
  /\ last = [f \in File |-> None]
  /\ pc = [p \in Proc |-> "idle"]
  /\ call = [p \in Proc |-> NoResult]
  /\ buf = [p \in Proc |-> <<>>]
  /\ result = [p \in Proc |-> NoResult]
  /\ now = Start
  /\ calls = 0 /\ faults = 0
  /\ made = {} /\ issued = {} /\ torn = FALSE

(* Control of a process.  Operators whose names end in Mutant are plausible *)
(* slips of the definition after them; no specification uses them.         *)
InvokeMutant(p, op, c) == \* a file to be signed is opened for writing first
  /\ pc[p] = "idle" /\ calls < MaxCalls /\ c.op = op
  /\ calls' = calls + 1
  /\ call' = [call EXCEPT ![p] = c]
  /\ file' = IF op = "signX509" THEN [file EXCEPT ![c.fname] = <<>>] ELSE file
  /\ UNCHANGED <<now, faults, last>>

Invoke(p, op, c) ==
  /\ pc[p] = "idle" /\ calls < MaxCalls /\ c.op = op
  /\ calls' = calls + 1
  /\ call' = [call EXCEPT ![p] = c]
  /\ UNCHANGED <<now, faults, disk>>

Goto(p, l, doc) ==
  /\ pc' = [pc EXCEPT ![p] = l]
  /\ buf' = [buf EXCEPT ![p] = doc]

Return(p, r) == Goto(p, "idle", <<>>) /\ result' = [result EXCEPT ![p] = r]

(* exit(1): the call does not return.  why is what it gave up on: the file *)
(* it has read, a name, a number in rsa.c or bigmaths.c, or fopen.  seen   *)
(* is the document last saved completely to the file.                      *)
Reason == {"file", "name", "number", "fopen"}
Exit(p, c, why) ==
  /\ Goto(p, "exited", <<>>)
  /\ result' = [result EXCEPT ![p] = [op |-> "exit", call |-> c, why |-> why,
                                      seen |-> last[c.fname]]]

StartWrite(p, doc) == Goto(p, "open", doc) /\ UNCHANGED result

(* keystore.c *)
SavePublicKey(p, c) ==
  /\ Invoke(p, "savePublicKey", c)
  /\ StartWrite(p, PublicKeyDoc(c.key))
  /\ UNCHANGED history

SaveKeyPair(p, c) ==
  /\ Invoke(p, "saveKeyPair", c)
  /\ StartWrite(p, KeyPairDoc(c.key, c.key))
  /\ UNCHANGED history

ReadPublicKey(p, c) ==
  /\ Invoke(p, "readPublicKey", c)
  /\ IF IsPublicKey(file[c.fname])
     THEN Return(p, [op |-> "readPublicKey", fname |-> c.fname, seen |-> last[c.fname],
                     pub |-> file[c.fname][2].pub])
     ELSE Exit(p, c, "file")
  /\ UNCHANGED history

ReadKeyPair(p, c) ==
  /\ Invoke(p, "readKeyPair", c)
  /\ IF IsKeyPair(file[c.fname])
     THEN Return(p, [op |-> "readKeyPair", fname |-> c.fname, seen |-> last[c.fname],
                     pub |-> file[c.fname][2].pub, priv |-> file[c.fname][3].priv])
     ELSE Exit(p, c, "file")
  /\ UNCHANGED history

(* x509.c: memcpy(certif.tbsCertif.subject,subject,sizeof(subject)) copies *)
(* as many bytes as a pointer has, not as the name or the field; what lies *)
(* behind a shorter name's terminator is copied too, whatever it is.       *)
SubjectFields(name) ==
  {x \in Field : \A i \in 1..NameField :
     /\ i <= PtrSize /\ i <= Len(name) => x[i] = name[i]
     /\ (i > PtrSize \/ i = Len(name) + 1) => x[i] = Nul}

(* memcpy(certif->tbsCertif.issuer,issuer,strlen(issuer)) keeps the bytes  *)
(* of the field past the new name.                                         *)
IssuerField(field, name) ==
  [i \in 1..NameField |-> IF i <= Len(name) THEN name[i] ELSE field[i]]

GenerateX509(p, c) ==
  /\ Invoke(p, "generateX509", c)
  /\ IF Len(c.name) > NameField
     THEN Exit(p, c, "name") /\ UNCHANGED made
     ELSE \E subject \in SubjectFields(c.name) :
            LET head == [issuer |-> Zeros, notBefore |-> Stamp(now),
                         notAfter |-> Stamp(now + Life), subject |-> subject]
            IN  /\ StartWrite(p, CertificateDoc([head |-> head, spki |-> c.key], {}))
                /\ made' = made \cup {[head |-> head, spki |-> c.key, name |-> c.name, at |-> now]}
  /\ UNCHANGED <<issued, torn>>

SignedTBSMutant(c, doc) == \* the issuer's key in the place of the subject's
  [TBSOf(doc) EXCEPT !.head.issuer = IssuerField(@, c.name), !.spki = c.key]
SignedTBS(c, doc) ==
  [TBSOf(doc) EXCEPT !.head.issuer = IssuerField(@, c.name)]

NewSignatureMutant(c, doc) == [by |-> c.key, over |-> TBSOf(doc)] \* signed before the issuer is in
NewSignature(c, doc) == [by |-> c.key, over |-> SignedTBS(c, doc)]

(* x509ToAsn1 then signAsn1X509: the issuer is written into the TBS before *)
(* the TBS is encoded, hashed and signed.  decryptRSA may exit in          *)
(* bigNumMult, depending on the numbers.                                   *)
SignX509(p, c) ==
  /\ Invoke(p, "signX509", c)
  /\ LET doc == file[c.fname]
     IN  IF ~IsCertificate(doc) THEN Exit(p, c, "file") /\ UNCHANGED issued
         ELSE \/ /\ Len(c.name) <= NameField
                 /\ StartWrite(p, CertificateDoc(SignedTBS(c, doc), {NewSignature(c, doc)}))
                 /\ issued' = issued \cup {[sig |-> NewSignature(c, doc), name |-> c.name]}
              \/ /\ Exit(p, c, IF Len(c.name) > NameField THEN "name" ELSE "number")
                 /\ UNCHANGED issued
  /\ UNCHANGED <<made, torn>>

(* checkX509 reads the file, then judges the copy it has in memory.        *)
CheckX509(p, c) ==
  /\ Invoke(p, "checkX509", c)
  /\ IF IsCertificate(file[c.fname])
     THEN Goto(p, "verdict", SubSeq(file[c.fname], 1, 5)) /\ UNCHANGED result
     ELSE Exit(p, c, "file")
  /\ UNCHANGED history

(* encryptRSA exits on a number longer than n, and depending on the        *)
(* numbers also on one that is larger than n in as many words, or in       *)
(* bigNumMult.  Without a signature the number is 0.                       *)
MustRefuse(k, doc) ==
  SigOf(doc) # {} /\ \A s \in SigOf(doc) : Words[s.by] > Words[k]

SignatureValidMutant(k, doc) == \E s \in SigOf(doc) : s.by = k \* the hash is not recomputed
SignatureValid(k, doc) == SigOf(doc) = {[by |-> k, over |-> TBSOf(doc)]}

(* cmpFormattedTime reads the UTC stamps as local time of the 21st century *)
Instant(p, stamp) == stamp - Zone[p]
OutOfDateMutant(p, head) == Instant(p, head.notBefore) > now \* notAfter forgotten
OutOfDate(p, head) ==
  \/ Instant(p, head.notBefore) > now
  \/ Instant(p, head.notAfter) < now

Verdict(p, doc) ==
  IF ~SignatureValid(call[p].key, doc) THEN "INVALID_SIGNATURE"
  ELSE IF OutOfDate(p, doc[2].head) THEN "OUT_OF_DATE" ELSE "VALID"

CheckX509Verdict(p) ==
  /\ pc[p] = "verdict"
  /\ \/ ~MustRefuse(call[p].key, buf[p])
        /\ Return(p, [op |-> "checkX509", verdict |-> Verdict(p, buf[p]), key |-> call[p].key,
                      tbs |-> TBSOf(buf[p]), sig |-> SigOf(buf[p]), at |-> now])
     \/ SigOf(buf[p]) # {} /\ Exit(p, call[p], "number")
  /\ UNCHANGED <<call, now, calls, faults, disk, history>>

(* The two steps of every save: fopen(fname,"w"), then fprintf and fclose. *)
OpenForWriteMutant(p) == \* fopen(fname,"r+")
  /\ pc[p] = "open"
  /\ Goto(p, "flush", buf[p])
  /\ last' = [last EXCEPT ![call[p].fname] = None]
  /\ UNCHANGED <<call, now, result, calls, faults, file, history>>

OpenForWrite(p) ==
  /\ pc[p] = "open"
  /\ Goto(p, "flush", buf[p])
  /\ file' = [file EXCEPT ![call[p].fname] = <<>>]
  /\ last' = [last EXCEPT ![call[p].fname] = None]
  /\ UNCHANGED <<call, now, result, calls, faults, history>>

FlushMutant(p) == \* waits until nobody else has the file open
  /\ pc[p] = "flush"
  /\ \A q \in Proc \ {p} : pc[q] = "flush" => call[q].fname # call[p].fname
  /\ file' = [file EXCEPT ![call[p].fname] = Overlay(buf[p], @)]
  /\ last' = [last EXCEPT ![call[p].fname] = buf[p]]
  /\ Return(p, [op |-> call[p].op])
  /\ UNCHANGED <<call, now, calls, faults, history>>

Flush(p) ==
  /\ pc[p] = "flush"
  /\ file' = [file EXCEPT ![call[p].fname] = Overlay(buf[p], @)]
  /\ last' = [last EXCEPT ![call[p].fname] = buf[p]]
  /\ Return(p, [op |-> call[p].op])
  /\ UNCHANGED <<call, now, calls, faults, history>>

Fault == faults < MaxFaults /\ faults' = faults + 1

(* A full disk: write(2) stores a prefix, fclose fails, the call returns as *)
(* if it had saved.                                                        *)
ShortFlush(p, n) ==
  /\ pc[p] = "flush" /\ n < Len(buf[p]) /\ Fault
  /\ \E left \in ShortOverlays(buf[p], n, file[call[p].fname]) :
       file' = [file EXCEPT ![call[p].fname] = left]
  /\ last' = [last EXCEPT ![call[p].fname] = None]
  /\ torn' = TRUE
  /\ Return(p, [op |-> call[p].op])
  /\ UNCHANGED <<call, now, calls, made, issued>>

(* fopen(fname,"w") fails.  In x509.c the NULL stream is used: see Crash.  *)
FopenFails(p) ==
  /\ pc[p] = "open" /\ call[p].op \in {"savePublicKey", "saveKeyPair"} /\ Fault
  /\ Exit(p, call[p], "fopen")
  /\ UNCHANGED <<call, now, calls, disk, history>>

(* The process is killed by a signal, its own or another's.                *)
Crash(p) ==
  /\ pc[p] \in {"open", "flush", "verdict"} /\ Fault
  /\ Goto(p, "exited", <<>>)
  /\ result' = [result EXCEPT ![p] = NoResult]
  /\ UNCHANGED <<call, now, calls, disk, history>>

(* Another run of the program *)
Restart(p) ==
  /\ pc[p] = "exited"
  /\ Goto(p, "idle", <<>>)
  /\ result' = [result EXCEPT ![p] = NoResult]
  /\ UNCHANGED <<call, now, calls, faults, disk, history>>

Tick ==
  /\ now < Start + MaxTicks
  /\ now' = now + 1
  /\ UNCHANGED <<pc, call, buf, result, calls, faults, disk, history>>

Invocation(p, c) ==
  \/ SavePublicKey(p, c) \/ SaveKeyPair(p, c) \/ ReadPublicKey(p, c) \/ ReadKeyPair(p, c)
  \/ GenerateX509(p, c) \/ SignX509(p, c) \/ CheckX509(p, c)
Continue(p) == CheckX509Verdict(p) \/ OpenForWrite(p) \/ Flush(p)
Failure(p) == FopenFails(p) \/ Crash(p) \/ \E n \in 0..4 : ShortFlush(p, n)

Next ==
  \/ \E p \in Proc, c \in Calls : Invocation(p, c)
  \/ \E p \in Proc : Continue(p) \/ Failure(p) \/ Restart(p)
  \/ Tick

Spec == Init /\ [][Next]_vars
FairSpec == Spec /\ \A p \in Proc : WF_vars(Continue(p))
-----------------------------------------------------------------------------
(* Types of the state.  A document in memory or on disk is made of blocks. *)
Result ==
  [op : {"none", "savePublicKey", "saveKeyPair", "generateX509", "signX509"}]
    \cup [op : {"exit"}, call : Calls, why : Reason, seen : Seq(Block)]
    \cup [op : {"readPublicKey"}, fname : File, seen : Seq(Block), pub : Key]
    \cup [op : {"readKeyPair"}, fname : File, seen : Seq(Block), pub : Key, priv : Key]
    \cup [op : {"checkX509"}, verdict : {"VALID", "OUT_OF_DATE", "INVALID_SIGNATURE"}, key : Key,
          tbs : TBS, sig : SUBSET Signature, at : Nat]

TypeOK ==
  /\ file \in [File -> Seq(Block)]
  /\ last \in [File -> Seq(Block)]
  /\ pc \in [Proc -> PC]
  /\ call \in [Proc -> Calls \cup {NoResult}]
  /\ \A p \in Proc : pc[p] \in {"open", "flush", "verdict"} => call[p] \in Calls
  /\ buf \in [Proc -> Seq(Block)]
  /\ result \in [Proc -> Result]
  /\ now \in Nat /\ calls \in Nat /\ faults \in Nat
  /\ made \subseteq [head : CertHead, spki : Key, name : Name, at : Nat]
  /\ issued \subseteq [sig : Signature, name : Name]
  /\ torn \in BOOLEAN

(* checkX509 says VALID only of a TBS that signX509 signed with the key    *)
(* the certificate is checked against, whatever was interleaved, killed or *)
(* cut short while the file was written and read.                          *)
Authentic ==
  \A p \in Proc : result[p].op = "checkX509" /\ result[p].verdict = "VALID" =>
    \E i \in issued : i.sig = [by |-> result[p].key, over |-> result[p].tbs]

(* Without short writes, no VALID verdict comes more than 200 days after   *)
(* generateX509 made the certificate, give or take the checking process's  *)
(* distance from UTC, although stamps keep neither the century nor the     *)
(* zone they were made in, and other saves may have overlapped its own.    *)
ValidWithinLife ==
  ~torn => \A p \in Proc : result[p].op = "checkX509" /\ result[p].verdict = "VALID" =>
    \E m \in made :
      /\ m.spki = result[p].tbs.spki
      /\ m.head = [result[p].tbs.head EXCEPT !.issuer = Zeros]
      /\ result[p].at + Zone[p] <= m.at + Life

(* Without short writes a certificate is never refused by the key that     *)
(* signed it: what checkX509 encodes and hashes again is what was signed.  *)
OwnSignatureAccepted ==
  \A p \in Proc :
    ~torn /\ result[p].op = "checkX509" /\ result[p].verdict = "INVALID_SIGNATURE" =>
      \A s \in result[p].sig : s.by # result[p].key

(* tbs, its issuer aside, is one of these certificates *)
GeneratedIn(tbs, certificates) ==
  \E m \in certificates : m.spki = tbs.spki /\ m.head = [tbs.head EXCEPT !.issuer = Zeros]

(* Without short writes every signature binds a subject, a validity and a  *)
(* key that one generateX509 put together, however the saves of several    *)
(* processes overlapped on the file it was read from.                      *)
GenuineBinding ==
  ~torn => \A i \in issued : GeneratedIn(i.sig.over, made)

(* What was saved completely stays at the front of its file until the next *)
(* truncation or short write of it, even when other saves to the file were *)
(* under way.                                                              *)
CompleteSaveKept ==
  \A f \in File : last[f] # None =>
    Len(file[f]) >= Len(last[f]) /\ \A i \in 1..Len(last[f]) : file[f][i] = last[f][i]

(* Without short writes, what readPublicKey and readKeyPair return is the  *)
(* whole document that the last completed save put in the file.            *)
ReadsReturnSaves ==
  ~torn => \A p \in Proc :
    /\ result[p].op = "readPublicKey" => result[p].seen = PublicKeyDoc(result[p].pub)
    /\ result[p].op = "readKeyPair" =>
         /\ result[p].pub = result[p].priv
         /\ result[p].seen = KeyPairDoc(result[p].pub, result[p].priv)

-----------------------------------------------------------------------------
(* The inductive invariant behind the safety properties (CertStoreProofs).  *)
(* What a process in the middle of a call is doing *)
Phase ==
  \A p \in Proc :
    /\ pc[p] = "verdict" => call[p].op = "checkX509" /\ IsCertificate(buf[p])
    /\ pc[p] \in {"open", "flush"} =>
         call[p].op \in {"savePublicKey", "saveKeyPair", "generateX509", "signX509"}

(* Wherever a signature block is, on disk or in memory, signX509 made what *)
(* it holds.                                                               *)
SignaturesIn(doc, signatures) ==
  \A i \in 1..Len(doc) : Is(doc[i], "sig") =>
    \A s \in doc[i].sig : \E x \in signatures : x.sig = s
Traceable ==
  /\ \A f \in File : SignaturesIn(file[f], issued)
  /\ \A p \in Proc : SignaturesIn(buf[p], issued)

(* Without short writes a file is empty or starts with a whole document,   *)
(* and every certificate is one generateX509 made, signed as it stands.    *)
WholeCertificate(doc, certificates) ==
  /\ Framed(doc, "certificate", 5)
  /\ doc = CertificateDoc(TBSOf(doc), SigOf(doc))
  /\ GeneratedIn(TBSOf(doc), certificates)
  /\ SigOf(doc) # {} => \E k \in Key : SigOf(doc) = {[by |-> k, over |-> TBSOf(doc)]}
Whole(doc, certificates) ==
  \/ \E k \in Key : doc = PublicKeyDoc(k) \/ doc = KeyPairDoc(k, k)
  \/ WholeCertificate(doc, certificates)
Untorn ==
  ~torn =>
    /\ \A f \in File : Whole(last[f], made) \/ (last[f] = None /\ file[f] = <<>>)
    /\ \A p \in Proc : pc[p] \in {"open", "flush", "verdict"} => Whole(buf[p], made)

IInv ==
  /\ TypeOK /\ Phase /\ Traceable /\ Authentic
  /\ CompleteSaveKept /\ Untorn /\ GenuineBinding /\ ReadsReturnSaves /\ OwnSignatureAccepted

-----------------------------------------------------------------------------
(* What the documentation says and the code does not do *)

(* A key saved completely, whatever its size, can be read back: rsa.h:18   *)
(* has the keys at 2048 bits.                                              *)
SavedKeyReadable ==
  \A p \in Proc : result[p].op = "exit" =>
    LET c == result[p].call
    IN  \A k \in Key :
          /\ c.op = "readPublicKey" => result[p].seen # PublicKeyDoc(k)
          /\ c.op = "readKeyPair" => result[p].seen # KeyPairDoc(k, k)

(* generateX509 makes a certificate "with the subject's info" (x509.c:28): *)
(* its subject field spells the name it was given.                         *)
Spells(field, name) ==
  \A i \in 1..NameField :
    /\ i <= Len(name) => field[i] = name[i]
    /\ i = Len(name) + 1 => field[i] = Nul
SubjectSpelled == \A m \in made : Spells(m.head.subject, m.name)

(* The test suite takes a certificate that was just made and signed to be  *)
(* VALID (x509test.cpp:12-17): between its generation and 200 days later,  *)
(* no process finds it OUT_OF_DATE.                                        *)
InDateWhileAlive ==
  \A p \in Proc : result[p].op = "checkX509" /\ result[p].verdict = "OUT_OF_DATE" =>
    \A m \in made : m.head = [result[p].tbs.head EXCEPT !.issuer = Zeros] =>
                       result[p].at > m.at + Life

(* The documents that reads return, as the register they are read from has *)
(* them: a check has its document from its read until its verdict.         *)
Got(p) ==
  CASE pc[p] = "verdict" -> [fname |-> call[p].fname, doc |-> buf[p]]
    [] pc[p] # "verdict" /\ result[p].op = "readPublicKey" ->
         [fname |-> result[p].fname, doc |-> PublicKeyDoc(result[p].pub)]
    [] pc[p] # "verdict" /\ result[p].op = "readKeyPair" ->
         [fname |-> result[p].fname,
          doc |-> KeyPairDoc(result[p].pub, result[p].priv)]
    [] OTHER -> None
Register == INSTANCE FileRegister WITH
  reg <- last, got <- [p \in Proc |-> Got(p)], Doc <- Seq(Block)

(* The files behave as the registers their callers take them for: every    *)
(* read that succeeds returns, at one instant, what was saved last, unless *)
(* some write has been short.                                              *)
IsRegister == Register!Spec

(* No reader refuses a file in which a document of its kind was saved      *)
(* completely, and that was neither truncated nor written short since,     *)
(* whatever older documents have left behind it.  Of exits for another     *)
(* reason than the file it says nothing.                                   *)
SavesAccepted ==
  \A p \in Proc : result[p].op = "exit" /\ result[p].why = "file" =>
    LET doc == result[p].seen
    IN  CASE result[p].call.op = "readPublicKey" -> ~IsPublicKey(doc)
          [] result[p].call.op = "readKeyPair" -> ~IsKeyPair(doc)
          [] OTHER -> ~IsCertificate(doc)

(* Every call returns or ends its process: no step of a save or a check    *)
(* waits for another process.                                              *)
CallsReturn ==
  \A p \in Proc : pc[p] \in {"open", "flush", "verdict"} ~> pc[p] \in {"idle", "exited"}
=============================================================================
