# A verification of TLS-1.3

This directory holds TLA+ models of the C program in `src/`, the TLC
configurations that check them and TLAPS proofs about them. Every definition
is translated from the source; `PROJECT.json` names the lines of each one.

To check a run: `tlc -config cert.cfg MCCertStore`. To check the proofs:
`tlapm CertStoreProofs.tla`, and so for the other modules named `...Proofs`.

## 1. Inventory

The repository is a TLS 1.3 replica with its own cryptography and its own
certificates. What is built and tested today is the public-key
infrastructure and what lies below it; the handshake's functions exist, but
the code that drives them is commented out (`client.c` 68-84, `server.c`
45-71), `msg.c` is not in `CMakeLists.txt`, and sockets are opened only on
Windows. This is why the plan starts with keys and certificates.

| component | state it keeps | operations | calls |
|---|---|---|---|
| key store, `pki/keystore.c` | PEM files | save and read a public key, a key pair | DER, base64 |
| certificates, `pki/x509.c` | PEM files, the time | `generateX509`, `signX509`, `checkX509` | DER, base64, RSA, SHA-256 |
| DER, `pki/der.c` | none | encode and decode ints, big numbers, strings | |
| base64, `pki/base64.c` | none | encode, decode | |
| RSA, `crypto/rsa.c` | a key pair | `generateKeys`, `encryptRSA`, `decryptRSA`, `isPrime` | big numbers, random |
| big numbers, `bigmaths/bigmaths.c` | caller's buffers | sums, products, division, modular and field arithmetic | |
| random, `other/random.c` | the clock, the mouse | `randomNumber` | SHA-256, big numbers |
| Curve25519, `crypto/x25519.c` | none | `X25519` | field arithmetic |
| client, server, `main/*.c` | a socket, hello structures, the shared secret | send and parse hellos, agree on a key | X25519, random |
| messages, `other/msg.c` | a buffer | send and receive an encrypted message | GCM |
| GCM, AES, SHA-256, `crypto/` | counter, blocks | authenticated encryption, block cipher, hash | |
| command line, `other/args.c` | `Args` | parse the options of client and server | |

How they interact: everything is a call within one process, except the files.
Keys and certificates meet in files that several processes open without a
lock: the command-line programs are run once per operation, and the
test suite has each test as a process of its own (`gtest_discover_tests`)
on the one file `test/tmp/test.pem`. An error ends the process (`exit(1)`),
mostly after a `perror`, at whatever point it is found.

What is hard here:

* **interleaving and atomicity**: `fopen(fname,"w")` truncates, `fclose`
  writes; between them another process may read, truncate or write;
* **crashes and partial failure**: a process dies between the two, a write is
  cut short and nobody looks;
* **stale data**: `signX509` writes back a copy it has read; stamps are
  written in one time zone and century and read in another;
* **representation**: byte lengths that wrap, leading zeros, word orders,
  carries, fields of fixed size;
* **time**: `randomNumber` spreads its draws over a clock that may jump;
* **delivery**: hellos and messages are each received with a single `recv`,
  which may return any part of what was sent; parsers do not know how much came;
* **waiting**: the server serves one client at a time, and a client waits for
  it without a timeout.

The properties that make each part correct are in section 3; the hazards, each
at its line, are in `PROJECT.json`.

## 2. Modules

| module | what it is | code |
|---|---|---|
| `PemFile` | files as sequences of blocks, and what readers accept | `x509.h`, formats of `keystore.c` and `x509.c` |
| `CertStore` | processes that save, read, generate, sign and check | `keystore.c`, `x509.c` |
| `FileRegister` | the abstract promise: a file is a register | - |
| `CertStoreProofs` | its types, authenticity, kept saves; its inductive invariant, and that it implements `FileRegister`; its verdicts in time, and that no reader refuses a complete save | - |
| `Base64`, `Der` | encoding and decoding of bytes | `base64.c`, `der.c`, the nesting in `keystore.c`, `x509.c` |
| `Sha` | how a message is filled up for its hash | `sha.c` |
| `Codec` | a document on its way to a file, back and to its hash | the same |
| `CodecProofs` | that documents are kept or refused, and that what hashes as it was signed is what was signed | - |
| `BigMaths` | operators on words | `bigmaths.c` |
| `FieldMaths` | operators on words modulo 2^b - c | `bigmaths.c` |
| `Arithmetic` | single calls of both, against the integers | callers in `rsa.c`, `x25519.c` |
| `BigMathsProofs` | what sums, shifts, products and divisions of `BigMaths` are | - |
| `ArithmeticProofs` | that `Arithmetic` is exact, and the operations of `FieldMaths` modulo the prime | - |
| `Curve25519` | X25519: clamping, ladder, inverse | `x25519.c`, `params.c` |
| `Rsa` | key generation, encryption, signatures | `rsa.c` |
| `Primes` | what a prime is, what it is to share no factor | - |
| `RsaProofs` | that keys are made of primes and messages come back | - |
| `RandomGather` | `randomNumber` | `random.c` |
| `RandomProofs` | theorems about it | - |
| `Gcm` | counter, key stream and tag of a message | `gcm.c` |
| `Channel` | clients and a server: hellos, secret, one message each | `client.c`, `server.c`, `msg.c` |
| `Delivery` | the abstract promise: a message arrives whole, once, or never | - |
| `ChannelProofs` | types and origin of what is in `Channel`, and that it implements `Delivery`; that hellos and messages which arrive are understood | - |
| `NumberTheory` | for the proofs: induction, functions defined by recursion, congruences, Fermat's theorem | - |
| `MC...` | instances for TLC | - |

Operators with names that end in `Mutant` are slips that one could make in
the definition after them. No specification uses them: `PROJECT.json` says
which property finds each of them.

### Key store and certificates (`PemFile`, `CertStore`)

A file is a sequence of *blocks*: the header line, the pieces of the base64
body that a reader can tell apart, the footer line. `CertStore` has a program
counter per process:

    idle -> open -> flush -> idle        a save: before fopen(fname,"w"), before fclose
    idle -> verdict -> idle              checkX509: read, then judge the copy
    any  -> exited -> idle               exit(1) or a signal, then a new process

`signX509` reads and signs in its first step: neither reads anything shared
again until the file is opened for writing. `GenerateX509`, `SignX509` and the others of section
"x509.c" and "keystore.c" have the guards of the code, in its order, with
`Exit` where it calls `exit(1)`.

* *Write*. `OpenForWrite` truncates. `Flush` puts the document at offset 0
  over whatever is there by now (`Overlay`): with two writers the tail of a
  longer document may remain behind a shorter one. Two
  documents of the same kind with keys of equal length have their blocks at the same offsets;
  where documents of different kinds or sizes overlap, the remains begin inside a block, but lie
  behind the footer of what was written last, where no reader looks.
* *Short write*. `ShortFlush` stores a part of the document, as `fprintf` and `fclose` may, and
  returns as if nothing had happened. The cut may be between two blocks or at any byte inside one (`ShortOverlays`). Inside a
  head, fields before the cut are the new ones, fields behind it those of the older document, and the field it is in may
  read as any name or stamp (`BlendedHeads`); so a head may have the dates of two saves. A key cut in the middle reads as any
  key, a signature as a number that neither of its keys made (`BlendedBlocks`), and what reads as nothing is `Broken`.
* *Ends*. `Exit` records what a call gave up on (`Reason`): the file it read, a name too long, a number in `rsa.c` or
  `bigmaths.c`, or a failed `fopen`. `FopenFails` is the `exit(1)` of the two savers in `keystore.c`; `x509.c` does not look at what `fopen`
  returns and dies of a signal at its `fprintf`, which is one of the cases of `Crash`.
* *Read*. A reader takes the header at the start, the first footer after it, and what is
  between. `IsPublicKey`, `IsKeyPair` and `IsCertificate` say what it accepts. An
  empty file is taken to be refused: the key readers look for a header in a buffer that was never
  filled (`keystore.c` 49-68), where it could only be found by accident.
* *Names* keep their length. `SubjectFields` copies as many characters as a
  pointer has bytes, with anything behind the terminator of a shorter name; `IssuerField` leaves the end of
  a longer, earlier issuer.
* *Signatures* are records of who signed what: the hash and RSA are taken to
  be one-to-one. `Rsa` and `Arithmetic` check the arithmetic below.
  Signing, and checking any signature, may end in `bigNumMult` (`bigmaths.c:212`) on some numbers, and checking one by
  another key also where the number is too large for n. Which of them do depends on numbers that are not in this model, so both outcomes are possible
  (reason `number`); only a number with more words than n ends the process in any case (`MustRefuse`).
* *Time* is counted in units in which a certificate lives for `Life`. `Stamp` drops the century; `Instant`
  reads the stamp as local time.
* *History variables* `last`, `made`, `issued` and `torn` only serve to state
  properties; no guard reads them.

### The abstract specification (`FileRegister`)

The callers of the key store and the certificate code take a file for a
register: a save puts a document in, a read returns the document at one instant or
fails. `Register == INSTANCE FileRegister WITH reg <- last, got <- ...` maps the completely
written document of each file and the document each read returned to it, and `IsRegister` (the whole `Register!Spec`) is checked as
a property of `mixed`. That it holds although no lock is taken, as long as no write is
short, is not obvious: it rests on each save being a single `write` at offset 0 and on
readers that stop at the first footer.

### Encoding (`Base64`, `Der`, `Codec`)

Bytes have their full width. Every reader and writer of the code is an operator of its own: a writer
joins what it writes, a reader goes from field to field (`With`), each from where the one before it ended, and
`Exit` goes through to the end. Reading takes the checks of the C readers, including their difference:
`keystore.c` reads all fields and then compares the length (`Closed`), `derToAsn1` and `derTBSToAsn1` take fields
until the length is used up and leave the others blank (`WithUntil`, `UsedUp`). `Codec` justifies what `PemFile` assumes of a
block: that it is read back as it was, that numbers of 64 words or more are
refused (`Fits`), and that a TBS which hashes as the one that was signed is that TBS (`SignedIsRead`).

Nothing more can be said of a changed byte. A certificate whose bytes are changed may well be read, and read as another one: with the length of an
issuer's name changed to 0, the rest of a name that looks like fields is taken for them (`Disguised` in `MCCodec` is such a certificate), and its
encoding is not the bytes it was read from. That is harmless only because `checkSignature` encodes what it has read
again, and hashes that: if the hash is the signed one, then so is what was read.

Left out: the encoders' check against their 2048-byte buffers. The documents of the run do not reach it, and in longer ones it ends the process before anything is written.

`Sha` fills up what is hashed: `Codec` hashes the TBS that it has read, as `checkSignature`
does, and asks whether it can be told from the blocks. That the rounds of the hash lose
nothing is assumed elsewhere, not shown.

### Arithmetic (`BigMaths`, `FieldMaths`, `Arithmetic`, `Curve25519`, `Rsa`)

Every operator returns the contents of the destination or `Exit`, where the
code ends the process. Words have `W` bits, 32 in the code; carries, borrows, extra words and the
recursion of `bigNumMult` are as in the code. Recursion is written with
recursive functions. `Rsa` adds the ladder of `montLadExp` with its destination that is
only reduced by a product, Miller-Rabin, the non-negative extended Euclid and the two ways a
message is laid out in words. `PrimeOutcomes` draws, of the thirty random bases, one
that exposes a composite whenever one exists; the code misses it with a probability below
4^-30.

`FieldMaths` has the operations of X25519 as they are: `MultByLittle` with the carry that is
declared again inside the loop (`bigmaths.c` 343) and reaches no other word; `BitModulo`, which
folds what is above bit 255 until nothing is; `ModSub`, whose negation starts from what the destination held
when all lower words are zero. `FieldSumsExact` and `FieldProductsExact` say under which
conditions they are exact all the same (`Slips`, `CarryFree`). `Curve25519` puts them together.

### Handshake and message (`Gcm`, `Channel`, `Delivery`)

The drivers that call the handshake are commented out; `Channel` has the calls in their order. Each client and
the server have a program counter:

    client:  start -> connected -> waiting -> agreed -> sent | done
    server:  accept -> request -> reply -> message -> close -> accept | crashed

* *Streams.* `up[c]` and `down[c]` are the characters on their way. A hello is put
  together chunk by chunk as `client.c` and `server.c` do (`HelloText`), and `Parsed`
  reads it with the same arithmetic: lengths in front, fields that are not stored, words of the key
  from the end of their chunk. `Receive` is one `recv`: it takes any part that has come, or nothing once the peer has closed.
* *The message.* `Packet` is the length in three digits, the encrypted blocks, the vector, the tag. A byte of the key
  stream is a symbol that names key, counter and place; XOR with it twice cancels it. A tag
  is a symbol that names the key, the vector and the encrypted bytes, so that two tags are equal when all three are:
  GF(2^256), AES and the lengths in the tag are abstracted by that. The receiver learns the length filled up to blocks, so the message is `Padded`:
  `plaintextXOR` reads the bytes behind the message too.
* *Stale structures.* The server's `clientHello` lives on the stack and is not cleared, so a field that is not stored
  may be an earlier client's: `WaitForRequest` chooses.
* *Failure.* Any process may be killed. Closing a socket with something unread
  resets the connection, and what is on its way to the peer may be lost (`AfterClose`). The queue of
  connections has a limit. A length beyond the buffer makes the receiver read outside it: it may end or go on.
* `Multiplied` stands for X25519. `MCChannel` gives it as it is meant to be, commutative; `MCSecret` gives it as the code
  computes it, with `Curve25519`.
* `LongIsWord` says whether `ULONG_MAX` is a word's largest value, as it is on Windows (then the
  counter is carried from word to word) and not where `long` has 64 bits (then only the last word
  counts, and wraps). The run has the second, which is the harder case.

`Delivery` is what a user would want: a client's message, once sent, is delivered whole, at
most once, and stays delivered. `IsDelivery` maps `sent` to the clients that
have sent and `got` to what the server has decrypted.

### Random numbers (`RandomGather`)

Sources are symbols; XOR is the symmetric difference of sets, so that
equal readings cancel as in the code. `dest` records which drawn words a word depends on. `Tick` moves the
monotonic clock between any two steps, as the scheduler may. The Linux branch is modelled; `XOpenDisplay` may fail, and then the
process crashes.

## 3. Runs

Passing:

| run | asks | instance and bounds |
|---|---|---|
| `cert` | are verdicts right, whatever overlaps or fails? | 2 processes in zones -1 and +1, 1 file, 2 keys, names of 1 and 2 letters in fields of 2 with "pointers" of 1; centuries of 3 units, life of 1, the clock moves once; 4 calls, 1 fault |
| `mixed` | is a file a register? does every call end? is a complete save ever refused? | the same with all seven operations, one name too long, no ticks |
| `codec` | is what is read what was written? | keys of 1 to 128 words around the wrap at 64, three first words that look like labels, a name that looks like fields, 7 changes of every byte of documents up to 230 bytes |
| `arithmetic` | are the operations exact, and when not? | words of 3 bits: all numbers of 1 word, of 5 bits (the field elements modulo 2^5 - 2), and extreme ones of 2 and 4 words |
| `rsa` | do keys and messages work? | words of 5 bits, n of 2 words, e = 3, nine candidates, primes, composites and the strong liars of 25 |
| `random` | does it wait, mix and end? | 3 words, hashes of 2, times 0, 1 and 4, clock up to 5 |
| `channel` | is what is printed what was sent? do whole exchanges succeed? does the server get past a client that goes on? | 2 clients, a queue of 1, digits of base 8, words of 4 digits, keys of 2 words, blocks of 2 bytes, a buffer of 40 characters, messages of 1 and 3 bytes, vectors that wrap at once and after a block; 1 short receive anywhere, 1 process killed anywhere |

The bounds are chosen for the cases to happen. Four calls allow generate, sign, and two
more calls that overlap with them or check their outcome; one fault falls
between any two steps. Three units per century and one tick let a stamp wrap.
Two keys and two processes suffice for one party's data to be mistaken for
another's; a third behaves like one of the two. Three-bit words make every
carry chain happen; five-bit words hold the smallest RSA keys whose totients 3 may
or may not divide. Three words and hashes of two give a full and a short last block. In `codec`, certificates of
six sizes end before, at and after the place where the length still fits in the last block. In `channel`
two clients suffice for one to be served while the other waits, connects too late or meets what the first left
behind; one short receive puts a stream out of step for good, since the rest is taken for what comes next.

Failing, each with the statement it refutes (`findings` in `PROJECT.json`):

| run | property | what happens |
|---|---|---|
| `large_key` | `SavedKeyReadable` | a 2048-bit public key is written with length byte 0 and refused by the reader (`der.c:22`) |
| `subject` | `SubjectSpelled` | a subject is copied with the size of a pointer (`x509.c:144`) |
| `fresh` | `InDateWhileAlive` | stamps in UTC are read as local time (`x509.c:183`): away from UTC a fresh certificate is out of date |
| `secret` | `WholeHellosAgree` | client and server have different secrets although both hellos arrived whole (`bigmaths.c:343`) |
| `keys` | `KeysWork` | keys whose totient shares a factor with e lose messages (`rsa.c:383`) |

`secret` has words of 12 bits, the prime 2^23 - 15 and the curve with A = 22, for 32 bits, 2^255 - 19 and 486662;
the same happens at full size, where the code's secrets agree once the carry is not declared again.
In these runs faults are off, so the cause is the one named. `x509.c` 131 says that time differences are
ignored; `fresh` shows what that means for a process that is not in UTC.

### Properties

*cert.* `Authentic`: VALID only for a TBS that `signX509` signed with that
key. `ValidWithinLife`: without short writes, only of a certificate with that key and head that one `generateX509` made, and only within its
life, give or take the zone, though stamps wrap and other saves overlap. `OwnSignatureAccepted`: without short writes a certificate
never fails with the key that signed it, because the bytes hashed by the checker
are those hashed by the signer, a stale issuer included. `GenuineBinding`: a signature binds
what one `generateX509` put together, even if the file changed hands in between.
`IInv`: the inductive invariant.

*mixed.* `CompleteSaveKept`: what was saved completely stays at the front of the file.
`ReadsReturnSaves`: reads return whole saved documents. `SavesAccepted`: a reader never refuses a
file in which a document of its kind was saved completely, whatever lies behind it, also after crashes, short writes and failed calls of `fopen`.
`IsRegister`: the refinement. `CallsReturn`: calls end.

*channel.* `DeliveredIsSent`: what the server prints on a connection is its client's message,
wherever streams are cut. `WholeHellosAgree`: hellos that arrived whole give one secret. `WholeMessageHeard`: and
then a whole message is printed. `FieldsBeforeCutRight`: every field before a cut is the peer's, though the parser does not
know where the cut is. `KeystreamOnce`: no part of the key stream is used twice in a message or for its tag, even
where the counter wraps. `IsDelivery`: the refinement. `ServerReturns`: the
server gets away from a client that goes on, wherever the streams were cut. `ClientsEnd`: when all clients go on, each that has connected comes to its end.

*codec.* `KeptWhole`: a document whose numbers have less than 64 words is read as it was written.
`WrappedRefused`: one with a longer number is refused. `SignedIsRead`: if the hashed blocks are the signed ones, what was read is what was signed, whichever byte
was changed. `HashedWhole`: the blocks show the whole TBS. *arithmetic.*
`SumsExact`, `ProductsExact`, `DivisionExact`, `ModularExact`, `FieldSumsExact`, `FieldProductsExact`. *rsa.* `KeysArePrime`,
`PrimesAreKeys`, `DecryptsToMessage`, `ChecksToMessage`. *random.* `WaitsWholeTime`,
`EveryWordMixed`, `SeedKept`, `Returns`. Each is stated in words where it is
defined.

`DecryptsToMessage` and `ChecksToMessage` are about keys that can work: different primes, and an
exponent prime to the totient. `ProductsExact` is about products that are
returned, of lengths that are powers of two, the only ones in the program: `bigNumMult` exits on some factors
whose product fits (`bigmaths.c:212`). `FieldProductsExact` is about products that are returned, too.

### Fairness

`CallsReturn` assumes weak fairness of each process's `Continue`: once a call
has begun, the operating system goes on running the process, and opening, writing and
closing a regular file does not block. Nothing is assumed of
starting calls, restarts or faults. `Returns` assumes weak fairness of the
thread and of the clock, which goes on by itself.

`Channel`'s `FairSpec` assumes weak fairness of the server's next step only: a server that has begun goes on, and what was sent arrives or the connection
ends (TCP). No client owes anything: it may connect and stay silent, and as no `recv` has a timeout (`server.c:80`, `msg.c:95`) the
server then waits for it for ever, and every client behind it too. What can be said is conditional, and the condition is part of the property:
`GoesOn(c)` says that c takes the steps it can take. `ServerReturns` has it of the one client that is served, `ClientsEnd` of all. What the two
show is that waiting has no other cause: no cut of a stream, no hello taken for a message, no kill and no place in the queue leaves
two processes waiting for each other.

Deadlock checking is off: processes may stop calling, and calls, faults and ticks are bounded.

## 4. Proofs

All theorems are about every value of the constants: any number of processes, clients, files, keys and names,
any sizes and any bounds. The assumptions are the named ones of the modules that declare the constants: keys of
more than 8 words, a zero byte that is no letter, sizes that are positive, calls that are well formed (`PemFile`, `CertStore`); at least one word (`RandomGather`).
For `Channel` they are: `SizesAssumption`, that the lengths written in a hello have two digits and that a length of three digits, and a
counter, reach beyond the buffer; `WordsAssumption`, that words are what `WordDigits` digits can hold; `KeysAssumption`, that X25519 gives
words whatever it computes; `OffersAssumption`, that a hello's fields have the width at which they are printed (`client.c` 150).
For `Arithmetic`: `NumbersAssumption`, that a number has at least one word; `WordAssumption`, that `Base` is the power of two that words of `W` bits have; `ModuliAssumption`, that no modulus is zero (`rsa.c` divides by primes, by
their products and by a remainder only while it is not zero, `rsa.c` 257); `LengthsAssumption`, that words have two bits or more
and that lengths halve down to one word, as those of keys and elements do; only the theorems about products and `bigNumModSub` use it;
`ElementsAssumption`, that field elements have `N` words and are below 2^BitMod; `FieldAssumption`, that an element has more than one word and that
`CarryMult` squared is less than a word holds (19 * 19 in the code), without which the folding might not end.
For `Rsa`: `KeyAssumption`, that n has a length which is a power of two, two words or more (callers ask for 64 to 512 bits, 2 to 16 words; `rsa.h` speaks of 2048), that words have
two bits or more, and that e is a word and not zero (65537); `DrawnAssumption`, that what is drawn for a factor has half of that length; `MessagesAssumption`, that
messages are words and no more than n has.
For `Codec`: `DocsAssumption`, that documents have the types of `x509.h` and `rsa.h`: ints of 32 bits, names of 50 bytes, times of 14, numbers of whole words, and
no longer than the 2048 bytes of the buffers they are written to; `ChangesAssumption`, that a byte is changed to a byte.

| module | theorem | states |
|---|---|---|
| `CertStoreProofs` | `TypeCorrect`, `CoreInvariant`, `ValidIsAuthentic`, `SavesAreKept` | `TypeOK`, `Core`, `Authentic`, `CompleteSaveKept` |
| | `Invariant`, `BindingIsGenuine`, `SavesAreRead`, `SignerAccepts` | `IInv`, `GenuineBinding`, `ReadsReturnSaves`, `OwnSignatureAccepted` |
| | `FilesAreRegisters` | the refinement `IsRegister` |
| | `VerdictsAreInTime`, `SavedIsAccepted` | `ValidWithinLife`, `SavesAccepted` |
| `RandomProofs` | `TimeIsUsed`, `EveryDrawCounts`, `SeedStays` | `WaitsWholeTime`, `EveryWordMixed`, `SeedKept` |
| `ChannelProofs` | `TypeCorrect`, `MailInvariant`, `MessagesAreSent`, `ChannelDelivers` | `TypeOK`, `Mail`, `DeliveredIsSent`, the refinement `IsDelivery` |
| | `CourseInvariant`, `FieldsAreRight` | `Course`, `FieldsBeforeCutRight` |
| | `HellosAgree`, `MessagesAreHeard` | `WholeHellosAgree`, `WholeMessageHeard`, given `Commutes` |
| | `KeystreamIsFresh` | `KeystreamOnce`, given `CountersGoOn` |
| `ArithmeticProofs` | `SumsAreExact`, `ProductsAreExact`, `DivisionIsExact`, `ModularIsExact` | `SumsExact`, `ProductsExact`, `DivisionExact`, `ModularExact` |
| | `FieldSumsAreExact`, `FieldProductsAreExact` | `FieldSumsExact`, `FieldProductsExact` |
| `CodecProofs` | `CodecInvariant`, `DocumentsAreKept`, `LongNumbersAreRefused` | `CodecInv`, `KeptWhole`, `WrappedRefused` |
| | `SignedIsWhatIsRead`, `HashesShowTheWhole` | `SignedIsRead`, `HashedWhole` |
| `RsaProofs` | `KeyInvariant`, `PrimesAreAccepted` | `KeyInv`, `PrimesAreKeys` |
| | `KeysAreOfPrimes`, `MessagesComeBack`, `SignaturesCheck` | `KeysArePrime`, `DecryptsToMessage`, `ChecksToMessage`, given `WitnessesEnd` |

So every safety property that a passing run checks is proved. Three hypotheses about constants are left:

* `Commutes(c)` of every client: its private numbers and the server's multiply in any order. `MCChannel` assumes it, so that TLC evaluates it: it is what X25519 promises, and without it no
  two parties could agree. Whether the code keeps the promise is another matter, and the run `secret` shows that it does not (`bigmaths.c:343`); the
  theorem says that nothing else stands in the way.
* `CountersGoOn`: only where `ULONG_MAX` is a word's largest value, no counter is all ones when it is incremented, which would end the process. It is true
  of every vector where `long` has 64 bits, and `MCChannel` assumes it as well.
* `WitnessesEnd`: for every composite that may be drawn, some base which shares a factor with it is tested without running into the exit of
  `bigNumMult` (`bigmaths.c:212`). `MCRsa` assumes it, so that TLC evaluates it. It cannot be dropped: a test that exits says nothing, and if all that could expose
  a composite did, the bases that are left might all let it pass. With words of 32 bits the exit needs a middle word of a product
  to be all ones when a carry comes to it, and is rare. That a prime is never rejected needs no hypothesis. Nothing is
  assumed of the exits in the calls that follow: a message comes back wherever no call has exited.

### Key store and certificates

`TypeOK` alone is not inductive: that a verdict is well typed needs the document in memory to be a certificate, which
is what `Phase` says of a process in the middle of a call. `Authentic` is not inductive either: a verdict looks
at a document that was read earlier, from a file that was written earlier still. `Traceable` closes the gap: every
signature block, on disk or in memory, holds only signatures in `issued`. It survives crashes, short writes and
overlays: they move blocks about (`PrefixSignatures`, `OverlaySignatures`), and a cut inside a block leaves no signature that neither
of the two documents had. What a short write leaves is an overlay like any other, of a front of the document and at most one block more (`ShortOverlayFront`,
`BlendedTypes`), so that one argument does for both; new signatures enter only in
`SignX509`, which adds them to `issued` in the same step. `Core` is the three together. `CompleteSaveKept` then needs types only: a step that leaves
`last[f]` alone leaves `file[f]` alone, one that sets it has just written it (`OverlayType`).

`IInv` adds `Untorn` to them: while no write has been short, every file is empty or begins with a whole document, every
process that is about to write holds one, and every certificate among them was made by one `generateX509`. A read then has a document that was saved, a signature
is over one TBS that was made, and the issuer that a checker hashes is the one that was signed. For the refinement, `IInv` says
that what a read returns is `last` of its file at that very step; saves that only truncate, crash or are short
are stutters or losses of the register.

`ValidWithinLife` rests on `IInv` and on `Dated`, that what is in `made` ends `Life` after it was made. While no write has been short, `Untorn` says that
the document a checker holds is a certificate in `made` but for its issuer, so its end is that of one `generateX509`. With short writes the property would be false: a head
cut between its dates may have the end of another save, and be signed so. Stamps repeat after a century, but a
reader takes them all for the first one: it never reads one as later than it was, and this is why no bound on the clock is needed.

`SavesAccepted` rests on `CompleteSaveKept`: a file begins with what was saved in it last, and readers look no further than its footer, so what they
would make of the saved document alone they make of the file (`SavedWouldBeRead`). Every exit for the sake of the file is that of a reader that found
no document of its kind, and so none was saved.

### Encoding

`CodecInv` says that what is held is what the steps before have made of it: `der` is the document's encoding unless a byte was changed, `text` its base64, `read`
what the reader makes of `der`, `padded` the blocks of what was read. It is inductive because base64 gives back any bytes
(`Base64Back`): the bits of three bytes are the bits of four characters (`BytesBack`), and the padding says how many bytes were left (`LengthsAre`). What is
left is about the operators, for documents of any length.

* *Kept or refused.* `Part(d, at, x)` says that x stands in d from byte `at` on; a part of a part is a part (`PartJoin`), so each field
  stands where the lengths before it put it. One lemma per element: a reader at a place where an element stands has the
  element and ends behind it (`IntAt`, `StringAt`, `BignumAt`, `PublicKeyAt`, ..., `TBSAt`, `Asn1Back`). For a number of 64 words or more it says what happens
  instead: its reader takes the length modulo 256 and ends too early, by at least 256 bytes. The next reader begins inside the number, where anything may stand,
  but a number ends at most 257 bytes further on (`BignumNext`), before the end of what was written, and so the lengths that are compared differ. An int's four bytes
  show it whole for either sign.
* *Read at all.* Nothing is known of changed bytes, but whatever a reader returns fits its fields (`Typed`): ints have 32 bits, numbers
  less than 256 bytes, as their length is one byte, strings the size of their field, blank fields included. So what is hashed is a TBS that would be
  kept (`ShortTBS`).
* *Signed.* Hence two TBS with the same encoding are the same, if one of them was read (`TBSOnce`): the encoding of both is read back as either. And from the blocks
  the message can be had again (`PadBack`): the last three bytes of the length say how long it is, as every TBS is short enough (`TBSFits`).

### Random numbers

`Loop` says how far the loop has come for the time it has used; `Mixing`, which words depend on all, by the number of
blocks that were hashed forward and then back; `Seeded`, that the
sources which are read once are in every word drawn so far. Each is inductive with the one before it.

### Handshake and message

`Mail` says where tags may be: no stream holds one before its client has sent the message, and afterwards only that message's, under the
secret that the client had then. A receiver that accepts has therefore compared with this tag, so it has that key, vector and bytes,
whatever its own secret came from: `DeliveredIsSent` holds wherever the streams were cut, and with any function for X25519. For
`IsDelivery` one more fact is needed, `Once`: nobody is in the queue twice or comes back to it after being served, so that nothing is
delivered again.

The second half of `ChannelProofs` is about what arrives, and needs to know in every phase what may be in which stream. `Course` says it: `Tables`, where the clients, the
queue and the server stand relative to each other, and for each client `Place(c)`: until the server has received from a client its stream holds its
hello or nothing, and nothing has been sent to it; until the client has received the answer, its stream holds the
answer or nothing. None of this can be said of one actor alone, since a step of the one changes what the other finds.

* *Reading back.* `FieldsAreRight` rests on a lemma about the text alone: `Parsed`, given any part of `HelloText`, gives back each field that lies before the
  cut (`ParsedRight`). Each field is a number written with `Digits` and read with `Number`, and the place of a field depends on
  the lengths that were read before it. `Right` carries this into the state: what the server answers with is its own hello, what it has of a request
  and what a client has of an answer are right up to the cut. The server's structure is not cleared: that a field beyond the cut is another client's is allowed by
  `RightUpTo`, and the theorem shows that nothing before the cut is.
* *Agreeing.* `Secrets` says from which keys each secret was computed; with `Right` and whole hellos both are the same product, but for the order.
* *Hearing.* `Heeded` says what follows a hello that the server has read whole: nothing or that client's packet, under the secret which the client has; and a
  client that has sent had its answer. The receiver then finds length, vector and tag where they were put, because the lengths on both sides are
  computed from the same digits.
* *Fresh key stream.* `Sealing` says that a packet in a stream was put together by `Packet`. The last word of the counter goes up by one
  at each step and begins again at zero when it wraps (`CounterRule`), carry or no carry; so two counters, or one and the vector, are equal only
  if as many blocks lie between them as a word has values, and a message that long fits no buffer.

### Arithmetic

The state machine makes one call, so its invariant (`Results`) only says which operator's result is in `out`; what is proved is about the operators.

* *Sums.* `Sums` is what the first digits of a number stand for, digits that may be negative or too large included. `RippledSums`: the digits that
  `Ripple` leaves, with the carry out of the first word, stand for the same number. Digits that are words stand for less than
  `Room`, so the carry is zero exactly if the result fits (`NoCarry`): this is the exit. Addition, subtraction, the subtraction of a single
  word and both shifts are then a matter of digits. `CmpExact` says that `Cmp` compares the numbers, though lengths differ.
* *Division.* The remainder is below the divisor before each shift, so twice of it and a bit fit into one word more than the divisor has
  (`ShiftedExact`): no shift ever exits, which is what the extra word of `bigNumMod` is for. `RemaindersRule` carries this over the bits; the bits
  of a word joined give the word (`WordsJoined`), the bits of the quotient give the quotient (`QuotientJoined`).
* *Products.* `LongProduct` calls itself, for shorter operands. `LongProductRule` shows that such a function exists, by induction over the length of the
  longer one; `CombineExact` that one level puts the number together, whose three sums have room in one word more (`MultiAddExact`), or exits
  where a carry into the second or first quarter does not fit; `ProductsRule` goes from a length to the double one. The low half that is kept holds
  the product, as the product of two numbers has no more words than both (`LowValue`). Odd lengths are padded at the wrong
  end (`bigmaths.c:136`), and so nothing is said of them.
* *Folding.* Let `Limit` be 2^BitMod. `HighLow`: the words that `HighWords` and `LowWords` leave stand for the quotient and the remainder of the value by
  `Limit`. The value after one `Pass` is therefore `CarryMult` times the quotient plus the remainder, that is the old value less the quotient times
  the prime (`PassRule`), if no carry is lost, and less than that otherwise: a pass makes the value smaller as long as the loop goes on, or exits
  (`PassSmaller`). This is why the loop ends (`DescentExists`), though after lost carries the result need not be right. `CarryFree` speaks of
  the first pass alone: a product is below `Limit` squared, so that pass leaves less than (`CarryMult` + 1) times `Limit`; each further quotient is at most `CarryMult`,
  and `CarryMult` squared fits into a word, so that no carry can be lost any more (`SmallFold`).
* *Differences.* The signed digits of a difference that borrows from its first word stand for the difference; their remainders for it plus `Room[N]` (`BorrowsRule`,
  `DifferencesRule`). `Negated` is that two's complement negated word by word, from the last word that is not zero on (`Complement`); where
  only the first word is not zero, it is right if that word is odd (`NegatedFirstOdd`). `Slips` is
  what is left over: differences that are even multiples of `Room[N-1]`, which the code gets wrong.

Functions defined by recursion have no definition that the provers could unfold. `NumberTheory` gives it to them: induction over a range of numbers
(`RangeInduction`, from the fact that every set of natural numbers has a least element), and that a function which follows a rule from
the values before exists (`RecursionExists`). What a recursive definition computes then is proved from the equation that it satisfies.

### RSA

`KeyInv` is the inductive invariant: p and q were drawn and accepted, n is what `Mult` made of them, and the text is what the calls so far have made of the message with
that key. None of the four properties is inductive: each speaks of numbers and says nothing of how the state came about. What is left
is about the operators.

* *The ladder.* After i bits of the exponent, of which the first make the number k, `x1` is the power k and `x2` the power k+1, modulo n; before the first bit that is 1 they
  are the base and its square (`Climbs`). `x1` is reduced by products only, so for an exponent of 1 the result is the base as it is.
  The exits of single products are passed on to the end. This joins `ModularIsExact`'s arithmetic to the bits of `BigMathsProofs`.
* *Primes.* `NumberTheory` proves Fermat's theorem from the rows of binomial coefficients, and that modulo a prime only 1 and -1 have the square 1. So for a prime
  the sequence of squares ends in 1, and comes to it from -1 or began with it: every base lets it pass, or the call exits. That the code stops
  squaring one step before n-1 does no harm, as the last square would only confirm a -1.
* *Composites.* Every power of a base that shares a factor with n shares it, and neither 1 nor n-1 does: such a base never says prime. With `WitnessesEnd` one of them is tested,
  and `PrimeOutcomes` says composite.
* *The inverse.* Every remainder that `Euclid` keeps is a multiple of e modulo the totient, with `s1` and `s2` for the factors, and what divides the last two divides all before
  (`Follower`); remainders fall, so it ends. The last one that is not zero is the greatest common divisor, 1 for a usable key, and its factor is the inverse. Adding the totient before
  each reduction keeps the factors from becoming negative; the subtraction from it can never exit, because the product was reduced.
* *There and back.* e times d is 1 modulo (p-1)(q-1), so the power e*d of anything is the thing itself modulo p and modulo q (Fermat, or zero), and modulo n, as p and q are
  different primes: by Bezout, without unique factorisation. `MsgNum` and `Unload` turn the words round twice; the leading zeros that `Unload` cuts off are those that a message of that length had.
  An empty message encrypts to zero and decrypts to itself; the signing of one exits (`PowerOfEmpty`).

### What is only model-checked

Out of the prover's reach: liveness (`CallsReturn`, `Returns`, `ServerReturns`, `ClientsEnd`) and anything with ENABLED. The five failing runs need no proof: each is a
counterexample.

## 5. Not modelled

* AES and the rounds of SHA-256: pure functions of full-width constants, with nothing smaller that is the same code.
* The product of the tag (`gf256Mult`): a symbol. Both sides compute the same, which is all that matters to the properties here. That it is the
  product in GF(2^256) is not claimed: `polyLeftShift` loses carries at shifts of 32 and `modGf256` reads 8 words of a divisor of 16.
* `ecbSendMessage`, `ecbReceiveMessage` and the block decryption they need: nothing calls them.
* The command line (`args.c`): one pass over `argv` by a table of options, without state that outlives it. (`parseConnect`, line 150, goes on
  after an empty value and returns CONNECT where its siblings return DEALT_WITH.)
* The programs as such: the drivers in `client.c` and `server.c` are commented out, `msg.c` is not built and includes
  `winsock2.h`, sockets are opened only on Windows, and both `main` call `savePrivateKey` or `readPrivateKey`, which do not exist.
* The curve secp256r of `params.c`, which nothing uses.
* Memory: leaks, allocation failures and reads or writes out of bounds, but for those that decide what a receiver does.
* The two calls of `time(NULL)` in `generateAsn1X509` are one; daylight saving time is not there.
* When exactly an RSA operation on a certificate ends the process. `EncryptRSA` and `DecryptRSA` of `Rsa` have the conditions;
  `CertStore` has only the two outcomes, and no property says that an exit where the tests expect INVALID_SIGNATURE (`x509test.cpp` 54-66) is right.
* Progress past a client that stays silent: the code has no timeout, and nothing promises one.
* Files that are missing or too large for the readers' buffers (see the hazards).
* The Windows branches of `random.c`.

## 6. Plan

Done: all modules above. What is left, in this order:

1. the inverse of `BitModInv`, on `FieldProductsAreExact`, as a power, with Fermat's theorem from `NumberTheory`;
2. the driver loops, once the repository builds them: a conversation of several messages on one connection, for which
   `Delivery` has to become a sequence, and each message needs a vector of its own.
