------------------------------- MODULE Channel -------------------------------
(***************************************************************************)
(* Clients and the server that serves one at a time: hello messages,       *)
(* shared secret, one encrypted message (client.c, server.c, msg.c).  The  *)
(* order of the calls is that of the drivers, which are commented out in   *)
(* client.c 68-84 and server.c 45-71.  A socket is a stream of characters  *)
(* each way; every receive is one call of recv, whose result only          *)
(* gcmReceiveMessage looks at.                                             *)
(***************************************************************************)
EXTENDS Gcm

CONSTANTS Clients,
          Backlog,       \* connections that wait to be accepted; listen(*sock,5)
          Radix,         \* 16
          WordDigits,    \* digits of a 32-bit word: 8
          KeyWords,      \* words of a key: 8
          LenBuff,       \* the buffer of client and server: 1024
          LenText,       \* length of each client's message
          Iv,            \* initialisation vector that each client draws
          Unset,         \* a hello structure that nothing was stored in
          Offers,        \* random number and algorithms of a hello
          Drawn,         \* private numbers that each process may draw
          G,             \* base point
          Multiplied(_, _), \* X25519
          MaxCuts,       \* bound: receives that return less than there is
          MaxCrashes     \* bound: processes that are killed

ASSUME NamesAssumption == "none" \notin Clients /\ "server" \notin Clients

(* What is left of a number without its last n digits, and whether it has  *)
(* no more than n                                                          *)
Rest(v, n) ==
  LET rest[k \in Nat] == IF k = 0 THEN v ELSE rest[k-1] \div Radix
  IN  rest[n]
Fits(v, n) == v \in Nat /\ Rest(v, n) = 0

ASSUME SizesAssumption ==
  /\ Radix \in Nat \ {0, 1} /\ KeyWords \in Nat \ {0} /\ LenText \in [Clients -> Nat]
  /\ LenBuff \in Nat /\ LenBuff <= Words /\ LenBuff <= Radix * Radix * Radix
  /\ WordDigits \in Nat \ {0} /\ WordDigits % 4 = 0 /\ KeyWords * WordDigits < Radix * Radix
  /\ Backlog \in Nat /\ MaxCuts \in Nat /\ MaxCrashes \in Nat
ASSUME WordsAssumption == Rest(Words - 1, WordDigits) = 0 /\ Rest(Words, WordDigits) = 1

(* Keys and vectors are words; what is offered has the room that it gets   *)
(* in a hello.                                                             *)
Keys == [1..KeyWords -> 0..Words-1]
ASSUME KeysAssumption ==
  /\ \A p \in Clients \cup {"server"} : \A number \in Drawn[p] : Multiplied(G, number) \in Keys
  /\ \A c \in Clients : Iv[c] \in Keys
ASSUME OffersAssumption ==
  \A offer \in Offers :
    /\ Fits(offer.random, WordDigits)
    /\ Fits(offer.cipher[1], WordDigits \div 4) /\ Fits(offer.cipher[2], WordDigits \div 4)
    /\ offer.cipher = <<offer.cipher[1], offer.cipher[2]>>
    /\ Fits(offer.group, WordDigits \div 2) /\ Fits(offer.signature, WordDigits \div 2)

VARIABLES client,   \* where each client is
          private,  \* privateDHRandom of each client
          hello,    \* the hello each client sends
          answer,   \* the serverHello that each client has parsed
          secret,   \* the shared secret of each client
          server,   \* where the server is
          conn,     \* the client it serves
          serverPrivate, serverHello, serverSecret,
          request,  \* the clientHello that the server has parsed
          queue,    \* connections that wait to be accepted
          up, down, \* what is on its way from and to each client
          heard,    \* what the server has decrypted on each connection
          took,     \* history: characters each receive has taken
          cuts, crashes

clientVars == <<client, private, hello, answer, secret>>
serverVars == <<server, conn, serverPrivate, serverHello, serverSecret, request>>
bounds == <<cuts, crashes>>
vars == <<clientVars, serverVars, queue, up, down, heard, took, bounds>>
-----------------------------------------------------------------------------
(* Characters: digits, the terminator, and of an encrypted message bytes,  *)
(* initialisation vectors and tags, which are the things they stand for.   *)
Digit(d) == [is |-> "digit", v |-> <<d>>]
NUL == [is |-> "nul", v |-> <<>>]
Digits(v, n) == [i \in 1..n |-> Digit(Rest(v, n - i) % Radix)]

(* strtoul and strtol on the characters from i to j: the value of the      *)
(* digits before anything else                                             *)
Number(buffer, i, j) ==
  LET value[k \in i-1..j] ==
        IF k < i THEN 0
        ELSE IF \A l \in i..k : buffer[l].is = "digit" THEN value[k-1] * Radix + buffer[k].v[1]
        ELSE value[k-1]
  IN  value[j]

(* A hello: chunks with their length in two digits in front               *)
Chunk(digits) == Digits(Len(digits), 2) \o digits
KeyDigits(key) ==
  [i \in 1..KeyWords * WordDigits |->
     Digits(key[((i-1) \div WordDigits) + 1], WordDigits)[((i-1) % WordDigits) + 1]]
HelloTextMutant(h) == \* group and signature change places
  Chunk(Digits(h.random, WordDigits))
  \o Chunk(Digits(h.cipher[1], WordDigits \div 4) \o Digits(h.cipher[2], WordDigits \div 4))
  \o Chunk(Digits(h.signature, WordDigits \div 2))
  \o Chunk(Digits(h.group, WordDigits \div 2))
  \o Chunk(KeyDigits(h.key))
HelloText(h) ==
  Chunk(Digits(h.random, WordDigits))
  \o Chunk(Digits(h.cipher[1], WordDigits \div 4) \o Digits(h.cipher[2], WordDigits \div 4))
  \o Chunk(Digits(h.group, WordDigits \div 2))
  \o Chunk(Digits(h.signature, WordDigits \div 2))
  \o Chunk(KeyDigits(h.key))

(* keyExchange[7 - j/8]: how much of the chunk is left when word w of the  *)
(* key is stored                                                           *)
LeftAfterMutant(w) == (w - 1) * WordDigits
LeftAfter(w) == (KeyWords - w) * WordDigits

(* The parser of both sides: chunk k is reached when the length before it  *)
(* and its own are not zero.  Fields that it does not store keep the       *)
(* content of old.                                                         *)
Parsed(buffer, old) ==
  LET number[i \in 1..LenBuff] == [j \in 0..LenBuff |-> Number(buffer, i, j)]
      next[i \in 1..LenBuff] == i + 2 + number[i][i+1]
      start[k \in 0..5] == IF k = 0 THEN 1 ELSE next[start[k-1]]
      Reached(k) == \A l \in 1..k+1 : start[l] > start[l-1] + 2
      Part(k, from, to) == number[start[k] + 1 + from][start[k] + 1 + to]
      Size(k) == start[k+1] - start[k] - 2
      Stored(k, field) == IF Reached(k) THEN Part(k, 1, Size(k)) ELSE field
      byte == WordDigits \div 4
      KeyWord(w) ==
        LET j == LeftAfter(w)
            from == Size(4) - j - WordDigits + 1
        IN  IF Reached(4) /\ j < Size(4)
            THEN Part(4, IF from < 1 THEN 1 ELSE from, Size(4) - j) ELSE old.key[w]
  IN  [random |-> Stored(0, old.random),
       cipher |-> IF Reached(1) THEN <<Part(1, 1, byte), Part(1, byte + 1, 2 * byte)>> ELSE old.cipher,
       group |-> Stored(2, old.group),
       signature |-> Stored(3, old.signature),
       key |-> [w \in 1..KeyWords |-> KeyWord(w)]]

(* What memset and recv leave in the buffer when n characters come         *)
Received(stream, n) == SubSeq(stream, 1, n) \o [i \in 1..LenBuff-n |-> NUL]
-----------------------------------------------------------------------------
(* gcmSendMessage.  The text is filled up to whole blocks with what lies   *)
(* behind it in memory; the vector and the tag are a character each.       *)
Vector(iv) == [is |-> "iv", v |-> iv]
VectorOf(x) == IF x.is = "iv" THEN x.v ELSE [i \in 1..KeyWords |-> 0]
Padded(c) ==
  [i \in 1..BlockBytes * NumBlocks(LenText[c]) |-> [is |-> "text", v |-> <<c, i>>]]
Cipher(c, key) == Encrypted(Padded(c), Iv[c], key)
LenToSend(c) == 3 + Len(Padded(c)) + 3
Packet(c, key) ==
  Digits(Len(Padded(c)), 3) \o Cipher(c, key)
  \o <<Vector(Iv[c]), GcmTag(Padded(c), Iv[c], key, FALSE), NUL>>
-----------------------------------------------------------------------------
Nobody == "none"
NoKey == <<>>

Init ==
  /\ client = [c \in Clients |-> "start"] /\ private = [c \in Clients |-> NoKey]
  /\ hello = [c \in Clients |-> Unset] /\ answer = [c \in Clients |-> Unset]
  /\ secret = [c \in Clients |-> NoKey]
  /\ server = "accept" /\ conn = Nobody
  /\ serverPrivate = NoKey /\ serverHello = Unset /\ serverSecret = NoKey /\ request = Unset
  /\ queue = <<>>
  /\ up = [c \in Clients |-> <<>>] /\ down = [c \in Clients |-> <<>>]
  /\ heard = [c \in Clients |-> <<>>]
  /\ took = [c \in Clients |-> [request |-> -1, answer |-> -1, message |-> -1]]
  /\ cuts = 0 /\ crashes = 0

Hello(offer, key) ==
  [random |-> offer.random, cipher |-> offer.cipher, group |-> offer.group,
   signature |-> offer.signature, key |-> key]

(* n characters are received of a stream that a peer still writes to, or   *)
(* none once it has closed; a short receive is counted.                    *)
ReceiveMutant(stream, open, n) == \* waits even for a peer that has closed
  /\ n \in 1..(IF Len(stream) <= LenBuff THEN Len(stream) ELSE LenBuff)
  /\ cuts' = cuts + (IF n < Len(stream) THEN 1 ELSE 0) /\ cuts' <= MaxCuts
Receive(stream, open, n) ==
  /\ n \in 0..(IF Len(stream) <= LenBuff THEN Len(stream) ELSE LenBuff)
  /\ n = 0 => stream = <<>> /\ ~open
  /\ cuts' = cuts + (IF n < Len(stream) THEN 1 ELSE 0) /\ cuts' <= MaxCuts
From(stream, n) == SubSeq(stream, n + 1, Len(stream))

(* Closing a socket with something unread on it resets the connection, and *)
(* what is on its way to the peer may be lost.                             *)
AfterClose(stream, unread) == {stream} \cup (IF unread = <<>> THEN {} ELSE {<<>>})

ClientOpen(c) == client[c] \in {"connected", "waiting", "agreed"}
ServerHas(c) == server # "crashed" /\ (c = conn \/ \E i \in 1..Len(queue) : queue[i] = c)
-----------------------------------------------------------------------------
(* generateClientHello and connectToServer; connect fails when too many    *)
(* connections wait or nobody listens.                                     *)
Connect(c) ==
  /\ client[c] = "start"
  /\ \E offer \in Offers, number \in Drawn[c] :
       /\ private' = [private EXCEPT ![c] = number]
       /\ hello' = [hello EXCEPT ![c] = Hello(offer, Multiplied(G, number))]
  /\ IF server # "crashed" /\ Len(queue) < Backlog
     THEN /\ client' = [client EXCEPT ![c] = "connected"]
          /\ queue' = Append(queue, c)
     ELSE /\ client' = [client EXCEPT ![c] = "done"]
          /\ UNCHANGED queue
  /\ UNCHANGED <<answer, secret, serverVars, up, down, heard, took, bounds>>

SendClientHello(c) ==
  /\ client[c] = "connected"
  /\ client' = [client EXCEPT ![c] = "waiting"]
  /\ up' = [up EXCEPT ![c] = @ \o HelloText(hello[c])]
  /\ UNCHANGED <<private, hello, answer, secret, serverVars, queue, down, heard, took, bounds>>

(* waitForServerHello and generatePrivateECDH                              *)
WaitForServerHello(c, n) ==
  /\ client[c] = "waiting"
  /\ Receive(down[c], ServerHas(c), n)
  /\ client' = [client EXCEPT ![c] = "agreed"]
  /\ \E buffer \in {Received(down[c], n)} : answer' = [answer EXCEPT ![c] = Parsed(buffer, Unset)]
  /\ secret' = [secret EXCEPT ![c] = Multiplied(answer'[c].key, private[c])]
  /\ down' = [down EXCEPT ![c] = From(@, n)]
  /\ took' = [took EXCEPT ![c].answer = n]
  /\ UNCHANGED <<private, hello, serverVars, queue, up, heard, crashes>>

(* gcmSendMessage and close; a message too long for the buffer ends the    *)
(* process.                                                                *)
GcmSendMessage(c) ==
  /\ client[c] = "agreed"
  /\ IF LenBuff < LenToSend(c)
     THEN /\ client' = [client EXCEPT ![c] = "done"]
          /\ \E left \in AfterClose(up[c], down[c]) : up' = [up EXCEPT ![c] = left]
     ELSE /\ client' = [client EXCEPT ![c] = "sent"]
          /\ \E left \in AfterClose(up[c] \o Packet(c, secret[c]), down[c]) :
               up' = [up EXCEPT ![c] = left]
  /\ UNCHANGED <<private, hello, answer, secret, serverVars, queue, down, heard, took, bounds>>
-----------------------------------------------------------------------------
AcceptMutant == \* what accept returns is not kept
  /\ server = "accept" /\ queue # <<>>
  /\ server' = "request" /\ queue' = Tail(queue)
  /\ UNCHANGED <<clientVars, conn, serverPrivate, serverHello, serverSecret, request, up, down,
                 heard, took, bounds>>
Accept ==
  /\ server = "accept" /\ queue # <<>>
  /\ server' = "request" /\ conn' = Head(queue) /\ queue' = Tail(queue)
  /\ UNCHANGED <<clientVars, serverPrivate, serverHello, serverSecret, request, up, down,
                 heard, took, bounds>>

(* The structure is on the stack: what is not stored may be what an        *)
(* earlier call has left there.                                            *)
WaitForRequest(n) ==
  /\ server = "request"
  /\ Receive(up[conn], ClientOpen(conn), n)
  /\ server' = "reply"
  /\ \E buffer \in {Received(up[conn], n)}, old \in {Unset, request} :
       request' = Parsed(buffer, old)
  /\ up' = [up EXCEPT ![conn] = From(@, n)]
  /\ took' = [took EXCEPT ![conn].request = n]
  /\ UNCHANGED <<clientVars, conn, serverPrivate, serverHello, serverSecret, queue, down, heard,
                 crashes>>

(* generateServerHello, sendServerHello and generatePrivateECDH            *)
SendServerHelloMutant == \* the hello is put into the buffer and never sent
  /\ server = "reply" /\ server' = "message"
  /\ \E offer \in Offers, number \in Drawn["server"] :
       /\ serverPrivate' = number
       /\ serverHello' = Hello(offer, Multiplied(G, number))
  /\ serverSecret' = Multiplied(request.key, serverPrivate')
  /\ UNCHANGED <<clientVars, conn, request, queue, up, down, heard, took, bounds>>
SendServerHello ==
  /\ server = "reply" /\ server' = "message"
  /\ \E offer \in Offers, number \in Drawn["server"] :
       /\ serverPrivate' = number
       /\ serverHello' = Hello(offer, Multiplied(G, number))
  /\ serverSecret' = Multiplied(request.key, serverPrivate')
  /\ down' = [down EXCEPT ![conn] = @ \o HelloText(serverHello')]
  /\ UNCHANGED <<clientVars, conn, request, queue, up, heard, took, bounds>>

(* gcmReceiveMessage: three digits of length, the bytes, the vector and    *)
(* the tag.  The length may lie outside the buffer: what is read there may *)
(* end the process.                                                        *)
LenMsg(buffer) == Number(buffer, 1, 3)
OpenedMutant(buffer) == \* the tag is not compared
  Encrypted(SubSeq(buffer, 4, 3 + LenMsg(buffer)), VectorOf(buffer[4 + LenMsg(buffer)]), serverSecret)
Opened(buffer) ==
  LET bytes == SubSeq(buffer, 4, 3 + LenMsg(buffer))
      iv == VectorOf(buffer[4 + LenMsg(buffer)])
  IN  IF buffer[5 + LenMsg(buffer)] # GcmTag(bytes, iv, serverSecret, TRUE) THEN <<>>
      ELSE Encrypted(bytes, iv, serverSecret)
GcmReceiveMessage(n) ==
  /\ server = "message"
  /\ Receive(up[conn], ClientOpen(conn), n)
  /\ \E buffer \in {[Received(up[conn], n) EXCEPT ![LenBuff] = NUL]} :
       IF n = 0 THEN heard' = heard /\ server' = "close"
       ELSE IF 5 + LenMsg(buffer) \notin 1..LenBuff THEN heard' = heard /\ server' \in {"close", "crashed"}
       ELSE heard' = [heard EXCEPT ![conn] = Opened(buffer)] /\ server' = "close"
  /\ up' = [up EXCEPT ![conn] = From(@, n)]
  /\ took' = [took EXCEPT ![conn].message = n]
  /\ UNCHANGED <<clientVars, conn, serverPrivate, serverHello, serverSecret, request, queue, down,
                 crashes>>

CloseMutant == \* another message is awaited on the same connection
  /\ server = "close" /\ server' = "message"
  /\ UNCHANGED <<clientVars, conn, serverPrivate, serverHello, serverSecret, request, queue, up,
                 down, heard, took, bounds>>
Close ==
  /\ server = "close" /\ server' = "accept" /\ conn' = Nobody
  /\ \E left \in AfterClose(down[conn], up[conn]) : down' = [down EXCEPT ![conn] = left]
  /\ UNCHANGED <<clientVars, serverPrivate, serverHello, serverSecret, request, queue, up, heard,
                 took, bounds>>
-----------------------------------------------------------------------------
CrashClient(c) ==
  /\ ClientOpen(c) /\ crashes < MaxCrashes /\ crashes' = crashes + 1
  /\ client' = [client EXCEPT ![c] = "done"]
  /\ \E left \in AfterClose(up[c], down[c]) : up' = [up EXCEPT ![c] = left]
  /\ UNCHANGED <<private, hello, answer, secret, serverVars, queue, down, heard, took, cuts>>

CrashServer ==
  /\ server # "crashed" /\ crashes < MaxCrashes /\ crashes' = crashes + 1
  /\ server' = "crashed"
  /\ IF conn = Nobody THEN UNCHANGED down
     ELSE \E left \in AfterClose(down[conn], up[conn]) : down' = [down EXCEPT ![conn] = left]
  /\ UNCHANGED <<clientVars, conn, serverPrivate, serverHello, serverSecret, request, queue, up,
                 heard, took, cuts>>

ClientWork(c) ==
  \/ SendClientHello(c) \/ GcmSendMessage(c)
  \/ \E n \in 0..LenBuff : WaitForServerHello(c, n)
ServerWork ==
  \/ Accept \/ SendServerHello \/ Close
  \/ \E n \in 0..LenBuff : WaitForRequest(n) \/ GcmReceiveMessage(n)

Next ==
  \/ ServerWork \/ CrashServer
  \/ \E c \in Clients : Connect(c) \/ ClientWork(c) \/ CrashClient(c)
Spec == Init /\ [][Next]_vars

(* The server's process goes on once it has begun, and what was sent       *)
(* arrives.  A client owes nothing: it may connect and stay silent, and    *)
(* neither recv has a timeout.                                             *)
FairSpec == Spec /\ WF_vars(ServerWork)
GoesOn(c) == WF_vars(ClientWork(c))
-----------------------------------------------------------------------------
Phases == {"start", "connected", "waiting", "agreed", "sent", "done"}
ServerPhases == {"accept", "request", "reply", "message", "close", "crashed"}

TypeOK ==
  /\ client \in [Clients -> Phases] /\ server \in ServerPhases
  /\ conn \in Clients \cup {Nobody}
  /\ server \notin {"accept", "crashed"} => conn # Nobody
  /\ queue \in Seq(Clients) /\ Len(queue) <= Backlog
  /\ cuts \in 0..MaxCuts /\ crashes \in 0..MaxCrashes

(* A message that the server prints is the one that the client of this     *)
(* connection has sent, to the last byte, wherever the stream was cut: the *)
(* rest of a hello that is taken for a message never passes, and neither   *)
(* does a message under another connection's secret.                       *)
DeliveredIsSent == \A c \in Clients : heard[c] # <<>> => heard[c] = Padded(c)

HelloLength == Len(HelloText(Unset))
Whole(c) == took[c].request = HelloLength /\ took[c].answer = HelloLength

(* What X25519 promises: private numbers multiply in any order.            *)
Commutes(c) ==
  \A k \in Drawn[c], l \in Drawn["server"] :
    Multiplied(Multiplied(G, k), l) = Multiplied(Multiplied(G, l), k)

(* When each has received the other's hello whole, both have the same      *)
(* secret, so that the message can be read.                                *)
WholeHellosAgree ==
  \A c \in Clients :
    conn = c /\ server \in {"message", "close"} /\ client[c] \in {"agreed", "sent", "done"} /\ Whole(c)
      => serverSecret = secret[c]

(* And then a message that arrives in one piece is printed.                *)
WholeMessageHeard ==
  \A c \in Clients :
    conn = c /\ server = "close" /\ Whole(c) /\ took[c].message = LenToSend(c)
      => heard[c] = Padded(c)

(* No counter that is incremented consists of nothing but the largest      *)
(* word: increment ends the process then.  Where long has 64 bits it does  *)
(* not look for it.                                                        *)
CountersGoOn ==
  LongIsWord =>
    \A c \in Clients :
      LET n == NumBlocks(Len(Padded(c)))
      IN  \A j \in 0..n-1 : \E w \in 1..KeyWords : Counters(Iv[c], n)[j][w] # Words - 1

(* No part of the key stream encrypts two bytes of a message, or its tag,  *)
(* even where the counter wraps round: or their difference could be read.  *)
KeystreamOnce ==
  \A c \in Clients :
    LET sealed == {i \in 1..Len(up[c]) : up[c][i].is = "sealed"}
        StreamOf(i) == up[c][i].v[1]
    IN  \A i \in sealed :
          StreamOf(i)[2] # Iv[c] /\ \A j \in sealed \ {i} : StreamOf(i) # StreamOf(j)

(* Every field of a hello that lies before the place where the stream was  *)
(* cut is what the peer sent, though the parser does not know where that   *)
(* is.                                                                     *)
RightUpTo(n, got, sent) ==
  LET short == 2 + (WordDigits \div 2)
      second == 2 + WordDigits
      last == second + 3 * short + 2
  IN  /\ n >= second => got.random = sent.random
      /\ n >= second + short => got.cipher = sent.cipher
      /\ n >= second + 2 * short => got.group = sent.group
      /\ n >= second + 3 * short => got.signature = sent.signature
      /\ \A w \in 1..KeyWords : n >= last + w * WordDigits => got.key[w] = sent.key[w]
FieldsBeforeCutRight ==
  /\ server \in {"reply", "message", "close"} =>
       RightUpTo(took[conn].request, request, hello[conn])
  /\ \A c \in Clients :
       conn = c /\ server \in {"message", "close"} =>
         RightUpTo(took[c].answer, answer[c], serverHello)

(* A message is printed at most once on a connection, after it was sent,   *)
(* and nothing that follows in the stream is taken for another one.        *)
Abstract ==
  INSTANCE Delivery WITH Message <- [c \in Clients |-> Padded(c)],
                         sent <- {c \in Clients : client[c] = "sent"},
                         got <- heard
IsDelivery == Abstract!Spec

(* The server gets away from a client that goes on, or whose process ends, *)
(* wherever the streams were cut: what it has taken out of a hello never   *)
(* leaves it waiting for characters that do not come.  From a client that  *)
(* falls silent it may never return.                                       *)
ServerReturns ==
  \A c \in Clients : GoesOn(c) => (conn = c ~> server \in {"accept", "crashed"})

(* When all clients go on, one that has connected comes to its end: it and *)
(* the server never wait for each other, and no connection is forgotten in *)
(* the queue.                                                              *)
ClientsEnd ==
  (\A c \in Clients : GoesOn(c)) =>
    []<>(\A c \in Clients : client[c] \in {"start", "sent", "done"})
=============================================================================
