----------------------------- MODULE RandomGather -----------------------------
(***************************************************************************)
(* randomNumber (random.c): words are drawn from a product of sources,     *)
(* spread over the time the caller allows, then hashed together.  The XOR  *)
(* of sources is the set of those that have gone into it an odd number of  *)
(* times; a word of dest is the set of the drawn words that it depends on. *)
(* Operators whose names end in Mutant are plausible slips of the          *)
(* definition after them; no specification uses them.                      *)
(***************************************************************************)
EXTENDS Integers, FiniteSets

CONSTANTS Chunks,       \* words to fill
          HashWords,    \* words of a hash: 8
          Times,        \* what callers pass for generationMs
          Mouse,        \* x ^ y of the positions of the mouse
          MaxNow        \* bound: the clock stops there

ASSUME ChunksAssumption == Chunks \in Nat \ {0} /\ HashWords \in Nat \ {0}
ASSUME TimeAssumption == Times \subseteq 0..MaxNow /\ MaxNow \in Nat
ASSUME MouseAssumption == Mouse # {}

VARIABLES now,     \* the monotonic clock; the call is made at 0
          pc,
          modulus, generationMs, \* the arguments; modulus says if n is there, and zero
          product, currTimeMs, chunkWriteCount,
          dest,
          count,   \* blocks hashed
          drawn    \* history: product as it was written to each word

args == <<modulus, generationMs>>
vars == <<now, pc, args, product, currTimeMs, chunkWriteCount, dest, count, drawn>>

Xor(a, b) == (a \ b) \cup (b \ a)
(* What is read once: cycles, memory, process, times, an address *)
Seed == [source |-> "seed", value |-> 0]
Clock(t) == [source |-> "clock", value |-> t]
Pointer(m) == [source |-> "mouse", value |-> m]

(* XOpenDisplay is not checked: with no X server its NULL is used. *)
Init ==
  /\ now = 0 /\ currTimeMs = 0
  /\ modulus \in {"none", "zero", "positive"} /\ generationMs \in Times
  /\ \E m \in Mouse : product = {Seed, Clock(0), Pointer(m)}
  /\ pc \in {"loop", "crashed"}
  /\ chunkWriteCount = 1 /\ count = 0
  /\ dest = [k \in 1..Chunks |-> {}]
  /\ drawn = [k \in 1..Chunks |-> {}]

targetTime == generationMs
DueMutant == \* one word early: none is left for the end
  (targetTime - currTimeMs) * (Chunks + 1) <= generationMs * (Chunks - chunkWriteCount + 1)
Due ==
  (targetTime - currTimeMs) * (Chunks + 1) <= generationMs * (Chunks - chunkWriteCount)

TestMutant == \* the clock is not read again
  /\ pc = "loop"
  /\ IF generationMs > 0 THEN \E m \in Mouse : product' = Xor(product, {Pointer(m)})
     ELSE UNCHANGED product
  /\ pc' = IF Due THEN "write" ELSE "loop"
  /\ UNCHANGED <<now, currTimeMs, args, chunkWriteCount, dest, count, drawn>>

(* The mouse is used if the user has time to move it. *)
Test ==
  /\ pc = "loop"
  /\ IF generationMs > 0 THEN \E m \in Mouse : product' = Xor(product, {Pointer(m)})
     ELSE UNCHANGED product
  /\ IF Due THEN pc' = "write" /\ UNCHANGED currTimeMs
     ELSE currTimeMs' = now /\ UNCHANGED pc
  /\ UNCHANGED <<now, args, chunkWriteCount, dest, count, drawn>>

MixedMutant(p) == {Clock(now)} \* product = ts.tv_nsec
Mixed(p) == Xor(p, {Clock(now)})

Write ==
  /\ pc = "write"
  /\ product' = Mixed(product)
  /\ dest' = [dest EXCEPT ![chunkWriteCount] = {chunkWriteCount}]
  /\ drawn' = [drawn EXCEPT ![chunkWriteCount] = product']
  /\ chunkWriteCount' = chunkWriteCount + 1
  /\ IF chunkWriteCount = Chunks THEN pc' = "hash" /\ UNCHANGED currTimeMs
     ELSE pc' = "loop" /\ currTimeMs' = now
  /\ UNCHANGED <<now, args, count>>

(* The whole of dest, hashed blocks included, is hashed into each block. *)
HashedMutant(words) == UNION {words[k] : k \in count * HashWords + 1..Chunks} \* what is left
Hashed(words) == UNION {words[k] : k \in 1..Chunks}
Hash ==
  /\ pc = "hash"
  /\ dest' = [k \in 1..Chunks |->
                IF k \in count * HashWords + 1..(count + 1) * HashWords THEN Hashed(dest) ELSE dest[k]]
  /\ count' = count + 1
  /\ pc' = IF count' * HashWords >= Chunks THEN "mod" ELSE "hash"
  /\ UNCHANGED <<now, args, product, currTimeMs, chunkWriteCount, drawn>>

Mod ==
  /\ pc = "mod"
  /\ pc' = IF modulus = "zero" THEN "exited" ELSE "done"
  /\ dest' = IF modulus = "positive" THEN [k \in 1..Chunks |-> Hashed(dest)] ELSE dest
  /\ UNCHANGED <<now, args, product, currTimeMs, chunkWriteCount, count, drawn>>

Tick ==
  /\ now < MaxNow /\ now' = now + 1
  /\ UNCHANGED <<pc, args, product, currTimeMs, chunkWriteCount, dest, count, drawn>>

Step == Test \/ Write \/ Hash \/ Mod
Next == Step \/ Tick
Spec == Init /\ [][Next]_vars
FairSpec == Spec /\ WF_vars(Step) /\ WF_vars(Tick)
-----------------------------------------------------------------------------
(* The last word is drawn when the caller's time is over, not before:      *)
(* however late the loop runs, the mouse is watched for all of it.         *)
WaitsWholeTime == pc \in {"hash", "mod", "done"} => now >= targetTime

(* Every word that is returned depends on every word drawn, the last block *)
(* and a block shorter than a hash included.                               *)
EveryWordMixed == pc = "done" => \A k \in 1..Chunks : dest[k] = 1..Chunks

(* No XOR of a later reading takes out the sources that are read once.     *)
SeedKept == \A k \in 1..chunkWriteCount - 1 : Seed \in drawn[k]

(* While the clock goes on the call ends. *)
Returns == <>(pc \in {"done", "exited", "crashed"})
=============================================================================
