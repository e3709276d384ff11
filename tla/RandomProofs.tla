----------------------------- MODULE RandomProofs -----------------------------
(***************************************************************************)
(* Proofs about RandomGather, for every number of words, every size of     *)
(* hash, every time a caller may allow, and every clock.                   *)
(***************************************************************************)
EXTENDS RandomGather, TLAPS

States == {"loop", "write", "hash", "mod", "done", "exited", "crashed"}
Words == 1..Chunks

(* Where the loop is, and what time it has seen                            *)
Loop ==
  /\ pc \in States /\ now \in Nat /\ currTimeMs \in 0..now /\ generationMs \in Nat
  /\ chunkWriteCount \in 1..Chunks + 1
  /\ pc \in {"loop", "write"} => chunkWriteCount <= Chunks
  /\ pc = "write" => Due
  /\ WaitsWholeTime

LEMMA LastIsLate ==
  ASSUME NEW total \in Nat, NEW seen \in Nat, NEW n \in Nat, (total - seen) * (n + 1) <= 0
  PROVE  seen >= total
  <1> SUFFICES ASSUME seen < total
               PROVE  FALSE
    OBVIOUS
  <1>1. total - seen \in Nat \ {0} /\ n + 1 \in Nat \ {0}
    OBVIOUS
  <1>2. \A a, b \in Nat \ {0} : a * b > 0
    OBVIOUS
  <1> QED
    BY <1>1, <1>2

LEMMA LoopInit == Init => Loop
  BY ChunksAssumption, TimeAssumption DEF Init, Loop, States, WaitsWholeTime

LEMMA LoopStep == Loop /\ [Next]_vars => Loop'
  <1> SUFFICES ASSUME Loop, [Next]_vars PROVE Loop'
    OBVIOUS
  <1> USE ChunksAssumption DEF Loop, States, WaitsWholeTime, targetTime, args
  <1>1. CASE Test
    <2>1. CASE Due
      BY <1>1, <2>1 DEF Test, Due
    <2>2. CASE ~Due
      BY <1>1, <2>2 DEF Test
    <2> QED
      BY <2>1, <2>2
  <1>2. CASE Write
    <2>1. CASE chunkWriteCount = Chunks
      <3>1. generationMs * (Chunks - chunkWriteCount) = 0
        BY <2>1
      <3>2. (generationMs - currTimeMs) * (Chunks + 1) <= 0
        BY <1>2, <3>1 DEF Write, Due
      <3>3. currTimeMs >= generationMs
        BY <3>2, LastIsLate
      <3> QED
        BY <1>2, <2>1, <3>3 DEF Write
    <2>2. CASE chunkWriteCount # Chunks
      BY <1>2, <2>2 DEF Write
    <2> QED
      BY <2>1, <2>2
  <1>3. CASE Hash
    BY <1>3 DEF Hash
  <1>4. CASE Mod
    BY <1>4 DEF Mod
  <1>5. CASE Tick
    BY <1>5 DEF Tick, Due
  <1>6. CASE UNCHANGED vars
    BY <1>6 DEF vars, Due
  <1> QED
    BY <1>1, <1>2, <1>3, <1>4, <1>5, <1>6 DEF Next, Step

(* The last word is drawn after the time the caller has allowed, however   *)
(* late the loop runs and however the clock jumps (random.c:123-158).      *)
THEOREM TimeIsUsed == Spec => []WaitsWholeTime
  <1>1. Loop => WaitsWholeTime
    BY DEF Loop
  <1> QED
    BY LoopInit, LoopStep, <1>1, PTL DEF Spec
-----------------------------------------------------------------------------
(* What the words depend on                                                *)

Full(k) == dest[k] = Words
Mixing ==
  /\ dest = [k \in Words |-> dest[k]] /\ count \in Nat
  /\ pc \in {"loop", "write"} => count = 0
  /\ \A k \in Words : dest[k] \subseteq Words
  /\ \A k \in Words : k < chunkWriteCount => k \in dest[k]
  /\ pc \in {"hash", "mod"} =>
       chunkWriteCount = Chunks + 1 /\ \A k \in Words : k <= count * HashWords => Full(k)
  /\ pc = "mod" => \A k \in Words : Full(k)
  /\ EveryWordMixed

LEMMA MixingInit == Init => Mixing
  BY ChunksAssumption DEF Init, Mixing, Words, EveryWordMixed

LEMMA AllIsHashed ==
  ASSUME NEW words, \A k \in Words : k \in words[k] /\ words[k] \subseteq Words
  PROVE  Hashed(words) = Words
  BY DEF Hashed, Words

LEMMA MixingStep == Loop /\ Mixing /\ [Next]_vars => Mixing'
  <1> SUFFICES ASSUME Loop, Mixing, [Next]_vars PROVE Mixing'
    OBVIOUS
  <1> USE ChunksAssumption DEF args
  <1>1. CASE Test
    <2>1. UNCHANGED <<dest, count, chunkWriteCount>> /\ pc = "loop" /\ pc' \in {"loop", "write"}
      BY <1>1 DEF Test
    <2> QED
      BY <2>1 DEF Mixing, EveryWordMixed, Full
  <1>2. CASE Write
    <2>1. chunkWriteCount \in Words /\ pc = "write" /\ pc' \in {"loop", "hash"} /\ count = 0
      BY <1>2 DEF Write, Loop, Words, Mixing
    <2>2. dest' = [k \in Words |-> dest'[k]]
          /\ \A k \in Words : dest'[k] = IF k = chunkWriteCount THEN {k} ELSE dest[k]
      <3>1. dest' = [dest EXCEPT ![chunkWriteCount] = {chunkWriteCount}]
        BY <1>2 DEF Write
      <3>2. dest = [k \in Words |-> dest[k]]
        BY DEF Mixing
      <3> QED
        BY <2>1, <3>1, <3>2
    <2>3. chunkWriteCount' = chunkWriteCount + 1 /\ count' = count
          /\ (pc' = "hash" => chunkWriteCount = Chunks)
      BY <1>2 DEF Write
    <2>4. \A k \in Words : dest'[k] \subseteq Words /\ (k < chunkWriteCount + 1 => k \in dest'[k])
      BY <2>1, <2>2 DEF Mixing, Words
    <2>5. \A k \in Words : ~(k <= count * HashWords)
      BY <2>1 DEF Words
    <2> QED
      BY <2>1, <2>2, <2>3, <2>4, <2>5 DEF Mixing, EveryWordMixed
  <1>3. CASE Hash
    <2>1. pc = "hash" /\ chunkWriteCount = Chunks + 1 /\ UNCHANGED chunkWriteCount
          /\ count' = count + 1 /\ count \in Nat
          /\ pc' = IF count' * HashWords >= Chunks THEN "mod" ELSE "hash"
      BY <1>3 DEF Hash, Mixing
    <2>2. \A k \in Words : k \in dest[k] /\ dest[k] \subseteq Words
      BY <2>1 DEF Mixing, Words
    <2>3. Hashed(dest) = Words
      BY <2>2, AllIsHashed
    <2>4. dest' = [k \in Words |->
                    IF k \in count * HashWords + 1..(count + 1) * HashWords THEN Words ELSE dest[k]]
      BY <1>3, <2>3 DEF Hash, Words
    <2>5. dest' = [k \in Words |-> dest'[k]]
          /\ \A k \in Words : dest'[k] =
               IF k \in count * HashWords + 1..(count + 1) * HashWords THEN Words ELSE dest[k]
      BY <2>4
    <2>6. \A k \in Words : k \in dest'[k] /\ dest'[k] \subseteq Words
      BY <2>2, <2>5
    <2>7. count * HashWords \in Nat /\ count' * HashWords \in Nat
      BY <2>1
    <2>8. ASSUME NEW k \in Words, k <= count' * HashWords
          PROVE  dest'[k] = Words
      <3>1. CASE k <= count * HashWords
        BY <2>1, <2>5, <3>1 DEF Mixing, Full
      <3>2. CASE ~(k <= count * HashWords)
        <4>1. k \in Int /\ count' * HashWords = (count + 1) * HashWords
          BY <2>1 DEF Words
        <4> DEFINE low == count * HashWords
                   high == (count + 1) * HashWords
        <4>2. k <= high /\ low \in Nat /\ high \in Nat /\ ~(k <= low)
          BY <2>7, <2>8, <3>2, <4>1
        <4> HIDE DEF low, high
        <4>3. k \in low + 1..high
          BY <4>1, <4>2
        <4> QED
          BY <2>5, <4>3 DEF low, high
      <3> QED
        BY <3>1, <3>2
    <2>9. pc' = "mod" => \A k \in Words : dest'[k] = Words
      <3>1. pc' = "mod" => \A k \in Words : k <= count' * HashWords
        BY <2>1, <2>7 DEF Words
      <3> QED
        BY <2>8, <3>1
    <2>10. pc' \in {"hash", "mod"} /\ count' \in Nat
      BY <2>1
    <2> QED
      BY <2>1, <2>5, <2>6, <2>8, <2>9, <2>10 DEF Mixing, EveryWordMixed, Full
  <1>4. CASE Mod
    <2>1. /\ pc = "mod" /\ pc' \in {"exited", "done"} /\ UNCHANGED <<count, chunkWriteCount>>
          /\ \A k \in Words : Full(k)
      BY <1>4 DEF Mod, Mixing
    <2>2. \A k \in Words : k \in dest[k] /\ dest[k] \subseteq Words
      BY <2>1 DEF Full
    <2>3. Hashed(dest) = Words
      BY <2>2, AllIsHashed
    <2>4. dest' = dest \/ dest' = [k \in Words |-> Words]
      BY <1>4, <2>3 DEF Mod, Words
    <2>5. dest' = [k \in Words |-> dest'[k]] /\ \A k \in Words : dest'[k] = Words
      BY <2>1, <2>4 DEF Mixing, Full
    <2>6. count' \in Nat
      BY <2>1 DEF Mixing
    <2> QED
      BY <2>1, <2>5, <2>6 DEF Mixing, EveryWordMixed, Words
  <1>5. CASE Tick \/ UNCHANGED vars
    <2>1. UNCHANGED <<pc, dest, count, chunkWriteCount>>
      BY <1>5 DEF Tick, vars
    <2> QED
      BY <2>1 DEF Mixing, EveryWordMixed, Full
  <1> QED
    BY <1>1, <1>2, <1>3, <1>4, <1>5 DEF Next, Step

(* Every word that randomNumber returns depends on every word it has drawn *)
(* (random.c:163-175), also where a hash is longer than what is left.      *)
THEOREM EveryDrawCounts == Spec => []EveryWordMixed
  <1>1. Mixing => EveryWordMixed
    BY DEF Mixing
  <1> QED
    BY LoopInit, LoopStep, MixingInit, MixingStep, <1>1, PTL DEF Spec
-----------------------------------------------------------------------------
(* The seed                                                                *)

Seeded ==
  /\ Seed \in product /\ chunkWriteCount \in 1..Chunks + 1 /\ SeedKept
  /\ pc = "write" => chunkWriteCount \in Words
  /\ drawn = [k \in Words |-> drawn[k]]

LEMMA SourcesDiffer ==
  /\ \A t : Seed # Clock(t)
  /\ \A m : Seed # Pointer(m)
  <1>1. Seed.source = "seed" /\ \A x : Clock(x).source = "clock" /\ Pointer(x).source = "mouse"
    BY DEF Seed, Clock, Pointer
  <1> QED
    BY <1>1

(* What was read once is in every word that was drawn: no reading of the   *)
(* clock or the mouse cancels it, as two equal ones cancel each other.     *)
THEOREM SeedStays == Spec => []SeedKept
  <1>1. Init => Seeded
    BY ChunksAssumption DEF Init, Seeded, SeedKept, Words
  <1>2. Loop /\ Seeded /\ [Next]_vars => Seeded'
    <2> SUFFICES ASSUME Loop, Seeded, [Next]_vars PROVE Seeded'
      OBVIOUS
    <2>1. CASE Test
      <3>1. UNCHANGED <<chunkWriteCount, drawn>> /\ chunkWriteCount \in Words
        BY <2>1 DEF Test, Loop, Words
      <3>2. Seed \in product'
        BY <2>1, SourcesDiffer DEF Test, Xor, Seeded
      <3> QED
        BY <3>1, <3>2 DEF Seeded, SeedKept
    <2>2. CASE Write
      <3>1. chunkWriteCount \in Words /\ chunkWriteCount' = chunkWriteCount + 1
            /\ (pc' = "write" => FALSE)
        BY <2>2 DEF Write, Seeded
      <3>2. Seed \in product'
        BY <2>2, SourcesDiffer DEF Write, Mixed, Xor, Seeded
      <3>3. drawn' = [k \in Words |-> drawn'[k]]
            /\ \A k \in Words : drawn'[k] = IF k = chunkWriteCount THEN product' ELSE drawn[k]
        <4>1. drawn' = [drawn EXCEPT ![chunkWriteCount] = product']
          BY <2>2 DEF Write
        <4>2. drawn = [k \in Words |-> drawn[k]]
          BY DEF Seeded
        <4> QED
          BY <3>1, <4>1, <4>2
      <3>4. \A k \in 1..chunkWriteCount : k \in Words /\ Seed \in drawn'[k]
        BY <3>1, <3>2, <3>3, ChunksAssumption DEF Seeded, SeedKept, Words
      <3>5. 1..chunkWriteCount' - 1 = 1..chunkWriteCount /\ chunkWriteCount' \in 1..Chunks + 1
        BY <3>1, ChunksAssumption DEF Words
      <3> QED
        BY <3>1, <3>2, <3>3, <3>4, <3>5 DEF Seeded, SeedKept
    <2>3. CASE Hash \/ Mod \/ Tick \/ UNCHANGED vars
      <3>1. UNCHANGED <<product, chunkWriteCount, drawn>> /\ (pc' = "write" => pc = "write")
        BY <2>3 DEF Hash, Mod, Tick, vars
      <3> QED
        BY <3>1 DEF Seeded, SeedKept
    <2> QED
      BY <2>1, <2>2, <2>3 DEF Next, Step
  <1>3. Seeded => SeedKept
    BY DEF Seeded
  <1> QED
    BY LoopInit, LoopStep, <1>1, <1>2, <1>3, PTL DEF Spec
=============================================================================
