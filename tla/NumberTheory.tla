----------------------------- MODULE NumberTheory -----------------------------
(***************************************************************************)
(* What the proofs of the other modules need of numbers: induction and     *)
(* recursion, stated of sets and functions and not of operators, and the   *)
(* numbers that are the same modulo another, to the theorem that RSA rests *)
(* on.                                                                     *)
(***************************************************************************)
EXTENDS Primes, WellFoundedInduction, TLAPS

LEMMA LessWellFounded == IsWellFoundedOn({ss \in Nat \X Nat : ss[1] < ss[2]}, Nat)
  BY NatLessThanWellFounded, Zenon DEF OpToRel

(* A set of numbers that holds 0 and each one's successor holds all.       *)
LEMMA SetInduction ==
  ASSUME NEW T, 0 \in T, \A n \in Nat : n \in T => n + 1 \in T
  PROVE  \A n \in Nat : n \in T
  <1> SUFFICES ASSUME Nat \ T # {}
               PROVE  FALSE
    OBVIOUS
  <1> DEFINE R == {ss \in Nat \X Nat : ss[1] < ss[2]}
  <1>1. PICK x \in Nat \ T : \A y \in Nat \ T : ~(<<y, x>> \in R)
    <2>1. IsWellFoundedOn(R, Nat)
      BY LessWellFounded
    <2> HIDE DEF R
    <2> QED
      BY <2>1, WFMin
  <1>2. \A y \in Nat \ T : ~(y < x)
    BY <1>1
  <1>3. x - 1 \in Nat /\ x - 1 \in T
    BY <1>2
  <1> QED
    BY <1>3

(* The same from m to n                                                    *)
LEMMA RangeInduction ==
  ASSUME NEW m \in Int, NEW n \in Int, NEW T, m \in T,
         \A i \in m..n-1 : i \in T => i + 1 \in T
  PROVE  \A i \in m..n : i \in T
  <1> DEFINE S == {k \in Nat : m + k <= n => m + k \in T}
  <1>1. 0 \in S
    OBVIOUS
  <1>2. ASSUME NEW k \in Nat, k \in S
        PROVE  k + 1 \in S
    <2>1. CASE m + k + 1 <= n
      <3>1. m + k \in T /\ m + k \in m..n-1
        BY <1>2, <2>1
      <3>2. m + k + 1 \in T
        BY <3>1
      <3> QED
        BY <3>2
    <2> QED
      BY <2>1
  <1>3. \A k \in Nat : k \in S
    <2> HIDE DEF S
    <2> QED
      BY <1>1, <1>2, SetInduction
  <1>4. ASSUME NEW i \in m..n
        PROVE  i \in T
    <2>1. i - m \in Nat /\ m + (i - m) = i
      OBVIOUS
    <2>2. i - m \in S
      BY <1>3, <2>1
    <2> QED
      BY <2>1, <2>2
  <1> QED
    BY <1>4

(* A function over m..n that is given at m and, by step, at each later     *)
(* place from the one before it                                            *)
Follows(f, m, n, first, step) ==
  /\ m <= n => f[m] = first
  /\ \A i \in m+1..n : f[i] = step[i][f[i-1]]

LEMMA RecursionExists ==
  ASSUME NEW m \in Int, NEW n \in Int, NEW S, NEW first \in S, NEW step,
         \A i \in m+1..n : \A x \in S : step[i][x] \in S
  PROVE  \E f \in [m..n -> S] : Follows(f, m, n, first, step)
  <1> DEFINE T == {k \in m..n : \E f \in [m..k -> S] : Follows(f, m, k, first, step)}
  <1>1. CASE n < m
    <2> DEFINE f == [i \in m..n |-> first]
    <2>1. f \in [m..n -> S]
      OBVIOUS
    <2>2. Follows(f, m, n, first, step)
      BY <1>1 DEF Follows
    <2> HIDE DEF f
    <2> QED
      BY <2>1, <2>2
  <1>2. CASE m <= n
    <2>1. m \in T
      <3> DEFINE f == [i \in m..m |-> first]
      <3>1. f \in [m..m -> S]
        OBVIOUS
      <3>2. Follows(f, m, m, first, step)
        BY DEF Follows
      <3> HIDE DEF f
      <3>3. m \in m..n
        BY <1>2
      <3> QED
        BY <3>1, <3>2, <3>3
    <2>2. ASSUME NEW k \in m..n-1, k \in T
          PROVE  k + 1 \in T
      <3>1. PICK f \in [m..k -> S] : Follows(f, m, k, first, step)
        BY <2>2
      <3> DEFINE g == [i \in m..k+1 |-> IF i = k + 1 THEN step[k+1][f[k]] ELSE f[i]]
      <3>2. k \in m..k /\ f[k] \in S /\ k + 1 \in m+1..n
        OBVIOUS
      <3>3. step[k+1][f[k]] \in S
        BY <3>2
      <3>4. g \in [m..k+1 -> S]
        BY <3>3
      <3>5. ASSUME NEW i \in m+1..k+1
            PROVE  g[i] = step[i][g[i-1]]
        <4>1. CASE i = k + 1
          BY <4>1
        <4>2. CASE i # k + 1
          <5>1. i \in m+1..k /\ i \in m..k /\ i - 1 \in m..k /\ g[i] = f[i] /\ g[i-1] = f[i-1]
            BY <4>2
          <5> QED
            BY <3>1, <5>1 DEF Follows
        <4> QED
          BY <4>1, <4>2
      <3>6. g[m] = first
        BY <3>1 DEF Follows
      <3> HIDE DEF g
      <3>7. Follows(g, m, k + 1, first, step)
        BY <3>5, <3>6 DEF Follows
      <3>8. k + 1 \in m..n
        OBVIOUS
      <3> QED
        BY <3>4, <3>7, <3>8
    <2>3. \A k \in m..n : k \in T
      <3> HIDE DEF T
      <3> QED
        BY <2>1, <2>2, RangeInduction
    <2>4. n \in T
      BY <1>2, <2>3
    <2> QED
      BY <2>4
  <1> QED
    BY <1>1, <1>2

(* The same over all numbers                                               *)
NatFollows(f, first, step) == f[0] = first /\ \A i \in Nat \ {0} : f[i] = step[i][f[i-1]]

LEMMA NatRecursionExists ==
  ASSUME NEW S, NEW first \in S, NEW step,
         \A i \in Nat \ {0} : \A x \in S : step[i][x] \in S
  PROVE  \E f \in [Nat -> S] : NatFollows(f, first, step)
  <1> DEFINE Right(n, f) == f \in [0..n -> S] /\ Follows(f, 0, n, first, step)
             part == [n \in Nat |-> CHOOSE f : Right(n, f)]
             whole == [n \in Nat |-> part[n][n]]
  <1>1. ASSUME NEW n \in Nat
        PROVE  Right(n, part[n])
    <2>1. \A i \in 0+1..n : \A x \in S : step[i][x] \in S
      OBVIOUS
    <2>2. \E f \in [0..n -> S] : Follows(f, 0, n, first, step)
      BY <2>1, 0 \in Int, n \in Int, RecursionExists, Zenon
    <2>3. part[n] = CHOOSE f : Right(n, f)
      OBVIOUS
    <2> HIDE DEF part
    <2>4. \E f : Right(n, f)
      BY <2>2
    <2> HIDE DEF Right
    <2> QED
      BY <2>3, <2>4
  <1> HIDE DEF part
  <1>2. ASSUME NEW n \in Nat
        PROVE  \A i \in 0..n : part[n+1][i] = part[n][i]
    <2> DEFINE T == {i \in 0..n : part[n+1][i] = part[n][i]}
    <2>1. Follows(part[n], 0, n, first, step) /\ Follows(part[n+1], 0, n + 1, first, step)
      BY <1>1
    <2>2. 0 \in T
      BY <2>1 DEF Follows
    <2>3. ASSUME NEW i \in 0..n-1, i \in T
          PROVE  i + 1 \in T
      <3>1. i + 1 \in 0..n /\ i + 1 \in 0+1..n /\ i + 1 \in 0+1..n+1 /\ (i + 1) - 1 = i
        OBVIOUS
      <3>2. part[n][i+1] = step[i+1][part[n][i]] /\ part[n+1][i+1] = step[i+1][part[n+1][i]]
        BY <2>1, <3>1 DEF Follows
      <3> QED
        BY <2>3, <3>1, <3>2
    <2>4. \A i \in 0..n : i \in T
      <3> HIDE DEF T
      <3> QED
        BY <2>2, <2>3, RangeInduction
    <2> QED
      BY <2>4
  <1>3. whole \in [Nat -> S]
    <2>1. ASSUME NEW n \in Nat
          PROVE  part[n][n] \in S
      <3>1. n \in 0..n
        OBVIOUS
      <3> QED
        BY <1>1, <3>1
    <2> QED
      BY <2>1
  <1>4. whole[0] = first
    BY <1>1 DEF Follows
  <1>5. ASSUME NEW i \in Nat \ {0}
        PROVE  whole[i] = step[i][whole[i-1]]
    <2>1. i - 1 \in Nat /\ i - 1 \in 0..i-1 /\ (i - 1) + 1 = i /\ i \in 0+1..i
      OBVIOUS
    <2>2. whole[i] = part[i][i] /\ whole[i-1] = part[i-1][i-1]
      BY <2>1
    <2>3. part[i][i-1] = part[i-1][i-1]
      BY <1>2, <2>1
    <2>4. part[i][i] = step[i][part[i][i-1]]
      BY <1>1, <2>1 DEF Follows
    <2> QED
      BY <2>2, <2>3, <2>4
  <1> HIDE DEF whole
  <1> QED
    BY <1>3, <1>4, <1>5 DEF NatFollows

(* A function that goes from x to next[x] until it stops exists where each *)
(* step makes x smaller.                                                   *)
Descends(D, size, stop, next) ==
  /\ size \in [D -> Nat] /\ next \in [D -> D]
  /\ \A x \in D : x \notin stop => size[next[x]] < size[x]
Returns(f, D, stop, next) == \A x \in D : f[x] = IF x \in stop THEN x ELSE f[next[x]]

LEMMA DescentExists ==
  ASSUME NEW D, NEW size, NEW stop, NEW next, Descends(D, size, stop, next)
  PROVE  \E f \in [D -> D] : Returns(f, D, stop, next)
  <1> USE DEF Descends
  <1> DEFINE S == [D -> D]
             Onward(f) == [x \in D |-> IF x \in stop THEN x ELSE f[next[x]]]
             step == [i \in Nat |-> [f \in S |-> Onward(f)]]
             first == [x \in D |-> x]
  <1>1. PICK g \in [Nat -> S] : NatFollows(g, first, step)
    <2>1. ASSUME NEW i \in Nat \ {0}, NEW f \in S
          PROVE  step[i][f] \in S
      OBVIOUS
    <2>2. first \in S
      OBVIOUS
    <2> HIDE DEF step, S, first
    <2> QED
      BY <2>1, <2>2, NatRecursionExists, Zenon
  <1>2. ASSUME NEW k \in Nat, NEW x \in D
        PROVE  g[k+1][x] = IF x \in stop THEN x ELSE g[k][next[x]]
    <2>1. k + 1 \in Nat \ {0} /\ (k + 1) - 1 = k /\ g[k] \in S
      OBVIOUS
    <2>2. g[k+1] = step[k+1][g[k]]
      BY <1>1, <2>1 DEF NatFollows
    <2>3. g[k+1] = Onward(g[k])
      BY <2>1, <2>2
    <2> QED
      BY <2>3
  <1> HIDE DEF step, first, Onward
  <1>3. ASSUME NEW k \in Nat
        PROVE  \A x \in D : size[x] < k => g[k+1][x] = g[k][x]
    <2> DEFINE T == {i \in Nat : \A x \in D : size[x] < i => g[i+1][x] = g[i][x]}
    <2>1. 0 \in T
      OBVIOUS
    <2>2. ASSUME NEW i \in Nat, i \in T
          PROVE  i + 1 \in T
      <3> SUFFICES ASSUME NEW x \in D, size[x] < i + 1
                   PROVE  g[(i+1)+1][x] = g[i+1][x]
        OBVIOUS
      <3>1. g[(i+1)+1][x] = IF x \in stop THEN x ELSE g[i+1][next[x]]
        BY <1>2
      <3>2. g[i+1][x] = IF x \in stop THEN x ELSE g[i][next[x]]
        BY <1>2
      <3>3. CASE x \in stop
        BY <3>1, <3>2, <3>3
      <3>4. CASE x \notin stop
        <4>1. next[x] \in D /\ size[next[x]] < size[x] /\ size[x] \in Nat /\ size[next[x]] \in Nat
          BY <3>4
        <4>2. size[next[x]] < i
          BY <4>1
        <4>3. g[i+1][next[x]] = g[i][next[x]]
          BY <2>2, <4>1, <4>2
        <4> QED
          BY <3>1, <3>2, <3>4, <4>3
      <3> QED
        BY <3>3, <3>4
    <2>3. \A i \in Nat : i \in T
      <3> HIDE DEF T
      <3> QED
        BY <2>1, <2>2, SetInduction
    <2> QED
      BY <2>3
  <1>4. ASSUME NEW x \in D, NEW m \in Nat, size[x] < m
        PROVE  \A j \in Nat : g[m+j][x] = g[m][x]
    <2> DEFINE T == {j \in Nat : g[m+j][x] = g[m][x]}
    <2>1. 0 \in T
      OBVIOUS
    <2>2. ASSUME NEW j \in Nat, j \in T
          PROVE  j + 1 \in T
      <3>1. m + j \in Nat /\ (m + j) + 1 = m + (j + 1) /\ size[x] \in Nat
        OBVIOUS
      <3>2. size[x] < m + j
        BY <1>4, <3>1
      <3>3. g[(m+j)+1][x] = g[m+j][x]
        BY <1>3, <3>1, <3>2
      <3> QED
        BY <2>2, <3>1, <3>3
    <2>3. \A j \in Nat : j \in T
      <3> HIDE DEF T
      <3> QED
        BY <2>1, <2>2, SetInduction
    <2> QED
      BY <2>3
  <1> DEFINE f == [x \in D |-> g[size[x]+1][x]]
  <1>5. f \in [D -> D]
    <2>1. ASSUME NEW x \in D
          PROVE  g[size[x]+1][x] \in D
      <3>1. size[x] + 1 \in Nat
        OBVIOUS
      <3>2. g[size[x]+1] \in S
        BY <3>1
      <3> QED
        BY <3>2
    <2> QED
      BY <2>1
  <1>6. ASSUME NEW x \in D
        PROVE  f[x] = IF x \in stop THEN x ELSE f[next[x]]
    <2> DEFINE i == size[x]
    <2>1. i \in Nat /\ f[x] = g[i+1][x]
      OBVIOUS
    <2>2. g[i+1][x] = IF x \in stop THEN x ELSE g[i][next[x]]
      BY <1>2, <2>1
    <2>3. CASE x \in stop
      BY <2>1, <2>2, <2>3
    <2>4. CASE x \notin stop
      <3> DEFINE y == next[x]
                 m == size[y] + 1
                 j == i - m
      <3>1. y \in D /\ size[y] \in Nat /\ size[y] < i
        BY <2>4
      <3>2. m \in Nat /\ j \in Nat /\ m + j = i /\ size[y] < m
        BY <2>1, <3>1
      <3>3. f[y] = g[m][y]
        BY <3>1
      <3> HIDE DEF m, j, y, i, f
      <3>4. g[m+j][y] = g[m][y]
        BY <1>4, <3>1, <3>2
      <3> QED
        BY <2>1, <2>2, <2>4, <3>2, <3>3, <3>4 DEF y
    <2> QED
      BY <2>3, <2>4
  <1> HIDE DEF f
  <1>7. Returns(f, D, stop, next)
    BY <1>6 DEF Returns
  <1> QED
    BY <1>5, <1>7

(* A set that each call passes on to the next holds what is returned, and  *)
(* only a call that stops returns.                                         *)
LEMMA DescentStays ==
  ASSUME NEW D, NEW size, NEW stop, NEW next, Descends(D, size, stop, next),
         NEW f, Returns(f, D, stop, next),
         NEW S, S \subseteq D, \A x \in S : x \notin stop => next[x] \in S
  PROVE  \A x \in S : f[x] \in S /\ f[x] \in stop
  <1> USE DEF Descends, Returns
  <1> DEFINE T == {k \in Nat : \A x \in S : size[x] < k => f[x] \in S /\ f[x] \in stop}
  <1>1. 0 \in T
    OBVIOUS
  <1>2. ASSUME NEW k \in Nat, k \in T
        PROVE  k + 1 \in T
    <2> SUFFICES ASSUME NEW x \in S, size[x] < k + 1
                 PROVE  f[x] \in S /\ f[x] \in stop
      OBVIOUS
    <2>1. CASE x \in stop
      BY <2>1
    <2>2. CASE x \notin stop
      <3>1. x \in D /\ next[x] \in S /\ next[x] \in D /\ size[next[x]] < size[x] /\ f[x] = f[next[x]]
        BY <2>2
      <3>2. size[next[x]] < k
        <4>1. size[x] \in Nat /\ size[next[x]] \in Nat
          BY <3>1
        <4> QED
          BY <3>1, <4>1
      <3> QED
        BY <1>2, <3>1, <3>2
    <2> QED
      BY <2>1, <2>2
  <1>3. \A k \in Nat : k \in T
    <2> HIDE DEF T
    <2> QED
      BY <1>1, <1>2, SetInduction
  <1>4. ASSUME NEW x \in S
        PROVE  f[x] \in S /\ f[x] \in stop
    <2>1. size[x] \in Nat /\ size[x] + 1 \in Nat /\ size[x] < size[x] + 1
      OBVIOUS
    <2>2. size[x] + 1 \in T
      BY <1>3, <2>1
    <2> QED
      BY <2>1, <2>2
  <1> QED
    BY <1>4

-----------------------------------------------------------------------------
(* Numbers that are the same modulo m *)
Congruent(u, v, m) == \E c \in Int : u = v + c * m

LEMMA SameSelf ==
  ASSUME NEW u \in Int, NEW m \in Int
  PROVE  Congruent(u, u, m)
  <1>1. u = u + 0 * m
    OBVIOUS
  <1> QED
    BY <1>1 DEF Congruent

LEMMA SameBack ==
  ASSUME NEW u \in Int, NEW v \in Int, NEW m \in Int, Congruent(u, v, m)
  PROVE  Congruent(v, u, m)
  <1>1. PICK c \in Int : u = v + c * m
    BY DEF Congruent
  <1>2. (-c) * m = -(c * m) /\ c * m \in Int /\ -c \in Int
    OBVIOUS
  <1>3. v = u + (-c) * m
    BY <1>1, <1>2
  <1> QED
    BY <1>2, <1>3 DEF Congruent

LEMMA SameOn ==
  ASSUME NEW u \in Int, NEW v \in Int, NEW w \in Int, NEW m \in Int, Congruent(u, v, m), Congruent(v, w, m)
  PROVE  Congruent(u, w, m)
  <1>1. PICK c \in Int : u = v + c * m
    BY DEF Congruent
  <1>2. PICK d \in Int : v = w + d * m
    BY DEF Congruent
  <1>3. (c + d) * m = c * m + d * m /\ c * m \in Int /\ d * m \in Int /\ c + d \in Int
    OBVIOUS
  <1>4. u = w + (c + d) * m
    BY <1>1, <1>2, <1>3
  <1> QED
    BY <1>3, <1>4 DEF Congruent

LEMMA SameSum ==
  ASSUME NEW u \in Int, NEW v \in Int, NEW x \in Int, NEW y \in Int, NEW m \in Int,
         Congruent(u, v, m), Congruent(x, y, m)
  PROVE  Congruent(u + x, v + y, m)
  <1>1. PICK c \in Int : u = v + c * m
    BY DEF Congruent
  <1>2. PICK d \in Int : x = y + d * m
    BY DEF Congruent
  <1>3. (c + d) * m = c * m + d * m /\ c * m \in Int /\ d * m \in Int /\ c + d \in Int
    OBVIOUS
  <1>4. u + x = (v + y) + (c + d) * m
    BY <1>1, <1>2, <1>3
  <1> QED
    BY <1>3, <1>4 DEF Congruent

LEMMA SameTimes ==
  ASSUME NEW u \in Int, NEW v \in Int, NEW x \in Int, NEW y \in Int, NEW m \in Int,
         Congruent(u, v, m), Congruent(x, y, m)
  PROVE  Congruent(u * x, v * y, m)
  <1>1. PICK c \in Int : u = v + c * m
    BY DEF Congruent
  <1>2. PICK d \in Int : x = y + d * m
    BY DEF Congruent
  <1> DEFINE e == v * d + c * y + (c * d) * m
  <1>3. e \in Int
    OBVIOUS
  <1>4. (v + c * m) * (y + d * m) = v * y + e * m
    OBVIOUS
  <1> QED
    BY <1>1, <1>2, <1>3, <1>4 DEF Congruent

LEMMA SameRest ==
  ASSUME NEW u \in Int, NEW m \in Nat \ {0}
  PROVE  (u % m) \in 0..m-1 /\ Congruent(u % m, u, m) /\ Congruent(u, u % m, m)
  <1>1. (u % m) \in 0..m-1 /\ u \div m \in Int /\ u = (u \div m) * m + (u % m)
    OBVIOUS
  <1> DEFINE c == u \div m
             r == u % m
  <1>2. c \in Int /\ r \in Int /\ u = c * m + r
    BY <1>1
  <1> HIDE DEF c, r
  <1>3. u = r + c * m
    BY <1>2
  <1>4. Congruent(u, r, m)
    BY <1>2, <1>3 DEF Congruent
  <1>5. Congruent(r, u, m)
    BY <1>2, <1>4, SameBack
  <1> QED
    BY <1>1, <1>4, <1>5 DEF r

LEMMA SameIs ==
  ASSUME NEW m \in Nat \ {0}, NEW u \in 0..m-1, NEW v \in 0..m-1, Congruent(u, v, m)
  PROVE  u = v
  <1>1. PICK c \in Int : u = v + c * m
    BY DEF Congruent
  <1>2. c * m < m /\ c * m > -m
    BY <1>1
  <1>3. CASE c >= 1
    <2>1. c * m >= m
      BY <1>3
    <2> QED
      BY <1>2, <2>1
  <1>4. CASE c <= -1
    <2>1. c * m <= -m
      BY <1>4
    <2> QED
      BY <1>2, <2>1
  <1>5. CASE c = 0
    BY <1>1, <1>5
  <1> QED
    BY <1>3, <1>4, <1>5

LEMMA RestsSame ==
  ASSUME NEW m \in Nat \ {0}, NEW u \in Int, NEW v \in Int, Congruent(u, v, m)
  PROVE  u % m = v % m
  <1>1. (u % m) \in 0..m-1 /\ Congruent(u % m, u, m) /\ (v % m) \in 0..m-1 /\ Congruent(v, v % m, m)
    BY SameRest
  <1>2. (u % m) \in Int /\ (v % m) \in Int /\ m \in Int
    BY <1>1
  <1> DEFINE r == u % m
             t == v % m
  <1>3. r \in 0..m-1 /\ t \in 0..m-1 /\ r \in Int /\ t \in Int /\ Congruent(r, u, m) /\ Congruent(v, t, m)
    BY <1>1, <1>2
  <1> HIDE DEF r, t
  <1>4. Congruent(r, v, m)
    BY <1>2, <1>3, SameOn
  <1>5. Congruent(r, t, m)
    BY <1>2, <1>3, <1>4, SameOn
  <1>6. r = t
    BY <1>3, <1>5, SameIs
  <1> QED
    BY <1>6 DEF r, t

LEMMA SameIfRests ==
  ASSUME NEW m \in Nat \ {0}, NEW u \in Int, NEW v \in Int, u % m = v % m
  PROVE  Congruent(u, v, m)
  <1>1. (u % m) \in Int /\ Congruent(u, u % m, m) /\ Congruent(v % m, v, m)
    <2>1. (u % m) \in 0..m-1 /\ Congruent(u, u % m, m) /\ Congruent(v % m, v, m)
      BY SameRest
    <2> QED
      BY <2>1
  <1> DEFINE r == u % m
  <1>2. r \in Int /\ Congruent(u, r, m) /\ Congruent(r, v, m) /\ m \in Int
    BY <1>1
  <1> HIDE DEF r
  <1> QED
    BY <1>2, SameOn

LEMMA SameDown ==
  ASSUME NEW m \in Int, NEW k \in Int, NEW u \in Int, NEW v \in Int, Congruent(u, v, k * m)
  PROVE  Congruent(u, v, m)
  <1>1. PICK c \in Int : u = v + c * (k * m)
    BY DEF Congruent
  <1>2. c * (k * m) = (c * k) * m /\ c * k \in Int
    OBVIOUS
  <1>3. u = v + (c * k) * m
    BY <1>1, <1>2
  <1> QED
    BY <1>2, <1>3 DEF Congruent

LEMMA DividesIs ==
  ASSUME NEW m \in Nat \ {0}, NEW x \in Int
  PROVE  Divides(m, x) <=> Congruent(x, 0, m)
  <1>1. 0 % m = 0
    OBVIOUS
  <1>2. ASSUME Congruent(x, 0, m)
        PROVE  Divides(m, x)
    BY <1>1, <1>2, RestsSame DEF Divides
  <1>3. ASSUME Divides(m, x)
        PROVE  Congruent(x, 0, m)
    <2>1. x % m = 0 % m
      BY <1>1, <1>3 DEF Divides
    <2> QED
      BY <2>1, 0 \in Int, SameIfRests
  <1> QED
    BY <1>2, <1>3

-----------------------------------------------------------------------------
(* Powers *)
Powers(v) == CHOOSE f \in [Nat -> Int] : f[0] = 1 /\ \A k \in Nat : f[k+1] = f[k] * v

LEMMA PowersRule ==
  ASSUME NEW v \in Int
  PROVE  /\ Powers(v) \in [Nat -> Int]
         /\ Powers(v)[0] = 1 /\ Powers(v)[1] = v
         /\ \A k \in Nat : Powers(v)[k+1] = Powers(v)[k] * v
  <1> DEFINE step == [k \in Nat |-> [x \in Int |-> x * v]]
             Right(f) == f \in [Nat -> Int] /\ f[0] = 1 /\ \A k \in Nat : f[k+1] = f[k] * v
  <1>1. PICK f \in [Nat -> Int] : NatFollows(f, 1, step)
    <2>1. ASSUME NEW k \in Nat \ {0}, NEW x \in Int
          PROVE  step[k][x] \in Int
      OBVIOUS
    <2> HIDE DEF step
    <2> QED
      BY <2>1, 1 \in Int, NatRecursionExists, Zenon
  <1>2. ASSUME NEW k \in Nat
        PROVE  f[k+1] = f[k] * v
    <2>1. k + 1 \in Nat \ {0} /\ (k + 1) - 1 = k /\ f[k] \in Int
      OBVIOUS
    <2>2. f[k+1] = step[k+1][f[(k+1)-1]]
      BY <1>1, <2>1 DEF NatFollows
    <2> QED
      BY <2>1, <2>2
  <1>3. Right(f)
    BY <1>1, <1>2 DEF NatFollows
  <1>4. Powers(v) = CHOOSE g : Right(g)
    BY DEF Powers
  <1> HIDE DEF Right
  <1>5. Right(Powers(v))
    BY <1>3, <1>4
  <1>6. Powers(v) \in [Nat -> Int] /\ Powers(v)[0] = 1 /\ \A k \in Nat : Powers(v)[k+1] = Powers(v)[k] * v
    BY <1>5 DEF Right
  <1>7. Powers(v)[1] = v
    <2>1. Powers(v)[0+1] = Powers(v)[0] * v
      BY <1>6
    <2>2. 0 + 1 = 1 /\ 1 * v = v
      OBVIOUS
    <2> QED
      BY <1>6, <2>1, <2>2
  <1> QED
    BY <1>6, <1>7

LEMMA PowerIsInt ==
  ASSUME NEW v \in Int, NEW k \in Nat
  PROVE  Powers(v)[k] \in Int
  BY PowersRule

LEMMA PowersPlus ==
  ASSUME NEW v \in Int, NEW i \in Nat, NEW j \in Nat
  PROVE  Powers(v)[i+j] = Powers(v)[i] * Powers(v)[j]
  <1> DEFINE f == Powers(v)
             T == {k \in Nat : f[i+k] = f[i] * f[k]}
  <1>1. f \in [Nat -> Int] /\ f[0] = 1 /\ \A k \in Nat : f[k+1] = f[k] * v
    BY PowersRule
  <1> HIDE DEF f
  <1>2. 0 \in T
    <2>1. i + 0 = i /\ f[i] \in Int
      BY <1>1
    <2>2. f[i] * 1 = f[i]
      BY <2>1
    <2> QED
      BY <1>1, <2>1, <2>2
  <1>3. ASSUME NEW k \in Nat, k \in T
        PROVE  k + 1 \in T
    <2>1. i + (k + 1) = (i + k) + 1 /\ i + k \in Nat /\ k + 1 \in Nat
      OBVIOUS
    <2>2. f[i+(k+1)] = f[i+k] * v /\ f[i+k] = f[i] * f[k] /\ f[k+1] = f[k] * v
      BY <1>1, <1>3, <2>1
    <2> DEFINE x == f[i]
               y == f[k]
    <2>3. x \in Int /\ y \in Int
      BY <1>1
    <2>4. f[i+(k+1)] = (x * y) * v /\ f[k+1] = y * v
      BY <2>2
    <2> HIDE DEF x, y
    <2>5. (x * y) * v = x * (y * v)
      BY <2>3
    <2>6. f[i+(k+1)] = x * f[k+1]
      BY <2>4, <2>5
    <2> QED
      BY <2>1, <2>6 DEF x
  <1>4. \A k \in Nat : k \in T
    <2> HIDE DEF T
    <2> QED
      BY <1>2, <1>3, SetInduction
  <1> QED
    BY <1>4 DEF f

LEMMA PowersTimes ==
  ASSUME NEW v \in Int, NEW i \in Nat, NEW j \in Nat
  PROVE  Powers(v)[i*j] = Powers(Powers(v)[i])[j]
  <1> DEFINE u == Powers(v)[i]
             f == Powers(v)
             g == Powers(u)
             T == {k \in Nat : f[i*k] = g[k]}
  <1>1. u \in Int
    BY PowersRule
  <1>2. f[0] = 1 /\ g[0] = 1 /\ \A k \in Nat : g[k+1] = g[k] * u
    BY <1>1, PowersRule
  <1>3. 0 \in T
    <2>1. i * 0 = 0
      OBVIOUS
    <2> QED
      BY <1>2, <2>1
  <1>4. ASSUME NEW k \in Nat, k \in T
        PROVE  k + 1 \in T
    <2>1. i * (k + 1) = i * k + i /\ i * k \in Nat
      OBVIOUS
    <2>2. f[i*k+i] = f[i*k] * u
      BY <2>1, PowersPlus
    <2>3. f[i*(k+1)] = g[k] * u
      BY <1>4, <2>1, <2>2
    <2> QED
      BY <1>2, <2>3
  <1>5. \A k \in Nat : k \in T
    <2> HIDE DEF T
    <2> QED
      BY <1>3, <1>4, SetInduction
  <1> QED
    BY <1>5

LEMMA PowersSame ==
  ASSUME NEW u \in Int, NEW v \in Int, NEW m \in Int, Congruent(u, v, m), NEW j \in Nat
  PROVE  Congruent(Powers(u)[j], Powers(v)[j], m)
  <1> DEFINE f == Powers(u)
             g == Powers(v)
             T == {k \in Nat : Congruent(f[k], g[k], m)}
  <1>1. /\ f \in [Nat -> Int] /\ f[0] = 1 /\ \A k \in Nat : f[k+1] = f[k] * u
        /\ g \in [Nat -> Int] /\ g[0] = 1 /\ \A k \in Nat : g[k+1] = g[k] * v
    BY PowersRule
  <1> HIDE DEF f, g
  <1>2. 0 \in T
    <2>1. Congruent(1, 1, m)
      BY 1 \in Int, SameSelf
    <2> QED
      BY <1>1, <2>1
  <1>3. ASSUME NEW k \in Nat, k \in T
        PROVE  k + 1 \in T
    <2>1. f[k] \in Int /\ g[k] \in Int
      BY <1>1
    <2>2. Congruent(f[k] * u, g[k] * v, m)
      BY <1>3, <2>1, SameTimes
    <2> QED
      BY <1>1, <2>2
  <1>4. \A k \in Nat : k \in T
    <2> HIDE DEF T
    <2> QED
      BY <1>2, <1>3, SetInduction
  <1> QED
    BY <1>4 DEF f, g

LEMMA PowersOfOne ==
  ASSUME NEW j \in Nat
  PROVE  Powers(1)[j] = 1
  <1> DEFINE T == {k \in Nat : Powers(1)[k] = 1}
  <1>1. 0 \in T
    BY 1 \in Int, PowersRule
  <1>2. ASSUME NEW k \in Nat, k \in T
        PROVE  k + 1 \in T
    <2>1. Powers(1)[k+1] = Powers(1)[k] * 1
      BY 1 \in Int, PowersRule
    <2> QED
      BY <1>2, <2>1
  <1>3. \A k \in Nat : k \in T
    <2> HIDE DEF T
    <2> QED
      BY <1>1, <1>2, SetInduction
  <1> QED
    BY <1>3

(* A positive power of what m divides is divided by it, too.               *)
LEMMA PowersOfNone ==
  ASSUME NEW v \in Int, NEW m \in Int, Congruent(v, 0, m), NEW j \in Nat \ {0}
  PROVE  Congruent(Powers(v)[j], 0, m)
  <1>1. j - 1 \in Nat /\ (j - 1) + 1 = j
    OBVIOUS
  <1> DEFINE x == Powers(v)[j-1]
  <1>2. x \in Int /\ Powers(v)[j] = x * v
    BY <1>1, PowersRule
  <1> HIDE DEF x
  <1>3. Congruent(x, x, m)
    BY <1>2, SameSelf
  <1>4. Congruent(x * v, x * 0, m)
    BY <1>2, <1>3, 0 \in Int, SameTimes
  <1>5. x * 0 = 0
    BY <1>2
  <1> QED
    BY <1>2, <1>4, <1>5

-----------------------------------------------------------------------------
(* Primes *)
LEMMA LeastExists ==
  ASSUME NEW S, S \subseteq Nat, S # {}
  PROVE  \E x \in S : \A y \in S : x <= y
  <1> DEFINE R == {ss \in Nat \X Nat : ss[1] < ss[2]}
  <1>1. PICK x \in S : \A y \in S : ~(<<y, x>> \in R)
    <2>1. IsWellFoundedOn(R, Nat)
      BY LessWellFounded
    <2> HIDE DEF R
    <2> QED
      BY <2>1, WFMin
  <1>2. \A y \in S : ~(y < x)
    BY <1>1
  <1>3. \A y \in S : x <= y
    BY <1>2
  <1> QED
    BY <1>3

(* A prime divides one factor of a product that it divides.                *)
LEMMA PrimeDivides ==
  ASSUME NEW p \in Nat, PrimeNumber(p), NEW x \in Int, NEW y \in Int, Congruent(x * y, 0, p)
  PROVE  Congruent(x, 0, p) \/ Congruent(y, 0, p)
  <1> DEFINE S == {t \in Nat \ {0} : Congruent(t * y, 0, p)}
  <1>1. p \in Nat \ {0} /\ p > 1 /\ p \in Int /\ \A d \in 2..p-1 : ~Divides(d, p)
    BY DEF PrimeNumber
  <1>2. p \in S
    <2>1. p * y = 0 + y * p
      BY <1>1
    <2> QED
      BY <1>1, <2>1 DEF Congruent
  <1>3. PICK t \in S : \A s \in S : t <= s
    <2>1. S \subseteq Nat /\ S # {}
      BY <1>2
    <2> HIDE DEF S
    <2> QED
      BY <2>1, LeastExists
  <1>4. t \in Nat \ {0} /\ Congruent(t * y, 0, p) /\ t <= p
    BY <1>2, <1>3
  <1>5. ASSUME NEW z \in Int, Congruent(z * y, 0, p)
        PROVE  Divides(t, z)
    <2> DEFINE r == z % t
               k == z \div t
    <2>1. r \in 0..t-1 /\ k \in Int /\ z = k * t + r
      BY <1>4
    <2> HIDE DEF r, k
    <2>2. r \in Int /\ r = z + (-k) * t
      <3>1. (-k) * t = -(k * t) /\ k * t \in Int /\ r \in Int /\ z = k * t + r
        BY <1>4, <2>1
      <3> QED
        BY <3>1
    <2>3. Congruent((-k) * (t * y), (-k) * 0, p)
      <3>1. t * y \in Int /\ -k \in Int
        BY <1>4, <2>1
      <3>2. Congruent(-k, -k, p)
        BY <1>1, <3>1, SameSelf
      <3> QED
        BY <1>1, <1>4, <3>1, <3>2, 0 \in Int, SameTimes
    <2>4. (-k) * 0 = 0 /\ (-k) * (t * y) \in Int /\ z * y \in Int
      BY <1>4, <2>1
    <2>5. Congruent(z * y + (-k) * (t * y), 0 + 0, p)
      BY <1>1, <1>5, <2>3, <2>4, 0 \in Int, SameSum
    <2>6. r * y = z * y + (-k) * (t * y)
      <3>1. (z + (-k) * t) * y = z * y + (-k) * (t * y)
        BY <1>4, <2>1
      <3> QED
        BY <2>2, <3>1
    <2>7. Congruent(r * y, 0, p)
      <3>1. 0 + 0 = 0
        OBVIOUS
      <3> QED
        BY <2>5, <2>6, <3>1
    <2>8. r = 0
      <3>1. r \in Nat \ {0} => r \in S
        BY <2>7
      <3> QED
        BY <1>3, <2>1, <3>1
    <2> QED
      BY <2>8 DEF r, Divides
  <1>6. t = 1 \/ t = p
    <2>1. Divides(t, p)
      BY <1>1, <1>2, <1>5
    <2> QED
      BY <1>1, <1>4, <2>1
  <1>7. CASE t = 1
    <2>1. 1 * y = y
      OBVIOUS
    <2> QED
      BY <1>4, <1>7, <2>1
  <1>8. CASE t = p
    <2>1. Divides(p, x)
      BY <1>5, <1>8
    <2> QED
      BY <1>1, <2>1, DividesIs
  <1> QED
    BY <1>6, <1>7, <1>8

(* Two different primes divide together what each divides.                 *)
LEMMA PrimesTogether ==
  ASSUME NEW p \in Nat, PrimeNumber(p), NEW q \in Nat, PrimeNumber(q), p # q,
         NEW u \in Int, NEW v \in Int, Congruent(u, v, p), Congruent(u, v, q)
  PROVE  Congruent(u, v, p * q)
  <1>1. /\ p > 1 /\ p \in Int /\ p \in Nat \ {0} /\ \A d \in 2..p-1 : ~Divides(d, p)
        /\ q > 1 /\ q \in Int /\ q \in Nat \ {0} /\ \A d \in 2..q-1 : ~Divides(d, q)
    BY DEF PrimeNumber
  <1>2. PICK c \in Int : u = v + c * p
    BY DEF Congruent
  <1>3. PICK d \in Int : u = v + d * q
    BY DEF Congruent
  <1>4. c * p = d * q
    <2>1. c * p \in Int /\ d * q \in Int
      BY <1>1
    <2> QED
      BY <1>2, <1>3, <2>1
  <1>5. Congruent(c * p, 0, q)
    <2>1. c * p = 0 + d * q
      BY <1>1, <1>4
    <2> QED
      BY <2>1 DEF Congruent
  <1>6. ~Congruent(p, 0, q)
    <2> SUFFICES ASSUME Congruent(p, 0, q)
                 PROVE  FALSE
      OBVIOUS
    <2>1. PICK e \in Int : p = 0 + e * q
      BY DEF Congruent
    <2>2. e >= 1
      <3>1. CASE e <= 0
        <4>1. e * q <= 0
          BY <1>1, <3>1
        <4> QED
          BY <1>1, <2>1, <4>1
      <3> QED
        BY <3>1
    <2>3. q < p
      <3>1. e * q >= q
        BY <1>1, <2>2
      <3> QED
        BY <1>1, <2>1, <3>1
    <2>4. Divides(q, p)
      BY <1>1, DividesIs
    <2> QED
      BY <1>1, <2>3, <2>4
  <1>7. Congruent(c, 0, q)
    BY <1>5, <1>6, <1>1, PrimeDivides
  <1>8. PICK e \in Int : c = 0 + e * q
    BY <1>7 DEF Congruent
  <1>9. u = v + e * (p * q)
    <2>1. c = e * q
      <3>1. e * q \in Int
        BY <1>1
      <3> QED
        BY <1>8, <3>1
    <2>2. (e * q) * p = e * (p * q)
      BY <1>1
    <2> QED
      BY <1>2, <2>1, <2>2
  <1> QED
    BY <1>9 DEF Congruent

-----------------------------------------------------------------------------
(* Fermat's theorem, from the binomial one *)
Rows ==
  CHOOSE f \in [Nat -> [Nat -> Int]] :
    /\ f[0] = [k \in Nat |-> IF k = 0 THEN 1 ELSE 0]
    /\ \A j \in Nat : f[j+1] = [k \in Nat |-> f[j][k] + IF k = 0 THEN 0 ELSE f[j][k-1]]

LEMMA RowsRule ==
  /\ Rows \in [Nat -> [Nat -> Int]]
  /\ Rows[0][0] = 1 /\ \A k \in Nat : Rows[0][k+1] = 0
  /\ \A j \in Nat : Rows[j+1][0] = Rows[j][0]
  /\ \A j, k \in Nat : Rows[j+1][k+1] = Rows[j][k+1] + Rows[j][k]
  <1> DEFINE S == [Nat -> Int]
             Under(r) == [k \in Nat |-> r[k] + IF k = 0 THEN 0 ELSE r[k-1]]
             first == [k \in Nat |-> IF k = 0 THEN 1 ELSE 0]
             step == [j \in Nat |-> [r \in S |-> Under(r)]]
             Right(f) == f \in [Nat -> S] /\ f[0] = first /\ \A j \in Nat : f[j+1] = Under(f[j])
  <1>1. ASSUME NEW r \in S
        PROVE  Under(r) \in S
    OBVIOUS
  <1>2. first \in S
    OBVIOUS
  <1> HIDE DEF Under, first, S
  <1>3. PICK f \in [Nat -> S] : NatFollows(f, first, step)
    <2>1. ASSUME NEW j \in Nat \ {0}, NEW r \in S
          PROVE  step[j][r] \in S
      BY <1>1
    <2> HIDE DEF step
    <2> QED
      BY <1>2, <2>1, NatRecursionExists, Zenon
  <1>4. ASSUME NEW j \in Nat
        PROVE  f[j+1] = Under(f[j])
    <2>1. j + 1 \in Nat \ {0} /\ (j + 1) - 1 = j /\ f[j] \in S
      OBVIOUS
    <2>2. f[j+1] = step[j+1][f[(j+1)-1]]
      BY <1>3, <2>1 DEF NatFollows
    <2> QED
      BY <2>1, <2>2
  <1>5. Right(f)
    BY <1>3, <1>4 DEF NatFollows
  <1>6. Rows = CHOOSE g : Right(g)
    BY DEF Rows, Under, first, S
  <1> HIDE DEF Right
  <1>7. Right(Rows)
    BY <1>5, <1>6
  <1>8. Rows \in [Nat -> S] /\ Rows[0] = first /\ \A j \in Nat : Rows[j+1] = Under(Rows[j])
    BY <1>7 DEF Right
  <1>9. Rows[0][0] = 1 /\ \A k \in Nat : Rows[0][k+1] = 0
    BY <1>8 DEF first
  <1>10. \A j \in Nat : Rows[j+1][0] = Rows[j][0]
    <2> TAKE j \in Nat
    <2>1. Rows[j] \in [Nat -> Int]
      BY <1>8 DEF S
    <2>2. Under(Rows[j])[0] = Rows[j][0]
      BY <2>1 DEF Under
    <2> QED
      BY <1>8, <2>2
  <1>11. \A j, k \in Nat : Rows[j+1][k+1] = Rows[j][k+1] + Rows[j][k]
    <2> TAKE j, k \in Nat
    <2>1. k + 1 \in Nat /\ k + 1 # 0 /\ (k + 1) - 1 = k
      OBVIOUS
    <2>2. Under(Rows[j])[k+1] = Rows[j][k+1] + Rows[j][k]
      BY <2>1 DEF Under
    <2> QED
      BY <1>8, <2>2
  <1> QED
    BY <1>8, <1>9, <1>10, <1>11 DEF S

LEMMA RowIsInt ==
  ASSUME NEW j \in Nat, NEW k \in Nat
  PROVE  Rows[j][k] \in Int
  BY RowsRule

LEMMA RowsEnds ==
  ASSUME NEW i \in Nat
  PROVE  /\ Rows[i][0] = 1 /\ Rows[i][i] = 1
         /\ \A k \in Nat : k > i => Rows[i][k] = 0
  <1> DEFINE T == {j \in Nat : /\ Rows[j][0] = 1 /\ Rows[j][j] = 1
                               /\ \A k \in Nat : k > j => Rows[j][k] = 0}
  <1>1. 0 \in T
    <2>1. ASSUME NEW k \in Nat, k > 0
          PROVE  Rows[0][k] = 0
      <3>1. k - 1 \in Nat /\ (k - 1) + 1 = k
        BY <2>1
      <3>2. Rows[0][(k-1)+1] = 0
        BY <3>1, RowsRule
      <3> QED
        BY <3>1, <3>2
    <2> QED
      BY <2>1, RowsRule
  <1>2. ASSUME NEW j \in Nat, j \in T
        PROVE  j + 1 \in T
    <2>1. Rows[j][0] = 1 /\ Rows[j][j] = 1 /\ \A k \in Nat : k > j => Rows[j][k] = 0
      BY <1>2
    <2>2. Rows[j+1][0] = 1
      BY <2>1, RowsRule
    <2>3. Rows[j+1][j+1] = 1
      <3>1. Rows[j+1][j+1] = Rows[j][j+1] + Rows[j][j]
        BY RowsRule
      <3>2. Rows[j][j+1] = 0
        BY <2>1
      <3> QED
        BY <2>1, <3>1, <3>2
    <2>4. ASSUME NEW k \in Nat, k > j + 1
          PROVE  Rows[j+1][k] = 0
      <3>1. k - 1 \in Nat /\ (k - 1) + 1 = k /\ k > j /\ k - 1 > j
        BY <2>4
      <3>2. Rows[j+1][(k-1)+1] = Rows[j][(k-1)+1] + Rows[j][k-1]
        BY <3>1, RowsRule
      <3>3. Rows[j][k] = 0 /\ Rows[j][k-1] = 0
        BY <2>1, <3>1
      <3> QED
        BY <3>1, <3>2, <3>3
    <2>5. j + 1 \in Nat
      OBVIOUS
    <2> QED
      BY <2>2, <2>3, <2>4, <2>5
  <1>3. \A j \in Nat : j \in T
    <2> HIDE DEF T
    <2> QED
      BY <1>1, <1>2, SetInduction
  <1> QED
    BY <1>3

LEMMA RowsFactor ==
  ASSUME NEW i \in Nat
  PROVE  \A k \in Nat : (k + 1) * Rows[i+1][k+1] = (i + 1) * Rows[i][k]
  <1> DEFINE T == {j \in Nat : \A k \in Nat : (k + 1) * Rows[j+1][k+1] = (j + 1) * Rows[j][k]}
  <1>1. 0 \in T
    <2>1. ASSUME NEW k \in Nat
          PROVE  (k + 1) * Rows[0+1][k+1] = (0 + 1) * Rows[0][k]
      <3> DEFINE x == Rows[0][k]
      <3>1. x \in Int /\ (k # 0 => x = 0)
        BY RowIsInt, RowsEnds
      <3>2. Rows[0+1][k+1] = x
        <4>1. Rows[0+1][k+1] = Rows[0][k+1] + x /\ Rows[0][k+1] = 0
          BY RowsRule
        <4> QED
          BY <3>1, <4>1
      <3> HIDE DEF x
      <3>3. (k + 1) * x = (0 + 1) * x
        BY <3>1
      <3> QED
        BY <3>2, <3>3 DEF x
    <2> QED
      BY <2>1
  <1>2. ASSUME NEW j \in Nat, j \in T
        PROVE  j + 1 \in T
    <2>1. \A k \in Nat : (k + 1) * Rows[j+1][k+1] = (j + 1) * Rows[j][k]
      BY <1>2
    <2>2. ASSUME NEW k \in Nat
          PROVE  (k + 1) * Rows[(j+1)+1][k+1] = ((j + 1) + 1) * Rows[j+1][k]
      <3> DEFINE x == Rows[j+1][k+1]
                 y == Rows[j+1][k]
                 z == Rows[j][k]
                 w == IF k = 0 THEN 0 ELSE Rows[j][k-1]
      <3>1. x \in Int /\ y \in Int /\ z \in Int /\ w \in Int
        <4>1. k # 0 => k - 1 \in Nat
          OBVIOUS
        <4> QED
          BY <4>1, RowIsInt
      <3>2. Rows[(j+1)+1][k+1] = x + y
        BY RowsRule
      <3>3. (k + 1) * x = (j + 1) * z
        BY <2>1
      <3>4. y = z + w /\ k * y = (j + 1) * w
        <4>1. CASE k = 0
          <5>1. y = z
            BY <4>1, RowsRule
          <5> QED
            BY <3>1, <4>1, <5>1
        <4>2. CASE k # 0
          <5>1. k - 1 \in Nat /\ (k - 1) + 1 = k
            BY <4>2
          <5>2. Rows[j+1][(k-1)+1] = Rows[j][(k-1)+1] + Rows[j][k-1]
            BY <5>1, RowsRule
          <5>3. ((k - 1) + 1) * Rows[j+1][(k-1)+1] = (j + 1) * Rows[j][k-1]
            BY <2>1, <5>1
          <5> QED
            BY <4>2, <5>1, <5>2, <5>3
        <4> QED
          BY <4>1, <4>2
      <3> HIDE DEF x, y, z, w
      <3>5. (k + 1) * (x + y) = (k + 1) * x + (k * y + y)
        BY <3>1
      <3>6. (j + 1) * z + ((j + 1) * w + (z + w)) = ((j + 1) + 1) * (z + w)
        BY <3>1
      <3>7. (k + 1) * (x + y) = ((j + 1) + 1) * y
        BY <3>3, <3>4, <3>5, <3>6
      <3> QED
        BY <3>2, <3>7 DEF y
    <2> QED
      BY <2>2
  <1>3. \A j \in Nat : j \in T
    <2> HIDE DEF T
    <2> QED
      BY <1>1, <1>2, SetInduction
  <1> QED
    BY <1>3

LEMMA PrimeRows ==
  ASSUME NEW p \in Nat, PrimeNumber(p), NEW k \in 1..p-1
  PROVE  Congruent(Rows[p][k], 0, p)
  <1>1. /\ p - 1 \in Nat /\ (p - 1) + 1 = p /\ p \in Nat \ {0} /\ p \in Int
        /\ k - 1 \in Nat /\ (k - 1) + 1 = k /\ k \in Nat
    BY DEF PrimeNumber
  <1> DEFINE x == Rows[p][k]
             y == Rows[p-1][k-1]
  <1>2. x \in Int /\ y \in Int
    BY <1>1, RowIsInt
  <1>3. k * x = p * y
    <2>1. ((k - 1) + 1) * Rows[(p-1)+1][(k-1)+1] = ((p - 1) + 1) * Rows[p-1][k-1]
      BY <1>1, RowsFactor
    <2> QED
      BY <1>1, <2>1
  <1> HIDE DEF x, y
  <1>4. Congruent(k * x, 0, p)
    <2>1. p * y = 0 + y * p
      BY <1>1, <1>2
    <2> QED
      BY <1>2, <1>3, <2>1 DEF Congruent
  <1>5. ~Congruent(k, 0, p)
    <2>1. k \in 0..p-1 /\ 0 \in 0..p-1 /\ k # 0
      BY <1>1
    <2> QED
      BY <1>1, <2>1, SameIs
  <1>6. Congruent(x, 0, p)
    BY <1>1, <1>2, <1>4, <1>5, PrimeDivides
  <1> QED
    BY <1>6 DEF x

Series(d) == CHOOSE f \in [Nat -> Int] : f[0] = d[0] /\ \A k \in Nat : f[k+1] = f[k] + d[k+1]

LEMMA SeriesRule ==
  ASSUME NEW d \in [Nat -> Int]
  PROVE  /\ Series(d) \in [Nat -> Int] /\ Series(d)[0] = d[0]
         /\ \A k \in Nat : Series(d)[k+1] = Series(d)[k] + d[k+1]
  <1> DEFINE step == [k \in Nat |-> [x \in Int |-> x + d[k]]]
             Right(f) == f \in [Nat -> Int] /\ f[0] = d[0] /\ \A k \in Nat : f[k+1] = f[k] + d[k+1]
  <1>1. PICK f \in [Nat -> Int] : NatFollows(f, d[0], step)
    <2>1. ASSUME NEW k \in Nat \ {0}, NEW x \in Int
          PROVE  step[k][x] \in Int
      OBVIOUS
    <2>2. d[0] \in Int
      OBVIOUS
    <2> HIDE DEF step
    <2> QED
      BY <2>1, <2>2, NatRecursionExists, Zenon
  <1>2. ASSUME NEW k \in Nat
        PROVE  f[k+1] = f[k] + d[k+1]
    <2>1. k + 1 \in Nat \ {0} /\ (k + 1) - 1 = k /\ f[k] \in Int
      OBVIOUS
    <2>2. f[k+1] = step[k+1][f[(k+1)-1]]
      BY <1>1, <2>1 DEF NatFollows
    <2> QED
      BY <2>1, <2>2
  <1>3. Right(f)
    BY <1>1, <1>2 DEF NatFollows
  <1>4. Series(d) = CHOOSE g : Right(g)
    BY DEF Series
  <1> HIDE DEF Right
  <1>5. Right(Series(d))
    BY <1>3, <1>4
  <1> QED
    BY <1>5 DEF Right

(* The terms of the binomial theorem for (v+1)^j                           *)
Terms(j, v) == [k \in Nat |-> Rows[j][k] * Powers(v)[k]]

LEMMA TermsRule ==
  ASSUME NEW j \in Nat, NEW v \in Int
  PROVE  /\ Terms(j, v) \in [Nat -> Int] /\ Series(Terms(j, v)) \in [Nat -> Int]
         /\ \A k \in Nat : Terms(j, v)[k] = Rows[j][k] * Powers(v)[k]
         /\ Series(Terms(j, v))[0] = 1
         /\ \A k \in Nat : Series(Terms(j, v))[k+1] = Series(Terms(j, v))[k] + Terms(j, v)[k+1]
  <1>1. ASSUME NEW k \in Nat
        PROVE  Rows[j][k] * Powers(v)[k] \in Int
    <2>1. Rows[j][k] \in Int /\ Powers(v)[k] \in Int
      BY RowIsInt, PowerIsInt
    <2> QED
      BY <2>1
  <1>2. Terms(j, v) \in [Nat -> Int] /\ \A k \in Nat : Terms(j, v)[k] = Rows[j][k] * Powers(v)[k]
    BY <1>1 DEF Terms
  <1>3. Terms(j, v)[0] = 1
    <2>1. Rows[j][0] = 1 /\ Powers(v)[0] = 1
      BY RowsEnds, PowersRule
    <2>2. Terms(j, v)[0] = Rows[j][0] * Powers(v)[0]
      BY <1>2
    <2> QED
      BY <2>1, <2>2
  <1> QED
    BY <1>2, <1>3, SeriesRule

LEMMA SeriesOn ==
  ASSUME NEW j \in Nat, NEW v \in Int, NEW m \in Nat
  PROVE  Series(Terms(j+1, v))[m]
           = (1 + v) * Series(Terms(j, v))[m] - Rows[j][m] * Powers(v)[m+1]
  <1> DEFINE f == Series(Terms(j, v))
             g == Series(Terms(j+1, v))
             w == Powers(v)
             r == Rows[j]
             T == {k \in Nat : g[k] = (1 + v) * f[k] - r[k] * w[k+1]}
  <1>1. /\ f \in [Nat -> Int] /\ f[0] = 1 /\ \A k \in Nat : f[k+1] = f[k] + r[k+1] * w[k+1]
        /\ g \in [Nat -> Int] /\ g[0] = 1
        /\ \A k \in Nat : g[k+1] = g[k] + (r[k+1] + r[k]) * w[k+1]
    <2>1. j + 1 \in Nat
      OBVIOUS
    <2>2. f \in [Nat -> Int] /\ f[0] = 1 /\ \A k \in Nat : f[k+1] = f[k] + r[k+1] * w[k+1]
      <3> DEFINE d == Terms(j, v)
      <3>1. /\ f \in [Nat -> Int] /\ f[0] = 1 /\ \A k \in Nat : f[k+1] = f[k] + d[k+1]
            /\ \A k \in Nat : d[k] = r[k] * w[k]
        BY TermsRule, Zenon
      <3> HIDE DEF f, d, r, w
      <3> QED
        BY <3>1
    <2>3. g \in [Nat -> Int] /\ g[0] = 1 /\ \A k \in Nat : g[k+1] = g[k] + Rows[j+1][k+1] * w[k+1]
      <3> DEFINE d == Terms(j+1, v)
      <3>1. /\ g \in [Nat -> Int] /\ g[0] = 1 /\ \A k \in Nat : g[k+1] = g[k] + d[k+1]
            /\ \A k \in Nat : d[k] = Rows[j+1][k] * w[k]
        BY <2>1, TermsRule, Zenon
      <3> HIDE DEF g, d, w
      <3> QED
        BY <3>1
    <2>4. \A k \in Nat : Rows[j+1][k+1] = r[k+1] + r[k]
      BY RowsRule
    <2> HIDE DEF f, g, r, w
    <2> QED
      BY <2>2, <2>3, <2>4
  <1>2. r \in [Nat -> Int] /\ r[0] = 1
    BY RowsRule, RowsEnds
  <1>3. w \in [Nat -> Int] /\ w[1] = v /\ \A k \in Nat : w[k+1] = w[k] * v
    BY PowersRule
  <1> HIDE DEF f, g, w, r
  <1>4. 0 \in T
    <2>1. (1 + v) * 1 - 1 * v = 1 /\ 0 + 1 = 1
      OBVIOUS
    <2> QED
      BY <1>1, <1>2, <1>3, <2>1
  <1>5. ASSUME NEW k \in Nat, k \in T
        PROVE  k + 1 \in T
    <2> DEFINE x == f[k]
               y == r[k]
               z == r[k+1]
               t == w[k+1]
    <2>1. x \in Int /\ y \in Int /\ z \in Int /\ t \in Int /\ k + 1 \in Nat
      <3>1. f \in [Nat -> Int] /\ r \in [Nat -> Int] /\ w \in [Nat -> Int]
        BY <1>1, <1>2, <1>3, Zenon
      <3>2. k + 1 \in Nat
        OBVIOUS
      <3> QED
        BY <3>1, <3>2
    <2>2. g[k] = (1 + v) * x - y * t
      BY <1>5
    <2>3. g[k+1] = g[k] + (z + y) * t /\ f[k+1] = x + z * t /\ w[(k+1)+1] = t * v
      BY <1>1, <1>3, <2>1
    <2> HIDE DEF x, y, z, t
    <2>4. ((1 + v) * x - y * t) + (z + y) * t = (1 + v) * (x + z * t) - z * (t * v)
      <3>1. (z + y) * t = z * t + y * t
        BY <2>1
      <3>2. (1 + v) * (x + z * t) = (1 + v) * x + (z * t + v * (z * t))
        BY <2>1
      <3>3. z * (t * v) = v * (z * t)
        BY <2>1
      <3>4. y * t \in Int /\ z * t \in Int /\ v * (z * t) \in Int /\ (1 + v) * x \in Int
        BY <2>1
      <3> QED
        BY <3>1, <3>2, <3>3, <3>4
    <2>5. g[k+1] = (1 + v) * f[k+1] - z * w[(k+1)+1]
      BY <2>2, <2>3, <2>4
    <2> QED
      BY <2>1, <2>5 DEF z
  <1>6. \A k \in Nat : k \in T
    <2> HIDE DEF T
    <2> QED
      BY <1>4, <1>5, SetInduction
  <1> QED
    BY <1>6 DEF f, g, w, r

LEMMA Binomial ==
  ASSUME NEW m \in Nat, NEW v \in Int
  PROVE  \A i \in 0..m : Series(Terms(i, v))[m] = Powers(1 + v)[i]
  <1> DEFINE T == {i \in 0..m : Series(Terms(i, v))[m] = Powers(1 + v)[i]}
             w == Powers(1 + v)
  <1>1. w[0] = 1 /\ \A k \in Nat : w[k+1] = w[k] * (1 + v) /\ w[k] \in Int
    <2>1. 1 + v \in Int
      OBVIOUS
    <2> QED
      BY <2>1, PowersRule
  <1>2. 0 \in T
    <2> DEFINE f == Series(Terms(0, v))
               S == {k \in Nat : f[k] = 1}
    <2>1. /\ f[0] = 1
          /\ \A k \in Nat : f[k+1] = f[k] + Rows[0][k+1] * Powers(v)[k+1]
      BY 0 \in Nat, TermsRule
    <2>2. ASSUME NEW k \in Nat
          PROVE  Rows[0][k+1] * Powers(v)[k+1] = 0
      <3>1. Rows[0][k+1] = 0 /\ Powers(v)[k+1] \in Int
        BY RowsRule, k + 1 \in Nat, PowerIsInt
      <3> QED
        BY <3>1
    <2> HIDE DEF f
    <2>3. 0 \in S
      BY <2>1
    <2>4. ASSUME NEW k \in Nat, k \in S
          PROVE  k + 1 \in S
      BY <2>1, <2>2, <2>4
    <2>5. \A k \in Nat : k \in S
      <3> HIDE DEF S
      <3> QED
        BY <2>3, <2>4, SetInduction
    <2> QED
      BY <1>1, <2>5 DEF f
  <1>3. ASSUME NEW i \in 0..m-1, i \in T
        PROVE  i + 1 \in T
    <2> DEFINE x == Series(Terms(i, v))[m]
    <2>1. i \in Nat /\ i + 1 \in 0..m /\ m > i
      OBVIOUS
    <2>2. x = w[i]
      BY <1>3
    <2>3. Series(Terms(i+1, v))[m] = (1 + v) * x - Rows[i][m] * Powers(v)[m+1]
      BY <2>1, SeriesOn
    <2>4. Rows[i][m] * Powers(v)[m+1] = 0
      <3>1. Rows[i][m] = 0 /\ Powers(v)[m+1] \in Int
        BY <2>1, RowsEnds, m + 1 \in Nat, PowerIsInt
      <3> QED
        BY <3>1
    <2>5. w[i] \in Int /\ w[i+1] = w[i] * (1 + v)
      BY <1>1, <2>1
    <2> HIDE DEF x, w
    <2>6. (1 + v) * x - 0 = w[i+1]
      BY <2>2, <2>5
    <2>7. Series(Terms(i+1, v))[m] = w[i+1]
      BY <2>3, <2>4, <2>6
    <2> QED
      BY <2>1, <2>7 DEF w
  <1>4. \A i \in 0..m : i \in T
    <2> HIDE DEF T
    <2> QED
      BY <1>2, <1>3, 0 \in Int, m \in Int, RangeInduction, Zenon
  <1> QED
    BY <1>4

LEMMA FermatOn ==
  ASSUME NEW p \in Nat, PrimeNumber(p), NEW v \in Int
  PROVE  Congruent(Powers(1 + v)[p], 1 + Powers(v)[p], p)
  <1> DEFINE d == Terms(p, v)
             f == Series(d)
             T == {k \in 0..p-1 : Congruent(f[k], 1, p)}
  <1>1. p \in Int /\ p > 1 /\ p - 1 \in Nat /\ (p - 1) + 1 = p /\ p \in 0..p
    BY DEF PrimeNumber
  <1>2. /\ d \in [Nat -> Int] /\ f \in [Nat -> Int] /\ f[0] = 1
        /\ \A k \in Nat : d[k] = Rows[p][k] * Powers(v)[k] /\ f[k+1] = f[k] + d[k+1]
    BY TermsRule
  <1>3. f[p] = Powers(1 + v)[p]
    BY <1>1, Binomial
  <1> HIDE DEF d, f
  <1>4. 0 \in T
    BY <1>1, <1>2, 1 \in Int, SameSelf
  <1>5. ASSUME NEW k \in 0..(p-1)-1, k \in T
        PROVE  k + 1 \in T
    <2>1. k \in Nat /\ k + 1 \in 1..p-1 /\ k + 1 \in 0..p-1 /\ k + 1 \in Nat /\ Congruent(f[k], 1, p)
      BY <1>1, <1>5
    <2> DEFINE r == Rows[p][k+1]
               w == Powers(v)[k+1]
    <2>2. r \in Int /\ w \in Int /\ d[k+1] = r * w /\ f[k] \in Int /\ f[k+1] = f[k] + r * w
      BY <1>2, <2>1, RowIsInt, PowerIsInt
    <2>3. Congruent(r, 0, p)
      BY <2>1, PrimeRows
    <2> HIDE DEF r, w
    <2>4. Congruent(w, w, p)
      BY <1>1, <2>2, SameSelf
    <2>5. Congruent(r * w, 0 * w, p)
      BY <1>1, <2>2, <2>3, <2>4, 0 \in Int, SameTimes
    <2>6. r * w \in Int /\ 0 * w = 0 /\ 1 + 0 = 1
      BY <2>2
    <2>7. Congruent(f[k] + r * w, 1 + 0, p)
      BY <1>1, <2>1, <2>2, <2>5, <2>6, 0 \in Int, 1 \in Int, SameSum
    <2> QED
      BY <2>1, <2>2, <2>6, <2>7
  <1>6. \A k \in 0..p-1 : k \in T
    <2> HIDE DEF T
    <2>1. 0 \in Int /\ p - 1 \in Int
      BY <1>1
    <2> QED
      BY <1>4, <1>5, <2>1, RangeInduction, Zenon
  <1>7. Congruent(f[p-1], 1, p)
    <2>1. p - 1 \in 0..p-1
      BY <1>1
    <2> QED
      BY <1>6, <2>1
  <1> DEFINE w == Powers(v)[p]
             t == f[p-1]
  <1>8. w \in Int /\ t \in Int /\ f[p] = t + w
    <2>1. f[(p-1)+1] = f[p-1] + d[(p-1)+1]
      BY <1>1, <1>2
    <2>2. d[p] = Rows[p][p] * Powers(v)[p] /\ Rows[p][p] = 1 /\ Powers(v)[p] \in Int
      BY <1>2, RowsEnds, PowerIsInt
    <2>3. 1 * Powers(v)[p] = Powers(v)[p]
      BY <2>2
    <2> QED
      BY <1>1, <1>2, <2>1, <2>2, <2>3
  <1> HIDE DEF w, t
  <1>9. Congruent(w, w, p)
    BY <1>1, <1>8, SameSelf
  <1>10. Congruent(t + w, 1 + w, p)
    <2>1. Congruent(t, 1, p)
      BY <1>7 DEF t
    <2> QED
      BY <1>1, <1>8, <1>9, <2>1, 1 \in Int, SameSum
  <1> QED
    BY <1>3, <1>8, <1>10 DEF w

LEMMA Fermat ==
  ASSUME NEW p \in Nat, PrimeNumber(p), NEW v \in Nat
  PROVE  Congruent(Powers(v)[p], v, p)
  <1> DEFINE T == {u \in Nat : Congruent(Powers(u)[p], u, p)}
  <1>1. p \in Int /\ p \in Nat \ {0}
    BY DEF PrimeNumber
  <1>2. 0 \in T
    <2>1. Congruent(0, 0, p)
      BY <1>1, 0 \in Int, SameSelf
    <2> QED
      BY <1>1, <2>1, 0 \in Int, PowersOfNone
  <1>3. ASSUME NEW u \in Nat, u \in T
        PROVE  u + 1 \in T
    <2> DEFINE x == Powers(u)[p]
               y == Powers(1 + u)[p]
    <2>1. u \in Int /\ 1 + u \in Int /\ 1 + u = u + 1 /\ u + 1 \in Nat /\ 1 \in Int
      OBVIOUS
    <2>2. x \in Int /\ y \in Int /\ 1 + x \in Int
      <3>1. x \in Int /\ y \in Int
        BY <2>1, PowerIsInt
      <3> QED
        BY <3>1
    <2>3. Congruent(x, u, p)
      BY <1>3
    <2>4. Congruent(y, 1 + x, p)
      BY <2>1, FermatOn
    <2> HIDE DEF x, y
    <2>5. Congruent(1, 1, p)
      BY <1>1, <2>1, SameSelf
    <2>6. Congruent(1 + x, 1 + u, p)
      BY <1>1, <2>1, <2>2, <2>3, <2>5, SameSum
    <2>7. Congruent(y, 1 + u, p)
      BY <1>1, <2>1, <2>2, <2>4, <2>6, SameOn
    <2> QED
      BY <2>1, <2>7 DEF y
  <1>4. \A u \in Nat : u \in T
    <2> HIDE DEF T
    <2> QED
      BY <1>2, <1>3, SetInduction
  <1> QED
    BY <1>4

LEMMA FermatTimes ==
  ASSUME NEW p \in Nat, PrimeNumber(p), NEW v \in Nat, NEW j \in Nat
  PROVE  Congruent(Powers(v)[1 + j * (p - 1)], v, p)
  <1> DEFINE w == Powers(v)
             T == {i \in Nat : Congruent(w[1 + i * (p - 1)], v, p)}
  <1>1. p \in Int /\ v \in Int /\ p - 1 \in Nat /\ 1 + (p - 1) = p /\ 1 \in Nat
    BY DEF PrimeNumber
  <1>2. 0 \in T
    <2>1. 1 + 0 * (p - 1) = 1 /\ w[1] = v
      BY <1>1, PowersRule
    <2>2. Congruent(v, v, p)
      BY <1>1, SameSelf
    <2> QED
      BY <2>1, <2>2
  <1>3. ASSUME NEW i \in Nat, i \in T
        PROVE  i + 1 \in T
    <2> DEFINE k == 1 + i * (p - 1)
               x == w[k]
               y == w[p-1]
    <2>1. k \in Nat
      BY <1>1
    <2>2. 1 + (i + 1) * (p - 1) = k + (p - 1)
      BY <1>1
    <2> HIDE DEF k
    <2>3. x \in Int /\ y \in Int /\ w[k+(p-1)] = x * y /\ w[p] = v * y
      <3>1. w[1+(p-1)] = w[1] * w[p-1] /\ w[1] = v
        BY <1>1, PowersPlus, PowersRule
      <3>2. w[k+(p-1)] = w[k] * w[p-1]
        BY <1>1, <2>1, PowersPlus
      <3>3. x \in Int /\ y \in Int
        BY <1>1, <2>1, PowerIsInt
      <3> QED
        BY <1>1, <3>1, <3>2, <3>3
    <2>4. Congruent(x, v, p)
      BY <1>3 DEF k
    <2>5. Congruent(w[p], v, p)
      BY Fermat
    <2> HIDE DEF x, y, w
    <2>6. Congruent(y, y, p) /\ v * y \in Int /\ x * y \in Int
      BY <1>1, <2>3, SameSelf
    <2>7. Congruent(x * y, v * y, p)
      BY <1>1, <2>3, <2>4, <2>6, SameTimes
    <2>8. Congruent(x * y, v, p)
      <3>1. Congruent(v * y, v, p)
        BY <2>3, <2>5
      <3> QED
        BY <1>1, <2>6, <2>7, <3>1, SameOn
    <2> QED
      BY <2>2, <2>3, <2>8
  <1>4. \A i \in Nat : i \in T
    <2> HIDE DEF T
    <2> QED
      BY <1>2, <1>3, SetInduction
  <1> QED
    BY <1>4

LEMMA FermatOne ==
  ASSUME NEW p \in Nat, PrimeNumber(p), NEW v \in Nat, ~Congruent(v, 0, p)
  PROVE  Congruent(Powers(v)[p-1], 1, p)
  <1> DEFINE y == Powers(v)[p-1]
  <1>1. p \in Int /\ p \in Nat \ {0} /\ v \in Int /\ p - 1 \in Nat /\ 1 + (p - 1) = p /\ 1 \in Nat
    BY DEF PrimeNumber
  <1>2. y \in Int /\ Powers(v)[p] = v * y
    <2>1. Powers(v)[1+(p-1)] = Powers(v)[1] * Powers(v)[p-1] /\ Powers(v)[1] = v
      BY <1>1, PowersPlus, PowersRule
    <2>2. y \in Int
      BY <1>1, PowerIsInt
    <2> QED
      BY <1>1, <2>1, <2>2
  <1>3. Congruent(v * y, v, p)
    BY <1>2, Fermat
  <1> HIDE DEF y
  <1>4. Congruent(v * (y - 1), 0, p)
    <2>1. PICK c \in Int : v * y = v + c * p
      BY <1>3 DEF Congruent
    <2>2. v * (y - 1) = v * y - v /\ v * y \in Int /\ c * p \in Int
      BY <1>1, <1>2
    <2>3. v * (y - 1) = 0 + c * p
      BY <2>1, <2>2, <1>1
    <2> QED
      BY <2>3 DEF Congruent
  <1>5. Congruent(y - 1, 0, p)
    <2>1. y - 1 \in Int
      BY <1>2
    <2> QED
      BY <1>1, <1>4, <2>1, PrimeDivides
  <1> QED
    <2>1. PICK c \in Int : y - 1 = 0 + c * p
      BY <1>5 DEF Congruent
    <2>2. y = 1 + c * p
      <3>1. c * p \in Int
        BY <1>1
      <3> QED
        BY <1>2, <2>1, <3>1
    <2> QED
      BY <2>2 DEF Congruent, y

(* Modulo a prime, 1 has the roots 1 and -1 only.                          *)
LEMMA RootsOfOne ==
  ASSUME NEW p \in Nat, PrimeNumber(p), NEW y \in Int, Congruent(y * y, 1, p)
  PROVE  Congruent(y, 1, p) \/ Congruent(y, -1, p)
  <1>1. Congruent((y - 1) * (y + 1), 0, p)
    <2>1. PICK c \in Int : y * y = 1 + c * p
      BY DEF Congruent
    <2>2. (y - 1) * (y + 1) = y * y - 1
      OBVIOUS
    <2>3. (y - 1) * (y + 1) = 0 + c * p
      <3>1. c * p \in Int /\ y * y \in Int
        OBVIOUS
      <3> HIDE DEF Congruent
      <3> QED
        BY <2>1, <2>2, <3>1
    <2> QED
      BY <2>3 DEF Congruent
  <1>2. y - 1 \in Int /\ y + 1 \in Int
    OBVIOUS
  <1>3. Congruent(y - 1, 0, p) \/ Congruent(y + 1, 0, p)
    BY <1>1, <1>2, PrimeDivides
  <1>4. ASSUME Congruent(y - 1, 0, p)
        PROVE  Congruent(y, 1, p)
    <2>1. PICK c \in Int : y - 1 = 0 + c * p
      BY <1>4 DEF Congruent
    <2>2. c * p \in Int
      OBVIOUS
    <2>3. y = 1 + c * p
      BY <2>1, <2>2
    <2> QED
      BY <2>3 DEF Congruent
  <1>5. ASSUME Congruent(y + 1, 0, p)
        PROVE  Congruent(y, -1, p)
    <2>1. PICK c \in Int : y + 1 = 0 + c * p
      BY <1>5 DEF Congruent
    <2>2. c * p \in Int
      OBVIOUS
    <2>3. y = -1 + c * p
      BY <2>1, <2>2
    <2> QED
      BY <2>3 DEF Congruent
  <1> QED
    BY <1>3, <1>4, <1>5

(* RSA: where e*d is 1 modulo (p-1)(q-1), the power e*d changes nothing.   *)
LEMMA RsaTurns ==
  ASSUME NEW p \in Nat, PrimeNumber(p), NEW q \in Nat, PrimeNumber(q), p # q, p > 2, q > 1,
         NEW v \in Nat, NEW i \in Nat, Congruent(i, 1, (p - 1) * (q - 1))
  PROVE  Congruent(Powers(v)[i], v, p * q)
  <1> DEFINE a == p - 1
             b == q - 1
  <1>1. a \in Nat /\ b \in Nat /\ a >= 2 /\ b >= 1 /\ v \in Int
    OBVIOUS
  <1>2. PICK c \in Int : i = 1 + c * (a * b)
    BY DEF Congruent
  <1>3. a * b \in Nat /\ a * b >= 2
    <2> HIDE DEF a, b
    <2>1. a * b >= a
      BY <1>1
    <2> QED
      BY <1>1, <2>1
  <1> HIDE DEF a, b
  <1>4. c \in Nat
    <2> SUFFICES ASSUME c < 0
                 PROVE  FALSE
      OBVIOUS
    <2> DEFINE t == a * b
    <2>1. t \in Nat /\ t >= 2 /\ i = 1 + c * t
      BY <1>2, <1>3
    <2> HIDE DEF t
    <2>2. c * t <= (-1) * t
      BY <2>1
    <2> QED
      BY <2>1, <2>2
  <1>5. i = 1 + (c * b) * a /\ i = 1 + (c * a) * b
    BY <1>1, <1>2, <1>4
  <1>6. c * b \in Nat /\ c * a \in Nat
    BY <1>1, <1>4
  <1>7. Congruent(Powers(v)[i], v, p)
    <2>1. Congruent(Powers(v)[1 + (c * b) * (p - 1)], v, p)
      BY <1>6, FermatTimes
    <2> QED
      BY <1>5, <2>1 DEF a
  <1>8. Congruent(Powers(v)[i], v, q)
    <2>1. Congruent(Powers(v)[1 + (c * a) * (q - 1)], v, q)
      BY <1>6, FermatTimes
    <2> QED
      BY <1>5, <2>1 DEF b
  <1>9. Powers(v)[i] \in Int
    BY <1>1, PowerIsInt
  <1> QED
    BY <1>1, <1>7, <1>8, <1>9, PrimesTogether
===============================================================================
