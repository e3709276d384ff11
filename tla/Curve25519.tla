----------------------------- MODULE Curve25519 -----------------------------
(***************************************************************************)
(* x25519.c: multiplication of a point by a number, on the x coordinate    *)
(* alone.  The curve's parameters (params.c) are constants.                *)
(***************************************************************************)
EXTENDS FieldMaths

CONSTANTS P,       \* the prime, in N words
          Little,  \* 121665
          Confined \* 3: low bits of a private number that are cleared

(* One step of the ladder on <<x1, x2, z1, z2>>, where x is x of the point *)
(* that is multiplied: sums and differences of the coordinates, then their *)
(* products, then the new coordinates                                      *)
Minus(a, b) == ModSub(a, b, P, Zero(N))
Square(a) == BitModMult(a, a)
Tangent(four, square1) == \* x1^2 + A x1 z1 + z1^2, where four is 4 x1 z1
  BitModMult(four, BitModAdd(BitModMultByLittle(four, Little), square1))
NextPoint(square1, square2, cross1, cross2, x) ==
  << BitModMult(square1, square2),
     Square(BitModAdd(cross1, cross2)),
     Tangent(Minus(square1, square2), square1),
     BitModMult(Square(Minus(cross1, cross2)), x) >>
Products(sum1, dif1, sum2, dif2, x) ==
  NextPoint(Square(sum1), Square(dif1), BitModMult(dif1, sum2), BitModMult(sum1, dif2), x)
MontgomeryLadder(point, x) ==
  Products(BitModAdd(point[1], point[3]), Minus(point[1], point[3]),
           BitModAdd(point[2], point[4]), Minus(point[2], point[4]), x)

SwapPoints(point, bit) ==
  IF bit = 1 THEN <<point[2], point[1], point[4], point[3]>> ELSE point

(* The low bits of q are cleared, its first bit too, and the second is set *)
Clamped(q) ==
  [i \in 1..N |-> IF i = N THEN (q[i] \div 2^Confined) * 2^Confined
                  ELSE IF i = 1 THEN (q[i] % 2^(W-2)) + 2^(W-2) ELSE q[i]]

Quotient(point) == BitModMult(BitModInv(point[3], [P EXCEPT ![N] = @ - 2]), point[1])
X25519(p, q) ==
  LET one == [i \in 1..N |-> IF i = N THEN 1 ELSE 0]
      step[bit \in 0..1, point \in Seq(Seq(Word))] ==
        SwapPoints(MontgomeryLadder(SwapPoints(point, bit), p), bit)
      ladder[i \in 1..N*W] ==
        IF i = 1 THEN <<one, p, Zero(N), one>> ELSE step[Bit(Clamped(q), i), ladder[i-1]]
  IN  Quotient(ladder[N*W])
=============================================================================
