---------------------------- MODULE LinearAlgebra ----------------------------
(***************************************************************************)
(* The least-squares solvers of the engines: gnss-engine's 4 by 4 system   *)
(* by elimination with pivoting and its inverse by cofactors, tdoa-engine's *)
(* 3 by 3 and 2 by 2 systems by inverses, rtt-engine's 2 by 2 system by     *)
(* Cramer's rule.  Numbers are exact fractions <<numerator, denominator>>   *)
(* in lowest terms, so the code's thresholds for "near-singular" become     *)
(* zero.                                                                   *)
(***************************************************************************)
EXTENDS Integers, SequencesExt

gcd[a \in Nat, b \in Nat] == IF b = 0 THEN a ELSE gcd[b, a % b]

Magnitude(n) == IF n < 0 THEN -n ELSE n

Ratio(n, d) ==
    LET g == gcd[Magnitude(n), Magnitude(d)]
        s == IF d < 0 THEN -1 ELSE 1
    IN  <<(s * n) \div g, (s * d) \div g>>

Int2Ratio(n) == <<n, 1>>
Zero == Int2Ratio(0)
One == Int2Ratio(1)

\* Reduced before multiplying, to keep the numbers small.
Plus(p, q) ==
    LET g == gcd[p[2], q[2]]
    IN  Ratio(p[1] * (q[2] \div g) + q[1] * (p[2] \div g), p[2] * (q[2] \div g))
Times(p, q) ==
    LET a == Ratio(p[1], q[2])
        b == Ratio(q[1], p[2])
    IN  <<a[1] * b[1], a[2] * b[2]>>
Negated(p) == <<-p[1], p[2]>>
Minus(p, q) == Plus(p, Negated(q))
Over(p, q) == Times(p, Ratio(q[2], q[1]))
Larger(p, q) == Magnitude(p[1]) * q[2] > Magnitude(q[1]) * p[2]

SumOver(S, F(_)) == MapThenFoldSet(Plus, Zero, F, LAMBDA T : CHOOSE x \in T : TRUE, S)

\* A sequence of n elements; SubSeq makes TLC evaluate each once.
Row(n, F(_)) == SubSeq([i \in 1 .. n |-> F(i)], 1, n)
Matrix(n, F(_, _)) == Row(n, LAMBDA i : Row(n, LAMBDA j : F(i, j)))

\* What the solvers return for a singular system.
Singular == <<>>

-----------------------------------------------------------------------------
(* The normal equations of the rows H with weights W and residuals r.      *)

NormalMatrix(H, W) ==
    Matrix(Len(H[1]), LAMBDA i, j :
        SumOver(DOMAIN H, LAMBDA k : Times(Times(H[k][i], W[k]), H[k][j])))

NormalVector(H, W, r) ==
    Row(Len(H[1]), LAMBDA i : SumOver(DOMAIN H, LAMBDA k : Times(Times(H[k][i], W[k]), r[k])))

-----------------------------------------------------------------------------
(* solve4x4Gauss, on the augmented matrix [A | b].                         *)

\* The first of the rows from col on whose entry is the largest.
PivotRow(aug, col) ==
    CHOOSE p \in col .. Len(aug) :
        /\ \A q \in col .. Len(aug) : ~Larger(aug[q][col], aug[p][col])
        /\ \A q \in col .. p - 1 : Larger(aug[p][col], aug[q][col])

Exchange(aug, col) ==
    LET p == PivotRow(aug, col) IN [aug EXCEPT ![col] = aug[p], ![p] = aug[col]]

Eliminate(aug, col) ==
    IF aug = Singular THEN Singular
    ELSE LET m == Exchange(aug, col)
             Below(i) == LET factor == Over(m[i][col], m[col][col])
                         IN  Row(Len(m[i]), LAMBDA j : Minus(m[i][j], Times(factor, m[col][j])))
         IN  IF m[col][col] = Zero THEN Singular
             ELSE Row(Len(m), LAMBDA i : IF i <= col THEN m[i] ELSE Below(i))

BackSubstitute(aug) ==
    LET n == Len(aug)
        x[i \in 1 .. n] ==
            Over(Minus(aug[i][n + 1], SumOver(i + 1 .. n, LAMBDA j : Times(aug[i][j], x[j]))),
                 aug[i][i])
    IN  Row(n, LAMBDA i : x[i])

solve4x4Gauss(A, b) ==
    LET upper == FoldLeft(Eliminate, Row(4, LAMBDA i : Append(A[i], b[i])), <<1, 2, 3, 4>>)
    IN  IF upper = Singular THEN Singular ELSE BackSubstitute(upper)

-----------------------------------------------------------------------------
(* Determinants and inverses.                                              *)

Minor(m, row, col) ==
    LET Skip(k, at) == IF k < at THEN k ELSE k + 1
    IN  Matrix(Len(m) - 1, LAMBDA i, j : m[Skip(i, row)][Skip(j, col)])

det2x2(m) == Minus(Times(m[1][1], m[2][2]), Times(m[1][2], m[2][1]))

det3x3(m) ==
    LET Term(j, k, l) == Times(m[1][j], Minus(Times(m[2][k], m[3][l]), Times(m[2][l], m[3][k])))
    IN  Plus(Minus(Term(1, 2, 3), Term(2, 1, 3)), Term(3, 1, 2))

\* A fault: the signs do not alternate.
CofactorUnsigned(m, row, col) ==
    LET minor == Minor(m, row, col) IN IF Len(m) = 4 THEN det3x3(minor) ELSE det2x2(minor)

Cofactor(m, row, col) ==
    LET minor == Minor(m, row, col)
        det == IF Len(m) = 4 THEN det3x3(minor) ELSE det2x2(minor)
    IN  IF (row + col) % 2 = 0 THEN det ELSE Negated(det)

det4x4(m) == SumOver(1 .. 4, LAMBDA j : Times(m[1][j], Cofactor(m, 1, j)))

Adjugate(m, det) ==
    IF det = Zero THEN Singular ELSE Matrix(Len(m), LAMBDA i, j : Over(Cofactor(m, j, i), det))

invert4x4(m) == Adjugate(m, det4x4(m))
invert3x3(m) == Adjugate(m, det3x3(m))

invert2x2(m) ==
    LET det == det2x2(m)
    IN  IF det = Zero THEN Singular
        ELSE <<<<Over(m[2][2], det), Over(Negated(m[1][2]), det)>>,
               <<Over(Negated(m[2][1]), det), Over(m[1][1], det)>>>>

Apply(m, v) ==
    IF m = Singular THEN Singular
    ELSE Row(Len(m), LAMBDA i : SumOver(DOMAIN v, LAMBDA j : Times(m[i][j], v[j])))

-----------------------------------------------------------------------------
(* The solvers of the engines.                                             *)

solveWLS4(H, W, r) == solve4x4Gauss(NormalMatrix(H, W), NormalVector(H, W, r))

wls3x1(H, W, r) == Apply(invert3x3(NormalMatrix(H, W)), NormalVector(H, W, r))

wls2x1(H, W, r) == Apply(invert2x2(NormalMatrix(H, W)), NormalVector(H, W, r))

\* rtt-engine's, by Cramer's rule.
solve2x2(A, b) ==
    LET det == det2x2(A)
    IN  IF det = Zero THEN Singular
        ELSE <<Over(Minus(Times(A[2][2], b[1]), Times(A[1][2], b[2])), det),
               Over(Minus(Times(A[1][1], b[2]), Times(A[2][1], b[1])), det)>>

\* The update of one iteration of wlsMultilateration.
wlsMultilateration(H, W, r) == solve2x2(NormalMatrix(H, W), NormalVector(H, W, r))

-----------------------------------------------------------------------------
(* The dilution of precision in the plane, squared, of a UE at the origin. *)

\* H^T H of the unit vectors to the cells; a cell at the UE adds nothing.
Directions(cells) ==
    LET Square(c) == c.x * c.x + c.y * c.y
        Sum(F(_)) == SumOver({k \in DOMAIN cells : Square(cells[k]) > 0},
                             LAMBDA k : Ratio(F(cells[k]), Square(cells[k])))
        xy == Sum(LAMBDA c : c.x * c.y)
    IN  <<<<Sum(LAMBDA c : c.x * c.x), xy>>, <<xy, Sum(LAMBDA c : c.y * c.y)>>>>

Dilution(cells, unknown) ==
    LET m == Directions(cells)
    IN  IF Len(cells) < 2 \/ det2x2(m) = Zero THEN unknown
        ELSE Over(Plus(m[1][1], m[2][2]), det2x2(m))

\* tdoa-engine's, 99.9 where it is not defined, and qos-manager's, 10 there.
ComputeHDOP(cells) == Dilution(cells, Ratio(998001, 100))
ComputeGDOP(cells) == Dilution(cells, Int2Ratio(100))
=============================================================================
