----------------------------- MODULE ChanSolver -----------------------------
(***************************************************************************)
(* tdoa-engine's chanAlgorithm2D in exact arithmetic, with the reference   *)
(* cell at the origin.  Stage 1 solves row * z = h for z = <<x, y, R>>,    *)
(* where R is the distance from the UE to the reference; stage 2 corrects  *)
(* the squares of x and y with that of R.  A range difference is the RSTD  *)
(* in metres, that is the distance to the reference minus the distance to  *)
(* the neighbour.  A square root is kept as its sign and its square.       *)
(***************************************************************************)
EXTENDS LinearAlgebra

\* A row of G_a, and twice the entry of h_a.
ChanRow(station, rangeDiff) ==
    [g |-> <<station.x, station.y, -rangeDiff>>,
     twice |-> rangeDiff * rangeDiff + station.x * station.x + station.y * station.y]

Solves(z, row) == 2 * (row.g[1] * z[1] + row.g[2] * z[2] + row.g[3] * z[3]) = row.twice

StageOne(rows, weights) ==
    wls3x1([i \in DOMAIN rows |-> [j \in 1 .. 3 |-> Int2Ratio(rows[i].g[j])]], weights,
           [i \in DOMAIN rows |-> Ratio(rows[i].twice, 2)])

-----------------------------------------------------------------------------
Squared(p) == Times(p, p)
SignedRoot(negative, p) == [negative |-> negative, square |-> <<Magnitude(p[1]), p[2]>>]

eps == Ratio(1, 1000)

\* Zero components count as eps.
Variance(p) == IF Larger(Squared(p), eps) THEN Squared(p) ELSE eps

Gb == << <<One, Zero>>, <<Zero, One>>, <<One, One>> >>

\* A fault: the range is not squared.
StageTwoSquares(za) ==
    LET hb == [i \in 1 .. 3 |-> IF i = 3 THEN za[3] ELSE Squared(za[i])]
    IN  wls2x1(Gb, [i \in 1 .. 3 |-> Over(One, Variance(za[i]))], hb)

\* <<x^2, y^2>> from <<x^2, y^2, R^2>>, each weighted by its inverse.
StageTwo(za) ==
    wls2x1(Gb, [i \in 1 .. 3 |-> Over(One, Variance(za[i]))], [i \in 1 .. 3 |-> Squared(za[i])])

\* The signs are those of stage 1.  When stage 2 is singular the code takes the
\* roots of the stage 1 result itself.
Position(za) ==
    LET zb == IF StageTwo(za) = Singular THEN za ELSE StageTwo(za)
    IN  [i \in 1 .. 2 |-> SignedRoot(za[i][1] < 0, zb[i])]

chanAlgorithm2D(rows, weights) ==
    IF Len(rows) < 3 \/ StageOne(rows, weights) = Singular THEN Singular
    ELSE Position(StageOne(rows, weights))
=============================================================================
