---------------------------- MODULE MCTdoaStage1 ----------------------------
(* A UE and a neighbour cell on a grid around the reference cell, at       *)
(* whole distances from each other, so that the RSTD is exact.             *)
EXTENDS ChanSolver

CONSTANTS N

VARIABLES ue, station, row

Grid == [x : -N .. N, y : -N .. N]
Square(n) == n * n
Whole(a, b) == {d \in 0 .. 3 * N : Square(d) = Square(a.x - b.x) + Square(a.y - b.y)}
Origin == [x |-> 0, y |-> 0]

Init ==
    /\ ue \in {p \in Grid : Whole(p, Origin) # {}}
    /\ station \in {p \in Grid : Whole(p, ue) # {}}
    /\ row = ChanRow(Origin, 0)

\* A noise-free RSTD.
Measure ==
    /\ \E r \in Whole(ue, Origin), d \in Whole(station, ue) : row' = ChanRow(station, r - d)
    /\ UNCHANGED <<ue, station>>

Spec == Init /\ [][Measure]_<<ue, station, row>>

-----------------------------------------------------------------------------
(* Properties.                                                             *)

\* "Linearise the hyperbolic TDOA equations": the true position and the true range
\* to the reference solve the equation that a noise-free measurement leads to.
TruePositionSolves == \E r \in Whole(ue, Origin) : Solves(<<ue.x, ue.y, r>>, row)
=============================================================================
