------------------------------- MODULE Fusion -------------------------------
(***************************************************************************)
(* fusion-engine's weighted fusion: several estimates of one position      *)
(* become one, weighted by their inverse variances, after those that are   *)
(* far less precise than the median were rejected.  An estimate has one    *)
(* coordinate, the code treats the axes alike, and one precision in metres *)
(* for both horizontal axes.  Quotients are kept as numerator and          *)
(* denominator, so the arithmetic is exact.                                *)
(***************************************************************************)
EXTENDS FiniteSets, Sequences, Sums

\* Precisions whose squares divide Unit; 0 stands for a sigma that was not set.
Sigmas == {0, 1, 2, 6, 7}
Unit == 1764

Estimate(lat, sigma) == [lat |-> lat, sigma |-> sigma]

\* Inverse variance, with the floor of one metre, in units of 1 / Unit.
Weight(e) == LET s == IF e.sigma = 0 THEN 1 ELSE e.sigma IN Unit \div (s * s)

\* sorted[len / 2]: at most so many precisions are smaller, and more are not larger.
MedianSigma(ests) ==
    LET k == Len(ests) \div 2
        Below(m) == {i \in DOMAIN ests : ests[i].sigma < m}
        UpTo(m) == {i \in DOMAIN ests : ests[i].sigma <= m}
    IN  CHOOSE m \in {ests[i].sigma : i \in DOMAIN ests} :
            Cardinality(Below(m)) <= k /\ k < Cardinality(UpTo(m))

\* A fault: what is no more precise than the median is rejected.
RejectFromMedian(ests) ==
    {i \in DOMAIN ests : Len(ests) < 3 \/ ests[i].sigma < MedianSigma(ests)}

\* The estimates left, by their index.
RejectOutliers(ests) ==
    {i \in DOMAIN ests : Len(ests) < 3 \/ ests[i].sigma <= 3 * MedianSigma(ests)}

Kept(ests) == LET f == RejectOutliers(ests) IN IF f = {} THEN DOMAIN ests ELSE f

\* The sum of F over the estimates that are kept.
SumOf(F(_), ests) ==
    Total([i \in DOMAIN ests |-> IF i \in Kept(ests) THEN F(ests[i]) ELSE 0], Len(ests))

\* A position num / den with the weight that gives its variance on each axis.
Weighted(num, den) == [num |-> num, den |-> den, variance |-> [num |-> Unit, den |-> den]]

\* A single estimate is returned as it is.
Fuse(ests) ==
    LET only == ests[1]
    IN  IF Len(ests) = 1
        THEN [num |-> only.lat, den |-> 1, variance |-> [num |-> only.sigma * only.sigma, den |-> 1]]
        ELSE Weighted(SumOf(LAMBDA e : Weight(e) * e.lat, ests), SumOf(Weight, ests))
=============================================================================
