-------------------------- MODULE PositionEngines ---------------------------
(***************************************************************************)
(* Which measurements the DL-TDOA, Multi-RTT and E-CID engines use, and    *)
(* how they answer: a request names cells in an order of its own, and      *)
(* "known" is the set of cells whose geometry could be looked up.  What    *)
(* is solved with the measurements is in ChanSolver and LinearAlgebra.     *)
(***************************************************************************)
EXTENDS FiniteSets, LinearAlgebra, Sums

\* The measurements of known cells, by their index in a report.
Usable(cells, known) == {k \in DOMAIN cells : cells[k] \in known}

-----------------------------------------------------------------------------
(* DL-TDOA: a measurement is a pair of a reference and a neighbour.        *)

\* The solver: unknown neighbours are skipped, three must be left.
TdoaSolver(meas, known) ==
    LET neighbours == [k \in DOMAIN meas |-> meas[k].nb]
    IN  IF Cardinality(Usable(neighbours, known)) < 3 THEN "Internal" ELSE "ok"

\* The measurements NewTdoaServer asks for, from those the operator configured.
minMeasurements(configured) == IF configured < 3 THEN 3 ELSE configured

\* A fault: only the first two references are compared.
TdoaComputePositionTwo(meas, known, fetched, configured) ==
    CASE Len(meas) < minMeasurements(configured) -> "InvalidArgument"
      [] Len(meas) >= minMeasurements(configured) /\ meas[1].ref # meas[2].ref -> "InvalidArgument"
      [] OTHER -> IF ~fetched THEN "Internal"
                  ELSE IF meas[1].ref \in known THEN TdoaSolver(meas, known) ELSE "NotFound"

\* The server: enough measurements of one reference cell, geometries that could be
\* fetched, and the reference among the known ones.
TdoaComputePosition(meas, known, fetched, configured) ==
    LET refs == {meas[k].ref : k \in DOMAIN meas}
        sound == Len(meas) >= minMeasurements(configured) /\ Cardinality(refs) = 1
    IN  CASE ~sound -> "InvalidArgument"
          [] sound /\ ~fetched -> "Internal"
          [] sound /\ fetched /\ refs \cap known = {} -> "NotFound"
          [] OTHER -> TdoaSolver(meas, known)

-----------------------------------------------------------------------------
(* Multi-RTT: the reference of the local frame is the first known cell.    *)

RttComputePosition(cells, known) ==
    IF Len(cells) < 3 \/ Cardinality(Usable(cells, known)) < 3 THEN "error" ELSE "ok"

\* The server looks up no geometry.
ComputeRtt(cells) == RttComputePosition(cells, {})

-----------------------------------------------------------------------------
(* E-CID, on a line: a timing advance, the RSRP of two known cells, both,  *)
(* or else the position of the serving cell, which is always known.  A     *)
(* report names cells with the distance their RSRP stands for; place is    *)
(* the position of each cell, in the direction of the serving antenna.     *)

Estimate1(at, variance) == [at |-> at, variance |-> variance]

\* A step of the timing advance is a unit of length; across the range the
\* uncertainty is taken to be twice that.
computeTAEstimate(serving, advance, place) ==
    Estimate1(Int2Ratio(place[serving] + advance), Int2Ratio(4))

\* The squares of the distances divide DistanceUnit.
Distances == {1, 2}
DistanceUnit == 4

\* The usable cells weighted by 1 / distance^2, in units of 1 / DistanceUnit; the variance
\* is the square of the weighted mean of the distances, over their number.
computeRsrpCentroid(entries, usable, place) ==
    LET Weighted1(F(_)) ==
            Total([k \in DOMAIN entries |->
                       IF k \in usable
                       THEN F(entries[k]) * (DistanceUnit \div (entries[k].distance * entries[k].distance))
                       ELSE 0], Len(entries))
        weights == Weighted1(LAMBDA e : 1)
        distance == Weighted1(LAMBDA e : e.distance)
    IN  Estimate1(Ratio(Weighted1(LAMBDA e : place[e.cell]), weights),
                  Ratio(distance * distance, weights * weights * Cardinality(usable)))

\* Two estimates, weighted by their inverse variances.
fuseEstimates(d, e) ==
    LET sum == Plus(d.variance, e.variance)
    IN  Estimate1(Over(Plus(Times(d.at, e.variance), Times(e.at, d.variance)), sum),
                  Over(Times(d.variance, e.variance), sum))

\* A report that does not name its serving cell is refused.
EcidComputePosition(named, serving, advance, entries, known, place) ==
    LET usable == Usable([k \in DOMAIN entries |-> entries[k].cell], known \cup {serving})
        centroid == Len(entries) >= 2 /\ Cardinality(usable) >= 2
        Of(method, e) == [method |-> method, at |-> e.at, variance |-> e.variance]
    IN  CASE ~named -> "error"
          [] named /\ advance > 0 /\ centroid ->
               Of("NREcid", fuseEstimates(computeTAEstimate(serving, advance, place),
                                          computeRsrpCentroid(entries, usable, place)))
          [] named /\ advance > 0 /\ ~centroid ->
               Of("NREcid", computeTAEstimate(serving, advance, place))
          [] named /\ advance = 0 /\ centroid ->
               Of("NREcid", computeRsrpCentroid(entries, usable, place))
          [] named /\ advance = 0 /\ ~centroid ->
               Of("CellID", Estimate1(Int2Ratio(place[serving]), Int2Ratio(550 * 550)))

\* The server takes the zero value, which is at the origin and in no report, for the
\* serving cell, and knows no other.
ComputeEcid(named, advance, entries) ==
    EcidComputePosition(named, "", advance, entries, {}, [c \in {""} |-> 0])
=============================================================================
