------------------------------ MODULE Geofence ------------------------------
(***************************************************************************)
(* event-manager's GeofenceEvaluator: whether a point lies in a polygon,   *)
(* and whether an area or a motion event triggers.  Points are integer     *)
(* grid points, and the division of the code's edge test is multiplied     *)
(* out, so the comparison is exact.  Distances are those of a line.        *)
(***************************************************************************)
EXTENDS Integers, FiniteSets, Sequences

Point(lat, lon) == [lat |-> lat, lon |-> lon]

\* The edge from polygon[j] to polygon[i], where j comes before i in the ring.
EdgeStart(polygon, i) == polygon[IF i = 1 THEN Len(polygon) ELSE i - 1]

\* A fault: the comparison does not look which end of the edge is higher.
CrossesOneWay(p, a, b) ==
    /\ (b.lat > p.lat) # (a.lat > p.lat)
    /\ (p.lon - b.lon) * (a.lat - b.lat) < (a.lon - b.lon) * (p.lat - b.lat)

\* A ray from p heading east crosses the edge from a to b.
Crosses(p, a, b) ==
    LET lhs == (p.lon - b.lon) * (a.lat - b.lat)
        rhs == (a.lon - b.lon) * (p.lat - b.lat)
    IN  /\ (b.lat > p.lat) # (a.lat > p.lat)
        /\ IF a.lat > b.lat THEN lhs < rhs ELSE lhs > rhs

\* An odd number of edges is crossed; fewer than three points make no area.
IsPointInPolygon(p, polygon) ==
    /\ Len(polygon) >= 3
    /\ Cardinality({i \in DOMAIN polygon : Crosses(p, EdgeStart(polygon, i), polygon[i])}) % 2 = 1

\* last is a set: empty when the position was never evaluated before.
EvaluateAreaEvent(areaType, current, last, polygon) ==
    LET inside(p) == IsPointInPolygon(p, polygon)
    IN  /\ polygon # <<>>
        /\ CASE areaType = "WITHIN" -> inside(current)
             [] areaType = "ENTER" -> inside(current) /\ \A p \in last : ~inside(p)
             [] areaType = "LEAVE" -> ~inside(current) /\ \A p \in last : inside(p)

Distance(p, q) ==
    LET abs(n) == IF n < 0 THEN -n ELSE n
    IN  abs(p.lat - q.lat) + abs(p.lon - q.lon)

EvaluateMotionEvent(last, current, threshold) == Distance(last, current) >= threshold
=============================================================================
