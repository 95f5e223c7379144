---------------------------- MODULE MCAlgorithms ----------------------------
(* The stateless computations, one request at a time: unit names the       *)
(* computation, input its arguments, answered whether it has run, and      *)
(* output what it returned.                                                *)
EXTENDS SbiGateway, Geofence, Fusion, QosEvaluator, PositionEngines, GnssSolver, ChanSolver

CONSTANTS
    Accuracies,    \* horizontal accuracies of requests to the selector
    MaxEstimates,  \* estimates to fuse
    Cells,         \* cells of the reports given to the engines
    MaxReport,     \* measurements in such a report
    N,             \* the geofence grid goes from 0 to N
    Reach          \* positions of the UE for TDOA go from -Reach to Reach

ASSUME InputsAssumption ==
    N \in Nat /\ MaxEstimates \in Nat /\ MaxReport \in Nat /\ IsFiniteSet(Cells)

VARIABLES unit, input, output

Grid == {Point(lat, lon) : lat, lon \in 0 .. N}

\* Every input of SelectMethod, on both sides of each accuracy boundary.
SelectorInputs == {Input(c, a, r, i) : c \in SUBSET Capabilities, a \in Accuracies,
                                       r \in ResponseTimes, i \in BOOLEAN}

\* Bodies of a request, and what the protocol handler answers about the UE: what it
\* supports, no capabilities, or nothing.
WireInputs == [body : LocationContextData, answer : {NoCapabilities, CallFailed} \cup SUBSET Capabilities]

\* Every quadrilateral on the grid, degenerate ones included, and every point.
GeofenceInputs == [quad : [1 .. 4 -> Grid], p : Grid]

Reports(S) == UNION {[1 .. n -> S] : n \in 1 .. MaxReport}
FusionInputs ==
    UNION {[1 .. n -> {Estimate(lat, s) : lat \in {0, 1}, s \in Sigmas}] : n \in 1 .. MaxEstimates}
Pairs == [ref : Cells, nb : Cells]

\* RSRP reports: up to three cells and distances.  The cells are apart from each other.
Heard == UNION {[1 .. n -> [cell : Cells, distance : Distances]] : n \in 1 .. 3}
Places == LET order == SetToSeq(Cells) IN [c \in Cells |-> 3 * (CHOOSE k \in DOMAIN order : order[k] = c)]

\* Moments, in ticks, around the start, the middle and the end of a GPS week, when
\* the ephemerides were generated; they live for 2 hours, and are for both systems.
Moments == 0 .. 8 \cup HalfWeek - 8 .. HalfWeek + 8 \cup Week - 8 .. Week + 8
ClockInputs == [system : Generated, made : Moments, age : 0 .. 6, travel : {0, 1}]

\* Constellations asked for; measured satellites, or the adapter's measurements.
NameLists == UNION {[1 .. n -> Names] : n \in 1 .. 2}
Measurable == [constellation : {"GPS", "GALILEO"}, prn : {1, 3, 21}]
                \cup {[constellation |-> c, prn |-> 1] : c \in {"GLONASS", "BEIDOU"}}
GnssInputs == [names : NameLists, adapter : {FALSE}, measured : SUBSET Measurable,
               iteration : {"singular", "exhausted"}]
                \cup [names : NameLists, adapter : {TRUE}, measured : {{}}, iteration : Iterations]

\* Rows of the geometry of 4, 3 and 2 unknowns, at least as many as unknowns.
Rows == [four |-> <<<<1, 0, 0, 1>>, <<-1, 0, 0, 1>>, <<0, 1, 0, 1>>, <<0, -1, 0, 1>>,
                   <<0, 0, 1, 1>>, <<1, 1, 0, 1>>, <<1, 0, 2, 1>>, <<0, 1, 1, 1>>>>,
         three |-> <<<<1, 0, -1>>, <<0, 1, 1>>, <<2, 1, 0>>, <<1, -1, -2>>, <<3, 0, 1>>, <<2, 0, -2>>>>,
         two |-> <<<<1, 0>>, <<-1, 0>>, <<0, 1>>, <<1, 2>>, <<2, 4>>, <<-3, 1>>>>]
Unknowns == [four |-> 4, three |-> 3, two |-> 2]
Ascending(s) == \A i \in 1 .. Len(s) - 1 : s[i] < s[i + 1]
Geometries(size) ==
    UNION {{g \in [1 .. n -> DOMAIN Rows[size]] : Ascending(g)} :
              n \in Unknowns[size] .. Unknowns[size] + 1}
Around == {[x |-> x, y |-> y] : x, y \in -1 .. 1} \cup {[x |-> 2, y |-> 1], [x |-> -1, y |-> 2]}
DopInputs == {SetToSeq(S) : S \in {T \in SUBSET Around : Cardinality(T) <= 4}}
SolveInputs == UNION {[size : {s}, geometry : Geometries(s), weight : {1, 2}] : s \in DOMAIN Rows}

H(in) == [k \in DOMAIN in.geometry |->
            [i \in 1 .. Unknowns[in.size] |-> Int2Ratio(Rows[in.size][in.geometry[k]][i])]]
W(in) == [k \in DOMAIN in.geometry |-> Int2Ratio(IF k % 2 = 0 THEN in.weight ELSE 1)]
Resid(in) == [k \in DOMAIN in.geometry |-> Int2Ratio(((3 * k) % 4) - 1)]

\* Positions with their range to the reference, and three neighbours with the range
\* differences for which they solve the rows of stage 1.
Consistent == {z \in [1 .. 3 -> -Reach .. Reach] : z[1] * z[1] + z[2] * z[2] = z[3] * z[3] /\ z[3] >= 0}
Neighbours(z) ==
    LET row(u, v, w) == ChanRow([x |-> z[1] + u, y |-> z[2] + v], w - z[3])
    IN  {r \in UNION {{row(s * z[1], t * z[2], z[3]), row(z[3], s * z[1], t * z[2]),
                       row(t * z[2], z[3], s * z[1])} : s, t \in {-1, 1}} : Solves(z, r)}
ChanInputs == UNION {[z : {z}, rows : {SetToSeq(S) : S \in kSubset(3, Neighbours(z))}] : z \in Consistent}

TdoaInputs == [report : Reports(Pairs), known : SUBSET Cells, fetched : BOOLEAN, configured : {0, 4}]
EcidInputs ==
    [report : Heard, known : SUBSET Cells, serving : Cells, named : BOOLEAN, advance : {0, 1}]

Init ==
    /\ output = <<>>
    /\ \/ unit = "selector" /\ input \in SelectorInputs
       \/ unit = "wire" /\ input \in WireInputs
       \/ unit = "subscribe" /\ input \in SubscriptionRequest
       \/ unit = "geofence" /\ input \in GeofenceInputs
       \/ unit = "fusion" /\ input \in FusionInputs
       \/ unit = "tdoa" /\ input \in TdoaInputs
       \/ unit = "rtt" /\ input \in [report : Reports(Cells), known : SUBSET Cells]
       \/ unit = "ecid" /\ input \in EcidInputs
       \/ unit = "clock" /\ input \in ClockInputs
       \/ unit = "gnss" /\ input \in GnssInputs
       \/ unit = "solve" /\ input \in SolveInputs
       \/ unit = "dop" /\ input \in DopInputs
       \/ unit = "chan" /\ input \in ChanInputs

Run(u, result) ==
    /\ unit = u
    /\ output = <<>>
    /\ output' = result
    /\ UNCHANGED <<unit, input>>

SelectMethods == Run("selector", Plan(input))
\* The status, and the plan of an accepted request.
Wire == Run("wire",
    <<DetermineLocationStatus(input.body, TRUE)>> \o
        IF Accepted(input.body) THEN PlanOf(Forwarded(input.body), input.answer) ELSE <<>>)
Subscribes == Run("subscribe", <<SubscribeStatus(input)>>)
Locate == Run("geofence", <<IsPointInPolygon(input.p, input.quad)>>)
FuseAll == Run("fusion", <<Fuse(input)>>)
Tdoa == Run("tdoa", <<TdoaComputePosition(input.report, input.known, input.fetched, input.configured)>>)
\* The answer of the solver, and that of its server.
RttAnswers(in, report) == <<RttComputePosition(report, in.known), ComputeRtt(report)>>
EcidAnswers(in, report) ==
    <<EcidComputePosition(in.named, in.serving, in.advance, report, in.known, Places),
      ComputeEcid(in.named, in.advance, report)>>
Rtt == Run("rtt", RttAnswers(input, input.report))
Ecid == Run("ecid", EcidAnswers(input, input.report))

Reported(in) == IF in.adapter THEN getMeasurements(Assistance(in.names))
                ELSE [m \in in.measured |-> m]

Elapsed(in) ==
    SinceReference(Reference(in.system, in.made), in.made + in.age, in.travel)

Fix(in) ==
    IF in.adapter THEN AdapterCompute(in.names, in.iteration)
    ELSE GnssServerComputePosition(Reported(in), Assistance(in.names), in.iteration)

\* The solution and the inverse of the normal matrix of each engine's solver.
Solved(in) ==
    LET A == NormalMatrix(H(in), W(in))
    IN  CASE in.size = "four" -> <<solveWLS4(H(in), W(in), Resid(in)), invert4x4(A)>>
          [] in.size = "three" -> <<wls3x1(H(in), W(in), Resid(in)), invert3x3(A)>>
          [] in.size = "two" ->
                <<wls2x1(H(in), W(in), Resid(in)), invert2x2(A), wlsMultilateration(H(in), W(in), Resid(in))>>

Clock == Run("clock", <<Elapsed(input)>>)
Gnss == Run("gnss", <<Fix(input)>>)
Solve == Run("solve", Solved(input))
Dop == Run("dop", <<ComputeHDOP(input), ComputeGDOP(input)>>)
Chan == Run("chan", <<chanAlgorithm2D(input.rows, <<One, One, One>>)>>)

Next == SelectMethods \/ Wire \/ Subscribes \/ Locate \/ FuseAll \/ Tdoa \/ Rtt \/ Ecid
        \/ Clock \/ Gnss \/ Solve \/ Dop \/ Chan

Spec == Init /\ [][Next]_<<unit, input, output>>

Answered(u) == unit = u /\ output # <<>>

-----------------------------------------------------------------------------
(* Properties of the method selection.                                     *)

\* The plan is sound for what the UE supports, also at the end of the conversions a
\* request goes through from the HTTP body on: a UE whose capabilities are not known
\* is not taken for one that supports something.  What is accepted names its UE, a
\* subscription by the SUPI that event-manager looks it up with.
PlanSound ==
    /\ Answered("selector") => Sound(output, input.caps, input.response = "NoDelay")
    /\ Answered("subscribe") => output[1] = BadRequest \/ input.supi
    /\ Answered("wire") =>
          IF Head(output) = BadRequest THEN ~input.body.json \/ ~Identified(input.body)
          ELSE /\ Head(output) = 200
               /\ Identified(input.body)
               /\ Sound(Tail(output), input.answer \cap Capabilities, FALSE)

-----------------------------------------------------------------------------
(* A property of the geofence.                                             *)

\* The side of the line through a and b on which q lies: its sign counts.
Side(a, b, q) == (b.lon - a.lon) * (q.lat - a.lat) - (b.lat - a.lat) * (q.lon - a.lon)
Sides(t, q) == {Side(t[1], t[2], q), Side(t[2], t[3], q), Side(t[3], t[1], q)}

Triangle == <<input.quad[1], input.quad[2], input.quad[3]>>
Rest == <<input.quad[1], input.quad[3], input.quad[4]>>

\* The ray-casting answer agrees for a triangle with the half-plane definition: a
\* point strictly on one side of all edges is inside, and one strictly on different
\* sides of two edges is outside.  And cutting an area along a diagonal neither loses
\* nor doubles a point, not even one on the cut: adjacent areas have no gap and no
\* overlap.
AreaExact ==
    Answered("geofence") =>
        LET sides == Sides(Triangle, input.p)
            inside == IsPointInPolygon(input.p, Triangle)
        IN  /\ (\A x \in sides : x > 0) \/ (\A x \in sides : x < 0) => inside
            /\ (\E x \in sides : x > 0) /\ (\E x \in sides : x < 0) => ~inside
            /\ output[1] = (inside # IsPointInPolygon(input.p, Rest))

-----------------------------------------------------------------------------
(* Properties of the fusion and the engines.                               *)

\* Rejecting outliers keeps more than half of the estimates, the most precise ones
\* among them, also when some precisions were not set.  And fusing does not cost the
\* accuracy the client asked for: when one estimate with a known precision fulfils
\* it, qos-manager finds that the fused one does too.
FusionSound ==
    Answered("fusion") =>
        /\ 2 * Cardinality(Kept(input)) > Len(input)
        /\ \A i \in DOMAIN input :
              (\A j \in DOMAIN input : input[i].sigma <= input[j].sigma) => i \in Kept(input)
        /\ \A i \in DOMAIN input, a \in 0 .. 10 :
              /\ input[i].sigma > 0
              /\ ~HorizontalFails(a, [num |-> input[i].sigma * input[i].sigma, den |-> 1])
              => EvaluateQoS(
                    [accuracy |-> a, vertical |-> FALSE, altitude |-> 0, response |-> "NoDelay"],
                    output[1].variance, 0, 0) = [accuracy |-> "FULFILLED", timeBreached |-> FALSE]

\* The fused position and its precision do not depend on the order in which the
\* methods delivered their estimates.  Nor does whether an engine answers, and with
\* which method or error, depend on the order of the measurements, although the
\* first ones choose the reference; nor do the position and the precision of E-CID.
OrderFree ==
    LET Again(f, s) == [i \in DOMAIN s |-> s[f[i]]]
        Orders(s) == Bijection(DOMAIN s, DOMAIN s)
    IN  /\ Answered("fusion") =>
              \A f \in Orders(input) : output[1] = Fuse(Again(f, input))
        /\ Answered("tdoa") => \A f \in Orders(input.report) :
              output[1] = TdoaComputePosition(Again(f, input.report), input.known, input.fetched, input.configured)
        /\ Answered("rtt") => \A f \in Orders(input.report) :
              output = RttAnswers(input, Again(f, input.report))
        /\ Answered("ecid") => \A f \in Orders(input.report) :
              output = EcidAnswers(input, Again(f, input.report))

-----------------------------------------------------------------------------
(* Properties of the solvers.                                              *)

\* Seconds of week start again every week.  Whenever the ephemerides were generated,
\* the solver gets the time that really passed since their reference, across the end
\* of a week and also when the signal left in the week before it was received.
WeekWrapExact ==
    Answered("clock") =>
        LET interval == IF input.system = ConstellationGPS THEN 6 ELSE 3
            reference == CHOOSE k \in input.made - 5 .. input.made :
                            k % interval = 0 /\ input.made - k < interval
        IN  output[1] = input.made + input.age - input.travel - reference

\* A fix uses each measured satellite with an ephemeris once, with its own ephemeris,
\* however the constellations were named on the way, and there is a fix whenever four
\* of them have one.
SatellitesMatched ==
    Answered("gnss") =>
        LET svs == output[1].svs
            known == ToSet(FetchEphemeris([i \in DOMAIN input.names |->
                                              constellationFromString(input.names[i])]))
            Satellite(m) == [constellation |-> constellationFromString(m.constellation), prn |-> m.prn]
            usable == {m \in ToSet(Reported(input)) : Satellite(m) \in known}
        IN  /\ (output[1].error = "") <=> (Cardinality(usable) >= 4 /\ input.iteration # "singular")
            /\ output[1].error = "" =>
                  /\ Cardinality(DOMAIN svs) = Cardinality(usable)
                  /\ {svs[i].measured : i \in DOMAIN svs} = usable
                  /\ \A i \in DOMAIN svs :
                        [constellation |-> svs[i].eph.constellation, prn |-> svs[i].eph.prn]
                            = Satellite(svs[i].measured)

\* The determinant by its definition.
Determinant(A) ==
    LET n == Len(A)
        Sign(f) == IF Cardinality({p \in (1 .. n) \X (1 .. n) : p[1] < p[2] /\ f[p[1]] > f[p[2]]}) % 2 = 0
                   THEN One ELSE Negated(One)
        Product(f) == FoldLeft(Times, Sign(f), [i \in 1 .. n |-> A[i][f[i]]])
    IN  SumOver(Bijection(1 .. n, 1 .. n), Product)

\* What the solvers of the engines return solves the weighted least squares: the
\* weighted residuals are orthogonal to every column, the inverse is one, and only
\* geometries whose normal matrix has no inverse are refused.  The dilution of
\* precision, squared, is the trace of that inverse for the directions of the cells,
\* and one more cell never worsens a geometry that determines the position.
SolversExact ==
    /\ Answered("dop") /\ Len(input) >= 2 /\ det2x2(Directions(input)) # Zero =>
        LET inverse == invert2x2(Directions(input))
        IN  /\ output = [i \in 1 .. 2 |-> Plus(inverse[1][1], inverse[2][2])]
            /\ \A c \in Around : /\ ~Larger(ComputeHDOP(Append(input, c)), output[1])
                                 /\ ~Larger(ComputeGDOP(Append(input, c)), output[2])
    /\ Answered("solve") =>
        LET h == H(input)
            w == W(input)
            r == Resid(input)
            A == NormalMatrix(h, w)
            n == Len(A)
            Left(x, k) == Minus(r[k], SumOver(1 .. n, LAMBDA i : Times(h[k][i], x[i])))
            LeastSquares(x) ==
                \A i \in 1 .. n :
                    SumOver(DOMAIN h, LAMBDA k : Times(Times(w[k], h[k][i]), Left(x, k))) = Zero
            Inverse1(B) ==
                \A i, j \in 1 .. n : SumOver(1 .. n, LAMBDA k : Times(A[i][k], B[k][j]))
                                        = IF i = j THEN One ELSE Zero
        IN  IF Determinant(A) = Zero THEN \A i \in DOMAIN output : output[i] = Singular
            ELSE /\ \A i \in DOMAIN output \ {2} : LeastSquares(output[i])
                 /\ Inverse1(output[2])

\* Both stages together: when a position and its range to the reference solve the rows
\* of stage 1, that position is what the engine returns, on an axis and in every
\* quadrant: stage 2 neither moves nor mirrors it.  Only rows that do not determine it
\* are refused.
Stage2Keeps ==
    Answered("chan") =>
        LET G == [k \in DOMAIN input.rows |-> [i \in 1 .. 3 |-> Int2Ratio(input.rows[k].g[i])]]
        IN  output[1] = IF Determinant(G) = Zero THEN Singular
                        ELSE [i \in 1 .. 2 |-> SignedRoot(input.z[i] < 0, Int2Ratio(input.z[i] * input.z[i]))]
=============================================================================
