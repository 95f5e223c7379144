------------------------------ MODULE GnssSolver ------------------------------
(***************************************************************************)
(* gnss-engine's position computation, from the ephemerides of its         *)
(* provider through the conversions of its gRPC server and of its caller   *)
(* to the solver: GPS time, which satellite each measurement is matched    *)
(* with, and how the iteration ends.  Times are in ticks of 20 minutes:    *)
(* the reference times are whole hours, and travel times are rounded up.   *)
(* Orbits and the iterated least squares are left to their geometry:       *)
(* LinearAlgebra has the equations of one iteration.                       *)
(***************************************************************************)
EXTENDS Constellations, FiniteSets

Week == 504
HalfWeek == 252

-----------------------------------------------------------------------------
(* Time.                                                                   *)

\* currentGPSTime: the week, modulo 1024, and the time of week of a moment counted
\* from the GPS epoch.  The week number is stored and never read.
currentGPSTime(t) == [week |-> (t \div Week) % 1024, tow |-> t % Week]

\* Toe and Toc: the time of week truncated to 2 hours, for Galileo to 1 hour.
Reference(c, t) ==
    LET tow == currentGPSTime(t).tow
    IN  tow - (tow % (IF c = ConstellationGPS THEN 6 ELSE 3))

\* A fault: the week crossover is left out.
CrossoverNone(t) == t

\* The two loops of ComputeSatellitePosition, for Toe and again for Toc.
CrossoverOf[t \in Int] ==
    IF t > HalfWeek THEN CrossoverOf[t - Week]
    ELSE IF t < -HalfWeek THEN CrossoverOf[t + Week] ELSE t

Crossover(t) == CrossoverOf[t]

\* The time since the reference epoch at which the satellite sent the signal that
\* is received at now.
SinceReference(toe, now, travel) == Crossover((currentGPSTime(now).tow - travel) - toe)

-----------------------------------------------------------------------------
(* Satellites.                                                             *)

SvID(c, prn) == <<constellationPrefix(c), prn>>

\* FetchEphemeris: the lists of the constellations asked for, one after another.
FetchEphemeris(asked) ==
    LET Of(c) == CASE c = ConstellationGPS -> generateGPSEphemerides
                   [] c = ConstellationGalileo -> generateGalileoEphemerides
                   [] OTHER -> <<>>
        List(c) == [j \in 1 .. Len(Of(c)) |-> [constellation |-> c, prn |-> Of(c)[j]]]
        upTo[k \in 0 .. Len(asked)] == IF k = 0 THEN <<>> ELSE upTo[k - 1] \o List(asked[k])
    IN  upTo[Len(asked)]

\* toProtoEphemerides and fromProtoEphemerides: what crosses the wire is the
\* constellation's name and the PRN.
ToProto(ephs) ==
    [i \in DOMAIN ephs |-> [ephs[i] EXCEPT !.constellation = constellationToString(@)]]

fromProtoEphemerides(msgs) ==
    [i \in DOMAIN msgs |-> [constellation |-> constellationFromString(msgs[i].constellation),
                            prn |-> msgs[i].prn,
                            svID |-> SvID(msgs[i].constellation, msgs[i].prn)]]

fromProtoSignals(msgs) ==
    [i \in DOMAIN msgs |-> [msg |-> msgs[i], svID |-> SvID(msgs[i].constellation, msgs[i].prn)]]

\* getMeasurements of the adapter: one for each of the first six ephemerides.
getMeasurements(msgs) == SubSeq(msgs, 1, IF Len(msgs) > 6 THEN 6 ELSE Len(msgs))

-----------------------------------------------------------------------------
(* The solver.  The signals of a request are treated one by one: any       *)
(* finite set may index them.                                              *)

Failed(why) == [error |-> why, svs |-> <<>>]

\* The ephemerides, by index, with the SvID of a measurement.
Matched(m, ephs) == {i \in DOMAIN ephs : ephs[i].svID = m.svID}

\* What the solver works with, by index of the measurement: of the ephemerides with the
\* same SvID the map keeps the last.
Satellites(measurements, ephs) ==
    [k \in {i \in DOMAIN measurements : Matched(measurements[i], ephs) # {}} |->
        LET same == Matched(measurements[k], ephs)
        IN  [measured |-> measurements[k].msg,
             eph |-> ephs[CHOOSE i \in same : \A j \in same : j <= i]]]

\* How the iteration goes: the equations of an iteration are singular, the update
\* falls below a millimetre, or neither happens ten times.
Iterations == {"singular", "converged", "exhausted"}

\* ComputePosition.  An iteration that has not converged is answered like one that
\* has, and a covariance that cannot be inverted is replaced by the identity.
ComputePosition(measurements, ephs, iteration) ==
    LET svs == Satellites(measurements, ephs)
        Enough(s) == Cardinality(DOMAIN s) >= 4
    IN  CASE ~Enough(measurements) -> Failed("few measurements")
          [] Enough(measurements) /\ ~Enough(svs) -> Failed("few SVs")
          [] Enough(measurements) /\ Enough(svs) ->
                IF iteration = "singular" THEN Failed("WLS") ELSE [error |-> "", svs |-> svs]

\* The gRPC handler refuses fewer than four signals before it converts anything.
GnssServerComputePosition(signals, msgs, iteration) ==
    IF Cardinality(DOMAIN signals) < 4 THEN Failed("InvalidArgument")
    ELSE ComputePosition(fromProtoSignals(signals), fromProtoEphemerides(msgs), iteration)

\* GetAssistanceData without a cached list, for the names a client asks for.
Assistance(names) == ToProto(FetchEphemeris([i \in DOMAIN names |-> constellationFromString(names[i])]))

\* Compute of location-request's adapter, if it asked for these names: it asks for
\* GPS only, and may get whatever list is cached.
AdapterCompute(names, iteration) ==
    LET ephs == Assistance(names)
    IN  IF ephs = <<>> THEN Failed("no ephemeris")
        ELSE IF Len(ephs) < 4 THEN Failed("insufficient ephemerides")
        ELSE GnssServerComputePosition(getMeasurements(ephs), ephs, iteration)
=============================================================================
