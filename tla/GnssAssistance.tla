--------------------------- MODULE GnssAssistance ---------------------------
(***************************************************************************)
(* gnss-engine's assistance data: the gRPC handler GetAssistanceData, the  *)
(* provider that generates the data and writes it through to Redis, and    *)
(* the goroutine of main that refreshes everything on a ticker.  A cached  *)
(* ephemeris list is abstracted to the set of constellations in it; the    *)
(* cache has one key per data type, whatever the constellations.           *)
(***************************************************************************)
EXTENDS Constellations, FiniteSets

CONSTANTS
    Workers,        \* handler goroutines
    Asked,          \* the sets of constellation names a request may carry
    TypeLists,      \* the RequestedTypes lists a request may carry
    EphemerisTTL,   \* TTLEphemeris, in ticks of the Redis clock
    IonosphericTTL, \* TTLIonospheric
    RefTimeTTL,     \* TTLRefTime
    MaxFaults,      \* bound on the Redis commands that fail
    MaxRequests     \* bound on the requests

DataTypes == {"ephemeris", "ionospheric", "ref_time"}
TTLFor == [ephemeris |-> EphemerisTTL, ionospheric |-> IonosphericTTL, ref_time |-> RefTimeTTL]

GnssAssistanceAssumption ==
    /\ Asked \subseteq SUBSET Names
    /\ TypeLists \subseteq Seq(DataTypes) \ {<<>>}
    /\ \A dt \in DataTypes : TTLFor[dt] \in Nat \ {0}
    /\ MaxFaults \in Nat /\ MaxRequests \in Nat

VARIABLES
    cached,    \* constellations of the cached ephemeris list; {} without the key
    ttl,       \* ticks each key still lives; 0: no key
    call,      \* the request each worker serves
    refresh,   \* where RefreshAll is: "wait", or the type it fetches next
    faults,    \* Redis commands that may still fail
    requests   \* requests that may still come

vars == <<cached, ttl, call, refresh, faults, requests>>

Idle == [pc |-> "idle", asked |-> {}, left |-> <<>>, eph |-> {}, res |-> "none"]

TypeOK ==
    /\ cached \in SUBSET Generated
    /\ ttl \in [DataTypes -> Nat] /\ \A dt \in DataTypes : ttl[dt] <= TTLFor[dt]
    /\ (cached # {}) <=> (ttl["ephemeris"] > 0)
    /\ \A w \in Workers : /\ call[w].pc \in {"idle", "get", "fetch"}
                          /\ call[w].eph \in SUBSET Generated
                          /\ call[w].res \in {"none", "ok", "error"}
    /\ refresh \in DataTypes \cup {"wait"}
    /\ faults \in 0 .. MaxFaults /\ requests \in 0 .. MaxRequests

Requested(names) == {constellationFromString(c) : c \in names}

\* Unsupported constellations are skipped.
Ephemerides(asked) == Requested(asked) \cap Generated

\* What GpsServed asks of the clients: whoever gets ephemerides asked for GPS too.
ClientsIncludeGps ==
    \A asked \in Asked : Ephemerides(asked) # {} => ConstellationGPS \in Requested(asked)

\* Redis outlives the engine: it may hold a list that an earlier request of the same
\* clients, or an earlier refresh, left there.
Init ==
    /\ cached \in {Ephemerides(asked) : asked \in Asked} \cup {{}, Generated}
    /\ ttl = [dt \in DataTypes |-> IF dt = "ephemeris" /\ cached # {} THEN EphemerisTTL ELSE 0]
    /\ call = [w \in Workers |-> Idle]
    /\ refresh = "wait"
    /\ faults = MaxFaults
    /\ requests = MaxRequests

\* A fault: the value is set and its TTL is not.
CacheSetKeepsTtl(dt, eph) ==
    /\ cached' = IF dt = "ephemeris" THEN eph ELSE cached
    /\ UNCHANGED <<ttl, faults>>

\* cache.Set, whose failure the provider only logs.
CacheSet(dt, eph) ==
    \/ /\ ttl' = [ttl EXCEPT ![dt] = TTLFor[dt]]
       /\ cached' = IF dt = "ephemeris" THEN eph ELSE cached
       /\ UNCHANGED faults
    \/ faults > 0 /\ faults' = faults - 1 /\ UNCHANGED <<cached, ttl>>

-----------------------------------------------------------------------------
(* GetAssistanceData.                                                      *)

Request(w, asked, types) ==
    /\ call[w].pc = "idle"
    /\ requests > 0
    /\ requests' = requests - 1
    /\ call' = [call EXCEPT ![w] = [Idle EXCEPT !.pc = "get", !.asked = asked, !.left = types]]
    /\ UNCHANGED <<cached, ttl, refresh, faults>>

\* The type is answered; the loop goes on, or the handler returns.
Answered(w, c) ==
    LET left == Tail(c.left)
    IN  call' = [call EXCEPT ![w] = [c EXCEPT !.left = left,
                                              !.pc = IF left = <<>> THEN "idle" ELSE "get",
                                              !.res = IF left = <<>> THEN "ok" ELSE "none"]]

\* cache.Get: an error counts as a miss.  Reference time is always fetched.
Get(w) ==
    LET c == call[w]
        dt == Head(c.left)
    IN  /\ c.pc = "get"
        /\ \/ /\ dt # "ref_time" /\ ttl[dt] > 0
              /\ Answered(w, IF dt = "ephemeris" THEN [c EXCEPT !.eph = cached] ELSE c)
              /\ UNCHANGED faults
           \/ /\ dt = "ref_time" \/ ttl[dt] = 0
              /\ call' = [call EXCEPT ![w].pc = "fetch"]
              /\ UNCHANGED faults
           \/ /\ dt # "ref_time" /\ ttl[dt] > 0 /\ faults > 0
              /\ faults' = faults - 1
              /\ call' = [call EXCEPT ![w].pc = "fetch"]
        /\ UNCHANGED <<cached, ttl, refresh, requests>>

\* FetchEphemeris fails when nothing asked for can be generated; the other
\* fetches do not fail.
Fetch(w) ==
    LET c == call[w]
        dt == Head(c.left)
        eph == Ephemerides(c.asked)
    IN  /\ c.pc = "fetch"
        /\ \/ /\ dt = "ephemeris" /\ eph = {}
              /\ call' = [call EXCEPT ![w].pc = "idle", ![w].res = "error"]
              /\ UNCHANGED <<cached, ttl, faults>>
           \/ /\ dt # "ephemeris" \/ eph # {}
              /\ CacheSet(dt, eph)
              /\ Answered(w, IF dt = "ephemeris" THEN [c EXCEPT !.eph = eph] ELSE c)
        /\ UNCHANGED <<refresh, requests>>

-----------------------------------------------------------------------------
(* The refresh goroutine and the clock.                                    *)

NextRefresh == [wait |-> "ephemeris", ephemeris |-> "ionospheric",
                ionospheric |-> "ref_time", ref_time |-> "wait"]

RefreshTick ==
    /\ refresh = "wait"
    /\ refresh' = NextRefresh[refresh]
    /\ UNCHANGED <<cached, ttl, call, faults, requests>>

\* A fault: each refresh caches one constellation.
RefreshAllOne ==
    /\ refresh # "wait"
    /\ \E c \in Generated : CacheSet(refresh, {c})
    /\ refresh' = NextRefresh[refresh]
    /\ UNCHANGED <<call, requests>>

\* All constellations, type by type.
RefreshAll ==
    /\ refresh # "wait"
    /\ CacheSet(refresh, Generated)
    /\ refresh' = NextRefresh[refresh]
    /\ UNCHANGED <<call, requests>>

Tick ==
    /\ ttl' = [dt \in DataTypes |-> IF ttl[dt] = 0 THEN 0 ELSE ttl[dt] - 1]
    /\ cached' = IF ttl["ephemeris"] <= 1 THEN {} ELSE cached
    /\ UNCHANGED <<call, refresh, faults, requests>>

Next ==
    \/ RefreshTick \/ RefreshAll \/ Tick
    \/ \E w \in Workers :
        \/ \E asked \in Asked, types \in TypeLists : Request(w, asked, types)
        \/ Get(w) \/ Fetch(w)

Spec == Init /\ [][Next]_vars

-----------------------------------------------------------------------------
(* Properties.                                                             *)

AskedEphemeris(c) == c.res = "ok" /\ c.eph # {}

\* location-request asks for GPS and needs GPS satellites.  As long as every client
\* includes GPS in its requests, no interleaving of requests, refreshes and expiries
\* puts a list without GPS in front of it, although the cache ignores who asked.
GpsServed ==
    \A w \in Workers :
        AskedEphemeris(call[w]) /\ ConstellationGPS \in Requested(call[w].asked)
            => ConstellationGPS \in call[w].eph
=============================================================================
