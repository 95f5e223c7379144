------------------------------ MODULE MCStores ------------------------------
(* The components that keep state of their own in Redis or in memory and   *)
(* do not call each other, side by side: store says which one runs.  They  *)
(* share the handlers, the faults and the bound on the calls.              *)
EXTENDS CellGeometryStore, TLC

CONSTANTS
    Subs, Supis, SupiOf, NoSub, SubTTL, SubRequests,             \* of SubscriptionStore
    Asked, TypeLists, EphemerisTTL, IonosphericTTL, RefTimeTTL,
    MaxFaults, GnssRequests,                                     \* of GnssAssistance
    Constellations, Lists, AssistTTL, Validity, AssistRequests,  \* of AssistanceData
    TrackSessions, MaxPosition, TrackTTL, CleanupPeriod,         \* of KalmanTracker
    u1, s1, s2

VARIABLES
    store,
    subStored, subTtl, supiSubs, supiTtl, subCall, subRequests, used, known,
    gnssCached, gnssTtl, gnssCall, refresh, faults, gnssRequests,
    ephem, ephemTtl, iono, ephemCall, ephemRequests,
    filters, sinceCleanup, quiet, seen

subVars == <<subStored, subTtl, supiSubs, supiTtl, subCall, subRequests, used, known>>
gnssVars == <<gnssCached, gnssTtl, gnssCall, refresh, faults, gnssRequests>>
ephemVars == <<ephem, ephemTtl, iono, ephemCall, ephemRequests>>
trackVars == <<filters, sinceCleanup, quiet, seen>>

\* The cells share a slot, or each has one of its own.
Hashings == {f \in [Cells -> 1 .. Cardinality(Cells)] :
                (\A c \in Cells : f[c] = 1) \/ Cardinality({f[c] : c \in Cells}) = Cardinality(Cells)}

Sub == INSTANCE SubscriptionStore WITH
    TTL <- SubTTL, MaxRequests <- SubRequests,
    stored <- subStored, call <- subCall, requests <- subRequests

Gnss == INSTANCE GnssAssistance WITH
    MaxRequests <- GnssRequests,
    cached <- gnssCached, ttl <- gnssTtl, call <- gnssCall, requests <- gnssRequests

Assist == INSTANCE AssistanceData WITH
    TTL <- AssistTTL, MaxRequests <- AssistRequests,
    call <- ephemCall, requests <- ephemRequests

Track == INSTANCE KalmanTracker WITH
    Sessions <- TrackSessions, TTL <- TrackTTL

ASSUME StoresAssumption ==
    /\ Sub!SubscriptionAssumption /\ Gnss!GnssAssistanceAssumption
    /\ Assist!AssistanceAssumption /\ Track!TrackerAssumption

\* What GpsServed asks of the clients.
ASSUME GpsAssumption == Gnss!ClientsIncludeGps

\* Two subscriptions of one subscriber.  Every client of gnss-engine includes GPS, as
\* location-request does, or asks for nothing that can be generated; an unknown name
\* counts as GPS.
OneSubscriber == [s \in Subs |-> u1]
WithGps == {{"GPS", "GALILEO"}, {"QZSS"}, {"GLONASS"}}
EphemerisLists == {<<"ephemeris">>, <<"ionospheric", "ephemeris", "ref_time">>}
BothOrders == {<<s1, s2>>, <<s2, s1>>}

\* What does not run stays in one of its initial states.
StoresInit ==
    /\ store \in {"cells", "subscriptions", "gnss", "assistance", "tracks"}
    /\ Init /\ (store # "cells" => slotOf = [c \in Cells |-> 1] /\ written = [c \in Cells |-> 0])
    /\ Sub!Init
    /\ Gnss!Init /\ (store # "gnss" => gnssCached = {})
    /\ Assist!Init
    /\ Track!Init

Turn(s) == store = s /\ UNCHANGED store

CellsRun == Turn("cells") /\ Next /\ UNCHANGED <<subVars, gnssVars, ephemVars, trackVars>>
SubscriptionsRun ==
    Turn("subscriptions") /\ Sub!Next /\ UNCHANGED <<vars, gnssVars, ephemVars, trackVars>>
GnssRuns == Turn("gnss") /\ Gnss!Next /\ UNCHANGED <<vars, subVars, ephemVars, trackVars>>
AssistanceRuns == Turn("assistance") /\ Assist!Next /\ UNCHANGED <<vars, subVars, gnssVars, trackVars>>
TracksRun == Turn("tracks") /\ Track!Next /\ UNCHANGED <<vars, subVars, gnssVars, ephemVars>>

StoresNext == CellsRun \/ SubscriptionsRun \/ GnssRuns \/ AssistanceRuns \/ TracksRun

StoresSpec ==
    StoresInit /\ [][StoresNext]_<<store, vars, subVars, gnssVars, ephemVars, trackVars>>

\* The constants of the instances are closed under these permutations.
Symmetry == Permutations(Workers) \cup Permutations(Cells) \cup Permutations({s1, s2})

-----------------------------------------------------------------------------
(* Properties.                                                             *)

\* Each store keeps the types of its state.
TypesOK == TypeOK /\ Sub!TypeOK /\ Gnss!TypeOK /\ Assist!TypeOK /\ Track!TypeOK

\* Those of the instances, stated and explained in their modules: the index of the
\* subscriptions, the constellations a request for GPS gets, the validity of
\* ephemerides, and the tracks of sessions.
Listed == Sub!Listed
GpsServed == Gnss!GpsServed
ServedValid == Assist!ServedValid
OwnTrack == Track!OwnTrack
=============================================================================
