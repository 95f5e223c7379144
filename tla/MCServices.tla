----------------------------- MODULE MCServices -----------------------------
(* Four machines that do not interact, side by side: which says whether it *)
(* is privacy-auth, sbi-gateway's registration with the NRF, event-        *)
(* manager's scheduler, with which subscriptions, or the processes of the  *)
(* deployment that runs.                                                   *)
EXTENDS ServiceFleet, PrivacyAuth

CONSTANTS
    r1, r2,                                          \* Requests are these two
    MaxFaults, MaxRestarts, Patience,                \* of NrfRegistrar
    Supis, Start, ApartSubs, ApartPositions, ApartTicks,
    MixedSubs, MixedPositions, MixedTicks,           \* of EventScheduler
    u1, u2

VARIABLES
    which,
    main, beat, stopped, fate, late, nrf, age, restarts, faults, failed, gone,
    pos, lastPos, next, ticks, delivered, seen, due

nrfVars == <<main, beat, stopped, fate, late, nrf, age, restarts, faults, failed, gone>>
schedVars == <<pos, lastPos, next, ticks, delivered, seen, due>>
allVars == <<which, vars, privacyVars, nrfVars, schedVars>>

Nrf == INSTANCE NrfRegistrar

\* Subscriptions that need an earlier position, each of a subscriber of its own.
Apart == INSTANCE EventScheduler WITH
    Subs <- ApartSubs, Positions <- ApartPositions, MaxTicks <- ApartTicks

\* One of them, and others that need no earlier position and share a subscriber.
Mixed == INSTANCE EventScheduler WITH
    Subs <- MixedSubs, Positions <- MixedPositions, MaxTicks <- MixedTicks

ASSUME RequestsAssumption == Requests = {r1, r2}
ASSUME ServicesAssumption ==
    /\ Nrf!RegistrarAssumption
    /\ Apart!SchedulerAssumption /\ Mixed!SchedulerAssumption

\* What TriggersExact asks of the subscriptions.
ASSUME ApartAssumption == Apart!OwnSubscriber /\ Mixed!OwnSubscriber

\* A square area, positions on both sides of it and on its edge.
Here(lat, lon) == [lat |-> lat, lon |-> lon]
Square == <<Here(0, 0), Here(0, 2), Here(2, 2), Here(2, 0)>>
Home == Here(0, 3)
OnBothSides == {Home, Here(1, 1), Here(1, 3)}
Around == OnBothSides \cup {Here(1, 0)}

Sub(u, type) == [supi |-> u, eventType |-> type, area |-> Square, threshold |-> 2]
OneEach == <<Sub(u1, "LEAVE"), Sub(u2, "ENTER")>>
TwoShare == <<Sub(u1, "MOTION"), Sub(u2, "WITHIN"), Sub(u2, "PERIODIC")>>

\* What does not run stays in one of its initial states.
Idle ==
    /\ failing = {} /\ defaultClass = "C"
    /\ token = [r \in Requests |-> "valid"]
    /\ client = [r \in Requests |-> "COMMERCIAL"]

ServicesInit ==
    /\ which \in {"privacy", "nrf", "apart", "mixed", "fleet"}
    /\ PrivacyInit /\ (which # "privacy" => Idle)
    /\ Nrf!Init
    /\ Init /\ (which # "fleet" => h2 /\ ue = "answers")
    /\ IF which = "mixed" THEN Mixed!Init ELSE Apart!Init

Turn(s) == which = s /\ UNCHANGED which

PrivacyTurn(A) == Turn("privacy") /\ A /\ UNCHANGED <<vars, nrfVars, schedVars>>
NrfTurn(A) == Turn("nrf") /\ A /\ UNCHANGED <<vars, privacyVars, schedVars>>
FleetTurn(A) == Turn("fleet") /\ A /\ UNCHANGED <<privacyVars, nrfVars, schedVars>>

PrivacyRuns == PrivacyTurn(PrivacyNext)
NrfRuns == NrfTurn(Nrf!Next)
ApartRuns == Turn("apart") /\ Apart!Next /\ UNCHANGED <<vars, privacyVars, nrfVars>>
MixedRuns == Turn("mixed") /\ Mixed!Next /\ UNCHANGED <<vars, privacyVars, nrfVars>>
FleetRuns == FleetTurn(Next)

ServicesNext == PrivacyRuns \/ NrfRuns \/ ApartRuns \/ MixedRuns \/ FleetRuns

\* One machine runs in a behaviour, so the fairness of two machines is stated for one
\* step of each at a time.
OneOf(A, B) == NrfTurn(A) \/ FleetTurn(B)

\* The fairness of NrfRegistrar and ServiceFleet, each in its turn.
ServicesSpec ==
    /\ ServicesInit /\ [][ServicesNext]_allVars
    /\ WF_allVars(OneOf(Nrf!Main, RequestStep))
    /\ WF_allVars(OneOf(Nrf!Period, SomeProgress))
    /\ WF_allVars(OneOf(Nrf!LoopEnds, SomeStoreUp))
    /\ WF_allVars(OneOf(Nrf!HeartbeatReturns, SomeReconnect))
    /\ WF_allVars(NrfTurn(Nrf!ProcessRequest))

-----------------------------------------------------------------------------
(* Properties.                                                             *)

\* Each service that runs keeps the types of its state.
TypesOK ==
    /\ which = "fleet" => TypeOK
    /\ which = "privacy" => PrivacyTypeOK
    /\ which = "nrf" => Nrf!TypeOK
    /\ which = "apart" => Apart!TypeOK
    /\ which = "mixed" => Mixed!TypeOK

\* Those of the instances, stated and explained in their modules: when the NRF may
\* suspend the gateway, that a deregistration lasts and a lost profile comes back, and
\* what the subscriptions are notified of.
SuspendedOnlyAfterFailures == which = "nrf" => Nrf!SuspendedOnlyAfterFailures
DeregistrationLasts == Nrf!DeregistrationLasts
HeartbeatRestores == Nrf!HeartbeatRestores
TriggersExact == which \in {"apart", "mixed"} => Apart!TriggersExact
=============================================================================
