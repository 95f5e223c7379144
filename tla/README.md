# TLA+ models of the 5G Location Management Function

This directory models the LMF of this repository: Go micro-services that locate a
UE for the 5G core. The modules are translated from the Go source under `services/`
and `common/`; `PROJECT.json` maps each definition to its lines. TLC checks small
instances. TLAPS proves, for every value of the constants, the types and the safety of
every component that keeps state, that the orchestrator on its session manager
implements what location-request promises, and, for inputs of every length and size,
what the method selection, the geofence, the GNSS clock, the fusion, the engines'
acceptance of measurements and the matching of satellites compute. What only TLC
checks is liveness and the solvers' arithmetic.

1. [The system](#the-system)
2. [Modules](#modules)
3. [What the runs check](#what-the-runs-check)
4. [Bounds, symmetry and composition](#bounds-symmetry-and-composition)
5. [Fairness](#fairness)
6. [Proofs](#proofs)
7. [Findings](#findings)
8. [Known divergences](#known-divergences)
9. [Not modelled](#not-modelled)
10. [Plan](#plan)
11. [Running it](#running-it)

## The system

A consumer asks `sbi-gateway` over HTTP where a subscriber (SUPI) is. The gateway
calls `location-request`, whose orchestrator runs the procedure: privacy check,
session, UE capabilities, method selection, LPP exchange with the UE, positioning
engine, session update, session delete. It calls the other services over gRPC:

```
consumer -> sbi-gateway -> location-request --> session-manager  --> Redis
   AMF ---> sbi-gateway         |-------------> method-selector
              | publish         |-------------> protocol-handler --> AMF --> UE
              +--> Redis -------|--------------> (subscribes)
                                +-------------> gnss-engine      --> Redis
   NRF <--- sbi-gateway         (tdoa, rtt, ecid, fusion, qos, privacy: wired to
                                 no-op adapters in location-request/main.go)
   event-manager -> Redis, its notification targets
```

Uplink LPP messages come back to `sbi-gateway` as callbacks of the AMF and reach
`protocol-handler` through Redis Pub/Sub.

| Component | State | Operations | What is hard | What makes it correct |
|---|---|---|---|---|
| session-manager | Redis: `sess:{id}`, the set `supi:{supi}`, each with a TTL | Create, Get, UpdateStatus, Delete, GetBySupi | two keys per session, several round trips per handler, no lock or transaction, failed and half-applied commands, expiry | the index covers what lives and never leads to another subscriber; deleted stays deleted |
| callback registry | goroutines listening on a channel per SUPI | Register, WaitOnChannel, WaitForCallback, Deliver | Pub/Sub keeps nothing for late subscribers; all flows of a UE share a channel; a lost connection ends the listening for good | what is awaited is heard; no message of another UE |
| protocol-handler, LPP | the flow of each request, its AMF subscription, the stored measurement | capability flow, location flow, N1N2 callback | timeouts racing answers, cancellation, the order of subscribe, register and send | flows return, subscriptions are removed |
| location-request orchestrator | step of each request, plan of methods, session id | DetermineLocation, CancelLocation (stub) | cancelled calls that still execute, engine fallbacks, crashes | one answer, consent before measurement, sessions closed |
| method-selector | none | SelectMethod, estimates, protobuf conversions | boundaries of accuracy and response classes | supported and complete plan |
| event-manager | Redis: `sub:{id}`, `supi-subs:{supi}`; in memory: last positions | Subscribe, Unsubscribe; the evaluation loop; notifications | index shared by the subscriptions of a UE; failed fetches and notifications between evaluations; ray casting on edges | subscriptions findable and removable; exact triggers |
| sbi-gateway, NRF registrar | registration, heartbeat goroutine | Register, heartbeat, Deregister | NRF and gateway restarts under one instance id, lost and late requests, heartbeat against shutdown | offered while it serves, and not again after a deregistration |
| privacy-auth | audit records | token check, CheckPrivacy, audit | outages of the UDM and of the audit store, calls given up halfway | nobody located against the policy; truthful audit |
| tdoa-engine, cell geometry | map in memory before Redis Cluster | GetCell, GetMultipleCells, StoreCell, eviction | lock released around Redis, expiry at two levels, cluster slots | right cell, nothing dropped, overwrite seen |
| gnss-engine, assistance cache | Redis: one key per data type | GetAssistanceData, refresh goroutine | one key for all constellations | the request gets satellites it can use |
| assistance-data | Redis: one key per constellation | GetAssistanceData | time between making and storing | what is served is valid |
| fusion-engine | a Kalman filter per session | Fuse, FusePositions, cleanup | outliers, zero precisions, cleanup against use | independent of order; tracks not mixed |
| qos-manager | none | EvaluateQoS | zero means "not asked" | consistent with fusion and selection |
| tdoa, rtt, ecid engines | none | ComputePosition | missing geometries, choice of the reference, degenerate geometries, signs lost in squares | independent of order; the right linear systems, solved exactly |
| gnss-engine, solver | none | ComputePosition | week crossover; satellites matched by ids rebuilt on each side; singular systems | right time since the reference, right ephemeris for each satellite |
| sbi-gateway, HTTP handlers | none | DetermineLocation, Subscribe, Unsubscribe, Cancel | four conversions between body and selector, "not known" against "supports nothing" | what is accepted can be served; the plan fits the UE |
| the processes | containers, open listeners, requests in flight | start, serve, drain, restart | a drain waits for a request that needs a listener already closed; stores that are fatal at start; calls that fail at once while a connection waits to be tried again | requests fail only for a cause; everything recovers |

The other components (Kafka client, token middleware, configuration, generated
code) are under [Not modelled](#not-modelled).

## Modules

State and actions keep the names of the code where TLA+ allows it. One action is one
round trip to Redis, one call, one critical section or one message: everything in
between is local to a goroutine.

| Module | Models | State and actions against the code |
|---|---|---|
| `SessionManager` | session-manager with its Redis | `sess`, `sessTtl`, `index`, `indexTtl` are the keys and their remaining life; `call[w]` is the handler goroutine with its program counter. `CreateSession` ... `GetSessionBySupi` are the arrivals of requests, `ReadFound` ... `DeleteKeyError` the round trips of `session_store.go` and `redis_client.go`. `owner`, `issued`, `deleted`, `torn` are history |
| `SessionManagerProofs`, `LocationOrchestratorProofs`, `LppHandlerProofs`, `MethodSelectorProofs`, `EventSchedulerProofs` | | the theorems on the modules they are named after; those on `CallbackRegistry` are in `LppHandlerProofs` |
| `StoresProofs`, `ServicesProofs`, `AlgorithmsProofs` | | the theorems on the components of `MCStores`, on those of `MCServices`, and on the computations of `MCAlgorithms` |
| `CallbackRegistry` | `callbackregistry.go` | `listeners` and `ch`: goroutines and Go channels; `Register`, `Deliver`, `Arrived` are used by the flows. A goroutine ends with its first message (`Deliver`) or with its connection to Redis (`ReceiveFails`), not with the flow that waits |
| `LppHandler` | `lpp_handler.go`, `namfcomm_client.go`, `HandleN1N2Notification` | extends `CallbackRegistry`. `pc[f]` is the flow of a request; the AMF (`amfSubs`, `posts`) and the UE (`owed`, `mayAsk`) are external; `missed` and `cut` are history: what was published while a wait had no listener, and which waits lost theirs |
| `LocationService` | the promise of location-request | abstract: one answer per request, consent before measurement, measurement before position |
| `LocationOrchestrator` | `location_orchestrator.go` and the adapters | composes `SessionManager` (instance `SM`) and `MethodSelector`. `rpc[r]` is the session-manager handler executing the request's call, which runs on when the caller gives up |
| `MethodSelector` | `method_selector.go`, `selector_server.go`, `method_selector_adapter.go` | the selection tree and its fallbacks, the estimates, and both directions of the protobuf conversions |
| `SubscriptionStore` | `subscription_store.go`, `event_server.go` | `stored[s]` is how often the value was JSON-encoded, because the store and the client both encode |
| `Geofence`, `EventScheduler` | `geofence_evaluator.go`, `event_scheduler.go`, `notifier.go` | ray casting over exact grid arithmetic; `next` is the subscription the loop evaluates next, `due` what was missed or notified without cause |
| `NrfRegistrar` | `registrar.go` and `main.go` of sbi-gateway | `main` and `beat` are the two goroutines, `fate` and `late` the requests under way, `nrf` the external NRF. The process exits, dies and starts again with the same instance id while requests of its predecessor may still arrive. `gone` is history: whether the DELETE was processed, and whether a PUT crossed it |
| `PrivacyAuth` | `privacy_checker.go`, `privacy_server.go`, `audit_store.go`, `token_validator.go`, `udm_client.go` | one handler per request; the goroutine of class B and the notification of class C only log and are no steps |
| `CellGeometryStore` | `cell_geometry_store.go` | `mem` is L1 and `redis` L2; a lookup is L1 pass, Redis read, fill |
| `GnssAssistance` | gnss-engine's `cache.go`, `data_provider.go`, `gnss_server.go`, refresh loop of `main.go` | a cached ephemeris list is the set of its constellations |
| `AssistanceData` | assistance-data | an ephemeris has an age, from its making, apart from the life of its key |
| `Fusion`, `KalmanTracker` | `fusion_engine.go`, `weighted_fusion.go`, `kalman_filter.go` | outlier rejection and weighting in exact fractions; the map of filters with its cleanup |
| `Sums` | the loops that add up weights | `Total(g, n)`, by a recursive function |
| `QosEvaluator` | `qos_evaluator.go` | comparison of a variance and a time with what was asked |
| `PositionEngines` | `tdoa_server.go`, `rtt_solver.go`, `ecid_solver.go` and their servers | which measurements are accepted, which error or method answers; E-CID's estimates on a line |
| `LinearAlgebra` | the solvers of `gnss_solver.go`, `tdoa_solver.go`, `rtt_solver.go`; `ComputeHDOP`, `ComputeGDOP` | normal equations, elimination with pivoting, inverses by cofactors, Cramer's rule, in exact fractions; a dilution of precision is kept squared |
| `ChanSolver` | `chanAlgorithm2D` of `tdoa_solver.go` | both stages; a square root is kept as its sign and its square |
| `Constellations`, `GnssSolver` | `convert.go`, `data_provider.go`, `gnss_solver.go`, `gnss_engine_adapter.go` | names, prefixes and satellite ids through adapter, server and solver; times of week; how an iteration ends |
| `SbiGateway` | `location_handler.go`, `subscription_handler.go`, `grpcclient/clients.go`, `location_server.go`, `protocol_handler_adapter.go` | which bodies are accepted; a request through the conversions down to the plan of methods |
| `ServiceFleet` | the fourteen `main.go` and one request through their processes | `Program[s]` is what the main does in order and `at[s]` where it is; `step` is the request; `stores` what is up; `backoff` the callees whose connection gRPC tries again only later; `excused` is history: whether the request met something that may cost it its result |
| `MCSessionManager`, `MCLppHandler`, `MCLocationOrchestrator`, `MCSubscriptionStore`, `MCTdoaStage1` | | instances for TLC |
| `MCAlgorithms` | | the stateless computations on every input within bounds |
| `MCStores`, `MCServices` | | the components that do not call each other, side by side, with the constants of each as constants of theirs: the .cfg files give TLC small values, the proofs leave them open |

Operators introduced by "A fault" (`SetJSONForever`, `channelKeyShared`, ...) are not
part of any specification. Each is the definition that follows it with a plausible
bug in it, and TLC finds the property that goes with it violated when it takes that
definition's place (`mutants` in `PROJECT.json`).

## What the runs check

| Run | Question | Properties |
|---|---|---|
| `SessionManager_races` | Two handlers interleave their round trips on two sessions of two subscribers; every command may fail, be applied without its reply, or be half-applied; keys expire | `TypeOK`; `NoForeignSession`: a lookup by SUPI never returns another subscriber's session; `IndexCoversLive`: what lives can be found and its index entry does not expire first, except under a call in progress or after a torn write; `DeletedUnlessUpdated`: only a racing update revives a deleted session |
| `SessionManager_deleted` (violated) | Is an update atomic, as its comment says? | `DeletedStaysDeleted` |
| `LppHandler_faults` | The capability and the location flow of one UE overlap, every call to the AMF and to Redis may fail | `TypeOK`; `ArmedExchangesMissNothing`: an exchange that registers before it sends hears its answer, unless the Redis connection it listens on broke; `SubscriptionsCleanedUp`: no AMF subscription is left |
| `LppHandler_returns` | Flows of two UEs; the AMF fails or returns an unusable id, Redis connections break, also under a wait; time limits and cancellation | `OwnUe`: no flow reads another UE's message; `FlowsReturn`: every flow returns |
| `LppHandler_missed` (violated) | Does the location flow register before it subscribes? | `NothingMissed` |
| `LocationOrchestrator_pair` | Two requests for one subscriber share session-manager and give up calls that still execute | `TypeOK`; `SessionClosed`: a returned request leaves no session, unless a session call of it failed; `OwnSession`: answers are never mixed |
| `LocationOrchestrator_service` | Calls break, Redis fails, the process dies, under fair scheduling | `ImplementsService`: the composed system refines `LocationService`; `RequestsAnswered`; `SessionsVanish`: whatever was left behind, the TTLs remove |
| `SubscriptionStore_unsubscribe` (violated) | Can a stored subscription be deleted? | `UnsubscribeSucceeds` |
| `Algorithms` | Every input, within bounds, of the selector alone and at the end of a request's conversions, the geofence, the fusion, the engines, the GNSS clocks and satellites, the solvers | `PlanSound`; `AreaExact`; `FusionSound`, `OrderFree`; `WeekWrapExact`, `SatellitesMatched`; `SolversExact`, `Stage2Keeps` |
| `TdoaEngine_stage1` (violated) | Does the true position solve the linearised equations? | `TruePositionSolves` |
| `Stores` | The stores in Redis and memory under overlapping handlers, failing commands, expiry | `TypesOK`; `NothingDropped`, `OverwriteSeen` (cells); `Listed` (subscriptions); `GpsServed` (gnss-engine); `ServedValid` (assistance-data); `OwnTrack` (filters) |
| `Services` | privacy-auth under outages; the NRF registration under lost and late requests, with restarts of the NRF and of the gateway; the scheduler under failing fetches and notifications; a request through processes that are stopped, killed, restarted or without their stores | `TypesOK`; `AllowedByPolicy`, `AuditTruthful`; `SuspendedOnlyAfterFailures`, `DeregistrationLasts`, `HeartbeatRestores`; `TriggersExact`; `FailsOnlyWhenHit`, `Recovers` |

What the passing runs show, beyond their table entry:

- `SessionManager_races`: the index can hold dead ids, and can outlive sessions, but
  it never leads across subscribers, because ids are fresh and a deleted member is
  read again. The two exceptions of `IndexCoversLive` are needed: TLC finds a
  violation without either.
- `LocationOrchestrator_service`: the orchestrator's order (privacy, LPP, engine)
  survives fallbacks, cancellation and crashes. The refinement mapping takes
  `answer` from `pc` and `outcome`, `consent` from `allowed` and `measured` from
  `lppDone`; every other step stutters.
- `PlanSound`: whatever branch of the selection tree is taken, also after the four
  conversions from the HTTP body on, the first method is one the UE supports, nothing
  is attempted twice and nothing supported is left out. A UE whose record is missing,
  one that supports nothing and a call that failed stay apart on the way.
- `AreaExact`: ray casting agrees with half-planes inside and outside a triangle, and
  its half-open comparison makes adjacent areas tile: a point on a shared edge is in
  exactly one of them. Of a point on an outer edge it says nothing; there the code's
  answer depends on which edge it is.
- `WeekWrapExact`: both loops of the week crossover together give the true time since
  the reference for any ephemeris that has not expired, at each end of the week.
- `SatellitesMatched`: the ids that the adapter, the server and the solver rebuild
  agree for every spelling of a constellation; nobody gets another satellite's orbit.
- `SolversExact`: the solvers of the three engines satisfy the normal equations and
  refuse exactly the singular ones (`Determinant` is the definition by permutations, not
  by cofactors); the dilutions of precision are the trace of the inverse and never grow
  with a cell.
- `Stage2Keeps`: if stage 1 of Chan's algorithm has a consistent solution, stage 2
  returns it, in every quadrant and on the axes. That stage 1 has the true position
  for its solution is what `TdoaEngine_stage1` refutes.
- `FailsOnlyWhenHit`: a service that stops in order costs no request, provided that
  what the request still needs stays: the drain really waits, and what a request no
  longer needs may go. `excused` lists the exceptions; each is needed (a call in the
  backoff of its connection, which fails although the callee serves again, a gateway that
  drains while the UE's answer must still come through it, HTTP/2 requests that
  `Shutdown` does not know, an LPP wait longer than the 30 seconds of the cluster).
- `DeregistrationLasts`: once the NRF processed the DELETE of a gateway that stops,
  its entry stays deleted, unless a heartbeat's PUT was on its way beside it, or a tick
  won against the cancellation. The order of the shutdown is what it needs: heartbeats
  are cancelled before the DELETE leaves.
- `Recovers`: no order of starts and outages leaves a service down or a request open.
- `OverwriteSeen` and `GpsServed` have preconditions, stated in them (no overlapping
  `StoreCell` of the cell; every client asks for GPS or for nothing that can be
  generated). Without them the code violates both; see
  [Known divergences](#known-divergences).

## Bounds, symmetry and composition

| Bound | Value | Why it is enough for the question |
|---|---|---|
| `Workers` | 2 | every race here is between two handlers; a third adds no new pair of adjacent round trips on a key |
| `Sessions`, `Subs`, `Cells` | 1 to 2 | one for the deletion race and for the liveness run, two wherever something could be mixed up |
| `Supis` | 1 to 2 | one for the shared index, two for crossing it |
| `TTL`, `MemTTL`, `RedisTTL`, `Validity`, `Patience` | 1 to 3 ticks | with 2 a key can be alive at one read, expired at the next, and renewed in between; L1's life is shorter than Redis', as in the code (`Patience` 3: "about three missed heartbeats") |
| `MaxRequests` (`SessionManager`, `SubscriptionStore`, `CellGeometryStore`, `GnssAssistance`, `AssistanceData`) | 2 to 6 | create, update or lookup, and delete of one session while another call runs; in the orchestrator three calls per request |
| `Faults` | subsets of the named kinds | unbounded in number; the kind, not the count, is the parameter, except `MaxFaults` (1 in gnss-engine, 4 for the NRF, more than its patience), `MaxRestarts` (2, of the NRF and the gateway together) |
| `Askers` | none or one UE | a UE that asks for assistance data does so once. `LppHandler_faults` leaves it out, so that both flows of one UE can be checked against every fault; there the location flow gets past its wait with the other message of the shared channel, or by its time limit |
| `MaxVersion` | 2 | old and new geometry |
| `MaxTicks` | 2 to 3 | two evaluations after the first position was seen |
| `Accuracies` | 0, 1, 10, 11, 50, 51 | both sides of every boundary of the selector |
| `MaxEstimates`, `MaxReport` | 4 | an even and an odd median, and more measurements than an engine needs |
| `Moments`, `age` | 8 ticks around the start, middle and end of a week, 6 ticks of age | an ephemeris lives for 2 hours, 6 ticks of 20 minutes, and the code's thresholds are at half a week |
| `Measurable`, `NameLists` | 8 satellites, two names | enough for a fix from one or from two constellations, too few from either, numbers shared between constellations, every spelling |
| `Rows` | 8, 6 and 6 rows; as many as unknowns, or one more | regular, singular and overdetermined systems, zero pivots, two weights |
| `Around` | 11 cells, up to 4 of them | collinear and co-located cells, and a fifth to add |
| `Reach` | 5 | the axes, the four quadrants of (3, 4), the reference itself |
| `Disturbed` | gateway, location, session, protocol, gnss | one of each kind of program on the request's way; the others only differ in their names (the selector like location-request) or are not on it |
| `MaxStops`, `MaxKills`, `MaxOutages` | 1 each | one of each together, at any steps of the request |
| `N` | 2 (geofence), 6 (TDOA) | on the 3 by 3 grid all quadrilaterals, convex, concave, crossed, degenerate, against all points; the 13 by 13 grid holds enough Pythagorean pairs for exact ranges |

Every bound on a counter is a CONSTANT and a guard (`requests > 0` and the like).
When requests run out the behaviour may stop, which is why most configurations say
`CHECK_DEADLOCK FALSE`; the session manager's do not, as Redis' clock always ticks.

Symmetry (`SYMMETRY`) is used for interchangeable ids and workers in runs that check
invariants and one action property, whose formula is symmetric too. No run with a
liveness property uses it.

Composition. `LocationOrchestrator` composes the two components that interact most,
step by step: the orchestrator's calls start handlers of the detailed
`SessionManager`. `ServiceFleet` composes all processes at a coarser grain: a call is
one step, and what matters is whether the callee serves. `LppHandler` composes the
flow, the registry and the callback handler. `MCStores` and `MCServices` place
components side by side that do not call each other and share no key: the variable
`store` (or `which`) names the one that runs in a behaviour, and the others stay in an
initial state. For properties of a single component this is the same as a run of its
own, and the interleavings of independent components, which would multiply states and
show nothing, are left out.

## Fairness

Safety runs assume none. The three liveness runs assume weak fairness:

- `LppHandler!FairSpec`: a flow that can take a step does (its calls have timeouts and
  its waits deadlines, so there always is one), and the context of a capability flow
  ends. The code has that deadline: its context is limited to 20 seconds
  (`lpp_handler.go:119`), and that of the location flow to 60 with shorter limits for
  each wait. The UE and the AMF are not assumed to answer, and a listening goroutine is
  not assumed to end: its read waits for a message or a broken connection, whatever
  became of its flow.
- `LocationOrchestrator!FairSpec`: each request's goroutine runs, each session-manager
  handler runs, Redis' clock ticks. Every call returns or breaks, as gRPC reports a
  dead peer; for `UpdateStatus` and `Delete`, whose context has no deadline
  (`location_orchestrator.go:187`), this is an assumption on the network. A crash is
  not fair and may never happen.
- `MCServices!ServicesSpec`: the registrar's goroutines and ticker run, and the NRF
  processes what reaches it. Nothing is assumed about when the gateway is told to stop
  or dies, and privacy-auth needs no fairness. For the processes: the request's code
  runs (each wait has a limit), containers that exited are started again and their
  mains go on, as Kubernetes' restart policy has it, a store that went down comes
  back, and gRPC tries a broken connection again (its backoff is at most 120 seconds);
  stops, deaths and outages are bounded, not fair, and the UE may stay silent. One
  machine runs in a behaviour, so `OneOf` states the fairness of two machines in one
  condition, a step of each.

## Proofs

### The session manager

`SessionManagerProofs` proves, for any number of workers, sessions and subscribers,
any TTL of at least one tick, any set of update statuses and faults, and any bound on
requests:

| Theorem | Statement |
|---|---|
| `Invariance` | `Spec => []IInv` |
| `TypeCorrect` | `Spec => []TypeOK` |
| `LookupStaysHome` | `Spec => []NoForeignSession` |
| `IndexCovers` | `Spec => []IndexCoversLive` |
| `DeletionLasts` | `Spec => DeletedUnlessUpdated` |

The only assumption is `ConstantsAssumption`, which TLC evaluates in every run that
extends `SessionManager`: the special values differ from ids and subscribers, a TTL is
positive, faults are of the three kinds.

The argument. None of the invariants is inductive alone: a handler acts on a session
it read some round trips ago. `IInv` adds what a handler in flight and the keys agree
on:

- `CallsOwn`: a handler past its arrival works on a born id; while it is between its
  read and its writes, the SUPI it remembers is the owner of that id; a lookup's
  candidate belongs to the SUPI looked up.
- `KeysOwn`: a live key holds its owner's SUPI, and an index entry of a SUPI only
  ids of that owner. Ownership never changes, because ids are fresh.

With them `NoForeignSession` is a consequence, and a write into the index lands in
the right set, which `IndexCoversLive` needs. The proof has one lemma per action, over
three lemmas about what a handler's change preserves (`CallStep`, `ReplyStep`,
`GotoStep`) and two about when a session keeps its index entry (`CoverKept`: Redis is
untouched; `CoverOthers`: another session is written). The subtle case is `Tick`:
index and session count down together, so the entry outlives the session only since
`SetAdd` sets the index's TTL after `SetJSON` set the session's.

`DeletedUnlessUpdated` needs a second invariant, `FreshCreates`: an id that is still
being created was not issued, hence not deleted, and one handler owns it. Then the
write that revives a deleted session is not a create's, and `DeletedStep` leaves the
update as the only one. Both invariants were checked by TLC before they were proved.

### The privacy check

`ServicesProofs` proves, for any number of requests and any sets of client types,
default classes and outages:

| Theorem | Statement |
|---|---|
| `PrivacyInvariance` | `PrivacySpec => []PInv` |
| `PrivacyTypes` | `PrivacySpec => []PrivacyTypeOK` |
| `PolicyKept` | `PrivacySpec => []AllowedByPolicy` |
| `AuditKept` | `PrivacySpec => []AuditTruthful` |

They assume `PrivacyAssumption`, which the `Services` run evaluates: outages are of the
UDM and of Cassandra, and a configured class is one of the four or stands for another
string. `PInv` says, for each request, what the place of its handler tells of it
(`Placed`: no answer before the class was applied, a valid token behind the token
check), where its class can come from (`Classified`), which class an allowed request
has (`Permitted`) and when it has a record (`Recorded`). A handler touches its own
request only, so each action's lemma proves the four parts for one request and
`Others` gives the rest. `AuditTruthful` needs `Placed`: the class is set long before
the record is written, and a request that ended without one has none of the four
classes.

### A request through the deployment

`ServicesProofs` proves `FailuresHaveCauses`, `Spec => []FailsOnlyWhenHit`, and
`FleetTypes`, `Spec => []TypeOK`, for any set of disturbed processes and any number of
stops, deaths and outages, from `FleetAssumption`: the disturbed processes are among the
services and the bounds are natural numbers. The invariant adds that whatever is missing
now is recorded (`Excused => excused`) and that a request which lost its result has a
recorded cause. A call fails where its callee does not serve, or where the connection to it
is in backoff. The history noted that when the callee left, when the backoff began, or
when the request came to depend on the callee, whichever was last. The lemmas
follow the ways a state changes: the request stays, the request goes on, a process ends,
a shutdown returns. The types are not obvious, because a process only counts the steps
of its program: `ProgramShapes` says that every program ends with a step that closes it,
after one that waits for the signal, so that no process steps past its end.

### The orchestrator on its session manager

`LocationOrchestratorProofs` proves, for any requests, subscribers, reported
capabilities, unreliable engines and failures:

| Theorem | Statement |
|---|---|
| `SessionManagerRuns` | `Spec => SM!Spec` |
| `SessionsOwned` | `Spec => []SMP!IInv` |
| `OrchestratorInvariance` | `Spec => []OInv` |
| `SessionsOwn` | `Spec => []OwnSession` |
| `SessionsClosed` | `Spec => []SessionClosed` |
| `SessionsFindable` | `Spec => []SM!IndexCoversLive` |
| `OrchestratorServes` | `Spec => ImplementsService` |
| `PlansLast` | `Spec => []PlanInv` |
| `OrchestratorTypes` | `Spec => []TypeOK` |

The assumptions are `OrchestratorAssumption`, `SessionManagerAssumption` (those of
the session manager) and `ClientAssumption`: the status the orchestrator sends is one
that the session manager is modelled for. The two runs evaluate them.

The argument has four parts.

- The session manager carries over. `LocationOrchestrator` instantiates the module
  (`SM`) and the proofs about it come with an instance of their own (`SMP`);
  `SameInit` and `SameNext` say that the two are one. `SessionManagerSteps` shows that
  the orchestrator is one of the clients the session manager allows: each of its steps
  is a step of `SM` or leaves Redis and the handlers alone. Hence `IInv`, and with it
  everything that rests on it, holds here.
- Whose session it is. A request's caller may give up while the handler runs on, and the
  handler is used for other requests later. `SessInv` says that a call that
  is out works on its own request's session and serves no other request (`Serving`), that
  the session belongs to the request's subscriber and to no other request (`Owning`), and
  that no other handler works on it until a call of the request is given up (`Alone`).
  `Closed` then follows a request from its delete to its return. `SessionClosed`
  would fail without the part about ids: a create takes a session nobody has used, and
  a handler that is not free takes no call. The proof stops at exactly these places when
  either is taken out of the model.
- The refinement. `Promised` ties the place of a request to what the abstract
  specification remembers: it is past the privacy check only if `allowed`, it has a
  position only if `lppDone`. Each action is shown to map to one abstract step
  (`ServiceAnswers`, `ServiceAsks`, `ServiceProceeds`) or to a stutter; a crash answers
  several requests, one abstract failure for all.
- The plan. From the selection on a request has a method to attempt (`PlanInv`): what
  the selector returns through the conversions is a sequence of methods that is not
  empty (`SelectionSound` and `ConversionsKeepPlan`, below), and a failed engine removes
  the first only while others are left. Hence no step takes the head of an empty plan.

### The LPP exchange

`LppHandlerProofs` proves, for any flows, UEs and failures, from `FlowsAssumption` and
`LppAssumption`:

| Theorem | Statement |
|---|---|
| `LppTypes` | `Spec => []TypeOK` |
| `LppOwnUe` | `Spec => []OwnUe` |
| `LppMissesNoArmed` | `Spec => []ArmedExchangesMissNothing` |
| `LppCleansUp` | `Spec => []SubscriptionsCleanedUp` |

Two lemmas about the registry carry them: `RegisterListens`, and `DeliverReaches` (a
message reaches the channels of those that listen for its UE, no other, and none that
listens stays without it). `ArmedInv` adds, for each exchange that registers before it
sends, that between the two and until the wait ends the flow listens, has its message,
or lost the connection it listened on. `SubscribedInv` follows the AMF's subscription
ids: each is held by a flow that still has to remove it, or one of that flow's calls
failed.

### The cell geometry store

`StoresProofs` proves, for any cells, slots, workers, times to live and
faults, from `CellGeometryAssumption`:

| Theorem | Statement |
|---|---|
| `StoreInvariance` | `Spec => []KInv` |
| `StoreTypes` | `Spec => []TypeOK` |
| `BatchComplete` | `Spec => []NothingDropped` |
| `StoreFresh` | `Spec => []FInv` |
| `OverwritesSeen` | `Spec => []OverwriteSeen` |

`KInv` accounts for a batch: a cell that Redis held during the whole call was found,
or is still missing and stored, or its value was read. `FInv` is about versions. On a
cell whose stores overlapped no other call, both levels hold at least the acknowledged
version, a lookup under way has seen no acknowledgement since it began, and a store
under way has the newest version (`LevelFresh`, `LookupFresh`, `StoreNewest`).
`OverlapsNoted` is what makes the exception work: when a store and another call of its
cell are both under way, the cell is marked.

### The smaller stores

`StoresProofs` proves, for any handlers, failures, times to live and bounds:

| Theorem | Statement |
|---|---|
| `SubscriptionInvariance` | `Sub!Spec => []SubInv` |
| `SubscriptionsListed` | `Sub!Spec => []Listed` |
| `NothingReadBack` | `Sub!Spec => []Unreadable` |
| `GnssInvariance`, `GpsIsServed` | `Gnss!Spec => []GnssInv`; if `ClientsIncludeGps`, `Gnss!Spec => []GpsServed` |
| `AssistanceInvariance`, `ValidServed` | `Assist!Spec => []AssistInv`, `Assist!Spec => []ServedValid` |
| `TrackInvariance`, `TracksOwn` | `Track!Spec => []TrackInv`, `Track!Spec => []OwnTrack` |
| `StoresInvariance`, `StoresTypes` | `StoresSpec => []StoresInv`, `StoresSpec => []TypesOK` |

They assume `StoresAssumption`, the assumptions of each module. `GpsIsServed` has the
hypothesis `ClientsIncludeGps` besides. The `Stores` run evaluates both.

- Subscriptions: between its two writes a subscription is known to nobody but the one
  call that saves it (`Saving`). The index and the key count down together, as in the
  session manager. `Unreadable` is part of the invariant: what Save stored was encoded
  twice. So the finding of `SubscriptionStore_unsubscribe` is no accident of the
  instance: no Get and no Unsubscribe ever succeeds.
- gnss-engine: no list without GPS is ever in the cache, if every client that can be
  answered asks for GPS too. The code does not enforce this, so it is a hypothesis of the
  theorem; today's client meets it.
- assistance-data: what was cached at once is no older than its key, so it is valid as
  long as the key lives, because the key's time to live is not longer than the validity.
- Filters: a filter is exactly as old as its session has been quiet, and no older than
  the TTL and the time since the last cleanup (`Aged`); it lies between two estimates
  of its own session (`Among`).

### The registrar and the scheduler

`ServicesProofs` proves the first three, from `ServicesAssumption`; `EventSchedulerProofs`
the others, from `SchedulerAssumption`. The `Services` run evaluates both.

| Theorem | Statement |
|---|---|
| `RegistrarInvariance` | `Nrf!Spec => []NrfInv` |
| `SuspensionExplained` | `Nrf!Spec => []SuspendedOnlyAfterFailures` |
| `DeregistrationKept` | `Nrf!Spec => []DeregistrationLasts` |
| `SchedulerInvariance` | `Spec => []SchedInv` |
| `TriggersAreExact` | if `OwnSubscriber`, `Spec => []TriggersExact` |

- The registrar, for every patience of the NRF and every number of lost or late
  requests, deaths and restarts: the NRF's count of periods is at most the gateway's count of
  failed heartbeats, plus one while a heartbeat is under way whose PUT was not
  processed (`Counted`). A late DELETE of a predecessor only removes the entry, which
  suspends nothing, and the next heartbeat puts it back. For the deregistration,
  `Registering` and `Stopping` follow the shutdown: the heartbeats are cancelled before
  the DELETE leaves. `Deleted` then has that after a DELETE that no PUT crossed no PUT
  is on its way.
- The scheduler, for every list of subscriptions, area and movement: where a
  subscription compares positions, the position kept for its SUPI is the one it saw
  itself (`SawLast`). This holds only if such a subscription shares its subscriber with
  no other (`OwnSubscriber`), which nothing in the code sees to and is therefore a
  hypothesis of the theorem, evaluated by the run; the event types that do not compare may
  share (`TriggeredAlike`). See
  [Known divergences](#known-divergences) for what happens otherwise.

### All services together

`MCServices` runs one of its machines in a behaviour, so what is proved of each must
still hold beside the others. `ServicesInvariance` proves the conjunction of their
invariants for `ServicesSpec`, with two instances of the scheduler (`ApartP` and
`MixedP` instantiate its proofs as the run instantiates the module). From it follow
`ServicesTypes` (`TypesOK` of every machine), `NotifiedExactly` (`TriggersExact`) and
`ServicesSafe` (`AllowedByPolicy`, `AuditTruthful`, `FailsOnlyWhenHit`,
`SuspendedOnlyAfterFailures` and `DeregistrationLasts`). The assumptions are those of
the parts and, for `NotifiedExactly`, `ApartAssumption`: in both lists of
subscriptions those that compare positions have a subscriber of their own.

### The method selection

| Theorem | Statement |
|---|---|
| `SelectionSound` | for every set of capabilities, accuracy, response time and place, the plan is sound |
| `ConversionsKeepPlan` | `Select` is `Plan` of the capabilities that are known, or else assumed, with a tolerant response time |
| `WirePlanSound`, `PlanIsSound` | the plan at the end of a request's conversions is sound; `Spec => []PlanSound` |

The first two are in `MethodSelectorProofs`, the others in `AlgorithmsProofs`. The code
builds its lists by filtering a preference order. `Preferred` says which element is
where in the result by its rank among the elements kept, and three lemmas
(`PreferredFacts`, `PreferredAll`, `PreferredLength`) give what is needed of it: it
repeats nothing, contains what is kept and nothing else, and filtering by everything
changes nothing. The rest is a case analysis of the selection tree, in which the
accuracy is any value at all: whatever the comparisons say, one branch is taken, and
each is sound.

### The geofence and the GPS clock

| Theorem | Statement |
|---|---|
| `RayCasting` | for every triangle and point with integer coordinates: a point strictly on one side of all edges is found inside, one strictly on different sides of two edges outside |
| `CutExact` | a point is in a quadrilateral iff it is in exactly one of the triangles that a diagonal cuts it into |
| `AreaIsExact` | `Spec => []AreaExact`, for a grid of every size |
| `WeekWrap` | for every moment since the GPS epoch and every age of an ephemeris, `SinceReference` is the time that passed |
| `WeekWrapIsExact` | `Spec => []WeekWrapExact` |

Ray casting compares products of differences. `Signs` and `SidesAgree` give the solver
the little it needs of nonlinear arithmetic: the signs of three products whose sum is
zero. An edge is crossed in both directions or in none (`CrossesBothWays`), so the
diagonal cancels out of the exclusive or that the loop computes. The loops of the week
crossover are a recursive function on the integers; `CrossoverStep` shows that the
definition has a solution and that it is this one.

### The fusion, the engines and the satellites

| Theorem | Statement |
|---|---|
| `FusedAsAccurate` | if one estimate with a known precision is as accurate as asked for, so is the fused one |
| `FusionIsSound` | `Spec => []FusionSound` |
| `FusionOrderFree`, `TdoaOrderFree`, `RttOrderFree`, `EcidOrderFree` | reordering the estimates or the measurements changes neither the result nor the error |
| `OrderIsFree` | `Spec => []OrderFree` |
| `FixMatched` | whatever the ephemerides and the signals, as long as no signal comes twice, there is a fix exactly when four signals have an ephemeris and the equations have a solution, and it uses each of them once with its own |
| `SatellitesAreMatched` | `Spec => []SatellitesMatched` |

They hold for lists of every length and any integer coordinates: `InputsAssumption` only
says that the bounds are natural numbers and that there are finitely many cells. The
precisions of estimates stay those of `Sigmas` (not set, below, at and above three times
the others), and the distances of E-CID those of `Distances`, so that the weights are
whole numbers.

- Sums. The sum over a list is a recursive function (`Total`). `Induction` comes from
  the least counterexample of a set of natural numbers, which `WFMin` of the library
  gives. It yields that the sum exists and is the only solution (`AddsExists`), is at
  least each summand (`TotalAtLeast`), and is the same in every order
  (`TotalPermuted`).
- The fusion. `MedianHalf` says how many precisions are on either side of the median,
  from which `KeptIs` derives that the most precise estimates and a majority stay; the
  weight of each that stays is at most the sum, so the variance only shrinks.
- The engines. They see the measurements through counts of usable indexes, sums over
  them and the set of references, and a permutation changes none of the three
  (`CountPermuted`, `UsableReordered`).
- The satellites. `SvIDNames`: the id made from a name on one side equals the id made
  from another name on the other side exactly if both names stand for one
  constellation. Then the ephemeris that the map keeps for a signal is its own
  (`SatellitesAre`). `FetchAssisted`: what the provider generates is nothing, or starts
  with six different satellites, so the adapter's first six measurements differ.

### What is only model-checked

- Liveness: `FlowsReturn`, `RequestsAnswered`, `SessionsVanish`, `HeartbeatRestores`,
  `Recovers`. The prover does not reach fairness.
- `SolversExact` and `Stage2Keeps`, on every geometry within bounds: Gaussian
  elimination, cofactors and Chan's second stage in reduced fractions are polynomial
  identities of high degree over a recursive greatest common divisor, which the
  provers' arithmetic does not reach.

## Findings

Four runs state what a comment or a test says and show that the code does otherwise.

- `SessionManager_deleted`: `UpdateSessionStatus` "atomically updates the status"
  (`session_store.go:65`), yet reads and writes in two round trips. A `DeleteSession`
  between them is undone, and the session lives for another TTL.
- `LppHandler_missed`: registration "MUST be called before SubscribeN1N2/SendLPP"
  (`callbackregistry.go:31`). The location flow subscribes first and registers for the
  RequestAssistanceData and the Acknowledgement later (`lpp_handler.go:184`); what the
  UE sends in between is published to nobody.
- `SubscriptionStore_unsubscribe`: "Unsubscribe deletes an existing event
  subscription" (`event_server.go:49`). `Save` encodes to JSON and `SetJSON` encodes
  again (`subscription_store.go:39`), so the read that `Delete` starts with fails.
- `TdoaEngine_stage1`: the first stage linearises the hyperbolic equations
  (`tdoa_solver.go:188`) with `+ d^2` (`:228`), where range differences of the RSTD's
  sign need `- d^2`. The true position does not solve the system, although the test
  expects it "to within 50 m" (`tdoa_solver_test.go:14`).

## Known divergences

Behaviour of the code that the models contain, that no property forbids, and that a
reader of the documentation may not expect.

Sessions and requests
- The active-sessions gauge rises with every create and falls with updates to
  COMPLETED, FAILED or CANCELLED, not with deletes and expiry
  (`session_server.go:200`), so it drifts upwards. `mapPbSessionStatus` has no case for
  CANCELLED: that branch is never taken.
- `session_adapter.go:64` sends COMPUTING for COMPLETED, and FAILED becomes
  UNSPECIFIED, which session-manager stores as INIT: no session of the orchestrator
  is ever stored as completed or failed.
- A lookup by SUPI follows one member of the index. When that session died, the
  answer is "not found", also while another session of the SUPI lives.
- When SADD is executed and EXPIRE is not, a new index key has no TTL and stays
  (`SessionsVanish` excepts it).

Method selection
- A low-delay request falls back to methods estimated above the class's second.
- selector_server replaces the response time of every request by DELAY_TOLERANT
  (`selector_server.go:99`); the no-delay and low-delay branches are reachable only
  inside the selector.
- An accepted request may have no SUPI: the gateway takes a PEI or a GPSI instead
  (`location_handler.go:40`), nothing translates them, and every later step works on
  the empty SUPI.
- The gateway's client maps DELAY_TOLERANT and sends every other class as LOW_DELAY;
  location-request drops the quality of service and the client type of the message.
- The selector's client says that an unknown method becomes CellID; it becomes the
  empty method, which runs the E-CID engine.
- Fallbacks are neither sorted by accuracy nor all supported: DL-TDOA follows WLAN, and
  Multi-RTT follows DL-TDOA, whether or not the UE has them.
- NRPPa measurements are requested for the selected method only; a fallback to TDOA or
  RTT runs its engine without.

LPP
- The flows of a UE share a Pub/Sub channel and a message does not name its flow. A
  flow may take an earlier message, or the answer to another flow of the same UE, for
  its own measurement (`lpp_handler.go:247`).
- The goroutine of a wait that ended without its message stays, and with it its Redis
  connection, until something is published for the SUPI or the connection breaks. Its
  comment says "ctx cancelled or connection closed" (`callbackregistry.go:49`), but
  `ReceiveMessage` of go-redis reads without a deadline, and the end of the context does
  not wake it (`:47`).
- A Redis connection that breaks ends the listening of its wait for good: nothing
  subscribes again, and the flow waits for its time limit while the answer is published
  to nobody.

Gateway and processes
- An accepted subscription (201) never reaches event-manager; Cancel and Unsubscribe
  answer without a call, and GetSessionStatus always says PROCESSING. The answer to a
  located request always says REQUESTED_FULFILLED.
- "Calls will wait until ready" (`sbi-gateway/internal/grpcclient/clients.go:29`) does
  not hold: no client asks for `WaitForReady`. After a failed connection gRPC waits up
  to 120 seconds before it tries again, and meanwhile each call fails at once with
  Unavailable, also when the callee serves again (`backoff` of `ServiceFleet`).
- The gateway serves from before its registration, and a service accepts calls a little
  before it listens to SIGTERM: a stop in that window kills it at once, without
  deregistration.
- `Shutdown` of the gateway does not wait for HTTP/2 requests without TLS
  (`sbi-gateway/main.go:156`), and closes the listener that the UE's answers of the
  requests it does wait for come through.
- The LPP session may take 60 seconds and the cluster waits 30: a protocol-handler
  stopped during one is killed and leaves its AMF subscription.
- session-manager, assistance-data, event-manager (Redis) and privacy-auth (Cassandra)
  exit when their store is down at the start; the others that use one warn and go on.
- event-manager, privacy-auth, assistance-data, fusion-engine, qos-manager and the TDOA,
  RTT and E-CID engines register no service at their gRPC servers.

Events, privacy, NRF
- The last position is kept per SUPI, not per subscription: of two subscriptions of
  one subscriber the first evaluated consumes the crossing (`event_scheduler.go:117`).
- `sendNotification` logs and returns true (`privacy_checker.go:186`): class B is
  allowed, and class C waits, as if the UE had been told.
- Consent of class C is never heard: `waitForConsent` listens to nobody, so each such
  request is denied when the limit passes (`privacy_checker.go:204`).
- Requests denied for their token, and requests that end in an error, have no audit
  record.
- If the NRF is down when the gateway starts, no heartbeat loop is started and nothing
  registers it later (`registrar.go:141`).
- A heartbeat's PUT under way during shutdown may be processed after the DELETE and
  register the stopped gateway again; the NRF then suspends it for want of heartbeats.
- The instance id comes from the configuration (`sbi-gateway/main.go:214`). A late DELETE
  of a stopped gateway deletes the entry of its successor until its next heartbeat, and
  replicas would share one entry.

Caches
- On a Redis cluster an MGET of cells in several hash slots is refused (CROSSSLOT),
  and the whole batch fails (`cell_geometry_store.go:118`).
- A lookup that read Redis before a `StoreCell` may put the old geometry into L1 after
  it, where it stays for the life of the entry (`cell_geometry_store.go:189`).
- gnss-engine caches ephemerides under one key, whatever constellations were asked
  for: the list made for a narrow request is served to every later one.
- assistance-data encodes the Klobuchar model twice, as event-manager does its
  subscriptions, so the cached model is never read back.

Numerics
- `toProtoEphemerides` drops `DeltaN`, `IDOT`, `OmegaDot` and the harmonics, and the time
  until which the ephemerides are valid is always 0.
- Unknown constellation names are taken for GPS (`convert.go:140`).
- `toProtoPosition` of gnss-engine puts metres into fields that its client reads as
  degrees; its HDOP is computed from x and y of the Earth-centred frame.
- An iteration of the GNSS solver that did not converge is answered like one that did,
  and a covariance that cannot be computed becomes the identity.
- Stage 2's determinant is compared with 1e-20: beyond some 130 km from the reference
  the inverse weights make every system look singular.
- The dilutions of precision of a degenerate geometry, 99.9 (tdoa) and 10 (qos), are
  below those of some geometries that are not.
- The altitude of E-CID is that of the first measured cell, whatever the order.
- When the second stage of Chan's algorithm is degenerate, the code returns the signed
  root of the first stage's result, where the comment says "Fall back to Stage-1 result"
  (`tdoa_solver.go:264`).
- A precision of 0 counts as perfect for qos-manager and as one metre for the fusion.
- The fused estimate carries the timestamp of the first estimate kept.
- Multi-RTT accepts three measurements of two distinct cells. rtt-engine's server
  passes no geometry, so each of its answers is an error, and ecid-engine's passes a
  zero serving cell, so each of its positions is at the origin of the coordinates.
- The E-CID centroid may claim less precision than the answer for the bare cell.
- The Kalman filter's velocities never leave 0, because no term of its covariance links
  them to positions.
- The GNSS adapter never reads the stored measurements
  (`gnss_engine_adapter.go:70`, a TODO).

## Not modelled

- Accuracy: orbits, atmospheric delays, rounding, convergence, coordinates on the
  ellipsoid, the covariances and error ellipses of the solvers. The systems the solvers
  solve are modelled in exact arithmetic, where their thresholds for "near-singular"
  become zero.
- NRPPa: the handler keeps no state and its PDUs are placeholders. The orchestrator's
  use of it is in `LocationOrchestrator`.
- Kafka: no service creates a producer or consumer.
- The token middleware of sbi-gateway: it is on no route. The layout of HTTP bodies,
  and the handlers that answer without a call.
- Processes: replicas (those of the gateway would share an NRF entry), errors in the
  configuration, metrics servers, rolling updates; a call to a process that is
  starting waits and is not a step.
- Configuration, logs and metrics, generated code and manifests.
- In the modelled components: names, wording and payloads; signatures of tokens (a
  token is one of the validator's verdicts); distances in metres (the scheduler uses
  grid distances); altitudes, confidence and covariance of the fusion; functions
  without a caller (`GetBySupi` of the subscriptions, `SetReferenceLocation`,
  `SelectFallbackMethod`).

## Plan

Order of the work, the most important behaviour first. Done: 1 to 6 and 8, with the
theorems described under [Proofs](#proofs).

1. `SessionManager` with its proofs: every request depends on it.
2. `CallbackRegistry` and `LppHandler`: the exchange with the UE, where ordering and
   time limits bite.
3. `LocationService`, and `LocationOrchestrator` composing 1 and the selector,
   refined to it.
4. The stores and services with state of their own: `SubscriptionStore`,
   `EventScheduler`, `NrfRegistrar`, `PrivacyAuth`, `CellGeometryStore`,
   `GnssAssistance`, `AssistanceData`, `KalmanTracker`.
5. The stateless computations: `MethodSelector`, `Geofence`, `Fusion`,
   `QosEvaluator`, `PositionEngines`, `LinearAlgebra`, `ChanSolver`, `GnssSolver`.
6. The whole deployment around one request: `SbiGateway`, `ServiceFleet`.
7. Wider models: `LocationOrchestrator` over the detailed `LppHandler` instead of its
   abstraction; an abstract session registry that `SessionManager` refines when no
   update races a delete; an abstract cell map for `CellGeometryStore`; two
   subscriptions of one subscriber in `EventScheduler` with the hidden crossing made
   explicit; the QoS evaluation after the engines.
8. Theorems: types and safety of every component with state, the refinement of
   `LocationService`, and the computations for inputs of every size, except the
   solvers.
9. The solvers: a theory of fractions (reduction keeps the value, equality of reduced
   fractions is equality of values), on which Cramer's rule for two and three
   unknowns could be proved before elimination is.

Modules that are to have theorems declare no RECURSIVE operator, name their
assumptions on constants, and state invariants as conjunctions of named parts.

## Running it

Each run is `tlc -config <cfg> <module>` with the pairs listed under `runs` in
`PROJECT.json`; the proofs are `tlapm` on each of the eight `*Proofs.tla`. All runs
finish in under three minutes each with two workers.
