---------------------------- MODULE ServiceFleet ----------------------------
(***************************************************************************)
(* The processes of the deployment and one location request on its way     *)
(* through them: how each main starts, serves and shuts down, how the      *)
(* cluster stops, kills and restarts it, and what that does to a request   *)
(* in flight.  The request is the one of LocationOrchestrator, LppHandler  *)
(* and SbiGateway with what decides whether a service is there to take it. *)
(***************************************************************************)
EXTENDS Naturals, Sequences, FiniteSets

CONSTANTS
    Disturbed,     \* the processes that may be stopped and killed
    MaxStops,      \* bound on the pods that are stopped
    MaxKills,      \* bound on the processes that die
    MaxOutages     \* bound on the stores that go down

-----------------------------------------------------------------------------
(* The programs: what main does, in order.  A "fatal" step ends the        *)
(* process when its store is down; a "ping" only warns.  From "serve" on   *)
(* calls are accepted, and until "notify" SIGTERM kills the process.       *)

Fatal == [redis |-> "redis", cassandra |-> "cassandra"]
Drain == <<"notify", "quit", "GracefulStop">>
GrpcMain == <<"serve">> \o Drain
RedisMain == <<"redis">> \o GrpcMain
PingMain == <<"ping">> \o GrpcMain

SbiGatewayMain == <<"ping", "serve", "Register", "notify", "quit", "Deregister", "Shutdown">>
LocationRequestMain == GrpcMain
SessionManagerMain == RedisMain
ProtocolHandlerMain == PingMain
MethodSelectorMain == GrpcMain
GnssEngineMain == PingMain
TdoaEngineMain == PingMain
EcidEngineMain == GrpcMain
RttEngineMain == GrpcMain
FusionEngineMain == GrpcMain
QosManagerMain == GrpcMain
PrivacyAuthMain == <<"cassandra">> \o GrpcMain
AssistanceDataMain == RedisMain
EventManagerMain == RedisMain

Program ==
    [gateway |-> SbiGatewayMain, location |-> LocationRequestMain,
     session |-> SessionManagerMain, selector |-> MethodSelectorMain,
     protocol |-> ProtocolHandlerMain, gnss |-> GnssEngineMain, tdoa |-> TdoaEngineMain,
     ecid |-> EcidEngineMain, rtt |-> RttEngineMain, fusion |-> FusionEngineMain,
     qos |-> QosManagerMain, privacy |-> PrivacyAuthMain,
     assistance |-> AssistanceDataMain, events |-> EventManagerMain]

Services == DOMAIN Program
Stores == {"redis", "cassandra"}

\* Where a program has a step.
Position(stepName) ==
    [s \in Services |-> CHOOSE k \in DOMAIN Program[s] : Program[s][k] = stepName]
ServeAt == Position("serve")
NotifyAt == Position("notify")
QuitAt == Position("quit")

\* Who calls a service for the request, over the one connection it has to it.
Caller == [location |-> "gateway", session |-> "location", selector |-> "location",
           protocol |-> "location", gnss |-> "location"]
Callees == DOMAIN Caller

ASSUME FleetAssumption ==
    /\ Disturbed \subseteq Services
    /\ MaxStops \in Nat /\ MaxKills \in Nat /\ MaxOutages \in Nat

VARIABLES
    at,         \* the step of its program each process is at; 0: it does not run
    stores,     \* the stores that are up
    backoff,    \* the callees whose connection is to be tried again later
    step,       \* the step of the request
    h2,         \* whether it came over HTTP/2 without TLS
    ue,         \* whether the UE answers
    status,     \* what the consumer gets: an HTTP status, 0: nothing yet, 1: cut off
    stops, kills, outages,
    excused     \* history: the request met something that may cost it its result

vars == <<at, stores, backoff, step, h2, ue, status, stops, kills, outages, excused>>

Steps == {"none", "forward", "create", "caps", "capsWait", "select", "lpp", "lppWait",
          "lppLost", "nrppa", "engine", "close", "failing", "answer", "error", "done"}

TypeOK ==
    /\ \A s \in Services : at[s] \in 0 .. Len(Program[s])
    /\ stores \subseteq Stores
    /\ backoff \subseteq Callees
    /\ step \in Steps
    /\ h2 \in BOOLEAN
    /\ ue \in {"answers", "silent"}
    /\ status \in {0, 1, 200, 500}
    /\ stops \in 0 .. MaxStops /\ kills \in 0 .. MaxKills /\ outages \in 0 .. MaxOutages
    /\ excused \in BOOLEAN

\* The step a process is at; "down" when it does not run.
Now(s) == IF at[s] = 0 THEN "down" ELSE Program[s][at[s]]
Closing == {"GracefulStop", "Shutdown"}

\* New calls are accepted: the listener is open, also while the gateway deregisters.
Serving(s) == at[s] > ServeAt[s] /\ Now(s) \notin Closing
Redis == "redis" \in stores

\* A call waits for a first attempt to connect, but not for the next one: after a
\* refused attempt the calls of that caller fail at once, until one succeeds.
Reaches(s) == Serving(s) /\ s \notin backoff

Init ==
    /\ at = QuitAt
    /\ stores = Stores
    /\ backoff = {}
    /\ step = "none"
    /\ h2 \in BOOLEAN
    /\ ue \in {"answers", "silent"}
    /\ status = 0
    /\ stops = 0 /\ kills = 0 /\ outages = 0
    /\ excused = FALSE

-----------------------------------------------------------------------------
(* Which services the request depends on, by its step.                     *)

Active == step \notin {"none", "done"}
AtLocation == step \in {"create", "caps", "capsWait", "select", "lpp", "lppWait", "lppLost",
                        "nrppa", "engine", "close", "failing"}
Waiting == step \in {"capsWait", "lppWait", "lppLost"}

\* The processes in which a handler of the request runs.
Handlers ==
    {s \in {"gateway"} : Active} \cup {s \in {"location"} : AtLocation}
        \cup {s \in {"protocol"} : Waiting}

\* The shutdown of the process waits for the request; that of the HTTP server does
\* not know of requests whose connection became an HTTP/2 one.
Awaited(s) == s \in Handlers /\ (s = "gateway" => ~h2)

\* The result of the request depends on no call that failed before, and on these
\* services and stores to come: the capabilities, NRPPa, the engine, the update
\* and the removal of the session are none of them, the way of the UE's answer is.
ToCall ==
    CASE step = "forward" -> {"gateway", "location", "session", "selector", "protocol"}
      [] step = "create" -> {"gateway", "session", "selector", "protocol"}
      [] step \in {"caps", "capsWait", "select"} -> {"gateway", "selector", "protocol"}
      [] step = "lpp" -> {"gateway", "protocol"}
      [] step = "lppWait" -> {"gateway"}
      [] OTHER -> {}

\* Something the request cannot do without is not there.
Excused ==
    \/ \E s \in ToCall : ~Serving(s) \/ s \in backoff
    \/ step \in {"create", "lpp", "lppWait"} /\ ~Redis
    \/ Active /\ h2 /\ Now("gateway") \in Closing
    \/ Active /\ ue = "silent"

-----------------------------------------------------------------------------
(* The processes.                                                          *)

Goes(s, k) == at' = [at EXCEPT ![s] = k]
NoteExcuse == excused' = (excused \/ Excused')

\* The process ends, and its connections: its handlers do, and their callers see the
\* calls fail.  The capabilities are done without.
Ends(s) ==
    /\ Goes(s, 0)
    /\ backoff' = {c \in backoff : Caller[c] # s}
    /\ step' = CASE s = "gateway" /\ Active -> "done"
                 [] s = "location" /\ AtLocation -> "error"
                 [] s = "protocol" /\ step = "capsWait" -> "select"
                 [] s = "protocol" /\ step \in {"lppWait", "lppLost"} -> "failing"
                 [] OTHER -> step
    /\ status' = IF s = "gateway" /\ Active THEN 1 ELSE status
    /\ UNCHANGED <<stores, h2, ue>>

EndsUnderway(s) == Ends(s) /\ excused' = (excused \/ s \in Handlers \/ Excused')

\* The cluster starts the container, again and again.
StartContainer(s) ==
    /\ Now(s) = "down"
    /\ Goes(s, 1)
    /\ UNCHANGED <<stores, backoff, step, h2, ue, status, stops, kills, outages>>
    /\ NoteExcuse

\* main goes on; it exits where a store it needs is down.
MainStep(s) ==
    /\ Now(s) \notin {"down", "quit"} \cup Closing
    /\ LET lacks == Now(s) \in DOMAIN Fatal /\ Fatal[Now(s)] \notin stores
       IN  Goes(s, IF lacks THEN 0 ELSE at[s] + 1)
    /\ UNCHANGED <<stores, backoff, step, h2, ue, status, stops, kills, outages>>
    /\ NoteExcuse

\* SIGTERM: before Notify the process is gone at once, with what it handles.
Sigterm(s) ==
    /\ stops < MaxStops
    /\ stops' = stops + 1
    /\ \/ /\ Now(s) = "quit"
          /\ Goes(s, at[s] + 1)
          /\ UNCHANGED <<stores, backoff, step, h2, ue, status>>
          /\ NoteExcuse
       \/ at[s] \in 1 .. NotifyAt[s] /\ EndsUnderway(s)
    /\ UNCHANGED <<kills, outages>>

\* A fault: Stop in place of GracefulStop.
StopReturnsAtOnce(s) ==
    /\ Now(s) \in Closing
    /\ Ends(s)
    /\ UNCHANGED <<stops, kills, outages>>
    /\ NoteExcuse

\* GracefulStop or Shutdown has nothing left to wait for, and main returns.
StopReturns(s) ==
    /\ Now(s) \in Closing
    /\ ~Awaited(s)
    /\ Ends(s)
    /\ UNCHANGED <<stops, kills, outages>>
    /\ NoteExcuse

\* The process is killed when its time to stop, 30 seconds, is over: only waiting
\* for the UE takes that long, and the wait for its capabilities alone does not.
GraceEnds(s) ==
    /\ Now(s) \in Closing
    /\ Awaited(s) /\ Waiting
    /\ s = "protocol" => step # "capsWait"
    /\ EndsUnderway(s)
    /\ UNCHANGED <<stops, kills, outages>>

Kill(s) ==
    /\ Now(s) # "down"
    /\ kills < MaxKills
    /\ kills' = kills + 1
    /\ EndsUnderway(s)
    /\ UNCHANGED <<stops, outages>>

\* Only stores that one of the disturbed processes needs.
StoreDown(x) ==
    /\ x \in stores
    /\ x = "redis" \/ "privacy" \in Disturbed
    /\ outages < MaxOutages
    /\ stores' = stores \ {x}
    /\ outages' = outages + 1
    /\ UNCHANGED <<at, backoff, step, h2, ue, status, stops, kills>>
    /\ NoteExcuse

StoreUp(x) ==
    /\ x \notin stores
    /\ stores' = stores \cup {x}
    /\ UNCHANGED <<at, backoff, step, h2, ue, status, stops, kills, outages>>
    /\ NoteExcuse

\* Another request's call finds nobody listening, or the gateway, which connects when
\* it starts.
ConnectFails(s) ==
    /\ Now(Caller[s]) # "down"
    /\ ~Serving(s)
    /\ s \notin backoff
    /\ backoff' = backoff \cup {s}
    /\ UNCHANGED <<at, stores, step, h2, ue, status, stops, kills, outages>>
    /\ NoteExcuse

\* The backoff is over, after 120 seconds at most, and the callee listens.
Reconnects(s) ==
    /\ s \in backoff
    /\ Serving(s)
    /\ backoff' = backoff \ {s}
    /\ UNCHANGED <<at, stores, step, h2, ue, status, stops, kills, outages>>
    /\ NoteExcuse

-----------------------------------------------------------------------------
(* The request.                                                            *)

Goto(from, to) ==
    /\ step = from
    /\ step' = to
    /\ UNCHANGED <<at, stores, h2, ue, status, stops, kills, outages>>
    /\ NoteExcuse

\* A call to s, which fails unless it reaches s and there is what s needs.
Call(from, s, ok, there, else) ==
    /\ backoff' = IF Serving(s) THEN backoff ELSE backoff \cup {s}
    /\ Goto(from, IF Reaches(s) /\ ok THEN there ELSE else)

Local(from, to) == UNCHANGED backoff /\ Goto(from, to)

Post == Serving("gateway") /\ Local("none", "forward")

Forward == Call("forward", "location", TRUE, "create", "error")
Create == Call("create", "session", Redis, "caps", "error")

\* Without the callback channel the handler answers with built-in capabilities, and
\* without an answer the orchestrator goes on with none.
GetCapabilities == Call("caps", "protocol", Redis, "capsWait", "select")
CapabilitiesReturn == Local("capsWait", "select")

Select == Call("select", "selector", TRUE, "lpp", "failing")
SendLpp == Call("lpp", "protocol", Redis, "lppWait", "failing")

\* The answer comes through the gateway, and Redis.  When the gateway shuts down it
\* still arrives if the AMF has an open connection.
UeAnswers ==
    /\ ue = "answers"
    /\ \/ Redis /\ Now("gateway") # "down" /\ Local("lppWait", "nrppa")
       \/ ~(Redis /\ Serving("gateway")) /\ Local("lppWait", "lppLost")

\* A fault: the wait for a UE that never answers has no limit.
LppTimesOutWhenLost == Local("lppLost", "failing")

LppTimesOut ==
    \/ Local("lppLost", "failing")
    \/ ue = "silent" /\ Local("lppWait", "failing")

SendNrppa == Call("nrppa", "protocol", TRUE, "engine", "engine")

\* runEngines: only the GNSS engine is another process, and the plan ends with
\* methods whose engine is in this one.
RunEngines == Call("engine", "gnss", TRUE, "close", "close")

\* UpdateStatus and Delete, whose errors are ignored.
Close ==
    \/ Call("close", "session", TRUE, "answer", "answer")
    \/ Call("failing", "session", TRUE, "error", "error")

Answer ==
    /\ step \in {"answer", "error"}
    /\ step' = "done"
    /\ status' = IF step = "answer" THEN 200 ELSE 500
    /\ UNCHANGED <<at, stores, backoff, h2, ue, stops, kills, outages, excused>>

RequestStep ==
    \/ Forward \/ Create \/ GetCapabilities \/ CapabilitiesReturn \/ Select \/ SendLpp
    \/ UeAnswers \/ LppTimesOut \/ SendNrppa \/ RunEngines \/ Close \/ Answer

Progress(s) == StartContainer(s) \/ MainStep(s) \/ StopReturns(s)

Next ==
    \/ Post \/ RequestStep
    \/ \E s \in Disturbed : Progress(s) \/ Sigterm(s) \/ GraceEnds(s) \/ Kill(s)
    \/ \E x \in Stores : StoreDown(x) \/ StoreUp(x)
    \/ \E s \in Callees : ConnectFails(s) \/ Reconnects(s)

SomeProgress == \E s \in Disturbed : Progress(s)
SomeStoreUp == \E x \in Stores : StoreUp(x)
SomeReconnect == \E s \in Callees : Reconnects(s)

\* Code runs, the cluster restarts what has exited, stores come back, and a backoff
\* ends.  One process is never served for ever before another: a process comes to its
\* "quit" or its end in a few steps, unless a store is down; nor one connection, which
\* is lost again only with a process.
Spec ==
    /\ Init /\ [][Next]_vars
    /\ WF_vars(RequestStep) /\ WF_vars(SomeProgress) /\ WF_vars(SomeStoreUp)
    /\ WF_vars(SomeReconnect)

-----------------------------------------------------------------------------
(* Properties.                                                             *)

\* A request is refused or cut off only when something it still needed was missing
\* or died under it, or its caller had not got back the connection that it lost when
\* that was missing.  What stops in order costs nothing to the requests it handles,
\* and neither the capabilities nor the engine nor anything a request has already
\* used, or never uses, costs it its result.
FailsOnlyWhenHit == status \in {1, 500} => excused

\* Whatever is stopped, killed or out of order for a while: the request is answered
\* or cut off, and in the end every process serves again and is reached.
Recovers == <>[](~Active /\ \A s \in Services : Serving(s) /\ s \notin backoff)
=============================================================================
