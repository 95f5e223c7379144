------------------------ MODULE LocationOrchestrator ------------------------
(***************************************************************************)
(* The location-request service (MS-02): LocationServer.DetermineLocation  *)
(* and the nine steps of the orchestrator, one request per handler, with   *)
(* the adapters that call the other services.  The session manager is the  *)
(* detailed one of SessionManager: its handlers run on while the           *)
(* orchestrator gives up on a call.  The exchange with the UE is           *)
(* abstracted to its result; LppHandler is the detailed one.  The fusion   *)
(* step is left out: runEngines returns one estimate, never several.  The  *)
(* QoS evaluation is left out: its result is only logged.                  *)
(***************************************************************************)
EXTENDS Integers, FiniteSets, MethodSelector

CONSTANTS
    Requests,
    SupiOf,          \* the subscriber each request is for
    CapSets,         \* what the UEs may report to support
    Unreliable,      \* engines that may fail
    NetFaults,       \* whether a call may break after it was sent
    NoWorker,
    Sessions, Supis, NoSupi, NoSession, Workers, UpdateStatuses, TTL, Faults,
    MaxRequests      \* of the session manager, see there

Engines == {"gnss", "tdoa", "ecid", "rtt"}

ASSUME OrchestratorAssumption ==
    /\ SupiOf \in [Requests -> Supis]
    /\ CapSets \subseteq SUBSET Capabilities
    /\ Unreliable \subseteq Engines
    /\ NetFaults \in BOOLEAN
    /\ NoWorker \notin Workers

VARIABLES
    pc,          \* the step each request is at
    cancelled,   \* requests whose caller gave up
    rpc,         \* the session-manager handler that serves the request's call
    sid,         \* the session id the request got
    plan,        \* methods to attempt, in order; the head is the current one
    allowed,     \* history: requests the privacy check let pass
    lppDone,     \* history: requests whose LPP exchange succeeded
    nrppaSent,   \* history: requests for which the gNB was asked to measure
    engine,      \* engine that computed the estimate
    outcome,     \* what DetermineLocation returns
    broke,       \* history: requests with a session call that failed or was given up
    sess, sessTtl, index, indexTtl, call, requests, owner, issued, deleted, torn

SM == INSTANCE SessionManager

ASSUME SessionManagerAssumption == SM!ConstantsAssumption

smVars == <<sess, sessTtl, index, indexTtl, call, requests, owner, issued, deleted, torn>>
orchVars == <<pc, cancelled, rpc, sid, plan, allowed, lppDone, nrppaSent, engine, outcome, broke>>
vars == <<orchVars, smVars>>

CtxSteps == {"privacy", "create", "caps", "select", "lpp", "nrppa", "engine"}
Steps == {"idle", "done", "update", "delete"} \cup CtxSteps
Outcomes == {"none", "denied", "failed", "located"}

TypeOK ==
    /\ pc \in [Requests -> Steps]
    /\ cancelled \in SUBSET Requests
    /\ rpc \in [Requests -> Workers \cup {NoWorker}]
    /\ sid \in [Requests -> Sessions \cup {NoSession}]
    /\ \A r \in Requests : plan[r] \in Seq(Methods)
    /\ allowed \in SUBSET Requests
    /\ lppDone \in SUBSET Requests
    /\ nrppaSent \in SUBSET Requests
    /\ engine \in [Requests -> Engines \cup {"none"}]
    /\ outcome \in [Requests -> Outcomes]
    /\ broke \in SUBSET Requests
    /\ SM!TypeOK

Init ==
    /\ pc = [r \in Requests |-> "idle"]
    /\ cancelled = {}
    /\ rpc = [r \in Requests |-> NoWorker]
    /\ sid = [r \in Requests |-> NoSession]
    /\ plan = [r \in Requests |-> <<>>]
    /\ allowed = {}
    /\ lppDone = {}
    /\ nrppaSent = {}
    /\ engine = [r \in Requests |-> "none"]
    /\ outcome = [r \in Requests |-> "none"]
    /\ broke = {}
    /\ SM!Init

Active(r) == pc[r] \notin {"idle", "done"}
Goto(r, step) == pc' = [pc EXCEPT ![r] = step]

\* A fault: the session is deleted on one way out only.
ReturnOpen(r, res) ==
    /\ outcome' = [outcome EXCEPT ![r] = res]
    /\ Goto(r, IF sid[r] = NoSession \/ res = "failed" THEN "done" ELSE "delete")

\* DetermineLocation is about to return res; its deferred Delete runs first, once
\* there is a session.
Return(r, res) ==
    /\ outcome' = [outcome EXCEPT ![r] = res]
    /\ Goto(r, IF sid[r] = NoSession THEN "done" ELSE "delete")

On(r, step) == pc[r] = step /\ rpc[r] = NoWorker

-----------------------------------------------------------------------------
(* The caller, and the process.                                            *)

DetermineLocation(r) ==
    /\ On(r, "idle")
    /\ Goto(r, "privacy")
    /\ UNCHANGED <<cancelled, rpc, sid, plan, allowed, lppDone, nrppaSent, engine, outcome,
                   broke, smVars>>

Cancel(r) ==
    /\ pc[r] \in CtxSteps
    /\ r \notin cancelled
    /\ cancelled' = cancelled \cup {r}
    /\ UNCHANGED <<pc, rpc, sid, plan, allowed, lppDone, nrppaSent, engine, outcome, broke,
                   smVars>>

\* The process dies: no deferred call runs, its callers see their calls fail, and
\* what it sent to the session manager goes on.
Crash ==
    LET hit == {r \in Requests : Active(r)}
    IN  /\ NetFaults
        /\ hit # {}
        /\ pc' = [r \in Requests |-> IF r \in hit THEN "done" ELSE pc[r]]
        /\ rpc' = [r \in Requests |-> NoWorker]
        /\ outcome' = [r \in Requests |-> IF r \in hit THEN "failed" ELSE outcome[r]]
        /\ broke' = broke \cup hit
        /\ UNCHANGED <<cancelled, sid, plan, allowed, lppDone, nrppaSent, engine, smVars>>

-----------------------------------------------------------------------------
(* Calls to the session manager.                                           *)

Free(w) == \A r \in Requests : rpc[r] # w

\* mapSessionStatus of the adapter: Completed has become COMPUTING, and Failed
\* nothing at all.
MapSessionStatus(status) ==
    CASE status = "COMPLETED" -> "COMPUTING"
      [] status \in {"FAILED", "CANCELLED"} -> "UNSPECIFIED"
      [] OTHER -> status

\* The orchestrator is one of the clients of the session manager.
ASSUME ClientAssumption == MapSessionStatus("COMPLETED") \in UpdateStatuses

\* The request of the step reaches a handler of the session manager.
SendCall(r) ==
    /\ \E w \in Workers :
        /\ Free(w)
        /\ \/ /\ On(r, "create") /\ r \notin cancelled
              /\ \E s \in Sessions : SM!CreateSession(w, s, SupiOf[r])
           \/ /\ On(r, "update")
              /\ SM!UpdateSessionStatus(w, sid[r], MapSessionStatus("COMPLETED"))
           \/ On(r, "delete") /\ SM!DeleteSession(w, sid[r])
        /\ rpc' = [rpc EXCEPT ![r] = w]
    /\ UNCHANGED <<pc, cancelled, sid, plan, allowed, lppDone, nrppaSent, engine, outcome,
                   broke>>

\* The request goes on with what a call returned.  Only a Create that fails
\* matters; the results of UpdateStatus and Delete are ignored.
AfterCall(r, ok) ==
    /\ CASE pc[r] = "create" /\ ok -> Goto(r, "caps") /\ UNCHANGED outcome
         [] pc[r] = "create" /\ ~ok -> Return(r, "failed")
         [] pc[r] = "update" -> Return(r, "located")
         [] pc[r] = "delete" -> Goto(r, "done") /\ UNCHANGED outcome
    /\ broke' = IF ok THEN broke ELSE broke \cup {r}
    /\ UNCHANGED <<cancelled, plan, allowed, lppDone, nrppaSent, engine, smVars>>

CallReturns(r) ==
    /\ rpc[r] # NoWorker
    /\ call[rpc[r]].pc = "idle"
    /\ AfterCall(r, call[rpc[r]].res = "ok")
    /\ sid' = IF pc[r] = "create" /\ call[rpc[r]].res = "ok"
              THEN [sid EXCEPT ![r] = call[rpc[r]].sid] ELSE sid
    /\ rpc' = [rpc EXCEPT ![r] = NoWorker]

\* The call is given up, not stopped: the context of Create is done, or the
\* connection breaks.  Update and Delete have a context of their own.
CallBreaks(r) ==
    /\ pc[r] \in {"create", "update", "delete"}
    /\ NetFaults \/ (pc[r] = "create" /\ r \in cancelled)
    /\ AfterCall(r, FALSE)
    /\ rpc' = [rpc EXCEPT ![r] = NoWorker]
    /\ UNCHANGED sid

-----------------------------------------------------------------------------
(* The other steps.                                                        *)

CheckPrivacy(r) ==
    /\ On(r, "privacy")
    /\ \/ Goto(r, "create") /\ allowed' = allowed \cup {r} /\ UNCHANGED outcome
       \/ Return(r, "denied") /\ UNCHANGED allowed
       \/ NetFaults /\ Return(r, "failed") /\ UNCHANGED allowed
    /\ UNCHANGED <<cancelled, rpc, sid, plan, lppDone, nrppaSent, engine, broke, smVars>>

\* GetUECapabilities and SelectMethod.  Without capabilities the UE counts as one
\* that supports nothing, and the server assumes no QoS and no indoor hint.
SelectMethods(r) ==
    /\ On(r, "caps")
    /\ \E caps \in CapSets \cup {{}} :
        /\ r \in cancelled => caps = {}
        /\ plan' = [plan EXCEPT ![r] = Select(Input(caps, 0, "DelayTolerant", FALSE))]
    /\ Goto(r, "lpp")
    /\ UNCHANGED <<cancelled, rpc, sid, allowed, lppDone, nrppaSent, engine, outcome,
                   broke, smVars>>

SelectFails(r) ==
    /\ On(r, "caps")
    /\ NetFaults
    /\ Return(r, "failed")
    /\ UNCHANGED <<cancelled, rpc, sid, plan, allowed, lppDone, nrppaSent, engine, broke,
                   smVars>>

NetworkAssisted == {"DLTDOA", "OTDOA", "NREcid", "MultiRTT"}

\* Faults: a failed exchange is not noticed, or never ends.
TriggerLppAnyway(r) ==
    /\ On(r, "lpp")
    /\ lppDone' \in {lppDone, lppDone \cup {r}}
    /\ Goto(r, IF Head(plan[r]) \in NetworkAssisted THEN "nrppa" ELSE "engine")
    /\ UNCHANGED <<outcome, cancelled, rpc, sid, plan, allowed, nrppaSent, engine, broke, smVars>>

TriggerLppForever(r) ==
    /\ On(r, "lpp")
    /\ r \notin cancelled
    /\ lppDone' = lppDone \cup {r}
    /\ Goto(r, IF Head(plan[r]) \in NetworkAssisted THEN "nrppa" ELSE "engine")
    /\ UNCHANGED <<outcome, cancelled, rpc, sid, plan, allowed, nrppaSent, engine, broke, smVars>>

\* TriggerMeasurement: the LPP exchange must succeed, the NRPPa request of the
\* network-assisted methods need not.
TriggerLpp(r) ==
    /\ On(r, "lpp")
    /\ \/ /\ r \notin cancelled
          /\ lppDone' = lppDone \cup {r}
          /\ Goto(r, IF Head(plan[r]) \in NetworkAssisted THEN "nrppa" ELSE "engine")
          /\ UNCHANGED outcome
       \/ Return(r, "failed") /\ UNCHANGED lppDone
    /\ UNCHANGED <<cancelled, rpc, sid, plan, allowed, nrppaSent, engine, broke, smVars>>

SendNrppa(r) ==
    /\ On(r, "nrppa")
    /\ nrppaSent' = nrppaSent \cup {r}
    /\ Goto(r, "engine")
    /\ UNCHANGED <<cancelled, rpc, sid, plan, allowed, lppDone, engine, outcome, broke,
                   smVars>>

\* pickEngine: methods without an engine of their own use E-CID.
PickEngine(m) ==
    CASE m = "AGNSS" -> "gnss"
      [] m \in {"DLTDOA", "OTDOA"} -> "tdoa"
      [] m = "MultiRTT" -> "rtt"
      [] OTHER -> "ecid"

\* Only the GNSS engine is a call; the others are in the process.
EngineSucceeds(r) ==
    LET e == PickEngine(Head(plan[r]))
    IN  /\ On(r, "engine")
        /\ e = "gnss" => r \notin cancelled
        /\ engine' = [engine EXCEPT ![r] = e]
        /\ Goto(r, "update")
        /\ UNCHANGED <<cancelled, rpc, sid, plan, allowed, lppDone, nrppaSent, outcome,
                       broke, smVars>>

\* The next fallback is tried, and with none left the request fails.
EngineFails(r) ==
    LET e == PickEngine(Head(plan[r]))
    IN  /\ On(r, "engine")
        /\ e \in Unreliable \/ (e = "gnss" /\ r \in cancelled)
        /\ IF Len(plan[r]) > 1
           THEN plan' = [plan EXCEPT ![r] = Tail(@)] /\ UNCHANGED <<pc, outcome>>
           ELSE Return(r, "failed") /\ UNCHANGED plan
        /\ UNCHANGED <<cancelled, rpc, sid, allowed, lppDone, nrppaSent, engine, broke,
                       smVars>>

-----------------------------------------------------------------------------
Step(r) ==
    \/ SendCall(r) \/ CallReturns(r) \/ CallBreaks(r)
    \/ CheckPrivacy(r)
    \/ SelectMethods(r) \/ SelectFails(r)
    \/ TriggerLpp(r) \/ SendNrppa(r)
    \/ EngineSucceeds(r) \/ EngineFails(r)

SessionService == (SM!Tick \/ \E w \in Workers : SM!RoundTrip(w)) /\ UNCHANGED orchVars

Next ==
    \/ \E r \in Requests : DetermineLocation(r) \/ Cancel(r) \/ Step(r)
    \/ Crash
    \/ SessionService

Spec == Init /\ [][Next]_vars

\* Handlers run, every call returns or breaks, and Redis' clock runs.
FairSpec ==
    /\ Spec
    /\ \A r \in Requests : WF_vars(Step(r))
    /\ WF_vars(SM!Tick /\ UNCHANGED orchVars)
    /\ \A w \in Workers : WF_vars(SM!RoundTrip(w) /\ UNCHANGED orchVars)

-----------------------------------------------------------------------------
(* Properties.                                                             *)

\* The orchestrator keeps what LocationService promises: one answer, measurement
\* only with consent, a position only after a measurement, also when callers
\* cancel, calls break and the process dies.
Service ==
    INSTANCE LocationService WITH
        answer <- [r \in Requests |-> CASE pc[r] = "idle" -> "idle"
                                       [] pc[r] = "done" -> outcome[r]
                                       [] OTHER -> "pending"],
        consent <- allowed,
        measured <- lppDone

ImplementsService == Service!Spec

\* A request that has returned leaves no session behind, whichever way it ended,
\* unless one of its session calls failed or was given up.
SessionClosed ==
    \A r \in Requests \ broke : pc[r] = "done" /\ sid[r] # NoSession => ~SM!Live(sid[r])

\* Every session is used by the request it was created for, and for that
\* request's subscriber, whatever calls were given up and their handlers reused.
OwnSession ==
    \A r \in Requests : sid[r] # NoSession =>
        /\ owner[sid[r]] = SupiOf[r]
        /\ \A q \in Requests : sid[q] = sid[r] => q = r

\* Every accepted request is answered, also when calls break under it.
RequestsAnswered == \A r \in Requests : Active(r) ~> pc[r] = "done"

\* No session outlives the requests for ever: what cancelled calls, failed commands
\* and crashes leave behind, the TTLs remove.  Of the index only an entry whose SADD
\* was executed without its EXPIRE stays.
SessionsVanish ==
    <>[](/\ \A s \in Sessions : ~SM!Live(s)
         /\ \A u \in Supis : indexTtl[u] \in {0, SM!Forever})
=============================================================================
