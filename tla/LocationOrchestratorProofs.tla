--------------------- MODULE LocationOrchestratorProofs ----------------------
(***************************************************************************)
(* Proofs about LocationOrchestrator, for every set of requests, UE        *)
(* reports, engines and failures.  What is proved of the session manager   *)
(* carries over: the orchestrator is one of its clients.                   *)
(***************************************************************************)
EXTENDS LocationOrchestrator, MethodSelectorProofs, TLAPS

SMP == INSTANCE SessionManagerProofs

USE OrchestratorAssumption

-----------------------------------------------------------------------------
(* The session manager, as the orchestrator runs it.                       *)

LEMMA SessionManagerConstants ==
    /\ NoSupi \notin Supis
    /\ SMP!Unborn \notin Supis \cup {NoSupi}
    /\ NoSession \notin Sessions
    /\ UpdateStatuses \subseteq SMP!PbStatus
    /\ TTL \in Nat \ {0}
    /\ Faults \subseteq SMP!FaultKinds
    /\ MaxRequests \in Nat
BY SessionManagerAssumption DEF SM!ConstantsAssumption, SM!Unborn, SMP!Unborn, SM!PbStatus,
   SMP!PbStatus, SM!Status, SMP!Status, SM!FaultKinds, SMP!FaultKinds

\* The proofs are about the session manager of the orchestrator: the two instances
\* of the module are one.
LEMMA SameInit == SM!Init <=> SMP!Init
BY DEF SM!Init, SMP!Init, SM!Blank, SMP!Blank, SM!Unborn, SMP!Unborn

LEMMA SameNext == SM!Next => SMP!Next
<1> USE DEF SM!redis, SMP!redis, SM!history, SMP!history, SM!Reply, SMP!Reply, SM!Goto, SMP!Goto,
       SM!Succeeds, SMP!Succeeds, SM!Forever, SMP!Forever, SM!Live, SMP!Live,
       SM!SupiIndexKey, SMP!SupiIndexKey
<1>1. SM!Tick => SMP!Tick
  BY DEF SM!Tick, SMP!Tick, SM!Left, SMP!Left, SM!Blank, SMP!Blank
<1>2. ASSUME NEW w \in Workers, SM!Request(w) PROVE SMP!Request(w)
  BY <1>2 DEF SM!Request, SMP!Request, SM!CreateSession, SMP!CreateSession, SM!GetSession,
     SMP!GetSession, SM!UpdateSessionStatus, SMP!UpdateSessionStatus, SM!DeleteSession,
     SMP!DeleteSession, SM!GetSessionBySupi, SMP!GetSessionBySupi, SM!Begin, SMP!Begin,
     SM!Addressable, SMP!Addressable, SM!MapPbSessionStatus, SMP!MapPbSessionStatus,
     SM!Status, SMP!Status, SM!Unborn, SMP!Unborn
<1>3. ASSUME NEW w \in Workers, SM!RoundTrip(w) PROVE SMP!RoundTrip(w)
  <2>1. SM!ReadFound(w) => SMP!ReadFound(w)
    BY DEF SM!ReadFound, SMP!ReadFound
  <2>2. SM!ReadMissing(w) \/ SM!ReadError(w) => SMP!ReadMissing(w) \/ SMP!ReadError(w)
    BY DEF SM!ReadMissing, SMP!ReadMissing, SM!ReadError, SMP!ReadError, SM!ReadFailed, SMP!ReadFailed
  <2>3. SM!WriteSession(w) => SMP!WriteSession(w)
    BY DEF SM!WriteSession, SMP!WriteSession, SM!SetJSON, SMP!SetJSON
  <2>4. SM!WriteSessionError(w) => SMP!WriteSessionError(w)
    BY DEF SM!WriteSessionError, SMP!WriteSessionError, SM!SetJSON, SMP!SetJSON
  <2>5. SM!WriteIndex(w) => SMP!WriteIndex(w)
    BY DEF SM!WriteIndex, SMP!WriteIndex, SM!SetAdd, SMP!SetAdd
  <2>6. SM!WriteIndexError(w) => SMP!WriteIndexError(w)
    BY DEF SM!WriteIndexError, SMP!WriteIndexError, SM!SetAdd, SMP!SetAdd
  <2>7. SM!RemoveFromIndex(w) => SMP!RemoveFromIndex(w)
    BY DEF SM!RemoveFromIndex, SMP!RemoveFromIndex, SM!SetRemove, SMP!SetRemove
  <2>8. SM!DeleteKey(w) \/ SM!DeleteKeyError(w) => SMP!DeleteKey(w) \/ SMP!DeleteKeyError(w)
    BY DEF SM!DeleteKey, SMP!DeleteKey, SM!DeleteKeyError, SMP!DeleteKeyError, SM!Delete,
       SMP!Delete, SM!Blank, SMP!Blank
  <2>9. SM!ReadMembers(w) => SMP!ReadMembers(w)
    BY DEF SM!ReadMembers, SMP!ReadMembers
  <2>10. QED BY <1>3, <2>1, <2>2, <2>3, <2>4, <2>5, <2>6, <2>7, <2>8, <2>9
         DEF SM!RoundTrip, SMP!RoundTrip
<1>4. QED BY <1>1, <1>2, <1>3 DEF SM!Next, SMP!Next

\* Every step of the orchestrator is a step of the session manager, or leaves it alone.
LEMMA SessionManagerSteps == SMP!IInv /\ [Next]_vars => [SM!Next]_SM!vars
<1> SUFFICES ASSUME SMP!IInv, [Next]_vars PROVE [SM!Next]_SM!vars
  OBVIOUS
<1>1. UNCHANGED smVars => UNCHANGED SM!vars
  BY DEF smVars, SM!vars, SM!redis, SM!history
<1>2. ASSUME NEW r \in Requests, SendCall(r) PROVE SM!Next
  <2>1. SupiOf[r] \in Supis
    OBVIOUS
  <2>2. PICK w \in Workers :
          \/ \E s \in Sessions : SM!CreateSession(w, s, SupiOf[r])
          \/ SM!UpdateSessionStatus(w, sid[r], MapSessionStatus("COMPLETED"))
          \/ SM!DeleteSession(w, sid[r])
    BY <1>2 DEF SendCall
  <2>3. issued \subseteq Sessions
    BY DEF SMP!IInv, SMP!TypeOK
  <2>4. SM!Request(w)
    BY <2>1, <2>2, <2>3, ClientAssumption
       DEF SM!Request, SM!UpdateSessionStatus, SM!DeleteSession, SM!Addressable
  <2>5. QED BY <2>4 DEF SM!Next
<1>3. ASSUME NEW r \in Requests, CallReturns(r) \/ CallBreaks(r) PROVE UNCHANGED smVars
  BY <1>3 DEF CallReturns, CallBreaks, AfterCall
<1>4. ASSUME NEW r \in Requests,
             \/ DetermineLocation(r) \/ Cancel(r) \/ CheckPrivacy(r) \/ SelectMethods(r)
             \/ SelectFails(r) \/ TriggerLpp(r) \/ SendNrppa(r) \/ EngineSucceeds(r)
             \/ EngineFails(r)
      PROVE  UNCHANGED smVars
  BY <1>4 DEF DetermineLocation, Cancel, CheckPrivacy, SelectMethods, SelectFails, TriggerLpp,
     SendNrppa, EngineSucceeds, EngineFails
<1>5. Crash => UNCHANGED smVars
  BY DEF Crash
<1>6. SessionService => SM!Next
  BY DEF SessionService, SM!Next
<1>7. UNCHANGED vars => UNCHANGED smVars
  BY DEF vars
<1>8. QED BY <1>1, <1>2, <1>3, <1>4, <1>5, <1>6, <1>7 DEF Next, Step

\* What SessionManagerProofs proves is about this session manager.
LEMMA SessionInit == Init => SMP!IInv
BY SameInit, SessionManagerConstants, SMP!InitInv DEF Init

LEMMA SessionNext == SMP!IInv /\ [Next]_vars => SMP!IInv'
<1> SUFFICES ASSUME SMP!IInv, [Next]_vars PROVE SMP!IInv'
  OBVIOUS
<1>1. [SM!Next]_SM!vars
  BY SessionManagerSteps
<1>2. [SMP!Next]_SMP!vars
  BY <1>1, SameNext DEF SM!vars, SMP!vars, SM!redis, SMP!redis, SM!history, SMP!history
<1>3. QED BY <1>2, SessionManagerConstants, SMP!NextInv

\* On the session manager that the orchestrator calls, calls and keys agree on whose
\* session an id is, and every live session is indexed or accounted for.
THEOREM SessionsOwned == Spec => []SMP!IInv
BY SessionInit, SessionNext, PTL DEF Spec

\* The orchestrator uses the session manager as its clients may: everything proved of the
\* session manager holds while the orchestrator runs on it.
THEOREM SessionManagerRuns == Spec => SM!Spec
<1>1. Init => SM!Init
  BY DEF Init
<1>2. QED BY <1>1, SessionManagerSteps, SessionsOwned, PTL DEF Spec, SM!Spec

-----------------------------------------------------------------------------
(* Types, except that of plan: see below.                                  *)

Types ==
    /\ pc \in [Requests -> Steps]
    /\ cancelled \in SUBSET Requests
    /\ rpc \in [Requests -> Workers \cup {NoWorker}]
    /\ sid \in [Requests -> Sessions \cup {NoSession}]
    /\ allowed \in SUBSET Requests
    /\ lppDone \in SUBSET Requests
    /\ nrppaSent \in SUBSET Requests
    /\ engine \in [Requests -> Engines \cup {"none"}]
    /\ outcome \in [Requests -> Outcomes]
    /\ broke \in SUBSET Requests

\* A call is out only while a request is at one of its calls to the session manager;
\* a Create that returned names the session it made.
Calling ==
    \A r \in Requests : rpc[r] # NoWorker =>
        /\ pc[r] \in {"create", "update", "delete"}
        /\ pc[r] = "create" => call[rpc[r]].sid \in Sessions

\* What moves when one request goes on or returns.
LEMMA Goes ==
    ASSUME Types, NEW r \in Requests, NEW step \in Steps, Goto(r, step)
    PROVE  pc' \in [Requests -> Steps] /\ pc'[r] = step /\ \A q \in Requests \ {r} : pc'[q] = pc[q]
BY DEF Types, Goto

LEMMA Returns ==
    ASSUME Types, NEW r \in Requests, NEW res \in Outcomes, Return(r, res)
    PROVE  /\ pc' \in [Requests -> Steps] /\ outcome' \in [Requests -> Outcomes]
           /\ pc'[r] = (IF sid[r] = NoSession THEN "done" ELSE "delete") /\ outcome'[r] = res
           /\ \A q \in Requests \ {r} : pc'[q] = pc[q] /\ outcome'[q] = outcome[q]
BY DEF Types, Return, Goto, Steps

\* How a call ends for its request: a Create that failed ends it, an UpdateStatus is
\* followed by the deferred Delete, and that by the answer.
LEMMA CallEnds ==
    ASSUME Types, NEW r \in Requests, NEW ok \in BOOLEAN, AfterCall(r, ok),
           pc[r] \in {"create", "update", "delete"}
    PROVE  /\ pc' \in [Requests -> Steps] /\ outcome' \in [Requests -> Outcomes]
           /\ \A q \in Requests \ {r} : pc'[q] = pc[q] /\ outcome'[q] = outcome[q]
           /\ pc[r] = "create" /\ ok => pc'[r] = "caps" /\ outcome'[r] = outcome[r]
           /\ pc[r] = "create" /\ ~ok =>
                pc'[r] = (IF sid[r] = NoSession THEN "done" ELSE "delete") /\ outcome'[r] = "failed"
           /\ pc[r] = "update" =>
                pc'[r] = (IF sid[r] = NoSession THEN "done" ELSE "delete") /\ outcome'[r] = "located"
           /\ pc[r] = "delete" => pc'[r] = "done" /\ outcome'[r] = outcome[r]
           /\ broke' = IF ok THEN broke ELSE broke \cup {r}
<1>1. CASE pc[r] = "create" /\ ok
  BY <1>1, Goes DEF AfterCall, Types, Steps, CtxSteps
<1>2. CASE pc[r] = "create" /\ ~ok
  BY <1>2, Returns DEF AfterCall, Outcomes
<1>3. CASE pc[r] = "update"
  BY <1>3, Returns DEF AfterCall, Outcomes
<1>4. CASE pc[r] = "delete"
  BY <1>4, Goes DEF AfterCall, Types, Steps
<1>5. QED BY <1>1, <1>2, <1>3, <1>4

LEMMA TypesInit == Init => Types
BY DEF Init, Types, Steps, Outcomes, CtxSteps

LEMMA TypesNext == Types /\ Calling /\ [Next]_vars => Types'
<1> SUFFICES ASSUME Types, Calling, [Next]_vars PROVE Types'
  OBVIOUS
<1> USE DEF Steps, CtxSteps, Outcomes
<1>1. CASE UNCHANGED vars \/ SessionService
  BY <1>1 DEF vars, orchVars, SessionService, Types
<1>2. CASE Crash
  BY <1>2 DEF Crash, Types
<1>3. ASSUME NEW r \in Requests, DetermineLocation(r) \/ Cancel(r) PROVE Types'
  BY <1>3, Goes DEF DetermineLocation, Cancel, Types
<1>4. ASSUME NEW r \in Requests, SendCall(r) PROVE Types'
  BY <1>4 DEF SendCall, Types
<1>5. ASSUME NEW r \in Requests, CallReturns(r) PROVE Types'
  <2>1. rpc[r] # NoWorker /\ pc[r] \in {"create", "update", "delete"}
    BY <1>5 DEF CallReturns, Calling
  <2>2. pc' \in [Requests -> Steps] /\ outcome' \in [Requests -> Outcomes] /\ broke' \in SUBSET Requests
    <3> DEFINE ok == call[rpc[r]].res = "ok"
    <3>1. ok \in BOOLEAN /\ AfterCall(r, ok)
      BY <1>5 DEF CallReturns
    <3> HIDE DEF ok
    <3>2. QED BY <2>1, <3>1, CallEnds DEF Types
  <2>3. sid' \in [Requests -> Sessions \cup {NoSession}]
    BY <1>5, <2>1 DEF CallReturns, Calling, Types
  <2>4. QED BY <1>5, <2>2, <2>3 DEF CallReturns, AfterCall, Types
<1>6. ASSUME NEW r \in Requests, CallBreaks(r) PROVE Types'
  <2>1. AfterCall(r, FALSE) /\ pc[r] \in {"create", "update", "delete"}
    BY <1>6 DEF CallBreaks
  <2>2. pc' \in [Requests -> Steps] /\ outcome' \in [Requests -> Outcomes] /\ broke' \in SUBSET Requests
    <3> DEFINE ok == FALSE
    <3>1. ok \in BOOLEAN /\ AfterCall(r, ok)
      BY <2>1
    <3> HIDE DEF ok
    <3>2. QED BY <2>1, <3>1, CallEnds DEF Types
  <2>3. QED BY <1>6, <2>2 DEF CallBreaks, AfterCall, Types
<1>7. ASSUME NEW r \in Requests, CheckPrivacy(r) \/ SelectFails(r) PROVE Types'
  <2>1. pc' \in [Requests -> Steps] /\ outcome' \in [Requests -> Outcomes]
    BY <1>7, Goes, Returns DEF CheckPrivacy, SelectFails, Types
  <2>2. QED BY <1>7, <2>1 DEF CheckPrivacy, SelectFails, Types
<1>8. ASSUME NEW r \in Requests, SelectMethods(r) \/ SendNrppa(r) PROVE Types'
  <2>1. pc' \in [Requests -> Steps]
    BY <1>8, Goes DEF SelectMethods, SendNrppa
  <2>2. QED BY <1>8, <2>1 DEF SelectMethods, SendNrppa, Types
<1>9. ASSUME NEW r \in Requests, TriggerLpp(r) PROVE Types'
  <2>1. pc' \in [Requests -> Steps] /\ outcome' \in [Requests -> Outcomes]
    BY <1>9, Goes, Returns DEF TriggerLpp, Types
  <2>2. QED BY <1>9, <2>1 DEF TriggerLpp, Types
<1>10. ASSUME NEW r \in Requests, EngineSucceeds(r) PROVE Types'
  <2>1. PickEngine(Head(plan[r])) \in Engines
    BY DEF PickEngine, Engines
  <2>2. pc' \in [Requests -> Steps]
    BY <1>10, Goes DEF EngineSucceeds
  <2>3. QED BY <1>10, <2>1, <2>2 DEF EngineSucceeds, Types
<1>11. ASSUME NEW r \in Requests, EngineFails(r) PROVE Types'
  <2>1. pc' \in [Requests -> Steps] /\ outcome' \in [Requests -> Outcomes]
    BY <1>11, Returns DEF EngineFails, Types
  <2>2. QED BY <1>11, <2>1 DEF EngineFails, Types
<1>12. QED BY <1>1, <1>2, <1>3, <1>4, <1>5, <1>6, <1>7, <1>8, <1>9, <1>10, <1>11 DEF Next, Step

-----------------------------------------------------------------------------
(* The orchestrator implements LocationService.                            *)

\* Until a request has a session it has none to delete.
Early == \A r \in Requests : pc[r] \in {"idle", "privacy", "create"} => sid[r] = NoSession

\* How far a request is, against what was allowed, measured and decided.
RequestPromised(r) ==
    /\ pc[r] \in {"idle", "privacy"} => r \notin allowed
    /\ pc[r] \in {"create", "caps", "lpp", "nrppa", "engine", "update"} => r \in allowed
    /\ pc[r] \in {"nrppa", "engine", "update"} => r \in lppDone
    /\ outcome[r] = "located" => r \in lppDone
    /\ outcome[r] = "denied" => r \notin allowed
    /\ pc[r] \in {"delete", "done"} <=> outcome[r] # "none"

Promised == \A r \in Requests : RequestPromised(r)

Answered(r) ==
    CASE pc[r] = "idle" -> "idle" [] pc[r] = "done" -> outcome[r] [] OTHER -> "pending"

\* A step that gives no request an answer, a consent or a measurement is a stutter.
LEMMA ServiceStutters ==
    ASSUME \A q \in Requests : Answered(q)' = Answered(q), UNCHANGED <<allowed, lppDone>>
    PROVE  UNCHANGED Service!serviceVars
BY DEF Answered, Service!serviceVars

\* A request in progress goes on, or gets an answer that may be given.
LEMMA ServiceAnswers ==
    ASSUME NEW r \in Requests, pc[r] \notin {"idle", "done"}, pc'[r] # "idle",
           \A q \in Requests \ {r} : pc'[q] = pc[q] /\ outcome'[q] = outcome[q],
           UNCHANGED <<allowed, lppDone>>,
           pc'[r] = "done" => /\ outcome'[r] \in {"denied", "failed", "located"}
                              /\ outcome'[r] = "denied" => r \notin allowed
                              /\ outcome'[r] = "located" => r \in lppDone
    PROVE  [Service!Next]_Service!serviceVars
<1>1. Answered(r) = "pending" /\ \A q \in Requests \ {r} : Answered(q)' = Answered(q)
  BY DEF Answered
<1>2. CASE pc'[r] # "done"
  <2>1. Answered(r)' = "pending"
    BY <1>2 DEF Answered
  <2>2. QED BY <1>1, <2>1, ServiceStutters
<1>3. CASE pc'[r] = "done"
  <2>1. PICK a \in Service!Answers : a = outcome'[r]
    BY <1>3 DEF Service!Answers
  <2>2. Answered(r)' = a
    BY <1>3, <2>1 DEF Answered
  <2>3. Service!Answer(r, a)
    BY <1>1, <1>3, <2>1, <2>2 DEF Service!Answer, Answered
  <2>4. QED BY <2>3 DEF Service!Next
<1>4. QED BY <1>2, <1>3

\* The other steps of a request: it is accepted, allowed, measured.
LEMMA ServiceAsks ==
    ASSUME NEW r \in Requests, pc[r] = "idle", pc'[r] = "privacy",
           \A q \in Requests \ {r} : pc'[q] = pc[q] /\ outcome'[q] = outcome[q],
           UNCHANGED <<allowed, lppDone>>
    PROVE  Service!Next
<1>1. /\ Answered(r) = "idle" /\ Answered(r)' = "pending"
      /\ \A q \in Requests \ {r} : Answered(q)' = Answered(q)
  BY DEF Answered
<1>2. Service!Ask(r)
  BY <1>1 DEF Service!Ask, Answered
<1>3. QED BY <1>2 DEF Service!Next

LEMMA ServiceProceeds ==
    ASSUME NEW r \in Requests, pc[r] \notin {"idle", "done"}, pc'[r] \notin {"idle", "done"},
           \A q \in Requests \ {r} : pc'[q] = pc[q] /\ outcome'[q] = outcome[q],
           \/ allowed' = allowed \cup {r} /\ UNCHANGED lppDone
           \/ lppDone' = lppDone \cup {r} /\ r \in allowed /\ UNCHANGED allowed
    PROVE  Service!Next
<1>1. Answered(r) = "pending" /\ \A q \in Requests : Answered(q)' = Answered(q)
  BY DEF Answered
<1>2. Service!Allow(r) \/ Service!Measure(r)
  BY <1>1 DEF Service!Allow, Service!Measure, Answered
<1>3. QED BY <1>2 DEF Service!Next

\* A step of one request keeps what it and the others are promised.
LEMMA PromisedKept ==
    ASSUME Promised, NEW r \in Requests, RequestPromised(r)',
           \A q \in Requests \ {r} :
             /\ pc'[q] = pc[q] /\ outcome'[q] = outcome[q]
             /\ q \in allowed' <=> q \in allowed
             /\ q \in lppDone' <=> q \in lppDone
    PROVE  Promised'
<1> SUFFICES ASSUME NEW q \in Requests PROVE RequestPromised(q)'
  BY DEF Promised
<1>1. CASE q = r
  BY <1>1
<1>2. CASE q # r
  <2>1. /\ pc'[q] = pc[q] /\ outcome'[q] = outcome[q]
        /\ q \in allowed' <=> q \in allowed
        /\ q \in lppDone' <=> q \in lppDone
    BY <1>2
  <2>2. RequestPromised(q)
    BY DEF Promised
  <2>3. QED BY <2>1, <2>2 DEF RequestPromised
<1>3. QED BY <1>1, <1>2

Kept == Types /\ Calling /\ Early /\ Promised
Served == [Service!Next]_Service!serviceVars

\* The request leaves its step for another, or for its answer.
LEMMA Leaves ==
    ASSUME Kept, NEW r \in Requests, pc[r] \notin {"idle", "done"},
           \A q \in Requests \ {r} : pc'[q] = pc[q] /\ outcome'[q] = outcome[q],
           UNCHANGED <<allowed, lppDone>>, outcome'[r] \in Outcomes,
           pc'[r] \notin {"idle", "privacy"}, RequestPromised(r)'
    PROVE  Promised' /\ Served
<1>1. Promised'
  <2>1. \A q \in Requests \ {r} :
          /\ pc'[q] = pc[q] /\ outcome'[q] = outcome[q]
          /\ q \in allowed' <=> q \in allowed
          /\ q \in lppDone' <=> q \in lppDone
    OBVIOUS
  <2>2. QED BY <2>1, PromisedKept DEF Kept
<1>2. Served
  BY ServiceAnswers DEF RequestPromised, Outcomes, Served
<1>3. QED BY <1>1, <1>2

LEMMA CallServed ==
    ASSUME Kept, NEW r \in Requests, CallReturns(r) \/ CallBreaks(r)
    PROVE  Promised' /\ Served
<1>1. PICK ok \in BOOLEAN : AfterCall(r, ok)
  BY DEF CallReturns, CallBreaks
<1>2. pc[r] \in {"create", "update", "delete"}
  BY DEF CallReturns, CallBreaks, Kept, Calling
<1>3. /\ \A q \in Requests \ {r} : pc'[q] = pc[q] /\ outcome'[q] = outcome[q]
      /\ UNCHANGED <<allowed, lppDone>>
      /\ outcome'[r] \in Outcomes
      /\ \/ pc[r] = "create" /\ pc'[r] = "caps" /\ outcome'[r] = outcome[r]
         \/ pc[r] = "create" /\ pc'[r] \in {"delete", "done"} /\ outcome'[r] = "failed"
         \/ pc[r] = "update" /\ pc'[r] \in {"delete", "done"} /\ outcome'[r] = "located"
         \/ pc[r] = "delete" /\ pc'[r] = "done" /\ outcome'[r] = outcome[r]
  <2>1. /\ \A q \in Requests \ {r} : pc'[q] = pc[q] /\ outcome'[q] = outcome[q]
        /\ outcome' \in [Requests -> Outcomes]
    BY <1>1, <1>2, CallEnds DEF Kept
  <2>2. UNCHANGED <<allowed, lppDone>>
    BY <1>1 DEF AfterCall
  <2>3. CASE pc[r] = "create"
    BY <1>1, <1>2, <2>1, <2>2, <2>3, CallEnds DEF Kept
  <2>4. CASE pc[r] # "create"
    BY <1>1, <1>2, <2>1, <2>2, <2>4, CallEnds DEF Kept
  <2>5. QED BY <2>3, <2>4
<1>4. RequestPromised(r)
  BY DEF Kept, Promised
<1>5. RequestPromised(r)'
  BY <1>3, <1>4 DEF RequestPromised
<1>6. QED BY <1>2, <1>3, <1>5, Leaves

\* A step of the request itself that goes on or returns without a call.
LEMMA LocalServed ==
    ASSUME Kept, NEW r \in Requests, SelectMethods(r) \/ SelectFails(r) \/ SendNrppa(r)
    PROVE  Promised' /\ Served
<1>1. \/ Goto(r, "lpp") /\ UNCHANGED outcome /\ pc[r] = "caps"
      \/ Goto(r, "engine") /\ UNCHANGED outcome /\ pc[r] = "nrppa"
      \/ Return(r, "failed") /\ pc[r] = "caps"
  BY DEF SelectMethods, SelectFails, SendNrppa, On
<1>2. /\ UNCHANGED <<allowed, lppDone>> /\ RequestPromised(r)
      /\ outcome[r] \in Outcomes
  BY DEF SelectMethods, SelectFails, SendNrppa, Kept, Promised, Types
<1>3. /\ \A q \in Requests \ {r} : pc'[q] = pc[q] /\ outcome'[q] = outcome[q]
      /\ \/ outcome'[r] = outcome[r] /\ pc[r] = "caps" /\ pc'[r] = "lpp"
         \/ outcome'[r] = outcome[r] /\ pc[r] = "nrppa" /\ pc'[r] = "engine"
         \/ outcome'[r] = "failed" /\ pc[r] = "caps" /\ pc'[r] \in {"delete", "done"}
  BY <1>1, Goes, Returns DEF Kept, Types, Steps, CtxSteps, Outcomes
<1>4. RequestPromised(r)'
  BY <1>2, <1>3 DEF RequestPromised
<1>5. QED BY <1>2, <1>3, <1>4, Leaves DEF Outcomes

LEMMA EngineServed ==
    ASSUME Kept, NEW r \in Requests, EngineSucceeds(r) \/ EngineFails(r)
    PROVE  Promised' /\ Served
<1>1. \/ Goto(r, "update") /\ UNCHANGED outcome
      \/ Return(r, "failed")
      \/ UNCHANGED <<pc, outcome>>
  BY DEF EngineSucceeds, EngineFails
<1>2. /\ UNCHANGED <<allowed, lppDone>> /\ RequestPromised(r) /\ pc[r] = "engine"
      /\ outcome[r] \in Outcomes
  BY DEF EngineSucceeds, EngineFails, On, Kept, Promised, Types
<1>3. /\ \A q \in Requests \ {r} : pc'[q] = pc[q] /\ outcome'[q] = outcome[q]
      /\ \/ outcome'[r] = outcome[r] /\ pc'[r] \in {"update", "engine"}
         \/ outcome'[r] = "failed" /\ pc'[r] \in {"delete", "done"}
  BY <1>1, <1>2, Goes, Returns DEF Kept, Types, Steps, CtxSteps, Outcomes
<1>4. RequestPromised(r)'
  BY <1>2, <1>3 DEF RequestPromised
<1>5. QED BY <1>2, <1>3, <1>4, Leaves DEF Outcomes

LEMMA PrivacyServed ==
    ASSUME Kept, NEW r \in Requests, CheckPrivacy(r)
    PROVE  Promised' /\ Served
<1>1. /\ pc[r] = "privacy" /\ sid[r] = NoSession /\ RequestPromised(r) /\ UNCHANGED lppDone
      /\ outcome[r] \in Outcomes
  BY DEF CheckPrivacy, On, Kept, Early, Promised, Types
<1>2. CASE Goto(r, "create") /\ allowed' = allowed \cup {r} /\ UNCHANGED outcome
  <2>1. pc'[r] = "create" /\ \A q \in Requests \ {r} : pc'[q] = pc[q]
    BY <1>2, Goes DEF Kept, Types, Steps, CtxSteps
  <2>2. Served
    BY <1>1, <1>2, <2>1, ServiceProceeds DEF Served
  <2>3. RequestPromised(r)'
    BY <1>1, <1>2, <2>1 DEF RequestPromised
  <2>4. \A q \in Requests \ {r} :
          /\ pc'[q] = pc[q] /\ outcome'[q] = outcome[q]
          /\ q \in allowed' <=> q \in allowed
          /\ q \in lppDone' <=> q \in lppDone
    BY <1>1, <1>2, <2>1
  <2>5. QED BY <2>2, <2>3, <2>4, PromisedKept DEF Kept
<1>3. ASSUME NEW res \in {"denied", "failed"}, Return(r, res), UNCHANGED allowed
      PROVE  Promised' /\ Served
  <2>1. /\ pc'[r] = "done" /\ outcome'[r] = res
        /\ \A q \in Requests \ {r} : pc'[q] = pc[q] /\ outcome'[q] = outcome[q]
    BY <1>1, <1>3, Returns DEF Kept, Outcomes
  <2>2. RequestPromised(r)'
    BY <1>1, <1>3, <2>1 DEF RequestPromised
  <2>3. QED BY <1>1, <1>3, <2>1, <2>2, Leaves DEF Outcomes
<1>4. QED BY <1>2, <1>3 DEF CheckPrivacy

LEMMA MeasureServed ==
    ASSUME Kept, NEW r \in Requests, TriggerLpp(r)
    PROVE  Promised' /\ Served
<1>1. pc[r] = "lpp" /\ RequestPromised(r) /\ UNCHANGED allowed /\ r \in allowed
  BY DEF TriggerLpp, On, Kept, Promised, RequestPromised
<1>2. ASSUME NEW step \in {"nrppa", "engine"}, Goto(r, step), lppDone' = lppDone \cup {r},
             UNCHANGED outcome
      PROVE  Promised' /\ Served
  <2>1. pc'[r] = step /\ \A q \in Requests \ {r} : pc'[q] = pc[q]
    BY <1>2, Goes DEF Kept, Types, Steps, CtxSteps
  <2>2. Served
    BY <1>1, <1>2, <2>1, ServiceProceeds DEF Served
  <2>3. RequestPromised(r)'
    BY <1>1, <1>2, <2>1 DEF RequestPromised
  <2>4. \A q \in Requests \ {r} :
          /\ pc'[q] = pc[q] /\ outcome'[q] = outcome[q]
          /\ q \in allowed' <=> q \in allowed
          /\ q \in lppDone' <=> q \in lppDone
    BY <1>1, <1>2, <2>1
  <2>5. QED BY <2>2, <2>3, <2>4, PromisedKept DEF Kept
<1>3. CASE Return(r, "failed") /\ UNCHANGED lppDone
  <2>1. /\ pc'[r] \in {"delete", "done"} /\ outcome'[r] = "failed"
        /\ \A q \in Requests \ {r} : pc'[q] = pc[q] /\ outcome'[q] = outcome[q]
    BY <1>3, Returns DEF Kept, Outcomes
  <2>2. RequestPromised(r)'
    BY <1>1, <1>3, <2>1 DEF RequestPromised
  <2>3. QED BY <1>1, <1>3, <2>1, <2>2, Leaves DEF Outcomes
<1>4. QED BY <1>2, <1>3 DEF TriggerLpp

LEMMA CrashServed ==
    ASSUME Kept, Crash
    PROVE  Promised' /\ Served
<1>1. /\ UNCHANGED <<allowed, lppDone>>
      /\ \A r \in Requests :
           /\ pc[r] \in {"idle", "done"} => pc'[r] = pc[r] /\ outcome'[r] = outcome[r]
           /\ pc[r] \notin {"idle", "done"} => pc'[r] = "done" /\ outcome'[r] = "failed"
  BY DEF Crash, Active
<1>2. Promised'
  <2> SUFFICES ASSUME NEW r \in Requests PROVE RequestPromised(r)'
    BY DEF Promised
  <2>1. RequestPromised(r)
    BY DEF Kept, Promised
  <2>2. QED BY <1>1, <2>1 DEF RequestPromised
<1>3. Served
  <2>1. \A r \in Requests :
          Answered(r)' = IF Answered(r) = "pending" THEN "failed" ELSE Answered(r)
    <3> SUFFICES ASSUME NEW r \in Requests
                 PROVE  Answered(r)' = IF Answered(r) = "pending" THEN "failed" ELSE Answered(r)
      OBVIOUS
    <3>1. outcome[r] # "pending"
      BY DEF Kept, Types, Outcomes
    <3>2. QED BY <1>1, <3>1 DEF Answered
  <2>2. Service!Fail
    BY <1>1, <2>1 DEF Service!Fail, Answered
  <2>3. QED BY <2>2 DEF Service!Next, Served
<1>4. QED BY <1>2, <1>3

LEMMA NextServed ==
    ASSUME Kept, [Next]_vars
    PROVE  Promised' /\ Served
<1>1. CASE UNCHANGED <<pc, outcome, allowed, lppDone>>
  BY <1>1, ServiceStutters DEF Kept, Promised, RequestPromised, Answered, Served
<1>2. ASSUME NEW r \in Requests, DetermineLocation(r) PROVE Promised' /\ Served
  <2>1. /\ pc[r] = "idle" /\ pc'[r] = "privacy" /\ UNCHANGED <<outcome, allowed, lppDone>>
        /\ \A q \in Requests \ {r} : pc'[q] = pc[q] /\ outcome'[q] = outcome[q]
    BY <1>2, Goes DEF DetermineLocation, On, Kept, Types, Steps, CtxSteps
  <2>2. Served
    BY <2>1, ServiceAsks DEF Served
  <2>3. RequestPromised(r)'
    BY <2>1 DEF Kept, Promised, RequestPromised
  <2>4. \A q \in Requests \ {r} :
          /\ pc'[q] = pc[q] /\ outcome'[q] = outcome[q]
          /\ q \in allowed' <=> q \in allowed
          /\ q \in lppDone' <=> q \in lppDone
    BY <2>1
  <2>5. QED BY <2>2, <2>3, <2>4, PromisedKept DEF Kept
<1>3. ASSUME NEW r \in Requests, Cancel(r) \/ SendCall(r) PROVE Promised' /\ Served
  BY <1>1, <1>3 DEF Cancel, SendCall
<1>4. CASE SessionService \/ UNCHANGED vars
  BY <1>1, <1>4 DEF SessionService, vars, orchVars
<1>5. QED BY <1>2, <1>3, <1>4, CallServed, LocalServed, EngineServed, PrivacyServed,
             MeasureServed, CrashServed DEF Next, Step

-----------------------------------------------------------------------------
(* Whose session it is, and whether it is closed.                          *)

\* The session of a request, from the start of the Create that makes it.
Mine(r) ==
    IF pc[r] = "create" THEN (IF rpc[r] = NoWorker THEN NoSession ELSE call[rpc[r]].sid)
    ELSE sid[r]

\* A call that is out works on the request's session, for no other request.
Serving ==
    \A r \in Requests : rpc[r] # NoWorker =>
        /\ pc[r] \in {"create", "update", "delete"}
        /\ call[rpc[r]].op = pc[r] /\ call[rpc[r]].sid = Mine(r) /\ Mine(r) \in Sessions
        /\ \A q \in Requests : rpc[q] = rpc[r] => q = r

Owning ==
    \A r \in Requests : Mine(r) # NoSession =>
        /\ Mine(r) \in Sessions /\ owner[Mine(r)] = SupiOf[r]
        /\ \A q \in Requests : Mine(q) = Mine(r) => q = r

\* Nobody but the request's own call works on its session, until a call is given up.
Alone ==
    \A r \in Requests \ broke : Mine(r) # NoSession =>
        \A v \in Workers : v # rpc[r] /\ call[v].sid = Mine(r) => call[v].pc = "idle"

\* The Delete of the session has answered that it is gone.
Removed(r) ==
    /\ pc[r] = "delete" /\ rpc[r] # NoWorker
    /\ call[rpc[r]].pc = "idle" /\ call[rpc[r]].res = "ok"

Closed ==
    \A r \in Requests \ broke :
        sid[r] # NoSession /\ (pc[r] = "done" \/ Removed(r)) => ~SM!Live(sid[r])

NoLookups == \A w \in Workers : call[w].op # "bySupi"

SessInv == NoLookups /\ Serving /\ Early /\ Owning /\ Alone /\ Closed

\* What the proofs about the session manager say that is used here.
LEMMA SessionFacts ==
    ASSUME SMP!IInv
    PROVE  /\ call \in [Workers -> SM!Call] /\ issued \subseteq Sessions
           /\ sessTtl \in [Sessions -> 0 .. TTL]
           /\ owner \in [Sessions -> Supis \cup {NoSupi, SM!Unborn}]
           /\ \A w \in Workers :
                /\ call[w].pc \notin {"idle", "smembers"} =>
                     call[w].sid \in Sessions /\ owner[call[w].sid] # SM!Unborn
                /\ call[w].pc \in {"set", "sadd"} => call[w].op \in {"create", "update"}
                /\ call[w].pc \in {"srem", "del"} => call[w].op = "delete"
                /\ call[w].pc = "smembers" => call[w].op = "bySupi"
<1>1. SMP!TypeOK /\ SMP!CallsOwn
  BY DEF SMP!IInv
<1>2. SM!Call = SMP!Call /\ SM!Unborn = SMP!Unborn
  BY DEF SM!Call, SMP!Call, SM!Ops, SMP!Ops, SM!Steps, SMP!Steps, SM!Status, SMP!Status,
     SM!Results, SMP!Results, SM!Unborn, SMP!Unborn
<1>3. QED BY <1>1, <1>2 DEF SMP!TypeOK, SMP!CallsOwn, SMP!CallOwns

LEMMA RequestMoves ==
    ASSUME SMP!IInv, NEW w \in Workers, NEW op, NEW s, NEW u, NEW status, NEW step,
           SM!Begin(w, op, s, u, status, step)
    PROVE  /\ call[w].pc = "idle" /\ UNCHANGED sessTtl
           /\ call'[w].op = op /\ call'[w].sid = s /\ call'[w].pc = step
           /\ \A v \in Workers \ {w} : call'[v] = call[v]
BY SessionFacts DEF SM!Begin, SM!redis

\* A round trip touches only its own call and session, and a Delete that answers "ok"
\* has removed it.
LEMMA RoundTripMoves ==
    ASSUME SMP!IInv, NEW w \in Workers, call[w].op # "bySupi", SM!RoundTrip(w)
    PROVE  /\ call[w].pc # "idle" /\ UNCHANGED owner
           /\ call'[w].op = call[w].op /\ call'[w].sid = call[w].sid
           /\ \A v \in Workers \ {w} : call'[v] = call[v]
           /\ \A s \in Sessions \ {call[w].sid} : sessTtl'[s] = sessTtl[s]
           /\ call[w].op = "delete" /\ call'[w].pc = "idle" /\ call'[w].res = "ok" =>
                sessTtl'[call[w].sid] = 0
<1> DEFINE Moved == /\ call'[w].op = call[w].op /\ call'[w].sid = call[w].sid
                    /\ \A v \in Workers \ {w} : call'[v] = call[v]
<1> USE DEF SM!redis
<1>1. /\ call \in [Workers -> SM!Call] /\ call[w] \in SM!Call
      /\ sessTtl \in [Sessions -> 0 .. TTL]
      /\ call[w].pc # "smembers"
      /\ call[w].pc \in {"set", "sadd"} => call[w].op \in {"create", "update"}
      /\ call[w].pc = "del" => call[w].sid \in Sessions
  BY SessionFacts
<1>2. ASSUME NEW res, SM!Reply(w, res) PROVE Moved /\ call'[w].pc = "idle" /\ call'[w].res = res
  BY <1>1, <1>2 DEF SM!Reply, SM!Call
<1>3. ASSUME NEW step, SM!Goto(w, step) PROVE Moved /\ call'[w].pc = step
  BY <1>1, <1>3 DEF SM!Goto, SM!Call
<1>4. CASE SM!ReadFound(w)
  <2>1. CASE call[w].op \in {"update", "delete"}
    <3> DEFINE supi == sess[call[w].sid].supi
               step == CASE call[w].op = "update" -> "set"
                         [] OTHER -> IF supi = NoSupi THEN "del" ELSE "srem"
    <3>1. call' = [call EXCEPT ![w] = [@ EXCEPT !.pc = step, !.supi = supi]]
      BY <1>4, <2>1 DEF SM!ReadFound
    <3>2. Moved /\ call'[w].pc = step /\ step # "idle"
      BY <1>1, <3>1 DEF SM!Call
    <3>3. QED BY <1>4, <3>2 DEF SM!ReadFound
  <2>2. CASE call[w].op \notin {"update", "delete"}
    <3>1. SM!Reply(w, "ok")
      BY <1>4, <2>2 DEF SM!ReadFound
    <3>2. QED BY <1>2, <1>4, <2>2, <3>1 DEF SM!ReadFound
  <2>3. QED BY <2>1, <2>2
<1>5. CASE SM!ReadMissing(w) \/ SM!ReadError(w)
  BY <1>2, <1>3, <1>5 DEF SM!ReadMissing, SM!ReadError, SM!ReadFailed
<1>6. CASE SM!WriteSession(w) \/ SM!WriteSessionError(w)
  BY <1>1, <1>2, <1>3, <1>6 DEF SM!WriteSession, SM!WriteSessionError, SM!SetJSON
<1>7. CASE SM!WriteIndex(w) \/ SM!WriteIndexError(w)
  BY <1>1, <1>2, <1>7 DEF SM!WriteIndex, SM!WriteIndexError
<1>8. CASE SM!RemoveFromIndex(w)
  BY <1>3, <1>8 DEF SM!RemoveFromIndex
<1>9. CASE SM!DeleteKey(w) \/ SM!DeleteKeyError(w)
  BY <1>1, <1>2, <1>9 DEF SM!DeleteKey, SM!DeleteKeyError, SM!Delete
<1>10. CASE SM!ReadMembers(w)
  BY <1>1, <1>10 DEF SM!ReadMembers
<1>11. QED BY <1>4, <1>5, <1>6, <1>7, <1>8, <1>9, <1>10 DEF SM!RoundTrip

LEMMA SessInit == Init => SessInv
<1> SUFFICES ASSUME Init PROVE SessInv
  OBVIOUS
<1>1. /\ \A r \in Requests : pc[r] = "idle" /\ rpc[r] = NoWorker /\ sid[r] = NoSession
      /\ \A w \in Workers : call[w].op = "none"
  BY DEF Init, SM!Init
<1>2. \A r \in Requests : Mine(r) = NoSession
  BY <1>1 DEF Mine
<1>3. QED BY <1>1, <1>2
      DEF SessInv, NoLookups, Serving, Early, Owning, Alone, Closed, Removed

\* No request gets another session than it has: ownership stays as it is.
LEMMA OwningKept ==
    ASSUME Owning, UNCHANGED owner, \A r \in Requests : Mine(r)' \in {Mine(r), NoSession}
    PROVE  Owning'
BY DEF Owning

\* A request goes on without a call.
LEMMA LocalKeeps ==
    ASSUME Types, SessInv, NEW r \in Requests, rpc[r] = NoWorker, pc[r] # "create",
           UNCHANGED <<rpc, sid, broke, smVars>>,
           \A q \in Requests \ {r} : pc'[q] = pc[q],
           pc'[r] \in {"idle", "privacy", "create", "done"} => sid[r] = NoSession
    PROVE  SessInv'
<1>1. UNCHANGED <<call, owner, sessTtl>>
  BY DEF smVars
<1>2. \A q \in Requests : Mine(q)' = Mine(q)
  BY <1>1 DEF Mine
<1>3. NoLookups' /\ Early' /\ Owning'
  BY <1>1, <1>2, OwningKept DEF SessInv, NoLookups, Early
<1>4. Serving'
  BY <1>1, <1>2 DEF SessInv, Serving
<1>5. Alone'
  BY <1>1, <1>2 DEF SessInv, Alone
<1>6. Closed'
  BY <1>1 DEF SessInv, Closed, Removed, SM!Live
<1>7. QED BY <1>3, <1>4, <1>5, <1>6 DEF SessInv

\* The call of a request is over, or given up: its worker works for nobody then.
LEMMA CallOver ==
    ASSUME Types, SMP!IInv, SessInv, NEW r \in Requests,
           pc[r] \in {"create", "update", "delete"}, UNCHANGED smVars,
           \A q \in Requests \ {r} : pc'[q] = pc[q] /\ rpc'[q] = rpc[q] /\ sid'[q] = sid[q],
           rpc'[r] = NoWorker, broke \subseteq broke',
           Mine(r)' \in {Mine(r), NoSession},
           pc'[r] \in {"caps", "done", "delete"},
           r \notin broke' =>
             /\ rpc[r] # NoWorker /\ call[rpc[r]].pc = "idle"
             /\ pc'[r] = "done" /\ sid'[r] # NoSession =>
                  sid'[r] = sid[r] /\ pc[r] = "delete" /\ call[rpc[r]].res = "ok"
    PROVE  SessInv'
<1>1. UNCHANGED <<call, owner, sessTtl>>
  BY DEF smVars
<1>2. \A q \in Requests \ {r} : Mine(q)' = Mine(q)
  BY <1>1 DEF Mine
<1>3. NoLookups' /\ Early' /\ Owning'
  BY <1>1, <1>2, OwningKept DEF SessInv, NoLookups, Early
<1>4. Serving'
  BY <1>1, <1>2 DEF SessInv, Serving
<1>5. Alone'
  BY <1>1, <1>2 DEF SessInv, Alone
<1>6. Closed'
  <2> SUFFICES ASSUME NEW q \in Requests \ broke', sid'[q] # NoSession,
                      pc'[q] = "done" \/ Removed(q)'
               PROVE  ~SM!Live(sid[q])'
    BY DEF Closed
  <2>1. CASE q # r
    BY <1>1, <2>1 DEF SessInv, Closed, Removed, SM!Live
  <2>2. CASE q = r
    <3>1. pc'[r] = "done"
      BY <2>2 DEF Removed
    <3>2. sid'[r] = sid[r] /\ Removed(r)
      BY <2>2, <3>1 DEF Removed
    <3>3. ~SM!Live(sid[r])
      BY <2>2, <3>2 DEF SessInv, Closed
    <3>4. QED BY <1>1, <2>2, <3>2, <3>3 DEF SM!Live
  <2>3. QED BY <2>1, <2>2
<1>7. QED BY <1>3, <1>4, <1>5, <1>6 DEF SessInv

LEMMA CallReturnsKeeps ==
    ASSUME Types, SMP!IInv, SessInv, NEW r \in Requests, CallReturns(r)
    PROVE  SessInv'
<1> DEFINE ok == call[rpc[r]].res = "ok"
<1>1. /\ rpc[r] # NoWorker /\ call[rpc[r]].pc = "idle" /\ UNCHANGED smVars
      /\ pc[r] \in {"create", "update", "delete"} /\ call[rpc[r]].sid = Mine(r)
  BY DEF CallReturns, AfterCall, SessInv, Serving
<1>2. ok \in BOOLEAN /\ AfterCall(r, ok)
  BY DEF CallReturns
<1>3. /\ sid' = IF pc[r] = "create" /\ ok THEN [sid EXCEPT ![r] = Mine(r)] ELSE sid
      /\ rpc' = [rpc EXCEPT ![r] = NoWorker]
  BY <1>1 DEF CallReturns
<1> HIDE DEF ok
<1>4. /\ \A q \in Requests \ {r} : pc'[q] = pc[q]
      /\ pc[r] = "create" /\ ok => pc'[r] = "caps"
      /\ pc[r] = "create" /\ ~ok =>
           pc'[r] = (IF sid[r] = NoSession THEN "done" ELSE "delete")
      /\ pc[r] = "update" => pc'[r] = (IF sid[r] = NoSession THEN "done" ELSE "delete")
      /\ pc[r] = "delete" => pc'[r] = "done"
      /\ broke' = IF ok THEN broke ELSE broke \cup {r}
  BY <1>1, <1>2, CallEnds
<1>5. /\ \A q \in Requests \ {r} : rpc'[q] = rpc[q] /\ sid'[q] = sid[q]
      /\ rpc'[r] = NoWorker
      /\ sid'[r] = IF pc[r] = "create" /\ ok THEN Mine(r) ELSE sid[r]
  BY <1>3 DEF Types
<1>6. pc[r] = "create" => sid[r] = NoSession
  BY DEF SessInv, Early
<1>7. pc[r] # "create" => Mine(r) = sid[r]
  BY DEF Mine
<1>8. pc'[r] \in {"caps", "done", "delete"}
  BY <1>1, <1>4
<1>9. Mine(r)' = sid'[r]
  BY <1>8 DEF Mine
<1>10. Mine(r)' \in {Mine(r), NoSession}
  BY <1>5, <1>6, <1>7, <1>9
<1>11. r \notin broke' => ok
  BY <1>4
<1>12. r \notin broke' /\ pc'[r] = "done" /\ sid'[r] # NoSession =>
         sid'[r] = sid[r] /\ pc[r] = "delete" /\ call[rpc[r]].res = "ok"
  <2>1. ok => call[rpc[r]].res = "ok"
    BY DEF ok
  <2>2. QED BY <1>1, <1>4, <1>5, <1>6, <1>11, <2>1
<1>13. broke \subseteq broke'
  BY <1>4
<1>14. QED BY <1>1, <1>4, <1>5, <1>8, <1>10, <1>12, <1>13, CallOver

LEMMA CallBreaksKeeps ==
    ASSUME Types, SMP!IInv, SessInv, NEW r \in Requests, CallBreaks(r)
    PROVE  SessInv'
<1> DEFINE ok == FALSE
<1>1. /\ pc[r] \in {"create", "update", "delete"} /\ UNCHANGED <<sid, smVars>>
      /\ rpc' = [rpc EXCEPT ![r] = NoWorker]
      /\ ok \in BOOLEAN /\ AfterCall(r, ok) /\ ~ok
  BY DEF CallBreaks, AfterCall
<1> HIDE DEF ok
<1>2. /\ \A q \in Requests \ {r} : pc'[q] = pc[q]
      /\ pc'[r] \in {"done", "delete"}
      /\ broke' = broke \cup {r}
  BY <1>1, CallEnds
<1>3. rpc'[r] = NoWorker /\ \A q \in Requests \ {r} : rpc'[q] = rpc[q]
  BY <1>1 DEF Types
<1>4. Mine(r)' \in {Mine(r), NoSession}
  BY <1>1, <1>2 DEF Mine, SessInv, Early
<1>5. QED BY <1>1, <1>2, <1>3, <1>4, CallOver

LEMMA CrashKeeps ==
    ASSUME Types, SessInv, Crash
    PROVE  SessInv'
<1>1. UNCHANGED <<sid, call, owner, sessTtl>>
  BY DEF Crash, smVars
<1>2. /\ \A r \in Requests :
           /\ rpc'[r] = NoWorker
           /\ pc[r] \in {"idle", "done"} => pc'[r] = pc[r]
           /\ pc[r] \notin {"idle", "done"} => pc'[r] = "done" /\ r \in broke'
      /\ broke \subseteq broke'
  BY DEF Crash, Active
<1>3. \A r \in Requests : Mine(r)' \in {Mine(r), NoSession}
  BY <1>1, <1>2 DEF Mine, SessInv, Early
<1>4. \A r \in Requests \ broke' : rpc[r] = NoWorker /\ pc'[r] = pc[r]
  BY <1>2 DEF SessInv, Serving
<1>5. NoLookups' /\ Owning'
  BY <1>1, <1>3, OwningKept DEF SessInv, NoLookups
<1>6. Serving' /\ Early'
  BY <1>1, <1>2 DEF SessInv, Serving, Early
<1>7. Alone'
  BY <1>1, <1>2, <1>3, <1>4 DEF SessInv, Alone
<1>8. Closed'
  BY <1>1, <1>2, <1>4 DEF SessInv, Closed, Removed, SM!Live
<1>9. QED BY <1>5, <1>6, <1>7, <1>8 DEF SessInv

\* A session-manager handler goes on: its own request sees what it does, no other.
LEMMA RoundTripKeeps ==
    ASSUME Types, SMP!IInv, SessInv, NEW w \in Workers, SM!RoundTrip(w), UNCHANGED orchVars
    PROVE  SessInv'
<1>1. UNCHANGED <<pc, rpc, sid, broke>>
  BY DEF orchVars
<1>2. /\ call[w].pc # "idle" /\ UNCHANGED owner
      /\ call'[w].op = call[w].op /\ call'[w].sid = call[w].sid
      /\ \A v \in Workers \ {w} : call'[v] = call[v]
      /\ \A s \in Sessions \ {call[w].sid} : sessTtl'[s] = sessTtl[s]
      /\ call[w].op = "delete" /\ call'[w].pc = "idle" /\ call'[w].res = "ok" =>
           sessTtl'[call[w].sid] = 0
  BY RoundTripMoves DEF SessInv, NoLookups
<1>3. \A v \in Workers : call'[v].op = call[v].op /\ call'[v].sid = call[v].sid
  BY <1>2
<1>4. \A r \in Requests : rpc[r] \in Workers \cup {NoWorker} /\ sid[r] \in Sessions \cup {NoSession}
  BY DEF Types
<1>5. \A r \in Requests : Mine(r)' = Mine(r)
  BY <1>1, <1>3, <1>4 DEF Mine
<1>6. NoLookups' /\ Early' /\ Owning'
  BY <1>1, <1>2, <1>3, <1>5, OwningKept DEF SessInv, NoLookups, Early
<1>7. Serving'
  BY <1>1, <1>3, <1>4, <1>5 DEF SessInv, Serving
<1>8. Alone'
  BY <1>1, <1>2, <1>3, <1>5 DEF SessInv, Alone
<1>9. Closed'
  <2> SUFFICES ASSUME NEW r \in Requests \ broke, sid[r] # NoSession,
                      pc[r] = "done" \/ Removed(r)'
               PROVE  sessTtl'[sid[r]] = 0
    BY <1>1 DEF Closed, SM!Live
  <2>1. pc[r] \in {"done", "delete"} /\ Mine(r) = sid[r] /\ sid[r] \in Sessions
    BY <1>1, <1>4 DEF Removed, Mine
  <2>2. CASE rpc[r] = w
    <3>1. pc[r] = "delete" /\ call[w].op = "delete" /\ call[w].sid = sid[r]
      BY <2>1, <2>2, <1>4 DEF SessInv, Serving
    <3>2. call'[w].pc = "idle" /\ call'[w].res = "ok"
      BY <1>1, <2>2, <3>1 DEF Removed
    <3>3. QED BY <1>2, <3>1, <3>2
  <2>3. CASE rpc[r] # w
    <3>1. call[w].sid # sid[r]
      BY <1>2, <2>1, <2>3 DEF SessInv, Alone
    <3>2. pc[r] = "done" \/ Removed(r)
      BY <1>1, <1>2, <1>4, <2>3 DEF Removed
    <3>3. ~SM!Live(sid[r])
      BY <3>2 DEF SessInv, Closed
    <3>4. sessTtl[sid[r]] = 0
      BY <2>1, <3>3, SessionFacts DEF SM!Live
    <3>5. QED BY <1>2, <2>1, <3>1, <3>4
  <2>4. QED BY <2>2, <2>3
<1>10. QED BY <1>6, <1>7, <1>8, <1>9 DEF SessInv

\* Time makes no session live again.
LEMMA TickKeeps ==
    ASSUME Types, SMP!IInv, SessInv, SM!Tick, UNCHANGED orchVars
    PROVE  SessInv'
<1>1. UNCHANGED <<pc, rpc, sid, broke, call, owner>>
  BY DEF orchVars, SM!Tick, SM!history
<1>2. \A r \in Requests : Mine(r)' = Mine(r)
  BY <1>1 DEF Mine
<1>3. \A s \in Sessions : ~SM!Live(s) => ~SM!Live(s)'
  BY SessionFacts DEF SM!Tick, SM!Left, SM!Live
<1>4. NoLookups' /\ Early' /\ Owning'
  BY <1>1, <1>2, OwningKept DEF SessInv, NoLookups, Early
<1>5. Serving' /\ Alone'
  BY <1>1, <1>2 DEF SessInv, Serving, Alone
<1>6. Closed'
  BY <1>1, <1>3 DEF SessInv, Closed, Removed, Types, SM!Live
<1>7. QED BY <1>4, <1>5, <1>6 DEF SessInv

\* A call goes out: a Create is for an id that nobody has, an update or a Delete for the
\* session the request has, and the worker was nobody's.
LEMMA SendCallKeeps ==
    ASSUME Types, SMP!IInv, SessInv, NEW r \in Requests, SendCall(r)
    PROVE  SessInv'
<1>1. PICK w \in Workers :
         /\ Free(w)
         /\ rpc' = [rpc EXCEPT ![r] = w]
         /\ \/ /\ On(r, "create")
               /\ \E s \in Sessions : SM!CreateSession(w, s, SupiOf[r])
            \/ /\ On(r, "update")
               /\ SM!UpdateSessionStatus(w, sid[r], MapSessionStatus("COMPLETED"))
            \/ On(r, "delete") /\ SM!DeleteSession(w, sid[r])
  BY DEF SendCall
<1>2. /\ UNCHANGED <<pc, sid, broke>> /\ rpc[r] = NoWorker
      /\ pc[r] \in {"create", "update", "delete"}
      /\ rpc'[r] = w /\ w # NoWorker
      /\ \A q \in Requests \ {r} : rpc'[q] = rpc[q] /\ rpc[q] # w
  BY <1>1, SessionManagerConstants DEF SendCall, On, Types, Free
<1>3. SupiOf[r] \in Supis /\ SM!Unborn \notin Supis
  BY SessionManagerAssumption DEF SM!ConstantsAssumption
<1>4. \A q \in Requests : rpc[q] \in Workers \cup {NoWorker} /\ sid[q] \in Sessions \cup {NoSession}
  BY DEF Types
<1>5. PICK s \in Sessions :
         /\ call[w].pc = "idle" /\ UNCHANGED sessTtl
         /\ call'[w].op = pc[r] /\ call'[w].sid = s /\ call'[w].pc # "idle"
         /\ \A v \in Workers \ {w} : call'[v] = call[v]
         /\ owner'[s] = SupiOf[r]
         /\ \A z \in Sessions \ {s} : owner'[z] = owner[z]
         /\ pc[r] = "create" => owner[s] = SM!Unborn
         /\ pc[r] # "create" => s = sid[r]
  <2>1. ASSUME On(r, "create"), NEW z \in Sessions, SM!CreateSession(w, z, SupiOf[r])
        PROVE  /\ call[w].pc = "idle" /\ UNCHANGED sessTtl
               /\ call'[w].op = pc[r] /\ call'[w].sid = z /\ call'[w].pc # "idle"
               /\ \A v \in Workers \ {w} : call'[v] = call[v]
               /\ owner'[z] = SupiOf[r]
               /\ \A y \in Sessions \ {z} : owner'[y] = owner[y]
               /\ owner[z] = SM!Unborn /\ pc[r] = "create"
    <3>1. SM!Begin(w, "create", z, SupiOf[r], "INIT", "set")
      BY <2>1 DEF SM!CreateSession
    <3>2. /\ call[w].pc = "idle" /\ UNCHANGED sessTtl
          /\ call'[w].op = "create" /\ call'[w].sid = z /\ call'[w].pc = "set"
          /\ \A v \in Workers \ {w} : call'[v] = call[v]
      BY <3>1, RequestMoves
    <3>3. owner[z] = SM!Unborn /\ owner' = [owner EXCEPT ![z] = SupiOf[r]]
      BY <2>1 DEF SM!CreateSession
    <3>4. owner'[z] = SupiOf[r] /\ \A y \in Sessions \ {z} : owner'[y] = owner[y]
      BY <3>3, SessionFacts
    <3>5. QED BY <2>1, <3>2, <3>3, <3>4 DEF On
  <2>2. ASSUME NEW op \in {"update", "delete"}, On(r, op), NEW status,
               SM!Begin(w, op, sid[r], NoSupi, status, "get"), UNCHANGED owner,
               sid[r] \in issued
        PROVE  /\ call[w].pc = "idle" /\ UNCHANGED sessTtl /\ sid[r] \in Sessions
               /\ call'[w].op = pc[r] /\ call'[w].sid = sid[r] /\ call'[w].pc # "idle"
               /\ \A v \in Workers \ {w} : call'[v] = call[v]
               /\ owner'[sid[r]] = SupiOf[r] /\ UNCHANGED owner
               /\ pc[r] # "create"
    <3>1. /\ call[w].pc = "idle" /\ UNCHANGED sessTtl
          /\ call'[w].op = op /\ call'[w].sid = sid[r] /\ call'[w].pc = "get"
          /\ \A v \in Workers \ {w} : call'[v] = call[v]
      BY <2>2, RequestMoves
    <3>2. sid[r] \in Sessions /\ pc[r] = op /\ sid[r] # NoSession
      BY <2>2, SessionFacts, SessionManagerConstants DEF On
    <3>3. owner[sid[r]] = SupiOf[r]
      BY <3>2 DEF SessInv, Owning, Mine
    <3>4. QED BY <2>2, <3>1, <3>2, <3>3
  <2>3. ASSUME On(r, "update"),
               SM!UpdateSessionStatus(w, sid[r], MapSessionStatus("COMPLETED"))
        PROVE  SM!Begin(w, "update", sid[r], NoSupi,
                        SM!MapPbSessionStatus(MapSessionStatus("COMPLETED")), "get")
               /\ UNCHANGED owner /\ sid[r] \in issued
    BY <2>3 DEF SM!UpdateSessionStatus, SM!Addressable
  <2>4. ASSUME On(r, "delete"), SM!DeleteSession(w, sid[r])
        PROVE  SM!Begin(w, "delete", sid[r], NoSupi, "INIT", "get")
               /\ UNCHANGED owner /\ sid[r] \in issued
    BY <2>4 DEF SM!DeleteSession, SM!Addressable
  <2>5. CASE \E z \in Sessions : On(r, "create") /\ SM!CreateSession(w, z, SupiOf[r])
    BY <2>1, <2>5
  <2>6. CASE On(r, "update") /\ SM!UpdateSessionStatus(w, sid[r], MapSessionStatus("COMPLETED"))
    <3>1. /\ call[w].pc = "idle" /\ UNCHANGED sessTtl /\ sid[r] \in Sessions
          /\ call'[w].op = pc[r] /\ call'[w].sid = sid[r] /\ call'[w].pc # "idle"
          /\ \A v \in Workers \ {w} : call'[v] = call[v]
          /\ owner'[sid[r]] = SupiOf[r] /\ UNCHANGED owner
          /\ pc[r] # "create"
      BY <2>2, <2>3, <2>6
    <3>2. QED BY <3>1
  <2>7. CASE On(r, "delete") /\ SM!DeleteSession(w, sid[r])
    <3>1. /\ call[w].pc = "idle" /\ UNCHANGED sessTtl /\ sid[r] \in Sessions
          /\ call'[w].op = pc[r] /\ call'[w].sid = sid[r] /\ call'[w].pc # "idle"
          /\ \A v \in Workers \ {w} : call'[v] = call[v]
          /\ owner'[sid[r]] = SupiOf[r] /\ UNCHANGED owner
          /\ pc[r] # "create"
      BY <2>2, <2>4, <2>7
    <3>2. QED BY <3>1
  <2>8. QED BY <1>1, <2>5, <2>6, <2>7
<1>6. /\ Mine(r)' = s
      /\ pc[r] = "create" => Mine(r) = NoSession
      /\ pc[r] # "create" => Mine(r) = s
  BY <1>2, <1>5 DEF Mine
<1>7. \A q \in Requests \ {r} : Mine(q)' = Mine(q)
  BY <1>2, <1>4, <1>5 DEF Mine
<1>8. \A q \in Requests \ {r} : Mine(q) # s
  <2> SUFFICES ASSUME NEW q \in Requests \ {r}, Mine(q) = s PROVE FALSE
    OBVIOUS
  <2>1. owner[s] = SupiOf[q] /\ s # NoSession /\ \A p \in Requests : Mine(p) = s => p = q
    BY SessionManagerConstants DEF SessInv, Owning
  <2>2. CASE pc[r] = "create"
    BY <1>3, <1>5, <2>1, <2>2
  <2>3. QED BY <1>6, <2>1, <2>2
<1>9. \A v \in Workers \ {w} : call[v].sid = s /\ call[v].pc # "idle" =>
        pc[r] # "create" /\ r \in broke
  <2> SUFFICES ASSUME NEW v \in Workers \ {w}, call[v].sid = s, call[v].pc # "idle"
               PROVE  pc[r] # "create" /\ r \in broke
    OBVIOUS
  <2>1. pc[r] # "create"
    BY <1>5, SessionFacts DEF SessInv, NoLookups
  <2>2. s # NoSession /\ v # rpc[r]
    BY <1>2, SessionManagerConstants
  <2>3. QED BY <1>6, <2>1, <2>2 DEF SessInv, Alone
<1>10. NoLookups' /\ Early'
  BY <1>2, <1>5 DEF SessInv, NoLookups, Early
<1>11. Serving'
  BY <1>2, <1>4, <1>5, <1>6, <1>7 DEF SessInv, Serving
<1>12. Owning'
  BY <1>5, <1>6, <1>7, <1>8 DEF SessInv, Owning
<1>13. Alone'
  <2> SUFFICES ASSUME NEW q \in Requests \ broke, Mine(q)' # NoSession,
                      NEW v \in Workers, v # rpc'[q], call'[v].sid = Mine(q)'
               PROVE  call'[v].pc = "idle"
    BY <1>2 DEF Alone
  <2>1. CASE q = r
    BY <1>2, <1>5, <1>6, <1>9, <2>1
  <2>2. CASE q # r
    <3>1. v # w
      BY <1>5, <1>7, <1>8, <2>2
    <3>2. QED BY <1>2, <1>5, <1>7, <2>2, <3>1 DEF SessInv, Alone
  <2>3. QED BY <2>1, <2>2
<1>14. Closed'
  <2> SUFFICES ASSUME NEW q \in Requests \ broke, sid[q] # NoSession,
                      pc[q] = "done" \/ Removed(q)'
               PROVE  ~SM!Live(sid[q])
    BY <1>2, <1>5 DEF Closed, SM!Live
  <2>1. q # r
    BY <1>2, <1>5 DEF Removed
  <2>2. pc[q] = "done" \/ Removed(q)
    BY <1>2, <1>4, <1>5, <2>1 DEF Removed
  <2>3. QED BY <2>2 DEF SessInv, Closed
<1>15. QED BY <1>10, <1>11, <1>12, <1>13, <1>14 DEF SessInv

LEMMA SessNext == Types /\ SMP!IInv /\ SessInv /\ [Next]_vars => SessInv'
<1> SUFFICES ASSUME Types, SMP!IInv, SessInv, [Next]_vars PROVE SessInv'
  OBVIOUS
<1>1. CASE UNCHANGED <<pc, rpc, sid, broke, smVars>>
  BY <1>1 DEF smVars, SessInv, NoLookups, Serving, Early, Owning, Alone, Closed, Removed,
     Mine, SM!Live
<1>2. ASSUME NEW r \in Requests, Cancel(r) PROVE SessInv'
  BY <1>1, <1>2 DEF Cancel
<1>3. ASSUME NEW r \in Requests, DetermineLocation(r) \/ CheckPrivacy(r) PROVE SessInv'
  <2>1. /\ pc[r] \in {"idle", "privacy"} /\ rpc[r] = NoWorker
        /\ UNCHANGED <<rpc, sid, broke, smVars>>
    BY <1>3 DEF DetermineLocation, CheckPrivacy, On
  <2>2. sid[r] = NoSession
    BY <2>1 DEF SessInv, Early
  <2>3. \A q \in Requests \ {r} : pc'[q] = pc[q]
    BY <1>3, Goes, Returns DEF DetermineLocation, CheckPrivacy, Steps, CtxSteps, Outcomes
  <2>4. QED BY <2>1, <2>2, <2>3, LocalKeeps
<1>4. ASSUME NEW r \in Requests,
             \/ SelectMethods(r) \/ SelectFails(r) \/ TriggerLpp(r) \/ SendNrppa(r)
             \/ EngineSucceeds(r) \/ EngineFails(r)
      PROVE  SessInv'
  <2>1. /\ pc[r] \in {"caps", "lpp", "nrppa", "engine"} /\ rpc[r] = NoWorker
        /\ UNCHANGED <<rpc, sid, broke, smVars>>
        /\ \/ \E step \in {"lpp", "nrppa", "engine", "update"} : Goto(r, step)
           \/ Return(r, "failed")
           \/ UNCHANGED pc
    BY <1>4 DEF SelectMethods, SelectFails, TriggerLpp, SendNrppa, EngineSucceeds,
       EngineFails, On
  <2>2. /\ \A q \in Requests \ {r} : pc'[q] = pc[q]
        /\ pc'[r] \in {"idle", "privacy", "create", "done"} => sid[r] = NoSession
    BY <2>1, Goes, Returns DEF Steps, CtxSteps, Outcomes
  <2>3. QED BY <2>1, <2>2, LocalKeeps
<1>5. ASSUME NEW r \in Requests, SendCall(r) \/ CallReturns(r) \/ CallBreaks(r) PROVE SessInv'
  BY <1>5, SendCallKeeps, CallReturnsKeeps, CallBreaksKeeps
<1>6. CASE Crash
  BY <1>6, CrashKeeps
<1>7. CASE SessionService
  BY <1>7, RoundTripKeeps, TickKeeps DEF SessionService
<1>8. CASE UNCHANGED vars
  BY <1>1, <1>8 DEF vars, orchVars
<1>9. QED BY <1>2, <1>3, <1>4, <1>5, <1>6, <1>7, <1>8 DEF Next, Step

-----------------------------------------------------------------------------
(* The theorems.                                                           *)

OInv == Types /\ SMP!IInv /\ SessInv /\ Promised

LEMMA OInvInit == Init => OInv
<1>1. Init => Promised
  BY DEF Init, Promised, RequestPromised
<1>2. QED BY <1>1, TypesInit, SessionInit, SessInit DEF OInv

LEMMA OInvKept == OInv => Kept
BY DEF OInv, SessInv, Kept, Serving, Calling

LEMMA OInvNext == OInv /\ [Next]_vars => OInv'
<1> SUFFICES ASSUME OInv, [Next]_vars PROVE OInv'
  OBVIOUS
<1>1. Kept /\ Types /\ Calling /\ SMP!IInv /\ SessInv
  BY OInvKept DEF Kept, OInv
<1>2. Types' /\ SMP!IInv' /\ SessInv' /\ Promised'
  BY <1>1, TypesNext, SessionNext, SessNext, NextServed
<1>3. QED BY <1>2 DEF OInv

\* The inductive invariant of the orchestrator and its session manager: a call that is
\* out works on its request's session for no other request, nobody else works on that
\* session while no call of the request was given up, and what a request was granted
\* and measured is on record before it is answered.
THEOREM OrchestratorInvariance == Spec => []OInv
BY OInvInit, OInvNext, PTL DEF Spec

\* Every session is used by the request it was created for, and for that request's
\* subscriber, whatever calls were given up and their handlers reused.
THEOREM SessionsOwn == Spec => []OwnSession
<1>1. OInv => OwnSession
  <2> SUFFICES ASSUME OInv, NEW r \in Requests, sid[r] # NoSession
               PROVE  /\ owner[sid[r]] = SupiOf[r]
                      /\ \A q \in Requests : sid[q] = sid[r] => q = r
    BY DEF OwnSession
  <2>1. \A q \in Requests : sid[q] # NoSession => Mine(q) = sid[q]
    BY DEF OInv, SessInv, Early, Mine
  <2>2. QED BY <2>1 DEF OInv, SessInv, Owning
<1>2. QED BY <1>1, OrchestratorInvariance, PTL

\* A request that has returned leaves no session behind, whichever way it ended, unless
\* one of its session calls failed or was given up: also when the TTL, a late handler of
\* an earlier call or a crash got in between.
THEOREM SessionsClosed == Spec => []SessionClosed
<1>1. OInv => SessionClosed
  BY DEF OInv, SessInv, Closed, SessionClosed
<1>2. QED BY <1>1, OrchestratorInvariance, PTL

\* The orchestrator keeps what LocationService promises its callers: one answer,
\* measurement only with consent, a position only after a measurement, also when callers
\* cancel, calls break and the process dies.
THEOREM OrchestratorServes == Spec => ImplementsService
<1>1. Init => Service!Init
  <2> SUFFICES ASSUME Init PROVE Service!Init
    OBVIOUS
  <2>1. \A r \in Requests : Answered(r) = "idle"
    BY DEF Init, Answered
  <2>2. QED BY <2>1 DEF Init, Service!Init, Answered
<1>2. OInv /\ [Next]_vars => [Service!Next]_Service!serviceVars
  BY OInvKept, NextServed DEF Served
<1>3. QED BY <1>1, <1>2, OrchestratorInvariance, PTL DEF Spec, ImplementsService, Service!Spec

\* On the session manager that the orchestrator calls, a live session can be found
\* through its SUPI, except while a call is between its two keys or after a failed command.
THEOREM SessionsFindable == Spec => []SM!IndexCoversLive
<1>1. SMP!IInv => SM!IndexCoversLive
  BY DEF SMP!IInv, SMP!IndexCoversLive, SM!IndexCoversLive, SM!Live, SMP!Live, SM!Pending,
     SMP!Pending, SM!Indexed, SMP!Indexed, SM!SupiIndexKey, SMP!SupiIndexKey
<1>2. QED BY <1>1, SessionsOwned, PTL

-----------------------------------------------------------------------------
(* The plan of a request, from the selection to the last fallback.         *)

\* From the selection on there is a method to attempt, also after each engine that
\* failed: the steps that look at the first one have one.
PlanInv ==
    /\ plan \in [Requests -> Seq(Methods)]
    /\ \A r \in Requests : pc[r] \in {"lpp", "nrppa", "engine"} => plan[r] # <<>>

\* What GetUECapabilities answers becomes a plan that is sound for it.
LEMMA SelectedPlan ==
    ASSUME NEW caps \in CapSets \cup {{}}
    PROVE  /\ Select(Input(caps, 0, "DelayTolerant", FALSE)) \in Seq(Methods)
           /\ Select(Input(caps, 0, "DelayTolerant", FALSE)) # <<>>
           /\ Sound(Select(Input(caps, 0, "DelayTolerant", FALSE)), caps, FALSE)
<1>1. caps \in SUBSET Capabilities /\ caps # NoCapabilities
  BY DEF NoCapabilities, Capabilities
<1> DEFINE in == Input(caps, 0, "DelayTolerant", FALSE)
<1>2. in.caps = caps /\ in.response = "DelayTolerant" /\ in.indoor = FALSE
  BY DEF Input
<1>3. Select(in) = Plan(in)
  BY <1>1, ConversionsKeepPlan
<1> HIDE DEF in
<1>4. Plan(in) \in Seq(Methods) /\ Len(Plan(in)) >= 1 /\ Sound(Plan(in), caps, FALSE)
  BY <1>1, <1>2, SelectionSound
<1>5. Select(in) # <<>>
  BY <1>3, <1>4
<1>6. QED BY <1>3, <1>4, <1>5 DEF in

LEMMA PlanInit == Init => PlanInv
BY DEF Init, PlanInv

\* A step that leaves the plans alone, and brings no request to a step that needs one.
LEMMA PlanStays ==
    ASSUME PlanInv, UNCHANGED plan,
           \A r \in Requests : pc'[r] \in {"lpp", "nrppa", "engine"} =>
                               pc[r] \in {"lpp", "nrppa", "engine"}
    PROVE  PlanInv'
BY DEF PlanInv

\* Another engine is tried with what is left of the plan.
LEMMA PlanShrinks ==
    ASSUME NEW p \in Seq(Methods), Len(p) > 1
    PROVE  Tail(p) \in Seq(Methods) /\ Tail(p) # <<>>
<1>1. Len(Tail(p)) = Len(p) - 1 /\ Tail(p) \in Seq(Methods) /\ Len(p) \in Nat
  BY HeadTailProperties
<1>2. Len(Tail(p)) # 0
  BY <1>1
<1>3. QED BY <1>1, <1>2

LEMMA PlanNext == Types /\ Calling /\ PlanInv /\ [Next]_vars => PlanInv'
<1> SUFFICES ASSUME Types, Calling, PlanInv, [Next]_vars PROVE PlanInv'
  OBVIOUS
<1> USE DEF Steps, CtxSteps, Outcomes
<1>1. CASE UNCHANGED vars \/ SessionService
  BY <1>1 DEF vars, orchVars, SessionService, PlanInv
<1>2. CASE Crash
  BY <1>2, PlanStays DEF Crash
<1>3. ASSUME NEW r \in Requests, DetermineLocation(r) \/ Cancel(r) PROVE PlanInv'
  BY <1>3, Goes, PlanStays DEF DetermineLocation, Cancel
<1>4. ASSUME NEW r \in Requests, SendCall(r) PROVE PlanInv'
  BY <1>4, PlanStays DEF SendCall
<1>5. ASSUME NEW r \in Requests, CallReturns(r) PROVE PlanInv'
  <2> DEFINE ok == call[rpc[r]].res = "ok"
  <2>1. ok \in BOOLEAN /\ AfterCall(r, ok) /\ pc[r] \in {"create", "update", "delete"}
    BY <1>5 DEF CallReturns, Calling
  <2> HIDE DEF ok
  <2>2. pc'[r] \in {"caps", "done", "delete"} /\ \A q \in Requests \ {r} : pc'[q] = pc[q]
    BY <2>1, CallEnds
  <2>3. UNCHANGED plan
    BY <2>1 DEF AfterCall
  <2>4. QED BY <2>2, <2>3, PlanStays
<1>6. ASSUME NEW r \in Requests, CallBreaks(r) PROVE PlanInv'
  <2> DEFINE ok == FALSE
  <2>1. ok \in BOOLEAN /\ AfterCall(r, ok) /\ pc[r] \in {"create", "update", "delete"}
    BY <1>6 DEF CallBreaks
  <2> HIDE DEF ok
  <2>2. pc'[r] \in {"caps", "done", "delete"} /\ \A q \in Requests \ {r} : pc'[q] = pc[q]
    BY <2>1, CallEnds
  <2>3. UNCHANGED plan
    BY <2>1 DEF AfterCall
  <2>4. QED BY <2>2, <2>3, PlanStays
<1>7. ASSUME NEW r \in Requests, CheckPrivacy(r) \/ SelectFails(r) PROVE PlanInv'
  <2>1. pc'[r] \in {"create", "done", "delete"} /\ \A q \in Requests \ {r} : pc'[q] = pc[q]
    BY <1>7, Goes, Returns DEF CheckPrivacy, SelectFails
  <2>2. UNCHANGED plan
    BY <1>7 DEF CheckPrivacy, SelectFails
  <2>3. QED BY <2>1, <2>2, PlanStays
<1>8. ASSUME NEW r \in Requests, SelectMethods(r) PROVE PlanInv'
  <2>1. \A q \in Requests \ {r} : pc'[q] = pc[q]
    BY <1>8, Goes DEF SelectMethods
  <2>2. PICK p \in Seq(Methods) : p # <<>> /\ plan' = [plan EXCEPT ![r] = p]
    <3>1. PICK caps \in CapSets \cup {{}} :
            plan' = [plan EXCEPT ![r] = Select(Input(caps, 0, "DelayTolerant", FALSE))]
      BY <1>8 DEF SelectMethods
    <3>2. QED BY <3>1, SelectedPlan
  <2>3. QED BY <2>1, <2>2 DEF PlanInv
<1>9. ASSUME NEW r \in Requests, TriggerLpp(r) \/ SendNrppa(r) \/ EngineSucceeds(r) PROVE PlanInv'
  <2>1. pc[r] \in {"lpp", "nrppa", "engine"} /\ \A q \in Requests \ {r} : pc'[q] = pc[q]
    BY <1>9, Goes, Returns DEF TriggerLpp, SendNrppa, EngineSucceeds, On
  <2>2. UNCHANGED plan
    BY <1>9 DEF TriggerLpp, SendNrppa, EngineSucceeds
  <2>3. QED BY <2>1, <2>2, PlanStays
<1>10. ASSUME NEW r \in Requests, EngineFails(r) PROVE PlanInv'
  <2>1. CASE Len(plan[r]) > 1
    <3> DEFINE p == Tail(plan[r])
    <3>1. p \in Seq(Methods) /\ p # <<>>
      BY <2>1, PlanShrinks DEF PlanInv
    <3>2. plan' = [plan EXCEPT ![r] = p] /\ UNCHANGED pc
      BY <1>10, <2>1 DEF EngineFails
    <3> HIDE DEF p
    <3>3. QED BY <3>1, <3>2 DEF PlanInv
  <2>2. CASE ~(Len(plan[r]) > 1)
    <3>1. pc'[r] \in {"done", "delete"} /\ \A q \in Requests \ {r} : pc'[q] = pc[q]
      BY <1>10, <2>2, Returns DEF EngineFails
    <3>2. QED BY <1>10, <2>2, <3>1, PlanStays DEF EngineFails
  <2>3. QED BY <2>1, <2>2
<1>11. QED BY <1>1, <1>2, <1>3, <1>4, <1>5, <1>6, <1>7, <1>8, <1>9, <1>10 DEF Next, Step

\* Whatever engines fail and calls break: from the selection of the methods on, a request has
\* a method to attempt until it is answered, and never looks at the first of an empty list.
THEOREM PlansLast == Spec => []PlanInv
<1>1. OInv /\ PlanInv /\ [Next]_vars => PlanInv'
  BY PlanNext, OInvKept DEF Kept, OInv
<1>2. QED BY <1>1, PlanInit, OrchestratorInvariance, PTL DEF Spec

\* Every variable of the service keeps its type, through the conversions of the selector and
\* of both servers too: what the orchestrator attempts are methods it knows.
THEOREM OrchestratorTypes == Spec => []TypeOK
<1>1. SMP!IInv => SM!TypeOK
  BY DEF SMP!IInv, SMP!TypeOK, SM!TypeOK, SM!Status, SMP!Status, SM!Unborn, SMP!Unborn,
     SM!Value, SMP!Value, SM!Call, SMP!Call, SM!Steps, SMP!Steps, SM!Ops, SMP!Ops, SM!Results, SMP!Results,
     SM!Forever, SMP!Forever
<1>2. OInv /\ PlanInv => TypeOK
  BY <1>1 DEF OInv, Types, PlanInv, TypeOK
<1>3. QED BY <1>2, OrchestratorInvariance, PlansLast, PTL
==============================================================================
