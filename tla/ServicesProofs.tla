--------------------------- MODULE ServicesProofs ---------------------------
(***************************************************************************)
(* Proofs about the four machines of MCServices: the processes of the      *)
(* deployment, privacy-auth, sbi-gateway's registration with the NRF and   *)
(* event-manager's scheduler; first about each by itself, then about all   *)
(* of them as the runs compose them.  They are for every set of disturbed  *)
(* processes, every number of stops, deaths, outages, lost requests and    *)
(* restarts, every patience of the NRF, every set of client types and      *)
(* default classes, and every list of subscriptions, area and position.    *)
(***************************************************************************)
EXTENDS MCServices, FiniteSetTheorems, TLAPS

USE ServicesAssumption

-----------------------------------------------------------------------------
(* The registration with the NRF.                                          *)

\* Until the initial registration is answered nothing else has happened in this process,
\* and what answered it is the NRF's entry or was deleted since.
Registering ==
    /\ main \in {"start", "put"} => ~stopped /\ beat = "off" /\ failed = 0
    /\ main = "put" /\ fate["main"] = "ok" => nrf # "suspended" /\ age = 0
    /\ main \notin {"put", "delete"} => fate["main"] = "none"

\* The heartbeats are cancelled before the gateway deregisters, and end with it.
Stopping ==
    /\ main \in {"delete", "shutdown"} => stopped
    /\ main = "exited" => beat = "ended"

\* After a deregistration that nothing crossed no PUT is on its way.
Deleted ==
    gone = "clean" =>
        /\ Nrf!Leaving
        /\ nrf = "absent"
        /\ ~Nrf!PutUnderWay

\* The NRF counts no more periods than heartbeats failed, and one for the heartbeat
\* under way until its PUT is processed.
Counted ==
    ~stopped =>
        /\ beat = "wait" =>
            /\ nrf = "registered" => age <= failed
            /\ nrf = "suspended" => failed >= Patience - 1
        /\ beat = "put" /\ fate["beat"] = "sent" =>
            /\ nrf = "registered" => age <= failed + 1
            /\ nrf = "suspended" => failed >= Patience - 1
        /\ beat = "put" /\ fate["beat"] = "ok" => nrf # "suspended" /\ age = 0

NrfInv ==
    /\ Nrf!TypeOK
    /\ Registering
    /\ Stopping
    /\ Deleted
    /\ Counted
    /\ fate["beat"] = "none" <=> beat # "put"
    /\ nrf = "registered" => age < Patience

LEMMA NrfConstants ==
    Patience \in Nat /\ Patience > 0 /\ MaxFaults \in Nat /\ MaxRestarts \in Nat
BY DEF Nrf!RegistrarAssumption

LEMMA NrfInit == Nrf!Init => NrfInv
<1> SUFFICES ASSUME Nrf!Init PROVE NrfInv
  OBVIOUS
<1>1. /\ fate \in [Nrf!Callers -> {"none", "sent", "ok"}]
      /\ fate["main"] = "none" /\ fate["beat"] = "none"
  BY DEF Nrf!Init, Nrf!Callers
<1>2. /\ restarts \in 0 .. MaxRestarts /\ faults \in 0 .. MaxFaults
      /\ failed \in 0 .. Patience /\ age \in 0 .. Patience
  BY NrfConstants DEF Nrf!Init
<1>3. Nrf!TypeOK
  BY <1>1, <1>2 DEF Nrf!Init, Nrf!TypeOK
<1>4. Registering /\ Stopping /\ Deleted /\ Counted
  BY <1>1, NrfConstants DEF Nrf!Init, Registering, Stopping, Deleted, Counted
<1>5. QED BY <1>1, <1>3, <1>4 DEF Nrf!Init, NrfInv

\* The main goroutine registers and deregisters, and the process ends.
LEMMA NrfRegister == NrfInv /\ (Nrf!Register \/ Nrf!RegisterOk \/ Nrf!RegisterFails) => NrfInv'
<1> USE NrfConstants DEF NrfInv, Nrf!TypeOK, Nrf!Callers, Nrf!Methods, Registering, Stopping,
                         Deleted, Counted, Nrf!Leaving, Nrf!PutUnderWay
<1>1. NrfInv /\ Nrf!Register => NrfInv'
  BY DEF Nrf!Register, Nrf!Send
<1>2. NrfInv /\ Nrf!RegisterOk => NrfInv'
  BY DEF Nrf!RegisterOk, Nrf!Answered
<1>3. NrfInv /\ Nrf!RegisterFails => NrfInv'
  BY DEF Nrf!RegisterFails, Nrf!GivenUp, Nrf!Method
<1>4. QED BY <1>1, <1>2, <1>3

LEMMA NrfStops == NrfInv /\ (Nrf!Deregister \/ Nrf!DeregisterReturns) => NrfInv'
<1> USE NrfConstants DEF NrfInv, Nrf!TypeOK, Nrf!Callers, Nrf!Methods, Registering, Stopping,
                         Deleted, Counted, Nrf!Leaving, Nrf!PutUnderWay
<1>1. NrfInv /\ Nrf!Deregister => NrfInv'
  BY DEF Nrf!Deregister, Nrf!Send
<1>2. NrfInv /\ Nrf!DeregisterReturns => NrfInv'
  <2>1. CASE Nrf!Answered("main")
    BY <2>1 DEF Nrf!DeregisterReturns, Nrf!Answered
  <2>2. CASE Nrf!GivenUp("main")
    BY <2>2 DEF Nrf!DeregisterReturns, Nrf!GivenUp, Nrf!Method
  <2>3. QED BY <2>1, <2>2 DEF Nrf!DeregisterReturns
<1>3. QED BY <1>1, <1>2

\* What a process leaves on its way to the NRF is what its goroutines waited for.
LEMMA NrfEnds == NrfInv /\ (Nrf!Exit \/ Nrf!Dies \/ Nrf!StartAgain) => NrfInv'
<1> USE NrfConstants DEF NrfInv, Nrf!TypeOK, Nrf!Callers, Nrf!Methods, Registering, Stopping,
                         Deleted, Counted, Nrf!Leaving, Nrf!PutUnderWay
<1>1. ASSUME NrfInv, Nrf!Ends PROVE NrfInv'
  <2>1. PICK lost \in SUBSET Nrf!Callers :
            late' = late \cup
                {Nrf!Method(c) : c \in {d \in Nrf!Callers \ lost : fate[d] = "sent"}}
    BY <1>1 DEF Nrf!Ends
  <2>2. late' \in SUBSET Nrf!Methods
    BY <2>1, <1>1 DEF Nrf!Method
  <2>3. gone = "clean" => "PUT" \notin late'
    BY <2>1, <1>1 DEF Nrf!Method
  <2>4. QED BY <1>1, <2>2, <2>3 DEF Nrf!Ends
<1>2. ASSUME NrfInv, Nrf!StartAgain PROVE NrfInv'
  <2>1. /\ fate["main"] = "none" /\ fate["beat"] = "none" /\ main' = "start" /\ beat' = "off"
        /\ gone' = "no" /\ failed' = 0 /\ stopped' = FALSE /\ UNCHANGED <<fate, nrf, age>>
    BY <1>2 DEF Nrf!StartAgain
  <2>2. restarts' \in 0 .. MaxRestarts
    <3>1. restarts \in 0 .. MaxRestarts /\ restarts < MaxRestarts /\ restarts' = restarts + 1
      BY <1>2 DEF Nrf!StartAgain
    <3>2. QED BY ONLY <3>1, NrfConstants
  <2>3. failed' \in 0 .. Patience
    BY ONLY <2>1, NrfConstants
  <2>4. Nrf!TypeOK'
    BY <1>2, <2>1, <2>2, <2>3 DEF Nrf!StartAgain
  <2>5. QED BY <1>2, <2>1, <2>4
<1>3. QED BY <1>1, <1>2 DEF Nrf!Exit, Nrf!Dies

\* The heartbeats count what fails, the NRF what is missing.
LEMMA NrfBeats == NrfInv /\ (Nrf!Period \/ Nrf!LoopEnds \/ Nrf!HeartbeatReturns) => NrfInv'
<1> USE NrfConstants DEF NrfInv, Nrf!TypeOK, Nrf!Callers, Nrf!Methods, Registering, Stopping,
                         Deleted, Counted, Nrf!Leaving, Nrf!PutUnderWay
<1>1. NrfInv /\ Nrf!Period => NrfInv'
  BY DEF Nrf!Period, Nrf!Send
<1>2. NrfInv /\ Nrf!LoopEnds => NrfInv'
  BY DEF Nrf!LoopEnds
<1>3. NrfInv /\ Nrf!HeartbeatReturns => NrfInv'
  <2>1. CASE Nrf!Answered("beat") /\ failed' = 0
    BY <2>1 DEF Nrf!HeartbeatReturns, Nrf!Answered
  <2>2. CASE Nrf!GivenUp("beat") /\ failed' = (IF failed < Patience THEN failed + 1 ELSE failed)
    BY <2>2 DEF Nrf!HeartbeatReturns, Nrf!GivenUp, Nrf!Method
  <2>3. QED BY <2>1, <2>2 DEF Nrf!HeartbeatReturns
<1>4. QED BY <1>1, <1>2, <1>3

\* The NRF processes a DELETE of this process, or a late one of its predecessor.
LEMMA NrfProcesses == NrfInv /\ (Nrf!ProcessRequest \/ Nrf!NrfRestarts) => NrfInv'
<1> USE NrfConstants DEF NrfInv, Nrf!TypeOK, Nrf!Callers, Nrf!Methods, Registering, Stopping,
                         Deleted, Counted, Nrf!Leaving, Nrf!PutUnderWay
<1>1. NrfInv /\ Nrf!ProcessRequest => NrfInv'
  <2>1. ASSUME NrfInv, Nrf!ProcessRequest,
               NEW c \in Nrf!Callers, fate[c] = "sent", Nrf!Process(Nrf!Method(c)),
               fate' = [fate EXCEPT ![c] = "ok"], UNCHANGED late
        PROVE  NrfInv'
    BY <2>1 DEF Nrf!ProcessRequest, Nrf!Process, Nrf!Method
  <2>2. ASSUME NrfInv, Nrf!ProcessRequest,
               NEW m \in late, Nrf!Process(m), late' = late \ {m}, UNCHANGED fate
        PROVE  NrfInv'
    BY <2>2 DEF Nrf!ProcessRequest, Nrf!Process
  <2>3. QED BY <2>1, <2>2 DEF Nrf!ProcessRequest
<1>2. NrfInv /\ Nrf!NrfRestarts => NrfInv'
  BY DEF Nrf!NrfRestarts
<1>3. QED BY <1>1, <1>2

LEMMA NrfNext == NrfInv /\ [Nrf!Next]_Nrf!vars => NrfInv'
<1>1. NrfInv /\ UNCHANGED Nrf!vars => NrfInv'
  BY DEF Nrf!vars, NrfInv, Nrf!TypeOK, Registering, Stopping, Deleted, Counted,
         Nrf!Leaving, Nrf!PutUnderWay
<1>2. QED BY <1>1, NrfRegister, NrfStops, NrfEnds, NrfBeats, NrfProcesses
      DEF Nrf!Next, Nrf!Main

\* The NRF's count of missed periods and the gateway's count of failed heartbeats agree in
\* every reachable state.
THEOREM RegistrarInvariance == Nrf!Spec => []NrfInv
BY NrfInit, NrfNext, PTL DEF Nrf!Spec

\* A gateway that serves and heartbeats is suspended only when every heartbeat of the NRF's
\* patience but the one under way failed, whatever is late or lost and however often the
\* NRF restarts.
THEOREM SuspensionExplained == Nrf!Spec => []SuspendedOnlyAfterFailures
<1>1. NrfInv => SuspendedOnlyAfterFailures
  BY DEF NrfInv, Nrf!TypeOK, Nrf!Callers, Counted, SuspendedOnlyAfterFailures,
         Nrf!SuspendedOnlyAfterFailures
<1>2. QED BY <1>1, RegistrarInvariance, PTL

\* Once the NRF has deleted the entry of a gateway that stops, only a PUT that was under way
\* then, or a tick that won against the cancellation, brings it back before the gateway
\* starts again.
THEOREM DeregistrationKept == Nrf!Spec => []DeregistrationLasts
<1>1. NrfInv => DeregistrationLasts
  BY DEF NrfInv, Deleted, DeregistrationLasts, Nrf!DeregistrationLasts
<1>2. QED BY <1>1, RegistrarInvariance, PTL

-----------------------------------------------------------------------------
(* The processes of the deployment, and the request on its way through     *)
(* them.                                                                   *)

\* The steps of a request that has lost its result.
Lost == {"lppLost", "failing", "error"}

\* Whatever is missing is recorded, and what was lost has a recorded cause.  The
\* first part carries the argument: a call fails where its callee is in ToCall and
\* does not serve or is not reached yet, which the history has seen before the call.
FInv ==
    /\ Excused => excused
    /\ step \in Lost => excused
    /\ FailsOnlyWhenHit

LEMMA FInit == Init => FInv
BY DEF Init, FInv, Excused, ToCall, Active, Lost, FailsOnlyWhenHit

-----------------------------------------------------------------------------
(* The processes: the ways in which one, or the request, moves.            *)

\* A change that leaves the request alone and notes what is missing.
LEMMA RequestKept ==
    ASSUME FInv, UNCHANGED <<step, status>>, NoteExcuse
    PROVE  FInv'
BY DEF FInv, NoteExcuse, FailsOnlyWhenHit

\* A step of the request that notes what is missing, and loses the result only with
\* a recorded cause.
LEMMA RequestGoes ==
    ASSUME FInv, NEW from, NEW to, Goto(from, to), to \in Lost => excused
    PROVE  FInv'
BY DEF FInv, Goto, NoteExcuse, FailsOnlyWhenHit

\* A process ends with a recorded cause, or no handler of the request in it.
LEMMA ProcessEnds ==
    ASSUME FInv, NEW s, Ends(s), excused' = (excused \/ s \in Handlers \/ Excused')
    PROVE  FInv'
<1>1. CASE s \in Handlers
  BY <1>1 DEF FInv, FailsOnlyWhenHit
<1>2. CASE s \notin Handlers
  <2>1. UNCHANGED <<step, status>>
    BY <1>2 DEF Ends, Handlers, Waiting
  <2>2. NoteExcuse
    BY <1>2 DEF NoteExcuse
  <2>3. QED BY <2>1, <2>2, RequestKept
<1>3. QED BY <1>1, <1>2

\* A shutdown that returns had no handler of the request to wait for, or the request
\* came over HTTP/2, and that was recorded.
LEMMA ShutdownReturns ==
    ASSUME FInv, NEW s, StopReturns(s)
    PROVE  FInv'
<1>1. Ends(s) /\ NoteExcuse /\ ~Awaited(s) /\ Now(s) \in Closing
  BY DEF StopReturns
<1>2. s \in Handlers => excused
  BY <1>1 DEF Awaited, Handlers, Excused, FInv
<1>3. excused' = (excused \/ s \in Handlers \/ Excused')
  BY <1>1, <1>2 DEF NoteExcuse
<1>4. QED BY <1>1, <1>3, ProcessEnds

-----------------------------------------------------------------------------
(* The processes: the steps of the request.                                *)

LEMMA RequestStepInv ==
    ASSUME FInv, RequestStep
    PROVE  FInv'
<1>1. ASSUME Forward PROVE FInv'
  <2>1. step = "forward" /\ ~Reaches("location") => excused
    BY DEF FInv, Excused, ToCall, Reaches
  <2>2. QED BY <1>1, <2>1, RequestGoes DEF Forward, Call, Lost, Goto
<1>2. ASSUME Create PROVE FInv'
  <2>1. step = "create" /\ ~(Reaches("session") /\ Redis) => excused
    BY DEF FInv, Excused, ToCall, Reaches
  <2>2. QED BY <1>2, <2>1, RequestGoes DEF Create, Call, Lost, Goto
<1>3. ASSUME GetCapabilities \/ CapabilitiesReturn \/ SendNrppa \/ RunEngines PROVE FInv'
  BY <1>3, RequestGoes
     DEF GetCapabilities, CapabilitiesReturn, SendNrppa, RunEngines, Call, Local, Lost
<1>4. ASSUME Select PROVE FInv'
  <2>1. step = "select" /\ ~Reaches("selector") => excused
    BY DEF FInv, Excused, ToCall, Reaches
  <2>2. QED BY <1>4, <2>1, RequestGoes DEF Select, Call, Lost, Goto
<1>5. ASSUME SendLpp PROVE FInv'
  <2>1. step = "lpp" /\ ~(Reaches("protocol") /\ Redis) => excused
    BY DEF FInv, Excused, ToCall, Reaches
  <2>2. QED BY <1>5, <2>1, RequestGoes DEF SendLpp, Call, Lost, Goto
<1>6. ASSUME UeAnswers PROVE FInv'
  <2>1. step = "lppWait" /\ ~(Redis /\ Serving("gateway")) => excused
    BY DEF FInv, Excused, ToCall
  <2>2. QED BY <1>6, <2>1, RequestGoes DEF UeAnswers, Local, Lost, Goto
<1>7. ASSUME LppTimesOut PROVE FInv'
  <2>1. step = "lppLost" => excused
    BY DEF FInv, Lost
  <2>2. step = "lppWait" /\ ue = "silent" => excused
    BY DEF FInv, Excused, Active
  <2>3. QED BY <1>7, <2>1, <2>2, RequestGoes DEF LppTimesOut, Local, Lost, Goto
<1>8. ASSUME Close PROVE FInv'
  <2>1. step = "failing" => excused
    BY DEF FInv, Lost
  <2>2. QED BY <1>8, <2>1, RequestGoes DEF Close, Call, Lost, Goto
<1>9. ASSUME Answer PROVE FInv'
  <2>1. step = "error" => excused
    BY DEF FInv, Lost
  <2>2. ~Excused'
    BY <1>9 DEF Answer, Excused, ToCall, Active
  <2>3. QED BY <1>9, <2>1, <2>2 DEF Answer, FInv, Lost, FailsOnlyWhenHit
<1>10. QED
  BY <1>1, <1>2, <1>3, <1>4, <1>5, <1>6, <1>7, <1>8, <1>9 DEF RequestStep

-----------------------------------------------------------------------------
(* The processes: every step, and what is known of every behaviour.        *)

LEMMA FNext == FInv /\ [Next]_vars => FInv'
<1>. SUFFICES ASSUME FInv, [Next]_vars PROVE FInv'
  OBVIOUS
<1>1. CASE UNCHANGED vars
  BY <1>1 DEF vars, FInv, FailsOnlyWhenHit, Lost, Excused, ToCall, Serving, Redis, Active, Now
<1>2. ASSUME Post PROVE FInv'
  BY <1>2, RequestGoes DEF Post, Local, Lost
<1>3. ASSUME RequestStep PROVE FInv'
  BY <1>3, RequestStepInv
<1>4. ASSUME NEW s \in Disturbed, Progress(s) PROVE FInv'
  <2>1. CASE StartContainer(s)
    BY <2>1, RequestKept DEF StartContainer
  <2>2. CASE MainStep(s)
    BY <2>2, RequestKept DEF MainStep
  <2>3. CASE StopReturns(s)
    BY <2>3, ShutdownReturns
  <2>4. QED BY <1>4, <2>1, <2>2, <2>3 DEF Progress
<1>5. ASSUME NEW s \in Disturbed, Sigterm(s) PROVE FInv'
  <2>1. CASE UNCHANGED <<step, status>> /\ NoteExcuse
    BY <2>1, RequestKept
  <2>2. CASE EndsUnderway(s)
    BY <2>2, ProcessEnds DEF EndsUnderway
  <2>3. QED BY <1>5, <2>1, <2>2 DEF Sigterm
<1>6. ASSUME NEW s \in Disturbed, GraceEnds(s) \/ Kill(s) PROVE FInv'
  BY <1>6, ProcessEnds DEF GraceEnds, Kill, EndsUnderway
<1>7. ASSUME NEW x \in Stores, StoreDown(x) \/ StoreUp(x) PROVE FInv'
  BY <1>7, RequestKept DEF StoreDown, StoreUp
<1>8. ASSUME NEW s \in Callees, ConnectFails(s) \/ Reconnects(s) PROVE FInv'
  BY <1>8, RequestKept DEF ConnectFails, Reconnects
<1>9. QED
  BY <1>1, <1>2, <1>3, <1>4, <1>5, <1>6, <1>7, <1>8 DEF Next

\* A request is refused or cut off only when something it still needed was missing, died
\* under it, or was not reached again yet, whichever processes are disturbed, and how often.
THEOREM FailuresHaveCauses == Spec => []FailsOnlyWhenHit
<1>1. FInv => FailsOnlyWhenHit
  BY DEF FInv
<1>2. QED BY <1>1, FInit, FNext, PTL DEF Spec

-----------------------------------------------------------------------------
(* privacy-auth.                                                           *)

\* What the places a handler has passed say about its request.
Placed(r) ==
    /\ pc[r] = "token" => class[r] = "none" /\ answer[r] = "none"
    /\ pc[r] = "policy" => token[r] = "valid" /\ class[r] = "none" /\ answer[r] = "none"
    /\ pc[r] \in {"class", "consent"} =>
          token[r] = "valid" /\ class[r] # "none" /\ answer[r] = "none"
    /\ pc[r] = "consent" => class[r] = "C"
    /\ pc[r] = "audit" => class[r] \in Classes /\ answer[r] \in {"allowed", "denied"}

\* Where the class of a request comes from.
Classified(r) ==
    \/ class[r] \in {"none", "B", "C"}
    \/ class[r] = "A" /\ client[r] \in Bypassing
    \/ class[r] = defaultClass

\* Only requests with a valid token and of class A or B are allowed.
Permitted(r) ==
    answer[r] = "allowed" => token[r] = "valid" /\ class[r] \in {"A", "B"}

\* The record of a request is made when it ends, says what was answered, and misses
\* only where Cassandra may fail.
Recorded(r) ==
    /\ \A o \in {"ALLOWED", "DENIED"} : <<r, o>> \in audit =>
          /\ pc[r] = "done"
          /\ answer[r] = (IF o = "ALLOWED" THEN "allowed" ELSE "denied")
    /\ pc[r] = "done" /\ class[r] \in Classes /\ "audit" \notin failing
       => \E o \in {"ALLOWED", "DENIED"} : <<r, o>> \in audit

PInv ==
    /\ PrivacyTypeOK
    /\ \A r \in Requests : Placed(r) /\ Classified(r) /\ Permitted(r) /\ Recorded(r)

LEMMA PInit == PrivacyInit => PInv
BY PrivacyAssumption
   DEF PrivacyInit, PInv, PrivacyTypeOK, Placed, Classified, Permitted, Recorded, Classes

\* A step of one handler leaves the other requests as they were.
OthersKept(r) ==
    \A q \in Requests \ {r} :
        /\ pc'[q] = pc[q] /\ class'[q] = class[q] /\ answer'[q] = answer[q]
        /\ \A o \in {"ALLOWED", "DENIED"} : <<q, o>> \in audit' <=> <<q, o>> \in audit

LEMMA Others ==
    ASSUME PInv, NEW r \in Requests, OthersKept(r), UNCHANGED inputs, PrivacyTypeOK',
           Placed(r)', Classified(r)', Permitted(r)', Recorded(r)'
    PROVE  PInv'
<1>1. ASSUME NEW q \in Requests \ {r}
      PROVE  (Placed(q) /\ Classified(q) /\ Permitted(q) /\ Recorded(q))'
  <2>1. Placed(q)'
    BY <1>1 DEF OthersKept, PInv, Placed, inputs
  <2>2. Classified(q)'
    BY <1>1 DEF OthersKept, PInv, Classified, inputs
  <2>3. Permitted(q)'
    BY <1>1 DEF OthersKept, PInv, Permitted, inputs
  <2>4. Recorded(q)'
    BY <1>1 DEF OthersKept, PInv, Recorded, inputs
  <2>5. QED BY <2>1, <2>2, <2>3, <2>4
<1>2. QED BY <1>1 DEF PInv

-----------------------------------------------------------------------------
(* privacy-auth: the handler's steps.                                      *)

LEMMA ValidateTokenInv ==
    ASSUME PInv, NEW r \in Requests, ValidateToken(r)
    PROVE  PInv'
<1>1. PrivacyTypeOK'
  BY DEF PInv, PrivacyTypeOK, ValidateToken, Proceed, Decide, inputs
<1>2. OthersKept(r) /\ UNCHANGED inputs
  BY DEF PInv, PrivacyTypeOK, ValidateToken, Proceed, Decide, OthersKept
<1>3. Placed(r)' /\ Classified(r)' /\ Permitted(r)'
  BY DEF PInv, PrivacyTypeOK, ValidateToken, Proceed, Decide, inputs, Placed,
         Classified, Permitted
<1>4. Recorded(r)'
  BY DEF PInv, PrivacyTypeOK, ValidateToken, Proceed, Decide, inputs, Placed,
         Recorded, Classes
<1>5. QED BY <1>1, <1>2, <1>3, <1>4, Others

LEMMA BypassInv ==
    ASSUME PInv, NEW r \in Requests, Bypass(r)
    PROVE  PInv'
<1>1. PrivacyTypeOK'
  BY DEF PInv, PrivacyTypeOK, Bypass, Proceed, Decide, inputs, Classes
<1>2. OthersKept(r) /\ UNCHANGED inputs
  BY DEF PInv, PrivacyTypeOK, Bypass, Proceed, Decide, OthersKept
<1>3. Placed(r)' /\ Classified(r)' /\ Permitted(r)'
  BY DEF PInv, PrivacyTypeOK, Bypass, Proceed, Decide, inputs, Placed, Classified,
         Permitted, Classes
<1>4. Recorded(r)'
  BY DEF PInv, PrivacyTypeOK, Bypass, Proceed, Decide, inputs, Recorded
<1>5. QED BY <1>1, <1>2, <1>3, <1>4, Others

LEMMA FetchProfileInv ==
    ASSUME PInv, NEW r \in Requests, FetchProfile(r)
    PROVE  PInv'
<1>1. PICK c \in {"B", "C", defaultClass} : class' = [class EXCEPT ![r] = c]
  BY DEF FetchProfile
<1>2. defaultClass \in Classes \cup {"other"}
  BY PrivacyAssumption DEF PInv, PrivacyTypeOK
<1>3. PrivacyTypeOK'
  BY <1>1, <1>2 DEF PInv, PrivacyTypeOK, FetchProfile, Proceed, inputs, Classes
<1>4. OthersKept(r) /\ UNCHANGED inputs
  BY <1>1 DEF PInv, PrivacyTypeOK, FetchProfile, Proceed, OthersKept
<1>5. Placed(r)' /\ Classified(r)' /\ Permitted(r)'
  BY <1>1, <1>2 DEF PInv, PrivacyTypeOK, FetchProfile, Proceed, inputs, Placed, Classified,
                    Permitted, Classes
<1>6. Recorded(r)'
  BY DEF PInv, PrivacyTypeOK, FetchProfile, Proceed, inputs, Recorded
<1>7. QED BY <1>3, <1>4, <1>5, <1>6, Others

LEMMA ApplyClassInv ==
    ASSUME PInv, NEW r \in Requests, ApplyClass(r)
    PROVE  PInv'
<1>1. /\ UNCHANGED <<inputs, class, cancelled, audit>>
      /\ pc[r] = "class" /\ token[r] = "valid" /\ answer[r] = "none"
  BY DEF PInv, PrivacyTypeOK, ApplyClass, Placed
<1>2. \E a \in {"none", "allowed", "denied", "error"}, s \in {"consent", "audit", "done"} :
         /\ pc' = [pc EXCEPT ![r] = s]
         /\ answer' = [answer EXCEPT ![r] = a]
         /\ \/ a = "allowed" /\ s = "audit" /\ class[r] \in {"A", "B"}
            \/ a = "none" /\ s = "consent" /\ class[r] = "C"
            \/ a = "denied" /\ s = "audit" /\ class[r] = "D"
            \/ a = "error" /\ s = "done" /\ class[r] \notin Classes
  <2>1. CASE class[r] \in {"A", "B"}
    BY <2>1, <1>1 DEF ApplyClass, Proceed, Decide
  <2>2. CASE class[r] = "C"
    <3>1. Proceed(r, "consent") /\ UNCHANGED answer
      BY <2>2 DEF ApplyClass
    <3>2. answer' = [answer EXCEPT ![r] = "none"]
      BY <3>1, <1>1 DEF PInv, PrivacyTypeOK
    <3>3. QED BY <2>2, <3>1, <3>2 DEF Proceed
  <2>3. CASE class[r] = "D"
    BY <2>3, <1>1 DEF ApplyClass, Proceed, Decide
  <2>4. CASE class[r] \notin Classes
    BY <2>4, <1>1 DEF ApplyClass, Proceed, Decide, Classes
  <2>5. QED BY <2>1, <2>2, <2>3, <2>4 DEF Classes
<1>3. PICK a \in {"none", "allowed", "denied", "error"}, s \in {"consent", "audit", "done"} :
         /\ pc' = [pc EXCEPT ![r] = s]
         /\ answer' = [answer EXCEPT ![r] = a]
         /\ \/ a = "allowed" /\ s = "audit" /\ class[r] \in {"A", "B"}
            \/ a = "none" /\ s = "consent" /\ class[r] = "C"
            \/ a = "denied" /\ s = "audit" /\ class[r] = "D"
            \/ a = "error" /\ s = "done" /\ class[r] \notin Classes
  BY <1>2
<1>4. PrivacyTypeOK'
  BY <1>1, <1>3 DEF PInv, PrivacyTypeOK, inputs
<1>5. OthersKept(r) /\ UNCHANGED inputs
  BY <1>1, <1>3 DEF PInv, PrivacyTypeOK, OthersKept
<1>6. pc'[r] = s /\ answer'[r] = a /\ class'[r] = class[r] /\ class[r] # "none"
  BY <1>1, <1>3 DEF PInv, PrivacyTypeOK, Placed
<1>7. Placed(r)' /\ Classified(r)' /\ Permitted(r)'
  BY <1>1, <1>3, <1>6 DEF PInv, Placed, Classified, Permitted, inputs, Classes
<1>8. Recorded(r)'
  <2>1. \A o \in {"ALLOWED", "DENIED"} : <<r, o>> \notin audit'
    BY <1>1 DEF PInv, Recorded
  <2>2. ~(pc'[r] = "done" /\ class'[r] \in Classes)
    BY <1>3, <1>6 DEF Classes
  <2>3. QED BY <2>1, <2>2 DEF Recorded, Classes
<1>9. QED BY <1>4, <1>5, <1>7, <1>8, Others

LEMMA WaitForConsentInv ==
    ASSUME PInv, NEW r \in Requests, WaitForConsent(r)
    PROVE  PInv'
<1>1. PrivacyTypeOK'
  BY DEF PInv, PrivacyTypeOK, WaitForConsent, Proceed, Decide, inputs
<1>2. OthersKept(r) /\ UNCHANGED inputs
  BY DEF PInv, PrivacyTypeOK, WaitForConsent, Proceed, Decide, OthersKept
<1>3. Placed(r)' /\ Classified(r)' /\ Permitted(r)'
  BY DEF PInv, PrivacyTypeOK, WaitForConsent, Proceed, Decide, inputs, Placed, Classified,
         Permitted, Classes
<1>4. Recorded(r)'
  BY DEF PInv, PrivacyTypeOK, WaitForConsent, Proceed, Decide, inputs, Recorded
<1>5. QED BY <1>1, <1>2, <1>3, <1>4, Others

LEMMA WriteAuditInv ==
    ASSUME PInv, NEW r \in Requests, WriteAudit(r)
    PROVE  PInv'
<1>1. /\ UNCHANGED <<inputs, class, answer, cancelled>>
      /\ pc[r] = "audit" /\ pc' = [pc EXCEPT ![r] = "done"]
      /\ answer[r] \in {"allowed", "denied"}
      /\ \A o \in {"ALLOWED", "DENIED"} : <<r, o>> \notin audit
  BY DEF PInv, Placed, Recorded, WriteAudit, Proceed
<1>2. audit' = audit \cup {<<r, Outcome(r)>>} \/ ("audit" \in failing /\ audit' = audit)
  BY DEF WriteAudit
<1>3. PrivacyTypeOK'
  BY <1>1, <1>2 DEF PInv, PrivacyTypeOK, inputs, Outcome
<1>4. OthersKept(r) /\ UNCHANGED inputs
  BY <1>1, <1>2 DEF PInv, PrivacyTypeOK, OthersKept
<1>5. Placed(r)' /\ Classified(r)' /\ Permitted(r)'
  BY <1>1 DEF PInv, PrivacyTypeOK, inputs, Placed, Classified, Permitted
<1>6. Recorded(r)'
  BY <1>1, <1>2 DEF PInv, PrivacyTypeOK, inputs, Outcome, Recorded
<1>7. QED BY <1>3, <1>4, <1>5, <1>6, Others

\* The caller that goes away touches nothing the invariant names but its own set.
LEMMA CancelInv ==
    ASSUME PInv, NEW r \in Requests, Cancel(r)
    PROVE  PInv'
<1>1. UNCHANGED <<inputs, pc, class, answer, audit>>
  BY DEF Cancel
<1>2. PrivacyTypeOK'
  BY <1>1 DEF PInv, PrivacyTypeOK, inputs, Cancel
<1>3. QED
  BY <1>1, <1>2 DEF PInv, inputs, Placed, Classified, Permitted, Recorded

LEMMA PNext == PInv /\ [PrivacyNext]_privacyVars => PInv'
<1> SUFFICES ASSUME PInv, [PrivacyNext]_privacyVars PROVE PInv'
  OBVIOUS
<1>1. CASE UNCHANGED privacyVars
  BY <1>1 DEF PInv, privacyVars, PrivacyTypeOK, Placed, Classified, Permitted, Recorded
<1>2. ASSUME NEW r \in Requests, Handle(r) PROVE PInv'
  BY <1>2, ValidateTokenInv, BypassInv, FetchProfileInv, ApplyClassInv,
     WaitForConsentInv, WriteAuditInv DEF Handle
<1>3. ASSUME NEW r \in Requests, Cancel(r) PROVE PInv'
  BY <1>3, CancelInv
<1>4. QED BY <1>1, <1>2, <1>3 DEF PrivacyNext

-----------------------------------------------------------------------------
(* privacy-auth: what is known of every behaviour.                         *)

\* Every reachable state of a request agrees with the place of its handler.
THEOREM PrivacyInvariance == PrivacySpec => []PInv
<1>1. PrivacyInit => PInv
  BY PInit
<1>2. PInv /\ [PrivacyNext]_privacyVars => PInv'
  BY PNext
<1>3. QED BY <1>1, <1>2, PTL DEF PrivacySpec

\* Every variable keeps its type.
THEOREM PrivacyTypes == PrivacySpec => []PrivacyTypeOK
<1>1. PInv => PrivacyTypeOK
  BY DEF PInv
<1>2. QED BY <1>1, PrivacyInvariance, PTL

\* checkPrivacy never allows a request against the subscriber's class or without a
\* valid token, whatever fails, is cancelled or interleaves.
THEOREM PolicyKept == PrivacySpec => []AllowedByPolicy
<1>1. PInv => AllowedByPolicy
  BY DEF PInv, Classified, Permitted, AllowedByPolicy
<1>2. PrivacySpec => []PInv
  BY PrivacyInvariance
<1>3. QED BY <1>1, <1>2, PTL

\* lcs_audit says what was answered, and misses a record only where Cassandra failed.
THEOREM AuditKept == PrivacySpec => []AuditTruthful
<1>1. PInv => AuditTruthful
  BY DEF PInv, Recorded, AuditTruthful
<1>2. PrivacySpec => []PInv
  BY PrivacyInvariance
<1>3. QED BY <1>1, <1>2, PTL

-----------------------------------------------------------------------------
(* The processes: their types.                                             *)

\* Every program ends with the step in which it closes, after it has served, asked for its
\* signal and waited for it.
LEMMA ProgramShapes ==
    ASSUME NEW s \in Services
    PROVE  /\ Len(Program[s]) \in Nat /\ DOMAIN Program[s] = 1 .. Len(Program[s])
           /\ Len(Program[s]) >= 1
           /\ Program[s][Len(Program[s])] \in Closing
           /\ \E k \in 1 .. Len(Program[s]) : Program[s][k] = "quit"
<1> DEFINE Words == {"ping", "redis", "cassandra", "serve", "Register", "notify", "quit",
                     "GracefulStop", "Deregister", "Shutdown"}
           Shaped(p) == /\ p \in Seq(Words) /\ Len(p) >= 1 /\ p[Len(p)] \in Closing
                        /\ \E k \in 1 .. Len(p) : p[k] = "quit"
<1>1. ASSUME NEW x \in Words, NEW p, Shaped(p) PROVE Shaped(<<x>> \o p)
  <2> DEFINE w == <<x>> \o p
  <2>1. w \in Seq(Words) /\ Len(p) \in Nat /\ Len(w) = Len(p) + 1
    BY <1>1
  <2>2. \A k \in 1 .. Len(p) : k + 1 \in 1 .. Len(w) /\ w[k + 1] = p[k]
    BY <1>1
  <2> HIDE DEF w
  <2>3. Len(w) >= 1 /\ w[Len(w)] = p[Len(p)]
    BY <1>1, <2>1, <2>2
  <2>4. \E k \in 1 .. Len(w) : w[k] = "quit"
    BY <1>1, <2>2
  <2>5. QED BY <1>1, <2>1, <2>3, <2>4 DEF w
<1>2. Shaped(Drain)
  <2>1. Drain \in Seq(Words) /\ Len(Drain) = 3 /\ Drain[2] = "quit" /\ Drain[3] \in Closing
    BY DEF Drain, Closing
  <2>2. QED BY <2>1
<1>3. Shaped(SbiGatewayMain)
  <2>1. /\ SbiGatewayMain \in Seq(Words) /\ Len(SbiGatewayMain) = 7
        /\ SbiGatewayMain[5] = "quit" /\ SbiGatewayMain[7] \in Closing
    BY DEF SbiGatewayMain, Closing
  <2>2. QED BY <2>1
<1> HIDE DEF Shaped
<1>4. \A x \in {"serve", "redis", "ping", "cassandra"} : x \in Words
  OBVIOUS
<1>5. Shaped(GrpcMain)
  BY <1>1, <1>2, <1>4, Zenon DEF GrpcMain
<1>6. Shaped(RedisMain) /\ Shaped(PingMain) /\ Shaped(PrivacyAuthMain)
  BY <1>1, <1>4, <1>5, Zenon DEF RedisMain, PingMain, PrivacyAuthMain
<1>7. Shaped(Program[s])
  BY <1>3, <1>5, <1>6
     DEF Program, Services, LocationRequestMain, SessionManagerMain, ProtocolHandlerMain,
         MethodSelectorMain, GnssEngineMain, TdoaEngineMain, EcidEngineMain, RttEngineMain,
         FusionEngineMain, QosManagerMain, AssistanceDataMain, EventManagerMain
<1>8. QED BY <1>7 DEF Shaped

FTypes == at \in [Services -> Nat] /\ TypeOK

LEMMA FTypesInit == Init => FTypes
<1> SUFFICES ASSUME Init PROVE FTypes
  OBVIOUS
<1>1. ASSUME NEW s \in Services PROVE QuitAt[s] \in 1 .. Len(Program[s])
  <2> DEFINE Is(k) == k \in DOMAIN Program[s] /\ Program[s][k] = "quit"
  <2>1. \E k : Is(k)
    BY ProgramShapes
  <2>2. Is(CHOOSE k : Is(k))
    BY <2>1
  <2>3. QuitAt[s] = CHOOSE k \in DOMAIN Program[s] : Program[s][k] = "quit"
    BY DEF QuitAt, Position
  <2>4. QuitAt[s] \in DOMAIN Program[s]
    BY <2>2, <2>3
  <2>5. QED BY <2>4, ProgramShapes
<1>2. QuitAt = [s \in Services |-> QuitAt[s]]
  BY DEF QuitAt, Position
<1>3. at \in [Services -> Nat] /\ \A s \in Services : at[s] \in 0 .. Len(Program[s])
  BY <1>1, <1>2, ProgramShapes DEF Init
<1>4. stops \in 0 .. MaxStops /\ kills \in 0 .. MaxKills /\ outages \in 0 .. MaxOutages
  <2>1. \A n \in Nat : 0 \in 0 .. n
    OBVIOUS
  <2>2. QED BY <2>1, FleetAssumption DEF Init
<1>5. step \in Steps /\ stores \subseteq Stores /\ backoff \subseteq Callees
  BY DEF Init, Steps
<1>6. h2 \in BOOLEAN /\ ue \in {"answers", "silent"} /\ status \in {0, 1, 200, 500}
      /\ excused \in BOOLEAN
  BY DEF Init
<1>7. QED BY <1>3, <1>4, <1>5, <1>6 DEF FTypes, TypeOK

\* What a step does to the types, but for the counters of the disturbances.
Stepped(s, k) == k \in 0 .. Len(Program[s]) /\ Goes(s, k)
Walks == UNCHANGED at \/ \E s \in Services : \E k \in Nat : Stepped(s, k)
Steady ==
    /\ stores' \subseteq Stores /\ backoff' \subseteq Callees /\ step' \in Steps
    /\ UNCHANGED <<h2, ue>>
    /\ status' \in {0, 1, 200, 500} /\ excused' \in BOOLEAN
Counters ==
    stops \in 0 .. MaxStops /\ kills \in 0 .. MaxKills /\ outages \in 0 .. MaxOutages

LEMMA TypesStay ==
    ASSUME FTypes, Walks, Steady, Counters'
    PROVE  FTypes'
<1>1. at' \in [Services -> Nat] /\ \A q \in Services : at'[q] \in 0 .. Len(Program[q])
  <2>1. CASE UNCHANGED at
    BY <2>1 DEF FTypes, TypeOK
  <2>2. ASSUME NEW s \in Services, NEW k \in Nat, Stepped(s, k)
        PROVE  at' \in [Services -> Nat] /\ \A q \in Services : at'[q] \in 0 .. Len(Program[q])
    BY <2>2 DEF FTypes, TypeOK, Stepped, Goes
  <2>3. QED BY <2>1, <2>2 DEF Walks
<1>2. h2' \in BOOLEAN /\ ue' \in {"answers", "silent"}
  BY DEF FTypes, TypeOK, Steady
<1>3. QED BY <1>1, <1>2 DEF FTypes, TypeOK, Steady, Counters

\* Where a process steps: never beyond the end of its program.
LEMMA StepsStay ==
    ASSUME FTypes, NEW s \in Services
    PROVE  /\ Goes(s, 0) => Walks
           /\ Goes(s, 1) => Walks
           /\ Now(s) \notin {"down"} \cup Closing /\ Goes(s, at[s] + 1) => Walks
<1>1. at[s] \in Nat /\ at[s] \in 0 .. Len(Program[s]) /\ Len(Program[s]) \in Nat
      /\ Len(Program[s]) >= 1 /\ Program[s][Len(Program[s])] \in Closing
  BY ProgramShapes DEF FTypes, TypeOK
<1>2. Now(s) \notin {"down"} \cup Closing => at[s] + 1 \in 0 .. Len(Program[s])
  BY <1>1 DEF Now
<1>3. 0 \in 0 .. Len(Program[s]) /\ 1 \in 0 .. Len(Program[s])
  BY <1>1
<1>4. QED BY <1>1, <1>2, <1>3 DEF Walks, Stepped

LEMMA NotesKept == ASSUME FTypes, NoteExcuse PROVE excused' \in BOOLEAN
<1>1. Excused' \in BOOLEAN
  BY DEF Excused
<1>2. QED BY <1>1 DEF FTypes, TypeOK, NoteExcuse

\* The end of a process leaves the request at a step it has.
LEMMA TypesEnd ==
    ASSUME FTypes, NEW s \in Services, Ends(s), excused' \in BOOLEAN, Counters'
    PROVE  FTypes'
<1>1. Walks
  BY StepsStay DEF Ends
<1>2. step' \in Steps
  BY DEF Ends, FTypes, TypeOK, Steps
<1>3. Steady
  BY <1>2 DEF Ends, FTypes, TypeOK, Steady
<1>4. QED BY <1>1, <1>3, TypesStay

LEMMA TypesGo ==
    ASSUME FTypes, NEW from, NEW to \in Steps, Goto(from, to), backoff' \subseteq Callees
    PROVE  FTypes'
<1>1. Walks /\ Counters'
  BY DEF Goto, Walks, Counters, FTypes, TypeOK
<1>2. Steady
  BY NotesKept DEF Goto, FTypes, TypeOK, Steady
<1>3. QED BY <1>1, <1>2, TypesStay

LEMMA TypesCall ==
    ASSUME FTypes, NEW from, NEW s \in Callees, NEW ok, NEW there \in Steps, NEW else \in Steps,
           Call(from, s, ok, there, else)
    PROVE  FTypes'
<1>1. backoff' \subseteq Callees
  BY DEF Call, FTypes, TypeOK
<1>2. QED BY <1>1, TypesGo DEF Call

LEMMA TypesLocal ==
    ASSUME FTypes, NEW from, NEW to \in Steps, Local(from, to)
    PROVE  FTypes'
BY TypesGo DEF Local, FTypes, TypeOK

LEMMA TypesRequest == ASSUME FTypes, Post \/ RequestStep PROVE FTypes'
<1>1. \A x \in {"forward", "create", "caps", "capsWait", "select", "lpp", "lppWait",
                "lppLost", "nrppa", "engine", "close", "failing", "answer", "error"} :
          x \in Steps
  BY DEF Steps
<1>2. \A s \in {"location", "session", "selector", "protocol", "gnss"} : s \in Callees
  BY DEF Callees, Caller
<1>3. CASE Forward \/ Create \/ GetCapabilities \/ Select \/ SendLpp
  BY <1>1, <1>2, <1>3, TypesCall DEF Forward, Create, GetCapabilities, Select, SendLpp
<1>4. CASE SendNrppa \/ RunEngines \/ Close
  BY <1>1, <1>2, <1>4, TypesCall DEF SendNrppa, RunEngines, Close
<1>5. CASE Post \/ CapabilitiesReturn \/ UeAnswers \/ LppTimesOut
  BY <1>1, <1>5, TypesLocal DEF Post, CapabilitiesReturn, UeAnswers, LppTimesOut
<1>6. CASE Answer
  <2>1. Walks /\ Counters'
    BY <1>6 DEF Answer, Walks, Counters, FTypes, TypeOK
  <2>2. Steady
    BY <1>6 DEF Answer, FTypes, TypeOK, Steady, Steps
  <2>3. QED BY <2>1, <2>2, TypesStay
<1>7. QED BY <1>3, <1>4, <1>5, <1>6 DEF RequestStep

LEMMA TypesProgress ==
    ASSUME FTypes, NEW s \in Services, StartContainer(s) \/ MainStep(s) \/ StopReturns(s)
    PROVE  FTypes'
<1>1. excused' \in BOOLEAN /\ Counters'
  BY NotesKept DEF StartContainer, MainStep, StopReturns, Counters, FTypes, TypeOK
<1>2. CASE StopReturns(s)
  BY <1>1, <1>2, TypesEnd DEF StopReturns
<1>3. CASE StartContainer(s) \/ MainStep(s)
  <2>1. Walks
    <3>1. CASE StartContainer(s)
      BY <3>1, StepsStay DEF StartContainer
    <3>2. CASE MainStep(s)
      BY <3>2, StepsStay DEF MainStep
    <3>3. QED BY <1>3, <3>1, <3>2
  <2>2. Steady
    BY <1>1, <1>3 DEF StartContainer, MainStep, Steady, FTypes, TypeOK
  <2>3. QED BY <1>1, <2>1, <2>2, TypesStay
<1>4. QED BY <1>2, <1>3

LEMMA TypesDisturbed ==
    ASSUME FTypes, NEW s \in Services, Sigterm(s) \/ GraceEnds(s) \/ Kill(s)
    PROVE  FTypes'
<1>1. Counters'
  BY FleetAssumption DEF Sigterm, GraceEnds, Kill, Counters, FTypes, TypeOK
<1>2. ASSUME EndsUnderway(s) PROVE FTypes'
  <2>1. excused' \in BOOLEAN
    BY <1>2 DEF EndsUnderway, Excused, FTypes, TypeOK
  <2>2. QED BY <1>1, <1>2, <2>1, TypesEnd DEF EndsUnderway
<1>3. ASSUME Now(s) = "quit", Goes(s, at[s] + 1), NoteExcuse,
             UNCHANGED <<stores, backoff, step, h2, ue, status>>
      PROVE  FTypes'
  <2>1. Walks
    BY <1>3, StepsStay DEF Closing
  <2>2. Steady
    BY <1>3, NotesKept DEF Steady, FTypes, TypeOK
  <2>3. QED BY <1>1, <2>1, <2>2, TypesStay
<1>4. QED BY <1>2, <1>3 DEF Sigterm, GraceEnds, Kill

LEMMA TypesStores ==
    ASSUME FTypes, NEW x \in Stores, StoreDown(x) \/ StoreUp(x)
    PROVE  FTypes'
<1>1. Counters' /\ Walks
  BY FleetAssumption DEF StoreDown, StoreUp, Counters, Walks, FTypes, TypeOK
<1>2. Steady
  BY NotesKept DEF StoreDown, StoreUp, Steady, FTypes, TypeOK
<1>3. QED BY <1>1, <1>2, TypesStay

LEMMA TypesConnect ==
    ASSUME FTypes, NEW s \in Callees, ConnectFails(s) \/ Reconnects(s)
    PROVE  FTypes'
<1>1. Counters' /\ Walks
  BY DEF ConnectFails, Reconnects, Counters, Walks, FTypes, TypeOK
<1>2. Steady
  BY NotesKept DEF ConnectFails, Reconnects, Steady, FTypes, TypeOK
<1>3. QED BY <1>1, <1>2, TypesStay

LEMMA FTypesNext == FTypes /\ [Next]_vars => FTypes'
<1> SUFFICES ASSUME FTypes, [Next]_vars PROVE FTypes'
  OBVIOUS
<1>1. CASE UNCHANGED vars
  BY <1>1 DEF vars, FTypes, TypeOK
<1>2. CASE Post \/ RequestStep
  BY <1>2, TypesRequest
<1>3. ASSUME NEW s \in Disturbed, Progress(s) \/ Sigterm(s) \/ GraceEnds(s) \/ Kill(s)
      PROVE  FTypes'
  <2>1. s \in Services
    BY FleetAssumption
  <2>2. QED BY <1>3, <2>1, TypesProgress, TypesDisturbed DEF Progress
<1>4. ASSUME NEW x \in Stores, StoreDown(x) \/ StoreUp(x) PROVE FTypes'
  BY <1>4, TypesStores
<1>5. ASSUME NEW s \in Callees, ConnectFails(s) \/ Reconnects(s) PROVE FTypes'
  BY <1>5, TypesConnect
<1>6. QED BY <1>1, <1>2, <1>3, <1>4, <1>5 DEF Next

\* No process runs past the end of its program, whatever stops, kills or restarts it.
THEOREM FleetTypes == Spec => []TypeOK
<1>1. FTypes => TypeOK
  BY DEF FTypes
<1>2. QED BY <1>1, FTypesInit, FTypesNext, PTL DEF Spec

-----------------------------------------------------------------------------
(* event-manager's scheduler, with the subscriptions of the runs.          *)

ApartP == INSTANCE EventSchedulerProofs WITH
    Subs <- ApartSubs, Positions <- ApartPositions, MaxTicks <- ApartTicks

MixedP == INSTANCE EventSchedulerProofs WITH
    Subs <- MixedSubs, Positions <- MixedPositions, MaxTicks <- MixedTicks

LEMMA ApartTriggered ==
    \A sub, p, S : Apart!Triggered(sub, p, S) = ApartP!Triggered(sub, p, S)
BY DEF Apart!Triggered, ApartP!Triggered, Apart!EvaluateAreaEvent, ApartP!EvaluateAreaEvent,
       Apart!EvaluateMotionEvent, ApartP!EvaluateMotionEvent, Apart!Distance, ApartP!Distance,
       Apart!IsPointInPolygon, ApartP!IsPointInPolygon, Apart!Crosses, ApartP!Crosses,
       Apart!EdgeStart, ApartP!EdgeStart, Apart!Cardinality, ApartP!Cardinality

LEMMA ApartSame ==
    /\ ApartP!SchedulerAssumption
    /\ Apart!Init => ApartP!Init
    /\ [Apart!Next]_Apart!vars => [ApartP!Next]_ApartP!vars
    /\ ApartP!TypeOK => Apart!TypeOK
    /\ Apart!OwnSubscriber => ApartP!OwnSubscriber
<1>1. ApartP!SchedulerAssumption
  BY DEF Apart!SchedulerAssumption, ApartP!SchedulerAssumption, Apart!EventTypes,
         ApartP!EventTypes
<1>2. Apart!Init => ApartP!Init
  BY DEF Apart!Init, ApartP!Init
<1>3. Apart!EvaluateSub => ApartP!EvaluateSub
  BY ApartTriggered
     DEF Apart!EvaluateSub, ApartP!EvaluateSub, Apart!Notify, ApartP!Notify,
         Apart!RecordPosition, ApartP!RecordPosition, Apart!Advance, ApartP!Advance
<1>4. Apart!Tick \/ Apart!SkipSub => ApartP!Tick \/ ApartP!SkipSub
  BY DEF Apart!Tick, Apart!SkipSub, Apart!Advance, ApartP!Tick, ApartP!SkipSub, ApartP!Advance
<1>5. \A u \in Supis, p \in ApartPositions : Apart!Move(u, p) => ApartP!Move(u, p)
  BY DEF Apart!Move, ApartP!Move
<1>6. [Apart!Next]_Apart!vars => [ApartP!Next]_ApartP!vars
  BY <1>3, <1>4, <1>5 DEF Apart!Next, ApartP!Next, Apart!vars, ApartP!vars
<1>7. ApartP!TypeOK => Apart!TypeOK
  BY DEF Apart!TypeOK, ApartP!TypeOK, Apart!Cardinality, ApartP!Cardinality
<1>8. Apart!OwnSubscriber => ApartP!OwnSubscriber
  BY DEF Apart!OwnSubscriber, ApartP!OwnSubscriber
<1>9. QED BY <1>1, <1>2, <1>6, <1>7, <1>8

LEMMA ApartSteps ==
    /\ Apart!Init => ApartP!SchedInv
    /\ ApartP!SchedInv /\ [Apart!Next]_Apart!vars => ApartP!SchedInv'
BY ApartSame, ApartP!SchedInit, ApartP!SchedNext

LEMMA MixedTriggered ==
    \A sub, p, S : Mixed!Triggered(sub, p, S) = MixedP!Triggered(sub, p, S)
BY DEF Mixed!Triggered, MixedP!Triggered, Mixed!EvaluateAreaEvent, MixedP!EvaluateAreaEvent,
       Mixed!EvaluateMotionEvent, MixedP!EvaluateMotionEvent, Mixed!Distance, MixedP!Distance,
       Mixed!IsPointInPolygon, MixedP!IsPointInPolygon, Mixed!Crosses, MixedP!Crosses,
       Mixed!EdgeStart, MixedP!EdgeStart, Mixed!Cardinality, MixedP!Cardinality

LEMMA MixedSame ==
    /\ MixedP!SchedulerAssumption
    /\ Mixed!Init => MixedP!Init
    /\ [Mixed!Next]_Mixed!vars => [MixedP!Next]_MixedP!vars
    /\ MixedP!TypeOK => Mixed!TypeOK
    /\ Mixed!OwnSubscriber => MixedP!OwnSubscriber
<1>1. MixedP!SchedulerAssumption
  BY DEF Mixed!SchedulerAssumption, MixedP!SchedulerAssumption, Mixed!EventTypes,
         MixedP!EventTypes
<1>2. Mixed!Init => MixedP!Init
  BY DEF Mixed!Init, MixedP!Init
<1>3. Mixed!EvaluateSub => MixedP!EvaluateSub
  BY MixedTriggered
     DEF Mixed!EvaluateSub, MixedP!EvaluateSub, Mixed!Notify, MixedP!Notify,
         Mixed!RecordPosition, MixedP!RecordPosition, Mixed!Advance, MixedP!Advance
<1>4. Mixed!Tick \/ Mixed!SkipSub => MixedP!Tick \/ MixedP!SkipSub
  BY DEF Mixed!Tick, Mixed!SkipSub, Mixed!Advance, MixedP!Tick, MixedP!SkipSub, MixedP!Advance
<1>5. \A u \in Supis, p \in MixedPositions : Mixed!Move(u, p) => MixedP!Move(u, p)
  BY DEF Mixed!Move, MixedP!Move
<1>6. [Mixed!Next]_Mixed!vars => [MixedP!Next]_MixedP!vars
  BY <1>3, <1>4, <1>5 DEF Mixed!Next, MixedP!Next, Mixed!vars, MixedP!vars
<1>7. MixedP!TypeOK => Mixed!TypeOK
  BY DEF Mixed!TypeOK, MixedP!TypeOK, Mixed!Cardinality, MixedP!Cardinality
<1>8. Mixed!OwnSubscriber => MixedP!OwnSubscriber
  BY DEF Mixed!OwnSubscriber, MixedP!OwnSubscriber
<1>9. QED BY <1>1, <1>2, <1>6, <1>7, <1>8

LEMMA MixedSteps ==
    /\ Mixed!Init => MixedP!SchedInv
    /\ MixedP!SchedInv /\ [Mixed!Next]_Mixed!vars => MixedP!SchedInv'
BY MixedSame, MixedP!SchedInit, MixedP!SchedNext

-----------------------------------------------------------------------------
(* All the machines, as the runs compose them.                             *)

SchedulersInv ==
    /\ which = "mixed" => MixedP!SchedInv
    /\ which # "mixed" => ApartP!SchedInv

ServicesInv == FTypes /\ FInv /\ PInv /\ NrfInv /\ SchedulersInv

LEMMA ServicesStart == ServicesInit => ServicesInv
<1> SUFFICES ASSUME ServicesInit PROVE ServicesInv
  OBVIOUS
<1>1. FTypes /\ FInv /\ PInv /\ NrfInv
  BY FTypesInit, FInit, PInit, NrfInit DEF ServicesInit
<1>2. SchedulersInv
  BY ApartSteps, MixedSteps DEF ServicesInit, SchedulersInv
<1>3. QED BY <1>1, <1>2 DEF ServicesInv

\* The schedulers keep what they know while something else runs.
LEMMA SchedulersRest ==
    ASSUME SchedulersInv, UNCHANGED <<which, schedVars>> PROVE SchedulersInv'
<1>1. UNCHANGED Apart!vars /\ UNCHANGED Mixed!vars
  BY DEF schedVars, Apart!vars, Mixed!vars
<1>2. QED BY <1>1, ApartSteps, MixedSteps DEF SchedulersInv

LEMMA ServicesStep == ServicesInv /\ [ServicesNext]_allVars => ServicesInv'
<1> SUFFICES ASSUME ServicesInv, [ServicesNext]_allVars PROVE ServicesInv'
  OBVIOUS
<1>1. [Next]_vars /\ [PrivacyNext]_privacyVars /\ [Nrf!Next]_Nrf!vars
  BY DEF ServicesNext, PrivacyRuns, NrfRuns, ApartRuns, MixedRuns, FleetRuns, PrivacyTurn, NrfTurn,
         FleetTurn, allVars, nrfVars, Nrf!vars
<1>2. FTypes' /\ FInv' /\ PInv' /\ NrfInv'
  BY <1>1, FTypesNext, FNext, PNext, NrfNext DEF ServicesInv
<1>3. SchedulersInv'
  <2>1. CASE ApartRuns
    BY <2>1, ApartSteps DEF ApartRuns, Turn, ServicesInv, SchedulersInv
  <2>2. CASE MixedRuns
    BY <2>2, MixedSteps DEF MixedRuns, Turn, ServicesInv, SchedulersInv
  <2>3. CASE PrivacyRuns \/ NrfRuns \/ FleetRuns \/ UNCHANGED allVars
    <3>1. UNCHANGED <<which, schedVars>>
      BY <2>3 DEF PrivacyRuns, NrfRuns, FleetRuns, PrivacyTurn, NrfTurn, FleetTurn, Turn, allVars
    <3>2. QED BY <3>1, SchedulersRest DEF ServicesInv
  <2>4. QED BY <2>1, <2>2, <2>3 DEF ServicesNext
<1>4. QED BY <1>2, <1>3 DEF ServicesInv

\* The machines keep their invariants beside each other.
THEOREM ServicesInvariance == ServicesSpec => []ServicesInv
BY ServicesStart, ServicesStep, PTL DEF ServicesSpec

\* Whichever machine the runs choose, its state keeps its types.
THEOREM ServicesTypes == ServicesSpec => []TypesOK
<1>1. ServicesInv => TypesOK
  <2>1. FTypes => TypeOK
    BY DEF FTypes
  <2>2. PInv => PrivacyTypeOK
    BY DEF PInv
  <2>3. NrfInv => Nrf!TypeOK
    BY DEF NrfInv
  <2>4. ApartP!SchedInv => Apart!TypeOK
    BY ApartSame DEF ApartP!SchedInv
  <2>5. MixedP!SchedInv => Mixed!TypeOK
    BY MixedSame DEF MixedP!SchedInv
  <2>6. QED BY <2>1, <2>2, <2>3, <2>4, <2>5 DEF ServicesInv, SchedulersInv, TypesOK
<1>2. QED BY <1>1, ServicesInvariance, PTL

\* Subscriptions with a subscriber of their own, whatever the others are, are notified of
\* exactly the changes between their evaluations.
THEOREM NotifiedExactly == ServicesSpec => []TriggersExact
<1>1. ServicesInv => TriggersExact
  <2>1. ApartP!SchedInv => due = {}
    BY ApartAssumption, ApartSame DEF ApartP!SchedInv
  <2>2. MixedP!SchedInv => due = {}
    BY ApartAssumption, MixedSame DEF MixedP!SchedInv
  <2>3. QED BY <2>1, <2>2
        DEF ServicesInv, SchedulersInv, TriggersExact, Apart!TriggersExact
<1>2. QED BY <1>1, ServicesInvariance, PTL

\* What was proved of each machine by itself holds of it where the runs check it.
THEOREM ServicesSafe ==
    ServicesSpec => [](AllowedByPolicy /\ AuditTruthful /\ FailsOnlyWhenHit
                       /\ SuspendedOnlyAfterFailures /\ DeregistrationLasts)
<1>1. PInv => AllowedByPolicy /\ AuditTruthful
  BY DEF PInv, Classified, Permitted, Recorded, AllowedByPolicy, AuditTruthful
<1>2. FInv => FailsOnlyWhenHit
  BY DEF FInv
<1>3. NrfInv => SuspendedOnlyAfterFailures /\ DeregistrationLasts
  BY DEF NrfInv, Nrf!TypeOK, Nrf!Callers, Counted, Deleted, SuspendedOnlyAfterFailures,
         Nrf!SuspendedOnlyAfterFailures, DeregistrationLasts, Nrf!DeregistrationLasts
<1>4. ServicesInv => AllowedByPolicy /\ AuditTruthful /\ FailsOnlyWhenHit
                     /\ SuspendedOnlyAfterFailures /\ DeregistrationLasts
  BY <1>1, <1>2, <1>3 DEF ServicesInv
<1>5. QED BY <1>4, ServicesInvariance, PTL
=============================================================================
