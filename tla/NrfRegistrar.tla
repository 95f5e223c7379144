---------------------------- MODULE NrfRegistrar ----------------------------
(***************************************************************************)
(* sbi-gateway's registration with the NRF: the initial PUT of the         *)
(* profile, the heartbeat goroutine that repeats it, and the DELETE of a   *)
(* graceful shutdown, with the main goroutine that starts and stops them.  *)
(* Requests travel as streams of one HTTP/2 connection, so the NRF may     *)
(* process a request late or not at all after its caller gave up or died.  *)
(* A gateway that is started again registers under the same instance id,   *)
(* while requests of its predecessor may still be on their way.  The NRF   *)
(* is external: it suspends an instance after about three missed           *)
(* heartbeats, and may restart and forget it.                              *)
(***************************************************************************)
EXTENDS Naturals, FiniteSets

CONSTANTS
    MaxFaults,     \* bound on the requests that fail or are given up
    MaxRestarts,   \* bound on the restarts of the NRF and of the gateway
    Patience       \* heartbeat periods after which the NRF suspends an instance

RegistrarAssumption ==
    /\ MaxFaults \in Nat
    /\ MaxRestarts \in Nat
    /\ Patience \in Nat \ {0}

VARIABLES
    main,       \* the main goroutine
    beat,       \* the heartbeat goroutine
    stopped,    \* heartbeatCancel was called
    fate,       \* what happened to the request of each goroutine that waits for one
    late,       \* requests whose caller gave up, still on their way
    nrf,        \* the NRF's entry for this instance
    age,        \* heartbeat periods since the last PUT the NRF processed
    restarts, faults,
    failed,     \* history: heartbeats in a row that failed
    gone        \* history: how the NRF deleted the entry of a gateway that stops

vars == <<main, beat, stopped, fate, late, nrf, age, restarts, faults, failed, gone>>

Callers == {"main", "beat"}
Methods == {"PUT", "DELETE"}

TypeOK ==
    /\ main \in {"start", "put", "serve", "delete", "shutdown", "exited"}
    /\ beat \in {"off", "wait", "put", "ended"}
    /\ stopped \in BOOLEAN
    /\ fate \in [Callers -> {"none", "sent", "ok"}]
    /\ late \in SUBSET Methods
    /\ nrf \in {"absent", "registered", "suspended"}
    /\ age \in 0 .. Patience
    /\ restarts \in 0 .. MaxRestarts
    /\ faults \in 0 .. MaxFaults
    /\ failed \in 0 .. Patience
    /\ gone \in {"no", "clean", "crossed"}

Init ==
    /\ main = "start"
    /\ beat = "off"
    /\ stopped = FALSE
    /\ fate = [c \in Callers |-> "none"]
    /\ late = {}
    /\ nrf = "absent"
    /\ age = 0
    /\ restarts = 0
    /\ faults = 0
    /\ failed = 0
    /\ gone = "no"

Method(c) == IF c = "main" /\ main = "delete" THEN "DELETE" ELSE "PUT"

\* client.Do: the request leaves.
Send(c) == fate' = [fate EXCEPT ![c] = "sent"]

\* client.Do returns: with the answer, or after 5 s with an error while the request
\* may still be under way.
Answered(c) ==
    /\ fate[c] = "ok"
    /\ fate' = [fate EXCEPT ![c] = "none"]
    /\ UNCHANGED <<late, faults>>

GivenUp(c) ==
    /\ faults < MaxFaults
    /\ faults' = faults + 1
    /\ fate[c] # "none"
    /\ late' \in {late, IF fate[c] = "sent" THEN late \cup {Method(c)} ELSE late}
    /\ fate' = [fate EXCEPT ![c] = "none"]

-----------------------------------------------------------------------------
(* The main goroutine.                                                     *)

Register ==
    /\ main = "start"
    /\ main' = "put"
    /\ Send("main")
    /\ UNCHANGED <<beat, stopped, late, nrf, age, restarts, faults, failed, gone>>

\* Register's result: without the initial registration no heartbeat starts, and the
\* gateway goes on.
RegisterOk ==
    /\ main = "put"
    /\ Answered("main")
    /\ main' = "serve"
    /\ beat' = "wait"
    /\ UNCHANGED <<stopped, nrf, age, restarts, failed, gone>>

RegisterFails ==
    /\ main = "put"
    /\ GivenUp("main")
    /\ main' = "serve"
    /\ UNCHANGED <<beat, stopped, nrf, age, restarts, failed, gone>>

\* A fault: the heartbeats are cancelled only when main returns.
DeregisterBeating ==
    /\ main = "serve"
    /\ main' = "delete"
    /\ Send("main")
    /\ UNCHANGED <<beat, stopped, late, nrf, age, restarts, faults, failed, gone>>

\* The signal: the heartbeats are cancelled, then Deregister sends the DELETE.
Deregister ==
    /\ main = "serve"
    /\ stopped' = TRUE
    /\ main' = "delete"
    /\ Send("main")
    /\ UNCHANGED <<beat, late, nrf, age, restarts, faults, failed, gone>>

DeregisterReturns ==
    /\ main = "delete"
    /\ Answered("main") \/ GivenUp("main")
    /\ main' = "shutdown"
    /\ UNCHANGED <<beat, stopped, nrf, age, restarts, failed, gone>>

\* The process and with it every goroutine ends; what they sent may still arrive.
Ends ==
    /\ main' = "exited"
    /\ beat' = "ended"
    /\ \E lost \in SUBSET Callers :
          late' = late \cup {Method(c) : c \in {d \in Callers \ lost : fate[d] = "sent"}}
    /\ fate' = [c \in Callers |-> "none"]
    /\ UNCHANGED <<stopped, nrf, age, restarts, faults, failed, gone>>

\* srv.Shutdown has waited for the HTTP handlers.
Exit == main = "shutdown" /\ Ends

\* The process dies, and deregisters nothing.
Dies == main # "exited" /\ Ends

\* The cluster starts the container again; the instance id is that of the configuration.
StartAgain ==
    /\ main = "exited"
    /\ restarts < MaxRestarts
    /\ restarts' = restarts + 1
    /\ main' = "start"
    /\ beat' = "off"
    /\ stopped' = FALSE
    /\ failed' = 0
    /\ gone' = "no"
    /\ UNCHANGED <<fate, late, nrf, age, faults>>

-----------------------------------------------------------------------------
(* The heartbeat goroutine.                                                *)

\* A fault: the heartbeat interval is longer than the NRF's.
PeriodMissed ==
    /\ beat # "put" /\ main # "put"
    /\ nrf = "registered" \/ beat = "wait"
    /\ age' = IF nrf = "registered" /\ age < Patience THEN age + 1 ELSE age
    /\ nrf' = IF nrf = "registered" /\ age + 1 >= Patience THEN "suspended" ELSE nrf
    /\ \/ beat = "wait" /\ beat' = "put" /\ Send("beat")
       \/ UNCHANGED <<beat, fate>>
    /\ UNCHANGED <<main, stopped, late, restarts, faults, failed, gone>>

\* A heartbeat period passes: the ticker fires, unless the loop has ended.  The
\* heartbeat of the last period is over by then, and no period passes during the
\* initial registration: a request takes at most 5 s of the period's 10.
Period ==
    /\ beat # "put" /\ main # "put"
    /\ nrf = "registered" \/ beat = "wait"
    /\ age' = IF nrf = "registered" /\ age < Patience THEN age + 1 ELSE age
    /\ nrf' = IF nrf = "registered" /\ age + 1 >= Patience THEN "suspended" ELSE nrf
    /\ \/ /\ beat = "wait"
          /\ beat' = "put"
          /\ Send("beat")
          /\ gone' = IF stopped THEN "crossed" ELSE gone
       \/ (beat # "wait" \/ stopped) /\ UNCHANGED <<beat, fate, gone>>
    /\ UNCHANGED <<main, stopped, late, restarts, faults, failed>>

\* select takes either ready case: a tick may still win against the cancellation.
LoopEnds ==
    /\ beat = "wait"
    /\ stopped
    /\ beat' = "ended"
    /\ UNCHANGED <<main, stopped, fate, late, nrf, age, restarts, faults, failed, gone>>

\* A fault: the loop ends with the first failure.
HeartbeatReturnsEnds ==
    /\ beat = "put"
    /\ \/ Answered("beat") /\ failed' = 0 /\ beat' = "wait"
       \/ GivenUp("beat") /\ beat' = "ended" /\ UNCHANGED failed
    /\ UNCHANGED <<main, stopped, nrf, age, restarts, gone>>

\* The heartbeat's PUT has a context of its own; a failure is only logged.
HeartbeatReturns ==
    /\ beat = "put"
    /\ \/ Answered("beat") /\ failed' = 0
       \/ GivenUp("beat") /\ failed' = IF failed < Patience THEN failed + 1 ELSE failed
    /\ beat' = "wait"
    /\ UNCHANGED <<main, stopped, nrf, age, restarts, gone>>

-----------------------------------------------------------------------------
(* The NRF, external.                                                      *)

\* The gateway has left, or is about to.
Leaving == main \in {"delete", "shutdown", "exited"}
PutUnderWay == fate["beat"] = "sent" \/ "PUT" \in late

Process(method) ==
    /\ nrf' = IF method = "PUT" THEN "registered" ELSE "absent"
    /\ age' = 0
    /\ gone' = IF method = "DELETE" /\ Leaving
               THEN (IF PutUnderWay THEN "crossed" ELSE "clean") ELSE gone

ProcessRequest ==
    /\ \/ \E c \in Callers :
            /\ fate[c] = "sent"
            /\ Process(Method(c))
            /\ fate' = [fate EXCEPT ![c] = "ok"]
            /\ UNCHANGED late
       \/ \E m \in late :
            /\ Process(m)
            /\ late' = late \ {m}
            /\ UNCHANGED fate
    /\ UNCHANGED <<main, beat, stopped, restarts, faults, failed>>

NrfRestarts ==
    /\ restarts < MaxRestarts
    /\ restarts' = restarts + 1
    /\ nrf' = "absent"
    /\ age' = 0
    /\ UNCHANGED <<main, beat, stopped, fate, late, faults, failed, gone>>

-----------------------------------------------------------------------------
Main == Register \/ RegisterOk \/ RegisterFails \/ DeregisterReturns \/ Exit

Next ==
    \/ Main \/ Deregister \/ Dies \/ StartAgain
    \/ Period \/ LoopEnds \/ HeartbeatReturns
    \/ ProcessRequest \/ NrfRestarts

Spec == Init /\ [][Next]_vars

\* Goroutines run, client.Do returns within its timeout, time passes, and the NRF
\* processes what arrives.  Nobody has to shut the gateway down.
FairSpec ==
    /\ Spec
    /\ WF_vars(Main) /\ WF_vars(Period) /\ WF_vars(LoopEnds)
    /\ WF_vars(HeartbeatReturns) /\ WF_vars(ProcessRequest)

-----------------------------------------------------------------------------
(* Properties.                                                             *)

\* While the gateway serves and heartbeats, the NRF suspends it only when every
\* heartbeat of its patience but the one under way failed, or the heartbeat is
\* just being sent.
SuspendedOnlyAfterFailures ==
    nrf = "suspended" /\ ~stopped /\ beat \in {"wait", "put"} => failed >= Patience - 1

\* The deregistration lasts: once the NRF has deleted the entry of a gateway that
\* stops, it offers the gateway again only when a PUT was under way at that moment, or
\* a tick of the heartbeat won against its cancellation.
DeregistrationLasts == gone = "clean" => nrf = "absent"

\* An NRF that lost the gateway's profile gets it again as long as the heartbeats run,
\* whether the NRF restarted or the DELETE of the gateway's predecessor came late.
HeartbeatRestores ==
    (beat = "wait" /\ nrf # "registered")
        ~> (nrf = "registered" \/ stopped \/ main = "exited")
=============================================================================
