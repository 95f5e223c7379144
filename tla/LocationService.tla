-------------------------- MODULE LocationService ---------------------------
(***************************************************************************)
(* What the location-request service (MS-02) promises its callers: every   *)
(* request gets one answer, a subscriber is measured only after the        *)
(* privacy check let the request pass, and a position is reported only     *)
(* after a measurement.                                                    *)
(***************************************************************************)
CONSTANT Requests

VARIABLES
    answer,     \* "idle", "pending", or the one answer of each request
    consent,    \* requests the privacy check let pass
    measured    \* requests whose UE was measured

serviceVars == <<answer, consent, measured>>

Answers == {"denied", "failed", "located"}

Init ==
    /\ answer = [r \in Requests |-> "idle"]
    /\ consent = {}
    /\ measured = {}

Ask(r) ==
    /\ answer[r] = "idle"
    /\ answer' = [answer EXCEPT ![r] = "pending"]
    /\ UNCHANGED <<consent, measured>>

Allow(r) ==
    /\ answer[r] = "pending"
    /\ consent' = consent \cup {r}
    /\ UNCHANGED <<answer, measured>>

Measure(r) ==
    /\ answer[r] = "pending"
    /\ r \in consent
    /\ measured' = measured \cup {r}
    /\ UNCHANGED <<answer, consent>>

Answer(r, a) ==
    /\ answer[r] = "pending"
    /\ a = "denied" => r \notin consent
    /\ a = "located" => r \in measured
    /\ answer' = [answer EXCEPT ![r] = a]
    /\ UNCHANGED <<consent, measured>>

\* The service goes down: every request in progress fails at once.
Fail ==
    /\ answer' = [r \in Requests |-> IF answer[r] = "pending" THEN "failed" ELSE answer[r]]
    /\ UNCHANGED <<consent, measured>>

Next ==
    \/ \E r \in Requests : Ask(r) \/ Allow(r) \/ Measure(r) \/ \E a \in Answers : Answer(r, a)
    \/ Fail

Spec == Init /\ [][Next]_serviceVars
=============================================================================
