---------------------------- MODULE PrivacyAuth -----------------------------
(***************************************************************************)
(* The privacy-auth service (MS-13): a location request's token is         *)
(* validated, the privacy class of its subscriber decides, and the outcome *)
(* is recorded for audit.  Each request has a handler goroutine.  The UE   *)
(* has no part in it: sendNotification only logs and reports success, for  *)
(* class B from a goroutine of its own, and nobody listens to a consent.   *)
(***************************************************************************)
EXTENDS Naturals, FiniteSets

CONSTANTS
    Requests,
    DefaultClasses,   \* the classes the configuration may name as default
    ClientTypes,      \* client types of the requests
    Outages           \* sets of what fails now and then: "udm", "audit"

Classes == {"A", "B", "C", "D"}
Bypassing == {"EMERGENCY_SERVICES", "LAWFUL_INTERCEPT"}

\* A configured class that is none of the four stands for any other string.
ASSUME PrivacyAssumption ==
    /\ Outages \subseteq SUBSET {"udm", "audit"}
    /\ DefaultClasses \subseteq Classes \cup {"other"}

VARIABLES
    failing,       \* what may fail in this behaviour
    defaultClass,  \* class applied when the UDM cannot be asked
    token,         \* token of each request: "invalid", "noScope" or "valid"
    client,        \* client type of each request
    pc,
    class,         \* privacy class applied to each request
    answer,        \* "allowed", "denied", "error" once the request is answered
    cancelled,     \* requests whose caller gave up
    audit          \* outcomes written to lcs_audit

privacyVars == <<failing, defaultClass, token, client, pc, class, answer, cancelled, audit>>
inputs == <<failing, defaultClass, token, client>>

PrivacyTypeOK ==
    /\ failing \in Outages
    /\ defaultClass \in DefaultClasses
    /\ token \in [Requests -> {"invalid", "noScope", "valid"}]
    /\ client \in [Requests -> ClientTypes]
    /\ pc \in [Requests -> {"token", "policy", "class", "consent", "audit", "done"}]
    /\ class \in [Requests -> Classes \cup {"none", "other"}]
    /\ answer \in [Requests -> {"none", "allowed", "denied", "error"}]
    /\ cancelled \in SUBSET Requests
    /\ audit \in SUBSET (Requests \X {"ALLOWED", "DENIED"})

PrivacyInit ==
    /\ failing \in Outages
    /\ defaultClass \in DefaultClasses
    /\ token \in [Requests -> {"invalid", "noScope", "valid"}]
    /\ client \in [Requests -> ClientTypes]
    /\ pc = [r \in Requests |-> "token"]
    /\ class = [r \in Requests |-> "none"]
    /\ answer = [r \in Requests |-> "none"]
    /\ cancelled = {}
    /\ audit = {}

Proceed(r, step) == pc' = [pc EXCEPT ![r] = step]
Decide(r, a) == answer' = [answer EXCEPT ![r] = a]

\* A fault: HasScope is not asked.
ValidateTokenOnly(r) ==
    /\ pc[r] = "token"
    /\ IF token[r] # "invalid" THEN Proceed(r, "policy") /\ UNCHANGED answer
                               ELSE Proceed(r, "done") /\ Decide(r, "denied")
    /\ UNCHANGED <<inputs, class, cancelled, audit>>

\* Validate and HasScope: both denials return before anything else is done.
ValidateToken(r) ==
    /\ pc[r] = "token"
    /\ IF token[r] = "valid" THEN Proceed(r, "policy") /\ UNCHANGED answer
                             ELSE Proceed(r, "done") /\ Decide(r, "denied")
    /\ UNCHANGED <<inputs, class, cancelled, audit>>

\* The two client types that bypass the privacy profile.
Bypass(r) ==
    /\ pc[r] = "policy"
    /\ client[r] \in Bypassing
    /\ class' = [class EXCEPT ![r] = "A"]
    /\ Decide(r, "allowed")
    /\ Proceed(r, "audit")
    /\ UNCHANGED <<inputs, cancelled, audit>>

\* GetPrivacyProfile: a subscriber the UDM knows is of class B, an unknown one of
\* class C, and without the UDM the default applies.
FetchProfile(r) ==
    /\ pc[r] = "policy"
    /\ client[r] \notin Bypassing
    /\ \E c \in {"B", "C"} \cup
               (IF "udm" \in failing \/ r \in cancelled THEN {defaultClass} ELSE {}) :
        class' = [class EXCEPT ![r] = c]
    /\ Proceed(r, "class")
    /\ UNCHANGED <<inputs, answer, cancelled, audit>>

\* The switch on the class.  The notification of class C never fails, so its denial
\* for want of one is not reached; a class of none of the four is an error.
ApplyClass(r) ==
    /\ pc[r] = "class"
    /\ CASE class[r] = "A" -> Decide(r, "allowed") /\ Proceed(r, "audit")
         [] class[r] = "B" -> Decide(r, "allowed") /\ Proceed(r, "audit")
         [] class[r] = "C" -> Proceed(r, "consent") /\ UNCHANGED answer
         [] class[r] = "D" -> Decide(r, "denied") /\ Proceed(r, "audit")
         [] OTHER -> Decide(r, "error") /\ Proceed(r, "done")
    /\ UNCHANGED <<inputs, class, cancelled, audit>>

\* waitForConsent listens to nobody: the context or the timeout ends it.
WaitForConsent(r) ==
    /\ pc[r] = "consent"
    /\ Decide(r, "denied")
    /\ Proceed(r, "audit")
    /\ UNCHANGED <<inputs, class, cancelled, audit>>

\* Faults: the record keeps its first value, or takes the answer as it is.
OutcomeAllowed(r) == "ALLOWED"
OutcomeRaw(r) == answer[r]

Outcome(r) == IF answer[r] = "allowed" THEN "ALLOWED" ELSE "DENIED"

\* Write: a failure is only logged.
WriteAudit(r) ==
    /\ pc[r] = "audit"
    /\ \/ audit' = audit \cup {<<r, Outcome(r)>>}
       \/ "audit" \in failing /\ UNCHANGED audit
    /\ Proceed(r, "done")
    /\ UNCHANGED <<inputs, class, answer, cancelled>>

Cancel(r) ==
    /\ pc[r] # "done"
    /\ r \notin cancelled
    /\ cancelled' = cancelled \cup {r}
    /\ UNCHANGED <<inputs, pc, class, answer, audit>>

Handle(r) ==
    \/ ValidateToken(r) \/ Bypass(r) \/ FetchProfile(r) \/ ApplyClass(r)
    \/ WaitForConsent(r) \/ WriteAudit(r)

PrivacyNext == \E r \in Requests : Handle(r) \/ Cancel(r)

PrivacySpec == PrivacyInit /\ [][PrivacyNext]_privacyVars

-----------------------------------------------------------------------------
(* Properties.                                                             *)

\* Nobody is located against the subscriber's profile: a request that is allowed
\* has a valid token and a class that permits it, and when its class came from an
\* outage of the UDM, the configuration permits it.
AllowedByPolicy ==
    \A r \in Requests : answer[r] = "allowed" =>
        /\ token[r] = "valid"
        /\ client[r] \in Bypassing \/ class[r] = "B" \/ (class[r] = "A" /\ defaultClass = "A")

\* What a finished request answered is what its audit record says, and without a
\* failing Cassandra every request that reached the policy has one.
AuditTruthful ==
    /\ \A r \in Requests, o \in {"ALLOWED", "DENIED"} :
          <<r, o>> \in audit => answer[r] = (IF o = "ALLOWED" THEN "allowed" ELSE "denied")
    /\ \A r \in Requests :
          /\ pc[r] = "done" /\ class[r] \in Classes /\ "audit" \notin failing
          => \E o \in {"ALLOWED", "DENIED"} : <<r, o>> \in audit
=============================================================================
