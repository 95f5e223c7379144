----------------------------- MODULE SbiGateway -----------------------------
(***************************************************************************)
(* The HTTP handlers of sbi-gateway and what becomes of a request on the   *)
(* way to the method selector: the gateway's validation and defaults, its  *)
(* gRPC client, the server of location-request, the adapters of the        *)
(* orchestrator.  A field of a body that is present is TRUE, or its value. *)
(***************************************************************************)
EXTENDS MethodSelector

BadRequest == 400
InternalServerError == 500

\* The members of a request to locate a UE that the gateway looks at; "" and 0 are
\* what an absent member decodes to.
LocationContextData ==
    [json : BOOLEAN, supi : BOOLEAN, pei : BOOLEAN, gpsi : BOOLEAN,
     responseTime : {"", "NO_DELAY", "LOW_DELAY", "DELAY_TOLERANT"},
     accuracy : {0, 10, 50}, confidence : {0, 95},
     lcsClientType : {"EMERGENCY_SERVICES", "GMLC"}]

Identified(body) == body.supi \/ body.pei \/ body.gpsi

\* The body as the handler forwards it.
WithDefaults(body) ==
    [body EXCEPT !.responseTime = IF @ = "" THEN "DELAY_TOLERANT" ELSE @,
                 !.accuracy = IF @ = 0 THEN 50 ELSE @,
                 !.confidence = IF @ = 0 THEN 95 ELSE @]

\* The names of the enum LcsClientType on the wire, without their prefix.
ClientTypeNames == {"EMERGENCY_SERVICES", "VALUE_ADDED", "PLMN_OPERATOR", "LAWFUL_INTERCEPT", "GMLC"}

\* Clients.DetermineLocation: two response times are told apart, and a client type
\* has the number of its name.
LocationRequestMsg(body) ==
    [supi |-> body.supi, accuracy |-> body.accuracy, confidence |-> body.confidence,
     response |-> IF body.responseTime = "DELAY_TOLERANT" THEN "DelayTolerant" ELSE "LowDelay",
     clientType |-> IF body.lcsClientType \in ClientTypeNames THEN body.lcsClientType
                    ELSE "UNSPECIFIED"]

\* LocationServer.DetermineLocation: the session has the identities, and the zero
\* values for the quality of service and the client type.
LcsSession(msg) == [supi |-> msg.supi, accuracy |-> 0, response |-> "", clientType |-> ""]

\* The call of GetUECapabilities failed.
CallFailed == {"error"}

\* A fault: a UE whose capabilities are not known is sent as one without a record.
GetUECapabilitiesNil(answer) == IF answer = CallFailed THEN NoCapabilities ELSE answer

\* GetUECapabilities of the adapter: no capabilities in the answer are empty ones.
\* When it fails the orchestrator goes on with empty ones as well.
GetUECapabilities(answer) == IF answer \in {NoCapabilities, CallFailed} THEN {} ELSE answer

\* The methods the orchestrator attempts for a session, in order.
PlanOf(session, answer) ==
    Select(Input(GetUECapabilities(answer), session.accuracy, session.response, FALSE))

\* POST determine-location: the status, when location-request succeeds or not.
Accepted(body) == body.json /\ Identified(body)
DetermineLocationStatus(body, located) ==
    IF ~Accepted(body) THEN BadRequest ELSE IF located THEN 200 ELSE InternalServerError

\* What reaches the orchestrator of an accepted body.
Forwarded(body) == LcsSession(LocationRequestMsg(WithDefaults(body)))

\* POST subscriptions.  The client method is a stub that succeeds, and so are those of
\* DELETE: nothing reaches event-manager or the orchestrator, and a path has its id.
SubscriptionRequest == [json : BOOLEAN, supi : BOOLEAN, notifUri : BOOLEAN, eventType : BOOLEAN]
SubscribeStatus(body) ==
    IF body.json /\ body.supi /\ body.notifUri /\ body.eventType THEN 201 ELSE BadRequest
=============================================================================
