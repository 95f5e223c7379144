----------------------------- MODULE LppHandler -----------------------------
(***************************************************************************)
(* protocol-handler's LPP exchanges with a UE through the AMF: the         *)
(* capability flow (SendRequestCapabilities) and the location flow         *)
(* (SendRequestLocationInfoAndWait), with the callback registry between    *)
(* them and sbi-gateway's callback handler.  The AMF and the UE are        *)
(* external; they are modelled from how the code uses them.                *)
(***************************************************************************)
EXTENDS CallbackRegistry, FiniteSets

CONSTANTS
    CapFlows,   \* the flows that run SendRequestCapabilities; the others locate
    Askers,     \* UEs that ask for assistance data, once each
    Faults      \* which calls may fail: "amf", "badId", "redis"

ASSUME LppAssumption ==
    /\ CapFlows \subseteq Flows
    /\ Askers \subseteq Supis
    /\ Faults \subseteq {"amf", "badId", "redis"}

VARIABLES
    pc,          \* where each flow is
    cancelled,   \* flows whose caller gave up or whose deadline passed
    subId,       \* the subscription id a flow holds: "none", "known" or "bad"
    result,      \* what the flow returned
    measurement, \* lmf:gnss:measurements:<session of the flow>
    amfSubs,     \* AMF: N1N2 subscriptions, each named after the flow that made it
    owed,        \* UE: answers it still has to send
    mayAsk,      \* UE: whether it still has a RequestAssistanceData to send
    posts,       \* AMF: callback POSTs on their way to sbi-gateway
    missed,      \* history: awaited messages that found no listener of their flow
    cut,         \* history: waits whose connection to Redis broke while they listened
    spoiled      \* history: flows one of whose AMF calls failed

flowVars == <<pc, cancelled, subId, result, measurement>>
amfVars == <<amfSubs, owed, mayAsk, posts>>
vars == <<registryVars, flowVars, amfVars, missed, cut, spoiled>>

Steps == {"idle", "capReg", "subscribe", "capSend", "capWait",
          "radReg", "radWait", "padSend", "ackReg", "ackWait",
          "pliReg", "rliSend", "pliWait", "store", "unsubscribe", "done"}

TypeOK ==
    /\ RegistryTypeOK
    /\ pc \in [Flows -> Steps]
    /\ cancelled \in SUBSET Flows
    /\ subId \in [Flows -> {"none", "known", "bad"}]
    /\ result \in [Flows -> {"none", "ok", "fallback", "error"}]
    /\ measurement \in [Flows -> Message \cup {NoMessage}]
    /\ amfSubs \in SUBSET Flows
    /\ owed \in SUBSET Message
    /\ mayAsk \in SUBSET Supis
    /\ posts \in SUBSET (Message \X Flows)
    /\ {missed, cut} \subseteq SUBSET (Flows \X Kinds)
    /\ spoiled \in SUBSET Flows

Init ==
    /\ RegistryInit
    /\ pc = [f \in Flows |-> "idle"]
    /\ cancelled = {}
    /\ subId = [f \in Flows |-> "none"]
    /\ result = [f \in Flows |-> "none"]
    /\ measurement = [f \in Flows |-> NoMessage]
    /\ amfSubs = {}
    /\ owed = {}
    /\ mayAsk = Askers
    /\ posts = {}
    /\ missed = {}
    /\ cut = {}
    /\ spoiled = {}

Active(f) == pc[f] \notin {"idle", "done"}
Goto(f, step) == pc' = [pc EXCEPT ![f] = step]

\* A fault: the unsubscription is not deferred.
ReturnSubscribed(f, res) ==
    /\ result' = [result EXCEPT ![f] = res]
    /\ Goto(f, "done")

\* The flow returns res; its deferred calls run first.
Return(f, res) ==
    /\ result' = [result EXCEPT ![f] = res]
    /\ Goto(f, IF subId[f] = "none" THEN "done" ELSE "unsubscribe")

Kept(f, step) == Goto(f, step) /\ UNCHANGED result

\* The context of the flow is done, or the network is allowed to fail.
AmfMayFail(f) == f \in cancelled \/ "amf" \in Faults
RedisMayFail(f) == f \in cancelled \/ "redis" \in Faults

-----------------------------------------------------------------------------
(* The flows.                                                              *)

\* A handler starts: capabilities register first, a location flow subscribes first.
Start(f) ==
    /\ pc[f] = "idle"
    /\ Goto(f, IF f \in CapFlows THEN "capReg" ELSE "subscribe")
    /\ UNCHANGED <<registryVars, cancelled, subId, result, measurement, amfVars, missed, cut,
                   spoiled>>

\* The caller cancels, or the 20 s or 60 s of the flow's context are over.
Cancel(f) ==
    /\ Active(f)
    /\ f \notin cancelled
    /\ cancelled' = cancelled \cup {f}
    /\ UNCHANGED <<registryVars, pc, subId, result, measurement, amfVars, missed, cut, spoiled>>

WaitOf == [capReg |-> "PC", radReg |-> "RAD", ackReg |-> "ACK", pliReg |-> "PLI"]
AfterRegister == [capReg |-> "subscribe", radReg |-> "radWait", ackReg |-> "ackWait",
                  pliReg |-> "rliSend"]

\* Also on a context that is already cancelled: nothing in Register waits for it.
RegisterOk(f) ==
    /\ pc[f] \in DOMAIN WaitOf
    /\ Register(f, WaitOf[pc[f]])
    /\ Kept(f, AfterRegister[pc[f]])
    /\ UNCHANGED <<cancelled, subId, measurement, amfVars, missed, cut, spoiled>>

\* Without a registration the capabilities fall back, the two assistance waits
\* count as timed out, and the location request fails.
RegisterError(f) ==
    /\ RedisMayFail(f)
    /\ \/ pc[f] = "capReg" /\ Return(f, "fallback")
       \/ pc[f] \in {"radReg", "ackReg"} /\ Kept(f, "pliReg")
       \/ pc[f] = "pliReg" /\ Return(f, "error")
    /\ UNCHANGED <<registryVars, cancelled, subId, measurement, amfVars, missed, cut, spoiled>>

\* SubscribeN1N2.  An unparsable 200 yields the Location header instead of an id,
\* and that is no id UnsubscribeN1N2 can use.
SubscribeOk(f) ==
    /\ pc[f] = "subscribe"
    /\ f \notin cancelled
    /\ amfSubs' = amfSubs \cup {f}
    /\ \/ subId' = [subId EXCEPT ![f] = "known"] /\ UNCHANGED spoiled
       \/ /\ "badId" \in Faults
          /\ subId' = [subId EXCEPT ![f] = "bad"]
          /\ spoiled' = spoiled \cup {f}
    /\ Kept(f, IF f \in CapFlows THEN "capSend" ELSE "radReg")
    /\ UNCHANGED <<registryVars, cancelled, measurement, owed, mayAsk, posts, missed, cut>>

\* The flow gives up without unsubscribing, also when the AMF did subscribe it.
SubscribeError(f) ==
    /\ pc[f] = "subscribe"
    /\ AmfMayFail(f)
    /\ amfSubs' \in {amfSubs, amfSubs \cup {f}}
    /\ Return(f, IF f \in CapFlows THEN "fallback" ELSE "error")
    /\ spoiled' = spoiled \cup {f}
    /\ UNCHANGED <<registryVars, cancelled, subId, measurement, owed, mayAsk, posts, missed, cut>>

AnswerOf == [capSend |-> "PC", padSend |-> "ACK", rliSend |-> "PLI"]
AfterSend == [capSend |-> "capWait", padSend |-> "ackReg", rliSend |-> "pliWait"]

\* A fault: the message does not name the UE.
DownlinkUnaddressed(f) ==
    owed' = owed \cup {[kind |-> AnswerOf[pc[f]], supi |-> NoFlow, flow |-> f]}

\* The AMF passes the PDU to the UE, which will answer it.
Downlink(f) == owed' = owed \cup {[kind |-> AnswerOf[pc[f]], supi |-> SupiOf[f], flow |-> f]}

SendLPPOk(f) ==
    /\ pc[f] \in DOMAIN AnswerOf
    /\ f \notin cancelled
    /\ Downlink(f)
    /\ Kept(f, AfterSend[pc[f]])
    /\ UNCHANGED <<registryVars, cancelled, subId, measurement, amfSubs, mayAsk, posts,
                   missed, cut, spoiled>>

\* The PDU or only the AMF's answer is lost.  ProvideAssistanceData goes on.
SendLPPError(f) ==
    /\ pc[f] \in DOMAIN AnswerOf
    /\ AmfMayFail(f)
    /\ Downlink(f) \/ UNCHANGED owed
    /\ \/ pc[f] = "capSend" /\ Return(f, "fallback")
       \/ pc[f] = "padSend" /\ Kept(f, "ackReg")
       \/ pc[f] = "rliSend" /\ Return(f, "error")
    /\ UNCHANGED <<registryVars, cancelled, subId, measurement, amfSubs, mayAsk, posts,
                   missed, cut, spoiled>>

\* WaitOnChannel returns the body: whatever message it is, it counts as the one
\* the flow waits for.
Receive(f) ==
    /\ \/ pc[f] = "capWait" /\ Arrived(f, "PC") /\ Return(f, "ok")
       \/ pc[f] = "radWait" /\ Arrived(f, "RAD") /\ Kept(f, "padSend")
       \/ pc[f] = "ackWait" /\ Arrived(f, "ACK") /\ Kept(f, "pliReg")
       \/ pc[f] = "pliWait" /\ Arrived(f, "PLI") /\ Kept(f, "store")
    /\ UNCHANGED <<registryVars, cancelled, subId, measurement, amfVars, missed, cut, spoiled>>

\* A fault: the wait for the acknowledgement has no deadline.
TimeoutExceptAck(f) ==
    /\ \/ pc[f] = "capWait" /\ f \in cancelled /\ Return(f, "fallback")
       \/ pc[f] = "radWait" /\ Kept(f, "pliReg")
       \/ pc[f] = "pliWait" /\ Return(f, "error")
    /\ UNCHANGED <<registryVars, cancelled, subId, measurement, amfVars, missed, cut, spoiled>>

\* WaitOnChannel returns because the context is done; the three waits of the
\* location flow have deadlines of their own.
Timeout(f) ==
    /\ \/ pc[f] = "capWait" /\ f \in cancelled /\ Return(f, "fallback")
       \/ pc[f] \in {"radWait", "ackWait"} /\ Kept(f, "pliReg")
       \/ pc[f] = "pliWait" /\ Return(f, "error")
    /\ UNCHANGED <<registryVars, cancelled, subId, measurement, amfVars, missed, cut, spoiled>>

\* The body is stored under the session id; a failure to store it is only logged.
StoreMeasurement(f) ==
    /\ pc[f] = "store"
    /\ \/ f \notin cancelled /\ measurement' = [measurement EXCEPT ![f] = ch[f]["PLI"]]
       \/ RedisMayFail(f) /\ UNCHANGED measurement
    /\ Return(f, "ok")
    /\ UNCHANGED <<registryVars, cancelled, subId, amfVars, missed, cut, spoiled>>

\* Deferred UnsubscribeN1N2 on a context of its own; its result is ignored.
Unsubscribe(f) ==
    /\ pc[f] = "unsubscribe"
    /\ \/ amfSubs' = (IF subId[f] = "known" THEN amfSubs \ {f} ELSE amfSubs) /\ UNCHANGED spoiled
       \/ "amf" \in Faults /\ UNCHANGED amfSubs /\ spoiled' = spoiled \cup {f}
    /\ Kept(f, "done")
    /\ UNCHANGED <<registryVars, cancelled, subId, measurement, owed, mayAsk, posts, missed, cut>>

\* A goroutine of a registration loses its connection to Redis.  Nothing else but a
\* message ends it, also when its flow has long returned.
ListenerFails(f, k) ==
    /\ "redis" \in Faults
    /\ ReceiveFails(f, k)
    /\ cut' = cut \cup {<<f, k>>}
    /\ UNCHANGED <<flowVars, amfVars, missed, spoiled>>

-----------------------------------------------------------------------------
(* The AMF and the UE, external.                                           *)

\* The UE answers, in any order, or asks for assistance data.  The AMF notifies
\* every subscription for the UE; without one the message goes nowhere.
Uplink(m) ==
    /\ posts' = posts \cup {<<m, f>> : f \in {g \in amfSubs : SupiOf[g] = m.supi}}
    /\ UNCHANGED <<registryVars, flowVars, amfSubs, missed, cut, spoiled>>

UeAnswers(m) ==
    /\ m \in owed
    /\ owed' = owed \ {m}
    /\ Uplink(m)
    /\ UNCHANGED mayAsk

UeAsksForAssistance(u) ==
    /\ u \in mayAsk
    /\ mayAsk' = mayAsk \ {u}
    /\ Uplink([kind |-> "RAD", supi |-> u, flow |-> NoFlow])
    /\ UNCHANGED owed

\* The wait of flow f for message m is still to come or still open.
Awaits(f, m) ==
    /\ SupiOf[f] = m.supi /\ m.flow \in {f, NoFlow}
    /\ ch[f][m.kind] = NoMessage
    /\ CASE m.kind = "PC" -> pc[f] = "capWait"
         [] m.kind = "RAD" -> pc[f] \in {"radReg", "radWait"}
         [] m.kind = "ACK" -> pc[f] \in {"ackReg", "ackWait"}
         [] m.kind = "PLI" -> pc[f] = "pliWait"

\* HandleN1N2Notification: sbi-gateway publishes the body and answers 204, also
\* when nobody listens.
HandleN1N2Notification(p) ==
    LET m == p[1]
        late == {f \in Flows : Awaits(f, m) /\ m.kind \notin listeners[f]}
    IN  /\ p \in posts
        /\ posts' = posts \ {p}
        /\ \/ Deliver(m) /\ missed' = missed \cup {<<f, m.kind>> : f \in late \ cancelled}
           \/ "redis" \in Faults /\ UNCHANGED <<registryVars, missed>>
        /\ UNCHANGED <<flowVars, amfSubs, owed, mayAsk, cut, spoiled>>

-----------------------------------------------------------------------------
FlowStep(f) ==
    \/ RegisterOk(f) \/ RegisterError(f)
    \/ SubscribeOk(f) \/ SubscribeError(f)
    \/ SendLPPOk(f) \/ SendLPPError(f)
    \/ Receive(f) \/ Timeout(f)
    \/ StoreMeasurement(f)
    \/ Unsubscribe(f)

Ue ==
    \/ \E m \in owed : UeAnswers(m)
    \/ \E u \in mayAsk : UeAsksForAssistance(u)

Callback == \E p \in posts : HandleN1N2Notification(p)

Next ==
    \/ \E f \in Flows : Start(f) \/ Cancel(f) \/ FlowStep(f)
    \/ \E f \in Flows, k \in Kinds : ListenerFails(f, k)
    \/ Ue
    \/ Callback

Spec == Init /\ [][Next]_vars

\* Every wait of a flow has a deadline, every call a timeout, and handlers run.  Only
\* a capability flow waits for its whole context.  Nothing ends a goroutine that
\* listens to a silent UE.
FairSpec ==
    /\ Spec
    /\ \A f \in Flows : WF_vars(FlowStep(f))
    /\ \A f \in CapFlows : WF_vars(Cancel(f))

-----------------------------------------------------------------------------
(* Properties.                                                             *)

\* What a flow receives, and what it stores for its session, comes from its own UE,
\* also while the flows of other UEs run and calls fail.
OwnUe ==
    \A f \in Flows :
        /\ \A k \in Kinds : Arrived(f, k) => ch[f][k].supi = SupiOf[f]
        /\ measurement[f] # NoMessage => measurement[f].supi = SupiOf[f]

\* The exchanges that register before they send miss their answer only when the
\* connection to Redis of that very wait broke: neither another flow of the UE, nor
\* an earlier wait, nor any other failure takes its listener away.
ArmedExchangesMissNothing ==
    \A f \in Flows, k \in {"PC", "PLI"} : <<f, k>> \in missed => <<f, k>> \in cut

\* "MUST be called before SubscribeN1N2/SendLPP to avoid missing callbacks": no
\* message a flow waits for, or is about to wait for, is published in vain.
NothingMissed == missed = {}

\* A flow leaves no N1N2 subscription behind, unless the AMF call that makes or
\* removes it went wrong.
SubscriptionsCleanedUp == \A f \in Flows \ spoiled : pc[f] \in {"idle", "done"} => f \notin amfSubs

\* Every flow returns, whatever the UE and the AMF fail to send and whichever
\* connections break.
FlowsReturn == \A f \in Flows : Active(f) ~> (pc[f] = "done")
=============================================================================
