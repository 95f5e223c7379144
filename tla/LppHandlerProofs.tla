-------------------------- MODULE LppHandlerProofs ---------------------------
(***************************************************************************)
(* Proofs about LppHandler and the callback registry under it, for every   *)
(* set of flows, UEs and failures.                                         *)
(***************************************************************************)
EXTENDS LppHandler, TLAPS

USE FlowsAssumption, LppAssumption

-----------------------------------------------------------------------------
(* The registry.                                                           *)

\* A registration listens, on an empty channel.
LEMMA RegisterListens ==
    ASSUME RegistryTypeOK, NEW f \in Flows, NEW k \in Kinds, Register(f, k)
    PROVE  /\ RegistryTypeOK'
           /\ listeners'[f] = listeners[f] \cup {k} /\ ch'[f][k] = NoMessage
           /\ \A j \in Kinds \ {k} : ch'[f][j] = ch[f][j]
           /\ \A g \in Flows \ {f} : listeners'[g] = listeners[g] /\ ch'[g] = ch[g]
BY DEF RegistryTypeOK, Register

\* A message reaches the channels of goroutines that listen for its UE, and no other;
\* a goroutine that stops listening has the message in its channel.
LEMMA DeliverReaches ==
    ASSUME RegistryTypeOK, NEW m \in Message, Deliver(m)
    PROVE  /\ RegistryTypeOK'
           /\ \A f \in Flows, k \in Kinds :
                /\ ch'[f][k] = ch[f][k] \/ (ch'[f][k] = m /\ SupiOf[f] = m.supi)
                /\ k \in listeners[f] => k \in listeners'[f] \/ ch'[f][k] = m
                /\ ch[f][k] # NoMessage => ch'[f][k] # NoMessage
<1>1. \A f \in Flows : f \in Receivers(m.supi) => SupiOf[f] = m.supi
  BY DEF Receivers, channelKey
<1>2. \A f \in Flows :
        /\ f \in Receivers(m.supi) =>
             /\ listeners'[f] = {}
             /\ ch'[f] = [k \in Kinds |-> IF k \in listeners[f] THEN m ELSE ch[f][k]]
        /\ f \notin Receivers(m.supi) => listeners'[f] = listeners[f] /\ ch'[f] = ch[f]
  BY DEF Deliver
<1>3. listeners' \in [Flows -> SUBSET Kinds]
  <2>1. \A f \in Flows : listeners'[f] \in SUBSET Kinds
    BY <1>2 DEF RegistryTypeOK
  <2>2. QED BY <2>1 DEF Deliver
<1>4. ch' \in [Flows -> [Kinds -> Message \cup {NoMessage}]]
  <2>1. \A f \in Flows : ch'[f] \in [Kinds -> Message \cup {NoMessage}]
    BY <1>2 DEF RegistryTypeOK
  <2>2. QED BY <2>1 DEF Deliver
<1>5. QED BY <1>1, <1>2, <1>3, <1>4 DEF RegistryTypeOK

-----------------------------------------------------------------------------
(* The steps of a flow.                                                    *)

\* What a flow registers for, and where it goes then.
LEMMA Registers ==
    ASSUME NEW f \in Flows, RegisterOk(f)
    PROVE  \/ pc[f] = "capReg" /\ Register(f, "PC") /\ Goto(f, "subscribe")
           \/ pc[f] = "radReg" /\ Register(f, "RAD") /\ Goto(f, "radWait")
           \/ pc[f] = "ackReg" /\ Register(f, "ACK") /\ Goto(f, "ackWait")
           \/ pc[f] = "pliReg" /\ Register(f, "PLI") /\ Goto(f, "rliSend")
BY DEF RegisterOk, WaitOf, AfterRegister, Kept

\* Where a flow goes once the AMF took its message, and that the UE owes an answer.
LEMMA Sends ==
    ASSUME TypeOK, NEW f \in Flows, SendLPPOk(f)
    PROVE  /\ owed' \in SUBSET Message
           /\ \/ pc[f] = "capSend" /\ Goto(f, "capWait")
              \/ pc[f] = "padSend" /\ Goto(f, "ackReg")
              \/ pc[f] = "rliSend" /\ Goto(f, "pliWait")
<1>1. pc[f] \in {"capSend", "padSend", "rliSend"}
  BY DEF SendLPPOk, AnswerOf
<1>2. AnswerOf[pc[f]] \in Kinds /\ SupiOf[f] \in Supis
  BY <1>1 DEF AnswerOf, Kinds
<1>3. owed' \in SUBSET Message
  BY <1>2 DEF SendLPPOk, Downlink, Message, TypeOK
<1>4. QED BY <1>1, <1>3 DEF SendLPPOk, AfterSend, Kept

LEMMA SendErrors ==
    ASSUME TypeOK, NEW f \in Flows, SendLPPError(f)
    PROVE  owed' \in SUBSET Message
<1>1. pc[f] \in {"capSend", "padSend", "rliSend"}
  BY DEF SendLPPError, AnswerOf
<1>2. AnswerOf[pc[f]] \in Kinds /\ SupiOf[f] \in Supis
  BY <1>1 DEF AnswerOf, Kinds
<1>3. QED BY <1>2 DEF SendLPPError, Downlink, Message, TypeOK

\* A return ends the flow, or leaves it the unsubscription of the subscription it has.
LEMMA Returns ==
    ASSUME TypeOK, NEW f \in Flows, NEW res \in {"ok", "fallback", "error"}, Return(f, res)
    PROVE  /\ pc' \in [Flows -> Steps] /\ result' \in [Flows -> {"none", "ok", "fallback", "error"}]
           /\ pc'[f] = IF subId[f] = "none" THEN "done" ELSE "unsubscribe"
           /\ \A g \in Flows \ {f} : pc'[g] = pc[g]
BY DEF TypeOK, Return, Goto, Steps

LEMMA Goes ==
    ASSUME TypeOK, NEW f \in Flows, NEW step \in Steps, Goto(f, step)
    PROVE  pc' \in [Flows -> Steps] /\ pc'[f] = step /\ \A g \in Flows \ {f} : pc'[g] = pc[g]
BY DEF TypeOK, Goto

\* The messages under way are messages.
LEMMA Uplinks ==
    ASSUME TypeOK, NEW m \in Message, Uplink(m)
    PROVE  posts' \in SUBSET (Message \X Flows)
BY DEF TypeOK, Uplink

-----------------------------------------------------------------------------
(* Types.                                                                  *)

LEMMA TypesInit == Init => TypeOK
BY DEF Init, RegistryInit, TypeOK, RegistryTypeOK, Steps, NoFlow

\* A step of one flow that changes no more than the flow's own steps do.
LEMMA FlowTypes ==
    ASSUME TypeOK, RegistryTypeOK', pc' \in [Flows -> Steps],
           result' \in [Flows -> {"none", "ok", "fallback", "error"}],
           subId' \in [Flows -> {"none", "known", "bad"}],
           measurement' \in [Flows -> Message \cup {NoMessage}],
           amfSubs' \in SUBSET Flows, owed' \in SUBSET Message, spoiled' \in SUBSET Flows,
           UNCHANGED <<cancelled, mayAsk, posts, missed, cut>>
    PROVE  TypeOK'
BY DEF TypeOK

LEMMA StepTypes ==
    ASSUME TypeOK, NEW f \in Flows, FlowStep(f)
    PROVE  TypeOK'
<1> USE DEF Steps, registryVars, amfVars
<1>1. CASE RegisterOk(f)
  <2>1. RegistryTypeOK' /\ pc' \in [Flows -> Steps]
    BY <1>1, Registers, RegisterListens, Goes DEF TypeOK, Kinds
  <2>2. QED BY <1>1, <2>1, FlowTypes DEF RegisterOk, Kept, TypeOK
<1>2. CASE RegisterError(f)
  <2>1. pc' \in [Flows -> Steps] /\ result' \in [Flows -> {"none", "ok", "fallback", "error"}]
    BY <1>2, Returns, Goes DEF RegisterError, Kept, TypeOK
  <2>2. QED BY <1>2, <2>1, FlowTypes DEF RegisterError, TypeOK, RegistryTypeOK
<1>3. CASE SubscribeOk(f)
  <2>1. pc' \in [Flows -> Steps]
    BY <1>3, Goes DEF SubscribeOk, Kept
  <2>2. QED BY <1>3, <2>1, FlowTypes DEF SubscribeOk, Kept, TypeOK, RegistryTypeOK
<1>4. CASE SubscribeError(f)
  <2>1. pc' \in [Flows -> Steps] /\ result' \in [Flows -> {"none", "ok", "fallback", "error"}]
    BY <1>4, Returns DEF SubscribeError
  <2>2. QED BY <1>4, <2>1, FlowTypes DEF SubscribeError, TypeOK, RegistryTypeOK
<1>5. CASE SendLPPOk(f)
  <2>1. pc' \in [Flows -> Steps] /\ owed' \in SUBSET Message
    BY <1>5, Sends, Goes
  <2>2. QED BY <1>5, <2>1, FlowTypes DEF SendLPPOk, Kept, TypeOK, RegistryTypeOK
<1>6. CASE SendLPPError(f)
  <2>1. pc' \in [Flows -> Steps] /\ result' \in [Flows -> {"none", "ok", "fallback", "error"}]
    BY <1>6, Returns, Goes DEF SendLPPError, Kept, TypeOK
  <2>2. QED BY <1>6, <2>1, SendErrors, FlowTypes DEF SendLPPError, TypeOK, RegistryTypeOK
<1>7. CASE Receive(f)
  <2>1. pc' \in [Flows -> Steps] /\ result' \in [Flows -> {"none", "ok", "fallback", "error"}]
    BY <1>7, Returns, Goes DEF Receive, Kept, TypeOK
  <2>2. QED BY <1>7, <2>1, FlowTypes DEF Receive, TypeOK, RegistryTypeOK
<1>8. CASE Timeout(f)
  <2>1. pc' \in [Flows -> Steps] /\ result' \in [Flows -> {"none", "ok", "fallback", "error"}]
    BY <1>8, Returns, Goes DEF Timeout, Kept, TypeOK
  <2>2. QED BY <1>8, <2>1, FlowTypes DEF Timeout, TypeOK, RegistryTypeOK
<1>9. CASE StoreMeasurement(f)
  <2>1. pc' \in [Flows -> Steps] /\ result' \in [Flows -> {"none", "ok", "fallback", "error"}]
    BY <1>9, Returns DEF StoreMeasurement
  <2>2. ch[f]["PLI"] \in Message \cup {NoMessage}
    BY DEF TypeOK, RegistryTypeOK, Kinds
  <2>3. measurement' \in [Flows -> Message \cup {NoMessage}]
    BY <1>9, <2>2 DEF StoreMeasurement, TypeOK
  <2>4. QED BY <1>9, <2>1, <2>3, FlowTypes DEF StoreMeasurement, TypeOK, RegistryTypeOK
<1>10. CASE Unsubscribe(f)
  <2>1. pc' \in [Flows -> Steps]
    BY <1>10, Goes DEF Unsubscribe, Kept
  <2>2. QED BY <1>10, <2>1, FlowTypes DEF Unsubscribe, Kept, TypeOK, RegistryTypeOK
<1>11. QED BY <1>1, <1>2, <1>3, <1>4, <1>5, <1>6, <1>7, <1>8, <1>9, <1>10 DEF FlowStep

LEMMA TypesNext == TypeOK /\ [Next]_vars => TypeOK'
<1> SUFFICES ASSUME TypeOK, [Next]_vars PROVE TypeOK'
  OBVIOUS
<1> USE DEF registryVars, flowVars, amfVars
<1>1. CASE UNCHANGED vars
  BY <1>1 DEF vars, TypeOK, RegistryTypeOK
<1>2. ASSUME NEW f \in Flows, Start(f) PROVE TypeOK'
  <2>1. pc' \in [Flows -> Steps]
    BY <1>2, Goes DEF Start, Steps
  <2>2. QED BY <1>2, <2>1 DEF Start, TypeOK, RegistryTypeOK
<1>3. ASSUME NEW f \in Flows, Cancel(f) PROVE TypeOK'
  BY <1>3 DEF Cancel, TypeOK, RegistryTypeOK
<1>4. ASSUME NEW f \in Flows, NEW k \in Kinds, ListenerFails(f, k) PROVE TypeOK'
  <2>1. RegistryTypeOK'
    BY <1>4 DEF ListenerFails, ReceiveFails, TypeOK, RegistryTypeOK
  <2>2. QED BY <1>4, <2>1 DEF ListenerFails, TypeOK
<1>5. CASE Ue
  <2>1. ASSUME NEW m \in owed, UeAnswers(m) PROVE TypeOK'
    BY <2>1, Uplinks DEF UeAnswers, Uplink, TypeOK, RegistryTypeOK
  <2>2. ASSUME NEW u \in mayAsk, UeAsksForAssistance(u) PROVE TypeOK'
    <3>1. [kind |-> "RAD", supi |-> u, flow |-> NoFlow] \in Message
      BY DEF Message, Kinds, TypeOK
    <3>2. QED BY <2>2, <3>1, Uplinks DEF UeAsksForAssistance, Uplink, TypeOK, RegistryTypeOK
  <2>3. QED BY <1>5, <2>1, <2>2 DEF Ue
<1>6. ASSUME NEW p \in posts, HandleN1N2Notification(p) PROVE TypeOK'
  <2>1. p[1] \in Message /\ p[1].kind \in Kinds
    BY DEF TypeOK, Message
  <2>2. RegistryTypeOK'
    BY <1>6, <2>1, DeliverReaches DEF HandleN1N2Notification, TypeOK, RegistryTypeOK
  <2>3. missed' \in SUBSET (Flows \X Kinds)
    BY <1>6, <2>1 DEF HandleN1N2Notification, TypeOK
  <2>4. QED BY <1>6, <2>2, <2>3 DEF HandleN1N2Notification, TypeOK
<1>7. QED BY <1>1, <1>2, <1>3, <1>4, <1>5, <1>6, StepTypes DEF Next, Callback

\* Every reachable state is well typed, the messages under way included.
THEOREM LppTypes == Spec => []TypeOK
BY TypesInit, TypesNext, PTL DEF Spec

-----------------------------------------------------------------------------
(* What a flow receives is its own UE's.                                   *)

LEMMA OwnInit == Init => OwnUe
<1> SUFFICES ASSUME Init PROVE OwnUe
  OBVIOUS
<1>1. \A f \in Flows, k \in Kinds : ch[f][k] = NoMessage
  BY DEF Init, RegistryInit
<1>2. \A f \in Flows : measurement[f] = NoMessage
  BY DEF Init
<1>3. QED BY <1>1, <1>2 DEF OwnUe, Arrived

LEMMA OwnNext == TypeOK /\ OwnUe /\ [Next]_vars => OwnUe'
<1> SUFFICES ASSUME TypeOK, OwnUe, [Next]_vars PROVE OwnUe'
  OBVIOUS
<1> USE DEF registryVars, flowVars, amfVars
<1>1. CASE UNCHANGED <<ch, measurement>>
  BY <1>1 DEF OwnUe, Arrived
<1>2. ASSUME NEW f \in Flows, RegisterOk(f) PROVE OwnUe'
  <2>1. \A g \in Flows, k \in Kinds : ch'[g][k] \in {ch[g][k], NoMessage}
    <3>1. ASSUME NEW j \in Kinds, Register(f, j)
          PROVE  \A g \in Flows, k \in Kinds : ch'[g][k] \in {ch[g][k], NoMessage}
      BY <3>1, RegisterListens DEF TypeOK
    <3>2. QED BY <1>2, <3>1, Registers DEF Kinds
  <2>2. QED BY <1>2, <2>1 DEF RegisterOk, OwnUe, Arrived
<1>3. ASSUME NEW f \in Flows, StoreMeasurement(f) PROVE OwnUe'
  <2>1. UNCHANGED ch /\ \A g \in Flows : measurement'[g] \in {measurement[g], ch[g]["PLI"]}
    BY <1>3 DEF StoreMeasurement, TypeOK
  <2>2. \A g \in Flows : ch[g]["PLI"] # NoMessage => ch[g]["PLI"].supi = SupiOf[g]
    BY DEF OwnUe, Arrived, Kinds
  <2>3. QED BY <2>1, <2>2 DEF OwnUe, Arrived
<1>4. ASSUME NEW p \in posts, HandleN1N2Notification(p) PROVE OwnUe'
  <2>1. p[1] \in Message
    BY DEF TypeOK
  <2>2. CASE Deliver(p[1])
    <3>1. \A f \in Flows, k \in Kinds :
            ch'[f][k] = ch[f][k] \/ (ch'[f][k] = p[1] /\ SupiOf[f] = p[1].supi)
      BY <2>1, <2>2, DeliverReaches DEF TypeOK
    <3>2. QED BY <1>4, <3>1 DEF HandleN1N2Notification, OwnUe, Arrived
  <2>3. QED BY <1>1, <1>4, <2>2 DEF HandleN1N2Notification
<1>5. ASSUME NEW f \in Flows, FlowStep(f) PROVE OwnUe'
  BY <1>1, <1>2, <1>3, <1>5 DEF FlowStep, RegisterError, SubscribeOk, SubscribeError, SendLPPOk,
       SendLPPError, Receive, Timeout, Unsubscribe
<1>6. ASSUME NEW f \in Flows, NEW k \in Kinds, Start(f) \/ Cancel(f) \/ ListenerFails(f, k)
      PROVE  OwnUe'
  BY <1>1, <1>6 DEF Start, Cancel, ListenerFails, ReceiveFails
<1>7. CASE Ue
  BY <1>1, <1>7 DEF Ue, UeAnswers, UeAsksForAssistance, Uplink
<1>8. CASE UNCHANGED vars
  BY <1>1, <1>8 DEF vars
<1>9. QED BY <1>4, <1>5, <1>6, <1>7, <1>8 DEF Next, Callback, Kinds

\* A flow receives, and stores for its session, only messages of its own UE, whatever
\* the flows of other UEs do and whichever calls fail.
THEOREM LppOwnUe == Spec => []OwnUe
BY OwnInit, OwnNext, LppTypes, PTL DEF Spec

-----------------------------------------------------------------------------
(* Flows that register before they send miss nothing.                      *)

\* The steps from a registration for k to the end of its wait.
Armed(f, k) ==
    \/ k = "PC" /\ (pc[f] \in {"capSend", "capWait"} \/ (pc[f] = "subscribe" /\ f \in CapFlows))
    \/ k = "PLI" /\ pc[f] \in {"rliSend", "pliWait"}

\* An armed flow listens, has its message, or has lost the connection of that wait.
Listening == \A f \in Flows, k \in {"PC", "PLI"} :
                Armed(f, k) => k \in listeners[f] \/ Arrived(f, k) \/ <<f, k>> \in cut

ArmedInv == Listening /\ ArmedExchangesMissNothing

LEMMA ArmedInit == Init => ArmedInv
BY DEF Init, RegistryInit, ArmedInv, Listening, Armed, ArmedExchangesMissNothing

\* A step that arms no flow and takes no message or listener from a flow under way.
LEMMA ListeningKept ==
    ASSUME ArmedInv, UNCHANGED <<missed, cut>>,
           \A f \in Flows, k \in {"PC", "PLI"} :
             Armed(f, k)' => /\ Armed(f, k)
                             /\ k \in listeners[f] => k \in listeners'[f]
                             /\ Arrived(f, k) => Arrived(f, k)'
    PROVE  ArmedInv'
BY DEF ArmedInv, Listening, ArmedExchangesMissNothing

LEMMA ArmedStep ==
    ASSUME TypeOK, ArmedInv, NEW f \in Flows, FlowStep(f), ~RegisterOk(f)
    PROVE  ArmedInv'
<1> USE DEF registryVars, amfVars
<1>1. UNCHANGED <<listeners, ch, missed, cut>>
  BY DEF FlowStep, RegisterError, SubscribeOk, SubscribeError, SendLPPOk, SendLPPError, Receive,
         Timeout, StoreMeasurement, Unsubscribe
<1>2. \A g \in Flows \ {f} : pc'[g] = pc[g]
  <2>1. ASSUME NEW step, Goto(f, step) PROVE \A g \in Flows \ {f} : pc'[g] = pc[g]
    BY <2>1 DEF Goto, TypeOK
  <2>2. QED BY <2>1 DEF FlowStep, RegisterError, SubscribeOk, SubscribeError, SendLPPOk,
                SendLPPError, Receive, Timeout, StoreMeasurement, Unsubscribe, Return, Kept
<1>3. ASSUME NEW k \in {"PC", "PLI"}, Armed(f, k)' PROVE Armed(f, k)
  <2>1. pc'[f] \in {"capSend", "capWait", "subscribe", "rliSend", "pliWait"}
    BY <1>3 DEF Armed
  <2>2. CASE SubscribeOk(f)
    BY <1>3, <2>1, <2>2 DEF SubscribeOk, Kept, Goto, TypeOK, Armed
  <2>3. CASE SendLPPOk(f)
    BY <1>3, <2>1, <2>3, Sends, Goes DEF Armed, Steps
  <2>4. ASSUME RegisterError(f) \/ SubscribeError(f) \/ SendLPPError(f) \/ Receive(f)
                 \/ Timeout(f) \/ StoreMeasurement(f) \/ Unsubscribe(f)
        PROVE  FALSE
    <3>1. pc'[f] \in {"done", "unsubscribe", "pliReg", "ackReg", "padSend", "store"}
      BY <2>4 DEF RegisterError, SubscribeError, SendLPPError, Receive, Timeout,
           StoreMeasurement, Unsubscribe, Return, Kept, Goto, TypeOK
    <3>2. QED BY <2>1, <3>1
  <2>5. QED BY <2>2, <2>3, <2>4 DEF FlowStep
<1>4. \A g \in Flows : \A k \in {"PC", "PLI"} : Armed(g, k)' => Armed(g, k)
  BY <1>2, <1>3 DEF Armed
<1>5. QED BY <1>1, <1>4, ListeningKept DEF Arrived

LEMMA ArmedRegister ==
    ASSUME TypeOK, ArmedInv, NEW f \in Flows, RegisterOk(f)
    PROVE  ArmedInv'
<1>1. UNCHANGED <<missed, cut>>
  BY DEF RegisterOk
<1>2. PICK k \in Kinds, step \in {"subscribe", "radWait", "ackWait", "rliSend"} :
        /\ Register(f, k) /\ Goto(f, step)
        /\ step = "subscribe" => k = "PC"
        /\ step = "rliSend" => k = "PLI"
  BY Registers DEF Kinds
<1>3. pc'[f] = step /\ \A g \in Flows \ {f} : pc'[g] = pc[g]
  BY <1>2, Goes DEF Steps
<1>4. /\ k \in listeners'[f]
      /\ \A g \in Flows \ {f} : listeners'[g] = listeners[g] /\ ch'[g] = ch[g]
  BY <1>2, RegisterListens DEF TypeOK
<1>5. \A j \in {"PC", "PLI"} : Armed(f, j)' => j = k
  BY <1>2, <1>3 DEF Armed
<1>6. Listening'
  BY <1>1, <1>3, <1>4, <1>5 DEF ArmedInv, Listening, Armed, Arrived
<1>7. QED BY <1>1, <1>6 DEF ArmedInv, ArmedExchangesMissNothing

LEMMA ArmedCallback ==
    ASSUME TypeOK, ArmedInv, NEW p \in posts, HandleN1N2Notification(p)
    PROVE  ArmedInv'
<1> USE DEF registryVars, flowVars
<1>1. CASE UNCHANGED <<registryVars, missed>>
  BY <1>1, ListeningKept DEF HandleN1N2Notification, Armed, Arrived
<1>2. ASSUME Deliver(p[1]),
             missed' = missed \cup
               {<<f, p[1].kind>> : f \in {g \in Flows : Awaits(g, p[1])
                                            /\ p[1].kind \notin listeners[g]} \ cancelled}
      PROVE  ArmedInv'
  <2>1. p[1] \in Message /\ p[1] # NoMessage
    BY DEF TypeOK
  <2>2. \A f \in Flows, k \in Kinds :
          /\ k \in listeners[f] => k \in listeners'[f] \/ ch'[f][k] = p[1]
          /\ ch[f][k] # NoMessage => ch'[f][k] # NoMessage
    BY <1>2, <2>1, DeliverReaches DEF TypeOK
  <2>3. Listening'
    BY <2>1, <2>2 DEF HandleN1N2Notification, ArmedInv, Listening, Armed, Arrived, Kinds
  <2>4. ASSUME NEW f \in Flows, NEW k \in {"PC", "PLI"}, p[1].kind = k, Awaits(f, p[1])
        PROVE  k \in listeners[f] \/ <<f, k>> \in cut
    <3>1. Armed(f, k) /\ ~Arrived(f, k)
      BY <2>4 DEF Awaits, Armed, Arrived
    <3>2. QED BY <3>1 DEF ArmedInv, Listening
  <2>5. ArmedExchangesMissNothing'
    BY <1>2, <2>4 DEF HandleN1N2Notification, ArmedInv, ArmedExchangesMissNothing
  <2>6. QED BY <2>3, <2>5 DEF ArmedInv
<1>3. QED BY <1>1, <1>2 DEF HandleN1N2Notification

LEMMA ArmedNext == TypeOK /\ ArmedInv /\ [Next]_vars => ArmedInv'
<1> SUFFICES ASSUME TypeOK, ArmedInv, [Next]_vars PROVE ArmedInv'
  OBVIOUS
<1> USE DEF registryVars, flowVars, amfVars
<1>1. CASE UNCHANGED <<pc, listeners, ch, missed, cut>>
  BY <1>1, ListeningKept DEF Armed, Arrived
<1>2. ASSUME NEW f \in Flows, Start(f) PROVE ArmedInv'
  <2>1. UNCHANGED <<listeners, ch, missed, cut>>
        /\ (\A g \in Flows \ {f} : pc'[g] = pc[g])
        /\ pc'[f] = IF f \in CapFlows THEN "capReg" ELSE "subscribe"
    BY <1>2 DEF Start, Goto, TypeOK
  <2>2. \A g \in Flows : \A k \in {"PC", "PLI"} : Armed(g, k)' => Armed(g, k)
    BY <2>1 DEF Armed
  <2>3. QED BY <2>1, <2>2, ListeningKept DEF Arrived
<1>3. ASSUME NEW f \in Flows, Cancel(f) PROVE ArmedInv'
  BY <1>1, <1>3 DEF Cancel
<1>4. ASSUME NEW f \in Flows, NEW k \in Kinds, ListenerFails(f, k) PROVE ArmedInv'
  <2>1. UNCHANGED <<pc, ch, missed>> /\ cut' = cut \cup {<<f, k>>}
    BY <1>4 DEF ListenerFails, ReceiveFails
  <2>2. \A g \in Flows, j \in Kinds : j \in listeners[g] => j \in listeners'[g] \/ <<g, j>> \in cut'
    BY <1>4, <2>1 DEF ListenerFails, ReceiveFails, TypeOK, RegistryTypeOK
  <2>3. QED
    BY <2>1, <2>2 DEF ArmedInv, Listening, ArmedExchangesMissNothing, Armed, Arrived, Kinds
<1>5. CASE Ue
  BY <1>1, <1>5 DEF Ue, UeAnswers, UeAsksForAssistance, Uplink
<1>6. CASE UNCHANGED vars
  BY <1>1, <1>6 DEF vars
<1>7. QED BY <1>2, <1>3, <1>4, <1>5, <1>6, ArmedStep, ArmedRegister, ArmedCallback
      DEF Next, Callback, FlowStep

\* An answer to a capability request or a location request is published in vain, while its
\* flow waits for it, only when the connection to Redis of that wait has broken, whatever
\* the other flows of the UE do and whichever calls fail or are given up.
THEOREM LppMissesNoArmed == Spec => []ArmedExchangesMissNothing
<1>1. ArmedInv => ArmedExchangesMissNothing
  BY DEF ArmedInv
<1>2. QED BY <1>1, ArmedInit, ArmedNext, LppTypes, PTL DEF Spec

-----------------------------------------------------------------------------
(* Subscriptions.                                                          *)

\* A flow none of whose AMF calls failed knows the subscription it has, and is
\* still on its way to remove it.
SubscribedInv ==
    \A f \in amfSubs \ spoiled :
        subId[f] = "known" /\ pc[f] \notin {"idle", "capReg", "subscribe", "done"}

LEMMA SubscribedStep ==
    ASSUME TypeOK, SubscribedInv, NEW f \in Flows, FlowStep(f)
    PROVE  SubscribedInv'
<1>1. ASSUME NEW step, Goto(f, step) PROVE pc'[f] = step /\ \A g \in Flows \ {f} : pc'[g] = pc[g]
  BY <1>1 DEF Goto, TypeOK
<1>2. \A g \in Flows \ {f} : pc'[g] = pc[g] /\ subId'[g] = subId[g]
      /\ (g \in amfSubs' \ spoiled' => g \in amfSubs \ spoiled)
  BY <1>1 DEF FlowStep, RegisterOk, RegisterError, SubscribeOk, SubscribeError, SendLPPOk,
       SendLPPError, Receive, Timeout, StoreMeasurement, Unsubscribe, Return, Kept, amfVars, TypeOK
<1>3. ASSUME f \in amfSubs' \ spoiled'
      PROVE  subId'[f] = "known" /\ pc'[f] \notin {"idle", "capReg", "subscribe", "done"}
  <2>1. CASE SubscribeOk(f)
    BY <1>3, <2>1 DEF SubscribeOk, Kept, Goto, TypeOK
  <2>2. CASE SubscribeError(f)
    BY <1>3, <2>2 DEF SubscribeError
  <2>3. CASE Unsubscribe(f)
    BY <1>3, <2>3 DEF Unsubscribe, SubscribedInv, TypeOK
  <2>4. ASSUME RegisterOk(f) \/ RegisterError(f) \/ SendLPPOk(f) \/ SendLPPError(f)
                 \/ Receive(f) \/ Timeout(f) \/ StoreMeasurement(f)
        PROVE  UNCHANGED <<amfSubs, spoiled, subId>>
    BY <2>4 DEF RegisterOk, RegisterError, SendLPPOk, SendLPPError, Receive, Timeout,
         StoreMeasurement, amfVars
  <2>5. ASSUME subId[f] = "known", NEW res, Return(f, res) PROVE pc'[f] = "unsubscribe"
    BY <1>1, <2>5 DEF Return
  <2>6. CASE RegisterOk(f) \/ RegisterError(f) \/ SendLPPOk(f) \/ SendLPPError(f)
                 \/ Receive(f) \/ Timeout(f) \/ StoreMeasurement(f)
    <3>1. subId[f] = "known" /\ subId'[f] = "known" /\ pc[f] # "capReg"
      BY <1>3, <2>4, <2>6 DEF SubscribedInv
    <3>2. CASE RegisterOk(f)
      BY <1>1, <3>1, <3>2, Registers
    <3>3. CASE SendLPPOk(f)
      BY <1>1, <3>1, <3>3, Sends
    <3>4. CASE RegisterError(f) \/ SendLPPError(f) \/ Receive(f) \/ Timeout(f)
                 \/ StoreMeasurement(f)
      BY <1>1, <2>5, <3>1, <3>4 DEF RegisterError, SendLPPError, Receive, Timeout,
           StoreMeasurement, Kept
    <3>5. QED BY <2>6, <3>2, <3>3, <3>4
  <2>7. QED BY <2>1, <2>2, <2>3, <2>6 DEF FlowStep
<1>4. amfSubs' \subseteq Flows
  BY StepTypes DEF TypeOK
<1>5. QED BY <1>2, <1>3, <1>4 DEF SubscribedInv

LEMMA SubscribedNext == TypeOK /\ SubscribedInv /\ [Next]_vars => SubscribedInv'
<1> SUFFICES ASSUME TypeOK, SubscribedInv, [Next]_vars PROVE SubscribedInv'
  OBVIOUS
<1> USE DEF flowVars, amfVars
<1>1. CASE UNCHANGED <<pc, subId, amfSubs, spoiled>>
  BY <1>1 DEF SubscribedInv
<1>2. ASSUME NEW f \in Flows, Start(f) PROVE SubscribedInv'
  BY <1>2 DEF Start, Goto, TypeOK, SubscribedInv
<1>3. ASSUME NEW f \in Flows, NEW k \in Kinds, Cancel(f) \/ ListenerFails(f, k)
      PROVE  SubscribedInv'
  BY <1>1, <1>3 DEF Cancel, ListenerFails
<1>4. CASE Ue
  BY <1>1, <1>4 DEF Ue, UeAnswers, UeAsksForAssistance, Uplink
<1>5. ASSUME NEW p \in posts, HandleN1N2Notification(p) PROVE SubscribedInv'
  BY <1>1, <1>5 DEF HandleN1N2Notification
<1>6. CASE UNCHANGED vars
  BY <1>1, <1>6 DEF vars
<1>7. QED BY <1>2, <1>3, <1>4, <1>5, <1>6, SubscribedStep DEF Next, Callback, Kinds

\* A flow that ended has no N1N2 subscription at the AMF, unless one of its AMF calls
\* failed: the deferred unsubscription covers every way out of the flow.
THEOREM LppCleansUp == Spec => []SubscriptionsCleanedUp
<1>1. Init => SubscribedInv
  BY DEF Init, SubscribedInv
<1>2. SubscribedInv => SubscriptionsCleanedUp
  BY DEF SubscribedInv, SubscriptionsCleanedUp
<1>3. QED BY <1>1, <1>2, SubscribedNext, LppTypes, PTL DEF Spec
=============================================================================
