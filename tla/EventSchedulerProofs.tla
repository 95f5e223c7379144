------------------------ MODULE EventSchedulerProofs -------------------------
(***************************************************************************)
(* Proofs about EventScheduler, for every list of subscriptions, every     *)
(* area and position, and every number of ticks.                           *)
(***************************************************************************)
EXTENDS EventScheduler, FiniteSetTheorems, TLAPS

SubOf(i) == Subs[i]
Compares(i) == SubOf(i).eventType \in {"ENTER", "LEAVE", "MOTION"}

\* Where a subscription compares, the position kept for its SUPI is what it saw itself, so
\* the right events trigger.
SawLast == \A i \in DOMAIN Subs : Compares(i) => seen[i] = lastPos[SubOf(i).supi]

SchedInv == TypeOK /\ (OwnSubscriber => SawLast /\ due = {})

LEMMA SchedConstants ==
    ASSUME SchedulerAssumption
    PROVE  /\ DOMAIN Subs = 1 .. Len(Subs) /\ Len(Subs) \in Nat
           /\ \A i \in DOMAIN Subs :
               /\ SubOf(i).supi \in Supis /\ SubOf(i).eventType \in EventTypes
               /\ \A j \in DOMAIN Subs :
                   OwnSubscriber /\ Compares(i) /\ SubOf(i).supi = SubOf(j).supi => i = j
           /\ Start \in Positions /\ MaxTicks \in Nat
<1> DEFINE Records == {Subs[i] : i \in DOMAIN Subs}
<1>1. Subs \in Seq(Records)
  BY DEF SchedulerAssumption
<1> HIDE DEF Records
<1>2. DOMAIN Subs = 1 .. Len(Subs) /\ Len(Subs) \in Nat
  BY <1>1
<1>3. QED BY <1>2 DEF SchedulerAssumption, OwnSubscriber, SubOf, Compares

LEMMA AtMostOne == Cardinality({}) <= 1 /\ \A p : Cardinality({p}) <= 1
<1>1. Cardinality({}) = 0
  BY FS_EmptySet
<1>2. ASSUME NEW p PROVE Cardinality({p}) <= 1
  <2> DEFINE one == {p}
  <2>1. Cardinality(one) = 1
    BY FS_Singleton
  <2> HIDE DEF one
  <2>2. Cardinality(one) <= 1
    BY <2>1
  <2>3. QED BY <2>2 DEF one
<1>3. Cardinality({}) <= 1
  BY <1>1
<1>4. QED BY <1>2, <1>3, Zenon

LEMMA SchedInit == ASSUME SchedulerAssumption, Init PROVE SchedInv
<1>1. /\ pos \in [Supis -> Positions] /\ lastPos \in [Supis -> SUBSET Positions]
      /\ delivered \in [DOMAIN Subs -> Nat]
      /\ seen \in [DOMAIN Subs -> SUBSET Positions]
      /\ due = {}
  BY SchedConstants DEF Init
<1>2. \A u \in Supis : Cardinality(lastPos[u]) <= 1
  BY AtMostOne DEF Init
<1>3. next \in 0 .. Len(Subs) /\ ticks \in 0 .. MaxTicks
  BY SchedConstants DEF Init
<1>4. SawLast
  BY SchedConstants DEF Init, SawLast
<1>5. QED BY <1>1, <1>2, <1>3, <1>4 DEF SchedInv, TypeOK

\* An event that is no change of position triggers whatever was seen before.
LEMMA TriggeredAlike ==
    ASSUME SchedulerAssumption, NEW i \in DOMAIN Subs, ~Compares(i), NEW p, NEW S, NEW T
    PROVE  Triggered(SubOf(i), p, S) = Triggered(SubOf(i), p, T)
<1>1. SubOf(i).eventType \in {"WITHIN", "PERIODIC"}
  BY SchedConstants DEF Compares, EventTypes
<1>2. CASE SubOf(i).eventType = "WITHIN"
  BY <1>2 DEF Triggered, EvaluateAreaEvent
<1>3. CASE SubOf(i).eventType = "PERIODIC"
  BY <1>3 DEF Triggered
<1>4. QED BY <1>1, <1>2, <1>3

LEMMA SchedEvaluates == ASSUME SchedulerAssumption, SchedInv, EvaluateSub PROVE SchedInv'
<1> DEFINE sub == SubOf(next)
           here == pos[sub.supi]
           fires == Triggered(sub, here, lastPos[sub.supi])
           owed == Triggered(sub, here, seen[next])
<1>1. next \in DOMAIN Subs /\ sub.supi \in Supis /\ here \in Positions
  <2>1. next \in 1 .. Len(Subs) /\ pos \in [Supis -> Positions]
    BY SchedConstants DEF SchedInv, TypeOK, EvaluateSub
  <2>2. QED BY <2>1, SchedConstants
<1>2. OwnSubscriber => owed = fires
  <2>1. CASE Compares(next)
    BY <1>1, <2>1 DEF SchedInv, SawLast
  <2>2. CASE ~Compares(next)
    BY <1>1, <2>2, TriggeredAlike
  <2>3. QED BY <2>1, <2>2
<1>3. /\ fires => Notify(next)
      /\ ~fires => UNCHANGED delivered
      /\ lastPos' = [lastPos EXCEPT ![sub.supi] = {here}]
      /\ seen' = [seen EXCEPT ![next] = {here}]
      /\ due' = IF owed = fires THEN due ELSE due \cup {next}
      /\ next' = IF next = Len(Subs) THEN 0 ELSE next + 1
      /\ UNCHANGED <<pos, ticks>>
  BY DEF EvaluateSub, RecordPosition, Advance, SubOf
<1>4. /\ OwnSubscriber => due' = {}
      /\ due' \in SUBSET DOMAIN Subs
  BY <1>1, <1>2, <1>3 DEF SchedInv, TypeOK
<1> HIDE DEF fires, owed
<1>5. /\ next' \in 0 .. Len(Subs)
      /\ delivered' \in [DOMAIN Subs -> Nat]
  <2>1. next' \in 0 .. Len(Subs)
    BY <1>1, <1>3, SchedConstants
  <2>2. delivered \in [DOMAIN Subs -> Nat]
    BY DEF SchedInv, TypeOK
  <2>3. delivered' = [delivered EXCEPT ![next] = delivered[next] + 1] \/ delivered' = delivered
    BY <1>3 DEF Notify
  <2>4. QED BY <1>1, <2>1, <2>2, <2>3
<1>6. /\ lastPos' \in [Supis -> SUBSET Positions]
      /\ seen' \in [DOMAIN Subs -> SUBSET Positions]
      /\ \A u \in Supis : Cardinality(lastPos'[u]) <= 1
  <2> DEFINE one == {here}
  <2>1. one \in SUBSET Positions /\ Cardinality(one) <= 1
    BY <1>1, AtMostOne
  <2>2. lastPos' = [lastPos EXCEPT ![sub.supi] = one] /\ seen' = [seen EXCEPT ![next] = one]
    BY <1>3
  <2> HIDE DEF one, sub
  <2>3. QED BY <1>1, <2>1, <2>2 DEF SchedInv, TypeOK
<1>7. TypeOK'
  <2>1. pos' \in [Supis -> Positions] /\ ticks' \in 0 .. MaxTicks
    BY <1>3 DEF SchedInv, TypeOK
  <2>2. QED BY <1>4, <1>5, <1>6, <2>1 DEF TypeOK
<1>8. OwnSubscriber => SawLast'
  <2> SUFFICES ASSUME OwnSubscriber, NEW i \in DOMAIN Subs, Compares(i)
               PROVE  seen'[i] = lastPos'[SubOf(i).supi]
    BY DEF SawLast
  <2>1. CASE i = next
    BY <1>1, <1>3, <2>1 DEF SchedInv, TypeOK
  <2>2. CASE i # next
    <3>1. SubOf(i).supi # sub.supi
      BY <1>1, <2>2, SchedConstants
    <3>2. QED BY <1>1, <1>3, <2>2, <3>1 DEF SchedInv, TypeOK, SawLast
  <2>3. QED BY <2>1, <2>2
<1>9. QED BY <1>4, <1>7, <1>8 DEF SchedInv

LEMMA SchedNext == ASSUME SchedulerAssumption, SchedInv, [Next]_vars PROVE SchedInv'
<1>1. CASE UNCHANGED vars
  BY <1>1 DEF vars, SchedInv, TypeOK, SawLast
<1>2. ASSUME NEW u \in Supis, NEW p \in Positions, Move(u, p) PROVE SchedInv'
  BY <1>2 DEF Move, SchedInv, TypeOK, SawLast
<1>3. CASE Tick
  <2>1. next' \in 0 .. Len(Subs) /\ ticks' \in 0 .. MaxTicks
    <3>1. Len(Subs) # 0
      BY <1>3, SchedConstants DEF Tick, SchedulerAssumption
    <3>2. QED BY <1>3, <3>1, SchedConstants DEF Tick, SchedInv, TypeOK
  <2>2. QED BY <1>3, <2>1 DEF Tick, SchedInv, TypeOK, SawLast
<1>4. CASE SkipSub
  <2>1. next' \in 0 .. Len(Subs)
    <3>1. next \in 1 .. Len(Subs)
      BY <1>4, SchedConstants DEF SkipSub, SchedInv, TypeOK
    <3>2. next' = IF next = Len(Subs) THEN 0 ELSE next + 1
      BY <1>4 DEF SkipSub, Advance
    <3>3. Len(Subs) \in Nat
      BY SchedConstants
    <3>4. QED BY <3>1, <3>2, <3>3
  <2>2. QED BY <1>4, <2>1 DEF SkipSub, SchedInv, TypeOK, SawLast
<1>5. QED BY <1>1, <1>2, <1>3, <1>4, SchedEvaluates DEF Next

\* What the scheduler compares with is what the subscription saw, in every reachable state.
THEOREM SchedulerInvariance == ASSUME SchedulerAssumption PROVE Spec => []SchedInv
<1>1. Init => SchedInv
  BY SchedInit
<1>2. SchedInv /\ [Next]_vars => SchedInv'
  BY SchedNext
<1>3. QED BY <1>1, <1>2, PTL DEF Spec

\* Subscriptions are notified of exactly the changes between their own evaluations, through
\* skipped evaluations and failed notifications, for every area, threshold and movement, as
\* long as those that compare positions do not share a subscriber.
THEOREM TriggersAreExact ==
    ASSUME SchedulerAssumption, OwnSubscriber
    PROVE  Spec => []TriggersExact
<1>1. SchedInv => TriggersExact
  BY DEF SchedInv, TriggersExact
<1>2. QED BY <1>1, SchedulerInvariance, PTL
==============================================================================
