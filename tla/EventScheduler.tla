--------------------------- MODULE EventScheduler ---------------------------
(***************************************************************************)
(* event-manager's scheduler: one goroutine that evaluates the active      *)
(* subscriptions in order at every tick of its interval, against the last  *)
(* position it saw of the subscriber.  The UEs move meanwhile.             *)
(***************************************************************************)
EXTENDS Geofence

CONSTANTS
    Supis,
    Subs,         \* activeSubs: records of supi, eventType, area and threshold, in order
    Positions,    \* where the UEs can be
    Start,        \* where they are first
    MaxTicks      \* bound on the ticks of the interval

EventTypes == {"WITHIN", "ENTER", "LEAVE", "MOTION", "PERIODIC"}

SchedulerAssumption ==
    /\ Subs \in Seq({Subs[i] : i \in DOMAIN Subs})
    /\ \A i \in DOMAIN Subs : Subs[i].supi \in Supis /\ Subs[i].eventType \in EventTypes
    /\ Start \in Positions
    /\ MaxTicks \in Nat

\* A subscription whose event is a change of position shares its subscriber with no other.
\* Nothing in the code sees to that.
OwnSubscriber ==
    \A i, j \in DOMAIN Subs :
        Subs[i].eventType \in {"ENTER", "LEAVE", "MOTION"} /\ Subs[i].supi = Subs[j].supi
            => i = j

VARIABLES
    pos,        \* where each UE is
    lastPos,    \* last position the scheduler recorded of each SUPI: at most one
    next,       \* the subscription to evaluate next; 0: waiting for the ticker
    ticks,
    delivered,  \* notifications delivered for each subscription
    seen,       \* history: last position evaluated for each subscription: at most one
    due         \* history: events of each subscription that were due and not attempted

vars == <<pos, lastPos, next, ticks, delivered, seen, due>>

TypeOK ==
    /\ pos \in [Supis -> Positions]
    /\ lastPos \in [Supis -> SUBSET Positions]
    /\ \A u \in Supis : Cardinality(lastPos[u]) <= 1
    /\ next \in 0 .. Len(Subs)
    /\ ticks \in 0 .. MaxTicks
    /\ delivered \in [DOMAIN Subs -> Nat]
    /\ seen \in [DOMAIN Subs -> SUBSET Positions]
    /\ due \in SUBSET DOMAIN Subs

Init ==
    /\ pos = [u \in Supis |-> Start]
    /\ lastPos = [u \in Supis |-> {}]
    /\ next = 0
    /\ ticks = 0
    /\ delivered = [i \in DOMAIN Subs |-> 0]
    /\ seen = [i \in DOMAIN Subs |-> {}]
    /\ due = {}

Move(u, p) ==
    /\ p # pos[u]
    /\ pos' = [pos EXCEPT ![u] = p]
    /\ UNCHANGED <<lastPos, next, ticks, delivered, seen, due>>

Tick ==
    /\ next = 0
    /\ Subs # <<>>
    /\ ticks < MaxTicks
    /\ ticks' = ticks + 1
    /\ next' = 1
    /\ UNCHANGED <<pos, lastPos, delivered, seen, due>>

Advance == next' = IF next = Len(Subs) THEN 0 ELSE next + 1

\* The switch of evaluateSub.  A motion needs a position to compare with.
Triggered(sub, current, last) ==
    CASE sub.eventType \in {"WITHIN", "ENTER", "LEAVE"} ->
           EvaluateAreaEvent(sub.eventType, current, last, sub.area)
      [] sub.eventType = "MOTION" ->
           \E p \in last : EvaluateMotionEvent(p, current, sub.threshold)
      [] sub.eventType = "PERIODIC" -> TRUE

\* No position is known, or it cannot be fetched: the subscription is skipped.
SkipSub ==
    /\ next # 0
    /\ Advance
    /\ UNCHANGED <<pos, lastPos, ticks, delivered, seen, due>>

\* A fault: the first position stays.
RecordPositionOnce(sub, current) ==
    lastPos' = [lastPos EXCEPT ![sub.supi] = IF @ = {} THEN {current} ELSE @]

\* The callback is reached, or not.
Notify(i) == delivered' = [delivered EXCEPT ![i] = @ + 1] \/ UNCHANGED delivered

\* A failed notification is only logged: the position is recorded for the SUPI
\* all the same.
RecordPosition(sub, current) == lastPos' = [lastPos EXCEPT ![sub.supi] = {current}]

EvaluateSub ==
    /\ next # 0
    /\ LET sub == Subs[next]
           current == pos[sub.supi]
           fires == Triggered(sub, current, lastPos[sub.supi])
           owed == Triggered(sub, current, seen[next])
       IN  /\ IF fires THEN Notify(next) ELSE UNCHANGED delivered
           /\ RecordPosition(sub, current)
           /\ seen' = [seen EXCEPT ![next] = {current}]
           /\ due' = IF owed = fires THEN due ELSE due \cup {next}
    /\ Advance
    /\ UNCHANGED <<pos, ticks>>

Next ==
    \/ \E u \in Supis, p \in Positions : Move(u, p)
    \/ Tick
    \/ SkipSub
    \/ EvaluateSub

Spec == Init /\ [][Next]_vars

-----------------------------------------------------------------------------
(* Properties.                                                             *)

\* A subscription is notified of exactly the changes between its own evaluations:
\* what the scheduler compares with is what the subscription saw last, also after
\* fetches and notifications that failed.
TriggersExact == due = {}
=============================================================================
