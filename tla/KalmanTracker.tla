--------------------------- MODULE KalmanTracker ----------------------------
(***************************************************************************)
(* fusion-engine's tracking: one Kalman filter per session in a map under  *)
(* one mutex, made by the first estimate of the session and removed by the *)
(* cleanup goroutine when it was not used for a while.  The covariance is  *)
(* abstracted to the gain it leads to, anything from 0 to 1; velocities    *)
(* stay 0, because no term of the covariance links them to positions.      *)
(***************************************************************************)
EXTENDS Integers, FiniteSets

CONSTANTS
    Sessions,
    MaxPosition,    \* positions are grid points on a line, from 0
    TTL,            \* ttl of the manager, in ticks
    CleanupPeriod   \* ticks between two runs of the cleanup

TrackerAssumption ==
    /\ MaxPosition \in Nat
    /\ TTL \in Nat \ {0} /\ CleanupPeriod \in Nat \ {0}

VARIABLES
    filters,       \* the filter of each session: its position and age since lastUsed
    sinceCleanup,  \* ticks since the last cleanup
    quiet,         \* history: ticks since the last estimate of each session, capped
    seen           \* history: estimates given to the session's filter since it was made

vars == <<filters, sinceCleanup, quiet, seen>>

Positions == 0 .. MaxPosition
NoFilter == [pos |-> -1, age |-> 0]
LongAgo == TTL + CleanupPeriod + 1

TypeOK ==
    /\ filters \in [Sessions -> [pos : Positions, age : 0 .. TTL + CleanupPeriod] \cup {NoFilter}]
    /\ sinceCleanup \in 0 .. CleanupPeriod
    /\ quiet \in [Sessions -> 0 .. LongAgo]
    /\ seen \in [Sessions -> SUBSET Positions]

Init ==
    /\ filters = [s \in Sessions |-> NoFilter]
    /\ sinceCleanup = 0
    /\ quiet = [s \in Sessions |-> LongAgo]
    /\ seen = [s \in Sessions |-> {}]

\* A new filter stands where the first estimate was, with no velocity.
NewKalmanFilter(z) == [pos |-> z, age |-> 0]

\* The positions from x to z: where a gain between 0 and 1 can move the filter.
Between(x, z) == {p \in Positions : (x <= p /\ p <= z) \/ (z <= p /\ p <= x)}

\* A fault: lastUsed stays what it was.
UpdateUnused(entry, z) ==
    IF entry = NoFilter THEN {NewKalmanFilter(z)}
                        ELSE {[entry EXCEPT !.pos = p] : p \in Between(entry.pos, z)}

\* The manager's Update: the entry afterwards.
Update(entry, z) ==
    IF entry = NoFilter THEN {NewKalmanFilter(z)}
                        ELSE {[pos |-> p, age |-> 0] : p \in Between(entry.pos, z)}

\* FusePositions for a session: z is its only estimate, or what Fuse made of several.
FusePositions(s, z) ==
    /\ \E entry \in Update(filters[s], z) : filters' = [filters EXCEPT ![s] = entry]
    /\ seen' = [seen EXCEPT ![s] = IF filters[s] = NoFilter THEN {z} ELSE @ \cup {z}]
    /\ quiet' = [quiet EXCEPT ![s] = 0]
    /\ UNCHANGED sinceCleanup

CleanupLoop ==
    /\ sinceCleanup = CleanupPeriod
    /\ sinceCleanup' = 0
    /\ filters' = [s \in Sessions |-> IF filters[s].age > TTL THEN NoFilter ELSE filters[s]]
    /\ seen' = [s \in Sessions |-> IF filters[s].age > TTL THEN {} ELSE seen[s]]
    /\ UNCHANGED quiet

Tick ==
    /\ sinceCleanup < CleanupPeriod
    /\ sinceCleanup' = sinceCleanup + 1
    /\ filters' = [s \in Sessions |->
                      IF filters[s] = NoFilter THEN NoFilter ELSE [filters[s] EXCEPT !.age = @ + 1]]
    /\ quiet' = [s \in Sessions |-> IF quiet[s] = LongAgo THEN LongAgo ELSE quiet[s] + 1]
    /\ UNCHANGED seen

Next ==
    \/ Tick \/ CleanupLoop
    \/ \E s \in Sessions, z \in Positions : FusePositions(s, z)

Spec == Init /\ [][Next]_vars

-----------------------------------------------------------------------------
(* Properties.                                                             *)

\* A session whose estimates come no more than the TTL apart keeps its filter, one
\* that was silent for longer loses it by the next cleanup, and the filter stays
\* among the estimates of its own session.
OwnTrack ==
    \A s \in Sessions :
        /\ quiet[s] <= TTL => filters[s] # NoFilter
        /\ quiet[s] = LongAgo => filters[s] = NoFilter
        /\ filters[s] # NoFilter =>
              \E low, high \in seen[s] : low <= filters[s].pos /\ filters[s].pos <= high
=============================================================================
