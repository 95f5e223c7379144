\* Two location requests of every kind, whatever fails; a lossy NRF; two subscriptions;
\* one request through processes of which one is stopped, one dies and a store is down.
CONSTANTS
    Requests = {r1, r2}
    DefaultClasses = {"A", "B", "C", "D", "other"}
    ClientTypes = {"EMERGENCY_SERVICES", "COMMERCIAL"}
    Outages = {{}, {"udm"}, {"udm", "audit"}}
    Disturbed = {"gateway", "location", "session", "protocol", "gnss"}
    MaxStops = 1
    MaxKills = 1
    MaxOutages = 1
    MaxFaults = 4
    MaxRestarts = 2
    Patience = 3
    Supis = {u1, u2}
    Start <- Home
    ApartSubs <- OneEach
    ApartPositions <- Around
    ApartTicks = 3
    MixedSubs <- TwoShare
    MixedPositions <- OnBothSides
    MixedTicks = 2
    r1 = r1
    r2 = r2
    u1 = u1
    u2 = u2
SPECIFICATION ServicesSpec
CHECK_DEADLOCK FALSE
INVARIANTS TypesOK AllowedByPolicy AuditTruthful SuspendedOnlyAfterFailures DeregistrationLasts TriggersExact FailsOnlyWhenHit
PROPERTIES HeartbeatRestores Recovers
