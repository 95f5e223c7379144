\* Two requests at once on a working network.
CONSTANTS
    u1 = u1
    Requests = {r1, r2}
    SupiOf <- OneSubscriber
    CapSets <- DsxReport
    Unreliable = {"gnss"}
    NetFaults = FALSE
    NoWorker = noWorker
    Sessions = {s1, s2}
    Supis = {u1}
    NoSupi = noSupi
    NoSession = noSession
    Workers = {w1, w2}
    UpdateStatuses = {"COMPUTING"}
    TTL = 1
    Faults = {}
    MaxRequests = 6
SPECIFICATION Spec
SYMMETRY Symmetry
CHECK_DEADLOCK FALSE
INVARIANTS TypeOK SessionClosed OwnSession
