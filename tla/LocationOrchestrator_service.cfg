\* One request, every fault, every report of the UE, fair scheduling.
CONSTANTS
    u1 = u1
    Requests = {r1}
    SupiOf <- OneSubscriber
    CapSets <- Reports
    Unreliable = {"gnss", "tdoa", "ecid", "rtt"}
    NetFaults = TRUE
    NoWorker = noWorker
    Sessions = {s1}
    Supis = {u1}
    NoSupi = noSupi
    NoSession = noSession
    Workers = {w1, w2}
    UpdateStatuses = {"COMPUTING"}
    TTL = 1
    Faults = {"lost", "applied", "half"}
    MaxRequests = 3
SPECIFICATION FairSpec
CHECK_DEADLOCK FALSE
PROPERTIES ImplementsService RequestsAnswered SessionsVanish
