\* DeleteSession overtakes an UpdateSessionStatus.
CONSTANTS
    Sessions = {s1}
    Supis = {u1}
    NoSupi = noSupi
    NoSession = noSession
    Workers = {w1, w2}
    UpdateStatuses = {"COMPUTING"}
    TTL = 2
    Faults = {}
    MaxRequests = 3
SPECIFICATION Spec
INVARIANTS DeletedStaysDeleted
