\* Two handlers that overlap freely on two subscribers, every kind of fault.
CONSTANTS
    Sessions = {s1, s2}
    Supis = {u1, u2}
    NoSupi = noSupi
    NoSession = noSession
    Workers = {w1, w2}
    UpdateStatuses = {"COMPUTING"}
    TTL = 2
    Faults = {"lost", "applied", "half"}
    MaxRequests = 4
SPECIFICATION Spec
SYMMETRY Symmetry
INVARIANTS TypeOK NoForeignSession IndexCoversLive
PROPERTY DeletedUnlessUpdated
