\* Two handlers, two cells, two subscriptions, two constellations, two sessions.
CONSTANTS
    Cells = {c1, c2}
    SlotMaps <- Hashings
    Workers = {w1, w2}
    Faults = {"lost", "applied"}
    MemTTL = 1
    RedisTTL = 2
    MaxVersion = 2
    MaxRequests = 3
    Subs = {s1, s2}
    Supis = {u1}
    SupiOf <- OneSubscriber
    NoSub = noSub
    SubTTL = 2
    SubRequests = 4
    Asked <- WithGps
    TypeLists <- EphemerisLists
    EphemerisTTL = 2
    IonosphericTTL = 1
    RefTimeTTL = 1
    MaxFaults = 1
    GnssRequests = 2
    Constellations = {s1, s2}
    Lists <- BothOrders
    AssistTTL = 2
    Validity = 2
    AssistRequests = 2
    TrackSessions = {s1, s2}
    MaxPosition = 2
    TrackTTL = 2
    CleanupPeriod = 2
    u1 = u1
    s1 = s1
    s2 = s2
SPECIFICATION StoresSpec
SYMMETRY Symmetry
CHECK_DEADLOCK FALSE
INVARIANTS TypesOK NothingDropped OverwriteSeen Listed GpsServed ServedValid OwnTrack
