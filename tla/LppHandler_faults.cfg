\* The two flows of one UE, in any order and overlapping, with every call that may fail.
CONSTANTS
    cap = cap
    loc1 = loc1
    loc2 = loc2
    ue1 = ue1
    ue2 = ue2
    Flows = {cap, loc1}
    CapFlows = {cap}
    Supis = {ue1}
    SupiOf <- SameUe
    NoMessage = noMessage
    Askers = {}
    Faults = {"amf", "badId", "redis"}
SPECIFICATION Spec
CHECK_DEADLOCK FALSE
INVARIANTS TypeOK ArmedExchangesMissNothing SubscriptionsCleanedUp
