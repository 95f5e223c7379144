\* One location flow, no faults.
CONSTANTS
    cap = cap
    loc1 = loc1
    loc2 = loc2
    ue1 = ue1
    ue2 = ue2
    Flows = {loc1}
    CapFlows = {}
    Supis = {ue1}
    SupiOf <- SameUe
    NoMessage = noMessage
    Askers = {ue1}
    Faults = {}
SPECIFICATION Spec
CHECK_DEADLOCK FALSE
INVARIANTS NothingMissed
