\* The flows of two UEs side by side under the fairness of the scheduler and the timers.
\* Connections to Redis break; the AMF fails a flow whose context is done.
CONSTANTS
    cap = cap
    loc1 = loc1
    loc2 = loc2
    ue1 = ue1
    ue2 = ue2
    Flows = {cap, loc2}
    CapFlows = {cap}
    Supis = {ue1, ue2}
    SupiOf <- TwoUes
    NoMessage = noMessage
    Askers = {ue2}
    Faults = {"redis"}
SPECIFICATION FairSpec
CHECK_DEADLOCK FALSE
INVARIANT OwnUe
PROPERTY FlowsReturn
