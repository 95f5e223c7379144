\* One subscription, Redis works.
CONSTANTS
    u1 = u1
    Subs = {a}
    Supis = {u1}
    SupiOf <- OneSubscriber
    NoSub = noSub
    Workers = {w1}
    Faults = {}
    TTL = 2
    MaxRequests = 2
SPECIFICATION Spec
CHECK_DEADLOCK FALSE
PROPERTIES UnsubscribeSucceeds
