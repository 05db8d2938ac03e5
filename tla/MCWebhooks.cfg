SPECIFICATION FairSpec
CONSTANTS
    e1 = e1
    e2 = e2
    u1 = u1
    v1 = v1
    None = None
    Endpoints = {e1, e2}
    Events = {v1}
    Ticks = {k1, k2}
    Operators = {o1}
    Owner <- MCOwner
    Subscribes <- MCSubscribes
    MAX_ENDPOINTS_PER_USER = 1
    attempts = 2
    maxRetries = 2
INVARIANTS
    DeliveriesAreHonest
PROPERTIES
    JobsEnd
CHECK_DEADLOCK FALSE
