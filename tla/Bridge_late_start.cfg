CONSTANTS
    i1 = i1
    i2 = i2
    c1 = c1
    t1 = t1
    r1 = r1
    Nobody = Nobody
    Instances = {i1,i2}
    Clients = {c1}
    Topics = {t1}
    Requests = {r1}
    MayStop = {}
    Faults = {}
    MaxFaults = 0
    Recurring = FALSE
    MaxInFlight = 1
    Beating = {}
SPECIFICATION Spec
CHECK_DEADLOCK FALSE
SYMMETRY Interchangeable
INVARIANTS
    SubscriptionsAreEverywhere
