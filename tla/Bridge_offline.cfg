CONSTANTS
    i1 = i1
    i2 = i2
    i3 = i3
    c1 = c1
    r1 = r1
    Nobody = Nobody
    Instances = {i1,i2,i3}
    Clients = {c1}
    Topics = {}
    Requests = {r1}
    MayStop = {i1}
    Faults = {"stall","fail"}
    MaxFaults = 1
    Recurring = FALSE
    MaxInFlight = 1
    Beating = {i1,i2}
SPECIFICATION HSpec
CHECK_DEADLOCK FALSE
INVARIANTS BystandersForget
