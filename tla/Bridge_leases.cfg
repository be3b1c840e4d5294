\* one client that subscribes once; a process that stops, and one stall, lost connection
\* or failed statement anywhere
CONSTANTS
    i1 = i1
    i2 = i2
    c1 = c1
    t1 = t1
    r1 = r1
    Nobody = Nobody
    Instances = {i1,i2}
    Clients = {c1}
    Topics = {t1}
    Requests = {r1}
    MayStop = {i1}
    Faults = {"stall", "break", "fail"}
    MaxFaults = 1
    Recurring = FALSE
    MaxInFlight = 1
    Beating = {i1,i2}
SPECIFICATION FairSpec
CHECK_DEADLOCK FALSE
INVARIANTS TypeOK OwnClientsStay
PROPERTIES ConnectedRowsOutliveCleanups DeadRowsSwept
