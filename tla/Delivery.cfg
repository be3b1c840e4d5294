\* one client that subscribes twice, one event, and a process that stops or a
\* fault anywhere on the way
CONSTANTS
    i1 = i1
    i2 = i2
    c1 = c1
    t1 = t1
    r1 = r1
    r2 = r2
    Nobody = Nobody
    Instances = {i1,i2}
    Clients = {c1}
    Topics = {t1}
    Requests = {r1,r2}
    MayStop = {i1,i2}
    Faults = {"break", "fail"}
    MaxFaults = 1
    Recurring = FALSE
    MaxInFlight = 2
    Beating = {}
    Signed = {c1}
    MaxEvents = 1
SPECIFICATION DSpec
CHECK_DEADLOCK FALSE
SYMMETRY Interchangeable
INVARIANTS
    RemotesPointHome RowIsCurrent NewestRemoteIsCurrent ClosedLeavesNoRow NoMoreCopiesThanNotices
PROPERTIES NoCopyIsLost SubscribersAreReached
