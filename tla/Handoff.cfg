\* p1 and p2 share the table, p3 could not open it; a key may be used twice, and
\* three logins come for two keys
CONSTANTS
    p1 = p1
    p2 = p2
    p3 = p3
    l1 = l1
    l2 = l2
    l3 = l3
    k1 = k1
    k2 = k2
    Processes = {p1, p2, p3}
    Logins = {l1, l2, l3}
    Keys = {k1, k2}
    WithoutKV = {p3}
    TTL = 2
    MaxStores = 2
    MaxFaults = 1
SPECIFICATION Spec
\* every login is done and every name has expired
CHECK_DEADLOCK FALSE
SYMMETRY Interchangeable
INVARIANTS TypeOK NamesWait
PROPERTIES FetchedAgainOnlyInBetween OnlyTheNewestIsFetched
