\* two processes, three browsers, four visits: first elevations race, and a later
\* one meets what they left behind
CONSTANTS
    Processes = {p1, p2}
    Requests = {r1, r2, r3}
    Faults = {"crash", "delete", "statement"}
    MaxVisits = 4
    MaxFaults = 1
SPECIFICATION Spec
\* no more visits
CHECK_DEADLOCK FALSE
INVARIANTS TypeOK NotLockedOut CachedTokensAreGood
PROPERTY SuperusersGetMapped
