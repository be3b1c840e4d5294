CONSTANTS
    i1 = i1
    i2 = i2
    i3 = i3
    o1 = o1
    o2 = o2
    k1 = k1
    k2 = k2
    s1 = s1
    s2 = s2
    s3 = s3
    s4 = s4
    Nothing = Nothing
    Instances = {i1, i2, i3}
    Ops = {o1, o2}
    Keys = {k1, k2}
    Sessions = {s1, s2, s3, s4}
    MaxOpen = 2
    MaxIdle = 2
    LocalMutex = FALSE
    Disruptions = {}
    MaxFaults = 0
SPECIFICATION Spec
SYMMETRY Interchangeable
INVARIANTS
    ReleasedOnReturn
