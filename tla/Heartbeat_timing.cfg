CONSTANTS
    i1 = i1
    i2 = i2
    Instances = {i1, i2}
    Interval = 3
    Jitter = 1
    TTL = 5
    Delay = 1
    Unreliable = {i2}
    MaxTime = 13
SPECIFICATION Spec
CHECK_DEADLOCK FALSE
INVARIANTS
    TypeOK
    ExpiredSoonSwept
PROPERTIES
    LiveLeasesStay
