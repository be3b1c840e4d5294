\* requests of one process and direct writes; the other one may stop, a listener loses its
\* connection or a reload fails
CONSTANTS
    i1 = i1
    i2 = i2
    Trigger = Trigger
    Sql = Sql
    Instances = {i1, i2}
    Writers = {Sql, i1}
    MayStop = {i2}
    Faults = {"break", "reload"}
    MaxFaults = 1
    MaxWrites = 2
SPECIFICATION FairSpec
CHECK_DEADLOCK FALSE
INVARIANTS TypeOK NoLostInvalidation FreshWhenSettled
PROPERTIES FaultsHeal
