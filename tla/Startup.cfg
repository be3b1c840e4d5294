\* the overloads of the code; two processes; two crashes
CONSTANTS
    Processes = {p1, p2}
    Overloads = 3
    Views = TRUE
    MaxFaults = 2
SPECIFICATION FairSpec
\* everybody serves
CHECK_DEADLOCK FALSE
INVARIANTS TypeOK FunctionsComeBack
PROPERTY EveryoneServesOrAView
