\* MaxMany: two values of a multi-match subquery, so that they may disagree; the collation
\* of a language
CONSTANTS
    MaxMany = 2
    AnyOps = TRUE
    Collation = "linguistic"
SPECIFICATION Spec
\* a filter ends
CHECK_DEADLOCK FALSE
INVARIANTS TypeOK SelectsAsSqlite LikeIsNarrower EqualOrUnequal MirrorSelectsTheSame EqualityIsAccepted
