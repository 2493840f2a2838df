SPECIFICATION FairSpec
CONSTANTS
    Destinations = {x, youtube}
    Videos = {youtube}
    Reporting = {x}
    Requests = {r1, r2, r3}
    None = None
INVARIANTS
    TypeOK
    AnswersAreTrue
PROPERTIES
    ExclusiveSpec
    PendingResolves
\* Every request ends, and nobody has to send another.
CHECK_DEADLOCK FALSE
