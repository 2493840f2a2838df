SPECIFICATION FairSpec
CONSTANTS
    Workers = {w1, w2}
    MaxAttempts = 2
INVARIANTS
    TypeOK
    HopsLand
    GatesRespected
PROPERTIES
    LatticeSpec
    JobsSettle
