SPECIFICATION Spec
CONSTANTS
    Artifacts = {a1, a2}
    Requests = {r1, r2}
    MaxDecisions = 5
    None = None
SYMMETRY Symmetry
INVARIANTS
    TypeOK
    HoldsAreAnswered
    ApprovalsOnRecord
PROPERTY SnapshotFrozen
CHECK_DEADLOCK FALSE
