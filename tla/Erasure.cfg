SPECIFICATION Spec
CONSTANTS
    None = None
    Features = {"f1"}
    InitialScripts <- MCScripts
    InitialObjects <- MCObjects
    Bodies = {"new"}
    Paths <- MCPaths
    MaxSteps = 2
    MaxAttempts = 2
    MaxJobs = 2
    MaxReviews = 1
    MaxFaults = 1
    Evidence = {"e1"}
    MaxErasures = 2
INVARIANTS
    TypeOK
    ReadyIsWhole
    AuditedIsErased
CHECK_DEADLOCK FALSE
