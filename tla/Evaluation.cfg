SPECIFICATION EvaluationSpec
CONSTANTS
    Nothing = Nothing
    Cap = 3
    InitialTables <- MCTables
    InitialCaches <- MCCaches
    Jobs = {e1, e2}
    Gates = {"artifact_review"}
    Notes <- MCNotes
    ClaimRows <- MCClaimRows
    Edits <- MCEdits
    Reports <- MCReports
    Verdicts = {v1, v2, malformed}
    Scores = {v1, v2}
    PartialCounts = {0, 4}
    MaxWrites = 1
    MaxFaults = 1
INVARIANTS
    EvaluationTypeOK
    MetricsAreTrue
    ScoresAreOfTheBody
SYMMETRY MCSymmetry
CHECK_DEADLOCK FALSE
