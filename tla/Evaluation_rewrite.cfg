SPECIFICATION EvaluationSpec
CONSTANTS
    Nothing = Nothing
    Cap = 3
    InitialTables <- MCReviewed
    InitialCaches <- MCNoCaches
    Jobs = {e1, e2}
    Gates = {"artifact_review"}
    Notes <- MCNotes
    ClaimRows <- MCClaimRows
    Edits <- MCBodyEdits
    Reports <- MCReports
    Verdicts = {v1, v2, malformed}
    Scores = {v1, v2}
    PartialCounts = {4}
    MaxWrites = 2
    MaxFaults = 1
INVARIANT EditsAreMeasured
CHECK_DEADLOCK FALSE
