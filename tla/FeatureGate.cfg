CONSTANTS
    None = None
    MaxDocs = 1
    MaxExcerpt = 2
    Malformed = Malformed
    Diffs <- MCDiffs
    Strangers = {ghost}
    MaxNamed = 2
    MaxFeatures = 2
    MaxInitial = 2
    MaxReviews = 1
    MaxFaults = 1
SPECIFICATION Spec
INVARIANTS
    TypeOK
    ExcerptsAreRedacted
    GatedFeaturesAreGrounded
    ToldOnce
CHECK_DEADLOCK FALSE
