SPECIFICATION Spec
CONSTANTS
    None = None
    TopK = 1
    Selected <- MCSelected
    Agents <- MCAgents
    Capabilities <- MCCapabilities
    Voices = {"voice"}
    Evidence <- MCEvidence
    InitialFeatures <- MCFeatures
    InitialSkills <- MCSkills
    Edits <- MCEdits
    Bodies <- MCBodies
    ClaimSets <- MCClaimSets
    Sizes = {1, 5}
    PerCallMax = 4
    PerRunMax = 4
    MaxAttempts = 2
    MaxJobs = 2
    MaxEdits = 1
    MaxFaults = 1
INVARIANTS
    TypeOK
    BilledOnce
    DraftsAreVetted
CHECK_DEADLOCK FALSE
