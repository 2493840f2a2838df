SPECIFICATION FairWebhookSpec
CONSTANTS
    Artifacts = {a1, a2}
    Dispatchers = {d1, d2}
    MaxAttempts = 3
    MaxClaims = 4
    NoArtifact = NoArtifact
INVARIANTS
    WebhookTypeOK
PROPERTIES
    DeliveriesSpec
    ClaimIsTransient
\* Nobody has to approve or sweep, and the bound stops the claims.
CHECK_DEADLOCK FALSE
