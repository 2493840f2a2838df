SPECIFICATION FairSpec
CONSTANTS
    Channels = {x, linkedin}
    Drains = {d1, d2}
    Limit = 1
    MaxSchedules = 2
INVARIANTS
    TypeOK
    AtMostOncePerSchedule
    RowTellsTruth
    ShipsOnlyVouched
PROPERTIES
    ShipmentsSpec
    SendingEnds
    DueIsServed
