\* A thread killed before its gate is resumed: ResumedAtGate fails.
SPECIFICATION Spec
CONSTANTS
    None = None
    All = All
    k1 = k1
    k2 = k2
    x = x
    y = y
    hype = hype
    figure = figure
    plain = plain
    offBrand = offBrand
    OffBrand = OffBrand
    r1 = r1
    r2 = r2
    Runs = {r1, r2}
    Skills = {k1, k2}
    Commits = {x, y}
    Lines = {hype, figure, plain}
    Hype = {hype}
    Figures <- MCFigures
    Categories = {offBrand, OffBrand}
    Canon <- MCCanon
    Version <- MCVersion
    Reviews <- MCReviews
    OnDisk = {k1, k2}
    Mode <- MCMode
    MaxCandidates = 3
    MaxInitial = 2
    MaxDecisions = 2
    MaxFaults = 1
PROPERTY
    ResumedAtGate
CHECK_DEADLOCK FALSE
