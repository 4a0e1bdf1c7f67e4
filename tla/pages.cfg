SPECIFICATION FairSpec
CONSTANTS
    None = None
    Docs <- MCDocs
    Walkers = {w1}
    Limits = {None, 0, 1, 3}
    DefaultLimit = 2
    MaxPageLimit = 2
    MaxClock = 1
    SessionZone = "+00"
CHECK_DEADLOCK FALSE
INVARIANTS
    TypeOK
    PagesDescend
    NothingSkipped
PROPERTIES
    WalkEnds
