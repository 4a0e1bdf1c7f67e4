SPECIFICATION FairSpec
CONSTANTS
    r1 = r1  r2 = r2  r3 = r3
    Requests = {r1, r2, r3}
    Served = {r3}
    Kind <- MCKind
    Conversations = {c1, c2}
    c1 = c1 c2 = c2
    None = None
    Window = 2
    Limit = 1
    LastMinute = 1
    HistoryLimit = 3
    MaxTokens = 1
INVARIANTS
    TypeOK
    LimitHolds
    HistoryIsAnswered
    ToldIsStored
    StoredWasAnswered
    FollowUpRemembers
PROPERTY
    EveryRequestEnds
CHECK_DEADLOCK FALSE
