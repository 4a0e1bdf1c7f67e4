SPECIFICATION FairSpec
CONSTANTS
    d1 = d1
    d2 = d2
    w1 = w1
    w2 = w2
    short = short
    long = long
    alt = alt
    empty = empty
    huge = huge
    None = None
    Docs = {d1}
    Contents = {short}
    ExternalIds = {}
    Indices = {1, 2}
    ChunksOf <- MCChunksOf
    SizeOf <- MCSizeOf
    MaxUploadBytes = 1
    Workers = {w1}
    Reapers = {r1}
    Deleters = {x1}
    Ingesters = {}
    Askers = {a1}
    DeliveryLimit = 1
    MaxEvents = 2
    MaxFaults = 1
    LeaseOverrun = FALSE
PROPERTIES
    DeletionFinishes
    ClaimEnds
    AbandonedUploadEnds
