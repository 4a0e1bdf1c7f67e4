SPECIFICATION Spec
CONSTANTS
    d1 = d1
    d2 = d2
    w1 = w1
    w2 = w2
    short = short
    long = long
    alt = alt
    empty = empty
    huge = huge
    None = None
    Docs = {d1}
    Contents = {short, huge}
    ExternalIds = {}
    Indices = {1, 2}
    ChunksOf <- MCChunksOf
    SizeOf <- MCSizeOf
    MaxUploadBytes = 1
    Workers = {w1}
    Reapers = {}
    Deleters = {x1}
    Ingesters = {}
    Askers = {}
    DeliveryLimit = 1
    MaxEvents = 2
    MaxFaults = 0
    LeaseOverrun = FALSE
PROPERTIES
    DeletingLeavesOnlyByRemoval
