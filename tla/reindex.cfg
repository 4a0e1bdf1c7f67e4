SPECIFICATION Spec
CONSTANTS
    d1 = d1
    d2 = d2
    w1 = w1
    w2 = w2
    short = short
    long = long
    alt = alt
    empty = empty
    huge = huge
    None = None
    Docs = {d1}
    Contents = {short, long, huge}
    ExternalIds = {e1}
    Indices = {1, 2}
    ChunksOf <- MCChunksOf
    SizeOf <- MCSizeOf
    MaxUploadBytes = 1
    Workers = {w1}
    Reapers = {r1}
    Deleters = {}
    Ingesters = {g1, g2}
    Askers = {}
    DeliveryLimit = 1
    MaxEvents = 2
    MaxFaults = 1
    LeaseOverrun = FALSE
INVARIANTS
    ReadyIsWhole
    ReadyCatchesUp
