SPECIFICATION FairSpec
CONSTANTS
    Chars = {"x", "s", "n"}
    Blanks = {"s", "n"}
    Separators <- MCSeparators
    Texts <- MCTexts
    ChunkSize = 3
    Overlap = 2
    EmbedBatch = 2
    EmbeddingDim = 2
    Widths = {1, 2}
    Window = 5
    MaxOld = 2
    DeliveryLimit = 1
CHECK_DEADLOCK FALSE
INVARIANTS
    TypeOK
    ChunksFit
    NothingLost
    SpansReadBack
    PointsAreWhole
    NeverCondemned
PROPERTIES
    PointsChangeInHand
    SplittingShrinks
    IndexedUnlessLost
