SPECIFICATION FairSpec
CONSTANTS
    url = url  form = form
    worker = worker  drain = drain  tool = tool
    first = first
    Docs = {url, form}
    Legacy = {form}
    Workers = {worker}
    Drains = {drain}
    Reindexers = {tool}
    Erasers = {first}
INVARIANTS
    TypeOK
    LeftoversWereOnTheirWay
    ErasedIsGone
PROPERTY
    EveryErasureEnds
CHECK_DEADLOCK FALSE
