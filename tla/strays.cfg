SPECIFICATION Spec
CONSTANTS
    url = url  form = form
    worker = worker  drain = drain  tool = tool
    first = first
    Docs = {form}
    Legacy = {form}
    Workers = {worker}
    Drains = {drain}
    Reindexers = {tool}
    Erasers = {first}
PROPERTY
    BytesGoBeforeRows
CHECK_DEADLOCK FALSE
