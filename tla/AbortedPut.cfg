SPECIFICATION Spec
CONSTANTS
    Conns <- TwoConns
    Scripts <- SomeScripts
    MaxConnections = 1
    MaxBody = 2
    Word = 8
    Pieces = 2
    None = None
CHECK_DEADLOCK FALSE
INVARIANT AbortedPutNotStored
