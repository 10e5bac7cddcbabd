SPECIFICATION FairSpec
CONSTANTS
    Fds = {0, 2}
    Kinds = {"read", "write", "exception"}
    Timeouts = {1999999}
    NULL = NULL
    WILD = WILD
    Careful = TRUE
INVARIANTS
    TypeOK
    MaxCovers
PROPERTIES
    ImplementsEventLoop
    WaitReturns
