SPECIFICATION Spec
CONSTANTS
    Fds = {3, 4, 5}
    Kinds = {"read", "exception"}
    Timeouts = {1999999}
    NULL = NULL
    WILD = WILD
    Careful = TRUE
    FirstCapacity = 1
    Reentrant = TRUE
INVARIANTS
    OneElementPerFd
PROPERTIES
    ImplementsEventLoop
