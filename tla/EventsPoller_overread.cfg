SPECIFICATION Spec
CONSTANTS
    Fds = {3, 4, 5, 6}
    Kinds = {"read"}
    Timeouts = {1999999}
    NULL = NULL
    WILD = WILD
    Careful = TRUE
    FirstCapacity = 4
    Reentrant = FALSE
INVARIANTS
    ActionsReported
