SPECIFICATION Spec
CONSTANTS
    p1 = p1
    w2 = w2
    w1 = w1
    u2 = u2
    u1 = u1
    Users = {u1, u2}
    Controllers = {u1, u2}
    Pullers = {u1, u2}
    Workers = {w1, w2}
    Payloads = {p1}
    NULL = NULL
    Capacity = 1
    MaxItems = 2
    Faults = {"malloc", "pipe", "fcntl", "create", "read", "write"}
    BlindPull = TRUE
    SyncControl = TRUE
SYMMETRY Symmetry
INVARIANTS
    ProviderExclusion
    PayloadGiven
CHECK_DEADLOCK FALSE
