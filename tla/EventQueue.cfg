SPECIFICATION FairSpec
CONSTANTS
    p1 = p1
    w1 = w1
    u2 = u2
    u1 = u1
    Users = {u1, u2}
    Controllers = {u1}
    Pullers = {u2}
    Workers = {w1}
    Payloads = {p1}
    NULL = NULL
    Capacity = 2
    MaxItems = 3
    Faults = {"malloc", "fcntl", "create", "read"}
    BlindPull = FALSE
    SyncControl = FALSE
INVARIANTS
    TypeOK
    WriteNeverBlocks
    QuietAfterStop
    JoinsOnce
PROPERTIES
    ImplementsDataQueue
    StopReturns
    WorkerServes
