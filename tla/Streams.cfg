SPECIFICATION FairSpec
CONSTANTS
    Texts <- PlainTexts
    MaxText = 2
    MaxPuts = 3
    Capacity = 2
    MaxCapacity = 32
    Offsets <- AnyOffset
    Faults = {"read", "write", "write_zero"}
    MaxFaults = 2
    BufferSize = 2
INVARIANTS PutReports StringHolds
PROPERTIES ImplementsByteChannel ReaderEnds
