SPECIFICATION Spec
CONSTANTS
    NULL = NULL
    UNSET = UNSET
    Names <- TwoNames
    Values <- TwoValues
    StringFields <- Fields
    IntMax = 100
    Requests <- Each
    MaxFaults = 1
    MaxCookies = 3
    MaxCalls = 4
    MaxRuns = 2
    MaxRequests = 2
    Resets = FALSE
INVARIANTS SessionRemembers FreedOnce MetaStable RedirectWhole
