SPECIFICATION FairSpec
CONSTANTS
    Calls <- MCCalls
    NULL = NULL
    FREED = FREED
    REFUSED = REFUSED
INVARIANTS
    HeldExact
    RendersReference
    AcceptsTextEnded
PROPERTY RenderEnds
