SPECIFICATION Spec
CONSTANTS
    Keys = {k1, k2, k3, k4}
    k1 = k1
    k2 = k2
    k3 = k3
    k4 = k4
    Values = {v1, v2}
    v1 = v1
    v2 = v2
    NULL = NULL
    Width = 8
    HashValues = {0, 3, 32}
    MaxGrowths = 1
    Mutating = FALSE
SYMMETRY Symmetry
INVARIANTS
    SearchEnds
    CountExact
    IteratesOverAll
PROPERTY ImplementsMap
