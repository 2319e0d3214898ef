SPECIFICATION Spec
CONSTANTS
    p1 = p1
    p2 = p2
    k1 = k1
    k2 = k2
    k3 = k3
    k4 = k4
    Replica <- MCTwo
    Key <- MCKey
    Stray <- MCStray
    MaxCacheSize = 2
    MaxWrites = 1
    MaxAges = 1
    MaxErrors = 1
INVARIANTS
    TypeOK
PROPERTIES
    KeepsTargetAlone
    ShrinksUnlessPanics
CHECK_DEADLOCK FALSE
