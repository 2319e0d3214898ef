SPECIFICATION Spec
CONSTANTS
    p1 = p1
    p2 = p2
    k1 = k1
    k2 = k2
    k3 = k3
    k4 = k4
    Replica <- MCTwo
    Key <- MCKey
    Stray <- MCNone
    MaxCacheSize = 3
    MaxWrites = 2
    MaxAges = 2
    MaxErrors = 2
PROPERTIES
    KeepsTarget
CHECK_DEADLOCK FALSE
