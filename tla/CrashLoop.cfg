SPECIFICATION Spec
CONSTANTS
    p1 = p1
    p2 = p2
    k1 = k1
    k2 = k2
    k3 = k3
    k4 = k4
    Replica <- MCOne
    Key <- MCKey
    Stray <- MCNone
    MaxCacheSize = 2
    MaxWrites = 2
    MaxAges = 1
    MaxErrors = 2
PROPERTIES
    ShrinksToLimit
CHECK_DEADLOCK FALSE
