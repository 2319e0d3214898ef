\* Three accesses of two keys; one reader across trainings and a restart.
SPECIFICATION Spec
CONSTANTS
    k1 = k1
    k2 = k2
    a1 = a1
    a2 = a2
    a3 = a3
    g1 = g1
    Key <- MCKey
    Access <- MCAccess
    Reader <- MCReader
    MaxTrainings = 2
    MaxErrors = 1
SYMMETRY MCSymmetry
INVARIANT TypeOK
 
INVARIANT RanksWithItsModel
CHECK_DEADLOCK FALSE
