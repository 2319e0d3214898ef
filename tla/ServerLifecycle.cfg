SPECIFICATION LSpec
CONSTANTS
    k1 = k1
    k2 = k2
    u1 = u1
    u2 = u2
    Key <- MCKey
    Upload <- MCUpload
    MaxChunks = 2
    BadMessages = FALSE
    NoObject = NoObject
INVARIANTS
    LTypeOK
    GracefulStopCutsNothing
PROPERTIES
    PutIsAtomic
    NothingSentAfterStop
    ShutdownEnds
CHECK_DEADLOCK FALSE
