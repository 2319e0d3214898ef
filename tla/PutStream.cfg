SPECIFICATION Spec
CONSTANTS
    k1 = k1
    u1 = u1
    u2 = u2
    Key <- MCKey
    Upload <- MCUpload
    MaxChunks = 2
    BadMessages = TRUE
    NoObject = NoObject
INVARIANTS
    TypeOK
    AckedUploadIsWhole
    PumpOutlivesOnlyStorageErrors
PROPERTIES
    PutReturns
CHECK_DEADLOCK FALSE
