SPECIFICATION CSpec
CONSTANTS
    k1 = k1
    k2 = k2
    u1 = u1
    u2 = u2
    r1 = r1
    Key <- MCTwoKeys
    Upload <- MCUpload
    Reader <- MCReader
    MaxChunks = 1
    MaxDigests = 2
    BadMessages = FALSE
    NoObject = NoObject
INVARIANTS
    ReadTypeOK
    NoTruncatedObject
    GetDeliversWholeArtifact
    AnnouncedSizeIsSent
    ContainsReportsWholeArtifacts
PROPERTIES
    ReadsReturn
CHECK_DEADLOCK FALSE
