SPECIFICATION Spec
CONSTANTS
    NumKeys = 3
    Sizes <- MCSizes
    MaxTotalBytes = 3
    MinAge = 1
    MaxTime = 4
    MaxErrors = 1
    NoObject = NoObject
INVARIANTS TypeOK ReportedTotalIsSafe
PROPERTIES DeletesOnlyOverLimit GivesUpOnlyOnRecent ComesDown
