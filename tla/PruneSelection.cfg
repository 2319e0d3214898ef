SPECIFICATION Spec
CONSTANTS
    MaxEntries = 4
    Sizes <- MCSizes
    Ages <- MCAges
    Needs <- MCNeeds
    RetentionDays = 30
    LargeSize = 1
INVARIANTS
    TypeOK
    NoDuplicates
    EnoughSelected
    NothingTakenInVain
    RecentGoLast
    UnitSelection
CHECK_DEADLOCK FALSE
