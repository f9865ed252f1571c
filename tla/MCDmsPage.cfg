SPECIFICATION Spec
CONSTANTS
    small = small
    large = large
    NoRecord = NoRecord
    Records <- MCRecords
    Size <- MCSize
    PageWords = 26
    MaxSlots = 5
    MaxCrashes = 1
INVARIANTS PageInvariant RecordsIntact RemovedStaysRemoved FreeSpaceSound
PROPERTY FindIsExact
CHECK_DEADLOCK FALSE
