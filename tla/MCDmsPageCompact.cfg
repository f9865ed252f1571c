SPECIFICATION Spec
CONSTANTS
    small = small
    large = large
    NoRecord = NoRecord
    Records <- MCRecords
    Size <- MCSize
    PageWords = 26
    MaxSlots = 4
    MaxCrashes = 1
INVARIANT ExactAfterCompaction
CHECK_DEADLOCK FALSE
