SPECIFICATION FairSpec
CONSTANTS
    a = a
    b = b
    c = c
    huge = huge
    t1 = t1
    t2 = t2
    None = None
    Stray = Stray
    Docs <- MCDocs
    Threads <- MCThreads
    Size <- MCSize
    PageFree = 11
    PagesPerSegment = 2
    SegmentUnits = 2
    IntUnits = 64
    MaxSegments = 2
    MaxCrashes = 1
INVARIANTS TypeOK RidLocatesRecord MapMatchesPages
PROPERTY OperationsReturn
CHECK_DEADLOCK FALSE
