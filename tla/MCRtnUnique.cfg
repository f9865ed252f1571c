SPECIFICATION Spec
CONSTANTS
    i1 = i1
    i2 = i2
    v1 = v1
    v2 = v2
    t1 = t1
    t2 = t2
    Missing = Missing
    Threads <- MCThreads
    Ids <- MCIds
    Values <- MCValues
    MayInsert <- SharedIds
    MaxRids = 3
    MaxCrashes = 0
INVARIANT IdsStayUnique
CHECK_DEADLOCK FALSE
