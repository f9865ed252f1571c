SPECIFICATION FairSpec
CONSTANTS
    c1 = c1
    c2 = c2
    c3 = c3
    None = None
    Connections <- MCConnections
    MaxUnits = 4
    MaxPool = 3
    Retries = 1
INVARIANTS UnitInvariant PostsToLiveUnit ConnectionHasOneOwner
PROPERTY AcceptedIsServed
CHECK_DEADLOCK FALSE
