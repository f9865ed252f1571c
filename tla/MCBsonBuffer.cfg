SPECIFICATION Spec
CONSTANTS
    InitSize      = 12
    Slack         = 4
    BufferMaxSize = 64
    MaxInternal   = 100
    MaxElements   = 3
    MaxDepth      = 2
    Damage   <- MCDamage
    MaxDamaged    = 1
    Elements <- MCElements
    Names    <- MCNames
    Labels   <- MCLabels
INVARIANTS
    BufferIsSafe
    BuiltBytesAreExact
    ValidCanBeTrusted
CHECK_DEADLOCK FALSE
