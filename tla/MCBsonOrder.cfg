SPECIFICATION Spec
CONSTANTS
    Mantissa    = 4
    MaxDouble   = 1000
    MaxInt      = 15
    IntLimit    = 8
    DoubleLimit = 16
    MaxULong    = 5000
    MaxSet      = 3
    MinLong  <- MCMinLong
    Elements <- MCElements
    Names    <- MCNames
INVARIANTS
    SetIsSorted
    NamesAreOrdered
    KeysAreOrdered
    BuiltElementsCompare
CHECK_DEADLOCK FALSE
