SPECIFICATION Spec
CONSTANTS
    IntMax     = 3
    Digits16   = 10
    MaxFields  = 2
    MaxNesting = 2
    MaxPhrases = 5
    Elements <- MCElements
    Phrases  <- MCPhrases
INVARIANTS
    
    ActionsLeaveNoTrace
CHECK_DEADLOCK FALSE
