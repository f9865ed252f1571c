SPECIFICATION Spec
CONSTANTS
    Retry           = 1
    MaxFrames       = 2
    CMD_BUFFER_SIZE = 6
    CmdLines <- MCCmdLines
    Files    <- MCFiles
    Chars    <- MCChars
    Inputs   <- MCInputs
    Tails    <- MCTails
INVARIANTS
    CommandLineWins
    LineReachesCommand
    
PROPERTIES
    HandledSignalEnds
CHECK_DEADLOCK FALSE
