SPECIFICATION FairSpec
CONSTANTS
    i1 = i1
    NoId = NoId
    Ids = {i1}
    ShellWords = {3}
    KeyWords = 3
    Stored <- MCStored
    RecvBuf = 32
    AgentPage = 24
    Cuts = {0, 4}
    MaxCommands = 3
    MaxConns = 2
INVARIANTS AnswersOwnRequest HandledAsIssued ExecutedInOrder BuffersHold
PROPERTY CommandsReturn
CHECK_DEADLOCK FALSE
