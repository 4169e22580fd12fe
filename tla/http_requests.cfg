SPECIFICATION HttpFairSpec
CONSTANTS
    NFds = 2
    MaxConns = 3
    MaxPieces = 3
    ReadAhead = 3
    MayReset = TRUE
INVARIANT AnswersTheAsker
PROPERTY ClientsServed
CHECK_DEADLOCK FALSE
