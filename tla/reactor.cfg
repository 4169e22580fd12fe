SPECIFICATION FairReactorSpec
CONSTANTS
    FirstFd = 4
    NFds = 3
    MAX_EVENTS = 2
    SweepLens = {1, 3}
    MaxBacklog = 1
    MayReset = TRUE
    Wrapped = FALSE
INVARIANTS NoStaleDispatch EntriesMatchTree
PROPERTIES IdleEntriesReaped HangUpsClosed
