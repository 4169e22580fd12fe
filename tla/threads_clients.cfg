SPECIFICATION FairSpec
CONSTANTS
    FirstFd = 4
    NFds = 2
    NSlots = 2
    MaxBacklog = 1
    MayReset = TRUE
    MaxThreads = 2
INVARIANTS HandlersOwnTheirEntries SearchesFind
PROPERTY HangUpsNoticed
CHECK_DEADLOCK FALSE
