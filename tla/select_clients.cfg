SPECIFICATION FairSpec
CONSTANTS
    FirstFd = 4
    NFds = 4
    NSlots = 3
    StrayFd = 5
    MaxBacklog = 1
    MayReset = TRUE
INVARIANTS SlotsMirrorFds WatchesWhatIsOpen
PROPERTY ServesEveryClient
CHECK_DEADLOCK FALSE
