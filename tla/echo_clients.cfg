SPECIFICATION FairSpec
CONSTANTS
    Programs = {"poll", "epoll", "lt", "et", "loop"}
    FirstFd = 2
    NFds = 2
    MaxBacklog = 1
    MaxSends = 3
INVARIANTS WatchesWhatIsOpen Settled NoneForgotten
PROPERTIES ServesEveryClient HangUpsNoticed
CHECK_DEADLOCK FALSE
