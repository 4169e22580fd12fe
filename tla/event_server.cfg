SPECIFICATION ServerFairSpec
CONSTANTS
    FirstFd = 8
    NFds = 3
    MaxBacklog = 2
    MayReset = TRUE
    NClients = 5
INVARIANTS WatchedTwiceAtMost CallbacksAreCurrent
PROPERTIES WatchedClientsServed
CHECK_DEADLOCK FALSE
