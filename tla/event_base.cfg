SPECIFICATION FairSpec
CONSTANTS
    Reads = {r1}
    Timers = {t1}
    Signals = {s1}
    Persistent = {r1}
    Urgent = {r1}
    Exit = exit
    Notify = notify
    SigPipe = sigpipe
    Threads = {th1}
    Nothing = nothing
    MaxCalls = 2
    MaxTime = 1
    MaxInputs = 2
INVARIANT NoSleepOnWork
PROPERTIES PriorityRespected DeletedNeverCalled BreakEndsLoop TimersFire WaitersReturn
CHECK_DEADLOCK FALSE
