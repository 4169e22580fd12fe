SPECIFICATION FairSpec
CONSTANTS
    Workers = {w1, w2}
    Main = main
    Nobody = nobody
    max_job_num = 3
    NTasks = 4
    Spurious = FALSE
PROPERTY AddTaskReturns
CHECK_DEADLOCK FALSE
