SPECIFICATION FairSpec
CONSTANTS
    Workers = {w1, w2, w3}
    Main = main
    Nobody = nobody
    max_job_num = 4
    NTasks = 5
    Spurious = TRUE
INVARIANTS RingConsistent NoTaskLostOrDoubled ProducerNotStranded
PROPERTIES ImplementsTaskQueue OneWorkerIsEnough
CHECK_DEADLOCK FALSE
