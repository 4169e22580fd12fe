SPECIFICATION Spec
CONSTANTS
    Programs = {"cond", "sem"}
    Room = 3
    MaxNodes = 5
    Spurious = TRUE
INVARIANTS NodesConserved NoLostWakeup
CHECK_DEADLOCK FALSE
