CONSTANTS
    TASK_INIT_NUM = 5
    Delay = {0, 1, 2}
    TICK_WRAP = 1
    Obj = {a, b}
    NULL = NULL
SPECIFICATION TimeSpec
INVARIANTS TypeOK OneRunning WaitingIsPending ListsInOrder OnTime
PROPERTIES NoOvertaking LockKeepsProcessor NoQueueJumping
