CONSTANTS
    TASK_INIT_NUM = 3
    Delay = {0, 1}
    TICK_WRAP = 1
    Obj = {10, 11}
    Deletes = TRUE
    WORD = 4
    Sizes <- MCSizes
SPECIFICATION Spec
INVARIANTS TypeOK ListsLinked NoLostToken
PROPERTIES ImplementsKernel ReadyRuns
