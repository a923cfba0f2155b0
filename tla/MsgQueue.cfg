CONSTANTS
    TASK_INIT_NUM = 4
    Delay = {0, 1}
    TICK_WRAP = 1
    Obj = {10}
    Deletes = FALSE
    Lens = {1}
    BufLens = {1}
    Room = 2
SPECIFICATION MsgSpec
INVARIANTS MsgTypeOK NoMessageStranded
PROPERTIES ImplementsKernel WokenReturns
