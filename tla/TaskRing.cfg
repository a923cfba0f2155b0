CONSTANTS
    TASK_INIT_NUM = 5
    Delay = {0, 1, 2}
    TICK_WRAP = 1
SPECIFICATION Spec
INVARIANT RingInOrder
PROPERTIES ImplementsKernel ListingComplete
