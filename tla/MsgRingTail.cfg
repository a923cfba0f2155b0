CONSTANTS
    MSG_SRC_MAX = 1
    L = 8
    Lens = {1, 3}
    BufLens = {3}
    Tags = {0}
    Deletes = FALSE
SPECIFICATION Spec
INVARIANT WokenFinds
CHECK_DEADLOCK FALSE
