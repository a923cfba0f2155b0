CONSTANTS
    MSG_SRC_MAX = 1
    L = 11
    Lens = {1, 2}
    BufLens = {1, 2}
    Tags = {0, 1}
    Deletes = TRUE
SPECIFICATION Spec
INVARIANTS TypeOK Intact
PROPERTY ImplementsChannel
CHECK_DEADLOCK FALSE
