CONSTANTS
    TASK_INIT_NUM = 3
    Delay = {0, 1}
    TICK_WRAP = 1
    Obj = {"lines", "prints"}
    NULL = NULL
    Line = {"hello", "long"}
    LongLine = {"long"}
    LineRoom = 2
    TextRoom = 3
    MaxLines = 2
    MaxAgain = 1
    MaxShown = 12
SPECIFICATION DialogueFairSpec
INVARIANTS DialogueTypeOK RepliesFollow
PROPERTY QueuesDrain
CHECK_DEADLOCK FALSE
