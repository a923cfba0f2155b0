CONSTANTS
    Task = {idle, a, b}
    Idle = idle
    Junk = Junk
SPECIFICATION Spec
INVARIANTS TypeOK ContextKept
PROPERTY ImplementsProcessor
