CONSTANTS
    Task = {idle, a}
    Idle = idle
    Junk = Junk
SPECIFICATION Spec
INVARIANT ContextRestored
