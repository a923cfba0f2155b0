CONSTANTS
    a = a
    b = b
    Printer = {a, b}
    WORD = 32
    SIZE = 5
    BEHIND = 6
    Formats <- MCFormats
SPECIFICATION Spec
INVARIANTS TypeOK TextAsFormatted
