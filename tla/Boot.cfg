CONSTANTS
    UART_RCV_BUF_LEN = 4
    CMD_LEN = 3
    Char = {x, y}
    Nul = Nul
    Reach = 4
SPECIFICATION BootSpec
INVARIANTS AllTypeOK LineAsSeen AccessesHit HandlersReady NothingDropped
PROPERTIES EventsServed
