CONSTANTS
    c1 = c1
    op = op
    Conns <- MCConns
    Opers <- MCOpers
    Limits = {1, 2}
    Queue = 2
SPECIFICATION Spec
PROPERTIES
    ClosedAreReleased
CHECK_DEADLOCK FALSE
