CONSTANTS
    c1 = c1
    op = op
    Conns <- MCConns
    Opers <- MCOpers
    Limits = {1, 2}
    Queue = 2
SPECIFICATION Spec
INVARIANTS
    TypeOK
    SlotPerConnection
    LeavesAreAnnounced
PROPERTIES
    ImplementsSlots
    KilledAreReleased
    DeadlineEndsSilence
CHECK_DEADLOCK FALSE
