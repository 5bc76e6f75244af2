CONSTANTS
    u1 = u1
    u2 = u2
    op = op
    x = x
    y = y
    Nobody = Nobody
    NoNick = NoNick
    Users <- MCUsers
    Nicks <- MCNicks
    Opers <- MCOpers
    WorkerCounts = {2}
    Watchers <- MCWatchers
    MonitorLimit = 1
SPECIFICATION MonitorSpec
SYMMETRY Symmetry
INVARIANTS
    UniqueNick
CHECK_DEADLOCK FALSE
