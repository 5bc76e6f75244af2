CONSTANTS
    u1 = u1
    u2 = u2
    op = op
    x = x
    y = y
    Nobody = Nobody
    NoNick = NoNick
    Users <- MCUsers
    Nicks <- MCNicks
    Opers <- MCOpers
    WorkerCounts = {1, 2}
    Watchers <- MCWatchers
    MonitorLimit = 1
SPECIFICATION MonitorSpec
SYMMETRY Symmetry
INVARIANTS
    TypeOK
    MonitorTypeOK
    RoutesToBearer
    ExactOnOneWorker
    PresenceIsTrue
CHECK_DEADLOCK FALSE
