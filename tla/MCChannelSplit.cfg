CONSTANTS
    u1 = u1
    u2 = u2
    op = op
    c1 = c1
    c2 = c2
    o1 = o1
    o2 = o2
    o3 = o3
    o4 = o4
    Nobody = Nobody
    Absent = Absent
    Users <- MCUsers
    Opers <- MCOpers
    Chans <- OneChan
    Objs <- ThreeObjs
    WorkerCounts = {2}
SPECIFICATION Spec
SYMMETRY Symmetry
PROPERTIES
    OnlyEmptyRemoved
CHECK_DEADLOCK FALSE
