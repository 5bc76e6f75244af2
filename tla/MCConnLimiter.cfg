CONSTANTS
    c1 = c1
    c2 = c2
    c3 = c3
    c4 = c4
    c5 = c5
    ip1 = ip1
    ip2 = ip2
    Absent = Absent
    Conns <- MCConns
    IPs <- MCIPs
    IpOf <- MCIpOf
    Max = 2
    MaxU32 = 2
SPECIFICATION Spec
INVARIANTS
    TypeOK
    AtMostMax
    NoStaleEntry
PROPERTIES
    ImplementsSlots
