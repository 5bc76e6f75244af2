CONSTANTS
    Q = 3
    Rate = 2
    Burst = 2
    MaxTime = 8
SPECIFICATION Spec
INVARIANTS
    TypeOK
    WindowBound
    
CHECK_DEADLOCK FALSE
