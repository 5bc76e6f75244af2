CONSTANTS
    w1 = w1
    w2 = w2
    NoWorker = NoWorker
    Workers <- MCWorkers
    Jobs <- MCJobs
    MaxFailures = 1
    QueueCap = 1
    MaxStarts = 1
    MaxStops = 1
    MaxFaults = 1
SPECIFICATION FairSpec
INVARIANTS
    TypeOK
    OneCurrentLoop
PROPERTIES
    Recovered
CHECK_DEADLOCK FALSE
