CONSTANTS
    w1 = w1
    w2 = w2
    NoWorker = NoWorker
    Workers <- MCWorkers
    Jobs <- MCJobs
    MaxFailures = 1
    QueueCap = 1
    MaxStarts = 1
    MaxStops = 0
    MaxFaults = 0
SPECIFICATION Spec
INVARIANTS
    OneLoop
CHECK_DEADLOCK FALSE
