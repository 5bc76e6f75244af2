CONSTANTS
    t1 = t1
    td = td
    p1 = p1
    p2 = p2
    e1 = e1
    e2 = e2
    a1 = a1
    a2 = a2
    Gateway = Gateway
    NoOne = NoOne
    Tasks <- MCTasks
    Dotted <- MCDotted
    Procs <- MCProcs
    Enrichers <- MCEnrichers
    Aggs <- MCAggs
    MaxFaults = 2
SPECIFICATION FairSpec
INVARIANTS
    TypeOK
    OncePerAggregator
    StatsNeverOvercount
PROPERTIES
    SteadyTasksAreStored
    JobsEnd
    LossesAreFaults
    ImplementsDelivery
