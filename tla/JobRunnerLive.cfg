\* A tick, a manual run and an operator on one job; their machine dies, up to twice.
CONSTANTS
    m1 = m1
    m2 = m2
    a = a
    b = b
    t1 = t1
    t2 = t2
    r1 = r1
    NoJob = NoJob
    Machines = {m1}
    Tickers = {t1}
    Runners = {r1}
    Jobs = {a}
    SeedEnabled = {a}
    MachineOf <- MCMachineOf
    Registry <- MCSameRegistry
    DefaultInterval = 1
    Intervals = {1}
    LEASE = 1
    MaxTime = 3
    MaxCrashes = 2
SPECIFICATION FairSpec
PROPERTY DueJobsRun
CHECK_DEADLOCK FALSE
