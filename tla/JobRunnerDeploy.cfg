\* A rolling deploy: m2 no longer knows job b, and prunes its row when it boots.
CONSTANTS
    m1 = m1
    m2 = m2
    a = a
    b = b
    t1 = t1
    t2 = t2
    r1 = r1
    NoJob = NoJob
    Machines = {m1, m2}
    Tickers = {t1, t2}
    Runners = {}
    Jobs = {a, b}
    SeedEnabled = {a, b}
    MachineOf <- MCMachineOf
    Registry <- MCRegistry
    DefaultInterval = 1
    Intervals = {}
    LEASE = 1
    MaxTime = 2
    MaxCrashes = 0
SPECIFICATION Spec
INVARIANTS TypeOK ExclusiveUnlessLapsed
PROPERTIES ImplementsLease SlotServedOnce
CHECK_DEADLOCK FALSE
