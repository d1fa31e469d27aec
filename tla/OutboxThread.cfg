\* One thread post with a file: failures, a crash, an operator and the janitor; Slack on one machine only.
CONSTANTS
    m1 = m1
    m2 = m2
    w1 = w1
    w2 = w2
    p1 = p1
    p2 = p2
    NoMessage = NoMessage
    Messages = {m1}
    Kind <- MCThread
    SlackAllowed = {p1}
    Workers = {w1, w2}
    Processes = {p1, p2}
    ProcessOf <- MCProcessOf
    LOCK = 2
    MaxAttempts = 2
    Backoff <- MCBackoff
    Cap = 1
    DAY = 2
    RETAIN = 1
    MaxTime = 4
    MaxCrashes = 1
    MaxRetries = 1
SPECIFICATION Spec
INVARIANTS DeliveredOnce
PROPERTIES ImplementsLease TerminalStays
CHECK_DEADLOCK FALSE
