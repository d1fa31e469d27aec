\* Two e-mails through one capped sender, up to the next day's midnight.
CONSTANTS
    m1 = m1
    m2 = m2
    w1 = w1
    w2 = w2
    p1 = p1
    p2 = p2
    NoMessage = NoMessage
    Messages = {m1, m2}
    Kind <- MCEmail
    SlackAllowed = {p1}
    Workers = {w1, w2}
    Processes = {p1, p2}
    ProcessOf <- MCProcessOf
    LOCK = 2
    MaxAttempts = 2
    Backoff <- MCBackoff
    Cap = 1
    DAY = 2
    RETAIN = 9
    MaxTime = 2
    MaxCrashes = 0
    MaxRetries = 0
SPECIFICATION Spec
INVARIANTS TypeOK CapOvershoot
CHECK_DEADLOCK FALSE
