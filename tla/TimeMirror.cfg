\* Two machines, three versions, one crash and one transaction timing out.
CONSTANTS
    a = a
    b = b
    Free = Free
    Machines = {a, b}
    MaxVer = 3
    MaxEvents = 3
    MaxTimeouts = 1
    MaxCrashes = 1
SPECIFICATION Spec
INVARIANTS TypeOK OneEvent LatestMirrored DeletedUnmirrored
PROPERTIES DeleteAnswered Drains
CHECK_DEADLOCK FALSE
