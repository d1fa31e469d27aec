\* Two requests, two rooms, two claims; every operation, in the mixes named.
CONSTANTS
    c1 = c1
    c2 = c2
    p1 = p1
    p2 = p2
    NoEvent = "none"
    Free = Free
    Rooms = {1, 2}
    Claims = {c1, c2}
    Requests = {p1, p2}
    Events = {"e1"}
    Slots <- MCSlots
    Picks <- MCPicks
    Mixes <- MCMixes
    STEP = 1
    MaxTime = 3
    MaxClock = 2
SPECIFICATION Spec
INVARIANTS TypeOK BookingsDisjoint EventAllOrNone HoldsTogether EditsNeverDeadlock
SYMMETRY Symmetry
CHECK_DEADLOCK FALSE
