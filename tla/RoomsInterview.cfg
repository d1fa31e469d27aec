\* A member books a room while an applicant takes an interview in it.
CONSTANTS
    c1 = c1
    c2 = c2
    p1 = p1
    p2 = p2
    NoEvent = "none"
    Free = Free
    Rooms = {1, 2}
    Claims = {c1, c2}
    Requests = {p1, p2}
    Events = {"e1"}
    Slots <- MCSlots
    Picks <- MCPicks
    Mixes <- MCInterviews
    STEP = 1
    MaxTime = 3
    MaxClock = 1
SPECIFICATION Spec
INVARIANT RoomHeldOnce
SYMMETRY Symmetry
CHECK_DEADLOCK FALSE
