\* Three applicants, one or two seats, two requests at once, two in all,
\* from every offering at rest.
CONSTANTS
    ada = ada
    ben = ben
    cai = cai
    req1 = req1
    req2 = req2
    Applicants = {ada, ben, cai}
    Requests = {req1, req2}
    Capacities = {1, 2}
    MaxAsked = 2
    MaxChanges = 1
SPECIFICATION Spec
INVARIANTS TypeOK RanksDense ToldAtRest
PROPERTIES SeatsWithinCapacity SeatRefilledUnlessRaced QueueOrderKept
SYMMETRY MCSymmetry
CHECK_DEADLOCK FALSE
