\* Four applicants, one of them in a Lab members cycle, two requests at once and
\* two in all, each of up to two decisions, from every list, ordered before or not.
CONSTANTS
    ada = ada
    ben = ben
    cai = cai
    dee = dee
    req1 = req1
    req2 = req2
    Applicants = {ada, ben, cai, dee}
    AdminOnly = {dee}
    Requests = {req1, req2}
    MaxAsked = 2
    MaxBulk = 2
SPECIFICATION Spec
INVARIANTS TypeOK TiesResolved
PROPERTIES OrderKept NoGaps
SYMMETRY MCSymmetry
CHECK_DEADLOCK FALSE
