\* Two requests, two verification ids, one midnight, one fault.  When both
\* have ended the system rests.
CONSTANTS
    Requests = {q1, q2}
    Ids = {v1, v2}
    NoId = NoId
    Amounts <- MCAmounts
    Limit <- MCLimit
    Minimum = 1
    Opening = 4
    Lowest <- MCLowest
    Days = 1
    MaxFaults = 1
SPECIFICATION Spec
SYMMETRY Symmetry
CHECK_DEADLOCK FALSE
INVARIANTS
    IdSpentOnce
    LimitKept
    PaidBillIsRecorded
PROPERTIES
    MinimumKept
