\* The gateway: two callbacks at a time of two deductions, an approval delivered
\* twice, two cancellations, one fault.  The crons: three mandates of one (two
\* chunks), and of another cron, one of the same user.
CONSTANTS
    Deductions = {d1, d2}
    Handlers = {h1, h2}
    Approvals = {a1, a2}
    Cancels = {x1, x2}
    NoDeduction = NoDeduction
    MaxFaults = 1
    user = user
    m1 = m1
    m2 = m2
    m3 = m3
    w = w
    Mandates = {m1, m2, m3, w}
    Payers = {user}
    Frequencies = {"daily", "weekly"}
    Holder <- MCHolder
    Frequency <- MCFrequency
    Amount <- MCAmount
    MinBalance <- MCMinBalance
    Flows = {1}
    MaxBalance = 2
SPECIFICATION MCSpec
CONSTRAINT FewInactive
SYMMETRY Symmetry
CHECK_DEADLOCK FALSE
INVARIANTS
    DeductionCreditedOnce
    RecordedIsCredited
    OffIsDeactivated
    ServedUnlessThrown
    PrimaryCovered
