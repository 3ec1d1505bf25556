SPECIFICATION FairSpec
CONSTANTS
    primary = primary
    goal = goal
    system = system
    b1 = b1
    b2 = b2
    b3 = b3
    Accounts = {primary, goal, system}
    Blocks = {b1, b2, b3}
    Amounts <- MCAmounts
    Jobs <- RingJobs
    Opening <- MCOpening
    Nobody = Nobody
INVARIANTS
    PendingInv
    StatementChain
PROPERTIES
    EveryBlockEnds
    ImplementsLedger
