\* Two accounts, two nights, rows of nothing and of something; one run may fail or
\* die, and the month-end run comes back as often as it takes.
CONSTANTS
    Accounts = {a1, a2}
    Nights = 2
    Amounts = {0, 1}
    MaxFaults = 1
SPECIFICATION FairSpec
CHECK_DEADLOCK FALSE
INVARIANTS
    CompletedIsPaid
    PaidOnce

    
