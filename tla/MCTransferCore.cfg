SPECIFICATION Spec
CONSTANTS
    primary = primary
    goal = goal
    fees = fees
    system = system
    Accounts = {primary, goal, fees, system}
    NoAccount = NoAccount
    FeeAccount = fees
    Requests = {r1, r2}
    Calls <- MCCalls
    Amounts <- MCAmounts
    Fees <- MCFees
    Flags <- MCFlags
    Opening <- MCOpening
INVARIANTS
    NoOverdraftWithoutRace
    SuccessMeansMoved
PROPERTY
    ImplementsLedger
