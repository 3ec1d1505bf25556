SPECIFICATION Spec
CONSTANTS
    Deposits = {}
    Withdrawals = {w1}
    Handlers = {h1}
    Sweeps = {s1}
    NoTxn = NoTxn
    Faults = {}
    MaxFaults = 0
    MaxCancels = 1
    Listed = 1
    ManyCredits = 2
INVARIANT
    RefusedWithdrawalIsReversed
CHECK_DEADLOCK FALSE
