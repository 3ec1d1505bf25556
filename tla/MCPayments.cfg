SPECIFICATION FairSpec
CONSTANTS
    Deposits = {d1}
    Withdrawals = {w1}
    Handlers = {h1}
    Sweeps = {s1}
    NoTxn = NoTxn
    Faults = {"crash", "transfer", "gateway"}
    MaxFaults = 1
    MaxCancels = 1
    Listed = 1
    ManyCredits = 2
INVARIANTS
    SuccessIsConfirmed
    PayoutNeedsDebit
    CreditedOnceUncontested
    SuccessfulDepositIsCredited
PROPERTIES
    PaidDepositIsCredited
    PaidWithdrawalIsRecorded
    ImplementsSettlement
CHECK_DEADLOCK FALSE
