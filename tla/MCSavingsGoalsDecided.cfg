\* A target of 9 and balances up to 10: amounts of one and of two digits.
CONSTANTS
    Goals = {g1}
    BezoLocks = {}
    NoGoal = NoGoal
    Clients = {c1}
    Runs = {r1}
    Preferences = {"manual"}
    Amounts = {1, 9}
    Fee = 1
    Target = 9
    MinBalance = 0
    MaxBalance = 10
    MaxMandates = 0
SPECIFICATION Spec
PROPERTIES
    DecidedByAmount
