\* One bezo-lock goal, two calls at a time and one cron run: where its money
\* goes, and what becomes of its mandates.
CONSTANTS
    Goals = {g1}
    BezoLocks = {g1}
    NoGoal = NoGoal
    Clients = {c1, c2}
    Runs = {r1}
    Preferences = {"manual", "automatic"}
    Amounts <- MCAmounts
    Fee = 1
    Target = 2
    MinBalance <- MCMinBalance
    MaxBalance = 2
    MaxMandates = 2
SPECIFICATION Spec
CONSTRAINT OneOfBoth
SYMMETRY Symmetry
INVARIANTS
    BookKept
    TerminatedIsEmpty
    PreferenceIsMandate
PROPERTIES
    LockedKeepsMoney
