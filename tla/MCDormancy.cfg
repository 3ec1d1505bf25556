\* Up to two years away.
CONSTANT MaxYears = 2
SPECIFICATION Spec
INVARIANT DormantIsDisabled
