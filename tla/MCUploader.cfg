SPECIFICATION FairSpec
CONSTANTS
    Workers = {w1, w2}
    ASNs = {a, b}
    Resolvable = {a}
    Sizes = {1, 2}
    Rates = {0, 2}
    Budgets = {2, 4}
    MaxCycle = 1
    MaxCycles = 1
    MaxEdits = 1
    MaxPanics = 1
INVARIANTS
    RateHolds
    BudgetHolds
    CountersAgree
PROPERTIES
    OnlySelected
    CycleReturns
CHECK_DEADLOCK FALSE
