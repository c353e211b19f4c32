SPECIFICATION BSpec
CONSTANTS
    MaxTime = 2
    MaxBytes = 2
    MaxSent = 1
    MaxFaults = 1
    MaxStarts = 2
    Charged = 50
    Period = 2
CONSTRAINT
    FewBytes
INVARIANTS
    BytesConserved
    NeverBilledEarly
    HistoryMissesNothing
    BilledIfSampled
CHECK_DEADLOCK FALSE
