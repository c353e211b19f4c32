SPECIFICATION TSpec
CONSTANTS
    MaxCarried = 1
    MaxGained = 0
    MaxResets = 1
    MaxStarts = 2
    MaxRequests = 2
    Amounts = {0}
INVARIANTS
    UndisturbedResetHolds
    RacesNeverOvercount
CHECK_DEADLOCK FALSE
