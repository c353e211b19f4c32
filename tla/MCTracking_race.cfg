SPECIFICATION TSpec
CONSTANTS
    MaxCarried = 1
    MaxGained = 0
    MaxResets = 0
    MaxStarts = 1
    MaxRequests = 1
    Amounts = {1}
INVARIANT ResetHolds
CHECK_DEADLOCK FALSE
