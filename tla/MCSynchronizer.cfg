SPECIFICATION FairSpec
CONSTANTS
    MaxCarried = 2
    MaxGained = 1
    MaxResets = 2
    MaxStarts = 2
INVARIANTS
    TypeOK
    NeverOvercounts
    NoFalseReboot
    OneAnchorPerReset
PROPERTIES
    ImplementsLifetime
    CatchesUp
CHECK_DEADLOCK FALSE
