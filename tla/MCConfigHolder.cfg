SPECIFICATION Spec
CONSTANTS
    Handlers = {h1, h2}
    Bodies <- MCBodies
    Initial <- MCInitial
    MaxRequests = 3
    MaxCrashes = 1
    asnA = asnA
    asnB = asnB
INVARIANTS
    FileIsLive
    AnsweredToggleHolds
    ChangesAreAudited
CHECK_DEADLOCK FALSE
