SPECIFICATION Spec
CONSTANTS
    Handlers = {h1, h2}
    Bodies <- MCListBodies
    Initial <- MCInitial
    MaxRequests = 1
    MaxCrashes = 1
    asnA = asnA
    asnB = asnB
INVARIANT SnapshotStable
CHECK_DEADLOCK FALSE
