SPECIFICATION Spec
CONSTANTS
    Savers = {loop}
    Inodes = {i1, i2, i3, i4}
    NoInode = NoInode
    MaxVersion = 3
    MaxCrashes = 2
INVARIANTS
    SavedIsKept
PROPERTIES
    ImplementsAtomicFile
CHECK_DEADLOCK FALSE
