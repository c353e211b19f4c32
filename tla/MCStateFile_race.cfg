SPECIFICATION Spec
CONSTANTS
    Savers = {loop, web}
    Inodes = {i1, i2, i3}
    NoInode = NoInode
    MaxVersion = 1
    MaxCrashes = 1
INVARIANT StartNeverFails
CHECK_DEADLOCK FALSE
