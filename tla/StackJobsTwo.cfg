SPECIFICATION Spec
CONSTANTS
    Jobs = {j1, j2}
    LocalStacks = {}
    RemoteStacks = {r1}
    Extends = {}
    NoJob = nojob
    Budget = 1
    Grace = 0
    StartTimeout = 1
    Extension = 1
    MaxExtends = 0
    MaxRestarts = 1
INVARIANTS AtMostOnce FilesKept
PROPERTY JobsAreManaged
SYMMETRY Symmetry
CHECK_DEADLOCK FALSE
