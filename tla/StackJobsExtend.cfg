SPECIFICATION FairSpec
CONSTANTS
    Jobs = {j1}
    LocalStacks = {l1}
    RemoteStacks = {r1}
    Extends = {e1, e2}
    NoJob = nojob
    Budget = 2
    Grace = 1
    StartTimeout = 2
    Extension = 2
    MaxExtends = 2
    MaxRestarts = 1
INVARIANTS NoTimerLeftBehind DeadlineSkew
PROPERTY JobsFinish
CHECK_DEADLOCK FALSE
