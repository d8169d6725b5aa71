SPECIFICATION Spec
CONSTANTS
    Unnamed = unnamed
    None = none
    Stale = stale
    AgentMode = FALSE
    Manual = {m1}
    Sched = {s1}
    Updates = {u1}
    Locals = {l1}
    Remotes = {r1}
    MaxConfigEdits = 1
INVARIANTS OperationExclusion RemoteCounterExact StopReachesWork
