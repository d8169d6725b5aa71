SPECIFICATION FairSpec
CONSTANTS
    Unnamed = unnamed
    None = none
    Stale = stale
    AgentMode = FALSE
    Manual = {m1}
    Sched = {}
    Updates = {}
    Locals = {l1, l2}
    Remotes = {r1, r2}
    MaxConfigEdits = 0
INVARIANT SettledStates
PROPERTIES ScanTerminates ScanAdvances
