SPECIFICATION Spec
CONSTANTS
    Unnamed = unnamed
    None = none
    Stale = stale
    AgentMode = FALSE
    Manual = {m1, m2}
    Sched = {}
    Updates = {}
    Locals = {l1}
    Remotes = {r1}
    MaxConfigEdits = 0
INVARIANT BatchPartsStoppable
SYMMETRY Symmetry
