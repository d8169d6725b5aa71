\* Two servers that come and go, the table and one other mode at a time.
SPECIFICATION Spec
CONSTANTS
    Servers = {s1, s2}
    ServerLists <- AnyServers
    Menus <- OneMenu
    Networks = {n1, n2}
    AutoClose = 1
    None = None
SYMMETRY Symmetry
INVARIANTS
    SettledRows
    TargetsListed
    DialogsTrue
PROPERTY ListsAreScoped
CHECK_DEADLOCK FALSE
