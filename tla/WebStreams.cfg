\* Two containers, two sessions of panels, a PIN session that ends and another one.
SPECIFICATION Spec
CONSTANTS
    Containers = {c1, c2}
    Sockets = {w1, w2}
    Tokens = {t1, t2}
    Calls = {q1}
    None = None
SYMMETRY Symmetry
INVARIANTS
    NoSocketLeftBehind
    SocketOfSelection
    TextOfSelection
    LockedQuiet
CHECK_DEADLOCK FALSE
