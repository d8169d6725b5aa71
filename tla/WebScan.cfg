\* One server that may be scanned already, a scan, an update, and two requests for the status that overtake each other.
SPECIFICATION PageFairSpec
CONSTANTS
    Servers = {s1}
    Updatable = {s1}
    Calls = {q1, q2}
    MaxScans = 1
    MaxUpdates = 1
    EventBuffer = 1
    None = None
INVARIANTS
    ShownActivityPolled
    NoScanDuringUpdate
PROPERTIES
    FinishTold
    StatusSettles
CHECK_DEADLOCK FALSE
