SPECIFICATION FairSpec
CONSTANTS
    Handlers = {h1}
    Workers = {w1}
    Remotes = {r1, r2}
    Urls = {u1, u2}
    NoUrl = nourl
    Absent = absent
    NoJob = nojob
    QueueSize = 1
    MaxEdits = 1
INVARIANT PendingExact
PROPERTY PendingServed
