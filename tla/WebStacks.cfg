\* Two servers without stacks, an editor and a row that run actions.
SPECIFICATION FairSpec
CONSTANTS
    Servers = {s1, s2}
    First = s1
    text = text
    raw = raw
    blank = blank
    Texts <- AllTexts
    Clean <- Trim
    Found = {None}
    MaxFailures = 2
    MaxMoves = 1
    Slow = {"modal"}
    None = None
INVARIANTS
    CleanMeansSaved
    ActionRunsSaved
    LeftoversExpire
PROPERTY DialogFreed
CHECK_DEADLOCK FALSE
