\* One container that is updated twice, at most two other things happening
\* on the host meanwhile.
SPECIFICATION FairSpec
CONSTANTS
    n1 = n1
    Names = {n1}
    i1 = i1
    i2 = i2
    i3 = i3
    Images = {i1, i2, i3}
    FirstImage = i1
    NoImage = NoImage
    Gone = Gone
    MaxUpdates = 2
    MaxUses = 2
INVARIANTS
    LossReported
    AppliedIsPulled
    StateRestored
PROPERTIES
    UpdateAdvances
    UpdatesTerminate
CHECK_DEADLOCK FALSE
