\* Both LZ4 builds, with power losses at every step.
SPECIFICATION Spec
CONSTANTS
    state = state
    sync_meta = sync_meta
    v1 = v1
    v2 = v2
    i1 = i1
    i2 = i2
    Torn = Torn
    None = None
    Files <- TwoFiles
    Values <- TwoValues
    Ids <- OneId
    MaxVersion = 2
    Builds = {TRUE, FALSE}
INVARIANTS TypeOK ServesLatestAccepted HashNeverAhead
PROPERTY ImplementsStableFiles
