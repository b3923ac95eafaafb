\* A power loss inside an accept loses the image.
SPECIFICATION Spec
CONSTANTS
    state = state
    sync_meta = sync_meta
    v1 = v1
    v2 = v2
    i1 = i1
    i2 = i2
    Torn = Torn
    None = None
    Files <- OneFile
    Values <- TwoValues
    Ids <- TwoIds
    MaxVersion = 2
    Builds = {TRUE, FALSE}
INVARIANT ImageSurvives
