CONSTANTS
    Servers = {s1, s2}
    Contents = {c1, c2}
    None = None
    Garbled = Garbled
    RingSize = 3
    MaxLogged = 4
    MaxChanges = 3
    Builds <- AllBuilds
    Tags <- Body
    Etag <- PerCloud
SPECIFICATION Spec
INVARIANTS TypeOK PassUsesServed RingHoldsLatest
PROPERTIES UploadsOneStretch RequestAnsweredUncached
