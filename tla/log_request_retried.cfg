CONSTANTS
    Servers = {s1}
    Contents = {c1}
    None = None
    Garbled = Garbled
    RingSize = 2
    MaxLogged = 1
    MaxChanges = 1
    Builds <- Caches
    Tags <- Body
    Etag <- PerCloud
SPECIFICATION Spec
PROPERTIES RequestAnswered
