\* Every build and board, with a panel and without.
SPECIFICATION Spec
CONSTANTS
    Frames = {f1, f2}
    None = None
    Torn = Torn
    Builds <- AllBuilds
INVARIANTS TypeOK OkIsOnGlass HighVoltageOff
PROPERTIES DrawsItsFrame Settles
