CONSTANTS
    Main = main
    Shell = shell
    Indexes = {i1, i2}
    None = None
    Torn = Torn
    Stripes = 2
    Pool = 1
    MaxFaults = 2
    MaxGiven = 2
SPECIFICATION Spec
INVARIANTS TypeOK OnlyTimeoutsLoseTransfers
PROPERTIES FillIsSolid CommandsEnd
CHECK_DEADLOCK FALSE
