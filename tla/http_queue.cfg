\* Both builds; the environment stops at MaxPasses and a duty-cycled device powers off.
SPECIFICATION Spec
CONSTANTS
    Builds = {TRUE, FALSE}
    MaxPasses = 5
INVARIANTS QueuedOnce LastSyncWasPosted RailDropsLast NothingForgotten
PROPERTIES TelemetryKept OnceReturns TelemetryEnds
CHECK_DEADLOCK FALSE
