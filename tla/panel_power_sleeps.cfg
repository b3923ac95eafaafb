\* A fire-and-forget build on a board whose main rail goes.
SPECIFICATION Spec
CONSTANTS
    Frames = {f1, f2}
    None = None
    Torn = Torn
    Builds <- Product
PROPERTY RefreshOutlivesSleep
