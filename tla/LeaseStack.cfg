SPECIFICATION Spec
CONSTANTS
    Hooks = {h1}
    Frames = {f1, f2}
    MaxStops = 2
    MaxNative = 4
    None = None
INVARIANTS
    DebugpyCanServe
CHECK_DEADLOCK FALSE
