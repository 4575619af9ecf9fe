SPECIFICATION FairSpec
CONSTANTS
    Hooks = {h1}
    Frames = {f1, f2}
    MaxStops = 3
    MaxNative = 6
    None = None
INVARIANTS
    MaintenanceHidden
    ServedFramesAreCurrent
    LeaseIsReturned
    SuspensionIsAccounted
    HookHasLastWord
PROPERTIES
    ContinueTakesEffect
CHECK_DEADLOCK FALSE
