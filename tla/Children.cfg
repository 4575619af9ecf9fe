\* One child with one thread, stopped twice, and two threads that serve the editor.
CONSTANTS
    Processes = {c1}
    Threads = {t1}
    Natives = {1}
    Hooks = {viewer, resumer}
    MaxStops = 2
    MaxTries = 2
    None = None
    viewer = viewer
    resumer = resumer
SPECIFICATION FairSpec
CONSTRAINT Focus
INVARIANTS
    NothingLeftBehind
    IdsMeanOneStop
    ShownIdsResolve
PROPERTIES
    ReleasedUnderControl
    AttachmentSettles
    EndedForgotten
CHECK_DEADLOCK FALSE
