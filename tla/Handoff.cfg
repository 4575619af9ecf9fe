\* One thread of the editor's, two transfers, with breakpoints of both kinds.
CONSTANTS
    Threads = {t1}
    Hooks = {h1}
    MaxTransfers = 2
    MaxRust = 2
    MaxPython = 1
    None = None
SPECIFICATION FairSpec
CONSTRAINT FourInAll
INVARIANTS
    KeyMeansTransfer
PROPERTIES
    PauseAfterResume
    StopsSurface
    TransfersAnswered
    StepInEndsInRust
CHECK_DEADLOCK FALSE
