\* One thread of the editor's, two transfers, with breakpoints of both kinds.
CONSTANTS
    Threads = {t1}
    Hooks = {h1}
    MaxTransfers = 2
    MaxRust = 2
    MaxPython = 0
    None = None
SPECIFICATION FairSpec
PROPERTIES
    TransferEnds
CHECK_DEADLOCK FALSE
