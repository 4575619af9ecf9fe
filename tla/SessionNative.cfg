\* A process and its child under CodeLLDB alone, resumed by forwarded requests,
\* the threads of the proxy scheduled fairly.
CONSTANTS
    Processes = {"main", "child"}
    Threads = {"mainThread", "childThread"}
    ThreadGroup <- MCThreadGroup
    GroupIds <- MCGroupIds
    ChildRegistry = TRUE
    Workers <- MCWorkers
    Root = "main"
    PythonProcesses = {}
    PythonThreads = {}
    Requests = {}
    Listers = {}
    Watcher = watcher
    Keys = {"frame"}
    NativeIds = {}
    MaxId = 1
    None = None
    MaxEpoch = 3
    MaxGeneration = 3
    MaxInbox = 2
SPECIFICATION FairSpec
INVARIANTS
    StoppedIffHeld
    OwnerHolds
    FramesFollowStop
    ExitedForgotten
PROPERTIES
    StopsAreShown
CHECK_DEADLOCK FALSE
