\* A launch without a child registry: one process of one thread, whose threads a lister
\* and the editor ask CodeLLDB for, one request that resumes it and one viewer.
CONSTANTS
    Processes = {"main"}
    Threads = {"mainThread"}
    ThreadGroup <- MCThreadGroup
    GroupIds <- MCGroupIds
    ChildRegistry = FALSE
    Workers <- MCWorkers
    Root = "main"
    PythonProcesses = {}
    PythonThreads = {}
    Requests = {request}
    Listers = {lister}
    Viewers = {viewer1}
    Watcher = watcher
    Keys = {"frame"}
    NativeIds = {}
    MaxId = 4
    None = None
    MaxEpoch = 2
    MaxGeneration = 2
    MaxInbox = 2
SPECIFICATION StackSpec
CONSTRAINT Focus
INVARIANTS
    ShownFramesAreFresh
    ShownIdsExpire
    UndisturbedRequestsSucceed
CHECK_DEADLOCK FALSE
