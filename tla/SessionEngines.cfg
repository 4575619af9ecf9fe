\* A process under both engines and a child that is never stopped, and a request
\* thread that lists their threads.
CONSTANTS
    Processes = {"main", "child"}
    Threads = {"mainThread", "mainPython", "childThread"}
    ThreadGroup <- MCThreadGroup
    GroupIds <- MCGroupIds
    ChildRegistry = TRUE
    Workers <- MCWorkers
    Root = "main"
    PythonProcesses = {"main"}
    PythonThreads = {"mainPython"}
    Requests = {}
    Listers = {lister}
    Watcher = watcher
    Keys = {"frame"}
    NativeIds = {}
    MaxId = 1
    None = None
    MaxEpoch = 2
    MaxGeneration = 2
    MaxInbox = 2
SPECIFICATION Spec
CONSTRAINT Focus
INVARIANTS
    NoStaleLease
    ThreadsStayHome
CHECK_DEADLOCK FALSE
