\* A process and the file whose breakpoints the editor sets twice.
CONSTANTS
    Processes = {"first"}
    Sources = {"source1"}
    Nobody = Nobody
    MaxVersion = 2
    MaxInbox = 2
SPECIFICATION FairSpec
INVARIANTS
    BreakpointsReach
    ConnectionsClosed
PROPERTIES
    ReleasedWithBreakpoints
    BootstrapReleased
CHECK_DEADLOCK FALSE
