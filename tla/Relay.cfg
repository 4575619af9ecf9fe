\* The editor, a hook thread and the event-hook thread make up to two requests
\* between them; a caller may call again after a timeout.
CONSTANTS
    Hooks = {hook}
    EventHooks = eventHooks
    Upstream = upstreamReader
    Callers = {eventHooks}
    MaxSeq = 2
    MaxEvents = 1
SPECIFICATION FairSpec
INVARIANTS
    NoReplyUnknown
PROPERTIES
    StopReleases
    EditorAnswered
    EventsHandled
CHECK_DEADLOCK FALSE
