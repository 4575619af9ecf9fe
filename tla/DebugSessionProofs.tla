--------------------------- MODULE DebugSessionProofs ---------------------------
(***************************************************************************)
(* What holds of DebugSession.tla for every set of processes and threads.  *)
(* Whatever engines and request threads there are, no thread is taken for  *)
(* another process's, but for those of the launched process that no        *)
(* process is named for (NoThreadStrays). Where none of those can stray,   *)
(* because there is a child registry and /proc can be read (Attributable), *)
(* no lease is left with an engine that does not hold the process. With    *)
(* CodeLLDB alone what is shown of a process at rest, who owns its stop    *)
(* and the epoch its frames would get then follow its engine, and a child  *)
(* that has exited is forgotten everywhere. Then come the stack requests   *)
(* of StackTrace.tla: with one process of one thread, the editor is shown  *)
(* the Python frames of the stop it asks about and no others. At the end,  *)
(* for every session: it uses the coordinator and the frame registry as    *)
(* they are specified, so that what is proved of these holds of the whole. *)
(***************************************************************************)
EXTENDS StackTrace, TLAPS

Kinds == {"process", "stopped", "continued", "terminated"}

EventsOf(r) == [kind : Kinds, thread : ThreadsOf(r) \cup {None}]

\* Every thread can be told to be in its process: the launch names a child registry,
\* and /proc can be read.
Attributable == ChildRegistry /\ \A t \in Threads : GroupIds[t] = {ThreadGroup[t]}

LEMMA NoneStrays ==
    ASSUME Attributable
    PROVE  ThreadsStayHome <=> \A t \in DOMAIN threadProcess : threadProcess[t] = ThreadGroup[t]
    BY DEF Attributable, ThreadsStayHome, MayStray, ThreadsOf

\* What a connection carries is about threads of its own process, and so is what a
\* request thread has read and not yet acted upon.
Connections ==
    /\ DOMAIN inbox = Readers /\ \A r \in Readers : inbox[r] \in Seq(EventsOf(r))
    /\ DOMAIN holder = Readers /\ \A r \in Readers : holder[r] \in ThreadsOf(r) \cup {None}

Answers ==
    /\ DOMAIN pending = Requests \cup Listers
    /\ \A q \in Requests \cup Listers :
          pending[q] # NoAnswer =>
              /\ pending[q].thread \in ThreadsOf(<<pending[q].process, pending[q].engine>>)
              /\ ThreadGroup[pending[q].thread] = pending[q].process

IInv == ThreadsStayHome /\ Connections /\ Answers

\* A reply that names no process is about the launched process's native threads.
Recordings ==
    ChildRegistry \/ \A w \in Workers :
        call[w].at = "record" => call[w].thread \in ThreadsOf(<<Root, "native">>)

LEMMA InitInv == Init => IInv
    <1> SUFFICES ASSUME Init
                 PROVE  IInv
        OBVIOUS
    <1>1. ThreadsStayHome
        BY DEF Init, InitSession, ThreadsStayHome
    <1>2. Connections
        <2>1. ASSUME NEW r \in Readers
              PROVE  inbox[r] \in Seq(EventsOf(r))
            <3>1. Event("process", None) \in EventsOf(r)
                BY DEF Event, EventsOf, Kinds
            <3>2. <<>> \in Seq(EventsOf(r)) /\ <<Event("process", None)>> \in Seq(EventsOf(r))
                BY <3>1
            <3>3. inbox[r] = <<>> \/ inbox[r] = <<Event("process", None)>>
                BY DEF Init
            <3> QED
                BY <3>2, <3>3
        <2> QED
            BY <2>1 DEF Init, Connections
    <1>3. Answers
        BY DEF Init, Answers
    <1> QED
        BY <1>1, <1>2, <1>3 DEF IInv

--------------------------------------------------------------------------------
\* The two ways a handler changes whose a thread is.
LEMMA PutHome ==
    ASSUME ThreadsStayHome, NEW t, NEW p, ThreadGroup[t] = p \/ MayStray(t),
           threadProcess' = Put(threadProcess, t, p)
    PROVE  ThreadsStayHome'
    BY DEF ThreadsStayHome, MayStray, ThreadsOf, Put

LEMMA WithoutHome ==
    ASSUME ThreadsStayHome, NEW K, threadProcess' = Without(threadProcess, K)
    PROVE  ThreadsStayHome'
    BY DEF ThreadsStayHome, MayStray, ThreadsOf, Without

\* A handler that goes on binds no thread.
LEMMA HandlerHome ==
    ASSUME ThreadsStayHome, NEW w, HandlerStep(w)
    PROVE  ThreadsStayHome'
    <1>1. CASE TerminatedForget(w)
        BY <1>1, WithoutHome DEF TerminatedForget, Forget
    <1>2. CASE RegisterCoordinator(w) \/ BindCoordinator(w) \/ RemoveCoordinator(w)
        BY <1>2 DEF RegisterCoordinator, BindCoordinator, RemoveCoordinator, tableVars,
                    ThreadsStayHome
    <1>3. CASE StoppedRegister(w) \/ StoppedBind(w) \/ StoppedAcquire(w)
               \/ StoppedBeginEpoch(w) \/ StoppedBeginLegacy(w)
        BY <1>3 DEF StoppedRegister, StoppedBind, StoppedAcquire, StoppedBeginEpoch,
                    StoppedBeginLegacy, tableVars, ThreadsStayHome
    <1>4. CASE ContinuedRelease(w) \/ ContinuedClear(w) \/ ContinuedClearLegacy(w)
        BY <1>4 DEF ContinuedRelease, ContinuedClear, ContinuedClearLegacy, tableVars,
                    ThreadsStayHome
    <1>5. CASE TerminatedRemove(w) \/ TerminatedClear(w)
               \/ EndedList(w) \/ EndedRemove(w) \/ EndedClear(w)
        BY <1>5 DEF TerminatedRemove, TerminatedClear, EndedList, EndedRemove, EndedClear,
                    tableVars, ThreadsStayHome
    <1> QED
        BY <1>1, <1>2, <1>3, <1>4, <1>5 DEF HandlerStep

\* A stop is attributed to the process of its thread, unless that may stray: to the
\* one its connection adds, the one the thread is bound to, or its thread group.
LEMMA StoppedHome ==
    ASSUME ThreadsStayHome, NEW r \in Readers, NEW t \in ThreadsOf(r) \cup {None},
           NEW a, StoppedSnapshot(r, t, EventPid(r), a, r[2])
    PROVE  ThreadsStayHome'
    <1> DEFINE named == EventProcess(t, EventPid(r))
    <1>1. PICK process \in StoppedProcesses(t, EventPid(r)) :
              threadProcess' = IF process = None \/ t = None THEN threadProcess
                               ELSE Put(threadProcess, t, process)
        BY DEF StoppedSnapshot, StoppedSnapshotOf
    <1>2. CASE t = None
        BY <1>1, <1>2 DEF ThreadsStayHome, MayStray, ThreadsOf
    <1>3. CASE t # None
        <2>1. EventPid(r) # None => EventPid(r) = ThreadGroup[t]
            BY <1>3 DEF EventPid, ThreadsOf
        <2>2. EventPid(r) = None => t \in ThreadsOf(<<Root, "native">>)
            BY <1>3, SessionAssumption DEF EventPid, Readers
        <2>3. named # None => named = ThreadGroup[t] \/ MayStray(t)
            BY <1>3, <2>1 DEF EventProcess, ThreadsStayHome
        <2>4. process = ThreadGroup[t] \/ MayStray(t)
            <3>1. CASE named = None
                <4>1. process \in GroupIds[t] /\ EventPid(r) = None
                    BY <1>1, <1>3, <3>1 DEF StoppedProcesses, EventProcess
                <4> QED
                    BY <2>2, <4>1 DEF MayStray
            <3>2. CASE named # None
                BY <1>1, <2>3, <3>2 DEF StoppedProcesses
            <3> QED
                BY <3>1, <3>2
        <2> QED
            BY <1>1, <1>3, <2>4, PutHome DEF ThreadsStayHome, MayStray, ThreadsOf
    <1> QED
        BY <1>2, <1>3

LEMMA DispatchHome ==
    ASSUME ThreadsStayHome, NEW r \in Readers, NEW event \in EventsOf(r), Dispatch(r, event)
    PROVE  ThreadsStayHome'
    <1>1. CASE RegisterSnapshot(r, r[1], None, "native")
        BY <1>1 DEF RegisterSnapshot, ThreadsStayHome
    <1>2. CASE StoppedSnapshot(r, event.thread, EventPid(r), TRUE, r[2])
        BY <1>2, StoppedHome DEF EventsOf
    <1>3. CASE ContinuedSnapshot(r, event.thread, EventPid(r), TRUE, r[2])
        BY <1>3 DEF ContinuedSnapshot, ThreadsStayHome
    <1>4. CASE UNCHANGED sessionVars
        BY <1>4 DEF sessionVars, tableVars, ThreadsStayHome
    <1>5. CASE EndedSnapshot(r)
        BY <1>5, WithoutHome DEF EndedSnapshot
    <1>6. CASE TerminatedSnapshot(r, r[1]) \/ RemoveSnapshot(r, r[1])
        BY <1>6, WithoutHome DEF TerminatedSnapshot, RemoveSnapshot, Forget
    <1> QED
        BY <1>1, <1>2, <1>3, <1>4, <1>5, <1>6 DEF Dispatch

--------------------------------------------------------------------------------
\* The event at hand, and what is left when it has been handled or one is added.
LEMMA AtHandTyped ==
    ASSUME Connections, NEW r \in Readers, inbox[r] # <<>>
    PROVE  AtHand(r) \in EventsOf(r) /\ Tail(inbox[r]) \in Seq(EventsOf(r))
    <1>1. inbox[r] \in Seq(EventsOf(r))
        BY DEF Connections
    <1> QED
        BY <1>1 DEF AtHand

LEMMA SendTyped ==
    ASSUME Connections, NEW r \in Readers, NEW e \in EventsOf(r), Send(r, e),
           NEW t \in ThreadsOf(r) \cup {None}, holder' = [holder EXCEPT ![r] = t]
    PROVE  Connections'
    <1>1. Append(inbox[r], e) \in Seq(EventsOf(r))
        BY DEF Connections
    <1>2. \A s \in Readers : inbox'[s] \in Seq(EventsOf(s))
        BY <1>1 DEF Connections, Send
    <1>3. \A s \in Readers : EventsOf(s)' = EventsOf(s) /\ ThreadsOf(s)' = ThreadsOf(s)
        BY DEF EventsOf, ThreadsOf, Kinds
    <1> QED
        BY <1>2, <1>3 DEF Connections, Send

LEMMA WorldInv ==
    ASSUME IInv, World
    PROVE  IInv'
    <1>1. ASSUME NEW r \in Readers, EngineResumes(r)
          PROVE  IInv'
        <2>1. Send(r, Event("continued", holder[r])) /\ holder' = [holder EXCEPT ![r] = None]
            BY <1>1 DEF EngineResumes, EngineRuns
        <2>2. Event("continued", holder[r]) \in EventsOf(r)
            BY DEF IInv, Connections, Event, EventsOf, Kinds
        <2>3. UNCHANGED <<threadProcess, pending>>
            BY <1>1 DEF EngineResumes, sessionVars, tableVars
        <2> QED
            BY <2>1, <2>2, <2>3, SendTyped DEF IInv, ThreadsStayHome, Answers
    <1>2. ASSUME NEW r \in Readers, NEW t \in ThreadsOf(r), EngineStops(r, t)
          PROVE  IInv'
        <2>1. Send(r, Event("stopped", t)) /\ holder' = [holder EXCEPT ![r] = t]
            BY <1>2 DEF EngineStops
        <2>2. Event("stopped", t) \in EventsOf(r)
            BY DEF Event, EventsOf, Kinds
        <2>3. UNCHANGED <<threadProcess, pending>>
            BY <1>2 DEF EngineStops, sessionVars, tableVars
        <2> QED
            BY <2>1, <2>2, <2>3, SendTyped DEF IInv, ThreadsStayHome, Answers
    <1>3. ASSUME NEW p \in Processes, ProcessStarts(p)
          PROVE  IInv'
        BY <1>3 DEF ProcessStarts, IInv, sessionVars, tableVars, ThreadsStayHome, Connections,
                    Answers
    <1>4. ASSUME NEW p \in Processes, ProcessExits(p)
          PROVE  IInv'
        <2>1. ASSUME NEW r \in Readers
              PROVE  inbox'[r] \in Seq(EventsOf(r))
            <3>1. inbox[r] \in Seq(EventsOf(r))
                BY DEF IInv, Connections
            <3>2. Event("terminated", None) \in EventsOf(r)
                BY DEF Event, EventsOf, Kinds
            <3>3. Append(inbox[r], Event("terminated", None)) \in Seq(EventsOf(r))
                BY <3>1, <3>2
            <3> QED
                BY <1>4, <3>1, <3>3 DEF ProcessExits
        <2>2. Connections'
            BY <1>4, <2>1 DEF ProcessExits, IInv, Connections
        <2>3. UNCHANGED <<threadProcess, pending>>
            BY <1>4 DEF ProcessExits, sessionVars, tableVars
        <2> QED
            BY <2>2, <2>3 DEF IInv, ThreadsStayHome, Answers
    <1> QED
        BY <1>1, <1>2, <1>3, <1>4 DEF World

LEMMA ProxyInv ==
    ASSUME IInv, Recordings, Proxy
    PROVE  IInv'
    <1>1. ASSUME NEW w \in Workers, Continues(w)
          PROVE  IInv'
        BY <1>1, HandlerHome DEF Continues, worldVars, IInv, Connections, Answers
    <1>2. ASSUME NEW p \in Processes, WatcherRegisters(p)
          PROVE  IInv'
        BY <1>2 DEF WatcherRegisters, RegisterSnapshot, worldVars, IInv, ThreadsStayHome,
                    Connections, Answers
    <1>3. CASE WatcherAttaches
        BY <1>3 DEF WatcherAttaches, RegisterCoordinator, tableVars, IInv, ThreadsStayHome,
                    Connections, Answers
    <1>4. ASSUME NEW r \in Readers, ReaderBinds(r)
          PROVE  IInv'
        <2>1. AtHand(r) \in EventsOf(r) /\ AtHand(r).thread # None
            BY <1>4, AtHandTyped DEF ReaderBinds, BindsFirst, IInv
        <2>2. ThreadGroup[AtHand(r).thread] = r[1]
            BY <2>1 DEF EventsOf, ThreadsOf
        <2>3. threadProcess' = Put(threadProcess, AtHand(r).thread, r[1])
            BY <1>4 DEF ReaderBinds, BindSnapshot, Bind
        <2>4. ThreadsStayHome'
            BY <2>2, <2>3, PutHome DEF IInv
        <2> QED
            BY <1>4, <2>4 DEF ReaderBinds, IInv, Connections, Answers
    <1>5. ASSUME NEW r \in Readers, ReaderHandles(r)
          PROVE  IInv'
        <2>1. AtHand(r) \in EventsOf(r) /\ Tail(inbox[r]) \in Seq(EventsOf(r))
            BY <1>5, AtHandTyped DEF ReaderHandles, IInv
        <2>2. ThreadsStayHome'
            BY <1>5, <2>1, DispatchHome DEF ReaderHandles, IInv
        <2>3. Connections'
            BY <1>5, <2>1 DEF ReaderHandles, IInv, Connections
        <2> QED
            BY <1>5, <2>2, <2>3 DEF ReaderHandles, IInv, Answers
    <1>6. ASSUME NEW q \in Requests, RequestInvalidates(q)
          PROVE  IInv'
        <2>1. UNCHANGED <<threadProcess, inbox, holder>>
            BY <1>6, Zenon DEF RequestInvalidates, ContinuedSnapshot
        <2>2. pending' = [pending EXCEPT ![q] = NoAnswer]
            BY <1>6, Zenon DEF RequestInvalidates
        <2> QED
            BY <2>1, <2>2 DEF IInv, ThreadsStayHome, Connections, Answers
    <1>7. ASSUME NEW q \in Listers, RequestBinds(q)
          PROVE  IInv'
        <2>1. /\ pending[q] # NoAnswer
              /\ threadProcess' = Put(threadProcess, pending[q].thread, pending[q].process)
            BY <1>7 DEF RequestBinds, BindSnapshot, Bind
        <2>2. ThreadsStayHome'
            BY <2>1, PutHome DEF IInv, Answers
        <2> QED
            BY <1>7, <2>2 DEF RequestBinds, IInv, Connections, Answers
    <1>8. ASSUME NEW q \in Listers, RequestFails(q)
          PROVE  IInv'
        BY <1>8 DEF RequestFails, tableVars, worldVars, IInv, ThreadsStayHome, Connections,
                    Answers
    <1>9. ASSUME NEW q \in Listers, RequestRecords(q)
          PROVE  IInv'
        <2>1. /\ UNCHANGED <<threadProcess, inbox, holder>>
              /\ pending' = [pending EXCEPT ![q] = NoAnswer]
            BY <1>9 DEF RequestRecords, RecordThreads, tableVars
        <2> QED
            BY <2>1 DEF IInv, ThreadsStayHome, Connections, Answers
    <1>10. ASSUME NEW r \in Readers, NEW t \in ThreadsOf(r), ReaderRecords(r, t)
           PROVE  IInv'
        BY <1>10 DEF ReaderRecords, RecordThreads, tableVars, worldVars, IInv, ThreadsStayHome,
                     Connections, Answers
    <1>11. ASSUME NEW w \in Workers, RecordingBinds(w)
           PROVE  IInv'
        <2>1. /\ ~ ChildRegistry /\ call[w].at = "record" /\ UNCHANGED worldVars
              /\ threadProcess' = Put(threadProcess, call[w].thread, call[w].process)
            BY <1>11 DEF RecordingBinds, RecordBind, Bind
        <2>2. MayStray(call[w].thread)
            BY <2>1 DEF Recordings, MayStray
        <2>3. ThreadsStayHome'
            BY <2>1, <2>2, PutHome DEF IInv
        <2> QED
            BY <2>1, <2>3 DEF worldVars, IInv, Connections, Answers
    <1> QED
        BY <1>1, <1>2, <1>3, <1>4, <1>5, <1>6, <1>7, <1>8, <1>9, <1>10, <1>11 DEF Proxy

LEMMA ClientInv ==
    ASSUME IInv, Client
    PROVE  IInv'
    <1>1. ASSUME NEW q \in Requests, NEW p \in Processes, RequestResumes(q, p)
          PROVE  IInv'
        <2> DEFINE r == <<p, "native">>
                   answer == [process |-> p, engine |-> "native", thread |-> holder[r]]
        <2>1. r \in Readers /\ r[1] = p
            BY DEF Readers, Engines
        <2>2. holder[r] # None /\ holder[r] \in ThreadsOf(r)
            BY <1>1, <2>1 DEF RequestResumes, EngineRuns, IInv, Connections
        <2>3. ThreadGroup[holder[r]] = p
            BY <2>1, <2>2 DEF ThreadsOf
        <2>4. Event("continued", holder[r]) \in EventsOf(r)
            BY <2>2 DEF Event, EventsOf, Kinds
        <2>5. Connections'
            BY <1>1, <2>1, <2>4, SendTyped DEF RequestResumes, EngineRuns, IInv
        <2>6. pending' = [pending EXCEPT ![q] = answer] /\ threadProcess' = threadProcess
            BY <1>1 DEF RequestResumes, sessionVars, tableVars
        <2>7. Answers'
            BY <2>2, <2>3, <2>6 DEF IInv, Answers
        <2> QED
            BY <2>5, <2>6, <2>7 DEF IInv, ThreadsStayHome
    <1>2. ASSUME NEW q \in Listers, NEW r \in Readers, NEW t \in ThreadsOf(r),
                 RequestLists(q, r, t)
          PROVE  IInv'
        <2>1. ThreadGroup[t] = r[1] /\ r = <<r[1], r[2]>>
            BY DEF ThreadsOf, Readers
        <2>2. Answers'
            BY <1>2, <2>1 DEF RequestLists, IInv, Answers
        <2> QED
            BY <1>2, <2>2 DEF RequestLists, sessionVars, tableVars, IInv, ThreadsStayHome,
                              Connections
    <1> QED
        BY <1>1, <1>2 DEF Client

LEMMA NextInv ==
    ASSUME IInv, Recordings, [Next]_vars
    PROVE  IInv'
    <1>1. IInv /\ UNCHANGED vars => IInv'
        BY DEF IInv, ThreadsStayHome, Connections, Answers, vars, sessionVars, tableVars,
               worldVars
    <1> QED
        BY <1>1, WorldInv, ProxyInv, ClientInv DEF Next

LEMMA Invariance ==
    ASSUME ChildRegistry
    PROVE  Spec => []IInv
    <1>1. IInv /\ [Next]_vars => IInv'
        BY NextInv DEF Recordings
    <1> QED
        BY InitInv, <1>1, PTL DEF Spec

--------------------------------------------------------------------------------
\* How the event a reader has handled last left its process: stopped at this
\* thread, or at none.  The event at hand says what the one before it was.
Left(r) ==
    IF inbox[r] = <<>> THEN holder[r]
    ELSE IF AtHand(r).kind = "continued" THEN AtHand(r).thread ELSE None

\* Neither has the process exited nor will it be heard to exit before it does.
Live(p) == p \in alive \/ p \notin attached

RootReader == <<Root, "native">>

\* What is on its way from an engine that holds the process at thread h: stops and
\* continuations in turn, after at most one announcement of the process.
Alternates(s, h) ==
    \A i \in 1 .. Len(s) :
        /\ s[i].kind \in {"process", "stopped", "continued"}
        /\ s[i].kind \in {"stopped", "continued"} => s[i].thread # None
        /\ s[i].kind = "stopped" => IF i = Len(s) THEN h = s[i].thread
                                    ELSE s[i + 1] = Event("continued", s[i].thread)
        /\ s[i].kind # "stopped" => IF i = Len(s) THEN h = None
                                    ELSE s[i + 1].kind = "stopped"

Taking == {"stopRegister", "stopBind", "acquire"}
Removing == {"terminated", "terminatedRemove", "terminatedClear", "remove"}

Stages == Taking \cup Removing \cup
    {"idle", "register", "bindThread", "failed", "begin", "beginLegacy",
     "release", "clear", "clearLegacy"}

Calls == [at : Stages, process : Processes \cup {None},
          thread : Threads \cup Processes \cup {None}, owner : Engines \cup {None},
          epoch : Nat, rest : {{}}]

Tables ==
    /\ stopEpoch \in Nat
    /\ DOMAIN threadProcess \subseteq Threads
    /\ DOMAIN snapshots \subseteq Processes
    /\ activeProcess \in Processes \cup {None}

Asked ==
    \A q \in Requests \cup Listers :
        pending[q] # NoAnswer =>
            pending[q] \in [process : Processes, engine : Engines, thread : Threads]

\* Nothing is heard of a process before the watcher has attached it.
Births ==
    /\ Root \in attached
    /\ alive \cup attached \subseteq Processes
    /\ \A r \in Readers :
          r[1] \notin attached => inbox[r] = <<>> /\ holder[r] = None /\ call[r] = Idle

\* A reader's handler is about its own connection, and forgets a process only once
\* that has exited; the other threads never take a stop.
HomeCall(w, c) ==
    /\ c.at = "idle" => c = Idle
    /\ w \in Readers =>
          /\ c.at # "idle" => c.process = w[1]
          /\ c.at \in Taking \cup {"release", "bindThread"} => c.owner = w[2]
          /\ c.at \in Removing => ~ Live(w[1])
    /\ w \notin Readers =>
          /\ c.at \in {"idle", "register", "bindThread", "failed",
                       "release", "clear", "clearLegacy"}
          /\ c.at = "register" => c.process # None

InCalls == call \in [Workers -> Calls] /\ \A w \in Workers : HomeCall(w, call[w])

LeasedRegistered == DOMAIN leases \subseteq DOMAIN processes

\* An engine owns a process only between a stop and the release that its
\* continuation leads to.
Leased(r) ==
    Live(r[1]) =>
        /\ Alternates(inbox[r], holder[r])
        /\ call[r].at \in Taking => Left(r) # None
        /\ r = RootReader /\ Left(r) # None => Left(r) \in DOMAIN threadProcess
        /\ Coord!ExecutionOwner(r[1]) = r[2] =>
              call[r].at # "failed" /\ (Left(r) # None \/ call[r].at = "release")

Ongoing ==
    Tables /\ Asked /\ Births /\ InCalls /\ LeasedRegistered /\ \A r \in Readers : Leased(r)

\* The end of the launched process ends the session.
LInv == IInv /\ (Root \in alive => Ongoing)

--------------------------------------------------------------------------------
\* What is on its way, when an event is added or taken away.
LEMMA StopFollows ==
    ASSUME NEW r \in Readers, NEW s \in Seq(EventsOf(r)), Alternates(s, None),
           NEW t \in ThreadsOf(r)
    PROVE  Alternates(Append(s, Event("stopped", t)), t)
    <1> DEFINE e == Event("stopped", t)
               u == Append(s, e)
    <1>1. e.kind = "stopped" /\ e.thread = t /\ t # None /\ e \in EventsOf(r)
        BY SessionAssumption DEF Event, ThreadsOf, EventsOf, Kinds
    <1>2. /\ Len(u) = Len(s) + 1 /\ u[Len(s) + 1] = e /\ Len(s) \in Nat
          /\ \A i \in 1 .. Len(s) : u[i] = s[i]
        BY <1>1
    <1> HIDE DEF e, u
    <1> SUFFICES ASSUME NEW i \in 1 .. Len(u)
                 PROVE  /\ u[i].kind \in {"process", "stopped", "continued"}
                        /\ u[i].kind \in {"stopped", "continued"} => u[i].thread # None
                        /\ u[i].kind = "stopped" => IF i = Len(u) THEN t = u[i].thread
                                    ELSE u[i + 1] = Event("continued", u[i].thread)
                        /\ u[i].kind # "stopped" => IF i = Len(u) THEN t = None
                                                    ELSE u[i + 1].kind = "stopped"
        BY DEF Alternates, u, e
    <1>3. CASE i = Len(s) + 1
        BY <1>1, <1>2, <1>3
    <1>4. CASE i = Len(s)
        <2>1. i \in 1 .. Len(s)
            BY <1>2, <1>4
        <2>2. s[i].kind \in {"process", "continued"} /\ (s[i].kind = "continued" => s[i].thread # None)
            BY <1>4, <2>1 DEF Alternates
        <2> QED
            BY <1>1, <1>2, <1>4, <2>1, <2>2
    <1>5. CASE i < Len(s)
        <2>1. i \in 1 .. Len(s) /\ i + 1 \in 1 .. Len(s) /\ i # Len(s) /\ i # Len(u)
            BY <1>2, <1>5
        <2>2. u[i] = s[i] /\ u[i + 1] = s[i + 1]
            BY <1>2, <2>1
        <2> QED
            BY <2>1, <2>2 DEF Alternates
    <1> QED
        BY <1>2, <1>3, <1>4, <1>5

LEMMA ContinuationFollows ==
    ASSUME NEW r \in Readers, NEW s \in Seq(EventsOf(r)), NEW h \in ThreadsOf(r),
           Alternates(s, h)
    PROVE  Alternates(Append(s, Event("continued", h)), None)
    <1> DEFINE e == Event("continued", h)
               u == Append(s, e)
    <1>1. e.kind = "continued" /\ e.thread = h /\ h # None /\ e \in EventsOf(r)
        BY SessionAssumption DEF Event, ThreadsOf, EventsOf, Kinds
    <1>2. /\ Len(u) = Len(s) + 1 /\ u[Len(s) + 1] = e /\ Len(s) \in Nat
          /\ \A i \in 1 .. Len(s) : u[i] = s[i]
        BY <1>1
    <1>e. e = Event("continued", h)
        OBVIOUS
    <1> HIDE DEF e, u
    <1> SUFFICES ASSUME NEW i \in 1 .. Len(u)
                 PROVE  /\ u[i].kind \in {"process", "stopped", "continued"}
                        /\ u[i].kind \in {"stopped", "continued"} => u[i].thread # None
                        /\ u[i].kind = "stopped" => IF i = Len(u) THEN None = u[i].thread
                                    ELSE u[i + 1] = Event("continued", u[i].thread)
                        /\ u[i].kind # "stopped" => IF i = Len(u) THEN None = None
                                                    ELSE u[i + 1].kind = "stopped"
        BY DEF Alternates, u, e
    <1>3. CASE i = Len(s) + 1
        BY <1>1, <1>2, <1>3
    <1>4. CASE i = Len(s)
        <2>1. i \in 1 .. Len(s)
            BY <1>2, <1>4
        <2>2. s[i].kind = "stopped" /\ s[i].thread = h
            BY <1>1, <1>4, <2>1 DEF Alternates
        <2> QED
            BY <1>1, <1>2, <1>4, <1>e, <2>1, <2>2
    <1>5. CASE i < Len(s)
        <2>1. i \in 1 .. Len(s) /\ i + 1 \in 1 .. Len(s) /\ i # Len(s) /\ i # Len(u)
            BY <1>2, <1>5
        <2>2. u[i] = s[i] /\ u[i + 1] = s[i + 1]
            BY <1>2, <2>1
        <2> QED
            BY <2>1, <2>2 DEF Alternates
    <1> QED
        BY <1>2, <1>3, <1>4, <1>5

LEMMA RestAlternates ==
    ASSUME NEW r \in Readers, NEW s \in Seq(EventsOf(r)), s # <<>>, NEW h, Alternates(s, h)
    PROVE  /\ Alternates(Tail(s), h)
           /\ Head(s).kind \in {"process", "stopped", "continued"}
           /\ Head(s).kind \in {"stopped", "continued"} => Head(s).thread # None
           /\ Head(s).kind = "stopped" =>
                 IF Tail(s) = <<>> THEN h = Head(s).thread
                 ELSE Head(Tail(s)) = Event("continued", Head(s).thread)
           /\ Head(s).kind # "stopped" =>
                 IF Tail(s) = <<>> THEN h = None ELSE Head(Tail(s)).kind = "stopped"
    <1> DEFINE u == Tail(s)
    <1>1. /\ Len(s) \in Nat \ {0} /\ Len(u) = Len(s) - 1 /\ Head(s) = s[1]
          /\ u \in Seq(EventsOf(r))
          /\ \A i \in 1 .. Len(u) : u[i] = s[i + 1]
        OBVIOUS
    <1>u. u = Tail(s)
        OBVIOUS
    <1> HIDE DEF u
    <1>2. (u = <<>> <=> Len(u) = 0) /\ (u # <<>> => Head(u) = u[1])
        BY <1>1
    <1>3. Alternates(u, h)
        <2> SUFFICES ASSUME NEW i \in 1 .. Len(u)
                     PROVE  /\ u[i].kind \in {"process", "stopped", "continued"}
                            /\ u[i].kind \in {"stopped", "continued"} => u[i].thread # None
                            /\ u[i].kind = "stopped" => IF i = Len(u) THEN h = u[i].thread
                                        ELSE u[i + 1] = Event("continued", u[i].thread)
                            /\ u[i].kind # "stopped" => IF i = Len(u) THEN h = None
                                                        ELSE u[i + 1].kind = "stopped"
            BY DEF Alternates
        <2>1. i + 1 \in 1 .. Len(s) /\ u[i] = s[i + 1] /\ (i = Len(u) <=> i + 1 = Len(s))
            BY <1>1
        <2>2. i # Len(u) => i + 1 \in 1 .. Len(u) /\ u[i + 1] = s[(i + 1) + 1]
            BY <1>1
        <2> QED
            BY <2>1, <2>2 DEF Alternates
    <1>4. 1 \in 1 .. Len(s) /\ (1 = Len(s) <=> u = <<>>) /\ (u # <<>> => Head(u) = s[1 + 1])
        BY <1>1, <1>2
    <1>5. /\ s[1].kind \in {"process", "stopped", "continued"}
          /\ s[1].kind \in {"stopped", "continued"} => s[1].thread # None
          /\ s[1].kind = "stopped" => IF 1 = Len(s) THEN h = s[1].thread
                                      ELSE s[1 + 1] = Event("continued", s[1].thread)
          /\ s[1].kind # "stopped" => IF 1 = Len(s) THEN h = None
                                      ELSE s[1 + 1].kind = "stopped"
        BY <1>4, Zenon DEF Alternates
    <1> QED
        BY <1>1, <1>3, <1>4, <1>5, <1>u

--------------------------------------------------------------------------------
\* Where a handler goes on.
LEMMA GoesTo ==
    ASSUME call \in [Workers -> Calls], NEW w \in Workers, NEW at \in Stages, Goto(w, at)
    PROVE  /\ call' \in [Workers -> Calls]
           /\ \A v \in Workers : v # w => call'[v] = call[v]
           /\ call'[w].at = at /\ call'[w].process = call[w].process
           /\ call'[w].owner = call[w].owner /\ call'[w].thread = call[w].thread
           /\ call'[w].epoch = call[w].epoch
    <1> DEFINE c == [call[w] EXCEPT !.at = at]
    <1>1. /\ c \in Calls /\ c.at = at /\ c.process = call[w].process
          /\ c.owner = call[w].owner /\ c.thread = call[w].thread /\ c.epoch = call[w].epoch
        <2>1. call[w] \in Calls
            OBVIOUS
        <2> QED
            BY <2>1 DEF Calls
    <1>2. call' = [call EXCEPT ![w] = c]
        BY DEF Goto
    <1> HIDE DEF c
    <1> QED
        BY <1>1, <1>2

LEMMA IdleTyped == Idle \in Calls /\ Idle.at = "idle" /\ Idle.process = None
    BY DEF Idle, Calls, Stages

LEMMA Returns ==
    ASSUME call \in [Workers -> Calls], NEW w \in Workers, Return(w)
    PROVE  /\ call' \in [Workers -> Calls]
           /\ \A v \in Workers : v # w => call'[v] = call[v]
           /\ call'[w] = Idle
    BY IdleTyped DEF Return

LEMMA Enters ==
    ASSUME call \in [Workers -> Calls], NEW w \in Workers, NEW at \in Stages,
           NEW p \in Processes \cup {None}, NEW t \in Threads \cup Processes \cup {None},
           NEW owner \in Engines \cup {None}, NEW e \in Nat, Enter(w, at, p, t, owner, e)
    PROVE  /\ call' \in [Workers -> Calls]
           /\ \A v \in Workers : v # w => call'[v] = call[v]
           /\ call'[w].at = at /\ call'[w].process = p /\ call'[w].thread = t
           /\ call'[w].owner = owner /\ call'[w].epoch = e
    <1> DEFINE c == [at |-> at, process |-> p, thread |-> t, owner |-> owner, epoch |-> e,
                     rest |-> {}]
    <1>1. /\ c \in Calls /\ c.at = at /\ c.process = p /\ c.thread = t /\ c.owner = owner
          /\ c.epoch = e
        BY DEF Calls
    <1>2. call' = [call EXCEPT ![w] = c]
        BY DEF Enter
    <1> HIDE DEF c
    <1> QED
        BY <1>1, <1>2

\* The same as one fact, for a worker and arguments that are picked.
Entered(w, at, p, t, owner, e) ==
    /\ call' \in [Workers -> Calls]
    /\ \A v \in Workers : v # w => call'[v] = call[v]
    /\ call'[w].at = at /\ call'[w].process = p /\ call'[w].thread = t
    /\ call'[w].owner = owner /\ call'[w].epoch = e

LEMMA EntersAs ==
    ASSUME call \in [Workers -> Calls], NEW w \in Workers, NEW at \in Stages,
           NEW p \in Processes \cup {None}, NEW t \in Threads \cup Processes \cup {None},
           NEW owner \in Engines \cup {None}, NEW e \in Nat, Enter(w, at, p, t, owner, e)
    PROVE  Entered(w, at, p, t, owner, e)
    BY Enters DEF Entered

\* One worker has moved: all is well if it is well where it has got to.
LEMMA InCallsStep ==
    ASSUME InCalls, NEW w \in Workers, call' \in [Workers -> Calls],
           \A v \in Workers : v # w => call'[v] = call[v],
           HomeCall(w, call[w])', \A p : Live(p)' => Live(p)
    PROVE  InCalls'
    <1> SUFFICES ASSUME NEW v \in Workers
                 PROVE  HomeCall(v, call[v])'
        BY DEF InCalls
    <1>1. CASE v = w
        BY <1>1
    <1>2. CASE v # w
        <2>1. HomeCall(v, call[v]) /\ call'[v] = call[v]
            BY <1>2 DEF InCalls
        <2> QED
            BY <2>1 DEF HomeCall
    <1> QED
        BY <1>1, <1>2

\* The sections that follow one another in a handler.
Sections ==
    {<<"register", "idle">>, <<"bindThread", "idle">>, <<"bindThread", "failed">>,
     <<"stopRegister", "stopBind">>, <<"stopRegister", "acquire">>,
     <<"stopBind", "acquire">>, <<"stopBind", "begin">>, <<"acquire", "begin">>,
     <<"begin", "beginLegacy">>, <<"beginLegacy", "idle">>,
     <<"release", "clear">>, <<"clear", "clearLegacy">>, <<"clearLegacy", "idle">>,
     <<"remove", "idle">>, <<"terminated", "terminatedRemove">>,
     <<"terminatedRemove", "terminatedClear">>, <<"terminatedClear", "idle">>}

Moves(w) ==
    /\ <<call[w].at, call'[w].at>> \in Sections
    /\ \/ call'[w] = Idle
       \/ /\ call'[w].process = call[w].process /\ call'[w].owner = call[w].owner
          /\ call'[w].thread = call[w].thread /\ call'[w].epoch = call[w].epoch
          /\ call'[w].at # "idle"

LEMMA HandlerMoves ==
    ASSUME InCalls, NEW w \in Workers, HandlerStep(w)
    PROVE  /\ call' \in [Workers -> Calls]
           /\ \A v \in Workers : v # w => call'[v] = call[v]
           /\ Moves(w)
    <1> USE DEF InCalls
    <1>s. Stages = {"stopRegister", "stopBind", "acquire", "terminated", "terminatedRemove",
                    "terminatedClear", "remove", "idle", "register", "bindThread", "failed",
                    "begin", "beginLegacy", "release", "clear", "clearLegacy"}
        BY DEF Stages, Taking, Removing
    <1>t. call[w].at \in Stages
        BY DEF Calls
    <1>1. CASE \/ RegisterCoordinator(w) \/ RemoveCoordinator(w) \/ StoppedBeginLegacy(w)
               \/ ContinuedClearLegacy(w) \/ TerminatedClear(w)
        <2>1. Return(w) /\ call[w].at \in {"register", "remove", "beginLegacy", "clearLegacy",
                                           "terminatedClear"}
            BY <1>1 DEF RegisterCoordinator, RemoveCoordinator, StoppedBeginLegacy,
                        ContinuedClearLegacy, TerminatedClear
        <2> QED
            BY <2>1, Returns, IdleTyped DEF Moves, Sections
    <1>2. CASE BindCoordinator(w)
        <2>1. CASE Return(w)
            BY <1>2, <2>1, Returns, IdleTyped DEF BindCoordinator, Moves, Sections
        <2>2. CASE Goto(w, "failed")
            BY <1>2, <2>2, <1>s, GoesTo DEF BindCoordinator, Moves, Sections
        <2> QED
            BY <1>2, <2>1, <2>2 DEF BindCoordinator
    <1>3. CASE StoppedRegister(w)
        <2>1. CASE Goto(w, "stopBind")
            BY <1>3, <2>1, <1>s, GoesTo DEF StoppedRegister, Moves, Sections
        <2>2. CASE Goto(w, "acquire")
            BY <1>3, <2>2, <1>s, GoesTo DEF StoppedRegister, Moves, Sections
        <2> QED
            BY <1>3, <2>1, <2>2 DEF StoppedRegister
    <1>4. CASE StoppedBind(w)
        <2>1. CASE Goto(w, "acquire")
            BY <1>4, <2>1, <1>s, GoesTo DEF StoppedBind, Moves, Sections
        <2>2. CASE Goto(w, "begin")
            BY <1>4, <2>2, <1>s, GoesTo DEF StoppedBind, Moves, Sections
        <2> QED
            BY <1>4, <2>1, <2>2 DEF StoppedBind
    <1>5. CASE StoppedAcquire(w)
        BY <1>5, <1>s, GoesTo DEF StoppedAcquire, Moves, Sections
    <1>6. CASE StoppedBeginEpoch(w)
        BY <1>6, <1>s, GoesTo DEF StoppedBeginEpoch, Moves, Sections
    <1>7. CASE ContinuedRelease(w)
        BY <1>7, <1>s, GoesTo DEF ContinuedRelease, Moves, Sections
    <1>8. CASE ContinuedClear(w)
        BY <1>8, <1>s, GoesTo DEF ContinuedClear, Moves, Sections
    <1>9. CASE TerminatedForget(w)
        BY <1>9, <1>s, GoesTo DEF TerminatedForget, Moves, Sections
    <1>10. CASE TerminatedRemove(w)
        BY <1>10, <1>s, GoesTo DEF TerminatedRemove, Moves, Sections
    <1>11. CASE EndedList(w) \/ EndedRemove(w) \/ EndedClear(w)
        BY <1>11, <1>s, <1>t DEF EndedList, EndedRemove, EndedClear
    <1> QED
        BY <1>1, <1>2, <1>3, <1>4, <1>5, <1>6, <1>7, <1>8, <1>9, <1>10, <1>11 DEF HandlerStep

LEMMA HandlerCalls ==
    ASSUME Ongoing, NEW w \in Workers, HandlerStep(w), UNCHANGED worldVars
    PROVE  InCalls'
    <1>1. InCalls /\ HomeCall(w, call[w])
        BY DEF Ongoing, InCalls
    <1>2. /\ call' \in [Workers -> Calls]
          /\ \A v \in Workers : v # w => call'[v] = call[v]
          /\ Moves(w)
        BY <1>1, HandlerMoves
    <1>3. UNCHANGED <<alive, attached>>
        BY DEF worldVars
    <1>4. HomeCall(w, call[w])'
        BY <1>1, <1>2, <1>3, IdleTyped DEF HomeCall, Moves, Sections, Taking, Removing, Live
    <1>5. \A p : Live(p)' => Live(p)
        BY <1>3 DEF Live
    <1> QED
        BY <1>1, <1>2, <1>4, <1>5, InCallsStep

--------------------------------------------------------------------------------
\* What the coordinator's methods leave of the registered processes and of the
\* owners of their stops.
LEMMA RegisterEffect ==
    ASSUME NEW p, NEW parent, NEW engine, Coord!RegisterProcess(p, parent, engine)
    PROVE  /\ DOMAIN processes' = DOMAIN processes \cup {p} \cup ({parent} \ {None})
           /\ leases' = leases
    <1> DEFINE one == Coord!WithSession(p, parent)
               linked == Coord!WithParent(one, p, parent)
    <1>1. DOMAIN one = DOMAIN processes \cup {p}
        BY DEF Coord!WithSession, Coord!Put
    <1> HIDE DEF one
    <1>2. DOMAIN linked = DOMAIN one \cup ({parent} \ {None})
        BY DEF Coord!WithParent, Coord!Put
    <1> HIDE DEF linked
    <1>3. processes' = [linked EXCEPT ![p].engines = @ \cup ({engine} \ {None})]
          /\ leases' = leases
        BY DEF Coord!RegisterProcess, linked, one
    <1> QED
        BY <1>1, <1>2, <1>3

LEMMA RemoveEffect ==
    ASSUME NEW p, Coord!RemoveProcess(p)
    PROVE  /\ DOMAIN processes' = DOMAIN processes \ {p}
           /\ DOMAIN leases' = DOMAIN leases \ {p}
           /\ \A q \in DOMAIN leases' : leases'[q] = leases[q]
    BY DEF Coord!RemoveProcess, Coord!Drop

\* What a handler does to the leases: a stop is taken in one section and given
\* back in another, each for the process and the engine of the handler.
LEMMA HandlerLeases ==
    ASSUME LeasedRegistered, InCalls, NEW w \in Workers, HandlerStep(w),
           NEW p, p = call[w].process
    PROVE  /\ LeasedRegistered'
           /\ \A q : Coord!ExecutionOwner(q)' \in {None, Coord!ExecutionOwner(q)}
                     \/ (q = p /\ call[w].at = "acquire"
                         /\ Coord!ExecutionOwner(q)' = call[w].owner)
           /\ call[w].at = "release" /\ call[w].owner # None =>
                 Coord!ExecutionOwner(p)' # call[w].owner
           /\ call[w].at = "bindThread" /\ call'[w].at = "failed" =>
                 leases' = leases /\ call[w].owner = "native" /\ p \notin DOMAIN processes
    <1> DEFINE Goal == /\ LeasedRegistered'
                       /\ \A q : Coord!ExecutionOwner(q)' \in {None, Coord!ExecutionOwner(q)}
                                 \/ (q = p /\ call[w].at = "acquire"
                                     /\ Coord!ExecutionOwner(q)' = call[w].owner)
                       /\ call[w].at = "release" /\ call[w].owner # None =>
                             Coord!ExecutionOwner(p)' # call[w].owner
                       /\ call[w].at = "bindThread" /\ call'[w].at = "failed" =>
                             leases' = leases /\ call[w].owner = "native"
                             /\ p \notin DOMAIN processes
    <1>0. /\ call' \in [Workers -> Calls]
          /\ Moves(w)
        BY HandlerMoves
    <1>1. ASSUME leases' = leases, DOMAIN processes \subseteq DOMAIN processes',
                 call[w].at \notin {"release", "bindThread"}
          PROVE  Goal
        BY <1>1 DEF LeasedRegistered, Coord!ExecutionOwner
    <1>2. ASSUME Coord!RemoveProcess(p), call[w].at \notin {"release", "bindThread"}
          PROVE  Goal
        BY <1>2, RemoveEffect DEF LeasedRegistered, Coord!ExecutionOwner
    <1>3. CASE RegisterCoordinator(w) \/ StoppedRegister(w)
        <2>1. DOMAIN processes \subseteq DOMAIN processes' /\ leases' = leases
              /\ call[w].at \in {"register", "stopRegister"}
            BY <1>3, RegisterEffect
            DEF RegisterCoordinator, StoppedRegister, Coord!RegisterProcessRefused,
                Coord!coordinatorVars
        <2> QED
            BY <1>1, <2>1
    <1>4. CASE BindCoordinator(w)
        <2>1. CASE Coord!BindNativeThread(p, call[w].thread) /\ Return(w)
            <3>1. leases' = leases /\ DOMAIN processes' = DOMAIN processes
                BY <2>1 DEF Coord!BindNativeThread
            <3>2. call'[w].at # "failed" /\ call[w].at = "bindThread"
                BY <1>4, <2>1, Returns, IdleTyped DEF BindCoordinator, InCalls
            <3> QED
                BY <3>1, <3>2 DEF LeasedRegistered, Coord!ExecutionOwner
        <2>2. CASE call[w].owner = "native" /\ Coord!BindRefused(p) /\ Goto(w, "failed")
            <3>1. leases' = leases /\ processes' = processes /\ p \notin DOMAIN processes
                  /\ call[w].at = "bindThread"
                BY <1>4, <2>2 DEF Coord!BindRefused, Coord!coordinatorVars, Coord!Registered,
                                  BindCoordinator
            <3> QED
                BY <2>2, <3>1 DEF LeasedRegistered, Coord!ExecutionOwner
        <2>3. CASE Coord!RegisterProcess(p, None, "python") /\ Return(w)
            <3>1. leases' = leases /\ DOMAIN processes \subseteq DOMAIN processes'
                BY <2>3, RegisterEffect
            <3>2. call'[w].at # "failed" /\ call[w].at = "bindThread"
                BY <1>4, <2>3, Returns, IdleTyped DEF BindCoordinator, InCalls
            <3> QED
                BY <3>1, <3>2 DEF LeasedRegistered, Coord!ExecutionOwner
        <2> QED
            BY <1>4, <2>1, <2>2, <2>3 DEF BindCoordinator
    <1>5. CASE StoppedBind(w)
        <2>1. leases' = leases /\ DOMAIN processes' = DOMAIN processes
              /\ call[w].at = "stopBind"
            BY <1>5 DEF StoppedBind, Coord!BindNativeThread, Coord!BindRefused,
                        Coord!coordinatorVars
        <2> QED
            BY <1>1, <2>1
    <1>6. CASE StoppedAcquire(w)
        <2>0. call[w].at = "acquire"
            BY <1>6 DEF StoppedAcquire
        <2>1. CASE Coord!AcquireStop(p, call[w].thread, call[w].owner)
            <3>1. /\ p \in DOMAIN processes /\ processes' = processes
                  /\ DOMAIN leases' = DOMAIN leases \cup {p}
                  /\ leases'[p].owner = call[w].owner
                  /\ \A q \in DOMAIN leases : q # p => leases'[q] = leases[q]
                BY <2>1 DEF Coord!AcquireStop, Coord!Put, Coord!Registered
            <3>2. LeasedRegistered'
                BY <3>1 DEF LeasedRegistered
            <3>3. Coord!ExecutionOwner(p)' = call[w].owner
                BY <3>1 DEF Coord!ExecutionOwner
            <3>4. ASSUME NEW q, q # p
                  PROVE  Coord!ExecutionOwner(q)' = Coord!ExecutionOwner(q)
                BY <3>1, <3>4 DEF Coord!ExecutionOwner
            <3> QED
                BY <2>0, <3>2, <3>3, <3>4
        <2>2. CASE Coord!AcquireStopRefused(p, call[w].owner)
            BY <2>0, <2>2 DEF Coord!AcquireStopRefused, Coord!coordinatorVars,
                              LeasedRegistered, Coord!ExecutionOwner
        <2> QED
            BY <1>6, <2>1, <2>2 DEF StoppedAcquire
    <1>7. CASE ContinuedRelease(w)
        <2>0. call[w].at = "release"
            BY <1>7 DEF ContinuedRelease
        <2>1. CASE Coord!ReleaseStop(p, call[w].owner)
            <3>1. /\ processes' = processes
                  /\ DOMAIN leases' = DOMAIN leases \ {p}
                  /\ \A q \in DOMAIN leases : q # p => leases'[q] = leases[q]
                BY <2>1 DEF Coord!ReleaseStop, Coord!Drop
            <3>2. LeasedRegistered'
                BY <3>1 DEF LeasedRegistered
            <3>3. Coord!ExecutionOwner(p)' = None
                BY <3>1 DEF Coord!ExecutionOwner
            <3>4. ASSUME NEW q, q # p
                  PROVE  Coord!ExecutionOwner(q)' = Coord!ExecutionOwner(q)
                BY <3>1, <3>4 DEF Coord!ExecutionOwner
            <3> QED
                BY <2>0, <3>2, <3>3, <3>4
        <2>2. CASE Coord!ReleaseStopRefused(p, call[w].owner)
            <3>1. /\ processes' = processes /\ leases' = leases
                  /\ Coord!ExecutionOwner(p) # call[w].owner
                BY <2>2 DEF Coord!ReleaseStopRefused, Coord!coordinatorVars
            <3>2. \A q : Coord!ExecutionOwner(q)' = Coord!ExecutionOwner(q)
                BY <3>1 DEF Coord!ExecutionOwner
            <3> QED
                BY <2>0, <3>1, <3>2 DEF LeasedRegistered
        <2> QED
            BY <1>7, <2>1, <2>2 DEF ContinuedRelease
    <1>8. CASE RemoveCoordinator(w) \/ TerminatedRemove(w)
        BY <1>2, <1>8 DEF RemoveCoordinator, TerminatedRemove
    <1>9. CASE \/ StoppedBeginEpoch(w) \/ StoppedBeginLegacy(w) \/ ContinuedClear(w)
               \/ ContinuedClearLegacy(w) \/ TerminatedForget(w) \/ TerminatedClear(w)
        BY <1>1, <1>9 DEF StoppedBeginEpoch, StoppedBeginLegacy, ContinuedClear,
               ContinuedClearLegacy, TerminatedForget, TerminatedClear, coordinatorVars
    <1>10. CASE EndedList(w) \/ EndedRemove(w) \/ EndedClear(w)
        <2>1. call[w].at \in Stages
            BY DEF InCalls, Calls
        <2> QED
            BY <1>10, <2>1 DEF EndedList, EndedRemove, EndedClear, Stages, Taking, Removing
    <1> QED
        BY <1>3, <1>4, <1>5, <1>6, <1>7, <1>8, <1>9, <1>10 DEF HandlerStep

--------------------------------------------------------------------------------
LEMMA LeftTyped ==
    ASSUME Connections, NEW r \in Readers
    PROVE  Left(r) \in ThreadsOf(r) \cup {None}
    <1>1. inbox[r] # <<>> => AtHand(r) \in EventsOf(r)
        BY AtHandTyped
    <1> QED
        BY <1>1 DEF Left, EventsOf, Connections

LEMMA ReaderShape ==
    ASSUME NEW r \in Readers
    PROVE  r = <<r[1], r[2]>> /\ r[1] \in Processes /\ r[2] \in Engines /\ r \in Workers
           /\ r[2] # None /\ None \notin Processes
    BY SessionAssumption DEF Readers, Engines

LEMMA RootIsReader == RootReader \in Readers /\ RootReader[1] = Root /\ RootReader[2] = "native"
    BY SessionAssumption DEF RootReader, Readers, Engines

\* A handler that goes on only forgets, and only in "terminated".
LEMMA HandlerTables ==
    ASSUME InCalls, NEW w \in Workers, HandlerStep(w), Tables
    PROVE  /\ Tables'
           /\ \A t \in DOMAIN threadProcess :
                 t \in DOMAIN threadProcess'
                 \/ (call[w].at = "terminated" /\ threadProcess[t] = call[w].process)
    <1>1. CASE TerminatedForget(w)
        <2>1. /\ call[w].at = "terminated"
              /\ snapshots' = Without(snapshots, {call[w].process})
              /\ threadProcess' = Without(threadProcess, {t \in DOMAIN threadProcess :
                                                threadProcess[t] = call[w].process})
              /\ activeProcess' \in {activeProcess, None} \cup DOMAIN snapshots
              /\ stopEpoch' = stopEpoch
            BY <1>1 DEF TerminatedForget, Forget, NextActive
        <2>2. DOMAIN snapshots' \subseteq DOMAIN snapshots
            BY <2>1 DEF Without
        <2>3. /\ DOMAIN threadProcess' \subseteq DOMAIN threadProcess
              /\ \A t \in DOMAIN threadProcess :
                    t \in DOMAIN threadProcess' \/ threadProcess[t] = call[w].process
            BY <2>1 DEF Without
        <2>4. Tables'
            BY <2>1, <2>2, <2>3 DEF Tables
        <2> QED
            BY <2>1, <2>3, <2>4
    <1>2. ASSUME UNCHANGED tableVars
          PROVE  /\ Tables'
                 /\ \A t \in DOMAIN threadProcess : t \in DOMAIN threadProcess'
        <2>1. UNCHANGED <<stopEpoch, activeProcess, snapshots, threadProcess>>
            BY <1>2 DEF tableVars
        <2>2. \A t \in DOMAIN threadProcess : t \in DOMAIN threadProcess'
            BY <2>1
        <2>3. Tables'
            BY <2>1 DEF Tables
        <2> QED
            BY <2>2, <2>3
    <1>3. CASE EndedList(w) \/ EndedRemove(w) \/ EndedClear(w)
        BY <1>2, <1>3 DEF EndedList, EndedRemove, EndedClear
    <1>4. CASE \/ RegisterCoordinator(w) \/ BindCoordinator(w)
               \/ StoppedRegister(w) \/ StoppedBind(w) \/ StoppedAcquire(w)
               \/ StoppedBeginEpoch(w) \/ StoppedBeginLegacy(w)
        BY <1>2, <1>4 DEF RegisterCoordinator, BindCoordinator, StoppedRegister, StoppedBind,
               StoppedAcquire, StoppedBeginEpoch, StoppedBeginLegacy
    <1>5. CASE \/ ContinuedRelease(w) \/ ContinuedClear(w) \/ ContinuedClearLegacy(w)
               \/ RemoveCoordinator(w) \/ TerminatedRemove(w) \/ TerminatedClear(w)
        BY <1>2, <1>5 DEF ContinuedRelease, ContinuedClear, ContinuedClearLegacy,
               RemoveCoordinator, TerminatedRemove, TerminatedClear
    <1> QED
        BY <1>1, <1>3, <1>4, <1>5 DEF HandlerStep

LEMMA HandlerOngoing ==
    ASSUME Attributable, IInv, Ongoing, Root \in alive, NEW w \in Workers, HandlerStep(w),
           UNCHANGED worldVars
    PROVE  Ongoing'
    <1> DEFINE p == call[w].process
    <1>0. /\ InCalls /\ LeasedRegistered /\ Tables /\ Connections /\ ThreadsStayHome
          /\ HomeCall(w, call[w])
        BY DEF Ongoing, IInv, InCalls
    <1>1. /\ \A v \in Workers : v # w => call'[v] = call[v]
          /\ Moves(w)
        BY <1>0, HandlerMoves
    <1>2. UNCHANGED <<alive, attached, inbox, holder, pending>>
        BY DEF worldVars
    <1>3. InCalls'
        BY HandlerCalls
    <1>4. Tables'
          /\ \A t \in DOMAIN threadProcess :
                t \in DOMAIN threadProcess'
                \/ (call[w].at = "terminated" /\ threadProcess[t] = call[w].process)
        BY <1>0, HandlerTables
    <1>5. PICK q : q = call[w].process
        OBVIOUS
    <1>6. /\ LeasedRegistered'
          /\ \A o : Coord!ExecutionOwner(o)' \in {None, Coord!ExecutionOwner(o)}
                    \/ (o = q /\ call[w].at = "acquire"
                        /\ Coord!ExecutionOwner(o)' = call[w].owner)
          /\ call[w].at = "release" /\ call[w].owner # None =>
                Coord!ExecutionOwner(q)' # call[w].owner
          /\ call[w].at = "bindThread" /\ call'[w].at = "failed" =>
                leases' = leases /\ call[w].owner = "native" /\ q \notin DOMAIN processes
        BY <1>0, <1>5, HandlerLeases
    <1>7. Births'
        <2>1. call[w].at # "idle"
            BY <1>1 DEF Moves, Sections
        <2>2. ASSUME NEW r \in Readers, r[1] \notin attached
              PROVE  inbox[r] = <<>> /\ holder[r] = None /\ call'[r] = Idle
            <3>1. inbox[r] = <<>> /\ holder[r] = None /\ call[r] = Idle /\ r \in Workers
                BY <2>2, ReaderShape DEF Ongoing, Births
            <3> QED
                BY <1>1, <2>1, <3>1, IdleTyped
        <2> QED
            BY <1>2, <2>2 DEF Ongoing, Births
    <1>8. Asked'
        BY <1>2 DEF Ongoing, Asked
    <1>9. ASSUME NEW r \in Readers
          PROVE  Leased(r)'
        <2> SUFFICES ASSUME Live(r[1])
                     PROVE  /\ Alternates(inbox[r], holder[r])
                            /\ call'[r].at \in Taking => Left(r) # None
                            /\ r = RootReader /\ Left(r) # None => Left(r) \in DOMAIN threadProcess'
                            /\ Coord!ExecutionOwner(r[1])' = r[2] =>
                                  call'[r].at # "failed"
                                  /\ (Left(r) # None \/ call'[r].at = "release")
            BY <1>2 DEF Leased, Live, Left, AtHand, Alternates, Event
        <2>0. Leased(r) /\ r \in Workers /\ r = <<r[1], r[2]>> /\ r[2] # None
            BY ReaderShape DEF Ongoing
        <2>1. Alternates(inbox[r], holder[r])
            BY <2>0 DEF Leased
        <2>2. r = RootReader /\ Left(r) # None => Left(r) \in DOMAIN threadProcess'
            <3> SUFFICES ASSUME r = RootReader, Left(r) # None
                         PROVE  Left(r) \in DOMAIN threadProcess'
                OBVIOUS
            <3>1. Left(r) \in DOMAIN threadProcess
                BY <2>0 DEF Leased
            <3>2. threadProcess[Left(r)] = Root
                BY <1>0, <3>1, LeftTyped, RootIsReader, NoneStrays DEF ThreadsOf
            <3>3. call[w].at = "terminated" => call[w].process # Root
                <4>1. CASE w \in Readers
                    BY <1>0, <4>1 DEF HomeCall, Removing, Live
                <4>2. CASE w \notin Readers
                    BY <1>0, <4>2 DEF HomeCall
                <4> QED
                    BY <4>1, <4>2
            <3> QED
                BY <1>4, <3>1, <3>2, <3>3
        <2>3. CASE r # w
            <3>1. call'[r] = call[r]
                BY <1>1, <2>0, <2>3
            <3>2. Coord!ExecutionOwner(r[1])' = r[2] => Coord!ExecutionOwner(r[1]) = r[2]
                <4> SUFFICES ASSUME Coord!ExecutionOwner(r[1])' = r[2],
                                    Coord!ExecutionOwner(r[1]) # r[2]
                             PROVE  FALSE
                    OBVIOUS
                <4>1. r[1] = q /\ call[w].at = "acquire" /\ call[w].owner = r[2]
                    BY <1>6, <2>0
                <4>2. w \in Readers /\ w[1] = r[1] /\ w[2] = r[2]
                    BY <1>0, <1>5, <4>1 DEF HomeCall, Taking
                <4> QED
                    BY <2>0, <2>3, <4>2, ReaderShape
            <3> QED
                BY <2>0, <2>1, <2>2, <3>1, <3>2 DEF Leased
        <2>4. CASE r = w
            <3>1. /\ call[w].at # "idle"
                  /\ call'[w].at # "release"
                  /\ call'[w].at \in Taking => call[w].at \in Taking
                  /\ call'[w].at = "failed" => call[w].at = "bindThread"
                BY <1>1, IdleTyped DEF Moves, Sections, Taking
            <3>2. q = r[1] /\ (call[w].at \in {"acquire", "release"} => call[w].owner = r[2])
                BY <1>0, <1>5, <2>4, <3>1 DEF HomeCall, Taking
            <3>3. call'[r].at \in Taking => Left(r) # None
                BY <2>0, <2>4, <3>1 DEF Leased
            <3>4. ASSUME Coord!ExecutionOwner(r[1])' = r[2]
                  PROVE  call'[r].at # "failed" /\ Left(r) # None
                <4>1. CASE call[w].at = "acquire"
                    BY <1>1, <2>0, <2>4, <4>1, IdleTyped DEF Leased, Taking, Moves, Sections
                <4>2. CASE call[w].at # "acquire"
                    <5>1. Coord!ExecutionOwner(r[1]) = r[2]
                        BY <1>6, <2>0, <3>4, <4>2
                    <5>2. call[w].at # "release"
                        BY <1>6, <2>0, <3>2, <3>4
                    <5>3. call'[r].at # "failed"
                        BY <1>0, <1>6, <2>0, <2>4, <3>1, <3>2, <5>1
                        DEF LeasedRegistered, Coord!ExecutionOwner
                    <5> QED
                        BY <2>0, <2>4, <5>1, <5>2, <5>3 DEF Leased
                <4> QED
                    BY <4>1, <4>2
            <3> QED
                BY <2>1, <2>2, <3>3, <3>4
        <2> QED
            BY <2>3, <2>4
    <1> QED
        BY <1>3, <1>4, <1>6, <1>7, <1>8, <1>9 DEF Ongoing

--------------------------------------------------------------------------------
\* Nothing has happened to a reader that stays where it is.
LEMMA LeasedStays ==
    ASSUME NEW r \in Readers, Leased(r), Live(r[1])' => Live(r[1]),
           inbox'[r] = inbox[r], holder'[r] = holder[r], call'[r] = call[r],
           r = RootReader /\ Left(r) # None /\ Left(r) \in DOMAIN threadProcess
               => Left(r) \in DOMAIN threadProcess',
           Coord!ExecutionOwner(r[1])' = r[2] => Coord!ExecutionOwner(r[1]) = r[2]
    PROVE  Leased(r)' /\ Left(r)' = Left(r)
    <1>1. Left(r)' = Left(r)
        BY DEF Left, AtHand
    <1>2. Alternates(inbox[r], holder[r])' <=> Alternates(inbox[r], holder[r])
        BY DEF Alternates, Event
    <1> QED
        BY <1>1, <1>2 DEF Leased

LEMMA InCallsStays ==
    ASSUME InCalls, call' = call, \A p : Live(p)' => Live(p)
    PROVE  InCalls'
    BY DEF InCalls, HomeCall

\* What an engine sends does not change what its last event said.
LEMMA LeftSent ==
    ASSUME Connections, NEW r \in Readers, NEW e \in EventsOf(r), Send(r, e),
           inbox[r] = <<>> => holder[r] = IF e.kind = "continued" THEN e.thread ELSE None
    PROVE  Left(r)' = Left(r) /\ inbox'[r] = Append(inbox[r], e)
           /\ \A s \in Readers : s # r => inbox'[s] = inbox[s]
    <1>1. /\ inbox[r] \in Seq(EventsOf(r))
          /\ inbox'[r] = Append(inbox[r], e)
          /\ \A s \in Readers : s # r => inbox'[s] = inbox[s]
        BY DEF Connections, Send
    <1>2. CASE inbox[r] = <<>>
        <2>1. inbox'[r] # <<>> /\ Head(inbox'[r]) = e
            BY <1>1, <1>2
        <2> QED
            BY <1>1, <1>2, <2>1 DEF Left, AtHand
    <1>3. CASE inbox[r] # <<>>
        <2>1. inbox'[r] # <<>> /\ Head(inbox'[r]) = Head(inbox[r])
            BY <1>1, <1>3
        <2> QED
            BY <1>1, <1>3, <2>1 DEF Left, AtHand
    <1> QED
        BY <1>2, <1>3

\* Events of the other connections and the tables are as they were.
LEMMA SentOngoing ==
    ASSUME IInv, Ongoing, NEW r \in Readers, NEW e \in EventsOf(r), Send(r, e),
           r[1] \in attached, UNCHANGED <<sessionVars, alive, attached>>,
           \A s \in Readers : s # r => holder'[s] = holder[s],
           inbox[r] = <<>> => holder[r] = IF e.kind = "continued" THEN e.thread ELSE None,
           Alternates(inbox[r], holder[r]) => Alternates(Append(inbox[r], e), holder'[r])
    PROVE  Tables' /\ Births' /\ InCalls' /\ LeasedRegistered' /\ \A s \in Readers : Leased(s)'
    <1>1. UNCHANGED <<call, stopEpoch, activeProcess, snapshots, threadProcess, processes, leases>>
        BY DEF sessionVars, tableVars, coordinatorVars
    <1>2. /\ Left(r)' = Left(r) /\ inbox'[r] = Append(inbox[r], e)
          /\ \A s \in Readers : s # r => inbox'[s] = inbox[s]
        BY LeftSent DEF IInv
    <1>3. Tables' /\ LeasedRegistered'
        BY <1>1 DEF Ongoing, Tables, LeasedRegistered
    <1>4. InCalls'
        BY <1>1, InCallsStays DEF Ongoing, Live
    <1>5. Births'
        BY <1>1, <1>2 DEF Ongoing, Births
    <1>6. Leased(r)'
        <2>1. Leased(r) /\ (Live(r[1])' <=> Live(r[1]))
            BY DEF Ongoing, Live
        <2> DEFINE u == Append(inbox[r], e)
        <2>2. Alternates(inbox[r], holder[r]) => Alternates(inbox[r], holder[r])'
            <3>1. PICK q, h : q = u /\ h = holder'[r]
                OBVIOUS
            <3>2. inbox'[r] = q /\ holder'[r] = h
                BY <1>2, <3>1
            <3>3. Alternates(inbox[r], holder[r]) => Alternates(q, h)
                BY <3>1
            <3> HIDE DEF u
            <3>4. Alternates(inbox[r], holder[r])' <=> Alternates(q, h)
                BY ONLY <3>2 DEF Alternates, Event
            <3> QED
                BY <3>3, <3>4
        <2>3. Coord!ExecutionOwner(r[1])' = Coord!ExecutionOwner(r[1])
            BY <1>1 DEF Coord!ExecutionOwner
        <2> QED
            BY <1>1, <1>2, <2>1, <2>2, <2>3 DEF Leased
    <1>7. ASSUME NEW s \in Readers, s # r
          PROVE  Leased(s)'
        <2>1. Coord!ExecutionOwner(s[1])' = Coord!ExecutionOwner(s[1])
            BY <1>1 DEF Coord!ExecutionOwner
        <2>2. Leased(s) /\ (Live(s[1])' <=> Live(s[1]))
            BY DEF Ongoing, Live
        <2> QED
            BY <1>1, <1>2, <1>7, <2>1, <2>2, LeasedStays
    <1> QED
        BY <1>3, <1>4, <1>5, <1>6, <1>7

LEMMA RunsOngoing ==
    ASSUME IInv, Ongoing, NEW r \in Readers, EngineRuns(r),
           UNCHANGED <<sessionVars, alive, attached>>
    PROVE  Tables' /\ Births' /\ InCalls' /\ LeasedRegistered' /\ \A s \in Readers : Leased(s)'
    <1> DEFINE h == holder[r]
               e == Event("continued", h)
    <1>1. /\ holder[r] # None /\ holder' = [holder EXCEPT ![r] = None] /\ Send(r, e)
          /\ DOMAIN holder = Readers
        BY DEF EngineRuns, IInv, Connections
    <1>2. h \in ThreadsOf(r) /\ inbox[r] \in Seq(EventsOf(r))
        BY <1>1 DEF IInv, Connections
    <1>3. e \in EventsOf(r) /\ e.kind = "continued" /\ e.thread = h
        BY <1>2 DEF Event, EventsOf, Kinds
    <1>4. r[1] \in attached
        BY <1>1 DEF Ongoing, Births
    <1>5. holder'[r] = None /\ \A s \in Readers : s # r => holder'[s] = holder[s]
        BY <1>1
    <1>6. Alternates(inbox[r], holder[r]) => Alternates(Append(inbox[r], e), holder'[r])
        BY <1>2, <1>5, ContinuationFollows
    <1> HIDE DEF e
    <1>7. inbox[r] = <<>> => holder[r] = IF e.kind = "continued" THEN e.thread ELSE None
        BY <1>3
    <1> QED
        BY <1>1, <1>3, <1>4, <1>5, <1>6, <1>7, SentOngoing

LEMMA WorldOngoing ==
    ASSUME IInv, Ongoing, World, Root \in alive'
    PROVE  Ongoing'
    <1>1. ASSUME NEW r \in Readers, EngineResumes(r)
          PROVE  Ongoing'
        <2>1. EngineRuns(r) /\ UNCHANGED <<sessionVars, alive, attached, pending>>
            BY <1>1 DEF EngineResumes
        <2>2. Asked'
            BY <2>1 DEF Ongoing, Asked
        <2> QED
            BY <2>1, <2>2, RunsOngoing DEF Ongoing
    <1>2. ASSUME NEW r \in Readers, NEW t \in ThreadsOf(r), EngineStops(r, t)
          PROVE  Ongoing'
        <2> DEFINE e == Event("stopped", t)
        <2>1. /\ holder[r] = None /\ holder' = [holder EXCEPT ![r] = t] /\ Send(r, e)
              /\ DOMAIN holder = Readers /\ r[1] \in attached
              /\ UNCHANGED <<sessionVars, alive, attached, pending>>
              /\ inbox[r] \in Seq(EventsOf(r))
            BY <1>2 DEF EngineStops, IInv, Connections
        <2>2. e \in EventsOf(r) /\ e.kind = "stopped"
            BY DEF Event, EventsOf, Kinds
        <2>3. holder'[r] = t /\ \A s \in Readers : s # r => holder'[s] = holder[s]
            BY <2>1
        <2>4. Alternates(inbox[r], holder[r]) => Alternates(Append(inbox[r], e), holder'[r])
            BY <2>1, <2>3, StopFollows
        <2>5. Asked'
            BY <2>1 DEF Ongoing, Asked
        <2> HIDE DEF e
        <2>6. inbox[r] = <<>> => holder[r] = IF e.kind = "continued" THEN e.thread ELSE None
            BY <2>1, <2>2
        <2> QED
            BY <2>1, <2>2, <2>3, <2>4, <2>5, <2>6, SentOngoing DEF Ongoing
    <1>3. ASSUME NEW p \in Processes, ProcessStarts(p)
          PROVE  Ongoing'
        <2>1. /\ UNCHANGED <<call, stopEpoch, activeProcess, snapshots, threadProcess, processes,
                             leases, attached, holder, inbox, pending>>
              /\ alive' = alive \cup {p} /\ p \notin attached
            BY <1>3 DEF ProcessStarts, sessionVars, tableVars, coordinatorVars
        <2>2. \A q : Live(q)' => Live(q)
            BY <2>1 DEF Live
        <2>3. InCalls'
            BY <2>1, <2>2, InCallsStays DEF Ongoing
        <2>4. Tables' /\ Asked' /\ LeasedRegistered'
            BY <2>1 DEF Ongoing, Tables, Asked, LeasedRegistered
        <2>6. Births'
            BY <2>1 DEF Ongoing, Births
        <2>5. ASSUME NEW s \in Readers
              PROVE  Leased(s)'
            <3>1. Coord!ExecutionOwner(s[1])' = Coord!ExecutionOwner(s[1])
                BY <2>1 DEF Coord!ExecutionOwner
            <3> QED
                BY <2>1, <2>2, <3>1, LeasedStays DEF Ongoing
        <2> QED
            BY <2>3, <2>4, <2>5, <2>6 DEF Ongoing
    <1>4. ASSUME NEW p \in Processes, ProcessExits(p)
          PROVE  Ongoing'
        <2>1. /\ UNCHANGED <<call, stopEpoch, activeProcess, snapshots, threadProcess, processes,
                             leases, attached, pending>>
              /\ alive' = alive \ {p} /\ p \in attached
            BY <1>4 DEF ProcessExits, sessionVars, tableVars, coordinatorVars
        <2>2. \A q : Live(q)' => Live(q) /\ q # p
            BY <2>1 DEF Live
        <2>3. \A s \in Readers : s[1] # p => inbox'[s] = inbox[s] /\ holder'[s] = holder[s]
            BY <1>4 DEF ProcessExits
        <2>4. InCalls'
            BY <2>1, <2>2, InCallsStays DEF Ongoing
        <2>5. Tables' /\ Asked' /\ LeasedRegistered' /\ Births'
            BY <2>1, <2>3 DEF Ongoing, Tables, Asked, LeasedRegistered, Births
        <2>6. ASSUME NEW s \in Readers
              PROVE  Leased(s)'
            <3>1. CASE s[1] = p
                BY <2>2, <3>1 DEF Leased
            <3>2. CASE s[1] # p
                <4>1. Coord!ExecutionOwner(s[1])' = Coord!ExecutionOwner(s[1])
                    BY <2>1 DEF Coord!ExecutionOwner
                <4> QED
                    BY <2>1, <2>2, <2>3, <3>2, <4>1, LeasedStays DEF Ongoing
            <3> QED
                BY <3>1, <3>2
        <2> QED
            BY <2>4, <2>5, <2>6 DEF Ongoing
    <1> QED
        BY <1>1, <1>2, <1>3, <1>4 DEF World

--------------------------------------------------------------------------------
\* The launched process's threads stay bound to it while it is stopped.
LEMMA RootBound ==
    ASSUME Attributable, IInv, Ongoing, Root \in alive, Left(RootReader) # None
    PROVE  Left(RootReader) \in DOMAIN threadProcess /\ threadProcess[Left(RootReader)] = Root
    <1>1. Left(RootReader) \in DOMAIN threadProcess
        BY RootIsReader DEF Ongoing, Leased, Live
    <1> QED
        BY <1>1, RootIsReader, LeftTyped, NoneStrays DEF IInv, ThreadsOf

\* A worker has started or left a handler: nothing has changed for the readers
\* of the other connections.
LEMMA StepOngoing ==
    ASSUME Attributable, IInv, Ongoing, Root \in alive, NEW w \in Workers,
           call' \in [Workers -> Calls], \A v \in Workers : v # w => call'[v] = call[v],
           HomeCall(w, call[w])',
           w \in Readers => w[1] \in attached,
           \A s \in Readers : s # w => inbox'[s] = inbox[s],
           UNCHANGED <<alive, attached, holder, processes, leases>>,
           \A t \in DOMAIN threadProcess : threadProcess[t] = Root => t \in DOMAIN threadProcess'
    PROVE  /\ InCalls' /\ LeasedRegistered' /\ Births'
           /\ \A s \in Readers : s # w => Leased(s)'
    <1>1. InCalls'
        BY InCallsStep DEF Ongoing, Live
    <1>2. LeasedRegistered'
        BY DEF Ongoing, LeasedRegistered
    <1>3. Births'
        <2>1. \A s \in Readers : s \in Workers
            BY ReaderShape
        <2> QED
            BY <2>1 DEF Ongoing, Births
    <1>4. ASSUME NEW s \in Readers, s # w
          PROVE  Leased(s)'
        <2>1. Coord!ExecutionOwner(s[1])' = Coord!ExecutionOwner(s[1])
            BY DEF Coord!ExecutionOwner
        <2>2. s = RootReader /\ Left(s) # None => Left(s) \in DOMAIN threadProcess'
            BY RootBound
        <2>3. call'[s] = call[s] /\ inbox'[s] = inbox[s] /\ holder'[s] = holder[s]
              /\ (Live(s[1])' => Live(s[1]))
            BY <1>4, ReaderShape DEF Live
        <2> QED
            BY <2>1, <2>2, <2>3, LeasedStays DEF Ongoing
    <1> QED
        BY <1>1, <1>2, <1>3, <1>4

LEMMA EventProcessTyped ==
    ASSUME Attributable, IInv, Tables, NEW t, NEW p \in Processes \cup {None}
    PROVE  EventProcess(t, p) \in Processes \cup {None}
    <1>1. t \in DOMAIN threadProcess => threadProcess[t] \in Processes
        BY ThreadGroupAssumption, NoneStrays DEF IInv, Tables
    <1> QED
        BY <1>1 DEF EventProcess, Tables

\* The first sections of the handlers.
LEMMA RegisterEnters ==
    ASSUME IInv, Ongoing, NEW w \in Workers, NEW p \in Processes,
           NEW parent \in Processes \cup {None}, RegisterSnapshot(w, p, parent, "native")
    PROVE  /\ Tables' /\ call[w] = Idle
           /\ call' \in [Workers -> Calls] /\ \A v \in Workers : v # w => call'[v] = call[v]
           /\ call'[w].at = "register" /\ call'[w].process = p /\ call'[w].thread = parent
           /\ UNCHANGED <<threadProcess, processes, leases, stopEpoch>>
           /\ UNCHANGED processEpochs /\ UNCHANGED epoch
           /\ snapshots' = Put(snapshots, p, Known(p)) /\ activeProcess' = p
    <1>1. /\ call[w] = Idle /\ snapshots' = Put(snapshots, p, Known(p)) /\ activeProcess' = p
          /\ Enter(w, "register", p, parent, "native", 0)
          /\ UNCHANGED <<threadProcess, processes, leases, stopEpoch, processEpochs, epoch>>
        BY DEF RegisterSnapshot, coordinatorVars, registryVars
    <1>2. Tables'
        BY <1>1 DEF Ongoing, Tables, Put
    <1>3. /\ "register" \in Stages /\ "native" \in Engines \cup {None} /\ 0 \in Nat
          /\ p \in Processes \cup {None} /\ parent \in Threads \cup Processes \cup {None}
          /\ call \in [Workers -> Calls]
        BY DEF Stages, Engines, Ongoing, InCalls
    <1>4. /\ call' \in [Workers -> Calls] /\ \A v \in Workers : v # w => call'[v] = call[v]
          /\ call'[w].at = "register" /\ call'[w].process = p /\ call'[w].thread = parent
        <2>1. Enter(w, "register", p, parent, "native", 0)
            BY <1>1
        <2> QED
            BY ONLY <1>3, <2>1, Enters, w \in Workers
    <1> QED
        BY <1>1, <1>2, <1>4

LEMMA BindEnters ==
    ASSUME IInv, Ongoing, NEW w \in Workers, NEW p \in Processes, NEW t \in Threads,
           NEW engine \in Engines, NEW activate, BindSnapshot(w, p, t, engine, activate)
    PROVE  /\ Tables' /\ call[w] = Idle
           /\ call' \in [Workers -> Calls] /\ \A v \in Workers : v # w => call'[v] = call[v]
           /\ call'[w].at = "bindThread" /\ call'[w].process = p /\ call'[w].owner = engine
           /\ UNCHANGED <<processes, leases, stopEpoch>>
           /\ UNCHANGED processEpochs /\ UNCHANGED epoch
           /\ DOMAIN threadProcess \subseteq DOMAIN threadProcess'
    <1>1. /\ call[w] = Idle /\ DOMAIN snapshots' = DOMAIN snapshots \cup {p}
          /\ activeProcess' \in {activeProcess, p}
          /\ threadProcess' = Put(threadProcess, t, p)
          /\ Enter(w, "bindThread", p, t, engine, 0)
          /\ UNCHANGED <<processes, leases, stopEpoch, processEpochs, epoch>>
        BY DEF BindSnapshot, Bind, coordinatorVars, registryVars, Put
    <1>2. DOMAIN threadProcess' = DOMAIN threadProcess \cup {t}
        BY <1>1 DEF Put
    <1>3. Tables'
        BY <1>1, <1>2 DEF Ongoing, Tables
    <1>4. "bindThread" \in Stages
        BY DEF Stages
    <1>5. /\ call' \in [Workers -> Calls] /\ \A v \in Workers : v # w => call'[v] = call[v]
          /\ call'[w].at = "bindThread" /\ call'[w].process = p /\ call'[w].owner = engine
        BY <1>1, <1>4, Enters DEF Ongoing, InCalls
    <1> QED
        BY <1>1, <1>2, <1>3, <1>5

ContinuedEntered(w, t, p, all, engine) ==
    /\ Tables' /\ call[w] = Idle
    /\ call' \in [Workers -> Calls] /\ \A v \in Workers : v # w => call'[v] = call[v]
    /\ call'[w].process = EventProcess(t, p) /\ call'[w].owner = engine
    /\ call'[w].at \in {"release", "clear"}
    /\ all /\ EventProcess(t, p) # None => call'[w].at = "release"
    /\ UNCHANGED <<processes, leases, threadProcess, activeProcess, stopEpoch>>
    /\ UNCHANGED processEpochs /\ UNCHANGED epoch
    /\ DOMAIN snapshots' = DOMAIN snapshots

LEMMA ContinuedEnters ==
    ASSUME Attributable, IInv, Ongoing, NEW w \in Workers, NEW t \in Threads \cup {None},
           NEW p \in Processes \cup {None}, NEW all \in BOOLEAN, NEW engine \in Engines,
           ContinuedSnapshot(w, t, p, all, engine)
    PROVE  ContinuedEntered(w, t, p, all, engine)
    <1> DEFINE process == EventProcess(t, p)
               old == snapshots[process]
               still == IF all \/ t = None THEN {}
                        ELSE (IF old.allStopped THEN old.threads ELSE old.stoppedThreads) \ {t}
               known == process \in DOMAIN snapshots
               at == IF process # None /\ (known => still = {}) THEN "release" ELSE "clear"
    <1>1. /\ call[w] = Idle /\ DOMAIN snapshots' = DOMAIN snapshots
          /\ Enter(w, at, process, t, engine, 0)
          /\ UNCHANGED <<threadProcess, activeProcess, processes, leases, stopEpoch,
                         processEpochs, epoch>>
        BY DEF ContinuedSnapshot, coordinatorVars, registryVars
    <1>2. Tables'
        BY <1>1 DEF Ongoing, Tables
    <1>3. process \in Processes \cup {None}
        BY EventProcessTyped DEF Ongoing
    <1>4. all /\ process # None => at = "release"
        OBVIOUS
    <1>5. at \in {"release", "clear"} /\ at \in Stages
        BY DEF Stages
    <1> HIDE DEF at, process, known, still
    <1>6. /\ call' \in [Workers -> Calls] /\ \A v \in Workers : v # w => call'[v] = call[v]
          /\ call'[w].at = at /\ call'[w].process = process /\ call'[w].owner = engine
        BY <1>1, <1>3, <1>5, Enters DEF Ongoing, InCalls
    <1> QED
        BY <1>1, <1>2, <1>4, <1>5, <1>6 DEF process, ContinuedEntered

\* A stop is taken for the process of the connection.
LEMMA StoppedAtHome ==
    ASSUME Attributable, ThreadsStayHome, NEW r \in Readers,
           NEW t \in ThreadsOf(r) \cup {None}, r = RootReader => t # None,
           StoppedSnapshot(r, t, EventPid(r), TRUE, r[2])
    PROVE  StoppedSnapshotOf(r[1], r, t, EventPid(r), TRUE, r[2])
    <1>0. r[1] # None
        BY ReaderShape
    <1>1. PICK process \in StoppedProcesses(t, EventPid(r)) :
              StoppedSnapshotOf(process, r, t, EventPid(r), TRUE, r[2])
        BY DEF StoppedSnapshot
    <1>2. CASE EventPid(r) # None
        <2>1. EventPid(r) = r[1]
            BY <1>2 DEF EventPid
        <2> QED
            BY <1>0, <1>1, <2>1 DEF StoppedProcesses, EventProcess
    <1>3. CASE EventPid(r) = None
        <2>1. t # None /\ t \in Threads /\ ThreadGroup[t] = r[1] /\ r = RootReader
            BY <1>0, <1>3 DEF EventPid, RootReader, ThreadsOf
        <2>2. GroupIds[t] = {r[1]}
            BY <2>1 DEF Attributable
        <2>3. t \in DOMAIN threadProcess => threadProcess[t] = r[1]
            BY <2>1, NoneStrays
        <2> QED
            BY <1>0, <1>1, <1>3, <2>1, <2>2, <2>3 DEF StoppedProcesses, EventProcess
    <1> QED
        BY <1>2, <1>3

\* What a reader's handler of a stop enters.
LEMMA StoppedEnters ==
    ASSUME Attributable, IInv, Ongoing, NEW r \in Readers, NEW t \in ThreadsOf(r) \cup {None},
           r = RootReader => t # None,
           StoppedSnapshot(r, t, EventPid(r), TRUE, r[2])
    PROVE  /\ Tables' /\ call[r] = Idle
           /\ call' \in [Workers -> Calls] /\ \A v \in Workers : v # r => call'[v] = call[v]
           /\ call'[r].process = r[1] /\ call'[r].owner = r[2]
           /\ call'[r].at = IF t = None THEN "begin" ELSE "stopRegister"
           /\ call'[r].epoch = stopEpoch + 1
           /\ UNCHANGED <<processes, leases, processEpochs, epoch>>
           /\ threadProcess' = IF t = None THEN threadProcess ELSE Put(threadProcess, t, r[1])
           /\ activeProcess' = r[1]
           /\ DOMAIN snapshots' = DOMAIN snapshots \cup {r[1]}
           /\ snapshots'[r[1]].epoch = stopEpoch + 1
           /\ snapshots'[r[1]].isStopped = TRUE
           /\ \A q \in DOMAIN snapshots \ {r[1]} : snapshots'[q] = snapshots[q]
    <1> DEFINE process == r[1]
               at == IF process = None \/ t = None THEN "begin" ELSE "stopRegister"
    <1>0. r[1] \in Processes /\ r[1] # None /\ r[2] \in Engines \cup {None} /\ r \in Workers
          /\ t \in Threads \cup Processes \cup {None}
        BY ReaderShape DEF ThreadsOf
    <1>1. process = r[1] /\ StoppedSnapshotOf(process, r, t, EventPid(r), TRUE, r[2])
        BY StoppedAtHome DEF IInv
    <1>2. /\ call[r] = Idle
          /\ Enter(r, at, process, t, r[2], stopEpoch + 1)
          /\ threadProcess' = IF process = None \/ t = None THEN threadProcess
                              ELSE Put(threadProcess, t, process)
          /\ activeProcess' = IF process = None THEN activeProcess ELSE process
          /\ UNCHANGED <<processes, leases, processEpochs, epoch>>
          /\ stopEpoch' = stopEpoch + 1
        BY <1>1 DEF StoppedSnapshotOf, coordinatorVars, registryVars
    <1>3. at = IF t = None THEN "begin" ELSE "stopRegister"
        BY <1>0, <1>1
    <1>4. at \in Stages
        BY DEF Stages, Taking
    <1>5. PICK s : /\ s.epoch = stopEpoch + 1 /\ s.isStopped = TRUE
                   /\ snapshots' = IF process = None THEN snapshots ELSE Put(snapshots, process, s)
        BY <1>1 DEF StoppedSnapshotOf
    <1> HIDE DEF at, process
    <1>6. /\ snapshots' = Put(snapshots, r[1], s)
          /\ threadProcess' = IF t = None THEN threadProcess ELSE Put(threadProcess, t, r[1])
          /\ activeProcess' = r[1]
        BY <1>0, <1>1, <1>2, <1>5
    <1>7. /\ DOMAIN snapshots' = DOMAIN snapshots \cup {r[1]}
          /\ snapshots'[r[1]] = s
          /\ \A q \in DOMAIN snapshots \ {r[1]} : snapshots'[q] = snapshots[q]
        BY <1>6 DEF Put
    <1>8. Tables'
        <2>1. DOMAIN threadProcess' \subseteq Threads
            BY <1>6 DEF Put, Ongoing, Tables, ThreadsOf
        <2>2. stopEpoch' \in Nat
            BY <1>2 DEF Ongoing, Tables
        <2> QED
            BY <1>0, <1>6, <1>7, <2>1, <2>2 DEF Ongoing, Tables
    <1>9. /\ call' \in [Workers -> Calls] /\ \A v \in Workers : v # r => call'[v] = call[v]
          /\ call'[r].process = process /\ call'[r].owner = r[2] /\ call'[r].at = at
          /\ call'[r].epoch = stopEpoch + 1
        <2>1. stopEpoch + 1 \in Nat /\ call \in [Workers -> Calls]
            BY DEF Ongoing, Tables, InCalls
        <2>2. process \in Processes \cup {None} /\ Enter(r, at, process, t, r[2], stopEpoch + 1)
            BY <1>0, <1>1, <1>2
        <2>3. PICK w \in Workers, x \in Processes \cup {None}, y \in Nat, a \in Stages,
                   o \in Engines \cup {None}, u \in Threads \cup Processes \cup {None} :
                 w = r /\ x = process /\ y = stopEpoch + 1 /\ a = at /\ o = r[2] /\ u = t
            BY <1>0, <1>4, <2>1, <2>2
        <2>4. Enter(w, a, x, u, o, y)
            BY <2>2, <2>3
        <2>c. call \in [Workers -> Calls]
            BY <2>1
        <2>e. Entered(w, a, x, u, o, y)
            BY ONLY <2>c, <2>4, EntersAs, w \in Workers, a \in Stages, x \in Processes \cup {None},
                    u \in Threads \cup Processes \cup {None}, o \in Engines \cup {None}, y \in Nat
        <2>5. /\ call' \in [Workers -> Calls] /\ \A v \in Workers : v # w => call'[v] = call[v]
              /\ call'[w].at = a /\ call'[w].process = x /\ call'[w].owner = o
              /\ call'[w].epoch = y
            BY <2>e DEF Entered
        <2> QED
            BY <2>3, <2>5
    <1> QED
        BY <1>1, <1>2, <1>3, <1>5, <1>6, <1>7, <1>8, <1>9

LEMMA ForgetEnters ==
    ASSUME IInv, Ongoing, NEW r \in Readers, NEW at \in Removing,
           call[r] = Idle, Forget(r[1]), Enter(r, at, r[1], None, None, 0)
    PROVE  /\ Tables'
           /\ call' \in [Workers -> Calls] /\ \A v \in Workers : v # r => call'[v] = call[v]
           /\ call'[r].process = r[1] /\ call'[r].at = at
           /\ \A t \in DOMAIN threadProcess : threadProcess[t] # r[1] => t \in DOMAIN threadProcess'
    <1>1. /\ snapshots' = Without(snapshots, {r[1]})
          /\ threadProcess' = Without(threadProcess, {t \in DOMAIN threadProcess :
                                                          threadProcess[t] = r[1]})
          /\ activeProcess' \in {activeProcess, None} \cup DOMAIN snapshots
          /\ stopEpoch' = stopEpoch
        BY DEF Forget, NextActive
    <1>2. /\ DOMAIN snapshots' \subseteq DOMAIN snapshots
          /\ DOMAIN threadProcess' \subseteq DOMAIN threadProcess
          /\ \A t \in DOMAIN threadProcess : threadProcess[t] # r[1] => t \in DOMAIN threadProcess'
        BY <1>1 DEF Without
    <1>3. Tables'
        BY <1>1, <1>2 DEF Ongoing, Tables
    <1>4. /\ r[1] \in Processes \cup {None} /\ r \in Workers /\ at \in Stages /\ 0 \in Nat
          /\ None \in Threads \cup Processes \cup {None} /\ None \in Engines \cup {None}
          /\ call \in [Workers -> Calls]
        BY ReaderShape DEF Stages, Ongoing, InCalls
    <1>5. /\ call' \in [Workers -> Calls] /\ \A v \in Workers : v # r => call'[v] = call[v]
          /\ call'[r].process = r[1] /\ call'[r].at = at
        <2>1. PICK w \in Workers, x \in Processes \cup {None}, y \in Nat, a \in Stages,
                   o \in Engines \cup {None}, u \in Threads \cup Processes \cup {None} :
                 w = r /\ x = r[1] /\ y = 0 /\ a = at /\ o = None /\ u = None
            BY <1>4
        <2>2. Enter(w, a, x, u, o, y)
            BY <2>1
        <2>c. call \in [Workers -> Calls]
            BY <1>4
        <2>e. Entered(w, a, x, u, o, y)
            BY ONLY <2>c, <2>2, EntersAs, w \in Workers, a \in Stages, x \in Processes \cup {None},
                    u \in Threads \cup Processes \cup {None}, o \in Engines \cup {None}, y \in Nat
        <2>3. /\ call' \in [Workers -> Calls] /\ \A v \in Workers : v # w => call'[v] = call[v]
              /\ call'[w].process = x /\ call'[w].at = a
            BY <2>e DEF Entered
        <2> QED
            BY <2>1, <2>3
    <1> QED
        BY <1>2, <1>3, <1>5

\* What a reader makes of the event at hand.
DispatchDone(r, event) ==
    /\ Tables'
    /\ call' \in [Workers -> Calls]
    /\ \A v \in Workers : v # r => call'[v] = call[v]
    /\ HomeCall(r, call[r])'
    /\ UNCHANGED <<processes, leases>>
    /\ \A t \in DOMAIN threadProcess : threadProcess[t] = Root => t \in DOMAIN threadProcess'
    /\ Live(r[1]) =>
          /\ call[r].at \notin {"release", "failed"}
          /\ call'[r].at # "failed"
          /\ call'[r].at \in Taking => event.kind = "stopped"
          /\ r = RootReader /\ event.kind = "stopped" => event.thread \in DOMAIN threadProcess'
          /\ event.kind = "continued" =>
                call'[r].at = "release" \/ Coord!ExecutionOwner(r[1]) # r[2]

LEMMA DispatchOngoing ==
    ASSUME Attributable, IInv, Ongoing, Root \in alive, NEW r \in Readers, inbox[r] # <<>>,
           NEW event, event = AtHand(r), Dispatch(r, event), UNCHANGED <<alive, attached>>
    PROVE  DispatchDone(r, event)
    <1>0. /\ r[1] \in Processes /\ r[2] \in Engines /\ r \in Workers /\ r = <<r[1], r[2]>>
          /\ r[2] # None /\ None \in Processes \cup {None} /\ r[1] # None
          /\ event.thread \in ThreadsOf(r) \cup {None}
          /\ event.thread \in Threads \cup {None}
        BY ReaderShape, AtHandTyped DEF IInv, EventsOf, ThreadsOf
    <1>1. Live(r[1]) =>
             /\ event.kind \in {"process", "stopped", "continued"}
             /\ event.kind \in {"stopped", "continued"} => event.thread # None
        BY RestAlternates DEF IInv, Connections, Ongoing, Leased, AtHand
    <1>2. Live(Root)
        BY DEF Live
    <1>3. Live(r[1])' <=> Live(r[1])
        BY DEF Live
    <1>4. EventPid(r) = (IF r = RootReader THEN None ELSE r[1])
        BY DEF EventPid, RootReader
    <1>5. CASE event.kind = "process" /\ RegisterSnapshot(r, r[1], None, "native")
        <2>1. /\ Tables' /\ call[r] = Idle
              /\ call' \in [Workers -> Calls] /\ \A v \in Workers : v # r => call'[v] = call[v]
              /\ call'[r].at = "register" /\ call'[r].process = r[1]
              /\ UNCHANGED <<threadProcess, processes, leases>>
            BY <1>0, <1>5, RegisterEnters
        <2>2. HomeCall(r, call[r])'
            BY <2>1 DEF HomeCall, Taking, Removing
        <2> QED
            BY <1>5, <2>1, <2>2, IdleTyped DEF DispatchDone, Taking
    <1>6. CASE event.kind = "stopped"
               /\ StoppedSnapshot(r, event.thread, EventPid(r), TRUE, r[2])
        <2>1. r = RootReader => event.thread # None
            BY <1>1, <1>2, <1>6, RootIsReader
        <2>2. /\ Tables' /\ call[r] = Idle
              /\ call' \in [Workers -> Calls] /\ \A v \in Workers : v # r => call'[v] = call[v]
              /\ call'[r].process = r[1] /\ call'[r].owner = r[2]
              /\ call'[r].at = IF event.thread = None THEN "begin" ELSE "stopRegister"
              /\ UNCHANGED <<processes, leases>>
              /\ threadProcess' = IF event.thread = None THEN threadProcess
                                  ELSE Put(threadProcess, event.thread, r[1])
            BY <1>0, <1>6, <2>1, StoppedEnters
        <2>3. HomeCall(r, call[r])'
            BY <2>2 DEF HomeCall, Taking, Removing
        <2>4. /\ DOMAIN threadProcess \subseteq DOMAIN threadProcess'
              /\ event.thread # None => event.thread \in DOMAIN threadProcess'
            BY <2>2 DEF Put
        <2> QED
            BY <1>6, <2>1, <2>2, <2>3, <2>4, IdleTyped DEF DispatchDone
    <1>7. CASE event.kind = "continued"
               /\ ContinuedSnapshot(r, event.thread, EventPid(r), TRUE, r[2])
        <2>1. EventPid(r) \in Processes \cup {None}
            BY <1>0, <1>4
        <2>2. /\ Tables' /\ call[r] = Idle
              /\ call' \in [Workers -> Calls] /\ \A v \in Workers : v # r => call'[v] = call[v]
              /\ call'[r].process = EventProcess(event.thread, EventPid(r))
              /\ call'[r].owner = r[2] /\ call'[r].at \in {"release", "clear"}
              /\ EventProcess(event.thread, EventPid(r)) # None => call'[r].at = "release"
              /\ UNCHANGED <<processes, leases, threadProcess>>
            <3>1. PICK w \in Workers, t \in Threads \cup {None}, x \in Processes \cup {None},
                       o \in Engines, all \in BOOLEAN :
                     w = r /\ t = event.thread /\ x = EventPid(r) /\ o = r[2] /\ all = TRUE
                BY <1>0, <2>1
            <3>2. ContinuedSnapshot(w, t, x, all, o)
                BY <1>7, <3>1
            <3>3. ContinuedEntered(w, t, x, all, o)
                BY <3>2, ContinuedEnters
            <3> QED
                BY <3>1, <3>3 DEF ContinuedEntered
        <2>3. EventProcess(event.thread, EventPid(r)) = r[1]
            <3>1. CASE r = RootReader
                <4>1. Left(r) = event.thread /\ event.thread # None
                    BY <1>1, <1>2, <1>7, <3>1, RootIsReader DEF Left
                <4>2. event.thread \in DOMAIN threadProcess /\ threadProcess[event.thread] = Root
                    BY <3>1, <4>1, RootBound
                <4> QED
                    BY <1>4, <3>1, <4>1, <4>2, RootIsReader DEF EventProcess
            <3>2. CASE r # RootReader
                BY <1>0, <1>4, <3>2 DEF EventProcess
            <3> QED
                BY <3>1, <3>2
        <2>4. HomeCall(r, call[r])'
            BY <2>2, <2>3 DEF HomeCall, Taking, Removing
        <2> QED
            BY <1>0, <1>7, <2>2, <2>3, <2>4, IdleTyped DEF DispatchDone, Taking
    <1>8. CASE event.kind = "continued" /\ IgnoresContinued(r) /\ call[r] = Idle
               /\ UNCHANGED sessionVars
        <2>1. UNCHANGED <<call, stopEpoch, activeProcess, snapshots, threadProcess, processes,
                          leases>>
            BY <1>8 DEF sessionVars, tableVars, coordinatorVars
        <2>2. Tables'
            BY <2>1 DEF Ongoing, Tables
        <2>3. HomeCall(r, call[r]) /\ call \in [Workers -> Calls]
            BY <1>0 DEF Ongoing, InCalls
        <2>4. HomeCall(r, call[r])'
            BY <1>3, <2>1, <2>3 DEF HomeCall
        <2>5. Coord!ExecutionOwner(r[1]) # r[2]
            BY <1>8 DEF IgnoresContinued
        <2> QED
            BY <1>8, <2>1, <2>2, <2>3, <2>4, <2>5, IdleTyped DEF DispatchDone, Taking
    <1>9. CASE event.kind = "terminated" /\ r = RootReader
        BY <1>1, <1>2, <1>9, RootIsReader
    <1>10. CASE /\ event.kind = "terminated"
                /\ TerminatedSnapshot(r, r[1]) \/ RemoveSnapshot(r, r[1])
        <2>1. ~ Live(r[1]) /\ r[1] # Root
            BY <1>1, <1>2, <1>10
        <2>2. PICK at \in Removing : call[r] = Idle /\ Forget(r[1])
                                     /\ Enter(r, at, r[1], None, None, 0)
            BY <1>10 DEF TerminatedSnapshot, RemoveSnapshot, Removing
        <2>3. /\ Tables'
              /\ call' \in [Workers -> Calls] /\ \A v \in Workers : v # r => call'[v] = call[v]
              /\ call'[r].process = r[1] /\ call'[r].at = at
              /\ \A t \in DOMAIN threadProcess :
                    threadProcess[t] # r[1] => t \in DOMAIN threadProcess'
            BY <2>2, ForgetEnters
        <2>4. HomeCall(r, call[r])'
            BY <1>3, <2>1, <2>3 DEF HomeCall, Removing, Taking
        <2>5. UNCHANGED <<processes, leases>>
            BY <1>10 DEF TerminatedSnapshot, RemoveSnapshot, coordinatorVars
        <2> QED
            BY <2>1, <2>3, <2>4, <2>5 DEF DispatchDone
    <1> QED
        BY <1>5, <1>6, <1>7, <1>8, <1>9, <1>10, RootIsReader DEF Dispatch, RootReader

LEMMA BindsOngoing ==
    ASSUME Attributable, IInv, Ongoing, Root \in alive, NEW r \in Readers, ReaderBinds(r)
    PROVE  Ongoing'
    <1>1. /\ inbox[r] # <<>> /\ BindsFirst(r)
          /\ BindSnapshot(r, r[1], AtHand(r).thread, r[2], TRUE)
          /\ UNCHANGED <<alive, attached, holder, inbox, pending>>
        BY DEF ReaderBinds
    <1>2. /\ r[1] \in Processes /\ r[2] \in Engines /\ r \in Workers
          /\ AtHand(r).thread \in Threads
        BY <1>1, ReaderShape, AtHandTyped DEF IInv, EventsOf, ThreadsOf, BindsFirst
    <1>3. PICK w \in Workers, p \in Processes, t \in Threads, engine \in Engines :
              w = r /\ p = r[1] /\ t = AtHand(r).thread /\ engine = r[2]
        BY <1>2
    <1>4. BindSnapshot(w, p, t, engine, TRUE)
        BY <1>1, <1>3
    <1>5. /\ Tables' /\ call[w] = Idle
          /\ call' \in [Workers -> Calls]
          /\ call'[w].at = "bindThread" /\ call'[w].process = p /\ call'[w].owner = engine
        BY <1>4, BindEnters
    <1>6. /\ \A v \in Workers : v # w => call'[v] = call[v]
          /\ UNCHANGED <<processes, leases>>
          /\ DOMAIN threadProcess \subseteq DOMAIN threadProcess'
        BY <1>4, BindEnters
    <1>7. HomeCall(r, call[r])'
        BY <1>3, <1>5 DEF HomeCall, Taking, Removing
    <1>8. r[1] \in attached
        BY <1>1 DEF Ongoing, Births
    <1>9. /\ InCalls' /\ LeasedRegistered' /\ Births'
          /\ \A s \in Readers : s # r => Leased(s)'
        BY <1>1, <1>2, <1>3, <1>5, <1>6, <1>7, <1>8, StepOngoing
    <1>10. Asked'
        BY <1>1 DEF Ongoing, Asked
    <1>11. Leased(r)'
        <2>1. Left(r)' = Left(r) /\ (Live(r[1])' <=> Live(r[1]))
              /\ (Alternates(inbox[r], holder[r])' <=> Alternates(inbox[r], holder[r]))
            BY <1>1 DEF Left, AtHand, Live, Alternates, Event
        <2>2. Coord!ExecutionOwner(r[1])' = Coord!ExecutionOwner(r[1])
            BY <1>6 DEF Coord!ExecutionOwner
        <2>3. call[r].at = "idle" /\ call'[r].at = "bindThread"
            BY <1>3, <1>5, IdleTyped
        <2> QED
            BY <1>6, <2>1, <2>2, <2>3 DEF Ongoing, Leased, Taking
    <1> QED
        BY <1>5, <1>9, <1>10, <1>11 DEF Ongoing

\* What a reader has handled says how its process was left.
LEMMA LeftHandled ==
    ASSUME Connections, NEW r \in Readers, inbox[r] # <<>>,
           Alternates(inbox[r], holder[r]),
           inbox' = [inbox EXCEPT ![r] = Tail(@)], holder' = holder
    PROVE  /\ Left(r)' = IF AtHand(r).kind = "stopped" THEN AtHand(r).thread ELSE None
           /\ Alternates(inbox[r], holder[r])'
           /\ AtHand(r).kind \in {"process", "stopped", "continued"}
           /\ AtHand(r).kind \in {"stopped", "continued"} => AtHand(r).thread # None
    <1> DEFINE s == inbox[r]
               h == holder[r]
    <1>1. s \in Seq(EventsOf(r)) /\ inbox'[r] = Tail(s) /\ holder'[r] = h
        BY DEF Connections
    <1>2. /\ Alternates(Tail(s), h)
          /\ Head(s).kind \in {"process", "stopped", "continued"}
          /\ Head(s).kind \in {"stopped", "continued"} => Head(s).thread # None
          /\ Head(s).kind = "stopped" =>
                IF Tail(s) = <<>> THEN h = Head(s).thread
                ELSE Head(Tail(s)) = Event("continued", Head(s).thread)
          /\ Head(s).kind # "stopped" =>
                IF Tail(s) = <<>> THEN h = None ELSE Head(Tail(s)).kind = "stopped"
        BY <1>1, RestAlternates
    <1>3. Left(r)' = IF Head(s).kind = "stopped" THEN Head(s).thread ELSE None
        <2>1. PICK u, e, k : u = Tail(s) /\ e = Head(s) /\ k = h
            OBVIOUS
        <2>2. Left(r)' = IF u = <<>> THEN k
                         ELSE IF Head(u).kind = "continued" THEN Head(u).thread ELSE None
            <3>1. inbox'[r] = u /\ holder'[r] = k
                BY <1>1, <2>1
            <3> QED
                BY ONLY <3>1 DEF Left, AtHand
        <2>3. /\ e.kind = "stopped" =>
                    IF u = <<>> THEN k = e.thread ELSE Head(u) = Event("continued", e.thread)
              /\ e.kind # "stopped" =>
                    IF u = <<>> THEN k = None ELSE Head(u).kind = "stopped"
            BY <1>2, <2>1
        <2>4. Left(r)' = IF e.kind = "stopped" THEN e.thread ELSE None
            BY ONLY <2>2, <2>3 DEF Event
        <2> QED
            BY <2>1, <2>4
    <1>4. Alternates(inbox[r], holder[r])'
        <2>1. PICK u, k : u = Tail(s) /\ k = h
            OBVIOUS
        <2>2. inbox'[r] = u /\ holder'[r] = k /\ Alternates(u, k)
            BY <1>1, <1>2, <2>1
        <2> QED
            BY ONLY <2>2 DEF Alternates, Event
    <1> QED
        BY <1>2, <1>3, <1>4 DEF AtHand

LEMMA HandlesOngoing ==
    ASSUME Attributable, IInv, Ongoing, Root \in alive, NEW r \in Readers, ReaderHandles(r)
    PROVE  Ongoing'
    <1>1. /\ inbox[r] # <<>> /\ Dispatch(r, AtHand(r))
          /\ inbox' = [inbox EXCEPT ![r] = Tail(@)]
          /\ UNCHANGED <<alive, attached, holder, pending>>
          /\ DOMAIN inbox = Readers
        BY DEF ReaderHandles, IInv, Connections
    <1>2. PICK event : event = AtHand(r)
        OBVIOUS
    <1>3. DispatchDone(r, event)
        BY <1>1, <1>2, DispatchOngoing
    <1>4. r \in Workers /\ r[1] \in attached /\ \A s \in Readers : s # r => inbox'[s] = inbox[s]
        BY <1>1, ReaderShape DEF Ongoing, Births
    <1>5. /\ InCalls' /\ LeasedRegistered' /\ Births'
          /\ \A s \in Readers : s # r => Leased(s)'
        BY <1>1, <1>3, <1>4, StepOngoing DEF DispatchDone
    <1>6. Asked' /\ Tables'
        BY <1>1, <1>3 DEF Ongoing, Asked, DispatchDone
    <1>7. Leased(r)'
        <2> SUFFICES ASSUME Live(r[1])
                     PROVE  Leased(r)'
            BY <1>1 DEF Leased, Live
        <2>1. Leased(r) /\ Alternates(inbox[r], holder[r]) /\ r[2] # None
            BY ReaderShape DEF Ongoing, Leased
        <2>2. /\ Left(r)' = IF event.kind = "stopped" THEN event.thread ELSE None
              /\ Alternates(inbox[r], holder[r])'
              /\ event.kind \in {"process", "stopped", "continued"}
              /\ event.kind \in {"stopped", "continued"} => event.thread # None
            BY <1>1, <1>2, <2>1, LeftHandled DEF IInv
        <2>3. Coord!ExecutionOwner(r[1])' = Coord!ExecutionOwner(r[1])
            BY <1>3 DEF DispatchDone, Coord!ExecutionOwner
        <2>4. /\ call[r].at \notin {"release", "failed"}
              /\ call'[r].at # "failed"
              /\ call'[r].at \in Taking => event.kind = "stopped"
              /\ r = RootReader /\ event.kind = "stopped" => event.thread \in DOMAIN threadProcess'
              /\ event.kind = "continued" =>
                    call'[r].at = "release" \/ Coord!ExecutionOwner(r[1]) # r[2]
            BY <1>3 DEF DispatchDone
        <2>5. event.kind = "process" => Left(r) = None
            BY <1>1, <1>2 DEF Left
        <2>6. event.kind = "process" => Coord!ExecutionOwner(r[1]) # r[2]
            BY <2>1, <2>4, <2>5 DEF Leased
        <2> QED
            BY <2>2, <2>3, <2>4, <2>6 DEF Leased
    <1> QED
        BY <1>5, <1>6, <1>7 DEF Ongoing

LEMMA WatcherOngoing ==
    ASSUME IInv, Ongoing, Root \in alive, WatcherAttaches
    PROVE  Ongoing'
    <1>1. /\ RegisterCoordinator(Watcher) /\ Watcher \in Workers /\ Watcher \notin Readers
          /\ attached' = attached \cup {call[Watcher].process}
          /\ UNCHANGED <<alive, holder, inbox, pending>>
        BY SessionAssumption DEF WatcherAttaches
    <1>2. HandlerStep(Watcher) /\ call[Watcher].at = "register"
        BY <1>1 DEF HandlerStep, RegisterCoordinator
    <1>3. InCalls /\ LeasedRegistered /\ Tables /\ HomeCall(Watcher, call[Watcher])
          /\ call[Watcher] \in Calls
        BY <1>1 DEF Ongoing, InCalls
    <1>4. /\ call' \in [Workers -> Calls]
          /\ \A v \in Workers : v # Watcher => call'[v] = call[v]
          /\ call'[Watcher] = Idle
        BY <1>1, <1>3, Returns DEF RegisterCoordinator, InCalls
    <1>5. \A q : Live(q)' => Live(q)
        BY <1>1 DEF Live
    <1>6. InCalls'
        <2>1. HomeCall(Watcher, call[Watcher])'
            BY <1>1, <1>4, IdleTyped DEF HomeCall
        <2> QED
            BY <1>1, <1>3, <1>4, <1>5, <2>1, InCallsStep
    <1>7. PICK q : q = call[Watcher].process
        OBVIOUS
    <1>8. LeasedRegistered'
        BY <1>1, <1>2, <1>3, <1>7, HandlerLeases
    <1>9. leases' = leases /\ UNCHANGED tableVars
        BY <1>1, RegisterEffect
        DEF RegisterCoordinator, Coord!RegisterProcessRefused, Coord!coordinatorVars
    <1>10. UNCHANGED <<stopEpoch, activeProcess, snapshots, threadProcess>>
        BY <1>9 DEF tableVars
    <1>11. Tables' /\ Asked'
        BY <1>1, <1>10 DEF Ongoing, Tables, Asked
    <1>12. Births'
        <2>1. call[Watcher].process \in Processes
            BY <1>1, <1>2, <1>3 DEF HomeCall, Calls
        <2>2. \A s \in Readers : s \in Workers /\ s # Watcher
            BY <1>1, ReaderShape
        <2> QED
            BY <1>1, <1>4, <2>1, <2>2 DEF Ongoing, Births
    <1>13. ASSUME NEW s \in Readers
           PROVE  Leased(s)'
        <2>1. Coord!ExecutionOwner(s[1])' = Coord!ExecutionOwner(s[1])
            BY <1>9 DEF Coord!ExecutionOwner
        <2>2. call'[s] = call[s]
            BY <1>1, <1>4, ReaderShape
        <2> QED
            BY <1>1, <1>5, <1>10, <2>1, <2>2, LeasedStays DEF Ongoing
    <1> QED
        BY <1>6, <1>8, <1>11, <1>12, <1>13 DEF Ongoing

\* With a child registry no reply is taken for the active process's.
LEMMA NothingRecorded ==
    ASSUME Attributable
    PROVE  /\ \A q \in Listers : ~ RequestRecords(q)
           /\ \A r \in Readers : \A t \in ThreadsOf(r) : ~ ReaderRecords(r, t)
           /\ \A w \in Workers : ~ RecordingBinds(w)
    BY DEF Attributable, RequestRecords, NamesNoProcess, ReaderRecords, RecordingBinds

LEMMA ProxyOngoing ==
    ASSUME Attributable, IInv, Ongoing, Proxy, Root \in alive
    PROVE  Ongoing'
    <1>1. ASSUME NEW w \in Workers, Continues(w)
          PROVE  Ongoing'
        BY <1>1, HandlerOngoing DEF Continues
    <1>2. ASSUME NEW p \in Processes, WatcherRegisters(p)
          PROVE  Ongoing'
        <2>1. /\ RegisterSnapshot(Watcher, p, Root, "native")
              /\ UNCHANGED <<alive, attached, holder, inbox, pending>>
              /\ Watcher \in Workers /\ Watcher \notin Readers /\ Root \in Processes
              /\ p # None
            BY <1>2, SessionAssumption DEF WatcherRegisters, worldVars, Attributable
        <2>2. /\ Tables' /\ call[Watcher] = Idle
              /\ call' \in [Workers -> Calls]
              /\ \A v \in Workers : v # Watcher => call'[v] = call[v]
              /\ call'[Watcher].at = "register" /\ call'[Watcher].process = p
              /\ UNCHANGED <<threadProcess, processes, leases>>
            BY <2>1, RegisterEnters
        <2>3. HomeCall(Watcher, call[Watcher])'
            BY <2>1, <2>2 DEF HomeCall
        <2>4. /\ InCalls' /\ LeasedRegistered' /\ Births'
              /\ \A s \in Readers : s # Watcher => Leased(s)'
            BY <2>1, <2>2, <2>3, StepOngoing
        <2> QED
            BY <2>1, <2>2, <2>4 DEF Ongoing, Asked
    <1>3. CASE WatcherAttaches
        BY <1>3, WatcherOngoing
    <1>4. ASSUME NEW r \in Readers, ReaderBinds(r) \/ ReaderHandles(r)
          PROVE  Ongoing'
        BY <1>4, BindsOngoing, HandlesOngoing
    <1>5. ASSUME NEW q \in Requests, RequestInvalidates(q)
          PROVE  Ongoing'
        <2> DEFINE named == IF pending[q].process = Root THEN None ELSE pending[q].process
        <2>1. /\ pending[q] # NoAnswer
              /\ ContinuedSnapshot(q, pending[q].thread, named, FALSE, "native")
              /\ pending' = [pending EXCEPT ![q] = NoAnswer]
              /\ UNCHANGED <<alive, attached, holder, inbox>>
            BY <1>5, Zenon DEF RequestInvalidates
        <2>2. q \in Workers /\ q \notin Readers
            BY SessionAssumption
        <2>3. pending[q] \in [process : Processes, engine : Engines, thread : Threads]
            BY <2>1 DEF Ongoing, Asked
        <2>4. PICK w \in Workers, t \in Threads \cup {None}, x \in Processes \cup {None},
                   o \in Engines, all \in BOOLEAN :
                 w = q /\ t = pending[q].thread /\ x = named /\ o = "native" /\ all = FALSE
            BY <2>2, <2>3 DEF Engines
        <2>5. ContinuedEntered(w, t, x, all, o)
            <3>1. ContinuedSnapshot(w, t, x, all, o)
                BY <2>1, <2>4
            <3> QED
                BY <3>1, ContinuedEnters
        <2> HIDE DEF named
        <2>6. HomeCall(q, call[q])'
            BY <2>2, <2>4, <2>5 DEF ContinuedEntered, HomeCall
        <2>7. /\ InCalls' /\ LeasedRegistered' /\ Births'
              /\ \A s \in Readers : s # q => Leased(s)'
            BY <2>1, <2>2, <2>4, <2>5, <2>6, StepOngoing DEF ContinuedEntered
        <2>8. Tables' /\ Asked'
            BY <2>1, <2>5 DEF ContinuedEntered, Ongoing, Asked
        <2> QED
            BY <2>2, <2>7, <2>8 DEF Ongoing
    <1>6. ASSUME NEW q \in Listers, RequestBinds(q)
          PROVE  Ongoing'
        <2>1. /\ pending[q] # NoAnswer
              /\ BindSnapshot(q, pending[q].process, pending[q].thread, pending[q].engine,
                              pending[q].engine = "python")
              /\ pending' = [pending EXCEPT ![q] = NoAnswer]
              /\ UNCHANGED <<alive, attached, holder, inbox>>
            BY <1>6, Zenon DEF RequestBinds
        <2>2. q \in Workers /\ q \notin Readers
            BY SessionAssumption
        <2>3. pending[q] \in [process : Processes, engine : Engines, thread : Threads]
            BY <2>1 DEF Ongoing, Asked
        <2>4. PICK w \in Workers, p \in Processes, t \in Threads, engine \in Engines,
                   act \in BOOLEAN :
                 /\ w = q /\ p = pending[q].process /\ t = pending[q].thread
                 /\ engine = pending[q].engine /\ act = (pending[q].engine = "python")
            BY <2>2, <2>3
        <2>5. BindSnapshot(w, p, t, engine, act)
            BY <2>1, <2>4
        <2>6. /\ Tables' /\ call[w] = Idle
              /\ call' \in [Workers -> Calls]
              /\ call'[w].at = "bindThread" /\ call'[w].process = p /\ call'[w].owner = engine
            BY <2>5, BindEnters
        <2>7. /\ \A v \in Workers : v # w => call'[v] = call[v]
              /\ UNCHANGED <<processes, leases>>
              /\ DOMAIN threadProcess \subseteq DOMAIN threadProcess'
            BY <2>5, BindEnters
        <2>8. HomeCall(q, call[q])'
            BY <2>2, <2>4, <2>6 DEF HomeCall
        <2>9. /\ InCalls' /\ LeasedRegistered' /\ Births'
              /\ \A s \in Readers : s # q => Leased(s)'
            BY <2>1, <2>2, <2>4, <2>6, <2>7, <2>8, StepOngoing
        <2> QED
            BY <2>1, <2>2, <2>6, <2>9 DEF Ongoing, Asked
    <1>7. ASSUME NEW q \in Listers, RequestFails(q)
          PROVE  Ongoing'
        <2>1. /\ Return(q)
              /\ UNCHANGED <<alive, attached, holder, inbox, pending, processes, leases,
                             stopEpoch, activeProcess, snapshots, threadProcess>>
            BY <1>7 DEF RequestFails, tableVars, coordinatorVars, worldVars
        <2>2. q \in Workers /\ q \notin Readers
            BY SessionAssumption
        <2>3. /\ call' \in [Workers -> Calls] /\ call'[q] = Idle
              /\ \A v \in Workers : v # q => call'[v] = call[v]
            BY <2>1, <2>2, Returns DEF Ongoing, InCalls
        <2>4. HomeCall(q, call[q])'
            BY <2>2, <2>3, IdleTyped DEF HomeCall
        <2>5. /\ InCalls' /\ LeasedRegistered' /\ Births'
              /\ \A s \in Readers : s # q => Leased(s)'
            BY <2>1, <2>2, <2>3, <2>4, StepOngoing
        <2> QED
            BY <2>1, <2>2, <2>5 DEF Ongoing, Asked, Tables
    <1> QED
        BY <1>1, <1>2, <1>3, <1>4, <1>5, <1>6, <1>7, NothingRecorded DEF Proxy

LEMMA ClientOngoing ==
    ASSUME IInv, Ongoing, Client
    PROVE  Ongoing'
    <1>1. ASSUME NEW q \in Requests, NEW p \in Processes, RequestResumes(q, p)
          PROVE  Ongoing'
        <2> DEFINE r == <<p, "native">>
        <2>1. r \in Readers
            BY DEF Readers, Engines
        <2>2. /\ EngineRuns(r)
              /\ UNCHANGED <<sessionVars, alive, attached>>
              /\ pending' = [pending EXCEPT ![q] = [process |-> p, engine |-> "native",
                                                    thread |-> holder[r]]]
            BY <1>1 DEF RequestResumes
        <2>3. holder[r] \in Threads
            BY <2>1, <2>2 DEF EngineRuns, IInv, Connections, ThreadsOf
        <2>4. Asked'
            <3>1. [process |-> p, engine |-> "native", thread |-> holder[r]]
                      \in [process : Processes, engine : Engines, thread : Threads]
                BY <2>3 DEF Engines
            <3> QED
                BY <2>2, <3>1 DEF IInv, Answers, Ongoing, Asked
        <2> HIDE DEF r
        <2> QED
            BY <2>1, <2>2, <2>4, RunsOngoing DEF Ongoing
    <1>2. ASSUME NEW q \in Listers, NEW r \in Readers, NEW t \in ThreadsOf(r),
                 RequestLists(q, r, t)
          PROVE  Ongoing'
        <2>1. /\ UNCHANGED <<alive, attached, holder, inbox, processes, leases, call,
                             stopEpoch, activeProcess, snapshots, threadProcess>>
              /\ pending' = [pending EXCEPT ![q] = [process |-> r[1], engine |-> r[2],
                                                    thread |-> t]]
            BY <1>2 DEF RequestLists, sessionVars, tableVars, coordinatorVars
        <2>2. [process |-> r[1], engine |-> r[2], thread |-> t]
                  \in [process : Processes, engine : Engines, thread : Threads]
            BY ReaderShape DEF ThreadsOf
        <2>3. Asked'
            BY <2>1, <2>2 DEF IInv, Answers, Ongoing, Asked
        <2>4. Tables' /\ Births' /\ LeasedRegistered'
            BY <2>1 DEF Ongoing, Tables, Births, LeasedRegistered
        <2>5. InCalls' /\ \A q_1 : Live(q_1)' <=> Live(q_1)
            BY <2>1, InCallsStays DEF Ongoing, Live
        <2>6. ASSUME NEW s \in Readers
              PROVE  Leased(s)'
            <3>1. Coord!ExecutionOwner(s[1])' = Coord!ExecutionOwner(s[1])
                BY <2>1 DEF Coord!ExecutionOwner
            <3> QED
                BY <2>1, <2>5, <3>1, LeasedStays DEF Ongoing
        <2> QED
            BY <2>3, <2>4, <2>5, <2>6 DEF Ongoing
    <1> QED
        BY <1>1, <1>2 DEF Client

LEMMA InitOngoing == Init => Ongoing
    <1> SUFFICES ASSUME Init
                 PROVE  Ongoing
        OBVIOUS
    <1>1. /\ stopEpoch = 0 /\ DOMAIN threadProcess = {} /\ DOMAIN snapshots = {}
          /\ activeProcess = None /\ call = [w \in Workers |-> Idle]
          /\ DOMAIN leases = {} /\ alive = {Root} /\ attached = {Root}
          /\ holder = [r \in Readers |-> None]
          /\ pending = [q \in Requests \cup Listers |-> NoAnswer]
        BY DEF Init, InitSession, Coord!Init, Coord!Nothing
    <1>2. \A r \in Readers : /\ inbox[r] \in {<<>>, <<Event("process", None)>>}
                             /\ r # RootReader => inbox[r] = <<>>
        BY DEF Init, RootReader
    <1>3. Tables /\ Asked /\ LeasedRegistered
        BY <1>1 DEF Tables, Asked, LeasedRegistered
    <1>4. InCalls
        BY <1>1, IdleTyped DEF InCalls, HomeCall, Taking, Removing
    <1>5. Births
        <2>1. \A r \in Readers : r[1] \notin attached => r # RootReader
            BY <1>1, RootIsReader
        <2> QED
            BY <1>1, <1>2, <2>1, ReaderShape, SessionAssumption DEF Births
    <1>6. ASSUME NEW r \in Readers
          PROVE  Leased(r)
        <2>1. call[r].at = "idle" /\ holder[r] = None /\ Coord!ExecutionOwner(r[1]) # r[2]
            BY <1>1, ReaderShape, IdleTyped DEF Coord!ExecutionOwner
        <2>2. Alternates(<<>>, None)
            BY DEF Alternates
        <2>3. Alternates(<<Event("process", None)>>, None)
            BY DEF Alternates, Event
        <2>4. Left(r) = None
            BY <1>2, <2>1 DEF Left, AtHand, Event
        <2> QED
            BY <1>2, <2>1, <2>2, <2>3, <2>4 DEF Leased, Taking
    <1> QED
        BY <1>3, <1>4, <1>5, <1>6 DEF Ongoing

\* The launched process never comes back.
LEMMA RootLives ==
    ASSUME World, Root \in alive'
    PROVE  Root \in alive
    <1>1. ASSUME NEW r \in Readers, EngineResumes(r) \/ \E t \in ThreadsOf(r) : EngineStops(r, t)
          PROVE  alive' = alive
        BY <1>1 DEF EngineResumes, EngineStops
    <1> QED
        BY <1>1 DEF World, ProcessStarts, ProcessExits

LEMMA OthersLive ==
    ASSUME Proxy \/ Client
    PROVE  alive' = alive
    <1>1. ASSUME NEW w \in Workers, Continues(w)
          PROVE  alive' = alive
        BY <1>1 DEF Continues, worldVars
    <1>2. ASSUME NEW p \in Processes, WatcherRegisters(p)
          PROVE  alive' = alive
        BY <1>2 DEF WatcherRegisters, worldVars
    <1>3. CASE WatcherAttaches
        BY <1>3 DEF WatcherAttaches
    <1>4. ASSUME NEW r \in Readers, ReaderBinds(r) \/ ReaderHandles(r)
          PROVE  alive' = alive
        BY <1>4 DEF ReaderBinds, ReaderHandles
    <1>5. ASSUME NEW q \in Requests, RequestInvalidates(q)
          PROVE  alive' = alive
        BY <1>5, Zenon DEF RequestInvalidates
    <1>6. ASSUME NEW q \in Listers, RequestBinds(q) \/ RequestFails(q)
          PROVE  alive' = alive
        BY <1>6 DEF RequestBinds, RequestFails, worldVars
    <1>7. ASSUME NEW q \in Requests, NEW p \in Processes, RequestResumes(q, p)
          PROVE  alive' = alive
        BY <1>7 DEF RequestResumes
    <1>8. ASSUME NEW q \in Listers, NEW r \in Readers, NEW t \in ThreadsOf(r),
                 RequestLists(q, r, t)
          PROVE  alive' = alive
        BY <1>8 DEF RequestLists
    <1>9. ASSUME NEW q \in Listers, RequestRecords(q)
          PROVE  alive' = alive
        BY <1>9 DEF RequestRecords
    <1>10. ASSUME NEW r \in Readers, NEW t \in ThreadsOf(r), ReaderRecords(r, t)
           PROVE  alive' = alive
        BY <1>10 DEF ReaderRecords, worldVars
    <1>11. ASSUME NEW w \in Workers, RecordingBinds(w)
           PROVE  alive' = alive
        BY <1>11 DEF RecordingBinds, worldVars
    <1> QED
        BY <1>1, <1>2, <1>3, <1>4, <1>5, <1>6, <1>7, <1>8, <1>9, <1>10, <1>11
        DEF Proxy, Client

LEMMA OngoingStep ==
    ASSUME Attributable, LInv, [Next]_vars
    PROVE  LInv'
    <1>1. IInv'
        BY NextInv DEF LInv, Attributable, Recordings
    <1> SUFFICES ASSUME Root \in alive'
                 PROVE  Ongoing'
        BY <1>1 DEF LInv
    <1>2. CASE UNCHANGED vars
        <2>1. UNCHANGED <<alive, attached, holder, inbox, pending, processes, leases, call,
                          stopEpoch, activeProcess, snapshots, threadProcess>>
            BY <1>2 DEF vars, worldVars, sessionVars, tableVars, coordinatorVars
        <2>2. Tables' /\ Asked' /\ Births' /\ LeasedRegistered' /\ Ongoing
            BY <2>1 DEF LInv, Ongoing, Tables, Asked, Births, LeasedRegistered
        <2>3. InCalls' /\ \A q : Live(q)' <=> Live(q)
            BY <2>1, <2>2, InCallsStays DEF Ongoing, Live
        <2>4. ASSUME NEW s \in Readers
              PROVE  Leased(s)'
            <3>1. Coord!ExecutionOwner(s[1])' = Coord!ExecutionOwner(s[1])
                BY <2>1 DEF Coord!ExecutionOwner
            <3> QED
                BY <2>1, <2>2, <2>3, <3>1, LeasedStays DEF Ongoing
        <2> QED
            BY <2>2, <2>3, <2>4 DEF Ongoing
    <1>3. CASE World
        <2>1. Root \in alive
            BY <1>3, RootLives
        <2> QED
            BY <1>3, <2>1, WorldOngoing DEF LInv
    <1>4. CASE Proxy
        <2>1. Root \in alive
            BY <1>4, OthersLive
        <2> QED
            BY <1>4, <2>1, ProxyOngoing DEF LInv
    <1>5. CASE Client
        <2>1. Root \in alive
            BY <1>5, OthersLive
        <2> QED
            BY <1>5, <2>1, ClientOngoing DEF LInv
    <1> QED
        BY <1>2, <1>3, <1>4, <1>5 DEF Next

LEMMA OngoingInvariance ==
    ASSUME Attributable
    PROVE  Spec => []LInv
    <1>1. Init => LInv
        BY InitInv, InitOngoing DEF LInv
    <1>2. LInv /\ [Next]_vars => LInv'
        BY OngoingStep
    <1> QED
        BY <1>1, <1>2, PTL DEF Spec

\* At rest nothing is on its way: the event handled last tells what the engine does, and
\* where threads can be told apart it was booked for that engine's process.
THEOREM NoLeaseIsLeftBehind ==
    ASSUME Attributable
    PROVE  Spec => []NoStaleLease
    <1>1. LInv => NoStaleLease
        <2> SUFFICES ASSUME LInv, AtRest, NEW r \in Readers, r[1] \in Debugged,
                            Coord!ExecutionOwner(r[1]) = r[2]
                     PROVE  holder[r] # None
            BY DEF NoStaleLease
        <2>1. Root \in alive /\ r[1] \in alive /\ r \in Workers
            BY ReaderShape DEF Debugged
        <2>2. Leased(r) /\ Live(r[1])
            BY <2>1 DEF LInv, Ongoing, Live
        <2>3. call[r].at # "failed" /\ (Left(r) # None \/ call[r].at = "release")
            BY <2>2 DEF Leased
        <2>4. call[r] = Idle /\ inbox[r] = <<>>
            BY <2>1, <2>3 DEF AtRest, Lost
        <2> QED
            BY <2>3, <2>4, IdleTyped DEF Left
    <1> QED
        BY <1>1, OngoingInvariance, PTL

--------------------------------------------------------------------------------
\* CodeLLDB alone, resumed by requests that are forwarded as they are.
OneEngine == PythonProcesses = {} /\ Requests = {}

Snapshots == [epoch : Nat, isStopped : BOOLEAN, threads : SUBSET Threads,
              stoppedThreads : SUBSET Threads, allStopped : BOOLEAN]

SnapshotsTyped == \A p \in DOMAIN snapshots : snapshots[p] \in Snapshots

\* The watcher registers one process at a time, before it attaches it; the request
\* threads only bind threads; nothing is bound to the launched process that way.
OneCalls ==
    /\ \A w \in Workers \ Readers :
          w # Watcher => call[w].at \in {"idle", "bindThread", "failed"}
    /\ call[Watcher].at \in {"idle", "register"}
    /\ call[Watcher].at = "register" =>
          call[Watcher].process \in alive \ attached /\ call[Watcher].thread = Root
    /\ \A r \in Readers : call[r].at = "register" => call[r].thread = None
    /\ call[RootReader].at # "bindThread"
    /\ \A w \in Workers : call[w].at = "bindThread" => call[w].owner = "native"
    /\ \A q \in Listers : pending[q] # NoAnswer => pending[q].engine = "native"

\* A child is registered from its attachment to its end, the launched process from
\* its first stop at the latest, and only CodeLLDB owns anything.
OneTree ==
    /\ \A p \in Processes \ {Root} : p \in DOMAIN processes => p \in attached
    /\ \A p \in (alive \cap attached) \ {Root} : p \in DOMAIN processes
    /\ \A r \in Readers :
          Live(r[1]) /\ call[r].at \in {"stopBind", "acquire"} => r[1] \in DOMAIN processes
    /\ \A p : Coord!ExecutionOwner(p) \in {None, "native"}

\* What is shown of a process is how the last event that was handled left it, up
\* to the sections its handler has still to run.
Shown(r) ==
    Live(r[1]) =>
        /\ call[r].at # "failed"
        /\ call[r].at = "release" => Left(r) = None
        /\ Known(r[1]).isStopped <=> Left(r) # None
        /\ Left(r) # None => r[1] \in DOMAIN snapshots
        /\ Left(r) # None /\ call[r].at \notin Taking =>
              Coord!ExecutionOwner(r[1]) = "native"
        /\ call[r].at \in Taking \cup {"begin"} =>
              Left(r) # None /\ call[r].epoch = snapshots[r[1]].epoch
        /\ Left(r) # None /\ call[r].at \notin Taking \cup {"begin"} =>
              r[1] \in DOMAIN processEpochs /\ processEpochs[r[1]] = snapshots[r[1]].epoch

Watched == SnapshotsTyped /\ OneCalls /\ OneTree /\ \A r \in Readers : Shown(r)

WInv == LInv /\ (Root \in alive => Watched)

LEMMA OneReader ==
    ASSUME OneEngine, NEW r \in Readers
    PROVE  r[2] = "native" /\ r = <<r[1], "native">> /\ r[1] \in Processes /\ r[1] # None
           /\ r \in Workers
    BY ReaderShape DEF OneEngine, Readers, Engines

--------------------------------------------------------------------------------
\* Nothing has happened to what is shown of a process.
LEMMA ShownStays ==
    ASSUME NEW r \in Readers, Shown(r), Live(r[1])' => Live(r[1]),
           Left(r)' = Left(r), call'[r] = call[r],
           Known(r[1]).isStopped' = Known(r[1]).isStopped,
           r[1] \in DOMAIN snapshots =>
               r[1] \in DOMAIN snapshots' /\ snapshots'[r[1]].epoch = snapshots[r[1]].epoch,
           Coord!ExecutionOwner(r[1])' = Coord!ExecutionOwner(r[1]),
           r[1] \in DOMAIN processEpochs =>
               r[1] \in DOMAIN processEpochs' /\ processEpochs'[r[1]] = processEpochs[r[1]]
    PROVE  Shown(r)'
    BY DEF Shown

\* The sections after the first, of a process that has not been removed.
Kept(w, p) ==
    /\ \A q : q # p => Coord!ExecutionOwner(q)' = Coord!ExecutionOwner(q)
    /\ \A q : q # p /\ (call[w].at = "register" => q # call[w].thread) =>
          (q \in DOMAIN processes' <=> q \in DOMAIN processes)
    /\ call[w].at \notin Removing => DOMAIN processes \subseteq DOMAIN processes'
    /\ call[w].at \notin Removing \cup {"acquire", "release"} => leases' = leases
    /\ call[w].at = "stopRegister" => p \in DOMAIN processes'
    /\ call[w].at = "stopBind" /\ p \in DOMAIN processes => call'[w].at = "acquire"
    /\ call[w].at = "bindThread" /\ call[w].owner = "native" =>
          /\ DOMAIN processes' = DOMAIN processes
          /\ p \in DOMAIN processes => call'[w].at = "idle"
    /\ call[w].at = "acquire" /\ p \in DOMAIN processes
       /\ Coord!ExecutionOwner(p) \in {None, call[w].owner} =>
             Coord!ExecutionOwner(p)' = call[w].owner
    /\ call[w].at \in {"terminatedRemove", "remove"} =>
          p \notin DOMAIN processes' \cup DOMAIN leases'
    /\ call[w].at \notin {"terminatedRemove", "remove"} => DOMAIN processes \subseteq DOMAIN processes'

LEMMA RegisterAloneEffect ==
    ASSUME NEW p, NEW engine, Coord!RegisterProcess(p, None, engine)
    PROVE  DOMAIN processes' = DOMAIN processes \cup {p} /\ leases' = leases
    <1>1. /\ DOMAIN processes' = DOMAIN processes \cup {p} \cup ({None} \ {None})
          /\ leases' = leases
        BY RegisterEffect
    <1> QED
        BY <1>1

LEMMA HandlerKeeps ==
    ASSUME InCalls, NEW w \in Workers, HandlerStep(w), NEW p, p = call[w].process
    PROVE  Kept(w, p)
    <1>t. call[w].at \in Stages
        BY DEF InCalls, Calls
    <1>1. ASSUME NEW at \in Stages, call[w].at = at,
                 at \notin {"acquire", "release", "remove", "terminatedRemove", "bindThread",
                            "stopBind", "stopRegister"},
                 leases' = leases,
                 DOMAIN processes \subseteq DOMAIN processes',
                 \A q : q # p /\ (at = "register" => q # call[w].thread) =>
                    (q \in DOMAIN processes' <=> q \in DOMAIN processes)
          PROVE  Kept(w, p)
        BY <1>1 DEF Kept, Coord!ExecutionOwner
    <1>2. CASE RegisterCoordinator(w)
        <2>1. call[w].at = "register" /\ leases' = leases
              /\ \/ processes' = processes
                 \/ DOMAIN processes' = DOMAIN processes \cup {p} \cup ({call[w].thread} \ {None})
            BY <1>2, RegisterEffect
            DEF RegisterCoordinator, Coord!RegisterProcessRefused, Coord!coordinatorVars
        <2>2. /\ DOMAIN processes \subseteq DOMAIN processes'
              /\ \A q : q # p /\ q # call[w].thread =>
                    (q \in DOMAIN processes' <=> q \in DOMAIN processes)
            BY <2>1
        <2> QED
            BY <1>t, <1>1, <2>1, <2>2
    <1>3. CASE StoppedRegister(w)
        <2>1. call[w].at = "stopRegister" /\ leases' = leases
              /\ DOMAIN processes' = DOMAIN processes \cup {p}
            BY <1>3, RegisterAloneEffect DEF StoppedRegister
        <2> QED
            BY <2>1 DEF Kept, Coord!ExecutionOwner
    <1>4. CASE BindCoordinator(w)
        <2>0. call[w].at = "bindThread" /\ "failed" \in Stages
            BY <1>4 DEF BindCoordinator, Stages
        <2>1. CASE Coord!BindNativeThread(p, call[w].thread) /\ Return(w)
            <3>1. leases' = leases /\ DOMAIN processes' = DOMAIN processes
                BY <2>1 DEF Coord!BindNativeThread
            <3>2. call'[w].at = "idle"
                BY <2>1, Returns, IdleTyped DEF InCalls
            <3> QED
                BY <2>0, <3>1, <3>2 DEF Kept, Coord!ExecutionOwner
        <2>2. CASE Coord!BindRefused(p) /\ Goto(w, "failed")
            <3>1. leases' = leases /\ processes' = processes /\ p \notin DOMAIN processes
                BY <2>2 DEF Coord!BindRefused, Coord!coordinatorVars, Coord!Registered
            <3> QED
                BY <2>0, <3>1 DEF Kept, Coord!ExecutionOwner, Removing
        <2>3. CASE call[w].owner = "python" /\ Coord!RegisterProcess(p, None, "python")
                   /\ Return(w)
            <3>1. leases' = leases /\ DOMAIN processes' = DOMAIN processes \cup {p}
                BY <2>3, RegisterAloneEffect
            <3> QED
                BY <2>0, <2>3, <3>1 DEF Kept, Coord!ExecutionOwner
        <2> QED
            BY <1>4, <2>1, <2>2, <2>3 DEF BindCoordinator
    <1>5. CASE StoppedBind(w)
        <2>0. call[w].at = "stopBind" /\ "acquire" \in Stages
            BY <1>5 DEF StoppedBind, Stages, Taking
        <2>1. CASE Coord!BindNativeThread(p, call[w].thread) /\ Goto(w, "acquire")
            <3>1. leases' = leases /\ DOMAIN processes' = DOMAIN processes
                BY <2>1 DEF Coord!BindNativeThread
            <3>2. call'[w].at = "acquire"
                BY <2>0, <2>1, GoesTo DEF InCalls
            <3> QED
                BY <2>0, <3>1, <3>2 DEF Kept, Coord!ExecutionOwner
        <2>2. CASE Coord!BindRefused(p)
            <3>1. leases' = leases /\ processes' = processes /\ p \notin DOMAIN processes
                BY <2>2 DEF Coord!BindRefused, Coord!coordinatorVars, Coord!Registered
            <3> QED
                BY <2>0, <3>1 DEF Kept, Coord!ExecutionOwner
        <2> QED
            BY <1>5, <2>1, <2>2 DEF StoppedBind
    <1>6. CASE StoppedAcquire(w)
        <2>0. call[w].at = "acquire"
            BY <1>6 DEF StoppedAcquire
        <2>1. CASE Coord!AcquireStop(p, call[w].thread, call[w].owner)
            <3>1. /\ processes' = processes
                  /\ DOMAIN leases' = DOMAIN leases \cup {p}
                  /\ leases'[p].owner = call[w].owner
                  /\ \A q \in DOMAIN leases : q # p => leases'[q] = leases[q]
                BY <2>1 DEF Coord!AcquireStop, Coord!Put
            <3>2. Coord!ExecutionOwner(p)' = call[w].owner
                BY <3>1 DEF Coord!ExecutionOwner
            <3>3. ASSUME NEW q, q # p
                  PROVE  Coord!ExecutionOwner(q)' = Coord!ExecutionOwner(q)
                BY <3>1, <3>3 DEF Coord!ExecutionOwner
            <3> QED
                BY <2>0, <3>1, <3>2, <3>3 DEF Kept
        <2>2. CASE Coord!AcquireStopRefused(p, call[w].owner)
            <3>1. /\ processes' = processes /\ leases' = leases
                  /\ p \notin DOMAIN processes
                     \/ Coord!ExecutionOwner(p) \notin {None, call[w].owner}
                BY <2>2 DEF Coord!AcquireStopRefused, Coord!coordinatorVars, Coord!Registered
            <3>2. \A q : Coord!ExecutionOwner(q)' = Coord!ExecutionOwner(q)
                BY <3>1 DEF Coord!ExecutionOwner
            <3> QED
                BY <2>0, <3>1, <3>2 DEF Kept
        <2> QED
            BY <1>6, <2>1, <2>2 DEF StoppedAcquire
    <1>7. CASE ContinuedRelease(w)
        <2>0. call[w].at = "release"
            BY <1>7 DEF ContinuedRelease
        <2>1. /\ processes' = processes
              /\ \A q : q # p => (q \in DOMAIN leases' <=> q \in DOMAIN leases)
              /\ \A q \in DOMAIN leases : q # p => leases'[q] = leases[q]
            BY <1>7 DEF ContinuedRelease, Coord!ReleaseStop, Coord!Drop,
                        Coord!ReleaseStopRefused, Coord!coordinatorVars
        <2>2. ASSUME NEW q, q # p
              PROVE  Coord!ExecutionOwner(q)' = Coord!ExecutionOwner(q)
            BY <2>1, <2>2 DEF Coord!ExecutionOwner
        <2> QED
            BY <2>0, <2>1, <2>2 DEF Kept
    <1>8. CASE RemoveCoordinator(w) \/ TerminatedRemove(w)
        <2>0. call[w].at \in {"remove", "terminatedRemove"} /\ Coord!RemoveProcess(p)
            BY <1>8 DEF RemoveCoordinator, TerminatedRemove
        <2>1. /\ DOMAIN processes' = DOMAIN processes \ {p}
              /\ DOMAIN leases' = DOMAIN leases \ {p}
              /\ \A q \in DOMAIN leases' : leases'[q] = leases[q]
            BY <2>0, RemoveEffect
        <2>2. ASSUME NEW q, q # p
              PROVE  Coord!ExecutionOwner(q)' = Coord!ExecutionOwner(q)
            BY <2>1, <2>2 DEF Coord!ExecutionOwner
        <2> QED
            BY <2>0, <2>1, <2>2 DEF Kept, Removing
    <1>9. CASE \/ StoppedBeginEpoch(w) \/ StoppedBeginLegacy(w) \/ ContinuedClear(w)
               \/ ContinuedClearLegacy(w) \/ TerminatedForget(w) \/ TerminatedClear(w)
        <2>1. processes' = processes /\ leases' = leases
              /\ call[w].at \in {"begin", "beginLegacy", "clear", "clearLegacy", "terminated",
                                 "terminatedClear"}
            BY <1>9 DEF StoppedBeginEpoch, StoppedBeginLegacy, ContinuedClear,
               ContinuedClearLegacy, TerminatedForget, TerminatedClear, coordinatorVars
        <2> QED
            BY <1>t, <1>1, <2>1
    <1>10. CASE EndedList(w) \/ EndedRemove(w) \/ EndedClear(w)
        BY <1>10, <1>t DEF EndedList, EndedRemove, EndedClear, Stages, Taking, Removing
    <1> QED
        BY <1>2, <1>3, <1>4, <1>5, <1>6, <1>7, <1>8, <1>9, <1>10 DEF HandlerStep

\* The sections after the first begin an epoch or forget the process.
LEMMA HandlerShows ==
    ASSUME InCalls, NEW w \in Workers, HandlerStep(w), NEW p, p = call[w].process
    PROVE  /\ call[w].at # "terminated" => UNCHANGED <<snapshots, threadProcess, activeProcess>>
           /\ call[w].at = "terminated" => Forget(p)
           /\ call[w].at = "begin" =>
                 /\ p \in DOMAIN processEpochs' /\ processEpochs'[p] = call[w].epoch
                 /\ \A q \in DOMAIN processEpochs :
                       q # p => q \in DOMAIN processEpochs' /\ processEpochs'[q] = processEpochs[q]
           /\ call[w].at = "beginLegacy" =>
                 \A q \in DOMAIN processEpochs :
                       q # None => q \in DOMAIN processEpochs' /\ processEpochs'[q] = processEpochs[q]
           /\ call[w].at \notin {"begin", "beginLegacy"} => processEpochs' = processEpochs
    <1>t. call[w].at \in Stages
        BY DEF InCalls, Calls
    <1>1. CASE \/ RegisterCoordinator(w) \/ BindCoordinator(w)
               \/ StoppedRegister(w) \/ StoppedBind(w) \/ StoppedAcquire(w)
        <2>1. /\ UNCHANGED <<snapshots, threadProcess, activeProcess, processEpochs>>
              /\ call[w].at \in {"register", "bindThread", "stopRegister", "stopBind", "acquire"}
            BY <1>1 DEF RegisterCoordinator, BindCoordinator, StoppedRegister, StoppedBind,
               StoppedAcquire, tableVars, registryVars
        <2> QED
            BY <2>1
    <1>2. CASE ContinuedRelease(w) \/ RemoveCoordinator(w) \/ TerminatedRemove(w)
        <2>1. /\ UNCHANGED <<snapshots, threadProcess, activeProcess, processEpochs>>
              /\ call[w].at \in {"release", "remove", "terminatedRemove"}
            BY <1>2 DEF ContinuedRelease, RemoveCoordinator, TerminatedRemove, tableVars,
               registryVars
        <2> QED
            BY <2>1
    <1>3. CASE ContinuedClear(w) \/ ContinuedClearLegacy(w) \/ TerminatedClear(w)
        <2>1. /\ UNCHANGED <<snapshots, threadProcess, activeProcess, processEpochs>>
              /\ call[w].at \in {"clear", "clearLegacy", "terminatedClear"}
            BY <1>3 DEF ContinuedClear, ContinuedClearLegacy, TerminatedClear, tableVars,
               Registry!ClearCurrent
        <2> QED
            BY <2>1
    <1>4. CASE TerminatedForget(w)
        <2>1. call[w].at = "terminated" /\ Forget(p) /\ processEpochs' = processEpochs
            BY <1>4 DEF TerminatedForget, registryVars
        <2> QED
            BY <2>1
    <1>5. CASE StoppedBeginEpoch(w)
        <2>1. /\ UNCHANGED <<snapshots, threadProcess, activeProcess>> /\ call[w].at = "begin"
              /\ processEpochs' = [q \in DOMAIN processEpochs \cup {p} |->
                                      IF q = p THEN call[w].epoch ELSE processEpochs[q]]
            BY <1>5 DEF StoppedBeginEpoch, Registry!BeginEpoch, tableVars
        <2> QED
            BY <2>1
    <1>6. CASE StoppedBeginLegacy(w)
        <2>1. /\ UNCHANGED <<snapshots, threadProcess, activeProcess>>
              /\ call[w].at = "beginLegacy"
              /\ processEpochs' = [q \in DOMAIN processEpochs \cup {None} |->
                                      IF q = None THEN call[w].epoch ELSE processEpochs[q]]
            BY <1>6 DEF StoppedBeginLegacy, Registry!BeginEpoch, tableVars
        <2> QED
            BY <2>1
    <1>7. CASE EndedList(w) \/ EndedRemove(w) \/ EndedClear(w)
        BY <1>7, <1>t DEF EndedList, EndedRemove, EndedClear, Stages, Taking, Removing
    <1> QED
        BY <1>1, <1>2, <1>3, <1>4, <1>5, <1>6, <1>7 DEF HandlerStep

--------------------------------------------------------------------------------
\* The tables, the handlers and the registrations are as they were.
LEMMA WatchedStays ==
    ASSUME Watched, UNCHANGED sessionVars, attached' = attached,
           alive' \cap attached \subseteq alive, alive \ attached \subseteq alive',
           \A r \in Readers : Live(r[1])' => Live(r[1]) /\ Left(r)' = Left(r),
           \A q \in Listers : pending'[q] # NoAnswer => pending'[q].engine = "native"
    PROVE  Watched'
    <1>1. /\ UNCHANGED <<snapshots, call, processes, leases>>
          /\ UNCHANGED processEpochs
        BY DEF sessionVars, tableVars, coordinatorVars, registryVars
    <1>2. SnapshotsTyped'
        BY <1>1 DEF Watched, SnapshotsTyped, Snapshots
    <1>3. OneCalls'
        BY <1>1 DEF Watched, OneCalls, RootReader
    <1>4. \A p : Coord!ExecutionOwner(p)' = Coord!ExecutionOwner(p)
        BY <1>1 DEF Coord!ExecutionOwner
    <1>5. OneTree'
        BY <1>1, <1>4 DEF Watched, OneTree
    <1>6. ASSUME NEW r \in Readers, Live(r[1])'
          PROVE  Shown(r)'
        <2>1. Known(r[1])' = Known(r[1])
            BY <1>1 DEF Known
        <2> QED
            BY <1>1, <1>4, <1>6, <2>1, ShownStays DEF Watched
    <1>7. \A r \in Readers : Shown(r)'
        BY <1>6 DEF Shown
    <1> QED
        BY <1>2, <1>3, <1>5, <1>7 DEF Watched

LEMMA RunsLeft ==
    ASSUME IInv, NEW r \in Readers, EngineRuns(r)
    PROVE  \A s \in Readers : Left(s)' = Left(s)
    <1> DEFINE h == holder[r]
               e == Event("continued", h)
    <1>1. /\ holder[r] # None /\ holder' = [holder EXCEPT ![r] = None] /\ Send(r, e)
          /\ DOMAIN holder = Readers
        BY DEF EngineRuns, IInv, Connections
    <1>2. e \in EventsOf(r) /\ e.kind = "continued" /\ e.thread = h
        BY <1>1 DEF IInv, Connections, Event, EventsOf, Kinds
    <1> HIDE DEF e
    <1>3. inbox[r] = <<>> => holder[r] = IF e.kind = "continued" THEN e.thread ELSE None
        BY <1>2
    <1>4. Left(r)' = Left(r) /\ \A s \in Readers : s # r => inbox'[s] = inbox[s]
        BY <1>1, <1>2, <1>3, LeftSent DEF IInv
    <1>5. \A s \in Readers : s # r => holder'[s] = holder[s]
        BY <1>1
    <1> QED
        BY <1>4, <1>5 DEF Left, AtHand

LEMMA StopsLeft ==
    ASSUME IInv, NEW r \in Readers, NEW t \in ThreadsOf(r), EngineStops(r, t)
    PROVE  \A s \in Readers : Left(s)' = Left(s)
    <1> DEFINE e == Event("stopped", t)
    <1>1. /\ holder[r] = None /\ holder' = [holder EXCEPT ![r] = t] /\ Send(r, e)
          /\ DOMAIN holder = Readers
        BY DEF EngineStops, IInv, Connections
    <1>2. e \in EventsOf(r) /\ e.kind = "stopped"
        BY DEF Event, EventsOf, Kinds
    <1> HIDE DEF e
    <1>3. inbox[r] = <<>> => holder[r] = IF e.kind = "continued" THEN e.thread ELSE None
        BY <1>1, <1>2
    <1>4. Left(r)' = Left(r) /\ \A s \in Readers : s # r => inbox'[s] = inbox[s]
        BY <1>1, <1>2, <1>3, LeftSent DEF IInv
    <1>5. \A s \in Readers : s # r => holder'[s] = holder[s]
        BY <1>1
    <1> QED
        BY <1>4, <1>5 DEF Left, AtHand

LEMMA WorldWatched ==
    ASSUME OneEngine, IInv, Ongoing, Watched, World
    PROVE  Watched'
    <1>0. \A q \in Listers : pending[q] # NoAnswer => pending[q].engine = "native"
        BY DEF Watched, OneCalls
    <1>1. ASSUME NEW r \in Readers, EngineResumes(r)
          PROVE  Watched'
        <2>1. EngineRuns(r) /\ UNCHANGED <<sessionVars, alive, attached, pending>>
            BY <1>1 DEF EngineResumes
        <2>2. \A s \in Readers : Left(s)' = Left(s) /\ (Live(s[1])' <=> Live(s[1]))
            BY <2>1, RunsLeft DEF Live
        <2> QED
            BY <1>0, <2>1, <2>2, WatchedStays
    <1>2. ASSUME NEW r \in Readers, NEW t \in ThreadsOf(r), EngineStops(r, t)
          PROVE  Watched'
        <2>1. UNCHANGED <<sessionVars, alive, attached, pending>>
            BY <1>2 DEF EngineStops
        <2>2. \A s \in Readers : Left(s)' = Left(s) /\ (Live(s[1])' <=> Live(s[1]))
            BY <1>2, <2>1, StopsLeft DEF Live
        <2> QED
            BY <1>0, <2>1, <2>2, WatchedStays
    <1>3. ASSUME NEW p \in Processes, ProcessStarts(p)
          PROVE  Watched'
        <2>1. /\ UNCHANGED <<sessionVars, attached, holder, inbox, pending>>
              /\ alive' = alive \cup {p} /\ p \notin attached
            BY <1>3 DEF ProcessStarts
        <2>2. \A s \in Readers : Left(s)' = Left(s) /\ (Live(s[1])' => Live(s[1]))
            BY <2>1 DEF Live, Left, AtHand
        <2> QED
            BY <1>0, <2>1, <2>2, WatchedStays
    <1>4. ASSUME NEW p \in Processes, ProcessExits(p)
          PROVE  Watched'
        <2>1. /\ UNCHANGED <<sessionVars, attached, pending>>
              /\ alive' = alive \ {p} /\ p \in attached
              /\ \A s \in Readers : s[1] # p => inbox'[s] = inbox[s] /\ holder'[s] = holder[s]
            BY <1>4 DEF ProcessExits
        <2>2. ASSUME NEW s \in Readers, Live(s[1])'
              PROVE  Live(s[1]) /\ Left(s)' = Left(s)
            <3>1. s[1] # p /\ Live(s[1])
                BY <2>1, <2>2 DEF Live
            <3> QED
                BY <2>1, <3>1 DEF Left, AtHand
        <2> QED
            BY <1>0, <2>1, <2>2, WatchedStays
    <1> QED
        BY <1>1, <1>2, <1>3, <1>4 DEF World

LEMMA ClientWatched ==
    ASSUME OneEngine, IInv, Ongoing, Watched, Client
    PROVE  Watched'
    <1>0. PICK q \in Listers, r \in Readers : \E t \in ThreadsOf(r) : RequestLists(q, r, t)
        BY DEF OneEngine, Client
    <1>1. PICK t \in ThreadsOf(r) : RequestLists(q, r, t)
        BY <1>0
    <1>2. /\ UNCHANGED <<sessionVars, alive, attached, holder, inbox>>
          /\ pending' = [pending EXCEPT ![q] = [process |-> r[1], engine |-> r[2], thread |-> t]]
        BY <1>1 DEF RequestLists
    <1>3. \A s \in Readers : Left(s)' = Left(s) /\ (Live(s[1])' <=> Live(s[1]))
        BY <1>2 DEF Live, Left, AtHand
    <1>4. r[2] = "native" /\ DOMAIN pending = Requests \cup Listers
        BY OneReader DEF IInv, Answers
    <1>5. \A o \in Listers : pending'[o] # NoAnswer => pending'[o].engine = "native"
        BY <1>2, <1>4 DEF Watched, OneCalls
    <1> QED
        BY <1>2, <1>3, <1>5, WatchedStays

--------------------------------------------------------------------------------
\* What the sections of a handler do to the calls and the registrations.
LEMMA HandlerOneCalls ==
    ASSUME OneEngine, IInv, Ongoing, Watched, NEW w \in Workers, w # Watcher, HandlerStep(w),
           UNCHANGED worldVars
    PROVE  OneCalls'
    <1>1. /\ \A v \in Workers : v # w => call'[v] = call[v]
          /\ Moves(w)
        BY HandlerMoves DEF Ongoing
    <1>2. OneCalls /\ UNCHANGED <<alive, attached, pending>> /\ Watcher \in Workers
          /\ RootReader \in Workers /\ Readers \subseteq Workers
        BY SessionAssumption, RootIsReader DEF Watched, worldVars
    <1>3. /\ call'[w].at \notin {"register", "bindThread"}
          /\ call'[w].at \in {"idle", "failed"} \/ call[w].at \notin {"idle", "bindThread", "failed"}
        BY <1>1, IdleTyped DEF Moves, Sections
    <1>4. ASSUME NEW v \in Workers \ Readers, v # Watcher
          PROVE  call'[v].at \in {"idle", "bindThread", "failed"}
        BY <1>1, <1>2, <1>3, <1>4 DEF OneCalls
    <1>5. \A r \in Readers : call'[r].at = "register" => call'[r].thread = None
        BY <1>1, <1>2, <1>3 DEF OneCalls
    <1>6. call'[RootReader].at # "bindThread"
        BY <1>1, <1>2, <1>3 DEF OneCalls
    <1>7. \A v \in Workers : call'[v].at = "bindThread" => call'[v].owner = "native"
        BY <1>1, <1>2, <1>3 DEF OneCalls
    <1>8. call'[Watcher] = call[Watcher]
        BY <1>1, <1>2
    <1>9. RootReader' = RootReader
        BY DEF RootReader
    <1> QED
        BY <1>2, <1>4, <1>5, <1>6, <1>7, <1>8, <1>9 DEF OneCalls

LEMMA HandlerOneTree ==
    ASSUME OneEngine, IInv, Ongoing, Root \in alive, Watched, NEW w \in Workers, w # Watcher,
           HandlerStep(w), UNCHANGED worldVars
    PROVE  OneTree'
    <1>1. /\ \A v \in Workers : v # w => call'[v] = call[v]
          /\ Moves(w)
        BY HandlerMoves DEF Ongoing
    <1>2. OneTree /\ OneCalls /\ UNCHANGED <<alive, attached>> /\ Readers \subseteq Workers
          /\ HomeCall(w, call[w]) /\ LeasedRegistered /\ InCalls
        BY SessionAssumption DEF Watched, worldVars, Ongoing, InCalls
    <1>3. PICK p : p = call[w].process
        OBVIOUS
    <1>4. Kept(w, p)
        BY <1>2, <1>3, HandlerKeeps
    <1>5. \A q : Coord!ExecutionOwner(q)' \in {None, Coord!ExecutionOwner(q)}
                     \/ (q = p /\ call[w].at = "acquire"
                         /\ Coord!ExecutionOwner(q)' = call[w].owner)
        BY <1>2, <1>3, HandlerLeases
    <1>6. call[w].at # "idle"
        BY <1>1 DEF Moves, Sections
    <1>7. CASE w \in Readers
        <2>1. w[2] = "native" /\ w[1] \in Processes /\ w[1] # None /\ w = <<w[1], "native">>
            BY <1>7, OneReader
        <2>2. p = w[1] /\ (call[w].at \in Taking => call[w].owner = "native")
              /\ (call[w].at \in Removing => ~ Live(p))
            BY <1>2, <1>3, <1>6, <1>7, <2>1 DEF HomeCall
        <2>3. p \in attached
            BY <1>6, <1>7, <2>2, IdleTyped DEF Ongoing, Births
        <2>4. \A q : q \notin {p, None} => (q \in DOMAIN processes' <=> q \in DOMAIN processes)
            BY <1>2, <1>4, <1>7 DEF Kept, OneCalls
        <2>5. Live(p) => DOMAIN processes \subseteq DOMAIN processes'
            BY <1>4, <2>2 DEF Kept
        <2>6. \A q \in Processes \ {Root} : q \in DOMAIN processes' => q \in attached
            BY <1>2, <2>3, <2>4, SessionAssumption DEF OneTree
        <2>7. \A q \in (alive \cap attached) \ {Root} : q \in DOMAIN processes'
            <3> SUFFICES ASSUME NEW q \in (alive \cap attached) \ {Root}
                         PROVE  q \in DOMAIN processes'
                OBVIOUS
            <3>1. q \in DOMAIN processes /\ q # None /\ Live(q)
                BY <1>2, SessionAssumption DEF OneTree, Ongoing, Births, Live
            <3> QED
                BY <2>4, <2>5, <3>1
        <2>8. ASSUME NEW r \in Readers, Live(r[1]), call'[r].at \in {"stopBind", "acquire"}
              PROVE  r[1] \in DOMAIN processes'
            <3>1. CASE r = w
                <4>1. call[w].at \in {"stopRegister", "stopBind"}
                    BY <1>1, <2>8, <3>1, IdleTyped DEF Moves, Sections
                <4>2. CASE call[w].at = "stopRegister"
                    BY <1>4, <2>2, <3>1, <4>2 DEF Kept
                <4>3. CASE call[w].at = "stopBind"
                    BY <1>2, <2>2, <2>5, <2>8, <3>1, <4>3 DEF OneTree
                <4> QED
                    BY <4>1, <4>2, <4>3
            <3>2. CASE r # w
                <4>1. r[1] # p /\ r[1] # None /\ call'[r] = call[r]
                    BY <1>1, <1>2, <2>1, <2>2, <3>2, OneReader
                <4>2. r[1] \in DOMAIN processes
                    BY <1>2, <2>8, <4>1 DEF OneTree
                <4> QED
                    BY <2>4, <4>1, <4>2
            <3> QED
                BY <3>1, <3>2
        <2>9. \A q : Coord!ExecutionOwner(q)' \in {None, "native"}
            BY <1>2, <1>5, <2>2 DEF OneTree, Taking
        <2> QED
            BY <1>2, <2>6, <2>7, <2>8, <2>9 DEF OneTree, Live
    <1>8. CASE w \notin Readers
        <2>1. call[w].at = "bindThread" /\ call[w].owner = "native"
            BY <1>1, <1>2, <1>6, <1>8 DEF OneCalls, Moves, Sections
        <2>2. DOMAIN processes' = DOMAIN processes /\ leases' = leases
            BY <1>4, <2>1 DEF Kept, Removing
        <2>3. \A r \in Readers : call'[r] = call[r]
            BY <1>1, <1>2, <1>8
        <2>4. \A q : Coord!ExecutionOwner(q)' = Coord!ExecutionOwner(q)
            BY <2>2 DEF Coord!ExecutionOwner
        <2> QED
            BY <1>2, <2>2, <2>3, <2>4 DEF OneTree, Live
    <1> QED
        BY <1>7, <1>8

LEMMA HandlerSnapshots ==
    ASSUME InCalls, SnapshotsTyped, NEW w \in Workers, HandlerStep(w)
    PROVE  SnapshotsTyped'
    <1>1. PICK p : p = call[w].process
        OBVIOUS
    <1>2. UNCHANGED snapshots \/ Forget(p)
        BY <1>1, HandlerShows
    <1>3. snapshots' = snapshots \/ snapshots' = Without(snapshots, {p})
        BY <1>2 DEF Forget
    <1> QED
        BY <1>3 DEF SnapshotsTyped, Snapshots, Without

\* What is shown of the processes of the other connections, and of the handler's own.
LEMMA HandlerShownElse ==
    ASSUME OneEngine, IInv, Ongoing, Watched, NEW w \in Workers, w # Watcher,
           HandlerStep(w), UNCHANGED worldVars, NEW r \in Readers, r # w
    PROVE  Shown(r)'
    <1>1. /\ \A v \in Workers : v # w => call'[v] = call[v]
          /\ Moves(w)
        BY HandlerMoves DEF Ongoing
    <1>2. OneCalls /\ UNCHANGED <<alive, attached, inbox, holder>> /\ Shown(r)
          /\ HomeCall(w, call[w]) /\ InCalls
        BY DEF Watched, worldVars, Ongoing, InCalls
    <1>3. PICK p : p = call[w].process
        OBVIOUS
    <1>4. Kept(w, p)
        BY <1>2, <1>3, HandlerKeeps
    <1>5. /\ call[w].at # "terminated" => UNCHANGED <<snapshots, threadProcess, activeProcess>>
          /\ call[w].at = "terminated" => Forget(p)
          /\ call[w].at = "begin" =>
                 \A q \in DOMAIN processEpochs :
                       q # p => q \in DOMAIN processEpochs' /\ processEpochs'[q] = processEpochs[q]
          /\ call[w].at = "beginLegacy" =>
                 \A q \in DOMAIN processEpochs :
                       q # None => q \in DOMAIN processEpochs' /\ processEpochs'[q] = processEpochs[q]
          /\ call[w].at \notin {"begin", "beginLegacy"} => processEpochs' = processEpochs
        BY <1>2, <1>3, HandlerShows
    <1>6. call[w].at # "idle" /\ r \in Workers /\ r[1] # None
        BY <1>1, ReaderShape DEF Moves, Sections
    <1>7. CASE w \in Readers
        <2>1. p = w[1] /\ r[1] # p
            BY <1>2, <1>3, <1>6, <1>7, OneReader DEF HomeCall
        <2>2. Coord!ExecutionOwner(r[1])' = Coord!ExecutionOwner(r[1])
            BY <1>4, <2>1 DEF Kept
        <2>3. snapshots' = snapshots \/ snapshots' = Without(snapshots, {p})
            BY <1>5 DEF Forget
        <2>4. /\ Known(r[1])' = Known(r[1])
              /\ r[1] \in DOMAIN snapshots =>
                     r[1] \in DOMAIN snapshots' /\ snapshots'[r[1]] = snapshots[r[1]]
            BY <2>1, <2>3 DEF Known, Without
        <2>5. r[1] \in DOMAIN processEpochs =>
                 r[1] \in DOMAIN processEpochs' /\ processEpochs'[r[1]] = processEpochs[r[1]]
            BY <1>5, <1>6, <2>1
        <2>6. call'[r] = call[r] /\ Left(r)' = Left(r) /\ (Live(r[1])' <=> Live(r[1]))
            BY <1>1, <1>2, <1>6 DEF Left, AtHand, Live
        <2> QED
            BY <1>2, <2>2, <2>4, <2>5, <2>6, ShownStays
    <1>8. CASE w \notin Readers
        <2>1. call[w].at = "bindThread"
            BY <1>1, <1>2, <1>6, <1>8 DEF OneCalls, Moves, Sections
        <2>2. leases' = leases
            BY <1>4, <2>1 DEF Kept, Removing
        <2>3. Coord!ExecutionOwner(r[1])' = Coord!ExecutionOwner(r[1])
            BY <2>2 DEF Coord!ExecutionOwner
        <2>4. UNCHANGED snapshots /\ processEpochs' = processEpochs
            BY <1>5, <2>1
        <2>5. Known(r[1])' = Known(r[1])
            BY <2>4 DEF Known
        <2>6. call'[r] = call[r] /\ Left(r)' = Left(r) /\ (Live(r[1])' <=> Live(r[1]))
            BY <1>1, <1>2, <1>6 DEF Left, AtHand, Live
        <2> QED
            BY <1>2, <2>3, <2>4, <2>5, <2>6, ShownStays
    <1> QED
        BY <1>7, <1>8

LEMMA HandlerShownOwn ==
    ASSUME OneEngine, IInv, Ongoing, Watched, NEW r \in Readers,
           HandlerStep(r), UNCHANGED worldVars
    PROVE  Shown(r)'
    <1>0. r \in Workers /\ r[2] = "native" /\ r[1] \in Processes /\ r[1] # None
        BY OneReader
    <1>1. Moves(r)
        BY <1>0, HandlerMoves DEF Ongoing
    <1>2. OneCalls /\ OneTree /\ UNCHANGED <<alive, attached, inbox, holder>> /\ Shown(r)
          /\ HomeCall(r, call[r]) /\ InCalls /\ Leased(r)
        BY <1>0 DEF Watched, worldVars, Ongoing, InCalls
    <1>3. PICK p : p = call[r].process
        OBVIOUS
    <1>4. Kept(r, p)
        BY <1>0, <1>2, <1>3, HandlerKeeps
    <1>5. /\ call[r].at # "terminated" => UNCHANGED <<snapshots, threadProcess, activeProcess>>
          /\ call[r].at = "begin" =>
                 p \in DOMAIN processEpochs' /\ processEpochs'[p] = call[r].epoch
          /\ call[r].at = "beginLegacy" =>
                 \A q \in DOMAIN processEpochs :
                       q # None => q \in DOMAIN processEpochs' /\ processEpochs'[q] = processEpochs[q]
          /\ call[r].at \notin {"begin", "beginLegacy"} => processEpochs' = processEpochs
        BY <1>0, <1>2, <1>3, HandlerShows
    <1>6. call[r].at # "idle"
        BY <1>1 DEF Moves, Sections
    <1>7. p = r[1] /\ (call[r].at \in Taking => call[r].owner = "native")
        BY <1>0, <1>2, <1>3, <1>6 DEF HomeCall
    <1>8. Left(r)' = Left(r) /\ (Live(r[1])' <=> Live(r[1]))
        BY <1>2 DEF Left, AtHand, Live
    <1> SUFFICES ASSUME Live(r[1])
                 PROVE  Shown(r)'
        BY <1>8 DEF Shown
    <1>9. call[r].at \notin Removing
        BY <1>2, <1>0 DEF HomeCall
    <1>10. snapshots' = snapshots
        BY <1>5, <1>9 DEF Removing
    <1>11. Known(r[1])' = Known(r[1])
        BY <1>10 DEF Known
    <1>12. call'[r].at # "failed"
        <2> SUFFICES ASSUME call[r].at = "bindThread"
                     PROVE  call'[r].at # "failed"
            BY <1>1, IdleTyped DEF Moves, Sections
        <2>1. r # RootReader
            BY <1>2 DEF OneCalls
        <2>2. r[1] # Root
            BY <2>1, OneReader DEF RootReader
        <2>3. r[1] \in attached
            BY <1>6, IdleTyped DEF Ongoing, Births
        <2>4. r[1] \in DOMAIN processes
            BY <1>0, <1>2, <2>2, <2>3 DEF OneTree, Live
        <2>5. call[r].owner = "native"
            BY <1>0, <1>2 DEF OneCalls
        <2> QED
            BY <1>4, <1>7, <2>4, <2>5 DEF Kept
    <1>13. call'[r].at # "release"
        BY <1>1, IdleTyped DEF Moves, Sections
    <1>14. Known(r[1]).isStopped <=> Left(r) # None
        BY <1>2 DEF Shown
    <1>15. Left(r) # None => r[1] \in DOMAIN snapshots
        BY <1>2 DEF Shown
    <1>16. Left(r) # None /\ call'[r].at \notin Taking => Coord!ExecutionOwner(r[1])' = "native"
        <2> SUFFICES ASSUME Left(r) # None, call'[r].at \notin Taking
                     PROVE  Coord!ExecutionOwner(r[1])' = "native"
            OBVIOUS
        <2>1. CASE call[r].at = "acquire"
            <3>1. p \in DOMAIN processes
                BY <1>2, <1>7, <2>1 DEF OneTree
            <3>2. Coord!ExecutionOwner(p) \in {None, call[r].owner} /\ call[r].owner = "native"
                BY <1>2, <1>7, <2>1 DEF OneTree, Taking
            <3> QED
                BY <1>4, <1>7, <2>1, <3>1, <3>2 DEF Kept
        <2>2. CASE call[r].at # "acquire"
            <3>1. call[r].at # "stopRegister"
                BY <1>1, IdleTyped DEF Moves, Sections, Taking
            <3>2. call[r].at # "stopBind"
                <4> SUFFICES ASSUME call[r].at = "stopBind"
                             PROVE  FALSE
                    OBVIOUS
                <4>1. r[1] \in DOMAIN processes
                    BY <1>2 DEF OneTree
                <4> QED
                    BY <1>4, <1>7, <4>1 DEF Kept, Taking
            <3>3. call[r].at \notin Taking /\ call[r].at # "release"
                BY <1>2, <2>2, <3>1, <3>2 DEF Shown, Taking
            <3>4. Coord!ExecutionOwner(r[1]) = "native"
                BY <1>2, <3>3 DEF Shown
            <3>5. leases' = leases
                BY <1>4, <1>9, <2>2, <3>3 DEF Kept
            <3> QED
                BY <3>4, <3>5 DEF Coord!ExecutionOwner
        <2> QED
            BY <2>1, <2>2
    <1>17. call'[r].at \in Taking \cup {"begin"} =>
               Left(r) # None /\ call'[r].epoch = snapshots[r[1]].epoch
        <2> SUFFICES ASSUME call'[r].at \in Taking \cup {"begin"}
                     PROVE  Left(r) # None /\ call'[r].epoch = snapshots[r[1]].epoch
            OBVIOUS
        <2>1. call[r].at \in Taking /\ call'[r].epoch = call[r].epoch
            BY <1>1, IdleTyped DEF Moves, Sections, Taking
        <2> QED
            BY <1>2, <2>1 DEF Shown
    <1>18. Left(r) # None /\ call'[r].at \notin Taking \cup {"begin"} =>
               r[1] \in DOMAIN processEpochs' /\ processEpochs'[r[1]] = snapshots[r[1]].epoch
        <2> SUFFICES ASSUME Left(r) # None, call'[r].at \notin Taking \cup {"begin"}
                     PROVE  r[1] \in DOMAIN processEpochs'
                            /\ processEpochs'[r[1]] = snapshots[r[1]].epoch
            OBVIOUS
        <2>1. CASE call[r].at = "begin"
            BY <1>2, <1>5, <1>7, <2>1 DEF Shown
        <2>2. CASE call[r].at # "begin"
            <3>1. call[r].at \notin Taking
                BY <1>1, <2>2, IdleTyped DEF Moves, Sections, Taking
            <3>2. r[1] \in DOMAIN processEpochs /\ processEpochs[r[1]] = snapshots[r[1]].epoch
                BY <1>2, <2>2, <3>1 DEF Shown
            <3> QED
                BY <1>0, <1>5, <2>2, <3>2
        <2> QED
            BY <2>1, <2>2
    <1> QED
        BY <1>8, <1>10, <1>11, <1>12, <1>13, <1>14, <1>15, <1>16, <1>17, <1>18 DEF Shown

LEMMA HandlerWatched ==
    ASSUME OneEngine, IInv, Ongoing, Root \in alive, Watched, NEW w \in Workers, w # Watcher,
           HandlerStep(w), UNCHANGED worldVars
    PROVE  Watched'
    <1>1. SnapshotsTyped'
        BY HandlerSnapshots DEF Watched, Ongoing
    <1>2. OneCalls' /\ OneTree'
        BY HandlerOneCalls, HandlerOneTree
    <1>3. ASSUME NEW r \in Readers
          PROVE  Shown(r)'
        BY HandlerShownElse, HandlerShownOwn
    <1> QED
        BY <1>1, <1>2, <1>3 DEF Watched

--------------------------------------------------------------------------------
\* A worker has entered or left a handler: what that changes for the others.
LEMMA StepWatched ==
    ASSUME OneEngine, IInv, Ongoing, Watched, NEW w \in Workers,
           call' \in [Workers -> Calls], \A v \in Workers : v # w => call'[v] = call[v],
           call'[w].at \notin {"stopBind", "acquire"},
           \A s \in Readers : s # w => inbox'[s] = inbox[s],
           UNCHANGED <<alive, attached, holder, processes, leases>>,
           processEpochs' = processEpochs,
           \A s \in Readers : s # w =>
               /\ Known(s[1]).isStopped' = Known(s[1]).isStopped
               /\ s[1] \in DOMAIN snapshots =>
                     s[1] \in DOMAIN snapshots' /\ snapshots'[s[1]].epoch = snapshots[s[1]].epoch
    PROVE  /\ OneTree'
           /\ \A s \in Readers : s # w => Shown(s)'
    <1>1. \A p : Coord!ExecutionOwner(p)' = Coord!ExecutionOwner(p)
        BY DEF Coord!ExecutionOwner
    <1>2. \A s \in Readers : s \in Workers
        BY ReaderShape
    <1>3. \A s \in Readers : call'[s].at \in {"stopBind", "acquire"} => call'[s] = call[s]
        BY <1>2
    <1>4. OneTree'
        BY <1>1, <1>3 DEF Watched, OneTree, Live
    <1>5. ASSUME NEW s \in Readers, s # w
          PROVE  Shown(s)'
        <2>1. call'[s] = call[s] /\ Left(s)' = Left(s) /\ (Live(s[1])' <=> Live(s[1]))
            BY <1>2, <1>5 DEF Left, AtHand, Live
        <2> QED
            BY <1>1, <1>5, <2>1, ShownStays DEF Watched
    <1> QED
        BY <1>4, <1>5

\* Writing a process down changes neither whether it is stopped nor its epoch.
LEMMA NotedKnown ==
    ASSUME SnapshotsTyped, NEW p, NEW s \in Snapshots, s.isStopped = Known(p).isStopped,
           s.epoch = Known(p).epoch, snapshots' = Put(snapshots, p, s)
    PROVE  /\ SnapshotsTyped'
           /\ \A q : /\ Known(q).isStopped' = Known(q).isStopped
                     /\ q \in DOMAIN snapshots =>
                           q \in DOMAIN snapshots' /\ snapshots'[q].epoch = snapshots[q].epoch
    <1>1. /\ DOMAIN snapshots' = DOMAIN snapshots \cup {p}
          /\ snapshots'[p] = s
          /\ \A q \in DOMAIN snapshots : q # p => snapshots'[q] = snapshots[q]
        BY DEF Put
    <1>2. SnapshotsTyped'
        BY <1>1 DEF SnapshotsTyped, Snapshots
    <1>3. ASSUME NEW q
          PROVE  /\ Known(q).isStopped' = Known(q).isStopped
                 /\ q \in DOMAIN snapshots =>
                       q \in DOMAIN snapshots' /\ snapshots'[q].epoch = snapshots[q].epoch
        <2>1. CASE q = p
            BY <1>1, <2>1 DEF Known
        <2>2. CASE q # p
            BY <1>1, <2>2 DEF Known
        <2> QED
            BY <2>1, <2>2
    <1> QED
        BY <1>2, <1>3

LEMMA KnownTyped ==
    ASSUME SnapshotsTyped, NEW p
    PROVE  Known(p) \in Snapshots
    BY DEF SnapshotsTyped, Snapshots, Known, NewSnapshot

\* The worker has gone on in a handler that is of no concern here.
LEMMA OneCallsStep ==
    ASSUME OneCalls, NEW w \in Workers, \A v \in Workers : v # w => call'[v] = call[v],
           UNCHANGED <<alive, attached>>,
           w \notin Readers /\ w # Watcher => call'[w].at \in {"idle", "bindThread", "failed"},
           w = Watcher => /\ call'[w].at \in {"idle", "register"}
                          /\ call'[w].at = "register" =>
                                call'[w].process \in alive \ attached /\ call'[w].thread = Root,
           w \in Readers /\ call'[w].at = "register" => call'[w].thread = None,
           call'[w].at = "bindThread" => w # RootReader /\ call'[w].owner = "native",
           \A q \in Listers : pending'[q] # NoAnswer => pending'[q].engine = "native"
    PROVE  OneCalls'
    <1>1. Watcher \in Workers /\ RootReader \in Workers /\ Readers \subseteq Workers
        BY SessionAssumption, RootIsReader
    <1>2. \A v \in Workers \ Readers : v # Watcher => call'[v].at \in {"idle", "bindThread", "failed"}
        BY DEF OneCalls
    <1>3. /\ call'[Watcher].at \in {"idle", "register"}
          /\ call'[Watcher].at = "register" =>
                call'[Watcher].process \in alive \ attached /\ call'[Watcher].thread = Root
        <2>1. CASE w = Watcher
            BY <2>1
        <2>2. CASE w # Watcher
            BY <1>1, <2>2 DEF OneCalls
        <2> QED
            BY <2>1, <2>2
    <1>4. \A r \in Readers : call'[r].at = "register" => call'[r].thread = None
        BY <1>1 DEF OneCalls
    <1>5. call'[RootReader].at # "bindThread"
        BY <1>1 DEF OneCalls
    <1>6. \A v \in Workers : call'[v].at = "bindThread" => call'[v].owner = "native"
        BY DEF OneCalls
    <1>7. RootReader' = RootReader
        BY DEF RootReader
    <1> QED
        BY <1>2, <1>3, <1>4, <1>5, <1>6, <1>7 DEF OneCalls

LEMMA RegistersWatched ==
    ASSUME Attributable, OneEngine, IInv, Ongoing, Watched, NEW p \in Processes, WatcherRegisters(p)
    PROVE  Watched'
    <1>1. /\ RegisterSnapshot(Watcher, p, Root, "native")
          /\ UNCHANGED <<alive, attached, holder, inbox, pending>>
          /\ Watcher \in Workers /\ Watcher \notin Readers /\ Root \in Processes
          /\ p \in alive \ attached
        BY SessionAssumption DEF WatcherRegisters, worldVars, Attributable
    <1>2. /\ call' \in [Workers -> Calls]
          /\ \A v \in Workers : v # Watcher => call'[v] = call[v]
          /\ call'[Watcher].at = "register" /\ call'[Watcher].process = p
          /\ call'[Watcher].thread = Root
          /\ UNCHANGED <<processes, leases>>
          /\ UNCHANGED processEpochs
          /\ snapshots' = Put(snapshots, p, Known(p))
        BY <1>1, RegisterEnters
    <1>3. /\ SnapshotsTyped'
          /\ \A q : /\ Known(q).isStopped' = Known(q).isStopped
                    /\ q \in DOMAIN snapshots =>
                          q \in DOMAIN snapshots' /\ snapshots'[q].epoch = snapshots[q].epoch
        BY <1>2, KnownTyped, NotedKnown DEF Watched
    <1>4. OneTree' /\ \A s \in Readers : s # Watcher => Shown(s)'
        BY <1>1, <1>2, <1>3, StepWatched
    <1>5. OneCalls'
        BY <1>1, <1>2, OneCallsStep, SessionAssumption DEF Watched, OneCalls
    <1> QED
        BY <1>1, <1>3, <1>4, <1>5 DEF Watched

LEMMA AttachesWatched ==
    ASSUME OneEngine, IInv, Ongoing, Root \in alive, Watched, WatcherAttaches
    PROVE  Watched'
    <1>1. /\ RegisterCoordinator(Watcher) /\ Watcher \in Workers /\ Watcher \notin Readers
          /\ attached' = attached \cup {call[Watcher].process}
          /\ UNCHANGED <<alive, holder, inbox, pending>>
        BY SessionAssumption DEF WatcherAttaches
    <1>2. PICK p : p = call[Watcher].process
        OBVIOUS
    <1>3. /\ p \in alive \ attached /\ call[Watcher].thread = Root /\ OneCalls /\ OneTree
          /\ Root \in attached /\ p # Root /\ p \in Processes /\ p # None
        BY <1>1, <1>2, SessionAssumption
        DEF Watched, OneCalls, RegisterCoordinator, Ongoing, Births
    <1>4. /\ call' \in [Workers -> Calls]
          /\ \A v \in Workers : v # Watcher => call'[v] = call[v]
          /\ call'[Watcher] = Idle
        BY <1>1, Returns DEF RegisterCoordinator, Ongoing, InCalls
    <1>5. /\ UNCHANGED snapshots
          /\ processEpochs' = processEpochs
        BY <1>1 DEF RegisterCoordinator, tableVars, registryVars
    <1>6. p \notin DOMAIN processes
        BY <1>3 DEF OneTree
    <1>7. Coord!RegisterProcess(p, Root, call[Watcher].owner)
        BY <1>1, <1>2, <1>3, <1>6
        DEF RegisterCoordinator, Coord!RegisterProcessRefused, Coord!ParentConflict,
            Coord!Registered
    <1>8. DOMAIN processes' = DOMAIN processes \cup {p} \cup ({Root} \ {None}) /\ leases' = leases
        BY <1>7, RegisterEffect
    <1>9. \A q : Coord!ExecutionOwner(q)' = Coord!ExecutionOwner(q)
        BY <1>8 DEF Coord!ExecutionOwner
    <1>10. \A s \in Readers : s \in Workers /\ call'[s] = call[s]
        BY <1>1, <1>4, ReaderShape
    <1>11. \A q : Live(q)' => Live(q)
        BY <1>1 DEF Live
    <1>12. SnapshotsTyped'
        BY <1>5 DEF Watched, SnapshotsTyped, Snapshots
    <1>13. OneCalls'
        <2>1. call'[Watcher].at = "idle"
            BY <1>4, IdleTyped
        <2>2. \A v \in Workers : call'[v].at = "bindThread" => call'[v] = call[v]
            BY <1>4, <2>1
        <2>3. RootReader' = RootReader /\ RootReader \in Readers
            BY RootIsReader DEF RootReader
        <2>4. \A v \in Workers \ Readers :
                 v # Watcher => call'[v].at \in {"idle", "bindThread", "failed"}
            BY <1>3, <1>4 DEF OneCalls
        <2>5. \A v \in Workers : call'[v].at = "bindThread" => call'[v].owner = "native"
            BY <1>3, <2>2 DEF OneCalls
        <2> QED
            BY <1>1, <1>3, <1>10, <2>1, <2>3, <2>4, <2>5 DEF OneCalls
    <1>14. OneTree'
        <2>1. \A q \in Processes \ {Root} : q \in DOMAIN processes' => q \in attached'
            BY <1>1, <1>2, <1>3, <1>8 DEF OneTree
        <2>2. \A q \in (alive' \cap attached') \ {Root} : q \in DOMAIN processes'
            BY <1>1, <1>2, <1>3, <1>8 DEF OneTree
        <2>3. \A r \in Readers : Live(r[1])' /\ call'[r].at \in {"stopBind", "acquire"}
                                    => r[1] \in DOMAIN processes'
            BY <1>3, <1>8, <1>10, <1>11 DEF OneTree
        <2> QED
            BY <1>3, <1>9, <2>1, <2>2, <2>3 DEF OneTree
    <1>15. ASSUME NEW s \in Readers
           PROVE  Shown(s)'
        <2>1. Known(s[1])' = Known(s[1])
            BY <1>5 DEF Known
        <2>2. Left(s)' = Left(s)
            BY <1>1 DEF Left, AtHand
        <2> QED
            BY <1>5, <1>9, <1>10, <1>11, <2>1, <2>2, ShownStays DEF Watched
    <1> QED
        BY <1>12, <1>13, <1>14, <1>15 DEF Watched

LEMMA BindNotes ==
    ASSUME SnapshotsTyped, NEW w, NEW p, NEW t \in Threads, NEW engine, NEW activate,
           BindSnapshot(w, p, t, engine, activate)
    PROVE  /\ SnapshotsTyped'
           /\ \A q : /\ Known(q).isStopped' = Known(q).isStopped
                     /\ q \in DOMAIN snapshots =>
                           q \in DOMAIN snapshots' /\ snapshots'[q].epoch = snapshots[q].epoch
    <1> DEFINE old == Known(p)
               s == [old EXCEPT !.threads = @ \cup {t},
                                !.stoppedThreads = @ \cup (IF old.allStopped THEN {t} ELSE {})]
    <1>1. snapshots' = Put(snapshots, p, s)
        BY DEF BindSnapshot, Bind
    <1>2. old \in Snapshots
        BY KnownTyped
    <1> HIDE DEF old
    <1>3. s \in Snapshots /\ s.isStopped = old.isStopped /\ s.epoch = old.epoch
        BY <1>2 DEF Snapshots
    <1> HIDE DEF s
    <1> QED
        BY <1>1, <1>3, NotedKnown DEF old

LEMMA BindsWatched ==
    ASSUME OneEngine, IInv, Ongoing, Root \in alive, Watched, NEW r \in Readers, ReaderBinds(r)
    PROVE  Watched'
    <1>1. /\ inbox[r] # <<>> /\ BindsFirst(r)
          /\ BindSnapshot(r, r[1], AtHand(r).thread, r[2], TRUE)
          /\ UNCHANGED <<alive, attached, holder, inbox, pending>>
        BY DEF ReaderBinds
    <1>2. /\ r[1] \in Processes /\ r[2] = "native" /\ r[2] \in Engines /\ r \in Workers
          /\ AtHand(r).thread \in Threads /\ r # RootReader
        BY <1>1, ReaderShape, OneReader, AtHandTyped
        DEF IInv, EventsOf, ThreadsOf, BindsFirst, EventPid, RootReader
    <1>3. PICK w \in Workers, p \in Processes, t \in Threads, engine \in Engines :
              w = r /\ p = r[1] /\ t = AtHand(r).thread /\ engine = r[2]
        BY <1>2
    <1>4. BindSnapshot(w, p, t, engine, TRUE)
        BY <1>1, <1>3
    <1>5. /\ call[w] = Idle
          /\ call' \in [Workers -> Calls]
          /\ call'[w].at = "bindThread" /\ call'[w].process = p /\ call'[w].owner = engine
        BY <1>4, BindEnters
    <1>6. /\ \A v \in Workers : v # w => call'[v] = call[v]
          /\ UNCHANGED <<processes, leases>>
          /\ UNCHANGED processEpochs
        BY <1>4, BindEnters
    <1>7. /\ SnapshotsTyped'
          /\ \A q : /\ Known(q).isStopped' = Known(q).isStopped
                    /\ q \in DOMAIN snapshots =>
                          q \in DOMAIN snapshots' /\ snapshots'[q].epoch = snapshots[q].epoch
        BY <1>4, BindNotes DEF Watched
    <1>8. OneTree' /\ \A s \in Readers : s # r => Shown(s)'
        BY <1>1, <1>3, <1>5, <1>6, <1>7, StepWatched
    <1>9. OneCalls'
        <2>1. Watcher \notin Readers
            BY SessionAssumption
        <2> QED
            BY <1>1, <1>2, <1>3, <1>5, <1>6, <2>1, OneCallsStep DEF Watched, OneCalls
    <1>10. Shown(r)'
        <2>1. Left(r)' = Left(r) /\ (Live(r[1])' <=> Live(r[1]))
            BY <1>1 DEF Left, AtHand, Live
        <2>2. Coord!ExecutionOwner(r[1])' = Coord!ExecutionOwner(r[1])
            BY <1>6 DEF Coord!ExecutionOwner
        <2>3. call[r].at = "idle" /\ call'[r].at = "bindThread"
            BY <1>3, <1>5, IdleTyped
        <2>4. /\ Known(r[1]).isStopped' = Known(r[1]).isStopped
              /\ r[1] \in DOMAIN snapshots =>
                    r[1] \in DOMAIN snapshots' /\ snapshots'[r[1]].epoch = snapshots[r[1]].epoch
            BY <1>7
        <2>5. Shown(r)
            BY DEF Watched
        <2> QED
            BY <1>6, <2>1, <2>2, <2>3, <2>4, <2>5 DEF Shown, Taking
    <1> QED
        BY <1>7, <1>8, <1>9, <1>10 DEF Watched

LEMMA ListsWatched ==
    ASSUME OneEngine, IInv, Ongoing, Root \in alive, Watched, NEW q \in Listers,
           RequestBinds(q) \/ RequestFails(q)
    PROVE  Watched'
    <1>0. q \in Workers /\ q \notin Readers /\ q # Watcher
        BY SessionAssumption
    <1>1. CASE RequestBinds(q)
        <2>1. /\ pending[q] # NoAnswer
              /\ BindSnapshot(q, pending[q].process, pending[q].thread, pending[q].engine,
                              pending[q].engine = "python")
              /\ pending' = [pending EXCEPT ![q] = NoAnswer]
              /\ UNCHANGED <<alive, attached, holder, inbox>>
            BY <1>1, Zenon DEF RequestBinds
        <2>2. pending[q] \in [process : Processes, engine : Engines, thread : Threads]
              /\ pending[q].engine = "native"
            BY <2>1 DEF Ongoing, Asked, Watched, OneCalls
        <2>3. PICK w \in Workers, p \in Processes, t \in Threads, engine \in Engines,
                   act \in BOOLEAN :
                 /\ w = q /\ p = pending[q].process /\ t = pending[q].thread
                 /\ engine = pending[q].engine /\ act = (pending[q].engine = "python")
            BY <1>0, <2>2
        <2>4. BindSnapshot(w, p, t, engine, act)
            BY <2>1, <2>3
        <2>5. /\ call[w] = Idle
              /\ call' \in [Workers -> Calls]
              /\ call'[w].at = "bindThread" /\ call'[w].process = p /\ call'[w].owner = engine
            BY <2>4, BindEnters
        <2>6. /\ \A v \in Workers : v # w => call'[v] = call[v]
              /\ UNCHANGED <<processes, leases>>
              /\ UNCHANGED processEpochs
            BY <2>4, BindEnters
        <2>7. /\ SnapshotsTyped'
              /\ \A o : /\ Known(o).isStopped' = Known(o).isStopped
                        /\ o \in DOMAIN snapshots =>
                              o \in DOMAIN snapshots' /\ snapshots'[o].epoch = snapshots[o].epoch
            BY <2>4, BindNotes DEF Watched
        <2>8. OneTree' /\ \A s \in Readers : s # q => Shown(s)'
            BY <2>1, <2>3, <2>5, <2>6, <2>7, StepWatched
        <2>9. \A o \in Listers : pending'[o] # NoAnswer => pending'[o].engine = "native"
            BY <2>1 DEF Watched, OneCalls, IInv, Answers
        <2>10. OneCalls'
            BY <1>0, <2>1, <2>2, <2>3, <2>5, <2>6, <2>9, OneCallsStep, RootIsReader DEF Watched
        <2> QED
            BY <1>0, <2>7, <2>8, <2>10 DEF Watched
    <1>2. CASE RequestFails(q)
        <2>1. /\ Return(q)
              /\ UNCHANGED <<alive, attached, holder, inbox, pending, processes, leases, snapshots>>
              /\ processEpochs' = processEpochs
            BY <1>2 DEF RequestFails, tableVars, coordinatorVars, registryVars, worldVars
        <2>2. /\ call' \in [Workers -> Calls] /\ call'[q] = Idle
              /\ \A v \in Workers : v # q => call'[v] = call[v]
            BY <1>0, <2>1, Returns DEF Ongoing, InCalls
        <2>3. \A o : Known(o)' = Known(o)
            BY <2>1 DEF Known
        <2>4. OneTree' /\ \A s \in Readers : s # q => Shown(s)'
            BY <1>0, <2>1, <2>2, <2>3, StepWatched, IdleTyped
        <2>5. OneCalls'
            BY <1>0, <2>1, <2>2, OneCallsStep, IdleTyped DEF Watched, OneCalls
        <2>6. SnapshotsTyped'
            BY <2>1 DEF Watched, SnapshotsTyped, Snapshots
        <2> QED
            BY <1>0, <2>4, <2>5, <2>6 DEF Watched
    <1> QED
        BY <1>1, <1>2

--------------------------------------------------------------------------------
\* What becomes of the shown state when an event of its own connection is handled.
Noted(r, event) ==
    /\ SnapshotsTyped'
    /\ UNCHANGED processEpochs
    /\ \A q : q # r[1] =>
          /\ Known(q).isStopped' = Known(q).isStopped
          /\ q \in DOMAIN snapshots =>
                q \in DOMAIN snapshots' /\ snapshots'[q].epoch = snapshots[q].epoch
    /\ call'[r].at \notin {"stopBind", "acquire", "bindThread"}
    /\ call'[r].at = "register" => call'[r].thread = None
    /\ Live(r[1]) =>
          /\ event.kind = "process" =>
                /\ Known(r[1]).isStopped' = Known(r[1]).isStopped
                /\ call'[r].at = "register"
          /\ event.kind = "stopped" =>
                /\ Known(r[1]).isStopped' = TRUE /\ r[1] \in DOMAIN snapshots'
                /\ call'[r].at = "stopRegister" /\ call'[r].epoch = snapshots'[r[1]].epoch
          /\ event.kind = "continued" =>
                Known(r[1]).isStopped' = FALSE /\ call'[r].at = "release"

ShownRunning(q) ==
    /\ SnapshotsTyped'
    /\ Known(q).isStopped' = FALSE
    /\ \A o : o # q =>
          /\ Known(o).isStopped' = Known(o).isStopped
          /\ o \in DOMAIN snapshots =>
                o \in DOMAIN snapshots' /\ snapshots'[o].epoch = snapshots[o].epoch

LEMMA ContinuedNotes ==
    ASSUME SnapshotsTyped, NEW w \in Workers, NEW t \in Threads \cup {None},
           NEW p \in Processes \cup {None}, NEW all \in BOOLEAN, all = TRUE,
           NEW engine \in Engines, NEW q \in Processes, q = EventProcess(t, p),
           ContinuedSnapshot(w, t, p, all, engine)
    PROVE  ShownRunning(q)
    <1> DEFINE old == snapshots[q]
               s == [old EXCEPT !.isStopped = FALSE, !.stoppedThreads = {}, !.allStopped = FALSE]
    <1>1. snapshots' = IF q \notin DOMAIN snapshots THEN snapshots
                       ELSE [snapshots EXCEPT ![q] = s]
        BY DEF ContinuedSnapshot
    <1>2. CASE q \notin DOMAIN snapshots
        BY <1>1, <1>2 DEF ShownRunning, SnapshotsTyped, Snapshots, Known, NewSnapshot
    <1>3. CASE q \in DOMAIN snapshots
        <2>1. old \in Snapshots
            BY <1>3 DEF SnapshotsTyped
        <2> HIDE DEF old
        <2>2. s \in Snapshots /\ s.isStopped = FALSE
            BY <2>1 DEF Snapshots
        <2> HIDE DEF s
        <2>3. /\ DOMAIN snapshots' = DOMAIN snapshots /\ snapshots'[q] = s
              /\ \A o \in DOMAIN snapshots : o # q => snapshots'[o] = snapshots[o]
            BY <1>1, <1>3
        <2>4. SnapshotsTyped'
            BY <2>2, <2>3 DEF SnapshotsTyped, Snapshots
        <2>5. Known(q).isStopped' = FALSE
            BY <1>3, <2>2, <2>3 DEF Known
        <2>6. ASSUME NEW o, o # q
              PROVE  Known(o).isStopped' = Known(o).isStopped
            BY <2>3, <2>6 DEF Known
        <2> QED
            BY <2>3, <2>4, <2>5, <2>6 DEF ShownRunning
    <1> QED
        BY <1>2, <1>3

LEMMA StoppedNotes ==
    ASSUME SnapshotsTyped, IInv, Ongoing, NEW r \in Readers, NEW t \in ThreadsOf(r) \cup {None},
           r = RootReader => t # None,
           StoppedSnapshot(r, t, EventPid(r), TRUE, r[2])
    PROVE  SnapshotsTyped'
    <1> DEFINE named == EventProcess(t, EventPid(r))
               old == IF named = None THEN NewSnapshot ELSE Known(named)
               known == {t} \ {None}
               s == [epoch |-> stopEpoch + 1, isStopped |-> TRUE,
                     threads |-> old.threads \cup known,
                     stoppedThreads |-> old.stoppedThreads \cup known, allStopped |-> TRUE]
    <1>1. PICK process :
              snapshots' = IF process = None THEN snapshots ELSE Put(snapshots, process, s)
        BY DEF StoppedSnapshot, StoppedSnapshotOf
    <1>2. old \in Snapshots
        BY KnownTyped DEF Snapshots, NewSnapshot
    <1>3. known \subseteq Threads /\ stopEpoch + 1 \in Nat
        BY DEF ThreadsOf, Ongoing, Tables
    <1> HIDE DEF old, known
    <1>4. s \in Snapshots
        BY <1>2, <1>3 DEF Snapshots
    <1> HIDE DEF s
    <1> QED
        BY <1>1, <1>4 DEF SnapshotsTyped, Put, Snapshots

LEMMA DispatchNotes ==
    ASSUME Attributable, OneEngine, IInv, Ongoing, Root \in alive, Watched, NEW r \in Readers,
           inbox[r] # <<>>, NEW event, event = AtHand(r), Dispatch(r, event)
    PROVE  Noted(r, event)
    <1>0. /\ r[1] \in Processes /\ r[2] = "native" /\ r \in Workers /\ r[1] # None
          /\ "native" \in Engines /\ None \in Processes \cup {None}
          /\ event.thread \in ThreadsOf(r) \cup {None}
          /\ event.thread \in Threads \cup {None}
        BY OneReader, AtHandTyped DEF IInv, EventsOf, ThreadsOf, Engines
    <1>1. Live(r[1]) =>
             /\ event.kind \in {"process", "stopped", "continued"}
             /\ event.kind \in {"stopped", "continued"} => event.thread # None
        BY RestAlternates DEF IInv, Connections, Ongoing, Leased, AtHand
    <1>2. Live(Root)
        BY DEF Live
    <1>4. EventPid(r) = (IF r = RootReader THEN None ELSE r[1])
        BY DEF EventPid, RootReader
    <1>s. SnapshotsTyped
        BY DEF Watched
    <1>5. CASE event.kind = "process" /\ RegisterSnapshot(r, r[1], None, "native")
        <2>1. /\ call'[r].at = "register" /\ call'[r].thread = None
              /\ UNCHANGED processEpochs
              /\ snapshots' = Put(snapshots, r[1], Known(r[1]))
            BY <1>0, <1>5, RegisterEnters
        <2>2. PICK p : p = r[1]
            OBVIOUS
        <2>3. snapshots' = Put(snapshots, p, Known(p)) /\ Known(p) \in Snapshots
            BY <1>s, <2>1, <2>2, KnownTyped
        <2>4. /\ SnapshotsTyped'
              /\ \A q : /\ Known(q).isStopped' = Known(q).isStopped
                        /\ q \in DOMAIN snapshots =>
                              q \in DOMAIN snapshots' /\ snapshots'[q].epoch = snapshots[q].epoch
            BY <1>s, <2>3, NotedKnown
        <2> QED
            BY <1>5, <2>1, <2>4 DEF Noted
    <1>6. CASE event.kind = "stopped"
               /\ StoppedSnapshot(r, event.thread, EventPid(r), TRUE, r[2])
        <2>1. r = RootReader => event.thread # None
            BY <1>1, <1>2, <1>6, RootIsReader
        <2>2. /\ call'[r].at = IF event.thread = None THEN "begin" ELSE "stopRegister"
              /\ call'[r].epoch = stopEpoch + 1
              /\ UNCHANGED processEpochs
              /\ DOMAIN snapshots' = DOMAIN snapshots \cup {r[1]}
              /\ snapshots'[r[1]].epoch = stopEpoch + 1
              /\ snapshots'[r[1]].isStopped = TRUE
              /\ \A q \in DOMAIN snapshots \ {r[1]} : snapshots'[q] = snapshots[q]
            BY <1>0, <1>6, <2>1, StoppedEnters
        <2>3. SnapshotsTyped'
            BY <1>0, <1>6, <1>s, <2>1, StoppedNotes
        <2>4. Known(r[1]).isStopped' = TRUE
            BY <2>2 DEF Known
        <2>5. ASSUME NEW q, q # r[1]
              PROVE  /\ Known(q).isStopped' = Known(q).isStopped
                     /\ q \in DOMAIN snapshots =>
                           q \in DOMAIN snapshots' /\ snapshots'[q].epoch = snapshots[q].epoch
            BY <2>2, <2>5 DEF Known
        <2> QED
            BY <1>1, <1>6, <2>2, <2>3, <2>4, <2>5 DEF Noted
    <1>7. CASE event.kind = "continued"
               /\ ContinuedSnapshot(r, event.thread, EventPid(r), TRUE, r[2])
        <2>1. EventPid(r) \in Processes \cup {None}
            BY <1>0, <1>4
        <2>2. EventProcess(event.thread, EventPid(r)) = r[1]
            <3>1. CASE r = RootReader
                <4>1. Left(r) = event.thread /\ event.thread # None
                    BY <1>1, <1>2, <1>7, <3>1, RootIsReader DEF Left
                <4>2. event.thread \in DOMAIN threadProcess /\ threadProcess[event.thread] = Root
                    BY <3>1, <4>1, RootBound
                <4> QED
                    BY <1>4, <3>1, <4>1, <4>2, RootIsReader DEF EventProcess
            <3>2. CASE r # RootReader
                BY <1>0, <1>4, <3>2 DEF EventProcess
            <3> QED
                BY <3>1, <3>2
        <2>3. PICK w \in Workers, t \in Threads \cup {None}, x \in Processes \cup {None},
                   g \in Engines, all \in BOOLEAN, q \in Processes :
                 w = r /\ t = event.thread /\ x = EventPid(r) /\ g = r[2] /\ all = TRUE
                 /\ q = r[1]
            BY <1>0, <2>1
        <2>4. ContinuedSnapshot(w, t, x, all, g) /\ q = EventProcess(t, x)
            BY <1>7, <2>2, <2>3
        <2>5. ContinuedEntered(w, t, x, all, g)
            BY <2>4, ContinuedEnters
        <2>6. call'[r].at = "release" /\ UNCHANGED processEpochs
            BY <1>0, <2>3, <2>4, <2>5 DEF ContinuedEntered
        <2>7. ShownRunning(q)
            BY <1>s, <2>3, <2>4, ContinuedNotes
        <2>8. Known(r[1]).isStopped' = FALSE
            BY <2>3, <2>7 DEF Known, ShownRunning
        <2> QED
            BY <1>7, <2>3, <2>6, <2>7, <2>8 DEF Noted, ShownRunning
    <1>8. CASE IgnoresContinued(r)
        BY <1>0, <1>8 DEF IgnoresContinued
    <1>9. CASE event.kind = "terminated" /\ r = RootReader
        BY <1>1, <1>2, <1>9, RootIsReader
    <1>10. CASE event.kind = "terminated" /\ TerminatedSnapshot(r, r[1])
        <2>1. ~ Live(r[1])
            BY <1>1, <1>10
        <2>2. /\ call[r] = Idle /\ Forget(r[1])
              /\ Enter(r, "terminated", r[1], None, None, 0)
              /\ UNCHANGED processEpochs
            BY <1>10 DEF TerminatedSnapshot, registryVars
        <2>3. call'[r].at = "terminated"
            BY <2>2, ForgetEnters DEF Removing
        <2>4. snapshots' = Without(snapshots, {r[1]})
            BY <2>2 DEF Forget
        <2>5. SnapshotsTyped'
            BY <1>s, <2>4 DEF SnapshotsTyped, Snapshots, Without
        <2>6. ASSUME NEW q, q # r[1]
              PROVE  /\ Known(q).isStopped' = Known(q).isStopped
                     /\ q \in DOMAIN snapshots =>
                           q \in DOMAIN snapshots' /\ snapshots'[q].epoch = snapshots[q].epoch
            BY <2>4, <2>6 DEF Known, Without
        <2> QED
            BY <2>1, <2>2, <2>3, <2>5, <2>6 DEF Noted
    <1> QED
        BY <1>0, <1>5, <1>6, <1>7, <1>8, <1>9, <1>10, RootIsReader DEF Dispatch, RootReader

LEMMA HandlesWatched ==
    ASSUME Attributable, OneEngine, IInv, Ongoing, Root \in alive, Watched, NEW r \in Readers,
           ReaderHandles(r)
    PROVE  Watched'
    <1>1. /\ inbox[r] # <<>> /\ Dispatch(r, AtHand(r))
          /\ inbox' = [inbox EXCEPT ![r] = Tail(@)]
          /\ UNCHANGED <<alive, attached, holder, pending>>
          /\ DOMAIN inbox = Readers
        BY DEF ReaderHandles, IInv, Connections
    <1>2. PICK event : event = AtHand(r)
        OBVIOUS
    <1>3. DispatchDone(r, event)
        BY <1>1, <1>2, DispatchOngoing
    <1>4. Noted(r, event)
        BY <1>1, <1>2, DispatchNotes
    <1>5. r \in Workers /\ r # Watcher /\ \A s \in Readers : s # r => inbox'[s] = inbox[s]
        BY <1>1, OneReader, SessionAssumption
    <1>6. \A s \in Readers : s # r => s[1] # r[1]
        BY OneReader
    <1>7. OneTree' /\ \A s \in Readers : s # r => Shown(s)'
        BY <1>1, <1>3, <1>4, <1>5, <1>6, StepWatched DEF DispatchDone, Noted
    <1>8. OneCalls'
        BY <1>1, <1>3, <1>4, <1>5, OneCallsStep DEF DispatchDone, Noted, Watched, OneCalls
    <1>9. Shown(r)'
        <2> SUFFICES ASSUME Live(r[1])
                     PROVE  Shown(r)'
            BY <1>1 DEF Shown, Live
        <2>1. Leased(r) /\ Alternates(inbox[r], holder[r]) /\ Shown(r)
            BY DEF Ongoing, Leased, Watched
        <2>2. /\ Left(r)' = IF event.kind = "stopped" THEN event.thread ELSE None
              /\ event.kind \in {"process", "stopped", "continued"}
              /\ event.kind \in {"stopped", "continued"} => event.thread # None
            BY <1>1, <1>2, <2>1, LeftHandled DEF IInv
        <2>3. call'[r].at # "failed"
            BY <1>3 DEF DispatchDone
        <2>4. CASE event.kind = "process"
            <3>1. Left(r) = None
                BY <1>1, <1>2, <2>4 DEF Left
            <3>2. Known(r[1]).isStopped' = FALSE
                <4>1. Known(r[1]).isStopped' = Known(r[1]).isStopped
                    BY <1>4, <2>4 DEF Noted
                <4>2. Known(r[1]) \in Snapshots
                    BY KnownTyped DEF Watched
                <4>3. Known(r[1]).isStopped = FALSE
                    BY <2>1, <3>1, <4>2 DEF Shown, Snapshots
                <4> QED
                    BY <4>1, <4>3
            <3>3. call'[r].at = "register" /\ Left(r)' = None
                BY <1>4, <2>2, <2>4 DEF Noted
            <3> QED
                BY <2>3, <3>2, <3>3 DEF Shown, Taking
        <2>5. CASE event.kind = "stopped"
            <3>1. /\ Known(r[1]).isStopped' = TRUE /\ r[1] \in DOMAIN snapshots'
                  /\ call'[r].at = "stopRegister" /\ call'[r].epoch = snapshots'[r[1]].epoch
                  /\ Left(r)' # None
                BY <1>4, <2>2, <2>5 DEF Noted
            <3> QED
                BY <3>1 DEF Shown, Taking
        <2>6. CASE event.kind = "continued"
            <3>1. /\ Known(r[1]).isStopped' = FALSE /\ call'[r].at = "release"
                  /\ Left(r)' = None
                BY <1>4, <2>2, <2>6 DEF Noted
            <3> QED
                BY <3>1 DEF Shown, Taking
        <2> QED
            BY <2>2, <2>4, <2>5, <2>6
    <1> QED
        BY <1>4, <1>7, <1>8, <1>9 DEF Watched, Noted

LEMMA ProxyWatched ==
    ASSUME Attributable, OneEngine, IInv, Ongoing, Root \in alive, Watched, Proxy
    PROVE  Watched'
    <1>1. ASSUME NEW w \in Workers, Continues(w)
          PROVE  Watched'
        BY <1>1, HandlerWatched DEF Continues
    <1>2. ASSUME NEW r \in Readers, ReaderBinds(r) \/ ReaderHandles(r)
          PROVE  Watched'
        BY <1>2, BindsWatched, HandlesWatched
    <1> QED
        BY <1>1, <1>2, RegistersWatched, AttachesWatched, ListsWatched, NothingRecorded
        DEF Proxy, OneEngine

LEMMA InitWatched == Init => Watched
    <1> SUFFICES ASSUME Init
                 PROVE  Watched
        OBVIOUS
    <1>1. /\ DOMAIN snapshots = {} /\ call = [w \in Workers |-> Idle]
          /\ DOMAIN leases = {} /\ DOMAIN processes = {}
          /\ alive = {Root} /\ attached = {Root}
          /\ holder = [r \in Readers |-> None]
          /\ pending = [q \in Requests \cup Listers |-> NoAnswer]
        BY DEF Init, InitSession, Coord!Init, Coord!Nothing
    <1>2. \A r \in Readers : inbox[r] \in {<<>>, <<Event("process", None)>>}
        BY DEF Init
    <1>3. Watcher \in Workers /\ RootReader \in Workers /\ Readers \subseteq Workers
        BY SessionAssumption, RootIsReader
    <1>4. SnapshotsTyped
        BY <1>1 DEF SnapshotsTyped
    <1>5. OneCalls
        BY <1>1, <1>3, IdleTyped DEF OneCalls
    <1>6. OneTree
        BY <1>1, <1>3, IdleTyped DEF OneTree, Coord!ExecutionOwner
    <1>7. ASSUME NEW r \in Readers
          PROVE  Shown(r)
        <2>1. Left(r) = None
            BY <1>1, <1>2 DEF Left, AtHand, Event
        <2>2. Known(r[1]).isStopped = FALSE
            BY <1>1 DEF Known, NewSnapshot
        <2> QED
            BY <1>1, <1>3, <2>1, <2>2, IdleTyped DEF Shown, Taking
    <1> QED
        BY <1>4, <1>5, <1>6, <1>7 DEF Watched

LEMMA WatchedInvariance ==
    ASSUME Attributable, OneEngine
    PROVE  Spec => []WInv
    <1>1. Init => WInv
        BY InitInv, InitOngoing, InitWatched DEF LInv, WInv
    <1>2. ASSUME WInv, [Next]_vars
          PROVE  WInv'
        <2>1. LInv'
            BY <1>2, OngoingStep DEF WInv
        <2> SUFFICES ASSUME Root \in alive'
                     PROVE  Watched'
            BY <2>1 DEF WInv
        <2>2. CASE UNCHANGED vars
            <3>1. UNCHANGED <<sessionVars, alive, attached, holder, inbox, pending>>
                BY <2>2 DEF vars, worldVars
            <3>2. \A s \in Readers : Left(s)' = Left(s) /\ (Live(s[1])' <=> Live(s[1]))
                BY <3>1 DEF Live, Left, AtHand
            <3>3. Watched
                BY <1>2, <3>1 DEF WInv
            <3>4. \A q \in Listers : pending'[q] # NoAnswer => pending'[q].engine = "native"
                BY <3>1, <3>3 DEF Watched, OneCalls
            <3> QED
                BY <3>1, <3>2, <3>3, <3>4, WatchedStays
        <2>3. CASE World
            BY <1>2, <2>3, RootLives, WorldWatched DEF WInv, LInv
        <2>4. CASE Proxy
            BY <1>2, <2>4, OthersLive, ProxyWatched DEF WInv, LInv
        <2>5. CASE Client
            BY <1>2, <2>5, OthersLive, ClientWatched DEF WInv, LInv
        <2> QED
            BY <1>2, <2>2, <2>3, <2>4, <2>5 DEF Next
    <1> QED
        BY <1>1, <1>2, PTL DEF Spec

\* At rest what is shown of a process is what its engine does.
LEMMA Settled ==
    ASSUME OneEngine, WInv, AtRest, NEW p \in Debugged, NEW r, r = <<p, "native">>
    PROVE  /\ r \in Readers
           /\ \A s \in Readers : s[1] = p => s = r
           /\ holder[r] # None <=> Held(p)
           /\ Known(p).isStopped <=> holder[r] # None
           /\ holder[r] # None =>
                 /\ Coord!ExecutionOwner(p) = "native"
                 /\ p \in DOMAIN processEpochs /\ processEpochs[p] = snapshots[p].epoch
           /\ holder[r] = None => Coord!ExecutionOwner(p) = None
    <1>1. Root \in alive /\ p \in alive /\ p \in Processes
        BY DEF Debugged, WInv, LInv, Ongoing, Births
    <1>2. r \in Readers /\ r[1] = p /\ r[2] = "native" /\ r \in Workers
        BY <1>1, SessionAssumption DEF Readers, Engines
    <1>3. \A s \in Readers : s[1] = p => s = r
        BY OneReader
    <1>4. Shown(r) /\ Leased(r) /\ Live(r[1]) /\ OneTree
        BY <1>1, <1>2 DEF WInv, Watched, LInv, Ongoing, Live
    <1>5. call[r].at # "failed"
        BY <1>4 DEF Shown
    <1>6. call[r] = Idle /\ inbox[r] = <<>>
        BY <1>2, <1>5 DEF AtRest, Lost
    <1>7. Left(r) = holder[r] /\ call[r].at = "idle"
        BY <1>6, IdleTyped DEF Left
    <1>8. holder[r] = None => Coord!ExecutionOwner(p) # "native"
        BY <1>2, <1>4, <1>7 DEF Leased
    <1> QED
        BY <1>2, <1>3, <1>4, <1>7, <1>8 DEF Held, Shown, OneTree, Taking

\* With CodeLLDB alone, and the resumes forwarded as they are, a process is shown
\* stopped at rest exactly if it is held.
THEOREM ShownStoppedWhenHeld ==
    ASSUME Attributable, OneEngine
    PROVE  Spec => []StoppedIffHeld
    <1>1. WInv => StoppedIffHeld
        <2> SUFFICES ASSUME WInv, AtRest, NEW p \in Debugged
                     PROVE  Known(p).isStopped <=> Held(p)
            BY DEF StoppedIffHeld
        <2> QED
            BY Settled
    <1> QED
        BY <1>1, WatchedInvariance, PTL

\* Likewise the lease on a stop lasts as long as the stop.
THEOREM LeaseLastsAsLongAsStop ==
    ASSUME Attributable, OneEngine
    PROVE  Spec => []OwnerHolds
    <1>1. WInv => OwnerHolds
        <2> SUFFICES ASSUME WInv, AtRest, NEW p \in Debugged
                     PROVE  IF Held(p) THEN \E r \in Readers :
                                               /\ r[1] = p /\ holder[r] # None
                                               /\ Coord!ExecutionOwner(p) = r[2]
                            ELSE Coord!ExecutionOwner(p) = None
            BY DEF OwnerHolds
        <2>1. PICK r : r = <<p, "native">>
            OBVIOUS
        <2>2. /\ r \in Readers /\ r[1] = p /\ r[2] = "native"
              /\ holder[r] # None <=> Held(p)
              /\ holder[r] # None => Coord!ExecutionOwner(p) = "native"
              /\ holder[r] = None => Coord!ExecutionOwner(p) = None
            BY <2>1, Settled
        <2> QED
            BY <2>2
    <1> QED
        BY <1>1, WatchedInvariance, PTL

\* And the frames of a stopped process would be numbered under that very stop.
THEOREM FramesAreOfTheStop ==
    ASSUME Attributable, OneEngine
    PROVE  Spec => []FramesFollowStop
    <1>1. WInv => FramesFollowStop
        <2> SUFFICES ASSUME WInv, AtRest, NEW p \in Debugged, Known(p).isStopped
                     PROVE  Registry!ActiveEpoch(p) = snapshots[p].epoch
            BY DEF FramesFollowStop
        <2>1. p \in DOMAIN processEpochs /\ processEpochs[p] = snapshots[p].epoch
            BY Settled
        <2> QED
            BY <2>1 DEF Registry!ActiveEpoch
    <1> QED
        BY <1>1, WatchedInvariance, PTL

--------------------------------------------------------------------------------
\* What becomes of a child that has exited, while no request thread lists threads:
\* the end is the last its connection reports, and is handled while the child is
\* registered; from then on nothing speaks of it.
Ends(s) == s # <<>> /\ \A i \in 1 .. Len(s) : s[i].kind = "terminated" <=> i = Len(s)

Gone(p) ==
    /\ p \notin DOMAIN snapshots
    /\ \A t \in DOMAIN threadProcess : threadProcess[t] # p
    /\ activeProcess # p

Forgotten(r) ==
    r[1] \in attached \ alive =>
        \/ /\ Ends(inbox[r])
           /\ call[r].at \notin Removing \cup {"failed"}
           /\ r[1] \in DOMAIN processes
        \/ /\ inbox[r] = <<>> /\ Gone(r[1])
           /\ call[r].at \in {"terminated", "terminatedRemove"}
        \/ /\ inbox[r] = <<>> /\ Gone(r[1])
           /\ call[r].at \in {"terminatedClear", "idle"}
           /\ r[1] \notin DOMAIN processes

FInv == WInv /\ (Root \in alive => \A r \in Readers : Forgotten(r))

LEMMA EndFollows ==
    ASSUME NEW r \in Readers, NEW s \in Seq(EventsOf(r)), NEW h, Alternates(s, h)
    PROVE  Ends(Append(s, Event("terminated", None)))
    <1> DEFINE e == Event("terminated", None)
               u == Append(s, e)
    <1>1. e.kind = "terminated"
        BY DEF Event
    <1>2. /\ Len(u) = Len(s) + 1 /\ u[Len(s) + 1] = e /\ Len(s) \in Nat /\ u # <<>>
          /\ \A i \in 1 .. Len(s) : u[i] = s[i]
        OBVIOUS
    <1>3. \A i \in 1 .. Len(s) : s[i].kind # "terminated"
        BY DEF Alternates
    <1> HIDE DEF e
    <1> SUFFICES ASSUME NEW i \in 1 .. Len(u)
                 PROVE  u[i].kind = "terminated" <=> i = Len(u)
        BY <1>2 DEF Ends, e
    <1>4. CASE i = Len(s) + 1
        BY <1>1, <1>2, <1>4
    <1>5. CASE i # Len(s) + 1
        <2>1. i \in 1 .. Len(s) /\ i # Len(u)
            BY <1>2, <1>5
        <2> QED
            BY <1>2, <1>3, <2>1
    <1> QED
        BY <1>4, <1>5

LEMMA RestEnds ==
    ASSUME NEW r \in Readers, NEW s \in Seq(EventsOf(r)), Ends(s)
    PROVE  IF Head(s).kind = "terminated" THEN Tail(s) = <<>> ELSE Ends(Tail(s))
    <1> DEFINE u == Tail(s)
    <1>0. s # <<>>
        BY DEF Ends
    <1>1. /\ Len(s) \in Nat \ {0} /\ Len(u) = Len(s) - 1 /\ Head(s) = s[1]
          /\ u \in Seq(EventsOf(r))
          /\ \A i \in 1 .. Len(u) : u[i] = s[i + 1]
        BY <1>0
    <1>u. u = Tail(s)
        OBVIOUS
    <1> HIDE DEF u
    <1>2. u = <<>> <=> Len(u) = 0
        BY <1>1
    <1>3. s[1].kind = "terminated" <=> 1 = Len(s)
        BY <1>1 DEF Ends
    <1>4. \A i \in 1 .. Len(u) : u[i].kind = "terminated" <=> i = Len(u)
        <2> SUFFICES ASSUME NEW i \in 1 .. Len(u)
                     PROVE  u[i].kind = "terminated" <=> i = Len(u)
            OBVIOUS
        <2>1. i + 1 \in 1 .. Len(s) /\ u[i] = s[i + 1] /\ (i = Len(u) <=> i + 1 = Len(s))
            BY <1>1
        <2> QED
            BY <2>1 DEF Ends
    <1>5. CASE s[1].kind = "terminated"
        BY <1>1, <1>2, <1>3, <1>5, <1>u
    <1>6. CASE s[1].kind # "terminated"
        <2>1. Len(s) # 1
            BY <1>3, <1>6
        <2>2. u # <<>>
            BY <1>1, <1>2, <2>1
        <2>3. Ends(u)
            BY <1>4, <2>2 DEF Ends
        <2> QED
            BY <1>1, <1>6, <1>u, <2>3
    <1> QED
        BY <1>1, <1>5, <1>6

\* Nothing has happened to a child that has exited.
LEMMA ForgottenStays ==
    ASSUME NEW r \in Readers, Forgotten(r), r[1] \in attached \ alive,
           inbox'[r] = inbox[r], call'[r] = call[r], Gone(r[1]) => Gone(r[1])',
           r[1] \in DOMAIN processes' <=> r[1] \in DOMAIN processes
    PROVE  Forgotten(r)'
    <1>1. Ends(inbox[r])' <=> Ends(inbox[r])
        BY DEF Ends
    <1>2. CASE /\ Ends(inbox[r])
               /\ call[r].at \notin Removing \cup {"failed"}
               /\ r[1] \in DOMAIN processes
        BY <1>1, <1>2 DEF Forgotten, Removing
    <1>3. CASE /\ inbox[r] = <<>> /\ Gone(r[1])
               /\ call[r].at \in {"terminated", "terminatedRemove"}
        BY <1>3 DEF Forgotten
    <1>4. CASE /\ inbox[r] = <<>> /\ Gone(r[1])
               /\ call[r].at \in {"terminatedClear", "idle"}
               /\ r[1] \notin DOMAIN processes
        BY <1>4 DEF Forgotten
    <1> QED
        BY <1>2, <1>3, <1>4 DEF Forgotten

LEMMA ForgetsGone ==
    ASSUME NEW q, Forget(q)
    PROVE  /\ q # None => Gone(q)'
           /\ \A p : Gone(p) /\ p # None => Gone(p)'
    <1>1. /\ snapshots' = Without(snapshots, {q})
          /\ threadProcess' = Without(threadProcess, {t \in DOMAIN threadProcess :
                                                          threadProcess[t] = q})
          /\ activeProcess' \in IF activeProcess # q THEN {activeProcess}
                                ELSE IF DOMAIN snapshots \ {q} = {} THEN {None}
                                ELSE DOMAIN snapshots \ {q}
        BY DEF Forget, NextActive
    <1>2. /\ DOMAIN snapshots' = DOMAIN snapshots \ {q}
          /\ \A t \in DOMAIN threadProcess' :
                /\ t \in DOMAIN threadProcess
                /\ threadProcess'[t] = threadProcess[t] /\ threadProcess[t] # q
        BY <1>1 DEF Without
    <1>3. q # None => activeProcess' # q
        BY <1>1
    <1>4. activeProcess' \in {activeProcess, None} \cup DOMAIN snapshots
        BY <1>1
    <1> QED
        BY <1>2, <1>3, <1>4 DEF Gone

\* A reader writes down nothing but its own process.
LEMMA PutGone ==
    ASSUME NEW p, Gone(p), p # None, NEW q, q # p,
           DOMAIN snapshots' \subseteq DOMAIN snapshots \cup {q},
           threadProcess' = threadProcess \/ \E t : threadProcess' = Put(threadProcess, t, q),
           activeProcess' \in {activeProcess, q}
    PROVE  Gone(p)'
    BY DEF Gone, Put

\* Without request threads the only threads that run handlers are the readers.
NoOthers == OneEngine /\ Listers = {}

LEMMA OtherWorker ==
    ASSUME NoOthers, NEW w \in Workers, w # Watcher
    PROVE  w \in Readers
    BY SessionAssumption DEF NoOthers, OneEngine

\* The sections of a handler.
LEMMA HandlerForgets ==
    ASSUME NoOthers, IInv, Ongoing, Root \in alive, Watched, NEW w \in Readers,
           HandlerStep(w), UNCHANGED worldVars, NEW r \in Readers, Forgotten(r)
    PROVE  Forgotten(r)'
    <1>0. /\ OneEngine /\ w \in Workers /\ r \in Workers /\ r[1] # None /\ InCalls /\ OneCalls
          /\ w[2] = "native"
        BY OneReader DEF NoOthers, Ongoing, Watched
    <1>1. /\ \A v \in Workers : v # w => call'[v] = call[v]
          /\ Moves(w)
        BY <1>0, HandlerMoves
    <1>2. UNCHANGED <<alive, attached, inbox, holder>>
        BY DEF worldVars
    <1> SUFFICES ASSUME r[1] \in attached \ alive
                 PROVE  Forgotten(r)'
        BY <1>2 DEF Forgotten
    <1>3. PICK p : p = call[w].process
        OBVIOUS
    <1>4. Kept(w, p)
        BY <1>0, <1>3, HandlerKeeps
    <1>5. /\ call[w].at # "terminated" => UNCHANGED <<snapshots, threadProcess, activeProcess>>
          /\ call[w].at = "terminated" => Forget(p)
        BY <1>0, <1>3, HandlerShows
    <1>6. call[w].at # "idle"
        BY <1>1 DEF Moves, Sections
    <1>7. p = w[1] /\ p # None
        BY <1>0, <1>3, <1>6, OneReader DEF InCalls, HomeCall
    <1>8. \A q : Gone(q) /\ q # None => Gone(q)'
        <2>1. CASE call[w].at = "terminated"
            BY <1>5, <2>1, ForgetsGone
        <2>2. CASE call[w].at # "terminated"
            BY <1>5, <2>2 DEF Gone
        <2> QED
            BY <2>1, <2>2
    <1>9. CASE r # w
        <2>1. r[1] # p
            BY <1>0, <1>7, <1>9, OneReader
        <2>2. r[1] \in DOMAIN processes' <=> r[1] \in DOMAIN processes
            BY <1>0, <1>4, <2>1 DEF Kept, OneCalls
        <2> QED
            BY <1>0, <1>1, <1>2, <1>8, <1>9, <2>2, ForgottenStays
    <1>10. CASE r = w
        <2>1. CASE /\ Ends(inbox[r])
                   /\ call[r].at \notin Removing \cup {"failed"}
                   /\ r[1] \in DOMAIN processes
            <3>1. call'[r].at \notin Removing
                BY <1>1, <1>10, <2>1, IdleTyped DEF Moves, Sections, Removing
            <3>2. call'[r].at # "failed"
                <4> SUFFICES ASSUME call[r].at = "bindThread"
                             PROVE  call'[r].at # "failed"
                    BY <1>1, <1>10, IdleTyped DEF Moves, Sections
                <4> QED
                    BY <1>0, <1>4, <1>7, <1>10, <2>1 DEF Kept, OneCalls
            <3>3. r[1] \in DOMAIN processes'
                BY <1>4, <1>10, <2>1 DEF Kept
            <3>4. Ends(inbox[r])'
                BY <1>2, <2>1 DEF Ends
            <3> QED
                BY <3>1, <3>2, <3>3, <3>4 DEF Forgotten, Removing
        <2>2. CASE /\ inbox[r] = <<>> /\ Gone(r[1])
                   /\ call[r].at \in {"terminated", "terminatedRemove"}
            <3>1. inbox'[r] = <<>> /\ Gone(r[1])'
                BY <1>0, <1>2, <1>8, <2>2
            <3>2. CASE call[r].at = "terminated"
                <4>1. call'[r].at = "terminatedRemove"
                    BY <1>1, <1>10, <3>2, IdleTyped DEF Moves, Sections
                <4> QED
                    BY <3>1, <4>1 DEF Forgotten
            <3>3. CASE call[r].at = "terminatedRemove"
                <4>1. call'[r].at = "terminatedClear"
                    BY <1>1, <1>10, <3>3, IdleTyped DEF Moves, Sections
                <4>2. r[1] \notin DOMAIN processes'
                    BY <1>4, <1>7, <1>10, <3>3 DEF Kept
                <4> QED
                    BY <3>1, <4>1, <4>2 DEF Forgotten
            <3> QED
                BY <2>2, <3>2, <3>3
        <2>3. CASE /\ inbox[r] = <<>> /\ Gone(r[1])
                   /\ call[r].at \in {"terminatedClear", "idle"}
                   /\ r[1] \notin DOMAIN processes
            <3>1. inbox'[r] = <<>> /\ Gone(r[1])'
                BY <1>0, <1>2, <1>8, <2>3
            <3>2. call[r].at = "terminatedClear"
                BY <1>6, <1>10, <2>3
            <3>3. call'[r].at = "idle"
                BY <1>1, <1>10, <3>2, IdleTyped DEF Moves, Sections
            <3>4. TerminatedClear(r)
                BY <1>10, <3>2
                DEF HandlerStep, RegisterCoordinator, BindCoordinator, StoppedRegister,
                    StoppedBind, StoppedAcquire, StoppedBeginEpoch, StoppedBeginLegacy,
                    ContinuedRelease, ContinuedClear, ContinuedClearLegacy, RemoveCoordinator,
                    TerminatedForget, TerminatedRemove, EndedList, EndedRemove, EndedClear
            <3>5. processes' = processes
                BY <3>4 DEF TerminatedClear, coordinatorVars
            <3> QED
                BY <2>3, <3>1, <3>3, <3>5 DEF Forgotten
        <2> QED
            BY <2>1, <2>2, <2>3 DEF Forgotten
    <1> QED
        BY <1>9, <1>10

LEMMA WorldForgets ==
    ASSUME Attributable, NoOthers, IInv, Ongoing, Watched, World, Root \in alive',
           \A r \in Readers : Forgotten(r)
    PROVE  \A r \in Readers : Forgotten(r)'
    <1>0. OneEngine
        BY DEF NoOthers
    <1>1. ASSUME NEW s \in Readers, EngineResumes(s) \/ \E t \in ThreadsOf(s) : EngineStops(s, t),
                 NEW r \in Readers
          PROVE  Forgotten(r)'
        <2>1. /\ UNCHANGED <<sessionVars, alive, attached>>
              /\ s[1] \in alive
              /\ \E e : Send(s, e)
            BY <1>1 DEF EngineResumes, EngineRuns, EngineStops
        <2>2. UNCHANGED <<snapshots, threadProcess, activeProcess, call, processes>>
            BY <2>1 DEF sessionVars, tableVars, coordinatorVars
        <2> SUFFICES ASSUME r[1] \in attached \ alive
                     PROVE  Forgotten(r)'
            BY <2>1 DEF Forgotten
        <2>3. inbox'[r] = inbox[r]
            BY <2>1 DEF Send, IInv, Connections
        <2> QED
            BY <2>2, <2>3, ForgottenStays DEF Gone
    <1>2. ASSUME NEW p \in Processes, ProcessStarts(p), NEW r \in Readers
          PROVE  Forgotten(r)'
        <2>1. /\ UNCHANGED <<sessionVars, attached, inbox>>
              /\ alive' = alive \cup {p} /\ p \notin attached
            BY <1>2 DEF ProcessStarts
        <2>2. UNCHANGED <<snapshots, threadProcess, activeProcess, call, processes>>
            BY <2>1 DEF sessionVars, tableVars, coordinatorVars
        <2> SUFFICES ASSUME r[1] \in attached \ alive
                     PROVE  Forgotten(r)'
            BY <2>1 DEF Forgotten
        <2> QED
            BY <2>1, <2>2, ForgottenStays DEF Gone
    <1>3. ASSUME NEW p \in Processes, ProcessExits(p), NEW r \in Readers
          PROVE  Forgotten(r)'
        <2>1. /\ UNCHANGED <<sessionVars, attached>>
              /\ alive' = alive \ {p} /\ p \in alive /\ p \in attached
              /\ \A s \in Readers : inbox'[s] = IF s[1] = p
                                                THEN Append(inbox[s], Event("terminated", None))
                                                ELSE inbox[s]
            BY <1>3 DEF ProcessExits, Connected, Attributable
        <2>2. UNCHANGED <<snapshots, threadProcess, activeProcess, call, processes>>
            BY <2>1 DEF sessionVars, tableVars, coordinatorVars
        <2>3. CASE r[1] # p
            <3> SUFFICES ASSUME r[1] \in attached \ alive
                         PROVE  Forgotten(r)'
                BY <2>1, <2>3 DEF Forgotten
            <3> QED
                BY <2>1, <2>2, <2>3, ForgottenStays DEF Gone
        <2>4. CASE r[1] = p
            <3>1. Leased(r) /\ Shown(r) /\ Live(r[1]) /\ r \in Workers /\ p # Root
                  /\ inbox[r] \in Seq(EventsOf(r))
                BY <1>0, <1>3, <2>1, <2>4, OneReader
                DEF Ongoing, Watched, Live, IInv, Connections
            <3>2. PICK s, h : s = inbox[r] /\ h = holder[r]
                OBVIOUS
            <3>3. Alternates(s, h) /\ s \in Seq(EventsOf(r))
                BY <3>1, <3>2 DEF Leased
            <3>4. Ends(Append(s, Event("terminated", None)))
                BY <3>3, EndFollows
            <3>5. Ends(inbox[r])'
                <4>1. PICK u : u = Append(s, Event("terminated", None))
                    OBVIOUS
                <4>2. inbox'[r] = u /\ Ends(u)
                    BY <2>1, <2>4, <3>2, <3>4, <4>1
                <4> QED
                    BY ONLY <4>2 DEF Ends
            <3>6. call[r].at \notin Removing \cup {"failed"}
                <4>1. HomeCall(r, call[r])
                    BY <3>1 DEF Ongoing, InCalls
                <4> QED
                    BY <3>1, <4>1 DEF Shown, HomeCall
            <3>7. r[1] \in DOMAIN processes
                BY <2>1, <2>4, <3>1 DEF Watched, OneTree
            <3> QED
                BY <2>2, <3>5, <3>6, <3>7 DEF Forgotten, Removing
        <2> QED
            BY <2>3, <2>4
    <1> QED
        BY <1>1, <1>2, <1>3 DEF World

\* The first section of the handler of an event.
Ended(r, event) ==
    /\ event.kind # "terminated" => call'[r].at \notin Removing \cup {"failed"}
    /\ event.kind = "terminated" => call'[r].at = "terminated" /\ Gone(r[1])'
    /\ \A p : p # r[1] /\ p # None /\ Gone(p) => Gone(p)'

LEMMA DispatchForgets ==
    ASSUME Attributable, OneEngine, IInv, Ongoing, Root \in alive, NEW r \in Readers,
           inbox[r] # <<>>, NEW event, event = AtHand(r), Dispatch(r, event)
    PROVE  Ended(r, event)
    <1>0. /\ r[1] \in Processes /\ r[2] = "native" /\ r \in Workers /\ r[1] # None
          /\ "native" \in Engines /\ None \in Processes \cup {None}
          /\ event.thread \in ThreadsOf(r) \cup {None}
          /\ event.thread \in Threads \cup {None}
        BY OneReader, AtHandTyped DEF IInv, EventsOf, ThreadsOf, Engines
    <1>1. r = RootReader =>
             /\ event.kind \in {"process", "stopped", "continued"}
             /\ event.kind \in {"stopped", "continued"} => event.thread # None
        BY RestAlternates, RootIsReader DEF IInv, Connections, Ongoing, Leased, AtHand, Live
    <1>2. EventPid(r) = (IF r = RootReader THEN None ELSE r[1])
        BY DEF EventPid, RootReader
    <1>3. CASE event.kind = "process" /\ RegisterSnapshot(r, r[1], None, "native")
        <2>1. PICK p \in Processes : p = r[1]
            BY <1>0
        <2>2. RegisterSnapshot(r, p, None, "native")
            BY <1>3, <2>1
        <2>3. /\ call'[r].at = "register" /\ UNCHANGED threadProcess
              /\ snapshots' = Put(snapshots, p, Known(p)) /\ activeProcess' = p
            BY <1>0, <2>2, RegisterEnters
        <2>4. DOMAIN snapshots' = DOMAIN snapshots \cup {p}
            BY <2>3 DEF Put
        <2>5. \A q : q # p /\ q # None /\ Gone(q) => Gone(q)'
            BY <2>3, <2>4, PutGone
        <2> QED
            BY <1>3, <2>1, <2>3, <2>5 DEF Ended, Removing
    <1>4. CASE event.kind = "stopped"
               /\ StoppedSnapshot(r, event.thread, EventPid(r), TRUE, r[2])
        <2>1. PICK p \in Processes, t \in ThreadsOf(r) \cup {None} :
                 p = r[1] /\ t = event.thread
            BY <1>0
        <2>2. /\ call'[r].at \in {"begin", "stopRegister"}
              /\ threadProcess' = IF t = None THEN threadProcess ELSE Put(threadProcess, t, p)
              /\ activeProcess' = p
              /\ DOMAIN snapshots' = DOMAIN snapshots \cup {p}
            <3>1. r = RootReader => t # None
                BY <1>1, <1>4, <2>1
            <3>2. StoppedSnapshot(r, t, EventPid(r), TRUE, r[2])
                BY <1>4, <2>1
            <3> QED
                BY <2>1, <3>1, <3>2, StoppedEnters
        <2>3. threadProcess' = threadProcess \/ \E u : threadProcess' = Put(threadProcess, u, p)
            BY <2>2
        <2>4. \A q : q # p /\ q # None /\ Gone(q) => Gone(q)'
            BY <2>2, <2>3, PutGone
        <2> QED
            BY <1>4, <2>1, <2>2, <2>4 DEF Ended, Removing
    <1>5. CASE event.kind = "continued"
               /\ ContinuedSnapshot(r, event.thread, EventPid(r), TRUE, r[2])
        <2>1. PICK w \in Workers, t \in Threads \cup {None}, x \in Processes \cup {None},
                   g \in Engines, all \in BOOLEAN :
                 w = r /\ t = event.thread /\ x = EventPid(r) /\ g = r[2] /\ all = TRUE
            BY <1>0, <1>2
        <2>2. ContinuedSnapshot(w, t, x, all, g)
            BY <1>5, <2>1
        <2>3. ContinuedEntered(w, t, x, all, g)
            BY <2>2, ContinuedEnters
        <2>4. /\ call'[r].at \in {"release", "clear"}
              /\ UNCHANGED <<threadProcess, activeProcess>>
              /\ DOMAIN snapshots' = DOMAIN snapshots
            BY <2>1, <2>3 DEF ContinuedEntered
        <2> QED
            BY <1>5, <2>4 DEF Ended, Removing, Gone
    <1>6. CASE IgnoresContinued(r)
        BY <1>0, <1>6 DEF IgnoresContinued
    <1>7. CASE event.kind = "terminated" /\ r = RootReader
        BY <1>1, <1>7
    <1>8. CASE event.kind = "terminated" /\ TerminatedSnapshot(r, r[1])
        <2>1. PICK p : p = r[1]
            OBVIOUS
        <2>2. /\ call[r] = Idle /\ Forget(r[1]) /\ Forget(p)
              /\ Enter(r, "terminated", r[1], None, None, 0)
            BY <1>8, <2>1 DEF TerminatedSnapshot
        <2>3. call'[r].at = "terminated"
            BY <2>2, ForgetEnters DEF Removing
        <2>4. Gone(p)' /\ \A q : Gone(q) /\ q # None => Gone(q)'
            BY <1>0, <2>1, <2>2, ForgetsGone
        <2>5. Gone(r[1])'
            BY <2>1, <2>4 DEF Gone
        <2> QED
            BY <1>8, <2>3, <2>4, <2>5 DEF Ended
    <1> QED
        BY <1>0, <1>3, <1>4, <1>5, <1>6, <1>7, <1>8 DEF Dispatch, RootReader

LEMMA HandlesForgets ==
    ASSUME Attributable, OneEngine, IInv, Ongoing, Root \in alive,
           NEW w \in Readers, ReaderHandles(w),
           NEW r \in Readers, Forgotten(r)
    PROVE  Forgotten(r)'
    <1>1. /\ inbox[w] # <<>> /\ Dispatch(w, AtHand(w))
          /\ inbox' = [inbox EXCEPT ![w] = Tail(@)]
          /\ UNCHANGED <<alive, attached, holder, pending>>
          /\ DOMAIN inbox = Readers
        BY DEF ReaderHandles, IInv, Connections
    <1>2. PICK event : event = AtHand(w)
        OBVIOUS
    <1>3. DispatchDone(w, event)
        BY <1>1, <1>2, DispatchOngoing
    <1>4. Ended(w, event)
        BY <1>1, <1>2, DispatchForgets
    <1>5. /\ processes' = processes
          /\ \A v \in Workers : v # w => call'[v] = call[v]
          /\ r \in Workers /\ r[1] # None
        BY <1>3, OneReader DEF DispatchDone
    <1> SUFFICES ASSUME r[1] \in attached \ alive
                 PROVE  Forgotten(r)'
        BY <1>1 DEF Forgotten
    <1>6. CASE r # w
        <2>1. r[1] # w[1]
            BY <1>6, OneReader
        <2>2. Gone(r[1]) => Gone(r[1])'
            <3>1. PICK p : p = r[1]
                OBVIOUS
            <3>2. Gone(p) => Gone(p)'
                BY <1>4, <1>5, <2>1, <3>1 DEF Ended
            <3> QED
                BY <3>1, <3>2 DEF Gone
        <2> QED
            BY <1>1, <1>5, <1>6, <2>2, ForgottenStays
    <1>7. CASE r = w
        <2>1. Ends(inbox[r]) /\ r[1] \in DOMAIN processes
            BY <1>1, <1>7 DEF Forgotten
        <2>2. PICK s : s = inbox[r]
            OBVIOUS
        <2>3. s \in Seq(EventsOf(r)) /\ Ends(s) /\ event = Head(s) /\ inbox'[r] = Tail(s)
            BY <1>1, <1>2, <1>7, <2>1, <2>2 DEF IInv, Connections, AtHand, Ends
        <2>4. IF event.kind = "terminated" THEN inbox'[r] = <<>> ELSE Ends(Tail(s))
            BY <2>3, RestEnds
        <2>5. CASE event.kind = "terminated"
            BY <1>4, <1>7, <2>4, <2>5 DEF Ended, Forgotten
        <2>6. CASE event.kind # "terminated"
            <3>1. Ends(inbox[r])'
                BY <2>3, <2>4, <2>6 DEF Ends
            <3> QED
                BY <1>4, <1>5, <1>7, <2>1, <2>6, <3>1 DEF Ended, Forgotten, Removing
        <2> QED
            BY <2>5, <2>6
    <1> QED
        BY <1>6, <1>7

LEMMA BindsForgets ==
    ASSUME OneEngine, IInv, Ongoing, Root \in alive, NEW w \in Readers, ReaderBinds(w),
           NEW r \in Readers, Forgotten(r)
    PROVE  Forgotten(r)'
    <1>1. /\ inbox[w] # <<>>
          /\ BindSnapshot(w, w[1], AtHand(w).thread, w[2], TRUE)
          /\ UNCHANGED <<alive, attached, holder, inbox, pending>>
        BY DEF ReaderBinds
    <1>2. PICK p, t : p = w[1] /\ t = AtHand(w).thread
        OBVIOUS
    <1>3. /\ DOMAIN snapshots' = DOMAIN snapshots \cup {p}
          /\ threadProcess' = Put(threadProcess, t, p)
          /\ activeProcess' = p
          /\ processes' = processes
          /\ Enter(w, "bindThread", p, t, w[2], 0)
        BY <1>1, <1>2 DEF BindSnapshot, Bind, coordinatorVars, Put
    <1>4. /\ \A v \in Workers : v # w => call'[v] = call[v]
          /\ call'[w].at = "bindThread"
          /\ r \in Workers /\ r[1] # None
        BY <1>3, OneReader DEF Enter, Ongoing, InCalls
    <1> SUFFICES ASSUME r[1] \in attached \ alive
                 PROVE  Forgotten(r)'
        BY <1>1 DEF Forgotten
    <1>5. CASE r # w
        <2>1. PICK q : q = r[1]
            OBVIOUS
        <2>2. q # p /\ q # None
            BY <1>2, <1>4, <1>5, <2>1, OneReader
        <2>3. Gone(q) => Gone(q)'
            BY <1>3, <2>2, PutGone
        <2>4. Gone(r[1]) => Gone(r[1])'
            BY <2>1, <2>3 DEF Gone
        <2> QED
            BY <1>1, <1>3, <1>4, <1>5, <2>4, ForgottenStays
    <1>6. CASE r = w
        <2>1. Ends(inbox[r]) /\ r[1] \in DOMAIN processes
            BY <1>1, <1>6 DEF Forgotten
        <2>2. Ends(inbox[r])'
            BY <1>1, <2>1 DEF Ends
        <2> QED
            BY <1>3, <1>4, <1>6, <2>1, <2>2 DEF Forgotten, Removing
    <1> QED
        BY <1>5, <1>6

LEMMA WatcherForgets ==
    ASSUME Attributable, OneEngine, IInv, Ongoing, Root \in alive, Watched,
           (\E p \in Processes : WatcherRegisters(p)) \/ WatcherAttaches,
           NEW r \in Readers, Forgotten(r)
    PROVE  Forgotten(r)'
    <1>0. r \in Workers /\ r # Watcher /\ Watcher \in Workers /\ r[1] # None
          /\ Root \in Processes
        BY OneReader, SessionAssumption
    <1>1. ASSUME NEW p \in Processes, WatcherRegisters(p)
          PROVE  Forgotten(r)'
        <2>1. /\ RegisterSnapshot(Watcher, p, Root, "native")
              /\ UNCHANGED <<alive, attached, inbox>>
              /\ p \in alive \ attached
            BY <1>1 DEF WatcherRegisters, worldVars, Attributable
        <2>2. /\ \A v \in Workers : v # Watcher => call'[v] = call[v]
              /\ UNCHANGED <<threadProcess, processes>>
              /\ snapshots' = Put(snapshots, p, Known(p)) /\ activeProcess' = p
            BY <1>0, <2>1, RegisterEnters
        <2> SUFFICES ASSUME r[1] \in attached \ alive
                     PROVE  Forgotten(r)'
            BY <2>1 DEF Forgotten
        <2>3. PICK q : q = r[1]
            OBVIOUS
        <2>4. q # p /\ q # None
            BY <1>0, <2>1, <2>3
        <2>5. DOMAIN snapshots' = DOMAIN snapshots \cup {p}
            BY <2>2 DEF Put
        <2>6. Gone(q) => Gone(q)'
            BY <2>2, <2>4, <2>5, PutGone
        <2>7. Gone(r[1]) => Gone(r[1])'
            BY <2>3, <2>6 DEF Gone
        <2> QED
            BY <1>0, <2>1, <2>2, <2>7, ForgottenStays
    <1>2. CASE WatcherAttaches
        <2>1. PICK p : p = call[Watcher].process
            OBVIOUS
        <2>2. /\ RegisterCoordinator(Watcher)
              /\ attached' = attached \cup {p}
              /\ UNCHANGED <<alive, inbox>>
            BY <1>2, <2>1 DEF WatcherAttaches
        <2>3. p \in alive \ attached /\ call[Watcher].thread = Root
            BY <2>1, <2>2 DEF Watched, OneCalls, RegisterCoordinator
        <2>4. /\ \A v \in Workers : v # Watcher => call'[v] = call[v]
              /\ UNCHANGED <<snapshots, threadProcess, activeProcess>>
            BY <1>0, <2>2, Returns DEF RegisterCoordinator, tableVars, Ongoing, InCalls
        <2>5. DOMAIN processes' \in {DOMAIN processes, DOMAIN processes \cup {p} \cup ({Root} \ {None})}
            <3>1. CASE Coord!RegisterProcess(p, Root, call[Watcher].owner)
                BY <3>1, RegisterEffect
            <3>2. CASE Coord!RegisterProcessRefused(p, Root)
                BY <3>2 DEF Coord!RegisterProcessRefused, Coord!coordinatorVars
            <3> QED
                BY <2>1, <2>2, <2>3, <3>1, <3>2 DEF RegisterCoordinator
        <2> SUFFICES ASSUME r[1] \in attached' \ alive'
                     PROVE  Forgotten(r)'
            BY DEF Forgotten
        <2>6. r[1] \in attached \ alive /\ r[1] # p /\ r[1] # Root
            BY <2>2, <2>3
        <2> QED
            BY <1>0, <2>2, <2>4, <2>5, <2>6, ForgottenStays DEF Gone
    <1> QED
        BY <1>1, <1>2

LEMMA ForgottenInvariance ==
    ASSUME Attributable, NoOthers
    PROVE  Spec => []FInv
    <1>0. OneEngine
        BY DEF NoOthers
    <1>1. Spec => []WInv
        BY <1>0, WatchedInvariance
    <1>2. Init => (Root \in alive => \A r \in Readers : Forgotten(r))
        BY DEF Init, Forgotten
    <1>3. ASSUME FInv, WInv, WInv', [Next]_vars
          PROVE  FInv'
        <2> SUFFICES ASSUME Root \in alive'
                     PROVE  \A r \in Readers : Forgotten(r)'
            BY <1>3 DEF FInv
        <2>1. Root \in alive
            <3>1. CASE UNCHANGED vars
                BY <3>1 DEF vars, worldVars
            <3>2. CASE World
                BY <3>2, RootLives
            <3>3. CASE Proxy \/ Client
                BY <3>3, OthersLive
            <3> QED
                BY <1>3, <3>1, <3>2, <3>3 DEF Next
        <2>2. IInv /\ Ongoing /\ Watched /\ \A r \in Readers : Forgotten(r)
            BY <1>3, <2>1 DEF FInv, WInv, LInv
        <2> SUFFICES ASSUME NEW r \in Readers
                     PROVE  Forgotten(r)'
            OBVIOUS
        <2>3. CASE UNCHANGED vars
            <3>1. UNCHANGED <<alive, attached, inbox, call, processes, snapshots,
                              threadProcess, activeProcess>>
                BY <2>3 DEF vars, worldVars, sessionVars, tableVars, coordinatorVars
            <3>2. Forgotten(r)
                BY <2>2
            <3> QED
                BY <3>1, <3>2 DEF Forgotten, Gone, Ends
        <2>4. CASE World
            BY <2>2, <2>4, WorldForgets
        <2>5. ASSUME NEW w \in Workers, Continues(w)
              PROVE  Forgotten(r)'
            <3>1. w \in Readers /\ HandlerStep(w) /\ UNCHANGED worldVars
                BY <2>5, OtherWorker DEF Continues
            <3> QED
                BY <2>1, <2>2, <3>1, HandlerForgets
        <2>6. ASSUME NEW w \in Readers, ReaderBinds(w) \/ ReaderHandles(w)
              PROVE  Forgotten(r)'
            BY <1>0, <2>1, <2>2, <2>6, BindsForgets, HandlesForgets
        <2>7. CASE (\E p \in Processes : WatcherRegisters(p)) \/ WatcherAttaches
            BY <1>0, <2>1, <2>2, <2>7, WatcherForgets
        <2>8. CASE Proxy
            BY <2>5, <2>6, <2>7, <2>8, NothingRecorded DEF Proxy, NoOthers, OneEngine
        <2>9. CASE Client
            BY <2>9 DEF Client, NoOthers, OneEngine
        <2> QED
            BY <1>3, <2>3, <2>4, <2>8, <2>9 DEF Next
    <1> QED
        <2>1. Init /\ WInv => FInv
            BY <1>2 DEF FInv
        <2>2. FInv /\ WInv /\ WInv' /\ [Next]_vars => FInv'
            BY <1>3
        <2> QED
            BY <1>1, <2>1, <2>2, PTL DEF Spec

\* With CodeLLDB alone, and no request that lists threads, a child that has exited
\* is at rest forgotten everywhere: in the session's tables, in the coordinator,
\* and so in what the next event or request is attributed to.
THEOREM ExitedAreForgotten ==
    ASSUME Attributable, NoOthers
    PROVE  Spec => []ExitedForgotten
    <1>1. FInv => ExitedForgotten
        <2> SUFFICES ASSUME FInv, AtRest, Root \in alive, NEW p \in attached \ alive
                     PROVE  /\ p \notin DOMAIN snapshots \cup DOMAIN processes \cup DOMAIN leases
                            /\ \A t \in DOMAIN threadProcess : threadProcess[t] # p
                            /\ activeProcess # p
            BY DEF ExitedForgotten
        <2>1. LeasedRegistered /\ p \in Processes
            BY DEF FInv, WInv, LInv, Ongoing, Births
        <2>2. PICK r : r = <<p, "native">>
            OBVIOUS
        <2>3. r \in Readers /\ r[1] = p /\ r \in Workers
            BY <2>1, <2>2, SessionAssumption DEF Readers, Engines
        <2>4. Forgotten(r)
            BY <2>3 DEF FInv
        <2>5. call[r].at \in {"idle", "failed"}
            BY <2>3, IdleTyped DEF AtRest, Lost
        <2>6. call[r].at # "failed" => inbox[r] = <<>>
            BY <2>3 DEF AtRest, Lost
        <2>7. Gone(p) /\ p \notin DOMAIN processes
            <3>1. CASE /\ Ends(inbox[r])
                       /\ call[r].at \notin Removing \cup {"failed"}
                       /\ r[1] \in DOMAIN processes
                BY <2>6, <3>1 DEF Ends
            <3>2. CASE /\ inbox[r] = <<>> /\ Gone(r[1])
                       /\ call[r].at \in {"terminated", "terminatedRemove"}
                BY <2>5, <3>2
            <3>3. CASE /\ inbox[r] = <<>> /\ Gone(r[1])
                       /\ call[r].at \in {"terminatedClear", "idle"}
                       /\ r[1] \notin DOMAIN processes
                BY <2>3, <3>3
            <3> QED
                BY <2>3, <2>4, <3>1, <3>2, <3>3 DEF Forgotten
        <2> QED
            BY <2>1, <2>7 DEF Gone, LeasedRegistered
    <1> QED
        BY <1>1, ForgottenInvariance, PTL

--------------------------------------------------------------------------------
\* The stacks of the launched process, which CodeLLDB alone debugs, as long as it has
\* no children and a single thread; as many requests as you like resume it and ask
\* for its stack.
OneThread(t) ==
    /\ Attributable
    /\ Processes = {Root} /\ Threads = {t} /\ PythonProcesses = {} /\ Listers = {}

LEMMA Lonely ==
    ASSUME NEW t, OneThread(t)
    PROVE  /\ Readers = {RootReader} /\ RootReader \in Workers
           /\ RootReader[1] = Root /\ RootReader[2] = "native"
           /\ EventPid(RootReader) = None
           /\ ThreadGroup[t] = Root /\ t # None /\ Root # None
           /\ Watcher # RootReader
           /\ Requests \subseteq Workers /\ RootReader \notin Requests
           /\ Attributable
    <1>1. Readers = {RootReader}
        BY DEF OneThread, Readers, RootReader, Engines
    <1>2. ThreadGroup[t] = Root
        BY ThreadGroupAssumption DEF OneThread
    <1> QED
        BY <1>1, <1>2, RootIsReader, SessionAssumption DEF OneThread, EventPid, RootReader

--------------------------------------------------------------------------------
\* Where a handler can be: only the reader takes a stop, and it is the latest.
LoneStages == Taking \cup {"idle", "register", "begin", "beginLegacy", "release", "clear",
                           "clearLegacy", "ended", "endedRemove"}

LoneCall(w, c, t) ==
    /\ DOMAIN c = {"at", "process", "thread", "owner", "epoch", "rest"}
    /\ c.at \in LoneStages /\ c.process \in {Root, None} /\ c.thread \in {t, None}
    /\ w # RootReader => c.at \in {"idle", "release", "clear", "clearLegacy"}
    /\ c.at \in Taking \cup {"begin"} =>
          c.process = Root /\ c.thread = t /\ c.epoch = stopEpoch
    /\ c.at = "release" => c.process = Root

LoneCalls(t) == DOMAIN call = Workers /\ \A w \in Workers : LoneCall(w, call[w], t)

\* What a request thread has read, and what is on its way to the reader.
LoneAnswers(t) ==
    \A q \in Requests :
        pending[q] # NoAnswer => pending[q].process = Root /\ pending[q].thread = t

LoneEvents(t) ==
    \A i \in 1 .. Len(inbox[RootReader]) :
        /\ inbox[RootReader][i].kind = "stopped" => inbox[RootReader][i].thread = t
        /\ inbox[RootReader][i].kind = "terminated" => Root \notin alive

\* What is believed of the process.
LoneTables(t) ==
    /\ stopEpoch \in Nat /\ isStopped \in BOOLEAN
    /\ DOMAIN snapshots \subseteq {Root} /\ SnapshotsTyped
    /\ isStopped = Known(Root).isStopped
    /\ isStopped => snapshots[Root].epoch = stopEpoch /\ t \in DOMAIN threadProcess
    /\ activeProcess \in {Root, None}
    /\ attached = {Root} /\ alive \subseteq {Root}

\* An epoch of the registry is begun by a stop, and is the latest once the stop
\* has been handled.
LoneEpochs ==
    /\ Root \notin DOMAIN processEpochs => call[RootReader].at # "beginLegacy"
    /\ isStopped => \/ call[RootReader].at \in Taking \cup {"begin"}
                    \/ Root \in DOMAIN processEpochs /\ processEpochs[Root] = stopEpoch

Lone(t) ==
    /\ IInv /\ LoneCalls(t) /\ LoneAnswers(t) /\ LoneEvents(t) /\ LoneTables(t) /\ LoneEpochs

--------------------------------------------------------------------------------
\* The steps of the session.  Which section of its handler a worker runs:
SameCall(w, at) ==
    /\ DOMAIN call'[w] = DOMAIN call[w] /\ call'[w].at = at
    /\ call'[w].process = call[w].process /\ call'[w].thread = call[w].thread
    /\ call'[w].epoch = call[w].epoch

OthersWait(w) ==
    DOMAIN call' = Workers /\ \A v \in Workers : v # w => call'[v] = call[v]

Advances(w) ==
    /\ UNCHANGED <<tableVars, worldVars>> /\ OthersWait(w)
    /\ \/ /\ \/ call[w].at \in Taking /\ \E at \in Taking \cup {"begin"} : SameCall(w, at)
             \/ call[w].at = "release" /\ SameCall(w, "clear")
             \/ call[w].at = "register" /\ call'[w] = Idle
             \/ call[w].at \in {"ended", "endedRemove"} /\ SameCall(w, "endedRemove")
          /\ UNCHANGED registryVars
       \/ /\ call[w].at = "begin" /\ SameCall(w, "beginLegacy")
          /\ Registry!BeginEpoch(call[w].epoch, call[w].process, call[w].thread)
       \/ /\ call[w].at = "beginLegacy" /\ call'[w] = Idle
          /\ Registry!BeginEpoch(call[w].epoch, None, None)
       \/ /\ call[w].at = "clear" /\ SameCall(w, "clearLegacy")
          /\ Registry!ClearCurrent(call[w].process, call[w].thread)
       \/ /\ call[w].at \in {"clearLegacy", "endedRemove"} /\ call'[w] = Idle
          /\ Registry!ClearCurrent(None, None)

LEMMA LoneGoto ==
    ASSUME NEW t, LoneCalls(t), NEW w \in Workers, NEW at, Goto(w, at)
    PROVE  OthersWait(w) /\ SameCall(w, at)
    <1>1. PICK old : old = call[w]
        OBVIOUS
    <1>2. DOMAIN old = {"at", "process", "thread", "owner", "epoch", "rest"}
        BY <1>1 DEF LoneCalls, LoneCall
    <1>3. PICK c : c = [old EXCEPT !.at = at]
        OBVIOUS
    <1>4. /\ DOMAIN c = DOMAIN old /\ c.at = at
          /\ c.process = old.process /\ c.thread = old.thread /\ c.epoch = old.epoch
        BY <1>2, <1>3
    <1>5. call' = [call EXCEPT ![w] = c]
        BY <1>1, <1>3 DEF Goto
    <1>6. call'[w] = c /\ OthersWait(w)
        BY <1>5 DEF LoneCalls, OthersWait
    <1> QED
        BY <1>1, <1>4, <1>6 DEF SameCall

LEMMA LoneReturn ==
    ASSUME NEW t, LoneCalls(t), NEW w \in Workers, Return(w)
    PROVE  OthersWait(w) /\ call'[w] = Idle
    BY DEF LoneCalls, Return, OthersWait

LEMMA HandlerAdvances ==
    ASSUME NEW t, LoneCalls(t), NEW w \in Workers, HandlerStep(w), UNCHANGED worldVars
    PROVE  Advances(w)
    <1>r. LoneCall(w, call[w], t)
        BY DEF LoneCalls
    <1>s. call[w].at \in LoneStages
        BY <1>r DEF LoneCall
    <1>1. CASE RegisterCoordinator(w)
        <2>1. call[w].at = "register" /\ Return(w) /\ UNCHANGED <<tableVars, registryVars>>
            BY <1>1 DEF RegisterCoordinator
        <2> QED
            BY <2>1, LoneReturn DEF Advances
    <1>2. CASE StoppedRegister(w)
        <2>1. PICK at \in {"stopBind", "acquire"} : Goto(w, at)
            BY <1>2 DEF StoppedRegister
        <2>2. call[w].at \in Taking /\ UNCHANGED <<tableVars, registryVars>>
            BY <1>2 DEF StoppedRegister, Taking
        <2> QED
            BY <2>1, <2>2, LoneGoto DEF Advances, Taking
    <1>3. CASE StoppedBind(w)
        <2>1. PICK at \in {"acquire", "begin"} : Goto(w, at)
            BY <1>3 DEF StoppedBind
        <2>2. call[w].at \in Taking /\ UNCHANGED <<tableVars, registryVars>>
            BY <1>3 DEF StoppedBind, Taking
        <2> QED
            BY <2>1, <2>2, LoneGoto DEF Advances, Taking
    <1>4. CASE StoppedAcquire(w)
        <2>1. Goto(w, "begin") /\ call[w].at \in Taking /\ UNCHANGED <<tableVars, registryVars>>
            BY <1>4 DEF StoppedAcquire, Taking
        <2> QED
            BY <2>1, LoneGoto DEF Advances
    <1>5. CASE StoppedBeginEpoch(w)
        <2>1. /\ call[w].at = "begin" /\ Goto(w, "beginLegacy") /\ UNCHANGED tableVars
              /\ Registry!BeginEpoch(call[w].epoch, call[w].process, call[w].thread)
            BY <1>5 DEF StoppedBeginEpoch
        <2> QED
            BY <2>1, LoneGoto DEF Advances
    <1>6. CASE StoppedBeginLegacy(w)
        <2>1. /\ call[w].at = "beginLegacy" /\ Return(w) /\ UNCHANGED tableVars
              /\ Registry!BeginEpoch(call[w].epoch, None, None)
            BY <1>6 DEF StoppedBeginLegacy
        <2> QED
            BY <2>1, LoneReturn DEF Advances
    <1>7. CASE ContinuedRelease(w)
        <2>1. call[w].at = "release" /\ Goto(w, "clear") /\ UNCHANGED <<tableVars, registryVars>>
            BY <1>7 DEF ContinuedRelease
        <2> QED
            BY <2>1, LoneGoto DEF Advances
    <1>8. CASE ContinuedClear(w)
        <2>1. /\ call[w].at = "clear" /\ Goto(w, "clearLegacy") /\ UNCHANGED tableVars
              /\ Registry!ClearCurrent(call[w].process, call[w].thread)
            BY <1>8 DEF ContinuedClear
        <2> QED
            BY <2>1, LoneGoto DEF Advances
    <1>9. CASE ContinuedClearLegacy(w)
        <2>1. /\ call[w].at = "clearLegacy" /\ Return(w) /\ UNCHANGED tableVars
              /\ Registry!ClearCurrent(None, None)
            BY <1>9 DEF ContinuedClearLegacy
        <2> QED
            BY <2>1, LoneReturn DEF Advances
    <1>10. CASE EndedList(w) \/ EndedRemove(w)
        <2>1. DOMAIN call = Workers
            BY DEF LoneCalls
        <2>2. DOMAIN call[w] = {"at", "process", "thread", "owner", "epoch", "rest"}
            BY <1>r DEF LoneCall
        <2>3. OthersWait(w) /\ SameCall(w, "endedRemove")
            <3>1. CASE EndedList(w)
                <4>1. PICK R : call' = [call EXCEPT ![w].at = "endedRemove", ![w].rest = R]
                    BY <3>1 DEF EndedList
                <4> QED
                    BY ONLY <4>1, <2>1, <2>2, w \in Workers DEF OthersWait, SameCall
            <3>2. CASE EndedRemove(w)
                <4>1. PICK p : call' = [call EXCEPT ![w].rest = @ \ {p}]
                    BY <3>2 DEF EndedRemove
                <4>2. call[w].at = "endedRemove"
                    BY <3>2 DEF EndedRemove
                <4> QED
                    BY ONLY <4>1, <4>2, <2>1, <2>2, w \in Workers DEF OthersWait, SameCall
            <3> QED
                BY <1>10, <3>1, <3>2
        <2>4. /\ call[w].at \in {"ended", "endedRemove"}
              /\ UNCHANGED <<tableVars, registryVars>>
            BY <1>10 DEF EndedList, EndedRemove
        <2> QED
            BY <2>3, <2>4 DEF Advances
    <1>12. CASE EndedClear(w)
        <2>1. /\ call[w].at = "endedRemove" /\ Return(w) /\ UNCHANGED tableVars
              /\ Registry!ClearCurrent(None, None)
            BY <1>12 DEF EndedClear
        <2> QED
            BY <2>1, LoneReturn DEF Advances
    <1>13. CASE \/ BindCoordinator(w) \/ RemoveCoordinator(w) \/ TerminatedForget(w)
                \/ TerminatedRemove(w) \/ TerminatedClear(w)
        BY <1>13, <1>s DEF BindCoordinator, RemoveCoordinator, TerminatedForget, TerminatedRemove,
                           TerminatedClear, LoneStages, Taking
    <1> QED
        BY <1>1, <1>2, <1>3, <1>4, <1>5, <1>6, <1>7, <1>8, <1>9, <1>10, <1>12, <1>13
        DEF HandlerStep

--------------------------------------------------------------------------------
\* How a handler starts, and what its first section does to the tables.
Starts(w, at, p, u, e) ==
    /\ OthersWait(w) /\ call[w].at = "idle"
    /\ DOMAIN call'[w] = {"at", "process", "thread", "owner", "epoch", "rest"}
    /\ call'[w].at = at /\ call'[w].process = p /\ call'[w].thread = u /\ call'[w].epoch = e

LEMMA LoneEnter ==
    ASSUME NEW t, LoneCalls(t), NEW w \in Workers, call[w] = Idle,
           NEW at, NEW p, NEW u, NEW owner, NEW e, Enter(w, at, p, u, owner, e)
    PROVE  Starts(w, at, p, u, e)
    <1>1. PICK c : c = [at |-> at, process |-> p, thread |-> u, owner |-> owner,
                        epoch |-> e, rest |-> {}]
        OBVIOUS
    <1>2. /\ DOMAIN c = {"at", "process", "thread", "owner", "epoch", "rest"}
          /\ c.at = at /\ c.process = p /\ c.thread = u /\ c.epoch = e
        BY <1>1
    <1>3. call' = [call EXCEPT ![w] = c]
        BY <1>1 DEF Enter
    <1>4. call'[w] = c /\ OthersWait(w)
        BY <1>3 DEF LoneCalls, OthersWait
    <1> QED
        BY <1>2, <1>4 DEF Starts, Idle

Announced ==
    /\ UNCHANGED <<stopEpoch, isStopped, threadProcess, registryVars>>
    /\ activeProcess' = Root /\ snapshots' = Put(snapshots, Root, Known(Root))
    /\ Starts(RootReader, "register", Root, None, 0)

Halted(t) ==
    /\ UNCHANGED registryVars
    /\ stopEpoch' = stopEpoch + 1 /\ isStopped' = TRUE /\ activeProcess' = Root
    /\ DOMAIN snapshots' = {Root} /\ snapshots'[Root] \in Snapshots
    /\ snapshots'[Root].isStopped /\ snapshots'[Root].epoch = stopEpoch + 1
    /\ t \in DOMAIN threadProcess'
    /\ Starts(RootReader, "stopRegister", Root, t, stopEpoch + 1)

Resumed(w, u) ==
    /\ UNCHANGED <<stopEpoch, activeProcess, threadProcess, registryVars>>
    /\ \/ /\ isStopped' = FALSE /\ DOMAIN snapshots' = DOMAIN snapshots
          /\ Root \in DOMAIN snapshots =>
                snapshots'[Root] \in Snapshots /\ ~ snapshots'[Root].isStopped
          /\ Starts(w, "release", Root, u, 0)
       \/ /\ UNCHANGED <<isStopped, snapshots>>
          /\ Starts(w, "clear", None, u, 0)

Over ==
    /\ UNCHANGED <<stopEpoch, registryVars>>
    /\ isStopped' = FALSE /\ activeProcess' = None /\ DOMAIN snapshots' = {}
    /\ Root \notin alive
    /\ Starts(RootReader, "ended", None, None, 0)

\* A stop of the only thread is the process's, bound to it or not.
LEMMA LoneStops ==
    ASSUME NEW t, OneThread(t), Lone(t),
           StoppedSnapshot(RootReader, t, None, TRUE, "native")
    PROVE  Halted(t)
    <1> USE Lonely
    <1>1. PICK named : named = EventProcess(t, None)
        OBVIOUS
    <1>2. named \in {Root, None}
        BY <1>1, NoneStrays DEF EventProcess, Lone, IInv
    <1>3. PICK old : old = IF named = None THEN NewSnapshot ELSE Known(named)
        OBVIOUS
    <1>4. old \in Snapshots
        BY <1>2, <1>3 DEF Lone, LoneTables, SnapshotsTyped, Known, NewSnapshot, Snapshots
    <1>5. PICK s : s = [epoch |-> stopEpoch + 1, isStopped |-> TRUE,
                        threads |-> old.threads \cup {t},
                        stoppedThreads |-> old.stoppedThreads \cup {t}, allStopped |-> TRUE]
        OBVIOUS
    <1>6. s \in Snapshots /\ s.isStopped /\ s.epoch = stopEpoch + 1
        BY <1>4, <1>5 DEF Snapshots, OneThread, Lone, LoneTables
    <1>7. /\ call[RootReader] = Idle
          /\ snapshots' = Put(snapshots, Root, s)
          /\ threadProcess' = Put(threadProcess, t, Root)
          /\ activeProcess' = Root
          /\ Enter(RootReader, "stopRegister", Root, t, "native", stopEpoch + 1)
          /\ stopEpoch' = stopEpoch + 1 /\ isStopped' = TRUE /\ UNCHANGED registryVars
        <2>1. StoppedProcesses(t, None) = {Root}
            BY <1>1, <1>2 DEF StoppedProcesses, Attributable, OneThread
        <2>2. {t} \ {None} = {t}
            OBVIOUS
        <2>3. StoppedSnapshotOf(Root, RootReader, t, None, TRUE, "native")
            BY <2>1, Zenon DEF StoppedSnapshot
        <2> QED
            BY <1>1, <1>3, <1>5, <2>2, <2>3 DEF StoppedSnapshotOf
    <1>8. Starts(RootReader, "stopRegister", Root, t, stopEpoch + 1)
        BY <1>7, LoneEnter DEF Lone
    <1> QED
        BY <1>6, <1>7, <1>8 DEF Halted, Put, Lone, LoneTables

LEMMA LoneContinues ==
    ASSUME NEW t, OneThread(t), Lone(t), NEW w \in Workers, NEW u \in {t, None},
           NEW all \in BOOLEAN, ContinuedSnapshot(w, u, None, all, "native"),
           all \/ u = t
    PROVE  Resumed(w, u)
    <1> USE Lonely
    <1>1. PICK p : p = EventProcess(u, None)
        OBVIOUS
    <1>2. p \in {Root, None}
        BY <1>1, NoneStrays DEF EventProcess, Lone, IInv, LoneTables
    <1> DEFINE old == snapshots[p]
               still == IF all \/ u = None THEN {}
                        ELSE (IF old.allStopped THEN old.threads ELSE old.stoppedThreads) \ {u}
               runs == [old EXCEPT !.isStopped = FALSE, !.stoppedThreads = {},
                                   !.allStopped = FALSE]
    <1>3. p \in DOMAIN snapshots => p = Root /\ old \in Snapshots
        BY <1>2 DEF Lone, LoneTables, SnapshotsTyped
    <1>4. old \in Snapshots => still = {}
        <2>1. old \in Snapshots => old.threads \subseteq {t} /\ old.stoppedThreads \subseteq {t}
            BY DEF Snapshots, OneThread
        <2> HIDE DEF old
        <2> QED
            BY <2>1
    <1>5. /\ call[w] = Idle
          /\ p \notin DOMAIN snapshots => snapshots' = snapshots
          /\ p \in DOMAIN snapshots =>
                snapshots' = [snapshots EXCEPT ![p] =
                    [old EXCEPT !.isStopped = still # {}, !.stoppedThreads = still,
                                !.allStopped = FALSE]]
          /\ Enter(w, IF p # None /\ (p \in DOMAIN snapshots => still = {})
                      THEN "release" ELSE "clear", p, u, "native", 0)
          /\ isStopped' = AnyStopped(snapshots')
          /\ UNCHANGED <<stopEpoch, activeProcess, threadProcess, registryVars>>
        BY <1>1 DEF ContinuedSnapshot
    <1> HIDE DEF still, old
    <1>6. p \in DOMAIN snapshots => snapshots' = [snapshots EXCEPT ![p] = runs]
        <2>1. CASE p \in DOMAIN snapshots
            <3>1. (still # {}) = FALSE /\ still = {}
                BY <1>3, <1>4, <2>1
            <3> QED
                BY <1>5, <3>1, <2>1
        <2> QED
            BY <2>1
    <1>7. old \in Snapshots => runs \in Snapshots /\ ~ runs.isStopped
        BY DEF Snapshots
    <1> HIDE DEF runs
    <1>8. p \in DOMAIN snapshots => snapshots'[p] \in Snapshots /\ ~ snapshots'[p].isStopped
        BY <1>3, <1>6, <1>7
    <1>9. CASE p = Root
        <2>1. Starts(w, "release", Root, u, 0)
            BY <1>3, <1>4, <1>5, <1>9, LoneEnter DEF Lone
        <2>2. DOMAIN snapshots' = DOMAIN snapshots
            BY <1>5, <1>6
        <2>3. isStopped' = FALSE
            BY <1>5, <1>8, <1>9, <2>2 DEF AnyStopped, Lone, LoneTables
        <2> QED
            BY <1>5, <1>8, <1>9, <2>1, <2>2, <2>3 DEF Resumed
    <1>10. CASE p = None
        <2>1. p \notin DOMAIN snapshots
            BY <1>10 DEF Lone, LoneTables
        <2>2. Starts(w, "clear", None, u, 0)
            BY <1>5, <1>10, LoneEnter DEF Lone
        <2>3. isStopped' = isStopped
            BY <1>5, <2>1 DEF AnyStopped, Lone, LoneTables, Known, NewSnapshot, SnapshotsTyped,
                              Snapshots
        <2> QED
            BY <1>5, <2>1, <2>2, <2>3 DEF Resumed
    <1> QED
        BY <1>2, <1>9, <1>10

SessionStep(t) ==
    \/ UNCHANGED <<tableVars, call, registryVars>>
    \/ \E w \in Workers : Advances(w)
    \/ Announced \/ Halted(t) \/ Over
    \/ \E w \in Workers, u \in {t, None} : Resumed(w, u)

\* The event at the reader's hand, and what it leads to.
LEMMA LoneHandles ==
    ASSUME NEW t, OneThread(t), Lone(t), ReaderHandles(RootReader)
    PROVE  SessionStep(t)
    <1> USE Lonely
    <1>1. PICK event : event = AtHand(RootReader)
        OBVIOUS
    <1>2. /\ inbox[RootReader] # <<>> /\ Dispatch(RootReader, event)
          /\ inbox[RootReader] \in Seq(EventsOf(RootReader))
        BY <1>1 DEF ReaderHandles, Lone, IInv, Connections
    <1>3. /\ event \in EventsOf(RootReader)
          /\ event.kind = "stopped" => event.thread = t
          /\ event.kind = "terminated" => Root \notin alive
        <2>1. 1 \in 1 .. Len(inbox[RootReader]) /\ event = inbox[RootReader][1]
            BY <1>1, <1>2 DEF AtHand
        <2> QED
            BY <1>2, <2>1 DEF Lone, LoneEvents
    <1>4. event.thread \in {t, None}
        BY <1>3 DEF EventsOf, ThreadsOf, OneThread
    <1>5. ~ IgnoresContinued(RootReader)
        BY DEF IgnoresContinued
    <1>6. CASE event.kind = "process" /\ RegisterSnapshot(RootReader, Root, None, "native")
        <2>1. Starts(RootReader, "register", Root, None, 0)
            BY <1>6, LoneEnter DEF RegisterSnapshot, Lone
        <2> QED
            BY <1>6, <2>1 DEF RegisterSnapshot, SessionStep, Announced
    <1>7. CASE event.kind = "stopped"
               /\ StoppedSnapshot(RootReader, event.thread, None, TRUE, "native")
        BY <1>3, <1>7, LoneStops DEF SessionStep
    <1>8. CASE ContinuedSnapshot(RootReader, event.thread, None, TRUE, "native")
        BY <1>4, <1>8, LoneContinues DEF SessionStep
    <1>9. CASE event.kind = "terminated" /\ EndedSnapshot(RootReader)
        <2>1. Starts(RootReader, "ended", None, None, 0)
            BY <1>9, LoneEnter DEF EndedSnapshot, Lone
        <2>2. DOMAIN snapshots' = {}
            BY <1>9 DEF EndedSnapshot, Without
        <2> QED
            BY <1>3, <1>9, <2>1, <2>2 DEF EndedSnapshot, SessionStep, Over
    <1>10. /\ RootReader = <<Root, "native">> /\ RootReader[2] # "python"
           /\ EventPid(RootReader) = None /\ RootReader[1] = Root /\ RootReader[2] = "native"
        BY DEF RootReader
    <1>11. \/ event.kind = "process" /\ RegisterSnapshot(RootReader, Root, None, "native")
           \/ /\ event.kind = "stopped"
              /\ StoppedSnapshot(RootReader, event.thread, None, TRUE, "native")
           \/ ContinuedSnapshot(RootReader, event.thread, None, TRUE, "native")
           \/ event.kind = "terminated" /\ EndedSnapshot(RootReader)
        BY ONLY <1>2, <1>5, <1>10, Zenon DEF Dispatch
    <1> QED
        BY <1>6, <1>7, <1>8, <1>9, <1>11

LEMMA LoneSteps ==
    ASSUME NEW t, OneThread(t), Lone(t), Next
    PROVE  SessionStep(t)
    <1> USE Lonely
    <1>1. CASE UNCHANGED sessionVars
        BY <1>1 DEF sessionVars, SessionStep
    <1>2. CASE World \/ Client
        <2>1. UNCHANGED sessionVars
            BY <1>2 DEF World, Client, EngineResumes, EngineStops, ProcessStarts, ProcessExits,
                        RequestResumes, RequestLists
        <2> QED
            BY <1>1, <2>1
    <1>3. ASSUME NEW w \in Workers, Continues(w)
          PROVE  SessionStep(t)
        BY <1>3, HandlerAdvances DEF Continues, SessionStep, Lone
    <1>4. ASSUME NEW p \in Processes, WatcherRegisters(p)
          PROVE  FALSE
        BY <1>4 DEF WatcherRegisters, OneThread, Lone, LoneTables
    <1>5. CASE WatcherAttaches
        <2>1. Watcher \in Workers /\ call[Watcher].at = "register"
            BY <1>5, SessionAssumption DEF WatcherAttaches, RegisterCoordinator
        <2> QED
            BY <2>1 DEF Lone, LoneCalls, LoneCall
    <1>6. ASSUME NEW r \in Readers, ReaderBinds(r)
          PROVE  FALSE
        BY <1>6 DEF ReaderBinds, BindsFirst
    <1>7. ASSUME NEW r \in Readers, ReaderHandles(r)
          PROVE  SessionStep(t)
        BY <1>7, LoneHandles
    <1>8. ASSUME NEW q \in Requests, RequestInvalidates(q)
          PROVE  SessionStep(t)
        <2>1. pending[q] # NoAnswer
            BY <1>8, Zenon DEF RequestInvalidates
        <2>2. pending[q].process = Root /\ pending[q].thread = t
            BY <2>1 DEF Lone, LoneAnswers
        <2>3. ContinuedSnapshot(q, pending[q].thread,
                  IF pending[q].process = Root THEN None ELSE pending[q].process, FALSE, "native")
            BY <1>8, Zenon DEF RequestInvalidates
        <2>4. ContinuedSnapshot(q, t, None, FALSE, "native")
            BY <2>2, <2>3
        <2>5. Resumed(q, t)
            BY <2>4, LoneContinues
        <2> QED
            BY <2>5 DEF SessionStep
    <1>9. ASSUME NEW q \in Listers
          PROVE  FALSE
        BY DEF OneThread
    <1> QED
        BY <1>2, <1>3, <1>4, <1>5, <1>6, <1>7, <1>8, <1>9, NothingRecorded DEF Next, Proxy

--------------------------------------------------------------------------------
\* What is on its way stays about the only thread.
LEMMA LoneSent ==
    ASSUME NEW t, OneThread(t), Lone(t), NEW e,
           Send(RootReader, e), e \in EventsOf(RootReader),
           e.kind = "stopped" => e.thread = t,
           e.kind = "terminated" => Root \notin alive', alive' \subseteq alive
    PROVE  LoneEvents(t)'
    <1>1. inbox[RootReader] \in Seq(EventsOf(RootReader)) /\ RootReader \in DOMAIN inbox
        BY Lonely DEF Lone, IInv, Connections
    <1>2. PICK s \in Seq(EventsOf(RootReader)) : s = inbox[RootReader]
        BY <1>1
    <1>3. inbox'[RootReader] = Append(s, e)
        BY <1>1, <1>2 DEF Send
    <1>4. ASSUME NEW i \in 1 .. Len(Append(s, e))
          PROVE  /\ Append(s, e)[i].kind = "stopped" => Append(s, e)[i].thread = t
                 /\ Append(s, e)[i].kind = "terminated" => Root \notin alive'
        <2>1. CASE i = Len(s) + 1
            <3>1. Append(s, e)[i] = e
                BY <2>1
            <3> QED
                BY <3>1
        <2>2. CASE i # Len(s) + 1
            <3>1. i \in 1 .. Len(s) /\ Append(s, e)[i] = s[i]
                BY <2>2
            <3> QED
                BY <1>2, <3>1 DEF Lone, LoneEvents
        <2> QED
            BY <2>1, <2>2
    <1> QED
        BY <1>3, <1>4 DEF LoneEvents

LEMMA LoneWorld ==
    ASSUME NEW t, OneThread(t), Lone(t), World
    PROVE  /\ LoneEvents(t)' /\ pending' = pending
           /\ attached' = attached /\ alive' \subseteq alive
    <1> USE Lonely
    <1>1. ASSUME NEW r \in Readers, EngineResumes(r)
          PROVE  LoneEvents(t)' /\ UNCHANGED <<alive, attached, pending>>
        <2>1. Send(RootReader, Event("continued", holder[RootReader]))
              /\ UNCHANGED <<alive, attached, pending>>
            BY <1>1 DEF EngineResumes, EngineRuns
        <2>2. Event("continued", holder[RootReader]) \in EventsOf(RootReader)
            BY DEF Lone, IInv, Connections, Event, EventsOf, Kinds
        <2> QED
            BY <2>1, <2>2, LoneSent DEF Event
    <1>2. ASSUME NEW r \in Readers, NEW u \in ThreadsOf(r), EngineStops(r, u)
          PROVE  LoneEvents(t)' /\ UNCHANGED <<alive, attached, pending>>
        <2>1. Send(RootReader, Event("stopped", u)) /\ UNCHANGED <<alive, attached, pending>>
            BY <1>2 DEF EngineStops
        <2>2. Event("stopped", u) \in EventsOf(RootReader) /\ u = t
            BY DEF Event, EventsOf, Kinds, ThreadsOf, OneThread
        <2> QED
            BY <2>1, <2>2, LoneSent DEF Event
    <1>3. ASSUME NEW p \in Processes, ProcessStarts(p)
          PROVE  FALSE
        BY <1>3 DEF ProcessStarts, OneThread, Lone, LoneTables
    <1>4. ASSUME NEW p \in Processes, ProcessExits(p)
          PROVE  LoneEvents(t)' /\ UNCHANGED <<attached, pending>> /\ alive' \subseteq alive
        <2>1. /\ p = Root /\ alive' = alive \ {Root} /\ UNCHANGED <<attached, pending>>
            BY <1>4 DEF ProcessExits, OneThread
        <2>2. inbox' = [r \in Readers |-> IF r[1] = p THEN Append(inbox[r], Event("terminated", None))
                                          ELSE inbox[r]]
            BY <1>4 DEF ProcessExits, Connected, Attributable
        <2>3. Send(RootReader, Event("terminated", None))
            BY <2>1, <2>2 DEF Send, Lone, IInv, Connections
        <2>4. Event("terminated", None) \in EventsOf(RootReader)
            BY DEF Event, EventsOf, Kinds
        <2> QED
            BY <2>1, <2>3, <2>4, LoneSent DEF Event
    <1> QED
        BY <1>1, <1>2, <1>3, <1>4 DEF World

LEMMA LoneDelivery ==
    ASSUME NEW t, OneThread(t), Lone(t), Next
    PROVE  /\ LoneEvents(t)' /\ LoneAnswers(t)'
           /\ attached' = attached /\ alive' \subseteq alive
    <1> USE Lonely
    <1>0. UNCHANGED <<inbox, alive>> => LoneEvents(t)'
        BY DEF Lone, LoneEvents
    <1>00. pending' = pending => LoneAnswers(t)'
        BY DEF Lone, LoneAnswers
    <1>1. CASE World
        BY <1>1, <1>00, LoneWorld
    <1>2. ASSUME NEW q \in Requests, NEW p \in Processes, RequestResumes(q, p)
          PROVE  LoneEvents(t)' /\ LoneAnswers(t)' /\ UNCHANGED <<alive, attached>>
        <2>1. p = Root /\ <<p, "native">> = RootReader
            BY DEF OneThread, RootReader
        <2>2. PICK h : h = holder[RootReader]
            OBVIOUS
        <2>3. h = t
            BY <1>2, <2>1, <2>2 DEF RequestResumes, EngineRuns, Lone, IInv, Connections, ThreadsOf,
                               OneThread
        <2>4. /\ Send(RootReader, Event("continued", t)) /\ UNCHANGED <<alive, attached>>
              /\ pending' = [pending EXCEPT ![q] = [process |-> Root, engine |-> "native",
                                                    thread |-> t]]
            BY <1>2, <2>1, <2>2, <2>3 DEF RequestResumes, EngineRuns
        <2>5. Event("continued", t) \in EventsOf(RootReader)
            <3>1. t \in ThreadsOf(RootReader)
                BY <1>2, <2>1, <2>2, <2>3 DEF RequestResumes, EngineRuns, Lone, IInv, Connections
            <3> QED
                BY <3>1 DEF Event, EventsOf, Kinds
        <2>6. LoneEvents(t)'
            BY <2>4, <2>5, LoneSent DEF Event
        <2>7. LoneAnswers(t)'
            BY <2>4 DEF Lone, LoneAnswers, IInv, Answers
        <2> QED
            BY <2>4, <2>6, <2>7
    <1>3. ASSUME NEW w \in Workers, Continues(w)
          PROVE  UNCHANGED worldVars
        BY <1>3 DEF Continues
    <1>4. ASSUME NEW p \in Processes, WatcherRegisters(p)
          PROVE  UNCHANGED worldVars
        BY <1>4 DEF WatcherRegisters
    <1>5. CASE WatcherAttaches
        <2>1. Watcher \in Workers /\ call[Watcher].at = "register"
            BY <1>5, SessionAssumption DEF WatcherAttaches, RegisterCoordinator
        <2> QED
            BY <2>1 DEF Lone, LoneCalls, LoneCall
    <1>6. ASSUME NEW r \in Readers, ReaderBinds(r)
          PROVE  FALSE
        BY <1>6 DEF ReaderBinds, BindsFirst
    <1>7. ASSUME NEW r \in Readers, ReaderHandles(r)
          PROVE  LoneEvents(t)' /\ UNCHANGED <<alive, attached, pending>>
        <2>1. PICK s \in Seq(EventsOf(RootReader)) : s = inbox[RootReader]
            BY DEF Lone, IInv, Connections
        <2>2. s # <<>> /\ inbox'[RootReader] = Tail(s) /\ UNCHANGED <<alive, attached, pending>>
            BY <1>7, <2>1 DEF ReaderHandles, Lone, IInv, Connections
        <2>3. ASSUME NEW i \in 1 .. Len(Tail(s))
              PROVE  i + 1 \in 1 .. Len(s) /\ Tail(s)[i] = s[i + 1]
            BY <2>2
        <2> QED
            BY <2>1, <2>2, <2>3 DEF Lone, LoneEvents
    <1>8. ASSUME NEW q \in Requests, RequestInvalidates(q)
          PROVE  UNCHANGED <<alive, attached, inbox>> /\ LoneAnswers(t)'
        <2>1. UNCHANGED <<alive, attached, inbox>> /\ pending' = [pending EXCEPT ![q] = NoAnswer]
            BY <1>8, Zenon DEF RequestInvalidates
        <2> QED
            BY <2>1 DEF Lone, LoneAnswers, IInv, Answers
    <1>9. ASSUME NEW q \in Listers
          PROVE  FALSE
        BY DEF OneThread
    <1>10. UNCHANGED worldVars => LoneEvents(t)' /\ LoneAnswers(t)' /\ UNCHANGED <<alive, attached>>
        BY <1>0, <1>00 DEF worldVars
    <1>11. CASE Client
        BY <1>2, <1>9, <1>11 DEF Client
    <1>12. CASE Proxy
        BY <1>0, <1>00, <1>3, <1>4, <1>5, <1>6, <1>7, <1>8, <1>9, <1>10, <1>12, NothingRecorded
        DEF Proxy
    <1> QED
        BY <1>1, <1>11, <1>12 DEF Next

--------------------------------------------------------------------------------
\* Every step keeps what holds of the session.
LEMMA LoneTablesStep ==
    ASSUME NEW t, OneThread(t), Lone(t), SessionStep(t),
           attached' = attached, alive' \subseteq alive
    PROVE  LoneTables(t)'
    <1> USE Lonely DEF Lone
    <1>0. LoneTables(t)
        OBVIOUS
    <1>1. CASE UNCHANGED tableVars
        BY <1>0, <1>1 DEF tableVars, LoneTables, SnapshotsTyped, Known, NewSnapshot
    <1>2. ASSUME NEW w \in Workers, Advances(w)
          PROVE  UNCHANGED tableVars
        BY <1>2 DEF Advances
    <1>3. CASE Announced
        <2>1. /\ DOMAIN snapshots' = {Root} /\ snapshots'[Root] = Known(Root)
              /\ UNCHANGED <<stopEpoch, isStopped, threadProcess>> /\ activeProcess' = Root
            BY <1>0, <1>3 DEF Announced, Put, LoneTables
        <2>2. Known(Root) \in Snapshots /\ (isStopped => Known(Root) = snapshots[Root])
            BY <1>0 DEF LoneTables, SnapshotsTyped, Known, NewSnapshot, Snapshots
        <2>3. Known(Root)' = Known(Root)
            BY <2>1 DEF Known
        <2> QED
            BY <1>0, <2>1, <2>2, <2>3 DEF LoneTables, SnapshotsTyped, Snapshots
    <1>4. CASE Halted(t)
        BY <1>0, <1>4 DEF Halted, LoneTables, SnapshotsTyped, Snapshots, Known
    <1>5. CASE Over
        BY <1>0, <1>5 DEF Over, LoneTables, SnapshotsTyped, Snapshots, Known, NewSnapshot
    <1>6. ASSUME NEW w \in Workers, NEW u \in {t, None}, Resumed(w, u)
          PROVE  LoneTables(t)'
        <2>1. CASE isStopped' = FALSE
            BY <1>0, <1>6, <2>1 DEF Resumed, LoneTables, SnapshotsTyped, Snapshots, Known,
                                    NewSnapshot
        <2>2. CASE UNCHANGED <<isStopped, snapshots>>
            <3>1. UNCHANGED tableVars
                BY <1>6, <2>2 DEF Resumed, tableVars
            <3> QED
                BY <3>1, <1>1
        <2> QED
            BY <1>6, <2>1, <2>2 DEF Resumed
    <1> QED
        BY <1>1, <1>2, <1>3, <1>4, <1>5, <1>6 DEF SessionStep

LEMMA IdleLone ==
    ASSUME NEW t, OneThread(t), NEW w
    PROVE  LoneCall(w, Idle, t) /\ Idle.at = "idle"
    <1>1. DOMAIN Idle = {"at", "process", "thread", "owner", "epoch", "rest"}
        BY DEF Idle
    <1>2. Idle.at = "idle" /\ Idle.process = None /\ Idle.thread = None
        BY DEF Idle
    <1> QED
        BY <1>1, <1>2 DEF LoneCall, LoneStages, Taking

LEMMA LoneCallsStep ==
    ASSUME NEW t, OneThread(t), Lone(t), SessionStep(t)
    PROVE  LoneCalls(t)'
    <1> USE Lonely DEF Lone
    <1>0. LoneCalls(t) /\ stopEpoch \in Nat
        BY DEF LoneTables
    <1>a. ASSUME NEW w \in Workers, OthersWait(w), LoneCall(w, call[w], t)', stopEpoch' = stopEpoch
          PROVE  LoneCalls(t)'
        <2>1. \A v \in Workers : LoneCall(v, call[v], t)'
            BY <1>0, <1>a DEF LoneCalls, LoneCall, OthersWait
        <2> QED
            BY <1>a, <2>1 DEF LoneCalls, OthersWait
    <1>1. CASE UNCHANGED <<tableVars, call, registryVars>>
        BY <1>0, <1>1 DEF tableVars, LoneCalls, LoneCall
    <1>2. ASSUME NEW w \in Workers, Advances(w)
          PROVE  LoneCalls(t)'
        <2>1. OthersWait(w) /\ stopEpoch' = stopEpoch /\ LoneCall(w, call[w], t)
            BY <1>0, <1>2 DEF Advances, tableVars, LoneCalls
        <2>2. CASE call'[w] = Idle
            <3>1. LoneCall(w, call[w], t)'
                BY <2>2, IdleLone DEF LoneCall, Taking
            <3> QED
                BY <2>1, <3>1, <1>a
        <2>3. ASSUME NEW at, SameCall(w, at),
                     <<call[w].at, at>> \in Taking \X (Taking \cup {"begin"}) \cup
                         {<<"release", "clear">>, <<"ended", "endedRemove">>,
                          <<"endedRemove", "endedRemove">>, <<"begin", "beginLegacy">>,
                          <<"clear", "clearLegacy">>}
              PROVE  LoneCall(w, call[w], t)'
            BY <2>1, <2>3 DEF LoneCall, LoneStages, Taking, SameCall
        <2>4. \/ call'[w] = Idle
              \/ \E at : /\ SameCall(w, at)
                        /\ <<call[w].at, at>> \in Taking \X (Taking \cup {"begin"}) \cup
                             {<<"release", "clear">>, <<"ended", "endedRemove">>,
                              <<"endedRemove", "endedRemove">>, <<"begin", "beginLegacy">>,
                              <<"clear", "clearLegacy">>}
            BY <1>2 DEF Advances
        <2> QED
            BY <2>1, <2>2, <2>3, <2>4, <1>a
    <1>3. CASE Announced
        <2>1. LoneCall(RootReader, call[RootReader], t)'
            BY <1>3 DEF Announced, Starts, LoneCall, LoneStages, Taking
        <2> QED
            BY <1>3, <2>1, <1>a DEF Announced, Starts
    <1>4. CASE Over
        <2>1. LoneCall(RootReader, call[RootReader], t)'
            BY <1>4 DEF Over, Starts, LoneCall, LoneStages, Taking
        <2> QED
            BY <1>4, <2>1, <1>a DEF Over, Starts
    <1>5. ASSUME NEW w \in Workers, NEW u \in {t, None}, Resumed(w, u)
          PROVE  LoneCalls(t)'
        <2>1. LoneCall(w, call[w], t)'
            BY <1>5 DEF Resumed, Starts, LoneCall, LoneStages, Taking
        <2> QED
            BY <1>5, <2>1, <1>a DEF Resumed, Starts
    <1>6. CASE Halted(t)
        <2>1. LoneCall(RootReader, call[RootReader], t)'
            BY <1>0, <1>6 DEF Halted, Starts, LoneCall, LoneStages, Taking
        <2>2. ASSUME NEW w \in Workers, w # RootReader
              PROVE  LoneCall(w, call[w], t)'
            BY <1>0, <1>6, <2>2 DEF Halted, Starts, OthersWait, LoneCalls, LoneCall, Taking
        <2> QED
            BY <1>6, <2>1, <2>2 DEF LoneCalls, Halted, Starts, OthersWait
    <1> QED
        BY <1>1, <1>2, <1>3, <1>4, <1>5, <1>6 DEF SessionStep

LEMMA LoneEpochsStep ==
    ASSUME NEW t, OneThread(t), Lone(t), SessionStep(t)
    PROVE  LoneEpochs'
    <1> USE Lonely DEF Lone
    <1>0. LoneEpochs /\ LoneCall(RootReader, call[RootReader], t)
        BY DEF LoneCalls
    <1>1. CASE UNCHANGED <<tableVars, call, registryVars>>
        BY <1>0, <1>1 DEF tableVars, registryVars, LoneEpochs
    <1>2. ASSUME NEW w \in Workers, Advances(w)
          PROVE  LoneEpochs'
        <2>1. OthersWait(w) /\ UNCHANGED <<stopEpoch, isStopped>> /\ LoneCall(w, call[w], t)
            BY <1>2 DEF Advances, tableVars, LoneCalls
        <2>2. CASE call[w].at \notin {"begin", "beginLegacy"}
            <3>1. processEpochs' = processEpochs
                BY <1>2, <2>2 DEF Advances, registryVars, Registry!ClearCurrent
            <3>2. /\ call'[RootReader].at # "beginLegacy" \/ call'[RootReader] = call[RootReader]
                  /\ \/ call'[RootReader].at \in Taking \cup {"begin"}
                     \/ call[RootReader].at \notin Taking \cup {"begin"}
                     \/ call'[RootReader] = call[RootReader]
                <4>1. CASE w # RootReader
                    BY <2>1, <4>1 DEF OthersWait
                <4>2. CASE w = RootReader /\ call[w].at \in Taking
                    BY <1>2, <4>2 DEF Advances, SameCall, Taking
                <4>3. CASE w = RootReader /\ call[w].at \notin Taking
                    BY <1>2, <2>2, <4>3 DEF Advances, SameCall, Idle
                <4> QED
                    BY <4>1, <4>2, <4>3
            <3> QED
                BY <1>0, <2>1, <3>1, <3>2 DEF LoneEpochs
        <2>3. CASE call[w].at = "begin"
            <3>1. w = RootReader /\ call[w].process = Root /\ call[w].epoch = stopEpoch
                BY <2>1, <2>3 DEF LoneCall
            <3>2. Registry!BeginEpoch(call[w].epoch, call[w].process, call[w].thread)
                BY <1>2, <2>3 DEF Advances, Taking
            <3>3. Root \in DOMAIN processEpochs' /\ processEpochs'[Root] = stopEpoch
                BY <3>1, <3>2 DEF Registry!BeginEpoch
            <3> QED
                BY <2>1, <3>3 DEF LoneEpochs
        <2>4. CASE call[w].at = "beginLegacy"
            <3>1. w = RootReader /\ call'[w] = Idle
                BY <1>2, <2>1, <2>4 DEF LoneCall, Advances, Taking
            <3>2. Registry!BeginEpoch(call[w].epoch, None, None)
                BY <1>2, <2>4 DEF Advances, Taking
            <3>3. /\ Root \in DOMAIN processEpochs
                  /\ Root \in DOMAIN processEpochs' /\ processEpochs'[Root] = processEpochs[Root]
                BY <1>0, <2>4, <3>1, <3>2 DEF Registry!BeginEpoch, LoneEpochs
            <3>4. isStopped => processEpochs[Root] = stopEpoch
                BY <1>0, <2>4, <3>1 DEF LoneEpochs, Taking
            <3> QED
                BY <2>1, <3>3, <3>4 DEF LoneEpochs
        <2> QED
            BY <2>2, <2>3, <2>4
    <1>3. CASE Announced
        BY <1>0, <1>3 DEF Announced, Starts, registryVars, LoneEpochs, Taking
    <1>4. CASE Over
        BY <1>0, <1>4 DEF Over, Starts, registryVars, LoneEpochs
    <1>5. ASSUME NEW w \in Workers, NEW u \in {t, None}, Resumed(w, u)
          PROVE  LoneEpochs'
        <2>1. /\ UNCHANGED <<stopEpoch, processEpochs>> /\ (isStopped' = FALSE \/ isStopped' = isStopped)
              /\ OthersWait(w) /\ call[w].at = "idle" /\ call'[w].at \in {"release", "clear"}
            BY <1>5 DEF Resumed, Starts, registryVars
        <2>2. CASE w = RootReader
            BY <1>0, <2>1, <2>2 DEF LoneEpochs, Taking
        <2>3. CASE w # RootReader
            BY <1>0, <2>1, <2>3 DEF LoneEpochs, OthersWait
        <2> QED
            BY <2>2, <2>3
    <1>6. CASE Halted(t)
        BY <1>0, <1>6 DEF Halted, Starts, registryVars, LoneEpochs, Taking
    <1> QED
        BY <1>1, <1>2, <1>3, <1>4, <1>5, <1>6 DEF SessionStep

LEMMA LoneStep ==
    ASSUME NEW t, OneThread(t), Lone(t), Next
    PROVE  Lone(t)'
    <1>1. SessionStep(t) /\ LoneEvents(t)' /\ LoneAnswers(t)'
          /\ attached' = attached /\ alive' \subseteq alive
        BY LoneSteps, LoneDelivery
    <1>2. IInv'
        BY NextInv DEF Lone, Recordings, OneThread, Attributable
    <1> QED
        BY <1>1, <1>2, LoneTablesStep, LoneCallsStep, LoneEpochsStep DEF Lone

LEMMA InitLone ==
    ASSUME NEW t, OneThread(t), Init
    PROVE  Lone(t)
    <1> USE Lonely
    <1>1. call = [w \in Workers |-> Idle]
        BY DEF Init, InitSession
    <1>2. LoneCalls(t)
        BY <1>1, IdleLone DEF LoneCalls
    <1>3. LoneAnswers(t)
        BY DEF Init, LoneAnswers
    <1>4. LoneEvents(t)
        <2>1. inbox[RootReader] = <<>> \/ inbox[RootReader] = <<Event("process", None)>>
            BY DEF Init, RootReader
        <2>2. Event("process", None).kind = "process"
            BY DEF Event
        <2> QED
            BY <2>1, <2>2 DEF LoneEvents
    <1>5. LoneTables(t)
        BY DEF Init, InitSession, LoneTables, SnapshotsTyped, Known, NewSnapshot
    <1>6. LoneEpochs
        BY <1>1 DEF Init, InitSession, LoneEpochs, Idle
    <1> QED
        BY <1>2, <1>3, <1>4, <1>5, <1>6, InitInv DEF Lone

--------------------------------------------------------------------------------
\* The frames that are current, and the stop each was read in.
StackFrames(t) ==
    /\ issued \subseteq DOMAIN origin
    /\ \A k \in DOMAIN byKey :
          /\ Registry!KeyOf(byKey[k]) = k
          /\ byKey[k].id \in DOMAIN byId /\ byId[byKey[k].id] = byKey[k]
    /\ \A i \in DOMAIN byId :
          /\ i \in issued /\ byId[i].process = Root /\ byId[i].thread = t
          /\ origin[i] = Registry!ActiveEpoch(Root)

\* A discard takes all of them or none.
LEMMA Discards ==
    ASSUME NEW t, OneThread(t), StackFrames(t), NEW p \in {Root, None}, NEW u \in {t, None},
           Registry!DiscardCurrent(p, u)
    PROVE  /\ p = Root => DOMAIN byId' = {} /\ DOMAIN byKey' = {}
           /\ p = None => /\ DOMAIN byId' = DOMAIN byId /\ DOMAIN byKey' = DOMAIN byKey
                          /\ \A i \in DOMAIN byId : byId'[i] = byId[i]
                          /\ \A k \in DOMAIN byKey : byKey'[k] = byKey[k]
    <1> DEFINE gone(frame) == frame.process = p /\ u \in {None, frame.thread}
               ids == {id \in DOMAIN byId : ~ gone(byId[id])}
               keys == DOMAIN byKey \ {Registry!KeyOf(byId[id]) : id \in DOMAIN byId \ ids}
    <1>1. byId' = [id \in ids |-> byId[id]] /\ byKey' = [k \in keys |-> byKey[k]]
        BY DEF Registry!DiscardCurrent
    <1>2. CASE p = Root
        <2>1. ids = {}
            BY <1>2 DEF StackFrames
        <2>2. ASSUME NEW k \in DOMAIN byKey
              PROVE  k \in {Registry!KeyOf(byId[id]) : id \in DOMAIN byId \ ids}
            <3>1. byKey[k].id \in DOMAIN byId /\ k = Registry!KeyOf(byId[byKey[k].id])
                BY DEF StackFrames
            <3> QED
                BY <2>1, <3>1
        <2>3. keys = {}
            BY <2>2
        <2> QED
            BY <1>1, <1>2, <2>1, <2>3, Lonely
    <1>3. CASE p = None
        <2>1. ids = DOMAIN byId
            BY <1>3, Lonely DEF StackFrames
        <2>2. keys = DOMAIN byKey
            BY <2>1
        <2> QED
            BY <1>1, <1>3, <2>1, <2>2, Lonely
    <1> QED
        BY <1>2, <1>3

LEMMA DiscardedFrames ==
    ASSUME NEW t, OneThread(t), StackFrames(t), origin' = origin, issued' = issued,
           NEW p \in {Root, None}, NEW u \in {t, None}, Registry!DiscardCurrent(p, u),
           p = None => Registry!ActiveEpoch(Root)' = Registry!ActiveEpoch(Root)
    PROVE  StackFrames(t)' /\ DOMAIN byId' \subseteq DOMAIN byId
           /\ (p = Root => DOMAIN byId' = {})
    <1>1. CASE p = Root
        BY <1>1, Discards DEF StackFrames
    <1>2. CASE p = None
        <2>1. /\ DOMAIN byId' = DOMAIN byId /\ DOMAIN byKey' = DOMAIN byKey
              /\ \A i \in DOMAIN byId : byId'[i] = byId[i]
              /\ \A k \in DOMAIN byKey : byKey'[k] = byKey[k]
            BY <1>2, Discards
        <2>2. ASSUME NEW k \in DOMAIN byKey'
              PROVE  /\ Registry!KeyOf(byKey'[k]) = k
                     /\ byKey'[k].id \in DOMAIN byId' /\ byId'[byKey'[k].id] = byKey'[k]
            BY <2>1 DEF StackFrames
        <2>3. ASSUME NEW i \in DOMAIN byId'
              PROVE  /\ i \in issued' /\ byId'[i].process = Root /\ byId'[i].thread = t
                     /\ origin'[i] = Registry!ActiveEpoch(Root)'
            BY <2>1, <1>2 DEF StackFrames
        <2>4. issued' \subseteq DOMAIN origin'
            BY DEF StackFrames
        <2> QED
            BY <1>2, <2>1, <2>2, <2>3, <2>4, Lonely DEF StackFrames, Registry!KeyOf
    <1> QED
        BY <1>1, <1>2

\* A step of the session adds no frame, and all that there are are gone when a handler
\* has cleared the process or begun a new epoch of it.
LEMMA AdvancesFrames ==
    ASSUME NEW t, OneThread(t), Lone(t), StackFrames(t), origin' = origin,
           NEW w \in Workers, Advances(w)
    PROVE  /\ StackFrames(t)' /\ issued' = issued /\ DOMAIN byId' \subseteq DOMAIN byId
           /\ call[w].at \in {"begin", "clear"} /\ call[w].process = Root
                  => DOMAIN byId' = {}
    <1>0. LoneCall(w, call[w], t)
        BY DEF Lone, LoneCalls
    <1>1. CASE call[w].at \notin {"begin", "beginLegacy", "clear", "clearLegacy"}
               /\ UNCHANGED registryVars
        BY <1>1 DEF registryVars, StackFrames, Registry!ActiveEpoch, Registry!KeyOf
    <1>2. CASE call[w].at = "begin"
        <2>1. /\ call[w].process = Root /\ call[w].thread = t
              /\ Registry!BeginEpoch(call[w].epoch, call[w].process, call[w].thread)
            BY <1>0, <1>2 DEF LoneCall, Advances, Taking
        <2>2. Registry!DiscardCurrent(Root, t) /\ issued' = issued
            BY <2>1 DEF Registry!BeginEpoch
        <2> QED
            BY <2>2, DiscardedFrames, Lonely
    <1>3. CASE call[w].at = "beginLegacy"
        <2>1. w = RootReader /\ Registry!BeginEpoch(call[w].epoch, None, None)
            BY <1>0, <1>3 DEF LoneCall, Advances, Taking
        <2>2. Registry!DiscardCurrent(None, None) /\ issued' = issued
            BY <2>1 DEF Registry!BeginEpoch
        <2>3. Registry!ActiveEpoch(Root)' = Registry!ActiveEpoch(Root)
            BY <1>3, <2>1, Lonely DEF Registry!BeginEpoch, Registry!ActiveEpoch, Lone, LoneEpochs
        <2> QED
            BY <1>3, <2>2, <2>3, DiscardedFrames
    <1>4. CASE call[w].at = "clear"
        <2>1. /\ call[w].process \in {Root, None} /\ call[w].thread \in {t, None}
              /\ Registry!ClearCurrent(call[w].process, call[w].thread)
            BY <1>0, <1>4 DEF LoneCall, Advances, Taking
        <2>2. PICK p \in {Root, None}, u \in {t, None} : p = call[w].process /\ u = call[w].thread
            BY <2>1
        <2>3. Registry!DiscardCurrent(p, u) /\ UNCHANGED <<epoch, processEpochs, issued>>
            BY <2>1, <2>2 DEF Registry!ClearCurrent
        <2>4. Registry!ActiveEpoch(Root)' = Registry!ActiveEpoch(Root)
            BY <2>3 DEF Registry!ActiveEpoch
        <2> QED
            BY <2>2, <2>3, <2>4, DiscardedFrames
    <1>5. CASE call[w].at \in {"clearLegacy", "endedRemove"} /\ Registry!ClearCurrent(None, None)
        <2>1. Registry!DiscardCurrent(None, None) /\ UNCHANGED <<epoch, processEpochs, issued>>
            BY <1>5 DEF Registry!ClearCurrent
        <2>2. Registry!ActiveEpoch(Root)' = Registry!ActiveEpoch(Root)
            BY <2>1 DEF Registry!ActiveEpoch
        <2> QED
            BY <1>5, <2>1, <2>2, DiscardedFrames
    <1> QED
        BY <1>1, <1>2, <1>3, <1>4, <1>5 DEF Advances, Taking

LEMMA SessionKeepsFrames ==
    ASSUME NEW t, OneThread(t), Lone(t), StackFrames(t), SessionStep(t), origin' = origin
    PROVE  StackFrames(t)' /\ issued' = issued /\ DOMAIN byId' \subseteq DOMAIN byId
    <1>1. CASE UNCHANGED registryVars
        BY <1>1 DEF registryVars, StackFrames, Registry!ActiveEpoch, Registry!KeyOf
    <1>2. ASSUME NEW w \in Workers, Advances(w)
          PROVE  StackFrames(t)' /\ issued' = issued /\ DOMAIN byId' \subseteq DOMAIN byId
        BY <1>2, AdvancesFrames
    <1> QED
        BY <1>1, <1>2 DEF SessionStep, Announced, Halted, Over, Resumed

\* A frame the editor was shown is current only in the stop it was shown in, or while
\* a handler is under way to discard it.
Releasing ==
    \E w \in Workers : /\ call[w].at \in Taking \cup {"begin", "release", "clear"}
                      /\ call[w].process = Root

ShownFrames ==
    \A s \in shown : s.id \in issued /\ origin[s.id] = s.stop /\ s.process = Root

Expiring ==
    Root \in alive => \A s \in shown :
        s.id \in DOMAIN byId => (isStopped /\ s.stop = stopEpoch) \/ Releasing

LEMMA SessionExpires ==
    ASSUME NEW t, OneThread(t), Lone(t), StackFrames(t), Expiring, SessionStep(t),
           origin' = origin, shown' = shown, alive' \subseteq alive
    PROVE  Expiring'
    <1> USE Lonely
    <1> SUFFICES ASSUME Root \in alive, NEW s \in shown, s.id \in DOMAIN byId'
                 PROVE  (isStopped' /\ s.stop = stopEpoch') \/ Releasing'
        BY DEF Expiring
    <1>0. s.id \in DOMAIN byId /\ ((isStopped /\ s.stop = stopEpoch) \/ Releasing)
        BY SessionKeepsFrames DEF Expiring
    <1>1. CASE UNCHANGED <<tableVars, call, registryVars>>
        BY <1>0, <1>1 DEF tableVars, Releasing
    <1>2. ASSUME NEW w \in Workers, Advances(w)
          PROVE  (isStopped' /\ s.stop = stopEpoch') \/ Releasing'
        <2>1. UNCHANGED <<isStopped, stopEpoch>> /\ OthersWait(w) /\ LoneCall(w, call[w], t)
            BY <1>2 DEF Advances, tableVars, Lone, LoneCalls
        <2>2. CASE isStopped /\ s.stop = stopEpoch
            BY <2>1, <2>2
        <2>3. ASSUME NEW v \in Workers, v # w,
                     call[v].at \in Taking \cup {"begin", "release", "clear"}, call[v].process = Root
              PROVE  Releasing'
            BY <2>1, <2>3 DEF OthersWait, Releasing
        <2>4. CASE call[w].at \in Taking \cup {"release"} /\ call[w].process = Root
            <3>1. PICK at \in Taking \cup {"begin", "clear"} : SameCall(w, at)
                BY <1>2, <2>4 DEF Advances, Taking
            <3> QED
                BY <2>4, <3>1 DEF SameCall, Releasing
        <2>5. CASE call[w].at \in {"begin", "clear"} /\ call[w].process = Root
            BY <1>2, <2>5, AdvancesFrames
        <2> QED
            BY <1>0, <2>2, <2>3, <2>4, <2>5 DEF Releasing
    <1>3. ASSUME NEW w \in Workers, OthersWait(w), call[w].at = "idle", Releasing
          PROVE  Releasing'
        BY <1>3 DEF Releasing, OthersWait, Taking
    <1>4. CASE Announced
        BY <1>0, <1>3, <1>4 DEF Announced, Starts
    <1>5. CASE Halted(t)
        <2>1. call'[RootReader].at = "stopRegister" /\ call'[RootReader].process = Root
            BY <1>5 DEF Halted, Starts
        <2> QED
            BY <2>1 DEF Releasing, Taking
    <1>6. CASE Over
        BY <1>6 DEF Over
    <1>7. ASSUME NEW w \in Workers, NEW u \in {t, None}, Resumed(w, u)
          PROVE  (isStopped' /\ s.stop = stopEpoch') \/ Releasing'
        <2>1. stopEpoch' = stopEpoch /\ OthersWait(w) /\ call[w].at = "idle"
            BY <1>7 DEF Resumed, Starts
        <2>2. CASE call'[w].at = "release" /\ call'[w].process = Root
            BY <2>2 DEF Releasing
        <2>3. CASE isStopped' = isStopped
            BY <1>0, <1>3, <2>1, <2>3
        <2> QED
            BY <1>7, <2>2, <2>3 DEF Resumed, Starts
    <1> QED
        BY <1>1, <1>2, <1>4, <1>5, <1>6, <1>7 DEF SessionStep

--------------------------------------------------------------------------------
\* A request under way: the frames it has read are of the stop it was made in, if
\* that still lasts, and the id it is about to answer with is of that stop's frame.
ViewFields == {"at", "thread", "child", "process", "epoch", "answer", "began", "id"}

Viewed(x, t) ==
    /\ DOMAIN x = ViewFields
    /\ x.at # "idle" =>
          /\ x.thread = t /\ x.child = None /\ x.process = Root
          /\ x.epoch \in Nat /\ x.epoch <= stopEpoch
          /\ x.answer # None => x.at = "await"
          /\ (x.answer # None /\ x.answer # "error") \/ x.at = "check" =>
                (isStopped /\ x.epoch = stopEpoch => x.began = stopEpoch)
          /\ x.at \in {"allocate", "reply"} => x.began = x.epoch
          /\ x.at = "reply" => x.id \in issued /\ origin[x.id] = x.epoch

Views(t) == DOMAIN view = Viewers /\ \A v \in Viewers : Viewed(view[v], t)

\* The worker reads for a request that waits, or for nobody.
Reading(t) ==
    /\ DOMAIN unwinder = {"at", "viewer", "process", "thread"}
    /\ unwinder.at = "reading" /\ unwinder.viewer # None =>
          /\ unwinder.viewer \in Viewers /\ unwinder.thread = t
          /\ view[unwinder.viewer].at = "await" /\ view[unwinder.viewer].answer = None

StackInv(t) ==
    Lone(t) /\ StackFrames(t) /\ ShownFrames /\ Expiring /\ Views(t) /\ Reading(t)

\* One request has got on, and no other.
Only(v) == DOMAIN view' = Viewers /\ \A x \in Viewers : x # v => view'[x] = view[x]

SameView(v, at) ==
    /\ DOMAIN view'[v] = ViewFields /\ view'[v].at = at
    /\ view'[v].thread = view[v].thread /\ view'[v].child = view[v].child
    /\ view'[v].process = view[v].process /\ view'[v].epoch = view[v].epoch

LEMMA ViewGoes ==
    ASSUME NEW t, Views(t), NEW v \in Viewers, NEW at, Goes(v, at)
    PROVE  /\ Only(v) /\ SameView(v, at)
           /\ view'[v].answer = view[v].answer /\ view'[v].began = view[v].began
           /\ view'[v].id = view[v].id
    <1>1. DOMAIN view = Viewers /\ DOMAIN view[v] = ViewFields
        BY DEF Views, Viewed
    <1>2. view' = [view EXCEPT ![v].at = at]
        BY DEF Goes
    <1> QED
        BY ONLY <1>1, <1>2, v \in Viewers DEF Only, SameView, ViewFields

LEMMA ViewFails ==
    ASSUME NEW t, Views(t), NEW v \in Viewers, Fails(v)
    PROVE  Only(v) /\ view'[v] = NoView
    BY DEF Views, Fails, Only

LEMMA NoViewed ==
    ASSUME NEW t
    PROVE  DOMAIN NoView = ViewFields /\ NoView.at = "idle" /\ Viewed(NoView, t)
    <1>1. DOMAIN NoView = ViewFields /\ NoView.at = "idle"
        BY DEF NoView, ViewFields
    <1> QED
        BY <1>1 DEF Viewed

\* A request that has got on is well where it has got to; the others stay well.
LEMMA OnlyViewed ==
    ASSUME NEW t, Views(t), NEW v \in Viewers, Only(v), UNCHANGED <<stopEpoch, isStopped>>,
           issued \subseteq issued', \A i \in issued : origin'[i] = origin[i],
           Viewed(view[v], t)'
    PROVE  Views(t)'
    <1> SUFFICES ASSUME NEW x \in Viewers, x # v
                 PROVE  Viewed(view[x], t)'
        BY DEF Views, Only
    <1>1. Viewed(view[x], t) /\ view'[x] = view[x]
        BY DEF Views, Only
    <1> QED
        BY <1>1 DEF Viewed

LEMMA OnlyReading ==
    ASSUME NEW t, Reading(t), NEW v \in Viewers, Only(v), unwinder' = unwinder,
           view[v].at # "await" \/ view[v].answer # None
    PROVE  Reading(t)'
    BY DEF Reading, Only

--------------------------------------------------------------------------------
\* The session goes on under the requests.
LEMMA SessionViews ==
    ASSUME NEW t, OneThread(t), StackInv(t), SessionStep(t), UNCHANGED <<view, origin>>
    PROVE  Views(t)'
    <1>1. /\ stopEpoch \in Nat /\ stopEpoch' \in Nat /\ stopEpoch <= stopEpoch'
          /\ isStopped' /\ stopEpoch' = stopEpoch => isStopped
        BY DEF StackInv, Lone, LoneTables, SessionStep, Advances, tableVars, Announced, Halted,
               Over, Resumed
    <1>2. issued' = issued
        BY SessionKeepsFrames DEF StackInv
    <1>3. ASSUME NEW v \in Viewers
          PROVE  Viewed(view[v], t)'
        <2>1. Viewed(view[v], t)
            BY DEF StackInv, Views
        <2>2. PICK x : x = view[v]
            OBVIOUS
        <2>3. Viewed(x, t)'
            BY <1>1, <1>2, <2>1, <2>2 DEF Viewed
        <2> QED
            BY <2>2, <2>3
    <1> QED
        BY <1>3 DEF StackInv, Views

LEMMA SessionStack ==
    ASSUME NEW t, OneThread(t), StackInv(t), Session
    PROVE  StackInv(t)'
    <1>1. Next /\ UNCHANGED <<view, unwinder, origin, shown>>
        BY DEF Session, unwinderVars
    <1>2. SessionStep(t) /\ Lone(t)' /\ alive' \subseteq alive
        BY <1>1, LoneSteps, LoneStep, LoneDelivery DEF StackInv
    <1>3. StackFrames(t)' /\ issued' = issued /\ Expiring'
        BY <1>1, <1>2, SessionKeepsFrames, SessionExpires DEF StackInv
    <1>4. ShownFrames'
        BY <1>1, <1>3 DEF StackInv, ShownFrames
    <1>5. Views(t)' /\ Reading(t)'
        BY <1>1, <1>2, SessionViews DEF StackInv, Reading
    <1> QED
        BY <1>2, <1>3, <1>4, <1>5 DEF StackInv

\* What the requests leave alone.
LEMMA LoneKept ==
    ASSUME NEW t, Lone(t),
           UNCHANGED <<tableVars, call, worldVars, epoch, processEpochs>>
    PROVE  Lone(t)'
    BY DEF Lone, IInv, ThreadsStayHome, Connections, Answers, LoneCalls, LoneCall, LoneAnswers,
           LoneEvents, LoneTables, SnapshotsTyped, Known, LoneEpochs, tableVars, worldVars

LEMMA StackKept ==
    ASSUME NEW t, StackInv(t), UNCHANGED <<vars, origin>>
    PROVE  /\ Lone(t)' /\ StackFrames(t)'
           /\ UNCHANGED <<stopEpoch, isStopped, issued>>
           /\ shown' = shown => ShownFrames' /\ Expiring'
    <1>1. UNCHANGED <<tableVars, call, worldVars, registryVars>>
        BY DEF vars, sessionVars
    <1>2. Lone(t)'
        BY <1>1, LoneKept DEF StackInv, registryVars
    <1>3. StackFrames(t)'
        BY <1>1 DEF StackInv, registryVars, StackFrames, Registry!ActiveEpoch, Registry!KeyOf
    <1> QED
        BY <1>1, <1>2, <1>3 DEF StackInv, ShownFrames, Expiring, Releasing, tableVars, worldVars,
                                registryVars

\* A request that gets on without the registry, the worker or the editor.
LEMMA ViewStack ==
    ASSUME NEW t, StackInv(t), NEW v \in Viewers, Only(v), Viewed(view[v], t)',
           UNCHANGED <<vars, unwinder, origin, shown>>,
           view[v].at # "await" \/ view[v].answer # None
    PROVE  StackInv(t)'
    <1>1. /\ Lone(t)' /\ StackFrames(t)' /\ ShownFrames' /\ Expiring'
          /\ UNCHANGED <<stopEpoch, isStopped, issued>>
        BY StackKept
    <1>2. Views(t)'
        BY <1>1, OnlyViewed DEF StackInv
    <1>3. Reading(t)'
        BY OnlyReading DEF StackInv
    <1> QED
        BY <1>1, <1>2, <1>3 DEF StackInv

\* While the process is believed stopped, its stop is the session's latest.
LEMMA LatestStop ==
    ASSUME NEW t, Lone(t), isStopped
    PROVE  StopOf(Root) = stopEpoch /\ Known(Root).isStopped /\ Known(Root).epoch = stopEpoch
    BY DEF Lone, LoneTables, StopOf, Known, NewSnapshot

LEMMA StartsStack ==
    ASSUME NEW t, OneThread(t), StackInv(t), NEW v \in Viewers,
           NEW u \in Threads \ PythonThreads, ViewStarts(v, u)
    PROVE  StackInv(t)'
    <1> USE Lonely
    <1>1. u = t /\ view[v] = NoView /\ UNCHANGED <<vars, unwinder, origin, shown>>
        BY DEF OneThread, ViewStarts, unwinderVars
    <1>2. ~ OwnedByChild(t)
        BY DEF OwnedByChild
    <1>3. isStopped
        BY <1>1, <1>2 DEF ViewStarts, StillStopped
    <1>4. OwnerOf(t) = Root
        BY <1>3, NoneStrays DEF OwnerOf, StackInv, Lone, LoneTables, IInv
    <1>5. PICK x : x = [NoView EXCEPT !.at = "native", !.thread = t, !.child = None,
                                      !.process = Root, !.epoch = stopEpoch]
        OBVIOUS
    <1>6. view' = [view EXCEPT ![v] = x]
        BY <1>1, <1>2, <1>4, <1>5 DEF ViewStarts
    <1>7. /\ DOMAIN x = ViewFields /\ x.at = "native" /\ x.thread = t /\ x.child = None
          /\ x.process = Root /\ x.epoch = stopEpoch /\ x.answer = None
        BY <1>5 DEF NoView, ViewFields
    <1>8. Only(v) /\ view'[v] = x
        BY <1>6 DEF Only, StackInv, Views
    <1>9. stopEpoch \in Nat /\ stopEpoch' = stopEpoch
        BY <1>1 DEF StackInv, Lone, LoneTables, vars, sessionVars, tableVars
    <1>10. Viewed(view[v], t)'
        BY <1>7, <1>8, <1>9 DEF Viewed
    <1> QED
        BY <1>1, <1>8, <1>10, ViewStack, NoViewed

LEMMA FailsStack ==
    ASSUME NEW t, StackInv(t), NEW v \in Viewers, Fails(v),
           UNCHANGED <<vars, unwinder, origin, shown>>,
           view[v].at # "await" \/ view[v].answer # None
    PROVE  StackInv(t)'
    <1>1. Only(v) /\ view'[v] = NoView
        BY ViewFails DEF StackInv
    <1>2. Viewed(view[v], t)'
        BY <1>1, NoViewed DEF Viewed
    <1> QED
        BY <1>1, <1>2, ViewStack

LEMMA ChecksStack ==
    ASSUME NEW t, OneThread(t), StackInv(t), NEW v \in Viewers, ViewChecks(v)
    PROVE  StackInv(t)'
    <1>1. view[v].at = "check" /\ UNCHANGED <<vars, unwinder, origin, shown>>
        BY DEF ViewChecks, unwinderVars
    <1>2. CASE Fails(v)
        BY <1>1, <1>2, FailsStack
    <1>3. CASE Current(v) /\ Goes(v, "allocate")
        <2>1. Viewed(view[v], t)
            BY DEF StackInv, Views
        <2>2. /\ Only(v) /\ SameView(v, "allocate")
              /\ view'[v].answer = view[v].answer /\ view'[v].began = view[v].began
            BY <1>3, ViewGoes DEF StackInv
        <2>3. view[v].began = view[v].epoch
            BY <1>1, <1>3, <2>1 DEF Viewed, Current, StillStopped
        <2>4. UNCHANGED <<stopEpoch, isStopped>>
            BY <1>1 DEF vars, sessionVars, tableVars
        <2>5. Viewed(view[v], t)'
            BY <1>1, <2>1, <2>2, <2>3, <2>4 DEF Viewed, SameView
        <2> QED
            BY <1>1, <2>2, <2>5, ViewStack
    <1> QED
        BY <1>2, <1>3 DEF ViewChecks

LEMMA LocalsStack ==
    ASSUME NEW t, OneThread(t), StackInv(t), NEW v \in Viewers, ViewReadsLocals(v)
    PROVE  StackInv(t)'
    <1>1. /\ view[v].at = "await" /\ view[v].answer # None
          /\ UNCHANGED <<vars, unwinder, origin, shown>>
        BY DEF ViewReadsLocals, unwinderVars
    <1>2. CASE view[v].answer = "error"
        BY <1>1, <1>2, FailsStack DEF ViewReadsLocals
    <1>3. CASE view[v].answer # "error"
        <2>0. DOMAIN view = Viewers /\ DOMAIN view[v] = ViewFields /\ Viewed(view[v], t)
            BY DEF StackInv, Views, Viewed
        <2>1. view[v].thread = t
            BY <1>1, <2>0 DEF Viewed
        <2>2. PICK b : b = IF view[v].began = StopOf(Root) THEN view[v].began ELSE 0
            OBVIOUS
        <2>3. view' = [view EXCEPT ![v].at = "check", ![v].answer = None, ![v].began = b]
            BY <1>3, <2>0, <2>1, <2>2, Lonely DEF ViewReadsLocals, ViewFields
        <2>4. Only(v) /\ SameView(v, "check") /\ view'[v].answer = None /\ view'[v].began = b
            BY ONLY <2>0, <2>3, v \in Viewers DEF Only, SameView, ViewFields
        <2>5. isStopped /\ view[v].epoch = stopEpoch => b = stopEpoch
            BY <1>1, <1>3, <2>0, <2>2, LatestStop DEF StackInv, Viewed
        <2>6. UNCHANGED <<stopEpoch, isStopped>>
            BY <1>1 DEF vars, sessionVars, tableVars
        <2>7. Viewed(view[v], t)'
            BY <1>1, <2>0, <2>4, <2>5, <2>6 DEF Viewed, SameView
        <2> QED
            BY <1>1, <2>4, <2>7, ViewStack
    <1> QED
        BY <1>2, <1>3

LEMMA NativeStack ==
    ASSUME NEW t, OneThread(t), StackInv(t), NEW v \in Viewers, ViewReadsNative(v)
    PROVE  StackInv(t)'
    <1>1. /\ view[v].at = "native"
          /\ UNCHANGED <<tableVars, call, worldVars, unwinder, origin, shown>>
        BY DEF ViewReadsNative, unwinderVars
    <1>2. UNCHANGED <<epoch, processEpochs, byKey, byId, issued>>
        BY DEF ViewReadsNative, Registry!ReserveNativeIds, registryVars
    <1>3. Lone(t)'
        BY <1>1, <1>2, LoneKept DEF StackInv
    <1>4. StackFrames(t)' /\ ShownFrames' /\ Expiring'
        BY <1>1, <1>2 DEF StackInv, StackFrames, ShownFrames, Expiring, Releasing, tableVars,
                          worldVars, Registry!ActiveEpoch, Registry!KeyOf
    <1>5. Only(v) /\ Viewed(view[v], t)'
        <2>1. Viewed(view[v], t) /\ UNCHANGED <<stopEpoch, isStopped>>
            BY <1>1 DEF StackInv, Views, tableVars
        <2>2. CASE Fails(v)
            BY <2>2, ViewFails, NoViewed DEF StackInv, Viewed
        <2>3. CASE Goes(v, "python")
            <3>1. /\ Only(v) /\ SameView(v, "python")
                  /\ view'[v].answer = view[v].answer /\ view'[v].began = view[v].began
                BY <2>3, ViewGoes DEF StackInv
            <3> QED
                BY <1>1, <2>1, <3>1 DEF Viewed, SameView
        <2> QED
            BY <2>2, <2>3 DEF ViewReadsNative
    <1>6. Views(t)' /\ Reading(t)'
        BY <1>1, <1>2, <1>5, OnlyViewed, OnlyReading DEF StackInv, tableVars
    <1> QED
        BY <1>3, <1>4, <1>6 DEF StackInv

LEMMA StartsUnwinderStack ==
    ASSUME NEW t, OneThread(t), StackInv(t), NEW v \in Viewers, ViewStartsUnwinder(v)
    PROVE  StackInv(t)'
    <1>1. view[v].at = "python" /\ UNCHANGED <<vars, origin, shown>>
        BY DEF ViewStartsUnwinder
    <1>2. CASE Fails(v) /\ UNCHANGED unwinder
        BY <1>1, <1>2, FailsStack
    <1>3. CASE Goes(v, "await") /\ ~ (Fails(v) /\ UNCHANGED unwinder)
        <2>1. Viewed(view[v], t)
            BY DEF StackInv, Views
        <2>2. /\ Only(v) /\ SameView(v, "await")
              /\ view'[v].answer = view[v].answer /\ view'[v].began = view[v].began
            BY <1>3, ViewGoes DEF StackInv
        <2>3. /\ Lone(t)' /\ StackFrames(t)' /\ ShownFrames' /\ Expiring'
              /\ UNCHANGED <<stopEpoch, isStopped, issued>>
            BY <1>1, StackKept
        <2>4. Viewed(view[v], t)' /\ view'[v].at = "await" /\ view'[v].answer = None
            BY <1>1, <2>1, <2>2, <2>3 DEF Viewed, SameView
        <2>5. Views(t)'
            BY <1>1, <2>2, <2>3, <2>4, OnlyViewed DEF StackInv
        <2>6. PICK p : unwinder' = [at |-> "reading", viewer |-> v, thread |-> view[v].thread,
                                    process |-> p]
            BY <1>3 DEF ViewStartsUnwinder
        <2>7. /\ DOMAIN unwinder' = {"at", "viewer", "process", "thread"}
              /\ unwinder'.viewer = v /\ unwinder'.thread = view[v].thread
            BY <2>6
        <2>8. Reading(t)'
            BY <1>1, <2>1, <2>4, <2>7 DEF Reading, Viewed
        <2> QED
            BY <2>3, <2>5, <2>8 DEF StackInv
    <1> QED
        BY <1>2, <1>3 DEF ViewStartsUnwinder

LEMMA TimesOutStack ==
    ASSUME NEW t, OneThread(t), StackInv(t), NEW v \in Viewers, ViewTimesOut(v)
    PROVE  StackInv(t)'
    <1>1. /\ Lone(t)' /\ StackFrames(t)' /\ ShownFrames' /\ Expiring'
          /\ UNCHANGED <<stopEpoch, isStopped, issued, origin>>
        BY StackKept DEF ViewTimesOut
    <1>2. Only(v) /\ view'[v] = NoView
        BY ViewFails DEF ViewTimesOut, StackInv
    <1>3. Views(t)'
        BY <1>1, <1>2, NoViewed, OnlyViewed DEF StackInv, Viewed
    <1>4. unwinder' = [unwinder EXCEPT !.viewer = None]
        BY DEF ViewTimesOut
    <1>5. Reading(t)'
        BY <1>4 DEF StackInv, Reading
    <1> QED
        BY <1>1, <1>3, <1>5 DEF StackInv

LEMMA ReadsStack ==
    ASSUME NEW t, OneThread(t), StackInv(t), UnwinderReads
    PROVE  StackInv(t)'
    <1> USE Lonely
    <1>1. /\ unwinder.at = "reading" /\ unwinder' = [unwinder EXCEPT !.at = "ending"]
          /\ UNCHANGED <<vars, origin, shown>>
        BY DEF UnwinderReads
    <1>2. /\ Lone(t)' /\ StackFrames(t)' /\ ShownFrames' /\ Expiring'
          /\ UNCHANGED <<stopEpoch, isStopped, issued, origin>>
        BY <1>1, StackKept
    <1>3. Reading(t)'
        BY <1>1 DEF StackInv, Reading
    <1>4. CASE unwinder.viewer = None
        <2>1. view' = view
            BY <1>4 DEF UnwinderReads
        <2> QED
            BY <1>2, <1>3, <2>1 DEF StackInv, Views, Viewed
    <1>5. CASE unwinder.viewer # None
        <2>1. PICK v \in Viewers : v = unwinder.viewer
            BY <1>1, <1>5 DEF StackInv, Reading
        <2>2. view[v].at = "await" /\ unwinder.thread = t
            BY <1>1, <1>5, <2>1 DEF StackInv, Reading
        <2>3. DOMAIN view = Viewers /\ DOMAIN view[v] = ViewFields /\ Viewed(view[v], t)
            BY DEF StackInv, Views, Viewed
        <2>4. CASE view' = [view EXCEPT ![v].answer = "error"]
            <3>1. Only(v) /\ SameView(v, "await") /\ view'[v].answer = "error"
                BY ONLY <2>2, <2>3, <2>4, v \in Viewers DEF Only, SameView, ViewFields
            <3>2. Viewed(view[v], t)'
                BY <1>2, <2>2, <2>3, <3>1 DEF Viewed, SameView
            <3> QED
                BY <1>2, <1>3, <3>1, <3>2, OnlyViewed DEF StackInv
        <2>5. CASE view' # [view EXCEPT ![v].answer = "error"]
            <3>1. PICK b : b = StopOf(Root)
                OBVIOUS
            <3>2. view' = [view EXCEPT ![v].answer = "frames", ![v].began = b]
                BY <1>5, <2>1, <2>2, <2>5, <3>1 DEF UnwinderReads
            <3>3. Only(v) /\ SameView(v, "await") /\ view'[v].began = b
                BY ONLY <2>2, <2>3, <3>2, v \in Viewers DEF Only, SameView, ViewFields
            <3>4. isStopped => b = stopEpoch
                BY <3>1, LatestStop DEF StackInv
            <3>5. Viewed(view[v], t)'
                BY <1>2, <2>2, <2>3, <3>3, <3>4 DEF Viewed, SameView
            <3> QED
                BY <1>2, <1>3, <3>3, <3>5, OnlyViewed DEF StackInv
        <2> QED
            BY <2>4, <2>5
    <1> QED
        BY <1>4, <1>5

LEMMA EndsStack ==
    ASSUME NEW t, OneThread(t), StackInv(t), UnwinderEnds
    PROVE  StackInv(t)'
    <1>1. UNCHANGED <<vars, view, origin, shown>> /\ unwinder' = NoUnwinder
        BY DEF UnwinderEnds
    <1>2. /\ Lone(t)' /\ StackFrames(t)' /\ ShownFrames' /\ Expiring'
          /\ UNCHANGED <<stopEpoch, isStopped, issued, origin>>
        BY <1>1, StackKept
    <1>3. Reading(t)'
        <2>1. /\ DOMAIN NoUnwinder = {"at", "viewer", "process", "thread"}
              /\ NoUnwinder.at = "none"
            BY DEF NoUnwinder
        <2> QED
            BY <1>1, <2>1 DEF Reading
    <1> QED
        BY <1>1, <1>2, <1>3 DEF StackInv, Views, Viewed

LEMMA RepliesStack ==
    ASSUME NEW t, OneThread(t), StackInv(t), NEW v \in Viewers, ViewReplies(v)
    PROVE  StackInv(t)'
    <1> USE Lonely
    <1>1. /\ view[v].at = "reply" /\ Fails(v) /\ UNCHANGED <<vars, unwinder, origin>>
        BY DEF ViewReplies, unwinderVars
    <1>2. CASE shown' = shown
        BY <1>1, <1>2, FailsStack
    <1>3. CASE shown' # shown
        <2>1. Viewed(view[v], t)
            BY DEF StackInv, Views
        <2>2. view[v].thread = t /\ view[v].child = None
            BY <1>1, <2>1 DEF Viewed
        <2>3. isStopped /\ view[v].epoch = stopEpoch
            BY <1>3, <2>2 DEF ViewReplies, Current, StillStopped
        <2>4. shown' = shown \cup {[id |-> view[v].id, process |-> Root, stop |-> stopEpoch]}
            BY <1>3, <2>2, <2>3, LatestStop DEF ViewReplies, StackInv
        <2>5. view[v].id \in issued /\ origin[view[v].id] = stopEpoch
            BY <1>1, <2>1, <2>3 DEF Viewed
        <2>6. /\ Lone(t)' /\ StackFrames(t)'
              /\ UNCHANGED <<stopEpoch, isStopped, issued, origin, byId, alive, call>>
            BY <1>1, StackKept DEF vars, sessionVars, registryVars, worldVars
        <2>7. ShownFrames'
            BY <2>4, <2>5, <2>6 DEF StackInv, ShownFrames
        <2>8. Expiring'
            BY <2>3, <2>4, <2>6 DEF StackInv, Expiring, Releasing
        <2>9. Only(v) /\ view'[v] = NoView
            BY <1>1, ViewFails DEF StackInv
        <2>10. Views(t)' /\ Reading(t)'
            BY <1>1, <2>6, <2>9, NoViewed, OnlyViewed, OnlyReading DEF StackInv, Viewed
        <2> QED
            BY <2>6, <2>7, <2>8, <2>10 DEF StackInv
    <1> QED
        BY <1>2, <1>3

--------------------------------------------------------------------------------
\* A frame gets an id nobody has seen, in the epoch it was read in.
LEMMA AllocatesNew ==
    ASSUME NEW t, OneThread(t), StackFrames(t), NEW k, NEW e, e # None, NEW id,
           Registry!AllocateNew(Root, t, k, NativeIds, e),
           id = byKey'[<<Root, t, k>>].id, origin' = Put(origin, id, e)
    PROVE  /\ StackFrames(t)' /\ id \notin issued /\ issued' = issued \cup {id}
           /\ DOMAIN byId' = DOMAIN byId \cup {id}
           /\ origin'[id] = e /\ \A i \in issued : origin'[i] = origin[i]
           /\ UNCHANGED <<epoch, processEpochs>>
    <1>1. PICK key : key = <<Root, t, k>>
        OBVIOUS
    <1>2. key \notin DOMAIN byKey /\ e = Registry!ActiveEpoch(Root)
          /\ UNCHANGED <<epoch, processEpochs>>
        BY <1>1 DEF Registry!AllocateNew
    <1>3. PICK new, frame :
              /\ new \notin issued
              /\ frame = [id |-> new, epoch |-> Registry!ActiveEpoch(Root), process |-> Root,
                          thread |-> t, key |-> k]
              /\ byKey' = [x \in DOMAIN byKey \cup {key} |-> IF x = key THEN frame ELSE byKey[x]]
              /\ byId' = [i \in DOMAIN byId \cup {new} |-> IF i = new THEN frame ELSE byId[i]]
              /\ issued' = issued \cup {new}
        BY <1>1 DEF Registry!AllocateNew, Registry!FreeIds
    <1>4. /\ frame.id = new /\ frame.process = Root /\ frame.thread = t
          /\ Registry!KeyOf(frame) = key
        BY <1>1, <1>3 DEF Registry!KeyOf
    <1>5. id = new
        BY <1>1, <1>3, <1>4
    <1>6. Registry!ActiveEpoch(Root)' = e
        BY <1>2 DEF Registry!ActiveEpoch
    <1>7. /\ DOMAIN origin' = DOMAIN origin \cup {id} /\ origin'[id] = e
          /\ \A i \in issued : origin'[i] = origin[i]
        BY <1>3, <1>5 DEF Put, StackFrames
    <1>8. ASSUME NEW x \in DOMAIN byKey'
          PROVE  /\ Registry!KeyOf(byKey'[x]) = x
                 /\ byKey'[x].id \in DOMAIN byId' /\ byId'[byKey'[x].id] = byKey'[x]
        <2>1. CASE x = key
            BY <1>3, <1>4, <2>1
        <2>2. CASE x # key
            <3>1. x \in DOMAIN byKey /\ byKey'[x] = byKey[x]
                BY <1>3, <2>2
            <3>2. byKey[x].id \in DOMAIN byId /\ byKey[x].id # new
                BY <1>3, <3>1 DEF StackFrames
            <3> QED
                BY <1>3, <3>1, <3>2 DEF StackFrames
        <2> QED
            BY <2>1, <2>2
    <1>9. ASSUME NEW i \in DOMAIN byId'
          PROVE  /\ i \in issued' /\ byId'[i].process = Root /\ byId'[i].thread = t
                 /\ origin'[i] = Registry!ActiveEpoch(Root)'
        <2>1. CASE i = id
            BY <1>3, <1>4, <1>5, <1>6, <1>7, <2>1
        <2>2. CASE i # id
            <3>1. i \in DOMAIN byId /\ byId'[i] = byId[i]
                BY <1>3, <1>5, <2>2
            <3> QED
                BY <1>2, <1>3, <1>6, <1>7, <3>1 DEF StackFrames
        <2> QED
            BY <2>1, <2>2
    <1>10. issued' \subseteq DOMAIN origin'
        BY <1>3, <1>5, <1>7 DEF StackFrames
    <1> QED
        BY <1>2, <1>3, <1>5, <1>7, <1>8, <1>9, <1>10 DEF StackFrames, Registry!KeyOf

LEMMA AllocatesStack ==
    ASSUME NEW t, OneThread(t), StackInv(t), NEW v \in Viewers, NEW k \in Keys,
           ViewAllocates(v, k)
    PROVE  StackInv(t)'
    <1> USE Lonely
    <1>0. DOMAIN view = Viewers /\ DOMAIN view[v] = ViewFields /\ Viewed(view[v], t)
        BY DEF StackInv, Views, Viewed
    <1>1. /\ view[v].at = "allocate"
          /\ UNCHANGED <<tableVars, call, worldVars, unwinder, shown>>
        BY DEF ViewAllocates, unwinderVars
    <1>2. PICK e : e = view[v].epoch
        OBVIOUS
    <1>3. /\ view[v].process = Root /\ view[v].thread = t /\ view[v].answer = None
          /\ view[v].began = e /\ Expected(v) = e /\ e # None
        BY <1>0, <1>1, <1>2, StackAssumption DEF Viewed, Expected
    <1>4. \/ /\ Registry!AllocateNew(Root, t, k, NativeIds, e)
             /\ origin' = Put(origin, byKey'[<<Root, t, k>>].id, e)
             /\ view' = [view EXCEPT ![v].at = "reply", ![v].id = byKey'[<<Root, t, k>>].id]
          \/ /\ Registry!AllocateExisting(Root, t, k, NativeIds, e)
             /\ view' = [view EXCEPT ![v].at = "reply", ![v].id = byKey[<<Root, t, k>>].id]
             /\ UNCHANGED origin
          \/ /\ \/ Registry!AllocateRefused(Root, e)
                \/ Registry!AllocateExhausted(Root, t, k, NativeIds, e)
             /\ Fails(v)
             /\ UNCHANGED origin
        BY <1>3 DEF ViewAllocates
    \* All that is left to show is what became of the request and of the frames.
    <1>5. ASSUME UNCHANGED <<epoch, processEpochs>>, StackFrames(t)', issued \subseteq issued',
                 \A i \in issued : origin'[i] = origin[i],
                 \A s \in shown : s.id \in DOMAIN byId' => s.id \in DOMAIN byId,
                 Only(v), Viewed(view[v], t)'
          PROVE  StackInv(t)'
        <2>1. Lone(t)'
            BY <1>1, <1>5, LoneKept DEF StackInv
        <2>2. ShownFrames' /\ Expiring'
            BY <1>1, <1>5 DEF StackInv, ShownFrames, Expiring, Releasing, tableVars, worldVars
        <2>3. Views(t)' /\ Reading(t)'
            BY <1>1, <1>5, OnlyViewed, OnlyReading DEF StackInv, tableVars
        <2> QED
            BY <1>5, <2>1, <2>2, <2>3 DEF StackInv
    <1>6. ASSUME NEW id, view' = [view EXCEPT ![v].at = "reply", ![v].id = id],
                 id \in issued', origin'[id] = e
          PROVE  Only(v) /\ Viewed(view[v], t)'
        <2>1. Only(v) /\ SameView(v, "reply") /\ view'[v].answer = view[v].answer
              /\ view'[v].began = view[v].began /\ view'[v].id = id
            BY ONLY <1>0, <1>6, v \in Viewers DEF Only, SameView, ViewFields
        <2>2. UNCHANGED <<stopEpoch, isStopped>>
            BY <1>1 DEF tableVars
        <2> QED
            BY <1>0, <1>1, <1>2, <1>3, <1>6, <2>1, <2>2 DEF Viewed, SameView
    <1>7. CASE /\ Registry!AllocateNew(Root, t, k, NativeIds, e)
               /\ origin' = Put(origin, byKey'[<<Root, t, k>>].id, e)
               /\ view' = [view EXCEPT ![v].at = "reply", ![v].id = byKey'[<<Root, t, k>>].id]
        <2>1. PICK id : id = byKey'[<<Root, t, k>>].id
            OBVIOUS
        <2>2. /\ StackFrames(t)' /\ id \notin issued /\ issued' = issued \cup {id}
              /\ DOMAIN byId' = DOMAIN byId \cup {id}
              /\ origin'[id] = e /\ \A i \in issued : origin'[i] = origin[i]
              /\ UNCHANGED <<epoch, processEpochs>>
            BY <1>3, <1>7, <2>1, AllocatesNew DEF StackInv
        <2>3. view' = [view EXCEPT ![v].at = "reply", ![v].id = id]
            BY <1>7, <2>1
        <2>4. \A s \in shown : s.id \in DOMAIN byId' => s.id \in DOMAIN byId
            BY <2>2 DEF StackInv, ShownFrames
        <2> QED
            BY <1>5, <1>6, <2>2, <2>3, <2>4
    <1>8. CASE /\ Registry!AllocateExisting(Root, t, k, NativeIds, e)
               /\ view' = [view EXCEPT ![v].at = "reply", ![v].id = byKey[<<Root, t, k>>].id]
               /\ UNCHANGED origin
        <2>1. PICK key, id : key = <<Root, t, k>> /\ id = byKey[key].id
            OBVIOUS
        <2>2. /\ key \in DOMAIN byKey /\ e = Registry!ActiveEpoch(Root)
              /\ UNCHANGED <<epoch, processEpochs, byKey, byId, issued>>
            BY <1>3, <1>8, <2>1 DEF Registry!AllocateExisting
        <2>3. id \in issued /\ origin[id] = e
            BY <2>1, <2>2 DEF StackInv, StackFrames
        <2>4. StackFrames(t)'
            BY <1>8, <2>2 DEF StackInv, StackFrames, Registry!ActiveEpoch, Registry!KeyOf
        <2>5. view' = [view EXCEPT ![v].at = "reply", ![v].id = id]
            BY <1>8, <2>1
        <2> QED
            BY <1>5, <1>6, <1>8, <2>2, <2>3, <2>4, <2>5
    <1>9. CASE /\ \/ Registry!AllocateRefused(Root, e)
                  \/ Registry!AllocateExhausted(Root, t, k, NativeIds, e)
               /\ Fails(v)
               /\ UNCHANGED origin
        <2>1. UNCHANGED <<epoch, processEpochs, byKey, byId, issued>>
            BY <1>9 DEF Registry!AllocateRefused, Registry!AllocateExhausted, registryVars,
                        Registry!registryVars
        <2>2. StackFrames(t)'
            BY <1>9, <2>1 DEF StackInv, StackFrames, Registry!ActiveEpoch, Registry!KeyOf
        <2>3. Only(v) /\ view'[v] = NoView
            BY <1>9, ViewFails DEF StackInv
        <2>4. Viewed(view[v], t)'
            BY <2>3, NoViewed DEF Viewed
        <2> QED
            BY <1>5, <1>9, <2>1, <2>2, <2>3, <2>4
    <1> QED
        BY <1>4, <1>7, <1>8, <1>9

--------------------------------------------------------------------------------
LEMMA InitStack ==
    ASSUME NEW t, OneThread(t), StackInit
    PROVE  StackInv(t)
    <1>1. Lone(t)
        BY InitLone DEF StackInit
    <1>2. DOMAIN byId = {} /\ DOMAIN byKey = {} /\ issued = {} /\ shown = {}
        BY DEF StackInit, Init, InitSession, Registry!Init
    <1>3. Views(t)
        BY NoViewed DEF StackInit, Views
    <1>4. Reading(t)
        <2>1. /\ DOMAIN NoUnwinder = {"at", "viewer", "process", "thread"}
              /\ NoUnwinder.at = "none"
            BY DEF NoUnwinder
        <2> QED
            BY <2>1 DEF StackInit, Reading
    <1> QED
        BY <1>1, <1>2, <1>3, <1>4 DEF StackInv, StackFrames, ShownFrames, Expiring

LEMMA StackStep ==
    ASSUME NEW t, OneThread(t), StackInv(t), StackNext
    PROVE  StackInv(t)'
    <1>1. ASSUME NEW v \in Viewers, View(v)
          PROVE  StackInv(t)'
        BY <1>1, StartsStack, NativeStack, StartsUnwinderStack, LocalsStack, TimesOutStack,
           ChecksStack, AllocatesStack, RepliesStack DEF View
    <1> QED
        BY <1>1, SessionStack, ReadsStack, EndsStack DEF StackNext

LEMMA StackInvariance ==
    ASSUME NEW t, OneThread(t)
    PROVE  StackSpec => []StackInv(t)
    <1>1. StackInv(t) /\ UNCHANGED stackVars => StackInv(t)'
        BY StackKept DEF stackVars, unwinderVars, StackInv, Views, Viewed, Reading
    <1>2. StackInv(t) /\ [StackNext]_stackVars => StackInv(t)'
        BY <1>1, StackStep
    <1> QED
        BY InitStack, <1>2, PTL DEF StackSpec

\* However long the Python frames took to be read, and whatever the session did in the
\* meantime, the editor is shown the frames of the very stop it asked about.
THEOREM FramesAreShownFresh ==
    ASSUME NEW t, OneThread(t)
    PROVE  StackSpec => []ShownFramesAreFresh
    <1>1. StackInv(t) => ShownFramesAreFresh
        BY DEF StackInv, ShownFrames, ShownFramesAreFresh
    <1> QED
        BY <1>1, StackInvariance, PTL

\* At rest no id the editor was shown in an earlier stop is taken for a current frame.
THEOREM ShownIdsDoExpire ==
    ASSUME NEW t, OneThread(t)
    PROVE  StackSpec => []ShownIdsExpire
    <1>1. StackInv(t) => ShownIdsExpire
        <2> SUFFICES ASSUME StackInv(t), AtRest, Root \in alive, NEW s \in shown,
                            Registry!Classify(s.id) = "current"
                     PROVE  Known(s.process).isStopped /\ Known(s.process).epoch = s.stop
            BY DEF ShownIdsExpire
        <2>1. s.id \in DOMAIN byId
            BY DEF Registry!Classify
        <2>2. ~ Releasing
            <3>1. ASSUME NEW w \in Workers
                  PROVE  call[w].at \notin Taking \cup {"begin", "release", "clear"}
                BY DEF AtRest, Lost, Idle, Taking
            <3> QED
                BY <3>1 DEF Releasing
        <2> QED
            BY <2>1, <2>2, LatestStop DEF StackInv, Expiring, ShownFrames
    <1> QED
        BY <1>1, StackInvariance, PTL

\* A request whose stop lasts is not refused by the registry for a change of epoch.
THEOREM LastingStopsAreServed ==
    ASSUME NEW t, OneThread(t)
    PROVE  StackSpec => []UndisturbedRequestsSucceed
    <1>1. StackInv(t) => UndisturbedRequestsSucceed
        <2> SUFFICES ASSUME StackInv(t), AtRest, NEW v \in Viewers, view[v].at = "allocate",
                            Known(ThreadGroup[view[v].thread]).isStopped,
                            Known(ThreadGroup[view[v].thread]).epoch = view[v].began
                     PROVE  Expected(v) = Registry!ActiveEpoch(view[v].process)
            BY DEF UndisturbedRequestsSucceed
        <2>1. /\ view[v].thread = t /\ view[v].child = None /\ view[v].process = Root
              /\ view[v].began = view[v].epoch
            BY DEF StackInv, Views, Viewed
        <2>2. isStopped /\ view[v].epoch = stopEpoch
            BY <2>1, Lonely, LatestStop DEF StackInv, Lone, LoneTables
        <2>3. call[RootReader].at \notin Taking \cup {"begin"}
            BY Lonely DEF AtRest, Lost, Idle, Taking
        <2>4. Registry!ActiveEpoch(Root) = stopEpoch
            BY <2>2, <2>3 DEF StackInv, Lone, LoneEpochs, Registry!ActiveEpoch
        <2> QED
            BY <2>1, <2>2, <2>4 DEF Expected
    <1> QED
        BY <1>1, StackInvariance, PTL

--------------------------------------------------------------------------------
\* The session and its two parts.  What Coordinator.tla and SyntheticFrames.tla
\* promise holds of calls from the sets their Next takes them from.  That the session
\* makes no others needs the types of all it hands around: of what a handler carries
\* from one section to the next, of what a request thread has read, and of a view.
AllStages == Stages \cup {"ended", "endedRemove", "record"}

SessionCalls ==
    [at : AllStages, process : Processes \cup {None}, thread : Threads \cup Processes \cup {None},
     owner : Engines \cup {None}, epoch : 0 .. MaxEpoch, rest : SUBSET Processes]

\* What a handler has in hand at the calls it makes of the coordinator and of the
\* frame registry.
Fit(c) ==
    /\ c.at = "register" =>
          c.process \in Processes /\ c.thread \in (Processes \ {c.process}) \cup {None}
    /\ c.at \in Taking \cup {"bindThread"} =>
          c.process \in Processes /\ c.thread \in Threads /\ c.owner \in Engines
    /\ c.at = "record" => c.process \in Processes /\ c.thread \in ThreadsOf(<<Root, "native">>)
    /\ c.at = "release" => c.process \in Processes /\ c.owner \in Engines
    /\ c.at \in Removing => c.process \in Processes
    /\ c.at \in {"begin", "release", "clear"} => c.thread \in Threads \cup {None}

BoundedSnapshots == [epoch : 0 .. MaxEpoch, isStopped : BOOLEAN, threads : SUBSET Threads,
                     stoppedThreads : SUBSET Threads, allStopped : BOOLEAN]

Beliefs ==
    /\ stopEpoch \in 0 .. MaxEpoch
    /\ isStopped \in BOOLEAN
    /\ activeProcess \in Processes \cup {None}
    /\ DOMAIN snapshots \subseteq Processes
    /\ \A p \in DOMAIN snapshots : snapshots[p] \in BoundedSnapshots
    /\ DOMAIN threadProcess \subseteq Threads
    /\ \A t \in DOMAIN threadProcess : threadProcess[t] \in Processes

Handlers == call \in [Workers -> SessionCalls] /\ \A w \in Workers : Fit(call[w])

Typed ==
    /\ Beliefs /\ Handlers /\ Asked
    /\ Root \in attached
    /\ DOMAIN processes \subseteq Processes

--------------------------------------------------------------------------------
\* The lone steps of the coordinator and of the registry that the handlers take.
CoordStep == Coord!Next \/ UNCHANGED coordinatorVars
RegistryStep == Registry!Next \/ UNCHANGED registryVars

LEMMA RegisterStep ==
    ASSUME DOMAIN processes \subseteq Processes,
           NEW p \in Processes, NEW parent \in (Processes \ {p}) \cup {None},
           NEW engine \in Engines \cup {None},
           Coord!RegisterProcess(p, parent, engine) \/ Coord!RegisterProcessRefused(p, parent)
    PROVE  CoordStep /\ DOMAIN processes' \subseteq Processes
    <1>1. engine \in Coord!Engines \cup {None}
        BY DEF Engines, Coord!Engines
    <1>2. Coord!Register(p)
        BY ONLY <1>1, parent \in (Processes \ {p}) \cup {None},
                Coord!RegisterProcess(p, parent, engine)
                \/ Coord!RegisterProcessRefused(p, parent) DEF Coord!Register
    <1>3. Coord!Next
        BY <1>2 DEF Coord!Next
    <1>4. DOMAIN processes' \subseteq Processes
        <2>1. CASE Coord!RegisterProcess(p, parent, engine)
            <3>1. DOMAIN processes' = DOMAIN processes \cup {p} \cup ({parent} \ {None})
                BY <2>1, RegisterEffect
            <3> QED
                BY <3>1
        <2>2. CASE Coord!RegisterProcessRefused(p, parent)
            BY <2>2 DEF Coord!RegisterProcessRefused, Coord!coordinatorVars
        <2> QED
            BY <2>1, <2>2
    <1> QED
        BY <1>3, <1>4 DEF CoordStep

LEMMA BindStep ==
    ASSUME DOMAIN processes \subseteq Processes, NEW p \in Processes, NEW t \in Threads,
           Coord!BindNativeThread(p, t) \/ Coord!BindRefused(p)
    PROVE  CoordStep /\ DOMAIN processes' \subseteq Processes
    <1>1. Coord!Next
        BY DEF Coord!Next, Coord!Bind
    <1>2. DOMAIN processes' = DOMAIN processes
        BY DEF Coord!BindNativeThread, Coord!BindRefused, Coord!coordinatorVars
    <1> QED
        BY <1>1, <1>2 DEF CoordStep

LEMMA AcquireStep ==
    ASSUME DOMAIN processes \subseteq Processes, NEW p \in Processes, NEW t \in Threads,
           NEW owner \in Engines,
           Coord!AcquireStop(p, t, owner) \/ Coord!AcquireStopRefused(p, owner)
    PROVE  CoordStep /\ DOMAIN processes' \subseteq Processes
    <1>1. Coord!Next
        BY DEF Coord!Next, Coord!Stop, Engines, Coord!Engines
    <1>2. processes' = processes
        BY DEF Coord!AcquireStop, Coord!AcquireStopRefused, Coord!coordinatorVars
    <1> QED
        BY <1>1, <1>2 DEF CoordStep

LEMMA ReleaseStep ==
    ASSUME DOMAIN processes \subseteq Processes, NEW p \in Processes, NEW owner \in Engines,
           Coord!ReleaseStop(p, owner) \/ Coord!ReleaseStopRefused(p, owner)
    PROVE  CoordStep /\ DOMAIN processes' \subseteq Processes
    <1>1. Coord!Next
        BY DEF Coord!Next, Coord!Resume, Engines, Coord!Engines
    <1>2. processes' = processes
        BY DEF Coord!ReleaseStop, Coord!ReleaseStopRefused, Coord!coordinatorVars
    <1> QED
        BY <1>1, <1>2 DEF CoordStep

LEMMA RemoveStep ==
    ASSUME DOMAIN processes \subseteq Processes, NEW p \in Processes, Coord!RemoveProcess(p)
    PROVE  CoordStep /\ DOMAIN processes' \subseteq Processes
    BY RemoveEffect DEF CoordStep, Coord!Next

LEMMA EpochStep ==
    ASSUME NEW p \in Processes \cup {None}, NEW t \in Threads \cup {None}, NEW e \in 0 .. MaxEpoch,
           Registry!BeginEpoch(e, p, t) \/ Registry!ClearCurrent(p, t)
    PROVE  RegistryStep
    <1>1. p \in Registry!Owners /\ e \in Registry!Epochs
        BY DEF Registry!Owners, Registry!Epochs
    <1> QED
        BY <1>1 DEF RegistryStep, Registry!Next

--------------------------------------------------------------------------------
LEMMA HandlerGoes ==
    ASSUME Handlers, NEW w \in Workers, NEW at \in AllStages, Goto(w, at),
           Fit([call[w] EXCEPT !.at = at])
    PROVE  Handlers'
    <1> DEFINE c == [call[w] EXCEPT !.at = at]
    <1>1. c \in SessionCalls /\ Fit(c)
        BY DEF Handlers, SessionCalls
    <1>2. call' = [call EXCEPT ![w] = c]
        BY DEF Goto
    <1> HIDE DEF c
    <1>3. call' \in [Workers -> SessionCalls]
          /\ \A v \in Workers : call'[v] = c \/ call'[v] = call[v]
        BY <1>1, <1>2 DEF Handlers
    <1> QED
        BY <1>1, <1>3 DEF Handlers, Fit, SessionCalls, AllStages

LEMMA HandlerReturns ==
    ASSUME Handlers, NEW w \in Workers, Return(w)
    PROVE  Handlers'
    <1>1. Idle \in SessionCalls /\ Fit(Idle)
        BY BoundsAssumption DEF Idle, SessionCalls, AllStages, Stages, Fit, Taking, Removing
    <1> QED
        BY <1>1 DEF Return, Handlers, Fit

LEMMA HandlerEnters ==
    ASSUME Handlers, NEW w \in Workers, NEW at \in AllStages, NEW p \in Processes \cup {None},
           NEW t \in Threads \cup Processes \cup {None}, NEW owner \in Engines \cup {None},
           NEW e \in 0 .. MaxEpoch, Enter(w, at, p, t, owner, e),
           Fit([at |-> at, process |-> p, thread |-> t, owner |-> owner, epoch |-> e,
                rest |-> {}])
    PROVE  Handlers'
    <1> DEFINE c == [at |-> at, process |-> p, thread |-> t, owner |-> owner, epoch |-> e,
                     rest |-> {}]
    <1>1. c \in SessionCalls /\ Fit(c)
        BY DEF SessionCalls
    <1>2. call' = [call EXCEPT ![w] = c]
        BY DEF Enter
    <1> HIDE DEF c
    <1>3. call' \in [Workers -> SessionCalls]
          /\ \A v \in Workers : call'[v] = c \/ call'[v] = call[v]
        BY <1>1, <1>2 DEF Handlers
    <1> QED
        BY <1>1, <1>3 DEF Handlers, Fit

--------------------------------------------------------------------------------
\* What a section of a handler does: it keeps the types, and is at most one step of
\* the coordinator and one of the registry.
WellUsed ==
    /\ Beliefs' /\ Handlers' /\ DOMAIN processes' \subseteq Processes
    /\ CoordStep /\ RegistryStep

LEMMA BeliefsStay ==
    ASSUME Beliefs, UNCHANGED tableVars
    PROVE  Beliefs'
    BY DEF Beliefs, tableVars

LEMMA ForgetTyped ==
    ASSUME Beliefs, NEW p, Forget(p), isStopped' \in BOOLEAN
    PROVE  Beliefs'
    <1>1. /\ DOMAIN snapshots' \subseteq DOMAIN snapshots
          /\ \A q \in DOMAIN snapshots' : snapshots'[q] = snapshots[q]
          /\ DOMAIN threadProcess' \subseteq DOMAIN threadProcess
          /\ \A t \in DOMAIN threadProcess' : threadProcess'[t] = threadProcess[t]
        BY DEF Forget, Without
    <1>2. activeProcess' \in {activeProcess, None} \cup DOMAIN snapshots
        BY DEF Forget, NextActive
    <1>3. stopEpoch' = stopEpoch
        BY DEF Forget
    <1> QED
        BY <1>1, <1>2, <1>3 DEF Beliefs, BoundedSnapshots

LEMMA AnyStoppedTyped == \A table : AnyStopped(table) \in BOOLEAN
    BY DEF AnyStopped

LEMMA EndsWith ==
    ASSUME Handlers, NEW w \in Workers, NEW rest \in SUBSET Processes,
           call' = [call EXCEPT ![w].at = "endedRemove", ![w].rest = rest]
    PROVE  Handlers'
    <1> DEFINE c == [call[w] EXCEPT !.at = "endedRemove", !.rest = rest]
    <1>1. c \in SessionCalls /\ c.at = "endedRemove"
        BY DEF Handlers, SessionCalls, AllStages
    <1>2. call' = [call EXCEPT ![w] = c]
        OBVIOUS
    <1> HIDE DEF c
    <1> QED
        BY <1>1, <1>2 DEF Handlers, Fit, Taking, Removing

LEMMA RestShrinks ==
    ASSUME Handlers, NEW w \in Workers, NEW p, call' = [call EXCEPT ![w].rest = @ \ {p}]
    PROVE  Handlers'
    <1> DEFINE c == [call[w] EXCEPT !.rest = @ \ {p}]
    <1>1. c \in SessionCalls /\ Fit(c)
        BY DEF Handlers, SessionCalls, Fit
    <1>2. call' = [call EXCEPT ![w] = c]
        OBVIOUS
    <1> HIDE DEF c
    <1> QED
        BY <1>1, <1>2 DEF Handlers, Fit

LEMMA HandlerKept ==
    ASSUME Typed, NEW w \in Workers, HandlerStep(w)
    PROVE  WellUsed
    <1> DEFINE c == call[w]
    <1>h. Handlers /\ Beliefs /\ DOMAIN processes \subseteq Processes
        BY DEF Typed
    <1>c. c \in SessionCalls /\ Fit(c)
        BY <1>h DEF Handlers
    <1>g. ASSUME NEW at \in AllStages, Goto(w, at),
                 at \in Taking => c.at \in Taking,
                 at \in Removing => c.at \in Removing,
                 at \notin {"register", "bindThread", "record", "release"},
                 at \in {"begin", "clear"} =>
                    c.at \in Taking \cup {"release"} \/ c.thread \in Threads \cup {None}
          PROVE  Handlers'
        <2>1. Fit([call[w] EXCEPT !.at = at])
            BY <1>c, <1>g DEF SessionCalls, Fit, Taking, Removing
        <2> QED
            BY <1>h, <1>g, <2>1, HandlerGoes
    <1>s. AllStages = {"stopRegister", "stopBind", "acquire", "terminated", "terminatedRemove",
                       "terminatedClear", "remove", "idle", "register", "bindThread", "failed",
                       "begin", "beginLegacy", "release", "clear", "clearLegacy",
                       "ended", "endedRemove", "record"}
        BY DEF AllStages, Stages, Taking, Removing
    <1>1. CASE RegisterCoordinator(w)
        <2>1. /\ Return(w) /\ UNCHANGED <<tableVars, registryVars>> /\ c.at = "register"
              /\ \/ Coord!RegisterProcess(c.process, c.thread, c.owner)
                 \/ Coord!RegisterProcessRefused(c.process, c.thread)
            BY <1>1 DEF RegisterCoordinator
        <2>2. CoordStep /\ DOMAIN processes' \subseteq Processes
            BY <1>h, <1>c, <2>1, RegisterStep DEF Fit, SessionCalls
        <2> QED
            BY <1>h, <2>1, <2>2, BeliefsStay, HandlerReturns DEF WellUsed, RegistryStep
    <1>2. CASE BindCoordinator(w)
        <2>1. /\ UNCHANGED <<tableVars, registryVars>> /\ c.at = "bindThread"
              /\ \/ Coord!BindNativeThread(c.process, c.thread) \/ Coord!BindRefused(c.process)
                 \/ Coord!RegisterProcess(c.process, None, "python")
              /\ Return(w) \/ Goto(w, "failed")
            BY <1>2 DEF BindCoordinator
        <2>2. c.process \in Processes /\ c.thread \in Threads
            BY <1>c, <2>1 DEF Fit
        <2>3. CoordStep /\ DOMAIN processes' \subseteq Processes
            <3>1. CASE Coord!RegisterProcess(c.process, None, "python")
                BY <1>h, <2>2, <3>1, RegisterStep DEF Engines
            <3> QED
                BY <1>h, <2>1, <2>2, <3>1, BindStep
        <2>4. Handlers'
            BY <1>h, <1>g, <1>s, <2>1, HandlerReturns DEF Taking, Removing
        <2> QED
            BY <1>h, <2>1, <2>3, <2>4, BeliefsStay DEF WellUsed, RegistryStep
    <1>3. CASE StoppedRegister(w)
        <2>1. /\ UNCHANGED <<tableVars, registryVars>> /\ c.at = "stopRegister"
              /\ Coord!RegisterProcess(c.process, None, c.owner)
              /\ Goto(w, "stopBind") \/ Goto(w, "acquire")
            BY <1>3 DEF StoppedRegister
        <2>2. CoordStep /\ DOMAIN processes' \subseteq Processes
            BY <1>h, <1>c, <2>1, RegisterStep DEF Fit, Taking
        <2>3. Handlers'
            BY <1>g, <1>s, <2>1 DEF Taking, Removing
        <2> QED
            BY <1>h, <2>1, <2>2, <2>3, BeliefsStay DEF WellUsed, RegistryStep
    <1>4. CASE StoppedBind(w)
        <2>1. /\ UNCHANGED <<tableVars, registryVars>> /\ c.at = "stopBind"
              /\ Coord!BindNativeThread(c.process, c.thread) \/ Coord!BindRefused(c.process)
              /\ Goto(w, "acquire") \/ Goto(w, "begin")
            BY <1>4 DEF StoppedBind
        <2>2. CoordStep /\ DOMAIN processes' \subseteq Processes
            BY <1>h, <1>c, <2>1, BindStep DEF Fit, Taking
        <2>3. Handlers'
            BY <1>g, <1>s, <2>1 DEF Taking, Removing
        <2> QED
            BY <1>h, <2>1, <2>2, <2>3, BeliefsStay DEF WellUsed, RegistryStep
    <1>5. CASE StoppedAcquire(w)
        <2>1. /\ UNCHANGED <<tableVars, registryVars>> /\ c.at = "acquire"
              /\ \/ Coord!AcquireStop(c.process, c.thread, c.owner)
                 \/ Coord!AcquireStopRefused(c.process, c.owner)
              /\ Goto(w, "begin")
            BY <1>5 DEF StoppedAcquire
        <2>2. CoordStep /\ DOMAIN processes' \subseteq Processes
            BY <1>h, <1>c, <2>1, AcquireStep DEF Fit, Taking
        <2>3. Handlers'
            BY <1>g, <1>s, <2>1 DEF Taking, Removing
        <2> QED
            BY <1>h, <2>1, <2>2, <2>3, BeliefsStay DEF WellUsed, RegistryStep
    <1>6. CASE ContinuedRelease(w)
        <2>1. /\ UNCHANGED <<tableVars, registryVars>> /\ c.at = "release"
              /\ \/ Coord!ReleaseStop(c.process, c.owner)
                 \/ Coord!ReleaseStopRefused(c.process, c.owner)
              /\ Goto(w, "clear")
            BY <1>6 DEF ContinuedRelease
        <2>2. CoordStep /\ DOMAIN processes' \subseteq Processes
            BY <1>h, <1>c, <2>1, ReleaseStep DEF Fit
        <2>3. Handlers'
            BY <1>g, <1>s, <2>1 DEF Taking, Removing
        <2> QED
            BY <1>h, <2>1, <2>2, <2>3, BeliefsStay DEF WellUsed, RegistryStep
    <1>7. CASE StoppedBeginEpoch(w) \/ StoppedBeginLegacy(w)
        <2>1. /\ UNCHANGED <<tableVars, coordinatorVars>> /\ c.at \in {"begin", "beginLegacy"}
              /\ Goto(w, "beginLegacy") \/ Return(w)
            BY <1>7 DEF StoppedBeginEpoch, StoppedBeginLegacy
        <2>2. RegistryStep
            <3>1. c.epoch \in 0 .. MaxEpoch /\ c.process \in Processes \cup {None}
                BY <1>c DEF SessionCalls
            <3>2. CASE StoppedBeginEpoch(w)
                BY <1>c, <3>1, <3>2, EpochStep DEF StoppedBeginEpoch, Fit
            <3>3. CASE StoppedBeginLegacy(w)
                BY <3>1, <3>3, EpochStep DEF StoppedBeginLegacy
            <3> QED
                BY <1>7, <3>2, <3>3
        <2>3. Handlers'
            BY <1>h, <1>g, <1>s, <2>1, HandlerReturns DEF Taking, Removing
        <2> QED
            BY <1>h, <2>1, <2>2, <2>3, BeliefsStay DEF WellUsed, CoordStep, coordinatorVars
    <1>8. CASE ContinuedClear(w) \/ ContinuedClearLegacy(w) \/ TerminatedClear(w) \/ EndedClear(w)
        <2>1. /\ UNCHANGED <<tableVars, coordinatorVars>>
              /\ Goto(w, "clearLegacy") \/ Return(w)
            BY <1>8 DEF ContinuedClear, ContinuedClearLegacy, TerminatedClear, EndedClear
        <2>2. RegistryStep
            <3>1. c.process \in Processes \cup {None} /\ 0 \in 0 .. MaxEpoch
                BY <1>c, BoundsAssumption DEF SessionCalls
            <3>2. CASE ContinuedClear(w)
                BY <1>c, <3>1, <3>2, EpochStep DEF ContinuedClear, Fit
            <3>3. CASE ContinuedClearLegacy(w) \/ EndedClear(w)
                BY <3>1, <3>3, EpochStep DEF ContinuedClearLegacy, EndedClear
            <3>4. CASE TerminatedClear(w)
                BY <3>1, <3>4, EpochStep DEF TerminatedClear
            <3> QED
                BY <1>8, <3>2, <3>3, <3>4
        <2>3. Handlers'
            BY <1>h, <1>g, <1>s, <2>1, HandlerReturns DEF Taking, Removing
        <2> QED
            BY <1>h, <2>1, <2>2, <2>3, BeliefsStay DEF WellUsed, CoordStep, coordinatorVars
    <1>9. CASE RemoveCoordinator(w) \/ TerminatedRemove(w)
        <2>1. /\ UNCHANGED <<tableVars, registryVars>> /\ c.at \in {"remove", "terminatedRemove"}
              /\ Coord!RemoveProcess(c.process)
              /\ Return(w) \/ (c.at = "terminatedRemove" /\ Goto(w, "terminatedClear"))
            BY <1>9 DEF RemoveCoordinator, TerminatedRemove
        <2>2. CoordStep /\ DOMAIN processes' \subseteq Processes
            BY <1>h, <1>c, <2>1, RemoveStep DEF Fit, Removing
        <2>3. Handlers'
            BY <1>h, <1>g, <1>s, <2>1, HandlerReturns DEF Taking, Removing
        <2> QED
            BY <1>h, <2>1, <2>2, <2>3, BeliefsStay DEF WellUsed, RegistryStep
    <1>10. CASE TerminatedForget(w)
        <2>1. /\ UNCHANGED <<coordinatorVars, registryVars>> /\ c.at = "terminated"
              /\ Forget(c.process) /\ isStopped' \in BOOLEAN
              /\ Goto(w, "terminatedRemove")
            BY <1>10, AnyStoppedTyped DEF TerminatedForget
        <2>2. Handlers'
            BY <1>g, <1>s, <2>1 DEF Taking, Removing
        <2> QED
            BY <1>h, <2>1, <2>2, ForgetTyped
            DEF WellUsed, CoordStep, RegistryStep, coordinatorVars
    <1>11. CASE EndedList(w)
        <2>1. /\ UNCHANGED <<tableVars, coordinatorVars, registryVars>>
              /\ call' = [call EXCEPT ![w].at = "endedRemove", ![w].rest = DOMAIN processes]
            BY <1>11 DEF EndedList
        <2>2. Handlers'
            BY <1>h, <1>c, <1>s, <2>1, EndsWith
        <2> QED
            BY <1>h, <2>1, <2>2, BeliefsStay
            DEF WellUsed, CoordStep, RegistryStep, coordinatorVars
    <1>12. CASE EndedRemove(w)
        <2>1. PICK p \in c.rest : /\ Coord!RemoveProcess(p)
                                 /\ call' = [call EXCEPT ![w].rest = @ \ {p}]
            BY <1>12 DEF EndedRemove
        <2>2. UNCHANGED <<tableVars, registryVars>>
            BY <1>12 DEF EndedRemove
        <2>3. CoordStep /\ DOMAIN processes' \subseteq Processes
            BY <1>h, <1>c, <2>1, RemoveStep DEF SessionCalls
        <2>4. Handlers'
            BY <1>h, <2>1, RestShrinks
        <2> QED
            BY <1>h, <2>2, <2>3, <2>4, BeliefsStay DEF WellUsed, RegistryStep
    <1> QED
        BY <1>1, <1>2, <1>3, <1>4, <1>5, <1>6, <1>7, <1>8, <1>9, <1>10, <1>11, <1>12
        DEF HandlerStep

--------------------------------------------------------------------------------
\* The first sections of the handlers.
LEMMA KnownFits ==
    ASSUME Beliefs, NEW p
    PROVE  Known(p) \in BoundedSnapshots
    <1>1. NewSnapshot \in BoundedSnapshots
        BY BoundsAssumption DEF NewSnapshot, BoundedSnapshots
    <1> QED
        BY <1>1 DEF Known, Beliefs

LEMMA PutSnapshot ==
    ASSUME Beliefs, NEW p \in Processes, NEW s \in BoundedSnapshots,
           snapshots' = Put(snapshots, p, s)
    PROVE  /\ DOMAIN snapshots' \subseteq Processes
           /\ \A q \in DOMAIN snapshots' : snapshots'[q] \in BoundedSnapshots
    BY DEF Put, Beliefs

LEMMA PutThread ==
    ASSUME Beliefs, NEW p \in Processes, NEW t \in Threads,
           threadProcess' = Put(threadProcess, t, p)
    PROVE  /\ DOMAIN threadProcess' \subseteq Threads
           /\ \A u \in DOMAIN threadProcess' : threadProcess'[u] \in Processes
    BY DEF Put, Beliefs

LEMMA ProcessOfEvent ==
    ASSUME Beliefs, NEW t, NEW p \in Processes \cup {None}
    PROVE  EventProcess(t, p) \in Processes \cup {None}
    BY DEF Beliefs, EventProcess

LEMMA BoundedTyped == BoundedSnapshots' = BoundedSnapshots
    BY DEF BoundedSnapshots

LEMMA RegisterKept ==
    ASSUME Typed, NEW w \in Workers, NEW p \in Processes,
           NEW parent \in (Processes \ {p}) \cup {None}, NEW engine \in Engines,
           RegisterSnapshot(w, p, parent, engine)
    PROVE  WellUsed
    <1>h. Handlers /\ Beliefs /\ DOMAIN processes \subseteq Processes
        BY DEF Typed
    <1>1. /\ snapshots' = Put(snapshots, p, Known(p)) /\ activeProcess' = p
          /\ Enter(w, "register", p, parent, engine, 0)
          /\ UNCHANGED <<stopEpoch, isStopped, threadProcess, coordinatorVars, registryVars>>
        BY DEF RegisterSnapshot
    <1>2. Beliefs'
        <2>1. Known(p) \in BoundedSnapshots
            BY <1>h, KnownFits
        <2>2. /\ DOMAIN snapshots' \subseteq Processes
              /\ \A q \in DOMAIN snapshots' : snapshots'[q] \in BoundedSnapshots
            BY <1>h, <1>1, <2>1, PutSnapshot
        <2> QED
            BY <1>h, <1>1, <2>2, BoundedTyped DEF Beliefs
    <1>3. Handlers'
        <2>1. /\ "register" \in AllStages /\ 0 \in 0 .. MaxEpoch
              /\ engine \in Engines \cup {None} /\ p \in Processes \cup {None}
              /\ parent \in Threads \cup Processes \cup {None}
            BY BoundsAssumption DEF AllStages, Stages
        <2>2. Fit([at |-> "register", process |-> p, thread |-> parent, owner |-> engine,
                   epoch |-> 0, rest |-> {}])
            BY DEF Fit, Taking, Removing
        <2> QED
            BY <1>h, <1>1, <2>1, <2>2, HandlerEnters
    <1> QED
        BY <1>h, <1>1, <1>2, <1>3 DEF WellUsed, CoordStep, RegistryStep, coordinatorVars

LEMMA BindKept ==
    ASSUME Typed, NEW w \in Workers, NEW p \in Processes, NEW t \in Threads,
           NEW engine \in Engines, NEW activate, Bind(w, p, t, engine, activate)
    PROVE  WellUsed
    <1>h. Handlers /\ Beliefs /\ DOMAIN processes \subseteq Processes
        BY DEF Typed
    <1> DEFINE old == Known(p)
               s == [old EXCEPT !.threads = @ \cup {t},
                        !.stoppedThreads = @ \cup (IF old.allStopped THEN {t} ELSE {})]
    <1>1. /\ snapshots' = Put(snapshots, p, s) /\ activeProcess' \in {activeProcess, p}
          /\ threadProcess' = Put(threadProcess, t, p)
          /\ Enter(w, "bindThread", p, t, engine, 0)
          /\ UNCHANGED <<stopEpoch, isStopped, coordinatorVars, registryVars>>
        BY DEF Bind
    <1>2. s \in BoundedSnapshots
        <2>1. old \in BoundedSnapshots
            BY <1>h, KnownFits
        <2> HIDE DEF old
        <2> QED
            BY <2>1 DEF BoundedSnapshots
    <1> HIDE DEF s
    <1>3. Beliefs'
        <2>1. /\ DOMAIN snapshots' \subseteq Processes
              /\ \A q \in DOMAIN snapshots' : snapshots'[q] \in BoundedSnapshots
            BY <1>h, <1>1, <1>2, PutSnapshot
        <2>2. /\ DOMAIN threadProcess' \subseteq Threads
              /\ \A u \in DOMAIN threadProcess' : threadProcess'[u] \in Processes
            BY <1>h, <1>1, PutThread
        <2> QED
            BY <1>h, <1>1, <2>1, <2>2, BoundedTyped DEF Beliefs
    <1>4. Handlers'
        <2>1. /\ "bindThread" \in AllStages /\ 0 \in 0 .. MaxEpoch
              /\ engine \in Engines \cup {None} /\ p \in Processes \cup {None}
              /\ t \in Threads \cup Processes \cup {None}
            BY BoundsAssumption DEF AllStages, Stages
        <2>2. Fit([at |-> "bindThread", process |-> p, thread |-> t, owner |-> engine,
                   epoch |-> 0, rest |-> {}])
            BY DEF Fit, Taking, Removing
        <2> QED
            BY <1>h, <1>1, <2>1, <2>2, HandlerEnters
    <1> QED
        BY <1>h, <1>1, <1>3, <1>4 DEF WellUsed, CoordStep, RegistryStep, coordinatorVars

LEMMA StoppedKept ==
    ASSUME Typed, NEW w \in Workers, NEW t \in Threads \cup {None},
           NEW p \in Processes \cup {None}, NEW all \in BOOLEAN, NEW owner \in Engines,
           StoppedSnapshot(w, t, p, all, owner)
    PROVE  WellUsed
    <1>h. Handlers /\ Beliefs /\ DOMAIN processes \subseteq Processes
        BY DEF Typed
    <1>p. PICK process \in StoppedProcesses(t, p) : StoppedSnapshotOf(process, w, t, p, all, owner)
        BY DEF StoppedSnapshot
    <1> DEFINE named == EventProcess(t, p)
               old == IF named = None THEN NewSnapshot ELSE Known(named)
               known == {t} \ {None}
               s == [epoch |-> stopEpoch + 1, isStopped |-> TRUE,
                     threads |-> old.threads \cup known,
                     stoppedThreads |-> old.stoppedThreads \cup known, allStopped |-> all]
               at == IF process = None \/ t = None THEN "begin" ELSE "stopRegister"
    <1>1. /\ snapshots' = IF process = None THEN snapshots ELSE Put(snapshots, process, s)
          /\ threadProcess' = IF process = None \/ t = None THEN threadProcess
                              ELSE Put(threadProcess, t, process)
          /\ activeProcess' = IF process = None THEN activeProcess ELSE process
          /\ Enter(w, at, process, t, owner, stopEpoch + 1)
          /\ stopEpoch < MaxEpoch /\ stopEpoch' = stopEpoch + 1 /\ isStopped' = TRUE
          /\ UNCHANGED <<coordinatorVars, registryVars>>
        BY <1>p DEF StoppedSnapshotOf
    <1>2. stopEpoch + 1 \in 0 .. MaxEpoch
        BY <1>h, <1>1, BoundsAssumption DEF Beliefs
    <1>3. process \in Processes \cup {None}
        BY <1>h, <1>p, ProcessOfEvent, ThreadGroupAssumption DEF StoppedProcesses
    <1>4. s \in BoundedSnapshots
        <2>1. old \in BoundedSnapshots
            <3>1. NewSnapshot \in BoundedSnapshots
                BY BoundsAssumption DEF NewSnapshot, BoundedSnapshots
            <3> QED
                BY <1>h, <3>1, KnownFits, Zenon
        <2>2. known \subseteq Threads
            OBVIOUS
        <2> HIDE DEF old, known
        <2> QED
            BY <1>2, <2>1, <2>2 DEF BoundedSnapshots
    <1>5. at \in {"begin", "stopRegister"}
          /\ (at = "stopRegister" => process \in Processes /\ t \in Threads)
        BY <1>3
    <1> HIDE DEF at, s
    <1>6. Beliefs'
        <2>1. /\ DOMAIN snapshots' \subseteq Processes
              /\ \A q \in DOMAIN snapshots' : snapshots'[q] \in BoundedSnapshots
            <3>1. CASE process = None
                BY <1>h, <1>1, <3>1 DEF Beliefs
            <3>2. CASE process # None
                BY <1>h, <1>1, <1>3, <1>4, <3>2, PutSnapshot
            <3> QED
                BY <3>1, <3>2
        <2>2. /\ DOMAIN threadProcess' \subseteq Threads
              /\ \A u \in DOMAIN threadProcess' : threadProcess'[u] \in Processes
            <3>1. CASE process = None \/ t = None
                BY <1>h, <1>1, <3>1 DEF Beliefs
            <3>2. CASE process # None /\ t # None
                BY <1>h, <1>1, <1>3, <3>2, PutThread
            <3> QED
                BY <3>1, <3>2
        <2>3. activeProcess' \in Processes \cup {None}
            BY <1>h, <1>1, <1>3 DEF Beliefs
        <2> QED
            BY <1>1, <1>2, <2>1, <2>2, <2>3, BoundedTyped DEF Beliefs
    <1>7. Handlers'
        <2>1. at \in AllStages /\ t \in Threads \cup Processes \cup {None}
              /\ owner \in Engines \cup {None}
            BY <1>5 DEF AllStages, Stages, Taking
        <2>2. Fit([at |-> at, process |-> process, thread |-> t, owner |-> owner,
                   epoch |-> stopEpoch + 1, rest |-> {}])
            BY <1>5 DEF Fit, Taking, Removing
        <2> QED
            BY <1>h, <1>1, <1>2, <1>3, <2>1, <2>2, HandlerEnters
    <1> QED
        BY <1>h, <1>1, <1>6, <1>7 DEF WellUsed, CoordStep, RegistryStep, coordinatorVars

LEMMA ContinuedKept ==
    ASSUME Typed, NEW w \in Workers, NEW t \in Threads \cup {None},
           NEW p \in Processes \cup {None}, NEW all \in BOOLEAN, NEW owner \in Engines,
           ContinuedSnapshot(w, t, p, all, owner)
    PROVE  WellUsed
    <1>h. Handlers /\ Beliefs /\ DOMAIN processes \subseteq Processes
        BY DEF Typed
    <1> DEFINE process == EventProcess(t, p)
               old == snapshots[process]
               still == IF all \/ t = None THEN {}
                        ELSE (IF old.allStopped THEN old.threads ELSE old.stoppedThreads) \ {t}
               known == process \in DOMAIN snapshots
               s == [old EXCEPT !.isStopped = still # {}, !.stoppedThreads = still,
                                !.allStopped = FALSE]
               at == IF process # None /\ (known => still = {}) THEN "release" ELSE "clear"
    <1>1. /\ snapshots' = IF ~ known THEN snapshots ELSE [snapshots EXCEPT ![process] = s]
          /\ Enter(w, at, process, t, owner, 0)
          /\ isStopped' = AnyStopped(snapshots')
          /\ UNCHANGED <<stopEpoch, activeProcess, threadProcess, coordinatorVars, registryVars>>
        BY DEF ContinuedSnapshot
    <1>2. process \in Processes \cup {None}
        BY <1>h, ProcessOfEvent
    <1>3. known => s \in BoundedSnapshots
        <2> SUFFICES ASSUME known
                     PROVE  s \in BoundedSnapshots
            OBVIOUS
        <2>1. old \in BoundedSnapshots
            BY <1>h DEF Beliefs
        <2>2. still \in SUBSET Threads /\ (still # {}) \in BOOLEAN
            BY <2>1 DEF BoundedSnapshots
        <2>3. PICK b \in BOOLEAN : b = (still # {})
            BY <2>2
        <2>4. [old EXCEPT !.isStopped = b, !.stoppedThreads = still, !.allStopped = FALSE]
              \in BoundedSnapshots
            BY ONLY <2>1, <2>2 DEF BoundedSnapshots
        <2> QED
            BY <2>3, <2>4, Zenon
    <1>4. at \in {"release", "clear"} /\ (at = "release" => process \in Processes)
        BY <1>2
    <1> HIDE DEF process, at, s
    <1>5. Beliefs'
        <2>1. /\ DOMAIN snapshots' \subseteq Processes
              /\ \A q \in DOMAIN snapshots' : snapshots'[q] \in BoundedSnapshots
            BY <1>h, <1>1, <1>3 DEF Beliefs
        <2>2. isStopped' \in BOOLEAN
            BY <1>1, AnyStoppedTyped
        <2> QED
            BY <1>h, <1>1, <2>1, <2>2, BoundedTyped DEF Beliefs
    <1>6. Handlers'
        <2>1. at \in AllStages /\ t \in Threads \cup Processes \cup {None}
              /\ owner \in Engines \cup {None} /\ 0 \in 0 .. MaxEpoch
            BY <1>4, BoundsAssumption DEF AllStages, Stages
        <2>2. Fit([at |-> at, process |-> process, thread |-> t, owner |-> owner,
                   epoch |-> 0, rest |-> {}])
            BY <1>4 DEF Fit, Taking, Removing
        <2> QED
            BY <1>h, <1>1, <1>2, <2>1, <2>2, HandlerEnters
    <1> QED
        BY <1>h, <1>1, <1>5, <1>6 DEF WellUsed, CoordStep, RegistryStep, coordinatorVars

LEMMA GoneKept ==
    ASSUME Typed, NEW w \in Workers, NEW p \in Processes,
           TerminatedSnapshot(w, p) \/ RemoveSnapshot(w, p) \/ EndedSnapshot(w)
    PROVE  WellUsed
    <1>h. Handlers /\ Beliefs /\ DOMAIN processes \subseteq Processes
        BY DEF Typed
    <1>1. PICK at \in {"terminated", "remove", "ended"}, q \in {p, None} :
              Enter(w, at, q, None, None, 0) /\ (at \in Removing => q = p)
        BY DEF TerminatedSnapshot, RemoveSnapshot, EndedSnapshot, Removing
    <1>2. UNCHANGED <<coordinatorVars, registryVars>>
        BY DEF TerminatedSnapshot, RemoveSnapshot, EndedSnapshot
    <1>3. Beliefs'
        <2>1. CASE EndedSnapshot(w)
            BY <1>h, <2>1 DEF EndedSnapshot, Without, Beliefs
        <2>2. CASE TerminatedSnapshot(w, p) \/ RemoveSnapshot(w, p)
            BY <1>h, <2>2, ForgetTyped, AnyStoppedTyped DEF TerminatedSnapshot, RemoveSnapshot
        <2> QED
            BY <2>1, <2>2
    <1>4. Handlers'
        <2>1. at \in AllStages /\ 0 \in 0 .. MaxEpoch
            BY <1>1, BoundsAssumption DEF AllStages, Stages, Removing
        <2>2. Fit([at |-> at, process |-> q, thread |-> None, owner |-> None,
                   epoch |-> 0, rest |-> {}])
            BY <1>1 DEF Fit, Taking, Removing
        <2> QED
            BY <1>h, <1>1, <2>1, <2>2, HandlerEnters
    <1> QED
        BY <1>h, <1>2, <1>3, <1>4 DEF WellUsed, CoordStep, RegistryStep, coordinatorVars

LEMMA RecordsKept ==
    ASSUME Typed, NEW w \in Workers, NEW t \in ThreadsOf(<<Root, "native">>),
           RecordThreads(w, t)
    PROVE  WellUsed
    <1>h. Handlers /\ Beliefs /\ DOMAIN processes \subseteq Processes
        BY DEF Typed
    <1>1. UNCHANGED <<tableVars, coordinatorVars, registryVars>>
        BY DEF RecordThreads
    <1>2. Handlers'
        <2>1. CASE activeProcess = None
            BY <1>h, <2>1 DEF RecordThreads, Handlers, Fit, ThreadsOf
        <2>2. CASE activeProcess # None
            <3>1. /\ Enter(w, "record", activeProcess, t, "native", 0)
                  /\ activeProcess \in Processes /\ t \in Threads
                BY <1>h, <2>2 DEF RecordThreads, Beliefs, ThreadsOf
            <3>2. Fit([at |-> "record", process |-> activeProcess, thread |-> t,
                       owner |-> "native", epoch |-> 0, rest |-> {}])
                BY <3>1 DEF Fit, Taking, Removing
            <3>3. "record" \in AllStages /\ 0 \in 0 .. MaxEpoch /\ "native" \in Engines
                BY BoundsAssumption DEF AllStages, Engines
            <3>4. PICK p \in Processes : p = activeProcess
                BY <3>1
            <3> QED
                BY <1>h, <3>1, <3>2, <3>3, <3>4, HandlerEnters
        <2> QED
            BY <2>1, <2>2
    <1> QED
        BY <1>h, <1>1, <1>2, BeliefsStay
        DEF WellUsed, CoordStep, RegistryStep, coordinatorVars

--------------------------------------------------------------------------------
LEMMA SessionStays ==
    ASSUME Typed, UNCHANGED sessionVars
    PROVE  WellUsed
    <1>1. UNCHANGED <<tableVars, call, processes, coordinatorVars, registryVars>>
        BY DEF sessionVars, coordinatorVars
    <1>2. Handlers'
        BY <1>1 DEF Typed, Handlers, Fit
    <1> QED
        BY <1>1, <1>2, BeliefsStay DEF Typed, WellUsed, CoordStep, RegistryStep

LEMMA DispatchKept ==
    ASSUME Typed, NEW r \in Readers, NEW event \in EventsOf(r), Dispatch(r, event)
    PROVE  WellUsed
    <1>1. /\ r \in Workers /\ r[1] \in Processes /\ r[2] \in Engines
          /\ EventPid(r) \in Processes \cup {None}
          /\ event.thread \in Threads \cup {None}
        BY ReaderShape DEF EventPid, EventsOf, ThreadsOf
    <1>2. CASE RegisterSnapshot(r, r[1], None, "native")
        BY <1>1, <1>2, RegisterKept DEF Engines
    <1>3. CASE StoppedSnapshot(r, event.thread, EventPid(r), TRUE, r[2])
        BY <1>1, <1>3, StoppedKept
    <1>4. CASE ContinuedSnapshot(r, event.thread, EventPid(r), TRUE, r[2])
        BY <1>1, <1>4, ContinuedKept
    <1>5. CASE UNCHANGED sessionVars
        BY <1>5, SessionStays
    <1>6. CASE TerminatedSnapshot(r, r[1]) \/ RemoveSnapshot(r, r[1]) \/ EndedSnapshot(r)
        BY <1>1, <1>6, GoneKept
    <1> QED
        BY <1>2, <1>3, <1>4, <1>5, <1>6 DEF Dispatch

\* Every step of the session keeps the types and is at most one step of each part.
LEMMA NextKept ==
    ASSUME IInv, Typed, Next
    PROVE  Typed' /\ CoordStep /\ RegistryStep
    <1>t. /\ Asked /\ Root \in attached /\ Handlers /\ Beliefs
          /\ DOMAIN processes \subseteq Processes
        BY DEF Typed
    <1>w. /\ Watcher \in Workers /\ Requests \cup Listers \subseteq Workers
          /\ Root \in Processes
        BY SessionAssumption
    <1>a. ASSUME WellUsed, Root \in attached',
                 \A q \in Requests \cup Listers : pending'[q] \in {pending[q], NoAnswer}
          PROVE  Typed' /\ CoordStep /\ RegistryStep
        <2>1. Asked'
            BY <1>t, <1>a DEF Asked, Engines, NoAnswer
        <2> QED
            BY <1>a, <2>1 DEF WellUsed, Typed
    <1>1. CASE World
        <2>1. UNCHANGED <<sessionVars, attached, pending>>
            BY <1>1 DEF World, EngineResumes, EngineStops, ProcessStarts, ProcessExits
        <2> QED
            BY <1>a, <1>t, <2>1, SessionStays
    <1>2. ASSUME NEW w \in Workers, Continues(w)
          PROVE  Typed' /\ CoordStep /\ RegistryStep
        BY <1>2, <1>a, <1>t, HandlerKept DEF Continues, worldVars
    <1>3. ASSUME NEW p \in Processes, WatcherRegisters(p)
          PROVE  Typed' /\ CoordStep /\ RegistryStep
        <2>1. PICK parent \in {Root, None}, engine \in Engines :
                  RegisterSnapshot(Watcher, p, parent, engine)
            BY <1>3 DEF WatcherRegisters, Engines
        <2>2. UNCHANGED worldVars /\ p # Root
            BY <1>3, <1>t DEF WatcherRegisters
        <2>3. WellUsed
            BY <1>w, <2>1, <2>2, RegisterKept
        <2> QED
            BY <1>a, <1>t, <2>2, <2>3 DEF worldVars
    <1>4. CASE WatcherAttaches
        <2>1. WellUsed
            BY <1>4, <1>w, HandlerKept DEF WatcherAttaches, HandlerStep
        <2> QED
            BY <1>4, <1>a, <1>t, <2>1 DEF WatcherAttaches
    <1>5. ASSUME NEW r \in Readers, ReaderBinds(r) \/ ReaderHandles(r)
          PROVE  Typed' /\ CoordStep /\ RegistryStep
        <2>1. AtHand(r) \in EventsOf(r) /\ r \in Workers /\ r[1] \in Processes /\ r[2] \in Engines
            BY <1>5, AtHandTyped, ReaderShape DEF IInv, ReaderBinds, ReaderHandles
        <2>2. UNCHANGED <<attached, pending>>
            BY <1>5 DEF ReaderBinds, ReaderHandles
        <2>3. CASE ReaderBinds(r)
            <3>1. AtHand(r).thread \in Threads
                BY <2>1, <2>3 DEF ReaderBinds, BindsFirst, EventsOf, ThreadsOf
            <3> QED
                BY <1>a, <1>t, <2>1, <2>2, <2>3, <3>1, BindKept DEF ReaderBinds, BindSnapshot
        <2>4. CASE ReaderHandles(r)
            BY <1>a, <1>t, <2>1, <2>2, <2>4, DispatchKept DEF ReaderHandles
        <2> QED
            BY <1>5, <2>3, <2>4
    <1>6. ASSUME NEW q \in Requests, RequestInvalidates(q)
          PROVE  Typed' /\ CoordStep /\ RegistryStep
        <2>1. q \in Workers /\ pending[q].process \in Processes /\ pending[q].thread \in Threads
            BY <1>6, <1>t, <1>w DEF RequestInvalidates, Asked
        <2>2. PICK p \in Processes \cup {None} :
                  ContinuedSnapshot(q, pending[q].thread, p, FALSE, "native")
            BY <1>6, <2>1 DEF RequestInvalidates
        <2>3. WellUsed
            BY <2>1, <2>2, ContinuedKept DEF Engines
        <2>4. attached' = attached /\ pending' = [pending EXCEPT ![q] = NoAnswer]
            BY <1>6 DEF RequestInvalidates
        <2> QED
            BY <1>a, <1>t, <2>3, <2>4 DEF IInv, Answers
    <1>7. ASSUME NEW q \in Listers, RequestBinds(q) \/ RequestRecords(q) \/ RequestFails(q)
          PROVE  Typed' /\ CoordStep /\ RegistryStep
        <2>1. CASE RequestBinds(q)
            <3>1. pending[q] \in [process : Processes, engine : Engines, thread : Threads]
                BY <1>t, <2>1 DEF RequestBinds, Asked
            <3>2. WellUsed
                BY <1>w, <2>1, <3>1, BindKept DEF RequestBinds, BindSnapshot
            <3> QED
                BY <1>a, <1>t, <2>1, <3>2 DEF RequestBinds, IInv, Answers
        <2>2. CASE RequestFails(q)
            <3>1. WellUsed
                BY <1>t, <1>w, <2>2, BeliefsStay, HandlerReturns
                DEF RequestFails, WellUsed, CoordStep, RegistryStep, coordinatorVars
            <3> QED
                BY <1>a, <1>t, <2>2, <3>1 DEF RequestFails, worldVars
        <2>3. CASE RequestRecords(q)
            <3>1. pending[q].process = Root /\ pending[q].engine = "native" /\ Root # None
                BY <2>3, SessionAssumption DEF RequestRecords, NamesNoProcess
            <3>2. pending[q].thread \in ThreadsOf(<<Root, "native">>)
                BY <3>1 DEF IInv, Answers, NoAnswer
            <3>3. WellUsed
                BY <1>w, <2>3, <3>2, RecordsKept DEF RequestRecords
            <3> QED
                BY <1>a, <1>t, <2>3, <3>3 DEF RequestRecords, IInv, Answers
        <2> QED
            BY <1>7, <2>1, <2>2, <2>3
    <1>8. CASE Client
        <2>1. UNCHANGED <<sessionVars, attached>>
            BY <1>8 DEF Client, RequestResumes, RequestLists
        <2>2. PICK q \in Requests \cup Listers,
                   answer \in [process : Processes, engine : Engines, thread : Threads] :
                  pending' = [pending EXCEPT ![q] = answer]
            <3>1. ASSUME NEW q \in Requests, NEW p \in Processes, RequestResumes(q, p)
                  PROVE  \E answer \in [process : Processes, engine : Engines, thread : Threads] :
                             pending' = [pending EXCEPT ![q] = answer]
                <4>1. <<p, "native">> \in Readers /\ <<p, "native">>[1] = p
                    BY DEF Readers, Engines
                <4>2. holder[<<p, "native">>] \in Threads
                    BY <3>1, <4>1 DEF RequestResumes, EngineRuns, IInv, Connections, ThreadsOf
                <4> QED
                    BY <3>1, <4>2 DEF RequestResumes, Engines
            <3>2. ASSUME NEW q \in Listers, NEW r \in Readers, NEW t \in ThreadsOf(r),
                         RequestLists(q, r, t)
                  PROVE  \E answer \in [process : Processes, engine : Engines, thread : Threads] :
                             pending' = [pending EXCEPT ![q] = answer]
                BY <3>2, ReaderShape DEF RequestLists, ThreadsOf
            <3> QED
                BY <1>8, <3>1, <3>2 DEF Client
        <2>3. Asked'
            BY <1>t, <2>2 DEF Asked, Engines, IInv, Answers, NoAnswer
        <2> QED
            BY <1>t, <2>1, <2>3, SessionStays DEF WellUsed, Typed
    <1>9. ASSUME NEW r \in Readers, NEW t \in ThreadsOf(r), ReaderRecords(r, t)
          PROVE  Typed' /\ CoordStep /\ RegistryStep
        <2>1. r \in Workers /\ t \in ThreadsOf(<<Root, "native">>)
            BY <1>9, ReaderShape DEF ReaderRecords
        <2>2. WellUsed
            BY <1>9, <2>1, RecordsKept DEF ReaderRecords
        <2> QED
            BY <1>9, <1>a, <1>t, <2>2 DEF ReaderRecords, worldVars
    <1>10. ASSUME NEW w \in Workers, RecordingBinds(w)
           PROVE  Typed' /\ CoordStep /\ RegistryStep
        <2>1. /\ Bind(w, call[w].process, call[w].thread, "native", TRUE)
              /\ call[w].at = "record" /\ UNCHANGED worldVars
            BY <1>10 DEF RecordingBinds, RecordBind
        <2>2. call[w].process \in Processes /\ call[w].thread \in Threads
            BY <1>t, <2>1 DEF Handlers, Fit, ThreadsOf
        <2>3. WellUsed
            BY <2>1, <2>2, BindKept DEF Engines
        <2> QED
            BY <1>a, <1>t, <2>1, <2>3 DEF worldVars
    <1> QED
        BY <1>1, <1>2, <1>3, <1>4, <1>5, <1>6, <1>7, <1>8, <1>9, <1>10 DEF Next, Proxy

LEMMA InitTyped == Init => Typed
    <1> SUFFICES ASSUME Init
                 PROVE  Typed
        OBVIOUS
    <1>1. Idle \in SessionCalls /\ Fit(Idle)
        BY BoundsAssumption DEF Idle, SessionCalls, AllStages, Stages, Fit, Taking, Removing
    <1>2. InitSession /\ attached = {Root} /\ pending = [q \in Requests \cup Listers |-> NoAnswer]
        BY DEF Init
    <1>3. Handlers
        BY <1>1, <1>2 DEF InitSession, Handlers
    <1>4. Beliefs
        <2>1. /\ stopEpoch = 0 /\ isStopped = FALSE /\ activeProcess = None
              /\ DOMAIN snapshots = {} /\ DOMAIN threadProcess = {}
            BY <1>2 DEF InitSession
        <2>2. 0 \in 0 .. MaxEpoch
            BY BoundsAssumption
        <2> QED
            BY <2>1, <2>2, Zenon DEF Beliefs
    <1>5. DOMAIN processes \subseteq Processes
        BY <1>2 DEF InitSession, Coord!Init, Coord!Nothing
    <1> QED
        BY <1>2, <1>3, <1>4, <1>5 DEF Typed, Asked

--------------------------------------------------------------------------------
\* What has been proved of the two parts on their own.
CoordFacts == INSTANCE CoordinatorProofs
RegistryFacts == INSTANCE SyntheticFramesProofs

LEMMA SameCoordInit == Coord!Init <=> CoordFacts!Init
    BY DEF Coord!Init, CoordFacts!Init, Coord!Nothing, CoordFacts!Nothing

LEMMA SameCoordNext == Coord!Next <=> CoordFacts!Next
    BY DEF Coord!Next, CoordFacts!Next, Coord!Register, CoordFacts!Register,
           Coord!Bind, CoordFacts!Bind, Coord!Stop, CoordFacts!Stop,
           Coord!Resume, CoordFacts!Resume, Coord!Engines, CoordFacts!Engines,
           Coord!RegisterProcess, CoordFacts!RegisterProcess,
           Coord!RegisterProcessRefused, CoordFacts!RegisterProcessRefused,
           Coord!ParentConflict, CoordFacts!ParentConflict,
           Coord!WithSession, CoordFacts!WithSession, Coord!WithParent, CoordFacts!WithParent,
           Coord!NewSession, CoordFacts!NewSession, Coord!Nothing, CoordFacts!Nothing,
           Coord!Put, CoordFacts!Put, Coord!Drop, CoordFacts!Drop,
           Coord!Registered, CoordFacts!Registered,
           Coord!BindNativeThread, CoordFacts!BindNativeThread,
           Coord!BindPythonThread, CoordFacts!BindPythonThread,
           Coord!BindRefused, CoordFacts!BindRefused,
           Coord!AcquireStop, CoordFacts!AcquireStop,
           Coord!AcquireStopRefused, CoordFacts!AcquireStopRefused,
           Coord!ReleaseStop, CoordFacts!ReleaseStop,
           Coord!ReleaseStopRefused, CoordFacts!ReleaseStopRefused,
           Coord!RemoveProcess, CoordFacts!RemoveProcess,
           Coord!ExecutionOwner, CoordFacts!ExecutionOwner,
           Coord!coordinatorVars, CoordFacts!coordinatorVars

LEMMA SameRegistryInit == Registry!Init <=> RegistryFacts!Init
    BY DEF Registry!Init, RegistryFacts!Init

LEMMA SameRegistryNext == Registry!Next <=> RegistryFacts!Next
    BY DEF Registry!Next, RegistryFacts!Next, Registry!Owners, RegistryFacts!Owners,
           Registry!Epochs, RegistryFacts!Epochs,
           Registry!BeginEpoch, RegistryFacts!BeginEpoch,
           Registry!ClearCurrent, RegistryFacts!ClearCurrent,
           Registry!DiscardCurrent, RegistryFacts!DiscardCurrent,
           Registry!Allocate, RegistryFacts!Allocate,
           Registry!AllocateRefused, RegistryFacts!AllocateRefused,
           Registry!AllocateExisting, RegistryFacts!AllocateExisting,
           Registry!AllocateNew, RegistryFacts!AllocateNew,
           Registry!AllocateExhausted, RegistryFacts!AllocateExhausted,
           Registry!ReserveNativeIds, RegistryFacts!ReserveNativeIds,
           Registry!ActiveEpoch, RegistryFacts!ActiveEpoch, Registry!FreeIds, RegistryFacts!FreeIds,
           Registry!KeyOf, RegistryFacts!KeyOf, Registry!registryVars, RegistryFacts!registryVars

--------------------------------------------------------------------------------
\* A stack request is about a thread of the debuggee, in an epoch of the session.
Viewing(x) ==
    /\ DOMAIN x = ViewFields
    /\ x.at # "idle" => /\ x.thread \in Threads /\ x.process \in Processes \cup {None}
                        /\ x.epoch \in 0 .. MaxEpoch

Viewings == DOMAIN view = Viewers /\ \A v \in Viewers : Viewing(view[v])

LEMMA ViewingStep ==
    ASSUME Viewings, NEW v \in Viewers, NEW x, Viewing(x), view' = [view EXCEPT ![v] = x]
    PROVE  Viewings'
    BY DEF Viewings, Viewing, ViewFields

LEMMA ViewingGoes ==
    ASSUME Viewings, NEW v \in Viewers,
           Fails(v) \/ (view[v].at # "idle" /\ \E at : Goes(v, at))
    PROVE  Viewings'
    <1>1. CASE Fails(v)
        <2>1. Viewing(NoView)
            BY DEF NoView, Viewing, ViewFields
        <2> QED
            BY <1>1, <2>1, ViewingStep DEF Fails
    <1>2. ASSUME NEW at, Goes(v, at), view[v].at # "idle"
          PROVE  Viewings'
        <2> DEFINE x == [view[v] EXCEPT !.at = at]
        <2>1. Viewing(view[v])
            BY DEF Viewings
        <2>2. DOMAIN x = ViewFields /\ x.thread = view[v].thread
              /\ x.process = view[v].process /\ x.epoch = view[v].epoch
            BY <2>1 DEF Viewing, ViewFields
        <2>3. Viewing(x)
            BY <1>2, <2>1, <2>2 DEF Viewing
        <2>4. view' = [view EXCEPT ![v] = x]
            BY <1>2 DEF Goes
        <2> QED
            BY ONLY <2>3, <2>4, ViewingStep, Viewings, v \in Viewers
    <1> QED
        BY <1>1, <1>2

LEMMA ReserveStep ==
    ASSUME Registry!ReserveNativeIds(NativeIds)
    PROVE  RegistryStep
    BY DEF RegistryStep, Registry!Next

LEMMA AllocateStep ==
    ASSUME NEW p \in Processes \cup {None}, NEW t \in Threads, NEW k \in Keys,
           NEW expected \in (0 .. MaxEpoch) \cup {None},
           \/ Registry!AllocateNew(p, t, k, NativeIds, expected)
           \/ Registry!AllocateExisting(p, t, k, NativeIds, expected)
           \/ Registry!AllocateRefused(p, expected)
           \/ Registry!AllocateExhausted(p, t, k, NativeIds, expected)
    PROVE  RegistryStep
    <1>1. p \in Registry!Owners /\ expected \in Registry!Epochs \cup {None}
          /\ NativeIds \in SUBSET NativeIds
        BY DEF Registry!Owners, Registry!Epochs
    <1>2. Registry!Allocate(p)
        BY <1>1, Zenon DEF Registry!Allocate
    <1> QED
        BY <1>1, <1>2 DEF RegistryStep, Registry!Next

\* A step of a stack request is at most one of the registry, and of nothing else
\* that is shared.
LEMMA ViewKept ==
    ASSUME Typed, Viewings, NEW v \in Viewers, View(v)
    PROVE  Viewings' /\ RegistryStep /\ UNCHANGED <<tableVars, call, coordinatorVars, worldVars>>
    <1>v. Viewing(view[v])
        BY DEF Viewings
    <1>u. UNCHANGED vars =>
              RegistryStep /\ UNCHANGED <<tableVars, call, coordinatorVars, worldVars>>
        BY DEF vars, sessionVars, RegistryStep
    <1>1. ASSUME NEW t \in Threads, ViewStarts(v, t)
          PROVE  Viewings'
        <2>1. OwnerOf(t) \in Processes \cup {None} /\ stopEpoch \in 0 .. MaxEpoch
            BY DEF OwnerOf, Typed, Beliefs
        <2>2. PICK child : view' = [view EXCEPT ![v] = [NoView EXCEPT
                  !.at = "native", !.thread = t, !.child = child,
                  !.process = OwnerOf(t), !.epoch = stopEpoch]]
            BY <1>1, Zenon DEF ViewStarts
        <2> DEFINE x == [NoView EXCEPT !.at = "native", !.thread = t, !.child = child,
                             !.process = OwnerOf(t), !.epoch = stopEpoch]
        <2>3. Viewing(x)
            BY <2>1 DEF NoView, Viewing, ViewFields
        <2>4. view' = [view EXCEPT ![v] = x]
            BY <2>2
        <2> HIDE DEF x
        <2> QED
            BY <2>3, <2>4, ViewingStep
    <1>2. CASE \E t \in Threads \ PythonThreads : ViewStarts(v, t)
        <2>1. UNCHANGED vars
            BY <1>2 DEF ViewStarts
        <2> QED
            BY <1>1, <1>2, <1>u, <2>1
    <1>3. CASE ViewReadsNative(v)
        <2>1. UNCHANGED <<tableVars, call, coordinatorVars, worldVars>>
              /\ (Registry!ReserveNativeIds(NativeIds) \/ UNCHANGED registryVars)
              /\ (Goes(v, "python") \/ Fails(v)) /\ view[v].at # "idle"
            BY <1>3 DEF ViewReadsNative
        <2> QED
            BY <2>1, ViewingGoes, ReserveStep DEF RegistryStep
    <1>4. CASE ViewStartsUnwinder(v) \/ ViewTimesOut(v) \/ ViewChecks(v) \/ ViewReplies(v)
        <2>1. UNCHANGED vars /\ view[v].at # "idle"
              /\ (Fails(v) \/ Goes(v, "await") \/ Goes(v, "allocate"))
            BY <1>4 DEF ViewStartsUnwinder, ViewTimesOut, ViewChecks, ViewReplies
        <2> QED
            BY <1>u, <2>1, ViewingGoes
    <1>5. CASE ViewReadsLocals(v)
        <2>1. UNCHANGED vars /\ view[v].at # "idle"
            BY <1>5 DEF ViewReadsLocals
        <2>2. CASE Fails(v)
            BY <1>u, <2>1, <2>2, ViewingGoes
        <2>3. ASSUME NEW b,
                     view' = [view EXCEPT ![v].at = "check", ![v].answer = None, ![v].began = b]
              PROVE  Viewings'
            <3> DEFINE x == [view[v] EXCEPT !.at = "check", !.answer = None, !.began = b]
            <3>1. Viewing(x)
                BY <1>v, <2>1 DEF Viewing, ViewFields
            <3>2. view' = [view EXCEPT ![v] = x]
                BY <2>3
            <3> HIDE DEF x
            <3> QED
                BY <3>1, <3>2, ViewingStep
        <2> QED
            BY <1>5, <1>u, <2>1, <2>2, <2>3 DEF ViewReadsLocals
    <1>6. ASSUME NEW k \in Keys, ViewAllocates(v, k)
          PROVE  Viewings' /\ RegistryStep
                 /\ UNCHANGED <<tableVars, call, coordinatorVars, worldVars>>
        <2>1. /\ UNCHANGED <<tableVars, call, coordinatorVars, worldVars>>
              /\ view[v].at = "allocate"
              /\ \/ Registry!AllocateNew(view[v].process, view[v].thread, k, NativeIds, Expected(v))
                 \/ Registry!AllocateExisting(view[v].process, view[v].thread, k, NativeIds,
                                              Expected(v))
                 \/ Registry!AllocateRefused(view[v].process, Expected(v))
                 \/ Registry!AllocateExhausted(view[v].process, view[v].thread, k, NativeIds,
                                               Expected(v))
            BY <1>6, Zenon DEF ViewAllocates
        <2>2. /\ view[v].process \in Processes \cup {None} /\ view[v].thread \in Threads
              /\ Expected(v) \in (0 .. MaxEpoch) \cup {None}
            BY <1>v, <2>1 DEF Viewing, Expected
        <2>3. RegistryStep
            BY <2>1, <2>2, AllocateStep
        <2>4. Fails(v) \/ \E i : view' = [view EXCEPT ![v].at = "reply", ![v].id = i]
            BY <1>6, Zenon DEF ViewAllocates
        <2>5. Viewings'
            <3>1. ASSUME NEW i, view' = [view EXCEPT ![v].at = "reply", ![v].id = i]
                  PROVE  Viewings'
                <4> DEFINE x == [view[v] EXCEPT !.at = "reply", !.id = i]
                <4>1. Viewing(x)
                    BY <1>v, <2>1 DEF Viewing, ViewFields
                <4>2. view' = [view EXCEPT ![v] = x]
                    BY <3>1
                <4> HIDE DEF x
                <4> QED
                    BY <4>1, <4>2, ViewingStep
            <3> QED
                BY <2>1, <2>4, <3>1, ViewingGoes
        <2> QED
            BY <2>1, <2>3, <2>5
    <1> QED
        BY <1>2, <1>3, <1>4, <1>5, <1>6 DEF View

LEMMA UnwinderKept ==
    ASSUME Viewings, UnwinderReads \/ UnwinderEnds
    PROVE  Viewings' /\ UNCHANGED vars
    <1>1. CASE UnwinderReads
        <2>1. UNCHANGED vars
            BY <1>1 DEF UnwinderReads
        <2>2. \/ UNCHANGED view
              \/ \E a, b : view' = [view EXCEPT ![unwinder.viewer].answer = a,
                                                ![unwinder.viewer].began = b]
              \/ \E a : view' = [view EXCEPT ![unwinder.viewer].answer = a]
            BY <1>1, Zenon DEF UnwinderReads
        <2>3. ASSUME NEW x, view' = [view EXCEPT ![unwinder.viewer] = x],
                     Viewing(view[unwinder.viewer]) => Viewing(x)
              PROVE  Viewings'
            <3>1. CASE unwinder.viewer \in Viewers
                <4>1. Viewing(x)
                    BY <2>3, <3>1 DEF Viewings
                <4> QED
                    BY <2>3, <3>1, <4>1, ViewingStep
            <3>2. CASE unwinder.viewer \notin Viewers
                BY <2>3, <3>2 DEF Viewings, Viewing, ViewFields
            <3> QED
                BY <3>1, <3>2
        <2>4. ASSUME NEW a, NEW b, view' = [view EXCEPT ![unwinder.viewer].answer = a,
                                                        ![unwinder.viewer].began = b]
              PROVE  Viewings'
            <3> DEFINE x == [view[unwinder.viewer] EXCEPT !.answer = a, !.began = b]
            <3>1. Viewing(view[unwinder.viewer]) => Viewing(x)
                BY DEF Viewing, ViewFields
            <3>2. view' = [view EXCEPT ![unwinder.viewer] = x]
                BY <2>4
            <3> HIDE DEF x
            <3> QED
                BY <2>3, <3>1, <3>2
        <2>5. ASSUME NEW a, view' = [view EXCEPT ![unwinder.viewer].answer = a]
              PROVE  Viewings'
            <3> DEFINE x == [view[unwinder.viewer] EXCEPT !.answer = a]
            <3>1. Viewing(view[unwinder.viewer]) => Viewing(x)
                BY DEF Viewing, ViewFields
            <3>2. view' = [view EXCEPT ![unwinder.viewer] = x]
                BY <2>5
            <3> HIDE DEF x
            <3> QED
                BY <2>3, <3>1, <3>2
        <2>6. ASSUME UNCHANGED view
              PROVE  Viewings'
            BY <2>6 DEF Viewings, Viewing, ViewFields
        <2>7. Viewings'
            <3>1. CASE \E a, b : view' = [view EXCEPT ![unwinder.viewer].answer = a,
                                                      ![unwinder.viewer].began = b]
                <4>1. PICK a, b : view' = [view EXCEPT ![unwinder.viewer].answer = a,
                                                       ![unwinder.viewer].began = b]
                    BY <3>1, Zenon
                <4> QED
                    BY <2>4, <4>1, Zenon
            <3>2. CASE \E a : view' = [view EXCEPT ![unwinder.viewer].answer = a]
                <4>1. PICK a : view' = [view EXCEPT ![unwinder.viewer].answer = a]
                    BY <3>2, Zenon
                <4> QED
                    BY <2>5, <4>1, Zenon
            <3> QED
                BY <2>2, <2>6, <3>1, <3>2
        <2> QED
            BY <2>1, <2>7
    <1>2. CASE UnwinderEnds
        BY <1>2 DEF UnwinderEnds, Viewings, Viewing, ViewFields
    <1> QED
        BY <1>1, <1>2

--------------------------------------------------------------------------------
LEMMA NextSteps ==
    ASSUME IInv, Typed, [Next]_vars
    PROVE  IInv' /\ Typed' /\ CoordStep /\ RegistryStep
    <1>1. CASE UNCHANGED vars
        <2>1. UNCHANGED <<sessionVars, worldVars>>
            BY <1>1 DEF vars
        <2>2. IInv'
            BY <2>1 DEF IInv, ThreadsStayHome, Connections, Answers, sessionVars, tableVars,
                        worldVars
        <2>3. Typed'
            BY <2>1, SessionStays DEF WellUsed, Typed, Asked, Engines, worldVars
        <2> QED
            BY <2>1, <2>2, <2>3, SessionStays DEF WellUsed
    <1>2. CASE Next
        <2>1. Recordings
            BY DEF Recordings, Typed, Handlers, Fit
        <2> QED
            BY <1>2, <2>1, NextKept, NextInv
    <1> QED
        BY <1>1, <1>2

LEMMA StackNextSteps ==
    ASSUME IInv, Typed, Viewings, [StackNext]_stackVars
    PROVE  IInv' /\ Typed' /\ Viewings' /\ CoordStep /\ RegistryStep
    <1>1. CASE Session \/ UNCHANGED stackVars
        <2>1. [Next]_vars /\ view' = view
            BY <1>1 DEF Session, stackVars
        <2>2. Viewings'
            BY <2>1 DEF Viewings, Viewing, ViewFields
        <2> QED
            BY <2>1, <2>2, NextSteps
    <1>2. CASE UnwinderReads \/ UnwinderEnds
        BY <1>2, UnwinderKept, NextSteps
    <1>3. ASSUME NEW v \in Viewers, View(v)
          PROVE  IInv' /\ Typed' /\ Viewings' /\ CoordStep /\ RegistryStep
        <2>1. Viewings' /\ RegistryStep /\ UNCHANGED <<tableVars, call, coordinatorVars, worldVars>>
            BY <1>3, ViewKept
        <2>2. IInv'
            BY <2>1 DEF IInv, ThreadsStayHome, Connections, Answers, tableVars, worldVars
        <2>3. Typed'
            <3>1. Beliefs'
                BY <2>1, BeliefsStay DEF Typed
            <3>2. Handlers'
                BY <2>1 DEF Typed, Handlers, Fit
            <3> QED
                BY <2>1, <3>1, <3>2 DEF Typed, Asked, Engines, worldVars, coordinatorVars
        <2> QED
            BY <2>1, <2>2, <2>3 DEF CoordStep
    <1> QED
        BY <1>1, <1>2, <1>3 DEF StackNext

LEMMA CoordStepAs == CoordStep => [Coord!Next]_(Coord!coordinatorVars)
    BY DEF CoordStep, coordinatorVars, Coord!coordinatorVars

LEMMA RegistryStepAs == RegistryStep => [Registry!Next]_(Registry!registryVars)
    BY DEF RegistryStep, registryVars, Registry!registryVars

LEMMA InitParts == Init => Coord!Init /\ Registry!Init
    BY DEF Init, InitSession

LEMMA InitViewings == StackInit => Viewings
    BY DEF StackInit, Viewings, Viewing, ViewFields, NoView

\* However its handlers interleave, a session gives the coordinator and the frame
\* registry nothing but the calls they are specified for.
THEOREM SessionUsesItsParts == Spec => Coord!Spec /\ Registry!Spec
    <1>1. IInv /\ Typed /\ [Next]_vars =>
              /\ IInv' /\ Typed'
              /\ [Coord!Next]_(Coord!coordinatorVars) /\ [Registry!Next]_(Registry!registryVars)
        BY NextSteps, CoordStepAs, RegistryStepAs
    <1>2. Init => IInv /\ Typed /\ Coord!Init /\ Registry!Init
        BY InitInv, InitTyped, InitParts
    <1> QED
        BY <1>1, <1>2, PTL DEF Spec, Coord!Spec, Registry!Spec

\* The same of a session with stack requests and the unwinder: neither gives the
\* coordinator or the frame registry a call that their specifications lack.
THEOREM StacksUseTheParts == StackSpec => Coord!Spec /\ Registry!Spec
    <1>1. IInv /\ Typed /\ Viewings /\ [StackNext]_stackVars =>
              /\ IInv' /\ Typed' /\ Viewings'
              /\ [Coord!Next]_(Coord!coordinatorVars) /\ [Registry!Next]_(Registry!registryVars)
        BY StackNextSteps, CoordStepAs, RegistryStepAs
    <1>2. StackInit => IInv /\ Typed /\ Viewings /\ Coord!Init /\ Registry!Init
        BY InitInv, InitTyped, InitParts, InitViewings DEF StackInit
    <1> QED
        BY <1>1, <1>2, PTL DEF StackSpec, Coord!Spec, Registry!Spec

LEMMA CoordSpecAs == Coord!Spec => CoordFacts!Spec
    <1>1. [Coord!Next]_(Coord!coordinatorVars) => [CoordFacts!Next]_(CoordFacts!coordinatorVars)
        BY SameCoordNext DEF Coord!coordinatorVars, CoordFacts!coordinatorVars
    <1> QED
        BY <1>1, SameCoordInit, PTL DEF Coord!Spec, CoordFacts!Spec

LEMMA RegistrySpecAs == Registry!Spec => RegistryFacts!Spec
    <1>1. [Registry!Next]_(Registry!registryVars) =>
              [RegistryFacts!Next]_(RegistryFacts!registryVars)
        BY SameRegistryNext DEF Registry!registryVars, RegistryFacts!registryVars
    <1> QED
        BY <1>1, SameRegistryInit, PTL DEF Registry!Spec, RegistryFacts!Spec

\* What their own proofs show of the parts, hence of every use that keeps to their
\* specifications.
LEMMA CoordKeeps ==
    Coord!Spec => [](/\ Coord!TypeOK /\ Coord!LeaseOfRegistered
                     /\ Coord!ChildrenNameTheirParent /\ Coord!GenerationsDistinct)
    <1>1. MaxGeneration \in Nat /\ None \notin Processes \cup Threads
        BY BoundsAssumption, SessionAssumption
    <1>2. CoordFacts!Spec => []CoordFacts!IInv
        BY <1>1, CoordFacts!Invariance
    <1>3. CoordFacts!IInv =>
              /\ Coord!TypeOK /\ Coord!LeaseOfRegistered
              /\ Coord!ChildrenNameTheirParent /\ Coord!GenerationsDistinct
        BY DEF CoordFacts!IInv, CoordFacts!TypeOK, Coord!TypeOK,
               CoordFacts!LeaseOfRegistered, Coord!LeaseOfRegistered,
               CoordFacts!ChildrenNameTheirParent, Coord!ChildrenNameTheirParent,
               CoordFacts!GenerationsDistinct, Coord!GenerationsDistinct,
               CoordFacts!Registered, Coord!Registered, CoordFacts!Sessions, Coord!Sessions,
               CoordFacts!Leases, Coord!Leases, CoordFacts!Engines, Coord!Engines,
               CoordFacts!ThreadTables, Coord!ThreadTables
    <1> QED
        BY <1>2, <1>3, CoordSpecAs, PTL

LEMMA RegistryKeeps ==
    Registry!Spec => [](Registry!TypeOK /\ Registry!IndicesAgree) /\ Registry!NeverReissued
    <1>1. /\ MaxId \in Nat /\ MaxEpoch \in Nat /\ NativeIds \subseteq Nat
          /\ None \notin Processes
        BY BoundsAssumption, SessionAssumption
    <1>2. RegistryFacts!Spec => []RegistryFacts!IInv
        BY <1>1, RegistryFacts!Invariance
    <1>3. RegistryFacts!IInv => Registry!TypeOK /\ Registry!IndicesAgree
        BY DEF RegistryFacts!IInv, RegistryFacts!TypeOK, Registry!TypeOK,
               RegistryFacts!IndicesAgree, Registry!IndicesAgree,
               RegistryFacts!Owners, Registry!Owners, RegistryFacts!Epochs, Registry!Epochs,
               RegistryFacts!Frames, Registry!Frames, RegistryFacts!KeyOf, Registry!KeyOf,
               RegistryFacts!LookupKeys, Registry!LookupKeys
    <1>4. RegistryFacts!IInv /\ [Registry!Next]_(Registry!registryVars) =>
              [\A id \in issued : id \in DOMAIN byId' =>
                  id \in DOMAIN byId /\ byId'[id] = byId[id]]_(Registry!registryVars)
        <2> SUFFICES ASSUME RegistryFacts!IInv, [Registry!Next]_(Registry!registryVars)
                     PROVE  \A id \in issued : id \in DOMAIN byId' =>
                                id \in DOMAIN byId /\ byId'[id] = byId[id]
            OBVIOUS
        <2>1. [RegistryFacts!Next]_(RegistryFacts!registryVars)
            BY SameRegistryNext DEF Registry!registryVars, RegistryFacts!registryVars
        <2> QED
            BY <1>1, <2>1, RegistryFacts!StepInv
    <1> QED
        BY <1>2, <1>3, <1>4, RegistrySpecAs, PTL DEF Registry!Spec, Registry!NeverReissued

\* Whatever the session does, its tables hold only what their annotations say, and
\* each connection only threads of its own process.
THEOREM SessionTypeCorrect == Spec => []TypeOK
    <1>1. IInv /\ Typed /\ [Next]_vars => IInv' /\ Typed'
        BY NextSteps
    <1>2. Init => IInv /\ Typed
        BY InitInv, InitTyped
    <1>3. IInv /\ Typed /\ Coord!TypeOK /\ Registry!TypeOK => TypeOK
        BY DEF TypeOK, IInv, Connections, Typed, Beliefs, BoundedSnapshots
    <1> QED
        BY <1>1, <1>2, <1>3, SessionUsesItsParts, CoordKeeps, RegistryKeeps, PTL DEF Spec

\* Whatever order the sections of the handlers run in, whatever listers, readers and the
\* watcher do, and whether or not children have a CodeLLDB of their own, no thread is
\* ever bound to another process than its own: but for the native threads of the launched
\* process, whose connection names no process, and these only if there is no child
\* registry or their process cannot be read off /proc.
THEOREM NoThreadStrays == Spec => []ThreadsStayHome
    <1>1. IInv /\ Typed /\ [Next]_vars => IInv' /\ Typed'
        BY NextSteps
    <1>2. Init => IInv /\ Typed
        BY InitInv, InitTyped
    <1> QED
        BY <1>1, <1>2, PTL DEF Spec, IInv

\* In a whole session too a lease ends with the registration of its process, the
\* process tree is consistent and no two stops share a generation, though every
\* handler calls the coordinator several times and others call it in between.
THEOREM SessionKeepsItsTree ==
    Spec => [](/\ Coord!LeaseOfRegistered /\ Coord!ChildrenNameTheirParent
               /\ Coord!GenerationsDistinct)
    BY SessionUsesItsParts, CoordKeeps, PTL

\* Stack requests, handlers and exits share one frame registry, and yet its two
\* indices agree and no id the editor was ever given comes to name another frame.
THEOREM StackIdsAreNeverReissued ==
    StackSpec => []Registry!IndicesAgree /\ Registry!NeverReissued
    BY StacksUseTheParts, RegistryKeeps, PTL

LEMMA CoordImplements == Coord!Spec => Coord!OwnershipSpec
    <1>1. MaxGeneration \in Nat /\ None \notin Processes \cup Threads
        BY BoundsAssumption, SessionAssumption
    <1>2. CoordFacts!Spec => CoordFacts!OwnershipSpec
        BY <1>1, CoordFacts!CoordinatorImplementsOwnership
    <1>3. CoordFacts!Ownership!Init => Coord!Ownership!Init
        BY DEF CoordFacts!Ownership!Init, Coord!Ownership!Init,
               CoordFacts!ExecutionOwner, Coord!ExecutionOwner,
               CoordFacts!Registered, Coord!Registered
    <1>4. [CoordFacts!Ownership!Next]_(CoordFacts!Ownership!ownershipVars) =>
              [Coord!Ownership!Next]_(Coord!Ownership!ownershipVars)
        BY DEF CoordFacts!Ownership!Next, Coord!Ownership!Next,
               CoordFacts!Ownership!Join, Coord!Ownership!Join,
               CoordFacts!Ownership!Take, Coord!Ownership!Take,
               CoordFacts!Ownership!GiveBack, Coord!Ownership!GiveBack,
               CoordFacts!Ownership!End, Coord!Ownership!End,
               CoordFacts!Ownership!ownershipVars, Coord!Ownership!ownershipVars,
               CoordFacts!ExecutionOwner, Coord!ExecutionOwner,
               CoordFacts!Registered, Coord!Registered, CoordFacts!Engines, Coord!Engines
    <1> QED
        BY <1>2, <1>3, <1>4, CoordSpecAs, PTL
        DEF CoordFacts!OwnershipSpec, Coord!OwnershipSpec,
            CoordFacts!Ownership!Spec, Coord!Ownership!Spec

\* REFINEMENT: a whole session, engines, handlers, watcher and requests together,
\* implements the exclusive ownership of a stop: it never passes from one engine to
\* the other without an end in between.
THEOREM SessionImplementsOwnership == Spec => Coord!OwnershipSpec
    BY SessionUsesItsParts, CoordImplements, PTL
================================================================================
