------------------------------- MODULE DebugSession -----------------------------
(***************************************************************************)
(* A whole debug session around the shared state of SessionState.tla: the  *)
(* engines that stop and resume the debuggee, the reader threads that turn *)
(* their events into handler calls, the request threads that resume a      *)
(* process on behalf of the editor, and the watcher that attaches children *)
(* (prototype/adapter/proxy.py, process_manager.py, python_manager.py,     *)
(* mixed_stack.py).                                                        *)
(*                                                                         *)
(* CodeLLDB (one connection per process) and debugpy (one per process that *)
(* runs Python) are external: each connection delivers its events in order *)
(* to a reader thread of its own, and nothing orders two connections.      *)
(***************************************************************************)
EXTENDS SessionState, Sequences

CONSTANTS
    Root,            \* the launched process, whose CodeLLDB is the proxy's downstream
    PythonProcesses, \* the processes debugpy attaches to
    PythonThreads,   \* debugpy's virtual thread ids
    ChildRegistry,   \* whether the launch names a child registry: children have a CodeLLDB
    Requests,        \* request threads that may resume a process
    Listers,         \* request threads that may list a process's threads
    Watcher,         \* the child-registry watcher thread
    MaxInbox         \* bound on the events one connection may have in flight

Engines == {"native", "python"}

Readers == {r \in Processes \X Engines : r[2] = "native" \/ r[1] \in PythonProcesses}

\* The threads an engine of a process reports.
ThreadsOf(r) ==
    {t \in Threads : ThreadGroup[t] = r[1] /\ (t \in PythonThreads <=> r[2] = "python")}

\* Without a child registry there is no ProcessManager, and no CodeLLDB but the
\* launched process's.
Connected(r) == ChildRegistry \/ r[1] = Root \/ r[2] = "python"

ASSUME SessionAssumption ==
    /\ Root \in Processes
    /\ PythonProcesses \subseteq Processes
    /\ ChildRegistry \in BOOLEAN
    /\ Workers = Readers \cup Requests \cup Listers \cup {Watcher}
    \* Readers, request threads and the watcher are different threads.
    /\ Readers \cap (Requests \cup Listers) = {}
    /\ Watcher \notin Readers \cup Requests \cup Listers
    /\ None \notin Processes \cup Threads \cup Engines

VARIABLES
    alive,    \* processes that exist
    attached, \* processes whose CodeLLDB events reach their handler
    holder,   \* reader |-> the thread at which its engine has the process stopped
    inbox,    \* reader |-> events its engine has sent and it has not finished with
    bound,    \* readers that have bound the thread of the event at hand
    stops,    \* how often an engine has stopped a process
    pending   \* request thread |-> the answer it has read but not yet acted upon

worldVars == <<alive, attached, holder, inbox, bound, stops, pending>>
vars == <<sessionVars, worldVars>>

Event(kind, t) == [kind |-> kind, thread |-> t]
NoAnswer == [process |-> None, thread |-> None, engine |-> None]

Init ==
    /\ InitSession
    /\ alive = {Root}
    /\ attached = {Root}
    /\ holder = [r \in Readers |-> None]
    \* CodeLLDB announces the process it launched, or does not.
    /\ inbox \in {[r \in Readers |-> IF r = <<Root, "native">> THEN s ELSE <<>>] :
                     s \in {<<>>, <<Event("process", None)>>}}
    /\ bound = {}
    /\ stops = 0
    /\ pending = [q \in Requests \cup Listers |-> NoAnswer]

Send(r, event) == inbox' = [inbox EXCEPT ![r] = Append(@, event)]

--------------------------------------------------------------------------------
\* The engines.  CodeLLDB suspends the whole process, so debugpy, which lives in
\* it, neither stops, resumes nor sends anything while CodeLLDB holds it.
Unsuspended(r) == r[2] = "python" => holder[<<r[1], "native">>] = None

EngineStops(r, t) ==
    /\ r[1] \in alive \cap attached /\ Connected(r)
    /\ holder[r] = None /\ Unsuspended(r)
    /\ stops < MaxEpoch /\ Len(inbox[r]) < MaxInbox
    /\ stops' = stops + 1
    /\ holder' = [holder EXCEPT ![r] = t]
    /\ Send(r, Event("stopped", t))
    /\ UNCHANGED <<sessionVars, alive, attached, bound, pending>>

EngineRuns(r) ==
    /\ r[1] \in alive
    /\ holder[r] # None /\ Unsuspended(r)
    /\ Len(inbox[r]) < MaxInbox
    /\ holder' = [holder EXCEPT ![r] = None]
    /\ Send(r, Event("continued", holder[r]))

\* The editor's resume, forwarded as it is (every step of the launched process,
\* every command to debugpy): only the event tells the proxy.
EngineResumes(r) ==
    /\ EngineRuns(r)
    /\ UNCHANGED <<sessionVars, alive, attached, bound, stops, pending>>

ProcessStarts(p) ==
    /\ Root \in alive /\ p \notin alive \cup attached
    /\ \E t \in Threads : ThreadGroup[t] = p
    /\ alive' = alive \cup {p}
    /\ UNCHANGED <<sessionVars, attached, holder, inbox, bound, stops, pending>>

\* A process ends: each connection that had been made to it reports that last.
ProcessExits(p) ==
    /\ p \in alive \cap attached
    /\ \A r \in Readers : r[1] = p => Len(inbox[r]) < MaxInbox
    /\ alive' = alive \ {p}
    /\ holder' = [r \in Readers |-> IF r[1] = p THEN None ELSE holder[r]]
    /\ inbox' = [r \in Readers |-> IF r[1] = p /\ Connected(r) THEN Append(inbox[r], Event("terminated", None))
                                   ELSE inbox[r]]
    /\ UNCHANGED <<sessionVars, attached, bound, stops, pending>>

--------------------------------------------------------------------------------
\* ProcessManager._start_child: register under the parent; once that is done the
\* child's events are delivered.  Without a child registry it is debugpy that
\* attaches a child (PythonProcessManager._start_process).
WatcherRegisters(p) ==
    /\ p \in alive \ attached
    /\ ~ ChildRegistry => p \in PythonProcesses
    /\ RegisterSnapshot(Watcher, p,
                        IF ChildRegistry \/ Root \in DOMAIN snapshots THEN Root ELSE None,
                        IF ChildRegistry THEN "native" ELSE "python")
    /\ UNCHANGED worldVars

WatcherAttaches ==
    /\ RegisterCoordinator(Watcher)
    /\ attached' = attached \cup {call[Watcher].process}
    /\ UNCHANGED <<alive, holder, inbox, bound, stops, pending>>

--------------------------------------------------------------------------------
\* The readers.  Events of the launched process carry no process id; the two
\* managers add it to those of their own connections, and first bind the
\* thread the event names (_record_thread).
EventPid(r) == IF r = <<Root, "native">> THEN None ELSE r[1]

AtHand(r) == Head(inbox[r])

BindsFirst(r) == EventPid(r) # None /\ AtHand(r).thread # None

ReaderBinds(r) ==
    /\ inbox[r] # <<>> /\ BindsFirst(r) /\ r \notin bound
    /\ BindSnapshot(r, r[1], AtHand(r).thread, r[2], TRUE)
    /\ bound' = bound \cup {r}
    /\ UNCHANGED <<alive, attached, holder, inbox, stops, pending>>

\* debugpy's continued is ignored unless debugpy owns the stop
\* (PythonProcessManager._handle_event).
IgnoresContinued(r) == r[2] = "python" /\ Coord!ExecutionOwner(r[1]) # "python"

Dispatch(r, event) ==
    \/ /\ event.kind = "process"
       /\ RegisterSnapshot(r, r[1], None, "native")
    \/ /\ event.kind = "stopped"
       /\ StoppedSnapshot(r, event.thread, EventPid(r), TRUE, r[2])
    \/ /\ event.kind = "continued" /\ ~ IgnoresContinued(r)
       /\ ContinuedSnapshot(r, event.thread, EventPid(r), TRUE, r[2])
    \/ /\ event.kind = "continued" /\ IgnoresContinued(r) /\ call[r] = Idle
       /\ UNCHANGED sessionVars
    \/ /\ event.kind = "terminated" /\ r = <<Root, "native">>
       /\ EndedSnapshot(r)
    \/ /\ event.kind = "terminated" /\ r # <<Root, "native">> /\ r[2] = "native"
       /\ TerminatedSnapshot(r, r[1])
    \/ /\ event.kind = "terminated" /\ r[2] = "python"
       /\ RemoveSnapshot(r, r[1])

ReaderHandles(r) ==
    /\ inbox[r] # <<>>
    /\ BindsFirst(r) => r \in bound
    /\ Dispatch(r, AtHand(r))
    /\ inbox' = [inbox EXCEPT ![r] = Tail(@)]
    /\ bound' = bound \ {r}
    /\ UNCHANGED <<alive, attached, holder, stops, pending>>

--------------------------------------------------------------------------------
\* on_continue_request and ProcessManager._resume_thread: CodeLLDB accepts the
\* resume; when its answer has been read the request thread calls on_continued
\* itself rather than wait for the event.
RequestResumes(q, p) ==
    /\ pending[q] = NoAnswer /\ call[q] = Idle
    /\ EngineRuns(<<p, "native">>)
    /\ pending' = [pending EXCEPT ![q] = [process |-> p, engine |-> "native",
                                          thread |-> holder[<<p, "native">>]]]
    /\ UNCHANGED <<sessionVars, alive, attached, bound, stops>>

RequestInvalidates(q) ==
    /\ pending[q] # NoAnswer
    /\ ContinuedSnapshot(q, pending[q].thread,
                         IF pending[q].process = Root THEN None ELSE pending[q].process,
                         FALSE, "native")
    /\ pending' = [pending EXCEPT ![q] = NoAnswer]
    /\ UNCHANGED <<alive, attached, holder, inbox, bound, stops>>

\* refresh_threads of the two managers: a thread that an open connection reports
\* (debugpy) or that the child's registration lists (CodeLLDB) is bound some time
\* after the connection was found open (_record_thread); only debugpy's become
\* the active process.  on_process_tree asks the launched process's CodeLLDB for
\* its threads only if there is no child registry.  A connection is open until its
\* last event is handled.
Open(r) ==
    /\ (r = <<Root, "native">> => ~ ChildRegistry) /\ Connected(r) /\ r[1] \in attached
    /\ r[1] \in alive \/ inbox[r] # <<>> \/ call[r] # Idle

RequestLists(q, r, t) ==
    /\ pending[q] = NoAnswer /\ call[q] = Idle
    /\ Open(r)
    /\ pending' = [pending EXCEPT ![q] = [process |-> r[1], engine |-> r[2], thread |-> t]]
    /\ UNCHANGED <<sessionVars, alive, attached, holder, inbox, bound, stops>>

\* What the launched process's CodeLLDB answers says nothing of the process.
NamesNoProcess(answer) ==
    ~ ChildRegistry /\ answer.process = Root /\ answer.engine = "native"

RequestBinds(q) ==
    /\ pending[q] # NoAnswer /\ ~ NamesNoProcess(pending[q])
    /\ BindSnapshot(q, pending[q].process, pending[q].thread, pending[q].engine,
                    pending[q].engine = "python")
    /\ pending' = [pending EXCEPT ![q] = NoAnswer]
    /\ UNCHANGED <<alive, attached, holder, inbox, bound, stops>>

RequestRecords(q) ==
    /\ NamesNoProcess(pending[q])
    /\ RecordThreads(q, pending[q].thread)
    /\ pending' = [pending EXCEPT ![q] = NoAnswer]
    /\ UNCHANGED <<alive, attached, holder, inbox, bound, stops>>

\* The editor's own threads request is forwarded (on_threads), and its reply is
\* recorded by the reader (_handle_downstream_response).
ReaderRecords(r, t) ==
    /\ ~ ChildRegistry /\ r = <<Root, "native">> /\ Open(r)
    /\ RecordThreads(r, t)
    /\ UNCHANGED worldVars

RecordingBinds(w) ==
    /\ ~ ChildRegistry
    /\ RecordBind(w)
    /\ UNCHANGED worldVars

\* A bind that fails answers the request with an error.  One that fails on a
\* reader is caught by nobody: the reader's loop ends, the event at hand and all
\* that follow are lost.
RequestFails(q) ==
    /\ call[q].at = "failed"
    /\ Return(q)
    /\ UNCHANGED <<tableVars, coordinatorVars, registryVars, worldVars>>

--------------------------------------------------------------------------------
Continues(w) ==
    /\ w # Watcher
    /\ HandlerStep(w)
    /\ UNCHANGED worldVars

\* The threads that may call record_threads_response.
Recorders == IF ChildRegistry THEN {} ELSE Workers

World ==
    \/ \E r \in Readers : EngineResumes(r) \/ \E t \in ThreadsOf(r) : EngineStops(r, t)
    \/ \E p \in Processes : ProcessStarts(p) \/ ProcessExits(p)

Proxy ==
    \/ \E w \in Workers : Continues(w)
    \/ \E p \in Processes : WatcherRegisters(p)
    \/ WatcherAttaches
    \/ \E r \in Readers : ReaderBinds(r) \/ ReaderHandles(r)
    \/ \E q \in Requests : RequestInvalidates(q)
    \/ \E q \in Listers : RequestBinds(q) \/ RequestFails(q)
    \/ \E q \in Listers \cap Recorders : RequestRecords(q)
    \/ \E r \in Readers \cap Recorders : \E t \in ThreadsOf(r) : ReaderRecords(r, t)
    \/ \E w \in Workers \cap Recorders : RecordingBinds(w)

Client ==
    \/ \E q \in Requests, p \in Processes : RequestResumes(q, p)
    \/ \E q \in Listers, r \in Readers : \E t \in ThreadsOf(r) : RequestLists(q, r, t)

Next == World \/ Proxy \/ Client

Spec == Init /\ [][Next]_vars

\* Python threads that are not blocked on a lock held by an idle thread run:
\* every section of the proxy that can be executed eventually is.
Fairness ==
    /\ \A w \in Workers : WF_vars(Continues(w))
    /\ \A p \in Processes : WF_vars(WatcherRegisters(p))
    /\ WF_vars(WatcherAttaches)
    /\ \A r \in Readers : WF_vars(ReaderBinds(r) \/ ReaderHandles(r))
    /\ \A q \in Requests : WF_vars(RequestInvalidates(q))
    /\ \A q \in Listers : WF_vars(RequestBinds(q) \/ RequestRecords(q) \/ RequestFails(q))
    /\ \A w \in Workers : WF_vars(RecordingBinds(w))

FairSpec == Spec /\ Fairness

--------------------------------------------------------------------------------
\* TYPE: the tables hold snapshots of this session's processes, and the state of
\* the parts is well typed.
TypeOK ==
    /\ Coord!TypeOK /\ Registry!TypeOK
    /\ stopEpoch \in 0 .. MaxEpoch
    /\ isStopped \in BOOLEAN
    /\ activeProcess \in Processes \cup {None}
    /\ DOMAIN snapshots \subseteq Processes
    /\ \A p \in DOMAIN snapshots :
          snapshots[p] \in [epoch : 0 .. MaxEpoch, isStopped : BOOLEAN,
                            threads : SUBSET Threads, stoppedThreads : SUBSET Threads,
                            allStopped : BOOLEAN]
    /\ DOMAIN threadProcess \subseteq Threads
    /\ \A t \in DOMAIN threadProcess : threadProcess[t] \in Processes
    /\ \A r \in Readers : holder[r] \in ThreadsOf(r) \cup {None}

Lost(r) == call[r].at = "failed"

\* Nothing is in flight: what the proxy believes is all it is going to believe
\* until an engine or the editor acts.
AtRest ==
    /\ \A w \in Workers : call[w] = Idle \/ (w \in Readers /\ Lost(w))
    /\ \A r \in Readers : inbox[r] = <<>> \/ Lost(r)
    /\ \A q \in Requests \cup Listers : pending[q] = NoAnswer

Held(p) == \E r \in Readers : r[1] = p /\ holder[r] # None

\* The processes the session can speak about.
Debugged == IF Root \in alive THEN alive \cap attached ELSE {}

\* SAFETY: at rest the proxy believes a process stopped exactly if an engine
\* holds it, however the sections of concurrent handlers interleaved.
StoppedIffHeld ==
    AtRest => \A p \in Debugged : Known(p).isStopped <=> Held(p)

\* SAFETY: at rest the owner of a stop is an engine that holds the process, and a
\* process that is held has an owner: no lease is left behind or lost.
OwnerHolds ==
    AtRest => \A p \in Debugged :
        IF Held(p) THEN \E r \in Readers : /\ r[1] = p /\ holder[r] # None
                                          /\ Coord!ExecutionOwner(p) = r[2]
        ELSE Coord!ExecutionOwner(p) = None

\* SAFETY: no lease is left with an engine that does not hold the process, so a
\* stop of the other engine is never refused for good.
NoStaleLease ==
    AtRest => \A r \in Readers :
        r[1] \in Debugged /\ Coord!ExecutionOwner(r[1]) = r[2] => holder[r] # None

\* SAFETY: at rest, new Python frames of a stopped process would be allocated
\* under the epoch of that very stop, although the epoch is numbered in one
\* critical section and handed to the registry in a later one.
FramesFollowStop ==
    AtRest => \A p \in Debugged :
        Known(p).isStopped => Registry!ActiveEpoch(p) = snapshots[p].epoch

\* SAFETY: at rest a process that has exited is forgotten everywhere: no
\* snapshot, no registration, no lease, no thread.
ExitedForgotten ==
    AtRest /\ Root \in alive => \A p \in attached \ alive :
        /\ p \notin DOMAIN snapshots \cup DOMAIN processes \cup DOMAIN leases
        /\ \A t \in DOMAIN threadProcess : threadProcess[t] # p
        /\ activeProcess # p

\* The native threads of the launched process, whose connection names no process,
\* where their process is read off /proc in vain or there is no child registry.
MayStray(t) ==
    /\ t \in ThreadsOf(<<Root, "native">>)
    /\ ChildRegistry => GroupIds[t] # {ThreadGroup[t]}

\* SAFETY: no thread is ever taken for another process's, and no event attributed
\* to another process than its thread's, but for the threads that may stray.
ThreadsStayHome ==
    \A t \in DOMAIN threadProcess : threadProcess[t] = ThreadGroup[t] \/ MayStray(t)

\* LIVENESS: a process that stays stopped under CodeLLDB is eventually shown
\* stopped for good.
StopsAreShown ==
    \A p \in Processes :
        <>[](holder[<<p, "native">>] # None /\ p \in Debugged)
            => <>[](p \in DOMAIN snapshots /\ snapshots[p].isStopped)
================================================================================
