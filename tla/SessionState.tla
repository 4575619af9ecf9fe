------------------------------ MODULE SessionState ------------------------------
(***************************************************************************)
(* ProxySessionState (prototype/adapter/state.py): what the proxy believes *)
(* about every process of the session, shared by all of its threads.       *)
(*                                                                         *)
(* No handler is atomic.  on_stopped, on_continued, on_terminated,         *)
(* remove_process and the two binds each take the state lock, then the     *)
(* coordinator's, then the frame registry's, and other threads run in      *)
(* between.  Each critical section is an action of the thread that runs    *)
(* the handler; `call` remembers where each thread is and the local        *)
(* variables it carries over.  The sections of the other two objects are   *)
(* the actions of Coordinator.tla and SyntheticFrames.tla.                 *)
(*                                                                         *)
(* Left out: display metadata (names, roles, commands), and process_tree,  *)
(* which only reads.                                                       *)
(***************************************************************************)
EXTENDS Integers, FiniteSets

CONSTANTS
    Processes,     \* process ids
    Threads,       \* DAP thread ids: native ones and debugpy's virtual ones
    ThreadGroup,   \* thread |-> the process it is in
    GroupIds,      \* thread |-> what _thread_group_id(thread) or thread may give
    Workers,       \* the proxy's threads that run handlers
    Keys, NativeIds, MaxId,            \* see SyntheticFrames.tla
    None, MaxGeneration, MaxEpoch

ASSUME ThreadGroupAssumption ==
    /\ ThreadGroup \in [Threads -> Processes]
    \* /proc/<thread>/status is read; where it cannot be, the id of the thread
    \* is taken for the id of its process.
    /\ GroupIds \in [Threads -> SUBSET Processes]
    /\ \A t \in Threads : ThreadGroup[t] \in GroupIds[t]
ASSUME BoundsAssumption ==
    /\ MaxGeneration \in Nat /\ MaxEpoch \in Nat /\ MaxId \in Nat
    /\ NativeIds \subseteq Nat

VARIABLES
    stopEpoch,     \* _stop_epoch
    isStopped,     \* _is_stopped
    activeProcess, \* _active_process_id
    snapshots,     \* process |-> ProcessSnapshot
    threadProcess, \* thread |-> the process it is believed to belong to
    call           \* worker |-> the handler it is in, and its locals

VARIABLES processes, leases, nextGeneration
VARIABLES epoch, processEpochs, nextId, byKey, byId, issued, reserved

Coord == INSTANCE Coordinator
Registry == INSTANCE SyntheticFrames

coordinatorVars == <<processes, leases, nextGeneration>>
registryVars == <<epoch, processEpochs, nextId, byKey, byId, issued, reserved>>
tableVars == <<stopEpoch, isStopped, activeProcess, snapshots, threadProcess>>
sessionVars == <<tableVars, call, coordinatorVars, registryVars>>

Put(f, k, v) == [x \in DOMAIN f \cup {k} |-> IF x = k THEN v ELSE f[x]]
Without(f, K) == [x \in DOMAIN f \ K |-> f[x]]

\* ProcessSnapshot
NewSnapshot == [epoch |-> 0, isStopped |-> FALSE, threads |-> {},
                stoppedThreads |-> {}, allStopped |-> FALSE]

Known(p) == IF p \in DOMAIN snapshots THEN snapshots[p] ELSE NewSnapshot

AnyStopped(table) == \E p \in DOMAIN table : table[p].isStopped

\* rest: the processes a session-wide on_terminated has still to remove.
Idle == [at |-> "idle", process |-> None, thread |-> None, owner |-> None,
         epoch |-> 0, rest |-> {}]

InitSession ==
    /\ stopEpoch = 0
    /\ isStopped = FALSE
    /\ activeProcess = None
    /\ snapshots = [p \in {} |-> NewSnapshot]
    /\ threadProcess = [t \in {} |-> None]
    /\ call = [w \in Workers |-> Idle]
    /\ Coord!Init
    /\ Registry!Init

Enter(w, at, p, t, owner, e) ==
    call' = [call EXCEPT ![w] = [at |-> at, process |-> p, thread |-> t,
                                 owner |-> owner, epoch |-> e, rest |-> {}]]
Goto(w, at) == call' = [call EXCEPT ![w].at = at]
Return(w) == call' = [call EXCEPT ![w] = Idle]

\* MUTANT: what names no process is about the active one.
EventOfActiveProcess(t, p) == IF p # None THEN p ELSE activeProcess

\* MUTANT: a thread that is not bound belongs to the active process.
EventUnboundIsActive(t, p) ==
    IF p # None THEN p
    ELSE IF t \in DOMAIN threadProcess THEN threadProcess[t]
    ELSE activeProcess

\* The process an event is about: the one it names, else the one its thread is
\* bound to, else, for an event without a thread, the active one.
EventProcess(t, p) ==
    IF p # None THEN p
    ELSE IF t = None THEN activeProcess
    ELSE IF t \in DOMAIN threadProcess THEN threadProcess[t]
    ELSE None

--------------------------------------------------------------------------------
\* register_process: state lock, then coordinator.  The parent travels in the
\* thread field.
RegisterSnapshot(w, p, parent, engine) ==
    /\ call[w] = Idle
    /\ snapshots' = Put(snapshots, p, Known(p))
    /\ activeProcess' = p
    /\ Enter(w, "register", p, parent, engine, 0)
    /\ UNCHANGED <<stopEpoch, isStopped, threadProcess, coordinatorVars, registryVars>>

RegisterCoordinator(w) ==
    /\ call[w].at = "register"
    /\ \/ Coord!RegisterProcess(call[w].process, call[w].thread, call[w].owner)
       \/ Coord!RegisterProcessRefused(call[w].process, call[w].thread)
    /\ Return(w)
    /\ UNCHANGED <<tableVars, registryVars>>

\* bind_thread and bind_python_thread.  An unknown process gets a new snapshot;
\* activate moves the active process to it.
Bind(w, p, t, engine, activate) ==
    /\ LET old == Known(p)
       IN  snapshots' = Put(snapshots, p,
               [old EXCEPT !.threads = @ \cup {t},
                           !.stoppedThreads = @ \cup (IF old.allStopped THEN {t} ELSE {})])
    /\ threadProcess' = Put(threadProcess, t, p)
    /\ activeProcess' = IF activate THEN p ELSE activeProcess
    /\ Enter(w, "bindThread", p, t, engine, 0)
    /\ UNCHANGED <<stopEpoch, isStopped, coordinatorVars, registryVars>>

BindSnapshot(w, p, t, engine, activate) ==
    /\ call[w] = Idle
    /\ Bind(w, p, t, engine, activate)

\* record_threads_response: the process that is active when the reply is read
\* gets its threads, each in sections of its own.
RecordThreads(w, t) ==
    /\ call[w] = Idle
    /\ IF activeProcess = None THEN UNCHANGED call
       ELSE Enter(w, "record", activeProcess, t, "native", 0)
    /\ UNCHANGED <<tableVars, coordinatorVars, registryVars>>

RecordBind(w) ==
    /\ call[w].at = "record"
    /\ Bind(w, call[w].process, call[w].thread, "native", TRUE)

\* bind_native_thread raises for a process the coordinator does not know, after
\* the snapshot was written, and fails its caller; bind_python_thread registers
\* the process.
BindCoordinator(w) ==
    /\ call[w].at = "bindThread"
    /\ \/ /\ call[w].owner = "native"
          /\ \/ Coord!BindNativeThread(call[w].process, call[w].thread) /\ Return(w)
             \/ Coord!BindRefused(call[w].process) /\ Goto(w, "failed")
       \/ /\ call[w].owner = "python"
          /\ Coord!RegisterProcess(call[w].process, None, "python")
          /\ Return(w)
    /\ UNCHANGED <<tableVars, registryVars>>

--------------------------------------------------------------------------------
\* on_stopped.  A stop of a thread nobody has bound is attributed to the thread
\* group of that thread, as far as it can be told, whose snapshot starts anew.
StoppedProcesses(t, p) ==
    IF EventProcess(t, p) = None /\ t # None THEN GroupIds[t] ELSE {EventProcess(t, p)}

StoppedSnapshotOf(process, w, t, p, allStopped, owner) ==
    /\ call[w] = Idle
    /\ stopEpoch < MaxEpoch
    /\ LET named == EventProcess(t, p)
           old == IF named = None THEN NewSnapshot ELSE Known(named)
           known == {t} \ {None}
       IN  /\ snapshots' = IF process = None THEN snapshots
                           ELSE Put(snapshots, process,
                                    [epoch |-> stopEpoch + 1,
                                     isStopped |-> TRUE,
                                     threads |-> old.threads \cup known,
                                     stoppedThreads |-> old.stoppedThreads \cup known,
                                     allStopped |-> allStopped])
           /\ threadProcess' = IF process = None \/ t = None THEN threadProcess
                               ELSE Put(threadProcess, t, process)
           /\ activeProcess' = IF process = None THEN activeProcess ELSE process
           /\ Enter(w, IF process = None \/ t = None THEN "begin" ELSE "stopRegister",
                    process, t, owner, stopEpoch + 1)
    /\ stopEpoch' = stopEpoch + 1
    /\ isStopped' = TRUE
    /\ UNCHANGED <<coordinatorVars, registryVars>>

StoppedSnapshot(w, t, p, allStopped, owner) ==
    \E process \in StoppedProcesses(t, p) :
        StoppedSnapshotOf(process, w, t, p, allStopped, owner)

\* MUTANT: a process that stops is taken to be registered.
StoppedUnregistered(w) ==
    /\ call[w].at = "stopRegister"
    /\ Goto(w, IF call[w].owner = "native" THEN "stopBind" ELSE "acquire")
    /\ UNCHANGED <<tableVars, coordinatorVars, registryVars>>

StoppedRegister(w) ==
    /\ call[w].at = "stopRegister"
    /\ Coord!RegisterProcess(call[w].process, None, call[w].owner)
    /\ Goto(w, IF call[w].owner = "native" THEN "stopBind" ELSE "acquire")
    /\ UNCHANGED <<tableVars, registryVars>>

\* The process may have been removed since; the error is swallowed.
StoppedBind(w) ==
    /\ call[w].at = "stopBind"
    /\ \/ Coord!BindNativeThread(call[w].process, call[w].thread) /\ Goto(w, "acquire")
       \/ Coord!BindRefused(call[w].process) /\ Goto(w, "begin")
    /\ UNCHANGED <<tableVars, registryVars>>

\* A lease of the other engine is not overwritten; that error is swallowed too.
StoppedAcquire(w) ==
    /\ call[w].at = "acquire"
    /\ \/ Coord!AcquireStop(call[w].process, call[w].thread, call[w].owner)
       \/ Coord!AcquireStopRefused(call[w].process, call[w].owner)
    /\ Goto(w, "begin")
    /\ UNCHANGED <<tableVars, registryVars>>

\* MUTANT: the session's epoch is read again when the registry is called.
StoppedBeginLatest(w) ==
    /\ call[w].at = "begin"
    /\ Registry!BeginEpoch(stopEpoch, call[w].process, call[w].thread)
    /\ Goto(w, "beginLegacy")
    /\ UNCHANGED <<tableVars, coordinatorVars>>

\* MUTANT: the epoch was read before it was incremented.
StoppedBeginPrevious(w) ==
    /\ call[w].at = "begin"
    /\ Registry!BeginEpoch(call[w].epoch - 1, call[w].process, call[w].thread)
    /\ Goto(w, "beginLegacy")
    /\ UNCHANGED <<tableVars, coordinatorVars>>

StoppedBeginEpoch(w) ==
    /\ call[w].at = "begin"
    /\ Registry!BeginEpoch(call[w].epoch, call[w].process, call[w].thread)
    /\ Goto(w, "beginLegacy")
    /\ UNCHANGED <<tableVars, coordinatorVars>>

StoppedBeginLegacy(w) ==
    /\ call[w].at = "beginLegacy"
    /\ Registry!BeginEpoch(call[w].epoch, None, None)
    /\ Return(w)
    /\ UNCHANGED <<tableVars, coordinatorVars>>

--------------------------------------------------------------------------------
\* on_continued
ContinuedSnapshot(w, t, p, allContinued, owner) ==
    /\ call[w] = Idle
    /\ LET process == EventProcess(t, p)
           old == snapshots[process]
           still == IF allContinued \/ t = None THEN {}
                    ELSE (IF old.allStopped THEN old.threads ELSE old.stoppedThreads) \ {t}
           known == process \in DOMAIN snapshots
       IN  /\ snapshots' = IF ~ known THEN snapshots
                           ELSE [snapshots EXCEPT ![process] =
                                    [old EXCEPT !.isStopped = still # {},
                                                !.stoppedThreads = still,
                                                !.allStopped = FALSE]]
           /\ Enter(w, IF process # None /\ (known => still = {}) THEN "release" ELSE "clear",
                    process, t, owner, 0)
    /\ isStopped' = AnyStopped(snapshots')
    /\ UNCHANGED <<stopEpoch, activeProcess, threadProcess, coordinatorVars, registryVars>>

\* MUTANT: the owner is left to its default.
ContinuedReleaseNative(w) ==
    /\ call[w].at = "release"
    /\ \/ Coord!ReleaseStop(call[w].process, "native")
       \/ Coord!ReleaseStopRefused(call[w].process, "native")
    /\ Goto(w, "clear")
    /\ UNCHANGED <<tableVars, registryVars>>

\* A lease of the other engine is left alone.
ContinuedRelease(w) ==
    /\ call[w].at = "release"
    /\ \/ Coord!ReleaseStop(call[w].process, call[w].owner)
       \/ Coord!ReleaseStopRefused(call[w].process, call[w].owner)
    /\ Goto(w, "clear")
    /\ UNCHANGED <<tableVars, registryVars>>

\* MUTANT: the process is left to its default.
ContinuedClearDefault(w) ==
    /\ call[w].at = "clear"
    /\ Registry!ClearCurrent(None, call[w].thread)
    /\ Goto(w, "clearLegacy")
    /\ UNCHANGED <<tableVars, coordinatorVars>>

ContinuedClear(w) ==
    /\ call[w].at = "clear"
    /\ Registry!ClearCurrent(call[w].process, call[w].thread)
    /\ Goto(w, "clearLegacy")
    /\ UNCHANGED <<tableVars, coordinatorVars>>

ContinuedClearLegacy(w) ==
    /\ call[w].at = "clearLegacy"
    /\ Registry!ClearCurrent(None, None)
    /\ Return(w)
    /\ UNCHANGED <<tableVars, coordinatorVars>>

--------------------------------------------------------------------------------
\* The active process after p is forgotten: next(iter(...)) of a dictionary, any
\* process still known.
NextActive(p, rest) ==
    IF activeProcess # p THEN {activeProcess}
    ELSE IF rest = {} THEN {None} ELSE rest

\* MUTANT: the end of one process empties the tables of all.
ForgetAll(p) ==
    /\ snapshots' = Without(snapshots, DOMAIN snapshots)
    /\ threadProcess' = Without(threadProcess, DOMAIN threadProcess)
    /\ activeProcess' = None
    /\ UNCHANGED stopEpoch

\* remove_process
Forget(p) ==
    /\ snapshots' = Without(snapshots, {p})
    /\ threadProcess' = Without(threadProcess,
                                {t \in DOMAIN threadProcess : threadProcess[t] = p})
    /\ activeProcess' \in NextActive(p, DOMAIN snapshots \ {p})
    /\ UNCHANGED stopEpoch

RemoveSnapshot(w, p) ==
    /\ call[w] = Idle
    /\ Forget(p)
    /\ isStopped' = AnyStopped(snapshots')
    /\ Enter(w, "remove", p, None, None, 0)
    /\ UNCHANGED <<coordinatorVars, registryVars>>

RemoveCoordinator(w) ==
    /\ call[w].at = "remove"
    /\ Coord!RemoveProcess(call[w].process)
    /\ Return(w)
    /\ UNCHANGED <<tableVars, registryVars>>

\* on_terminated of one process: the session counts as running until
\* remove_process, which repeats the work, has looked at the other processes.
TerminatedSnapshot(w, p) ==
    /\ call[w] = Idle
    /\ Forget(p)
    /\ isStopped' = FALSE
    /\ Enter(w, "terminated", p, None, None, 0)
    /\ UNCHANGED <<coordinatorVars, registryVars>>

TerminatedForget(w) ==
    /\ call[w].at = "terminated"
    /\ Forget(call[w].process)
    /\ isStopped' = AnyStopped(snapshots')
    /\ Goto(w, "terminatedRemove")
    /\ UNCHANGED <<coordinatorVars, registryVars>>

\* MUTANT: the coordinator is not told.
TerminatedKeep(w) ==
    /\ call[w].at = "terminatedRemove"
    /\ Goto(w, "terminatedClear")
    /\ UNCHANGED <<tableVars, coordinatorVars, registryVars>>

TerminatedRemove(w) ==
    /\ call[w].at = "terminatedRemove"
    /\ Coord!RemoveProcess(call[w].process)
    /\ Goto(w, "terminatedClear")
    /\ UNCHANGED <<tableVars, registryVars>>

TerminatedClear(w) ==
    /\ call[w].at = "terminatedClear"
    /\ Registry!ClearCurrent(call[w].process, None)
    /\ Return(w)
    /\ UNCHANGED <<tableVars, coordinatorVars>>

\* on_terminated of the whole session, when the event names no process: every
\* table is emptied, then the processes the coordinator lists at that moment are
\* removed one by one.  Only the frames of the legacy namespace are cleared.
EndedSnapshot(w) ==
    /\ call[w] = Idle
    /\ isStopped' = FALSE
    /\ activeProcess' = None
    /\ snapshots' = Without(snapshots, DOMAIN snapshots)
    /\ threadProcess' = Without(threadProcess, DOMAIN threadProcess)
    /\ Enter(w, "ended", None, None, None, 0)
    /\ UNCHANGED <<stopEpoch, coordinatorVars, registryVars>>

EndedList(w) ==
    /\ call[w].at = "ended"
    /\ call' = [call EXCEPT ![w].at = "endedRemove", ![w].rest = DOMAIN processes]
    /\ UNCHANGED <<tableVars, coordinatorVars, registryVars>>

EndedRemove(w) ==
    /\ call[w].at = "endedRemove"
    /\ \E p \in call[w].rest :
          /\ Coord!RemoveProcess(p)
          /\ call' = [call EXCEPT ![w].rest = @ \ {p}]
    /\ UNCHANGED <<tableVars, registryVars>>

EndedClear(w) ==
    /\ call[w].at = "endedRemove"
    /\ call[w].rest = {}
    /\ Registry!ClearCurrent(None, None)
    /\ Return(w)
    /\ UNCHANGED <<tableVars, coordinatorVars>>

\* The sections after the first, of whichever handler worker w is in.
HandlerStep(w) ==
    \/ RegisterCoordinator(w) \/ BindCoordinator(w)
    \/ StoppedRegister(w) \/ StoppedBind(w) \/ StoppedAcquire(w)
    \/ StoppedBeginEpoch(w) \/ StoppedBeginLegacy(w)
    \/ ContinuedRelease(w) \/ ContinuedClear(w) \/ ContinuedClearLegacy(w)
    \/ RemoveCoordinator(w)
    \/ TerminatedForget(w) \/ TerminatedRemove(w) \/ TerminatedClear(w)
    \/ EndedList(w) \/ EndedRemove(w) \/ EndedClear(w)
================================================================================
