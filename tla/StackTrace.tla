-------------------------------- MODULE StackTrace ------------------------------
(***************************************************************************)
(* MixedStackHooks.on_stack_trace (prototype/adapter/mixed_stack.py): the  *)
(* editor asks for the stack of a thread that CodeLLDB holds, the proxy    *)
(* fetches the native frames, reads the Python frames out of the process's *)
(* memory and gives them ids.  The request has a thread of its own and     *)
(* takes long; the session of DebugSession.tla goes on meanwhile, and      *)
(* _require_epoch looks again and again whether the stop is still the one  *)
(* the request was made in.                                                *)
(*                                                                         *)
(* The memory is read by a worker thread of the request, the in-process    *)
(* unwinder.  A request waits for it a limited time only; the first that   *)
(* waits in vain opens a circuit, and no other worker is started until the *)
(* proxy ends (ADR 0003).                                                  *)
(*                                                                         *)
(* A stack has one Python frame per key.  Left out: paging, the place      *)
(* where the frames are inserted, the external helper command, the native  *)
(* frames a request falls back to, debugpy's last snapshot, which is used  *)
(* in their place where debugpy is attached, and the stacks of debugpy's   *)
(* own threads.                                                            *)
(***************************************************************************)
EXTENDS DebugSession

CONSTANT Viewers   \* threads that serve a stackTrace request

\* No epoch is taken for the None that accepts any of them.
ASSUME StackAssumption == None \notin Nat

VARIABLES
    view,   \* viewer |-> the request it serves, and its local variables
    unwinder, \* the worker thread there is, and what it reads
    circuitOpen,
    origin, \* id |-> the stop its frame was read in
    shown   \* the Python frames the editor has been given, and in which stop

unwinderVars == <<unwinder, circuitOpen>>
stackVars == <<vars, view, unwinderVars, origin, shown>>

\* child: the attached child that owns the thread, None for the launched
\* process; process: the owner of the frames; epoch: the session's stop epoch
\* when the request arrived; answer: what is in its result queue; began: the
\* stop the proxy believed the process to be in while the Python frames were
\* read, 0 for none or for more than one; id: the frame's id.
NoView == [at |-> "idle", thread |-> None, child |-> None, process |-> None,
           epoch |-> 0, answer |-> None, began |-> 0, id |-> 0]

\* at: also the flag _in_process_worker_active, which is set as long as it is not
\* "none"; viewer: the request whose queue it fills, None once that has given up.
NoUnwinder == [at |-> "none", viewer |-> None, process |-> None, thread |-> None]

StackInit ==
    /\ Init
    /\ view = [v \in Viewers |-> NoView]
    /\ unwinder = NoUnwinder /\ circuitOpen = FALSE
    /\ origin = [i \in {} |-> 0]
    /\ shown = {}

\* process_id_for_thread
OwnerOf(t) == IF t \in DOMAIN threadProcess THEN threadProcess[t] ELSE activeProcess

\* ProcessManager.owns_thread: a thread some event of a child has named.
OwnedByChild(t) == ThreadGroup[t] # Root /\ t \in DOMAIN threadProcess

\* is_thread_stopped
ThreadStopped(t) ==
    OwnerOf(t) \in DOMAIN snapshots /\ t \in snapshots[OwnerOf(t)].stoppedThreads

\* MUTANT: any stop is as good as the one the request was made in.
StoppedAtAll(child, t, e) ==
    IF child # None
    THEN child \in DOMAIN snapshots /\ snapshots[child].isStopped /\ ThreadStopped(t)
    ELSE isStopped

\* _require_epoch does not raise.
StillStopped(child, t, e) ==
    IF child # None
    THEN child \in DOMAIN snapshots /\ snapshots[child].isStopped /\ ThreadStopped(t)
    ELSE isStopped /\ stopEpoch = e

Current(v) == StillStopped(view[v].child, view[v].thread, view[v].epoch)

Goes(v, at) == view' = [view EXCEPT ![v].at = at]
Fails(v) == view' = [view EXCEPT ![v] = NoView]

--------------------------------------------------------------------------------
\* The editor asks about a process it has been told is stopped, and about a thread
\* it has been told of: of the launched process by CodeLLDB, of a child by an
\* event.  A request that is refused at once leaves no trace and is no action.
ViewStarts(v, t) ==
    /\ view[v] = NoView
    /\ Known(ThreadGroup[t]).isStopped
    /\ ThreadGroup[t] = Root \/ t \in DOMAIN threadProcess
    /\ LET child == IF OwnedByChild(t) THEN OwnerOf(t) ELSE None
       IN  /\ StillStopped(child, t, stopEpoch)
           /\ view' = [view EXCEPT ![v] = [NoView EXCEPT
                  !.at = "native", !.thread = t, !.child = child,
                  !.process = OwnerOf(t), !.epoch = stopEpoch]]
    /\ UNCHANGED <<vars, unwinderVars, origin, shown>>

\* CodeLLDB answers for a process it holds, and fails for one that runs.
ViewReadsNative(v) ==
    /\ view[v].at = "native"
    /\ \/ /\ holder[<<ThreadGroup[view[v].thread], "native">>] # None
          /\ Registry!ReserveNativeIds(NativeIds)
          /\ Goes(v, "python")
       \/ /\ holder[<<ThreadGroup[view[v].thread], "native">>] = None
          /\ Fails(v)
          /\ UNCHANGED registryVars
    /\ UNCHANGED <<tableVars, call, coordinatorVars, worldVars, unwinderVars, origin, shown>>

\* _run_in_process_helper: one worker at a time, none once the circuit is open.
\* Without one the request is answered with its native frames, as it is when the
\* thread cannot be started.  A thread nobody has bound is looked for in the
\* process that /proc says it belongs to.
ViewStartsUnwinder(v) ==
    /\ view[v].at = "python"
    /\ \/ /\ Current(v)
          /\ unwinder.at = "none" /\ ~ circuitOpen
          /\ LET t == view[v].thread
             IN  unwinder' = [at |-> "reading", viewer |-> v, thread |-> t,
                              process |-> IF OwnerOf(t) = None THEN ThreadGroup[t] ELSE OwnerOf(t)]
          /\ Goes(v, "await")
       \/ Fails(v) /\ UNCHANGED unwinder
    /\ UNCHANGED <<vars, circuitOpen, origin, shown>>

StopOf(p) == IF Known(p).isStopped THEN Known(p).epoch ELSE 0

\* The worker puts what it has read, or an error, into the queue of its request;
\* the thread is not to be found in the memory of another process.
UnwinderReads ==
    /\ unwinder.at = "reading"
    /\ unwinder' = [unwinder EXCEPT !.at = "ending"]
    /\ IF unwinder.viewer = None THEN UNCHANGED view
       ELSE \/ /\ unwinder.process = ThreadGroup[unwinder.thread]
               /\ view' = [view EXCEPT ![unwinder.viewer].answer = "frames",
                                       ![unwinder.viewer].began = StopOf(unwinder.process)]
            \/ view' = [view EXCEPT ![unwinder.viewer].answer = "error"]
    /\ UNCHANGED <<vars, circuitOpen, origin, shown>>

\* Only now may another worker be started.
UnwinderEnds ==
    /\ unwinder.at = "ending"
    /\ unwinder' = NoUnwinder
    /\ UNCHANGED <<vars, view, circuitOpen, origin, shown>>

\* The locals are read in a second pass, and go with the frames if their names
\* and paths agree.
ViewReadsLocals(v) ==
    /\ view[v].at = "await" /\ view[v].answer # None
    /\ IF view[v].answer = "error" THEN Fails(v)
       ELSE view' = [view EXCEPT ![v].at = "check", ![v].answer = None,
                        ![v].began = IF @ = StopOf(ThreadGroup[view[v].thread]) THEN @ ELSE 0]
    /\ UNCHANGED <<vars, unwinderVars, origin, shown>>

\* The worker goes on reading; what it finds goes to a queue nobody looks into.
ViewTimesOut(v) ==
    /\ view[v].at = "await" /\ view[v].answer = None
    /\ circuitOpen' = TRUE
    /\ unwinder' = [unwinder EXCEPT !.viewer = None]
    /\ Fails(v)
    /\ UNCHANGED <<vars, origin, shown>>

ViewChecks(v) ==
    /\ view[v].at = "check"
    /\ \/ Current(v) /\ Goes(v, "allocate")
       \/ ~ Current(v) /\ Fails(v)
    /\ UNCHANGED <<vars, unwinderVars, origin, shown>>

\* _merge_frames.  synthetic_epoch: for a child any epoch will do.  A refusal of
\* the registry is an error nothing on the way turns into a native stack.
Expected(v) == IF view[v].child # None THEN None ELSE view[v].epoch

ViewAllocates(v, k) ==
    /\ view[v].at = "allocate"
    /\ LET p == view[v].process
           t == view[v].thread
       IN  \/ /\ Registry!AllocateNew(p, t, k, NativeIds, Expected(v))
              /\ origin' = Put(origin, byKey'[<<p, t, k>>].id, view[v].began)
              /\ view' = [view EXCEPT ![v].at = "reply", ![v].id = byKey'[<<p, t, k>>].id]
           \/ /\ Registry!AllocateExisting(p, t, k, NativeIds, Expected(v))
              /\ view' = [view EXCEPT ![v].at = "reply", ![v].id = byKey[<<p, t, k>>].id]
              /\ UNCHANGED origin
           \/ /\ \/ Registry!AllocateRefused(p, Expected(v))
                 \/ Registry!AllocateExhausted(p, t, k, NativeIds, Expected(v))
              /\ Fails(v)
              /\ UNCHANGED origin
    /\ UNCHANGED <<tableVars, call, coordinatorVars, worldVars, unwinderVars, shown>>

ViewReplies(v) ==
    /\ view[v].at = "reply"
    /\ \/ /\ Current(v)
          /\ shown' = shown \cup {[id |-> view[v].id,
                                   process |-> ThreadGroup[view[v].thread],
                                   stop |-> Known(ThreadGroup[view[v].thread]).epoch]}
       \/ ~ Current(v) /\ UNCHANGED shown
    /\ Fails(v)
    /\ UNCHANGED <<vars, unwinderVars, origin>>

View(v) ==
    \/ \E t \in Threads \ PythonThreads : ViewStarts(v, t)
    \/ ViewReadsNative(v) \/ ViewStartsUnwinder(v) \/ ViewReadsLocals(v)
    \/ ViewTimesOut(v) \/ ViewChecks(v)
    \/ \E k \in Keys : ViewAllocates(v, k)
    \/ ViewReplies(v)

Session == Next /\ UNCHANGED <<view, unwinderVars, origin, shown>>

StackNext == Session \/ UnwinderReads \/ UnwinderEnds \/ \E v \in Viewers : View(v)

StackSpec == StackInit /\ [][StackNext]_stackVars

--------------------------------------------------------------------------------
\* SAFETY: every Python frame the editor is shown was read in the very stop it is
\* shown in: never one of an earlier stop, however long its reading took.
ShownFramesAreFresh == \A s \in shown : origin[s.id] = s.stop

\* SAFETY: at rest the id of a frame the editor was shown is answered as current
\* only in the stop it was shown in; after that it is stale until the session ends.
ShownIdsExpire ==
    AtRest /\ Root \in alive => \A s \in shown :
        Registry!Classify(s.id) = "current" =>
            Known(s.process).isStopped /\ Known(s.process).epoch = s.stop

\* SAFETY: a request is not failed for a change of epoch when the process it is
\* about has stayed in one and the same stop.
UndisturbedRequestsSucceed ==
    AtRest => \A v \in Viewers :
        LET p == ThreadGroup[view[v].thread] IN
        /\ view[v].at = "allocate"
        /\ Known(p).isStopped /\ Known(p).epoch = view[v].began
        => Expected(v) \in {None, Registry!ActiveEpoch(view[v].process)}
================================================================================
