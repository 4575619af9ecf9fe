------------------------------ MODULE NativeLease ------------------------------
(***************************************************************************)
(* Rust frames at a Python stop (mixed_stack.py, ADR 0011).  debugpy holds  *)
(* the process; to read its Rust frames the proxy has CodeLLDB suspend it   *)
(* as well, unseen by the editor, and lets go of it before debugpy is used  *)
(* again, because debugpy lives in the process and is frozen with it.       *)
(*                                                                          *)
(* One process, launched by CodeLLDB, with one Python thread.  CodeLLDB,    *)
(* debugpy and the editor are external.  CodeLLDB's events pass its reader, *)
(* which tells the session state, and then the event hook, which tells the  *)
(* editor; the two engines are not ordered with each other.  A handler of   *)
(* the session state is one step here; SessionState.tla takes it apart.     *)
(* Handoffs in the other direction are left out: none is under way.         *)
(***************************************************************************)
EXTENDS Integers, SequencesExt

CONSTANTS
    Hooks,      \* threads that serve the editor's requests
    Frames,     \* Rust frames of the process that belong to the project
    MaxStops,   \* bound: stops of debugpy
    MaxNative,  \* bound: suspensions by CodeLLDB after which none is asked for
    None

ASSUME LeaseAssumption ==
    /\ MaxStops \in Nat
    /\ MaxNative \in Nat
    /\ None \notin Hooks \cup Frames \cup {"user", "proxy", "native", "python"}

VARIABLES
    suspended,    \* who had CodeLLDB suspend the process, or None
    nstop,        \* number of CodeLLDB's last suspension: its frame ids expire
    held,         \* debugpy holds a stop
    pstop,        \* its number
    resuming,     \* debugpy has a request to resume
    wire,         \* CodeLLDB's events on their way to its reader
    queue,        \* those on their way to the event hook
    pwire,        \* debugpy's events on their way to its reader
    stopped,      \* threads the session state believes stopped
    allStopped,   \* all_threads_stopped of the snapshot
    owner,        \* engine that holds the stop lease
    maintenance,  \* _native_maintenance: whose stopped event, or None
    suppress,     \* _native_suppress_continued: whose continued event, or None
    raised,       \* threading.Events that are set
    active,       \* _native_active has the process
    published,    \* stop whose Rust frames _native_lease_frames holds, 0: none
    frameId,      \* frame_id of each of them, as the suspension it is of, 0: none
    temporary,    \* _temporary_native_return_process is the process
    call,         \* what each hook thread is doing
    told,         \* last event the editor got
    view,         \* engines whose stop the editor shows
    failed        \* CodeLLDB could not tell the frames of this suspension

engines == <<suspended, nstop, held, pstop, resuming>>
session == <<stopped, allStopped, owner>>
lease   == <<maintenance, suppress, raised, active, published, frameId, temporary>>
editor  == <<told, view>>
vars == <<engines, wire, queue, pwire, session, lease, call, editor, failed>>

Engines   == {"native", "python"}

\* A hook thread between two requests.
Idle == [op |-> "none", pc |-> "idle", frame |-> None, of |-> 0, native |-> 0,
         own |-> FALSE, ok |-> FALSE]

At(h, pc) == call[h].pc = pc
Goto(h, pc) == call' = [call EXCEPT ![h].pc = pc]
Begin(h, op, pc) == call' = [call EXCEPT ![h] = [Idle EXCEPT !.op = op, !.pc = pc]]
Done(h) == call' = [call EXCEPT ![h] = Idle]

Init ==
    /\ suspended = None /\ nstop = 0 /\ held = FALSE /\ pstop = 0 /\ resuming = FALSE
    /\ wire = <<>> /\ queue = <<>> /\ pwire = <<>>
    /\ stopped = {} /\ allStopped = FALSE /\ owner = None
    /\ maintenance = None /\ suppress = None /\ raised = {} /\ active = FALSE
    /\ published = 0 /\ frameId = [f \in Frames |-> 0] /\ temporary = FALSE
    /\ call = [h \in Hooks |-> Idle]
    /\ told = [kind |-> "continued", engine |-> "python", by |-> "user"]
    /\ view = {} /\ failed = FALSE

-------------------------------------------------------------------------------
\* The engines (external).

\* A thread of the process reaches a breakpoint of CodeLLDB.
UserStop ==
    /\ suspended = None /\ nstop < MaxNative
    /\ suspended' = "user" /\ nstop' = nstop + 1
    /\ wire' = Append(wire, [kind |-> "stopped", by |-> "user"])
    /\ UNCHANGED <<held, pstop, resuming, queue, pwire, session, lease, call, editor, failed>>

PythonStops ==
    /\ suspended = None /\ ~held /\ pstop < MaxStops
    /\ held' = TRUE /\ pstop' = pstop + 1
    /\ pwire' = Append(pwire, [kind |-> "stopped", all |-> TRUE])
    /\ UNCHANGED <<suspended, nstop, resuming, wire, queue, session, lease, call, editor, failed>>

\* debugpy gets to the request to resume, unless it is frozen itself.
PythonResumes ==
    /\ suspended = None /\ held /\ resuming
    /\ held' = FALSE /\ resuming' = FALSE
    /\ \E all \in BOOLEAN : pwire' = Append(pwire, [kind |-> "continued", all |-> all])
    /\ UNCHANGED <<suspended, nstop, pstop, wire, queue, session, lease, call, editor, failed>>

-------------------------------------------------------------------------------
\* The readers and the event hook.

StateStopped(engine) ==
    /\ stopped' = stopped \cup {engine} /\ allStopped' = TRUE
    /\ owner' = IF owner = None THEN engine ELSE owner

StateContinued(engine, all) ==
    /\ stopped' = IF all THEN {} ELSE (IF allStopped THEN Engines ELSE stopped) \ {engine}
    /\ allStopped' = FALSE
    /\ owner' = IF stopped' = {} /\ owner = engine THEN None ELSE owner

NativeReader ==
    /\ wire # <<>>
    /\ wire' = Tail(wire) /\ queue' = Append(queue, Head(wire))
    /\ IF Head(wire).kind = "stopped" THEN StateStopped("native")
       ELSE StateContinued("native", TRUE)
    /\ UNCHANGED <<engines, pwire, lease, call, editor, failed>>

Tell(kind, engine, by) ==
    /\ told' = [kind |-> kind, engine |-> engine, by |-> by]
    /\ view' = IF kind = "stopped" THEN view \cup {engine} ELSE view \ {engine}

OnStopped ==
    /\ queue # <<>> /\ Head(queue).kind = "stopped"
    /\ queue' = Tail(queue)
    /\ temporary' = FALSE
    /\ IF maintenance # None
       THEN raised' = raised \cup {<<maintenance, "stopped">>} /\ UNCHANGED editor
       ELSE Tell("stopped", "native", Head(queue).by) /\ UNCHANGED raised
    /\ UNCHANGED <<engines, wire, pwire, session, maintenance, suppress, active, published,
                   frameId, call, failed>>

OnContinued ==
    /\ queue # <<>> /\ Head(queue).kind = "continued"
    /\ queue' = Tail(queue)
    /\ IF suppress # None
       THEN /\ suppress' = None
            /\ raised' = raised \cup {<<suppress, "continued">>}
            /\ UNCHANGED <<active, published, editor>>
       ELSE /\ active' = FALSE /\ published' = 0
            /\ Tell("continued", "native", Head(queue).by)
            /\ UNCHANGED <<suppress, raised>>
    /\ UNCHANGED <<engines, wire, pwire, session, maintenance, frameId, temporary, call, failed>>

PythonReaderStopped ==
    /\ pwire # <<>> /\ Head(pwire).kind = "stopped"
    /\ pwire' = Tail(pwire)
    /\ StateStopped("python")
    /\ Tell("stopped", "python", "user")
    /\ UNCHANGED <<engines, wire, queue, lease, call, failed>>

\* Only the owner of the stop reports that it is over.
PythonReaderContinued ==
    /\ pwire # <<>> /\ Head(pwire).kind = "continued"
    /\ pwire' = Tail(pwire)
    /\ IF owner = "python"
       THEN /\ StateContinued("python", Head(pwire).all)
            /\ active' = FALSE /\ published' = 0
            /\ Tell("continued", "python", "user")
       ELSE UNCHANGED <<session, active, published, editor>>
    /\ UNCHANGED <<engines, wire, queue, maintenance, suppress, raised, frameId, temporary,
                   call, failed>>

-------------------------------------------------------------------------------
\* The editor's requests.  It asks about what it shows; what may suspend the
\* process is asked only while the bound allows.

MaySuspend == nstop < MaxNative

RequestStack(h) ==
    /\ At(h, "idle") /\ "python" \in view /\ MaySuspend
    /\ Begin(h, "stackTrace", "debugpy")
    /\ UNCHANGED <<engines, wire, queue, pwire, session, lease, editor, failed>>

\* scopes, evaluate, setExpression of a Rust frame, or a step from it.
RequestRust(h, op, f) ==
    /\ At(h, "idle") /\ "python" \in view /\ published # 0 /\ MaySuspend
    /\ call' = [call EXCEPT ![h] = [Idle EXCEPT !.op = op, !.pc = "acquire",
                                                !.frame = f, !.of = published]]
    /\ UNCHANGED <<engines, wire, queue, pwire, session, lease, editor, failed>>

\* scopes, variables, evaluate of a Python frame; continue or step of its thread.
RequestPython(h, op) ==
    /\ At(h, "idle") /\ "python" \in view
    /\ Begin(h, op, "release")
    /\ UNCHANGED <<engines, wire, queue, pwire, session, lease, editor, failed>>

\* continue of a thread CodeLLDB stopped; while debugpy owns a stop that is
\* shown, on_threads lists its threads only.
RequestNative(h) ==
    /\ At(h, "idle") /\ "native" \in view /\ ("python" \in view => owner # "python")
    /\ Begin(h, "native", "nativeContinue")
    /\ UNCHANGED <<engines, wire, queue, pwire, session, lease, editor, failed>>

-------------------------------------------------------------------------------
\* What the hook threads do.

\* debugpy answers, or is frozen until the request times out.
AskDebugpy(h) ==
    /\ At(h, "debugpy")
    /\ IF call[h].op = "stackTrace" /\ suspended = None /\ held THEN Goto(h, "arm") ELSE Done(h)
    /\ UNCHANGED <<engines, wire, queue, pwire, session, lease, editor, failed>>

Arm(h, pc) ==
    /\ maintenance' = h /\ raised' = raised \ {<<h, "stopped">>}
    /\ call' = [call EXCEPT ![h].pc = pc, ![h].own = TRUE]

CaptureArms(h) ==
    /\ At(h, "arm")
    /\ Arm(h, "pause")
    /\ UNCHANGED <<engines, wire, queue, pwire, session, suppress, active, published, frameId,
                   temporary, editor, failed>>

\* _acquire_native_lease: nothing to do, half of it, or all.
AcquireBegins(h) ==
    /\ At(h, "acquire")
    /\ LET known == IF call[h].of = published THEN frameId[call[h].frame] ELSE 0
       IN  \/ /\ active /\ known # 0
              /\ call' = [call EXCEPT ![h].pc = "acquired", ![h].native = known, ![h].ok = TRUE]
              /\ UNCHANGED <<maintenance, raised>>
           \/ active /\ known = 0 /\ Goto(h, "trace") /\ UNCHANGED <<maintenance, raised>>
           \/ ~active /\ Arm(h, "pause")
    /\ UNCHANGED <<engines, wire, queue, pwire, session, suppress, active, published, frameId,
                   temporary, editor, failed>>

\* CodeLLDB suspends the process; if it already does, there is no event.
Pause(h) ==
    /\ At(h, "pause") /\ Goto(h, "await")
    /\ IF suspended = None
       THEN /\ suspended' = "proxy" /\ nstop' = nstop + 1
            /\ wire' = Append(wire, [kind |-> "stopped", by |-> "proxy"])
       ELSE UNCHANGED <<suspended, nstop, wire>>
    /\ UNCHANGED <<held, pstop, resuming, queue, pwire, session, lease, editor, failed>>

\* The waits of 5 and 10 seconds are given up only when no event is on its way.
InTime == wire # <<>> \/ queue # <<>>

Awaits(h, kind, pc, otherwise) ==
    /\ \/ <<h, kind>> \in raised /\ Goto(h, pc)
       \/ <<h, kind>> \notin raised /\ ~InTime /\ Goto(h, otherwise)
    /\ UNCHANGED <<engines, wire, queue, pwire, session, lease, editor, failed>>

AwaitStopped(h) == At(h, "await") /\ Awaits(h, "stopped", "trace", "unwind")

\* CodeLLDB answers stackTrace; the answer may be an error or lack the frame.
Trace(h) ==
    /\ At(h, "trace")
    /\ \/ /\ suspended # None
          /\ call' = [call EXCEPT ![h].native = nstop,
                        ![h].pc = IF call[h].op = "stackTrace" THEN "publish" ELSE "resolve"]
          /\ UNCHANGED failed
       \/ failed' = TRUE /\ Goto(h, "unwind")
    /\ UNCHANGED <<engines, wire, queue, pwire, session, lease, editor>>

Publish(h) ==
    /\ At(h, "publish") /\ Goto(h, "suppress")
    /\ published' = pstop /\ frameId' = [f \in Frames |-> 0]
    /\ UNCHANGED <<engines, wire, queue, pwire, session, maintenance, suppress, raised, active,
                   temporary, editor, failed>>

Suppress(h) == suppress' = h /\ raised' = raised \ {<<h, "continued">>}

CaptureSuppresses(h) ==
    /\ At(h, "suppress") /\ Goto(h, "continue")
    /\ Suppress(h)
    /\ UNCHANGED <<engines, wire, queue, pwire, session, maintenance, active, published, frameId,
                   temporary, editor, failed>>

\* MUTANT: the lease is remembered only where it was already.
ResolveUnrecorded(h) ==
    /\ At(h, "resolve")
    /\ frameId' = IF call[h].of = published
                  THEN [frameId EXCEPT ![call[h].frame] = call[h].native] ELSE frameId
    /\ call' = [call EXCEPT ![h].pc = "unwind", ![h].ok = TRUE]
    /\ UNCHANGED <<engines, wire, queue, pwire, session, maintenance, suppress, raised, active,
                   published, temporary, editor, failed>>

Resolve(h) ==
    /\ At(h, "resolve")
    /\ frameId' = IF call[h].of = published
                  THEN [frameId EXCEPT ![call[h].frame] = call[h].native] ELSE frameId
    /\ active' = TRUE
    /\ call' = [call EXCEPT ![h].pc = "unwind", ![h].ok = TRUE]
    /\ UNCHANGED <<engines, wire, queue, pwire, session, maintenance, suppress, raised, published,
                   temporary, editor, failed>>

\* The "finally" of capture and acquire.
Unwind(h) ==
    /\ At(h, "unwind")
    /\ maintenance' = IF call[h].own THEN None ELSE maintenance
    /\ \/ call[h].ok /\ Goto(h, "acquired")
       \/ ~call[h].ok /\ call[h].op = "step" /\ Goto(h, "restore")
       \/ ~call[h].ok /\ call[h].op # "step" /\ Done(h)
    /\ UNCHANGED <<engines, wire, queue, pwire, session, suppress, raised, active, published,
                   frameId, temporary, editor, failed>>

\* CodeLLDB serves the request with the frame id.
ServeRust(h) ==
    /\ At(h, "acquired") /\ call[h].op = "rust"
    /\ Done(h)
    /\ UNCHANGED <<engines, wire, queue, pwire, session, lease, editor, failed>>

\* _step_from_native_lease: the return breakpoint is set or rejected.
StepPrepares(h) ==
    /\ At(h, "acquired") /\ call[h].op = "step"
    /\ \/ temporary' = TRUE /\ Goto(h, "release")
       \/ Done(h) /\ UNCHANGED temporary
    /\ UNCHANGED <<engines, wire, queue, pwire, session, maintenance, suppress, raised, active,
                   published, frameId, editor, failed>>

StepRestores(h) ==
    /\ At(h, "restore") /\ Done(h)
    /\ temporary' = FALSE
    /\ UNCHANGED <<engines, wire, queue, pwire, session, maintenance, suppress, raised, active,
                   published, frameId, editor, failed>>

\* MUTANT: the lease is given back without letting the process go.
ReleaseOnlyRecords(h) ==
    /\ At(h, "release")
    /\ active' = FALSE
    /\ Goto(h, "released")
    /\ UNCHANGED <<engines, wire, queue, pwire, session, maintenance, suppress, raised, published,
                   frameId, temporary, editor, failed>>

\* MUTANT: the lease is taken for still held after it was given back.
ReleaseKeepsRecord(h) ==
    /\ At(h, "release")
    /\ Goto(h, IF active THEN "forget" ELSE "released")
    /\ UNCHANGED <<engines, wire, queue, pwire, session, lease, editor, failed>>

\* _release_native_lease
ReleaseBegins(h) ==
    /\ At(h, "release")
    /\ active' = FALSE
    /\ Goto(h, IF active THEN "forget" ELSE "released")
    /\ UNCHANGED <<engines, wire, queue, pwire, session, maintenance, suppress, raised, published,
                   frameId, temporary, editor, failed>>

\* MUTANT: the return of a lease is not told from a resume of the user's.
ReleaseForgetsToSuppress(h) ==
    /\ At(h, "forget") /\ Goto(h, "continue")
    /\ raised' = raised \ {<<h, "continued">>}
    /\ frameId' = [f \in Frames |-> 0]
    /\ UNCHANGED <<engines, wire, queue, pwire, session, maintenance, suppress, active, published,
                   temporary, editor, failed>>

\* MUTANT: the frame ids outlive the suspension.
ReleaseKeepsFrameIds(h) ==
    /\ At(h, "forget") /\ Goto(h, "continue")
    /\ Suppress(h)
    /\ UNCHANGED <<engines, wire, queue, pwire, session, maintenance, active, published, frameId,
                   temporary, editor, failed>>

ReleaseForgets(h) ==
    /\ At(h, "forget") /\ Goto(h, "continue")
    /\ Suppress(h)
    /\ frameId' = [f \in Frames |-> 0]
    /\ UNCHANGED <<engines, wire, queue, pwire, session, maintenance, active, published,
                   temporary, editor, failed>>

Continue(h) ==
    /\ At(h, "continue") /\ Goto(h, "settle")
    /\ suspended' = None
    /\ wire' = IF suspended = None THEN wire
               ELSE Append(wire, [kind |-> "continued", by |-> "proxy"])
    /\ failed' = FALSE
    /\ UNCHANGED <<nstop, held, pstop, resuming, queue, pwire, session, lease, editor>>

\* MUTANT: a capture returns as soon as CodeLLDB has accepted the continue.
AwaitAnswerOnly(h) ==
    /\ At(h, "settle") /\ Goto(h, "remember")
    /\ UNCHANGED <<engines, wire, queue, pwire, session, lease, editor, failed>>

AwaitContinued(h) == At(h, "settle") /\ Awaits(h, "continued", "remember", "remember")

\* The session state is told that debugpy still holds its stop.
Remember(h) ==
    /\ At(h, "remember")
    /\ StateStopped("python")
    /\ Goto(h, IF call[h].op = "stackTrace" THEN "unwind" ELSE "released")
    /\ UNCHANGED <<engines, wire, queue, pwire, lease, editor, failed>>

UsePython(h) ==
    /\ At(h, "released") /\ call[h].op = "python"
    /\ Goto(h, "debugpy")
    /\ UNCHANGED <<engines, wire, queue, pwire, session, lease, editor, failed>>

\* The request to resume is posted, its answer is not awaited.
ResumePython(h) ==
    /\ At(h, "released") /\ call[h].op # "python"
    /\ Done(h)
    /\ resuming' = held
    /\ view' = view \ {"python"}
    /\ UNCHANGED <<suspended, nstop, held, pstop, wire, queue, pwire, session, lease, told, failed>>

NativeContinue(h) ==
    /\ At(h, "nativeContinue")
    /\ suspended' = None /\ failed' = FALSE
    /\ IF suspended = None THEN Done(h) /\ UNCHANGED wire
       ELSE /\ Goto(h, "nativeContinued")
            /\ wire' = Append(wire, [kind |-> "continued", by |-> "user"])
    /\ UNCHANGED <<nstop, held, pstop, resuming, queue, pwire, session, lease, editor>>

NativeContinued(h) ==
    /\ At(h, "nativeContinued") /\ Done(h)
    /\ StateContinued("native", FALSE)
    /\ view' = view \ {"native"}
    /\ UNCHANGED <<engines, wire, queue, pwire, lease, told, failed>>

HookStep(h) ==
    \/ AskDebugpy(h) \/ CaptureArms(h) \/ AcquireBegins(h) \/ Pause(h) \/ AwaitStopped(h)
    \/ Trace(h) \/ Publish(h) \/ CaptureSuppresses(h) \/ Resolve(h) \/ Unwind(h)
    \/ ServeRust(h) \/ StepPrepares(h) \/ StepRestores(h) \/ ReleaseBegins(h)
    \/ ReleaseForgets(h) \/ Continue(h) \/ AwaitContinued(h) \/ Remember(h) \/ UsePython(h)
    \/ ResumePython(h) \/ NativeContinue(h) \/ NativeContinued(h)

Request(h) ==
    \/ RequestStack(h)
    \/ \E op \in {"rust", "step"}, f \in Frames : RequestRust(h, op, f)
    \/ \E op \in {"python", "resume"} : RequestPython(h, op)
    \/ RequestNative(h)

Readers == NativeReader \/ OnStopped \/ OnContinued \/ PythonReaderStopped \/ PythonReaderContinued

Next ==
    \/ UserStop \/ PythonStops \/ PythonResumes
    \/ Readers
    \/ \E h \in Hooks : Request(h) \/ HookStep(h)

Spec == Init /\ [][Next]_vars

\* Every thread of the proxy runs, and debugpy gets to what it is asked.
Fairness ==
    /\ WF_vars(Readers)
    /\ WF_vars(PythonResumes)
    /\ \A h \in Hooks : WF_vars(HookStep(h))

FairSpec == Spec /\ Fairness

-------------------------------------------------------------------------------
\* Properties.

\* The editor never hears of a stop or a resume the proxy made for itself.
MaintenanceHidden == told.by # "proxy"

\* CodeLLDB is only asked about a frame id of the suspension that is on.
ServedFramesAreCurrent ==
    \A h \in Hooks : At(h, "acquired") => suspended # None /\ call[h].native = nstop

\* Whoever has given the lease back finds the process let go of, so that
\* debugpy can do what it is asked next.
LeaseIsReturned ==
    \A h \in Hooks : At(h, "released") => suspended # "proxy" \/ failed

AtRest ==
    /\ wire = <<>> /\ queue = <<>> /\ pwire = <<>>
    /\ \A h \in Hooks : At(h, "idle")

\* When nothing is under way the process is suspended on the proxy's behalf
\* exactly if the proxy remembers the lease.
SuspensionIsAccounted ==
    AtRest => /\ suspended = "proxy" => active \/ failed
              /\ active => suspended # None

\* The session state takes the continued event of a maintenance for the end of
\* the stop: it gets it only while the hook that will correct it is waiting.
HookHasLastWord ==
    (\E e \in Range(wire) \cup Range(queue) : e = [kind |-> "continued", by |-> "proxy"])
        => \E h \in Hooks : At(h, "settle")

\* A Python thread that is continued runs, unless a breakpoint of CodeLLDB
\* has it meanwhile.
ContinueTakesEffect == resuming ~> ~resuming \/ suspended = "user" \/ failed

\* "Resume CodeLLDB so debugpy can continue servicing Python requests"
\* (ADR 0011): debugpy is not asked while the proxy has its process frozen.
\* Does not hold: on_stack_trace does not give the lease back first.
DebugpyCanServe == \A h \in Hooks : At(h, "debugpy") => suspended # "proxy"
=============================================================================
