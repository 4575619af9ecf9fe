-------------------------------- MODULE Handoff --------------------------------
(***************************************************************************)
(* From a Rust stop to a live Python frame and back (ADR 0010, ADR 0011).   *)
(* The editor selects a Python frame of a thread CodeLLDB holds; the proxy  *)
(* has a script queued on that thread, lets CodeLLDB go of the process, and *)
(* shows the stop of debugpy that the script runs into.  A stepIn from      *)
(* there goes back to a Rust stop.                                          *)
(*                                                                          *)
(* One process, whose threads all have Python frames.  CodeLLDB, debugpy,   *)
(* the script and the editor are external.  CodeLLDB stops and continues    *)
(* the process as a whole; its reader and the event hook, which the modules *)
(* of the session state take apart, are one step here, and so is a handler  *)
(* of the session state.  The process does not end.                         *)
(***************************************************************************)
EXTENDS Integers, SequencesExt

CONSTANTS
    Threads,       \* threads of the process
    Hooks,         \* threads that serve the editor's requests
    MaxTransfers,  \* bound: transfers the editor asks for
    MaxRust,       \* bound: stops of CodeLLDB
    MaxPython,     \* bound: stops of debugpy at breakpoints of the user
    None

ASSUME HandoffAssumption ==
    /\ MaxTransfers \in Nat /\ MaxRust \in Nat /\ MaxPython \in Nat
    /\ None \notin Threads \cup {"native", "python"}

VARIABLES
    rust,          \* thread CodeLLDB holds the process for, or None
    held,          \* debugpy holds a stop
    pausing,       \* debugpy has a request to pause every thread
    resuming,      \* debugpy has a request to resume
    script,        \* thread |-> the script is queued on it, and how often it runs there
    entered,       \* the script's marker that it runs
    rstops,        \* stops of CodeLLDB so far
    pstops,        \* stops of debugpy at breakpoints so far
    wire,          \* CodeLLDB's events on their way
    pwire,         \* debugpy's events on their way
    owner,         \* engine that holds the stop lease
    handoffs,      \* _python_handoffs: threads whose transfer is under way
    stepIn,        \* _python_step_in_processes has the process
    suppress,      \* _python_step_in_suppress_python has it
    target,        \* _handoff_targets: thread whose frame was selected, or None
    exposed,       \* _handoff_exposed has it
    userResuming,  \* _handoff_user_resuming has it
    resolving,     \* _handoff_resolving has it
    resumeReady,   \* resume_ready of the session is set
    waiter,        \* where the thread of each transfer is that queues the pause
    resolver,      \* where the thread is that looks for the selected frame
    call,          \* what each hook thread is doing
    transfers,     \* transfers begun so far
    view,          \* engines whose stop the editor shows
    failures       \* what went wrong so far with a transfer or a stop of its process

engines  == <<rust, held, pausing, resuming, rstops, pstops>>
rendez   == <<script, entered>>
events   == <<wire, pwire>>
hooks    == <<handoffs, stepIn, suppress>>
manager  == <<target, exposed, userResuming, resolving, resumeReady>>
threads  == <<waiter, resolver, call, transfers>>
editor   == <<view, failures>>
vars == <<engines, rendez, events, owner, hooks, manager, threads, editor>>

Transfers == 1..MaxTransfers
Idle == [pc |-> "idle", thread |-> None]
At(h, pc) == call[h].pc = pc
Goto(h, pc) == call' = [call EXCEPT ![h].pc = pc]
Done(h) == call' = [call EXCEPT ![h] = Idle]

\* The editor was told that the selected frame was not found, or that a wait
\* of the transfer timed out; a stop that was to be continued unseen was not.
Failures == {"frame", "late", "continue"}

TypeOK ==
    /\ rust \in Threads \cup {None} /\ rstops \in 0..MaxRust /\ pstops \in 0..MaxPython
    /\ held \in BOOLEAN /\ pausing \in BOOLEAN /\ resuming \in BOOLEAN
    /\ script \in [Threads -> [queued : BOOLEAN, running : Nat]]
    /\ entered \in BOOLEAN
    /\ wire \in Seq({"stopped", "continued"}) /\ pwire \in Seq({"stopped", "continued"})
    /\ owner \in {"native", "python", None}
    /\ handoffs \subseteq Threads /\ stepIn \in BOOLEAN /\ suppress \in BOOLEAN
    /\ target \in Threads \cup {None}
    /\ exposed \in BOOLEAN /\ userResuming \in BOOLEAN /\ resolving \in BOOLEAN
    /\ resumeReady \in BOOLEAN
    /\ waiter \in [Transfers -> {"none", "settle", "enter", "pause"}]
    /\ resolver \in {"none", "search", "expose", "emit"}
    /\ call \in [Hooks -> [pc : {"idle", "arm", "queue", "continue", "continued"},
                           thread : Threads \cup {None}]]
    /\ transfers \in 0..MaxTransfers
    /\ view \subseteq {"native", "python"} /\ failures \subseteq Failures

NoScript == [queued |-> FALSE, running |-> 0]

Init ==
    /\ rust = None /\ held = FALSE /\ pausing = FALSE /\ resuming = FALSE
    /\ rstops = 0 /\ pstops = 0
    /\ script = [t \in Threads |-> NoScript] /\ entered = FALSE
    /\ wire = <<>> /\ pwire = <<>> /\ owner = None
    /\ handoffs = {} /\ stepIn = FALSE /\ suppress = FALSE
    /\ target = None /\ exposed = FALSE /\ userResuming = FALSE /\ resolving = FALSE
    /\ resumeReady = TRUE
    /\ waiter = [n \in Transfers |-> "none"] /\ resolver = "none"
    /\ call = [h \in Hooks |-> Idle] /\ transfers = 0
    /\ view = {} /\ failures = {}

-------------------------------------------------------------------------------
\* CodeLLDB, debugpy and the script (external).  Nothing in the process runs
\* while CodeLLDB holds it, debugpy and the script included.

RustStops(t) ==
    /\ rust = None /\ rstops < MaxRust /\ script[t].running = 0
    /\ rust' = t /\ rstops' = rstops + 1
    /\ wire' = Append(wire, "stopped")
    /\ UNCHANGED <<held, pausing, resuming, pstops, rendez, pwire, owner, hooks, manager,
                   threads, editor>>

DebugpyStops == held' = TRUE /\ pwire' = Append(pwire, "stopped")

PythonBreaks ==
    /\ rust = None /\ ~held /\ pstops < MaxPython
    /\ pstops' = pstops + 1
    /\ DebugpyStops
    /\ UNCHANGED <<rust, pausing, resuming, rstops, rendez, wire, owner, hooks, manager, threads,
                   editor>>

DebugpyPauses ==
    /\ rust = None /\ pausing
    /\ pausing' = FALSE
    /\ IF held THEN UNCHANGED <<held, pwire>> ELSE DebugpyStops
    /\ UNCHANGED <<rust, resuming, rstops, pstops, rendez, wire, owner, hooks, manager, threads,
                   editor>>

\* The answer to the request and the continued event.
DebugpyResumes ==
    /\ rust = None /\ resuming
    /\ resuming' = FALSE /\ held' = FALSE
    /\ pwire' = Append(pwire, "continued")
    /\ UNCHANGED <<rust, pausing, rstops, pstops, rendez, wire, owner, hooks, manager, threads,
                   editor>>

\* The selected thread gets to its next safe point; that may be in the script,
\* which a transfer that failed has left there.
ScriptEnters(t) ==
    /\ rust = None /\ ~held /\ script[t].queued
    /\ script' = [script EXCEPT ![t] = [queued |-> FALSE, running |-> @.running + 1]]
    /\ entered' = TRUE
    /\ UNCHANGED <<engines, events, owner, hooks, manager, threads, editor>>

\* It breaks into debugpy after 5 seconds; the ready marker, which is not a
\* variable here, only makes it earlier.
ScriptBreaks(t) ==
    /\ rust = None /\ ~held /\ script[t].running > 0
    /\ script' = [script EXCEPT ![t].running = @ - 1]
    /\ DebugpyStops
    /\ UNCHANGED <<rust, pausing, resuming, rstops, pstops, entered, wire, owner, hooks,
                   manager, threads, editor>>

-------------------------------------------------------------------------------
\* What the proxy asks of the engines.

\* CodeLLDB lets go of the process.
NativeResumes ==
    /\ rust' = None
    /\ wire' = Append(wire, "continued")

\* _resume_thread: the request is posted, its answer is not awaited.
ResumeThread ==
    /\ userResuming' = (userResuming \/ exposed)
    /\ resumeReady' = FALSE
    /\ resuming' = held

\* on_continued of the session state keeps the lease while another thread of the
\* process is believed stopped; which threads are is not modelled.
Release(engine) == owner' \in {owner, IF owner = engine THEN None ELSE owner}
Acquire(engine) == owner' = IF owner = None THEN engine ELSE owner

-------------------------------------------------------------------------------
\* CodeLLDB's events.

ShowRustStep ==
    /\ stepIn
    /\ stepIn' = FALSE /\ handoffs' = {}
    /\ view' = view \cup {"native"}
    /\ Acquire("native")
    /\ wire' = Tail(wire)
    /\ UNCHANGED <<rust, failures>>

\* A Rust stop while a transfer is under way is continued unseen.  What comes of
\* the request is not looked at: if CodeLLDB does not do it, or the process is not
\* stopped any more, the stop is not shown all the same.
ContinueUnseen ==
    /\ ~stepIn /\ handoffs # {}
    /\ \/ /\ rust # None /\ Release("native")
          /\ rust' = None /\ wire' = Append(Tail(wire), "continued")
          /\ UNCHANGED failures
       \/ /\ Acquire("native")
          /\ wire' = Tail(wire) /\ UNCHANGED rust
          /\ failures' = failures \cup IF rust = None THEN {} ELSE {"continue"}
    /\ UNCHANGED <<stepIn, handoffs, view>>

ShowRustStop ==
    /\ ~stepIn /\ handoffs = {}
    /\ view' = view \cup {"native"}
    /\ Acquire("native")
    /\ wire' = Tail(wire)
    /\ UNCHANGED <<rust, stepIn, handoffs, failures>>

OnStopped ==
    /\ wire # <<>> /\ Head(wire) = "stopped"
    /\ ShowRustStep \/ ContinueUnseen \/ ShowRustStop
    /\ UNCHANGED <<held, pausing, resuming, rstops, pstops, rendez, pwire, suppress, manager,
                   threads>>

OnContinued ==
    /\ wire # <<>> /\ Head(wire) = "continued"
    /\ wire' = Tail(wire)
    /\ Release("native")
    /\ view' = view \ {"native"}
    /\ UNCHANGED <<engines, rendez, pwire, hooks, manager, threads, failures>>

-------------------------------------------------------------------------------
\* debugpy's events.

\* MUTANT: a Python stop leaves the keys of the transfers.
EmitKeepsKeys ==
    IF suppress
    THEN ResumeThread /\ UNCHANGED <<handoffs, view>>
    ELSE /\ view' = view \cup {"python"}
         /\ UNCHANGED <<userResuming, resumeReady, resuming, handoffs>>

\* MUTANT: a stop of the helper is shown after a stepIn.
EmitUnsuppressed ==
    /\ handoffs' = {} /\ view' = view \cup {"python"}
    /\ UNCHANGED <<userResuming, resumeReady, resuming>>

\* _emit_python_event of a stop: after a stepIn it is resumed unseen.
EmitStopped ==
    IF suppress
    THEN ResumeThread /\ UNCHANGED <<handoffs, view>>
    ELSE /\ handoffs' = {} /\ view' = view \cup {"python"}
         /\ UNCHANGED <<userResuming, resumeReady, resuming>>

\* A stop while a frame is awaited is handed to a thread of its own, once.
TargetedStop ==
    /\ pwire # <<>> /\ Head(pwire) = "stopped" /\ target # None
    /\ pwire' = Tail(pwire)
    /\ resolving' = TRUE
    /\ resolver' = IF resolving THEN resolver ELSE "search"
    /\ UNCHANGED <<engines, rendez, wire, owner, hooks, target, exposed, userResuming,
                   resumeReady, waiter, call, transfers, editor>>

PlainStop ==
    /\ pwire # <<>> /\ Head(pwire) = "stopped" /\ target = None
    /\ pwire' = Tail(pwire)
    /\ entered' = FALSE
    /\ Acquire("python")
    /\ EmitStopped
    /\ UNCHANGED <<rust, held, pausing, rstops, pstops, script, wire, stepIn, suppress, target,
                   exposed, resolving, threads, failures>>

Resumed ==
    /\ pwire # <<>> /\ Head(pwire) = "continued"
    /\ pwire' = Tail(pwire)
    /\ resumeReady' = TRUE
    /\ IF exposed /\ userResuming
       THEN target' = None /\ exposed' = FALSE /\ userResuming' = FALSE
       ELSE UNCHANGED <<target, exposed, userResuming>>
    /\ Release("python")
    /\ view' = IF owner = "python" THEN view \ {"python"} ELSE view
    /\ UNCHANGED <<engines, rendez, wire, hooks, resolving, threads, failures>>

-------------------------------------------------------------------------------
\* _emit_targeted_handoff_stop

ResolverFinds ==
    /\ resolver = "search" /\ rust = None
    /\ Acquire("python")
    /\ resolver' = "expose"
    /\ UNCHANGED <<engines, rendez, events, hooks, manager, waiter, call, transfers, editor>>

\* The frame is nowhere, or debugpy does not answer.
ResolverGivesUp ==
    /\ resolver = "search"
    /\ failures' = failures \cup {"frame"}
    /\ resolving' = FALSE /\ resolver' = "none"
    /\ UNCHANGED <<engines, rendez, events, owner, hooks, target, exposed, userResuming,
                   resumeReady, waiter, call, transfers, view>>

ResolverExposes ==
    /\ resolver = "expose"
    /\ exposed' = TRUE
    /\ resolver' = "emit"
    /\ UNCHANGED <<engines, rendez, events, owner, hooks, target, userResuming, resolving,
                   resumeReady, waiter, call, transfers, editor>>

\* MUTANT: the frame stays being looked for.
ResolverStays ==
    /\ resolver = "emit" /\ resolver' = "none"
    /\ EmitStopped
    /\ UNCHANGED <<rust, held, pausing, rstops, pstops, rendez, events, owner, stepIn, suppress,
                   target, exposed, resolving, waiter, call, transfers, failures>>

\* The end of the thread is taken with the emission: the editor cannot have
\* answered in between.
ResolverEmits ==
    /\ resolver = "emit" /\ resolver' = "none"
    /\ EmitStopped
    /\ resolving' = FALSE
    /\ UNCHANGED <<rust, held, pausing, rstops, pstops, rendez, events, owner, stepIn, suppress,
                   target, exposed, waiter, call, transfers, failures>>

Resolver ==
    \/ ResolverFinds \/ ResolverGivesUp \/ ResolverExposes \/ ResolverEmits

-------------------------------------------------------------------------------
\* The thread that queues the pause (_wait_and_queue_handoff_pause).

\* A wait that is given up after 5 seconds is reported, and the key stays.
Await(n, from, condition, to) ==
    /\ waiter[n] = from
    /\ \/ /\ condition
          /\ waiter' = [waiter EXCEPT ![n] = to] /\ UNCHANGED failures
       \/ /\ ~condition
          /\ waiter' = [waiter EXCEPT ![n] = "none"]
          /\ failures' = failures \cup {"late"}
    /\ UNCHANGED <<engines, rendez, events, owner, hooks, manager, resolver, call, transfers,
                   view>>

\* MUTANT: the pause does not wait for the resume before it.
AwaitNoResume(n) == Await(n, "settle", TRUE, "enter")

AwaitResume(n) == Await(n, "settle", resumeReady, "enter")

AwaitEntered(n) == Await(n, "enter", entered, "pause")

QueuePause(n) ==
    /\ waiter[n] = "pause"
    /\ pausing' = TRUE
    /\ waiter' = [waiter EXCEPT ![n] = "none"]
    /\ UNCHANGED <<rust, held, resuming, rstops, pstops, rendez, events, owner, hooks, manager,
                   resolver, call, transfers, editor>>

Waiter(n) == AwaitResume(n) \/ AwaitEntered(n) \/ QueuePause(n)

-------------------------------------------------------------------------------
\* The editor's requests.

\* scopes, variables, evaluate or an assignment of a Python frame CodeLLDB
\* stopped.  A second one for the same thread is turned down.
SelectFrame(h, t) ==
    /\ At(h, "idle") /\ "native" \in view /\ owner = "native" /\ transfers < MaxTransfers
    /\ t \notin handoffs
    /\ handoffs' = handoffs \cup {t}
    /\ transfers' = transfers + 1
    /\ call' = [call EXCEPT ![h] = [pc |-> "arm", thread |-> t]]
    /\ UNCHANGED <<engines, rendez, events, owner, stepIn, suppress, manager, waiter, resolver,
                   editor>>

\* arm_targeted_handoff up to the script.
Arm(h) ==
    /\ At(h, "arm") /\ Goto(h, "queue")
    /\ target' = call[h].thread
    /\ exposed' = FALSE /\ userResuming' = FALSE
    /\ entered' = FALSE
    /\ UNCHANGED <<engines, script, events, owner, hooks, resolving, resumeReady, waiter,
                   resolver, transfers, editor>>

\* MUTANT: a transfer that fails keeps its key.
FailsKeepingKey(h) == Done(h) /\ UNCHANGED handoffs

Fails(h) ==
    /\ Done(h)
    /\ handoffs' = handoffs \ {call[h].thread}

QueueScript(h) ==
    /\ At(h, "queue")
    /\ \/ /\ script' = [script EXCEPT ![call[h].thread].queued = TRUE]
          /\ waiter' = [waiter EXCEPT ![transfers] = "settle"]
          /\ Goto(h, "continue") /\ UNCHANGED handoffs
       \/ Fails(h) /\ UNCHANGED <<script, waiter>>
    /\ UNCHANGED <<engines, entered, events, owner, stepIn, suppress, manager, resolver,
                   transfers, editor>>

\* CodeLLDB lets go of the process; an answer that comes too late is a failure
\* like a refusal.
ReleaseCodeLLDB(h) ==
    /\ At(h, "continue")
    /\ \/ /\ rust # None /\ NativeResumes
          /\ (Goto(h, "continued") /\ UNCHANGED handoffs) \/ Fails(h)
       \/ Fails(h) /\ UNCHANGED <<rust, wire>>
    /\ UNCHANGED <<held, pausing, resuming, rstops, pstops, rendez, pwire, owner, stepIn,
                   suppress, manager, waiter, resolver, transfers, editor>>

Released(h) ==
    /\ At(h, "continued") /\ Done(h)
    /\ Release("native")
    /\ UNCHANGED <<engines, rendez, events, hooks, manager, waiter, resolver, transfers, editor>>

\* continue of a thread CodeLLDB stopped.
ContinueRust(h) ==
    /\ At(h, "idle") /\ "native" \in view /\ rust # None
    /\ NativeResumes
    /\ call' = [call EXCEPT ![h].pc = "continued"]
    /\ view' = view \ {"native"}
    /\ UNCHANGED <<held, pausing, resuming, rstops, pstops, rendez, pwire, owner, hooks,
                   manager, waiter, resolver, transfers, failures>>

\* continue of a Python thread, or a step where no transfer ended.
ContinuePython(h) ==
    /\ At(h, "idle") /\ "python" \in view
    /\ ResumeThread
    /\ view' = view \ {"python"}
    /\ UNCHANGED <<rust, held, pausing, rstops, pstops, rendez, events, owner, hooks, target,
                   exposed, resolving, threads, failures>>

\* stepIn where a transfer ended; next and stepOut are turned down.
StepIntoRust(h) ==
    /\ At(h, "idle") /\ "python" \in view /\ exposed
    /\ stepIn' = TRUE /\ suppress' = TRUE
    /\ ResumeThread
    /\ view' = view \ {"python"}
    /\ UNCHANGED <<rust, held, pausing, rstops, pstops, rendez, events, owner, handoffs, target,
                   exposed, resolving, threads, failures>>

Request(h) ==
    \/ \E t \in Threads : SelectFrame(h, t)
    \/ ContinueRust(h) \/ ContinuePython(h) \/ StepIntoRust(h)

HookStep(h) == Arm(h) \/ QueueScript(h) \/ ReleaseCodeLLDB(h) \/ Released(h)

-------------------------------------------------------------------------------
Readers == OnStopped \/ OnContinued \/ TargetedStop \/ PlainStop \/ Resumed

Next ==
    \/ \E t \in Threads : RustStops(t) \/ ScriptEnters(t) \/ ScriptBreaks(t)
    \/ PythonBreaks \/ DebugpyPauses \/ DebugpyResumes
    \/ Readers \/ Resolver
    \/ \E n \in Transfers : Waiter(n)
    \/ \E h \in Hooks : Request(h) \/ HookStep(h)

Spec == Init /\ [][Next]_vars

\* Every thread of the proxy runs, its waits end, debugpy resumes when it is told
\* to, and a script that runs comes to its breakpoint.  Nothing makes the selected
\* thread reach a safe point, nor debugpy pause a thread that runs no Python.
Fairness ==
    /\ WF_vars(Readers) /\ WF_vars(Resolver)
    /\ WF_vars(DebugpyResumes)
    /\ \A t \in Threads : WF_vars(ScriptBreaks(t))
    /\ \A n \in Transfers : WF_vars(Waiter(n))
    /\ \A h \in Hooks : WF_vars(HookStep(h))

FairSpec == Spec /\ Fairness

-------------------------------------------------------------------------------
\* Properties.

\* A Rust stop is continued unseen only while a stop of debugpy is still to
\* come that ends it: the key of a transfer stands for one that is under way.
UnderWay ==
    \/ \E h \in Hooks : ~At(h, "idle")
    \/ \E t \in Threads : script[t] # NoScript
    \/ "stopped" \in Range(pwire) \/ resolver # "none"

KeyMeansTransfer == handoffs # {} => UnderWay \/ "frame" \in failures \/ suppress

\* "exposes CodeLLDB's reacquired Rust breakpoint as one step stop. Late helper
\* stops are suppressed." (ADR 0011)
StepInEndsInRust ==
    [][stepIn => ("python" \in view' => "python" \in view)]_vars

\* "Waits for any preceding private debugpy resume request to settle" (ADR 0011):
\* otherwise that resume would take back the stop the transfer is after.
PauseAfterResume ==
    [][\A n \in Transfers : waiter[n] = "settle" /\ waiter'[n] = "enter" => ~resuming]_vars

\* A stop of debugpy is shown, resumed, or reported as one without the frame, in
\* whatever order the two engines stop: it never just holds the process.  A Rust
\* stop that holds the process is shown, or CodeLLDB did not continue it unseen.
StopsSurface ==
    held ~> \/ ~held \/ "python" \in view \/ failures \cap {"frame", "continue"} # {}
            \/ rust # None /\ "native" \in view

\* A transfer that is begun ends at a stop of debugpy the editor sees, or fails, or
\* the editor is told that it came to nothing, whether or not the selected thread
\* ever gets to its script: the Rust stops of the process are not continued unseen
\* behind the editor's back.  For a process that was never stepped from Python
\* into Rust.
TransfersAnswered ==
    handoffs # {} ~> handoffs = {} \/ "python" \in view \/ failures # {} \/ suppress

\* "Switching repeatedly between Python and Rust frames preserves one debug
\* session and valid engine ownership." (ADR 0011)  Does not hold: the mark a
\* stepIn leaves is never taken away, and it resumes every later Python stop
\* although nothing has failed.
TransferEnds == handoffs # {} ~> handoffs = {} \/ "python" \in view \/ failures # {}
================================================================================
