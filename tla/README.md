# Verification of the PyRust debug adapter

PyRust Debugger shows one call stack for a program that is part Rust and part
Python. Its adapter (`src/prototype/adapter`) is a proxy: the editor speaks the
Debug Adapter Protocol (DAP) to it, it speaks DAP to CodeLLDB, and beside that it
connects one more CodeLLDB to every child process and debugpy to every process
that runs Python. This directory holds TLA+ models of that proxy, the TLC
configurations that check them and proofs for TLAPS.

## Inventory

| Part | Source | State it keeps | Operations | Modelled in |
| --- | --- | --- | --- | --- |
| Process coordinator | `coordinator.py` | process tree, thread bindings, one stop lease per process, a generation counter | register, bind, acquire, release, remove | `Coordinator`, `ExecutionOwnership` |
| Synthetic frame registry | `state.py` 22-164 | ids of the Python frames shown in native stacks, epoch per process | begin epoch, clear, reserve, allocate, classify | `SyntheticFrames` |
| Session state | `state.py` 167-677 | one snapshot per process, thread table, active process, session-wide flag and stop epoch | `on_stopped`, `on_continued`, `on_terminated`, `register_process`, `remove_process`, `bind_*` | `SessionState` |
| Connections | `process_manager.py`, `python_manager.py`, `child_transport.py`, `python_transport.py`, `proxy.py` | one reader thread per connection, open requests | events to handlers, thread lists, resume | `DebugSession` (in part) |
| Stack traces | `mixed_stack.py` 1066-1621 | none of its own | `on_stack_trace` | `StackTrace` (in part) |
| Request relay | `proxy.py` | open requests, abandoned requests, flags of the end | forward, `request_downstream`, end of session | `RequestRelay` (in part) |
| debugpy attachment | `python_manager.py` 126-196, 722-950, `sitecustomize.py` | sessions, retired processes, breakpoints, start-up events, marker files | watcher, start, set breakpoints, restart, close | `DebugpyAttach` |
| Native lease | `mixed_stack.py` 249-518, 1790-1837, 1937-2256 | suppression flags, leased Rust frames, a return breakpoint | capture, acquire, release, step from a Rust frame | `NativeLease` |
| Child attachment | `process_manager.py` 51-86, 182-435, 429-669, `child_transport.py` | sessions, retired processes, start-up events, the requests of each connection | watcher, start, events, stack and resume requests, close | `ChildSessions` |
| Handoff | `mixed_stack.py` 249-358, 373-487, 1788-1936, `python_manager.py` 555-702, 859-1040 | handoffs under way, suppression flags, the selected frame, what of it is exposed | select a Python frame, continue, step into Rust | `Handoff` |
| In-process unwinder | `mixed_stack.py` 1354-1411 | worker flag, open circuit, a result queue per request | `_run_in_process_helper` | `StackTrace` |
| Virtual routes | both managers | virtual frame and variable ids (debugpy's: thread ids too) | allocate, clear | `VirtualRoutes`, driven by `ChildSessions` |
| DAP framing | `framing.py` | a byte buffer | incremental parse | planned |
| Process tree view | `vscode-extension/src/processTree.ts` | a view | refresh | planned |
| Unwinder, locals reader | `prototype/python` | none | read another process's memory | no: pure I/O |
| Scripts, fixtures, research, tests | `scripts`, `research`, `tests` | none | | no: tooling |

How they interact: every connection has a reader thread that turns events into
calls of the session state; hook threads serve the editor's requests and call
the session state, the registry and the connections; watcher threads attach
processes. All share the session state, which is guarded by three locks (its
own, the coordinator's, the registry's) that are taken one after the other, never
together. That is what is hard here: no handler is atomic, nothing orders two
connections, requests outlive the stop they were made in, replies outlive their
callers' patience. Beside the threads there is the debuggee itself: it announces
itself in files and waits for markers in others, and debugpy, which lives in it,
is frozen whenever CodeLLDB suspends it. `PROJECT.json` lists these hazards line by line.

What makes each part correct: the coordinator never lets two engines own one
stop, and its tree is a tree; the registry never lets one id mean two frames;
the session state comes to rest believing what is the case; a stack never shows
frames of another stop; the relay never mistakes a late reply and releases every
caller; the attachment lets no process run without the breakpoints it should have
and leaves none waiting; the lease stays hidden and is always given back.

## Modules

`ExecutionOwnership` is the abstract promise: per process at most one engine
controls a stop and only that engine or the process's end gives it back.
`Coordinator` is the code, one action per method with its refusals as actions of
their own, and implements it with `live` as the registered processes and `owner`
as `execution_owner`. A dictionary is a function whose domain is its keys, `None`
a value of its own.

`SyntheticFrames` is the registry. Each method runs under one lock and is one
action. What a frame carries is named by the epoch it was read in.

`SessionState` instantiates both and adds `ProxySessionState`. Each critical
section of a handler is an action of the thread that runs it; `call[w]` is that
thread's program counter and locals. A swallowed `CoordinationError` is the
refusal action of the coordinator followed by the code's next step.

`DebugSession` puts the world around it: engines that stop and resume, one inbox
per connection, readers, a request thread that resumes, one that lists threads,
the watcher that registers children. CodeLLDB and debugpy are external: they send
events in order on each connection, and debugpy does nothing while CodeLLDB
suspends its process. `ChildRegistry` says whether the launch names a child
registry. Without one there is no `ProcessManager`: children have no CodeLLDB, and
the threads of the launched process are asked of its CodeLLDB, by `on_process_tree`
(`RequestRecords`) or by the editor itself (`ReaderRecords`). Its reply names no
process, and `record_threads_response` binds each of its threads to the process that
is active then, which may be a child that runs Python. `GroupIds` is what
`_thread_group_id` may say of a thread: its process, and where `/proc` cannot be
read, another one.

`StackTrace` extends it with the hook threads that serve `stackTrace`, and with
the worker that reads Python's memory for them: `unwinder` is that thread and the
flag that it is at work, `circuitOpen` what a worker that does not answer in time
leaves behind until the end of the session. The stack and the locals are read in
two passes; frames whose passes fell into different stops count as read in none.
`origin` and `shown` are history variables that remember which stop a frame was
read in and which frames the editor has been given. A worker answers before it
clears its flag, so that the next request may find it busy: that request gets its
native frames alone and the circuit stays closed.

`RequestRelay` is on its own: its hazards are about numbers, tables and threads,
not about stops. A forwarder is the upstream reader or a hook thread
(`forwarder[f]` is its program counter and the number it took); `caller` is where
a hook is in `request_downstream`, be it the hook of a request or the hook of an
event, which the event-hook thread (`events`) takes from the queue (`queued`) that
the downstream reader fills. Two requests in a row may so be served by threads that
overtake each other, and the reader never waits for a hook. A reply is taken out of
its table before its command is compared with that of its request (`reader.at` is
`check` in between): one that does not match ends the reader (`ReaderRejects`), and
the thread that waits for it is then in no table that `_fail_pending` looks at.

`DebugpyAttach` follows processes from their announcement to their end: watcher
(`watcher.at` is its program counter through `_start_process`), reader, the threads
that set breakpoints and close sessions, and the process at its markers. A file's
breakpoints are numbered by the editor's request (`<<source, version>>`), so that
"older" means something; `installed` is what debugpy was sent last.

`NativeLease` is one process that debugpy holds and that CodeLLDB suspends on
the proxy's behalf. `call[h].pc` walks a hook thread through capture, acquire and
release; an `Event` is the pair of its creator and its kind; `by` on a CodeLLDB
event says on whose behalf the process stopped or ran, which the proxy cannot
see. It abstracts the handlers of `SessionState` to single steps, keeping the
thread sets and the lease that decide whether debugpy's `continued` is heard.

`Handoff` is one process whose threads were stopped by CodeLLDB and whose Python
frames debugpy is made to show. `call[h]` walks a hook thread through
`_handoff_snapshot_to_debugpy`, `waiter[n]` the thread that queues the pause of
the n-th transfer, `resolver` the one that looks for the selected frame.
`handoffs`, `stepIn`, `suppress`, `target`, `exposed`, `resolving` are the sets and
tables of the same names, reduced to this process. The script that is queued on the
selected thread, CodeLLDB and debugpy are external; a request to debugpy is posted,
and what it does then races with everything else. The selected thread may never get
to its script: the wait for it is given up after 5 s, with a message and with the key
left in `handoffs`. CodeLLDB may refuse to continue, for a transfer and for a Rust
stop that is to stay unseen, and a continue of one thread may leave the lease of the
process with CodeLLDB (`Release`). `failures` is a history variable: what has gone
wrong so far, and whether the editor was told.

`VirtualRoutes` has the tables of virtual ids, each the pair of dictionaries of
the code and its counter, and every method that changes them.

`ChildSessions` follows the children: a child announces itself and waits for its
marker; the watcher (`watcher.at`) connects a CodeLLDB, puts the requests of
`ChildCodelldbTransport.start` to it one by one, opens a session, handles the
buffered events and writes the marker, or closes and tries again; the reader of
each connection and the watcher walk through `_handle_child_event` (`call[a]`, not
atomic); hook threads ask for stacks, look into frames, resume; `close` takes the
sessions down one by one. CodeLLDB serves its requests in order, numbers frames
anew in each stop, and may die. Every request of the editor has a hook thread of its
own, so a hook thread may still allocate ids, or clear those it resumed, when the
next stop has long been shown. `told` and `seen` are history variables: the stop the
editor was told of last, and the ids it was shown while the stop they were read in
lasted.

`MC*` modules give the constants values for TLC. Operators marked `MUTANT` are
plausible bugs; each is paired with a property it breaks in `PROJECT.json`.

## Runs

| Run | Question | Bounds and why they suffice |
| --- | --- | --- |
| `Coordinator` | tree, leases, refinement of `ExecutionOwnership` | three processes are needed for a conflict of parents, two stops for a refused one; threads are looked at while two processes are registered (`ThreadsOfTwo`) |
| `SyntheticFrames` | ids: unique for good, found by either index | four ids, two of them CodeLLDB's: they run out, collide and are searched past |
| `SessionNative` | does the proxy come to rest believing what is the case, and is a lasting stop shown | a parent and a child, three stops, all interleavings of all sections |
| `SessionEngines` | stale leases, attribution of threads | one process under both engines, a child that starts, is listed and exits (it is not stopped, `SessionNative` does that), two stops; `Focus` has threads listed beside one event on its way or two in hand, not beside more (all together are 1.5 million states with the same answers); a child registry, and a `/proc` that can be read |
| `StackRoot` | freshness of shown frames, expiry of ids, no spurious failure | one process, two stops, no child registry, so that its threads are listed by a request and by the editor; a request that resumes and one that asks for the stack, whose worker may answer at once, late or never; `Focus` has threads listed beside one event on its way and no resume (all together are 1.6 million states with the same answers) |
| `Relay` | late replies, end of session, are requests answered and events handled | two numbers, one event: the hook of the event asks and gives up, or two requests of the editor overtake each other, one forwarded and one through a hook thread; the adapter may exit, name the wrong command, and a hook may fail at any moment; the safety property is proved for any number of threads and requests |
| `Attach` | are breakpoints delivered, connections closed, processes released | one process, one file set twice, two events under way: the second setting can fall before, into and after every step of the start; more processes and files are covered by the proof |
| `Lease` | are suspensions hidden, ids current, leases returned | one hook thread (an editor that waits for its answers), two Rust frames so that one may be left unresolved, three stops of debugpy, six suspensions |
| `LeaseStack` | finding: `DebugpyCanServe` fails | as `Lease`, two stops, four suspensions |
| `Handoff` | is a Rust stop ever swallowed without a word, does a transfer end or say that it does not, does a step into Rust end there | one thread, one hook thread, two transfers, so that a script left by the first meets the second, two stops of CodeLLDB, one breakpoint of debugpy, four of these five (`FourInAll`; all five are 530 135 states with the same answers); without the last no stop of debugpy competes with the script's; the safety properties are proved for any number of threads |
| `HandoffAgain` | finding: `TransferEnds` fails | one thread, two transfers, no breakpoint of debugpy |
| `Children` | is a child released only under control and always in the end, is anything left behind, what do virtual ids mean | one child with one thread, two stops (its ids are asked for, cleared and asked for again), two connections (the second after any failure of the first), two hook threads, of which either asks for stacks, one looks into frames and one resumes. `Focus` lets two requests be served at once, and the last stop be reached, only while nothing fails; failures and ends meet one request at a time. More of each are covered by the proofs, which have none of these bounds |

Several runs disable the deadlock check because what they model may stop: a
session whose bounds are used up or whose processes have ended has nothing left
to do (session, stack, attachment, lease, handoff, children); the relay returns.

In `Lease` the waits of 5 and 10 seconds are given up only when the event they
wait for is not on its way. With two hook threads `MaintenanceHidden` fails,
because both use one entry of `_native_maintenance`: the module says what holds for an
editor that waits for its answers. `LeaseIsReturned` and `SuspensionIsAccounted`
except a lease whose stack could not be read (`failed`); that such a lease is not
given back is what `LeaseStack` shows. A continue that CodeLLDB refuses is not
modelled there.

The two properties of `Children` about ids are about those the editor was shown
while their stop lasted. They do not say that every id is good, for it is not:
`HookShowsStack` of a hook thread whose stop is over allocates ids in the next stop,
or finds the very ids of that stop, and answers for the old one under them; and
`_clear_thread_routes` at the end of a resume may come when the next stop has been
shown, and take its ids away. The first leaves `IdsMeanOneStop` alone, because what
is shown late is not remembered in `seen`; for the second `ShownIdsResolve` asks only of
ids that were shown while no resume of the child was under way (`alone`). What the
properties do say is that neither race gives one id two meanings among those the
editor may still use, nor takes away an id that was shown undisturbed.

Without a child registry nothing tells the launched process's native threads from
those of a Python child: `ThreadsStayHome` excepts them (`MayStray`), and an instance of
`DebugSession` with such a child violates `NoStaleLease`, because the continued event
of a thread that has strayed ends the stop of the wrong process. The same threads
may be booked under a process that does not exist where `/proc` cannot be read.
`StackRoot`, with no child, is not affected.

`SessionNative` and `StackRoot` hold where the hazards do not reach: no request
thread resumes in the first, one thread and one process in the second. Larger
instances violate their properties for the reasons `PROJECT.json` gives under
"hazards": with a request thread that resumes, the next stop overtakes the report
of the resume and is left without owner (`OwnerHolds`; `ProcessManager._resume_thread`);
with a lister a child that exited comes back (`ExitedForgotten`); with both engines
a stop is left without owner (`OwnerHolds`) and epochs are begun out of order
(`FramesFollowStop`); with two threads stopped together the frames of one survive
as current ones into the next stop of the other (`ShownFramesAreFresh`); with a
child its stack may mix two stops (`ShownFramesAreFresh`), its sibling's request
may be failed (`UndisturbedRequestsSucceed`) and ids may stay valid while it runs
(`ShownIdsExpire`). In `Attach` the breakpoints sent last to a process may be older
than the editor's last ones; no document promises more than that none of its files
is missed (`BreakpointsReach`).

`Handoff` asks that a transfer ends at a stop of debugpy the editor sees, or fails, or
is reported (`TransfersAnswered`), until a step into Rust was made, because `HandoffAgain`
shows that after one the next does none of these. More is not promised by the code:
a transfer that is given up after 5 s keeps its key, and later Rust stops of the
process are continued unseen until the next stop of debugpy that is shown. `StopsSurface` excepts a Rust stop whose continue CodeLLDB refused
(`failures`): it is not shown, and holds the process.

`EndedForgotten` excepts a child whose CodeLLDB died before it could tell.
`AttachmentSettles` is satisfied when a child has used up its connections, two in the
run: it shows that a start that failed is made again and that the second one ends.
`BootstrapReleased` takes it that a failure marker can be written: an `OSError` there is
swallowed (`python_manager.py` 853-857), and the process then waits for its timeout.

`AtRest` in the session's properties means that no event, no handler and no
answer is in flight. In between the proxy is allowed to lag behind the engines,
as any observer must.

## Fairness

`DebugSession!Fairness`: threads of the proxy that can take a step eventually do
(weak fairness per thread; each waits only for locks that are held for finite
sections). Engines, processes and the editor may stop acting at any time.
`RequestRelay!Fairness`: the same, a hook returns, and the adapter answers each
request. A timeout is forced only of a caller whose reply the reader refused
(`Refused`), so `StopReleases` and `EventsHandled` show that nobody else needs one. `DebugpyAttach!Fairness`: watcher, readers, closers and setters take
their steps; a process keeps looking at its markers, and its giving up is never
forced, so that `BootstrapReleased` does not rest on its timeout.
`NativeLease!Fairness`: readers and hook threads take their steps, and debugpy
gets to a request to resume while its process is not suspended.
`Handoff!Fairness`: readers, the resolver, the waiting threads and the hook threads
take their steps (their waits end after 5 or 10 s); debugpy gets to a resume, and a
script that was entered to its breakpoint, when CodeLLDB does not hold them for good.
Nothing makes the selected thread reach the safe point where its script runs, nor
debugpy pause a thread that runs no Python. Engines stop, and the editor asks, only
if they like.
`ChildSessions!Fairness`: a CodeLLDB that lives serves its requests; readers, event
handlers, the watcher, hook threads and closers take their steps. A child may be
slow, a CodeLLDB may die, and a wait may end without an answer.

## Proofs

| Theorem | Inductive invariant |
| --- | --- |
| `CoordinatorProofs`: `TypeCorrect`, `LeasesAreOfRegistered`, `TreeIsConsistent`, `GenerationsAreDistinct`, `CoordinatorImplementsOwnership` | `TypeOK`, `LeaseOfRegistered`, `ChildrenNameTheirParent`, `GenerationsDistinct`; only a registered process acquires a lease, which makes the second inductive |
| `SyntheticFramesProofs`: `TypeCorrect`, `IndicesAlwaysAgree`, `IdsAreNeverReissued` | `TypeOK`, `IndicesAgree`, `SearchBelowIssued`: a free id lies below every issued one, so it is new |
| `RequestRelayProofs`: `TypeCorrect`, `RepliesAreKnown`, `TablesAreDisjoint` | `Allocation` (each number below `nextSeq` belongs to at most one caller, forwarder or table), `Flight` and `Expected` (a number under way is awaited, abandoned, or of a caller that has not yet withdrawn) |
| `DebugpyAttachProofs`: `TypeCorrect`, `BreakpointsReachEverySession`, `NoProcessAttachedTwice`, `NoConnectionOutlivesTheSession`, `NoneReleasedWithoutBreakpoints` | `IInv` = `Types`, `Opening` (what a start has sent over its connection at each of its steps), `BreakpointsReach`, `ConnectedOnce`, `Tried` (an attempt is recorded before a second one could begin); `Charge` (every open connection has a session, a closer, the watcher or a handler in charge of it, and there are no sessions after the stop); `Marked` (a ready marker means the attachment is past sending breakpoints); `MoreTypes` and `Occupied` (a thread that handles an event knows its process) |
| `HandoffProofs`: `TypeCorrect`, `KeysMeanTransfers`, `StepsIntoRustEndThere`, `PausesFollowResumes` | `TypeOK`, `StepInSuppresses` (a step into Rust under way has debugpy's stops suppressed), `ResolvingHasResolver`, `Justified`: while a key is held some thread is preparing its transfer, a script is queued, a stop of debugpy is on its way or being resolved, or the loss was reported; `KeyMeansTransfer` alone does not say which thread takes over from which; `OneStop`: a stop of debugpy is either on its way, with the resolver, shown, or with the request that resumes it, and `resume_ready` is unset while that request is out |
| `DebugSessionProofs`: `NoThreadStrays` | `ThreadsStayHome`, `Connections` (what a connection carries, and what its engine holds, is about threads of its process), `Answers` (so is what a request thread has read and not yet acted upon) |
| `DebugSessionProofs`: `NoLeaseIsLeftBehind` | `LInv`: the above, and while the launched process lives `Births`, `InCalls` (whose process, thread and engine each handler is about), `LeasedRegistered` and `Leased` |
| `DebugSessionProofs`: `ShownStoppedWhenHeld`, `LeaseLastsAsLongAsStop`, `FramesAreOfTheStop` | `WInv`: `LInv`, `OneCalls`, `OneTree` (a child is registered from its attachment to its end) and `Shown` |
| `DebugSessionProofs`: `ExitedAreForgotten` | `FInv`: `WInv` and `Forgotten` |
| `DebugSessionProofs`: `FramesAreShownFresh`, `ShownIdsDoExpire`, `LastingStopsAreServed` | `StackInv`: `Lone` (what is believed of the process, where its handlers are and what is on its way), `StackFrames`, `ShownFrames`, `Expiring`, `Views` and `Reading` |
| `DebugSessionProofs`: `SessionUsesItsParts`, `StacksUseTheParts`, `SessionTypeCorrect`, `SessionKeepsItsTree`, `SessionImplementsOwnership`, `StackIdsAreNeverReissued` | `Typed`: `Beliefs`, `Handlers` (at each section of a handler, what it has in hand fits the call it makes next: `Fit`), `Asked`, no registered process that is not of the session; `Connections`; for the stacks `Viewings` |
| `NativeLeaseProofs`: `MaintenanceStaysHidden`, `FramesServedAreCurrent`, `LeaseComesBack`, `SuspensionsAreAccounted`, `HookSpeaksLast` | what is on its way from CodeLLDB and debugpy at each step of the hook thread; see below |
| `ChildSessionsProofs`: `TypeCorrect`, `RoutesAlwaysAgree`, `IdsAreGivenOnce`, `NothingIsLeftBehind` | `TypeOK`; `RoutesAgree`; `Charge` (every open connection has a session, a closer, a start or a handler at its close); `Past` and `Released` (events that register a process come only from a released child, hence after its session was there); `Over`, `GoneIsNotDebugged`, `EndsLast` (nothing that registers a process follows its end); `Walk` (how a handler gets to its steps); `KnownOwned`. `NothingLeftBehind` needs all of them: that a late event does not register a process again follows only from the order of what CodeLLDB sends |
| `ChildSessionsProofs`: `ChildrenAreReleasedUnderControl`, `ShownIdsMeanOneStop`, `ShownIdsAreKnown` | the correspondence of requests and replies on an open connection, on top of the above; for the last two `SInv`: what a hook thread does with its answer, `Ordered`, `Fresh`, `Spares`, `StopsAreOfReleased`, `PresentStay` and `GivenAreLatest`; see below |

They hold for every value of the constants, from the assumptions the modules
name: bounds are naturals, `None` is no process and no thread, the watcher no
process; the upstream reader and the event-hook thread are no hook threads. In each
module the invariants are proved together, one lemma per action.
Where a `TypeOK` is proved it is not run as well. Each inductive
invariant of the sessions (`Typed` too), the stacks, the children and the lease was
checked by TLC, on the instances of the runs, before it was proved.

Some theorems have a hypothesis about the instance, because without it they are
false (see under "Runs"):

- `NativeLeaseProofs`: one hook thread, `Hooks = {h}`, an editor that waits for its
  answers.
- `Attributable`: there is a child registry, and `/proc` tells the process of every
  thread (`NoLeaseIsLeftBehind` and all that rests on it, and the three theorems of
  `StackTrace`). `NoThreadStrays` needs neither: it says for every session which
  threads may stray. Where they do the theorem on leases is false with a child that
  runs Python.
- `OneEngine`: besides, no process runs Python under debugpy and no request thread resumes.
  The tree of processes, their threads, the stops and the threads that list are
  arbitrary. It is the setting of `SessionNative`, of any size.
- `NoOthers`: besides, no request lists threads (`ExitedAreForgotten` alone).
- `OneThread(t)`: the launched process is the only one, `t` its only thread, and CodeLLDB
  its only engine, and nobody lists threads (the three theorems of `StackTrace`). The requests that resume it and
  those that ask for its stack, the frames, the ids and the stops are arbitrary in
  number. `StackRoot` is the same process launched without a child registry, where its
  threads are listed; with two threads the properties fail.

`SessionAssumption` says that readers, request threads and the watcher are different
threads, and that `None` is no process, thread or engine; `BoundsAssumption` that the
bounds are naturals and CodeLLDB's frame ids too; `StackAssumption` that `None` is no
epoch either.

The arguments, where they are not the type of an invariant:

*No stale lease.* `Left(r)` is how the last event that was handled left the process
of a connection: the thread it is stopped at if nothing more is on its way, else
what the next event, which is then its continuation, speaks of. What is on its way
alternates between stops and continuations (`Alternates`). `Leased` says that an
engine owns a process only if `Left` is a thread, or the handler of the
continuation stands just before its release. An event of the launched process
carries no process id, so one must also know that the thread it names is still bound
when its continuation is handled: `Leased` says so, and nothing but the end of a
process unbinds a thread.

*What is shown follows the engine.* With one engine per process its reader is the only
thread that changes what is shown of it, but each of its handlers does so in several
sections. `Shown` says what is true between any two of them: the snapshot agrees
with `Left`, CodeLLDB owns the stop once its handler is past the lease, the
registry has the snapshot's epoch once its handler is past that. At rest no handler
is under way and `Left` is what the engine holds.

*Forgotten for good.* An exited child is in one of three states: its end is the last
event still to be handled, it is registered and no handler is forgetting it; its
end is being handled and the tables no longer speak of it; it has been removed from
the tree as well. What other readers and the watcher write down speaks of their
own processes (`PutGone`).

*The whole and its parts.* `Coordinator` and `SyntheticFrames` are specified, and proved
correct, for arguments from the sets their `Next` names: a lease for a known thread,
a parent that is not the process itself, an epoch of the session. `SessionUsesItsParts`
and `StacksUseTheParts` show that a session, whatever its engines, threads and
requests, makes no other calls and touches their state in no other way: every step of
`DebugSession` or `StackTrace` is a step of each part or leaves it alone. So the theorems
of `CoordinatorProofs` and `SyntheticFramesProofs`, instantiated as `CoordFacts` and
`RegistryFacts`, hold of the whole: `SessionKeepsItsTree`, `SessionImplementsOwnership`,
`StackIdsAreNeverReissued`. A handler's arguments were computed in an earlier section,
so `Typed` must say what each handler carries at each place it may stand (`Fit`), after
the end of the session too; no process is registered as its own parent
because the watcher never attaches the launched process.

*Frames of the right stop.* With one thread a discard takes all current frames or none,
so every frame that is current was read in the registry's active epoch
(`StackFrames`). What a request has read is of its own stop if that still lasts
(`Views`), it is checked before an id is asked for, and the registry refuses another
epoch; so the frame behind an id that is about to be answered is of the request's
stop, and it is answered only while that lasts. An id the editor was shown is
current only in that stop or while a handler is on its way to discard it
(`Expiring`): the reader of the next stop, or whoever handles the continuation, and
two may do so at once.

*The lease.* With one hook thread what is on its way, in CodeLLDB's queue and on the
wire together, is one of a few short sequences that depend on whether the process
is suspended and on whose behalf: a stop of the proxy's own is on its way only while
the hook waits for it with the maintenance armed, its own resume only while the
hook waits for that with the suppression armed. A lease is active only while the
process is taken, live frame ids belong to the latest suspension, and a request
that resumes debugpy was made in a stop the editor was shown, so nothing else is on
debugpy's wire meanwhile.

*The children.* Each thread that asks over a connection has at most one request there
and waits for its reply, so requests and replies that are open correspond one to
one. From the answer to its last start-up request on the child runs until its
marker is written, because no stop can come in between.

*What the editor is shown of them.* However many hook threads there are, the events
and the answers of a child come over one connection in the order CodeLLDB gave them,
and its reader delivers an answer only when the events before it have been handled.
So before an answer of a stop is delivered the continued event of the stop before it
was handled and the ids shown in that were removed (`Fresh`): one that was shown and
still leads somewhere is of the latest stop, or the event that removes it is on its
way (`GivenAreLatest`). No number is given twice (`IdsAreGivenOnce`), so the ids shown
in two stops differ, whoever allocates late. They stay because no continued event
follows the answers of a stop that lasts (`Ordered`), and because a resume is answered,
and its hook thread clears routes, only when the stop it was asked in is over: what
was shown before it was asked is of that stop or an earlier one, and what is shown
until it has cleared is shown with a resume under way (`Spares`, `PresentStay`).

Only model-checked: all liveness, `EndedForgotten` included (out of TLAPS's reach
under fairness). Every safety invariant the runs check is stated by a theorem.

## Not modelled

The unwinder and the reader of locals (`prototype/python`) read another process's
memory and keep nothing between two reads. The contents of requests (scopes,
variables, values, paths, source positions), paging and merging of frames decide
nothing the properties look at. Start-up, scripts, fixtures and research tools are
tooling. The extension's process tree only shows what it is told.

## Plan

1. The temporary function breakpoint of a step into Rust
   (`mixed_stack.py` 520-534, 2261-2304) against the editor's own breakpoints.
2. The fallback to debugpy's last stack (`mixed_stack.py` 1200-1252), and the
   external helper.
3. `NativeLease` and `Handoff` composed, with children; an engine that is resumed
   without owning the stop (`mixed_stack.py` 417).
4. debugpy's virtual ids, thread ids included, driven as `ChildSessions` drives
   those of the children; the requests CodeLLDB makes of the editor, and `launch`.
5. Framing against its reference, process tree view.
6. Proofs: the stacks of a child, and which of the properties of the
   session survive several engines.
