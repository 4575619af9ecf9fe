----------------------------- MODULE ChildSessions -----------------------------
(***************************************************************************)
(* The children of the debuggee and the private CodeLLDB of each           *)
(* (prototype/adapter/process_manager.py, child_transport.py).  A child     *)
(* announces itself in a file; the watcher starts a CodeLLDB for it, makes  *)
(* it attach, opens a session and writes the marker the child waits for.    *)
(* Hook threads then put the editor's requests to the session, under ids    *)
(* that are the proxy's own.                                               *)
(*                                                                         *)
(* CodeLLDB, the children and the editor are external.  The session state   *)
(* is reduced to the processes it knows; DebugSession models the rest.      *)
(***************************************************************************)
EXTENDS VirtualRoutes, SequencesExt

CONSTANTS
    Processes,  \* children
    Threads,    \* threads of each child
    Natives,    \* numbers CodeLLDB gives to frames and variables, anew in each stop
    Hooks,      \* threads that serve the editor's requests
    MaxStops,   \* bound: stops of each child
    MaxTries,   \* bound: connections made to each child
    None

ASSUME ChildSessionsAssumption ==
    /\ MaxStops \in Nat /\ MaxTries \in Nat
    /\ None \notin Processes \cup Hooks /\ "watcher" \notin Processes \cup Hooks

VARIABLES
    child,       \* process |-> how far its life is, whether its marker is written
    lldb,        \* process |-> its CodeLLDB: what it does with the process, its stops, its input
    link,        \* process |-> the connection to it and what is on its way to the proxy
    configured,  \* _configuration_done, and _breakpoints has some
    stop,        \* _stop
    sessions,    \* keys of _sessions
    recorded,    \* process |-> threads of its session
    retired,     \* _retired_process_ids
    known,       \* processes of the session state
    watcher,     \* the watcher thread in _start_child, and its buffered events
    tries,       \* process |-> connections made to it
    call,        \* thread |-> where it is in _handle_child_event
    asked,       \* asker |-> the answer to its request
    hook,        \* hook thread |-> the request it serves
    closing,     \* sessions close has still to close
    frames,      \* _frame_keys, _frame_routes, _next_frame_id
    variables,   \* _variable_keys, _variable_routes, _next_variable_reference
    told,        \* process |-> the last stop the editor was told of
    seen         \* what the editor was shown while the stop it was read in lasted: kind of id,
                 \* id, process, stop, and whether no resume was under way

world   == <<child, lldb>>
manager == <<stop, sessions, recorded, retired>>
tables  == <<frames, variables>>
editor  == <<told, seen>>
vars == <<world, link, configured, manager, known, watcher, tries, call, asked, hook, closing,
          tables, editor>>

Watcher == "watcher"
Handlers == Processes \cup {Watcher}   \* a connection's reader goes by its process
Askers == Hooks \cup {Watcher}
Keys == [process : Processes, thread : Threads, native : Natives]

Free == [at |-> "free"]
Unasked == [kind |-> "none"]
Waiting == [kind |-> "waiting"]
Asleep == [at |-> "asleep", process |-> None, buffer |-> <<>>]
NoEngine == [state |-> "none", stops |-> 0, inbox |-> <<>>]

Event(kind, t, k) == [kind |-> kind, who |-> None, thread |-> t, stop |-> k]
Reply(kind, who, k) == [kind |-> kind, who |-> who, stop |-> k]

Init ==
    /\ child = [p \in Processes |-> [life |-> "unborn", marked |-> FALSE]]
    /\ lldb = [p \in Processes |-> NoEngine]
    /\ link = [p \in Processes |-> [conn |-> "none", wire |-> <<>>]]
    /\ configured = FALSE /\ stop = FALSE
    /\ sessions = {} /\ recorded = [p \in Processes |-> {}] /\ retired = {}
    /\ known = {}
    /\ watcher = Asleep /\ tries = [p \in Processes |-> 0]
    /\ call = [a \in Handlers |-> Free]
    /\ asked = [w \in Askers |-> Unasked]
    /\ hook = [h \in Hooks |-> Free]
    /\ closing = {}
    /\ frames = NewTable(1) /\ variables = NewTable(1)
    /\ told = [p \in Processes |-> 0] /\ seen = {}

-------------------------------------------------------------------------------
\* Children and CodeLLDB (external).

ChildStarts(p) ==
    /\ child[p].life = "unborn"
    /\ child' = [child EXCEPT ![p].life = "waiting"]
    /\ UNCHANGED <<lldb, link, configured, manager, known, watcher, tries, call, asked, hook,
                   closing, tables, editor>>

Debugged(p) == lldb[p].state \in {"attached", "runs", "stopped"}
Sends(p, messages) == link' = [link EXCEPT ![p].wire = @ \o messages]

ChildExits(p) ==
    /\ child[p].life = "waiting"
    /\ child' = [child EXCEPT ![p].life = "gone"]
    /\ IF Debugged(p)
       THEN /\ lldb' = [lldb EXCEPT ![p].state = "gone"]
            /\ Sends(p, <<Event("exited", None, 0)>>)
       ELSE UNCHANGED <<lldb, link>>
    /\ UNCHANGED <<configured, manager, known, watcher, tries, call, asked, hook, closing,
                   tables, editor>>

\* A child goes on when its marker is written.
LldbStops(p, t) ==
    /\ lldb[p].state = "runs" /\ child[p].marked /\ lldb[p].stops < MaxStops
    /\ lldb' = [lldb EXCEPT ![p].state = "stopped", ![p].stops = @ + 1]
    /\ Sends(p, <<Event("stopped", t, lldb[p].stops + 1)>>)
    /\ UNCHANGED <<child, configured, manager, known, watcher, tries, call, asked, hook, closing,
                   tables, editor>>

\* What it then reads of the process is read in its latest stop.
LldbServes(p) ==
    /\ lldb[p].inbox # <<>>
    /\ LET request == Head(lldb[p].inbox)
           answer == Reply("answer", request.who, lldb[p].stops)
           refusal == Reply("refusal", request.who, 0)
           Becomes(state) == lldb' = [lldb EXCEPT ![p].inbox = Tail(@), ![p].state = state]
       IN  CASE request.kind \in {"initialize", "setBreakpoints", "configurationDone"} ->
                    Becomes(lldb[p].state) /\ Sends(p, <<answer>>)
             [] request.kind = "attach" /\ child[p].life = "waiting" ->
                    Becomes("attached") /\ Sends(p, <<answer>>)
             [] request.kind = "attach" /\ child[p].life # "waiting" ->
                    Becomes("gone") /\ UNCHANGED link
             [] request.kind = "continue" /\ lldb[p].state \in {"attached", "stopped"} ->
                    Becomes("runs") /\ Sends(p, <<answer, Event("continued", request.thread, 0)>>)
             [] request.kind \in {"stackTrace", "inspect"} /\ lldb[p].state = "stopped" ->
                    Becomes("stopped") /\ Sends(p, <<answer>>)
             [] OTHER -> Becomes(lldb[p].state) /\ Sends(p, <<refusal>>)
    /\ UNCHANGED <<child, configured, manager, known, watcher, tries, call, asked, hook, closing,
                   tables, editor>>

\* CodeLLDB ends without being told to, and lets go of the child.
LldbCrashes(p) ==
    /\ link[p].conn = "open" /\ lldb[p].state # "none"
    /\ lldb' = [lldb EXCEPT ![p].state = "none", ![p].inbox = <<>>]
    /\ Sends(p, <<Event("eof", None, 0)>>)
    /\ UNCHANGED <<child, configured, manager, known, watcher, tries, call, asked, hook, closing,
                   tables, editor>>

-------------------------------------------------------------------------------
\* ChildCodelldbTransport

\* send, as long as the reader has not set _stop
Asks(who, p, kind, t) ==
    /\ link[p].conn = "open"
    /\ asked' = [asked EXCEPT ![who] = Waiting]
    /\ lldb' = [lldb EXCEPT ![p].inbox = Append(@, [kind |-> kind, who |-> who, thread |-> t])]

\* close: what was on its way is lost, and nobody answers those who wait.
Hangs(P) ==
    /\ link' = [p \in Processes |-> IF p \in P THEN [conn |-> "closed", wire |-> <<>>] ELSE link[p]]
    /\ lldb' = [p \in Processes |->
                   IF p \in P THEN [lldb[p] EXCEPT !.state = "none", !.inbox = <<>>] ELSE lldb[p]]

\* MUTANT: a session takes its events once its child is released.
ReaderDispatchesMarked(p, event) ==
    IF p \in sessions /\ child[p].marked
    THEN /\ call' = [call EXCEPT ![p] = [at |-> "record", process |-> p, event |-> event]]
         /\ UNCHANGED watcher
    ELSE /\ watcher' = IF watcher.process = p THEN [watcher EXCEPT !.buffer = Append(@, event)]
                       ELSE watcher
         /\ UNCHANGED call

\* handle_startup_event: a buffer that nobody is going to empty is no loss.
ReaderDispatches(p, event) ==
    IF p \in sessions
    THEN /\ call' = [call EXCEPT ![p] = [at |-> "record", process |-> p, event |-> event]]
         /\ UNCHANGED watcher
    ELSE /\ watcher' = IF watcher.process = p THEN [watcher EXCEPT !.buffer = Append(@, event)]
                       ELSE watcher
         /\ UNCHANGED call

\* _reader_loop.  An answer that comes too late finds nobody.
ReaderReads(p) ==
    /\ link[p].conn = "open" /\ link[p].wire # <<>> /\ call[p] = Free
    /\ LET message == Head(link[p].wire)
           Read == link' = [link EXCEPT ![p].wire = Tail(@)]
       IN  CASE message.kind \in {"answer", "refusal"} ->
                    /\ asked' = IF message.who # None /\ asked[message.who] = Waiting
                                THEN [asked EXCEPT ![message.who] = message] ELSE asked
                    /\ Read /\ UNCHANGED <<watcher, call>>
             [] message.kind = "eof" ->
                    /\ asked' = [w \in Askers |->
                                    IF asked[w] = Waiting
                                       /\ p = (IF w = Watcher THEN watcher.process ELSE hook[w].process)
                                    THEN Reply("refusal", w, 0) ELSE asked[w]]
                    /\ link' = [link EXCEPT ![p] = [conn |-> "ended", wire |-> <<>>]]
                    /\ UNCHANGED <<watcher, call>>
             [] OTHER -> ReaderDispatches(p, message) /\ Read /\ UNCHANGED asked
    /\ UNCHANGED <<world, configured, manager, known, tries, hook, closing, tables, editor>>

-------------------------------------------------------------------------------
\* _start_child.  The answer awaited for attach is CodeLLDB's initialized event;
\* its response comes when the process first runs and is not awaited.

Phases == <<"initialize", "attach", "setBreakpoints", "configurationDone", "continue">>
Starting(p) == watcher.process = p
InPhase == watcher.at \in Range(Phases)
NextPhase(phase) ==
    IF phase = "continue" THEN "register"
    ELSE Phases[1 + CHOOSE n \in 1..4 : Phases[n] = phase]
Goes(at) == watcher' = [watcher EXCEPT !.at = at]

StartBegins(p) ==
    /\ watcher = Asleep /\ configured /\ ~stop
    /\ child[p].life # "unborn" /\ p \notin sessions \cup retired
    /\ tries[p] < MaxTries
    /\ tries' = [tries EXCEPT ![p] = @ + 1]
    /\ link' = [link EXCEPT ![p] = [conn |-> "open", wire |-> <<>>]]
    /\ watcher' = [at |-> "initialize", process |-> p, buffer |-> <<>>]
    /\ UNCHANGED <<world, configured, manager, known, call, asked, hook, closing, tables, editor>>

StartAsks ==
    /\ InPhase /\ asked[Watcher] = Unasked
    /\ Asks(Watcher, watcher.process, watcher.at, None)
    /\ UNCHANGED <<child, link, configured, manager, known, watcher, tries, call, hook, closing,
                   tables, editor>>

StartAnswered ==
    /\ InPhase /\ asked[Watcher].kind = "answer"
    /\ asked' = [asked EXCEPT ![Watcher] = Unasked]
    /\ Goes(NextPhase(watcher.at))
    /\ UNCHANGED <<world, link, configured, manager, known, tries, call, hook, closing, tables,
                   editor>>

\* A request is refused, its time is up, or CodeLLDB is gone.
StartGivesUp ==
    /\ InPhase
    /\ \/ asked[Watcher] = Waiting
       \/ asked[Watcher].kind = "refusal"
       \/ asked[Watcher] = Unasked /\ link[watcher.process].conn # "open"
    /\ asked' = [asked EXCEPT ![Watcher] = Unasked]
    /\ Goes("close")
    /\ UNCHANGED <<world, link, configured, manager, known, tries, call, hook, closing, tables,
                   editor>>

\* MUTANT: the child is released as soon as it is registered.
StartRegistersMarking ==
    /\ watcher.at = "register"
    /\ known' = known \cup {watcher.process}
    /\ child' = [child EXCEPT ![watcher.process].marked = TRUE]
    /\ Goes("insert")
    /\ UNCHANGED <<lldb, link, configured, manager, tries, call, asked, hook, closing, tables,
                   editor>>

StartRegisters ==
    /\ watcher.at = "register"
    /\ known' = known \cup {watcher.process}
    /\ Goes("insert")
    /\ UNCHANGED <<world, link, configured, manager, tries, call, asked, hook, closing, tables,
                   editor>>

\* MUTANT: that the session may have ended meanwhile is forgotten.
StartInsertsUnchecked ==
    /\ watcher.at = "insert"
    /\ sessions' = sessions \cup {watcher.process}
    /\ recorded' = [recorded EXCEPT ![watcher.process] = {}]
    /\ Goes("drain")
    /\ UNCHANGED <<world, link, stop, retired, configured, known, tries, call, asked, hook, closing,
                   tables, editor>>

StartInserts ==
    /\ watcher.at = "insert"
    /\ LET p == watcher.process
       IN  IF p \in sessions \cup retired \/ stop
           THEN /\ Hangs({p}) /\ watcher' = Asleep
                /\ UNCHANGED <<sessions, recorded>>
           ELSE /\ sessions' = sessions \cup {p}
                /\ recorded' = [recorded EXCEPT ![p] = {}]
                /\ Goes("drain")
                /\ UNCHANGED <<link, lldb>>
    /\ UNCHANGED <<child, stop, retired, configured, known, tries, call, asked, hook, closing,
                   tables, editor>>

StartDrains ==
    /\ watcher.at = "drain" /\ call[Watcher] = Free
    /\ IF watcher.buffer = <<>>
       THEN /\ watcher' = IF watcher.process \in sessions THEN [watcher EXCEPT !.at = "mark"]
                          ELSE Asleep
            /\ UNCHANGED call
       ELSE /\ call' = [call EXCEPT ![Watcher] = [at |-> "record", process |-> watcher.process,
                                                  event |-> Head(watcher.buffer)]]
            /\ watcher' = [watcher EXCEPT !.buffer = Tail(@)]
    /\ UNCHANGED <<world, link, configured, manager, known, tries, asked, hook, closing, tables,
                   editor>>

StartMarks ==
    /\ watcher.at = "mark"
    /\ child' = [child EXCEPT ![watcher.process].marked = TRUE]
    /\ watcher' = Asleep
    /\ UNCHANGED <<lldb, link, configured, manager, known, tries, call, asked, hook, closing,
                   tables, editor>>

StartCloses ==
    /\ watcher.at = "close"
    /\ Hangs({watcher.process})
    /\ Goes("forget")
    /\ UNCHANGED <<child, configured, manager, known, tries, call, asked, hook, closing, tables,
                   editor>>

\* MUTANT: a child whose start has failed is not started again.
StartForgetsForGood ==
    /\ watcher.at = "forget"
    /\ sessions' = sessions \ {watcher.process}
    /\ known' = known \ {watcher.process}
    /\ retired' = retired \cup {watcher.process}
    /\ watcher' = Asleep
    /\ UNCHANGED <<world, link, configured, stop, recorded, tries, call, asked, hook, closing,
                   tables, editor>>

StartForgets ==
    /\ watcher.at = "forget"
    /\ sessions' = sessions \ {watcher.process}
    /\ known' = known \ {watcher.process}
    /\ watcher' = Asleep
    /\ UNCHANGED <<world, link, configured, stop, recorded, retired, tries, call, asked, hook,
                   closing, tables, editor>>

-------------------------------------------------------------------------------
\* _handle_child_event, by the connection's reader or, for buffered events, by
\* the watcher.  on_continued registers nothing.

At(a, step) == call[a].at = step
Moves(a, step) == call' = [call EXCEPT ![a].at = step]
Ends(a) == call' = [call EXCEPT ![a] = Free]

\* _record_thread
HandlesRecord(a) ==
    /\ At(a, "record")
    /\ LET p == call[a].process
           t == call[a].event.thread
       IN  IF t # None /\ p \in sessions
           THEN recorded' = [recorded EXCEPT ![p] = @ \cup {t}] /\ Moves(a, "bind")
           ELSE Moves(a, "state") /\ UNCHANGED recorded
    /\ UNCHANGED <<world, link, configured, stop, sessions, retired, known, watcher, tries, asked,
                   hook, closing, tables, editor>>

HandlesBind(a) ==
    /\ At(a, "bind")
    /\ known' = known \cup {call[a].process}
    /\ Moves(a, "state")
    /\ UNCHANGED <<world, link, configured, manager, watcher, tries, asked, hook, closing, tables,
                   editor>>

HandlesState(a) ==
    /\ At(a, "state")
    /\ LET p == call[a].process
       IN  known' = CASE call[a].event.kind = "stopped" -> known \cup {p}
                      [] call[a].event.kind = "exited" -> known \ {p}
                      [] OTHER -> known
    /\ Moves(a, IF call[a].event.kind = "stopped" THEN "tell" ELSE "clear")
    /\ UNCHANGED <<world, link, configured, manager, watcher, tries, asked, hook, closing, tables,
                   editor>>

\* _clear_process_routes
HandlesClear(a) ==
    /\ At(a, "clear")
    /\ frames' = WithoutProcess(frames, call[a].process)
    /\ variables' = WithoutProcess(variables, call[a].process)
    /\ Moves(a, IF call[a].event.kind = "exited" THEN "retire" ELSE "tell")
    /\ UNCHANGED <<world, link, configured, manager, known, watcher, tries, asked, hook, closing,
                   editor>>

HandlesRetire(a) ==
    /\ At(a, "retire")
    /\ sessions' = sessions \ {call[a].process}
    /\ retired' = retired \cup {call[a].process}
    /\ Moves(a, IF call[a].process \in sessions THEN "close" ELSE "tell")
    /\ UNCHANGED <<world, link, configured, stop, recorded, known, watcher, tries, asked, hook,
                   closing, tables, editor>>

HandlesClose(a) ==
    /\ At(a, "close")
    /\ Hangs({call[a].process})
    /\ Moves(a, "tell")
    /\ UNCHANGED <<child, configured, manager, known, watcher, tries, asked, hook, closing, tables,
                   editor>>

HandlesTell(a) ==
    /\ At(a, "tell")
    /\ told' = IF call[a].event.kind = "stopped"
               THEN [told EXCEPT ![call[a].process] = call[a].event.stop] ELSE told
    /\ Ends(a)
    /\ UNCHANGED <<world, link, configured, manager, known, watcher, tries, asked, hook, closing,
                   tables, seen>>

-------------------------------------------------------------------------------
\* The editor's requests.  Those that look at a frame or at a variable differ in
\* the table their id is looked up in.

HookAsks(h, p, t, kind) ==
    /\ hook[h] = Free /\ p \in sessions
    /\ Asks(h, p, kind, t)
    /\ hook' = [hook EXCEPT ![h] = [at |-> kind, process |-> p, thread |-> t]]
    /\ UNCHANGED <<child, link, configured, manager, known, watcher, tries, call, closing, tables,
                   editor>>

\* stack_trace: _session_for_thread
EditorAsksStack(h, p, t) ==
    /\ told[p] > 0 /\ t \in recorded[p]
    /\ HookAsks(h, p, t, "stackTrace")

\* continue_thread, step_thread
EditorResumes(h, p, t) ==
    /\ told[p] > 0 /\ t \in recorded[p]
    /\ HookAsks(h, p, t, "continue")

Routes(table) == IF table = "frame" THEN frames.routes ELSE variables.routes

\* scopes, evaluate, set_expression of a frame; variables, set_variable: an id with a
\* route is one the editor was shown
EditorInspects(h, routes) ==
    \E id \in DOMAIN routes : HookAsks(h, routes[id].process, routes[id].thread, "inspect")

Key(h, n) == [process |-> hook[h].process, thread |-> hook[h].thread, native |-> n]

\* What the editor was shown is remembered only if the stop it was read in still lasts:
\* an answer that comes later allocates its ids all the same.
Lasts(p, k) == lldb[p].state = "stopped" /\ lldb[p].stops = k
Resuming(p) == \E h \in Hooks : hook[h] # Free /\ hook[h].at = "continue" /\ hook[h].process = p
Shows(table, h, id) ==
    LET p == hook[h].process
    IN  seen' = IF Lasts(p, asked[h].stop)
                THEN seen \cup {[table |-> table, id |-> id, process |-> p, stop |-> asked[h].stop,
                                 alone |-> ~ Resuming(p)]}
                ELSE seen

HookEnds(h) ==
    /\ hook' = [hook EXCEPT ![h] = Free]
    /\ asked' = [asked EXCEPT ![h] = Unasked]

\* _translate_frame
HookShowsStack(h, n) ==
    /\ hook[h].at = "stackTrace" /\ asked[h].kind = "answer"
    /\ frames' = Allocated(frames, Key(h, n))
    /\ Shows("frame", h, IdFor(frames, Key(h, n)))
    /\ HookEnds(h)
    /\ UNCHANGED <<world, link, configured, manager, known, watcher, tries, call, closing,
                   variables, told>>

\* _translate_variables_reference
HookShowsVariable(h, n) ==
    /\ hook[h].at = "inspect" /\ asked[h].kind = "answer"
    /\ variables' = Allocated(variables, Key(h, n))
    /\ Shows("variable", h, IdFor(variables, Key(h, n)))
    /\ HookEnds(h)
    /\ UNCHANGED <<world, link, configured, manager, known, watcher, tries, call, closing,
                   frames, told>>

\* _resume_thread
HookResumed(h) ==
    /\ hook[h].at = "continue" /\ asked[h].kind = "answer"
    /\ frames' = WithoutThread(frames, hook[h].process, hook[h].thread)
    /\ variables' = WithoutThread(variables, hook[h].process, hook[h].thread)
    /\ HookEnds(h)
    /\ UNCHANGED <<world, link, configured, manager, known, watcher, tries, call, closing, editor>>

HookRefused(h) ==
    /\ asked[h].kind = "refusal"
    /\ HookEnds(h)
    /\ UNCHANGED <<world, link, configured, manager, known, watcher, tries, call, closing, tables,
                   editor>>

\* Only when no answer can come any more; RequestRelay has the late ones.
HookTimesOut(h) ==
    /\ asked[h] = Waiting /\ link[hook[h].process].conn # "open"
    /\ HookEnds(h)
    /\ UNCHANGED <<world, link, configured, manager, known, watcher, tries, call, closing, tables,
                   editor>>

EditorConfigures ==
    /\ ~configured
    /\ configured' = TRUE
    /\ UNCHANGED <<world, link, manager, known, watcher, tries, call, asked, hook, closing, tables,
                   editor>>

\* close: the sessions are closed one after the other, without the lock.
CloseBegins ==
    /\ ~stop
    /\ stop' = TRUE
    /\ closing' = sessions /\ sessions' = {}
    /\ UNCHANGED <<world, link, configured, recorded, retired, known, watcher, tries, call, asked,
                   hook, tables, editor>>

CloserCloses(p) ==
    /\ p \in closing
    /\ closing' = closing \ {p}
    /\ Hangs({p})
    /\ UNCHANGED <<child, configured, manager, known, watcher, tries, call, asked, hook, tables,
                   editor>>

-------------------------------------------------------------------------------
ReaderStep(p) == ReaderReads(p)
HandlerStep(a) ==
    \/ HandlesRecord(a) \/ HandlesBind(a) \/ HandlesState(a) \/ HandlesClear(a)
    \/ HandlesRetire(a) \/ HandlesClose(a) \/ HandlesTell(a)
WatcherStep ==
    \/ \E p \in Processes : StartBegins(p)
    \/ StartAsks \/ StartAnswered \/ StartGivesUp \/ StartRegisters \/ StartInserts
    \/ StartDrains \/ StartMarks \/ StartCloses \/ StartForgets
HookStep(h) ==
    \/ \E n \in Natives : HookShowsStack(h, n) \/ HookShowsVariable(h, n)
    \/ HookResumed(h) \/ HookRefused(h) \/ HookTimesOut(h)
EditorAsks(h) ==
    \/ \E p \in Processes, t \in Threads : EditorAsksStack(h, p, t) \/ EditorResumes(h, p, t)
    \/ EditorInspects(h, frames.routes) \/ EditorInspects(h, variables.routes)

Next ==
    \/ \E p \in Processes :
           \/ ChildStarts(p) \/ ChildExits(p) \/ LldbServes(p) \/ LldbCrashes(p)
           \/ \E t \in Threads : LldbStops(p, t)
           \/ ReaderStep(p) \/ CloserCloses(p)
    \/ \E a \in Handlers : HandlerStep(a)
    \/ WatcherStep
    \/ \E h \in Hooks : HookStep(h) \/ EditorAsks(h)
    \/ EditorConfigures \/ CloseBegins

Spec == Init /\ [][Next]_vars

\* Threads of the proxy take their steps and waits end, with an answer or after
\* 10 s; CodeLLDB, unless it crashes, serves its requests.
Fairness ==
    /\ \A p \in Processes :
          WF_vars(LldbServes(p)) /\ WF_vars(ReaderStep(p)) /\ WF_vars(CloserCloses(p))
    /\ \A a \in Handlers : WF_vars(HandlerStep(a))
    /\ WF_vars(WatcherStep)
    /\ \A h \in Hooks : WF_vars(HookStep(h))

FairSpec == Spec /\ Fairness

-------------------------------------------------------------------------------
Events ==
    [kind : {"stopped", "continued"}, who : {None}, thread : Threads \cup {None},
     stop : 0..MaxStops]
        \cup [kind : {"exited", "eof"}, who : {None}, thread : {None}, stop : {0}]
Replies == [kind : {"answer", "refusal"}, who : Askers, stop : 0..MaxStops]
Requests ==
    [kind : Range(Phases) \cup {"stackTrace", "inspect"}, who : Askers,
     thread : Threads \cup {None}]
Children == [life : {"unborn", "waiting", "gone"}, marked : BOOLEAN]
Engines ==
    [state : {"none", "attached", "runs", "stopped", "gone"}, stops : 0..MaxStops,
     inbox : Seq(Requests)]
Links == [conn : {"none", "open", "ended", "closed"}, wire : Seq(Events \cup Replies)]
Starts ==
    [at : Range(Phases) \cup {"register", "insert", "drain", "mark", "close", "forget"},
     process : Processes, buffer : Seq(Events)]
Handled ==
    [at : {"record", "bind", "state", "clear", "retire", "close", "tell"},
     process : Processes, event : Events]
Served ==
    [at : {"stackTrace", "inspect", "continue"}, process : Processes, thread : Threads]

TypeOK ==
    /\ child \in [Processes -> Children]
    /\ lldb \in [Processes -> Engines] /\ link \in [Processes -> Links]
    /\ configured \in BOOLEAN /\ stop \in BOOLEAN
    /\ sessions \subseteq Processes /\ retired \subseteq Processes /\ known \subseteq Processes
    /\ recorded \in [Processes -> SUBSET Threads]
    /\ watcher \in Starts \cup {Asleep}
    /\ tries \in [Processes -> 0..MaxTries]
    /\ call \in [Handlers -> Handled \cup {Free}]
    /\ \A p \in Processes : call[p] # Free => call[p].process = p
    /\ asked \in [Askers -> Replies \cup {Unasked, Waiting}]
    /\ hook \in [Hooks -> Served \cup {Free}]
    /\ closing \subseteq Processes
    /\ IsTable(frames, Keys) /\ IsTable(variables, Keys)
    /\ told \in [Processes -> 0..MaxStops]

\* The marker is written only for a child whose CodeLLDB has let it run, with its
\* breakpoints, under a session of the proxy (_start_child); otherwise it has
\* ended, CodeLLDB has, or the session is being closed.
ReleasedUnderControl ==
    [][\A p \in Processes :
          ~child[p].marked /\ child'[p].marked =>
              \/ p \in retired \/ stop \/ link[p].conn # "open"
              \/ p \in sessions /\ lldb[p].state \in {"runs", "none", "gone"}]_vars

Handling(p) == \E a \in Handlers : call[a] # Free /\ call[a].process = p

\* A connection is open, and a process known to the session state, only as long
\* as there is a session for it or a thread that is about to open or to close one
\* (_start_child's second look, its except clause, close).
NothingLeftBehind ==
    \A p \in Processes :
        /\ link[p].conn \in {"open", "ended"} =>
               \/ p \in sessions /\ ~stop
               \/ p \in closing \/ Starting(p) \/ Handling(p)
        /\ p \in known => p \in sessions \/ stop \/ Starting(p) \/ Handling(p)

\* A child that waits for its marker gets it, however often a connection fails.
AttachmentSettles ==
    \A p \in Processes :
        (configured /\ child[p].life = "waiting") ~>
            (child[p].marked \/ child[p].life = "gone" \/ stop \/ tries[p] = MaxTries)

\* A child that has ended comes to be forgotten for good, also when it ended
\* before its session was there, unless its CodeLLDB crashed before it could tell.
EndedForgotten ==
    \A p \in Processes :
        <>[](child[p].life = "gone" =>
                \/ stop \/ link[p].conn = "ended"
                \/ p \notin sessions \cup known /\ link[p].conn # "open")

\* While the session lasts, an id the editor was shown while its stop lasted is never
\* shown for what another stop shows while that one lasts, however late the hook
\* threads of earlier stops allocate (_clear_process_routes, _clear_thread_routes:
\* CodeLLDB's own numbers return).  A hook thread whose stop is over may still
\* answer under an id of the next stop: nothing in the code looks at the stop again.
IdsMeanOneStop ==
    ~stop => \A one, other \in seen :
        one.table = other.table /\ one.id = other.id =>
            one.process = other.process /\ one.stop = other.stop

\* As long as a stop lasts, the ids shown in it are known, unless the child was being
\* resumed when they were shown: that thread's _clear_thread_routes may come after
\* the next stop has been recorded and shown, and then removes its ids.
ShownIdsResolve ==
    \A shown \in seen :
        shown.alone /\ Lasts(shown.process, shown.stop) /\ shown.process \in sessions
            => shown.id \in DOMAIN Routes(shown.table)
===============================================================================
