------------------------------ MODULE DebugpyAttach -----------------------------
(***************************************************************************)
(* How debugpy is attached to the processes that run Python                *)
(* (prototype/adapter/python_manager.py, python_transport.py,              *)
(* prototype/python/sitecustomize.py).  A process announces its debugpy    *)
(* endpoint in a file and waits for a marker; the watcher thread connects, *)
(* registers the process, opens a session and writes the marker.  Events   *)
(* that arrive before the session is open are buffered and handled by the  *)
(* watcher, later ones by the connection's reader thread.  Meanwhile the   *)
(* editor sets breakpoints, restarts the debuggee or ends the session.     *)
(*                                                                         *)
(* The breakpoints of a source file are a version of it: the editor sets    *)
(* each file anew whenever one of its breakpoints changes.                 *)
(* debugpy and the debuggee are external.                                  *)
(***************************************************************************)
EXTENDS Naturals, Sequences, FiniteSets

CONSTANTS
    Processes,   \* debuggee processes; a restart launches another
    Sources,     \* source files the editor sets breakpoints in
    Nobody,      \* no process
    MaxVersion,  \* bound on how often the editor sets a file
    MaxInbox     \* bound on the events of a connection that await their handling

VARIABLES
    configured, \* _configuration_done
    stop,       \* _stop
    sessions,   \* keys of _sessions
    retired,    \* _retired_process_ids
    wanted,     \* _breakpoints
    known,      \* processes of the session state
    watcher,    \* the watcher thread in _watch_registry and _start_process
    handler,    \* thread |-> where it is in _handle_event, and for which process
    buffer,     \* process |-> startup_events
    closing,    \* prepare_restart and close |-> what they have still to close
    setter,     \* breakpoints |-> processes add_breakpoints has still to send them to
    transport,  \* process |-> the connection to its debugpy
    installed,  \* process |-> the breakpoints its debugpy has
    inbox,      \* process |-> events sent and not read
    connects,   \* process |-> how often a connection was attempted
    debuggee,   \* process |-> what it is doing
    markers,    \* marker files: <<process, "ready">>, <<process, "failed">>
    restarted   \* processes a restart has closed the session of

managerVars == <<configured, stop, sessions, retired, wanted, known>>
threadVars == <<watcher, handler, buffer, closing, setter>>
connectionVars == <<transport, installed, inbox, connects>>
worldVars == <<debuggee, markers, restarted>>
vars == <<managerVars, threadVars, connectionVars, worldVars>>

Watcher == "watcher"
Threads == Processes \cup {Watcher}   \* each connection has a reader thread
Closers == {"restart", "close"}
Breakpoints == Sources \X (1 .. MaxVersion)   \* <<source, version>>

\* What is set for other files stays.
SetIn(B, b) == {x \in B : x[1] # b[1]} \cup {b}

Stages == {"unborn", "waiting", "supported", "unattended", "exited"}
Announced == {p \in Processes : debuggee[p] # "unborn"}

Asleep == [at |-> "asleep", process |-> Nobody, records |-> {},
           given |-> {}, missing |-> {}, listed |-> {}]
Idle == [at |-> "idle", process |-> Nobody]

Init ==
    /\ configured = FALSE /\ stop = FALSE
    /\ sessions = {} /\ retired = {} /\ wanted = {} /\ known = {}
    /\ watcher = Asleep
    /\ handler = [w \in Threads |-> Idle]
    /\ buffer = [p \in Processes |-> <<>>]
    /\ closing = [k \in Closers |-> [at |-> "idle", rest |-> {}, forget |-> {}]]
    /\ setter = [b \in Breakpoints |-> {}]
    /\ transport = [p \in Processes |-> "none"]
    /\ installed = [p \in Processes |-> {}]
    /\ inbox = [p \in Processes |-> <<>>]
    /\ connects = [p \in Processes |-> 0]
    /\ debuggee = [p \in Processes |-> "unborn"]
    /\ markers = {} /\ restarted = {}

Disconnect(P) == transport' = [p \in Processes |-> IF p \in P THEN "closed" ELSE transport[p]]

--------------------------------------------------------------------------------
\* _watch_registry reads the announcements, then starts them one by one; the
\* files stay when their process has ended.
WatcherWakes ==
    /\ watcher.at = "asleep" /\ configured /\ ~ stop
    /\ watcher' = [watcher EXCEPT !.at = "next", !.records = Announced]
    /\ UNCHANGED <<managerVars, handler, buffer, closing, setter, connectionVars,
                   worldVars>>

WatcherSleeps ==
    /\ watcher.at = "next" /\ watcher.records = {}
    /\ watcher' = Asleep
    /\ UNCHANGED <<managerVars, handler, buffer, closing, setter, connectionVars,
                   worldVars>>

Startable(p) == p \notin sessions \cup retired /\ ~ stop

\* _start_process
StartBegins(p) ==
    /\ watcher.at = "next" /\ p \in watcher.records
    /\ watcher' =
          IF Startable(p)
          THEN [watcher EXCEPT !.at = "connect", !.process = p, !.given = wanted,
                               !.records = @ \ {p}]
          ELSE [watcher EXCEPT !.records = @ \ {p}]
    /\ UNCHANGED <<managerVars, handler, buffer, closing, setter, connectionVars,
                   worldVars>>

\* transport.start: the reader thread runs from here on.
StartConnects ==
    /\ watcher.at = "connect"
    /\ LET p == watcher.process
       IN  /\ debuggee[p] # "exited"
           /\ transport' = [transport EXCEPT ![p] = "open"]
           /\ installed' = [installed EXCEPT ![p] = watcher.given]
           /\ connects' = [connects EXCEPT ![p] = @ + 1]
    /\ watcher' = [watcher EXCEPT !.at = "register"]
    /\ UNCHANGED <<managerVars, handler, buffer, closing, setter, inbox, worldVars>>

StartRegisters ==
    /\ watcher.at = "register"
    /\ known' = known \cup {watcher.process}
    /\ watcher' = [watcher EXCEPT !.at = "insert"]
    /\ UNCHANGED <<configured, stop, sessions, retired, wanted, handler, buffer, closing,
                   setter, connectionVars, worldVars>>

\* MUTANT: only what was true before the connection was made is looked at.
StartInsertsUnchecked ==
    /\ watcher.at = "insert"
    /\ sessions' = sessions \cup {watcher.process}
    /\ watcher' = [watcher EXCEPT !.at = "sync", !.missing = wanted \ watcher.given]
    /\ UNCHANGED <<configured, stop, retired, wanted, known, handler, buffer, closing,
                   setter, connectionVars, worldVars>>

\* MUTANT: breakpoints set since the connection was made are not sent.
StartInsertsWithoutSync ==
    /\ watcher.at = "insert"
    /\ IF Startable(watcher.process)
       THEN /\ sessions' = sessions \cup {watcher.process}
            /\ watcher' = [watcher EXCEPT !.at = "sync"]
            /\ UNCHANGED transport
       ELSE /\ Disconnect({watcher.process})
            /\ watcher' = [watcher EXCEPT !.at = "next"]
            /\ UNCHANGED sessions
    /\ UNCHANGED <<configured, stop, retired, wanted, known, handler, buffer, closing,
                   setter, installed, inbox, connects, worldVars>>

StartInserts ==
    /\ watcher.at = "insert"
    /\ IF Startable(watcher.process)
       THEN /\ sessions' = sessions \cup {watcher.process}
            /\ watcher' = [watcher EXCEPT !.at = "sync", !.missing = wanted \ watcher.given]
            /\ UNCHANGED transport
       ELSE /\ Disconnect({watcher.process})
            /\ watcher' = [watcher EXCEPT !.at = "next"]
            /\ UNCHANGED sessions
    /\ UNCHANGED <<configured, stop, retired, wanted, known, handler, buffer, closing,
                   setter, installed, inbox, connects, worldVars>>

Answers(p) == transport[p] = "open" /\ debuggee[p] # "exited"

StartSyncs(b) ==
    /\ watcher.at = "sync" /\ b \in watcher.missing
    /\ Answers(watcher.process)
    /\ installed' = [installed EXCEPT ![watcher.process] = SetIn(@, b)]
    /\ watcher' = [watcher EXCEPT !.missing = @ \ {b}]
    /\ UNCHANGED <<managerVars, handler, buffer, closing, setter, transport, inbox,
                   connects, worldVars>>

\* MUTANT: the marker is written before the breakpoints are sent.
StartMarksEarly ==
    /\ watcher.at = "sync"
    /\ markers' = markers \cup {<<watcher.process, "ready">>}
    /\ watcher' = [watcher EXCEPT !.at = IF watcher.missing = {} THEN "drain" ELSE "sync"]
    /\ UNCHANGED <<managerVars, handler, buffer, closing, setter, connectionVars, debuggee,
                   restarted>>

StartMarks ==
    /\ watcher.at = "sync" /\ watcher.missing = {}
    /\ markers' = markers \cup {<<watcher.process, "ready">>}
    /\ watcher' = [watcher EXCEPT !.at = "drain"]
    /\ UNCHANGED <<managerVars, handler, buffer, closing, setter, connectionVars, debuggee,
                   restarted>>

\* The buffered events are handled by the watcher, in order.
StartDrains ==
    /\ watcher.at = "drain" /\ handler[Watcher] = Idle
    /\ LET p == watcher.process
       IN  IF buffer[p] = <<>>
           THEN /\ watcher' = [watcher EXCEPT !.at = "list", !.listed = sessions]
                /\ UNCHANGED <<handler, buffer>>
           ELSE /\ handler' = [handler EXCEPT ![Watcher] = [at |-> Head(buffer[p]), process |-> p]]
                /\ buffer' = [buffer EXCEPT ![p] = Tail(@)]
                /\ UNCHANGED watcher
    /\ UNCHANGED <<managerVars, closing, setter, connectionVars, worldVars>>

\* refresh_threads asks every session for its threads and binds them, which
\* registers the process again if it has ended meanwhile.
StartLists(p) ==
    /\ watcher.at = "list" /\ p \in watcher.listed
    /\ known' \in {known} \cup (IF Answers(p) THEN {known \cup {p}} ELSE {})
    /\ watcher' = [watcher EXCEPT !.listed = @ \ {p}]
    /\ UNCHANGED <<configured, stop, sessions, retired, wanted, handler, buffer, closing,
                   setter, connectionVars, worldVars>>

StartEnds ==
    /\ watcher.at = "list" /\ watcher.listed = {}
    /\ watcher' = [watcher EXCEPT !.at = "next"]
    /\ UNCHANGED <<managerVars, handler, buffer, closing, setter, connectionVars, worldVars>>

\* Any request of the start may fail or time out.  The process stays in the
\* session state if it had been registered.
StartFails ==
    /\ \/ watcher.at = "connect"
       \/ watcher.at = "sync" /\ watcher.missing # {}
    /\ Disconnect({watcher.process})
    /\ connects' = IF watcher.at = "connect"
                   THEN [connects EXCEPT ![watcher.process] = @ + 1] ELSE connects
    /\ sessions' = sessions \ {watcher.process}
    /\ retired' = retired \cup {watcher.process}
    /\ watcher' = [watcher EXCEPT !.at = "mark failed"]
    /\ UNCHANGED <<configured, stop, wanted, known, handler, buffer, closing, setter,
                   installed, inbox, worldVars>>

\* MUTANT: nobody tells the process.
StartFailsSilently ==
    /\ watcher.at = "mark failed"
    /\ watcher' = [watcher EXCEPT !.at = "next"]
    /\ UNCHANGED <<managerVars, handler, buffer, closing, setter, connectionVars,
                   worldVars>>

\* _write_attach_failure
StartMarksFailed ==
    /\ watcher.at = "mark failed"
    /\ markers' = markers \cup {<<watcher.process, "failed">>}
    /\ watcher' = [watcher EXCEPT !.at = "next"]
    /\ UNCHANGED <<managerVars, handler, buffer, closing, setter, connectionVars, debuggee,
                   restarted>>

--------------------------------------------------------------------------------
\* handle_startup_event on the reader thread; it reads until the connection is
\* closed at this end.
ReaderReads(p) ==
    /\ transport[p] = "open" /\ handler[p] = Idle /\ inbox[p] # <<>>
    /\ inbox' = [inbox EXCEPT ![p] = Tail(@)]
    /\ IF p \in sessions
       THEN /\ handler' = [handler EXCEPT ![p] = [at |-> Head(inbox[p]), process |-> p]]
            /\ UNCHANGED buffer
       ELSE /\ buffer' = [buffer EXCEPT ![p] = Append(@, Head(inbox[p]))]
            /\ UNCHANGED handler
    /\ UNCHANGED <<managerVars, watcher, closing, setter, transport, installed, connects,
                   worldVars>>

Goto(w, at) == handler' = [handler EXCEPT ![w].at = at]
Done(w) == handler' = [handler EXCEPT ![w] = Idle]

\* _handle_event of a stop: on_stopped registers the process if need be.
HandlesStopped(w) ==
    /\ handler[w].at = "stopped"
    /\ known' = known \cup {handler[w].process}
    /\ Done(w)
    /\ UNCHANGED <<configured, stop, sessions, retired, wanted, watcher, buffer, closing,
                   setter, connectionVars, worldVars>>

\* _handle_event of an end removes the marker, closes the session, and forgets
\* the process, in this order.
HandlesTerminated(w) ==
    /\ handler[w].at = "terminated"
    /\ markers' = markers \ {<<handler[w].process, "ready">>}
    /\ Goto(w, "retire")
    /\ UNCHANGED <<managerVars, watcher, buffer, closing, setter, connectionVars, debuggee,
                   restarted>>

HandlesRetire(w) ==
    /\ handler[w].at = "retire"
    /\ sessions' = sessions \ {handler[w].process}
    /\ retired' = retired \cup {handler[w].process}
    /\ Goto(w, IF handler[w].process \in sessions THEN "disconnect" ELSE "forget")
    /\ UNCHANGED <<configured, stop, wanted, known, watcher, buffer, closing, setter,
                   connectionVars, worldVars>>

HandlesDisconnect(w) ==
    /\ handler[w].at = "disconnect"
    /\ Disconnect({handler[w].process})
    /\ Goto(w, "forget")
    /\ UNCHANGED <<managerVars, watcher, buffer, closing, setter, installed, inbox,
                   connects, worldVars>>

HandlesForget(w) ==
    /\ handler[w].at = "forget"
    /\ known' = known \ {handler[w].process}
    /\ Done(w)
    /\ UNCHANGED <<configured, stop, sessions, retired, wanted, watcher, buffer, closing,
                   setter, connectionVars, worldVars>>

--------------------------------------------------------------------------------
\* prepare_restart: the sessions open now are closed one after the other, then
\* their processes forgotten; one that is about to be opened is not seen.
RestartBegins ==
    /\ closing["restart"].at = "idle" /\ configured
    /\ closing' = [closing EXCEPT !["restart"] =
                      [at |-> "closing", rest |-> sessions, forget |-> sessions]]
    /\ sessions' = {}
    /\ retired' = retired \cup sessions
    /\ restarted' = restarted \cup sessions
    /\ UNCHANGED <<configured, stop, wanted, known, watcher, handler, buffer, setter,
                   connectionVars, debuggee, markers>>

\* close: the whole session ends.
CloseBegins ==
    /\ ~ stop
    /\ stop' = TRUE
    /\ closing' = [closing EXCEPT !["close"] =
                      [at |-> "closing", rest |-> sessions, forget |-> {}]]
    /\ sessions' = {}
    /\ UNCHANGED <<configured, retired, wanted, known, watcher, handler, buffer, setter,
                   connectionVars, worldVars>>

CloserCloses(k, p) ==
    /\ p \in closing[k].rest
    /\ Disconnect({p})
    /\ closing' = [closing EXCEPT ![k].rest = @ \ {p}]
    /\ UNCHANGED <<managerVars, watcher, handler, buffer, setter, installed, inbox,
                   connects, worldVars>>

CloserForgets(k, p) ==
    /\ closing[k].rest = {} /\ p \in closing[k].forget
    /\ known' = known \ {p}
    /\ closing' = [closing EXCEPT ![k].forget = @ \ {p}]
    /\ UNCHANGED <<configured, stop, sessions, retired, wanted, watcher, handler, buffer,
                   setter, connectionVars, worldVars>>

CloserReturns(k) ==
    /\ closing[k] = [at |-> "closing", rest |-> {}, forget |-> {}]
    /\ closing' = [closing EXCEPT ![k].at = "idle"]
    /\ UNCHANGED <<managerVars, watcher, handler, buffer, setter, connectionVars, worldVars>>

--------------------------------------------------------------------------------
\* mark_configuration_done
EditorConfigures ==
    /\ ~ configured
    /\ configured' = TRUE
    /\ UNCHANGED <<stop, sessions, retired, wanted, known, threadVars, connectionVars,
                   worldVars>>

\* add_breakpoints: the list and the open sessions under one lock, then a request
\* to each; a failure is only reported.  An editor sets a file again when it has
\* the answer.
EditorSets(b) ==
    /\ IF b[2] = 1 THEN b[1] \notin {x[1] : x \in wanted}
                    ELSE <<b[1], b[2] - 1>> \in wanted /\ setter[<<b[1], b[2] - 1>>] = {}
    /\ wanted' = SetIn(wanted, b)
    /\ setter' = [setter EXCEPT ![b] = sessions]
    /\ UNCHANGED <<configured, stop, sessions, retired, known, watcher, handler, buffer,
                   closing, connectionVars, worldVars>>

SetterSends(b, p) ==
    /\ p \in setter[b]
    /\ installed' = IF Answers(p) THEN [installed EXCEPT ![p] = SetIn(@, b)] ELSE installed
    /\ setter' = [setter EXCEPT ![b] = @ \ {p}]
    /\ UNCHANGED <<managerVars, watcher, handler, buffer, closing, transport, inbox,
                   connects, worldVars>>

--------------------------------------------------------------------------------
\* The debuggee.  _bootstrap announces the endpoint without old markers and may
\* wait for the proxy.
ProcessStarts(p) ==
    /\ debuggee[p] = "unborn"
    /\ \E stage \in {"waiting", "unattended"} : debuggee' = [debuggee EXCEPT ![p] = stage]
    /\ UNCHANGED <<managerVars, threadVars, connectionVars, markers, restarted>>

\* _wait_for_client
ProcessProceeds(p) ==
    /\ debuggee[p] = "waiting"
    /\ \/ /\ transport[p] = "open" /\ <<p, "ready">> \in markers
          /\ debuggee' = [debuggee EXCEPT ![p] = "supported"]
       \/ /\ <<p, "failed">> \in markers
          /\ debuggee' = [debuggee EXCEPT ![p] = "unattended"]
    /\ UNCHANGED <<managerVars, threadVars, connectionVars, markers, restarted>>

ProcessGivesUp(p) ==
    /\ debuggee[p] = "waiting"
    /\ ~ (transport[p] = "open" /\ <<p, "ready">> \in markers)
    /\ debuggee' = [debuggee EXCEPT ![p] = "unattended"]
    /\ UNCHANGED <<managerVars, threadVars, connectionVars, markers, restarted>>

\* debugpy reports a stop to whoever is connected.
ProcessStops(p) ==
    /\ debuggee[p] \in {"supported", "unattended"} /\ transport[p] = "open"
    /\ Len(inbox[p] \o buffer[p]) < MaxInbox
    /\ inbox' = [inbox EXCEPT ![p] = Append(@, "stopped")]
    /\ UNCHANGED <<managerVars, threadVars, transport, installed, connects, worldVars>>

ProcessExits(p) ==
    /\ debuggee[p] \notin {"unborn", "exited"}
    /\ debuggee' = [debuggee EXCEPT ![p] = "exited"]
    /\ inbox' = IF transport[p] = "open" THEN [inbox EXCEPT ![p] = Append(@, "terminated")]
                ELSE inbox
    /\ UNCHANGED <<managerVars, threadVars, transport, installed, connects, markers, restarted>>

--------------------------------------------------------------------------------
Start ==
    \/ WatcherWakes \/ WatcherSleeps \/ StartConnects \/ StartRegisters \/ StartInserts
    \/ StartMarks \/ StartDrains \/ StartEnds \/ StartFails \/ StartMarksFailed
    \/ \E p \in Processes : StartBegins(p) \/ StartLists(p)
    \/ \E b \in Breakpoints : StartSyncs(b)

Handle(w) ==
    \/ HandlesStopped(w) \/ HandlesTerminated(w) \/ HandlesRetire(w)
    \/ HandlesDisconnect(w) \/ HandlesForget(w)

Read(p) == ReaderReads(p) \/ Handle(p)

Set(b) == \E p \in Processes : SetterSends(b, p)

Editor == EditorConfigures \/ RestartBegins \/ CloseBegins \/ \E b \in Breakpoints : EditorSets(b)

Debuggee(p) == ProcessStarts(p) \/ ProcessGivesUp(p) \/ ProcessStops(p) \/ ProcessExits(p)

Close(k) == CloserReturns(k) \/ \E p \in Processes : CloserCloses(k, p) \/ CloserForgets(k, p)

Next ==
    \/ Start \/ Handle(Watcher) \/ Editor
    \/ \E k \in Closers : Close(k)
    \/ \E p \in Processes : Read(p) \/ ProcessProceeds(p) \/ Debuggee(p)
    \/ \E b \in Breakpoints : Set(b)

Spec == Init /\ [][Next]_vars
\* No thread of the proxy stops for good in the middle of its work: each waits
\* at most for the answer to a request, which fails after a time.  The process
\* looks at its markers again and again; it is not asked to give up.
Fairness ==
    /\ WF_vars(Start) /\ WF_vars(Handle(Watcher))
    /\ \A k \in Closers : WF_vars(Close(k))
    /\ \A p \in Processes : WF_vars(Read(p)) /\ WF_vars(ProcessProceeds(p))
    /\ \A b \in Breakpoints : WF_vars(Set(b))

FairSpec == Spec /\ Fairness

--------------------------------------------------------------------------------
Events == {"stopped", "terminated"}

\* TYPE: every variable holds what the source keeps in it.
TypeOK ==
    /\ configured \in BOOLEAN /\ stop \in BOOLEAN
    /\ sessions \subseteq Processes /\ retired \subseteq Processes
    /\ known \subseteq Processes /\ wanted \subseteq Breakpoints
    /\ watcher \in [at : {"asleep", "next", "connect", "register", "insert", "sync",
                          "drain", "list", "mark failed"},
                    process : Processes \cup {Nobody}, records : SUBSET Processes,
                    given : SUBSET Breakpoints, missing : SUBSET Breakpoints,
                    listed : SUBSET Processes]
    /\ handler \in [Threads -> [at : {"idle", "stopped", "terminated", "retire",
                                     "disconnect", "forget"},
                                process : Processes \cup {Nobody}]]
    /\ setter \in [Breakpoints -> SUBSET Processes]
    /\ closing \in [Closers -> [at : {"idle", "closing"}, rest : SUBSET Processes,
                                forget : SUBSET Processes]]
    /\ transport \in [Processes -> {"none", "open", "closed"}]
    /\ installed \in [Processes -> SUBSET Breakpoints]
    /\ connects \in [Processes -> Nat]
    /\ inbox \in [Processes -> Seq(Events)] /\ buffer \in [Processes -> Seq(Events)]
    /\ debuggee \in [Processes -> Stages]
    /\ markers \subseteq Processes \X {"ready", "failed"}
    /\ restarted \subseteq retired

\* The managers's threads have nothing to do; the watcher looks for new processes.
AtRest ==
    /\ watcher.at \in {"asleep", "next"}
    /\ \A w \in Threads : handler[w] = Idle
    /\ \A k \in Closers : closing[k].at = "idle"

\* Breakpoints of the file were sent to the process.
Covered(p, b) == \E x \in installed[p] : x[1] = b[1]

\* SAFETY: breakpoints the editor has set are installed in every process with a
\* session, or somebody is about to send them: no file falls between the list the
\* connection began with and the list of sessions the editor's request goes to.
BreakpointsReach ==
    \A p \in sessions, b \in wanted :
        Answers(p) => \/ Covered(p, b)
                      \/ p \in setter[b]
                      \/ watcher.at = "sync" /\ watcher.process = p /\ b \in watcher.missing

\* STEP: a process that waits for the proxy is let go with the breakpoints of
\* every file, save those on their way, as long as its session is open.
ReleasedWithBreakpoints ==
    [][\A p \in Processes :
          p \in sessions /\ debuggee[p] = "waiting" /\ debuggee'[p] = "supported" =>
              \A b \in wanted : Covered(p, b) \/ p \in setter[b]]_vars

\* SAFETY: once the session has ended and its threads are done no connection is
\* left open, not even one that was being made meanwhile.
ConnectionsClosed ==
    stop /\ AtRest => \A p \in Processes : transport[p] # "open"

\* SAFETY: no process is attached twice, although its announcement is read again
\* every 25 ms and stays when it has failed, ended or been restarted.
ConnectedOnce == \A p \in Processes : connects[p] <= 1

\* LIVENESS: a process that waits is let go without its timeout, attached or not,
\* unless the editor has not finished configuring, restarts it or ends the session.
BootstrapReleased ==
    \A p \in Processes :
        debuggee[p] = "waiting" /\ configured
            ~> debuggee[p] # "waiting" \/ stop \/ p \in restarted
================================================================================
