-------------------------- MODULE DebugpyAttachProofs ---------------------------
(***************************************************************************)
(* What holds of DebugpyAttach.tla for every set of processes and source   *)
(* files and every number of edits: no file's breakpoints miss a process   *)
(* that is being attached, no process is attached twice, no connection     *)
(* outlives the session, and no process is let go before its breakpoints.  *)
(***************************************************************************)
EXTENDS DebugpyAttach, TLAPS

Stations == {"asleep", "next", "connect", "register", "insert", "sync", "drain", "list",
             "mark failed"}

WatcherStates ==
    [at : Stations, process : Processes \cup {Nobody}, records : SUBSET Processes,
     given : SUBSET Breakpoints, missing : SUBSET Breakpoints, listed : SUBSET Processes]

\* The part of TypeOK that the argument needs.
Types ==
    /\ watcher \in WatcherStates
    /\ sessions \subseteq Processes
    /\ wanted \subseteq Breakpoints
    /\ setter \in [Breakpoints -> SUBSET Processes]
    /\ installed \in [Processes -> SUBSET Breakpoints]
    /\ connects \in [Processes -> Nat]
    /\ transport \in [Processes -> {"none", "open", "closed"}]
    /\ debuggee \in [Processes -> Stages]

\* The process being attached has no session before the watcher inserts one, and
\* has been given every file the watcher copied before it connected.
Opening ==
    /\ watcher.at \in {"connect", "register", "insert"} =>
           watcher.process \in Processes \ sessions
    /\ watcher.at \in {"register", "insert"} =>
           \A b \in watcher.given : Covered(watcher.process, b)
    /\ watcher.at \in {"sync", "mark failed"} => watcher.process \in Processes

\* A process to which a connection was tried is not tried again: it has or had a
\* session, has failed, the proxy has stopped, or the watcher is at it.
Tried ==
    /\ watcher.at = "connect" => connects[watcher.process] = 0
    /\ \A p \in Processes :
          connects[p] # 0 => \/ p \in sessions \cup retired \/ stop
                             \/ watcher.at \in {"register", "insert"} /\ watcher.process = p

IInv ==
    /\ Types
    /\ Opening
    /\ BreakpointsReach
    /\ ConnectedOnce
    /\ Tried

--------------------------------------------------------------------------------
\* Setting a file covers it and uncovers none.
LEMMA SetInCovers ==
    ASSUME NEW B \in SUBSET Breakpoints, NEW b \in Breakpoints
    PROVE  /\ SetIn(B, b) \in SUBSET Breakpoints
           /\ b \in SetIn(B, b)
           /\ \A c : (\E x \in B : x[1] = c[1]) => \E x \in SetIn(B, b) : x[1] = c[1]
    BY DEF SetIn

--------------------------------------------------------------------------------
\* A step that neither touches the watcher, its processes' breakpoints nor the
\* editor's, opens no connection, and drops sessions only to retire them or when
\* the proxy stops.
LEMMA QuietInv ==
    ASSUME IInv,
           UNCHANGED <<watcher, wanted, setter, installed, connects>>,
           sessions' \subseteq sessions,
           stop => stop',
           sessions \cup retired \subseteq sessions' \cup retired' \/ stop',
           transport' \in [Processes -> {"none", "open", "closed"}],
           debuggee' \in [Processes -> Stages],
           \A p \in sessions' : Answers(p)' => Answers(p)
    PROVE  IInv'
    <1>1. Types'
        BY DEF IInv, Types
    <1>2. Opening'
        BY DEF IInv, Opening, Covered
    <1>3. BreakpointsReach'
        BY DEF IInv, BreakpointsReach, Covered
    <1>4. ConnectedOnce'
        BY DEF IInv, ConnectedOnce
    <1>5. Tried'
        BY DEF IInv, Tried
    <1> QED
        BY <1>1, <1>2, <1>3, <1>4, <1>5 DEF IInv

\* A step of the watcher that leaves it outside the opening of a session, and
\* touches nothing else that matters.
LEMMA WatcherInv ==
    ASSUME IInv,
           UNCHANGED <<wanted, setter, installed, connects, sessions, retired, stop,
                       transport, debuggee>>,
           watcher.at \notin {"connect", "register", "insert"},
           watcher.at = "sync" => watcher.missing = {},
           watcher'.at \in {"asleep", "next", "drain", "list"},
           watcher' \in WatcherStates
    PROVE  IInv'
    <1>1. Types'
        BY DEF IInv, Types
    <1>2. Opening'
        BY DEF Opening
    <1>3. BreakpointsReach'
        BY DEF IInv, BreakpointsReach, Covered, Answers
    <1>4. ConnectedOnce'
        BY DEF IInv, ConnectedOnce
    <1>5. Tried'
        BY DEF IInv, Tried
    <1> QED
        BY <1>1, <1>2, <1>3, <1>4, <1>5 DEF IInv

LEMMA InitInv == Init => IInv
    <1> SUFFICES ASSUME Init PROVE IInv
        OBVIOUS
    <1> USE DEF Init
    <1>1. watcher \in WatcherStates
        BY DEF Asleep, Stations, WatcherStates
    <1>2. Types
        BY <1>1 DEF Types, Stages
    <1>3. Opening /\ Tried
        BY DEF Opening, Tried, Asleep
    <1>4. BreakpointsReach /\ ConnectedOnce
        BY DEF BreakpointsReach, ConnectedOnce
    <1> QED
        BY <1>2, <1>3, <1>4 DEF IInv
--------------------------------------------------------------------------------
\* The watcher opening a session.
LEMMA StartBeginsInv ==
    ASSUME IInv, NEW p \in Processes, StartBegins(p)
    PROVE  IInv'
    <1> USE DEF StartBegins, managerVars, connectionVars, worldVars
    <1>1. Types'
        BY DEF IInv, Types, Stations, WatcherStates
    <1>2. Opening'
        BY DEF IInv, Types, WatcherStates, Opening, Startable
    <1>3. BreakpointsReach'
        BY DEF IInv, Types, WatcherStates, BreakpointsReach, Covered, Answers
    <1>4. ConnectedOnce'
        BY DEF IInv, ConnectedOnce
    <1>5. Tried'
        BY DEF IInv, Types, WatcherStates, Tried, Startable
    <1> QED
        BY <1>1, <1>2, <1>3, <1>4, <1>5 DEF IInv

LEMMA StartConnectsInv ==
    ASSUME IInv, StartConnects
    PROVE  IInv'
    <1> DEFINE p == watcher.process
    <1> USE DEF StartConnects, managerVars, worldVars
    <1>1. /\ p \in Processes \ sessions /\ connects[p] = 0
          /\ installed' = [installed EXCEPT ![p] = watcher.given]
          /\ connects' = [connects EXCEPT ![p] = @ + 1]
          /\ transport' = [transport EXCEPT ![p] = "open"]
          /\ watcher' = [watcher EXCEPT !.at = "register"]
        BY DEF IInv, Opening, Tried
    <1>2. Types'
        <2>1. watcher' \in WatcherStates
            BY <1>1 DEF IInv, Types, Stations, WatcherStates
        <2>2. installed' \in [Processes -> SUBSET Breakpoints]
            BY <1>1 DEF IInv, Types, WatcherStates
        <2>3. connects' \in [Processes -> Nat]
            BY <1>1 DEF IInv, Types
        <2> QED
            BY <1>1, <2>1, <2>2, <2>3 DEF IInv, Types
    <1>3. Opening'
        BY <1>1 DEF IInv, Types, WatcherStates, Opening, Covered
    <1>4. BreakpointsReach'
        BY <1>1 DEF IInv, Types, WatcherStates, BreakpointsReach, Covered, Answers
    <1>5. ConnectedOnce'
        BY <1>1 DEF IInv, Types, ConnectedOnce
    <1>6. Tried'
        BY <1>1 DEF IInv, Types, WatcherStates, Tried
    <1> QED
        BY <1>2, <1>3, <1>4, <1>5, <1>6 DEF IInv

LEMMA StartRegistersInv ==
    ASSUME IInv, StartRegisters
    PROVE  IInv'
    <1> USE DEF StartRegisters, connectionVars, worldVars
    <1>1. Types'
        BY DEF IInv, Types, Stations, WatcherStates
    <1>2. Opening'
        BY DEF IInv, Types, WatcherStates, Opening, Covered
    <1>3. BreakpointsReach'
        BY DEF IInv, Types, WatcherStates, BreakpointsReach, Covered, Answers
    <1>4. ConnectedOnce'
        BY DEF IInv, ConnectedOnce
    <1>5. Tried'
        BY DEF IInv, Types, WatcherStates, Tried
    <1> QED
        BY <1>1, <1>2, <1>3, <1>4, <1>5 DEF IInv

\* Every file of the new session is covered by what the connection began with or
\* is missing from it; and the watcher drops a connection only when the process
\* cannot be tried again.
LEMMA StartInsertsInv ==
    ASSUME IInv, StartInserts
    PROVE  IInv'
    <1> DEFINE p == watcher.process
    <1> USE DEF StartInserts, worldVars
    <1>0. p \in Processes \ sessions
        BY DEF IInv, Opening
    <1>1. CASE Startable(p)
        <2>1. /\ sessions' = sessions \cup {p}
              /\ watcher' = [watcher EXCEPT !.at = "sync", !.missing = wanted \ watcher.given]
              /\ UNCHANGED transport
            BY <1>1
        <2>2. Types'
            BY <1>0, <2>1 DEF IInv, Types, Stations, WatcherStates
        <2>3. Opening'
            BY <1>0, <2>1 DEF IInv, Types, WatcherStates, Opening
        <2>4. BreakpointsReach'
            <3> SUFFICES ASSUME NEW q \in sessions', NEW b \in wanted, Answers(q)
                         PROVE  \/ Covered(q, b) \/ q \in setter[b]
                                \/ watcher'.at = "sync" /\ watcher'.process = q
                                   /\ b \in watcher'.missing
                BY <2>1 DEF BreakpointsReach, Covered, Answers
            <3>1. CASE q = p
                BY <2>1, <3>1 DEF IInv, Types, WatcherStates, Opening
            <3>2. CASE q # p
                BY <2>1, <3>2 DEF IInv, BreakpointsReach
            <3> QED
                BY <3>1, <3>2
        <2>5. ConnectedOnce'
            BY DEF IInv, ConnectedOnce
        <2>6. Tried'
            BY <2>1 DEF IInv, Types, WatcherStates, Tried
        <2> QED
            BY <2>2, <2>3, <2>4, <2>5, <2>6 DEF IInv
    <1>2. CASE ~ Startable(p)
        <2>1. /\ sessions' = sessions
              /\ watcher' = [watcher EXCEPT !.at = "next"]
              /\ Disconnect({p})
            BY <1>2
        <2>2. Types'
            BY <2>1 DEF IInv, Types, Stations, WatcherStates, Disconnect
        <2>3. Opening'
            BY <2>1 DEF IInv, Types, WatcherStates, Opening
        <2>4. BreakpointsReach'
            BY <2>1 DEF IInv, Types, WatcherStates, BreakpointsReach, Covered, Answers, Disconnect
        <2>5. ConnectedOnce'
            BY DEF IInv, ConnectedOnce
        <2>6. Tried'
            BY <1>0, <1>2, <2>1 DEF IInv, Types, WatcherStates, Tried, Startable
        <2> QED
            BY <2>2, <2>3, <2>4, <2>5, <2>6 DEF IInv
    <1> QED
        BY <1>1, <1>2

LEMMA StartSyncsInv ==
    ASSUME IInv, NEW b \in Breakpoints, StartSyncs(b)
    PROVE  IInv'
    <1> DEFINE p == watcher.process
    <1> USE DEF StartSyncs, managerVars, worldVars
    <1>1. /\ p \in Processes /\ b \in watcher.missing /\ watcher.at = "sync"
          /\ installed' = [installed EXCEPT ![p] = SetIn(@, b)]
          /\ watcher' = [watcher EXCEPT !.missing = @ \ {b}]
        BY DEF IInv, Opening
    <1>2. installed[p] \in SUBSET Breakpoints
        BY <1>1 DEF IInv, Types
    <1>3. Types'
        <2>1. watcher' \in WatcherStates
            BY <1>1 DEF IInv, Types, WatcherStates
        <2>2. SetIn(installed[p], b) \in SUBSET Breakpoints
            BY <1>2, SetInCovers
        <2>3. installed' \in [Processes -> SUBSET Breakpoints]
            BY <1>1, <2>2 DEF IInv, Types
        <2> QED
            BY <2>1, <2>3 DEF IInv, Types
    <1>4. Opening'
        BY <1>1 DEF IInv, Types, WatcherStates, Opening
    <1>5. BreakpointsReach'
        <2> SUFFICES ASSUME NEW q \in sessions, NEW c \in wanted, Answers(q)
                     PROVE  \/ Covered(q, c)' \/ q \in setter[c]
                            \/ watcher'.at = "sync" /\ watcher'.process = q
                               /\ c \in watcher'.missing
            BY DEF BreakpointsReach, Answers
        <2>1. CASE q # p
            BY <1>1, <2>1 DEF IInv, Types, WatcherStates, BreakpointsReach, Covered
        <2>2. CASE q = p /\ c = b
            BY <1>1, <1>2, <2>2, SetInCovers DEF IInv, Types, Covered
        <2>3. CASE q = p /\ c # b
            <3>1. Covered(p, c) => Covered(p, c)'
                BY <1>1, <1>2, SetInCovers DEF IInv, Types, Covered
            <3> QED
                BY <1>1, <2>3, <3>1 DEF IInv, Types, WatcherStates, BreakpointsReach
        <2> QED
            BY <2>1, <2>2, <2>3
    <1>6. ConnectedOnce'
        BY DEF IInv, ConnectedOnce
    <1>7. Tried'
        BY <1>1 DEF IInv, Types, WatcherStates, Tried
    <1> QED
        BY <1>3, <1>4, <1>5, <1>6, <1>7 DEF IInv

LEMMA StartFailsInv ==
    ASSUME IInv, StartFails
    PROVE  IInv'
    <1> DEFINE p == watcher.process
    <1>1. /\ p \in Processes
          /\ watcher.at = "connect" => connects[p] = 0
          /\ watcher.at \in {"connect", "sync"}
          /\ watcher' = [watcher EXCEPT !.at = "mark failed"]
          /\ sessions' = sessions \ {p} /\ retired' = retired \cup {p}
          /\ UNCHANGED <<stop, wanted, setter, installed, debuggee>>
          /\ transport' = [q \in Processes |-> IF q = p THEN "closed" ELSE transport[q]]
        BY DEF IInv, Opening, Tried, StartFails, Disconnect, worldVars
    <1> DEFINE Counts == connects' \in [Processes -> Nat] /\ ConnectedOnce' /\ Tried'
    <1>2. ASSUME watcher.at = "connect" PROVE Counts
        <2>0. connects[p] = 0
            BY <1>1, <1>2
        <2>1. connects' = [connects EXCEPT ![p] = connects[p] + 1]
            BY <1>2 DEF StartFails
        <2>2. p \in Processes /\ connects \in [Processes -> Nat]
            BY <1>1 DEF IInv, Types
        <2>3. connects' = [q \in Processes |-> IF q = p THEN 1 ELSE connects[q]]
            <3>1. connects' = [q \in Processes |-> IF q = p THEN connects[p] + 1 ELSE connects[q]]
                BY <2>1, <2>2
            <3>2. connects[p] + 1 = 1
                BY <2>0
            <3> QED
                BY <3>1, <3>2
        <2>4. connects' \in [Processes -> Nat]
            BY <2>2, <2>3
        <2>5. ConnectedOnce'
            BY <2>2, <2>3 DEF IInv, ConnectedOnce
        <2>6. Tried'
            BY <1>1, <2>2, <2>3 DEF IInv, Types, WatcherStates, Tried
        <2> QED
            BY <2>4, <2>5, <2>6
    <1>3. ASSUME watcher.at # "connect" PROVE Counts
        <2>1. connects' = connects
            BY <1>3 DEF StartFails
        <2> QED
            BY <1>1, <1>3, <2>1 DEF IInv, Types, WatcherStates, ConnectedOnce, Tried
    <1>4. Types'
        <2>1. watcher' \in WatcherStates
            BY <1>1 DEF IInv, Types, Stations, WatcherStates
        <2>2. transport' \in [Processes -> {"none", "open", "closed"}]
            BY <1>1 DEF IInv, Types
        <2> QED
            BY <1>1, <1>2, <1>3, <2>1, <2>2 DEF IInv, Types
    <1>5. Opening'
        BY <1>1 DEF IInv, Types, WatcherStates, Opening
    <1>6. BreakpointsReach'
        BY <1>1 DEF IInv, Types, WatcherStates, BreakpointsReach, Covered, Answers
    <1> QED
        BY <1>2, <1>3, <1>4, <1>5, <1>6 DEF IInv

--------------------------------------------------------------------------------
\* The watcher elsewhere.
LEMMA StartInv ==
    ASSUME IInv, Start
    PROVE  IInv'
    <1> USE DEF managerVars, connectionVars, worldVars
    <1>1. CASE WatcherWakes
        BY <1>1, WatcherInv DEF WatcherWakes, IInv, Types, Stations, WatcherStates, Announced
    <1>2. CASE WatcherSleeps
        BY <1>2, WatcherInv DEF WatcherSleeps, Asleep, Stations, WatcherStates
    <1>3. CASE StartMarks
        BY <1>3, WatcherInv DEF StartMarks, IInv, Types, Stations, WatcherStates
    <1>4. CASE StartDrains
        <2>1. CASE buffer[watcher.process] = <<>>
            <3>1. watcher' = [watcher EXCEPT !.at = "list", !.listed = sessions]
                BY <1>4, <2>1 DEF StartDrains
            <3>2. watcher' \in WatcherStates /\ watcher'.at = "list"
                BY <3>1 DEF IInv, Types, Stations, WatcherStates
            <3> QED
                BY <1>4, <2>1, <3>2, WatcherInv DEF StartDrains
        <2>2. CASE buffer[watcher.process] # <<>>
            BY <1>4, <2>2, QuietInv DEF StartDrains, IInv, Types, Answers
        <2> QED
            BY <2>1, <2>2
    <1>5. ASSUME NEW p \in Processes, StartLists(p)
          PROVE  IInv'
        <2>1. watcher' \in WatcherStates /\ watcher'.at = "list"
            BY <1>5 DEF StartLists, IInv, Types, Stations, WatcherStates
        <2> QED
            BY <1>5, <2>1, WatcherInv DEF StartLists
    <1>6. CASE StartEnds
        BY <1>6, WatcherInv DEF StartEnds, IInv, Types, Stations, WatcherStates
    <1>7. CASE StartMarksFailed
        BY <1>7, WatcherInv DEF StartMarksFailed, IInv, Types, Stations, WatcherStates
    <1> QED
        BY <1>1, <1>2, <1>3, <1>4, <1>5, <1>6, <1>7, StartBeginsInv, StartConnectsInv,
           StartRegistersInv, StartInsertsInv, StartSyncsInv, StartFailsInv DEF Start

--------------------------------------------------------------------------------
\* Closing connections opens none.
LEMMA DisconnectFacts ==
    ASSUME IInv, NEW P, Disconnect(P), UNCHANGED debuggee
    PROVE  /\ transport' \in [Processes -> {"none", "open", "closed"}]
           /\ \A p \in Processes : Answers(p)' => Answers(p)
    BY DEF IInv, Types, Disconnect, Answers

LEMMA HandleInv ==
    ASSUME IInv, NEW w, Handle(w)
    PROVE  IInv'
    <1> USE DEF managerVars, connectionVars, worldVars
    <1>1. CASE HandlesStopped(w)
        BY <1>1, QuietInv DEF HandlesStopped, IInv, Types, Answers
    <1>2. CASE HandlesTerminated(w)
        BY <1>2, QuietInv DEF HandlesTerminated, IInv, Types, Answers
    <1>3. CASE HandlesRetire(w)
        BY <1>3, QuietInv DEF HandlesRetire, IInv, Types, Answers
    <1>4. CASE HandlesDisconnect(w)
        BY <1>4, QuietInv, DisconnectFacts DEF HandlesDisconnect, IInv, Types
    <1>5. CASE HandlesForget(w)
        BY <1>5, QuietInv DEF HandlesForget, IInv, Types, Answers
    <1> QED
        BY <1>1, <1>2, <1>3, <1>4, <1>5 DEF Handle

LEMMA ReadInv ==
    ASSUME IInv, NEW p \in Processes, Read(p)
    PROVE  IInv'
    <1>1. CASE ReaderReads(p)
        BY <1>1, QuietInv DEF ReaderReads, managerVars, worldVars, IInv, Types, Answers
    <1> QED
        BY <1>1, HandleInv DEF Read

LEMMA CloseInv ==
    ASSUME IInv, NEW k \in Closers, Close(k)
    PROVE  IInv'
    <1> USE DEF managerVars, connectionVars, worldVars
    <1>1. CASE CloserReturns(k)
        BY <1>1, QuietInv DEF CloserReturns, IInv, Types, Answers
    <1>2. ASSUME NEW p \in Processes, CloserCloses(k, p)
          PROVE  IInv'
        BY <1>2, QuietInv, DisconnectFacts DEF CloserCloses, IInv, Types
    <1>3. ASSUME NEW p \in Processes, CloserForgets(k, p)
          PROVE  IInv'
        BY <1>3, QuietInv DEF CloserForgets, IInv, Types, Answers
    <1> QED
        BY <1>1, <1>2, <1>3 DEF Close

LEMMA DebuggeeInv ==
    ASSUME IInv, NEW p \in Processes, ProcessProceeds(p) \/ Debuggee(p)
    PROVE  IInv'
    <1> USE DEF managerVars, threadVars, connectionVars, IInv, Types, Answers
    <1>1. CASE ProcessProceeds(p)
        <2>1. PICK stage \in {"supported", "unattended"} :
                  debuggee' = [debuggee EXCEPT ![p] = stage]
            BY <1>1 DEF ProcessProceeds
        <2>2. debuggee' \in [Processes -> Stages]
            BY <2>1 DEF Stages
        <2>3. \A q \in Processes : Answers(q)' => Answers(q)
            BY <1>1, <2>1 DEF ProcessProceeds
        <2> QED
            BY <1>1, <2>2, <2>3, QuietInv DEF ProcessProceeds
    <1>2. CASE ProcessStarts(p)
        BY <1>2, QuietInv DEF ProcessStarts, Stages
    <1>3. CASE ProcessGivesUp(p)
        BY <1>3, QuietInv DEF ProcessGivesUp, Stages
    <1>4. CASE ProcessStops(p)
        BY <1>4, QuietInv DEF ProcessStops, worldVars
    <1>5. CASE ProcessExits(p)
        BY <1>5, QuietInv DEF ProcessExits, Stages
    <1> QED
        BY <1>1, <1>2, <1>3, <1>4, <1>5 DEF Debuggee

--------------------------------------------------------------------------------
\* What the editor sets is sent to every session there is.
LEMMA EditorSetsInv ==
    ASSUME IInv, NEW b \in Breakpoints, EditorSets(b)
    PROVE  IInv'
    <1> USE DEF EditorSets, connectionVars, worldVars
    <1>1. Types'
        BY SetInCovers DEF IInv, Types
    <1>2. Opening'
        BY DEF IInv, Opening, Covered
    <1>3. BreakpointsReach'
        BY DEF IInv, Types, WatcherStates, BreakpointsReach, Covered, Answers, SetIn
    <1>4. ConnectedOnce'
        BY DEF IInv, ConnectedOnce
    <1>5. Tried'
        BY DEF IInv, Tried
    <1> QED
        BY <1>1, <1>2, <1>3, <1>4, <1>5 DEF IInv

LEMMA SetterSendsInv ==
    ASSUME IInv, NEW b \in Breakpoints, NEW p \in Processes, SetterSends(b, p)
    PROVE  IInv'
    <1> USE DEF SetterSends, managerVars, worldVars
    <1>1. installed[p] \in SUBSET Breakpoints
        BY DEF IInv, Types
    <1>2. Types'
        BY <1>1, SetInCovers DEF IInv, Types
    <1>3. \A q \in Processes : \A c : Covered(q, c) => Covered(q, c)'
        BY <1>1, SetInCovers DEF IInv, Types, Covered
    <1>4. Answers(p) => Covered(p, b)'
        BY <1>1, SetInCovers DEF IInv, Types, Covered
    <1>5. Opening'
        BY <1>3 DEF IInv, Opening
    <1>6. BreakpointsReach'
        BY <1>3, <1>4 DEF IInv, Types, WatcherStates, BreakpointsReach, Answers
    <1>7. ConnectedOnce'
        BY DEF IInv, ConnectedOnce
    <1>8. Tried'
        BY DEF IInv, Tried
    <1> QED
        BY <1>2, <1>5, <1>6, <1>7, <1>8 DEF IInv

LEMMA EditorInv ==
    ASSUME IInv, Editor
    PROVE  IInv'
    <1>1. CASE EditorConfigures
        BY <1>1, QuietInv DEF EditorConfigures, threadVars, connectionVars, worldVars,
           IInv, Types, Answers
    <1>2. CASE RestartBegins
        BY <1>2, QuietInv DEF RestartBegins, connectionVars, IInv, Types, Answers
    <1>3. CASE CloseBegins
        BY <1>3, QuietInv DEF CloseBegins, connectionVars, worldVars, IInv, Types, Answers
    <1> QED
        BY <1>1, <1>2, <1>3, EditorSetsInv DEF Editor

--------------------------------------------------------------------------------
LEMMA StepInv ==
    ASSUME IInv, [Next]_vars
    PROVE  IInv'
    <1>1. CASE Next
        BY <1>1, StartInv, HandleInv, EditorInv, CloseInv, ReadInv, DebuggeeInv,
           SetterSendsInv DEF Next, Set
    <1>2. CASE UNCHANGED vars
        BY <1>2, QuietInv DEF vars, managerVars, threadVars, connectionVars, worldVars,
           IInv, Types, Answers
    <1> QED
        BY <1>1, <1>2

LEMMA Invariance == Spec => []IInv
    BY InitInv, StepInv, PTL DEF Spec

--------------------------------------------------------------------------------
\* What is handled is an event of a process: a thread that handles one knows which,
\* and the watcher knows whose buffer it empties.
Occupied ==
    /\ \A w \in Threads : handler[w].at # "idle" => handler[w].process \in Processes
    /\ watcher.at = "drain" => watcher.process \in Processes

HandlerStates ==
    [at : {"idle", "stopped", "terminated", "retire", "disconnect", "forget"},
     process : Processes \cup {Nobody}]

ClosingStates ==
    [at : {"idle", "closing"}, rest : SUBSET Processes, forget : SUBSET Processes]

\* What TypeOK says that Types does not.
MoreTypes ==
    /\ configured \in BOOLEAN /\ stop \in BOOLEAN
    /\ retired \subseteq Processes /\ known \subseteq Processes
    /\ handler \in [Threads -> HandlerStates]
    /\ closing \in [Closers -> ClosingStates]
    /\ inbox \in [Processes -> Seq(Events)] /\ buffer \in [Processes -> Seq(Events)]
    /\ markers \subseteq Processes \X {"ready", "failed"}
    /\ restarted \subseteq retired

TInv == MoreTypes /\ Occupied

LEMMA EventsTaken ==
    ASSUME NEW s \in Seq(Events), s # <<>>
    PROVE  Head(s) \in Events /\ Tail(s) \in Seq(Events)
    OBVIOUS

LEMMA InitTypes == Init => TInv
    <1> SUFFICES ASSUME Init PROVE TInv
        OBVIOUS
    <1>1. Idle \in HandlerStates /\ Idle.at = "idle"
        BY DEF Idle, HandlerStates
    <1>2. handler \in [Threads -> HandlerStates] /\ Occupied
        BY <1>1 DEF Init, Occupied, Asleep
    <1>3. closing \in [Closers -> ClosingStates]
        BY DEF Init, ClosingStates
    <1>4. <<>> \in Seq(Events)
        OBVIOUS
    <1>5. inbox \in [Processes -> Seq(Events)] /\ buffer \in [Processes -> Seq(Events)]
        BY <1>4 DEF Init
    <1> QED
        BY <1>2, <1>3, <1>5 DEF Init, TInv, MoreTypes

\* A step that touches none of what is told apart here, or only adds to it what
\* it may hold.
LEMMA AsideTypes ==
    ASSUME TInv, UNCHANGED <<configured, stop, retired, handler, closing, restarted>>,
           known' \subseteq Processes, markers' \subseteq Processes \X {"ready", "failed"},
           inbox' \in [Processes -> Seq(Events)], buffer' \in [Processes -> Seq(Events)],
           watcher'.at = "drain" => watcher'.process \in Processes
    PROVE  TInv'
    BY DEF TInv, MoreTypes, Occupied

LEMMA StartTypes ==
    ASSUME IInv, TInv, Start
    PROVE  TInv'
    <1> USE DEF managerVars, connectionVars, worldVars, Opening, IInv, Types, WatcherStates,
            TInv, MoreTypes, Occupied
    <1>0. CASE WatcherWakes
        BY <1>0, AsideTypes DEF WatcherWakes
    <1>1. CASE WatcherSleeps
        BY <1>1, AsideTypes DEF WatcherSleeps, Asleep
    <1>2. CASE StartConnects \/ StartRegisters
        BY <1>2, AsideTypes DEF StartConnects, StartRegisters
    <1>3. CASE StartInserts
        <2>1. /\ watcher'.at # "drain"
              /\ UNCHANGED <<configured, stop, retired, handler, closing, restarted, known,
                             markers, inbox, buffer>>
            BY <1>3 DEF StartInserts
        <2> QED
            BY <2>1, AsideTypes
    <1>4. ASSUME NEW m \in {"ready", "failed"},
                 watcher.process \in Processes, watcher'.process = watcher.process,
                 markers' = markers \cup {<<watcher.process, m>>},
                 UNCHANGED <<managerVars, handler, buffer, closing, connectionVars, restarted>>
          PROVE  TInv'
        <2>1. <<watcher.process, m>> \in Processes \X {"ready", "failed"}
            BY <1>4
        <2>2. markers' \subseteq Processes \X {"ready", "failed"}
            BY <1>4, <2>1
        <2> QED
            BY <1>4, <2>2, AsideTypes
    <1>10. CASE StartMarks
        BY <1>10, <1>4 DEF StartMarks
    <1>11. CASE StartMarksFailed
        BY <1>11, <1>4 DEF StartMarksFailed
    <1>5. CASE StartDrains
        <2> DEFINE p == watcher.process
        <2>1. p \in Processes /\ buffer[p] \in Seq(Events)
            BY <1>5 DEF StartDrains
        <2>2. CASE buffer[p] = <<>>
            <3>1. /\ watcher' = [watcher EXCEPT !.at = "list", !.listed = sessions]
                  /\ UNCHANGED <<configured, stop, retired, handler, closing, restarted,
                                 known, markers, inbox, buffer>>
                BY <1>5, <2>2 DEF StartDrains
            <3>2. watcher'.at # "drain"
                BY <3>1
            <3> QED
                BY <3>1, <3>2, AsideTypes
        <2>3. CASE buffer[p] # <<>>
            <3>1. Head(buffer[p]) \in Events /\ Tail(buffer[p]) \in Seq(Events)
                BY <2>1, <2>3, EventsTaken
            <3>2. /\ handler' = [handler EXCEPT ![Watcher] =
                                    [at |-> Head(buffer[p]), process |-> p]]
                  /\ buffer' = [buffer EXCEPT ![p] = Tail(buffer[p])]
                  /\ UNCHANGED <<watcher, inbox>>
                BY <1>5, <2>3 DEF StartDrains
            <3>3. [at |-> Head(buffer[p]), process |-> p] \in HandlerStates
                BY <2>1, <3>1 DEF HandlerStates, Events
            <3>4. buffer' \in [Processes -> Seq(Events)]
                BY <2>1, <3>1, <3>2
            <3>5. handler' \in [Threads -> HandlerStates]
                BY <3>2, <3>3 DEF Threads
            <3>6. Occupied'
                BY <2>1, <3>2, <3>3
            <3> QED
                BY <1>5, <3>2, <3>4, <3>5, <3>6 DEF StartDrains
        <2> QED
            BY <2>2, <2>3
    <1>6. CASE StartEnds
        BY <1>6, AsideTypes DEF StartEnds
    <1>7. CASE StartFails
        BY <1>7 DEF StartFails
    <1>8. ASSUME NEW p \in Processes, StartBegins(p) \/ StartLists(p)
          PROVE  TInv'
        BY <1>8, AsideTypes DEF StartBegins, StartLists
    <1>9. ASSUME NEW b \in Breakpoints, StartSyncs(b)
          PROVE  TInv'
        BY <1>9, AsideTypes DEF StartSyncs
    <1> QED
        BY <1>0, <1>1, <1>2, <1>3, <1>5, <1>6, <1>7, <1>8, <1>9, <1>10, <1>11 DEF Start

\* A handler goes on with the process it has, or is done with it.
LEMMA HandlerTypes ==
    ASSUME TInv, NEW w \in Threads, handler[w].at # "idle",
           \/ Done(w)
           \/ \E at \in {"retire", "disconnect", "forget"} : Goto(w, at)
    PROVE  handler' \in [Threads -> HandlerStates]
           /\ \A v \in Threads : handler'[v].at # "idle" => handler'[v].process \in Processes
    <1> USE DEF TInv, MoreTypes, Occupied
    <1>1. CASE Done(w)
        <2>1. Idle \in HandlerStates /\ Idle.at = "idle"
            BY DEF Idle, HandlerStates
        <2>2. handler' = [handler EXCEPT ![w] = Idle] /\ handler \in [Threads -> HandlerStates]
            BY <1>1 DEF Done
        <2>3. \A v \in Threads : handler'[v] = IF v = w THEN Idle ELSE handler[v]
            BY <2>2
        <2> QED
            BY <2>1, <2>2, <2>3
    <1>2. ASSUME NEW at \in {"retire", "disconnect", "forget"}, Goto(w, at)
          PROVE  /\ handler' \in [Threads -> HandlerStates]
                 /\ \A v \in Threads :
                        handler'[v].at # "idle" => handler'[v].process \in Processes
        <2>1. handler \in [Threads -> HandlerStates] /\ handler[w].process \in Processes
            OBVIOUS
        <2>2. handler' = [handler EXCEPT ![w] = [handler[w] EXCEPT !.at = at]]
            BY <1>2 DEF Goto
        <2>3. [handler[w] EXCEPT !.at = at] \in HandlerStates
              /\ [handler[w] EXCEPT !.at = at].process = handler[w].process
            BY <1>2, <2>1 DEF HandlerStates
        <2>4. \A v \in Threads : handler'[v] =
                                   IF v = w THEN [handler[w] EXCEPT !.at = at] ELSE handler[v]
            BY <2>1, <2>2
        <2> QED
            BY <2>1, <2>2, <2>3, <2>4
    <1> QED
        BY <1>1, <1>2

LEMMA HandleTypes ==
    ASSUME IInv, TInv, NEW w \in Threads, Handle(w)
    PROVE  TInv'
    <1> USE DEF managerVars, connectionVars, worldVars
    <1>0. handler[w].process \in Processes /\ handler[w].at # "idle"
        BY DEF TInv, Occupied, Handle, HandlesStopped, HandlesTerminated, HandlesRetire,
           HandlesDisconnect, HandlesForget
    <1>1. CASE HandlesStopped(w)
        BY <1>0, <1>1, HandlerTypes DEF HandlesStopped, TInv, MoreTypes, Occupied
    <1>2. CASE HandlesTerminated(w)
        BY <1>0, <1>2, HandlerTypes DEF HandlesTerminated, TInv, MoreTypes, Occupied
    <1>3. CASE HandlesRetire(w)
        BY <1>0, <1>3, HandlerTypes DEF HandlesRetire, TInv, MoreTypes, Occupied
    <1>4. CASE HandlesDisconnect(w)
        BY <1>0, <1>4, HandlerTypes DEF HandlesDisconnect, TInv, MoreTypes, Occupied
    <1>5. CASE HandlesForget(w)
        BY <1>0, <1>5, HandlerTypes DEF HandlesForget, TInv, MoreTypes, Occupied
    <1> QED
        BY <1>1, <1>2, <1>3, <1>4, <1>5 DEF Handle

\* What the reader takes from the connection it handles or buffers.
LEMMA ReaderTypes ==
    ASSUME IInv, TInv, NEW p \in Processes, ReaderReads(p)
    PROVE  TInv'
    <1> USE DEF managerVars, worldVars, TInv, MoreTypes, Occupied
    <1>1. inbox[p] \in Seq(Events) /\ inbox[p] # <<>> /\ buffer[p] \in Seq(Events)
        BY DEF ReaderReads
    <1>2. Head(inbox[p]) \in Events /\ Tail(inbox[p]) \in Seq(Events)
        BY <1>1, EventsTaken
    <1>3. inbox' \in [Processes -> Seq(Events)]
        BY <1>2 DEF ReaderReads
    <1>4. [at |-> Head(inbox[p]), process |-> p] \in HandlerStates
        BY <1>2 DEF HandlerStates, Events
    <1>5. CASE p \in sessions
        <2>1. handler' = [handler EXCEPT ![p] = [at |-> Head(inbox[p]), process |-> p]]
              /\ UNCHANGED <<buffer, watcher>>
            BY <1>5 DEF ReaderReads
        <2>2. handler' \in [Threads -> HandlerStates] /\ Occupied'
            BY <1>4, <2>1 DEF Threads
        <2> QED
            BY <1>3, <2>1, <2>2 DEF ReaderReads
    <1>6. CASE p \notin sessions
        <2>1. buffer' = [buffer EXCEPT ![p] = Append(buffer[p], Head(inbox[p]))]
              /\ UNCHANGED <<handler, watcher>>
            BY <1>6 DEF ReaderReads
        <2>2. buffer' \in [Processes -> Seq(Events)]
            BY <1>1, <1>2, <2>1
        <2> QED
            BY <1>3, <2>1, <2>2, AsideTypes DEF ReaderReads
    <1> QED
        BY <1>5, <1>6

LEMMA CloseTypes ==
    ASSUME IInv, TInv, NEW k \in Closers, Close(k)
    PROVE  TInv'
    <1> USE DEF managerVars, connectionVars, worldVars, TInv, MoreTypes, Occupied,
            ClosingStates
    <1>1. CASE CloserReturns(k)
        BY <1>1 DEF CloserReturns
    <1>2. ASSUME NEW p \in Processes, CloserCloses(k, p)
          PROVE  TInv'
        BY <1>2 DEF CloserCloses
    <1>3. ASSUME NEW p \in Processes, CloserForgets(k, p)
          PROVE  TInv'
        BY <1>3 DEF CloserForgets
    <1> QED
        BY <1>1, <1>2, <1>3 DEF Close

LEMMA EditorTypes ==
    ASSUME IInv, TInv, Editor
    PROVE  TInv'
    <1> USE DEF connectionVars, worldVars, threadVars, TInv, MoreTypes, Occupied
    <1>1. CASE EditorConfigures
        BY <1>1 DEF EditorConfigures
    <1>2. CASE RestartBegins
        BY <1>2 DEF RestartBegins, IInv, Types, ClosingStates, Closers
    <1>3. CASE CloseBegins
        BY <1>3 DEF CloseBegins, IInv, Types, ClosingStates, Closers
    <1>4. ASSUME NEW b \in Breakpoints, EditorSets(b)
          PROVE  TInv'
        BY <1>4 DEF EditorSets
    <1> QED
        BY <1>1, <1>2, <1>3, <1>4 DEF Editor

LEMMA DebuggeeTypes ==
    ASSUME TInv, NEW p \in Processes, ProcessProceeds(p) \/ Debuggee(p)
    PROVE  TInv'
    <1> USE DEF managerVars, threadVars, connectionVars, TInv, MoreTypes, Occupied
    <1>1. CASE ProcessProceeds(p) \/ ProcessStarts(p) \/ ProcessGivesUp(p)
        BY <1>1 DEF ProcessProceeds, ProcessStarts, ProcessGivesUp
    <1>2. \A e \in Events : Append(inbox[p], e) \in Seq(Events)
        OBVIOUS
    <1>3. CASE ProcessStops(p)
        <2>1. inbox' = [inbox EXCEPT ![p] = Append(inbox[p], "stopped")]
            BY <1>3 DEF ProcessStops
        <2>2. inbox' \in [Processes -> Seq(Events)]
            BY <1>2, <2>1 DEF Events
        <2> QED
            BY <1>3, <2>2, AsideTypes DEF ProcessStops, worldVars
    <1>4. CASE ProcessExits(p)
        <2>1. \/ inbox' = [inbox EXCEPT ![p] = Append(inbox[p], "terminated")]
              \/ UNCHANGED inbox
            BY <1>4 DEF ProcessExits
        <2>2. inbox' \in [Processes -> Seq(Events)]
            BY <1>2, <2>1 DEF Events
        <2> QED
            BY <1>4, <2>2, AsideTypes DEF ProcessExits
    <1> QED
        BY <1>1, <1>3, <1>4 DEF Debuggee

LEMMA StepTypes ==
    ASSUME IInv, TInv, [Next]_vars
    PROVE  TInv'
    <1>1. ASSUME NEW b, Set(b)
          PROVE  TInv'
        BY <1>1, AsideTypes DEF Set, SetterSends, managerVars, TInv, MoreTypes, Occupied,
           worldVars
    <1>2. CASE UNCHANGED vars
        BY <1>2, AsideTypes DEF vars, managerVars, threadVars, connectionVars, worldVars,
           TInv, MoreTypes, Occupied
    <1> QED
        BY <1>1, <1>2, StartTypes, HandleTypes, ReaderTypes, CloseTypes, EditorTypes,
           DebuggeeTypes DEF Next, Read, Threads

\* THEOREM: every variable of the attachment keeps to its type; in particular no
\* thread ever handles an event of no process, or marks one (_handle_event,
\* _start_process).
THEOREM TypeCorrect == Spec => []TypeOK
    <1>1. IInv /\ TInv => TypeOK
        BY DEF IInv, Types, WatcherStates, Stations, TInv, MoreTypes, HandlerStates,
           ClosingStates, TypeOK
    <1>2. Init => IInv /\ TInv
        BY InitInv, InitTypes
    <1>3. IInv /\ TInv /\ [Next]_vars => (IInv /\ TInv)'
        BY StepInv, StepTypes
    <1> QED
        BY <1>1, <1>2, <1>3, PTL DEF Spec

--------------------------------------------------------------------------------
\* THEOREM: whatever the watcher, the editor's request threads, the readers and
\* the debuggees do meanwhile, the breakpoints of no file miss a process with a
\* session (_start_process and add_breakpoints).
THEOREM BreakpointsReachEverySession == Spec => []BreakpointsReach
    <1>1. IInv => BreakpointsReach
        BY DEF IInv
    <1> QED
        BY <1>1, Invariance, PTL

\* THEOREM: the watcher never connects twice to one process (_start_process).
THEOREM NoProcessAttachedTwice == Spec => []ConnectedOnce
    <1>1. IInv => ConnectedOnce
        BY DEF IInv
    <1> QED
        BY <1>1, Invariance, PTL
--------------------------------------------------------------------------------
\* Closing.  Threads and closers are records of the shape their code gives them.
Shapes ==
    /\ DOMAIN handler = Threads
    /\ \A w \in Threads :
          handler[w] = [at |-> handler[w].at, process |-> handler[w].process]
    /\ closing \in [Closers -> [at : {"idle", "closing"}, rest : SUBSET Processes,
                                forget : SUBSET Processes]]

\* Somebody who will close the connection, or who hands it to somebody.
Charged(p) ==
    \/ p \in sessions
    \/ watcher.at \in {"register", "insert"} /\ watcher.process = p
    \/ \E k \in Closers : p \in closing[k].rest
    \/ \E w \in Threads : handler[w].at = "disconnect" /\ handler[w].process = p

\* Every open connection has somebody in charge of it, and there are no sessions
\* once the proxy has stopped.
Charge ==
    /\ \A p \in Processes : transport[p] = "open" => Charged(p)
    /\ \A k \in Closers : closing[k].at = "idle" => closing[k].rest = {}
    /\ ~ stop => closing["close"].at = "idle"
    /\ stop => sessions = {}

CInv == Shapes /\ Charge

LEMMA InitCharge == Init => CInv
    BY DEF Init, CInv, Shapes, Charge, Charged, Idle, Closers, Asleep

\* Steps of no consequence for connections.
LEMMA AsideCharge ==
    ASSUME CInv, UNCHANGED <<sessions, stop, closing, handler, transport>>,
           watcher.at \in {"register", "insert"} =>
               watcher'.at \in {"register", "insert"} /\ watcher'.process = watcher.process
    PROVE  CInv'
    BY DEF CInv, Shapes, Charge, Charged

\* The watcher is in charge of the connection it makes.
LEMMA StartConnectsCharge ==
    ASSUME IInv, CInv, StartConnects
    PROVE  CInv'
    BY DEF IInv, Types, WatcherStates, CInv, Shapes, Charge, Charged, StartConnects,
       managerVars

\* It hands the connection to the session, or closes it.
LEMMA StartInsertsCharge ==
    ASSUME IInv, CInv, StartInserts
    PROVE  CInv'
    BY DEF IInv, Types, WatcherStates, CInv, Shapes, Charge, Charged, StartInserts,
       Startable, Disconnect

LEMMA StartFailsCharge ==
    ASSUME IInv, CInv, StartFails
    PROVE  CInv'
    <1> DEFINE p == watcher.process
    <1>1. /\ watcher.at \in {"connect", "sync"} /\ sessions' = sessions \ {p}
          /\ UNCHANGED <<stop, closing, handler>>
          /\ transport' = [q \in Processes |-> IF q = p THEN "closed" ELSE transport[q]]
        BY DEF StartFails, Disconnect
    <1>2. \A q \in Processes : q # p /\ Charged(q) => Charged(q)'
        BY <1>1 DEF Charged
    <1> QED
        BY <1>1, <1>2 DEF CInv, Shapes, Charge

\* A thread that takes up an event was not in charge of anything.
LEMMA TakesUpCharge ==
    ASSUME CInv, NEW w \in Threads, NEW h, handler[w] = Idle,
           handler' = [handler EXCEPT ![w] = h],
           h = [at |-> h.at, process |-> h.process],
           UNCHANGED <<watcher, sessions, stop, closing, transport>>
    PROVE  CInv'
    <1>1. \A v \in Threads : v # w => handler'[v] = handler[v]
        BY DEF CInv, Shapes
    <1>2. handler'[w] = h /\ handler[w].at = "idle"
        BY DEF CInv, Shapes, Idle
    <1>3. Shapes'
        BY <1>1, <1>2 DEF CInv, Shapes
    <1>4. \A p \in Processes : Charged(p) => Charged(p)'
        BY <1>1, <1>2 DEF Charged
    <1> QED
        BY <1>3, <1>4 DEF CInv, Charge

LEMMA StartDrainsCharge ==
    ASSUME IInv, CInv, StartDrains
    PROVE  CInv'
    <1>1. CASE buffer[watcher.process] = <<>>
        BY <1>1, AsideCharge DEF StartDrains, managerVars, connectionVars
    <1>2. CASE buffer[watcher.process] # <<>>
        BY <1>2, TakesUpCharge DEF StartDrains, managerVars, connectionVars, Threads
    <1> QED
        BY <1>1, <1>2

LEMMA ReaderReadsCharge ==
    ASSUME CInv, NEW p \in Processes, ReaderReads(p)
    PROVE  CInv'
    <1>1. CASE p \in sessions
        BY <1>1, TakesUpCharge DEF ReaderReads, managerVars, Threads
    <1>2. CASE p \notin sessions
        BY <1>2, AsideCharge DEF ReaderReads, managerVars
    <1> QED
        BY <1>1, <1>2

\* The thread that takes a session away closes its connection next.
LEMMA HandleCharge ==
    ASSUME IInv, CInv, NEW w \in Threads, Handle(w)
    PROVE  CInv'
    <1> USE DEF CInv, Shapes, Charge, Charged, managerVars, connectionVars
    <1>1. CASE HandlesStopped(w)
        BY <1>1 DEF HandlesStopped, Done, Idle
    <1>2. CASE HandlesTerminated(w)
        BY <1>2 DEF HandlesTerminated, Goto
    <1>3. CASE HandlesRetire(w)
        BY <1>3 DEF HandlesRetire, Goto
    <1>4. CASE HandlesDisconnect(w)
        BY <1>4 DEF HandlesDisconnect, Goto, Disconnect, IInv, Types
    <1>5. CASE HandlesForget(w)
        BY <1>5 DEF HandlesForget, Done, Idle
    <1> QED
        BY <1>1, <1>2, <1>3, <1>4, <1>5 DEF Handle

\* A closer takes over every session, and begins with none left over.
LEMMA BeginsCharge ==
    ASSUME IInv, CInv, RestartBegins \/ CloseBegins
    PROVE  CInv'
    <1> USE DEF CInv, Shapes, Charge, Charged, Closers, connectionVars, IInv, Types
    <1>1. CASE RestartBegins
        BY <1>1 DEF RestartBegins
    <1>2. CASE CloseBegins
        BY <1>2 DEF CloseBegins
    <1> QED
        BY <1>1, <1>2

LEMMA CloseCharge ==
    ASSUME IInv, CInv, NEW k \in Closers, Close(k)
    PROVE  CInv'
    <1> USE DEF CInv, Shapes, Charge, Charged, Closers, managerVars, connectionVars
    <1>1. CASE CloserReturns(k)
        BY <1>1 DEF CloserReturns
    <1>2. ASSUME NEW p \in Processes, CloserCloses(k, p)
          PROVE  CInv'
        BY <1>2 DEF CloserCloses, Disconnect, IInv, Types
    <1>3. ASSUME NEW p \in Processes, CloserForgets(k, p)
          PROVE  CInv'
        BY <1>3 DEF CloserForgets
    <1> QED
        BY <1>1, <1>2, <1>3 DEF Close

LEMMA StartCharge ==
    ASSUME IInv, CInv, Start
    PROVE  CInv'
    <1> USE DEF managerVars, connectionVars, worldVars
    <1>1. CASE WatcherWakes
        BY <1>1, AsideCharge DEF WatcherWakes
    <1>2. CASE WatcherSleeps
        BY <1>2, AsideCharge DEF WatcherSleeps
    <1>3. ASSUME NEW p \in Processes, StartBegins(p)
          PROVE  CInv'
        BY <1>3, AsideCharge DEF StartBegins
    <1>4. CASE StartRegisters
        BY <1>4, AsideCharge DEF StartRegisters, IInv, Types, WatcherStates
    <1>5. ASSUME NEW b \in Breakpoints, StartSyncs(b)
          PROVE  CInv'
        BY <1>5, AsideCharge DEF StartSyncs
    <1>6. CASE StartMarks
        BY <1>6, AsideCharge DEF StartMarks
    <1>7. ASSUME NEW p \in Processes, StartLists(p)
          PROVE  CInv'
        BY <1>7, AsideCharge DEF StartLists
    <1>8. CASE StartEnds
        BY <1>8, AsideCharge DEF StartEnds
    <1>9. CASE StartMarksFailed
        BY <1>9, AsideCharge DEF StartMarksFailed
    <1> QED
        BY <1>1, <1>2, <1>3, <1>4, <1>5, <1>6, <1>7, <1>8, <1>9, StartConnectsCharge,
           StartInsertsCharge, StartFailsCharge, StartDrainsCharge DEF Start

LEMMA WorldCharge ==
    ASSUME CInv, NEW p \in Processes, ProcessProceeds(p) \/ Debuggee(p)
    PROVE  CInv'
    <1> USE DEF managerVars, threadVars, connectionVars, worldVars
    <1>1. UNCHANGED <<sessions, stop, closing, handler, transport, watcher>>
        BY DEF ProcessProceeds, Debuggee, ProcessStarts, ProcessGivesUp, ProcessStops,
           ProcessExits
    <1> QED
        BY <1>1, AsideCharge

LEMMA StepCharge ==
    ASSUME IInv, CInv, [Next]_vars
    PROVE  CInv'
    <1> USE DEF managerVars, threadVars, connectionVars, worldVars
    <1>1. CASE EditorConfigures
        BY <1>1, AsideCharge DEF EditorConfigures
    <1>2. ASSUME NEW b \in Breakpoints, EditorSets(b)
          PROVE  CInv'
        BY <1>2, AsideCharge DEF EditorSets
    <1>3. ASSUME NEW b \in Breakpoints, NEW p \in Processes, SetterSends(b, p)
          PROVE  CInv'
        BY <1>3, AsideCharge DEF SetterSends
    <1>4. CASE UNCHANGED vars
        BY <1>4, AsideCharge DEF vars
    <1> QED
        BY <1>1, <1>2, <1>3, <1>4, StartCharge, HandleCharge, ReaderReadsCharge,
           BeginsCharge, CloseCharge, WorldCharge DEF Next, Editor, Read, Set, Threads

\* THEOREM: once the proxy has stopped and its threads are done no connection to
\* a debugpy is left open, neither one that was being made while close or
\* prepare_restart ran nor one whose process ended (PythonProcessManager.close).
THEOREM NoConnectionOutlivesTheSession == Spec => []ConnectionsClosed
    <1>1. CInv => ConnectionsClosed
        BY DEF CInv, Charge, Charged, ConnectionsClosed, AtRest, Idle
    <1>2. Spec => []CInv
        <2>1. Spec => []IInv
            BY Invariance
        <2>2. IInv /\ CInv /\ [Next]_vars => CInv'
            BY StepCharge
        <2> QED
            BY <2>1, <2>2, InitCharge, PTL DEF Spec
    <1> QED
        BY <1>1, <1>2, PTL
--------------------------------------------------------------------------------
\* Letting go.  A marker says that the attachment is past sending breakpoints.
Marked ==
    /\ watcher.at \in {"register", "insert", "sync"} => connects[watcher.process] # 0
    /\ \A p \in Processes :
          <<p, "ready">> \in markers =>
              /\ connects[p] # 0
              /\ watcher.process = p =>
                     watcher.at \notin {"connect", "register", "insert", "sync"}

\* Steps that write no marker and neither begin nor continue an attachment.
LEMMA AsideMarked ==
    ASSUME Marked, connects' = connects, markers' \subseteq markers,
           \/ watcher' = watcher
           \/ watcher'.at \notin {"connect", "register", "insert", "sync"}
           \/ /\ watcher.at \in {"register", "insert", "sync"}
              /\ watcher'.at \in {"register", "insert", "sync"}
              /\ watcher'.process = watcher.process
    PROVE  Marked'
    BY DEF Marked

\* An attachment that begins is of a process that was never connected to.
LEMMA StartBeginsMarked ==
    ASSUME IInv, Marked, NEW p \in Processes, StartBegins(p)
    PROVE  Marked'
    <1>1. CASE Startable(p)
        <2>1. connects[p] = 0
            BY <1>1 DEF StartBegins, Startable, IInv, Tried
        <2>2. watcher'.at = "connect" /\ watcher'.process = p
            BY <1>1 DEF StartBegins, IInv, Types, WatcherStates
        <2> QED
            BY <2>1, <2>2 DEF Marked, StartBegins, connectionVars, worldVars
    <1>2. CASE ~ Startable(p)
        <2>1. watcher'.at = "next"
            BY <1>2 DEF StartBegins, IInv, Types, WatcherStates
        <2> QED
            BY <2>1, AsideMarked DEF StartBegins, connectionVars, worldVars
    <1> QED
        BY <1>1, <1>2

LEMMA StartConnectsMarked ==
    ASSUME IInv, Marked, StartConnects
    PROVE  Marked'
    <1> DEFINE p == watcher.process
    <1>1. /\ watcher.at = "connect" /\ p \in Processes /\ connects[p] = 0
          /\ connects' = [connects EXCEPT ![p] = @ + 1]
          /\ watcher'.process = p /\ watcher'.at = "register" /\ markers' = markers
        BY DEF StartConnects, worldVars, IInv, Opening, Tried, Types, WatcherStates
    <1>2. connects'[p] # 0 /\ \A q \in Processes : q # p => connects'[q] = connects[q]
        BY <1>1 DEF IInv, Types
    <1> QED
        BY <1>1, <1>2 DEF Marked

LEMMA StartFailsMarked ==
    ASSUME IInv, Marked, StartFails
    PROVE  Marked'
    <1>1. watcher'.at = "mark failed" /\ markers' = markers
        BY DEF StartFails, worldVars, IInv, Types, WatcherStates
    <1>2. connects \in [Processes -> Nat] /\ watcher.process \in Processes
        BY DEF StartFails, IInv, Types, Opening
    <1>3. \/ connects' = connects
          \/ connects' = [connects EXCEPT ![watcher.process] = @ + 1]
        BY DEF StartFails
    <1>4. \A q \in Processes : connects[q] # 0 => connects'[q] # 0
        BY <1>2, <1>3
    <1> QED
        BY <1>1, <1>4 DEF Marked

LEMMA StartMarked ==
    ASSUME IInv, Marked, Start
    PROVE  Marked'
    <1> USE DEF managerVars, connectionVars, worldVars, IInv, Types, WatcherStates
    <1>1. CASE WatcherWakes
        BY <1>1, AsideMarked DEF WatcherWakes
    <1>2. CASE WatcherSleeps
        BY <1>2, AsideMarked DEF WatcherSleeps, Asleep
    <1>3. CASE StartRegisters
        BY <1>3, AsideMarked DEF StartRegisters
    <1>4. CASE StartInserts
        BY <1>4, AsideMarked DEF StartInserts
    <1>5. ASSUME NEW b \in Breakpoints, StartSyncs(b)
          PROVE  Marked'
        BY <1>5, AsideMarked DEF StartSyncs
    <1>6. CASE StartMarks
        BY <1>6 DEF StartMarks, Marked
    <1>7. CASE StartDrains
        BY <1>7, AsideMarked DEF StartDrains
    <1>8. ASSUME NEW p \in Processes, StartLists(p)
          PROVE  Marked'
        BY <1>8, AsideMarked DEF StartLists
    <1>9. CASE StartEnds
        BY <1>9, AsideMarked DEF StartEnds
    <1>10. CASE StartMarksFailed
        BY <1>10 DEF StartMarksFailed, Marked
    <1> QED
        BY <1>1, <1>2, <1>3, <1>4, <1>5, <1>6, <1>7, <1>8, <1>9, <1>10, StartBeginsMarked,
           StartConnectsMarked, StartFailsMarked DEF Start

\* No other thread writes the marker.
LEMMA StepMarked ==
    ASSUME IInv, Marked, [Next]_vars
    PROVE  Marked'
    <1> USE DEF managerVars, threadVars, connectionVars, worldVars
    <1>1. ASSUME NEW w, Handle(w)
          PROVE  Marked'
        BY <1>1, AsideMarked DEF Handle, HandlesStopped, HandlesTerminated, HandlesRetire,
           HandlesDisconnect, HandlesForget
    <1>2. CASE Editor
        BY <1>2, AsideMarked DEF Editor, EditorConfigures, EditorSets, RestartBegins,
           CloseBegins
    <1>3. ASSUME NEW k, Close(k)
          PROVE  Marked'
        BY <1>3, AsideMarked DEF Close, CloserReturns, CloserCloses, CloserForgets
    <1>4. ASSUME NEW p, ReaderReads(p) \/ ProcessProceeds(p) \/ Debuggee(p)
          PROVE  Marked'
        BY <1>4, AsideMarked DEF ReaderReads, ProcessProceeds, Debuggee, ProcessStarts,
           ProcessGivesUp, ProcessStops, ProcessExits
    <1>5. ASSUME NEW b, Set(b)
          PROVE  Marked'
        BY <1>5, AsideMarked DEF Set, SetterSends
    <1>6. CASE UNCHANGED vars
        BY <1>6, AsideMarked DEF vars
    <1> QED
        BY <1>1, <1>2, <1>3, <1>4, <1>5, <1>6, StartMarked DEF Next, Read

\* Only ProcessProceeds lets a process go that waits, and it waits for the marker.
LEMMA LetGo ==
    ASSUME Types, [Next]_vars, NEW p \in Processes,
           debuggee[p] = "waiting", debuggee'[p] = "supported"
    PROVE  transport[p] = "open" /\ <<p, "ready">> \in markers /\ UNCHANGED installed
    <1> USE DEF managerVars, threadVars, connectionVars, worldVars
    <1>1. debuggee' # debuggee
        OBVIOUS
    <1>2. PICK q \in Processes : ProcessProceeds(q) \/ Debuggee(q)
        <2>1. ~ Start
            BY <1>1 DEF Start, WatcherWakes, WatcherSleeps, StartConnects, StartRegisters,
               StartInserts, StartMarks, StartDrains, StartEnds, StartFails,
               StartMarksFailed, StartBegins, StartLists, StartSyncs
        <2>2. \A w : ~ Handle(w)
            BY <1>1 DEF Handle, HandlesStopped, HandlesTerminated, HandlesRetire,
               HandlesDisconnect, HandlesForget
        <2>3. ~ Editor
            BY <1>1 DEF Editor, EditorConfigures, EditorSets, RestartBegins, CloseBegins
        <2>4. \A k : ~ Close(k)
            BY <1>1 DEF Close, CloserReturns, CloserCloses, CloserForgets
        <2>5. \A b : ~ Set(b)
            BY <1>1 DEF Set, SetterSends
        <2>6. \A q : ~ ReaderReads(q)
            BY <1>1 DEF ReaderReads
        <2>7. ~ UNCHANGED vars
            BY <1>1 DEF vars
        <2> QED
            BY <2>1, <2>2, <2>3, <2>4, <2>5, <2>6, <2>7 DEF Next, Read
    <1>3. debuggee \in [Processes -> Stages]
        BY DEF Types
    <1>4. ProcessProceeds(q) /\ q = p
        BY <1>2, <1>3 DEF ProcessProceeds, Debuggee, ProcessStarts, ProcessGivesUp,
           ProcessStops, ProcessExits
    <1> QED
        BY <1>3, <1>4 DEF ProcessProceeds

\* THEOREM: a process is never let go without the breakpoints of a file the editor
\* has set, unless a request that carries them is on its way (_wait_for_client,
\* _start_process).
THEOREM NoneReleasedWithoutBreakpoints == Spec => ReleasedWithBreakpoints
    <1> DEFINE Step ==
            \A p \in Processes :
                p \in sessions /\ debuggee[p] = "waiting" /\ debuggee'[p] = "supported" =>
                    \A b \in wanted : Covered(p, b) \/ p \in setter[b]
    <1>1. IInv /\ Marked /\ [Next]_vars => Step
        <2> SUFFICES ASSUME IInv, Marked, [Next]_vars, NEW p \in Processes, p \in sessions,
                            debuggee[p] = "waiting", debuggee'[p] = "supported",
                            NEW b \in wanted
                     PROVE  Covered(p, b) \/ p \in setter[b]
            OBVIOUS
        <2>1. transport[p] = "open" /\ <<p, "ready">> \in markers
            BY LetGo DEF IInv
        <2>2. Answers(p)
            BY <2>1 DEF Answers
        <2> QED
            BY <2>1, <2>2 DEF IInv, BreakpointsReach, Marked
    <1>2. Init => Marked
        BY DEF Init, Marked, Asleep
    <1>3. IInv /\ Marked /\ [Next]_vars => Marked'
        BY StepMarked
    <1>4. [Step]_vars <=> (Step \/ UNCHANGED vars)
        OBVIOUS
    <1> QED
        BY <1>1, <1>2, <1>3, Invariance, PTL DEF Spec, ReleasedWithBreakpoints
================================================================================
