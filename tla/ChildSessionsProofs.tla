--------------------------- MODULE ChildSessionsProofs --------------------------
(***************************************************************************)
(* What holds of ChildSessions.tla for any number of children, threads,    *)
(* hook threads, stops and connections: the virtual ids always lead to what *)
(* they were given for, no connection is left open, nor process left        *)
(* registered, that nobody is in charge of, and the marker of a child is    *)
(* written only once its CodeLLDB has let it run.  The ids the editor is    *)
(* shown while their stop lasts are of one stop, and lead somewhere unless   *)
(* the child was being resumed when they were shown.                        *)
(***************************************************************************)
EXTENDS ChildSessions, SequenceTheorems, TLAPS

RoutesAgree == Agrees(frames) /\ Agrees(variables)

\* An id of the later table that the earlier one had given out, even if it has
\* been removed from it since, leads to where it led then.
OnlyNew(before, after) ==
    /\ before.next <= after.next
    /\ \A id \in DOMAIN after.routes :
          id < before.next =>
              id \in DOMAIN before.routes /\ after.routes[id] = before.routes[id]

RoutesOnlyNew == [][OnlyNew(frames, frames') /\ OnlyNew(variables, variables')]_vars

\* Who is in charge of a connection that is not closed.
Opens(p) == watcher.process = p /\ watcher.at \notin {"drain", "mark", "forget"}
Closes(a, p) == call[a].at = "close" /\ call[a].process = p

Charge ==
    /\ \A p \in Processes :
          link[p].conn \in {"open", "ended"} =>
              \/ p \in sessions \/ p \in closing \/ Opens(p)
              \/ \E a \in Handlers : Closes(a, p)
    /\ watcher.at = "forget" => link[watcher.process].conn \notin {"open", "ended"}
    /\ IF stop THEN sessions = {} ELSE closing = {}

\* Only a process that has, or had, a session has its events handled; it is not
\* connected to again, and it gets its marker after the session was there.
Had(p) == p \in sessions \cup retired \/ stop
Connects(p) == watcher.process = p /\ watcher.at \notin {"drain", "mark"}

Past ==
    /\ \A a \in Handlers :
          call[a] # Free => Had(call[a].process) /\ ~Connects(call[a].process)
    /\ \A p \in Processes :
          /\ Connects(p) => p \notin sessions \cup retired
          /\ child[p].marked => Had(p) /\ ~Starting(p)
          /\ Starting(p) => Connects(p) \/ Had(p)

\* An event that makes the session state register its process comes only from a
\* child that has been released, hence is never a buffered one.
Registers(m) == m.kind = "stopped" \/ (m.kind = "continued" /\ m.thread # None)
Quiet(s) == \A i \in 1..Len(s) : ~Registers(s[i])

Released ==
    /\ \A p \in Processes :
          ~child[p].marked =>
              /\ told[p] = 0
              /\ \A i \in 1..Len(lldb[p].inbox) :
                     lldb[p].inbox[i].kind = "continue" => lldb[p].inbox[i].thread = None
              /\ Quiet(link[p].wire)
    /\ \A a \in Handlers :
          call[a] # Free /\ Registers(call[a].event) =>
              a # Watcher /\ child[call[a].process].marked
    /\ Quiet(watcher.buffer)

\* A child is over when its end is under way to the session state.
HasEnd(s) == \E i \in 1..Len(s) : s[i].kind = "exited"
HandlesEnd(a) == call[a] # Free /\ call[a].event.kind = "exited"

Over ==
    \A p \in Processes :
        child[p].life # "gone" =>
            /\ p \notin retired
            /\ ~HasEnd(link[p].wire)
            /\ Starting(p) => ~HasEnd(watcher.buffer)
            /\ \A a \in Handlers : HandlesEnd(a) => call[a].process # p

GoneIsNotDebugged == \A p \in Processes : child[p].life = "gone" => ~Debugged(p)

\* Nothing that registers a process comes after its end.
EndIsLast(s) ==
    \A i, j \in 1..Len(s) : i < j /\ s[i].kind = "exited" => ~Registers(s[j])

EndsLast ==
    \A p \in Processes :
        /\ EndIsLast(link[p].wire)
        /\ p \in retired \/ (\E a \in Handlers : HandlesEnd(a) /\ call[a].process = p) =>
               /\ Quiet(link[p].wire)
               /\ call[p] # Free => ~Registers(call[p].event)

\* How a handler gets to its steps.
Walk ==
    \A a \in Handlers :
        /\ call[a].at = "bind" => call[a].event.thread # None
        /\ call[a].at \in {"retire", "close"} => HandlesEnd(a)
        /\ call[a].at \in {"close", "tell"} /\ HandlesEnd(a) => call[a].process \in retired
        /\ call[a].at \in {"clear", "retire", "close", "tell"} /\ HandlesEnd(a) =>
               call[a].process \notin known \/ stop

KnownOwned == \A p \in known : p \in sessions \/ stop \/ Connects(p)

IInv ==
    /\ TypeOK
    /\ RoutesAgree
    /\ Charge
    /\ Past
    /\ Released
    /\ Over
    /\ GoneIsNotDebugged
    /\ EndsLast
    /\ Walk
    /\ KnownOwned

--------------------------------------------------------------------------------
\* Events in a row.
LEMMA Concatenation ==
    ASSUME NEW S, NEW s \in Seq(S), NEW t \in Seq(S)
    PROVE  /\ s \o t \in Seq(S)
           /\ Quiet(s) /\ Quiet(t) => Quiet(s \o t)
           /\ ~HasEnd(s) /\ ~HasEnd(t) => ~HasEnd(s \o t)
           /\ EndIsLast(s) /\ Quiet(t) => EndIsLast(s \o t)
           /\ ~HasEnd(s) /\ ~HasEnd(t) => EndIsLast(s \o t)
    <1> DEFINE st == s \o t
    <1>1. /\ st \in Seq(S) /\ Len(st) = Len(s) + Len(t)
          /\ Len(s) \in Nat /\ Len(t) \in Nat
          /\ \A i \in 1..(Len(s) + Len(t)) :
                 /\ i \in 1..Len(s) => st[i] = s[i]
                 /\ i \notin 1..Len(s) => i - Len(s) \in 1..Len(t) /\ st[i] = t[i - Len(s)]
        <2>1. /\ st \in Seq(S) /\ Len(st) = Len(s) + Len(t)
              /\ \A i \in 1..Len(s) + Len(t) :
                     st[i] = IF i <= Len(s) THEN s[i] ELSE t[i - Len(s)]
            BY ConcatProperties
        <2>2. Len(s) \in Nat /\ Len(t) \in Nat
            OBVIOUS
        <2> HIDE DEF st
        <2> QED
            BY <2>1, <2>2
    <1> HIDE DEF st
    <1>2. Quiet(s) /\ Quiet(t) => Quiet(st)
        BY <1>1 DEF Quiet
    <1>3. ~HasEnd(s) /\ ~HasEnd(t) => ~HasEnd(st)
        BY <1>1 DEF HasEnd
    <1>4. EndIsLast(s) /\ Quiet(t) => EndIsLast(st)
        <2> SUFFICES ASSUME EndIsLast(s), Quiet(t), NEW i \in 1..Len(st), NEW j \in 1..Len(st),
                            i < j, st[i].kind = "exited"
                     PROVE  ~Registers(st[j])
            BY DEF EndIsLast
        <2>1. CASE j \in 1..Len(s)
            BY <1>1, <2>1 DEF EndIsLast
        <2>2. CASE j \notin 1..Len(s)
            BY <1>1, <2>2 DEF Quiet
        <2> QED
            BY <2>1, <2>2
    <1>5. ~HasEnd(s) /\ ~HasEnd(t) => EndIsLast(st)
        BY <1>1 DEF HasEnd, EndIsLast
    <1> QED
        BY <1>1, <1>2, <1>3, <1>4, <1>5 DEF st

LEMMA Appended ==
    ASSUME NEW S, NEW s \in Seq(S), NEW m \in S
    PROVE  /\ Append(s, m) \in Seq(S)
           /\ Len(Append(s, m)) = Len(s) + 1 /\ Len(s) \in Nat
           /\ \A i \in 1..Len(s) : Append(s, m)[i] = s[i]
           /\ Append(s, m)[Len(s) + 1] = m
           /\ Quiet(s) /\ ~Registers(m) => Quiet(Append(s, m))
           /\ ~HasEnd(s) /\ m.kind # "exited" => ~HasEnd(Append(s, m))
    <1> DEFINE sm == Append(s, m)
    <1>1. /\ sm \in Seq(S) /\ Len(sm) = Len(s) + 1 /\ Len(s) \in Nat
          /\ \A i \in 1..Len(s) : sm[i] = s[i]
          /\ sm[Len(s) + 1] = m
        OBVIOUS
    <1> HIDE DEF sm
    <1>2. Quiet(s) /\ ~Registers(m) => Quiet(sm)
        BY <1>1 DEF Quiet
    <1>3. ~HasEnd(s) /\ m.kind # "exited" => ~HasEnd(sm)
        BY <1>1 DEF HasEnd
    <1> QED
        BY <1>1, <1>2, <1>3 DEF sm

LEMMA Remaining ==
    ASSUME NEW S, NEW s \in Seq(S), s # <<>>
    PROVE  /\ Head(s) \in S /\ Head(s) = s[1] /\ 1 \in 1..Len(s)
           /\ Tail(s) \in Seq(S)
           /\ \A i \in 1..Len(Tail(s)) : i + 1 \in 1..Len(s) /\ Tail(s)[i] = s[i + 1]
           /\ Quiet(s) => Quiet(Tail(s)) /\ ~Registers(Head(s))
           /\ ~HasEnd(s) => ~HasEnd(Tail(s)) /\ Head(s).kind # "exited"
           /\ EndIsLast(s) => EndIsLast(Tail(s))
           /\ EndIsLast(s) /\ Head(s).kind = "exited" => Quiet(Tail(s))
    <1> DEFINE r == Tail(s)
    <1>1. /\ Head(s) \in S /\ Head(s) = s[1]
          /\ r \in Seq(S) /\ Len(r) = Len(s) - 1 /\ Len(s) \in Nat \ {0}
          /\ \A i \in 1..(Len(s) - 1) : r[i] = s[i + 1]
        OBVIOUS
    <1> HIDE DEF r
    <1>2. /\ 1 \in 1..Len(s)
          /\ \A i \in 1..Len(r) : i + 1 \in 1..Len(s) /\ r[i] = s[i + 1]
        BY <1>1
    <1>3. Quiet(s) => Quiet(r) /\ ~Registers(Head(s))
        BY <1>1, <1>2 DEF Quiet
    <1>4. ~HasEnd(s) => ~HasEnd(r) /\ Head(s).kind # "exited"
        BY <1>1, <1>2 DEF HasEnd
    <1>5. EndIsLast(s) => EndIsLast(r)
        <2> SUFFICES ASSUME EndIsLast(s), NEW i \in 1..Len(r), NEW j \in 1..Len(r),
                            i < j, r[i].kind = "exited"
                     PROVE  ~Registers(r[j])
            BY DEF EndIsLast
        <2>1. /\ i + 1 \in 1..Len(s) /\ j + 1 \in 1..Len(s) /\ i + 1 < j + 1
              /\ r[i] = s[i + 1] /\ r[j] = s[j + 1]
            BY <1>2
        <2> QED
            BY <2>1 DEF EndIsLast
    <1>6. EndIsLast(s) /\ Head(s).kind = "exited" => Quiet(r)
        <2> SUFFICES ASSUME EndIsLast(s), Head(s).kind = "exited", NEW i \in 1..Len(r)
                     PROVE  ~Registers(r[i])
            BY DEF Quiet
        <2>1. 1 < i + 1 /\ i + 1 \in 1..Len(s) /\ r[i] = s[i + 1] /\ s[1].kind = "exited"
            BY <1>1, <1>2
        <2> QED
            BY <1>2, <2>1 DEF EndIsLast
    <1> QED
        BY <1>1, <1>2, <1>3, <1>4, <1>5, <1>6 DEF r

\* One message on its way.
LEMMA Single ==
    ASSUME NEW S, NEW m \in S
    PROVE  /\ <<m>> \in Seq(S)
           /\ ~Registers(m) => Quiet(<<m>>)
           /\ m.kind # "exited" => ~HasEnd(<<m>>)
    <1>1. <<m>> \in Seq(S) /\ Len(<<m>>) = 1 /\ <<m>>[1] = m
        OBVIOUS
    <1> QED
        BY <1>1 DEF Quiet, HasEnd

LEMMA Pair ==
    ASSUME NEW S, NEW m \in S, NEW n \in S
    PROVE  /\ <<m, n>> \in Seq(S)
           /\ ~Registers(m) /\ ~Registers(n) => Quiet(<<m, n>>)
           /\ m.kind # "exited" /\ n.kind # "exited" => ~HasEnd(<<m, n>>)
    <1>1. <<m, n>> \in Seq(S) /\ Len(<<m, n>>) = 2 /\ <<m, n>>[1] = m /\ <<m, n>>[2] = n
        OBVIOUS
    <1> QED
        BY <1>1 DEF Quiet, HasEnd

\* The tables of ids.
LEMMA AllocatedTable ==
    ASSUME NEW K, NEW table, NEW key \in K, IsTable(table, K), Agrees(table)
    PROVE  /\ IsTable(Allocated(table, key), K) /\ Agrees(Allocated(table, key))
           /\ OnlyNew(table, Allocated(table, key))
    <1>1. CASE key \in DOMAIN table.keys
        BY <1>1 DEF Allocated, OnlyNew, IsTable
    <1>2. CASE key \notin DOMAIN table.keys
        <2> DEFINE k == Extended(table.keys, key, table.next)
                   r == Extended(table.routes, table.next, key)
        <2>1. Allocated(table, key) = [keys |-> k, routes |-> r, next |-> table.next + 1]
            BY <1>2 DEF Allocated
        <2>2. /\ DOMAIN k = DOMAIN table.keys \cup {key}
              /\ \A y \in DOMAIN table.keys : k[y] = table.keys[y]
              /\ k[key] = table.next
            BY <1>2 DEF Extended
        <2>3. table.next \notin DOMAIN table.routes
            BY DEF Agrees, IsTable
        <2>4. /\ DOMAIN r = DOMAIN table.routes \cup {table.next}
              /\ \A y \in DOMAIN table.routes : r[y] = table.routes[y]
              /\ r[table.next] = key
            BY <2>3 DEF Extended
        <2>5. k \in [DOMAIN k -> DOMAIN r]
            BY <2>2, <2>4 DEF IsTable, Extended
        <2>6. r \in [DOMAIN r -> DOMAIN k]
            BY <2>2, <2>4 DEF IsTable, Extended
        <2> HIDE DEF k, r
        <2>7. IsTable(Allocated(table, key), K)
            BY <2>1, <2>2, <2>4, <2>5, <2>6 DEF IsTable
        <2>8. \A y \in DOMAIN k : k[y] \in DOMAIN r /\ r[k[y]] = y
            BY <2>2, <2>3, <2>4 DEF Agrees
        <2>9. \A id \in DOMAIN r : r[id] \in DOMAIN k /\ k[r[id]] = id /\ id < table.next + 1
            BY <1>2, <2>2, <2>3, <2>4 DEF Agrees, IsTable
        <2>10. OnlyNew(table, Allocated(table, key))
            BY <2>1, <2>4 DEF OnlyNew, IsTable
        <2> QED
            BY <2>1, <2>7, <2>8, <2>9, <2>10 DEF Agrees
    <1> QED
        BY <1>1, <1>2

LEMMA WithoutTable ==
    ASSUME NEW K, NEW table, NEW gone, IsTable(table, K), Agrees(table)
    PROVE  /\ IsTable(Without(table, gone), K) /\ Agrees(Without(table, gone))
           /\ OnlyNew(table, Without(table, gone))
    <1> DEFINE k == Restrict(table.keys, DOMAIN table.keys \ gone)
               r == Restrict(table.routes,
                             {id \in DOMAIN table.routes : table.routes[id] \notin gone})
    <1>1. /\ Without(table, gone) \in [keys : {k}, routes : {r}, next : Nat]
          /\ Without(table, gone).next = table.next
        <2>1. Without(table, gone) = [table EXCEPT !.keys = k, !.routes = r]
            BY DEF Without
        <2> HIDE DEF k, r
        <2> QED
            BY <2>1 DEF IsTable
    <1>2. /\ DOMAIN k = DOMAIN table.keys \ gone
          /\ \A y \in DOMAIN k : k[y] = table.keys[y]
        BY DEF Restrict
    <1>3. /\ DOMAIN r = {id \in DOMAIN table.routes : table.routes[id] \notin gone}
          /\ \A y \in DOMAIN r : r[y] = table.routes[y]
        BY DEF Restrict
    <1>4. \A y \in DOMAIN k : k[y] \in DOMAIN r /\ r[k[y]] = y
        BY <1>2, <1>3 DEF Agrees
    <1>5. \A id \in DOMAIN r : r[id] \in DOMAIN k /\ k[r[id]] = id /\ id < table.next
        BY <1>2, <1>3 DEF Agrees
    <1>6. k \in [DOMAIN k -> DOMAIN r] /\ r \in [DOMAIN r -> DOMAIN k]
        <2>1. k = [y \in DOMAIN k |-> k[y]] /\ r = [y \in DOMAIN r |-> r[y]]
            BY DEF Restrict
        <2> HIDE DEF k, r
        <2> QED
            BY <1>4, <1>5, <2>1
    <1> HIDE DEF k, r
    <1>7. IsTable(Without(table, gone), K)
        <2>1. /\ Without(table, gone).keys = k /\ Without(table, gone).routes = r
              /\ DOMAIN k \subseteq K /\ DOMAIN r \subseteq Nat
            BY <1>1, <1>2, <1>3 DEF IsTable
        <2> QED
            BY <1>1, <1>6, <2>1 DEF IsTable
    <1>8. OnlyNew(table, Without(table, gone))
        BY <1>1, <1>3 DEF OnlyNew, IsTable
    <1> QED
        BY <1>1, <1>4, <1>5, <1>7, <1>8 DEF Agrees

\* What the assignments to one entry of a function do to all of them.
LEMMA WatcherIsNoProcess ==
    Watcher \notin Processes /\ Handlers = Processes \cup {Watcher} /\ None \notin Processes
    BY ChildSessionsAssumption DEF Watcher, Handlers

LEMMA Busy ==
    ASSUME TypeOK, NEW a \in Handlers
    PROVE  /\ call[a].at # "free" => call[a] # Free
           /\ call[a] # Free =>
                  /\ call[a] \in Handled
                  /\ call[a].process \in Processes /\ call[a].event \in Events
                  /\ a \in Processes => call[a].process = a
                  /\ call[a].at \in {"record", "bind", "state", "clear", "retire", "close", "tell"}
    BY DEF TypeOK, Free, Handled

LEMMA Nothing ==
    /\ \A S : <<>> \in Seq(S)
    /\ Quiet(<<>>) /\ ~HasEnd(<<>>) /\ EndIsLast(<<>>)
    BY DEF Quiet, HasEnd, EndIsLast

LEMMA PhasesOnly ==
    /\ Range(Phases) = {"initialize", "attach", "setBreakpoints", "configurationDone",
                        "continue"}
    /\ \A phase \in Range(Phases) : NextPhase(phase) \in Range(Phases) \cup {"register"}
    <1>1. /\ Len(Phases) = 5 /\ DOMAIN Phases = 1..5
          /\ Phases[1] = "initialize" /\ Phases[2] = "attach" /\ Phases[3] = "setBreakpoints"
          /\ Phases[4] = "configurationDone" /\ Phases[5] = "continue"
        BY DEF Phases
    <1>2. Range(Phases) = {"initialize", "attach", "setBreakpoints", "configurationDone",
                           "continue"}
        BY <1>1 DEF Range
    <1>3. ASSUME NEW phase \in Range(Phases), phase # "continue"
          PROVE  NextPhase(phase) \in Range(Phases)
        <2> DEFINE n == CHOOSE i \in 1..4 : Phases[i] = phase
        <2>1. \E i \in 1..4 : Phases[i] = phase
            BY <1>1, <1>2, <1>3
        <2>2. n \in 1..4
            BY <2>1
        <2> HIDE DEF n
        <2>3. 1 + n \in 1..5
            BY <2>2
        <2>4. Phases[1 + n] \in Range(Phases)
            BY <1>1, <2>3 DEF Range
        <2> QED
            BY <1>3, <2>4 DEF NextPhase, n
    <1>4. NextPhase("continue") = "register"
        BY DEF NextPhase
    <1> QED
        BY <1>2, <1>3, <1>4

LEMMA StartIsOf ==
    ASSUME TypeOK
    PROVE  /\ watcher.at # "asleep" => watcher \in Starts /\ watcher.process \in Processes
           /\ watcher.buffer \in Seq(Events)
           /\ \A p \in Processes : watcher.process = p => watcher.at # "asleep"
    <1>1. CASE watcher \in Starts
        BY <1>1, PhasesOnly DEF Starts
    <1>2. CASE watcher = Asleep
        <2>1. watcher.at = "asleep" /\ watcher.process = None /\ watcher.buffer = <<>>
            BY <1>2 DEF Asleep
        <2> QED
            BY <2>1, WatcherIsNoProcess, Nothing
    <1> QED
        BY <1>1, <1>2 DEF TypeOK

LEMMA Sent ==
    ASSUME TypeOK, NEW p \in Processes, NEW t \in Seq(Events \cup Replies), Sends(p, t)
    PROVE  /\ link' \in [Processes -> Links]
           /\ \A q \in Processes :
                  link'[q].conn = link[q].conn /\ (q # p => link'[q].wire = link[q].wire)
           /\ Quiet(link[p].wire) /\ Quiet(t) => Quiet(link'[p].wire)
           /\ ~HasEnd(link[p].wire) /\ ~HasEnd(t) => ~HasEnd(link'[p].wire)
           /\ EndIsLast(link[p].wire) /\ Quiet(t) => EndIsLast(link'[p].wire)
           /\ ~HasEnd(link[p].wire) /\ ~HasEnd(t) => EndIsLast(link'[p].wire)
    <1>1. link \in [Processes -> Links] /\ link[p].wire \in Seq(Events \cup Replies)
        BY DEF TypeOK, Links
    <1>2. link[p].wire \o t \in Seq(Events \cup Replies)
        BY <1>1, Concatenation
    <1>3. /\ link' \in [Processes -> Links]
          /\ \A q \in Processes :
                 link'[q].conn = link[q].conn /\ (q # p => link'[q].wire = link[q].wire)
          /\ link'[p].wire = link[p].wire \o t
        BY <1>1, <1>2 DEF Sends, Links
    <1> QED
        BY <1>1, <1>3, Concatenation

LEMMA Received ==
    ASSUME TypeOK, NEW p \in Processes, link[p].wire # <<>>,
           link' = [link EXCEPT ![p].wire = Tail(@)]
    PROVE  /\ link' \in [Processes -> Links]
           /\ \A q \in Processes :
                  link'[q].conn = link[q].conn /\ (q # p => link'[q].wire = link[q].wire)
           /\ Head(link[p].wire) \in Events \cup Replies
           /\ Quiet(link[p].wire) => Quiet(link'[p].wire) /\ ~Registers(Head(link[p].wire))
           /\ ~HasEnd(link[p].wire) =>
                  ~HasEnd(link'[p].wire) /\ Head(link[p].wire).kind # "exited"
           /\ EndIsLast(link[p].wire) => EndIsLast(link'[p].wire)
           /\ EndIsLast(link[p].wire) /\ Head(link[p].wire).kind = "exited" =>
                  Quiet(link'[p].wire)
    <1>1. link \in [Processes -> Links] /\ link[p].wire \in Seq(Events \cup Replies)
        BY DEF TypeOK, Links
    <1>2. Tail(link[p].wire) \in Seq(Events \cup Replies)
        BY <1>1, Remaining
    <1>3. /\ link' \in [Processes -> Links]
          /\ \A q \in Processes :
                 link'[q].conn = link[q].conn /\ (q # p => link'[q].wire = link[q].wire)
          /\ link'[p].wire = Tail(link[p].wire)
        BY <1>1, <1>2 DEF Links
    <1> QED
        BY <1>1, <1>3, Remaining

LEMMA HungUp ==
    ASSUME TypeOK, NEW P \in SUBSET Processes, Hangs(P)
    PROVE  /\ link' \in [Processes -> Links] /\ lldb' \in [Processes -> Engines]
           /\ \A q \in P :
                  /\ link'[q].conn = "closed" /\ lldb'[q].state = "none"
                  /\ Quiet(link'[q].wire) /\ ~HasEnd(link'[q].wire) /\ EndIsLast(link'[q].wire)
                  /\ lldb'[q].inbox = <<>>
           /\ \A q \in Processes \ P : link'[q] = link[q] /\ lldb'[q] = lldb[q]
    <1>1. /\ link \in [Processes -> Links] /\ lldb \in [Processes -> Engines]
          /\ [conn |-> "closed", wire |-> <<>>] \in Links
        BY Nothing DEF TypeOK, Links
    <1>2. /\ link' \in [Processes -> Links]
          /\ \A q \in P : link'[q] = [conn |-> "closed", wire |-> <<>>]
          /\ \A q \in Processes \ P : link'[q] = link[q]
        BY <1>1 DEF Hangs
    <1>3. \A q \in Processes :
              /\ [lldb[q] EXCEPT !.state = "none", !.inbox = <<>>] \in Engines
              /\ [lldb[q] EXCEPT !.state = "none", !.inbox = <<>>].state = "none"
              /\ [lldb[q] EXCEPT !.state = "none", !.inbox = <<>>].inbox = <<>>
        BY <1>1, Nothing DEF Engines
    <1>4. /\ lldb' \in [Processes -> Engines]
          /\ \A q \in P : lldb'[q].state = "none" /\ lldb'[q].inbox = <<>>
          /\ \A q \in Processes \ P : lldb'[q] = lldb[q]
        BY <1>1, <1>3 DEF Hangs
    <1> QED
        BY <1>2, <1>4, Nothing

\* A handler at its next step, a handler that has ended, one that begins.
LEMMA Moved ==
    ASSUME TypeOK, NEW a \in Handlers, call[a] # Free,
           NEW step \in {"record", "bind", "state", "clear", "retire", "close", "tell"},
           Moves(a, step)
    PROVE  /\ call' \in [Handlers -> Handled \cup {Free}]
           /\ \A b \in Handlers :
                  /\ call'[b] # Free <=> call[b] # Free
                  /\ call[b] # Free => /\ call'[b].process = call[b].process
                                       /\ call'[b].event = call[b].event
                  /\ b # a => call'[b] = call[b]
           /\ call'[a].at = step
    <1>1. call \in [Handlers -> Handled \cup {Free}] /\ call[a] \in Handled
        BY Busy DEF TypeOK
    <1>2. [call[a] EXCEPT !.at = step] \in Handled
        BY <1>1 DEF Handled
    <1>3. /\ [call[a] EXCEPT !.at = step].at = step
          /\ [call[a] EXCEPT !.at = step].process = call[a].process
          /\ [call[a] EXCEPT !.at = step].event = call[a].event
        BY <1>1 DEF Handled
    <1>4. [call[a] EXCEPT !.at = step] # Free
        BY <1>3 DEF Free
    <1>5. /\ call' \in [Handlers -> Handled \cup {Free}]
          /\ call'[a] = [call[a] EXCEPT !.at = step]
          /\ \A b \in Handlers : b # a => call'[b] = call[b]
        BY <1>1, <1>2 DEF Moves
    <1> QED
        BY <1>3, <1>4, <1>5

LEMMA Finished ==
    ASSUME TypeOK, NEW a \in Handlers, Ends(a)
    PROVE  /\ call' \in [Handlers -> Handled \cup {Free}]
           /\ call'[a] = Free /\ call'[a].at = "free"
           /\ \A b \in Handlers : b # a => call'[b] = call[b]
    BY DEF Ends, TypeOK, Free

LEMMA Taken ==
    ASSUME TypeOK, NEW a \in Handlers, NEW p \in Processes, NEW event \in Events,
           call' = [call EXCEPT ![a] = [at |-> "record", process |-> p, event |-> event]]
    PROVE  /\ call' \in [Handlers -> Handled \cup {Free}]
           /\ call'[a] # Free /\ call'[a].at = "record"
           /\ call'[a].process = p /\ call'[a].event = event
           /\ \A b \in Handlers : b # a => call'[b] = call[b]
    <1>1. call \in [Handlers -> Handled \cup {Free}]
        BY DEF TypeOK
    <1>2. [at |-> "record", process |-> p, event |-> event] \in Handled
        BY DEF Handled
    <1>3. /\ call' \in [Handlers -> Handled \cup {Free}]
          /\ call'[a] = [at |-> "record", process |-> p, event |-> event]
          /\ \A b \in Handlers : b # a => call'[b] = call[b]
        BY <1>1, <1>2
    <1> QED
        BY <1>3 DEF Free

LEMMA Gone ==
    ASSUME TypeOK, watcher.at # "asleep",
           NEW at \in Range(Phases) \cup {"register", "insert", "drain", "mark", "close",
                                          "forget"},
           Goes(at)
    PROVE  /\ watcher' \in Starts \cup {Asleep} /\ watcher'.at = at
           /\ watcher'.process = watcher.process /\ watcher'.buffer = watcher.buffer
    BY StartIsOf DEF Goes, Starts

LEMMA Slept ==
    ASSUME watcher' = Asleep
    PROVE  /\ watcher' \in Starts \cup {Asleep}
           /\ watcher'.at = "asleep" /\ watcher'.process \notin Processes
           /\ Quiet(watcher'.buffer) /\ ~HasEnd(watcher'.buffer)
    BY WatcherIsNoProcess, Nothing DEF Asleep

Kinds == Range(Phases) \cup {"stackTrace", "inspect"}

LEMMA Asked ==
    ASSUME TypeOK, NEW who \in Askers, NEW p \in Processes,
           NEW kind \in Kinds, NEW t \in Threads \cup {None}, Asks(who, p, kind, t)
    PROVE  /\ asked' \in [Askers -> Replies \cup {Unasked, Waiting}]
           /\ lldb' \in [Processes -> Engines]
           /\ \A q \in Processes :
                  lldb'[q].state = lldb[q].state /\ (q # p => lldb'[q] = lldb[q])
           /\ \A i \in 1..Len(lldb'[p].inbox) :
                  \/ i \in 1..Len(lldb[p].inbox) /\ lldb'[p].inbox[i] = lldb[p].inbox[i]
                  \/ lldb'[p].inbox[i].kind = kind /\ lldb'[p].inbox[i].thread = t
    <1> DEFINE r == [kind |-> kind, who |-> who, thread |-> t]
    <1>1. /\ lldb \in [Processes -> Engines] /\ lldb[p].inbox \in Seq(Requests)
          /\ asked \in [Askers -> Replies \cup {Unasked, Waiting}]
        BY DEF TypeOK, Engines
    <1>2. r \in Requests /\ r.kind = kind /\ r.thread = t
        BY DEF Requests, Kinds
    <1> HIDE DEF r
    <1>3. /\ Append(lldb[p].inbox, r) \in Seq(Requests)
          /\ Len(Append(lldb[p].inbox, r)) = Len(lldb[p].inbox) + 1 /\ Len(lldb[p].inbox) \in Nat
          /\ \A i \in 1..Len(lldb[p].inbox) : Append(lldb[p].inbox, r)[i] = lldb[p].inbox[i]
          /\ Append(lldb[p].inbox, r)[Len(lldb[p].inbox) + 1] = r
        BY <1>1, <1>2
    <1>4. \A i \in 1..Len(Append(lldb[p].inbox, r)) :
              \/ i \in 1..Len(lldb[p].inbox) /\ Append(lldb[p].inbox, r)[i] = lldb[p].inbox[i]
              \/ Append(lldb[p].inbox, r)[i] = r
        BY <1>3
    <1>5. /\ lldb' = [lldb EXCEPT ![p].inbox = Append(lldb[p].inbox, r)]
          /\ asked' = [asked EXCEPT ![who] = Waiting]
        BY DEF Asks, r
    <1>6. /\ lldb' \in [Processes -> Engines]
          /\ \A q \in Processes :
                 lldb'[q].state = lldb[q].state /\ (q # p => lldb'[q] = lldb[q])
          /\ lldb'[p].inbox = Append(lldb[p].inbox, r)
        BY <1>1, <1>3, <1>5, ZenonT(30) DEF Engines
    <1>7. asked' \in [Askers -> Replies \cup {Unasked, Waiting}]
        BY <1>1, <1>5
    <1> QED
        BY <1>2, <1>4, <1>6, <1>7

LEMMA Answered ==
    ASSUME TypeOK, NEW h \in Hooks, HookEnds(h)
    PROVE  /\ asked' \in [Askers -> Replies \cup {Unasked, Waiting}]
           /\ hook' \in [Hooks -> Served \cup {Free}]
    BY DEF HookEnds, TypeOK, Askers

\* What CodeLLDB answers and becomes.
LEMMA LldbServesEffect ==
    ASSUME TypeOK, NEW p \in Processes, LldbServes(p)
    PROVE  \E m \in Seq(Events \cup Replies),
              s \in {"none", "attached", "runs", "stopped", "gone"} :
               /\ lldb' = [lldb EXCEPT ![p].inbox = Tail(@), ![p].state = s]
               /\ Sends(p, m) /\ ~HasEnd(m)
               /\ Quiet(m) \/ /\ Debugged(p) /\ Head(lldb[p].inbox).kind = "continue"
                              /\ Head(lldb[p].inbox).thread # None
               /\ s \in {"attached", "runs", "stopped"} =>
                      Debugged(p) \/ child[p].life = "waiting"
    <1> DEFINE request == Head(lldb[p].inbox)
               answer == Reply("answer", request.who, lldb[p].stops)
               refusal == Reply("refusal", request.who, 0)
               resumed == Event("continued", request.thread, 0)
               Becomes(s) == lldb' = [lldb EXCEPT ![p].inbox = Tail(@), ![p].state = s]
               Effect(m, s) ==
                   /\ Becomes(s) /\ Sends(p, m) /\ ~HasEnd(m)
                   /\ Quiet(m) \/ /\ Debugged(p) /\ request.kind = "continue"
                                  /\ request.thread # None
                   /\ s \in {"attached", "runs", "stopped"} =>
                          Debugged(p) \/ child[p].life = "waiting"
    <1>1. /\ lldb[p].inbox \in Seq(Requests) /\ lldb[p].inbox # <<>>
          /\ lldb[p].state \in {"none", "attached", "runs", "stopped", "gone"}
          /\ lldb[p].stops \in 0..MaxStops
        BY DEF TypeOK, Engines, LldbServes
    <1>2. request \in Requests
        BY <1>1
    <1> HIDE DEF request
    <1>3. answer \in Events \cup Replies /\ ~Registers(answer) /\ answer.kind # "exited"
        BY <1>1, <1>2 DEF Requests, Reply, Replies, Registers
    <1>4. refusal \in Events \cup Replies /\ ~Registers(refusal) /\ refusal.kind # "exited"
        BY <1>2, ChildSessionsAssumption DEF Requests, Reply, Replies, Registers
    <1>5. /\ resumed \in Events \cup Replies /\ resumed.kind # "exited"
          /\ request.thread = None => ~Registers(resumed)
        BY <1>2, ChildSessionsAssumption DEF Requests, Event, Events, Registers
    <1>6. CASE request.kind \in {"initialize", "setBreakpoints", "configurationDone"}
        <2>1. Becomes(lldb[p].state) /\ Sends(p, <<answer>>)
            BY <1>6 DEF LldbServes, request
        <2>2. Effect(<<answer>>, lldb[p].state)
            BY <1>3, <2>1, Single DEF Debugged
        <2> QED
            BY <1>1, <1>3, <2>2, Single DEF request
    <1>7. CASE request.kind = "attach" /\ child[p].life = "waiting"
        <2>1. Becomes("attached") /\ Sends(p, <<answer>>)
            BY <1>7 DEF LldbServes, request
        <2>2. Effect(<<answer>>, "attached")
            BY <1>3, <1>7, <2>1, Single
        <2> QED
            BY <1>3, <2>2, Single DEF request
    <1>8. CASE request.kind = "attach" /\ child[p].life # "waiting"
        <2>1. Becomes("gone") /\ link' = link
            BY <1>8 DEF LldbServes, request
        <2>2. link[p].wire \o <<>> = link[p].wire
            BY ConcatEmptySeq DEF TypeOK, Links
        <2>3. Sends(p, <<>>)
            BY <2>1, <2>2 DEF Sends, TypeOK, Links
        <2>4. Effect(<<>>, "gone")
            BY <2>1, <2>3, Nothing
        <2> QED
            BY <2>4, Nothing DEF request
    <1>9. CASE request.kind = "continue" /\ lldb[p].state \in {"attached", "stopped"}
        <2>1. Becomes("runs") /\ Sends(p, <<answer, resumed>>)
            BY <1>9 DEF LldbServes, request
        <2>2. /\ <<answer, resumed>> \in Seq(Events \cup Replies) /\ ~HasEnd(<<answer, resumed>>)
              /\ request.thread = None => Quiet(<<answer, resumed>>)
            BY <1>3, <1>5, Pair
        <2>3. Effect(<<answer, resumed>>, "runs")
            BY <1>9, <2>1, <2>2 DEF Debugged
        <2> QED
            BY <2>2, <2>3 DEF request
    <1>10. CASE request.kind \in {"stackTrace", "inspect"} /\ lldb[p].state = "stopped"
        <2>1. Becomes("stopped") /\ Sends(p, <<answer>>)
            BY <1>10 DEF LldbServes, request
        <2>2. Effect(<<answer>>, "stopped")
            BY <1>3, <1>10, <2>1, Single DEF Debugged
        <2> QED
            BY <1>3, <2>2, Single DEF request
    <1>11. CASE \/ request.kind = "continue" /\ lldb[p].state \notin {"attached", "stopped"}
                \/ request.kind \in {"stackTrace", "inspect"} /\ lldb[p].state # "stopped"
        <2>1. Becomes(lldb[p].state) /\ Sends(p, <<refusal>>)
            BY <1>11 DEF LldbServes, request
        <2>2. Effect(<<refusal>>, lldb[p].state)
            BY <1>4, <2>1, Single DEF Debugged
        <2> QED
            BY <1>1, <1>4, <2>2, Single DEF request
    <1>12. request.kind \in {"initialize", "attach", "setBreakpoints", "configurationDone",
                             "continue", "stackTrace", "inspect"}
        BY <1>2, PhasesOnly DEF Requests
    <1> QED
        BY <1>6, <1>7, <1>8, <1>9, <1>10, <1>11, <1>12

--------------------------------------------------------------------------------
LEMMA InitInv == Init => IInv
    <1> SUFFICES ASSUME Init
                 PROVE  IInv
        OBVIOUS
    <1>1. \A a \in Handlers : call[a] = Free /\ call[a].at = "free"
        BY DEF Init, Free
    <1>2. watcher = Asleep /\ watcher.process \notin Processes /\ watcher.at = "asleep"
        BY WatcherIsNoProcess DEF Init, Asleep
    <1>3. \A p \in Processes :
              /\ child[p].life = "unborn" /\ ~child[p].marked
              /\ lldb[p].state = "none" /\ lldb[p].inbox = <<>>
              /\ link[p].conn = "none" /\ link[p].wire = <<>>
        BY DEF Init, NoEngine
    <1>4. watcher.buffer = <<>>
        BY <1>2 DEF Asleep
    <1>5. \A p \in Processes : Len(lldb[p].inbox) = 0
        BY <1>3
    <1>6. IsTable(NewTable(1), Keys) /\ Agrees(NewTable(1))
        <2> DEFINE none == <<>>
        <2>1. /\ DOMAIN none = {}
              /\ none = [x \in {} |-> none[x]]
            OBVIOUS
        <2>2. \A S : none \in [{} -> S]
            BY <2>1
        <2> HIDE DEF none
        <2>3. NewTable(1) = [keys |-> none, routes |-> none, next |-> 1]
            BY DEF NewTable, none
        <2>4. NewTable(1) \in [keys : {none}, routes : {none}, next : Nat]
            BY <2>3
        <2>5. NewTable(1).keys = none /\ NewTable(1).routes = none
            BY <2>3
        <2> QED
            BY <2>1, <2>2, <2>4, <2>5 DEF IsTable, Agrees
    <1>7. RoutesAgree /\ IsTable(frames, Keys) /\ IsTable(variables, Keys)
        BY <1>6 DEF Init, RoutesAgree
    <1>8. TypeOK
        <2>1. NoEngine \in Engines
            BY ChildSessionsAssumption, Nothing DEF NoEngine, Engines
        <2>2. [conn |-> "none", wire |-> <<>>] \in Links
            BY Nothing DEF Links
        <2>3. [life |-> "unborn", marked |-> FALSE] \in Children
            BY DEF Children
        <2>4. 0 \in 0..MaxTries /\ 0 \in 0..MaxStops
            BY ChildSessionsAssumption
        <2> QED
            BY <1>1, <1>7, <2>1, <2>2, <2>3, <2>4, WatcherIsNoProcess DEF Init, TypeOK
    <1>9. sessions = {} /\ retired = {} /\ known = {} /\ closing = {} /\ ~stop
          /\ \A p \in Processes : told[p] = 0
        BY DEF Init
    <1>10. Charge
        BY <1>1, <1>2, <1>3, <1>9 DEF Charge
    <1>11. Past
        BY <1>1, <1>2, <1>3 DEF Past, Connects, Starting
    <1>12. Released
        BY <1>1, <1>3, <1>4, <1>5, <1>9, Nothing DEF Released
    <1>13. Over
        BY <1>1, <1>3, <1>4, <1>9, Nothing DEF Over, HandlesEnd
    <1>14. GoneIsNotDebugged
        BY <1>3 DEF GoneIsNotDebugged
    <1>15. EndsLast
        BY <1>1, <1>3, <1>9, Nothing DEF EndsLast, HandlesEnd
    <1>16. Walk
        BY <1>1 DEF Walk
    <1>17. KnownOwned
        BY <1>9 DEF KnownOwned
    <1> QED
        BY <1>7, <1>8, <1>10, <1>11, <1>12, <1>13, <1>14, <1>15, <1>16, <1>17 DEF IInv

--------------------------------------------------------------------------------
\* Every action keeps the invariant: first what it does to the variables, then
\* each part of the invariant.
LEMMA ChildStartsInv ==
    ASSUME IInv, NEW p \in Processes, ChildStarts(p)
    PROVE  IInv'
    <1>1. UNCHANGED <<lldb, link, configured, stop, sessions, recorded, retired, known, watcher,
       tries, call, asked, hook, closing, frames, variables, told, seen>>
        BY DEF ChildStarts, manager, tables, editor
    <1>2. /\ child' \in [Processes -> Children]
          /\ \A q \in Processes : /\ child'[q].marked = child[q].marked
                                  /\ child'[q].life = "gone" <=> child[q].life = "gone"
        BY DEF ChildStarts, IInv, TypeOK, Children
    <1>3. RoutesAgree' /\ Charge' /\ EndsLast' /\ Walk' /\ KnownOwned'
        BY <1>1 DEF IInv, RoutesAgree, Charge, Opens, Closes, EndsLast, HandlesEnd, Walk,
           KnownOwned, Connects
    <1>4. TypeOK'
        BY <1>1, <1>2 DEF IInv, TypeOK
    <1>5. Past'
        BY <1>1, <1>2 DEF IInv, Past, Had, Connects, Starting
    <1>6. Released'
        BY <1>1, <1>2, Busy DEF IInv, Released
    <1>7. Over'
        BY <1>1, <1>2 DEF IInv, Over, HandlesEnd, Starting
    <1>8. GoneIsNotDebugged'
        BY <1>1, <1>2 DEF IInv, GoneIsNotDebugged, Debugged
    <1> QED
        BY <1>3, <1>4, <1>5, <1>6, <1>7, <1>8 DEF IInv

LEMMA ChildExitsInv ==
    ASSUME IInv, NEW p \in Processes, ChildExits(p)
    PROVE  IInv'
    <1>1. UNCHANGED <<configured, stop, sessions, recorded, retired, known, watcher, tries, call,
       asked, hook, closing, frames, variables, told, seen>>
        BY DEF ChildExits, manager, tables, editor
    <1>2. /\ child' \in [Processes -> Children]
          /\ \A q \in Processes : child'[q].marked = child[q].marked
          /\ child'[p].life = "gone" /\ \A q \in Processes \ {p} : child'[q] = child[q]
        BY DEF ChildExits, IInv, TypeOK, Children
    <1>3. /\ lldb' \in [Processes -> Engines]
          /\ \A q \in Processes : /\ lldb'[q].inbox = lldb[q].inbox
                                  /\ q # p => lldb'[q].state = lldb[q].state
          /\ lldb'[p].state \notin {"attached", "runs", "stopped"}
        <2>1. CASE Debugged(p)
            <3>1. lldb \in [Processes -> Engines] /\ lldb' = [lldb EXCEPT ![p].state = "gone"]
                BY <2>1 DEF ChildExits, IInv, TypeOK
            <3> QED
                BY <3>1 DEF Engines
        <2>2. CASE ~Debugged(p)
            BY <2>2 DEF ChildExits, Debugged, IInv, TypeOK
        <2> QED
            BY <2>1, <2>2
    <1>4. /\ link' \in [Processes -> Links]
          /\ \A q \in Processes :
                    link'[q].conn = link[q].conn /\ (q # p => link'[q].wire = link[q].wire)
          /\ Quiet(link[p].wire) => Quiet(link'[p].wire)
          /\ EndIsLast(link[p].wire) => EndIsLast(link'[p].wire)
        <2>1. CASE Debugged(p)
            <3>1. /\ Event("exited", None, 0) \in Events \cup Replies
                  /\ ~Registers(Event("exited", None, 0))
                BY DEF Event, Events, Registers
            <3> QED
                BY <2>1, <3>1, Sent, Single DEF IInv, ChildExits
        <2>2. CASE ~Debugged(p)
            BY <2>2 DEF ChildExits, IInv, TypeOK
        <2> QED
            BY <2>1, <2>2
    <1>5. RoutesAgree' /\ Walk' /\ KnownOwned'
        BY <1>1 DEF IInv, RoutesAgree, Walk, HandlesEnd, KnownOwned, Connects
    <1>6. TypeOK'
        BY <1>1, <1>2, <1>3, <1>4 DEF IInv, TypeOK
    <1>7. Charge'
        BY <1>1, <1>4, StartIsOf DEF IInv, Charge, Opens, Closes
    <1>8. Past'
        BY <1>1, <1>2 DEF IInv, Past, Had, Connects, Starting
    <1>9. Released'
        BY <1>1, <1>2, <1>3, <1>4, Busy DEF IInv, Released
    <1>10. Over'
        BY <1>1, <1>2, <1>4 DEF IInv, Over, HandlesEnd, Starting
    <1>11. GoneIsNotDebugged'
        BY <1>1, <1>2, <1>3 DEF IInv, GoneIsNotDebugged, Debugged
    <1>12. EndsLast'
        BY <1>1, <1>4 DEF IInv, EndsLast, HandlesEnd
    <1> QED
        BY <1>5, <1>6, <1>7, <1>8, <1>9, <1>10, <1>11, <1>12 DEF IInv

LEMMA LldbStopsInv ==
    ASSUME IInv, NEW p \in Processes, NEW t \in Threads, LldbStops(p, t)
    PROVE  IInv'
    <1>1. UNCHANGED <<child, configured, stop, sessions, recorded, retired, known, watcher, tries,
       call, asked, hook, closing, frames, variables, told, seen>>
        BY DEF LldbStops, manager, tables, editor
    <1>2. /\ lldb' \in [Processes -> Engines]
          /\ \A q \in Processes : /\ lldb'[q].inbox = lldb[q].inbox
                                  /\ q # p => lldb'[q].state = lldb[q].state
          /\ child[p].marked /\ lldb[p].state = "runs"
        <2>1. lldb[p].stops + 1 \in 0..MaxStops
            BY ChildSessionsAssumption DEF LldbStops, IInv, TypeOK, Engines
        <2>2. lldb \in [Processes -> Engines]
            BY DEF IInv, TypeOK
        <2>3. lldb' = [lldb EXCEPT ![p] =
                          [lldb[p] EXCEPT !.state = "stopped", !.stops = lldb[p].stops + 1]]
            BY DEF LldbStops
        <2> DEFINE e == [lldb[p] EXCEPT !.state = "stopped", !.stops = lldb[p].stops + 1]
        <2>4. e \in Engines /\ e.inbox = lldb[p].inbox
            BY <2>1, <2>2 DEF Engines
        <2> HIDE DEF e
        <2>5. /\ lldb' \in [Processes -> Engines]
              /\ \A q \in Processes : lldb'[q].inbox = lldb[q].inbox
              /\ \A q \in Processes : q # p => lldb'[q].state = lldb[q].state
            BY <2>2, <2>3, <2>4 DEF e
        <2>6. child[p].marked /\ lldb[p].state = "runs"
            BY DEF LldbStops
        <2> QED
            BY <2>5, <2>6
    <1>3. child[p].life # "gone"
        BY <1>2 DEF IInv, GoneIsNotDebugged, Debugged
    <1>4. /\ p \notin retired /\ ~HasEnd(link[p].wire)
          /\ \A a \in Handlers : HandlesEnd(a) => call[a].process # p
        BY <1>2, <1>3 DEF IInv, Over
    <1>5. /\ link' \in [Processes -> Links]
          /\ \A q \in Processes :
                    link'[q].conn = link[q].conn /\ (q # p => link'[q].wire = link[q].wire)
          /\ ~HasEnd(link'[p].wire) /\ EndIsLast(link'[p].wire)
        <2>1. lldb[p].stops + 1 \in 0..MaxStops
            BY ChildSessionsAssumption DEF LldbStops, IInv, TypeOK, Engines
        <2>2. /\ Event("stopped", t, lldb[p].stops + 1) \in Events \cup Replies
              /\ Event("stopped", t, lldb[p].stops + 1).kind # "exited"
            BY <2>1 DEF Event, Events
        <2> QED
            BY <2>2, <1>2, <1>3, <1>4, Sent, Single DEF IInv, LldbStops
    <1>6. RoutesAgree' /\ Past' /\ Walk' /\ KnownOwned'
        BY <1>1 DEF IInv, RoutesAgree, Past, Had, Connects, Starting, Walk, HandlesEnd, KnownOwned
    <1>7. TypeOK'
        BY <1>1, <1>2, <1>3, <1>4, <1>5 DEF IInv, TypeOK
    <1>8. Charge'
        BY <1>1, <1>4, <1>5, StartIsOf DEF IInv, Charge, Opens, Closes
    <1>9. Released'
        BY <1>1, <1>2, <1>3, <1>4, <1>5, Busy DEF IInv, Released
    <1>10. Over'
        BY <1>1, <1>2, <1>3, <1>4, <1>5 DEF IInv, Over, HandlesEnd, Starting
    <1>11. GoneIsNotDebugged'
        BY <1>1, <1>2, <1>3 DEF IInv, GoneIsNotDebugged, Debugged
    <1>12. EndsLast'
        BY <1>1, <1>4, <1>5 DEF IInv, EndsLast, HandlesEnd
    <1> QED
        BY <1>6, <1>7, <1>8, <1>9, <1>10, <1>11, <1>12 DEF IInv

LEMMA LldbServesInv ==
    ASSUME IInv, NEW p \in Processes, LldbServes(p)
    PROVE  IInv'
    <1>1. UNCHANGED <<child, configured, stop, sessions, recorded, retired, known, watcher, tries,
       call, asked, hook, closing, frames, variables, told, seen>>
        BY DEF LldbServes, manager, tables, editor
    <1>2. PICK m \in Seq(Events \cup Replies),
               s \in {"none", "attached", "runs", "stopped", "gone"} :
                 /\ lldb' = [lldb EXCEPT ![p].inbox = Tail(@), ![p].state = s]
                 /\ Sends(p, m) /\ ~HasEnd(m)
                 /\ Quiet(m) \/ /\ Debugged(p) /\ Head(lldb[p].inbox).kind = "continue"
                                /\ Head(lldb[p].inbox).thread # None
                 /\ s \in {"attached", "runs", "stopped"} =>
                        Debugged(p) \/ child[p].life = "waiting"
        BY LldbServesEffect DEF IInv
    <1>3. /\ lldb[p].inbox # <<>> /\ lldb[p].inbox \in Seq(Requests)
          /\ Head(lldb[p].inbox) = lldb[p].inbox[1] /\ 1 \in 1..Len(lldb[p].inbox)
          /\ Tail(lldb[p].inbox) \in Seq(Requests)
          /\ \A i \in 1..Len(Tail(lldb[p].inbox)) :
                    /\ i + 1 \in 1..Len(lldb[p].inbox)
                    /\ Tail(lldb[p].inbox)[i] = lldb[p].inbox[i + 1]
        <2>1. lldb[p].inbox # <<>> /\ lldb[p].inbox \in Seq(Requests)
            BY DEF LldbServes, IInv, TypeOK, Engines
        <2> QED
            BY <2>1, Remaining
    <1>4. /\ lldb' \in [Processes -> Engines]
          /\ \A q \in Processes : q # p => lldb'[q] = lldb[q]
          /\ lldb'[p].state = s /\ lldb'[p].inbox = Tail(lldb[p].inbox)
        <2>1. lldb \in [Processes -> Engines]
            BY DEF IInv, TypeOK
        <2>2. lldb' = [lldb EXCEPT ![p].inbox = Tail(@), ![p].state = s]
            BY <1>2
        <2>3. lldb' = [lldb EXCEPT ![p] =
                          [lldb[p] EXCEPT !.inbox = Tail(lldb[p].inbox), !.state = s]]
            BY <2>2
        <2> DEFINE e == [lldb[p] EXCEPT !.inbox = Tail(lldb[p].inbox), !.state = s]
        <2>4. e \in Engines /\ e.state = s /\ e.inbox = Tail(lldb[p].inbox)
            BY <1>3, <2>1 DEF Engines
        <2> HIDE DEF e
        <2> QED
            BY <2>1, <2>3, <2>4 DEF e
    <1>5. Quiet(m) \/ (Debugged(p) /\ child[p].marked)
        BY <1>2, <1>3 DEF IInv, Released
    <1>6. /\ link' \in [Processes -> Links]
          /\ \A q \in Processes :
                    link'[q].conn = link[q].conn /\ (q # p => link'[q].wire = link[q].wire)
          /\ ~child[p].marked /\ Quiet(link[p].wire) => Quiet(link'[p].wire)
          /\ child[p].life = "gone" /\ Quiet(link[p].wire) => Quiet(link'[p].wire)
          /\ ~HasEnd(link[p].wire) => ~HasEnd(link'[p].wire)
          /\ EndIsLast(link'[p].wire)
        <2>1. child[p].life = "gone" => Quiet(m)
            BY <1>5 DEF IInv, GoneIsNotDebugged
        <2>2. child[p].life # "gone" => ~HasEnd(link[p].wire)
            BY DEF IInv, Over
        <2>3. EndIsLast(link[p].wire)
            BY DEF IInv, EndsLast
        <2> QED
            BY <1>2, <1>5, <2>1, <2>2, <2>3, Sent DEF IInv
    <1>7. RoutesAgree' /\ Past' /\ Walk' /\ KnownOwned'
        BY <1>1 DEF IInv, RoutesAgree, Past, Had, Connects, Starting, Walk, HandlesEnd, KnownOwned
    <1>8. TypeOK'
        BY <1>1, <1>2, <1>3, <1>4, <1>5, <1>6 DEF IInv, TypeOK
    <1>9. Charge'
        BY <1>1, <1>6, StartIsOf DEF IInv, Charge, Opens, Closes
    <1>10. Released'
        BY <1>1, <1>2, <1>3, <1>4, <1>5, <1>6, Busy DEF IInv, Released
    <1>11. Over'
        BY <1>1, <1>2, <1>5, <1>6 DEF IInv, Over, HandlesEnd, Starting
    <1>12. GoneIsNotDebugged'
        BY <1>1, <1>2, <1>3, <1>4, <1>5, <1>6 DEF IInv, GoneIsNotDebugged, Debugged
    <1>13. EndsLast'
        <2> DEFINE Ending(q) ==
                       q \in retired \/ \E a \in Handlers : HandlesEnd(a) /\ call[a].process = q
                   EndingNext(q) ==
                       q \in retired' \/ \E a \in Handlers : HandlesEnd(a)' /\ call'[a].process = q
                   Kept(q) == /\ Quiet(link'[q].wire)
                              /\ call'[q] # Free => ~Registers(call'[q].event)
        <2>1. \A q \in Processes :
                  /\ EndIsLast(link[q].wire)
                  /\ Ending(q) => /\ Quiet(link[q].wire)
                                  /\ call[q] # Free => ~Registers(call[q].event)
            BY DEF IInv, EndsLast
        <2>2. \A q \in Processes : EndingNext(q) => Ending(q) /\ child[q].life = "gone"
            BY <1>1 DEF IInv, Over, HandlesEnd
        <2>3. \A q \in Processes : EndIsLast(link'[q].wire)
            BY <1>6, <2>1
        <2>4. \A q \in Processes : EndingNext(q) => Kept(q)
            <3> HIDE DEF Ending, EndingNext
            <3> QED
                BY <1>1, <1>6, <2>1, <2>2
        <2> QED
            BY <2>3, <2>4 DEF EndsLast
    <1> QED
        BY <1>7, <1>8, <1>9, <1>10, <1>11, <1>12, <1>13 DEF IInv

LEMMA LldbCrashesInv ==
    ASSUME IInv, NEW p \in Processes, LldbCrashes(p)
    PROVE  IInv'
    <1>1. UNCHANGED <<child, configured, stop, sessions, recorded, retired, known, watcher, tries,
       call, asked, hook, closing, frames, variables, told, seen>>
        BY DEF LldbCrashes, manager, tables, editor
    <1>2. /\ lldb' \in [Processes -> Engines]
          /\ \A q \in Processes : q # p => lldb'[q] = lldb[q]
          /\ lldb'[p].state = "none" /\ lldb'[p].inbox = <<>>
        BY Nothing, ZenonT(40) DEF LldbCrashes, IInv, TypeOK, Engines
    <1>3. /\ link' \in [Processes -> Links]
          /\ \A q \in Processes :
                    link'[q].conn = link[q].conn /\ (q # p => link'[q].wire = link[q].wire)
          /\ Quiet(link[p].wire) => Quiet(link'[p].wire)
          /\ ~HasEnd(link[p].wire) => ~HasEnd(link'[p].wire)
          /\ EndIsLast(link[p].wire) => EndIsLast(link'[p].wire)
        <2>1. /\ Event("eof", None, 0) \in Events \cup Replies /\ ~Registers(Event("eof", None, 0))
              /\ Event("eof", None, 0).kind # "exited"
            BY DEF Event, Events, Registers
        <2> QED
            BY <2>1, Sent, Single DEF IInv, LldbCrashes
    <1>4. RoutesAgree' /\ Past' /\ Walk' /\ KnownOwned'
        BY <1>1 DEF IInv, RoutesAgree, Past, Had, Connects, Starting, Walk, HandlesEnd, KnownOwned
    <1>5. TypeOK'
        BY <1>1, <1>2, <1>3 DEF IInv, TypeOK
    <1>6. Charge'
        BY <1>1, <1>3, StartIsOf DEF IInv, Charge, Opens, Closes
    <1>7. Released'
        BY <1>1, <1>2, <1>3, Busy DEF IInv, Released
    <1>8. Over'
        BY <1>1, <1>3 DEF IInv, Over, HandlesEnd, Starting
    <1>9. GoneIsNotDebugged'
        BY <1>1, <1>2 DEF IInv, GoneIsNotDebugged, Debugged
    <1>10. EndsLast'
        BY <1>1, <1>3 DEF IInv, EndsLast, HandlesEnd
    <1> QED
        BY <1>4, <1>5, <1>6, <1>7, <1>8, <1>9, <1>10 DEF IInv

LEMMA ReadsAnswerInv ==
    ASSUME IInv, NEW p \in Processes, ReaderReads(p),
           Head(link[p].wire).kind \in {"answer", "refusal"}
    PROVE  IInv'
    <1>1. UNCHANGED <<lldb, child, configured, stop, sessions, recorded, retired, known, tries,
       hook, closing, frames, variables, told, seen, watcher, call>>
        BY DEF ReaderReads, world, manager, tables, editor
    <1>2. /\ link' \in [Processes -> Links]
          /\ \A q \in Processes :
                    link'[q].conn = link[q].conn /\ (q # p => link'[q].wire = link[q].wire)
          /\ Quiet(link[p].wire) => Quiet(link'[p].wire) /\ ~Registers(Head(link[p].wire))
          /\ ~HasEnd(link[p].wire) =>
                    ~HasEnd(link'[p].wire) /\ Head(link[p].wire).kind # "exited"
          /\ EndIsLast(link[p].wire) => EndIsLast(link'[p].wire)
          /\ EndIsLast(link[p].wire) /\ Head(link[p].wire).kind = "exited" => Quiet(link'[p].wire)
          /\ Head(link[p].wire) \in Events \cup Replies
        <2>1. link[p].wire # <<>> /\ link' = [link EXCEPT ![p].wire = Tail(@)]
            BY DEF ReaderReads
        <2> QED
            BY <2>1, Received DEF IInv
    <1>3. asked' \in [Askers -> Replies \cup {Unasked, Waiting}]
        <2>1. Head(link[p].wire) \in Replies
            BY <1>2 DEF Events
        <2> QED
            BY <2>1, ZenonT(40) DEF ReaderReads, IInv, TypeOK
    <1>4. RoutesAgree' /\ Past' /\ GoneIsNotDebugged' /\ Walk' /\ KnownOwned'
        BY <1>1 DEF IInv, RoutesAgree, Past, Had, Connects, Starting, GoneIsNotDebugged, Debugged,
           Walk, HandlesEnd, KnownOwned
    <1>5. TypeOK'
        BY <1>1, <1>2, <1>3, WatcherIsNoProcess DEF IInv, TypeOK
    <1>6. Charge'
        BY <1>1, <1>2, StartIsOf DEF IInv, Charge, Opens, Closes
    <1>7. Released'
        BY <1>1, <1>2, Busy, WatcherIsNoProcess, Nothing DEF IInv, Released
    <1>8. Over'
        BY <1>1, <1>2, Busy, WatcherIsNoProcess, Nothing DEF IInv, Over, HandlesEnd, Starting
    <1>9. EndsLast'
        BY <1>1, <1>2, Busy, WatcherIsNoProcess, Nothing DEF IInv, EndsLast, HandlesEnd
    <1> QED
        BY <1>4, <1>5, <1>6, <1>7, <1>8, <1>9 DEF IInv

LEMMA ReadsEofInv ==
    ASSUME IInv, NEW p \in Processes, ReaderReads(p),
           Head(link[p].wire).kind = "eof"
    PROVE  IInv'
    <1>1. UNCHANGED <<lldb, child, configured, stop, sessions, recorded, retired, known, tries,
       hook, closing, frames, variables, told, seen, watcher, call>>
        BY DEF ReaderReads, world, manager, tables, editor
    <1>2. /\ link[p].conn = "open"
          /\ link' = [link EXCEPT ![p] = [conn |-> "ended", wire |-> <<>>]]
        BY DEF ReaderReads
    <1>3. /\ link' \in [Processes -> Links]
          /\ \A q \in Processes : q # p => link'[q] = link[q]
          /\ link'[p].conn = "ended" /\ link'[p].wire = <<>>
        BY <1>2, Nothing DEF IInv, TypeOK, Links
    <1>4. asked' \in [Askers -> Replies \cup {Unasked, Waiting}]
        <2>1. \A w \in Askers : Reply("refusal", w, 0) \in Replies
            BY ChildSessionsAssumption DEF Reply, Replies
        <2>2. asked \in [Askers -> Replies \cup {Unasked, Waiting}]
            BY DEF IInv, TypeOK
        <2> DEFINE new(w) == IF asked[w] = Waiting
                                /\ p = (IF w = Watcher THEN watcher.process ELSE hook[w].process)
                             THEN Reply("refusal", w, 0) ELSE asked[w]
        <2>3. asked' = [w \in Askers |-> new(w)]
            BY DEF ReaderReads
        <2>4. \A w \in Askers : new(w) \in Replies \cup {Unasked, Waiting}
            BY <2>1, <2>2
        <2> HIDE DEF new
        <2> QED
            BY <2>3, <2>4
    <1>5. RoutesAgree' /\ Past' /\ GoneIsNotDebugged' /\ Walk' /\ KnownOwned'
        BY <1>1 DEF IInv, RoutesAgree, Past, Had, Connects, Starting, GoneIsNotDebugged, Debugged,
           Walk, HandlesEnd, KnownOwned
    <1>6. TypeOK'
        BY <1>1, <1>2, <1>3, <1>4, WatcherIsNoProcess DEF IInv, TypeOK
    <1>7. Charge'
        BY <1>1, <1>2, <1>3, StartIsOf DEF IInv, Charge, Opens, Closes
    <1>8. Released'
        BY <1>1, <1>2, <1>3, Busy, WatcherIsNoProcess, Nothing DEF IInv, Released
    <1>9. Over'
        BY <1>1, <1>2, <1>3, Busy, WatcherIsNoProcess, Nothing DEF IInv, Over, HandlesEnd,
           Starting
    <1>10. EndsLast'
        BY <1>1, <1>2, <1>3, Busy, WatcherIsNoProcess, Nothing DEF IInv, EndsLast, HandlesEnd
    <1> QED
        BY <1>5, <1>6, <1>7, <1>8, <1>9, <1>10 DEF IInv

LEMMA ReadsEventInv ==
    ASSUME IInv, NEW p \in Processes, ReaderReads(p),
           Head(link[p].wire).kind \notin {"answer", "refusal", "eof"},
           p \in sessions
    PROVE  IInv'
    <1>1. UNCHANGED <<lldb, child, configured, stop, sessions, recorded, retired, known, tries,
       hook, closing, frames, variables, told, seen, watcher, asked>>
        BY DEF ReaderReads, world, manager, tables, editor, ReaderDispatches
    <1>2. /\ link' \in [Processes -> Links]
          /\ \A q \in Processes :
                    link'[q].conn = link[q].conn /\ (q # p => link'[q].wire = link[q].wire)
          /\ Quiet(link[p].wire) => Quiet(link'[p].wire) /\ ~Registers(Head(link[p].wire))
          /\ ~HasEnd(link[p].wire) =>
                    ~HasEnd(link'[p].wire) /\ Head(link[p].wire).kind # "exited"
          /\ EndIsLast(link[p].wire) => EndIsLast(link'[p].wire)
          /\ EndIsLast(link[p].wire) /\ Head(link[p].wire).kind = "exited" => Quiet(link'[p].wire)
          /\ Head(link[p].wire) \in Events \cup Replies
        <2>1. link[p].wire # <<>> /\ link' = [link EXCEPT ![p].wire = Tail(@)]
            BY DEF ReaderReads
        <2> QED
            BY <2>1, Received DEF IInv
    <1>3. /\ call' \in [Handlers -> Handled \cup {Free}]
          /\ call'[p] # Free /\ call'[p].at = "record"
          /\ call'[p].process = p /\ call'[p].event = Head(link[p].wire)
          /\ \A b \in Handlers : b # p => call'[b] = call[b]
          /\ p \in Handlers
        <2>1. Head(link[p].wire) \in Events
            BY <1>2 DEF Replies
        <2>2. call' = [call EXCEPT ![p] = [at |-> "record", process |-> p,
                                          event |-> Head(link[p].wire)]]
            BY DEF ReaderReads, ReaderDispatches
        <2> QED
            BY <2>1, <2>2, Taken, WatcherIsNoProcess DEF IInv
    <1>4. call[p] = Free /\ call[p].at = "free"
        BY DEF ReaderReads, Free
    <1>5. /\ Registers(Head(link[p].wire)) => child[p].marked
          /\ Head(link[p].wire).kind = "exited" => child[p].life = "gone"
          /\ ~Connects(p)
        BY <1>2 DEF IInv, Released, Over, Past
    <1>6. RoutesAgree' /\ GoneIsNotDebugged' /\ KnownOwned'
        BY <1>1 DEF IInv, RoutesAgree, GoneIsNotDebugged, Debugged, KnownOwned, Connects
    <1>7. TypeOK'
        BY <1>1, <1>2, <1>3, <1>4, <1>5, WatcherIsNoProcess DEF IInv, TypeOK
    <1>8. Charge'
        BY <1>1, <1>2, <1>3, <1>4, <1>5, StartIsOf DEF IInv, Charge, Opens, Closes
    <1>9. Past'
        BY <1>1, <1>3, <1>4, <1>5 DEF IInv, Past, Had, Connects, Starting
    <1>10. Released'
        BY <1>1, <1>2, <1>3, <1>4, <1>5, Busy, WatcherIsNoProcess, Nothing DEF IInv, Released
    <1>11. Over'
        BY <1>1, <1>2, <1>3, <1>4, <1>5, Busy, WatcherIsNoProcess, Nothing DEF IInv, Over,
           HandlesEnd, Starting
    <1>12. EndsLast'
        <2> DEFINE Ending(q) ==
                       q \in retired \/ \E a \in Handlers : HandlesEnd(a) /\ call[a].process = q
                   EndingNext(q) ==
                       q \in retired' \/ \E a \in Handlers : HandlesEnd(a)' /\ call'[a].process = q
                   Kept(q) == /\ Quiet(link'[q].wire)
                              /\ call'[q] # Free => ~Registers(call'[q].event)
        <2>1. \A q \in Processes :
                  /\ EndIsLast(link[q].wire)
                  /\ Ending(q) => /\ Quiet(link[q].wire)
                                  /\ call[q] # Free => ~Registers(call[q].event)
            BY DEF IInv, EndsLast
        <2>2. \A q \in Processes : EndIsLast(link'[q].wire)
            BY <1>2, <2>1
        <2>3. \A q \in Processes :
                  EndingNext(q) => Ending(q) \/ (q = p /\ Head(link[p].wire).kind = "exited")
            BY <1>1, <1>3, <1>4, Busy DEF IInv, HandlesEnd
        <2>4. \A q \in Processes : q # p => link'[q].wire = link[q].wire /\ call'[q] = call[q]
            BY <1>2, <1>3, WatcherIsNoProcess
        <2>5. Head(link[p].wire).kind = "exited" => ~Registers(Head(link[p].wire))
            BY DEF Registers
        <2>6. \A q \in Processes : EndingNext(q) => Kept(q)
            <3> HIDE DEF Ending, EndingNext
            <3> QED
                BY <1>2, <1>3, <2>1, <2>3, <2>4, <2>5
        <2> QED
            BY <2>2, <2>6 DEF EndsLast
    <1>13. Walk'
        BY <1>1, <1>3, <1>4 DEF IInv, Walk, HandlesEnd
    <1> QED
        BY <1>6, <1>7, <1>8, <1>9, <1>10, <1>11, <1>12, <1>13 DEF IInv

LEMMA BuffersEventInv ==
    ASSUME IInv, NEW p \in Processes, ReaderReads(p),
           Head(link[p].wire).kind \notin {"answer", "refusal", "eof"},
           p \notin sessions
    PROVE  IInv'
    <1>1. UNCHANGED <<lldb, child, configured, stop, sessions, recorded, retired, known, tries,
       hook, closing, frames, variables, told, seen, call, asked>>
        BY DEF ReaderReads, world, manager, tables, editor, ReaderDispatches
    <1>2. /\ link' \in [Processes -> Links]
          /\ \A q \in Processes :
                    link'[q].conn = link[q].conn /\ (q # p => link'[q].wire = link[q].wire)
          /\ Quiet(link[p].wire) => Quiet(link'[p].wire) /\ ~Registers(Head(link[p].wire))
          /\ ~HasEnd(link[p].wire) =>
                    ~HasEnd(link'[p].wire) /\ Head(link[p].wire).kind # "exited"
          /\ EndIsLast(link[p].wire) => EndIsLast(link'[p].wire)
          /\ EndIsLast(link[p].wire) /\ Head(link[p].wire).kind = "exited" => Quiet(link'[p].wire)
          /\ Head(link[p].wire) \in Events \cup Replies
        <2>1. link[p].wire # <<>> /\ link' = [link EXCEPT ![p].wire = Tail(@)]
            BY DEF ReaderReads
        <2> QED
            BY <2>1, Received DEF IInv
    <1>3. watcher' = IF watcher.process = p
                 THEN [watcher EXCEPT !.buffer = Append(@, Head(link[p].wire))]
                 ELSE watcher
        BY DEF ReaderReads, ReaderDispatches
    <1>4. /\ watcher' \in Starts \cup {Asleep}
          /\ watcher'.at = watcher.at /\ watcher'.process = watcher.process
          /\ watcher.process # p => watcher' = watcher
          /\ watcher.process = p /\ Quiet(watcher.buffer) /\ Quiet(link[p].wire) =>
                    Quiet(watcher'.buffer)
          /\ watcher.process = p /\ ~HasEnd(watcher.buffer) /\ ~HasEnd(link[p].wire) =>
                    ~HasEnd(watcher'.buffer)
        <2>1. CASE watcher.process = p
            <3>1. watcher \in Starts /\ watcher.buffer \in Seq(Events)
                BY <2>1, StartIsOf DEF IInv
            <3>2. Head(link[p].wire) \in Events
                BY <1>2 DEF Replies
            <3>3. Append(watcher.buffer, Head(link[p].wire)) \in Seq(Events)
                BY <3>1, <3>2
            <3>4. /\ watcher' \in Starts
                  /\ watcher'.at = watcher.at /\ watcher'.process = watcher.process
                  /\ watcher'.buffer = Append(watcher.buffer, Head(link[p].wire))
                BY <1>3, <2>1, <3>1, <3>3 DEF Starts
            <3> QED
                BY <1>2, <2>1, <3>1, <3>2, <3>4, Appended
        <2>2. CASE watcher.process # p
            BY <1>3, <2>2 DEF IInv, TypeOK
        <2> QED
            BY <2>1, <2>2
    <1>5. watcher.process = p => ~child[p].marked
        BY DEF IInv, Past, Starting
    <1>6. RoutesAgree' /\ GoneIsNotDebugged' /\ Walk'
        BY <1>1 DEF IInv, RoutesAgree, GoneIsNotDebugged, Debugged, Walk, HandlesEnd
    <1>7. TypeOK'
        BY <1>1, <1>2, <1>3, <1>4, <1>5, WatcherIsNoProcess DEF IInv, TypeOK
    <1>8. Charge'
        BY <1>1, <1>2, <1>3, <1>4, <1>5, StartIsOf DEF IInv, Charge, Opens, Closes
    <1>9. Past'
        BY <1>1, <1>3, <1>4, <1>5 DEF IInv, Past, Had, Connects, Starting
    <1>10. Released'
        BY <1>1, <1>2, <1>3, <1>4, <1>5, Busy, WatcherIsNoProcess, Nothing DEF IInv, Released
    <1>11. Over'
        BY <1>1, <1>2, <1>3, <1>4, <1>5, Busy, WatcherIsNoProcess, Nothing DEF IInv, Over,
           HandlesEnd, Starting
    <1>12. EndsLast'
        BY <1>1, <1>2, <1>3, <1>4, Busy, WatcherIsNoProcess, Nothing DEF IInv, EndsLast,
           HandlesEnd
    <1>13. KnownOwned'
        BY <1>1, <1>3, <1>4, <1>5 DEF IInv, KnownOwned, Connects
    <1> QED
        BY <1>6, <1>7, <1>8, <1>9, <1>10, <1>11, <1>12, <1>13 DEF IInv

LEMMA ReaderReadsInv ==
    ASSUME IInv, NEW p \in Processes, ReaderReads(p)
    PROVE  IInv'
    <1>1. CASE Head(link[p].wire).kind \in {"answer", "refusal"}
        BY <1>1, ReadsAnswerInv
    <1>2. CASE Head(link[p].wire).kind = "eof"
        BY <1>2, ReadsEofInv
    <1>3. CASE Head(link[p].wire).kind \notin {"answer", "refusal", "eof"} /\ p \in sessions
        BY <1>3, ReadsEventInv
    <1>4. CASE Head(link[p].wire).kind \notin {"answer", "refusal", "eof"} /\ p \notin sessions
        BY <1>4, BuffersEventInv
    <1> QED
        BY <1>1, <1>2, <1>3, <1>4

LEMMA StartBeginsInv ==
    ASSUME IInv, NEW p \in Processes, StartBegins(p)
    PROVE  IInv'
    <1>1. UNCHANGED <<child, lldb, configured, stop, sessions, recorded, retired, known, call,
       asked, hook, closing, frames, variables, told, seen>>
        BY DEF StartBegins, world, manager, tables, editor
    <1>2. /\ watcher' \in Starts \cup {Asleep} /\ watcher'.at = "initialize"
          /\ watcher'.process = p /\ watcher'.buffer = <<>>
          /\ watcher.at = "asleep" /\ watcher.process \notin Processes
          /\ ~stop /\ p \notin sessions \cup retired
        BY Nothing, WatcherIsNoProcess DEF StartBegins, Starts, Asleep, Phases, Range
    <1>3. /\ link' \in [Processes -> Links]
          /\ \A q \in Processes : q # p => link'[q] = link[q]
          /\ link'[p].wire = <<>> /\ known \subseteq Processes
          /\ tries' \in [Processes -> 0..MaxTries]
        BY Nothing, ChildSessionsAssumption DEF StartBegins, IInv, TypeOK, Links
    <1>4. RoutesAgree' /\ GoneIsNotDebugged' /\ Walk'
        BY <1>1 DEF IInv, RoutesAgree, GoneIsNotDebugged, Debugged, Walk, HandlesEnd
    <1>5. TypeOK'
        BY <1>1, <1>2, <1>3 DEF IInv, TypeOK
    <1>6. Charge'
        BY <1>1, <1>2, <1>3 DEF IInv, Charge, Opens, Closes
    <1>7. Past'
        BY <1>1, <1>2 DEF IInv, Past, Had, Connects, Starting
    <1>8. Released'
        BY <1>1, <1>2, <1>3, Busy, Nothing DEF IInv, Released
    <1>9. Over'
        BY <1>1, <1>2, <1>3, Busy, Nothing DEF IInv, Over, HandlesEnd, Starting
    <1>10. EndsLast'
        BY <1>1, <1>2, <1>3, Busy, Nothing DEF IInv, EndsLast, HandlesEnd
    <1>11. KnownOwned'
        BY <1>1, <1>2, <1>3 DEF IInv, KnownOwned, Connects
    <1> QED
        BY <1>4, <1>5, <1>6, <1>7, <1>8, <1>9, <1>10, <1>11 DEF IInv

LEMMA StartAsksInv ==
    ASSUME IInv, StartAsks
    PROVE  IInv'
    <1>1. UNCHANGED <<child, link, configured, stop, sessions, recorded, retired, known, watcher,
       tries, call, hook, closing, frames, variables, told, seen>>
        BY DEF StartAsks, manager, tables, editor
    <1>2. watcher.process \in Processes
        BY StartIsOf, PhasesOnly DEF StartAsks, InPhase, IInv
    <1>3. /\ asked' \in [Askers -> Replies \cup {Unasked, Waiting}]
          /\ lldb' \in [Processes -> Engines]
          /\ \A q \in Processes :
                    lldb'[q].state = lldb[q].state /\ (q # watcher.process => lldb'[q] = lldb[q])
          /\ \A i \in 1..Len(lldb'[watcher.process].inbox) :
                    lldb'[watcher.process].inbox[i].kind = "continue" =>
                        \/ /\ i \in 1..Len(lldb[watcher.process].inbox)
                           /\ lldb'[watcher.process].inbox[i] = lldb[watcher.process].inbox[i]
                        \/ lldb'[watcher.process].inbox[i].thread = None
        <2>1. Watcher \in Askers /\ watcher.at \in Kinds
            BY DEF Askers, Kinds, StartAsks, InPhase
        <2> QED
            BY <1>2, <2>1, Asked DEF IInv, StartAsks
    <1>4. RoutesAgree' /\ Charge' /\ Past' /\ Over' /\ EndsLast' /\ Walk' /\ KnownOwned'
        BY <1>1 DEF IInv, RoutesAgree, Charge, Opens, Closes, Past, Had, Connects, Starting, Over,
           HandlesEnd, EndsLast, Walk, KnownOwned
    <1>5. TypeOK'
        BY <1>1, <1>2, <1>3 DEF IInv, TypeOK
    <1>6. Released'
        BY <1>1, <1>2, <1>3, Busy DEF IInv, Released
    <1>7. GoneIsNotDebugged'
        BY <1>1, <1>3 DEF IInv, GoneIsNotDebugged, Debugged
    <1> QED
        BY <1>4, <1>5, <1>6, <1>7 DEF IInv

LEMMA StartAnsweredInv ==
    ASSUME IInv, StartAnswered
    PROVE  IInv'
    <1>1. UNCHANGED <<child, lldb, link, configured, stop, sessions, recorded, retired, known,
       tries, call, hook, closing, frames, variables, told, seen>>
        BY DEF StartAnswered, world, manager, tables, editor
    <1>2. /\ watcher.at \in Range(Phases) /\ watcher.at \notin {"asleep", "drain", "mark", "forget"}
          /\ NextPhase(watcher.at) \in Range(Phases) \cup {"register"}
          /\ NextPhase(watcher.at) \notin {"drain", "mark", "forget"}
        BY PhasesOnly DEF StartAnswered, InPhase
    <1>3. /\ watcher' \in Starts \cup {Asleep} /\ watcher'.at = NextPhase(watcher.at)
          /\ watcher'.process = watcher.process /\ watcher'.buffer = watcher.buffer
        BY <1>2, Gone DEF StartAnswered, IInv
    <1>4. asked' \in [Askers -> Replies \cup {Unasked, Waiting}]
        BY DEF StartAnswered, IInv, TypeOK
    <1>5. RoutesAgree' /\ GoneIsNotDebugged' /\ EndsLast' /\ Walk'
        BY <1>1 DEF IInv, RoutesAgree, GoneIsNotDebugged, Debugged, EndsLast, HandlesEnd, Walk
    <1>6. TypeOK'
        BY <1>1, <1>2, <1>3, <1>4 DEF IInv, TypeOK
    <1>7. Charge'
        BY <1>1, <1>2, <1>3 DEF IInv, Charge, Opens, Closes
    <1>8. Past'
        BY <1>1, <1>2, <1>3 DEF IInv, Past, Had, Connects, Starting
    <1>9. Released'
        BY <1>1, <1>2, <1>3, Busy DEF IInv, Released
    <1>10. Over'
        BY <1>1, <1>2, <1>3 DEF IInv, Over, HandlesEnd, Starting
    <1>11. KnownOwned'
        BY <1>1, <1>2, <1>3 DEF IInv, KnownOwned, Connects
    <1> QED
        BY <1>5, <1>6, <1>7, <1>8, <1>9, <1>10, <1>11 DEF IInv

LEMMA StartGivesUpInv ==
    ASSUME IInv, StartGivesUp
    PROVE  IInv'
    <1>1. UNCHANGED <<child, lldb, link, configured, stop, sessions, recorded, retired, known,
       tries, call, hook, closing, frames, variables, told, seen>>
        BY DEF StartGivesUp, world, manager, tables, editor
    <1>2. watcher.at \in Range(Phases) /\ watcher.at \notin {"asleep", "drain", "mark", "forget"}
        BY PhasesOnly DEF StartGivesUp, InPhase
    <1>3. /\ watcher' \in Starts \cup {Asleep} /\ watcher'.at = "close"
          /\ watcher'.process = watcher.process /\ watcher'.buffer = watcher.buffer
        BY <1>2, Gone DEF StartGivesUp, IInv
    <1>4. asked' \in [Askers -> Replies \cup {Unasked, Waiting}]
        BY DEF StartGivesUp, IInv, TypeOK
    <1>5. RoutesAgree' /\ GoneIsNotDebugged' /\ EndsLast' /\ Walk'
        BY <1>1 DEF IInv, RoutesAgree, GoneIsNotDebugged, Debugged, EndsLast, HandlesEnd, Walk
    <1>6. TypeOK'
        BY <1>1, <1>2, <1>3, <1>4 DEF IInv, TypeOK
    <1>7. Charge'
        BY <1>1, <1>2, <1>3 DEF IInv, Charge, Opens, Closes
    <1>8. Past'
        BY <1>1, <1>2, <1>3 DEF IInv, Past, Had, Connects, Starting
    <1>9. Released'
        BY <1>1, <1>2, <1>3, Busy DEF IInv, Released
    <1>10. Over'
        BY <1>1, <1>2, <1>3 DEF IInv, Over, HandlesEnd, Starting
    <1>11. KnownOwned'
        BY <1>1, <1>2, <1>3 DEF IInv, KnownOwned, Connects
    <1> QED
        BY <1>5, <1>6, <1>7, <1>8, <1>9, <1>10, <1>11 DEF IInv

LEMMA StartRegistersInv ==
    ASSUME IInv, StartRegisters
    PROVE  IInv'
    <1>1. UNCHANGED <<child, lldb, link, configured, stop, sessions, recorded, retired, tries,
       call, asked, hook, closing, frames, variables, told, seen>>
        BY DEF StartRegisters, world, manager, tables, editor
    <1>2. /\ watcher.at = "register" /\ watcher.process \in Processes
          /\ known' = known \cup {watcher.process}
        BY StartIsOf DEF StartRegisters, IInv
    <1>3. /\ watcher' \in Starts \cup {Asleep} /\ watcher'.at = "insert"
          /\ watcher'.process = watcher.process /\ watcher'.buffer = watcher.buffer
        BY Gone DEF StartRegisters, IInv
    <1>4. RoutesAgree' /\ GoneIsNotDebugged' /\ EndsLast'
        BY <1>1 DEF IInv, RoutesAgree, GoneIsNotDebugged, Debugged, EndsLast, HandlesEnd
    <1>5. TypeOK'
        BY <1>1, <1>2, <1>3 DEF IInv, TypeOK
    <1>6. Charge'
        BY <1>1, <1>2, <1>3 DEF IInv, Charge, Opens, Closes
    <1>7. Past'
        BY <1>1, <1>2, <1>3 DEF IInv, Past, Had, Connects, Starting
    <1>8. Released'
        BY <1>1, <1>2, <1>3, Busy DEF IInv, Released
    <1>9. Over'
        BY <1>1, <1>2, <1>3 DEF IInv, Over, HandlesEnd, Starting
    <1>10. Walk'
        BY <1>1, <1>2 DEF IInv, Walk, HandlesEnd, Past, Connects
    <1>11. KnownOwned'
        BY <1>1, <1>2, <1>3 DEF IInv, KnownOwned, Connects
    <1> QED
        BY <1>4, <1>5, <1>6, <1>7, <1>8, <1>9, <1>10, <1>11 DEF IInv

LEMMA InsertsNothingInv ==
    ASSUME IInv, StartInserts,
           (watcher.process \in sessions \cup retired \/ stop)
    PROVE  IInv'
    <1>1. UNCHANGED <<configured, known, tries, call, asked, hook, closing, frames, variables,
       told, seen, child, stop, retired, sessions, recorded>>
        BY DEF StartInserts, tables, editor
    <1>2. watcher.at = "insert" /\ watcher.process \in Processes
        BY StartIsOf DEF StartInserts, IInv
    <1>3. stop
        BY <1>2 DEF IInv, Past, Connects
    <1>4. /\ watcher' \in Starts \cup {Asleep}
          /\ watcher'.at = "asleep" /\ watcher'.process \notin Processes
          /\ Quiet(watcher'.buffer) /\ ~HasEnd(watcher'.buffer)
        BY Slept DEF StartInserts
    <1>5. /\ link' \in [Processes -> Links] /\ lldb' \in [Processes -> Engines]
          /\ \A q \in Processes : q # watcher.process => link'[q] = link[q] /\ lldb'[q] = lldb[q]
          /\ link'[watcher.process].conn = "closed" /\ lldb'[watcher.process].state = "none"
          /\ Quiet(link'[watcher.process].wire) /\ ~HasEnd(link'[watcher.process].wire)
          /\ EndIsLast(link'[watcher.process].wire)
          /\ lldb'[watcher.process].inbox = <<>>
        BY <1>2, HungUp DEF StartInserts, IInv
    <1>6. RoutesAgree' /\ Walk'
        BY <1>1 DEF IInv, RoutesAgree, Walk, HandlesEnd
    <1>7. TypeOK'
        BY <1>1, <1>2, <1>3, <1>4, <1>5, WatcherIsNoProcess DEF IInv, TypeOK
    <1>8. Charge'
        BY <1>1, <1>2, <1>3, <1>4, <1>5, StartIsOf DEF IInv, Charge, Opens, Closes
    <1>9. Past'
        BY <1>1, <1>2, <1>3, <1>4, <1>5, Busy, WatcherIsNoProcess DEF IInv, Past, Had, Connects,
           Starting
    <1>10. Released'
        BY <1>1, <1>2, <1>4, <1>5, Busy, WatcherIsNoProcess DEF IInv, Released
    <1>11. Over'
        BY <1>1, <1>2, <1>4, <1>5, Busy, WatcherIsNoProcess DEF IInv, Over, HandlesEnd, Starting
    <1>12. GoneIsNotDebugged'
        BY <1>1, <1>5 DEF IInv, GoneIsNotDebugged, Debugged
    <1>13. EndsLast'
        BY <1>1, <1>5, Busy, WatcherIsNoProcess DEF IInv, EndsLast, HandlesEnd
    <1>14. KnownOwned'
        BY <1>1, <1>2, <1>3, <1>4, <1>5 DEF IInv, KnownOwned, Connects
    <1> QED
        BY <1>6, <1>7, <1>8, <1>9, <1>10, <1>11, <1>12, <1>13, <1>14 DEF IInv

LEMMA InsertsSessionInv ==
    ASSUME IInv, StartInserts,
           ~(watcher.process \in sessions \cup retired \/ stop)
    PROVE  IInv'
    <1>1. UNCHANGED <<configured, known, tries, call, asked, hook, closing, frames, variables,
       told, seen, child, stop, retired, link, lldb>>
        BY DEF StartInserts, tables, editor
    <1>2. /\ watcher.at = "insert" /\ watcher.process \in Processes
          /\ sessions' = sessions \cup {watcher.process}
          /\ ~stop /\ watcher.process \notin retired
        BY StartIsOf DEF StartInserts, IInv
    <1>3. recorded' \in [Processes -> SUBSET Threads]
        BY <1>2 DEF StartInserts, IInv, TypeOK
    <1>4. /\ watcher' \in Starts \cup {Asleep} /\ watcher'.at = "drain"
          /\ watcher'.process = watcher.process /\ watcher'.buffer = watcher.buffer
        BY <1>2, Gone DEF StartInserts, IInv
    <1>5. RoutesAgree' /\ GoneIsNotDebugged' /\ EndsLast' /\ Walk'
        BY <1>1 DEF IInv, RoutesAgree, GoneIsNotDebugged, Debugged, EndsLast, HandlesEnd, Walk
    <1>6. TypeOK'
        BY <1>1, <1>2, <1>3, <1>4, WatcherIsNoProcess DEF IInv, TypeOK
    <1>7. Charge'
        BY <1>1, <1>2, <1>4, StartIsOf DEF IInv, Charge, Opens, Closes
    <1>8. Past'
        BY <1>1, <1>2, <1>4, Busy, WatcherIsNoProcess DEF IInv, Past, Had, Connects, Starting
    <1>9. Released'
        BY <1>1, <1>2, <1>4, Busy, WatcherIsNoProcess DEF IInv, Released
    <1>10. Over'
        BY <1>1, <1>2, <1>4, Busy, WatcherIsNoProcess DEF IInv, Over, HandlesEnd, Starting
    <1>11. KnownOwned'
        BY <1>1, <1>2, <1>4 DEF IInv, KnownOwned, Connects
    <1> QED
        BY <1>5, <1>6, <1>7, <1>8, <1>9, <1>10, <1>11 DEF IInv

LEMMA StartInsertsInv ==
    ASSUME IInv, StartInserts
    PROVE  IInv'
    <1>1. CASE watcher.process \in sessions \cup retired \/ stop
        BY <1>1, InsertsNothingInv
    <1>2. CASE ~(watcher.process \in sessions \cup retired \/ stop)
        BY <1>2, InsertsSessionInv
    <1> QED
        BY <1>1, <1>2

LEMMA DrainsNothingInv ==
    ASSUME IInv, StartDrains,
           watcher.buffer = <<>>, watcher.process \in sessions
    PROVE  IInv'
    <1>1. UNCHANGED <<configured, known, tries, asked, hook, closing, frames, variables, told,
       seen, child, stop, retired, sessions, recorded, link, lldb, call>>
        BY DEF StartDrains, world, manager, tables, editor
    <1>2. watcher.at = "drain" /\ watcher.process \in Processes
        BY StartIsOf DEF StartDrains, IInv
    <1>3. /\ watcher' \in Starts \cup {Asleep} /\ watcher'.at = "mark"
          /\ watcher'.process = watcher.process /\ watcher'.buffer = watcher.buffer
        BY <1>2, Gone DEF StartDrains, Goes, IInv
    <1>4. RoutesAgree' /\ GoneIsNotDebugged' /\ EndsLast' /\ Walk'
        BY <1>1 DEF IInv, RoutesAgree, GoneIsNotDebugged, Debugged, EndsLast, HandlesEnd, Walk
    <1>5. TypeOK'
        BY <1>1, <1>2, <1>3, WatcherIsNoProcess DEF IInv, TypeOK
    <1>6. Charge'
        BY <1>1, <1>2, <1>3, StartIsOf DEF IInv, Charge, Opens, Closes
    <1>7. Past'
        BY <1>1, <1>2, <1>3, Busy, WatcherIsNoProcess DEF IInv, Past, Had, Connects, Starting
    <1>8. Released'
        BY <1>1, <1>2, <1>3, Busy, WatcherIsNoProcess DEF IInv, Released
    <1>9. Over'
        BY <1>1, <1>2, <1>3, Busy, WatcherIsNoProcess DEF IInv, Over, HandlesEnd, Starting
    <1>10. KnownOwned'
        BY <1>1, <1>2, <1>3 DEF IInv, KnownOwned, Connects
    <1> QED
        BY <1>4, <1>5, <1>6, <1>7, <1>8, <1>9, <1>10 DEF IInv

LEMMA DrainsAndLeavesInv ==
    ASSUME IInv, StartDrains,
           watcher.buffer = <<>>, watcher.process \notin sessions
    PROVE  IInv'
    <1>1. UNCHANGED <<configured, known, tries, asked, hook, closing, frames, variables, told,
       seen, child, stop, retired, sessions, recorded, link, lldb, call>>
        BY DEF StartDrains, world, manager, tables, editor
    <1>2. watcher.at = "drain" /\ watcher.process \in Processes
        BY StartIsOf DEF StartDrains, IInv
    <1>3. /\ watcher' \in Starts \cup {Asleep}
          /\ watcher'.at = "asleep" /\ watcher'.process \notin Processes
          /\ Quiet(watcher'.buffer) /\ ~HasEnd(watcher'.buffer)
        BY Slept DEF StartDrains
    <1>4. RoutesAgree' /\ GoneIsNotDebugged' /\ EndsLast' /\ Walk'
        BY <1>1 DEF IInv, RoutesAgree, GoneIsNotDebugged, Debugged, EndsLast, HandlesEnd, Walk
    <1>5. TypeOK'
        BY <1>1, <1>2, <1>3, WatcherIsNoProcess DEF IInv, TypeOK
    <1>6. Charge'
        BY <1>1, <1>2, <1>3, StartIsOf DEF IInv, Charge, Opens, Closes
    <1>7. Past'
        BY <1>1, <1>2, <1>3, Busy, WatcherIsNoProcess DEF IInv, Past, Had, Connects, Starting
    <1>8. Released'
        BY <1>1, <1>2, <1>3, Busy, WatcherIsNoProcess DEF IInv, Released
    <1>9. Over'
        BY <1>1, <1>2, <1>3, Busy, WatcherIsNoProcess DEF IInv, Over, HandlesEnd, Starting
    <1>10. KnownOwned'
        BY <1>1, <1>2, <1>3 DEF IInv, KnownOwned, Connects
    <1> QED
        BY <1>4, <1>5, <1>6, <1>7, <1>8, <1>9, <1>10 DEF IInv

LEMMA DrainsEventInv ==
    ASSUME IInv, StartDrains,
           watcher.buffer # <<>>
    PROVE  IInv'
    <1>1. UNCHANGED <<configured, known, tries, asked, hook, closing, frames, variables, told,
       seen, child, stop, retired, sessions, recorded, link, lldb>>
        BY DEF StartDrains, world, manager, tables, editor
    <1>2. /\ watcher.at = "drain" /\ watcher.process \in Processes
          /\ call[Watcher] = Free /\ call[Watcher].at = "free"
          /\ Watcher \in Handlers
        BY StartIsOf, WatcherIsNoProcess DEF StartDrains, IInv, Free
    <1>3. /\ watcher \in Starts /\ watcher.buffer \in Seq(Events)
          /\ Head(watcher.buffer) \in Events /\ Tail(watcher.buffer) \in Seq(Events)
          /\ Quiet(watcher.buffer) =>
                    Quiet(Tail(watcher.buffer)) /\ ~Registers(Head(watcher.buffer))
          /\ ~HasEnd(watcher.buffer) =>
                    ~HasEnd(Tail(watcher.buffer)) /\ Head(watcher.buffer).kind # "exited"
        <2>1. watcher \in Starts /\ watcher.buffer \in Seq(Events)
            BY <1>2, StartIsOf DEF IInv
        <2> QED
            BY <2>1, Remaining
    <1>4. /\ watcher' \in Starts \cup {Asleep} /\ watcher'.at = "drain"
          /\ watcher'.process = watcher.process /\ watcher'.buffer = Tail(watcher.buffer)
        BY <1>2, <1>3 DEF StartDrains, Starts
    <1>5. /\ call' \in [Handlers -> Handled \cup {Free}]
          /\ call'[Watcher] # Free /\ call'[Watcher].at = "record"
          /\ call'[Watcher].process = watcher.process
          /\ call'[Watcher].event = Head(watcher.buffer)
          /\ \A b \in Handlers : b # Watcher => call'[b] = call[b]
        <2>1. call' = [call EXCEPT ![Watcher] = [at |-> "record", process |-> watcher.process,
                                                 event |-> Head(watcher.buffer)]]
            BY DEF StartDrains
        <2> QED
            BY <1>2, <1>3, <2>1, Taken DEF IInv
    <1>6. /\ ~child[watcher.process].marked /\ Quiet(link[watcher.process].wire)
          /\ Had(watcher.process) /\ ~Connects(watcher.process)
          /\ ~Registers(Head(watcher.buffer))
        BY <1>2, <1>3 DEF IInv, Past, Starting, Released, Connects
    <1>7. RoutesAgree' /\ GoneIsNotDebugged'
        BY <1>1 DEF IInv, RoutesAgree, GoneIsNotDebugged, Debugged
    <1>8. TypeOK'
        BY <1>1, <1>2, <1>3, <1>4, <1>5, <1>6, WatcherIsNoProcess DEF IInv, TypeOK
    <1>9. Charge'
        BY <1>1, <1>2, <1>3, <1>4, <1>5, <1>6, StartIsOf DEF IInv, Charge, Opens, Closes
    <1>10. Past'
        BY <1>1, <1>2, <1>3, <1>4, <1>5, <1>6, Busy, WatcherIsNoProcess DEF IInv, Past, Had,
           Connects, Starting
    <1>11. Released'
        BY <1>1, <1>2, <1>3, <1>4, <1>5, <1>6, Busy, WatcherIsNoProcess DEF IInv, Released
    <1>12. Over'
        BY <1>1, <1>2, <1>3, <1>4, <1>5, <1>6, Busy, WatcherIsNoProcess DEF IInv, Over,
           HandlesEnd, Starting
    <1>13. EndsLast'
        <2> DEFINE Ending(q) ==
                       q \in retired \/ \E a \in Handlers : HandlesEnd(a) /\ call[a].process = q
                   EndingNext(q) ==
                       q \in retired' \/ \E a \in Handlers : HandlesEnd(a)' /\ call'[a].process = q
                   Kept(q) == /\ Quiet(link'[q].wire)
                              /\ call'[q] # Free => ~Registers(call'[q].event)
        <2>1. \A q \in Processes :
                  /\ EndIsLast(link[q].wire)
                  /\ Ending(q) => /\ Quiet(link[q].wire)
                                  /\ call[q] # Free => ~Registers(call[q].event)
            BY DEF IInv, EndsLast
        <2>2. \A q \in Processes : EndingNext(q) => Ending(q) \/ q = watcher.process
            BY <1>1, <1>5 DEF HandlesEnd
        <2>3. \A q \in Processes : link'[q] = link[q] /\ call'[q] = call[q]
            BY <1>1, <1>5, WatcherIsNoProcess
        <2>4. LET w == watcher.process
              IN  Quiet(link[w].wire) /\ (call[w] # Free => ~Registers(call[w].event))
            <3>1. watcher.process \in Handlers
                BY <1>2 DEF Handlers
            <3>2. call[watcher.process] # Free => call[watcher.process].process = watcher.process
                BY <1>2 DEF IInv, TypeOK
            <3> QED
                BY <1>6, <3>1, <3>2 DEF IInv, Released
        <2>5. \A q \in Processes : EndIsLast(link'[q].wire)
            BY <2>1, <2>3
        <2>6. \A q \in Processes : EndingNext(q) => Kept(q)
            <3> HIDE DEF Ending, EndingNext
            <3> QED
                BY <2>1, <2>2, <2>3, <2>4
        <2> QED
            BY <2>5, <2>6 DEF EndsLast
    <1>14. Walk'
        BY <1>1, <1>2, <1>5 DEF IInv, Walk, HandlesEnd
    <1>15. KnownOwned'
        BY <1>1, <1>2, <1>3, <1>4, <1>5, <1>6 DEF IInv, KnownOwned, Connects
    <1> QED
        BY <1>7, <1>8, <1>9, <1>10, <1>11, <1>12, <1>13, <1>14, <1>15 DEF IInv

LEMMA StartDrainsInv ==
    ASSUME IInv, StartDrains
    PROVE  IInv'
    <1>1. CASE watcher.buffer = <<>> /\ watcher.process \in sessions
        BY <1>1, DrainsNothingInv
    <1>2. CASE watcher.buffer = <<>> /\ watcher.process \notin sessions
        BY <1>2, DrainsAndLeavesInv
    <1>3. CASE watcher.buffer # <<>>
        BY <1>3, DrainsEventInv
    <1> QED
        BY <1>1, <1>2, <1>3

LEMMA StartMarksInv ==
    ASSUME IInv, StartMarks
    PROVE  IInv'
    <1>1. UNCHANGED <<lldb, link, configured, stop, sessions, recorded, retired, known, tries,
       call, asked, hook, closing, frames, variables, told, seen>>
        BY DEF StartMarks, manager, tables, editor
    <1>2. watcher.at = "mark" /\ watcher.process \in Processes
        BY StartIsOf DEF StartMarks, IInv
    <1>3. /\ watcher' \in Starts \cup {Asleep}
          /\ watcher'.at = "asleep" /\ watcher'.process \notin Processes
          /\ Quiet(watcher'.buffer) /\ ~HasEnd(watcher'.buffer)
        BY Slept DEF StartMarks
    <1>4. /\ child' \in [Processes -> Children]
          /\ \A q \in Processes : child'[q].life = child[q].life
          /\ \A q \in Processes : q # watcher.process => child'[q] = child[q]
        BY <1>2, ZenonT(40) DEF StartMarks, IInv, TypeOK, Children
    <1>5. child'[watcher.process].marked
        BY <1>2 DEF StartMarks, IInv, TypeOK, Children
    <1>6. RoutesAgree' /\ EndsLast' /\ Walk'
        BY <1>1 DEF IInv, RoutesAgree, EndsLast, HandlesEnd, Walk
    <1>7. TypeOK'
        BY <1>1, <1>2, <1>3, <1>4, <1>5 DEF IInv, TypeOK
    <1>8. Charge'
        BY <1>1, <1>2, <1>3, <1>4, <1>5 DEF IInv, Charge, Opens, Closes
    <1>9. Past'
        BY <1>1, <1>2, <1>3, <1>4, <1>5, Busy DEF IInv, Past, Had, Connects, Starting
    <1>10. Released'
        BY <1>1, <1>2, <1>3, <1>4, <1>5, Busy DEF IInv, Released
    <1>11. Over'
        BY <1>1, <1>2, <1>3, <1>4, <1>5 DEF IInv, Over, HandlesEnd, Starting
    <1>12. GoneIsNotDebugged'
        BY <1>1, <1>4, <1>5 DEF IInv, GoneIsNotDebugged, Debugged
    <1>13. KnownOwned'
        BY <1>1, <1>2, <1>3, <1>4, <1>5 DEF IInv, KnownOwned, Connects
    <1> QED
        BY <1>6, <1>7, <1>8, <1>9, <1>10, <1>11, <1>12, <1>13 DEF IInv

LEMMA StartClosesInv ==
    ASSUME IInv, StartCloses
    PROVE  IInv'
    <1>1. UNCHANGED <<child, configured, stop, sessions, recorded, retired, known, tries, call,
       asked, hook, closing, frames, variables, told, seen>>
        BY DEF StartCloses, manager, tables, editor
    <1>2. watcher.at = "close" /\ watcher.process \in Processes
        BY StartIsOf DEF StartCloses, IInv
    <1>3. /\ watcher' \in Starts \cup {Asleep} /\ watcher'.at = "forget"
          /\ watcher'.process = watcher.process /\ watcher'.buffer = watcher.buffer
        BY Gone DEF StartCloses, IInv
    <1>4. /\ link' \in [Processes -> Links] /\ lldb' \in [Processes -> Engines]
          /\ \A q \in Processes : q # watcher.process => link'[q] = link[q] /\ lldb'[q] = lldb[q]
          /\ link'[watcher.process].conn = "closed" /\ lldb'[watcher.process].state = "none"
          /\ Quiet(link'[watcher.process].wire) /\ ~HasEnd(link'[watcher.process].wire)
          /\ EndIsLast(link'[watcher.process].wire)
          /\ lldb'[watcher.process].inbox = <<>>
        BY <1>2, HungUp DEF StartCloses, IInv
    <1>5. RoutesAgree' /\ Walk'
        BY <1>1 DEF IInv, RoutesAgree, Walk, HandlesEnd
    <1>6. TypeOK'
        BY <1>1, <1>2, <1>3, <1>4 DEF IInv, TypeOK
    <1>7. Charge'
        BY <1>1, <1>2, <1>3, <1>4 DEF IInv, Charge, Opens, Closes
    <1>8. Past'
        BY <1>1, <1>2, <1>3, <1>4 DEF IInv, Past, Had, Connects, Starting
    <1>9. Released'
        BY <1>1, <1>2, <1>3, <1>4, Busy DEF IInv, Released
    <1>10. Over'
        BY <1>1, <1>2, <1>3, <1>4 DEF IInv, Over, HandlesEnd, Starting
    <1>11. GoneIsNotDebugged'
        BY <1>1, <1>4 DEF IInv, GoneIsNotDebugged, Debugged
    <1>12. EndsLast'
        BY <1>1, <1>4 DEF IInv, EndsLast, HandlesEnd
    <1>13. KnownOwned'
        BY <1>1, <1>2, <1>3, <1>4 DEF IInv, KnownOwned, Connects
    <1> QED
        BY <1>5, <1>6, <1>7, <1>8, <1>9, <1>10, <1>11, <1>12, <1>13 DEF IInv

LEMMA StartForgetsInv ==
    ASSUME IInv, StartForgets
    PROVE  IInv'
    <1>1. UNCHANGED <<child, lldb, link, configured, stop, recorded, retired, tries, call, asked,
       hook, closing, frames, variables, told, seen>>
        BY DEF StartForgets, world, tables, editor
    <1>2. /\ watcher.at = "forget" /\ watcher.process \in Processes
          /\ sessions' = sessions \ {watcher.process}
          /\ known' = known \ {watcher.process}
        BY StartIsOf DEF StartForgets, IInv
    <1>3. /\ watcher' \in Starts \cup {Asleep}
          /\ watcher'.at = "asleep" /\ watcher'.process \notin Processes
          /\ Quiet(watcher'.buffer) /\ ~HasEnd(watcher'.buffer)
        BY Slept DEF StartForgets
    <1>4. RoutesAgree' /\ GoneIsNotDebugged' /\ EndsLast'
        BY <1>1 DEF IInv, RoutesAgree, GoneIsNotDebugged, Debugged, EndsLast, HandlesEnd
    <1>5. TypeOK'
        BY <1>1, <1>2, <1>3 DEF IInv, TypeOK
    <1>6. Charge'
        BY <1>1, <1>2, <1>3 DEF IInv, Charge, Opens, Closes
    <1>7. Past'
        BY <1>1, <1>2, <1>3, Busy DEF IInv, Past, Had, Connects, Starting
    <1>8. Released'
        BY <1>1, <1>2, <1>3, Busy DEF IInv, Released
    <1>9. Over'
        BY <1>1, <1>2, <1>3 DEF IInv, Over, HandlesEnd, Starting
    <1>10. Walk'
        BY <1>1, <1>2 DEF IInv, Walk, HandlesEnd
    <1>11. KnownOwned'
        BY <1>1, <1>2, <1>3 DEF IInv, KnownOwned, Connects
    <1> QED
        BY <1>4, <1>5, <1>6, <1>7, <1>8, <1>9, <1>10, <1>11 DEF IInv

LEMMA HandlesRecordInv ==
    ASSUME IInv, NEW a \in Handlers, HandlesRecord(a)
    PROVE  IInv'
    <1>1. UNCHANGED <<child, lldb, link, configured, stop, sessions, retired, known, watcher,
       tries, asked, hook, closing, frames, variables, told, seen>>
        BY DEF HandlesRecord, world, tables, editor
    <1>2. /\ call[a].at = "record" /\ call[a] # Free
          /\ call[a].process \in Processes /\ call[a].event \in Events
        BY Busy DEF HandlesRecord, At, IInv
    <1>3. /\ call' \in [Handlers -> Handled \cup {Free}]
          /\ \A b \in Handlers :
                    /\ call'[b] # Free <=> call[b] # Free
                    /\ call[b] # Free => /\ call'[b].process = call[b].process
                                         /\ call'[b].event = call[b].event
                    /\ b # a => call'[b] = call[b]
          /\ call'[a].at \in {"bind", "state"}
        <2>1. CASE Moves(a, "bind")
            BY <1>2, <2>1, Moved DEF IInv
        <2>2. CASE Moves(a, "state")
            BY <1>2, <2>2, Moved DEF IInv
        <2> QED
            BY <2>1, <2>2 DEF HandlesRecord
    <1>4. /\ call'[a].at = "bind" => call[a].event.thread # None
          /\ recorded' \in [Processes -> SUBSET Threads]
        <2>1. CASE call[a].event.thread # None /\ call[a].process \in sessions
            <3>1. call[a].event.thread \in Threads
                BY <1>2, <2>1 DEF Events
            <3> QED
                BY <2>1, <3>1 DEF HandlesRecord, IInv, TypeOK
        <2>2. CASE ~(call[a].event.thread # None /\ call[a].process \in sessions)
            <3>1. Moves(a, "state") /\ recorded' = recorded
                BY <2>2 DEF HandlesRecord
            <3>2. call'[a].at = "state"
                BY <1>2, <3>1, Moved DEF IInv
            <3> QED
                BY <3>1, <3>2 DEF IInv, TypeOK
        <2> QED
            BY <2>1, <2>2
    <1>5. RoutesAgree' /\ GoneIsNotDebugged' /\ KnownOwned'
        BY <1>1 DEF IInv, RoutesAgree, GoneIsNotDebugged, Debugged, KnownOwned, Connects
    <1>6. TypeOK'
        BY <1>1, <1>2, <1>3, <1>4, WatcherIsNoProcess DEF IInv, TypeOK
    <1>7. Charge'
        BY <1>1, <1>2, <1>3, <1>4 DEF IInv, Charge, Opens, Closes
    <1>8. Past'
        BY <1>1, <1>2, <1>3, <1>4 DEF IInv, Past, Had, Connects, Starting
    <1>9. Released'
        BY <1>1, <1>2, <1>3, <1>4, Busy DEF IInv, Released
    <1>10. Over'
        BY <1>1, <1>2, <1>3, <1>4 DEF IInv, Over, HandlesEnd, Starting
    <1>11. EndsLast'
        BY <1>1, <1>2, <1>3, <1>4, WatcherIsNoProcess DEF IInv, EndsLast, HandlesEnd
    <1>12. Walk'
        BY <1>1, <1>2, <1>3, <1>4 DEF IInv, Walk, HandlesEnd
    <1> QED
        BY <1>5, <1>6, <1>7, <1>8, <1>9, <1>10, <1>11, <1>12 DEF IInv

LEMMA HandlesBindInv ==
    ASSUME IInv, NEW a \in Handlers, HandlesBind(a)
    PROVE  IInv'
    <1>1. UNCHANGED <<child, lldb, link, configured, stop, sessions, recorded, retired, watcher,
       tries, asked, hook, closing, frames, variables, told, seen>>
        BY DEF HandlesBind, world, manager, tables, editor
    <1>2. /\ call[a].at = "bind" /\ call[a] # Free
          /\ call[a].process \in Processes /\ call[a].event \in Events
        BY Busy DEF HandlesBind, At, IInv
    <1>3. /\ call' \in [Handlers -> Handled \cup {Free}]
          /\ \A b \in Handlers :
                    /\ call'[b] # Free <=> call[b] # Free
                    /\ call[b] # Free => /\ call'[b].process = call[b].process
                                         /\ call'[b].event = call[b].event
                    /\ b # a => call'[b] = call[b]
          /\ call'[a].at = "state"
        BY <1>2, Moved DEF HandlesBind, IInv
    <1>4. known' = known \cup {call[a].process}
        BY DEF HandlesBind
    <1>5. /\ \A b \in Handlers : HandlesEnd(b) => call[b].process # call[a].process
          /\ call[a].process \in sessions \/ stop
        <2>1. Registers(call[a].event)
            BY <1>2 DEF IInv, Walk, Events, Registers
        <2>2. call[a].process = a /\ a \in Processes
            BY <1>2, <2>1, Busy, WatcherIsNoProcess DEF IInv, Released
        <2>3. ~(a \in retired \/ \E b \in Handlers : HandlesEnd(b) /\ call[b].process = a)
            BY <1>2, <2>1, <2>2 DEF IInv, EndsLast
        <2> QED
            BY <1>2, <2>2, <2>3 DEF IInv, Past, Had
    <1>6. RoutesAgree' /\ GoneIsNotDebugged'
        BY <1>1 DEF IInv, RoutesAgree, GoneIsNotDebugged, Debugged
    <1>7. TypeOK'
        BY <1>1, <1>2, <1>3, <1>4, <1>5, WatcherIsNoProcess DEF IInv, TypeOK
    <1>8. Charge'
        BY <1>1, <1>2, <1>3, <1>4, <1>5 DEF IInv, Charge, Opens, Closes
    <1>9. Past'
        BY <1>1, <1>2, <1>3, <1>4, <1>5 DEF IInv, Past, Had, Connects, Starting
    <1>10. Released'
        BY <1>1, <1>2, <1>3, <1>4, <1>5, Busy DEF IInv, Released
    <1>11. Over'
        BY <1>1, <1>2, <1>3, <1>4, <1>5 DEF IInv, Over, HandlesEnd, Starting
    <1>12. EndsLast'
        BY <1>1, <1>2, <1>3, <1>4, <1>5, WatcherIsNoProcess DEF IInv, EndsLast, HandlesEnd
    <1>13. Walk'
        BY <1>1, <1>2, <1>3, <1>4, <1>5 DEF IInv, Walk, HandlesEnd
    <1>14. KnownOwned'
        BY <1>1, <1>4, <1>5 DEF IInv, KnownOwned, Connects
    <1> QED
        BY <1>6, <1>7, <1>8, <1>9, <1>10, <1>11, <1>12, <1>13, <1>14 DEF IInv

LEMMA HandlesStateInv ==
    ASSUME IInv, NEW a \in Handlers, HandlesState(a)
    PROVE  IInv'
    <1>1. UNCHANGED <<child, lldb, link, configured, stop, sessions, recorded, retired, watcher,
       tries, asked, hook, closing, frames, variables, told, seen>>
        BY DEF HandlesState, world, manager, tables, editor
    <1>2. /\ call[a].at = "state" /\ call[a] # Free
          /\ call[a].process \in Processes /\ call[a].event \in Events
        BY Busy DEF HandlesState, At, IInv
    <1>3. /\ call' \in [Handlers -> Handled \cup {Free}]
          /\ \A b \in Handlers :
                    /\ call'[b] # Free <=> call[b] # Free
                    /\ call[b] # Free => /\ call'[b].process = call[b].process
                                         /\ call'[b].event = call[b].event
                    /\ b # a => call'[b] = call[b]
          /\ call'[a].at \in {"tell", "clear"}
        <2>1. CASE Moves(a, "tell")
            BY <1>2, <2>1, Moved DEF IInv
        <2>2. CASE Moves(a, "clear")
            BY <1>2, <2>2, Moved DEF IInv
        <2> QED
            BY <2>1, <2>2 DEF HandlesState
    <1>4. /\ call[a].event.kind = "stopped" => known' = known \cup {call[a].process}
          /\ call[a].event.kind = "exited" =>
                    known' = known \ {call[a].process} /\ call'[a].at = "clear"
          /\ call[a].event.kind \notin {"stopped", "exited"} => known' = known
        <2>1. call[a].event.kind = "exited" => Moves(a, "clear")
            BY DEF HandlesState
        <2>2. call[a].event.kind = "exited" => call'[a].at = "clear"
            BY <1>2, <2>1, Moved DEF IInv
        <2> QED
            BY <2>2 DEF HandlesState
    <1>5. call[a].event.kind = "stopped" =>
                 /\ \A b \in Handlers : HandlesEnd(b) => call[b].process # call[a].process
                 /\ call[a].process \in sessions \/ stop
        <2> SUFFICES ASSUME call[a].event.kind = "stopped"
                     PROVE  /\ \A b \in Handlers :
                                   HandlesEnd(b) => call[b].process # call[a].process
                            /\ call[a].process \in sessions \/ stop
            OBVIOUS
        <2>1. Registers(call[a].event)
            BY DEF Registers
        <2>2. call[a].process = a /\ a \in Processes
            BY <1>2, <2>1, Busy, WatcherIsNoProcess DEF IInv, Released
        <2>3. ~(a \in retired \/ \E b \in Handlers : HandlesEnd(b) /\ call[b].process = a)
            BY <1>2, <2>1, <2>2 DEF IInv, EndsLast
        <2> QED
            BY <1>2, <2>2, <2>3 DEF IInv, Past, Had
    <1>6. RoutesAgree' /\ GoneIsNotDebugged'
        BY <1>1 DEF IInv, RoutesAgree, GoneIsNotDebugged, Debugged
    <1>7. TypeOK'
        BY <1>1, <1>2, <1>3, <1>4, <1>5, WatcherIsNoProcess DEF IInv, TypeOK
    <1>8. Charge'
        BY <1>1, <1>2, <1>3, <1>4, <1>5 DEF IInv, Charge, Opens, Closes
    <1>9. Past'
        BY <1>1, <1>2, <1>3, <1>4, <1>5 DEF IInv, Past, Had, Connects, Starting
    <1>10. Released'
        BY <1>1, <1>2, <1>3, <1>4, <1>5, Busy DEF IInv, Released
    <1>11. Over'
        BY <1>1, <1>2, <1>3, <1>4, <1>5 DEF IInv, Over, HandlesEnd, Starting
    <1>12. EndsLast'
        BY <1>1, <1>2, <1>3, <1>4, <1>5, WatcherIsNoProcess DEF IInv, EndsLast, HandlesEnd
    <1>13. Walk'
        BY <1>1, <1>2, <1>3, <1>4, <1>5 DEF IInv, Walk, HandlesEnd
    <1>14. KnownOwned'
        BY <1>1, <1>4, <1>5 DEF IInv, KnownOwned, Connects
    <1> QED
        BY <1>6, <1>7, <1>8, <1>9, <1>10, <1>11, <1>12, <1>13, <1>14 DEF IInv

LEMMA HandlesClearInv ==
    ASSUME IInv, NEW a \in Handlers, HandlesClear(a)
    PROVE  IInv'
    <1>1. UNCHANGED <<child, lldb, link, configured, stop, sessions, recorded, retired, known,
       watcher, tries, asked, hook, closing, told, seen>>
        BY DEF HandlesClear, world, manager, editor
    <1>2. /\ call[a].at = "clear" /\ call[a] # Free
          /\ call[a].process \in Processes /\ call[a].event \in Events
        BY Busy DEF HandlesClear, At, IInv
    <1>3. /\ call' \in [Handlers -> Handled \cup {Free}]
          /\ \A b \in Handlers :
                    /\ call'[b] # Free <=> call[b] # Free
                    /\ call[b] # Free => /\ call'[b].process = call[b].process
                                         /\ call'[b].event = call[b].event
                    /\ b # a => call'[b] = call[b]
          /\ call'[a].at \in {"retire", "tell"}
        <2>1. CASE Moves(a, "retire")
            BY <1>2, <2>1, Moved DEF IInv
        <2>2. CASE Moves(a, "tell")
            BY <1>2, <2>2, Moved DEF IInv
        <2> QED
            BY <2>1, <2>2 DEF HandlesClear
    <1>4. call'[a].at = "retire" <=> call[a].event.kind = "exited"
        <2>1. IF call[a].event.kind = "exited" THEN Moves(a, "retire") ELSE Moves(a, "tell")
            BY DEF HandlesClear
        <2> QED
            BY <1>2, <2>1, Moved DEF IInv
    <1>5. /\ IsTable(frames', Keys) /\ Agrees(frames')
          /\ IsTable(variables', Keys) /\ Agrees(variables')
        BY WithoutTable DEF HandlesClear, WithoutProcess, IInv, TypeOK, RoutesAgree
    <1>6. GoneIsNotDebugged' /\ KnownOwned'
        BY <1>1 DEF IInv, GoneIsNotDebugged, Debugged, KnownOwned, Connects
    <1>7. TypeOK'
        BY <1>1, <1>2, <1>3, <1>4, <1>5, WatcherIsNoProcess DEF IInv, TypeOK
    <1>8. RoutesAgree'
        BY <1>1, <1>5 DEF IInv, RoutesAgree
    <1>9. Charge'
        BY <1>1, <1>2, <1>3, <1>4 DEF IInv, Charge, Opens, Closes
    <1>10. Past'
        BY <1>1, <1>2, <1>3, <1>4 DEF IInv, Past, Had, Connects, Starting
    <1>11. Released'
        BY <1>1, <1>2, <1>3, <1>4, Busy DEF IInv, Released
    <1>12. Over'
        BY <1>1, <1>2, <1>3, <1>4 DEF IInv, Over, HandlesEnd, Starting
    <1>13. EndsLast'
        BY <1>1, <1>2, <1>3, <1>4, WatcherIsNoProcess DEF IInv, EndsLast, HandlesEnd
    <1>14. Walk'
        BY <1>1, <1>2, <1>3, <1>4 DEF IInv, Walk, HandlesEnd
    <1> QED
        BY <1>6, <1>7, <1>8, <1>9, <1>10, <1>11, <1>12, <1>13, <1>14 DEF IInv

LEMMA HandlesRetireInv ==
    ASSUME IInv, NEW a \in Handlers, HandlesRetire(a)
    PROVE  IInv'
    <1>1. UNCHANGED <<child, lldb, link, configured, stop, recorded, known, watcher, tries, asked,
       hook, closing, frames, variables, told, seen>>
        BY DEF HandlesRetire, world, tables, editor
    <1>2. /\ call[a].at = "retire" /\ call[a] # Free
          /\ call[a].process \in Processes /\ call[a].event \in Events
        BY Busy DEF HandlesRetire, At, IInv
    <1>3. /\ call' \in [Handlers -> Handled \cup {Free}]
          /\ \A b \in Handlers :
                    /\ call'[b] # Free <=> call[b] # Free
                    /\ call[b] # Free => /\ call'[b].process = call[b].process
                                         /\ call'[b].event = call[b].event
                    /\ b # a => call'[b] = call[b]
          /\ call'[a].at \in {"close", "tell"}
        <2>1. CASE Moves(a, "close")
            BY <1>2, <2>1, Moved DEF IInv
        <2>2. CASE Moves(a, "tell")
            BY <1>2, <2>2, Moved DEF IInv
        <2> QED
            BY <2>1, <2>2 DEF HandlesRetire
    <1>4. /\ sessions' = sessions \ {call[a].process}
          /\ retired' = retired \cup {call[a].process}
        BY DEF HandlesRetire
    <1>5. call'[a].at = "close" <=> call[a].process \in sessions
        <2>1. IF call[a].process \in sessions THEN Moves(a, "close") ELSE Moves(a, "tell")
            BY DEF HandlesRetire
        <2> QED
            BY <1>2, <2>1, Moved DEF IInv
    <1>6. RoutesAgree' /\ GoneIsNotDebugged'
        BY <1>1 DEF IInv, RoutesAgree, GoneIsNotDebugged, Debugged
    <1>7. TypeOK'
        BY <1>1, <1>2, <1>3, <1>4, <1>5, WatcherIsNoProcess DEF IInv, TypeOK
    <1>8. Charge'
        BY <1>1, <1>2, <1>3, <1>4, <1>5 DEF IInv, Charge, Opens, Closes
    <1>9. Past'
        BY <1>1, <1>2, <1>3, <1>4, <1>5 DEF IInv, Past, Had, Connects, Starting
    <1>10. Released'
        BY <1>1, <1>2, <1>3, <1>4, <1>5, Busy DEF IInv, Released
    <1>11. Over'
        BY <1>1, <1>2, <1>3, <1>4, <1>5 DEF IInv, Over, HandlesEnd, Starting, Walk
    <1>12. EndsLast'
        BY <1>1, <1>2, <1>3, <1>4, <1>5, WatcherIsNoProcess DEF IInv, EndsLast, HandlesEnd, Walk
    <1>13. Walk'
        BY <1>1, <1>2, <1>3, <1>4, <1>5 DEF IInv, Walk, HandlesEnd
    <1>14. KnownOwned'
        BY <1>1, <1>2, <1>3, <1>4, <1>5 DEF IInv, KnownOwned, Connects, Walk
    <1> QED
        BY <1>6, <1>7, <1>8, <1>9, <1>10, <1>11, <1>12, <1>13, <1>14 DEF IInv

LEMMA HandlesCloseInv ==
    ASSUME IInv, NEW a \in Handlers, HandlesClose(a)
    PROVE  IInv'
    <1>1. UNCHANGED <<child, configured, stop, sessions, recorded, retired, known, watcher, tries,
       asked, hook, closing, frames, variables, told, seen>>
        BY DEF HandlesClose, manager, tables, editor
    <1>2. /\ call[a].at = "close" /\ call[a] # Free
          /\ call[a].process \in Processes /\ call[a].event \in Events
        BY Busy DEF HandlesClose, At, IInv
    <1>3. /\ call' \in [Handlers -> Handled \cup {Free}]
          /\ \A b \in Handlers :
                    /\ call'[b] # Free <=> call[b] # Free
                    /\ call[b] # Free => /\ call'[b].process = call[b].process
                                         /\ call'[b].event = call[b].event
                    /\ b # a => call'[b] = call[b]
          /\ call'[a].at = "tell"
        BY <1>2, Moved DEF HandlesClose, IInv
    <1>4. /\ \A q \in Processes : q # call[a].process => link'[q] = link[q] /\ lldb'[q] = lldb[q]
          /\ link'[call[a].process].conn = "closed" /\ lldb'[call[a].process].state = "none"
          /\ Quiet(link'[call[a].process].wire) /\ ~HasEnd(link'[call[a].process].wire)
          /\ EndIsLast(link'[call[a].process].wire)
          /\ lldb'[call[a].process].inbox = <<>>
        BY <1>2, HungUp DEF HandlesClose, IInv
    <1>5. link' \in [Processes -> Links] /\ lldb' \in [Processes -> Engines]
        BY <1>2, HungUp DEF HandlesClose, IInv
    <1>6. RoutesAgree' /\ KnownOwned'
        BY <1>1 DEF IInv, RoutesAgree, KnownOwned, Connects
    <1>7. TypeOK'
        BY <1>1, <1>2, <1>3, <1>5, WatcherIsNoProcess DEF IInv, TypeOK
    <1>8. Charge'
        BY <1>1, <1>2, <1>3, <1>4, <1>5, StartIsOf DEF IInv, Charge, Opens, Closes
    <1>9. Past'
        BY <1>1, <1>2, <1>3, <1>4 DEF IInv, Past, Had, Connects, Starting
    <1>10. Released'
        BY <1>1, <1>2, <1>3, <1>4, <1>5, Busy DEF IInv, Released
    <1>11. Over'
        BY <1>1, <1>2, <1>3, <1>4, <1>5 DEF IInv, Over, HandlesEnd, Starting
    <1>12. GoneIsNotDebugged'
        BY <1>1, <1>4, <1>5 DEF IInv, GoneIsNotDebugged, Debugged
    <1>13. EndsLast'
        BY <1>1, <1>2, <1>3, <1>4, <1>5, WatcherIsNoProcess DEF IInv, EndsLast, HandlesEnd
    <1>14. Walk'
        BY <1>1, <1>2, <1>3, <1>4 DEF IInv, Walk, HandlesEnd
    <1> QED
        BY <1>6, <1>7, <1>8, <1>9, <1>10, <1>11, <1>12, <1>13, <1>14 DEF IInv

LEMMA HandlesTellInv ==
    ASSUME IInv, NEW a \in Handlers, HandlesTell(a)
    PROVE  IInv'
    <1>1. UNCHANGED <<child, lldb, link, configured, stop, sessions, recorded, retired, known,
       watcher, tries, asked, hook, closing, frames, variables, seen>>
        BY DEF HandlesTell, world, manager, tables
    <1>2. /\ call[a].at = "tell" /\ call[a] # Free
          /\ call[a].process \in Processes /\ call[a].event \in Events
        BY Busy DEF HandlesTell, At, IInv
    <1>3. /\ call' \in [Handlers -> Handled \cup {Free}]
          /\ call'[a] = Free /\ call'[a].at = "free"
          /\ \A b \in Handlers : b # a => call'[b] = call[b]
        BY Finished DEF HandlesTell, IInv
    <1>4. /\ told' \in [Processes -> 0..MaxStops]
          /\ \A q \in Processes :
                    told'[q] # told[q] => q = call[a].process /\ call[a].event.kind = "stopped"
        <2>1. call[a].event.stop \in 0..MaxStops
            BY <1>2, ChildSessionsAssumption DEF Events
        <2> QED
            BY <1>2, <2>1 DEF HandlesTell, IInv, TypeOK
    <1>5. RoutesAgree' /\ GoneIsNotDebugged' /\ KnownOwned'
        BY <1>1 DEF IInv, RoutesAgree, GoneIsNotDebugged, Debugged, KnownOwned, Connects
    <1>6. TypeOK'
        BY <1>1, <1>2, <1>3, <1>4, WatcherIsNoProcess DEF IInv, TypeOK
    <1>7. Charge'
        BY <1>1, <1>2, <1>3, <1>4 DEF IInv, Charge, Opens, Closes
    <1>8. Past'
        BY <1>1, <1>2, <1>3, <1>4 DEF IInv, Past, Had, Connects, Starting
    <1>9. Released'
        BY <1>1, <1>2, <1>3, <1>4, Busy DEF IInv, Released, Registers
    <1>10. Over'
        BY <1>1, <1>2, <1>3, <1>4 DEF IInv, Over, HandlesEnd, Starting
    <1>11. EndsLast'
        BY <1>1, <1>2, <1>3, <1>4, WatcherIsNoProcess DEF IInv, EndsLast, HandlesEnd
    <1>12. Walk'
        BY <1>1, <1>2, <1>3, <1>4 DEF IInv, Walk, HandlesEnd
    <1> QED
        BY <1>5, <1>6, <1>7, <1>8, <1>9, <1>10, <1>11, <1>12 DEF IInv

LEMMA EditorAsksStackInv ==
    ASSUME IInv, NEW h \in Hooks, NEW p \in Processes, NEW t \in Threads, EditorAsksStack(h, p, t)
    PROVE  IInv'
    <1>1. UNCHANGED <<child, link, configured, stop, sessions, recorded, retired, known, watcher,
       tries, call, closing, frames, variables, told, seen>>
        BY DEF EditorAsksStack, HookAsks, manager, tables, editor
    <1>2. /\ asked' \in [Askers -> Replies \cup {Unasked, Waiting}]
          /\ lldb' \in [Processes -> Engines]
          /\ \A q \in Processes :
                    lldb'[q].state = lldb[q].state /\ (q # p => lldb'[q] = lldb[q])
          /\ \A i \in 1..Len(lldb'[p].inbox) :
                    \/ i \in 1..Len(lldb[p].inbox) /\ lldb'[p].inbox[i] = lldb[p].inbox[i]
                    \/ lldb'[p].inbox[i].kind = "stackTrace"
          /\ hook' \in [Hooks -> Served \cup {Free}]
        <2>1. h \in Askers /\ "stackTrace" \in Kinds
            BY PhasesOnly DEF Askers, Kinds
        <2>2. Asks(h, p, "stackTrace", t)
            BY DEF EditorAsksStack, HookAsks
        <2>3. [at |-> "stackTrace", process |-> p, thread |-> t] \in Served
            BY DEF Served
        <2>4. hook' \in [Hooks -> Served \cup {Free}]
            BY <2>3 DEF EditorAsksStack, HookAsks, IInv, TypeOK
        <2>5. /\ asked' \in [Askers -> Replies \cup {Unasked, Waiting}]
              /\ lldb' \in [Processes -> Engines]
              /\ \A q \in Processes :
                     lldb'[q].state = lldb[q].state /\ (q # p => lldb'[q] = lldb[q])
              /\ \A i \in 1..Len(lldb'[p].inbox) :
                     \/ i \in 1..Len(lldb[p].inbox) /\ lldb'[p].inbox[i] = lldb[p].inbox[i]
                     \/ lldb'[p].inbox[i].kind = "stackTrace"
            <3>1. TypeOK
                BY DEF IInv
            <3>2. /\ asked' \in [Askers -> Replies \cup {Unasked, Waiting}]
                  /\ lldb' \in [Processes -> Engines]
                  /\ \A q \in Processes :
                         lldb'[q].state = lldb[q].state /\ (q # p => lldb'[q] = lldb[q])
                  /\ \A i \in 1..Len(lldb'[p].inbox) :
                         \/ i \in 1..Len(lldb[p].inbox) /\ lldb'[p].inbox[i] = lldb[p].inbox[i]
                         \/ lldb'[p].inbox[i].kind = "stackTrace" /\ lldb'[p].inbox[i].thread = t
                BY <2>1, <2>2, <3>1, Asked
            <3> QED
                BY <3>2
        <2> QED
            BY <2>4, <2>5
    <1>3. RoutesAgree' /\ Charge' /\ Past' /\ Over' /\ EndsLast' /\ Walk' /\ KnownOwned'
        BY <1>1 DEF IInv, RoutesAgree, Charge, Opens, Closes, Past, Had, Connects, Starting, Over,
           HandlesEnd, EndsLast, Walk, KnownOwned
    <1>4. TypeOK'
        BY <1>1, <1>2 DEF IInv, TypeOK
    <1>5. Released'
        BY <1>1, <1>2, Busy DEF IInv, Released
    <1>6. GoneIsNotDebugged'
        BY <1>1, <1>2 DEF IInv, GoneIsNotDebugged, Debugged
    <1> QED
        BY <1>3, <1>4, <1>5, <1>6 DEF IInv

LEMMA EditorResumesInv ==
    ASSUME IInv, NEW h \in Hooks, NEW p \in Processes, NEW t \in Threads, EditorResumes(h, p, t)
    PROVE  IInv'
    <1>1. UNCHANGED <<child, link, configured, stop, sessions, recorded, retired, known, watcher,
       tries, call, closing, frames, variables, told, seen>>
        BY DEF EditorResumes, HookAsks, manager, tables, editor
    <1>2. /\ asked' \in [Askers -> Replies \cup {Unasked, Waiting}]
          /\ lldb' \in [Processes -> Engines]
          /\ \A q \in Processes :
                    lldb'[q].state = lldb[q].state /\ (q # p => lldb'[q] = lldb[q])
          /\ \A i \in 1..Len(lldb'[p].inbox) :
                    \/ i \in 1..Len(lldb[p].inbox) /\ lldb'[p].inbox[i] = lldb[p].inbox[i]
                    \/ lldb'[p].inbox[i].kind = "continue"
          /\ hook' \in [Hooks -> Served \cup {Free}]
        <2>1. h \in Askers /\ "continue" \in Kinds
            BY PhasesOnly DEF Askers, Kinds
        <2>2. Asks(h, p, "continue", t)
            BY DEF EditorResumes, HookAsks
        <2>3. [at |-> "continue", process |-> p, thread |-> t] \in Served
            BY DEF Served
        <2>4. hook' \in [Hooks -> Served \cup {Free}]
            BY <2>3 DEF EditorResumes, HookAsks, IInv, TypeOK
        <2>5. /\ asked' \in [Askers -> Replies \cup {Unasked, Waiting}]
              /\ lldb' \in [Processes -> Engines]
              /\ \A q \in Processes :
                     lldb'[q].state = lldb[q].state /\ (q # p => lldb'[q] = lldb[q])
              /\ \A i \in 1..Len(lldb'[p].inbox) :
                     \/ i \in 1..Len(lldb[p].inbox) /\ lldb'[p].inbox[i] = lldb[p].inbox[i]
                     \/ lldb'[p].inbox[i].kind = "continue"
            <3>1. TypeOK
                BY DEF IInv
            <3>2. /\ asked' \in [Askers -> Replies \cup {Unasked, Waiting}]
                  /\ lldb' \in [Processes -> Engines]
                  /\ \A q \in Processes :
                         lldb'[q].state = lldb[q].state /\ (q # p => lldb'[q] = lldb[q])
                  /\ \A i \in 1..Len(lldb'[p].inbox) :
                         \/ i \in 1..Len(lldb[p].inbox) /\ lldb'[p].inbox[i] = lldb[p].inbox[i]
                         \/ lldb'[p].inbox[i].kind = "continue" /\ lldb'[p].inbox[i].thread = t
                BY <2>1, <2>2, <3>1, Asked
            <3> QED
                BY <3>2
        <2> QED
            BY <2>4, <2>5
    <1>3. child[p].marked
        BY DEF EditorResumes, IInv, TypeOK, Released
    <1>4. RoutesAgree' /\ Charge' /\ Past' /\ Over' /\ EndsLast' /\ Walk' /\ KnownOwned'
        BY <1>1 DEF IInv, RoutesAgree, Charge, Opens, Closes, Past, Had, Connects, Starting, Over,
           HandlesEnd, EndsLast, Walk, KnownOwned
    <1>5. TypeOK'
        BY <1>1, <1>2, <1>3 DEF IInv, TypeOK
    <1>6. Released'
        BY <1>1, <1>2, <1>3, Busy DEF IInv, Released
    <1>7. GoneIsNotDebugged'
        BY <1>1, <1>2, <1>3 DEF IInv, GoneIsNotDebugged, Debugged
    <1> QED
        BY <1>4, <1>5, <1>6, <1>7 DEF IInv

LEMMA EditorInspectsInv ==
    ASSUME IInv, NEW h \in Hooks, NEW table \in {frames, variables},
           EditorInspects(h, table.routes)
    PROVE  IInv'
    <1>1. UNCHANGED <<child, link, configured, stop, sessions, recorded, retired, known, watcher,
       tries, call, closing, frames, variables, told, seen>>
        BY DEF EditorInspects, HookAsks, manager, tables, editor
    <1>2. PICK r \in Processes, u \in Threads : HookAsks(h, r, u, "inspect")
        <2>1. \A id \in DOMAIN table.routes : table.routes[id] \in Keys
            BY DEF IInv, TypeOK, IsTable
        <2>2. \A id \in DOMAIN table.routes :
                  table.routes[id].process \in Processes /\ table.routes[id].thread \in Threads
            BY <2>1 DEF Keys
        <2> QED
            BY <2>2 DEF EditorInspects
    <1>3. /\ asked' \in [Askers -> Replies \cup {Unasked, Waiting}]
          /\ lldb' \in [Processes -> Engines]
          /\ \A q \in Processes :
                    lldb'[q].state = lldb[q].state /\ (q # r => lldb'[q] = lldb[q])
          /\ \A i \in 1..Len(lldb'[r].inbox) :
                    \/ i \in 1..Len(lldb[r].inbox) /\ lldb'[r].inbox[i] = lldb[r].inbox[i]
                    \/ lldb'[r].inbox[i].kind = "inspect"
          /\ hook' \in [Hooks -> Served \cup {Free}]
        <2>1. h \in Askers /\ "inspect" \in Kinds
            BY PhasesOnly DEF Askers, Kinds
        <2>2. Asks(h, r, "inspect", u)
            BY <1>2 DEF HookAsks
        <2>3. [at |-> "inspect", process |-> r, thread |-> u] \in Served
            BY DEF Served
        <2>4. hook' \in [Hooks -> Served \cup {Free}]
            BY <1>2, <2>3 DEF HookAsks, IInv, TypeOK
        <2>5. /\ asked' \in [Askers -> Replies \cup {Unasked, Waiting}]
              /\ lldb' \in [Processes -> Engines]
              /\ \A q \in Processes :
                     lldb'[q].state = lldb[q].state /\ (q # r => lldb'[q] = lldb[q])
              /\ \A i \in 1..Len(lldb'[r].inbox) :
                     \/ i \in 1..Len(lldb[r].inbox) /\ lldb'[r].inbox[i] = lldb[r].inbox[i]
                     \/ lldb'[r].inbox[i].kind = "inspect"
            <3>1. TypeOK
                BY DEF IInv
            <3>2. /\ asked' \in [Askers -> Replies \cup {Unasked, Waiting}]
                  /\ lldb' \in [Processes -> Engines]
                  /\ \A q \in Processes :
                         lldb'[q].state = lldb[q].state /\ (q # r => lldb'[q] = lldb[q])
                  /\ \A i \in 1..Len(lldb'[r].inbox) :
                         \/ i \in 1..Len(lldb[r].inbox) /\ lldb'[r].inbox[i] = lldb[r].inbox[i]
                         \/ lldb'[r].inbox[i].kind = "inspect" /\ lldb'[r].inbox[i].thread = u
                BY <2>1, <2>2, <3>1, Asked
            <3> QED
                BY <3>2
        <2> QED
            BY <2>4, <2>5
    <1>4. RoutesAgree' /\ Charge' /\ Past' /\ Over' /\ EndsLast' /\ Walk' /\ KnownOwned'
        BY <1>1 DEF IInv, RoutesAgree, Charge, Opens, Closes, Past, Had, Connects, Starting, Over,
           HandlesEnd, EndsLast, Walk, KnownOwned
    <1>5. TypeOK'
        BY <1>1, <1>2, <1>3 DEF IInv, TypeOK
    <1>6. Released'
        <2>1. \A q \in Processes : \A i \in 1..Len(lldb'[q].inbox) :
                  lldb'[q].inbox[i].kind = "continue" =>
                      i \in 1..Len(lldb[q].inbox) /\ lldb'[q].inbox[i] = lldb[q].inbox[i]
            BY <1>3
        <2> QED
            BY <1>1, <2>1, Busy DEF IInv, Released
    <1>7. GoneIsNotDebugged'
        BY <1>1, <1>3 DEF IInv, GoneIsNotDebugged, Debugged
    <1> QED
        BY <1>4, <1>5, <1>6, <1>7 DEF IInv

LEMMA HookShowsStackInv ==
    ASSUME IInv, NEW h \in Hooks, NEW n \in Natives, HookShowsStack(h, n)
    PROVE  IInv'
    <1>1. UNCHANGED <<child, lldb, link, configured, stop, sessions, recorded, retired, known,
       watcher, tries, call, closing, variables, told>>
        BY DEF HookShowsStack, world, manager
    <1>2. Key(h, n) \in Keys
        <2>1. hook[h] \in Served
            BY DEF HookShowsStack, IInv, TypeOK, Free
        <2> QED
            BY <2>1 DEF Key, Keys, Served
    <1>3. /\ asked' \in [Askers -> Replies \cup {Unasked, Waiting}]
          /\ hook' \in [Hooks -> Served \cup {Free}]
        BY Answered DEF HookShowsStack, IInv
    <1>4. IsTable(frames', Keys) /\ Agrees(frames')
        BY <1>2, AllocatedTable DEF HookShowsStack, IInv, TypeOK, RoutesAgree
    <1>5. Charge' /\ Past' /\ Released' /\ Over' /\ GoneIsNotDebugged' /\ EndsLast' /\ Walk' /\
       KnownOwned'
        BY <1>1 DEF IInv, Charge, Opens, Closes, Past, Had, Connects, Starting, Released, Over,
           HandlesEnd, GoneIsNotDebugged, Debugged, EndsLast, Walk, KnownOwned
    <1>6. TypeOK'
        BY <1>1, <1>2, <1>3, <1>4 DEF IInv, TypeOK
    <1>7. RoutesAgree'
        BY <1>1, <1>4 DEF IInv, RoutesAgree
    <1> QED
        BY <1>5, <1>6, <1>7 DEF IInv

LEMMA HookShowsVariableInv ==
    ASSUME IInv, NEW h \in Hooks, NEW n \in Natives, HookShowsVariable(h, n)
    PROVE  IInv'
    <1>1. UNCHANGED <<child, lldb, link, configured, stop, sessions, recorded, retired, known,
       watcher, tries, call, closing, frames, told>>
        BY DEF HookShowsVariable, world, manager
    <1>2. Key(h, n) \in Keys
        <2>1. hook[h] \in Served
            BY DEF HookShowsVariable, IInv, TypeOK, Free
        <2> QED
            BY <2>1 DEF Key, Keys, Served
    <1>3. /\ asked' \in [Askers -> Replies \cup {Unasked, Waiting}]
          /\ hook' \in [Hooks -> Served \cup {Free}]
        BY Answered DEF HookShowsVariable, IInv
    <1>4. IsTable(variables', Keys) /\ Agrees(variables')
        BY <1>2, AllocatedTable DEF HookShowsVariable, IInv, TypeOK, RoutesAgree
    <1>5. Charge' /\ Past' /\ Released' /\ Over' /\ GoneIsNotDebugged' /\ EndsLast' /\ Walk' /\
       KnownOwned'
        BY <1>1 DEF IInv, Charge, Opens, Closes, Past, Had, Connects, Starting, Released, Over,
           HandlesEnd, GoneIsNotDebugged, Debugged, EndsLast, Walk, KnownOwned
    <1>6. TypeOK'
        BY <1>1, <1>2, <1>3, <1>4 DEF IInv, TypeOK
    <1>7. RoutesAgree'
        BY <1>1, <1>4 DEF IInv, RoutesAgree
    <1> QED
        BY <1>5, <1>6, <1>7 DEF IInv

LEMMA HookResumedInv ==
    ASSUME IInv, NEW h \in Hooks, HookResumed(h)
    PROVE  IInv'
    <1>1. UNCHANGED <<child, lldb, link, configured, stop, sessions, recorded, retired, known,
       watcher, tries, call, closing, told, seen>>
        BY DEF HookResumed, world, manager, editor
    <1>2. /\ asked' \in [Askers -> Replies \cup {Unasked, Waiting}]
          /\ hook' \in [Hooks -> Served \cup {Free}]
        BY Answered DEF HookResumed, IInv
    <1>3. /\ IsTable(frames', Keys) /\ Agrees(frames')
          /\ IsTable(variables', Keys) /\ Agrees(variables')
        BY WithoutTable DEF HookResumed, WithoutThread, IInv, TypeOK, RoutesAgree
    <1>4. Charge' /\ Past' /\ Released' /\ Over' /\ GoneIsNotDebugged' /\ EndsLast' /\ Walk' /\
       KnownOwned'
        BY <1>1 DEF IInv, Charge, Opens, Closes, Past, Had, Connects, Starting, Released, Over,
           HandlesEnd, GoneIsNotDebugged, Debugged, EndsLast, Walk, KnownOwned
    <1>5. TypeOK'
        BY <1>1, <1>2, <1>3 DEF IInv, TypeOK
    <1>6. RoutesAgree'
        BY <1>1, <1>3 DEF IInv, RoutesAgree
    <1> QED
        BY <1>4, <1>5, <1>6 DEF IInv

LEMMA HookRefusedInv ==
    ASSUME IInv, NEW h \in Hooks, HookRefused(h)
    PROVE  IInv'
    <1>1. UNCHANGED <<child, lldb, link, configured, stop, sessions, recorded, retired, known,
       watcher, tries, call, closing, frames, variables, told, seen>>
        BY DEF HookRefused, world, manager, tables, editor
    <1>2. /\ asked' \in [Askers -> Replies \cup {Unasked, Waiting}]
          /\ hook' \in [Hooks -> Served \cup {Free}]
        BY Answered DEF HookRefused, IInv
    <1>3. RoutesAgree' /\ Charge' /\ Past' /\ Released' /\ Over' /\ GoneIsNotDebugged' /\
       EndsLast' /\ Walk' /\ KnownOwned'
        BY <1>1 DEF IInv, RoutesAgree, Charge, Opens, Closes, Past, Had, Connects, Starting,
           Released, Over, HandlesEnd, GoneIsNotDebugged, Debugged, EndsLast, Walk, KnownOwned
    <1>4. TypeOK'
        BY <1>1, <1>2 DEF IInv, TypeOK
    <1> QED
        BY <1>3, <1>4 DEF IInv

LEMMA HookTimesOutInv ==
    ASSUME IInv, NEW h \in Hooks, HookTimesOut(h)
    PROVE  IInv'
    <1>1. UNCHANGED <<child, lldb, link, configured, stop, sessions, recorded, retired, known,
       watcher, tries, call, closing, frames, variables, told, seen>>
        BY DEF HookTimesOut, world, manager, tables, editor
    <1>2. /\ asked' \in [Askers -> Replies \cup {Unasked, Waiting}]
          /\ hook' \in [Hooks -> Served \cup {Free}]
        BY Answered DEF HookTimesOut, IInv
    <1>3. RoutesAgree' /\ Charge' /\ Past' /\ Released' /\ Over' /\ GoneIsNotDebugged' /\
       EndsLast' /\ Walk' /\ KnownOwned'
        BY <1>1 DEF IInv, RoutesAgree, Charge, Opens, Closes, Past, Had, Connects, Starting,
           Released, Over, HandlesEnd, GoneIsNotDebugged, Debugged, EndsLast, Walk, KnownOwned
    <1>4. TypeOK'
        BY <1>1, <1>2 DEF IInv, TypeOK
    <1> QED
        BY <1>3, <1>4 DEF IInv

LEMMA EditorConfiguresInv ==
    ASSUME IInv, EditorConfigures
    PROVE  IInv'
    <1>1. UNCHANGED <<child, lldb, link, stop, sessions, recorded, retired, known, watcher, tries,
       call, asked, hook, closing, frames, variables, told, seen>>
        BY DEF EditorConfigures, world, manager, tables, editor
    <1>2. configured' \in BOOLEAN
        BY DEF EditorConfigures
    <1>3. RoutesAgree' /\ Charge' /\ Past' /\ Released' /\ Over' /\ GoneIsNotDebugged' /\
       EndsLast' /\ Walk' /\ KnownOwned'
        BY <1>1 DEF IInv, RoutesAgree, Charge, Opens, Closes, Past, Had, Connects, Starting,
           Released, Over, HandlesEnd, GoneIsNotDebugged, Debugged, EndsLast, Walk, KnownOwned
    <1>4. TypeOK'
        BY <1>1, <1>2 DEF IInv, TypeOK
    <1> QED
        BY <1>3, <1>4 DEF IInv

LEMMA CloseBeginsInv ==
    ASSUME IInv, CloseBegins
    PROVE  IInv'
    <1>1. UNCHANGED <<child, lldb, link, configured, recorded, retired, known, watcher, tries,
       call, asked, hook, frames, variables, told, seen>>
        BY DEF CloseBegins, world, tables, editor
    <1>2. /\ ~stop /\ stop'
          /\ closing' = sessions /\ sessions' = {}
        BY DEF CloseBegins
    <1>3. RoutesAgree' /\ Released' /\ Over' /\ GoneIsNotDebugged' /\ EndsLast'
        BY <1>1 DEF IInv, RoutesAgree, Released, Over, HandlesEnd, Starting, GoneIsNotDebugged,
           Debugged, EndsLast
    <1>4. TypeOK'
        BY <1>1, <1>2 DEF IInv, TypeOK
    <1>5. Charge'
        BY <1>1, <1>2 DEF IInv, Charge, Opens, Closes
    <1>6. Past'
        BY <1>1, <1>2 DEF IInv, Past, Had, Connects, Starting
    <1>7. Walk'
        BY <1>1, <1>2 DEF IInv, Walk, HandlesEnd
    <1>8. KnownOwned'
        BY <1>1, <1>2 DEF IInv, KnownOwned, Connects
    <1> QED
        BY <1>3, <1>4, <1>5, <1>6, <1>7, <1>8 DEF IInv

LEMMA CloserClosesInv ==
    ASSUME IInv, NEW p \in Processes, CloserCloses(p)
    PROVE  IInv'
    <1>1. UNCHANGED <<child, configured, stop, sessions, recorded, retired, known, watcher, tries,
       call, asked, hook, frames, variables, told, seen>>
        BY DEF CloserCloses, manager, tables, editor
    <1>2. p \in closing /\ closing' = closing \ {p}
        BY DEF CloserCloses
    <1>3. /\ link' \in [Processes -> Links] /\ lldb' \in [Processes -> Engines]
          /\ \A q \in Processes : q # p => link'[q] = link[q] /\ lldb'[q] = lldb[q]
          /\ link'[p].conn = "closed" /\ lldb'[p].state = "none"
          /\ Quiet(link'[p].wire) /\ ~HasEnd(link'[p].wire)
          /\ EndIsLast(link'[p].wire)
          /\ lldb'[p].inbox = <<>>
        BY HungUp DEF CloserCloses, IInv
    <1>4. RoutesAgree' /\ Past' /\ Walk' /\ KnownOwned'
        BY <1>1 DEF IInv, RoutesAgree, Past, Had, Connects, Starting, Walk, HandlesEnd, KnownOwned
    <1>5. TypeOK'
        BY <1>1, <1>2, <1>3 DEF IInv, TypeOK
    <1>6. Charge'
        BY <1>1, <1>2, <1>3, StartIsOf DEF IInv, Charge, Opens, Closes
    <1>7. Released'
        BY <1>1, <1>3, Busy DEF IInv, Released
    <1>8. Over'
        BY <1>1, <1>3 DEF IInv, Over, HandlesEnd, Starting
    <1>9. GoneIsNotDebugged'
        BY <1>1, <1>3 DEF IInv, GoneIsNotDebugged, Debugged
    <1>10. EndsLast'
        BY <1>1, <1>3 DEF IInv, EndsLast, HandlesEnd
    <1> QED
        BY <1>4, <1>5, <1>6, <1>7, <1>8, <1>9, <1>10 DEF IInv

--------------------------------------------------------------------------------
LEMMA StutterInv ==
    ASSUME IInv, UNCHANGED vars
    PROVE  IInv'
    <1>1. UNCHANGED <<child, lldb, link, configured, stop, sessions, recorded, retired, known,
                      watcher, tries, call, asked, hook, closing, frames, variables, told, seen>>
        BY DEF vars, world, manager, tables, editor
    <1>2. TypeOK' /\ RoutesAgree'
        BY <1>1 DEF IInv, TypeOK, RoutesAgree
    <1>3. Charge' /\ Past' /\ KnownOwned'
        BY <1>1 DEF IInv, Charge, Opens, Closes, Past, Had, Connects, Starting, KnownOwned
    <1>4. Released' /\ Walk' /\ GoneIsNotDebugged'
        BY <1>1 DEF IInv, Released, Walk, HandlesEnd, GoneIsNotDebugged, Debugged
    <1>5. Over' /\ EndsLast'
        BY <1>1 DEF IInv, Over, EndsLast, HandlesEnd, Starting
    <1> QED
        BY <1>2, <1>3, <1>4, <1>5 DEF IInv

LEMMA NextInv ==
    ASSUME IInv, [Next]_vars
    PROVE  IInv'
    <1>1. CASE UNCHANGED vars
        BY <1>1, StutterInv
    <1>2. ASSUME NEW p \in Processes,
                 \/ ChildStarts(p) \/ ChildExits(p) \/ LldbServes(p) \/ LldbCrashes(p)
                 \/ ReaderStep(p) \/ CloserCloses(p)
          PROVE  IInv'
        BY <1>2, ChildStartsInv, ChildExitsInv, LldbServesInv, LldbCrashesInv, ReaderReadsInv,
           CloserClosesInv DEF ReaderStep
    <1>3. ASSUME NEW p \in Processes, NEW t \in Threads, LldbStops(p, t)
          PROVE  IInv'
        BY <1>3, LldbStopsInv
    <1>4. ASSUME NEW a \in Handlers, HandlerStep(a)
          PROVE  IInv'
        BY <1>4, HandlesRecordInv, HandlesBindInv, HandlesStateInv, HandlesClearInv,
           HandlesRetireInv, HandlesCloseInv, HandlesTellInv DEF HandlerStep
    <1>5. CASE WatcherStep
        <2>1. CASE \E p \in Processes : StartBegins(p)
            BY <2>1, StartBeginsInv
        <2>2. CASE StartAsks \/ StartAnswered \/ StartGivesUp
            BY <2>2, StartAsksInv, StartAnsweredInv, StartGivesUpInv
        <2>3. CASE StartRegisters \/ StartInserts \/ StartDrains
            BY <2>3, StartRegistersInv, StartInsertsInv, StartDrainsInv
        <2>4. CASE StartMarks \/ StartCloses \/ StartForgets
            BY <2>4, StartMarksInv, StartClosesInv, StartForgetsInv
        <2> QED
            BY <1>5, <2>1, <2>2, <2>3, <2>4 DEF WatcherStep
    <1>6. ASSUME NEW h \in Hooks, HookStep(h)
          PROVE  IInv'
        BY <1>6, HookShowsStackInv, HookShowsVariableInv, HookResumedInv, HookRefusedInv,
           HookTimesOutInv DEF HookStep
    <1>7. ASSUME NEW h \in Hooks, EditorAsks(h)
          PROVE  IInv'
        BY <1>7, EditorAsksStackInv, EditorResumesInv, EditorInspectsInv DEF EditorAsks
    <1>8. CASE EditorConfigures \/ CloseBegins
        BY <1>8, EditorConfiguresInv, CloseBeginsInv
    <1> QED
        BY <1>1, <1>2, <1>3, <1>4, <1>5, <1>6, <1>7, <1>8 DEF Next

LEMMA Invariance == Spec => []IInv
    <1>1. IInv /\ [Next]_vars => IInv'
        BY NextInv
    <1> QED
        BY InitInv, <1>1, PTL DEF Spec

\* Every variable has its type in every reachable state.
THEOREM TypeCorrect == Spec => []TypeOK
    BY Invariance, PTL DEF IInv

\* The two dictionaries of each table are each other's inverse, though they are
\* filtered one by one (_clear_process_routes, _clear_thread_routes): an id the
\* editor names leads to the key it was given for and to no other.
THEOREM RoutesAlwaysAgree == Spec => []RoutesAgree
    BY Invariance, PTL DEF IInv

\* What a step of the tables does to them.
LEMMA TablesOnlyNew ==
    ASSUME IInv, [Next]_vars
    PROVE  OnlyNew(frames, frames') /\ OnlyNew(variables, variables')
    <1>1. /\ IsTable(frames, Keys) /\ Agrees(frames)
          /\ IsTable(variables, Keys) /\ Agrees(variables)
        BY DEF IInv, TypeOK, RoutesAgree
    <1>2. OnlyNew(frames, frames) /\ OnlyNew(variables, variables)
        BY <1>1 DEF OnlyNew, IsTable
    <1>3. CASE UNCHANGED tables
        BY <1>2, <1>3 DEF tables
    <1>4. ASSUME NEW a \in Handlers, HandlesClear(a)
          PROVE  OnlyNew(frames, frames') /\ OnlyNew(variables, variables')
        BY <1>1, <1>4, WithoutTable DEF HandlesClear, WithoutProcess
    <1>5. ASSUME NEW h \in Hooks, NEW n \in Natives, HookShowsStack(h, n) \/ HookShowsVariable(h, n)
          PROVE  OnlyNew(frames, frames') /\ OnlyNew(variables, variables')
        <2>1. hook[h] \in Served
            BY <1>5 DEF HookShowsStack, HookShowsVariable, IInv, TypeOK, Free
        <2>2. Key(h, n) \in Keys
            BY <2>1 DEF Key, Keys, Served
        <2> QED
            BY <1>1, <1>2, <1>5, <2>2, AllocatedTable DEF HookShowsStack, HookShowsVariable
    <1>6. ASSUME NEW h \in Hooks, HookResumed(h)
          PROVE  OnlyNew(frames, frames') /\ OnlyNew(variables, variables')
        BY <1>1, <1>6, WithoutTable, SMTT(30) DEF HookResumed, WithoutThread
    <1>7. ASSUME NEW p \in Processes,
                 \/ ChildStarts(p) \/ ChildExits(p) \/ LldbServes(p) \/ LldbCrashes(p)
                 \/ (\E t \in Threads : LldbStops(p, t))
                 \/ ReaderStep(p) \/ CloserCloses(p)
          PROVE  UNCHANGED tables
        BY <1>7, Zenon DEF ChildStarts, ChildExits, LldbServes, LldbCrashes, LldbStops, ReaderStep,
                    ReaderReads, CloserCloses
    <1>8. ASSUME NEW a \in Handlers, HandlerStep(a), ~HandlesClear(a)
          PROVE  UNCHANGED tables
        BY <1>8 DEF HandlerStep, HandlesRecord, HandlesBind, HandlesState, HandlesRetire,
                    HandlesClose, HandlesTell
    <1>9. CASE WatcherStep
        BY <1>3, <1>9 DEF WatcherStep, StartBegins, StartAsks, StartAnswered, StartGivesUp,
                    StartRegisters, StartInserts, StartDrains, StartMarks, StartCloses,
                    StartForgets
    <1>10. ASSUME NEW h \in Hooks, HookRefused(h) \/ HookTimesOut(h) \/ EditorAsks(h)
           PROVE  UNCHANGED tables
        BY <1>10 DEF HookRefused, HookTimesOut, EditorAsks, EditorAsksStack, EditorResumes,
                     EditorInspects, HookAsks
    <1>11. CASE EditorConfigures \/ CloseBegins \/ UNCHANGED vars
        BY <1>3, <1>11 DEF EditorConfigures, CloseBegins, vars
    <1> QED
        BY <1>3, <1>4, <1>5, <1>6, <1>7, <1>8, <1>9, <1>10, <1>11 DEF Next, HandlerStep, HookStep

\* No id is given out twice: one of the editor's that is still known leads to
\* what it was given for, one that has been cleared never leads anywhere again
\* (_next_frame_id, _next_variable_reference).
THEOREM IdsAreGivenOnce == Spec => RoutesOnlyNew
    <1>1. IInv /\ [Next]_vars => [OnlyNew(frames, frames') /\ OnlyNew(variables, variables')]_vars
        BY TablesOnlyNew
    <1> QED
        BY Invariance, <1>1, PTL DEF Spec, RoutesOnlyNew

\* No connection is open, and no process known, that no session, no thread that
\* opens or closes one, and no event handler accounts for.
THEOREM NothingIsLeftBehind == Spec => []NothingLeftBehind
    <1>1. ASSUME IInv
          PROVE  NothingLeftBehind
        <2> SUFFICES ASSUME NEW p \in Processes
                     PROVE  /\ link[p].conn \in {"open", "ended"} =>
                                   \/ p \in sessions /\ ~stop
                                   \/ p \in closing \/ Starting(p) \/ Handling(p)
                            /\ p \in known =>
                                   p \in sessions \/ stop \/ Starting(p) \/ Handling(p)
            BY DEF NothingLeftBehind
        <2>1. Opens(p) => Starting(p)
            BY DEF Opens, Starting
        <2>2. ASSUME NEW a \in Handlers, Closes(a, p)
              PROVE  Handling(p)
            BY <1>1, <2>2, Busy DEF IInv, Closes, Handling
        <2>3. p \in sessions => ~stop
            BY <1>1 DEF IInv, Charge
        <2>4. Connects(p) => Starting(p)
            BY DEF Connects, Starting
        <2> QED
            BY <1>1, <2>1, <2>2, <2>3, <2>4 DEF IInv, Charge, KnownOwned
    <1> QED
        BY Invariance, <1>1, PTL
--------------------------------------------------------------------------------
\* Who asks what of a CodeLLDB, and what it does about it.  In the following s is
\* a connection's wire or the input of a CodeLLDB.
IsFor(w, m) == m.kind \in {"answer", "refusal"} /\ m.who = w
HasFrom(w, s)   == \E i \in 1..Len(s) : s[i].who = w
HasFor(w, s)    == \E i \in 1..Len(s) : IsFor(w, s[i])
HasAnswer(w, s) == \E i \in 1..Len(s) : IsFor(w, s[i]) /\ s[i].kind = "answer"
HasKind(k, s)   == \E i \in 1..Len(s) : s[i].kind = k
OneFrom(w, s) == \A i, j \in 1..Len(s) : s[i].who = w /\ s[j].who = w => i = j
OneFor(w, s)  == \A i, j \in 1..Len(s) : IsFor(w, s[i]) /\ IsFor(w, s[j]) => i = j

Inbox(p) == lldb[p].inbox
Wire(p)  == link[p].wire
Open(p)  == link[p].conn = "open"

Waits(w, p) ==
    /\ asked[w] = Waiting
    /\ IF w = Watcher THEN InPhase /\ watcher.process = p
       ELSE hook[w] # Free /\ hook[w].process = p

\* On a connection that is open an asker has at most one request or one reply, and
\* awaits it, unless it is the watcher and about to close the connection.
Correspondence ==
    \A p \in Processes, w \in Askers :
        Open(p) =>
            /\ OneFrom(w, Inbox(p)) /\ OneFor(w, Wire(p))
            /\ ~(HasFrom(w, Inbox(p)) /\ HasFor(w, Wire(p)))
            /\ HasFrom(w, Inbox(p)) \/ HasFor(w, Wire(p)) =>
                   \/ Waits(w, p)
                   \/ w = Watcher /\ watcher.process = p /\ watcher.at = "close"

\* Each thread asks for what it is about.
Asking ==
    /\ \A h \in Hooks : asked[h] = Unasked <=> hook[h] = Free
    /\ asked[Watcher] # Unasked => InPhase

Purpose(request) ==
    IF request.who = Watcher THEN watcher.at \in {request.kind, "close"}
    ELSE hook[request.who] # Free /\ hook[request.who].at = request.kind

Purposes ==
    \A p \in Processes : \A i \in 1..Len(Inbox(p)) :
        /\ Inbox(p)[i].kind = "attach" => Inbox(p)[i].who = Watcher
        /\ Open(p) => Purpose(Inbox(p)[i])

\* A CodeLLDB that has ended attaches to nothing any more, one that has not been
\* asked to attach has not done it.
Begins(p) ==
    /\ Starting(p)
    /\ watcher.at = "initialize" \/ (watcher.at = "attach" /\ asked[Watcher] = Unasked)

Endings ==
    \A p \in Processes :
        /\ ~Open(p) \/ HasKind("eof", Wire(p)) \/ Begins(p) =>
               lldb[p].state = "none" /\ ~HasKind("attach", Inbox(p))
        /\ Begins(p) => ~HasKind("eof", Wire(p))
        /\ link[p].conn \in {"none", "closed"} => Inbox(p) = <<>>

\* From the answer to its continue on the child runs, till it is released.
LetRun(p) ==
    /\ Starting(p)
    /\ \/ watcher.at \in {"register", "insert", "drain", "mark"}
       \/ /\ watcher.at = "continue"
          /\ asked[Watcher].kind = "answer" \/ HasAnswer(Watcher, Wire(p))

Control ==
    \A p \in Processes :
        Open(p) /\ LetRun(p) => lldb[p].state \in {"runs", "none", "gone"}

CInv == Correspondence /\ Asking /\ Purposes /\ Endings /\ Control

LEMMA AppendedTo ==
    ASSUME NEW S, NEW s \in Seq(S), NEW m \in S
    PROVE  /\ Append(s, m) \in Seq(S)
           /\ \A w : /\ HasFrom(w, Append(s, m)) <=> HasFrom(w, s) \/ m.who = w
                     /\ OneFrom(w, s) /\ ~HasFrom(w, s) => OneFrom(w, Append(s, m))
                     /\ OneFrom(w, s) /\ m.who # w => OneFrom(w, Append(s, m))
           /\ \A k : HasKind(k, Append(s, m)) <=> HasKind(k, s) \/ m.kind = k
           /\ \A i \in 1..Len(Append(s, m)) :
                  (i \in 1..Len(s) /\ Append(s, m)[i] = s[i]) \/ Append(s, m)[i] = m
    <1> DEFINE r == Append(s, m)
    <1>1. /\ r \in Seq(S) /\ Len(r) = Len(s) + 1 /\ Len(s) \in Nat
          /\ \A i \in 1..Len(s) : r[i] = s[i]
          /\ r[Len(s) + 1] = m
        OBVIOUS
    <1> HIDE DEF r
    <1>2. \A i \in 1..Len(r) : (i \in 1..Len(s) /\ r[i] = s[i]) \/ (i = Len(s) + 1 /\ r[i] = m)
        BY <1>1
    <1>3. \A i \in 1..Len(s) : i \in 1..Len(r)
        BY <1>1
    <1>4. ASSUME NEW w PROVE HasFrom(w, r) <=> HasFrom(w, s) \/ m.who = w
        BY <1>1, <1>2, <1>3 DEF HasFrom
    <1>5. ASSUME NEW w PROVE OneFrom(w, s) /\ (~HasFrom(w, s) \/ m.who # w) => OneFrom(w, r)
        BY <1>2 DEF HasFrom, OneFrom
    <1>6. ASSUME NEW k PROVE HasKind(k, r) <=> HasKind(k, s) \/ m.kind = k
        BY <1>1, <1>2, <1>3 DEF HasKind
    <1> QED
        BY <1>1, <1>2, <1>4, <1>5, <1>6 DEF r

LEMMA RemainingOf ==
    ASSUME NEW S, NEW s \in Seq(S), s # <<>>
    PROVE  /\ Tail(s) \in Seq(S)
           /\ \A w : /\ HasFrom(w, Tail(s)) => HasFrom(w, s)
                     /\ Head(s).who = w => HasFrom(w, s)
                     /\ OneFrom(w, s) => OneFrom(w, Tail(s))
                     /\ OneFrom(w, s) /\ Head(s).who = w => ~HasFrom(w, Tail(s))
                     /\ HasFor(w, Tail(s)) => HasFor(w, s)
                     /\ IsFor(w, Head(s)) => HasFor(w, s)
                     /\ OneFor(w, s) => OneFor(w, Tail(s))
                     /\ OneFor(w, s) /\ IsFor(w, Head(s)) => ~HasFor(w, Tail(s))
                     /\ HasAnswer(w, Tail(s)) => HasAnswer(w, s)
                     /\ IsFor(w, Head(s)) /\ Head(s).kind = "answer" => HasAnswer(w, s)
           /\ \A k : /\ HasKind(k, Tail(s)) => HasKind(k, s)
                     /\ Head(s).kind = k => HasKind(k, s)
                     /\ HasKind(k, s) => HasKind(k, Tail(s)) \/ Head(s).kind = k
    <1> DEFINE r == Tail(s)
    <1>1. /\ Head(s) = s[1] /\ 1 \in 1..Len(s) /\ r \in Seq(S)
          /\ \A i \in 1..Len(r) : i + 1 \in 1..Len(s) /\ r[i] = s[i + 1]
          /\ \A i \in 1..Len(r) : i \in Int /\ i + 1 # 1
        BY Remaining
    <1>2. \A i \in 1..Len(s) : i = 1 \/ (i - 1 \in 1..Len(r) /\ r[i - 1] = s[i])
        OBVIOUS
    <1> HIDE DEF r
    <1>3. ASSUME NEW w
          PROVE  /\ HasFrom(w, r) => HasFrom(w, s)
                 /\ Head(s).who = w => HasFrom(w, s)
                 /\ HasFor(w, r) => HasFor(w, s)
                 /\ IsFor(w, Head(s)) => HasFor(w, s)
                 /\ HasAnswer(w, r) => HasAnswer(w, s)
                 /\ IsFor(w, Head(s)) /\ Head(s).kind = "answer" => HasAnswer(w, s)
        BY <1>1 DEF HasFrom, HasFor, HasAnswer
    <1>4. ASSUME NEW w
          PROVE  /\ OneFrom(w, s) => OneFrom(w, r)
                 /\ OneFrom(w, s) /\ Head(s).who = w => ~HasFrom(w, r)
        <2>1. OneFrom(w, s) => OneFrom(w, r)
            BY <1>1 DEF OneFrom
        <2>2. ASSUME OneFrom(w, s), Head(s).who = w, NEW i \in 1..Len(r), r[i].who = w PROVE FALSE
            BY <1>1, <2>2 DEF OneFrom
        <2> QED
            BY <2>1, <2>2 DEF HasFrom
    <1>5. ASSUME NEW w
          PROVE  /\ OneFor(w, s) => OneFor(w, r)
                 /\ OneFor(w, s) /\ IsFor(w, Head(s)) => ~HasFor(w, r)
        <2>1. OneFor(w, s) => OneFor(w, r)
            BY <1>1 DEF OneFor
        <2>2. ASSUME OneFor(w, s), IsFor(w, Head(s)), NEW i \in 1..Len(r), IsFor(w, r[i])
              PROVE  FALSE
            BY <1>1, <2>2 DEF OneFor
        <2> QED
            BY <2>1, <2>2 DEF HasFor
    <1>6. ASSUME NEW k
          PROVE  /\ HasKind(k, r) => HasKind(k, s)
                 /\ Head(s).kind = k => HasKind(k, s)
                 /\ HasKind(k, s) => HasKind(k, r) \/ Head(s).kind = k
        <2>1. HasKind(k, r) => HasKind(k, s)
            BY <1>1 DEF HasKind
        <2>2. Head(s).kind = k => HasKind(k, s)
            BY <1>1 DEF HasKind
        <2>3. HasKind(k, s) => HasKind(k, r) \/ Head(s).kind = k
            BY <1>1, <1>2 DEF HasKind
        <2> QED
            BY <2>1, <2>2, <2>3
    <1> QED
        BY <1>1, <1>3, <1>4, <1>5, <1>6 DEF r

LEMMA Joined ==
    ASSUME NEW S, NEW s \in Seq(S), NEW t \in Seq(S)
    PROVE  /\ s \o t \in Seq(S)
           /\ \A w : /\ HasFor(w, s \o t) <=> HasFor(w, s) \/ HasFor(w, t)
                     /\ HasAnswer(w, s \o t) <=> HasAnswer(w, s) \/ HasAnswer(w, t)
                     /\ OneFor(w, s) /\ ~HasFor(w, t) => OneFor(w, s \o t)
                     /\ OneFor(w, t) /\ ~HasFor(w, s) => OneFor(w, s \o t)
           /\ \A k : HasKind(k, s \o t) <=> HasKind(k, s) \/ HasKind(k, t)
    <1> DEFINE r == s \o t
               n == Len(s)
    <1>1. /\ r \in Seq(S) /\ n \in Nat /\ Len(t) \in Nat
          /\ \A i \in 1..Len(r) : \/ i \in 1..n /\ r[i] = s[i]
                                  \/ i - n \in 1..Len(t) /\ r[i] = t[i - n]
          /\ \A i \in 1..n : i \in 1..Len(r) /\ r[i] = s[i]
          /\ \A i \in 1..Len(t) : i + n \in 1..Len(r) /\ r[i + n] = t[i]
          /\ \A i \in 1..Len(r) : i \in Int
        <2>1. /\ r \in Seq(S) /\ Len(r) = Len(s) + Len(t)
              /\ \A i \in 1..Len(s) + Len(t) :
                     r[i] = IF i <= Len(s) THEN s[i] ELSE t[i - Len(s)]
            BY ConcatProperties
        <2>2. Len(s) \in Nat /\ Len(t) \in Nat
            OBVIOUS
        <2> HIDE DEF r
        <2> QED
            BY <2>1, <2>2
    <1> HIDE DEF r, n
    <1>2. ASSUME NEW w PROVE HasFor(w, r) <=> HasFor(w, s) \/ HasFor(w, t)
        <2>1. HasFor(w, s) \/ HasFor(w, t) => HasFor(w, r)
            BY <1>1 DEF HasFor, n
        <2>2. HasFor(w, r) => HasFor(w, s) \/ HasFor(w, t)
            BY <1>1 DEF HasFor, n
        <2> QED
            BY <2>1, <2>2
    <1>3. ASSUME NEW w PROVE HasAnswer(w, r) <=> HasAnswer(w, s) \/ HasAnswer(w, t)
        <2>1. HasAnswer(w, s) => HasAnswer(w, r)
            BY <1>1 DEF HasAnswer, n
        <2>2. ASSUME NEW i \in 1..Len(t), IsFor(w, t[i]) /\ t[i].kind = "answer" PROVE HasAnswer(w, r)
            BY <1>1, <2>2 DEF HasAnswer, n
        <2>3. HasAnswer(w, r) => HasAnswer(w, s) \/ HasAnswer(w, t)
            BY <1>1 DEF HasAnswer, n
        <2> QED
            BY <2>1, <2>2, <2>3 DEF HasAnswer
    <1>4. ASSUME NEW w, OneFor(w, s), ~HasFor(w, t) PROVE OneFor(w, r)
        BY <1>1, <1>4 DEF HasFor, OneFor, n
    <1>5. ASSUME NEW w, OneFor(w, t), ~HasFor(w, s) PROVE OneFor(w, r)
        <2> SUFFICES ASSUME NEW i \in 1..Len(r), NEW j \in 1..Len(r),
                            IsFor(w, r[i]), IsFor(w, r[j])
                     PROVE  i = j
            BY DEF OneFor
        <2>1. i - n \in 1..Len(t) /\ j - n \in 1..Len(t) /\ r[i] = t[i - n] /\ r[j] = t[j - n]
            BY <1>1, <1>5 DEF HasFor, n
        <2> QED
            BY <1>1, <1>5, <2>1 DEF OneFor
    <1>6. ASSUME NEW k PROVE HasKind(k, r) <=> HasKind(k, s) \/ HasKind(k, t)
        <2>1. HasKind(k, s) => HasKind(k, r)
            BY <1>1 DEF HasKind, n
        <2>2. ASSUME NEW i \in 1..Len(t), t[i].kind = k PROVE HasKind(k, r)
            BY <1>1, <2>2 DEF HasKind, n
        <2>3. HasKind(k, r) => HasKind(k, s) \/ HasKind(k, t)
            BY <1>1 DEF HasKind, n
        <2> QED
            BY <2>1, <2>2, <2>3 DEF HasKind
    <1> QED
        BY <1>1, <1>2, <1>3, <1>4, <1>5, <1>6 DEF r

LEMMA OneMessage ==
    ASSUME NEW S, NEW m \in S
    PROVE  /\ <<m>> \in Seq(S)
           /\ \A w : /\ HasFor(w, <<m>>) <=> IsFor(w, m)
                     /\ HasAnswer(w, <<m>>) <=> IsFor(w, m) /\ m.kind = "answer"
                     /\ OneFor(w, <<m>>)
           /\ \A k : HasKind(k, <<m>>) <=> m.kind = k
    <1>1. <<m>> \in Seq(S) /\ Len(<<m>>) = 1 /\ <<m>>[1] = m
        OBVIOUS
    <1> QED
        BY <1>1 DEF HasFor, HasAnswer, OneFor, HasKind

LEMMA TwoMessages ==
    ASSUME NEW S, NEW m \in S, NEW n \in S, n.kind \notin {"answer", "refusal"}
    PROVE  /\ <<m, n>> \in Seq(S)
           /\ \A w : /\ HasFor(w, <<m, n>>) <=> IsFor(w, m)
                     /\ HasAnswer(w, <<m, n>>) <=> IsFor(w, m) /\ m.kind = "answer"
                     /\ OneFor(w, <<m, n>>)
           /\ \A k : HasKind(k, <<m, n>>) <=> m.kind = k \/ n.kind = k
    <1>1. /\ <<m, n>> \in Seq(S) /\ Len(<<m, n>>) = 2 /\ <<m, n>>[1] = m /\ <<m, n>>[2] = n
          /\ 1..2 = {1, 2}
        OBVIOUS
    <1> QED
        BY <1>1 DEF HasFor, HasAnswer, OneFor, HasKind, IsFor

LEMMA NoMessage ==
    /\ \A w : /\ ~HasFrom(w, <<>>) /\ ~HasFor(w, <<>>) /\ ~HasAnswer(w, <<>>)
              /\ OneFrom(w, <<>>) /\ OneFor(w, <<>>)
    /\ \A k : ~HasKind(k, <<>>)
    BY DEF HasFrom, HasFor, HasAnswer, OneFrom, OneFor, HasKind

LEMMA Boxes ==
    ASSUME TypeOK, NEW p \in Processes
    PROVE  /\ Inbox(p) \in Seq(Requests) /\ Wire(p) \in Seq(Events \cup Replies)
           /\ lldb[p].state \in {"none", "attached", "runs", "stopped", "gone"}
           /\ lldb[p].stops \in 0..MaxStops
           /\ link[p].conn \in {"none", "open", "ended", "closed"}
    BY DEF TypeOK, Engines, Links, Inbox, Wire

LEMMA AskersAre ==
    /\ Askers = Hooks \cup {Watcher} /\ Watcher \notin Hooks /\ Watcher \in Askers
    /\ None \notin Hooks
    BY ChildSessionsAssumption DEF Askers, Watcher

LEMMA Sending ==
    ASSUME TypeOK, NEW p \in Processes, NEW t \in Seq(Events \cup Replies), Sends(p, t)
    PROVE  /\ \A q \in Processes : /\ link'[q].conn = link[q].conn
                                   /\ q # p => Wire(q)' = Wire(q)
           /\ Wire(p)' = Wire(p) \o t
    BY DEF TypeOK, Links, Sends, Wire

LEMMA ReadingOne ==
    ASSUME TypeOK, NEW p \in Processes, Wire(p) # <<>>,
           link' = [link EXCEPT ![p].wire = Tail(@)]
    PROVE  /\ \A q \in Processes : /\ link'[q].conn = link[q].conn
                                   /\ q # p => Wire(q)' = Wire(q)
           /\ Wire(p)' = Tail(Wire(p))
    BY DEF TypeOK, Links, Wire

LEMMA Hanging ==
    ASSUME TypeOK, NEW P \in SUBSET Processes, Hangs(P)
    PROVE  /\ \A q \in P : /\ link'[q].conn = "closed" /\ lldb'[q].state = "none"
                           /\ Inbox(q)' = <<>> /\ Wire(q)' = <<>>
                           /\ lldb'[q].stops = lldb[q].stops
           /\ \A q \in Processes \ P : link'[q] = link[q] /\ lldb'[q] = lldb[q]
    <1>1. \A q \in P : /\ link'[q].conn = "closed" /\ lldb'[q].state = "none"
                       /\ lldb'[q].inbox = <<>>
        BY HungUp
    <1>2. lldb \in [Processes -> Engines] /\ link \in [Processes -> Links]
        BY DEF TypeOK
    <1>3. \A q \in Processes :
              [lldb[q] EXCEPT !.state = "none", !.inbox = <<>>].stops = lldb[q].stops
        BY <1>2 DEF Engines
    <1>4. ASSUME NEW q \in P PROVE lldb'[q].stops = lldb[q].stops
        <2>1. lldb'[q] = [lldb[q] EXCEPT !.state = "none", !.inbox = <<>>]
            BY Zenon DEF Hangs
        <2> QED
            BY <1>3, <2>1
    <1>5. ASSUME NEW q \in P PROVE link'[q].wire = <<>>
        <2>1. link'[q] = [conn |-> "closed", wire |-> <<>>]
            BY Zenon DEF Hangs
        <2> QED
            BY <2>1
    <1>6. \A q \in Processes \ P : link'[q] = link[q] /\ lldb'[q] = lldb[q]
        BY HungUp
    <1> QED
        BY <1>1, <1>4, <1>5, <1>6 DEF Inbox, Wire

\* Steps in which nobody says anything.
LEMMA SilenceControl ==
    ASSUME CInv, UNCHANGED <<lldb, link, asked, watcher, hook>>
    PROVE  CInv'
    <1>1. Correspondence' /\ Asking' /\ Purposes'
        BY DEF CInv, Correspondence, Asking, Purposes, Purpose, Waits, InPhase, Inbox, Wire, Open
    <1>2. Endings' /\ Control'
        BY DEF CInv, Endings, Control, Begins, LetRun, Starting, Inbox, Wire, Open
    <1> QED
        BY <1>1, <1>2 DEF CInv

\* An event of the child's.
LEMMA EventControl ==
    ASSUME TypeOK, CInv, NEW p \in Processes, NEW e \in Events, e.kind \in {"exited", "stopped"},
           Sends(p, <<e>>), UNCHANGED <<asked, watcher, hook>>,
           \A q \in Processes :
               Inbox(q)' = Inbox(q) /\ (q # p => lldb'[q].state = lldb[q].state),
           lldb[p].state # "none",
           LetRun(p) => lldb'[p].state \in {"runs", "none", "gone"}
    PROVE  CInv'
    <1>1. /\ \A q \in Processes : /\ link'[q].conn = link[q].conn
                                  /\ q # p => Wire(q)' = Wire(q)
          /\ Wire(p)' = Wire(p) \o <<e>> /\ Wire(p) \in Seq(Events \cup Replies)
        BY OneMessage, Sending, Boxes
    <1>2. /\ \A w : /\ HasFor(w, Wire(p)') <=> HasFor(w, Wire(p))
                    /\ HasAnswer(w, Wire(p)') <=> HasAnswer(w, Wire(p))
                    /\ OneFor(w, Wire(p)) => OneFor(w, Wire(p)')
          /\ HasKind("eof", Wire(p)') <=> HasKind("eof", Wire(p))
        <2> DEFINE t == <<e>>
        <2>1. /\ t \in Seq(Events \cup Replies) /\ ~HasKind("eof", t)
              /\ \A w : ~HasFor(w, t) /\ ~HasAnswer(w, t)
            BY OneMessage DEF IsFor
        <2> HIDE DEF t
        <2>2. Wire(p)' = Wire(p) \o t
            BY <1>1 DEF t
        <2> QED
            BY <1>1, <2>1, <2>2, Joined
    <1>3. Correspondence'
        <2> SUFFICES ASSUME NEW q \in Processes, NEW w \in Askers, Open(q)'
                     PROVE  /\ OneFrom(w, Inbox(q)') /\ OneFor(w, Wire(q)')
                            /\ ~(HasFrom(w, Inbox(q)') /\ HasFor(w, Wire(q)'))
                            /\ HasFrom(w, Inbox(q)') \/ HasFor(w, Wire(q)') =>
                                   \/ Waits(w, q)'
                                   \/ w = Watcher /\ watcher'.process = q /\ watcher'.at = "close"
            BY DEF Correspondence
        <2>1. Open(q) /\ Inbox(q)' = Inbox(q) /\ (Waits(w, q)' <=> Waits(w, q))
            BY <1>1 DEF Open, Waits, InPhase
        <2>2. /\ HasFor(w, Wire(q)') <=> HasFor(w, Wire(q))
              /\ OneFor(w, Wire(q)) => OneFor(w, Wire(q)')
            BY <1>1, <1>2
        <2> QED
            BY <2>1, <2>2 DEF CInv, Correspondence
    <1>4. Asking' /\ Purposes'
        BY <1>1 DEF CInv, Asking, Purposes, Purpose, InPhase, Open
    <1>5. Endings'
        BY <1>1, <1>2 DEF CInv, Endings, Begins, Starting, Open
    <1>6. Control'
        BY <1>1, <1>2 DEF CInv, Control, LetRun, Starting, Open
    <1> QED
        BY <1>3, <1>4, <1>5, <1>6 DEF CInv

LEMMA ChildExitsControl ==
    ASSUME IInv, CInv, NEW p \in Processes, ChildExits(p)
    PROVE  CInv'
    <1>1. UNCHANGED <<asked, watcher, hook>>
        BY DEF ChildExits
    <1>2. CASE Debugged(p)
        <2>1. /\ \A q \in Processes :
                     Inbox(q)' = Inbox(q) /\ (q # p => lldb'[q].state = lldb[q].state)
              /\ lldb'[p].state = "gone" /\ lldb[p].state # "none"
            <3>1. lldb \in [Processes -> Engines] /\ lldb' = [lldb EXCEPT ![p].state = "gone"]
                BY <1>2 DEF ChildExits, IInv, TypeOK
            <3> QED
                BY <1>2, <3>1 DEF Engines, Inbox, Debugged
        <2>2. /\ Sends(p, <<Event("exited", None, 0)>>) /\ Event("exited", None, 0) \in Events
              /\ Event("exited", None, 0).kind = "exited"
            BY <1>2 DEF ChildExits, Event, Events
        <2> QED
            BY <1>1, <2>1, <2>2, EventControl DEF IInv
    <1>3. CASE ~Debugged(p)
        BY <1>1, <1>3, SilenceControl DEF ChildExits
    <1> QED
        BY <1>2, <1>3

LEMMA LldbStopsControl ==
    ASSUME IInv, CInv, NEW p \in Processes, NEW t \in Threads, LldbStops(p, t)
    PROVE  CInv'
    <1>1. UNCHANGED <<asked, watcher, hook>> /\ lldb[p].state = "runs" /\ child[p].marked
        BY DEF LldbStops
    <1>2. ~LetRun(p)
        BY <1>1 DEF IInv, Past, LetRun
    <1>3. /\ lldb[p].stops + 1 \in 0..MaxStops
          /\ Event("stopped", t, lldb[p].stops + 1) \in Events
          /\ Event("stopped", t, lldb[p].stops + 1).kind = "stopped"
        <2>1. lldb[p].stops + 1 \in 0..MaxStops
            BY ChildSessionsAssumption DEF LldbStops, IInv, TypeOK, Engines
        <2> QED
            BY <2>1 DEF Event, Events
    <1>4. \A q \in Processes : Inbox(q)' = Inbox(q) /\ (q # p => lldb'[q].state = lldb[q].state)
        <2>1. lldb \in [Processes -> Engines]
            BY DEF IInv, TypeOK
        <2> DEFINE e == [lldb[p] EXCEPT !.state = "stopped", !.stops = lldb[p].stops + 1]
        <2>2. lldb' = [lldb EXCEPT ![p] = e]
            BY DEF LldbStops
        <2>3. e.inbox = lldb[p].inbox
            BY <2>1 DEF Engines
        <2> HIDE DEF e
        <2> QED
            BY <2>1, <2>2, <2>3 DEF Inbox
    <1>5. Sends(p, <<Event("stopped", t, lldb[p].stops + 1)>>)
        BY DEF LldbStops
    <1> QED
        BY <1>1, <1>2, <1>3, <1>4, <1>5, EventControl DEF IInv

\* What CodeLLDB says to a request, r, and to whom.
Says(p, m, s) ==
    LET r == Head(Inbox(p))
    IN  /\ \A w : (HasFor(w, m) => r.who = w) /\ OneFor(w, m)
        /\ ~HasKind("eof", m)
        /\ HasKind("continued", m) =>
               r.kind = "continue" /\ lldb[p].state \in {"attached", "stopped"} /\ s = "runs"
        /\ \A w : HasAnswer(w, m) =>
               /\ r.kind = "continue" => s = "runs"
               /\ r.kind \in {"stackTrace", "inspect"} =>
                      lldb[p].state = "stopped" /\ s = "stopped"
        /\ \A i \in 1..Len(m) : m[i].kind = "answer" => m[i].stop = lldb[p].stops
        /\ s = "stopped" => lldb[p].state = "stopped"
        /\ s # lldb[p].state =>
               \/ r.kind = "attach"
               \/ /\ r.kind = "continue" /\ s = "runs" /\ lldb[p].state \in {"attached", "stopped"}
                  /\ HasKind("continued", m)

LEMMA Serving ==
    ASSUME TypeOK, NEW p \in Processes, LldbServes(p)
    PROVE  \E m \in Seq(Events \cup Replies),
              s \in {"none", "attached", "runs", "stopped", "gone"} :
               /\ Inbox(p) # <<>>
               /\ \A q \in Processes : q # p => lldb'[q] = lldb[q]
               /\ lldb'[p].state = s /\ Inbox(p)' = Tail(Inbox(p))
               /\ lldb'[p].stops = lldb[p].stops
               /\ Sends(p, m) /\ Says(p, m, s)
    <1> DEFINE r == Head(lldb[p].inbox)
               answer == Reply("answer", r.who, lldb[p].stops)
               refusal == Reply("refusal", r.who, 0)
               resumed == Event("continued", r.thread, 0)
               Becomes(s) == lldb' = [lldb EXCEPT ![p].inbox = Tail(@), ![p].state = s]
    <1>1. /\ lldb[p].inbox \in Seq(Requests) /\ lldb[p].inbox # <<>>
          /\ lldb[p].state \in {"none", "attached", "runs", "stopped", "gone"}
          /\ lldb[p].stops \in 0..MaxStops
        BY DEF TypeOK, Engines, LldbServes
    <1>2. r \in Requests
        BY <1>1
    <1> HIDE DEF r
    <1>3. /\ answer \in Events \cup Replies /\ answer.kind = "answer" /\ answer.who = r.who
          /\ answer.stop = lldb[p].stops
        BY <1>1, <1>2 DEF Requests, Reply, Replies
    <1>4. refusal \in Events \cup Replies /\ refusal.kind = "refusal" /\ refusal.who = r.who
        BY <1>2, ChildSessionsAssumption DEF Requests, Reply, Replies
    <1>5. resumed \in Events \cup Replies /\ resumed.kind = "continued"
        BY <1>2, ChildSessionsAssumption DEF Requests, Event, Events
    <1>6. ASSUME NEW s \in {"none", "attached", "runs", "stopped", "gone"}, Becomes(s)
          PROVE  /\ \A q \in Processes : q # p => lldb'[q] = lldb[q]
                 /\ lldb'[p].state = s /\ Inbox(p)' = Tail(Inbox(p))
                 /\ lldb'[p].stops = lldb[p].stops
        <2>1. lldb \in [Processes -> Engines]
            BY DEF TypeOK
        <2> DEFINE e == [lldb[p] EXCEPT !.inbox = Tail(lldb[p].inbox), !.state = s]
        <2>2. lldb' = [lldb EXCEPT ![p] = e]
            BY <1>6
        <2>3. e.state = s /\ e.inbox = Tail(lldb[p].inbox) /\ e.stops = lldb[p].stops
            BY <1>1, <2>1 DEF Engines
        <2> HIDE DEF e
        <2> QED
            BY <2>1, <2>2, <2>3 DEF Inbox
    <1> HIDE DEF answer, refusal, resumed, Becomes
    <1>7. ASSUME NEW s \in {"none", "attached", "runs", "stopped", "gone"}, Becomes(s),
                 \/ s = lldb[p].state /\ r.kind \notin {"continue", "stackTrace", "inspect"}
                 \/ r.kind = "attach" /\ s = "attached"
                 \/ /\ r.kind \in {"stackTrace", "inspect"}
                    /\ lldb[p].state = "stopped" /\ s = "stopped",
                 Sends(p, <<answer>>)
          PROVE  \E m \in Seq(Events \cup Replies) : Sends(p, m) /\ Says(p, m, s)
        <2> DEFINE m == <<answer>>
        <2>1. /\ m \in Seq(Events \cup Replies)
              /\ \A w : (HasFor(w, m) => r.who = w) /\ OneFor(w, m)
              /\ ~HasKind("eof", m) /\ ~HasKind("continued", m)
            BY <1>3, OneMessage DEF IsFor
        <2>2. \A i \in 1..Len(m) : m[i].kind = "answer" => m[i].stop = lldb[p].stops
            BY <1>3
        <2> HIDE DEF m
        <2>3. Sends(p, m)
            BY <1>7 DEF m
        <2> QED
            BY <1>7, <2>1, <2>2, <2>3 DEF Says, r, Inbox
    <1>8. ASSUME Becomes(lldb[p].state), Sends(p, <<refusal>>)
          PROVE  \E m \in Seq(Events \cup Replies) : Sends(p, m) /\ Says(p, m, lldb[p].state)
        <2> DEFINE m == <<refusal>>
        <2>1. /\ m \in Seq(Events \cup Replies)
              /\ \A w : (HasFor(w, m) => r.who = w) /\ OneFor(w, m) /\ ~HasAnswer(w, m)
              /\ ~HasKind("eof", m) /\ ~HasKind("continued", m)
            BY <1>4, OneMessage DEF IsFor
        <2>2. \A i \in 1..Len(m) : m[i].kind # "answer"
            BY <1>4
        <2> HIDE DEF m
        <2>3. Sends(p, m)
            BY <1>8 DEF m
        <2> QED
            BY <2>1, <2>2, <2>3 DEF Says, r, Inbox
    <1>9. ASSUME r.kind = "continue", lldb[p].state \in {"attached", "stopped"}, Becomes("runs"),
                 Sends(p, <<answer, resumed>>)
          PROVE  \E m \in Seq(Events \cup Replies) : Sends(p, m) /\ Says(p, m, "runs")
        <2> DEFINE m == <<answer, resumed>>
        <2>1. /\ m \in Seq(Events \cup Replies)
              /\ \A w : (HasFor(w, m) => r.who = w) /\ OneFor(w, m)
              /\ ~HasKind("eof", m) /\ HasKind("continued", m)
            <3>1. resumed.kind \notin {"answer", "refusal"}
                BY <1>5
            <3>2. /\ m \in Seq(Events \cup Replies)
                  /\ \A w : /\ HasFor(w, m) <=> IsFor(w, answer)
                            /\ HasAnswer(w, m) <=> IsFor(w, answer) /\ answer.kind = "answer"
                            /\ OneFor(w, m)
                  /\ \A k : HasKind(k, m) <=> answer.kind = k \/ resumed.kind = k
                <4>1. answer \in Events \cup Replies /\ resumed \in Events \cup Replies
                    BY <1>3, <1>5
                <4> QED
                    BY <3>1, <4>1, TwoMessages, Zenon
            <3> QED
                BY <1>3, <1>5, <3>2 DEF IsFor
        <2>2. \A i \in 1..Len(m) : m[i].kind = "answer" => m[i].stop = lldb[p].stops
            <3>1. Len(m) = 2 /\ m[1] = answer /\ m[2] = resumed /\ 1..2 = {1, 2}
                OBVIOUS
            <3> QED
                BY <1>3, <1>5, <3>1
        <2> HIDE DEF m
        <2>3. Sends(p, m)
            BY <1>9 DEF m
        <2> QED
            BY <1>9, <2>1, <2>2, <2>3 DEF Says, r, Inbox
    <1>10. ASSUME r.kind = "attach", Becomes("gone"), link' = link
           PROVE  \E m \in Seq(Events \cup Replies) : Sends(p, m) /\ Says(p, m, "gone")
        <2> DEFINE m == <<>>
        <2>1. m \in Seq(Events \cup Replies) /\ \A i \in 1..Len(m) : FALSE
            BY Nothing
        <2>2. link[p].wire \o m = link[p].wire
            BY ConcatEmptySeq DEF TypeOK, Links
        <2> HIDE DEF m
        <2>3. Sends(p, m)
            BY <1>10, <2>2 DEF Sends, TypeOK, Links
        <2>4. Says(p, m, "gone")
            BY <1>10, <2>1 DEF Says, HasFor, HasAnswer, HasKind, OneFor, r, Inbox
        <2> QED
            BY <2>1, <2>3, <2>4
    <1> DEFINE Done(s) == \E m \in Seq(Events \cup Replies) : Sends(p, m) /\ Says(p, m, s)
    <1>11. CASE r.kind \in {"initialize", "setBreakpoints", "configurationDone"}
        <2>1. Becomes(lldb[p].state) /\ Sends(p, <<answer>>)
            BY <1>11 DEF LldbServes, r, answer, Becomes
        <2>2. Done(lldb[p].state)
            BY <1>1, <1>7, <1>11, <2>1
        <2> QED
            BY <1>1, <1>6, <2>1, <2>2 DEF Inbox, Becomes
    <1>12. CASE r.kind = "attach" /\ child[p].life = "waiting"
        <2>1. Becomes("attached") /\ Sends(p, <<answer>>)
            BY <1>12 DEF LldbServes, r, answer, Becomes
        <2>2. Done("attached")
            BY <1>7, <1>12, <2>1
        <2> QED
            BY <1>1, <1>6, <2>1, <2>2 DEF Inbox, Becomes
    <1>13. CASE r.kind = "attach" /\ child[p].life # "waiting"
        <2>1. Becomes("gone") /\ link' = link
            BY <1>13 DEF LldbServes, r, Becomes
        <2>2. Done("gone")
            BY <1>10, <1>13, <2>1
        <2> QED
            BY <1>1, <1>6, <2>1, <2>2 DEF Inbox, Becomes
    <1>14. CASE r.kind = "continue" /\ lldb[p].state \in {"attached", "stopped"}
        <2>1. Becomes("runs") /\ Sends(p, <<answer, resumed>>)
            BY <1>14 DEF LldbServes, r, answer, resumed, Becomes
        <2>2. Done("runs")
            BY <1>9, <1>14, <2>1
        <2> QED
            BY <1>1, <1>6, <2>1, <2>2 DEF Inbox, Becomes
    <1>15. CASE r.kind \in {"stackTrace", "inspect"} /\ lldb[p].state = "stopped"
        <2>1. Becomes("stopped") /\ Sends(p, <<answer>>)
            BY <1>15 DEF LldbServes, r, answer, Becomes
        <2>2. Done("stopped")
            BY <1>7, <1>15, <2>1
        <2> QED
            BY <1>1, <1>6, <2>1, <2>2 DEF Inbox, Becomes
    <1>16. CASE \/ r.kind = "continue" /\ lldb[p].state \notin {"attached", "stopped"}
                \/ r.kind \in {"stackTrace", "inspect"} /\ lldb[p].state # "stopped"
        <2>1. Becomes(lldb[p].state) /\ Sends(p, <<refusal>>)
            BY <1>16 DEF LldbServes, r, refusal, Becomes
        <2>2. Done(lldb[p].state)
            BY <1>8, <2>1
        <2> QED
            BY <1>1, <1>6, <2>1, <2>2 DEF Inbox, Becomes
    <1>17. r.kind \in {"initialize", "attach", "setBreakpoints", "configurationDone", "continue",
                       "stackTrace", "inspect"}
        BY <1>2, PhasesOnly DEF Requests
    <1> QED
        BY <1>11, <1>12, <1>13, <1>14, <1>15, <1>16, <1>17

LEMMA LldbServesControl ==
    ASSUME IInv, CInv, NEW p \in Processes, LldbServes(p)
    PROVE  CInv'
    <1> DEFINE r == Head(Inbox(p))
    <1>1. UNCHANGED <<asked, watcher, hook>>
        BY DEF LldbServes
    <1>2. PICK m \in Seq(Events \cup Replies),
               s \in {"none", "attached", "runs", "stopped", "gone"} :
                 /\ Inbox(p) # <<>>
                 /\ \A q \in Processes : q # p => lldb'[q] = lldb[q]
                 /\ lldb'[p].state = s /\ Inbox(p)' = Tail(Inbox(p))
                 /\ Sends(p, m) /\ Says(p, m, s)
        BY Serving DEF IInv
    <1>3. /\ \A q \in Processes : /\ link'[q].conn = link[q].conn
                                  /\ q # p => Wire(q)' = Wire(q) /\ Inbox(q)' = Inbox(q)
          /\ Wire(p)' = Wire(p) \o m /\ Wire(p) \in Seq(Events \cup Replies)
          /\ Inbox(p) \in Seq(Requests) /\ r = Inbox(p)[1] /\ 1 \in 1..Len(Inbox(p))
        BY <1>2, Sending, Boxes, Remaining DEF IInv, Inbox
    <1>4. /\ \A w : /\ HasFor(w, Wire(p)') <=> HasFor(w, Wire(p)) \/ HasFor(w, m)
                    /\ HasAnswer(w, Wire(p)') <=> HasAnswer(w, Wire(p)) \/ HasAnswer(w, m)
                    /\ OneFor(w, Wire(p)) /\ ~HasFor(w, m) => OneFor(w, Wire(p)')
                    /\ OneFor(w, m) /\ ~HasFor(w, Wire(p)) => OneFor(w, Wire(p)')
          /\ HasKind("eof", Wire(p)') <=> HasKind("eof", Wire(p)) \/ HasKind("eof", m)
        BY <1>3, Joined
    <1>5. /\ \A w : /\ HasFrom(w, Inbox(p)') => HasFrom(w, Inbox(p))
                    /\ r.who = w => HasFrom(w, Inbox(p))
                    /\ OneFrom(w, Inbox(p)) => OneFrom(w, Inbox(p)')
                    /\ OneFrom(w, Inbox(p)) /\ r.who = w => ~HasFrom(w, Inbox(p)')
          /\ HasKind("attach", Inbox(p)') => HasKind("attach", Inbox(p))
          /\ r.kind = "attach" => HasKind("attach", Inbox(p))
          /\ \A i \in 1..Len(Inbox(p)') :
                 i + 1 \in 1..Len(Inbox(p)) /\ Inbox(p)'[i] = Inbox(p)[i + 1]
        BY <1>2, <1>3, RemainingOf, Remaining
    <1>6. /\ \A w : (HasFor(w, m) => r.who = w) /\ OneFor(w, m)
          /\ ~HasKind("eof", m)
          /\ \A w : HasAnswer(w, m) => (r.kind = "continue" => s = "runs")
          /\ s # lldb[p].state =>
                 r.kind = "attach" \/ (r.kind = "continue" /\ s = "runs" /\ lldb[p].state # "none")
        BY <1>2 DEF Says
    <1> HIDE DEF r
    <1>7. Correspondence'
        <2> SUFFICES ASSUME NEW q \in Processes, NEW w \in Askers, Open(q)'
                     PROVE  /\ OneFrom(w, Inbox(q)') /\ OneFor(w, Wire(q)')
                            /\ ~(HasFrom(w, Inbox(q)') /\ HasFor(w, Wire(q)'))
                            /\ HasFrom(w, Inbox(q)') \/ HasFor(w, Wire(q)') =>
                                   \/ Waits(w, q)'
                                   \/ w = Watcher /\ watcher'.process = q /\ watcher'.at = "close"
            BY DEF Correspondence
        <2>1. Open(q) /\ (Waits(w, q)' <=> Waits(w, q))
            BY <1>1, <1>3 DEF Open, Waits, InPhase
        <2>2. CASE q # p
            BY <1>1, <1>3, <2>1, <2>2 DEF CInv, Correspondence
        <2>3. CASE q = p
            <3>1. /\ OneFrom(w, Inbox(p)) /\ OneFor(w, Wire(p))
                  /\ ~(HasFrom(w, Inbox(p)) /\ HasFor(w, Wire(p)))
                  /\ HasFrom(w, Inbox(p)) \/ HasFor(w, Wire(p)) =>
                         \/ Waits(w, p)
                         \/ w = Watcher /\ watcher.process = p /\ watcher.at = "close"
                BY <2>1, <2>3 DEF CInv, Correspondence
            <3> QED
                BY <1>1, <1>4, <1>5, <1>6, <2>1, <2>3, <3>1
        <2> QED
            BY <2>2, <2>3
    <1>8. Asking'
        BY <1>1 DEF CInv, Asking, InPhase
    <1>9. Purposes'
        <2> SUFFICES ASSUME NEW q \in Processes, NEW i \in 1..Len(Inbox(q)')
                     PROVE  (/\ Inbox(q)[i].kind = "attach" => Inbox(q)[i].who = Watcher
                             /\ Open(q) => Purpose(Inbox(q)[i]))'
            BY DEF Purposes
        <2>1. PICK j \in 1..Len(Inbox(q)) : (Inbox(q)[i])' = Inbox(q)[j]
            BY <1>3, <1>5
        <2>2. /\ Inbox(q)[j].kind = "attach" => Inbox(q)[j].who = Watcher
              /\ Open(q) => Purpose(Inbox(q)[j])
            BY DEF CInv, Purposes
        <2>3. Open(q)' <=> Open(q)
            BY <1>3 DEF Open
        <2> QED
            BY <1>1, <2>1, <2>2, <2>3 DEF Purpose
    <1>10. Endings'
        <2> SUFFICES ASSUME NEW q \in Processes
                     PROVE  /\ ~Open(q)' \/ HasKind("eof", Wire(q)') \/ Begins(q)' =>
                                   lldb'[q].state = "none" /\ ~HasKind("attach", Inbox(q)')
                            /\ Begins(q)' => ~HasKind("eof", Wire(q)')
                            /\ link'[q].conn \in {"none", "closed"} => Inbox(q)' = <<>>
            BY DEF Endings
        <2>1. (Open(q)' <=> Open(q)) /\ (Begins(q)' <=> Begins(q))
            BY <1>1, <1>3 DEF Open, Begins, Starting
        <2>2. /\ ~Open(q) \/ HasKind("eof", Wire(q)) \/ Begins(q) =>
                     lldb[q].state = "none" /\ ~HasKind("attach", Inbox(q))
              /\ Begins(q) => ~HasKind("eof", Wire(q))
              /\ link[q].conn \in {"none", "closed"} => Inbox(q) = <<>>
            BY DEF CInv, Endings
        <2>3. CASE q # p
            <3>1. lldb'[q] = lldb[q] /\ Wire(q)' = Wire(q) /\ Inbox(q)' = Inbox(q)
                BY <1>2, <1>3, <2>3
            <3> QED
                BY <1>3, <2>1, <2>2, <3>1
        <2>4. CASE q = p
            BY <1>2, <1>3, <1>4, <1>5, <1>6, <2>1, <2>2, <2>4
        <2> QED
            BY <2>3, <2>4
    <1>11. Control'
        <2> SUFFICES ASSUME NEW q \in Processes, Open(q)', LetRun(q)'
                     PROVE  lldb'[q].state \in {"runs", "none", "gone"}
            BY DEF Control
        <2>1. CASE q # p
            BY <1>1, <1>2, <1>3, <2>1 DEF CInv, Control, Open, LetRun, Starting
        <2>2. CASE q = p
            <3>1. Open(p) /\ Starting(p)
                BY <1>1, <1>3, <2>2 DEF Open, LetRun, Starting
            <3>2. r.kind = "attach" => watcher.at \in {"attach", "close"}
                BY <1>3, <3>1 DEF CInv, Purposes, Purpose
            <3>3. r.kind # "attach"
                BY <1>1, <3>2 DEF LetRun
            <3>4. CASE LetRun(p)
                BY <1>2, <1>6, <2>2, <3>1, <3>3, <3>4 DEF CInv, Control
            <3>5. CASE ~LetRun(p)
                <4>1. HasAnswer(Watcher, m) /\ watcher.at = "continue"
                    BY <1>1, <1>4, <2>2, <3>5 DEF LetRun, Starting
                <4>2. HasFor(Watcher, m)
                    BY <4>1 DEF HasAnswer, HasFor
                <4>3. r.kind = "continue"
                    BY <1>3, <1>6, <3>1, <4>1, <4>2 DEF CInv, Purposes, Purpose
                <4> QED
                    BY <1>2, <1>6, <2>2, <4>1, <4>3
            <3> QED
                BY <3>4, <3>5
        <2> QED
            BY <2>1, <2>2
    <1> QED
        BY <1>7, <1>8, <1>9, <1>10, <1>11 DEF CInv


LEMMA PhaseAfter ==
    /\ InPhase <=> watcher.at \in {"initialize", "attach", "setBreakpoints", "configurationDone",
                                   "continue"}
    /\ NextPhase("initialize") = "attach" /\ NextPhase("attach") = "setBreakpoints"
    /\ NextPhase("setBreakpoints") = "configurationDone"
    /\ NextPhase("configurationDone") = "continue" /\ NextPhase("continue") = "register"
    <1>1. /\ Phases[1] = "initialize" /\ Phases[2] = "attach" /\ Phases[3] = "setBreakpoints"
          /\ Phases[4] = "configurationDone" /\ Phases[5] = "continue"
        BY DEF Phases
    <1>2. ASSUME NEW phase, NEW n \in 1..4, Phases[n] = phase
          PROVE  NextPhase(phase) = Phases[1 + n]
        <2>1. /\ phase # "continue"
              /\ \A i \in 1..4 : Phases[i] = phase => i = n
            BY <1>1, <1>2
        <2> DEFINE c == CHOOSE i \in 1..4 : Phases[i] = phase
        <2>2. c \in 1..4 /\ Phases[c] = phase
            BY <1>2
        <2>3. c = n
            BY <2>1, <2>2
        <2> QED
            BY <2>1, <2>3 DEF NextPhase
    <1>3. /\ NextPhase("initialize") = "attach" /\ NextPhase("attach") = "setBreakpoints"
          /\ NextPhase("setBreakpoints") = "configurationDone"
          /\ NextPhase("configurationDone") = "continue"
        BY <1>1, <1>2
    <1>4. NextPhase("continue") = "register"
        BY DEF NextPhase
    <1> QED
        BY <1>3, <1>4, PhasesOnly DEF InPhase

\* The watcher is done with one thing, and the request for it.
LEMMA WatcherMoves ==
    ASSUME CInv, UNCHANGED <<lldb, link, hook>>,
           \A h \in Hooks : asked'[h] = asked[h], asked'[Watcher] = Unasked,
           \A p \in Processes :
               /\ Open(p) /\ (HasFrom(Watcher, Inbox(p)) \/ HasFor(Watcher, Wire(p))) =>
                      watcher'.process = p /\ watcher'.at = "close"
               /\ Begins(p)' => Begins(p)
               /\ Open(p) /\ LetRun(p)' => LetRun(p)
    PROVE  CInv'
    <1>1. \A q \in Processes : /\ Inbox(q)' = Inbox(q) /\ Wire(q)' = Wire(q)
                               /\ link'[q].conn = link[q].conn /\ lldb'[q].state = lldb[q].state
        BY DEF Inbox, Wire
    <1>2. Correspondence'
        <2> SUFFICES ASSUME NEW q \in Processes, NEW w \in Askers, Open(q)'
                     PROVE  /\ OneFrom(w, Inbox(q)') /\ OneFor(w, Wire(q)')
                            /\ ~(HasFrom(w, Inbox(q)') /\ HasFor(w, Wire(q)'))
                            /\ HasFrom(w, Inbox(q)') \/ HasFor(w, Wire(q)') =>
                                   \/ Waits(w, q)'
                                   \/ w = Watcher /\ watcher'.process = q /\ watcher'.at = "close"
            BY DEF Correspondence
        <2>1. Open(q) /\ (w # Watcher => (Waits(w, q)' <=> Waits(w, q)))
            BY <1>1, AskersAre DEF Open, Waits
        <2> QED
            BY <1>1, <2>1 DEF CInv, Correspondence
    <1>3. Asking'
        BY AskersAre DEF CInv, Asking
    <1>4. Purposes'
        <2> SUFFICES ASSUME NEW q \in Processes, NEW i \in 1..Len(Inbox(q))
                     PROVE  /\ Inbox(q)[i].kind = "attach" => Inbox(q)[i].who = Watcher
                            /\ Open(q) => Purpose(Inbox(q)[i])'
            BY <1>1 DEF Purposes, Open, Inbox, Purpose
        <2>1. Inbox(q)[i].who = Watcher => HasFrom(Watcher, Inbox(q))
            BY DEF HasFrom
        <2> QED
            BY <2>1 DEF CInv, Purposes, Purpose, Inbox
    <1>5. Endings' /\ Control'
        BY <1>1 DEF CInv, Endings, Control, Open
    <1> QED
        BY <1>2, <1>3, <1>4, <1>5 DEF CInv

\* It has nothing under way unless it waits or has given up.
LEMMA WatcherIsDone ==
    ASSUME CInv, watcher.at # "close", asked[Watcher] # Waiting, NEW p \in Processes, Open(p)
    PROVE  ~HasFrom(Watcher, Inbox(p)) /\ ~HasFor(Watcher, Wire(p))
    BY AskersAre DEF CInv, Correspondence, Waits

LEMMA StartAnsweredControl ==
    ASSUME IInv, CInv, StartAnswered
    PROVE  CInv'
    <1>1. UNCHANGED <<lldb, link, hook>>
        BY DEF StartAnswered, world
    <1>2. /\ watcher.at \in {"initialize", "attach", "setBreakpoints", "configurationDone",
                             "continue"}
          /\ asked[Watcher].kind = "answer"
        BY PhaseAfter DEF StartAnswered
    <1>3. asked[Watcher] # Waiting
        BY <1>2 DEF Waiting
    <1>4. watcher'.at = NextPhase(watcher.at) /\ watcher'.process = watcher.process
        <2>1. watcher.at # "asleep"
            BY <1>2
        <2> QED
            BY <1>2, <2>1, PhasesOnly, Gone DEF StartAnswered, IInv
    <1>5. (\A h \in Hooks : asked'[h] = asked[h]) /\ asked'[Watcher] = Unasked
        BY AskersAre DEF StartAnswered, IInv, TypeOK
    <1>6. ASSUME NEW p \in Processes
          PROVE  /\ Open(p) => ~HasFrom(Watcher, Inbox(p)) /\ ~HasFor(Watcher, Wire(p))
                 /\ Begins(p)' => Begins(p)
                 /\ Open(p) /\ LetRun(p)' => LetRun(p)
        <2>1. Open(p) => ~HasFrom(Watcher, Inbox(p)) /\ ~HasFor(Watcher, Wire(p))
            BY <1>2, <1>3, WatcherIsDone
        <2>2. Begins(p)' => Begins(p)
            BY <1>2, <1>4, PhaseAfter DEF Begins, Starting
        <2>3. ASSUME Open(p), LetRun(p)'
              PROVE  LetRun(p)
            <3>1. ~HasAnswer(Watcher, Wire(p)')
                BY <1>1, <2>1, <2>3 DEF HasAnswer, HasFor, Wire
            <3>2. asked'[Watcher].kind # "answer"
                BY <1>5 DEF Unasked
            <3>3. watcher.at = "continue"
                BY <1>2, <1>4, <2>3, <3>1, <3>2, PhaseAfter DEF LetRun
            <3> QED
                BY <1>2, <1>4, <2>3, <3>3 DEF LetRun, Starting
        <2> QED
            BY <2>1, <2>2, <2>3
    <1> QED
        BY <1>1, <1>5, <1>6, WatcherMoves

LEMMA StartGivesUpControl ==
    ASSUME IInv, CInv, StartGivesUp
    PROVE  CInv'
    <1>1. UNCHANGED <<lldb, link, hook>>
        BY DEF StartGivesUp, world
    <1>2. watcher.at # "asleep" /\ watcher.at # "close"
        BY PhaseAfter DEF StartGivesUp
    <1>3. watcher'.at = "close" /\ watcher'.process = watcher.process
        BY <1>2, Gone DEF StartGivesUp, IInv
    <1>4. (\A h \in Hooks : asked'[h] = asked[h]) /\ asked'[Watcher] = Unasked
        BY AskersAre DEF StartGivesUp, IInv, TypeOK
    <1>5. ASSUME NEW p \in Processes
          PROVE  /\ Open(p) /\ (HasFrom(Watcher, Inbox(p)) \/ HasFor(Watcher, Wire(p))) =>
                        watcher'.process = p
                 /\ ~Begins(p)' /\ ~LetRun(p)'
        <2>1. Open(p) /\ (HasFrom(Watcher, Inbox(p)) \/ HasFor(Watcher, Wire(p))) =>
                  watcher.process = p
            BY AskersAre DEF CInv, Correspondence, Waits
        <2> QED
            BY <1>3, <2>1 DEF Begins, LetRun
    <1> QED
        BY <1>1, <1>3, <1>4, <1>5, WatcherMoves

\* Past its requests it asks for nothing.
LEMMA WatcherGoesOn ==
    ASSUME IInv, CInv, UNCHANGED <<lldb, link, asked, hook>>,
           watcher.at \in {"register", "insert", "drain", "mark", "forget"},
           \/ watcher' = Asleep
           \/ /\ watcher.at # "forget" /\ watcher'.at \in {"insert", "drain", "mark"}
              /\ watcher'.process = watcher.process
    PROVE  CInv'
    <1>1. asked[Watcher] = Unasked
        BY PhaseAfter DEF CInv, Asking
    <1>2. asked[Watcher] # Waiting
        BY <1>1 DEF Unasked, Waiting
    <1>3. \A p \in Processes :
              /\ Open(p) => ~HasFrom(Watcher, Inbox(p)) /\ ~HasFor(Watcher, Wire(p))
              /\ ~Begins(p)'
        BY <1>2, WatcherIsDone DEF Begins, Asleep
    <1>4. ASSUME NEW p \in Processes, LetRun(p)'
          PROVE  LetRun(p)
        <2>1. p # None
            BY WatcherIsNoProcess
        <2>2. watcher' # Asleep
            BY <1>4, <2>1 DEF LetRun, Starting, Asleep
        <2> QED
            BY <1>4, <2>2 DEF LetRun, Starting
    <1> QED
        BY <1>1, <1>3, <1>4, WatcherMoves

LEMMA StartRegistersControl ==
    ASSUME IInv, CInv, StartRegisters
    PROVE  CInv'
    <1>1. watcher.at = "register" /\ UNCHANGED <<lldb, link, asked, hook>>
        BY DEF StartRegisters, world
    <1>2. watcher'.at = "insert" /\ watcher'.process = watcher.process
        BY <1>1, Gone DEF StartRegisters, IInv
    <1> QED
        BY <1>1, <1>2, WatcherGoesOn

LEMMA StartDrainsControl ==
    ASSUME IInv, CInv, StartDrains
    PROVE  CInv'
    <1>1. watcher.at = "drain" /\ UNCHANGED <<lldb, link, asked, hook>>
        BY DEF StartDrains, world
    <1>2. watcher \in Starts
        BY <1>1, StartIsOf DEF IInv
    <1>3. \/ watcher' = Asleep
          \/ watcher' = [watcher EXCEPT !.at = "mark"]
          \/ watcher' = [watcher EXCEPT !.buffer = Tail(@)]
        BY Zenon DEF StartDrains
    <1>4. \/ watcher' = Asleep
          \/ watcher'.at \in {"insert", "drain", "mark"} /\ watcher'.process = watcher.process
        BY <1>1, <1>2, <1>3 DEF Starts
    <1> QED
        BY <1>1, <1>4, WatcherGoesOn

LEMMA StartMarksControl ==
    ASSUME IInv, CInv, StartMarks
    PROVE  CInv'
    BY WatcherGoesOn DEF StartMarks

LEMMA StartForgetsControl ==
    ASSUME IInv, CInv, StartForgets
    PROVE  CInv'
    BY WatcherGoesOn DEF StartForgets, world

\* Connections are closed.
LEMMA HangsControl ==
    ASSUME IInv, CInv, NEW P \in SUBSET Processes, Hangs(P), UNCHANGED <<asked, hook>>,
           \/ watcher' = watcher
           \/ /\ watcher.at \in {"insert", "close"} /\ watcher.process \in P
              /\ watcher'.at \in {"asleep", "forget"}
    PROVE  CInv'
    <1>1. /\ \A q \in P : /\ link'[q].conn = "closed" /\ lldb'[q].state = "none"
                           /\ Inbox(q)' = <<>> /\ Wire(q)' = <<>>
          /\ \A q \in Processes \ P :
                 /\ link'[q].conn = link[q].conn /\ lldb'[q].state = lldb[q].state
                 /\ Inbox(q)' = Inbox(q) /\ Wire(q)' = Wire(q)
        BY Hanging DEF IInv, Inbox, Wire
    <1>2. CASE watcher' = watcher
        <2>1. Correspondence'
            BY <1>1, <1>2 DEF CInv, Correspondence, Open, Waits, InPhase
        <2>2. Asking' /\ Purposes'
            BY <1>1, <1>2 DEF CInv, Asking, Purposes, Purpose, InPhase, Open
        <2>3. Endings'
            BY <1>1, <1>2, NoMessage DEF CInv, Endings, Begins, Starting, Open
        <2>4. Control'
            BY <1>1, <1>2 DEF CInv, Control, LetRun, Starting, Open
        <2> QED
            BY <2>1, <2>2, <2>3, <2>4 DEF CInv
    <1>3. CASE /\ watcher.at \in {"insert", "close"} /\ watcher.process \in P
               /\ watcher'.at \in {"asleep", "forget"}
        <2>1. asked[Watcher] = Unasked /\ ~InPhase
            BY <1>3, PhaseAfter DEF CInv, Asking
        <2>2. \A q \in Processes \ P :
                  Open(q) => ~HasFrom(Watcher, Inbox(q)) /\ ~HasFor(Watcher, Wire(q))
            BY <1>3, <2>1, AskersAre DEF CInv, Correspondence, Waits, Unasked, Waiting
        <2>3. Correspondence'
            <3> SUFFICES ASSUME NEW q \in Processes, NEW w \in Askers, Open(q)'
                         PROVE  /\ OneFrom(w, Inbox(q)') /\ OneFor(w, Wire(q)')
                                /\ ~(HasFrom(w, Inbox(q)') /\ HasFor(w, Wire(q)'))
                                /\ HasFrom(w, Inbox(q)') \/ HasFor(w, Wire(q)') =>
                                       \/ Waits(w, q)'
                                       \/ w = Watcher /\ watcher'.process = q /\ watcher'.at = "close"
                BY DEF Correspondence
            <3>1. q \in Processes \ P /\ Open(q)
                BY <1>1 DEF Open
            <3>2. w # Watcher => (Waits(w, q)' <=> Waits(w, q))
                BY DEF Waits
            <3> QED
                BY <1>1, <2>2, <3>1, <3>2 DEF CInv, Correspondence
        <2>4. Asking'
            BY <2>1 DEF CInv, Asking
        <2>5. Purposes'
            <3> SUFFICES ASSUME NEW q \in Processes \ P, NEW i \in 1..Len(Inbox(q))
                         PROVE  /\ Inbox(q)[i].kind = "attach" => Inbox(q)[i].who = Watcher
                                /\ Open(q) => Purpose(Inbox(q)[i])'
                BY <1>1 DEF Purposes, Open, Inbox, Purpose
            <3>1. Inbox(q)[i].who = Watcher => HasFrom(Watcher, Inbox(q))
                BY DEF HasFrom
            <3>2. lldb'[q].inbox = lldb[q].inbox
                BY <1>1 DEF Inbox
            <3> QED
                BY <2>2, <3>1, <3>2 DEF CInv, Purposes, Purpose, Inbox
        <2>6. Endings'
            BY <1>1, <1>3, NoMessage DEF CInv, Endings, Begins, Open
        <2>7. Control'
            BY <1>3 DEF CInv, Control, LetRun
        <2> QED
            BY <2>3, <2>4, <2>5, <2>6, <2>7 DEF CInv
    <1> QED
        BY <1>2, <1>3

LEMMA StartInsertsControl ==
    ASSUME IInv, CInv, StartInserts
    PROVE  CInv'
    <1>1. watcher.at = "insert" /\ watcher.process \in Processes /\ UNCHANGED <<asked, hook>>
        BY StartIsOf DEF StartInserts, IInv
    <1>2. CASE Hangs({watcher.process}) /\ watcher' = Asleep
        BY <1>1, <1>2, HangsControl DEF Asleep
    <1>3. CASE Goes("drain") /\ UNCHANGED <<link, lldb>>
        <2>1. watcher'.at = "drain" /\ watcher'.process = watcher.process
            BY <1>1, <1>3, Gone DEF IInv
        <2> QED
            BY <1>1, <1>3, <2>1, WatcherGoesOn
    <1> QED
        BY <1>2, <1>3, Zenon DEF StartInserts

LEMMA StartClosesControl ==
    ASSUME IInv, CInv, StartCloses
    PROVE  CInv'
    <1>1. /\ watcher.at = "close" /\ watcher.process \in Processes /\ UNCHANGED <<asked, hook>>
          /\ Hangs({watcher.process})
        BY StartIsOf DEF StartCloses, IInv
    <1>2. watcher'.at = "forget"
        BY <1>1, Gone DEF StartCloses, IInv
    <1> QED
        BY <1>1, <1>2, HangsControl

LEMMA HandlesCloseControl ==
    ASSUME IInv, CInv, NEW a \in Handlers, HandlesClose(a)
    PROVE  CInv'
    <1>1. call[a].process \in Processes
        BY Busy DEF HandlesClose, At, IInv
    <1> QED
        BY <1>1, HangsControl DEF HandlesClose

LEMMA CloserClosesControl ==
    ASSUME IInv, CInv, NEW p \in Processes, CloserCloses(p)
    PROVE  CInv'
    BY HangsControl DEF CloserCloses

LEMMA LldbCrashesControl ==
    ASSUME IInv, CInv, NEW p \in Processes, LldbCrashes(p)
    PROVE  CInv'
    <1> DEFINE e == Event("eof", None, 0)
               t == <<e>>
    <1>1. UNCHANGED <<asked, watcher, hook>> /\ Open(p) /\ lldb[p].state # "none"
        BY DEF LldbCrashes, Open
    <1>2. e \in Events /\ e.kind = "eof"
        BY DEF Event, Events
    <1>3. /\ t \in Seq(Events \cup Replies) /\ HasKind("eof", t)
          /\ \A w : ~HasFor(w, t) /\ ~HasAnswer(w, t)
        <2> HIDE DEF e
        <2> QED
            BY <1>2, OneMessage DEF IsFor
    <1>4. Sends(p, t)
        BY DEF LldbCrashes
    <1> HIDE DEF e, t
    <1>5. /\ \A q \in Processes : /\ link'[q].conn = link[q].conn
                                  /\ q # p => Wire(q)' = Wire(q)
          /\ Wire(p)' = Wire(p) \o t /\ Wire(p) \in Seq(Events \cup Replies)
        BY <1>3, <1>4, Sending, Boxes DEF IInv
    <1>6. /\ \A w : /\ HasFor(w, Wire(p)') <=> HasFor(w, Wire(p))
                    /\ HasAnswer(w, Wire(p)') <=> HasAnswer(w, Wire(p))
                    /\ OneFor(w, Wire(p)) => OneFor(w, Wire(p)')
          /\ HasKind("eof", Wire(p)')
        BY <1>3, <1>5, Joined
    <1>7. /\ \A q \in Processes : q # p => lldb'[q] = lldb[q] /\ Inbox(q)' = Inbox(q)
          /\ lldb'[p].state = "none" /\ Inbox(p)' = <<>>
        <2>1. lldb \in [Processes -> Engines]
            BY DEF IInv, TypeOK
        <2> DEFINE f == [lldb[p] EXCEPT !.state = "none", !.inbox = <<>>]
        <2>2. lldb' = [lldb EXCEPT ![p] = f]
            BY DEF LldbCrashes
        <2>3. f.state = "none" /\ f.inbox = <<>>
            BY <2>1 DEF Engines
        <2> HIDE DEF f
        <2> QED
            BY <2>1, <2>2, <2>3 DEF Inbox
    <1>8. Correspondence'
        <2> SUFFICES ASSUME NEW q \in Processes, NEW w \in Askers, Open(q)'
                     PROVE  /\ OneFrom(w, Inbox(q)') /\ OneFor(w, Wire(q)')
                            /\ ~(HasFrom(w, Inbox(q)') /\ HasFor(w, Wire(q)'))
                            /\ HasFrom(w, Inbox(q)') \/ HasFor(w, Wire(q)') =>
                                   \/ Waits(w, q)'
                                   \/ w = Watcher /\ watcher'.process = q /\ watcher'.at = "close"
            BY DEF Correspondence
        <2>1. Open(q) /\ (Waits(w, q)' <=> Waits(w, q))
            BY <1>1, <1>5 DEF Open, Waits, InPhase
        <2>2. CASE q # p
            BY <1>1, <1>5, <1>7, <2>1, <2>2 DEF CInv, Correspondence
        <2>3. CASE q = p
            BY <1>1, <1>6, <1>7, <2>1, <2>3, NoMessage DEF CInv, Correspondence
        <2> QED
            BY <2>2, <2>3
    <1>9. Asking'
        BY <1>1 DEF CInv, Asking, InPhase
    <1>10. Purposes'
        <2> SUFFICES ASSUME NEW q \in Processes, NEW i \in 1..Len(Inbox(q)'), q # p
                     PROVE  (/\ Inbox(q)[i].kind = "attach" => Inbox(q)[i].who = Watcher
                             /\ Open(q) => Purpose(Inbox(q)[i]))'
            BY <1>7 DEF Purposes
        <2> DEFINE r == Inbox(q)[i]
        <2>1. r' = r /\ i \in 1..Len(Inbox(q))
            BY <1>7
        <2>2. (Open(q)' <=> Open(q)) /\ (Purpose(r)' <=> Purpose(r))
            BY <1>1, <1>5, <2>1 DEF Open, Purpose
        <2>3. /\ r.kind = "attach" => r.who = Watcher
              /\ Open(q) => Purpose(r)
            BY <2>1 DEF CInv, Purposes
        <2> HIDE DEF r
        <2>4. (/\ r.kind = "attach" => r.who = Watcher
               /\ Open(q) => Purpose(r))'
            BY <2>1, <2>2, <2>3
        <2> QED
            BY <2>4 DEF r
    <1>11. Endings'
        <2>1. ~Begins(p)
            BY <1>1 DEF CInv, Endings
        <2>2. \A q \in Processes : Begins(q)' <=> Begins(q)
            BY <1>1 DEF Begins, Starting
        <2> QED
            BY <1>1, <1>5, <1>6, <1>7, <2>1, <2>2, NoMessage DEF CInv, Endings, Open
    <1>12. Control'
        BY <1>1, <1>5, <1>6, <1>7 DEF CInv, Control, LetRun, Starting, Open
    <1> QED
        BY <1>8, <1>9, <1>10, <1>11, <1>12 DEF CInv

LEMMA StartBeginsControl ==
    ASSUME IInv, CInv, NEW p \in Processes, StartBegins(p)
    PROVE  CInv'
    <1>1. UNCHANGED <<lldb, asked, hook, call>> /\ watcher = Asleep
        BY DEF StartBegins, world
    <1>2. watcher'.at = "initialize" /\ watcher'.process = p
        BY DEF StartBegins
    <1>3. link[p].conn \in {"none", "closed"}
        <2>1. ~Opens(p)
            BY <1>1, WatcherIsNoProcess DEF Opens, Asleep
        <2>2. p \notin sessions \cup retired /\ closing = {}
            BY DEF StartBegins, IInv, Charge
        <2>3. ASSUME NEW a \in Handlers, Closes(a, p) PROVE FALSE
            BY <2>2, <2>3 DEF Closes, IInv, Walk
        <2>4. link[p].conn \notin {"open", "ended"}
            BY <2>1, <2>2, <2>3 DEF IInv, Charge
        <2> QED
            BY <2>4, Boxes DEF IInv
    <1>4. lldb[p].state = "none" /\ Inbox(p) = <<>>
        BY <1>3 DEF CInv, Endings, Open
    <1>5. /\ \A q \in Processes : /\ Inbox(q)' = Inbox(q)
                                  /\ q # p => Wire(q)' = Wire(q) /\ link'[q].conn = link[q].conn
          /\ Wire(p)' = <<>> /\ link'[p].conn = "open"
        <2>1. link \in [Processes -> Links]
            BY DEF IInv, TypeOK
        <2>2. link' = [link EXCEPT ![p] = [conn |-> "open", wire |-> <<>>]]
            BY DEF StartBegins
        <2> QED
            BY <1>1, <2>1, <2>2 DEF Inbox, Wire
    <1>6. ~InPhase /\ watcher.at # "close" /\ asked[Watcher] = Unasked
        BY <1>1, PhaseAfter DEF Asleep, CInv, Asking
    <1>7. Correspondence'
        <2> SUFFICES ASSUME NEW q \in Processes, NEW w \in Askers, Open(q)'
                     PROVE  /\ OneFrom(w, Inbox(q)') /\ OneFor(w, Wire(q)')
                            /\ ~(HasFrom(w, Inbox(q)') /\ HasFor(w, Wire(q)'))
                            /\ HasFrom(w, Inbox(q)') \/ HasFor(w, Wire(q)') =>
                                   \/ Waits(w, q)'
                                   \/ w = Watcher /\ watcher'.process = q /\ watcher'.at = "close"
            BY DEF Correspondence
        <2>1. CASE q = p
            BY <1>4, <1>5, <2>1, NoMessage
        <2>2. CASE q # p
            <3>1. Open(q) /\ (w # Watcher => (Waits(w, q)' <=> Waits(w, q)))
                BY <1>1, <1>5, <2>2 DEF Open, Waits
            <3>2. ~Waits(Watcher, q)
                BY <1>6 DEF Waits
            <3> QED
                BY <1>5, <1>6, <2>2, <3>1, <3>2 DEF CInv, Correspondence
        <2> QED
            BY <2>1, <2>2
    <1>8. Asking'
        BY <1>1, <1>6 DEF CInv, Asking
    <1>9. Purposes'
        <2> SUFFICES ASSUME NEW q \in Processes, NEW i \in 1..Len(Inbox(q)), q # p
                     PROVE  /\ Inbox(q)[i].kind = "attach" => Inbox(q)[i].who = Watcher
                            /\ Open(q) => Purpose(Inbox(q)[i])'
            BY <1>1, <1>4, <1>5 DEF Purposes, Open, Inbox, Purpose
        <2>1. /\ Inbox(q)[i].kind = "attach" => Inbox(q)[i].who = Watcher
              /\ Open(q) => Purpose(Inbox(q)[i])
            BY DEF CInv, Purposes
        <2>2. Open(q) => Inbox(q)[i].who # Watcher
            <3>1. Inbox(q)[i].who = Watcher => HasFrom(Watcher, Inbox(q))
                BY DEF HasFrom
            <3> QED
                BY <1>6, <3>1, AskersAre DEF CInv, Correspondence, Waits
        <2> QED
            BY <1>1, <2>1, <2>2 DEF Purpose, Inbox
    <1>10. Endings'
        <2>1. \A q \in Processes : q # p => ~Begins(q)'
            BY <1>2 DEF Begins, Starting
        <2> QED
            BY <1>1, <1>4, <1>5, <2>1, NoMessage DEF CInv, Endings, Open
    <1>11. Control'
        BY <1>2 DEF Control, LetRun
    <1> QED
        BY <1>7, <1>8, <1>9, <1>10, <1>11 DEF CInv

\* A request is put to an engine by a thread that has none there.
LEMMA AsksControl ==
    ASSUME IInv, CInv, NEW who \in Askers, NEW p \in Processes,
           NEW kind \in Kinds, NEW t \in Threads \cup {None}, Asks(who, p, kind, t),
           asked[who] = Unasked, UNCHANGED <<link, watcher>>,
           \A h \in Hooks : h # who => hook'[h] = hook[h],
           IF who = Watcher THEN InPhase /\ watcher.process = p /\ kind = watcher.at
           ELSE /\ kind # "attach"
                /\ hook'[who] # Free /\ hook'[who].at = kind /\ hook'[who].process = p
    PROVE  CInv'
    <1> DEFINE r == [kind |-> kind, who |-> who, thread |-> t]
    <1>1. r \in Requests /\ r.kind = kind /\ r.who = who
        BY DEF Requests, Kinds
    <1>2. /\ \A q \in Processes : /\ lldb'[q].state = lldb[q].state
                                  /\ Wire(q)' = Wire(q) /\ link'[q].conn = link[q].conn
                                  /\ q # p => Inbox(q)' = Inbox(q)
          /\ Inbox(p)' = Append(Inbox(p), r) /\ Inbox(p) \in Seq(Requests) /\ Open(p)
        <2>1. lldb \in [Processes -> Engines]
            BY DEF IInv, TypeOK
        <2> DEFINE e == [lldb[p] EXCEPT !.inbox = Append(lldb[p].inbox, r)]
        <2>2. lldb' = [lldb EXCEPT ![p] = e]
            BY DEF Asks
        <2>3. e.inbox = Append(lldb[p].inbox, r) /\ e.state = lldb[p].state
            BY <2>1 DEF Engines
        <2> HIDE DEF e, r
        <2> QED
            BY <2>1, <2>2, <2>3, Boxes DEF Inbox, Wire, IInv, Asks, Open
    <1> HIDE DEF r
    <1>3. /\ asked'[who] = Waiting /\ \A w \in Askers : w # who => asked'[w] = asked[w]
        BY DEF Asks, IInv, TypeOK
    <1>4. /\ \A w : /\ HasFrom(w, Inbox(p)') <=> HasFrom(w, Inbox(p)) \/ who = w
                    /\ OneFrom(w, Inbox(p)) /\ ~HasFrom(w, Inbox(p)) => OneFrom(w, Inbox(p)')
                    /\ OneFrom(w, Inbox(p)) /\ who # w => OneFrom(w, Inbox(p)')
          /\ HasKind("attach", Inbox(p)') <=> HasKind("attach", Inbox(p)) \/ kind = "attach"
          /\ \A i \in 1..Len(Inbox(p)') :
                 \/ i \in 1..Len(Inbox(p)) /\ (Inbox(p)[i])' = Inbox(p)[i]
                 \/ (Inbox(p)[i])' = r
        BY <1>1, <1>2, AppendedTo
    <1>5. asked[who] # Waiting /\ (who = Watcher => watcher.at # "close")
        BY PhaseAfter DEF Unasked, Waiting
    <1>6. \A q \in Processes : Open(q) => ~HasFrom(who, Inbox(q)) /\ ~HasFor(who, Wire(q))
        BY <1>5 DEF CInv, Correspondence, Waits
    <1>7. Waits(who, p)'
        BY <1>3, AskersAre DEF Waits, InPhase
    <1>8. Correspondence'
        <2> SUFFICES ASSUME NEW q \in Processes, NEW w \in Askers, Open(q)'
                     PROVE  /\ OneFrom(w, Inbox(q)') /\ OneFor(w, Wire(q)')
                            /\ ~(HasFrom(w, Inbox(q)') /\ HasFor(w, Wire(q)'))
                            /\ HasFrom(w, Inbox(q)') \/ HasFor(w, Wire(q)') =>
                                   \/ Waits(w, q)'
                                   \/ w = Watcher /\ watcher'.process = q /\ watcher'.at = "close"
            BY DEF Correspondence
        <2>1. Open(q) /\ Wire(q)' = Wire(q)
            BY <1>2 DEF Open
        <2>2. w # who => (Waits(w, q)' <=> Waits(w, q))
            BY <1>3, AskersAre DEF Waits, InPhase
        <2>3. /\ OneFrom(w, Inbox(q)) /\ OneFor(w, Wire(q))
              /\ ~(HasFrom(w, Inbox(q)) /\ HasFor(w, Wire(q)))
              /\ HasFrom(w, Inbox(q)) \/ HasFor(w, Wire(q)) =>
                     \/ Waits(w, q)
                     \/ w = Watcher /\ watcher.process = q /\ watcher.at = "close"
            BY <2>1 DEF CInv, Correspondence
        <2>4. CASE q # p
            BY <1>2, <1>6, <2>1, <2>2, <2>3, <2>4
        <2>5. CASE q = p
            BY <1>4, <1>6, <1>7, <2>1, <2>2, <2>3, <2>5
        <2> QED
            BY <2>4, <2>5
    <1>9. Asking'
        <2>1. asked'[who] # Unasked
            BY <1>3 DEF Unasked, Waiting
        <2> QED
            BY <1>3, <2>1, AskersAre DEF CInv, Asking, InPhase
    <1>10. Purposes'
        <2> SUFFICES ASSUME NEW q \in Processes, NEW i \in 1..Len(Inbox(q)')
                     PROVE  (/\ Inbox(q)[i].kind = "attach" => Inbox(q)[i].who = Watcher
                             /\ Open(q) => Purpose(Inbox(q)[i]))'
            BY DEF Purposes
        <2>1. CASE i \in 1..Len(Inbox(q)) /\ (Inbox(q)[i])' = Inbox(q)[i]
            <3>1. /\ Inbox(q)[i].kind = "attach" => Inbox(q)[i].who = Watcher
                  /\ Open(q) => Purpose(Inbox(q)[i])
                BY <2>1 DEF CInv, Purposes
            <3>2. Open(q)' => Open(q)
                BY <1>2 DEF Open
            <3>3. Open(q) => Inbox(q)[i].who # who
                BY <1>6, <2>1 DEF HasFrom
            <3>4. Inbox(q)[i].who \in Askers
                <4>1. Inbox(q) \in Seq(Requests)
                    BY Boxes DEF IInv
                <4>2. Inbox(q)[i] \in Requests
                    BY <2>1, <4>1
                <4> QED
                    BY <4>2 DEF Requests
            <3> QED
                BY <2>1, <3>1, <3>2, <3>3, <3>4, AskersAre DEF Purpose
        <2>2. CASE q = p /\ (Inbox(q)[i])' = r
            BY <1>1, <2>2 DEF Purpose
        <2> QED
            BY <1>2, <1>4, <2>1, <2>2
    <1>11. Endings'
        <2> SUFFICES ASSUME NEW q \in Processes
                     PROVE  /\ ~Open(q)' \/ HasKind("eof", Wire(q)') \/ Begins(q)' =>
                                   lldb'[q].state = "none" /\ ~HasKind("attach", Inbox(q)')
                            /\ Begins(q)' => ~HasKind("eof", Wire(q)')
                            /\ link'[q].conn \in {"none", "closed"} => Inbox(q)' = <<>>
            BY DEF Endings
        <2>1. /\ ~Open(q) \/ HasKind("eof", Wire(q)) \/ Begins(q) =>
                     lldb[q].state = "none" /\ ~HasKind("attach", Inbox(q))
              /\ Begins(q) => ~HasKind("eof", Wire(q))
              /\ link[q].conn \in {"none", "closed"} => Inbox(q) = <<>>
            BY DEF CInv, Endings
        <2>2. Open(q)' <=> Open(q)
            BY <1>2 DEF Open
        <2>3. Begins(q)' => Begins(q)
            BY <1>3, AskersAre DEF Begins, Starting
        <2>4. CASE q # p
            BY <1>2, <2>1, <2>2, <2>3, <2>4
        <2>5. CASE q = p
            <3>1. link[p].conn = "open"
                BY <1>2 DEF Open
            <3>2. kind = "attach" => Begins(p) /\ ~Begins(p)'
                <4>1. asked'[who] # Unasked
                    BY <1>3 DEF Unasked, Waiting
                <4> QED
                    BY <4>1, AskersAre DEF Begins, Starting
            <3> QED
                BY <1>2, <1>4, <2>1, <2>2, <2>3, <2>5, <3>1, <3>2
        <2> QED
            BY <2>4, <2>5
    <1>12. Control'
        <2>1. \A q \in Processes : LetRun(q)' => LetRun(q)
            <3>1. who = Watcher => asked'[who].kind # "answer"
                BY <1>3 DEF Waiting
            <3> QED
                BY <1>2, <1>3, <3>1, AskersAre DEF LetRun, Starting
        <2> QED
            BY <1>2, <2>1 DEF CInv, Control, Open
    <1> QED
        BY <1>8, <1>9, <1>10, <1>11, <1>12 DEF CInv

LEMMA StartAsksControl ==
    ASSUME IInv, CInv, StartAsks
    PROVE  CInv'
    <1>1. watcher.process \in Processes /\ watcher.at \in Kinds
        BY StartIsOf, PhasesOnly DEF StartAsks, InPhase, IInv, Kinds
    <1> QED
        BY <1>1, AskersAre, AsksControl DEF StartAsks

LEMMA HookAsksControl ==
    ASSUME IInv, CInv, NEW h \in Hooks, NEW p \in Processes, NEW t \in Threads,
           NEW kind \in {"stackTrace", "inspect", "continue"}, HookAsks(h, p, t, kind)
    PROVE  CInv'
    <1>1. kind \in Kinds /\ kind # "attach"
        BY PhasesOnly DEF Kinds
    <1>2. asked[h] = Unasked /\ Asks(h, p, kind, t) /\ UNCHANGED <<link, watcher>>
        BY DEF HookAsks, CInv, Asking
    <1>3. /\ hook'[h] = [at |-> kind, process |-> p, thread |-> t]
          /\ \A g \in Hooks : g # h => hook'[g] = hook[g]
        BY DEF HookAsks, IInv, TypeOK
    <1>4. hook'[h] # Free /\ hook'[h].at = kind /\ hook'[h].process = p
        BY <1>3 DEF Free
    <1> QED
        BY <1>1, <1>2, <1>3, <1>4, AskersAre, AsksControl

\* A thread of the editor's is done with its request.
LEMMA HookEndsControl ==
    ASSUME IInv, CInv, NEW h \in Hooks, HookEnds(h), UNCHANGED <<lldb, link, watcher>>,
           asked[h] # Waiting \/ ~Open(hook[h].process)
    PROVE  CInv'
    <1>1. /\ asked'[h] = Unasked /\ hook'[h] = Free
          /\ \A w \in Askers : w # h => asked'[w] = asked[w]
          /\ \A g \in Hooks : g # h => hook'[g] = hook[g]
        BY AskersAre DEF HookEnds, IInv, TypeOK
    <1>2. \A q \in Processes : Open(q) => ~HasFrom(h, Inbox(q)) /\ ~HasFor(h, Wire(q))
        BY AskersAre DEF CInv, Correspondence, Waits
    <1>3. \A q \in Processes : /\ Inbox(q)' = Inbox(q) /\ Wire(q)' = Wire(q)
                               /\ link'[q].conn = link[q].conn /\ lldb'[q].state = lldb[q].state
        BY DEF Inbox, Wire
    <1>4. Correspondence'
        <2> SUFFICES ASSUME NEW q \in Processes, NEW w \in Askers, Open(q)'
                     PROVE  /\ OneFrom(w, Inbox(q)') /\ OneFor(w, Wire(q)')
                            /\ ~(HasFrom(w, Inbox(q)') /\ HasFor(w, Wire(q)'))
                            /\ HasFrom(w, Inbox(q)') \/ HasFor(w, Wire(q)') =>
                                   \/ Waits(w, q)'
                                   \/ w = Watcher /\ watcher'.process = q /\ watcher'.at = "close"
            BY DEF Correspondence
        <2>1. Open(q) /\ (w # h => (Waits(w, q)' <=> Waits(w, q)))
            BY <1>1, <1>3, AskersAre DEF Open, Waits, InPhase
        <2> QED
            BY <1>2, <1>3, <2>1 DEF CInv, Correspondence
    <1>5. Asking'
        BY <1>1, AskersAre DEF CInv, Asking, InPhase
    <1>6. Purposes'
        <2> SUFFICES ASSUME NEW q \in Processes, NEW i \in 1..Len(Inbox(q))
                     PROVE  /\ Inbox(q)[i].kind = "attach" => Inbox(q)[i].who = Watcher
                            /\ Open(q) => Purpose(Inbox(q)[i])'
            BY <1>3 DEF Purposes, Open, Inbox, Purpose
        <2>1. /\ Inbox(q)[i].kind = "attach" => Inbox(q)[i].who = Watcher
              /\ Open(q) => Purpose(Inbox(q)[i])
            BY DEF CInv, Purposes
        <2>2. Open(q) => Inbox(q)[i].who # h
            BY <1>2 DEF HasFrom
        <2>3. Inbox(q)[i].who \in Askers
            <3>1. Inbox(q) \in Seq(Requests)
                BY Boxes DEF IInv
            <3>2. Inbox(q)[i] \in Requests
                BY <3>1
            <3> QED
                BY <3>2 DEF Requests
        <2> QED
            BY <1>1, <2>1, <2>2, <2>3, AskersAre DEF Purpose, Inbox
    <1>7. Endings'
        BY <1>1, <1>3, AskersAre DEF CInv, Endings, Begins, Starting, Open
    <1>8. Control'
        BY <1>1, <1>3, AskersAre DEF CInv, Control, LetRun, Starting, Open
    <1> QED
        BY <1>4, <1>5, <1>6, <1>7, <1>8 DEF CInv

LEMMA HookControl ==
    ASSUME IInv, CInv, NEW h \in Hooks, HookStep(h)
    PROVE  CInv'
    <1>1. HookEnds(h) /\ UNCHANGED <<lldb, link, watcher>>
        BY DEF HookStep, HookShowsStack, HookShowsVariable, HookResumed, HookRefused, HookTimesOut,
               world
    <1>2. asked[h].kind \in {"answer", "refusal"} \/ ~Open(hook[h].process)
        BY DEF HookStep, HookShowsStack, HookShowsVariable, HookResumed, HookRefused, HookTimesOut,
               Open
    <1>3. asked[h] # Waiting \/ ~Open(hook[h].process)
        BY <1>2 DEF Waiting
    <1> QED
        BY <1>1, <1>3, HookEndsControl

LEMMA EditorAsksControl ==
    ASSUME IInv, CInv, NEW h \in Hooks, EditorAsks(h)
    PROVE  CInv'
    <1>1. ASSUME NEW p \in Processes, NEW t \in Threads, EditorAsksStack(h, p, t)
          PROVE  CInv'
        BY <1>1, HookAsksControl DEF EditorAsksStack
    <1>2. ASSUME NEW p \in Processes, NEW t \in Threads, EditorResumes(h, p, t)
          PROVE  CInv'
        BY <1>2, HookAsksControl DEF EditorResumes
    <1>3. ASSUME NEW table \in {frames, variables}, EditorInspects(h, table.routes)
          PROVE  CInv'
        <2>1. PICK id \in DOMAIN table.routes :
                  HookAsks(h, table.routes[id].process, table.routes[id].thread, "inspect")
            BY <1>3 DEF EditorInspects
        <2>2. table.routes[id] \in Keys
            BY DEF IInv, TypeOK, IsTable
        <2>3. table.routes[id].process \in Processes /\ table.routes[id].thread \in Threads
            BY <2>2 DEF Keys
        <2> QED
            BY <2>1, <2>3, HookAsksControl
    <1> QED
        BY <1>1, <1>2, <1>3 DEF EditorAsks

\* A connection's reader takes a message that is no reply, or a reply nobody waits for.
LEMMA ReadsReplyControl ==
    ASSUME IInv, CInv, NEW p \in Processes, ReaderReads(p),
           Head(Wire(p)).kind \in {"answer", "refusal"}
    PROVE  CInv'
    <1> DEFINE m == Head(Wire(p))
    <1>1. UNCHANGED <<lldb, watcher, hook>> /\ Open(p) /\ Wire(p) # <<>>
        BY DEF ReaderReads, world, Open, Wire
    <1>2. /\ asked' = IF m.who # None /\ asked[m.who] = Waiting
                      THEN [asked EXCEPT ![m.who] = m] ELSE asked
          /\ link' = [link EXCEPT ![p].wire = Tail(@)]
        BY DEF ReaderReads, Wire
    <1>3. m \in Replies /\ m.who \in Askers /\ m.kind \in {"answer", "refusal"}
        <2>1. m \in Events \cup Replies
            BY <1>1, Boxes, Remaining DEF IInv
        <2> HIDE DEF m
        <2> QED
            BY <2>1 DEF Events, Replies, m
    <1>4. /\ \A q \in Processes : /\ link'[q].conn = link[q].conn /\ Inbox(q)' = Inbox(q)
                                  /\ q # p => Wire(q)' = Wire(q)
          /\ Wire(p)' = Tail(Wire(p)) /\ Wire(p) \in Seq(Events \cup Replies)
        BY <1>1, <1>2, ReadingOne, Boxes DEF IInv, Inbox
    <1>5. /\ \A w : /\ HasFor(w, Wire(p)') => HasFor(w, Wire(p))
                    /\ IsFor(w, m) => HasFor(w, Wire(p))
                    /\ OneFor(w, Wire(p)) => OneFor(w, Wire(p)')
                    /\ OneFor(w, Wire(p)) /\ IsFor(w, m) => ~HasFor(w, Wire(p)')
                    /\ HasAnswer(w, Wire(p)') => HasAnswer(w, Wire(p))
                    /\ IsFor(w, m) /\ m.kind = "answer" => HasAnswer(w, Wire(p))
          /\ HasKind("eof", Wire(p)') <=> HasKind("eof", Wire(p))
        BY <1>1, <1>3, <1>4, RemainingOf
    <1>6. IsFor(m.who, m)
        BY <1>3 DEF IsFor
    <1> HIDE DEF m
    <1>7. /\ \A w \in Askers : w # m.who \/ asked[w] # Waiting => asked'[w] = asked[w]
          /\ asked'[m.who] \in {m, asked[m.who]}
          /\ m # Unasked /\ Waiting # Unasked /\ m # Waiting
        <2>1. m # Unasked /\ Waiting # Unasked /\ m # Waiting
            BY <1>3 DEF Unasked, Waiting
        <2> QED
            BY <1>2, <1>3, <2>1 DEF IInv, TypeOK
    <1>8. asked[m.who] = Waiting => Waits(m.who, p)
        BY <1>1, <1>3, <1>5, <1>6, PhaseAfter DEF CInv, Correspondence, Asking, Unasked, Waiting
    <1>9. Correspondence'
        <2> SUFFICES ASSUME NEW q \in Processes, NEW w \in Askers, Open(q)'
                     PROVE  /\ OneFrom(w, Inbox(q)') /\ OneFor(w, Wire(q)')
                            /\ ~(HasFrom(w, Inbox(q)') /\ HasFor(w, Wire(q)'))
                            /\ HasFrom(w, Inbox(q)') \/ HasFor(w, Wire(q)') =>
                                   \/ Waits(w, q)'
                                   \/ w = Watcher /\ watcher'.process = q /\ watcher'.at = "close"
            BY DEF Correspondence
        <2>1. /\ OneFrom(w, Inbox(q)) /\ OneFor(w, Wire(q))
              /\ ~(HasFrom(w, Inbox(q)) /\ HasFor(w, Wire(q)))
              /\ HasFrom(w, Inbox(q)) \/ HasFor(w, Wire(q)) =>
                     \/ Waits(w, q)
                     \/ w = Watcher /\ watcher.process = q /\ watcher.at = "close"
            BY <1>4 DEF CInv, Correspondence, Open
        <2>2. w # m.who => (Waits(w, q)' <=> Waits(w, q))
            BY <1>1, <1>7 DEF Waits, InPhase
        <2>3. CASE w # m.who
            BY <1>1, <1>4, <1>5, <2>1, <2>2, <2>3
        <2>4. CASE w = m.who
            <3>1. ~HasFrom(w, Inbox(p)) /\ ~HasFor(w, Wire(p)')
                BY <1>1, <1>3, <1>5, <1>6, <2>4 DEF CInv, Correspondence
            <3>2. asked[w] # Waiting => asked'[w] = asked[w]
                BY <1>7
            <3>3. q # p /\ Waits(w, q) => asked[w] # Waiting
                BY <1>3, <1>8, <2>4 DEF Waits
            <3>4. q # p => (Waits(w, q)' <=> Waits(w, q))
                BY <1>1, <1>7, <3>2, <3>3 DEF Waits, InPhase
            <3> QED
                BY <1>1, <1>4, <1>5, <2>1, <3>1, <3>4
        <2> QED
            BY <2>3, <2>4
    <1>10. Asking'
        BY <1>1, <1>7, AskersAre DEF CInv, Asking, InPhase
    <1>11. Purposes'
        BY <1>1, <1>4 DEF CInv, Purposes, Purpose, Open, Inbox
    <1>12. Endings'
        <2>1. \A q \in Processes : Begins(q)' => Begins(q)
            BY <1>1, <1>7, AskersAre DEF Begins, Starting
        <2> QED
            BY <1>1, <1>4, <1>5, <2>1 DEF CInv, Endings, Open
    <1>13. Control'
        <2> SUFFICES ASSUME NEW q \in Processes, Open(q)', LetRun(q)'
                     PROVE  Open(q) /\ LetRun(q)
            BY <1>1 DEF CInv, Control
        <2>1. Open(q) /\ Starting(q)
            BY <1>1, <1>4 DEF Open, LetRun, Starting
        <2>2. HasAnswer(Watcher, Wire(q)') => HasAnswer(Watcher, Wire(q))
            BY <1>4, <1>5
        <2>3. ASSUME asked'[Watcher].kind = "answer", asked[Watcher].kind # "answer"
              PROVE  HasAnswer(Watcher, Wire(q))
            <3>1. Watcher = m.who /\ asked[Watcher] = Waiting /\ m.kind = "answer"
                BY <1>7, <2>3, AskersAre
            <3>2. q = p
                BY <1>8, <2>1, <3>1 DEF Waits, Starting
            <3> QED
                BY <1>5, <1>6, <3>1, <3>2
        <2> QED
            BY <1>1, <2>1, <2>2, <2>3 DEF LetRun, Starting
    <1> QED
        BY <1>9, <1>10, <1>11, <1>12, <1>13 DEF CInv

LEMMA ReadsEventControl ==
    ASSUME IInv, CInv, NEW p \in Processes, ReaderReads(p),
           Head(Wire(p)).kind \notin {"answer", "refusal", "eof"}
    PROVE  CInv'
    <1> DEFINE m == Head(Wire(p))
    <1>1. UNCHANGED <<lldb, asked, hook>> /\ Open(p) /\ Wire(p) # <<>>
        BY DEF ReaderReads, world, Open, Wire
    <1>2. watcher'.at = watcher.at /\ watcher'.process = watcher.process
        <2>1. \/ watcher' = watcher
              \/ watcher.process = p /\ watcher' = [watcher EXCEPT !.buffer = Append(@, m)]
            BY DEF ReaderReads, ReaderDispatches, Wire
        <2>2. watcher.process = p => watcher \in Starts
            BY StartIsOf DEF IInv
        <2> HIDE DEF m
        <2> QED
            BY <2>1, <2>2 DEF Starts
    <1>3. link' = [link EXCEPT ![p].wire = Tail(@)]
        BY DEF ReaderReads, Wire
    <1>4. /\ \A q \in Processes : /\ link'[q].conn = link[q].conn /\ Inbox(q)' = Inbox(q)
                                  /\ q # p => Wire(q)' = Wire(q)
          /\ Wire(p)' = Tail(Wire(p)) /\ Wire(p) \in Seq(Events \cup Replies)
        BY <1>1, <1>3, ReadingOne, Boxes DEF IInv, Inbox
    <1>5. /\ \A w : /\ HasFor(w, Wire(p)') => HasFor(w, Wire(p))
                    /\ OneFor(w, Wire(p)) => OneFor(w, Wire(p)')
                    /\ HasAnswer(w, Wire(p)') => HasAnswer(w, Wire(p))
          /\ HasKind("eof", Wire(p)') <=> HasKind("eof", Wire(p))
        BY <1>1, <1>4, RemainingOf
    <1> HIDE DEF m
    <1>6. Correspondence'
        <2> SUFFICES ASSUME NEW q \in Processes, NEW w \in Askers, Open(q)'
                     PROVE  /\ OneFrom(w, Inbox(q)') /\ OneFor(w, Wire(q)')
                            /\ ~(HasFrom(w, Inbox(q)') /\ HasFor(w, Wire(q)'))
                            /\ HasFrom(w, Inbox(q)') \/ HasFor(w, Wire(q)') =>
                                   \/ Waits(w, q)'
                                   \/ w = Watcher /\ watcher'.process = q /\ watcher'.at = "close"
            BY DEF Correspondence
        <2>1. /\ OneFrom(w, Inbox(q)) /\ OneFor(w, Wire(q))
              /\ ~(HasFrom(w, Inbox(q)) /\ HasFor(w, Wire(q)))
              /\ HasFrom(w, Inbox(q)) \/ HasFor(w, Wire(q)) =>
                     \/ Waits(w, q)
                     \/ w = Watcher /\ watcher.process = q /\ watcher.at = "close"
            BY <1>4 DEF CInv, Correspondence, Open
        <2>2. Waits(w, q)' <=> Waits(w, q)
            BY <1>1, <1>2 DEF Waits, InPhase
        <2> QED
            BY <1>2, <1>4, <1>5, <2>1, <2>2
    <1>7. Asking'
        BY <1>1, <1>2 DEF CInv, Asking, InPhase
    <1>8. Purposes'
        BY <1>1, <1>2, <1>4 DEF CInv, Purposes, Purpose, Open, Inbox
    <1>9. Endings'
        <2>1. \A q \in Processes : Begins(q)' => Begins(q)
            BY <1>1, <1>2 DEF Begins, Starting
        <2> QED
            BY <1>1, <1>4, <1>5, <2>1 DEF CInv, Endings, Open
    <1>10. Control'
        BY <1>1, <1>2, <1>4, <1>5 DEF CInv, Control, LetRun, Starting, Open
    <1> QED
        BY <1>6, <1>7, <1>8, <1>9, <1>10 DEF CInv

\* CodeLLDB has ended: those who wait for it are refused.
LEMMA ReadsEofControl ==
    ASSUME IInv, CInv, NEW p \in Processes, ReaderReads(p), Head(Wire(p)).kind = "eof"
    PROVE  CInv'
    <1>1. UNCHANGED <<lldb, watcher, hook>> /\ Open(p) /\ Wire(p) # <<>>
        BY DEF ReaderReads, world, Open, Wire
    <1>2. /\ asked' = [w \in Askers |->
                          IF asked[w] = Waiting
                             /\ p = (IF w = Watcher THEN watcher.process ELSE hook[w].process)
                          THEN Reply("refusal", w, 0) ELSE asked[w]]
          /\ link' = [link EXCEPT ![p] = [conn |-> "ended", wire |-> <<>>]]
        BY DEF ReaderReads, Wire
    <1>3. /\ \A q \in Processes : /\ Inbox(q)' = Inbox(q)
                                  /\ q # p => /\ Wire(q)' = Wire(q)
                                              /\ link'[q].conn = link[q].conn
          /\ link'[p].conn = "ended"
        BY <1>1, <1>2 DEF Inbox, Wire, IInv, TypeOK
    <1>4. HasKind("eof", Wire(p))
        BY <1>1, Boxes, RemainingOf DEF IInv
    <1>5. \A w \in Askers :
              \/ asked'[w] = asked[w]
              \/ /\ asked[w] = Waiting
                 /\ asked'[w] # Unasked /\ asked'[w].kind = "refusal"
                 /\ p = (IF w = Watcher THEN watcher.process ELSE hook[w].process)
        <2>1. \A w : Reply("refusal", w, 0) # Unasked /\ Reply("refusal", w, 0).kind = "refusal"
            BY DEF Reply, Unasked
        <2> QED
            BY <1>2, <2>1, Zenon
    <1>6. Correspondence'
        <2> SUFFICES ASSUME NEW q \in Processes, NEW w \in Askers, Open(q)'
                     PROVE  /\ OneFrom(w, Inbox(q)') /\ OneFor(w, Wire(q)')
                            /\ ~(HasFrom(w, Inbox(q)') /\ HasFor(w, Wire(q)'))
                            /\ HasFrom(w, Inbox(q)') \/ HasFor(w, Wire(q)') =>
                                   \/ Waits(w, q)'
                                   \/ w = Watcher /\ watcher'.process = q /\ watcher'.at = "close"
            BY DEF Correspondence
        <2>1. q # p /\ Open(q)
            BY <1>3 DEF Open
        <2>2. Waits(w, q) => Waits(w, q)'
            BY <1>1, <1>5, <2>1 DEF Waits, InPhase
        <2> QED
            BY <1>1, <1>3, <2>1, <2>2 DEF CInv, Correspondence
    <1>7. Asking'
        BY <1>1, <1>5, AskersAre DEF CInv, Asking, InPhase, Unasked, Waiting
    <1>8. Purposes'
        BY <1>1, <1>3 DEF CInv, Purposes, Purpose, Open, Inbox
    <1>9. Endings'
        <2>1. \A q \in Processes : Begins(q)' => Begins(q)
            BY <1>1, <1>5, AskersAre DEF Begins, Starting
        <2> QED
            BY <1>1, <1>3, <1>4, <2>1 DEF CInv, Endings, Open
    <1>10. Control'
        <2> SUFFICES ASSUME NEW q \in Processes, Open(q)', LetRun(q)'
                     PROVE  Open(q) /\ LetRun(q)
            BY <1>1 DEF CInv, Control
        <2>1. q # p /\ Open(q) /\ Wire(q)' = Wire(q)
            BY <1>3 DEF Open
        <2>2. asked'[Watcher].kind = "answer" => asked[Watcher].kind = "answer"
            BY <1>5, AskersAre
        <2> QED
            BY <1>1, <2>1, <2>2 DEF LetRun, Starting
    <1> QED
        BY <1>6, <1>7, <1>8, <1>9, <1>10 DEF CInv

LEMMA InitControl == Init => CInv
    <1> SUFFICES ASSUME Init
                 PROVE  CInv
        OBVIOUS
    <1>1. /\ \A p \in Processes : /\ link[p].conn = "none" /\ Wire(p) = <<>>
                                  /\ lldb[p].state = "none" /\ Inbox(p) = <<>>
          /\ \A w \in Askers : asked[w] = Unasked
          /\ \A h \in Hooks : hook[h] = Free
          /\ \A p \in Processes : ~Starting(p)
        <2>1. \A p \in Processes : /\ link[p].conn = "none" /\ Wire(p) = <<>>
                                   /\ lldb[p].state = "none" /\ Inbox(p) = <<>>
            BY DEF Init, NoEngine, Wire, Inbox
        <2>2. \A p \in Processes : ~Starting(p)
            BY WatcherIsNoProcess DEF Init, Starting, Asleep
        <2> QED
            BY <2>1, <2>2 DEF Init
    <1>2. Correspondence /\ Control
        BY <1>1 DEF Correspondence, Control, Open
    <1>3. Asking
        BY <1>1, AskersAre DEF Asking
    <1>4. Purposes
        <2> SUFFICES ASSUME NEW p \in Processes, NEW i \in 1..Len(Inbox(p))
                     PROVE  FALSE
            BY DEF Purposes
        <2> QED
            BY <1>1
    <1>5. Endings
        BY <1>1, NoMessage DEF Endings, Begins
    <1> QED
        BY <1>2, <1>3, <1>4, <1>5 DEF CInv

LEMMA NextControl ==
    ASSUME IInv, CInv, [Next]_vars
    PROVE  CInv'
    <1>1. CASE UNCHANGED vars
        BY <1>1, SilenceControl DEF vars, world
    <1>2. ASSUME NEW p \in Processes,
                 \/ ChildStarts(p) \/ ChildExits(p) \/ LldbServes(p) \/ LldbCrashes(p)
                 \/ (\E t \in Threads : LldbStops(p, t)) \/ CloserCloses(p)
          PROVE  CInv'
        <2>1. CASE ChildStarts(p)
            BY <2>1, SilenceControl DEF ChildStarts
        <2> QED
            BY <1>2, <2>1, ChildExitsControl, LldbServesControl, LldbCrashesControl,
               LldbStopsControl, CloserClosesControl
    <1>3. ASSUME NEW p \in Processes, ReaderReads(p)
          PROVE  CInv'
        BY <1>3, ReadsReplyControl, ReadsEofControl, ReadsEventControl
    <1>4. ASSUME NEW a \in Handlers, HandlerStep(a)
          PROVE  CInv'
        <2>1. CASE HandlesClose(a)
            BY <2>1, HandlesCloseControl
        <2>2. CASE ~HandlesClose(a)
            <3>1. UNCHANGED <<lldb, link, asked, watcher, hook>>
                BY <1>4, <2>2 DEF HandlerStep, HandlesRecord, HandlesBind, HandlesState,
                                  HandlesClear, HandlesRetire, HandlesTell, world
            <3> QED
                BY <3>1, SilenceControl
        <2> QED
            BY <2>1, <2>2
    <1>5. CASE WatcherStep
        <2>1. CASE \E p \in Processes : StartBegins(p)
            BY <2>1, StartBeginsControl
        <2>2. CASE StartAsks \/ StartAnswered \/ StartGivesUp
            BY <2>2, StartAsksControl, StartAnsweredControl, StartGivesUpControl
        <2>3. CASE StartRegisters \/ StartInserts \/ StartDrains
            BY <2>3, StartRegistersControl, StartInsertsControl, StartDrainsControl
        <2>4. CASE StartMarks \/ StartCloses \/ StartForgets
            BY <2>4, StartMarksControl, StartClosesControl, StartForgetsControl
        <2> QED
            BY <1>5, <2>1, <2>2, <2>3, <2>4 DEF WatcherStep
    <1>6. ASSUME NEW h \in Hooks, HookStep(h) \/ EditorAsks(h)
          PROVE  CInv'
        BY <1>6, HookControl, EditorAsksControl
    <1>7. CASE EditorConfigures \/ CloseBegins
        <2>1. UNCHANGED <<lldb, link, asked, watcher, hook>>
            BY <1>7 DEF EditorConfigures, CloseBegins, world
        <2> QED
            BY <2>1, SilenceControl
    <1> QED
        BY <1>1, <1>2, <1>3, <1>4, <1>5, <1>6, <1>7 DEF Next, ReaderStep

LEMMA ControlInvariance == Spec => [](IInv /\ CInv)
    <1>1. Init => IInv /\ CInv
        BY InitInv, InitControl
    <1>2. (IInv /\ CInv) /\ [Next]_vars => (IInv /\ CInv)'
        BY NextInv, NextControl
    <1> QED
        BY <1>1, <1>2, PTL DEF Spec

\* Only one step writes a marker.
LEMMA Marking ==
    ASSUME IInv, [Next]_vars, NEW p \in Processes, ~child[p].marked, child'[p].marked
    PROVE  watcher.at = "mark" /\ watcher.process = p
    <1>1. child \in [Processes -> Children]
        BY DEF IInv, TypeOK
    <1>2. CASE \E q \in Processes : ChildStarts(q) \/ ChildExits(q)
        BY <1>1, <1>2 DEF ChildStarts, ChildExits, Children
    <1>3. CASE StartMarks
        BY <1>1, <1>3 DEF StartMarks
    <1>4. CASE UNCHANGED child
        BY <1>4
    <1>5. CASE WatcherStep
        BY <1>3, <1>4, <1>5 DEF WatcherStep, StartBegins, StartAsks, StartAnswered, StartGivesUp,
                    StartRegisters, StartInserts, StartDrains, StartCloses, StartForgets, world
    <1>6. ASSUME NEW q \in Processes,
                 \/ LldbServes(q) \/ LldbCrashes(q) \/ (\E t \in Threads : LldbStops(q, t))
                 \/ ReaderStep(q) \/ CloserCloses(q)
          PROVE  UNCHANGED child
        <2>1. LldbServes(q) => UNCHANGED child
            BY DEF LldbServes
        <2>2. LldbCrashes(q) \/ (\E t \in Threads : LldbStops(q, t)) => UNCHANGED child
            BY DEF LldbCrashes, LldbStops
        <2>3. ReaderStep(q) => UNCHANGED child
            BY DEF ReaderStep, ReaderReads, world
        <2>4. CloserCloses(q) => UNCHANGED child
            BY DEF CloserCloses
        <2> QED
            BY <1>6, <2>1, <2>2, <2>3, <2>4
    <1>7. ASSUME NEW a \in Handlers, HandlerStep(a)
          PROVE  UNCHANGED child
        BY <1>7 DEF HandlerStep, HandlesRecord, HandlesBind, HandlesState, HandlesClear,
                    HandlesRetire, HandlesClose, HandlesTell, world
    <1>8. ASSUME NEW h \in Hooks, HookStep(h) \/ EditorAsks(h)
          PROVE  UNCHANGED child
        BY <1>8 DEF HookStep, HookShowsStack, HookShowsVariable, HookResumed, HookRefused,
                    HookTimesOut, EditorAsks, EditorAsksStack, EditorResumes, EditorInspects,
                    HookAsks, world
    <1>9. CASE EditorConfigures \/ CloseBegins \/ UNCHANGED vars
        BY <1>4, <1>9 DEF EditorConfigures, CloseBegins, vars, world
    <1> QED
        BY <1>2, <1>4, <1>5, <1>6, <1>7, <1>8, <1>9 DEF Next

\* A child is released only when it runs, with its breakpoints set, under a
\* CodeLLDB that a session of the proxy is connected to (_start_child), unless it
\* or CodeLLDB has ended meanwhile or the session is being closed: nothing that
\* CodeLLDB says or the handlers do between its answer to the continue and the
\* marker stops the child again.
THEOREM ChildrenAreReleasedUnderControl == Spec => ReleasedUnderControl
    <1>1. ASSUME IInv, CInv, [Next]_vars
          PROVE  [\A p \in Processes :
                     ~child[p].marked /\ child'[p].marked =>
                         \/ p \in retired \/ stop \/ link[p].conn # "open"
                         \/ p \in sessions /\ lldb[p].state \in {"runs", "none", "gone"}]_vars
        <2> SUFFICES ASSUME NEW p \in Processes, ~child[p].marked, child'[p].marked,
                            p \notin retired, ~stop, link[p].conn = "open"
                     PROVE  p \in sessions /\ lldb[p].state \in {"runs", "none", "gone"}
            OBVIOUS
        <2>1. watcher.at = "mark" /\ Starting(p)
            BY <1>1, Marking DEF Starting
        <2>2. p \in sessions
            BY <1>1, <2>1 DEF IInv, Past, Connects, Had, Starting
        <2>3. LetRun(p) /\ Open(p)
            BY <2>1 DEF LetRun, Open
        <2> QED
            BY <1>1, <2>2, <2>3 DEF CInv, Control
    <1>2. IInv /\ CInv /\ [Next]_vars =>
              [\A p \in Processes :
                  ~child[p].marked /\ child'[p].marked =>
                      \/ p \in retired \/ stop \/ link[p].conn # "open"
                      \/ p \in sessions /\ lldb[p].state \in {"runs", "none", "gone"}]_vars
        BY <1>1
    <1> QED
        BY <1>2, ControlInvariance, PTL DEF Spec, ReleasedUnderControl

--------------------------------------------------------------------------------
\* What the editor is shown.
Latest(p, k) == k = lldb[p].stops /\ lldb[p].state # "runs"

\* A resume the ids of p are still to be cleared for.
Clears(p) ==
    \/ HasKind("continued", Wire(p))
    \/ /\ call[p] # Free /\ call[p].event.kind = "continued"
       /\ call[p].at \in {"record", "bind", "state", "clear"}

\* The answers were read in one of the first n stops; that the process went on after
\* stop k comes before any answer read in it.
Old(n, s) ==
    \A i \in 1..Len(s) : s[i].kind = "answer" => s[i].stop \in Nat /\ s[i].stop <= n
Behind(k, s) ==
    \A i \in 1..Len(s) :
        s[i].kind = "answer" /\ s[i].stop = k =>
            \A j \in 1..Len(s) : i < j => s[j].kind # "continued"

Ordered(p) ==
    /\ Old(lldb[p].stops, Wire(p))
    /\ lldb[p].state = "stopped" => Behind(lldb[p].stops, Wire(p))

\* The watcher handles events only of the child it is about to release; a reader
\* clears the ids of its child only because it went on or ended.
Dispatching ==
    /\ call[Watcher] # Free => watcher.at = "drain" /\ watcher.process = call[Watcher].process
    /\ \A p \in Processes :
           call[p] # Free =>
               /\ call[p].event.kind # "eof"
               /\ call[p].at = "clear" => call[p].event.kind # "stopped"

StopsAreOfReleased == \A p \in Processes : lldb[p].state = "stopped" => child[p].marked

TableOf(x) == IF x.table = "frame" THEN frames ELSE variables
Given(x) == x.id \in DOMAIN Routes(x.table)

Shown ==
    \A x \in seen :
        /\ x.table \in {"frame", "variable"} /\ x.process \in Processes
        /\ x.stop \in Nat /\ x.stop <= lldb[x.process].stops
        /\ child[x.process].marked
        /\ x.id \in Nat /\ x.id < TableOf(x).next
        /\ Given(x) => Routes(x.table)[x.id].process = x.process

\* An id that was shown leads to the latest stop, unless it is still to be cleared.
GivenAreLatest ==
    ~stop =>
        \A x \in seen :
            Given(x) => Latest(x.process, x.stop) \/ Clears(x.process) \/ ~Open(x.process)

\* No id of the present stop is cleared, and none is lacking.
PresentStay ==
    \A x \in seen :
        x.alone /\ Lasts(x.process, x.stop) =>
            ~Clears(x.process) /\ (x.process \in sessions => Given(x))

\* What h has read in a stop that lasts it has read after the ids of the stop before
\* were cleared.
Fresh(h) ==
    hook[h] # Free /\ asked[h].kind = "answer" =>
        /\ asked[h].stop \in Nat /\ asked[h].stop <= lldb[hook[h].process].stops
        /\ Lasts(hook[h].process, asked[h].stop) => ~Clears(hook[h].process)

\* Once h's resume is answered, the stop is over whose ids h is about to remove.
Spares(h) ==
    /\ hook[h] # Free /\ hook[h].at = "continue"
    /\ asked[h].kind = "answer" \/ (Open(hook[h].process) /\ HasAnswer(h, Wire(hook[h].process)))
    => \A x \in seen : x.alone /\ x.process = hook[h].process => ~Lasts(x.process, x.stop)

SInv ==
    /\ Dispatching
    /\ \A p \in Processes : Ordered(p)
    /\ StopsAreOfReleased
    /\ Shown
    /\ GivenAreLatest
    /\ PresentStay
    /\ \A h \in Hooks : Fresh(h) /\ Spares(h)
    /\ IdsMeanOneStop

\* What a step may do to the stops of a child and to what is on its way from it, and
\* to one that has been released.
Evolves(p) ==
    /\ child[p].marked => child'[p].marked
    /\ lldb[p].stops \in Nat /\ lldb'[p].stops \in Nat /\ lldb[p].stops <= lldb'[p].stops
    /\ lldb'[p].state = "stopped" => lldb[p].state = "stopped" \/ child[p].marked
    /\ lldb'[p].state = "stopped" /\ lldb'[p].stops = lldb[p].stops =>
           lldb[p].state = "stopped" /\ (Clears(p)' => Clears(p))
    /\ Ordered(p)'

SparesShown(p) ==
    /\ Open(p)' => Open(p)
    /\ p \in sessions' => p \in sessions
    /\ Open(p)' /\ ~stop' =>
           /\ Clears(p) => Clears(p)'
           /\ \/ lldb[p].state = "runs" \/ Clears(p)'
              \/ lldb'[p].state # "runs" /\ lldb'[p].stops = lldb[p].stops
    /\ Open(p)' =>
           \A h \in Hooks :
               HasAnswer(h, Wire(p)') /\ hook[h] # Free /\ hook[h].at = "continue" =>
                   HasAnswer(h, Wire(p)) \/ lldb'[p].state # "stopped"

LEMMA OrderOfRest ==
    ASSUME NEW S, NEW s \in Seq(S), s # <<>>
    PROVE  /\ \A n : Old(n, s) =>
                  /\ Old(n, Tail(s))
                  /\ Head(s).kind = "answer" => Head(s).stop \in Nat /\ Head(s).stop <= n
           /\ \A k : Behind(k, s) =>
                  /\ Behind(k, Tail(s))
                  /\ Head(s).kind = "answer" /\ Head(s).stop = k => ~HasKind("continued", Tail(s))
    <1> DEFINE r == Tail(s)
    <1>1. /\ Head(s) = s[1] /\ 1 \in 1..Len(s)
          /\ \A i \in 1..Len(r) : /\ i + 1 \in 1..Len(s) /\ r[i] = s[i + 1] /\ i \in Nat
                                  /\ 1 < i + 1
        BY Remaining
    <1> HIDE DEF r
    <1>2. ASSUME NEW n, Old(n, s)
          PROVE  /\ Old(n, r)
                 /\ Head(s).kind = "answer" => Head(s).stop \in Nat /\ Head(s).stop <= n
        BY <1>1, <1>2 DEF Old
    <1>3. ASSUME NEW k, Behind(k, s)
          PROVE  /\ Behind(k, r)
                 /\ Head(s).kind = "answer" /\ Head(s).stop = k => ~HasKind("continued", r)
        <2>1. Behind(k, r)
            <3> SUFFICES ASSUME NEW i \in 1..Len(r), r[i].kind = "answer", r[i].stop = k
                         PROVE  \A j \in 1..Len(r) : i < j => r[j].kind # "continued"
                BY DEF Behind
            <3>1. \A j \in 1..Len(r) : i < j => i + 1 < j + 1
                BY <1>1
            <3> QED
                BY <1>1, <1>3, <3>1 DEF Behind
        <2>2. Head(s).kind = "answer" /\ Head(s).stop = k => ~HasKind("continued", r)
            BY <1>1, <1>3 DEF Behind, HasKind
        <2> QED
            BY <2>1, <2>2
    <1> QED
        BY <1>2, <1>3 DEF r

LEMMA OrderOfBoth ==
    ASSUME NEW S, NEW s \in Seq(S), NEW t \in Seq(S)
    PROVE  /\ \A n : Old(n, s) /\ Old(n, t) => Old(n, s \o t)
           /\ \A k : Behind(k, s) /\ ~HasKind("continued", t) => Behind(k, s \o t)
    <1> DEFINE r == s \o t
               n == Len(s)
    <1>1. /\ n \in Nat /\ Len(t) \in Nat
          /\ \A i \in 1..Len(r) : \/ i \in 1..n /\ r[i] = s[i]
                                  \/ i - n \in 1..Len(t) /\ r[i] = t[i - n] /\ ~(i \in 1..n)
          /\ \A i \in 1..Len(r) : i \in Int
        <2>1. /\ Len(r) = Len(s) + Len(t)
              /\ \A i \in 1..Len(s) + Len(t) :
                     r[i] = IF i <= Len(s) THEN s[i] ELSE t[i - Len(s)]
            BY ConcatProperties
        <2>2. Len(s) \in Nat /\ Len(t) \in Nat
            OBVIOUS
        <2> HIDE DEF r
        <2> QED
            BY <2>1, <2>2
    <1> HIDE DEF r, n
    <1>2. ASSUME NEW m, Old(m, s), Old(m, t)
          PROVE  Old(m, r)
        BY <1>1, <1>2 DEF Old, n
    <1>3. ASSUME NEW k, Behind(k, s), ~HasKind("continued", t)
          PROVE  Behind(k, r)
        <2> SUFFICES ASSUME NEW i \in 1..Len(r), r[i].kind = "answer", r[i].stop = k,
                            NEW j \in 1..Len(r), i < j, r[j].kind = "continued"
                     PROVE  FALSE
            BY DEF Behind
        <2>1. j \in 1..n /\ r[j] = s[j]
            BY <1>1, <1>3 DEF HasKind
        <2>2. i \in 1..n
            BY <1>1, <2>1
        <2>3. r[i] = s[i]
            BY <1>1, <2>2
        <2> QED
            BY <1>3, <2>1, <2>2, <2>3 DEF Behind, n
    <1> QED
        BY <1>2, <1>3 DEF r

\* Nothing has been read yet in a stop that is about to begin.
LEMMA OrderOfNone ==
    ASSUME NEW n \in Nat, NEW s, Old(n, s), NEW k \in Nat, n < k
    PROVE  Old(k, s) /\ Behind(k, s)
    <1>1. \A i \in 1..Len(s) : s[i].kind = "answer" =>
              s[i].stop \in Nat /\ s[i].stop <= k /\ s[i].stop # k
        BY DEF Old
    <1> QED
        BY <1>1 DEF Old, Behind

LEMMA ShownKept ==
    ASSUME Shown, GivenAreLatest, PresentStay, StopsAreOfReleased, IdsMeanOneStop,
           UNCHANGED <<frames, variables, seen>>, ~stop' => ~stop,
           \A p \in Processes : Evolves(p) /\ (child[p].marked => SparesShown(p))
    PROVE  /\ Shown' /\ GivenAreLatest' /\ PresentStay' /\ StopsAreOfReleased' /\ IdsMeanOneStop'
           /\ \A p \in Processes : Ordered(p)'
    <1>1. \A x : (Given(x)' <=> Given(x)) /\ Routes(x.table)' = Routes(x.table)
                     /\ TableOf(x)' = TableOf(x)
        BY DEF Given, Routes, TableOf
    <1>2. Shown'
        <2> SUFFICES ASSUME NEW x \in seen
                     PROVE  (/\ x.table \in {"frame", "variable"} /\ x.process \in Processes
                             /\ x.stop \in Nat /\ x.stop <= lldb[x.process].stops
                             /\ child[x.process].marked
                             /\ x.id \in Nat /\ x.id < TableOf(x).next
                             /\ Given(x) => Routes(x.table)[x.id].process = x.process)'
            BY DEF Shown
        <2>1. /\ x.table \in {"frame", "variable"} /\ x.process \in Processes
              /\ x.stop \in Nat /\ x.stop <= lldb[x.process].stops
              /\ child[x.process].marked
              /\ x.id \in Nat /\ x.id < TableOf(x).next
              /\ Given(x) => Routes(x.table)[x.id].process = x.process
            BY DEF Shown
        <2>2. x.stop <= lldb'[x.process].stops /\ child'[x.process].marked
            BY <2>1 DEF Evolves
        <2> QED
            BY <1>1, <2>1, <2>2
    <1>3. GivenAreLatest'
        <2> SUFFICES ASSUME NEW x \in seen, Given(x), ~stop', Open(x.process)'
                     PROVE  Latest(x.process, x.stop)' \/ Clears(x.process)'
            BY <1>1 DEF GivenAreLatest
        <2>1. x.process \in Processes /\ child[x.process].marked
            BY DEF Shown
        <2>2. Latest(x.process, x.stop) \/ Clears(x.process)
            BY <2>1 DEF GivenAreLatest, SparesShown
        <2> QED
            BY <2>1, <2>2 DEF Latest, SparesShown
    <1>4. PresentStay'
        <2> SUFFICES ASSUME NEW x \in seen, x.alone, Lasts(x.process, x.stop)'
                     PROVE  ~Clears(x.process)' /\ (x.process \in sessions' => Given(x))
            BY <1>1 DEF PresentStay
        <2>1. /\ x.process \in Processes /\ child[x.process].marked
              /\ x.stop \in Nat /\ x.stop <= lldb[x.process].stops
              /\ lldb'[x.process].state = "stopped" /\ lldb'[x.process].stops = x.stop
            BY DEF Shown, Lasts
        <2>2. /\ lldb'[x.process].stops = lldb[x.process].stops
              /\ lldb[x.process].state = "stopped" /\ (Clears(x.process)' => Clears(x.process))
            BY <2>1 DEF Evolves
        <2>3. ~Clears(x.process) /\ (x.process \in sessions => Given(x))
            BY <2>1, <2>2 DEF PresentStay, Lasts
        <2> QED
            BY <2>1, <2>2, <2>3 DEF SparesShown
    <1>5. StopsAreOfReleased' /\ \A p \in Processes : Ordered(p)'
        BY DEF StopsAreOfReleased, Evolves
    <1>6. IdsMeanOneStop'
        BY DEF IdsMeanOneStop
    <1> QED
        BY <1>2, <1>3, <1>4, <1>5, <1>6

\* A hook thread that takes no step of its own.
LEMMA HookKept ==
    ASSUME TypeOK, NEW h \in Hooks, Shown, Fresh(h), Spares(h),
           seen' = seen, hook'[h] = hook[h],
           asked'[h] = asked[h] \/ asked'[h].kind # "answer",
           \A p \in Processes : Evolves(p) /\ (child[p].marked => SparesShown(p))
    PROVE  Fresh(h)' /\ Spares(h)'
    <1> SUFFICES ASSUME hook[h] # Free
                 PROVE  Fresh(h)' /\ Spares(h)'
        BY DEF Fresh, Spares
    <1>1. PICK p \in Processes : p = hook[h].process
        BY DEF TypeOK, Served
    <1>2. Fresh(h)'
        <2> SUFFICES ASSUME asked'[h].kind = "answer"
                     PROVE  /\ asked[h].stop \in Nat /\ asked[h].stop <= lldb'[p].stops
                            /\ Lasts(p, asked[h].stop)' => ~Clears(p)'
            BY <1>1 DEF Fresh, Lasts
        <2>1. /\ asked[h].stop \in Nat /\ asked[h].stop <= lldb[p].stops
              /\ Lasts(p, asked[h].stop) => ~Clears(p)
            BY <1>1 DEF Fresh
        <2> QED
            BY <2>1 DEF Evolves, Lasts
    <1>3. Spares(h)'
        <2> SUFFICES ASSUME hook[h].at = "continue",
                            asked'[h].kind = "answer" \/ (Open(p)' /\ HasAnswer(h, Wire(p)')),
                            NEW x \in seen, x.alone, x.process = p, Lasts(p, x.stop)'
                     PROVE  FALSE
            BY <1>1 DEF Spares, Open, Lasts, Wire
        <2>1. /\ child[p].marked /\ x.stop \in Nat /\ x.stop <= lldb[p].stops
              /\ lldb'[p].state = "stopped" /\ lldb'[p].stops = x.stop
            BY DEF Shown, Lasts
        <2>2. Lasts(p, x.stop)
            BY <1>1, <2>1 DEF Evolves, Lasts
        <2>3. asked[h].kind = "answer" \/ (Open(p) /\ HasAnswer(h, Wire(p)))
            BY <1>1, <2>1 DEF SparesShown
        <2> QED
            BY <1>1, <2>2, <2>3 DEF Spares
    <1> QED
        BY <1>2, <1>3

LEMMA Kept ==
    ASSUME TypeOK, SInv, Dispatching',
           UNCHANGED <<frames, variables, seen, hook>>, ~stop' => ~stop,
           \A h \in Hooks : asked'[h] = asked[h] \/ asked'[h].kind # "answer",
           \A p \in Processes : Evolves(p) /\ (child[p].marked => SparesShown(p))
    PROVE  SInv'
    <1>1. \A h \in Hooks : Fresh(h)' /\ Spares(h)'
        BY HookKept DEF SInv
    <1>2. /\ Shown' /\ GivenAreLatest' /\ PresentStay' /\ StopsAreOfReleased' /\ IdsMeanOneStop'
          /\ \A p \in Processes : Ordered(p)'
        BY ShownKept DEF SInv
    <1> QED
        BY <1>1, <1>2 DEF SInv

\* The watcher has to do with no child that has been released.
LEMMA ReleasedAre ==
    ASSUME IInv, CInv, Dispatching, NEW p \in Processes, child[p].marked
    PROVE  /\ watcher.process # p /\ (call[Watcher] # Free => call[Watcher].process # p)
           /\ ~HasKind("attach", Inbox(p))
           /\ Open(p) => ~HasFrom(Watcher, Inbox(p)) /\ ~HasFor(Watcher, Wire(p))
           /\ Open(p) /\ ~stop => p \in sessions \/ call[p].at = "close"
    <1>1. watcher.process # p /\ (call[Watcher] # Free => call[Watcher].process # p)
        BY DEF IInv, Past, Starting, Dispatching
    <1>2. Open(p) => ~HasFrom(Watcher, Inbox(p)) /\ ~HasFor(Watcher, Wire(p))
        BY <1>1, AskersAre DEF CInv, Correspondence, Waits
    <1>3. ~HasKind("attach", Inbox(p))
        <2>1. CASE Open(p)
            BY <1>2, <2>1 DEF CInv, Purposes, HasKind, HasFrom
        <2>2. CASE ~Open(p)
            BY <2>2 DEF CInv, Endings
        <2> QED
            BY <2>1, <2>2
    <1>4. ASSUME Open(p), ~stop, p \notin sessions
          PROVE  call[p].at = "close"
        <2>1. PICK a \in Handlers : Closes(a, p)
            BY <1>1, <1>4 DEF IInv, Charge, Open, Opens
        <2>2. call[a] # Free
            BY <2>1, Busy DEF Closes, IInv
        <2>3. a # Watcher
            BY <1>1, <2>1, <2>2 DEF Closes
        <2> QED
            BY <2>1, <2>2, <2>3, WatcherIsNoProcess, Busy DEF Closes, IInv
    <1> QED
        BY <1>1, <1>2, <1>3, <1>4

LEMMA StopsAre ==
    ASSUME IInv, NEW p \in Processes
    PROVE  lldb[p].stops \in Nat
    BY Boxes, ChildSessionsAssumption DEF IInv

\* A connection, and its CodeLLDB, that the step leaves alone.
LEMMA Untouched ==
    ASSUME IInv, SInv, NEW p \in Processes, Wire(p)' = Wire(p), Open(p)' <=> Open(p),
           Clears(p)' <=> Clears(p),
           lldb'[p].state = lldb[p].state, lldb'[p].stops = lldb[p].stops,
           child[p].marked => child'[p].marked,
           child[p].marked => (p \in sessions' => p \in sessions)
    PROVE  Evolves(p) /\ (child[p].marked => SparesShown(p))
    <1>1. Ordered(p)'
        BY DEF SInv, Ordered
    <1> QED
        BY <1>1, StopsAre DEF Evolves, SparesShown

\* Steps that leave the engines and the connections alone.
LEMMA SilenceKeeps ==
    ASSUME IInv, SInv, Dispatching',
           UNCHANGED <<link, hook, frames, variables, seen>>,
           \A h \in Hooks : asked'[h] = asked[h],
           \A p \in Processes :
               lldb'[p].state = lldb[p].state /\ lldb'[p].stops = lldb[p].stops,
           ~stop' => ~stop,
           \A p \in Processes :
               /\ Clears(p)' <=> Clears(p)
               /\ child[p].marked => child'[p].marked /\ (p \in sessions' => p \in sessions)
    PROVE  SInv'
    <1>1. \A p \in Processes : Wire(p)' = Wire(p) /\ (Open(p)' <=> Open(p))
        BY DEF Wire, Open
    <1>2. \A p \in Processes : Evolves(p) /\ (child[p].marked => SparesShown(p))
        BY <1>1, Untouched
    <1> QED
        BY <1>2, Kept DEF IInv

\* Handlers at the steps that neither clear nor close.
LEMMA HandlesShown ==
    ASSUME IInv, CInv, SInv, NEW a \in Handlers, HandlerStep(a),
           ~HandlesClear(a), ~HandlesClose(a)
    PROVE  SInv'
    <1>1. /\ UNCHANGED <<child, lldb, link, hook, frames, variables, seen, asked, stop, watcher>>
          /\ sessions' \subseteq sessions
        BY DEF HandlerStep, HandlesRecord, HandlesBind, HandlesState, HandlesRetire, HandlesTell,
               world, manager, tables, editor
    <1>2. call[a] # Free
        BY Busy DEF HandlerStep, HandlesRecord, HandlesBind, HandlesState, HandlesClear,
                    HandlesRetire, HandlesClose, HandlesTell, At, IInv
    <1>3. /\ \A b \in Handlers : b # a => call'[b] = call[b]
          /\ \/ call'[a] = Free /\ call[a].at = "tell"
             \/ /\ call'[a] # Free /\ call'[a].event = call[a].event
                /\ call'[a].process = call[a].process
                /\ call'[a].at = "clear" => call[a].event.kind # "stopped"
                /\ call[a].event.kind = "continued" =>
                       (call'[a].at \in {"record", "bind", "state", "clear"} <=>
                        call[a].at \in {"record", "bind", "state", "clear"})
        <2>1. CASE HandlesTell(a)
            BY <2>1, Finished DEF HandlesTell, At, IInv
        <2>2. CASE HandlesRecord(a)
            <3>1. PICK step \in {"bind", "state"} : Moves(a, step)
                BY <2>2, Zenon DEF HandlesRecord
            <3>2. call[a].at = "record"
                BY <2>2 DEF HandlesRecord, At
            <3> QED
                BY <1>2, <3>1, <3>2, Moved DEF IInv
        <2>3. CASE HandlesBind(a)
            BY <1>2, <2>3, Moved DEF HandlesBind, At, IInv
        <2>4. CASE HandlesState(a)
            <3>1. call[a].at = "state"
                BY <2>4 DEF HandlesState, At
            <3>2. CASE call[a].event.kind = "stopped"
                BY <1>2, <2>4, <3>1, <3>2, Moved DEF HandlesState, IInv
            <3>3. CASE call[a].event.kind # "stopped"
                BY <1>2, <2>4, <3>1, <3>3, Moved DEF HandlesState, IInv
            <3> QED
                BY <3>2, <3>3
        <2>5. CASE HandlesRetire(a)
            <3>1. call[a].at = "retire" /\ (Moves(a, "close") \/ Moves(a, "tell"))
                BY <2>5 DEF HandlesRetire, At
            <3> QED
                BY <1>2, <3>1, Moved DEF IInv
        <2> QED
            BY <2>1, <2>2, <2>3, <2>4, <2>5 DEF HandlerStep
    <1>4. Dispatching'
        <2>1. Dispatching /\ \A p \in Processes : p \in Handlers /\ p # Watcher
            BY WatcherIsNoProcess DEF SInv
        <2>2. call'[Watcher] # Free => watcher.at = "drain" /\ watcher.process = call'[Watcher].process
            BY <1>2, <1>3, <2>1, WatcherIsNoProcess DEF Dispatching
        <2>3. ASSUME NEW p \in Processes, call'[p] # Free
              PROVE  /\ call'[p].event.kind # "eof"
                     /\ call'[p].at = "clear" => call'[p].event.kind # "stopped"
            BY <1>2, <1>3, <2>1, <2>3 DEF Dispatching
        <2> QED
            BY <1>1, <2>2, <2>3 DEF Dispatching
    <1>5. \A p \in Processes : Clears(p)' <=> Clears(p)
        <2> SUFFICES ASSUME NEW p \in Processes
                     PROVE  Clears(p)' <=> Clears(p)
            OBVIOUS
        <2>1. Wire(p)' = Wire(p) /\ p \in Handlers
            BY <1>1, WatcherIsNoProcess DEF Wire
        <2> QED
            BY <1>2, <1>3, <2>1 DEF Clears
    <1> QED
        BY <1>1, <1>4, <1>5, SilenceKeeps DEF SInv

\* The watcher's steps that leave the engines and the connections alone.
LEMMA WatcherGoesShown ==
    ASSUME IInv, CInv, SInv,
           \/ StartAnswered \/ StartGivesUp \/ StartRegisters \/ StartDrains \/ StartMarks
           \/ StartForgets \/ (StartInserts /\ UNCHANGED <<lldb, link>>)
    PROVE  SInv'
    <1>1. /\ UNCHANGED <<lldb, link, hook, frames, variables, seen, stop>>
          /\ \A p \in Processes : call'[p] = call[p]
        BY WatcherIsNoProcess DEF StartAnswered, StartGivesUp, StartRegisters, StartDrains,
           StartMarks, StartForgets, StartInserts, world, manager, tables, editor, IInv, TypeOK
    <1>2. \A h \in Hooks : asked'[h] = asked[h]
        BY AskersAre DEF StartAnswered, StartGivesUp, StartRegisters, StartDrains,
           StartMarks, StartForgets, StartInserts, IInv, TypeOK
    <1>3. \A p \in Processes : child[p].marked => child'[p].marked
        BY DEF StartAnswered, StartGivesUp, StartRegisters, StartDrains,
               StartMarks, StartForgets, StartInserts, world, IInv, TypeOK, Children
    <1>4. \A p \in Processes : child[p].marked => (p \in sessions' => p \in sessions)
        BY ReleasedAre DEF SInv, StartAnswered, StartGivesUp, StartRegisters, StartDrains,
               StartMarks, StartForgets, StartInserts, manager
    <1>5. Dispatching'
        <2>1. CASE StartDrains
            <3>1. watcher \in Starts
                BY <2>1, StartIsOf DEF StartDrains, IInv
            <3>2. CASE watcher.buffer = <<>>
                BY <2>1, <3>2 DEF StartDrains, SInv, Dispatching
            <3>3. CASE watcher.buffer # <<>>
                <4>1. /\ call'[Watcher].process = watcher.process
                      /\ watcher'.at = "drain" /\ watcher'.process = watcher.process
                    BY <2>1, <3>1, <3>3, WatcherIsNoProcess DEF StartDrains, Starts, IInv, TypeOK
                <4> QED
                    BY <1>1, <4>1 DEF SInv, Dispatching
            <3> QED
                BY <3>2, <3>3
        <2>2. CASE StartMarks
            BY <2>2 DEF StartMarks, SInv, Dispatching
        <2>3. CASE StartAnswered \/ StartGivesUp
            <3>1. watcher.at # "drain" /\ call' = call
                BY <2>3, PhaseAfter DEF StartAnswered, StartGivesUp
            <3> QED
                BY <3>1 DEF SInv, Dispatching
        <2>4. CASE StartRegisters \/ StartForgets \/ StartInserts
            BY <2>4 DEF StartRegisters, StartForgets, StartInserts, SInv, Dispatching
        <2> QED
            BY <2>1, <2>2, <2>3, <2>4
    <1>6. \A p \in Processes : Clears(p)' <=> Clears(p)
        BY <1>1 DEF Clears, Wire
    <1> QED
        BY <1>1, <1>2, <1>3, <1>4, <1>5, <1>6, SilenceKeeps

LEMMA OthersShown ==
    ASSUME IInv, CInv, SInv,
           \/ \E p \in Processes : ChildStarts(p)
           \/ EditorConfigures \/ CloseBegins \/ UNCHANGED vars
    PROVE  SInv'
    <1>1. UNCHANGED <<lldb, link, hook, frames, variables, seen, asked, call, watcher>>
        BY DEF ChildStarts, EditorConfigures, CloseBegins, vars, world, manager, tables, editor
    <1>2. \A p \in Processes : child[p].marked => child'[p].marked
        BY DEF ChildStarts, EditorConfigures, CloseBegins, vars, world, IInv, TypeOK, Children
    <1>3. (~stop' => ~stop) /\ sessions' \subseteq sessions
        BY DEF ChildStarts, EditorConfigures, CloseBegins, vars, manager
    <1>4. Dispatching'
        BY <1>1 DEF SInv, Dispatching
    <1>5. \A p \in Processes : Clears(p)' <=> Clears(p)
        BY <1>1 DEF Clears, Wire
    <1> QED
        BY <1>1, <1>2, <1>3, <1>4, <1>5, SilenceKeeps

\* Connections are closed.
LEMMA HangsShown ==
    ASSUME IInv, CInv, SInv, Dispatching', NEW P \in SUBSET Processes, Hangs(P),
           UNCHANGED <<child, stop, sessions, asked, hook, frames, variables, seen>>,
           \A p \in Processes \ P : call'[p] = call[p]
    PROVE  SInv'
    <1>1. /\ \A q \in P : /\ link'[q].conn = "closed" /\ lldb'[q].state = "none"
                          /\ lldb'[q].stops = lldb[q].stops /\ Wire(q)' = <<>>
          /\ \A q \in Processes \ P : link'[q] = link[q] /\ lldb'[q] = lldb[q]
        BY Hanging DEF IInv
    <1>2. ASSUME NEW p \in P
          PROVE  Evolves(p) /\ (child[p].marked => SparesShown(p))
        <2>1. Ordered(p)'
            BY <1>1 DEF Ordered, Old
        <2> QED
            BY <1>1, <2>1, StopsAre DEF Evolves, SparesShown, Open
    <1>3. ASSUME NEW p \in Processes \ P
          PROVE  Evolves(p) /\ (child[p].marked => SparesShown(p))
        <2>1. /\ Wire(p)' = Wire(p) /\ (Open(p)' <=> Open(p)) /\ lldb'[p] = lldb[p]
              /\ Clears(p)' <=> Clears(p)
            BY <1>1 DEF Wire, Open, Clears
        <2> QED
            BY <2>1, Untouched
    <1> QED
        BY <1>2, <1>3, Kept DEF IInv

LEMMA ClosingShown ==
    ASSUME IInv, CInv, SInv,
           \/ \E p \in Processes : CloserCloses(p)
           \/ \E a \in Handlers : HandlesClose(a)
           \/ StartCloses
           \/ StartInserts /\ Hangs({watcher.process}) /\ sessions' = sessions
    PROVE  SInv'
    <1>1. ASSUME NEW p \in Processes, CloserCloses(p)
          PROVE  SInv'
        <2>1. Dispatching'
            BY <1>1 DEF CloserCloses, SInv, Dispatching
        <2> QED
            BY <1>1, <2>1, HangsShown DEF CloserCloses, manager, tables, editor
    <1>2. ASSUME NEW a \in Handlers, HandlesClose(a)
          PROVE  SInv'
        <2>1. /\ call[a] # Free /\ call[a].process \in Processes
              /\ a \in Processes => call[a].process = a
            BY <1>2, Busy DEF HandlesClose, At, IInv
        <2>2. /\ \A b \in Handlers : b # a => call'[b] = call[b]
              /\ call'[a].process = call[a].process /\ call'[a].event = call[a].event
              /\ call'[a].at = "tell" /\ watcher' = watcher
            BY <1>2, <2>1, Moved DEF HandlesClose, IInv
        <2>3. Dispatching'
            <3>1. Dispatching /\ \A p \in Processes : p \in Handlers /\ p # Watcher
                BY WatcherIsNoProcess DEF SInv
            <3>2. call'[Watcher] # Free =>
                      watcher.at = "drain" /\ watcher.process = call'[Watcher].process
                BY <2>1, <2>2, <3>1, WatcherIsNoProcess DEF Dispatching
            <3>3. ASSUME NEW p \in Processes, call'[p] # Free
                  PROVE  /\ call'[p].event.kind # "eof"
                         /\ call'[p].at = "clear" => call'[p].event.kind # "stopped"
                BY <2>1, <2>2, <3>1, <3>3 DEF Dispatching
            <3> QED
                BY <2>2, <3>2, <3>3 DEF Dispatching
        <2>4. \A p \in Processes \ {call[a].process} : call'[p] = call[p]
            BY <2>1, <2>2, WatcherIsNoProcess
        <2> QED
            BY <1>2, <2>1, <2>3, <2>4, HangsShown DEF HandlesClose, manager, tables, editor
    <1>3. ASSUME \/ StartCloses
                 \/ StartInserts /\ Hangs({watcher.process}) /\ sessions' = sessions
          PROVE  SInv'
        <2>1. watcher.at \in {"close", "insert"} /\ watcher.process \in Processes
            BY <1>3, StartIsOf DEF StartCloses, StartInserts, IInv
        <2>2. Dispatching'
            BY <1>3, <2>1 DEF StartCloses, StartInserts, SInv, Dispatching
        <2>3. UNCHANGED <<child, stop, sessions, call, asked, hook, frames, variables, seen>>
            BY <1>3 DEF StartCloses, StartInserts, manager, tables, editor
        <2>4. Hangs({watcher.process})
            BY <1>3 DEF StartCloses
        <2> QED
            BY <2>1, <2>2, <2>3, <2>4, HangsShown
    <1> QED
        BY <1>1, <1>2, <1>3

\* CodeLLDB and the child say something.
LEMMA SaysShown ==
    ASSUME IInv, CInv, SInv, NEW p \in Processes,
           NEW t \in Seq(Events \cup Replies), Sends(p, t),
           UNCHANGED <<stop, sessions, watcher, call, asked, hook, frames, variables, seen>>,
           \A q \in Processes :
               /\ child[q].marked => child'[q].marked
               /\ q # p => lldb'[q].state = lldb[q].state /\ lldb'[q].stops = lldb[q].stops,
           lldb'[p].stops \in Nat, lldb[p].stops <= lldb'[p].stops,
           Old(lldb[p].stops, t),
           lldb'[p].state = "stopped" => lldb[p].state = "stopped" \/ child[p].marked,
           lldb'[p].state = "stopped" /\ lldb'[p].stops = lldb[p].stops =>
               lldb[p].state = "stopped" /\ ~HasKind("continued", t),
           child[p].marked /\ Open(p) =>
               /\ \/ lldb[p].state = "runs" \/ HasKind("continued", t)
                  \/ lldb'[p].state # "runs" /\ lldb'[p].stops = lldb[p].stops
               /\ \A h \in Hooks :
                      HasAnswer(h, t) /\ hook[h].at = "continue" => lldb'[p].state # "stopped"
    PROVE  SInv'
    <1>1. /\ \A q \in Processes : /\ link'[q].conn = link[q].conn
                                  /\ q # p => Wire(q)' = Wire(q)
          /\ Wire(p)' = Wire(p) \o t /\ Wire(p) \in Seq(Events \cup Replies)
        BY Sending, Boxes DEF IInv
    <1>2. /\ \A h : HasAnswer(h, Wire(p)') <=> HasAnswer(h, Wire(p)) \/ HasAnswer(h, t)
          /\ HasKind("continued", Wire(p)') <=> HasKind("continued", Wire(p)) \/ HasKind("continued", t)
        BY <1>1, Joined
    <1>3. /\ Clears(p)' <=> Clears(p) \/ HasKind("continued", t)
          /\ \A q \in Processes : q # p => (Clears(q)' <=> Clears(q))
        BY <1>1, <1>2 DEF Clears
    <1>4. ASSUME NEW q \in Processes, q # p
          PROVE  Evolves(q) /\ (child[q].marked => SparesShown(q))
        BY <1>1, <1>3, <1>4, Untouched DEF Open
    <1>5. Ordered(p)'
        <2>1. Old(lldb[p].stops, Wire(p)')
            BY <1>1, OrderOfBoth DEF SInv, Ordered
        <2>2. CASE lldb'[p].stops = lldb[p].stops
            <3>1. lldb'[p].state = "stopped" => Behind(lldb[p].stops, Wire(p)')
                BY <1>1, <2>2, OrderOfBoth DEF SInv, Ordered
            <3> QED
                BY <2>1, <2>2, <3>1 DEF Ordered
        <2>3. CASE lldb'[p].stops # lldb[p].stops
            <3>1. lldb[p].stops \in Nat /\ lldb[p].stops < lldb'[p].stops
                BY <2>3, StopsAre
            <3>2. Old(lldb'[p].stops, Wire(p)') /\ Behind(lldb'[p].stops, Wire(p)')
                BY <2>1, <3>1, OrderOfNone
            <3> QED
                BY <3>2 DEF Ordered
        <2> QED
            BY <2>2, <2>3
    <1>6. Evolves(p)
        BY <1>3, <1>5, StopsAre DEF Evolves
    <1>7. child[p].marked => SparesShown(p)
        <2> SUFFICES ASSUME child[p].marked
                     PROVE  SparesShown(p)
            OBVIOUS
        <2>1. Open(p)' <=> Open(p)
            BY <1>1 DEF Open
        <2> QED
            BY <1>2, <1>3, <2>1 DEF SparesShown
    <1>8. Dispatching'
        BY DEF SInv, Dispatching
    <1> QED
        BY <1>4, <1>6, <1>7, <1>8, Kept DEF IInv

LEMMA EventsShown ==
    ASSUME IInv, CInv, SInv, NEW p \in Processes,
           ChildExits(p) \/ LldbCrashes(p) \/ (\E t \in Threads : LldbStops(p, t))
    PROVE  SInv'
    <1>1. UNCHANGED <<stop, sessions, watcher, call, asked, hook, frames, variables, seen>>
        BY DEF ChildExits, LldbCrashes, LldbStops, manager, tables, editor
    <1>2. \A q \in Processes : child[q].marked => child'[q].marked
        <2>1. ChildExits(p) => \A q \in Processes : child[q].marked => child'[q].marked
            BY DEF ChildExits, IInv, TypeOK, Children
        <2>2. LldbCrashes(p) \/ (\E t \in Threads : LldbStops(p, t)) => UNCHANGED child
            BY DEF LldbCrashes, LldbStops
        <2> QED
            BY <2>1, <2>2
    <1>3. lldb \in [Processes -> Engines] /\ lldb[p].stops \in Nat
        BY StopsAre DEF IInv, TypeOK
    <1>4. ASSUME NEW e \in Events, e.kind # "continued", Sends(p, <<e>>),
                 \A q \in Processes :
                     q # p => lldb'[q].state = lldb[q].state /\ lldb'[q].stops = lldb[q].stops,
                 \/ lldb'[p].state \in {"gone", "none"} /\ lldb'[p].stops = lldb[p].stops
                 \/ /\ lldb[p].state = "runs" /\ lldb'[p].stops = lldb[p].stops + 1
                    /\ child[p].marked
          PROVE  SInv'
        <2> DEFINE t == <<e>>
        <2>1. /\ t \in Seq(Events \cup Replies)
              /\ ~HasKind("continued", t) /\ \A h : ~HasAnswer(h, t)
              /\ Old(lldb[p].stops, t)
            <3>1. e.kind \notin {"answer", "refusal"} /\ e \in Events \cup Replies
                BY DEF Events
            <3>2. Len(t) = 1 /\ t[1] = e
                OBVIOUS
            <3> HIDE DEF t
            <3>3. /\ t \in Seq(Events \cup Replies)
                  /\ HasKind("continued", t) <=> e.kind = "continued"
                  /\ \A h : HasAnswer(h, t) <=> IsFor(h, e) /\ e.kind = "answer"
                BY <3>1, OneMessage DEF t
            <3>4. Old(lldb[p].stops, t)
                BY <3>1, <3>2 DEF Old
            <3> QED
                BY <1>4, <3>1, <3>3, <3>4
        <2>2. Sends(p, t)
            BY <1>4
        <2> HIDE DEF t
        <2>3. lldb'[p].stops \in Nat /\ lldb[p].stops <= lldb'[p].stops
            BY <1>3, <1>4
        <2>4. /\ lldb'[p].stops = lldb[p].stops => lldb'[p].state # "stopped"
              /\ lldb'[p].state = "stopped" => child[p].marked
              /\ lldb[p].state # "runs" =>
                     lldb'[p].state # "runs" /\ lldb'[p].stops = lldb[p].stops
            BY <1>3, <1>4
        <2> QED
            BY <1>1, <1>2, <1>4, <2>1, <2>2, <2>3, <2>4, SaysShown
    <1>5. CASE ChildExits(p)
        <2>1. CASE Debugged(p)
            <3> DEFINE e == Event("exited", None, 0)
            <3>1. e \in Events /\ e.kind = "exited" /\ Sends(p, <<e>>)
                BY <1>5, <2>1 DEF ChildExits, Event, Events
            <3> HIDE DEF e
            <3>2. lldb' = [lldb EXCEPT ![p].state = "gone"]
                BY <1>5, <2>1 DEF ChildExits
            <3>3. /\ \A q \in Processes :
                         q # p => lldb'[q].state = lldb[q].state /\ lldb'[q].stops = lldb[q].stops
                  /\ lldb'[p].state = "gone" /\ lldb'[p].stops = lldb[p].stops
                BY <1>3, <3>2 DEF Engines
            <3> QED
                BY <1>4, <3>1, <3>3
        <2>2. CASE ~Debugged(p)
            <3>1. UNCHANGED <<lldb, link>>
                BY <1>5, <2>2 DEF ChildExits
            <3>2. (\A q \in Processes : Clears(q)' <=> Clears(q)) /\ Dispatching'
                BY <1>1, <3>1 DEF Clears, Wire, SInv, Dispatching
            <3> QED
                BY <1>1, <1>2, <3>1, <3>2, SilenceKeeps
        <2> QED
            BY <2>1, <2>2
    <1>6. CASE LldbCrashes(p)
        <2> DEFINE e == Event("eof", None, 0)
                   f == [lldb[p] EXCEPT !.state = "none", !.inbox = <<>>]
        <2>1. e \in Events /\ e.kind = "eof" /\ Sends(p, <<e>>)
            BY <1>6 DEF LldbCrashes, Event, Events
        <2>2. lldb' = [lldb EXCEPT ![p] = f]
            BY <1>6 DEF LldbCrashes
        <2>3. f.state = "none" /\ f.stops = lldb[p].stops
            BY <1>3 DEF Engines
        <2> HIDE DEF e, f
        <2>4. /\ \A q \in Processes :
                     q # p => lldb'[q].state = lldb[q].state /\ lldb'[q].stops = lldb[q].stops
              /\ lldb'[p].state = "none" /\ lldb'[p].stops = lldb[p].stops
            BY <1>3, <2>2, <2>3
        <2> QED
            BY <1>4, <2>1, <2>4
    <1>7. ASSUME NEW u \in Threads, LldbStops(p, u)
          PROVE  SInv'
        <2> DEFINE e == Event("stopped", u, lldb[p].stops + 1)
                   f == [lldb[p] EXCEPT !.state = "stopped", !.stops = lldb[p].stops + 1]
        <2>1. lldb[p].stops + 1 \in 0..MaxStops
            BY <1>3, <1>7, ChildSessionsAssumption DEF LldbStops, Engines
        <2>2. e \in Events /\ e.kind = "stopped" /\ Sends(p, <<e>>)
            BY <1>7, <2>1 DEF LldbStops, Event, Events
        <2>3. lldb' = [lldb EXCEPT ![p] = f] /\ lldb[p].state = "runs" /\ child[p].marked
            BY <1>7 DEF LldbStops
        <2>4. f.stops = lldb[p].stops + 1
            BY <1>3 DEF Engines
        <2> HIDE DEF e, f
        <2>5. /\ \A q \in Processes :
                     q # p => lldb'[q].state = lldb[q].state /\ lldb'[q].stops = lldb[q].stops
              /\ lldb'[p].stops = lldb[p].stops + 1
            BY <1>3, <2>3, <2>4
        <2> QED
            BY <1>4, <2>2, <2>3, <2>5
    <1> QED
        BY <1>5, <1>6, <1>7

LEMMA LldbServesShown ==
    ASSUME IInv, CInv, SInv, NEW p \in Processes, LldbServes(p)
    PROVE  SInv'
    <1> DEFINE r == Head(Inbox(p))
    <1>1. UNCHANGED <<child, stop, sessions, watcher, call, asked, hook, frames, variables, seen>>
        BY DEF LldbServes, manager, tables, editor
    <1>2. PICK m \in Seq(Events \cup Replies),
               s \in {"none", "attached", "runs", "stopped", "gone"} :
                 /\ Inbox(p) # <<>>
                 /\ \A q \in Processes : q # p => lldb'[q] = lldb[q]
                 /\ lldb'[p].state = s /\ lldb'[p].stops = lldb[p].stops
                 /\ Sends(p, m) /\ Says(p, m, s)
        BY Serving DEF IInv
    <1>3. /\ \A w : HasFor(w, m) => r.who = w
          /\ HasKind("continued", m) =>
                 r.kind = "continue" /\ lldb[p].state \in {"attached", "stopped"} /\ s = "runs"
          /\ \A w : HasAnswer(w, m) => (r.kind = "continue" => s = "runs")
          /\ \A i \in 1..Len(m) : m[i].kind = "answer" => m[i].stop = lldb[p].stops
          /\ s = "stopped" => lldb[p].state = "stopped"
          /\ s # lldb[p].state =>
                 \/ r.kind = "attach"
                 \/ /\ r.kind = "continue" /\ s = "runs" /\ lldb[p].state \in {"attached", "stopped"}
                    /\ HasKind("continued", m)
        BY <1>2 DEF Says
    <1>4. ASSUME child[p].marked
          PROVE  r.kind # "attach"
        <2>1. ~HasKind("attach", Inbox(p))
            BY <1>4, ReleasedAre DEF SInv
        <2>2. r.kind = "attach" => HasKind("attach", Inbox(p))
            BY <1>2, Boxes, RemainingOf DEF IInv
        <2> QED
            BY <2>1, <2>2
    <1>5. ASSUME Open(p), NEW h \in Hooks, HasAnswer(h, m)
          PROVE  hook[h].at = r.kind
        <2>1. r = Inbox(p)[1] /\ 1 \in 1..Len(Inbox(p))
            BY <1>2, Boxes, Remaining DEF IInv
        <2>2. r.who = h
            BY <1>3, <1>5 DEF HasFor, HasAnswer
        <2> QED
            BY <1>5, <2>1, <2>2, AskersAre DEF CInv, Purposes, Purpose
    <1> HIDE DEF r
    <1>6. lldb[p].stops \in Nat
        BY StopsAre
    <1>7. Old(lldb[p].stops, m)
        BY <1>3, <1>6 DEF Old
    <1>8. s = "stopped" => lldb[p].state = "stopped" /\ ~HasKind("continued", m)
        BY <1>3
    <1>9. ASSUME child[p].marked, Open(p)
          PROVE  /\ lldb[p].state = "runs" \/ HasKind("continued", m) \/ s # "runs"
                 /\ \A h \in Hooks : HasAnswer(h, m) /\ hook[h].at = "continue" => s # "stopped"
        BY <1>3, <1>4, <1>5, <1>9
    <1> QED
        BY <1>1, <1>2, <1>6, <1>7, <1>8, <1>9, SaysShown

LEMMA RestHas ==
    ASSUME NEW S, NEW s \in Seq(S), s # <<>>, NEW k, HasKind(k, s)
    PROVE  Head(s).kind = k \/ HasKind(k, Tail(s))
    <1> DEFINE r == Tail(s)
    <1>1. /\ Head(s) = s[1] /\ Len(s) \in Nat
          /\ \A i \in 1..Len(s) : i # 1 => i - 1 \in 1..Len(r) /\ r[i - 1] = s[i]
        <2>1. Len(r) = Len(s) - 1 /\ Len(s) \in Nat /\ \A i \in 1..(Len(s) - 1) : r[i] = s[i + 1]
            OBVIOUS
        <2> HIDE DEF r
        <2>2. ASSUME NEW i \in 1..Len(s), i # 1
              PROVE  i - 1 \in 1..Len(r) /\ r[i - 1] = s[i]
            <3>1. i - 1 \in 1..(Len(s) - 1) /\ (i - 1) + 1 = i
                BY <2>1, <2>2
            <3> QED
                BY <2>1, <3>1
        <2> QED
            BY <2>1, <2>2
    <1> HIDE DEF r
    <1>2. PICK i \in 1..Len(s) : s[i].kind = k
        BY DEF HasKind
    <1>3. ASSUME i # 1
          PROVE  HasKind(k, r)
        <2>1. i - 1 \in 1..Len(r) /\ r[i - 1].kind = k
            BY <1>1, <1>2, <1>3
        <2> QED
            BY <2>1 DEF HasKind
    <1> QED
        BY <1>1, <1>2, <1>3 DEF r

\* What a reader takes from a connection.
LEMMA Taking ==
    ASSUME IInv, SInv, NEW p \in Processes, Wire(p) # <<>>,
           UNCHANGED <<child, lldb, stop, sessions, hook>>,
           \A q \in Processes : link'[q].conn = link[q].conn /\ (q # p => Wire(q)' = Wire(q)),
           Wire(p)' = Tail(Wire(p)),
           \A q \in Processes : q # p => (Clears(q)' <=> Clears(q)),
           Clears(p)' => Clears(p),
           child[p].marked /\ ~stop => (Clears(p)' <=> Clears(p))
    PROVE  \A q \in Processes : Evolves(q) /\ (child[q].marked => SparesShown(q))
    <1>1. \A q \in Processes : Open(q)' <=> Open(q)
        BY DEF Open
    <1>2. ASSUME NEW q \in Processes, q # p
          PROVE  Evolves(q) /\ (child[q].marked => SparesShown(q))
        BY <1>1, <1>2, Untouched
    <1>3. Wire(p) \in Seq(Events \cup Replies)
        BY Boxes DEF IInv
    <1>4. \A w : HasAnswer(w, Tail(Wire(p))) => HasAnswer(w, Wire(p))
        BY <1>3, RemainingOf
    <1>5. Ordered(p)'
        BY <1>3, OrderOfRest DEF SInv, Ordered
    <1>6. Evolves(p)
        BY <1>5, StopsAre DEF Evolves
    <1>7. child[p].marked => SparesShown(p)
        BY <1>1, <1>4 DEF SparesShown
    <1> QED
        BY <1>2, <1>6, <1>7

LEMMA ReadsReplyShown ==
    ASSUME IInv, CInv, SInv, NEW p \in Processes, ReaderReads(p),
           Head(Wire(p)).kind \in {"answer", "refusal"}
    PROVE  SInv'
    <1> DEFINE m == Head(Wire(p))
    <1>1. /\ UNCHANGED <<child, lldb, stop, sessions, watcher, call, hook, frames, variables, seen>>
          /\ Open(p) /\ Wire(p) # <<>> /\ call[p] = Free
          /\ link' = [link EXCEPT ![p].wire = Tail(@)]
          /\ asked' = IF m.who # None /\ asked[m.who] = Waiting
                      THEN [asked EXCEPT ![m.who] = m] ELSE asked
        BY DEF ReaderReads, Open, Wire, world, manager, tables, editor
    <1>2. /\ \A q \in Processes : /\ link'[q].conn = link[q].conn
                                  /\ q # p => Wire(q)' = Wire(q)
          /\ Wire(p)' = Tail(Wire(p)) /\ Wire(p) \in Seq(Events \cup Replies)
        BY <1>1, ReadingOne, Boxes DEF IInv
    <1>3. HasKind("continued", Tail(Wire(p))) <=> HasKind("continued", Wire(p))
        BY <1>1, <1>2, RemainingOf, RestHas
    <1>4. \A q \in Processes : Clears(q)' <=> Clears(q)
        <2>1. Clears(p)' <=> Clears(p)
            BY <1>1, <1>2, <1>3 DEF Clears
        <2>2. \A q \in Processes : q # p => (Clears(q)' <=> Clears(q))
            BY <1>1, <1>2 DEF Clears
        <2> QED
            BY <2>1, <2>2
    <1>5. \A q \in Processes : Evolves(q) /\ (child[q].marked => SparesShown(q))
        BY <1>1, <1>2, <1>4, Taking
    <1>6. /\ Shown' /\ GivenAreLatest' /\ PresentStay' /\ StopsAreOfReleased' /\ IdsMeanOneStop'
          /\ \A q \in Processes : Ordered(q)'
        BY <1>1, <1>5, ShownKept DEF SInv
    <1>7. Dispatching'
        BY <1>1 DEF SInv, Dispatching
    <1>8. ASSUME NEW h \in Hooks
          PROVE  Fresh(h)' /\ Spares(h)'
        <2>1. CASE asked'[h] = asked[h] \/ asked'[h].kind # "answer"
            BY <1>1, <1>5, <2>1, HookKept DEF SInv, IInv
        <2>2. CASE asked'[h] # asked[h] /\ asked'[h].kind = "answer"
            <3>1. m.who = h /\ asked[h] = Waiting /\ asked'[h] = m /\ m.kind = "answer"
                BY <1>1, <2>2 DEF IInv, TypeOK
            <3> HIDE DEF m
            <3>2. IsFor(h, m) /\ HasFor(h, Wire(p)) /\ HasAnswer(h, Wire(p))
                BY <1>1, <1>2, <3>1, RemainingOf DEF IsFor, m
            <3>3. hook[h] # Free /\ hook[h].process = p
                BY <1>1, <3>2, AskersAre DEF CInv, Correspondence, Waits
            <3>4. /\ m.stop \in Nat /\ m.stop <= lldb[p].stops
                  /\ Lasts(p, m.stop) => ~HasKind("continued", Tail(Wire(p)))
                BY <1>1, <1>2, <3>1, OrderOfRest DEF SInv, Ordered, Lasts, m
            <3>5. Lasts(p, m.stop) => ~Clears(p)'
                BY <1>1, <1>2, <3>4 DEF Clears
            <3>6. Fresh(h)'
                BY <1>1, <3>1, <3>3, <3>4, <3>5 DEF Fresh, Lasts
            <3>7. Spares(h)'
                BY <1>1, <3>2, <3>3 DEF SInv, Spares, Lasts
            <3> QED
                BY <3>6, <3>7
        <2> QED
            BY <2>1, <2>2
    <1> QED
        BY <1>6, <1>7, <1>8 DEF SInv

LEMMA ReadsEofShown ==
    ASSUME IInv, CInv, SInv, NEW p \in Processes, ReaderReads(p),
           Head(Wire(p)).kind = "eof"
    PROVE  SInv'
    <1>1. /\ UNCHANGED <<child, lldb, stop, sessions, watcher, call, hook, frames, variables, seen>>
          /\ link' = [link EXCEPT ![p] = [conn |-> "ended", wire |-> <<>>]]
          /\ asked' = [w \in Askers |->
                          IF asked[w] = Waiting
                             /\ p = (IF w = Watcher THEN watcher.process ELSE hook[w].process)
                          THEN Reply("refusal", w, 0) ELSE asked[w]]
        BY DEF ReaderReads, Open, Wire, world, manager, tables, editor
    <1>2. ASSUME NEW h \in Hooks
          PROVE  asked'[h] = asked[h] \/ asked'[h].kind # "answer"
        <2>1. h \in Askers
            BY AskersAre
        <2>2. asked'[h] = asked[h] \/ asked'[h] = Reply("refusal", h, 0)
            BY <1>1, <2>1, Zenon
        <2> QED
            BY <2>2 DEF Reply
    <1>3. /\ \A q \in Processes : q # p => link'[q] = link[q]
          /\ link'[p].conn = "ended" /\ Wire(p)' = <<>>
        BY <1>1 DEF IInv, TypeOK, Wire
    <1>4. Evolves(p) /\ SparesShown(p)
        <2>1. Ordered(p)'
            BY <1>3 DEF Ordered, Old, Behind
        <2>2. Clears(p)' => Clears(p)
            BY <1>1, <1>3, NoMessage DEF Clears
        <2> QED
            BY <1>1, <1>3, <2>1, <2>2, StopsAre DEF Evolves, SparesShown, Open
    <1>5. ASSUME NEW q \in Processes, q # p
          PROVE  Evolves(q) /\ (child[q].marked => SparesShown(q))
        <2>1. /\ Wire(q)' = Wire(q) /\ (Open(q)' <=> Open(q))
              /\ Clears(q)' <=> Clears(q)
            BY <1>1, <1>3, <1>5 DEF Wire, Open, Clears
        <2> QED
            BY <1>1, <2>1, Untouched
    <1>6. Dispatching'
        BY <1>1 DEF SInv, Dispatching
    <1> QED
        BY <1>1, <1>2, <1>4, <1>5, <1>6, Kept DEF IInv

LEMMA ReadsEventShown ==
    ASSUME IInv, CInv, SInv, NEW p \in Processes, ReaderReads(p),
           Head(Wire(p)).kind \notin {"answer", "refusal", "eof"}
    PROVE  SInv'
    <1> DEFINE e == Head(Wire(p))
    <1>1. /\ UNCHANGED <<child, lldb, stop, sessions, asked, hook, frames, variables, seen>>
          /\ Open(p) /\ Wire(p) # <<>> /\ call[p] = Free
          /\ link' = [link EXCEPT ![p].wire = Tail(@)]
          /\ ReaderDispatches(p, e)
        BY DEF ReaderReads, Open, Wire, world, manager, tables, editor
    <1>2. /\ \A q \in Processes : /\ link'[q].conn = link[q].conn
                                  /\ q # p => Wire(q)' = Wire(q)
          /\ Wire(p)' = Tail(Wire(p)) /\ Wire(p) \in Seq(Events \cup Replies)
          /\ p \in Handlers
        BY <1>1, ReadingOne, Boxes, WatcherIsNoProcess DEF IInv
    <1>3. HasKind("continued", Wire(p)) <=> e.kind = "continued" \/ HasKind("continued", Tail(Wire(p)))
        BY <1>1, <1>2, RemainingOf, RestHas
    <1>4. e \in Events
        <2>1. e \in Events \cup Replies
            BY <1>1, <1>2, Remaining
        <2> QED
            BY <2>1 DEF Replies
    <1> HIDE DEF e
    <1>5. CASE p \in sessions
        <2>1. /\ call'[p] # Free /\ call'[p].at = "record" /\ call'[p].event = e
              /\ \A b \in Handlers : b # p => call'[b] = call[b]
              /\ watcher' = watcher
            BY <1>1, <1>2, <1>4, <1>5, Taken DEF ReaderDispatches, IInv
        <2>2. Dispatching'
            BY <2>1, WatcherIsNoProcess DEF SInv, Dispatching, e
        <2>3. Clears(p)' <=> Clears(p)
            BY <1>1, <1>2, <1>3, <2>1 DEF Clears
        <2>4. \A q \in Processes : q # p => (Clears(q)' <=> Clears(q))
            BY <1>2, <2>1, WatcherIsNoProcess DEF Clears
        <2>5. \A q \in Processes : Evolves(q) /\ (child[q].marked => SparesShown(q))
            BY <1>1, <1>2, <2>3, <2>4, Taking
        <2> QED
            BY <1>1, <2>2, <2>5, Kept DEF IInv
    <1>6. CASE p \notin sessions
        <2>1. call' = call /\ watcher'.at = watcher.at /\ watcher'.process = watcher.process
            <3>1. CASE watcher.process = p
                BY <1>1, <1>6, <3>1, StartIsOf DEF ReaderDispatches, IInv, Starts
            <3>2. CASE watcher.process # p
                BY <1>1, <1>6, <3>2 DEF ReaderDispatches
            <3> QED
                BY <3>1, <3>2
        <2>2. Dispatching'
            BY <2>1 DEF SInv, Dispatching
        <2>3. Clears(p)' => Clears(p)
            BY <1>1, <1>2, <1>3, <2>1 DEF Clears
        <2>4. \A q \in Processes : q # p => (Clears(q)' <=> Clears(q))
            BY <1>2, <2>1 DEF Clears
        <2>5. child[p].marked => stop
            BY <1>1, <1>6, ReleasedAre DEF SInv, Free
        <2>6. \A q \in Processes : Evolves(q) /\ (child[q].marked => SparesShown(q))
            BY <1>1, <1>2, <2>3, <2>4, <2>5, Taking
        <2> QED
            BY <1>1, <2>2, <2>6, Kept DEF IInv
    <1> QED
        BY <1>5, <1>6

LEMMA StartBeginsShown ==
    ASSUME IInv, CInv, SInv, NEW p \in Processes, StartBegins(p)
    PROVE  SInv'
    <1>1. /\ UNCHANGED <<child, lldb, stop, sessions, asked, call, hook, frames, variables, seen>>
          /\ link' = [link EXCEPT ![p] = [conn |-> "open", wire |-> <<>>]]
          /\ watcher = Asleep
        BY DEF StartBegins, world, manager, tables, editor
    <1>2. ~child[p].marked
        BY DEF StartBegins, IInv, Past, Had
    <1>3. /\ \A q \in Processes : q # p => link'[q] = link[q]
          /\ Wire(p)' = <<>>
        BY <1>1 DEF IInv, TypeOK, Wire
    <1>4. ASSUME NEW q \in Processes, q # p
          PROVE  Evolves(q) /\ (child[q].marked => SparesShown(q))
        <2>1. /\ Wire(q)' = Wire(q) /\ (Open(q)' <=> Open(q)) /\ (Clears(q)' <=> Clears(q))
            BY <1>1, <1>3, <1>4 DEF Wire, Open, Clears
        <2> QED
            BY <1>1, <2>1, Untouched
    <1>5. Evolves(p)
        <2>1. Ordered(p)'
            BY <1>3 DEF Ordered, Old, Behind
        <2>2. Clears(p)' => Clears(p)
            BY <1>1, <1>3, NoMessage DEF Clears
        <2> QED
            BY <1>1, <2>1, <2>2, StopsAre DEF Evolves
    <1>6. Dispatching'
        BY <1>1 DEF SInv, Dispatching, Asleep
    <1> QED
        BY <1>1, <1>2, <1>4, <1>5, <1>6, Kept DEF IInv

LEMMA AsksOnly ==
    ASSUME IInv, NEW w \in Askers, NEW p \in Processes, NEW kind, NEW t, Asks(w, p, kind, t)
    PROVE  /\ \A q \in Processes : lldb'[q].state = lldb[q].state /\ lldb'[q].stops = lldb[q].stops
           /\ asked'[w] = Waiting /\ \A v \in Askers : v # w => asked'[v] = asked[v]
    <1>1. lldb \in [Processes -> Engines] /\ asked \in [Askers -> Replies \cup {Unasked, Waiting}]
        BY DEF IInv, TypeOK
    <1> QED
        BY <1>1 DEF Asks, Engines

LEMMA StartAsksShown ==
    ASSUME IInv, CInv, SInv, StartAsks
    PROVE  SInv'
    <1>1. /\ UNCHANGED <<child, link, stop, sessions, watcher, call, hook, frames, variables, seen>>
          /\ Asks(Watcher, watcher.process, watcher.at, None) /\ watcher.process \in Processes
        <2>1. watcher.process \in Processes
            BY StartIsOf, PhaseAfter DEF StartAsks, IInv
        <2> QED
            BY <2>1 DEF StartAsks, manager, tables, editor
    <1>2. /\ \A q \in Processes : lldb'[q].state = lldb[q].state /\ lldb'[q].stops = lldb[q].stops
          /\ \A h \in Hooks : asked'[h] = asked[h]
        BY <1>1, AsksOnly, AskersAre
    <1>3. Dispatching' /\ \A p \in Processes : Clears(p)' <=> Clears(p)
        BY <1>1 DEF SInv, Dispatching, Clears, Wire
    <1> QED
        BY <1>1, <1>2, <1>3, SilenceKeeps

\* h begins or ends a request.
LEMMA HookMovesShown ==
    ASSUME IInv, CInv, SInv, NEW h \in Hooks,
           UNCHANGED <<child, link, stop, sessions, watcher, call, frames, variables, seen>>,
           \A q \in Processes : lldb'[q].state = lldb[q].state /\ lldb'[q].stops = lldb[q].stops,
           \A g \in Hooks : g # h => hook'[g] = hook[g] /\ asked'[g] = asked[g],
           \/ hook'[h] = Free
           \/ /\ asked[h] = Unasked /\ asked'[h] = Waiting
              /\ hook'[h].process \in Processes
    PROVE  SInv'
    <1>1. \A q \in Processes :
              Wire(q)' = Wire(q) /\ (Open(q)' <=> Open(q)) /\ (Clears(q)' <=> Clears(q))
        BY DEF Wire, Open, Clears
    <1>2. \A q \in Processes : Evolves(q) /\ (child[q].marked => SparesShown(q))
        BY <1>1, Untouched
    <1>3. /\ Shown' /\ GivenAreLatest' /\ PresentStay' /\ StopsAreOfReleased' /\ IdsMeanOneStop'
          /\ Dispatching' /\ \A q \in Processes : Ordered(q)'
        BY <1>2, ShownKept DEF SInv, Dispatching
    <1>4. ASSUME NEW g \in Hooks, g # h
          PROVE  Fresh(g)' /\ Spares(g)'
        BY <1>2, <1>4, HookKept DEF SInv, IInv
    <1>5. Fresh(h)' /\ Spares(h)'
        <2>1. CASE hook'[h] = Free
            BY <2>1 DEF Fresh, Spares
        <2>2. CASE /\ asked[h] = Unasked /\ asked'[h] = Waiting
                   /\ hook'[h].process \in Processes
            <3>1. \A q \in Processes : Open(q) => ~HasFor(h, Wire(q))
                BY <2>2, AskersAre DEF CInv, Correspondence, Waits, Unasked, Waiting
            <3>2. \A q \in Processes : Open(q) => ~HasAnswer(h, Wire(q))
                BY <3>1 DEF HasFor, HasAnswer
            <3>3. asked'[h].kind # "answer"
                BY <2>2 DEF Waiting
            <3> QED
                BY <1>1, <2>2, <3>2, <3>3 DEF Fresh, Spares
        <2> QED
            BY <2>1, <2>2
    <1> QED
        BY <1>3, <1>4, <1>5 DEF SInv

LEMMA HookAsksShown ==
    ASSUME IInv, CInv, SInv, NEW h \in Hooks, EditorAsks(h)
    PROVE  SInv'
    <1>1. PICK p \in Processes : \E t, kind : HookAsks(h, p, t, kind)
        <2>1. ASSUME NEW p \in Processes, NEW t \in Threads,
                     EditorAsksStack(h, p, t) \/ EditorResumes(h, p, t)
              PROVE  \E q \in Processes : \E u, k : HookAsks(h, q, u, k)
            BY <2>1 DEF EditorAsksStack, EditorResumes
        <2>2. ASSUME NEW table \in {frames, variables}, EditorInspects(h, table.routes)
              PROVE  \E q \in Processes : \E u, k : HookAsks(h, q, u, k)
            <3>1. \A id \in DOMAIN table.routes : table.routes[id] \in Keys
                BY DEF IInv, TypeOK, IsTable
            <3>2. \A id \in DOMAIN table.routes : table.routes[id].process \in Processes
                BY <3>1 DEF Keys
            <3> QED
                BY <2>2, <3>2 DEF EditorInspects
        <2> QED
            BY <2>1, <2>2 DEF EditorAsks
    <1>2. PICK t, kind : HookAsks(h, p, t, kind)
        BY <1>1
    <1>3. /\ UNCHANGED <<child, link, stop, sessions, watcher, call, frames, variables, seen>>
          /\ hook[h] = Free /\ Asks(h, p, kind, t)
          /\ hook' = [hook EXCEPT ![h] = [at |-> kind, process |-> p, thread |-> t]]
        BY <1>2 DEF HookAsks, manager, tables, editor
    <1>4. /\ \A q \in Processes : lldb'[q].state = lldb[q].state /\ lldb'[q].stops = lldb[q].stops
          /\ asked'[h] = Waiting /\ \A g \in Hooks : g # h => asked'[g] = asked[g]
        BY <1>3, AsksOnly, AskersAre
    <1>5. asked[h] = Unasked
        BY <1>3 DEF CInv, Asking
    <1>6. hook'[h].process = p /\ \A g \in Hooks : g # h => hook'[g] = hook[g]
        BY <1>3 DEF IInv, TypeOK
    <1> QED
        BY <1>3, <1>4, <1>5, <1>6, HookMovesShown

\* h has ended its request.
LEMMA HookIsDone ==
    ASSUME IInv, NEW h \in Hooks, HookEnds(h)
    PROVE  /\ hook'[h] = Free
           /\ \A g \in Hooks : g # h => hook'[g] = hook[g] /\ asked'[g] = asked[g]
    BY DEF HookEnds, IInv, TypeOK, Askers

LEMMA HookGivesUpShown ==
    ASSUME IInv, CInv, SInv, NEW h \in Hooks, HookRefused(h) \/ HookTimesOut(h)
    PROVE  SInv'
    <1>1. /\ UNCHANGED <<child, lldb, link, stop, sessions, watcher, call, frames, variables, seen>>
          /\ HookEnds(h)
        BY DEF HookRefused, HookTimesOut, world, manager, tables, editor
    <1> QED
        BY <1>1, HookIsDone, HookMovesShown

LEMMA WithoutIds ==
    ASSUME NEW K, NEW table, NEW gone, IsTable(table, K)
    PROVE  /\ Without(table, gone).next = table.next
           /\ \A id \in DOMAIN Without(table, gone).routes :
                  /\ id \in DOMAIN table.routes /\ table.routes[id] \notin gone
                  /\ Without(table, gone).routes[id] = table.routes[id]
           /\ \A id \in DOMAIN table.routes :
                  table.routes[id] \notin gone => id \in DOMAIN Without(table, gone).routes
    <1> DEFINE k == Restrict(table.keys, DOMAIN table.keys \ gone)
               r == Restrict(table.routes,
                             {id \in DOMAIN table.routes : table.routes[id] \notin gone})
    <1>1. Without(table, gone).routes = r /\ Without(table, gone).next = table.next
        <2>1. Without(table, gone) = [table EXCEPT !.keys = k, !.routes = r]
            BY DEF Without
        <2> HIDE DEF k, r
        <2> QED
            BY <2>1 DEF IsTable
    <1>2. /\ DOMAIN r = {id \in DOMAIN table.routes : table.routes[id] \notin gone}
          /\ \A y \in DOMAIN r : r[y] = table.routes[y]
        BY DEF Restrict
    <1> HIDE DEF r
    <1> QED
        BY <1>1, <1>2

LEMMA AllocatedIds ==
    ASSUME NEW K, NEW table, NEW key \in K, IsTable(table, K), Agrees(table)
    PROVE  /\ IdFor(table, key) \in DOMAIN Allocated(table, key).routes
           /\ Allocated(table, key).routes[IdFor(table, key)] = key
           /\ IdFor(table, key) \in Nat /\ IdFor(table, key) < Allocated(table, key).next
           /\ table.next \in Nat /\ table.next <= Allocated(table, key).next
           /\ \A id \in DOMAIN table.routes :
                  /\ id \in DOMAIN Allocated(table, key).routes
                  /\ Allocated(table, key).routes[id] = table.routes[id]
           /\ \A id \in DOMAIN Allocated(table, key).routes :
                  id < table.next => id \in DOMAIN table.routes
           /\ IdFor(table, key) < table.next =>
                  IdFor(table, key) \in DOMAIN table.routes /\ table.routes[IdFor(table, key)] = key
    <1>1. CASE key \in DOMAIN table.keys
        <2>1. /\ Allocated(table, key) = table /\ IdFor(table, key) = table.keys[key]
              /\ table.keys[key] \in DOMAIN table.routes /\ table.routes[table.keys[key]] = key
              /\ table.next \in Nat /\ DOMAIN table.routes \subseteq Nat
            BY <1>1 DEF Allocated, IdFor, Agrees, IsTable
        <2>2. table.keys[key] < table.next
            BY <2>1 DEF Agrees
        <2> QED
            BY <2>1, <2>2
    <1>2. CASE key \notin DOMAIN table.keys
        <2> DEFINE r == Extended(table.routes, table.next, key)
        <2>1. /\ Allocated(table, key).routes = r /\ Allocated(table, key).next = table.next + 1
              /\ IdFor(table, key) = table.next
            BY <1>2 DEF Allocated, IdFor
        <2>2. table.next \in Nat /\ table.next \notin DOMAIN table.routes
              /\ DOMAIN table.routes \subseteq Nat
            BY DEF Agrees, IsTable
        <2>3. /\ DOMAIN r = DOMAIN table.routes \cup {table.next}
              /\ \A y \in DOMAIN table.routes : r[y] = table.routes[y]
              /\ r[table.next] = key
            BY <2>2 DEF Extended
        <2> HIDE DEF r
        <2> QED
            BY <2>1, <2>2, <2>3
    <1> QED
        BY <1>1, <1>2

\* What is left of the ids shown.
LEMMA LeftShown ==
    ASSUME IInv, SInv, NEW p \in Processes, NEW A, NEW B,
           frames' = Without(frames, A), variables' = Without(variables, B),
           \A key \in DOMAIN frames.keys : key \in A => key.process = p,
           \A key \in DOMAIN variables.keys : key \in B => key.process = p
    PROVE  /\ \A T \in {"frame", "variable"} : \A id :
                  id \in DOMAIN Routes(T)' =>
                      id \in DOMAIN Routes(T) /\ Routes(T)'[id] = Routes(T)[id]
           /\ \A x : TableOf(x)'.next = TableOf(x).next
           /\ \A x \in seen : /\ Given(x)' => Given(x)
                              /\ Given(x) /\ x.process # p => Given(x)'
    <1>1. /\ \A id \in DOMAIN frames'.routes :
                 id \in DOMAIN frames.routes /\ frames'.routes[id] = frames.routes[id]
          /\ \A id \in DOMAIN frames.routes :
                 frames.routes[id].process # p => id \in DOMAIN frames'.routes
          /\ frames'.next = frames.next
        <2>1. \A id \in DOMAIN frames.routes : frames.routes[id] \in DOMAIN frames.keys
            BY DEF IInv, RoutesAgree, Agrees
        <2> QED
            BY <2>1, WithoutIds DEF IInv, TypeOK
    <1>2. /\ \A id \in DOMAIN variables'.routes :
                 id \in DOMAIN variables.routes /\ variables'.routes[id] = variables.routes[id]
          /\ \A id \in DOMAIN variables.routes :
                 variables.routes[id].process # p => id \in DOMAIN variables'.routes
          /\ variables'.next = variables.next
        <2>1. \A id \in DOMAIN variables.routes : variables.routes[id] \in DOMAIN variables.keys
            BY DEF IInv, RoutesAgree, Agrees
        <2> QED
            BY <2>1, WithoutIds DEF IInv, TypeOK
    <1>3. \A T \in {"frame", "variable"} : \A id :
              id \in DOMAIN Routes(T)' =>
                  id \in DOMAIN Routes(T) /\ Routes(T)'[id] = Routes(T)[id]
        BY <1>1, <1>2 DEF Routes
    <1>4. \A x : TableOf(x)'.next = TableOf(x).next
        BY <1>1, <1>2 DEF TableOf
    <1>5. \A x \in seen : Given(x)' => Given(x)
        BY <1>3 DEF Given, SInv, Shown
    <1>6. ASSUME NEW x \in seen, Given(x), x.process # p
          PROVE  Given(x)'
        <2>1. x.table \in {"frame", "variable"} /\ Routes(x.table)[x.id].process = x.process
            BY <1>6 DEF SInv, Shown
        <2>2. CASE x.table = "frame"
            BY <1>1, <1>6, <2>1, <2>2 DEF Given, Routes
        <2>3. CASE x.table = "variable"
            BY <1>2, <1>6, <2>1, <2>3 DEF Given, Routes
        <2> QED
            BY <2>1, <2>2, <2>3
    <1> QED
        BY <1>3, <1>4, <1>5, <1>6

LEMMA HookResumedShown ==
    ASSUME IInv, CInv, SInv, NEW h \in Hooks, HookResumed(h)
    PROVE  SInv'
    <1>1. /\ UNCHANGED <<child, lldb, link, stop, sessions, watcher, call, seen>>
          /\ HookEnds(h) /\ hook[h].at = "continue" /\ asked[h].kind = "answer"
        BY DEF HookResumed, world, manager, editor
    <1>2. PICK p \in Processes : p = hook[h].process /\ hook[h] # Free
        BY <1>1 DEF IInv, TypeOK, Served, Free
    <1>3. \E A, B : /\ frames' = Without(frames, A) /\ variables' = Without(variables, B)
                    /\ \A key \in DOMAIN frames.keys : key \in A => key.process = p
                    /\ \A key \in DOMAIN variables.keys : key \in B => key.process = p
        <2> DEFINE A == {key \in DOMAIN frames.keys :
                             key.process = p /\ key.thread = hook[h].thread}
                   B == {key \in DOMAIN variables.keys :
                             key.process = p /\ key.thread = hook[h].thread}
        <2>1. frames' = Without(frames, A) /\ variables' = Without(variables, B)
            BY <1>2 DEF HookResumed, WithoutThread
        <2>2. /\ \A key \in DOMAIN frames.keys : key \in A => key.process = p
              /\ \A key \in DOMAIN variables.keys : key \in B => key.process = p
            OBVIOUS
        <2> HIDE DEF A, B
        <2> QED
            BY <2>1, <2>2
    <1>4. /\ \A T \in {"frame", "variable"} : \A id :
                 id \in DOMAIN Routes(T)' =>
                     id \in DOMAIN Routes(T) /\ Routes(T)'[id] = Routes(T)[id]
          /\ \A x : TableOf(x)'.next = TableOf(x).next
          /\ \A x \in seen : /\ Given(x)' => Given(x)
                             /\ Given(x) /\ x.process # p => Given(x)'
        BY <1>3, LeftShown
    <1>5. Shown'
        BY <1>1, <1>4 DEF SInv, Shown, Given
    <1>6. \A q \in Processes : Clears(q)' <=> Clears(q)
        BY <1>1 DEF Clears, Wire
    <1>7. GivenAreLatest'
        BY <1>1, <1>4, <1>6 DEF SInv, GivenAreLatest, Latest, Open, Shown
    <1>8. PresentStay'
        <2> SUFFICES ASSUME NEW x \in seen, x.alone, Lasts(x.process, x.stop)
                     PROVE  ~Clears(x.process) /\ (x.process \in sessions => Given(x)')
            BY <1>1, <1>6 DEF PresentStay, SInv, Shown, Lasts
        <2>1. x.process # p
            BY <1>1, <1>2 DEF SInv, Spares
        <2> QED
            BY <1>4, <2>1 DEF SInv, PresentStay
    <1>9. /\ IdsMeanOneStop' /\ Dispatching' /\ StopsAreOfReleased'
          /\ \A q \in Processes : Ordered(q)'
        BY <1>1 DEF SInv, IdsMeanOneStop, Dispatching, StopsAreOfReleased, Ordered, Wire
    <1>10. ASSUME NEW g \in Hooks
           PROVE  Fresh(g)' /\ Spares(g)'
        BY <1>1, <1>10, HookIsDone DEF SInv, Fresh, Spares, Lasts, Clears, Open, Wire
    <1> QED
        BY <1>5, <1>7, <1>8, <1>9, <1>10 DEF SInv

LEMMA HandlesClearShown ==
    ASSUME IInv, CInv, SInv, NEW a \in Handlers, HandlesClear(a)
    PROVE  SInv'
    <1>1. /\ UNCHANGED <<child, lldb, link, stop, sessions, watcher, asked, hook, seen>>
          /\ call[a].at = "clear" /\ call[a] # Free
        BY Busy DEF HandlesClear, At, world, manager, editor, IInv
    <1>2. PICK p \in Processes : p = call[a].process /\ (a \in Processes => a = p)
        BY <1>1, Busy DEF IInv
    <1>3. \E A, B : /\ frames' = Without(frames, A) /\ variables' = Without(variables, B)
                    /\ A = {key \in DOMAIN frames.keys : key.process = p}
                    /\ B = {key \in DOMAIN variables.keys : key.process = p}
        BY <1>2 DEF HandlesClear, WithoutProcess
    <1>4. /\ \A T \in {"frame", "variable"} : \A id :
                 id \in DOMAIN Routes(T)' =>
                     id \in DOMAIN Routes(T) /\ Routes(T)'[id] = Routes(T)[id]
          /\ \A x : TableOf(x)'.next = TableOf(x).next
          /\ \A x \in seen : /\ Given(x)' => Given(x)
                             /\ Given(x) /\ x.process # p => Given(x)'
        <2>1. \E A, B : /\ frames' = Without(frames, A) /\ variables' = Without(variables, B)
                        /\ \A key \in DOMAIN frames.keys : key \in A => key.process = p
                        /\ \A key \in DOMAIN variables.keys : key \in B => key.process = p
            BY <1>3
        <2> QED
            BY <2>1, LeftShown
    <1>5. \A x \in seen : Given(x)' => x.process # p
        <2> SUFFICES ASSUME NEW x \in seen, Given(x)', x.process = p
                     PROVE  FALSE
            OBVIOUS
        <2>1. /\ Given(x) /\ x.table \in {"frame", "variable"}
              /\ Routes(x.table)[x.id].process = p
            BY <1>4 DEF SInv, Shown
        <2>2. CASE x.table = "frame"
            <3>1. /\ x.id \in DOMAIN frames'.routes /\ x.id \in DOMAIN frames.routes
                  /\ frames.routes[x.id].process = p
                BY <2>1, <2>2 DEF Given, Routes
            <3>2. frames.routes[x.id] \in DOMAIN frames.keys
                BY <3>1 DEF IInv, RoutesAgree, Agrees
            <3>3. PICK A : frames' = Without(frames, A)
                           /\ A = {key \in DOMAIN frames.keys : key.process = p}
                BY <1>3
            <3>4. frames.routes[x.id] \notin A
                BY <3>1, <3>3, WithoutIds DEF IInv, TypeOK
            <3> QED
                BY <3>1, <3>2, <3>3, <3>4
        <2>3. CASE x.table = "variable"
            <3>1. /\ x.id \in DOMAIN variables'.routes /\ x.id \in DOMAIN variables.routes
                  /\ variables.routes[x.id].process = p
                BY <2>1, <2>3 DEF Given, Routes
            <3>2. variables.routes[x.id] \in DOMAIN variables.keys
                BY <3>1 DEF IInv, RoutesAgree, Agrees
            <3>3. PICK A : variables' = Without(variables, A)
                           /\ A = {key \in DOMAIN variables.keys : key.process = p}
                BY <1>3
            <3>4. variables.routes[x.id] \notin A
                BY <3>1, <3>3, WithoutIds DEF IInv, TypeOK
            <3> QED
                BY <3>1, <3>2, <3>3, <3>4
        <2> QED
            BY <2>1, <2>2, <2>3
    <1>6. /\ \A b \in Handlers : b # a => call'[b] = call[b]
          /\ call'[a] # Free /\ call'[a].at \in {"retire", "tell"}
          /\ call'[a].process = p /\ call'[a].event = call[a].event
        <2>1. PICK step \in {"retire", "tell"} : Moves(a, step)
            BY DEF HandlesClear
        <2> QED
            BY <1>1, <1>2, <2>1, Moved DEF IInv
    <1>7. /\ \A q \in Processes : Clears(q)' => Clears(q)
          /\ \A q \in Processes : q # p => (Clears(q)' <=> Clears(q))
        <2>1. \A q \in Processes : Wire(q)' = Wire(q) /\ q \in Handlers /\ q # Watcher
            BY <1>1, WatcherIsNoProcess DEF Wire
        <2>2. \A q \in Processes : q # a => call'[q] = call[q]
            BY <1>6, <2>1
        <2>3. \A q \in Processes : q # p => q # a
            BY <1>2
        <2> QED
            BY <1>6, <2>1, <2>2, <2>3 DEF Clears
    <1>8. child[p].marked =>
              /\ lldb[p].state = "stopped" => Clears(p)
        <2> SUFFICES ASSUME child[p].marked, lldb[p].state = "stopped"
                     PROVE  Clears(p)
            OBVIOUS
        <2>1. a = p
            BY <1>1, <1>2, ReleasedAre, WatcherIsNoProcess DEF SInv
        <2>2. call[p].event.kind \in {"continued", "exited"}
            <3>1. call[p].event \in Events /\ call[p].event.kind \notin {"stopped", "eof"}
                BY <1>1, <2>1, Busy DEF IInv, SInv, Dispatching
            <3> QED
                BY <3>1 DEF Events
        <2>3. call[p].event.kind # "exited"
            <3>1. HandlesEnd(a) => child[p].life = "gone"
                BY <1>2 DEF IInv, Over
            <3> QED
                BY <1>1, <2>1, <3>1 DEF HandlesEnd, IInv, GoneIsNotDebugged, Debugged
        <2> QED
            BY <1>1, <2>1, <2>2, <2>3 DEF Clears
    <1>9. Shown'
        BY <1>1, <1>4 DEF SInv, Shown, Given
    <1>10. GivenAreLatest'
        BY <1>1, <1>4, <1>5, <1>7 DEF SInv, GivenAreLatest, Latest, Open, Shown
    <1>11. PresentStay'
        <2> SUFFICES ASSUME NEW x \in seen, x.alone, Lasts(x.process, x.stop)
                     PROVE  ~Clears(x.process)' /\ (x.process \in sessions => Given(x)')
            BY <1>1 DEF PresentStay, Lasts
        <2>1. /\ x.process \in Processes /\ child[x.process].marked
              /\ lldb[x.process].state = "stopped"
              /\ ~Clears(x.process) /\ (x.process \in sessions => Given(x))
            BY DEF SInv, PresentStay, Shown, Lasts
        <2>2. x.process # p
            BY <1>8, <2>1
        <2> QED
            BY <1>4, <1>7, <2>1, <2>2
    <1>12. IdsMeanOneStop' /\ StopsAreOfReleased' /\ \A q \in Processes : Ordered(q)'
        BY <1>1 DEF SInv, IdsMeanOneStop, StopsAreOfReleased, Ordered, Wire
    <1>13. Dispatching'
        <2>1. Dispatching /\ \A q \in Processes : q \in Handlers /\ q # Watcher
            BY WatcherIsNoProcess DEF SInv
        <2>2. call'[Watcher] # Free =>
                  watcher.at = "drain" /\ watcher.process = call'[Watcher].process
            BY <1>1, <1>2, <1>6, <2>1, WatcherIsNoProcess DEF Dispatching
        <2>3. ASSUME NEW q \in Processes, call'[q] # Free
              PROVE  /\ call'[q].event.kind # "eof"
                     /\ call'[q].at = "clear" => call'[q].event.kind # "stopped"
            BY <1>1, <1>6, <2>1, <2>3 DEF Dispatching
        <2> QED
            BY <1>1, <2>2, <2>3 DEF Dispatching
    <1>14. ASSUME NEW g \in Hooks
           PROVE  Fresh(g)' /\ Spares(g)'
        <2>1. CASE hook[g] = Free
            BY <1>1, <2>1 DEF Fresh, Spares
        <2>2. CASE hook[g] # Free
            <3>1. PICK q \in Processes : q = hook[g].process
                BY <2>2 DEF IInv, TypeOK, Served
            <3>2. Clears(q)' => Clears(q)
                BY <1>7
            <3> QED
                BY <1>1, <3>1, <3>2 DEF SInv, Fresh, Spares, Lasts, Open, Wire
        <2> QED
            BY <2>1, <2>2
    <1> QED
        BY <1>9, <1>10, <1>11, <1>12, <1>13, <1>14 DEF SInv

\* h shows what it has read.
LEMMA HookShowsShown ==
    ASSUME IInv, CInv, SInv, NEW h \in Hooks, NEW n \in Natives,
           HookShowsStack(h, n) \/ HookShowsVariable(h, n)
    PROVE  SInv'
    <1> DEFINE T == IF HookShowsStack(h, n) THEN "frame" ELSE "variable"
    <1>1. /\ UNCHANGED <<child, lldb, link, stop, sessions, watcher, call>>
          /\ HookEnds(h) /\ asked[h].kind = "answer" /\ hook[h] # Free
        BY DEF HookShowsStack, HookShowsVariable, world, manager, Free
    <1>2. PICK p \in Processes, key \in Keys :
              p = hook[h].process /\ key = Key(h, n) /\ key.process = p
        <2>1. hook[h] \in Served
            BY <1>1 DEF IInv, TypeOK
        <2>2. Key(h, n) \in Keys /\ Key(h, n).process = hook[h].process
            BY <2>1 DEF Served, Key, Keys
        <2>3. hook[h].process \in Processes
            BY <2>1 DEF Served
        <2> QED
            BY <2>2, <2>3
    <1>3. PICK table, after, id, other :
              /\ table = (IF T = "frame" THEN frames ELSE variables)
              /\ after = Allocated(table, key) /\ id = IdFor(table, key)
              /\ frames' = (IF T = "frame" THEN after ELSE frames)
              /\ variables' = (IF T = "frame" THEN variables ELSE after)
              /\ other = [table |-> T, id |-> id, process |-> p, stop |-> asked[h].stop,
                          alone |-> ~Resuming(p)]
              /\ seen' = IF Lasts(p, asked[h].stop) THEN seen \cup {other} ELSE seen
        <2> DEFINE b == IF T = "frame" THEN frames ELSE variables
                   i == IdFor(b, key)
                   x == [table |-> T, id |-> i, process |-> p, stop |-> asked[h].stop,
                         alone |-> ~Resuming(p)]
        <2>1. Shows(T, h, i)
            BY <1>2 DEF HookShowsStack, HookShowsVariable
        <2>2. seen' = IF Lasts(p, asked[h].stop) THEN seen \cup {x} ELSE seen
            BY <1>2, <2>1, Zenon DEF Shows
        <2>3. /\ frames' = (IF T = "frame" THEN Allocated(b, key) ELSE frames)
              /\ variables' = (IF T = "frame" THEN variables ELSE Allocated(b, key))
            BY <1>2 DEF HookShowsStack, HookShowsVariable
        <2> HIDE DEF x, b, i
        <2> QED
            BY <2>2, <2>3, Zenon DEF x, b, i
    <1>4. T \in {"frame", "variable"}
        OBVIOUS
    <1> HIDE DEF T
    <1>5. /\ id \in DOMAIN after.routes /\ after.routes[id] = key
          /\ id \in Nat /\ id < after.next
          /\ table.next \in Nat /\ table.next <= after.next /\ after.next \in Nat
          /\ \A i \in DOMAIN table.routes :
                 i \in DOMAIN after.routes /\ after.routes[i] = table.routes[i]
          /\ \A i \in DOMAIN after.routes : i < table.next => i \in DOMAIN table.routes
          /\ id < table.next => id \in DOMAIN table.routes /\ table.routes[id] = key
        <2>1. IsTable(table, Keys) /\ Agrees(table)
            BY <1>3 DEF IInv, TypeOK, RoutesAgree
        <2>2. IsTable(after, Keys)
            BY <1>3, <2>1, AllocatedTable
        <2> QED
            BY <1>3, <2>1, <2>2, AllocatedIds DEF IsTable
    <1>6. ASSUME NEW x \in seen
          PROVE  /\ x.table \in {"frame", "variable"} /\ x.process \in Processes
                 /\ x.stop \in Nat /\ x.stop <= lldb[x.process].stops
                 /\ child[x.process].marked
                 /\ x.id \in Nat /\ x.id < TableOf(x).next
                 /\ Given(x) => Routes(x.table)[x.id].process = x.process
        BY DEF SInv, Shown
    <1>7. ASSUME NEW x \in seen
          PROVE  /\ Given(x)' <=> Given(x)
                 /\ Given(x) => Routes(x.table)'[x.id] = Routes(x.table)[x.id]
                 /\ x.id < TableOf(x)'.next
        <2>1. CASE x.table = T
            <3>1. /\ Routes(x.table) = table.routes /\ Routes(x.table)' = after.routes
                  /\ TableOf(x) = table /\ TableOf(x)' = after
                BY <1>3, <1>4, <2>1 DEF Routes, TableOf
            <3>2. x.id \in Nat /\ x.id < table.next /\ x.id < after.next
                BY <1>5, <1>6, <3>1
            <3> QED
                BY <1>5, <3>1, <3>2 DEF Given
        <2>2. CASE x.table # T
            <3>1. Routes(x.table)' = Routes(x.table) /\ TableOf(x)' = TableOf(x)
                BY <1>3, <1>4, <1>6, <2>2 DEF Routes, TableOf
            <3> QED
                BY <1>6, <3>1 DEF Given
        <2> QED
            BY <2>1, <2>2
    <1>8. /\ Given(other)' /\ Routes(other.table)'[other.id].process = p
          /\ other.id \in Nat /\ other.id < TableOf(other)'.next
          /\ other.process = p /\ other.stop = asked[h].stop /\ other.table = T /\ other.id = id
        BY <1>2, <1>3, <1>4, <1>5 DEF Given, Routes, TableOf
    <1>9. /\ \A x \in seen' : x \in seen \/ (x = other /\ Lasts(p, other.stop))
          /\ other.alone = ~Resuming(p)
        BY <1>3, <1>8
    <1>10. ASSUME Lasts(p, other.stop)
           PROVE  /\ child[p].marked /\ Open(p) /\ ~Clears(p) /\ Latest(p, other.stop)
                  /\ other.stop \in Nat /\ other.stop <= lldb[p].stops
                  /\ ~stop => \A x \in seen : Given(x) /\ x.process = p => x.stop = other.stop
        <2>1. child[p].marked /\ Open(p)
            BY <1>10 DEF SInv, StopsAreOfReleased, Lasts, CInv, Endings
        <2>2. ~Clears(p) /\ other.stop \in Nat /\ other.stop <= lldb[p].stops
            BY <1>1, <1>2, <1>8, <1>10 DEF SInv, Fresh
        <2>3. Latest(p, other.stop)
            BY <1>10 DEF Latest, Lasts
        <2>4. ASSUME ~stop, NEW x \in seen, Given(x), x.process = p
              PROVE  x.stop = other.stop
            BY <1>10, <2>1, <2>2, <2>4 DEF SInv, GivenAreLatest, Latest, Lasts
        <2> QED
            BY <2>1, <2>2, <2>3, <2>4
    <1>11. /\ \A q \in Processes : (Clears(q)' <=> Clears(q)) /\ (Open(q)' <=> Open(q))
           /\ \A q \in Processes : Wire(q)' = Wire(q)
           /\ \A q \in Processes : \A k : (Latest(q, k)' <=> Latest(q, k))
                                          /\ (Lasts(q, k)' <=> Lasts(q, k))
        BY <1>1 DEF Clears, Wire, Open, Latest, Lasts
    <1>12. Shown'
        <2>1. \A x \in seen :
                  (/\ x.table \in {"frame", "variable"} /\ x.process \in Processes
                   /\ x.stop \in Nat /\ x.stop <= lldb[x.process].stops
                   /\ child[x.process].marked
                   /\ x.id \in Nat /\ x.id < TableOf(x).next
                   /\ Given(x) => Routes(x.table)[x.id].process = x.process)'
            BY <1>1, <1>6, <1>7
        <2>2. Lasts(p, other.stop) =>
                  (/\ other.table \in {"frame", "variable"} /\ other.process \in Processes
                   /\ other.stop \in Nat /\ other.stop <= lldb[other.process].stops
                   /\ child[other.process].marked
                   /\ other.id \in Nat /\ other.id < TableOf(other).next
                   /\ Given(other) => Routes(other.table)[other.id].process = other.process)'
            BY <1>1, <1>2, <1>4, <1>8, <1>10
        <2> QED
            BY <1>9, <2>1, <2>2 DEF Shown
    <1>13. GivenAreLatest'
        <2> SUFFICES ASSUME ~stop, NEW x \in seen', Given(x)', Open(x.process)'
                     PROVE  Latest(x.process, x.stop)' \/ Clears(x.process)'
            BY <1>1 DEF GivenAreLatest
        <2>1. CASE x \in seen
            BY <1>6, <1>7, <1>11, <2>1 DEF SInv, GivenAreLatest
        <2>2. CASE x = other /\ Lasts(p, other.stop)
            BY <1>8, <1>10, <1>11, <2>2
        <2> QED
            BY <1>9, <2>1, <2>2
    <1>14. PresentStay'
        <2> SUFFICES ASSUME NEW x \in seen', x.alone, Lasts(x.process, x.stop)'
                     PROVE  ~Clears(x.process)' /\ (x.process \in sessions => Given(x)')
            BY <1>1 DEF PresentStay
        <2>1. CASE x \in seen
            BY <1>6, <1>7, <1>11, <2>1 DEF SInv, PresentStay
        <2>2. CASE x = other /\ Lasts(p, other.stop)
            BY <1>8, <1>10, <1>11, <2>2
        <2> QED
            BY <1>9, <2>1, <2>2
    <1>15. IdsMeanOneStop'
        <2>1. ASSUME ~stop, NEW x \in seen, x.table = T, x.id = id, Lasts(p, other.stop)
              PROVE  x.process = p /\ x.stop = other.stop
            <3>1. Routes(x.table) = table.routes /\ TableOf(x) = table
                BY <1>3, <1>4, <2>1 DEF Routes, TableOf
            <3>2. id < table.next
                BY <1>6, <2>1, <3>1
            <3>3. Given(x) /\ Routes(x.table)[x.id] = key
                BY <1>5, <2>1, <3>1, <3>2 DEF Given
            <3> QED
                BY <1>2, <1>6, <1>10, <2>1, <3>3
        <2> SUFFICES ASSUME ~stop, NEW one \in seen', NEW two \in seen',
                            one.table = two.table, one.id = two.id
                     PROVE  one.process = two.process /\ one.stop = two.stop
            BY <1>1 DEF IdsMeanOneStop
        <2>2. CASE one \in seen /\ two \in seen
            BY <2>2 DEF SInv, IdsMeanOneStop
        <2>3. CASE one \in seen /\ two = other /\ Lasts(p, other.stop)
            BY <1>8, <2>1, <2>3
        <2>4. CASE one = other /\ two \in seen /\ Lasts(p, other.stop)
            BY <1>8, <2>1, <2>4
        <2>5. CASE one = other /\ two = other
            BY <2>5
        <2> QED
            BY <1>9, <2>2, <2>3, <2>4, <2>5
    <1>16. Dispatching' /\ StopsAreOfReleased' /\ \A q \in Processes : Ordered(q)'
        BY <1>1, <1>11 DEF SInv, Dispatching, StopsAreOfReleased, Ordered
    <1>17. ASSUME NEW g \in Hooks, g # h
           PROVE  Fresh(g)' /\ Spares(g)'
        <2>1. hook'[g] = hook[g] /\ asked'[g] = asked[g]
            BY <1>1, <1>17, HookIsDone
        <2>2. CASE hook[g] = Free
            BY <2>1, <2>2 DEF Fresh, Spares
        <2>3. CASE hook[g] # Free
            <3>1. PICK q \in Processes : q = hook[g].process
                BY <2>3 DEF IInv, TypeOK, Served
            <3>2. Fresh(g)'
                BY <1>1, <1>11, <2>1, <3>1 DEF SInv, Fresh
            <3>3. Spares(g)'
                <4> SUFFICES ASSUME hook[g].at = "continue",
                                    asked[g].kind = "answer" \/ (Open(q) /\ HasAnswer(g, Wire(q))),
                                    NEW x \in seen', x.alone, x.process = q, Lasts(q, x.stop)
                             PROVE  FALSE
                    BY <1>11, <2>1, <3>1 DEF Spares
                <4>1. CASE x \in seen
                    BY <2>3, <3>1, <4>1 DEF SInv, Spares
                <4>2. CASE x = other
                    BY <1>8, <1>9, <2>3, <3>1, <4>2 DEF Resuming
                <4> QED
                    BY <1>9, <4>1, <4>2
            <3> QED
                BY <3>2, <3>3
        <2> QED
            BY <2>2, <2>3
    <1>18. Fresh(h)' /\ Spares(h)'
        BY <1>1, HookIsDone DEF Fresh, Spares
    <1> QED
        BY <1>12, <1>13, <1>14, <1>15, <1>16, <1>17, <1>18 DEF SInv

LEMMA HookShown ==
    ASSUME IInv, CInv, SInv, NEW h \in Hooks, HookStep(h)
    PROVE  SInv'
    BY HookShowsShown, HookResumedShown, HookGivesUpShown DEF HookStep

LEMMA ReadsShown ==
    ASSUME IInv, CInv, SInv, NEW p \in Processes, ReaderReads(p)
    PROVE  SInv'
    BY ReadsReplyShown, ReadsEofShown, ReadsEventShown

LEMMA WatcherShown ==
    ASSUME IInv, CInv, SInv, WatcherStep
    PROVE  SInv'
    <1>1. ASSUME StartInserts
          PROVE  \/ UNCHANGED <<lldb, link>>
                 \/ Hangs({watcher.process}) /\ sessions' = sessions
        BY <1>1, Zenon DEF StartInserts
    <1> QED
        BY <1>1, StartBeginsShown, StartAsksShown, WatcherGoesShown, ClosingShown DEF WatcherStep

LEMMA InitShown == Init => SInv
    <1> SUFFICES ASSUME Init
                 PROVE  SInv
        OBVIOUS
    <1>1. /\ seen = {} /\ \A h \in Hooks : hook[h] = Free
          /\ \A a \in Handlers : call[a] = Free
          /\ \A p \in Processes : Wire(p) = <<>> /\ lldb[p].state = "none"
        BY DEF Init, Wire, NoEngine
    <1>2. Dispatching
        BY <1>1, WatcherIsNoProcess DEF Dispatching
    <1>3. \A p \in Processes : Ordered(p)
        BY <1>1 DEF Ordered, Old
    <1> QED
        BY <1>1, <1>2, <1>3 DEF SInv, StopsAreOfReleased, Shown, GivenAreLatest, PresentStay, Fresh,
                                Spares, IdsMeanOneStop

LEMMA NextShown ==
    ASSUME IInv, CInv, SInv, [Next]_vars
    PROVE  SInv'
    <1>1. ASSUME NEW p \in Processes,
                 \/ ChildStarts(p) \/ ChildExits(p) \/ LldbServes(p) \/ LldbCrashes(p)
                 \/ \E t \in Threads : LldbStops(p, t)
                 \/ ReaderStep(p) \/ CloserCloses(p)
          PROVE  SInv'
        BY <1>1, OthersShown, EventsShown, LldbServesShown, ReadsShown, ClosingShown
           DEF ReaderStep
    <1>2. ASSUME NEW a \in Handlers, HandlerStep(a)
          PROVE  SInv'
        BY <1>2, HandlesShown, HandlesClearShown, ClosingShown
    <1>3. CASE WatcherStep
        BY <1>3, WatcherShown
    <1>4. ASSUME NEW g \in Hooks, HookStep(g) \/ EditorAsks(g)
          PROVE  SInv'
        BY <1>4, HookShown, HookAsksShown
    <1>5. CASE EditorConfigures \/ CloseBegins \/ UNCHANGED vars
        BY <1>5, OthersShown
    <1> QED
        BY <1>1, <1>2, <1>3, <1>4, <1>5 DEF Next

LEMMA ShownInvariance == Spec => [](IInv /\ CInv /\ SInv)
    <1>1. Init => IInv /\ CInv /\ SInv
        BY InitInv, InitControl, InitShown
    <1>2. IInv /\ CInv /\ SInv /\ [Next]_vars => (IInv /\ CInv /\ SInv)'
        BY NextInv, NextControl, NextShown
    <1> QED
        BY <1>1, <1>2, PTL DEF Spec

\* With any number of threads that serve the editor: as long as the session lasts,
\* two things the editor was shown under the same id, each while the stop it was read
\* in lasted, were read in the same stop of the same child.  What a thread of an
\* earlier stop allocates late, or removes late with its own resume
\* (_clear_thread_routes), does not change that: the continued event of a stop is
\* handled, its ids removed (_clear_process_routes), before an answer of the next
\* one is delivered, since both come on the same connection, and no number is given
\* twice.
THEOREM ShownIdsMeanOneStop == Spec => []IdsMeanOneStop
    <1>1. SInv => IdsMeanOneStop
        BY DEF SInv
    <1> QED
        BY <1>1, ShownInvariance, PTL

\* With any number of threads that serve the editor: as long as a child stays in a
\* stop and has its session, every id the editor was shown in that stop is still
\* known, provided no thread was about to resume the child when it was shown.  A
\* resume asked for later ends the stop before it removes anything, and no late
\* continued event does it.
THEOREM ShownIdsAreKnown == Spec => []ShownIdsResolve
    <1>1. SInv => ShownIdsResolve
        BY DEF SInv, PresentStay, ShownIdsResolve, Given
    <1> QED
        BY <1>1, ShownInvariance, PTL
================================================================================
