----------------------------- MODULE MCDebugSession -----------------------------
(***************************************************************************)
(* DebugSession.tla with process and thread ids as strings, so that the    *)
(* group of a thread can be read off its name.                             *)
(***************************************************************************)
EXTENDS DebugSession

MCThreadGroup ==
    [t \in Threads |-> IF t \in {"childThread", "childPython"} THEN "child" ELSE "main"]

MCGroupIds == [t \in Threads |-> {MCThreadGroup[t]}]

MCWorkers == Readers \cup Requests \cup Listers \cup {Watcher}

\* Only the launched process is stopped; the others start, are listed and exit.
OthersRun == \A r \in Readers : r[1] # Root => holder[r] = None

ListersIdle == \A q \in Listers : pending[q] = NoAnswer /\ call[q] = Idle
OnItsWay == {r \in Readers : inbox[r] # <<>>}
InHand == {r \in Readers : call[r] # Idle}

\* Bound: threads are listed while one connection has one event on its way and
\* another one in hand, or while two have one in hand, not while there is more.
Focus ==
    /\ OthersRun
    /\ (\E r \in Readers : Len(inbox[r]) > 1) => ListersIdle
    /\ OnItsWay # {} /\ Cardinality(InHand) > 1 => ListersIdle
================================================================================
