------------------------------ MODULE MCStackTrace ------------------------------
(***************************************************************************)
(* StackTrace.tla with process and thread ids as strings, as in            *)
(* MCDebugSession.tla.                                                     *)
(***************************************************************************)
EXTENDS StackTrace

MCThreadGroup ==
    [t \in Threads |-> IF t \in {"childThread", "childPython"} THEN "child" ELSE "main"]

MCGroupIds == [t \in Threads |-> {MCThreadGroup[t]}]

\* Bound: threads are listed while no request resumes and no connection has more than
\* one event on its way.
Lists == \E q \in Listers : pending[q] # NoAnswer \/ call[q] # Idle
Focus ==
    Lists => /\ \A q \in Requests : call[q] = Idle
             /\ \A r \in Readers : Len(inbox[r]) < 2

MCWorkers == Readers \cup Requests \cup Listers \cup {Watcher}
================================================================================
