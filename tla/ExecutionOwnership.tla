--------------------------- MODULE ExecutionOwnership ---------------------------
(***************************************************************************)
(* What the coordinator promises its two debugger connections about the    *)
(* stop of one process: at any time at most one engine controls it, an     *)
(* engine that does not control it can neither take nor end it, only a     *)
(* live process is controlled, and only its owner or the process's own end *)
(* gives it back.  Coordinator.tla is shown to implement this module.      *)
(***************************************************************************)

CONSTANTS
    Processes,  \* the debuggee processes of the session
    Engines,    \* the debugger engines: CodeLLDB ("native") and debugpy ("python")
    Nobody      \* the owner of a process no engine has stopped, itself no engine

VARIABLES
    live,       \* the processes that are part of the session
    owner       \* the engine that controls each process's stop

ownershipVars == <<live, owner>>

Init ==
    /\ live = {}
    /\ owner = [p \in Processes |-> Nobody]

\* Processes join the session: a process and the parent it was reported with.
Join(joining) ==
    /\ live' = live \cup joining
    /\ UNCHANGED owner

\* An engine takes a free stop, or renews the stop it already controls.
Take(p, e) ==
    /\ p \in live
    /\ owner[p] \in {Nobody, e}
    /\ owner' = [owner EXCEPT ![p] = e]
    /\ UNCHANGED live

\* The owner resumes the process.
GiveBack(p, e) ==
    /\ owner[p] = e
    /\ owner' = [owner EXCEPT ![p] = Nobody]
    /\ UNCHANGED live

\* The process is gone, whoever controlled it.
End(p) ==
    /\ p \in live
    /\ live' = live \ {p}
    /\ owner' = [owner EXCEPT ![p] = Nobody]

Next ==
    \/ \E joining \in SUBSET Processes : Join(joining)
    \/ \E p \in Processes :
          \/ \E e \in Engines : Take(p, e) \/ GiveBack(p, e)
          \/ End(p)

Spec == Init /\ [][Next]_ownershipVars
================================================================================
