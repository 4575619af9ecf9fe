--------------------------- MODULE MCChildSessions ---------------------------
(***************************************************************************)
(* ChildSessions.tla with two hook threads.  What two of them do at once is *)
(* looked at where the ids are: one asks for stacks and looks into frames,   *)
(* the other asks for stacks and resumes.                                   *)
(***************************************************************************)
EXTENDS ChildSessions, FiniteSets

CONSTANTS viewer, resumer

Roles == hook[viewer].at # "continue" /\ hook[resumer].at # "inspect"

Busy == {h \in Hooks : hook[h] # Free}
TwoAtOnce == Cardinality(Busy) = 2
InLastStop == \E p \in Processes : lldb[p].stops = MaxStops

\* Attached at the first try, and nothing has failed or ended since.
Smooth ==
    /\ ~stop
    /\ \A p \in Processes :
          /\ child[p].life = "waiting" /\ link[p].conn = "open" /\ tries[p] = 1
          /\ lldb[p].state \in {"runs", "stopped"}

\* Bound: two requests at once, and the last stop with what follows it, only while
\* nothing fails; failures and ends meet one request at a time, in the stops before.
Focus == Roles /\ (TwoAtOnce \/ InLastStop => Smooth)
===============================================================================
