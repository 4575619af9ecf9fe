----------------------------- MODULE MCCoordinator ------------------------------
(***************************************************************************)
(* Coordinator.tla on a small tree.  Process ids are only compared for     *)
(* equality, so their set is symmetric.                                    *)
(***************************************************************************)
EXTENDS Coordinator, FiniteSets, TLC

Symmetry == Permutations(Processes)

\* Threads are looked at while at most two processes are registered: the tree,
\* which needs three, does not depend on them.
ThreadsOfTwo ==
    Cardinality(Registered) < 3 \/ \A p \in Registered : DOMAIN processes[p].threads = {}
================================================================================
