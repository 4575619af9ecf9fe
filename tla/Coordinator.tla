------------------------------ MODULE Coordinator -------------------------------
(***************************************************************************)
(* ProcessCoordinator (prototype/adapter/coordinator.py): the identity of  *)
(* every process in the debuggee tree and the lease on its stop.           *)
(*                                                                         *)
(* Every method holds the coordinator's lock from its first read to its    *)
(* last write, so each is one action.  A method that raises                *)
(* CoordinationError does so before it writes anything: that outcome is an *)
(* action of its own, <Method>Refused, which leaves the state alone, so    *)
(* that a caller which swallows the error (state.py) can compose with it.  *)
(*                                                                         *)
(* Metadata shown to the user (display name, role, command line, thread    *)
(* name) is left out; the snapshots the accessors return are copies, so    *)
(* reading them changes nothing.                                           *)
(***************************************************************************)
EXTENDS Integers, FiniteSets

CONSTANTS
    Processes,      \* operating-system process ids
    Threads,        \* ids of native threads, and of debugpy's virtual threads
    None,           \* Python's None
    MaxGeneration   \* bound on the lease generations a run may hand out

ASSUME NoneAssumption == None \notin Processes \cup Threads
ASSUME GenerationAssumption == MaxGeneration \in Nat

VARIABLES
    processes,      \* registered process id |-> its ProcessSession
    leases,         \* stopped process id |-> its ExecutionLease
    nextGeneration  \* generation of the next lease

coordinatorVars == <<processes, leases, nextGeneration>>

Engines == {"native", "python"}

Registered == DOMAIN processes

\* A Python dictionary is a function whose domain is the set of its keys:
\* {}, d[k] = v and d.pop(k, None).
Nothing == [x \in {} |-> None]
Put(f, k, v) == [x \in DOMAIN f \cup {k} |-> IF x = k THEN v ELSE f[x]]
Drop(f, k) == [x \in DOMAIN f \ {k} |-> f[x]]

--------------------------------------------------------------------------------
\* A ProcessSession: its parent, the engines connected to it (native_connected,
\* python_connected), its children, and for each known native thread the debugpy
\* thread it is bound to (None while only CodeLLDB has reported it).
NewSession(parent) ==
    [parent |-> parent, engines |-> {}, children |-> {}, threads |-> Nothing]

ThreadTables == UNION {[S -> Threads \cup {None}] : S \in SUBSET Threads}

Sessions ==
    [parent   : Processes \cup {None},
     engines  : SUBSET Engines,
     children : SUBSET Processes,
     threads  : ThreadTables]

Leases == [generation : Nat, thread : Threads, owner : Engines]

Init ==
    /\ processes = Nothing
    /\ leases = Nothing
    /\ nextGeneration = 1

--------------------------------------------------------------------------------
\* MUTANT: a second parent is accepted.
ParentConflictIgnored(p, parent) == FALSE

\* register_process.  parent and engine are None when the caller omits them.
ParentConflict(p, parent) ==
    /\ p \in Registered
    /\ parent # None
    /\ processes[p].parent \notin {None, parent}

WithSession(p, parent) ==
    Put(processes, p,
        IF p \notin Registered THEN NewSession(parent)
        ELSE IF parent = None THEN processes[p]
        ELSE [processes[p] EXCEPT !.parent = parent])

WithParent(ps, p, parent) ==
    IF parent = None THEN ps
    ELSE LET known == IF parent \in DOMAIN ps THEN ps[parent] ELSE NewSession(None)
         IN  Put(ps, parent, [known EXCEPT !.children = @ \cup {p}])

RegisterProcess(p, parent, engine) ==
    /\ ~ ParentConflict(p, parent)
    /\ LET linked == WithParent(WithSession(p, parent), p, parent)
       IN  processes' = [linked EXCEPT ![p].engines = @ \cup ({engine} \ {None})]
    /\ UNCHANGED <<leases, nextGeneration>>

RegisterProcessRefused(p, parent) ==
    /\ ParentConflict(p, parent)
    /\ UNCHANGED coordinatorVars

--------------------------------------------------------------------------------
\* bind_native_thread keeps the debugpy thread a native thread is bound to.
BindNativeThread(p, t) ==
    /\ p \in Registered
    /\ LET table == processes[p].threads
           known == IF t \in DOMAIN table THEN table[t] ELSE None
       IN  processes' = [processes EXCEPT ![p].threads = Put(table, t, known)]
    /\ UNCHANGED <<leases, nextGeneration>>

BindPythonThread(p, t, pythonThread) ==
    /\ p \in Registered
    /\ processes' = [processes EXCEPT ![p].threads = Put(@, t, pythonThread)]
    /\ UNCHANGED <<leases, nextGeneration>>

\* Both raise on an unknown process.
BindRefused(p) ==
    /\ p \notin Registered
    /\ UNCHANGED coordinatorVars

--------------------------------------------------------------------------------
\* execution_owner
ExecutionOwner(p) == IF p \in DOMAIN leases THEN leases[p].owner ELSE None

\* MUTANT: any process id will do.
AcquireAnyStop(p, t, owner) ==
    /\ ExecutionOwner(p) \in {None, owner}
    /\ nextGeneration <= MaxGeneration
    /\ leases' = Put(leases, p, [generation |-> nextGeneration,
                                 thread |-> t,
                                 owner |-> owner])
    /\ nextGeneration' = nextGeneration + 1
    /\ UNCHANGED processes

\* MUTANT: a stop of the other engine is overwritten.
AcquireTakenStop(p, t, owner) ==
    /\ p \in Registered
    /\ nextGeneration <= MaxGeneration
    /\ leases' = Put(leases, p, [generation |-> nextGeneration,
                                 thread |-> t,
                                 owner |-> owner])
    /\ nextGeneration' = nextGeneration + 1
    /\ UNCHANGED processes

AcquireStop(p, t, owner) ==
    /\ p \in Registered
    /\ ExecutionOwner(p) \in {None, owner}
    /\ nextGeneration <= MaxGeneration
    /\ leases' = Put(leases, p, [generation |-> nextGeneration,
                                 thread |-> t,
                                 owner |-> owner])
    /\ nextGeneration' = nextGeneration + 1
    /\ UNCHANGED processes

AcquireStopRefused(p, owner) ==
    /\ p \notin Registered \/ ExecutionOwner(p) \notin {None, owner}
    /\ UNCHANGED coordinatorVars

\* release_stop.  Releasing a process nobody has stopped is not an error.
ReleaseStop(p, owner) ==
    /\ ExecutionOwner(p) \in {None, owner}
    /\ leases' = Drop(leases, p)
    /\ UNCHANGED <<processes, nextGeneration>>

ReleaseStopRefused(p, owner) ==
    /\ ExecutionOwner(p) \notin {None, owner}
    /\ UNCHANGED coordinatorVars

--------------------------------------------------------------------------------
\* remove_process: only the parent's child list is repaired; the process's own
\* children keep its id as their parent.
RemoveProcess(p) ==
    /\ LET rest == Drop(processes, p)
           parent == IF p \in Registered THEN processes[p].parent ELSE None
       IN  processes' = IF parent \in DOMAIN rest
                        THEN [rest EXCEPT ![parent].children = @ \ {p}]
                        ELSE rest
    /\ leases' = Drop(leases, p)
    /\ UNCHANGED nextGeneration

--------------------------------------------------------------------------------
\* No process is its own parent.
Register(p) ==
    \E parent \in (Processes \ {p}) \cup {None},
       engine \in Engines \cup {None} :
        \/ RegisterProcess(p, parent, engine)
        \/ RegisterProcessRefused(p, parent)

Bind(p) ==
    \/ \E t \in Threads : BindNativeThread(p, t)
    \/ \E t, pythonThread \in Threads : BindPythonThread(p, t, pythonThread)
    \/ BindRefused(p)

Stop(p, owner) ==
    \/ \E t \in Threads : AcquireStop(p, t, owner)
    \/ AcquireStopRefused(p, owner)

Resume(p, owner) == ReleaseStop(p, owner) \/ ReleaseStopRefused(p, owner)

Next ==
    \E p \in Processes :
        \/ Register(p)
        \/ Bind(p)
        \/ \E owner \in Engines : Stop(p, owner) \/ Resume(p, owner)
        \/ RemoveProcess(p)

Spec == Init /\ [][Next]_coordinatorVars

--------------------------------------------------------------------------------
\* TYPE: the tables hold sessions and leases of processes of this debuggee.
TypeOK ==
    /\ Registered \subseteq Processes
    /\ \A p \in Registered : processes[p] \in Sessions
    /\ DOMAIN leases \subseteq Processes
    /\ \A p \in DOMAIN leases : leases[p] \in Leases
    /\ nextGeneration \in Nat \ {0}

\* SAFETY: a lease never outlives the registration of its process, so a process
\* id that the operating system reuses never starts out owned by an engine
\* (remove_process drops the session and the lease under one lock).
LeaseOfRegistered == DOMAIN leases \subseteq Registered

\* SAFETY: a process listed as somebody's child is registered and names that
\* somebody as its parent, so no process is ever listed under two parents,
\* whatever order parent and child are registered and removed in.
ChildrenNameTheirParent ==
    \A p \in Registered : \A c \in processes[p].children :
        c \in Registered /\ processes[c].parent = p

\* SAFETY: no two stops of the session ever share a generation, and every
\* generation in use was handed out (acquire_stop).
GenerationsDistinct ==
    \A p, q \in DOMAIN leases :
        /\ leases[p].generation < nextGeneration
        /\ p # q => leases[p].generation # leases[q].generation

\* Seen through execution_owner.
Ownership ==
    INSTANCE ExecutionOwnership
        WITH Nobody <- None, live <- Registered,
             owner <- [p \in Processes |-> ExecutionOwner(p)]

\* REFINEMENT: the coordinator is the exclusive ownership of
\* ExecutionOwnership.tla: a stop never passes from one engine to the other
\* without an end in between, and no process is owned before it is registered or
\* after it was removed.
OwnershipSpec == Ownership!Spec
================================================================================
