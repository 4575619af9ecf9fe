--------------------------- MODULE CoordinatorProofs ----------------------------
(***************************************************************************)
(* What holds of Coordinator.tla for every set of processes and threads    *)
(* and every bound on the generations: its invariants, and that it         *)
(* implements ExecutionOwnership.tla.                                      *)
(***************************************************************************)
EXTENDS Coordinator, TLAPS

\* The inductive invariant.  No conjunct needs another but TypeOK, except that a
\* lease stays within the registered processes because only a registered process
\* acquires one.
IInv ==
    /\ TypeOK
    /\ LeaseOfRegistered
    /\ ChildrenNameTheirParent
    /\ GenerationsDistinct

--------------------------------------------------------------------------------
\* Dropping a key from a dictionary leaves every other entry alone.
LEMMA DropFacts ==
    ASSUME NEW f, NEW k
    PROVE  /\ DOMAIN Drop(f, k) = DOMAIN f \ {k}
           /\ \A x \in DOMAIN f \ {k} : Drop(f, k)[x] = f[x]
    BY DEF Drop

\* A thread table with one more binding is a thread table.
LEMMA PutThread ==
    ASSUME NEW table \in ThreadTables, NEW t \in Threads,
           NEW bound \in Threads \cup {None}
    PROVE  Put(table, t, bound) \in ThreadTables
    <1>1. PICK S \in SUBSET Threads : table \in [S -> Threads \cup {None}]
        BY DEF ThreadTables
    <1>2. Put(table, t, bound) \in [S \cup {t} -> Threads \cup {None}]
        BY <1>1 DEF Put
    <1>3. S \cup {t} \in SUBSET Threads
        OBVIOUS
    <1> QED
        BY <1>2, <1>3 DEF ThreadTables

LEMMA NewSessionTyped ==
    ASSUME NEW parent \in Processes \cup {None}
    PROVE  NewSession(parent) \in Sessions
    <1>1. Nothing \in [{} -> Threads \cup {None}]
        BY DEF Nothing
    <1>2. Nothing \in ThreadTables
        BY <1>1 DEF ThreadTables
    <1> QED
        BY <1>2 DEF NewSession, Sessions

--------------------------------------------------------------------------------
\* Registering keeps the tree well formed: a process already somebody's child
\* cannot be registered under a second parent, so the child list it joins is the
\* only one it is in.
LEMMA RegisterTree ==
    ASSUME NEW p \in Processes, NEW parent \in Processes \cup {None},
           NEW engine \in Engines \cup {None},
           TypeOK, ChildrenNameTheirParent,
           RegisterProcess(p, parent, engine)
    PROVE  /\ Registered' \subseteq Processes
           /\ Registered \subseteq Registered'
           /\ \A q \in Registered' : processes'[q] \in Sessions
           /\ ChildrenNameTheirParent'
    <1> DEFINE W == WithSession(p, parent)
               L == WithParent(W, p, parent)
               F == L[p].engines \cup ({engine} \ {None})
    <1>1. /\ DOMAIN W = Registered \cup {p}
          /\ \A q \in DOMAIN W : W[q] \in Sessions
          /\ \A q \in Registered \ {p} : W[q] = processes[q]
          /\ parent # None => W[p].parent = parent
          /\ p \in Registered => W[p].children = processes[p].children
          /\ p \notin Registered => W[p].children = {}
          /\ p \in Registered => processes[p].parent \in {None, W[p].parent}
        <2>1. CASE p \notin Registered
            BY <2>1, NewSessionTyped DEF W, WithSession, Put, NewSession, Registered, TypeOK
        <2>2. CASE p \in Registered /\ parent = None
            BY <2>2 DEF W, WithSession, Put, Registered, TypeOK, Sessions
        <2>3. CASE p \in Registered /\ parent # None
            BY <2>3 DEF W, WithSession, Put, Registered, TypeOK, Sessions,
                        RegisterProcess, ParentConflict
        <2> QED
            BY <2>1, <2>2, <2>3
    <1>2. \A q \in DOMAIN W : \A c \in W[q].children :
              c \in DOMAIN W /\ W[c].parent = q
        BY <1>1, NoneAssumption DEF ChildrenNameTheirParent, Registered, TypeOK
    <1>3. /\ DOMAIN W \subseteq DOMAIN L
          /\ DOMAIN L \subseteq Processes
          /\ p \in DOMAIN L
          /\ \A q \in DOMAIN L : L[q] \in Sessions
          /\ \A q \in DOMAIN L : \A c \in L[q].children :
                 c \in DOMAIN L /\ L[c].parent = q
        <2> HIDE DEF W
        <2>1. CASE parent = None
            BY <1>1, <1>2, <2>1 DEF WithParent, L, TypeOK
        <2>2. CASE parent # None
            <3> DEFINE known == IF parent \in DOMAIN W THEN W[parent] ELSE NewSession(None)
                       joined == [known EXCEPT !.children = @ \cup {p}]
            <3>1. L = Put(W, parent, joined)
                BY <2>2 DEF L, WithParent
            <3>2. known \in Sessions
                BY <1>1, NewSessionTyped
            <3>3. /\ joined \in Sessions
                  /\ joined.children = known.children \cup {p}
                  /\ joined.parent = known.parent
                BY <3>2 DEF Sessions
            <3>4. parent \notin DOMAIN W => known.children = {}
                BY DEF NewSession
            <3>5. parent \in DOMAIN W => known = W[parent]
                OBVIOUS
            <3> HIDE DEF known, joined, L
            <3>6. /\ DOMAIN L = DOMAIN W \cup {parent}
                  /\ L[parent] = joined
                  /\ \A q \in DOMAIN W \ {parent} : L[q] = W[q]
                BY <3>1 DEF Put
            <3>7. \A q \in DOMAIN L : L[q] \in Sessions
                BY <3>6, <3>3, <1>1
            <3>8. \A c \in DOMAIN W : L[c].parent = W[c].parent
                BY <3>6, <3>3, <3>5
            <3>9. \A q \in DOMAIN L : \A c \in L[q].children :
                      c \in DOMAIN L /\ L[c].parent = q
                BY <3>3, <3>4, <3>5, <3>6, <3>8, <2>2, <1>1, <1>2
            <3> QED
                BY <3>6, <3>7, <3>9, <2>2, <1>1 DEF TypeOK
        <2> QED
            BY <2>1, <2>2
    <1>4. processes' = [L EXCEPT ![p].engines = F]
        BY DEF RegisterProcess, L, W, F
    <1>5. /\ DOMAIN processes' = DOMAIN L
          /\ \A q \in DOMAIN L : /\ processes'[q] \in Sessions
                                 /\ processes'[q].children = L[q].children
                                 /\ processes'[q].parent = L[q].parent
        <2>1. F \in SUBSET Engines
            BY <1>3 DEF F, Sessions
        <2> HIDE DEF F, L, W
        <2> QED
            BY <1>3, <1>4, <2>1 DEF Sessions
    <1> HIDE DEF F, L, W
    <1>6. ChildrenNameTheirParent'
        BY <1>3, <1>5 DEF ChildrenNameTheirParent, Registered
    <1> QED
        BY <1>1, <1>3, <1>5, <1>6 DEF Registered

--------------------------------------------------------------------------------
\* TYPE and SAFETY: every reachable state satisfies the inductive invariant.
LEMMA InitInv == Init => IInv
    BY DEF Init, IInv, TypeOK, LeaseOfRegistered, ChildrenNameTheirParent,
           GenerationsDistinct, Registered, Nothing

\* A bound thread changes only its process's thread table.
LEMMA BindInv ==
    ASSUME NEW p \in Processes, NEW t \in Threads, IInv,
           \/ BindNativeThread(p, t)
           \/ \E u \in Threads : BindPythonThread(p, t, u)
    PROVE  IInv'
    <1> USE DEF Registered
    <1>1. p \in Registered /\ processes[p] \in Sessions
        BY DEF BindNativeThread, BindPythonThread, IInv, TypeOK
    <1>2. PICK bound \in Threads \cup {None} :
              processes' = [processes EXCEPT ![p].threads = Put(processes[p].threads, t, bound)]
        <2>1. ASSUME BindNativeThread(p, t)
              PROVE  \E bound \in Threads \cup {None} :
                        processes' = [processes EXCEPT ![p].threads = Put(processes[p].threads, t, bound)]
            <3> DEFINE table == processes[p].threads
                       known == IF t \in DOMAIN table THEN table[t] ELSE None
            <3>1. known \in Threads \cup {None}
                BY <1>1 DEF Sessions, ThreadTables
            <3> QED
                BY <2>1, <3>1 DEF BindNativeThread
        <2> QED
            BY <2>1 DEF BindPythonThread
    <1>3. processes[p].threads \in ThreadTables
        BY <1>1 DEF Sessions
    <1>4. Put(processes[p].threads, t, bound) \in ThreadTables
        BY <1>3, PutThread
    <1>5. /\ DOMAIN processes' = DOMAIN processes
          /\ \A q \in DOMAIN processes : /\ processes'[q] \in Sessions
                                         /\ processes'[q].children = processes[q].children
                                         /\ processes'[q].parent = processes[q].parent
        BY <1>1, <1>2, <1>4 DEF IInv, TypeOK, Sessions
    <1>6. UNCHANGED <<leases, nextGeneration>>
        BY DEF BindNativeThread, BindPythonThread
    <1>7. TypeOK' /\ LeaseOfRegistered' /\ GenerationsDistinct'
        BY <1>5, <1>6 DEF IInv, TypeOK, LeaseOfRegistered, GenerationsDistinct
    <1>8. ChildrenNameTheirParent'
        BY <1>5 DEF IInv, ChildrenNameTheirParent
    <1> QED
        BY <1>7, <1>8 DEF IInv

\* A new lease belongs to a registered process and has a fresh generation.
LEMMA AcquireInv ==
    ASSUME NEW p \in Processes, NEW t \in Threads, NEW owner \in Engines, IInv,
           AcquireStop(p, t, owner)
    PROVE  IInv'
    <1> DEFINE lease == [generation |-> nextGeneration, thread |-> t, owner |-> owner]
    <1>1. leases' = Put(leases, p, lease) /\ nextGeneration' = nextGeneration + 1
          /\ p \in Registered /\ UNCHANGED processes
        BY DEF AcquireStop
    <1>2. lease \in Leases /\ lease.generation = nextGeneration
        BY DEF Leases, IInv, TypeOK
    <1> HIDE DEF lease
    <1>3. /\ DOMAIN leases' = DOMAIN leases \cup {p}
          /\ leases'[p] = lease
          /\ \A q \in DOMAIN leases \ {p} : leases'[q] = leases[q]
        BY <1>1 DEF Put
    <1>4. TypeOK'
        BY <1>1, <1>2, <1>3 DEF IInv, TypeOK, Registered
    <1>5. GenerationsDistinct'
        <2>1. \A q \in DOMAIN leases : leases[q].generation \in Nat
            BY DEF IInv, TypeOK, Leases
        <2>2. nextGeneration \in Nat
            BY DEF IInv, TypeOK
        <2> QED
            BY <1>1, <1>2, <1>3, <2>1, <2>2 DEF IInv, GenerationsDistinct
    <1>6. LeaseOfRegistered' /\ ChildrenNameTheirParent'
        BY <1>1, <1>3 DEF IInv, LeaseOfRegistered, ChildrenNameTheirParent, Registered
    <1> QED
        BY <1>4, <1>5, <1>6 DEF IInv

LEMMA ReleaseInv ==
    ASSUME NEW p \in Processes, NEW owner \in Engines, IInv, ReleaseStop(p, owner)
    PROVE  IInv'
    <1>1. leases' = Drop(leases, p) /\ UNCHANGED <<processes, nextGeneration>>
        BY DEF ReleaseStop
    <1>2. /\ DOMAIN leases' = DOMAIN leases \ {p}
          /\ \A q \in DOMAIN leases \ {p} : leases'[q] = leases[q]
        BY <1>1, DropFacts
    <1> QED
        BY <1>1, <1>2 DEF IInv, TypeOK, LeaseOfRegistered, ChildrenNameTheirParent,
                          GenerationsDistinct, Registered

\* Only the removed process's own parent can list it as a child, so repairing
\* that one list leaves no dangling child behind.
LEMMA RemoveInv ==
    ASSUME NEW p \in Processes, IInv, RemoveProcess(p)
    PROVE  IInv'
    <1> DEFINE rest == Drop(processes, p)
               parent == IF p \in Registered THEN processes[p].parent ELSE None
    <1>1. /\ DOMAIN rest = Registered \ {p}
          /\ \A q \in Registered \ {p} : rest[q] = processes[q]
        BY DropFacts DEF Registered
    <1>2. /\ processes' = IF parent \in DOMAIN rest
                          THEN [rest EXCEPT ![parent].children = @ \ {p}]
                          ELSE rest
          /\ leases' = Drop(leases, p)
          /\ nextGeneration' = nextGeneration
        BY DEF RemoveProcess
    <1>3. \A q \in Registered \ {p} : p \in processes[q].children => q = parent
        BY DEF IInv, ChildrenNameTheirParent, Registered
    <1> HIDE DEF rest, parent
    <1>4. /\ DOMAIN processes' = Registered \ {p}
          /\ \A q \in Registered \ {p} :
                /\ processes'[q] \in Sessions
                /\ processes'[q].children \subseteq processes[q].children \ {p}
                /\ processes'[q].parent = processes[q].parent
        <2>1. \A q \in Registered \ {p} : rest[q] \in Sessions
            BY <1>1 DEF IInv, TypeOK
        <2>2. CASE parent \in DOMAIN rest
            BY <2>1, <2>2, <1>1, <1>2, <1>3 DEF Sessions
        <2>3. CASE parent \notin DOMAIN rest
            BY <2>1, <2>3, <1>1, <1>2, <1>3 DEF Sessions
        <2> QED
            BY <2>2, <2>3
    <1>5. /\ DOMAIN leases' = DOMAIN leases \ {p}
          /\ \A q \in DOMAIN leases \ {p} : leases'[q] = leases[q]
        BY <1>2, DropFacts
    <1>6. ChildrenNameTheirParent'
        BY <1>4 DEF IInv, ChildrenNameTheirParent, Registered
    <1>7. TypeOK' /\ LeaseOfRegistered'
        BY <1>2, <1>4, <1>5 DEF IInv, TypeOK, LeaseOfRegistered, Registered
    <1>8. GenerationsDistinct'
        BY <1>2, <1>5 DEF IInv, GenerationsDistinct
    <1> QED
        BY <1>6, <1>7, <1>8 DEF IInv

LEMMA StepInv == IInv /\ [Next]_coordinatorVars => IInv'
    <1> SUFFICES ASSUME IInv, [Next]_coordinatorVars
                 PROVE  IInv'
        OBVIOUS
    <1>1. ASSUME UNCHANGED coordinatorVars
          PROVE  IInv'
        BY <1>1 DEF coordinatorVars, IInv, TypeOK, LeaseOfRegistered,
                    ChildrenNameTheirParent, GenerationsDistinct, Registered
    <1>2. ASSUME NEW p \in Processes, Register(p)
          PROVE  IInv'
        <2>1. PICK parent \in Processes \cup {None}, engine \in Engines \cup {None} :
                  \/ RegisterProcess(p, parent, engine)
                  \/ RegisterProcessRefused(p, parent)
            BY <1>2 DEF Register
        <2>2. CASE RegisterProcess(p, parent, engine)
            <3>1. UNCHANGED <<leases, nextGeneration>>
                BY <2>2 DEF RegisterProcess
            <3> QED
                BY <2>2, <3>1, RegisterTree
                   DEF IInv, TypeOK, LeaseOfRegistered, GenerationsDistinct, Registered
        <2>3. CASE RegisterProcessRefused(p, parent)
            BY <2>3, <1>1 DEF RegisterProcessRefused
        <2> QED
            BY <2>1, <2>2, <2>3
    <1>3. ASSUME NEW p \in Processes, Bind(p)
          PROVE  IInv'
        <2>1. CASE \E t \in Threads : BindNativeThread(p, t)
            BY <2>1, BindInv
        <2>2. CASE \E t, u \in Threads : BindPythonThread(p, t, u)
            BY <2>2, BindInv
        <2>3. CASE BindRefused(p)
            BY <2>3, <1>1 DEF BindRefused
        <2> QED
            BY <1>3, <2>1, <2>2, <2>3 DEF Bind
    <1>4. ASSUME NEW p \in Processes, NEW owner \in Engines,
                 Stop(p, owner) \/ Resume(p, owner)
          PROVE  IInv'
        <2>1. CASE \E t \in Threads : AcquireStop(p, t, owner)
            BY <2>1, AcquireInv
        <2>2. CASE ReleaseStop(p, owner)
            BY <2>2, ReleaseInv
        <2>3. CASE AcquireStopRefused(p, owner) \/ ReleaseStopRefused(p, owner)
            BY <2>3, <1>1 DEF AcquireStopRefused, ReleaseStopRefused
        <2> QED
            BY <1>4, <2>1, <2>2, <2>3 DEF Stop, Resume
    <1> QED
        BY <1>1, <1>2, <1>3, <1>4, RemoveInv DEF Next

\* TYPE and SAFETY: the inductive invariant holds throughout every behaviour.
THEOREM Invariance == Spec => []IInv
    BY InitInv, StepInv, PTL DEF Spec

\* TYPE: every table of the coordinator only ever holds what its annotations say.
THEOREM TypeCorrect == Spec => []TypeOK
    BY Invariance, PTL DEF IInv

\* SAFETY: no lease survives the removal of its process.
THEOREM LeasesAreOfRegistered == Spec => []LeaseOfRegistered
    BY Invariance, PTL DEF IInv

\* SAFETY: whatever the order of registration and removal, the children a
\* process lists are registered under it alone.
THEOREM TreeIsConsistent == Spec => []ChildrenNameTheirParent
    BY Invariance, PTL DEF IInv

\* SAFETY: two stops never share a generation.
THEOREM GenerationsAreDistinct == Spec => []GenerationsDistinct
    BY Invariance, PTL DEF IInv

--------------------------------------------------------------------------------
\* REFINEMENT: each method of the coordinator is a step of the abstract
\* ownership, or leaves every owner as it was.
LEMMA StepImplements ==
    ASSUME IInv, [Next]_coordinatorVars
    PROVE  [Ownership!Next]_(Ownership!ownershipVars)
    <1> DEFINE owners == [p \in Processes |-> ExecutionOwner(p)]
    <1>1. ASSUME UNCHANGED leases
          PROVE  owners' = owners
        BY <1>1 DEF ExecutionOwner
    <1>2. ASSUME UNCHANGED coordinatorVars
          PROVE  UNCHANGED Ownership!ownershipVars
        BY <1>1, <1>2 DEF coordinatorVars, Ownership!ownershipVars, Registered
    <1>3. ASSUME NEW p \in Processes, Register(p)
          PROVE  [Ownership!Next]_(Ownership!ownershipVars)
        <2>1. ASSUME NEW parent \in (Processes \ {p}) \cup {None},
                     NEW engine \in Engines \cup {None},
                     RegisterProcess(p, parent, engine)
              PROVE  Ownership!Next
            <3>1. Registered' = Registered \cup {p} \cup ({parent} \ {None})
                BY <2>1 DEF RegisterProcess, WithParent, WithSession, Put, Registered
            <3>2. {p} \cup ({parent} \ {None}) \in SUBSET Processes
                OBVIOUS
            <3>3. Ownership!Join({p} \cup ({parent} \ {None}))
                BY <3>1, <1>1, <2>1 DEF RegisterProcess, Ownership!Join
            <3> QED
                BY <3>2, <3>3 DEF Ownership!Next
        <2> QED
            BY <1>2, <1>3, <2>1 DEF Register, RegisterProcessRefused
    <1>4. ASSUME NEW p \in Processes, Bind(p)
          PROVE  UNCHANGED Ownership!ownershipVars
        <2>1. Registered' = Registered /\ UNCHANGED leases
            BY <1>4 DEF Bind, BindNativeThread, BindPythonThread, BindRefused, Registered,
                        coordinatorVars
        <2> QED
            BY <2>1, <1>1 DEF Ownership!ownershipVars
    <1>5. ASSUME NEW p \in Processes, NEW t \in Threads, NEW e \in Engines,
                 AcquireStop(p, t, e)
          PROVE  Ownership!Take(p, e)
        <2>1. p \in Registered /\ owners[p] \in {None, e}
            BY <1>5 DEF AcquireStop
        <2>2. owners' = [owners EXCEPT ![p] = e] /\ Registered' = Registered
            BY <1>5 DEF AcquireStop, ExecutionOwner, Put, Registered
        <2> QED
            BY <2>1, <2>2 DEF Ownership!Take
    <1>6. ASSUME NEW p \in Processes, NEW e \in Engines, ReleaseStop(p, e)
          PROVE  Ownership!GiveBack(p, e) \/ UNCHANGED Ownership!ownershipVars
        <2>1. Registered' = Registered
            BY <1>6 DEF ReleaseStop, Registered
        <2>2. CASE ExecutionOwner(p) = e
            <3>1. owners' = [owners EXCEPT ![p] = None]
                BY <1>6 DEF ReleaseStop, ExecutionOwner, Drop
            <3> QED
                BY <2>1, <2>2, <3>1 DEF Ownership!GiveBack
        <2>3. CASE ExecutionOwner(p) = None
            <3>1. owners' = owners
                BY <1>6, <2>3 DEF ReleaseStop, ExecutionOwner, Drop
            <3> QED
                BY <2>1, <3>1 DEF Ownership!ownershipVars
        <2> QED
            BY <1>6, <2>2, <2>3 DEF ReleaseStop
    <1>7. ASSUME NEW p \in Processes, RemoveProcess(p)
          PROVE  Ownership!End(p) \/ UNCHANGED Ownership!ownershipVars
        <2>1. Registered' = Registered \ {p}
            BY <1>7 DEF RemoveProcess, Drop, Registered
        <2>2. owners' = [owners EXCEPT ![p] = None]
            BY <1>7 DEF RemoveProcess, ExecutionOwner, Drop
        <2>3. CASE p \in Registered
            BY <2>1, <2>2, <2>3 DEF Ownership!End
        <2>4. CASE p \notin Registered
            <3>1. owners[p] = None
                BY <2>4 DEF IInv, LeaseOfRegistered, ExecutionOwner
            <3> QED
                BY <2>1, <2>2, <2>4, <3>1 DEF Ownership!ownershipVars
        <2> QED
            BY <2>3, <2>4
    <1>8. ASSUME NEW p \in Processes, NEW e \in Engines, Stop(p, e) \/ Resume(p, e)
          PROVE  [Ownership!Next]_(Ownership!ownershipVars)
        BY <1>2, <1>5, <1>6, <1>8
           DEF Stop, Resume, AcquireStopRefused, ReleaseStopRefused, Ownership!Next
    <1> QED
        BY <1>2, <1>3, <1>4, <1>7, <1>8 DEF Next, Ownership!Next

\* REFINEMENT: the coordinator gives each engine the exclusive control of a stop
\* that ExecutionOwnership.tla specifies: acquire_stop is refused to the other
\* engine until the stop has ended, and only registered processes are owned.
THEOREM CoordinatorImplementsOwnership == Spec => OwnershipSpec
    <1>1. Init => Ownership!Init
        BY DEF Init, Ownership!Init, ExecutionOwner, Nothing, Registered
    <1> QED
        BY <1>1, StepImplements, Invariance, PTL DEF Spec, OwnershipSpec, Ownership!Spec
================================================================================
