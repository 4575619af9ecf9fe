----------------------------- MODULE SyntheticFrames ----------------------------
(***************************************************************************)
(* SyntheticFrameRegistry (prototype/adapter/state.py): the DAP ids under  *)
(* which Python frames are shown inside a native stack.  One registry      *)
(* serves every process of the session; the frame ids CodeLLDB hands out   *)
(* share its number space, so the registry reserves those it is told of.   *)
(*                                                                         *)
(* Every method runs under the registry's lock and is one action.  The     *)
(* value attached to a frame (its source position and locals) is named by  *)
(* the epoch in which it was read, which is all the properties need.       *)
(***************************************************************************)
EXTENDS Integers, FiniteSets

CONSTANTS
    Processes,   \* debuggee processes
    Threads,     \* their threads
    Keys,        \* what identifies a Python frame within its stack
    NativeIds,   \* the frame ids CodeLLDB may hand out
    None,        \* the legacy namespace without an owning process
    MaxId,       \* MAX_DAP_ID, the first id handed out
    MaxEpoch     \* bound on the stop epochs of a run

ASSUME RegistryAssumption ==
    /\ MaxId \in Nat
    /\ MaxEpoch \in Nat
    /\ NativeIds \subseteq Nat
    /\ None \notin Processes

VARIABLES
    epoch,         \* the epoch begun last, by any process
    processEpochs, \* process |-> the epoch it began last
    nextId,        \* where the search for a free id starts; 0 once exhausted
    byKey,         \* <<process, thread, key>> |-> its current frame
    byId,          \* id |-> the current frame it names
    issued,        \* every id ever given to a frame
    reserved       \* ids known to name native frames

registryVars == <<epoch, processEpochs, nextId, byKey, byId, issued, reserved>>

Owners == Processes \cup {None}
Epochs == 0 .. MaxEpoch

Frames == [id : 1 .. MaxId, epoch : Epochs, process : Owners,
           thread : Threads, key : Keys]

LookupKeys == Owners \X Threads \X Keys

KeyOf(frame) == <<frame.process, frame.thread, frame.key>>

Init ==
    /\ epoch = 0
    /\ processEpochs = [p \in {} |-> 0]
    /\ nextId = MaxId
    /\ byKey = [k \in {} |-> None]
    /\ byId = [i \in {} |-> None]
    /\ issued = {}
    /\ reserved = {}

--------------------------------------------------------------------------------
\* _process_epochs.get(process_id, self._epoch): a process that has never begun
\* an epoch of its own follows the epoch begun last by anyone.
ActiveEpoch(p) == IF p \in DOMAIN processEpochs THEN processEpochs[p] ELSE epoch

\* classify: a reserved id is native whatever else it may have been, and an id
\* that was never issued is native because nobody else hands out ids.
Classify(id) ==
    CASE id \in reserved    -> "native"
      [] id \notin reserved /\ id \in DOMAIN byId -> "current"
      [] id \notin reserved \cup DOMAIN byId /\ id \in issued -> "stale"
      [] OTHER              -> "native"

\* MUTANT: only one of the two indices is pruned.
DiscardIds(p, t) ==
    LET gone(frame) == frame.process = p /\ t \in {None, frame.thread}
        ids == {id \in DOMAIN byId : ~ gone(byId[id])}
    IN  /\ byId' = [id \in ids |-> byId[id]]
        /\ UNCHANGED byKey

\* _discard_current_process with the thread omitted (None) or given.
DiscardCurrent(p, t) ==
    LET gone(frame) == frame.process = p /\ t \in {None, frame.thread}
        ids == {id \in DOMAIN byId : ~ gone(byId[id])}
        keys == DOMAIN byKey \ {KeyOf(byId[id]) : id \in DOMAIN byId \ ids}
    IN  /\ byId' = [id \in ids |-> byId[id]]
        /\ byKey' = [k \in keys |-> byKey[k]]

BeginEpoch(e, p, t) ==
    /\ epoch' = e
    /\ processEpochs' = [q \in DOMAIN processEpochs \cup {p} |->
                            IF q = p THEN e ELSE processEpochs[q]]
    /\ DiscardCurrent(p, t)
    /\ reserved' = {}
    /\ UNCHANGED <<nextId, issued>>

ClearCurrent(p, t) ==
    /\ DiscardCurrent(p, t)
    /\ reserved' = {}
    /\ UNCHANGED <<epoch, processEpochs, nextId, issued>>

ReserveNativeIds(ids) ==
    /\ reserved' = reserved \cup ids
    /\ UNCHANGED <<epoch, processEpochs, nextId, byKey, byId, issued>>

--------------------------------------------------------------------------------
\* allocate.  expected is None when the caller accepts any epoch.
AllocateRefused(p, expected) ==
    /\ expected # None
    /\ ActiveEpoch(p) # expected
    /\ UNCHANGED registryVars

\* A frame that is already current keeps its id and the value it was read with.
AllocateExisting(p, t, k, ids, expected) ==
    /\ expected \in {None, ActiveEpoch(p)}
    /\ <<p, t, k>> \in DOMAIN byKey
    /\ reserved' = reserved \cup ids
    /\ UNCHANGED <<epoch, processEpochs, nextId, byKey, byId, issued>>

\* MUTANT: an id is free again once its frame has been discarded.
FreeIdsRecycled(ids) == {i \in 1 .. MaxId : i \notin DOMAIN byId \cup reserved \cup ids}

\* _allocate_id searches downwards from nextId.
FreeIds(ids) == {i \in 1 .. nextId : i \notin issued \cup reserved \cup ids}

AllocateNew(p, t, k, ids, expected) ==
    /\ expected \in {None, ActiveEpoch(p)}
    /\ <<p, t, k>> \notin DOMAIN byKey
    /\ reserved' = reserved \cup ids
    /\ \E id \in FreeIds(ids) :
          LET frame == [id |-> id, epoch |-> ActiveEpoch(p),
                        process |-> p, thread |-> t, key |-> k]
          IN  /\ \A other \in FreeIds(ids) : other <= id
              /\ nextId' = id - 1
              /\ byKey' = [x \in DOMAIN byKey \cup {<<p, t, k>>} |->
                              IF x = <<p, t, k>> THEN frame ELSE byKey[x]]
              /\ byId' = [i \in DOMAIN byId \cup {id} |->
                              IF i = id THEN frame ELSE byId[i]]
              /\ issued' = issued \cup {id}
    /\ UNCHANGED <<epoch, processEpochs>>

\* The search ran past 1 and raised.
AllocateExhausted(p, t, k, ids, expected) ==
    /\ expected \in {None, ActiveEpoch(p)}
    /\ <<p, t, k>> \notin DOMAIN byKey
    /\ FreeIds(ids) = {}
    /\ reserved' = reserved \cup ids
    /\ nextId' = 0
    /\ UNCHANGED <<epoch, processEpochs, byKey, byId, issued>>

--------------------------------------------------------------------------------
Allocate(p) ==
    \E t \in Threads, k \in Keys, ids \in SUBSET NativeIds, expected \in Epochs \cup {None} :
        \/ AllocateRefused(p, expected)
        \/ AllocateExisting(p, t, k, ids, expected)
        \/ AllocateNew(p, t, k, ids, expected)
        \/ AllocateExhausted(p, t, k, ids, expected)

\* Epochs are numbered by the caller, which may deliver them out of order.
Next ==
    \/ \E p \in Owners :
          \/ \E t \in Threads \cup {None} :
                \/ \E e \in Epochs : BeginEpoch(e, p, t)
                \/ ClearCurrent(p, t)
          \/ Allocate(p)
    \/ \E ids \in SUBSET NativeIds : ReserveNativeIds(ids)

Spec == Init /\ [][Next]_registryVars

--------------------------------------------------------------------------------
\* TYPE: the two indices hold frames, and ids are DAP ids.
TypeOK ==
    /\ epoch \in Epochs
    /\ DOMAIN processEpochs \subseteq Owners
    /\ \A p \in DOMAIN processEpochs : processEpochs[p] \in Epochs
    /\ nextId \in 0 .. MaxId
    /\ DOMAIN byKey \subseteq LookupKeys
    /\ \A k \in DOMAIN byKey : byKey[k] \in Frames
    /\ DOMAIN byId \subseteq 1 .. MaxId
    /\ \A i \in DOMAIN byId : byId[i] \in Frames
    /\ issued \subseteq 1 .. MaxId
    /\ reserved \subseteq Nat

\* SAFETY: both indices describe the same frames, each under its own key and its
\* own id, through any interleaving of partial discards and allocations: a
\* thread-scoped discard never leaves a key that still answers with a dead id.
IndicesAgree ==
    /\ \A k \in DOMAIN byKey :
          /\ KeyOf(byKey[k]) = k
          /\ byKey[k].id \in DOMAIN byId
          /\ byId[byKey[k].id] = byKey[k]
    /\ \A i \in DOMAIN byId :
          /\ byId[i].id = i
          /\ KeyOf(byId[i]) \in DOMAIN byKey
          /\ byKey[KeyOf(byId[i])] = byId[i]

\* SAFETY: every id in use was issued, and the search never looks again at an
\* id that was issued (_allocate_id only moves down).
SearchBelowIssued ==
    /\ DOMAIN byId \subseteq issued
    /\ \A id \in issued : nextId < id

\* STEP: an id that named a Python frame never names another one later, so an
\* editor holding an old frame id is answered "stale" and never shown some other
\* frame.
NeverReissued ==
    [][\A id \in issued : id \in DOMAIN byId' =>
          id \in DOMAIN byId /\ byId'[id] = byId[id]]_registryVars
================================================================================
