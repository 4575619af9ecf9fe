-------------------------- MODULE SyntheticFramesProofs -------------------------
(***************************************************************************)
(* What holds of SyntheticFrames.tla for any number of processes, threads, *)
(* frames and ids.                                                         *)
(***************************************************************************)
EXTENDS SyntheticFrames, TLAPS

\* The inductive invariant.  SearchBelowIssued is what makes a new id new:
\* IndicesAgree alone allows an id discarded earlier to be chosen again.
IInv == TypeOK /\ IndicesAgree /\ SearchBelowIssued

--------------------------------------------------------------------------------
\* A discard keeps a subset of the frames, unchanged, and keeps the two indices
\* in agreement: the key of a kept frame is no discarded frame's key, because
\* each key is the key of one frame.
LEMMA DiscardKeepsAgreement ==
    ASSUME NEW p \in Owners, NEW t \in Threads \cup {None}, IInv,
           DiscardCurrent(p, t)
    PROVE  /\ DOMAIN byId' \subseteq DOMAIN byId
           /\ \A i \in DOMAIN byId' : byId'[i] = byId[i]
           /\ DOMAIN byKey' \subseteq DOMAIN byKey
           /\ \A k \in DOMAIN byKey' : byKey'[k] = byKey[k]
           /\ IndicesAgree'
    <1> DEFINE gone(frame) == frame.process = p /\ t \in {None, frame.thread}
               ids == {id \in DOMAIN byId : ~ gone(byId[id])}
               keys == DOMAIN byKey \ {KeyOf(byId[id]) : id \in DOMAIN byId \ ids}
    <1>1. /\ byId' = [id \in ids |-> byId[id]]
          /\ byKey' = [k \in keys |-> byKey[k]]
        BY DEF DiscardCurrent
    <1>2. ids \subseteq DOMAIN byId /\ keys \subseteq DOMAIN byKey
        OBVIOUS
    <1>3. \A k \in keys : byKey[k].id \in ids
        BY DEF IInv, IndicesAgree
    <1>4. \A i \in ids : KeyOf(byId[i]) \in keys
        <2>1. SUFFICES ASSUME NEW i \in ids, NEW j \in DOMAIN byId \ ids,
                              KeyOf(byId[i]) = KeyOf(byId[j])
                       PROVE  FALSE
            BY DEF IInv, IndicesAgree
        <2>2. byId[i] = byId[j]
            BY <2>1, <1>2 DEF IInv, IndicesAgree
        <2> QED
            BY <2>1, <2>2
    <1> HIDE DEF ids, keys
    <1>5. IndicesAgree'
        BY <1>1, <1>2, <1>3, <1>4 DEF IInv, IndicesAgree, KeyOf
    <1> QED
        BY <1>1, <1>2, <1>5

LEMMA BeginEpochInv ==
    ASSUME NEW e \in Epochs, NEW p \in Owners, NEW t \in Threads \cup {None}, IInv,
           BeginEpoch(e, p, t)
    PROVE  IInv'
    <1>1. DiscardCurrent(p, t)
        BY DEF BeginEpoch
    <1>2. /\ epoch' = e
          /\ processEpochs' = [q \in DOMAIN processEpochs \cup {p} |->
                                  IF q = p THEN e ELSE processEpochs[q]]
          /\ reserved' = {} /\ nextId' = nextId /\ issued' = issued
        BY DEF BeginEpoch
    <1>3. TypeOK'
        BY <1>1, <1>2, DiscardKeepsAgreement DEF IInv, TypeOK
    <1>4. SearchBelowIssued'
        BY <1>1, <1>2, DiscardKeepsAgreement DEF IInv, SearchBelowIssued
    <1> QED
        BY <1>1, <1>3, <1>4, DiscardKeepsAgreement DEF IInv

LEMMA ClearCurrentInv ==
    ASSUME NEW p \in Owners, NEW t \in Threads \cup {None}, IInv, ClearCurrent(p, t)
    PROVE  IInv'
    <1>1. /\ DiscardCurrent(p, t)
          /\ reserved' = {}
          /\ UNCHANGED <<epoch, processEpochs, nextId, issued>>
        BY DEF ClearCurrent
    <1>2. TypeOK'
        BY <1>1, DiscardKeepsAgreement DEF IInv, TypeOK
    <1>3. SearchBelowIssued'
        BY <1>1, DiscardKeepsAgreement DEF IInv, SearchBelowIssued
    <1> QED
        BY <1>1, <1>2, <1>3, DiscardKeepsAgreement DEF IInv

\* A new frame: its id is below everything issued, hence in neither index.
LEMMA AllocateNewInv ==
    ASSUME NEW p \in Owners, NEW t \in Threads, NEW k \in Keys,
           NEW ids \in SUBSET NativeIds, NEW expected \in Epochs \cup {None}, IInv,
           AllocateNew(p, t, k, ids, expected)
    PROVE  IInv' /\ \A i \in issued : i \in DOMAIN byId' =>
                        i \in DOMAIN byId /\ byId'[i] = byId[i]
    <1> DEFINE frame(id) == [id |-> id, epoch |-> ActiveEpoch(p),
                             process |-> p, thread |-> t, key |-> k]
    <1>1. PICK id \in FreeIds(ids) :
              /\ nextId' = id - 1
              /\ byKey' = [x \in DOMAIN byKey \cup {<<p, t, k>>} |->
                              IF x = <<p, t, k>> THEN frame(id) ELSE byKey[x]]
              /\ byId' = [i \in DOMAIN byId \cup {id} |->
                              IF i = id THEN frame(id) ELSE byId[i]]
              /\ issued' = issued \cup {id}
        BY DEF AllocateNew
    <1>2. /\ id \in 1 .. nextId /\ id \in 1 .. MaxId /\ id \in Nat
          /\ id \notin issued /\ id \notin DOMAIN byId
        BY RegistryAssumption DEF FreeIds, IInv, TypeOK, SearchBelowIssued
    <1>3. ActiveEpoch(p) \in Epochs
        BY DEF ActiveEpoch, IInv, TypeOK
    <1>4. /\ frame(id) \in Frames /\ frame(id).id = id
          /\ KeyOf(frame(id)) = <<p, t, k>>
        BY <1>2, <1>3 DEF Frames, KeyOf
    <1>5. /\ <<p, t, k>> \notin DOMAIN byKey
          /\ <<p, t, k>> \in LookupKeys
          /\ reserved' = reserved \cup ids
          /\ UNCHANGED <<epoch, processEpochs>>
        BY DEF AllocateNew, LookupKeys
    <1> HIDE DEF frame
    <1>6. TypeOK'
        <2>1. nextId' \in 0 .. MaxId
            BY <1>1, <1>2, RegistryAssumption
        <2>2. reserved' \subseteq Nat
            BY <1>5, RegistryAssumption DEF IInv, TypeOK
        <2> QED
            BY <1>1, <1>2, <1>4, <1>5, <2>1, <2>2 DEF IInv, TypeOK
    <1>7. IndicesAgree'
        <2> DEFINE key == <<p, t, k>>
        <2>1. /\ DOMAIN byId' = DOMAIN byId \cup {id}
              /\ byId'[id] = frame(id)
              /\ \A i \in DOMAIN byId : byId'[i] = byId[i]
            BY <1>1, <1>2
        <2>2. /\ DOMAIN byKey' = DOMAIN byKey \cup {key}
              /\ byKey'[key] = frame(id)
              /\ \A x \in DOMAIN byKey : byKey'[x] = byKey[x]
            BY <1>1, <1>5
        <2>3. KeyOf(frame(id)) = key /\ frame(id).id = id
            BY <1>4
        <2> HIDE DEF key
        <2>4. \A x \in DOMAIN byKey' :
                  /\ KeyOf(byKey'[x]) = x
                  /\ byKey'[x].id \in DOMAIN byId'
                  /\ byId'[byKey'[x].id] = byKey'[x]
            BY <2>1, <2>2, <2>3 DEF IInv, IndicesAgree
        <2>5. \A i \in DOMAIN byId' :
                  /\ byId'[i].id = i
                  /\ KeyOf(byId'[i]) \in DOMAIN byKey'
                  /\ byKey'[KeyOf(byId'[i])] = byId'[i]
            BY <2>1, <2>2, <2>3 DEF IInv, IndicesAgree
        <2> QED
            BY <2>4, <2>5 DEF IndicesAgree, KeyOf
    <1>8. SearchBelowIssued'
        <2>1. \A i \in issued : i \in Nat /\ nextId < i
            <3>1. issued \subseteq 1 .. MaxId /\ SearchBelowIssued
                BY DEF IInv, TypeOK
            <3> QED
                BY <3>1, RegistryAssumption DEF SearchBelowIssued
        <2>2. nextId \in Nat
            BY RegistryAssumption DEF IInv, TypeOK
        <2>3. \A i \in issued \cup {id} : id - 1 < i
            BY <1>2, <2>1, <2>2
        <2> QED
            BY <1>1, <2>3 DEF IInv, SearchBelowIssued
    <1>9. \A i \in issued : i \in DOMAIN byId' => i \in DOMAIN byId /\ byId'[i] = byId[i]
        BY <1>1, <1>2
    <1> QED
        BY <1>6, <1>7, <1>8, <1>9 DEF IInv

--------------------------------------------------------------------------------
LEMMA InitInv == Init => IInv
    BY RegistryAssumption
       DEF Init, IInv, TypeOK, IndicesAgree, SearchBelowIssued, Epochs

\* What every step keeps: the invariant, and the identity of every issued id.
LEMMA StepInv ==
    ASSUME IInv, [Next]_registryVars
    PROVE  /\ IInv'
           /\ \A i \in issued : i \in DOMAIN byId' =>
                  i \in DOMAIN byId /\ byId'[i] = byId[i]
    <1>1. ASSUME UNCHANGED <<epoch, processEpochs, byKey, byId, issued>>,
                 nextId' \in {nextId, 0},
                 reserved' \subseteq Nat
          PROVE  IInv'
        <2>1. TypeOK'
            BY <1>1, RegistryAssumption DEF IInv, TypeOK
        <2>2. IndicesAgree'
            BY <1>1 DEF IInv, IndicesAgree, KeyOf
        <2>3. SearchBelowIssued'
            BY <1>1 DEF IInv, TypeOK, SearchBelowIssued
        <2> QED
            BY <2>1, <2>2, <2>3 DEF IInv
    <1>2. ASSUME NEW p \in Owners, NEW t \in Threads \cup {None}, NEW e \in Epochs,
                 BeginEpoch(e, p, t) \/ ClearCurrent(p, t)
          PROVE  /\ IInv'
                 /\ \A i \in DOMAIN byId' : i \in DOMAIN byId /\ byId'[i] = byId[i]
        <2>1. DiscardCurrent(p, t)
            BY <1>2 DEF BeginEpoch, ClearCurrent
        <2>2. \A i \in DOMAIN byId' : i \in DOMAIN byId /\ byId'[i] = byId[i]
            BY <2>1, DiscardKeepsAgreement
        <2> QED
            BY <1>2, <2>2, BeginEpochInv, ClearCurrentInv
    <1>3. ASSUME NEW ids \in SUBSET NativeIds, reserved' = reserved \cup ids
          PROVE  reserved' \subseteq Nat
        BY <1>3, RegistryAssumption DEF IInv, TypeOK
    <1>4. ASSUME NEW p \in Owners, Allocate(p)
          PROVE  /\ IInv'
                 /\ \A i \in issued : i \in DOMAIN byId' =>
                        i \in DOMAIN byId /\ byId'[i] = byId[i]
        <2>1. PICK t \in Threads, k \in Keys, ids \in SUBSET NativeIds,
                   expected \in Epochs \cup {None} :
                  \/ AllocateRefused(p, expected)
                  \/ AllocateExisting(p, t, k, ids, expected)
                  \/ AllocateNew(p, t, k, ids, expected)
                  \/ AllocateExhausted(p, t, k, ids, expected)
            BY <1>4 DEF Allocate
        <2>2. CASE AllocateRefused(p, expected)
            BY <2>2, <1>1 DEF AllocateRefused, registryVars, IInv, TypeOK
        <2>3. CASE AllocateExisting(p, t, k, ids, expected)
            BY <2>3, <1>1, <1>3 DEF AllocateExisting
        <2>4. CASE AllocateNew(p, t, k, ids, expected)
            BY <2>4, AllocateNewInv
        <2>5. CASE AllocateExhausted(p, t, k, ids, expected)
            BY <2>5, <1>1, <1>3 DEF AllocateExhausted
        <2> QED
            BY <2>1, <2>2, <2>3, <2>4, <2>5
    <1>5. ASSUME NEW ids \in SUBSET NativeIds, ReserveNativeIds(ids)
          PROVE  IInv' /\ byId' = byId
        BY <1>5, <1>1, <1>3 DEF ReserveNativeIds
    <1>6. CASE UNCHANGED registryVars
        BY <1>6, <1>1 DEF registryVars, IInv, TypeOK
    <1>7. CASE Next
        <2>1. 0 \in Epochs
            BY RegistryAssumption DEF Epochs
        <2> QED
            BY <1>7, <1>2, <1>4, <1>5, <2>1 DEF Next
    <1> QED
        BY <1>6, <1>7

\* TYPE and SAFETY: the inductive invariant holds throughout every behaviour.
THEOREM Invariance == Spec => []IInv
    BY InitInv, StepInv, PTL DEF Spec

\* TYPE: both indices only ever hold well-formed frames.
THEOREM TypeCorrect == Spec => []TypeOK
    BY Invariance, PTL DEF IInv

\* SAFETY: looking a frame up by its key and by its id always gives one answer.
THEOREM IndicesAlwaysAgree == Spec => []IndicesAgree
    BY Invariance, PTL DEF IInv

\* STEP: an id never names a second Python frame in the lifetime of the session,
\* however the discards of processes and threads interleave with allocations.
THEOREM IdsAreNeverReissued == Spec => NeverReissued
    <1>1. IInv /\ [Next]_registryVars =>
              [\A id \in issued : id \in DOMAIN byId' =>
                  id \in DOMAIN byId /\ byId'[id] = byId[id]]_registryVars
        BY StepInv
    <1> QED
        BY <1>1, Invariance, PTL DEF Spec, NeverReissued
================================================================================
