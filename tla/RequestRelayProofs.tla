--------------------------- MODULE RequestRelayProofs ---------------------------
(***************************************************************************)
(* No reply is ever unknown while the session lasts, and the tables of     *)
(* RequestRelay.tla never overlap, for any number of callers and requests. *)
(*                                                                         *)
(* The argument: every number belongs for ever to the one party it was     *)
(* allocated to (Ours, Theirs), and what is in flight stays in a table     *)
(* until the reply has been read, because a number is registered before it *)
(* is written and leaves internal only together with its reply, or for     *)
(* abandoned, or before it was written.                                    *)
(***************************************************************************)
EXTENDS RequestRelay, TLAPS

InFlight == requests \cup replies

Busy(c) == caller[c].at # "idle"

Unsent == {"allocated", "registered", "unwritten"}

Forwarding(f) == forwarder[f].at \in {"allocated", "registered"}

\* Numbers of the proxy's own requests, and numbers of the editor's.
Ours(s) ==
    \/ s \in internal \cup abandoned \cup DOMAIN completed \cup main.failing
    \/ \E c \in Callers : Busy(c) /\ s = caller[c].seq
    \/ reader.at = "deliver" /\ reader.to = "caller" /\ s = reader.seq

Theirs(s) ==
    \/ s \in forwarded \cup answered
    \/ \E f \in Forwarders : Forwarding(f) /\ s = forwarder[f].seq
    \/ reader.at = "deliver" /\ reader.to = "editor" /\ s = reader.seq

\* Numbers are allocated from below and to one party each.
Allocation ==
    /\ InFlight \subseteq 1 .. nextSeq - 1
    /\ \A s : Ours(s) => s \in 1 .. nextSeq - 1 /\ ~ Theirs(s)
    /\ \A s : Theirs(s) => s \in 1 .. nextSeq - 1
    /\ \A c, d \in Callers : c # d /\ Busy(c) /\ Busy(d) => caller[c].seq # caller[d].seq
    /\ \A f, g \in Forwarders :
          f # g /\ Forwarding(f) /\ Forwarding(g) => forwarder[f].seq # forwarder[g].seq

\* A request is on its way once, and not before it was written.
Flight ==
    /\ requests \cap replies = {}
    /\ \A c \in Callers : caller[c].at \in Unsent => caller[c].seq \notin InFlight
    /\ \A f \in Forwarders : Forwarding(f) => forwarder[f].seq \notin InFlight

\* While the session lasts somebody is registered for all that is in flight.
Expected ==
    /\ \A c \in Callers : Busy(c) => caller[c].seq \notin abandoned
    /\ internal \cap abandoned = {}
    /\ \A f \in Forwarders :
          forwarder[f].at = "registered" => forwarder[f].seq \in forwarded
    /\ main.at = "running" =>
          /\ InFlight \subseteq internal \cup forwarded \cup abandoned
          /\ \A c \in Callers : caller[c].at = "registered" => caller[c].seq \in internal

IInv == TypeOK /\ Allocation /\ Flight /\ Expected /\ NoReplyUnknown

--------------------------------------------------------------------------------
LEMMA InitInv == Init => IInv
    <1> SUFFICES ASSUME Init
                 PROVE  IInv
        OBVIOUS
    <1>1. FlagTypes
        BY DEF Init, FlagTypes
    <1>2. TypeOK
        <2>1. DOMAIN completed = {} /\ main = [at |-> "running", failing |-> {}, status |-> 0]
            BY DEF Init
        <2>2. main \in [at : {"running", "failing", "closing", "done"},
                       failing : SUBSET Seqs, status : {0, 1}]
            BY <2>1, SMTT(20)
        <2> QED
            BY <1>1, <2>1, <2>2, BoundsAssumption, SMTT(20) DEF Init, TypeOK
    <1>3. Allocation /\ Flight /\ Expected /\ NoReplyUnknown
        BY SMTT(20) DEF Init, Allocation, Flight, Expected, NoReplyUnknown, InFlight, Busy,
                        Forwarding, Unsent, Ours, Theirs
    <1> QED
        BY <1>2, <1>3 DEF IInv

\* A fresh number is one nobody owns.
LEMMA CallBeginsInv ==
    ASSUME NEW c \in Callers, IInv, CallBegins(c)
    PROVE  IInv'
    <1>1. FlagTypes'
        BY Zenon DEF IInv, TypeOK, FlagTypes, eventVars, CallBegins, flagVars
    <1>2. TypeOK'
        <2>1. nextSeq \in 0 .. MaxSeq /\ nextSeq' \in 1 .. MaxSeq + 1
            BY BoundsAssumption, SMTT(20) DEF IInv, TypeOK, CallBegins
        <2>2. caller' \in [Callers -> [at : {"idle", "allocated", "registered", "waiting",
                                           "unwritten", "timedOut"}, seq : 0 .. MaxSeq]]
            BY <2>1, SMTT(20) DEF IInv, TypeOK, CallBegins
        <2> QED
            BY <1>1, <2>1, <2>2, SMTT(20) DEF IInv, TypeOK, CallBegins, tableVars, wireVars
    <1>3. Allocation'
        <2>1. /\ Allocation /\ nextSeq \in Nat \ {0} /\ nextSeq' = nextSeq + 1
              /\ UNCHANGED <<internal, forwarded, abandoned, completed, forwarder, reader, main,
                             requests, replies, answered>>
            BY SMTT(20) DEF IInv, TypeOK, CallBegins, tableVars, wireVars
        <2>2. \A d \in Callers :
                 /\ d # c => caller'[d] = caller[d]
                 /\ d = c => caller'[d] = [at |-> "allocated", seq |-> nextSeq]
            BY SMTT(20) DEF IInv, TypeOK, CallBegins
        <2>3. \A s : Theirs(s)' <=> Theirs(s)
            BY <2>1, SMTT(20) DEF Theirs, Forwarding
        <2>4. \A s : Ours(s)' => Ours(s) \/ s = nextSeq
            BY <2>1, <2>2, SMTT(20) DEF Ours, Busy
        <2>5. \A d \in Callers : Busy(d) => caller[d].seq # nextSeq
            BY <2>1, SMTT(20) DEF Allocation, Ours
        <2>6. \A s : Theirs(s)' => s \in 1 .. nextSeq' - 1 /\ s # nextSeq
            BY <2>1, <2>3, SMTT(20) DEF Allocation
        <2>7. \A s : Ours(s)' => s \in 1 .. nextSeq' - 1 /\ ~ Theirs(s)'
            BY <2>1, <2>3, <2>4, <2>6, SMTT(20) DEF Allocation
        <2>8. \A d, e \in Callers :
                 d # e /\ Busy(d)' /\ Busy(e)' => caller'[d].seq # caller'[e].seq
            BY <2>1, <2>2, <2>5, SMTT(20) DEF Allocation, Busy
        <2>9. InFlight' \subseteq 1 .. nextSeq' - 1
            BY <2>1, SMTT(20) DEF Allocation, InFlight
        <2> QED
            BY <2>1, <2>6, <2>7, <2>8, <2>9, SMTT(20) DEF Allocation, Forwarding
    <1>4. Flight'
        BY SMTT(20) DEF IInv, Allocation, Flight, InFlight, Forwarding,
           CallBegins, wireVars
    <1>5. Expected'
        BY SMTT(20) DEF IInv, Allocation, Expected, InFlight, Busy, Ours,
           CallBegins, tableVars, wireVars
    <1>6. NoReplyUnknown'
        BY SMTT(20) DEF IInv, NoReplyUnknown, CallBegins
    <1> QED
        BY <1>2, <1>3, <1>4, <1>5, <1>6 DEF IInv

LEMMA CallRegistersInv ==
    ASSUME NEW c \in Callers, IInv, CallRegisters(c)
    PROVE  IInv'
    <1>1. FlagTypes'
        BY Zenon DEF IInv, TypeOK, FlagTypes, eventVars, CallRegisters, flagVars
    <1>2. TypeOK'
        BY <1>1, SMTT(20) DEF IInv, TypeOK, Allocation, Busy, Ours, Seqs,
           CallRegisters, wireVars
    <1>3. Allocation'
        BY SMTT(20) DEF IInv, Allocation, InFlight, Busy, Forwarding, Ours,
           Theirs, CallRegisters, wireVars
    <1>4. Flight'
        BY SMTT(20) DEF IInv, Flight, InFlight, Unsent, Forwarding,
           CallRegisters, wireVars
    <1>5. Expected'
        BY SMTT(20) DEF IInv, Expected, InFlight, Busy, CallRegisters, wireVars
    <1>6. NoReplyUnknown'
        BY SMTT(20) DEF IInv, NoReplyUnknown, CallRegisters
    <1> QED
        BY <1>2, <1>3, <1>4, <1>5, <1>6 DEF IInv

\* The number written is registered, unless the session is over.
LEMMA CallWritesInv ==
    ASSUME NEW c \in Callers, IInv, CallWrites(c)
    PROVE  IInv'
    <1>1. FlagTypes'
        BY Zenon DEF IInv, TypeOK, FlagTypes, eventVars, CallWrites, flagVars
    <1>2. TypeOK'
        BY <1>1, SMTT(20) DEF IInv, TypeOK, Allocation, Busy, Ours, Seqs,
           CallWrites, tableVars
    <1>3. Allocation'
        BY SMTT(20) DEF IInv, Allocation, InFlight, Busy, Forwarding, Ours,
           Theirs, CallWrites, tableVars
    <1>4. Flight'
        BY SMTT(20) DEF IInv, TypeOK, Allocation, Flight, InFlight, Busy,
           Unsent, Forwarding, Ours, Theirs, CallWrites
    <1>5. Expected'
        BY SMTT(20) DEF IInv, Expected, InFlight, Busy, CallWrites, tableVars
    <1>6. NoReplyUnknown'
        BY SMTT(20) DEF IInv, NoReplyUnknown, CallWrites
    <1> QED
        BY <1>2, <1>3, <1>4, <1>5, <1>6 DEF IInv

LEMMA CallWriteFailsInv ==
    ASSUME NEW c \in Callers, IInv, CallWriteFails(c)
    PROVE  IInv'
    <1>1. FlagTypes'
        BY Zenon DEF IInv, TypeOK, FlagTypes, eventVars, CallWriteFails, flagVars, Fatal
    <1>2. TypeOK'
        BY <1>1, SMTT(20) DEF IInv, TypeOK, CallWriteFails, tableVars, wireVars
    <1>3. Allocation'
        BY SMTT(20) DEF IInv, Allocation, InFlight, Busy, Forwarding, Ours,
           Theirs, CallWriteFails, tableVars, wireVars
    <1>4. Flight'
        BY SMTT(20) DEF IInv, Flight, InFlight, Unsent, Forwarding,
           CallWriteFails, wireVars
    <1>5. Expected'
        BY SMTT(20) DEF IInv, Expected, InFlight, Busy, CallWriteFails,
           tableVars, wireVars
    <1>6. NoReplyUnknown'
        BY SMTT(20) DEF IInv, NoReplyUnknown, CallWriteFails
    <1> QED
        BY <1>2, <1>3, <1>4, <1>5, <1>6 DEF IInv

\* A number that was not written is expected from nowhere.
LEMMA CallWithdrawsInv ==
    ASSUME NEW c \in Callers, IInv, CallWithdraws(c)
    PROVE  IInv'
    <1>1. FlagTypes'
        BY Zenon DEF IInv, TypeOK, FlagTypes, eventVars, CallWithdraws, flagVars
    <1>2. TypeOK'
        BY <1>1, SMTT(20) DEF IInv, TypeOK, CallWithdraws, wireVars
    <1>3. Allocation'
        BY SMTT(20) DEF IInv, Allocation, InFlight, Busy, Forwarding, Ours,
           Theirs, CallWithdraws, wireVars
    <1>4. Flight'
        BY SMTT(20) DEF IInv, Flight, InFlight, Unsent, Forwarding,
           CallWithdraws, wireVars
    <1>5. Expected'
        BY SMTT(20) DEF IInv, Allocation, Flight, Expected, InFlight, Busy,
           Unsent, CallWithdraws, wireVars
    <1>6. NoReplyUnknown'
        BY SMTT(20) DEF IInv, NoReplyUnknown, CallWithdraws
    <1> QED
        BY <1>2, <1>3, <1>4, <1>5, <1>6 DEF IInv

LEMMA CallReturnsInv ==
    ASSUME NEW c \in Callers, IInv, CallReturns(c)
    PROVE  IInv'
    <1>1. FlagTypes'
        BY Zenon DEF IInv, TypeOK, FlagTypes, eventVars, CallReturns, flagVars
    <1>2. TypeOK'
        BY <1>1, SMTT(20) DEF IInv, TypeOK, CallReturns, tableVars, wireVars
    <1>3. Allocation'
        BY SMTT(20) DEF IInv, Allocation, InFlight, Busy, Forwarding, Ours,
           Theirs, CallReturns, tableVars, wireVars
    <1>4. Flight'
        BY SMTT(20) DEF IInv, Flight, InFlight, Unsent, Forwarding, CallReturns,
           wireVars
    <1>5. Expected'
        BY SMTT(20) DEF IInv, Expected, InFlight, Busy, CallReturns, tableVars,
           wireVars
    <1>6. NoReplyUnknown'
        BY SMTT(20) DEF IInv, NoReplyUnknown, CallReturns
    <1> QED
        BY <1>2, <1>3, <1>4, <1>5, <1>6 DEF IInv

LEMMA CallTimesOutInv ==
    ASSUME NEW c \in Callers, IInv, CallTimesOut(c)
    PROVE  IInv'
    <1>1. FlagTypes'
        BY Zenon DEF IInv, TypeOK, FlagTypes, eventVars, CallTimesOut, flagVars
    <1>2. TypeOK'
        BY <1>1, SMTT(20) DEF IInv, TypeOK, CallTimesOut, tableVars, wireVars
    <1>3. Allocation'
        BY SMTT(20) DEF IInv, Allocation, InFlight, Busy, Forwarding, Ours,
           Theirs, CallTimesOut, tableVars, wireVars
    <1>4. Flight'
        BY SMTT(20) DEF IInv, Flight, InFlight, Unsent, Forwarding,
           CallTimesOut, wireVars
    <1>5. Expected'
        BY SMTT(20) DEF IInv, Expected, InFlight, Busy, CallTimesOut, tableVars,
           wireVars
    <1>6. NoReplyUnknown'
        BY SMTT(20) DEF IInv, NoReplyUnknown, CallTimesOut
    <1> QED
        BY <1>2, <1>3, <1>4, <1>5, <1>6 DEF IInv

\* From internal to abandoned: a late reply is still expected.
LEMMA CallAbandonsInv ==
    ASSUME NEW c \in Callers, IInv, CallAbandons(c)
    PROVE  IInv'
    <1>1. FlagTypes'
        BY Zenon DEF IInv, TypeOK, FlagTypes, eventVars, CallAbandons, flagVars
    <1>2. TypeOK'
        BY <1>1, SMTT(20) DEF IInv, TypeOK, Allocation, Busy, Ours, Seqs,
           CallAbandons, wireVars
    <1>3. Allocation'
        BY SMTT(20) DEF IInv, Allocation, InFlight, Busy, Forwarding, Ours,
           Theirs, CallAbandons, wireVars
    <1>4. Flight'
        BY SMTT(20) DEF IInv, Flight, InFlight, Unsent, Forwarding,
           CallAbandons, wireVars
    <1>5. Expected'
        BY SMTT(20) DEF IInv, TypeOK, Allocation, Expected, InFlight, Busy,
           CallAbandons, wireVars
    <1>6. NoReplyUnknown'
        BY SMTT(20) DEF IInv, NoReplyUnknown, CallAbandons
    <1> QED
        BY <1>2, <1>3, <1>4, <1>5, <1>6 DEF IInv

LEMMA EditorRequestsInv ==
    ASSUME NEW d \in BOOLEAN, IInv, EditorRequests(d)
    PROVE  IInv'
    <1>1. FlagTypes'
        BY Zenon DEF IInv, TypeOK, FlagTypes, eventVars, EditorRequests, Reads
    <1>2. TypeOK'
        BY <1>1, BoundsAssumption, SMTT(20) DEF IInv, TypeOK, EditorRequests, Forwarders,
           tableVars, callVars, wireVars
    <1>3. Allocation'
        BY SMTT(20) DEF IInv, TypeOK, Allocation, InFlight, Busy, Ours, Theirs,
           EditorRequests, Forwarding,
           tableVars, callVars, wireVars
    <1>4. Flight'
        BY SMTT(20) DEF IInv, Allocation, Flight, InFlight, EditorRequests, Forwarding,
           callVars, wireVars
    <1>5. Expected'
        BY SMTT(20) DEF IInv, Expected, InFlight, Busy, EditorRequests, Forwarding,
           tableVars, callVars, wireVars
    <1>6. NoReplyUnknown'
        BY SMTT(20) DEF IInv, NoReplyUnknown, EditorRequests
    <1> QED
        BY <1>2, <1>3, <1>4, <1>5, <1>6 DEF IInv

LEMMA EditorAsksHookInv ==
    ASSUME NEW h \in Hooks, IInv, EditorAsksHook(h)
    PROVE  IInv'
    <1>1. FlagTypes'
        BY Zenon DEF IInv, TypeOK, FlagTypes, flagVars, eventVars, EditorAsksHook, Forwarders
    <1>2. TypeOK'
        BY <1>1, BoundsAssumption, SMTT(20) DEF IInv, TypeOK, EditorAsksHook, tableVars,
           callVars, wireVars, Forwarders
    <1>3. Allocation'
        BY SMTT(20) DEF IInv, TypeOK, Allocation, InFlight, Busy, Forwarding, Ours, Theirs,
           EditorAsksHook, tableVars, callVars, wireVars, Forwarders
    <1>4. Flight'
        BY SMTT(20) DEF IInv, Allocation, Flight, InFlight, Forwarding, EditorAsksHook,
           callVars, wireVars, Forwarders
    <1>5. Expected'
        BY SMTT(20) DEF IInv, Expected, InFlight, Busy, EditorAsksHook, tableVars, callVars,
           wireVars, Forwarders
    <1>6. NoReplyUnknown'
        BY SMTT(20) DEF IInv, NoReplyUnknown, EditorAsksHook
    <1> QED
        BY <1>2, <1>3, <1>4, <1>5, <1>6 DEF IInv

LEMMA HookAnswersInv ==
    ASSUME NEW h \in Hooks, IInv, HookAnswers(h)
    PROVE  IInv'
    <1>1. FlagTypes'
        BY Zenon DEF IInv, TypeOK, FlagTypes, flagVars, eventVars, HookAnswers, Forwarders
    <1>2. TypeOK'
        BY <1>1, BoundsAssumption, SMTT(20) DEF IInv, TypeOK, HookAnswers, tableVars,
           callVars, wireVars, Forwarders
    <1>3. Allocation'
        BY SMTT(20) DEF IInv, TypeOK, Allocation, InFlight, Busy, Forwarding, Ours, Theirs,
           HookAnswers, tableVars, callVars, wireVars, Forwarders
    <1>4. Flight'
        BY SMTT(20) DEF IInv, Allocation, Flight, InFlight, Forwarding, HookAnswers, callVars,
           wireVars, Forwarders
    <1>5. Expected'
        BY SMTT(20) DEF IInv, Expected, InFlight, Busy, HookAnswers, tableVars, callVars,
           wireVars, Forwarders
    <1>6. NoReplyUnknown'
        BY SMTT(20) DEF IInv, NoReplyUnknown, HookAnswers
    <1> QED
        BY <1>2, <1>3, <1>4, <1>5, <1>6 DEF IInv

\* A hook thread, too, takes a number nobody owns.
LEMMA HookForwardsInv ==
    ASSUME NEW h \in Hooks, IInv, HookForwards(h)
    PROVE  IInv'
    <1>1. FlagTypes'
        BY Zenon DEF IInv, TypeOK, FlagTypes, flagVars, eventVars, HookForwards, Forwarders
    <1>2. TypeOK'
        BY <1>1, BoundsAssumption, SMTT(20) DEF IInv, TypeOK, HookForwards, tableVars,
           callVars, wireVars, Forwarders
    <1>3. Allocation'
        BY SMTT(20) DEF IInv, TypeOK, Allocation, InFlight, Busy, Forwarding, Ours, Theirs,
           HookForwards, tableVars, callVars, wireVars, Forwarders
    <1>4. Flight'
        BY SMTT(20) DEF IInv, Allocation, Flight, InFlight, Forwarding, HookForwards,
           callVars, wireVars, Forwarders
    <1>5. Expected'
        BY SMTT(20) DEF IInv, Expected, InFlight, Busy, HookForwards, tableVars, callVars,
           wireVars, Forwarders
    <1>6. NoReplyUnknown'
        BY SMTT(20) DEF IInv, NoReplyUnknown, HookForwards
    <1> QED
        BY <1>2, <1>3, <1>4, <1>5, <1>6 DEF IInv

LEMMA ForwardRegistersInv ==
    ASSUME NEW f \in Forwarders, IInv, ForwardRegisters(f)
    PROVE  IInv'
    <1>1. FlagTypes'
        BY Zenon DEF IInv, TypeOK, FlagTypes, eventVars, ForwardRegisters, flagVars
    <1>2. TypeOK'
        BY <1>1, SMTT(20) DEF IInv, TypeOK, Allocation, Forwarding, Theirs,
           Seqs, ForwardRegisters, callVars, wireVars
    <1>3. Allocation'
        BY SMTT(20) DEF IInv, Allocation, InFlight, Busy, Forwarding, Ours,
           Theirs, ForwardRegisters, callVars, wireVars
    <1>4. Flight'
        BY SMTT(20) DEF IInv, Flight, InFlight, Forwarding, ForwardRegisters,
           callVars, wireVars
    <1>5. Expected'
        BY SMTT(20) DEF IInv, Expected, InFlight, Busy, ForwardRegisters,
           callVars, wireVars
    <1>6. NoReplyUnknown'
        BY SMTT(20) DEF IInv, NoReplyUnknown, ForwardRegisters
    <1> QED
        BY <1>2, <1>3, <1>4, <1>5, <1>6 DEF IInv

LEMMA ForwardWritesInv ==
    ASSUME NEW f \in Forwarders, IInv, ForwardWrites(f)
    PROVE  IInv'
    <1>1. FlagTypes'
        BY Zenon DEF IInv, TypeOK, FlagTypes, eventVars, ForwardWrites, flagVars
    <1>2. TypeOK'
        BY <1>1, SMTT(20) DEF IInv, TypeOK, Allocation, Forwarding, Theirs,
           Seqs, ForwardWrites, tableVars, callVars
    <1>3. Allocation'
        <2>1. Allocation /\ forwarder \in [Forwarders -> [at : {"idle", "serving", "allocated",
                                         "registered", "gone"}, seq : 0 .. MaxSeq]]
            BY DEF IInv, TypeOK
        <2>2. \A s : Ours(s)' => Ours(s)
            BY SMTT(20) DEF Ours, Busy, ForwardWrites, tableVars, callVars
        <2>3. \A g \in Forwarders : Forwarding(g)' => Forwarding(g) /\ forwarder'[g] = forwarder[g]
            BY <2>1, SMTT(20) DEF Forwarding, ForwardWrites
        <2>4. \A s : Theirs(s)' => Theirs(s)
            BY <2>3, SMTT(20) DEF Theirs, ForwardWrites, tableVars
        <2>5. Theirs(forwarder[f].seq)
            BY SMTT(20) DEF Theirs, Forwarding, ForwardWrites
        <2>6. InFlight' \subseteq 1 .. nextSeq' - 1
            BY <2>1, <2>5, SMTT(20) DEF Allocation, InFlight, ForwardWrites
        <2> QED
            BY <2>1, <2>2, <2>3, <2>4, <2>6, SMTT(20) DEF Allocation, Busy, ForwardWrites,
           callVars
    <1>4. Flight'
        <2>1. /\ Allocation /\ Flight
              /\ forwarder \in [Forwarders -> [at : {"idle", "serving", "allocated",
                                         "registered", "gone"}, seq : 0 .. MaxSeq]]
            BY DEF IInv, TypeOK
        <2>2. \A g \in Forwarders :
                 Forwarding(g)' => g # f /\ Forwarding(g) /\ forwarder'[g] = forwarder[g]
            BY <2>1, SMTT(20) DEF Forwarding, ForwardWrites
        <2>3. Forwarding(f) /\ Theirs(forwarder[f].seq) /\ forwarder[f].seq \notin InFlight
            BY <2>1, SMTT(20) DEF Theirs, Flight, Forwarding, ForwardWrites
        <2>4. InFlight' = InFlight \cup {forwarder[f].seq} /\ requests' \cap replies' = {}
            BY <2>1, <2>3, SMTT(20) DEF InFlight, Flight, ForwardWrites
        <2>5. \A g \in Forwarders : Forwarding(g)' => forwarder'[g].seq \notin InFlight'
            BY <2>1, <2>2, <2>3, <2>4, SMTT(20) DEF Allocation, Flight
        <2>6. \A c \in Callers :
                 caller[c].at \in Unsent => caller[c].seq # forwarder[f].seq
            BY <2>1, <2>3, SMTT(20) DEF Allocation, Ours, Busy, Unsent
        <2>7. caller' = caller
            BY DEF ForwardWrites, callVars
        <2> QED
            BY <2>1, <2>4, <2>5, <2>6, <2>7, SMTT(20) DEF Flight
    <1>5. Expected'
        BY SMTT(20) DEF IInv, Expected, InFlight, Busy, ForwardWrites,
           tableVars, callVars
    <1>6. NoReplyUnknown'
        BY SMTT(20) DEF IInv, NoReplyUnknown, ForwardWrites
    <1> QED
        BY <1>2, <1>3, <1>4, <1>5, <1>6 DEF IInv

\* A number that was not written is expected from nowhere.
LEMMA ForwardFailsInv ==
    ASSUME NEW f \in Forwarders, IInv, ForwardFails(f)
    PROVE  IInv'
    <1>1. FlagTypes'
        BY Zenon DEF IInv, TypeOK, FlagTypes, eventVars, ForwardFails, flagVars, Fatal
    <1>2. TypeOK'
        BY <1>1, SMTT(20) DEF IInv, TypeOK, ForwardFails, callVars,
           wireVars
    <1>3. Allocation'
        BY SMTT(20) DEF IInv, Allocation, InFlight, Busy, Forwarding, Ours,
           Theirs, ForwardFails, callVars, wireVars
    <1>4. Flight'
        BY SMTT(20) DEF IInv, Flight, InFlight, Forwarding, ForwardFails,
           callVars, wireVars
    <1>5. Expected'
        <2>1. \A g \in Forwarders \ {f} :
                 /\ forwarder'[g] = forwarder[g]
                 /\ forwarder[g].at = "registered" => forwarder[g].seq # forwarder[f].seq
            BY SMTT(20) DEF IInv, TypeOK, Allocation, Forwarding, ForwardFails
        <2>2. forwarder'[f].at # "registered"
            BY SMTT(20) DEF IInv, TypeOK, ForwardFails
        <2>3. forwarder[f].seq \notin InFlight
            BY SMTT(20) DEF IInv, Flight, Forwarding, ForwardFails
        <2> QED
            BY <2>1, <2>2, <2>3, SMTT(20) DEF IInv, Expected, InFlight, Busy,
               ForwardFails, callVars, wireVars
    <1>6. NoReplyUnknown'
        BY SMTT(20) DEF IInv, NoReplyUnknown, ForwardFails
    <1> QED
        BY <1>2, <1>3, <1>4, <1>5, <1>6 DEF IInv

LEMMA EditorClosesInv ==
    ASSUME IInv, EditorCloses
    PROVE  IInv'
    <1>1. FlagTypes'
        BY Zenon DEF IInv, TypeOK, FlagTypes, eventVars, EditorCloses
    <1>2. TypeOK'
        BY <1>1, SMTT(20) DEF IInv, TypeOK, EditorCloses, Forwarders,
           tableVars, callVars, wireVars
    <1>3. Allocation'
        BY SMTT(20) DEF IInv, Allocation, InFlight, Busy, Forwarding, Ours,
           Theirs, EditorCloses, tableVars, callVars, wireVars
    <1>4. Flight'
        BY SMTT(20) DEF IInv, Flight, InFlight, Forwarding, EditorCloses,
           callVars, wireVars
    <1>5. Expected'
        BY SMTT(20) DEF IInv, Expected, InFlight, Busy, EditorCloses, tableVars,
           callVars, wireVars
    <1>6. NoReplyUnknown'
        BY SMTT(20) DEF IInv, NoReplyUnknown, EditorCloses
    <1> QED
        BY <1>2, <1>3, <1>4, <1>5, <1>6 DEF IInv

LEMMA ReaderBlocksInv ==
    ASSUME IInv, ReaderBlocks
    PROVE  IInv'
    <1>1. FlagTypes'
        BY Zenon DEF IInv, TypeOK, FlagTypes, eventVars, ReaderBlocks, flagVars
    <1>2. TypeOK'
        BY <1>1, SMTT(20) DEF IInv, TypeOK, ReaderBlocks, tableVars, callVars,
           wireVars
    <1>3. Allocation'
        BY SMTT(20) DEF IInv, Allocation, InFlight, Busy, Forwarding, Ours,
           Theirs, ReaderBlocks, tableVars, callVars, wireVars
    <1>4. Flight'
        BY SMTT(20) DEF IInv, Flight, InFlight, Forwarding, ReaderBlocks,
           callVars, wireVars
    <1>5. Expected'
        BY SMTT(20) DEF IInv, Expected, InFlight, Busy, ReaderBlocks, tableVars,
           callVars, wireVars
    <1>6. NoReplyUnknown'
        BY SMTT(20) DEF IInv, NoReplyUnknown, ReaderBlocks
    <1> QED
        BY <1>2, <1>3, <1>4, <1>5, <1>6 DEF IInv

\* What is read leaves the wire and its table together.
LEMMA ReaderReadsInv ==
    ASSUME NEW s \in Seqs, IInv, ReaderReads(s)
    PROVE  IInv'
    <1>1. FlagTypes'
        BY Zenon DEF IInv, TypeOK, FlagTypes, eventVars, ReaderReads, flagVars
    <1>2. TypeOK'
        BY <1>1, SMTT(20) DEF IInv, TypeOK, Seqs, ReaderReads, callVars,
           Addressee
    <1>3. Allocation'
        BY SMTT(20) DEF IInv, Allocation, InFlight, Busy, Forwarding, Ours,
           Theirs, ReaderReads, callVars, Addressee
    <1>4. Flight'
        BY SMTT(20) DEF IInv, Flight, InFlight, Forwarding, ReaderReads,
           callVars
    <1>5. Expected'
        BY SMTT(20) DEF IInv, Flight, Expected, InFlight, Busy, Unsent,
           Forwarding, ReaderReads, callVars
    <1>6. NoReplyUnknown'
        BY SMTT(20) DEF IInv, Expected, NoReplyUnknown, InFlight, ReaderReads,
           Addressee
    <1> QED
        BY <1>2, <1>3, <1>4, <1>5, <1>6 DEF IInv

LEMMA ReaderDeliversInv ==
    ASSUME IInv, ReaderDelivers
    PROVE  IInv'
    <1>1. FlagTypes'
        BY Zenon DEF IInv, TypeOK, FlagTypes, eventVars, ReaderDelivers, flagVars
    <1>2. TypeOK'
        BY <1>1, SMTT(20) DEF IInv, TypeOK, Allocation, Ours, Theirs, Seqs,
           ReaderDelivers, tableVars, wireVars, Complete
    <1>3. Allocation'
        BY SMTT(20) DEF IInv, Allocation, InFlight, Busy, Forwarding, Ours,
           Theirs, ReaderDelivers, tableVars, wireVars, Complete
    <1>4. Flight'
        BY SMTT(20) DEF IInv, Flight, InFlight, Forwarding, ReaderDelivers,
           wireVars
    <1>5. Expected'
        BY SMTT(20) DEF IInv, Expected, InFlight, Busy, ReaderDelivers,
           tableVars, wireVars
    <1>6. NoReplyUnknown'
        BY SMTT(20) DEF IInv, NoReplyUnknown, ReaderDelivers
    <1> QED
        BY <1>2, <1>3, <1>4, <1>5, <1>6 DEF IInv

\* The refused reply's number is nobody's from then on.
LEMMA ReaderRejectsInv ==
    ASSUME IInv, ReaderRejects
    PROVE  IInv'
    <1>1. FlagTypes'
        BY Zenon DEF IInv, TypeOK, FlagTypes, eventVars, ReaderRejects, Fatal
    <1>2. TypeOK'
        BY <1>1, SMTT(20) DEF IInv, TypeOK, ReaderRejects, tableVars, callVars,
           wireVars
    <1>3. Allocation'
        BY SMTT(20) DEF IInv, Allocation, InFlight, Busy, Forwarding, Ours,
           Theirs, ReaderRejects, tableVars, callVars, wireVars
    <1>4. Flight'
        BY SMTT(20) DEF IInv, Flight, InFlight, Forwarding, ReaderRejects,
           callVars, wireVars
    <1>5. Expected'
        BY SMTT(20) DEF IInv, Expected, InFlight, Busy, ReaderRejects, tableVars,
           callVars, wireVars
    <1>6. NoReplyUnknown'
        BY SMTT(20) DEF IInv, NoReplyUnknown, ReaderRejects
    <1> QED
        BY <1>2, <1>3, <1>4, <1>5, <1>6 DEF IInv

LEMMA ReaderEndsInv ==
    ASSUME IInv, ReaderEnds
    PROVE  IInv'
    <1>1. FlagTypes'
        BY Zenon DEF IInv, TypeOK, FlagTypes, eventVars, ReaderEnds, Fatal
    <1>2. TypeOK'
        BY <1>1, SMTT(20) DEF IInv, TypeOK, ReaderEnds, tableVars, callVars,
           wireVars
    <1>3. Allocation'
        BY SMTT(20) DEF IInv, Allocation, InFlight, Busy, Forwarding, Ours,
           Theirs, ReaderEnds, tableVars, callVars, wireVars
    <1>4. Flight'
        BY SMTT(20) DEF IInv, Flight, InFlight, Forwarding, ReaderEnds,
           callVars, wireVars
    <1>5. Expected'
        BY SMTT(20) DEF IInv, Expected, InFlight, Busy, ReaderEnds, tableVars,
           callVars, wireVars
    <1>6. NoReplyUnknown'
        BY SMTT(20) DEF IInv, NoReplyUnknown, ReaderEnds
    <1> QED
        BY <1>2, <1>3, <1>4, <1>5, <1>6 DEF IInv

\* The table is emptied, but the session is over.
LEMMA MainFailsPendingInv ==
    ASSUME IInv, MainFailsPending
    PROVE  IInv'
    <1>1. FlagTypes'
        BY Zenon DEF IInv, TypeOK, FlagTypes, eventVars, MainFailsPending, flagVars
    <1>2. TypeOK'
        <2>1. main' = [at |-> "failing", failing |-> internal, status |-> main.status]
            BY Zenon DEF IInv, TypeOK, MainFailsPending
        <2>2. main' \in [at : {"running", "failing", "closing", "done"},
                        failing : SUBSET Seqs, status : {0, 1}]
            BY <2>1, SMTT(20) DEF IInv, TypeOK
        <2> QED
            BY <1>1, <2>2, SMTT(20) DEF IInv, TypeOK, MainFailsPending, callVars,
               wireVars
    <1>3. Allocation'
        BY SMTT(20) DEF IInv, Allocation, InFlight, Busy, Forwarding, Ours,
           Theirs, MainFailsPending, callVars, wireVars
    <1>4. Flight'
        BY SMTT(20) DEF IInv, Flight, InFlight, Forwarding, MainFailsPending,
           callVars, wireVars
    <1>5. Expected'
        BY SMTT(20) DEF IInv, Expected, Busy, MainFailsPending, callVars
    <1>6. NoReplyUnknown'
        BY SMTT(20) DEF IInv, NoReplyUnknown, MainFailsPending
    <1> QED
        BY <1>2, <1>3, <1>4, <1>5, <1>6 DEF IInv

LEMMA MainReleasesInv ==
    ASSUME IInv, MainReleases
    PROVE  IInv'
    <1>1. FlagTypes'
        BY Zenon DEF IInv, TypeOK, FlagTypes, eventVars, MainReleases, flagVars
    <1>2. TypeOK'
        BY <1>1, SMTT(20) DEF IInv, TypeOK, MainReleases, tableVars, wireVars,
           Complete
    <1>3. Allocation'
        BY SMTT(20) DEF IInv, Allocation, InFlight, Busy, Forwarding, Ours,
           Theirs, MainReleases, tableVars, wireVars, Complete
    <1>4. Flight'
        BY SMTT(20) DEF IInv, Flight, InFlight, Forwarding, MainReleases,
           wireVars
    <1>5. Expected'
        BY SMTT(20) DEF IInv, Expected, Busy, MainReleases, tableVars
    <1>6. NoReplyUnknown'
        BY SMTT(20) DEF IInv, NoReplyUnknown, MainReleases
    <1> QED
        BY <1>2, <1>3, <1>4, <1>5, <1>6 DEF IInv

LEMMA MainClosesInv ==
    ASSUME IInv, MainCloses
    PROVE  IInv'
    <1>1. FlagTypes'
        BY Zenon DEF IInv, TypeOK, FlagTypes, eventVars, MainCloses, flagVars
    <1>2. TypeOK'
        BY <1>1, SMTT(20) DEF IInv, TypeOK, MainCloses, tableVars, callVars,
           wireVars
    <1>3. Allocation'
        BY SMTT(20) DEF IInv, Allocation, InFlight, Busy, Forwarding, Ours,
           Theirs, MainCloses, tableVars, callVars, wireVars
    <1>4. Flight'
        BY SMTT(20) DEF IInv, Flight, InFlight, Forwarding, MainCloses,
           callVars, wireVars
    <1>5. Expected'
        BY SMTT(20) DEF IInv, Expected, Busy, MainCloses, tableVars, callVars
    <1>6. NoReplyUnknown'
        BY SMTT(20) DEF IInv, NoReplyUnknown, MainCloses
    <1> QED
        BY <1>2, <1>3, <1>4, <1>5, <1>6 DEF IInv

LEMMA MainReturnsInv ==
    ASSUME IInv, MainReturns
    PROVE  IInv'
    <1>1. FlagTypes'
        BY Zenon DEF IInv, TypeOK, FlagTypes, eventVars, MainReturns, flagVars
    <1>2. TypeOK'
        <2>1. (IF fatal THEN 1 ELSE 0) \in {0, 1}
            BY Zenon
        <2>2. main' = [at |-> "done", failing |-> main.failing,
           status |-> IF fatal THEN 1 ELSE 0]
            BY Zenon DEF IInv, TypeOK, MainReturns
        <2>3. main' \in [at : {"running", "failing", "closing", "done"},
                        failing : SUBSET Seqs, status : {0, 1}]
            BY <2>1, <2>2, SMTT(20) DEF IInv, TypeOK
        <2> QED
            BY <1>1, <2>3, SMTT(20) DEF IInv, TypeOK, MainReturns, tableVars,
               callVars, wireVars
    <1>3. Allocation'
        BY SMTT(20) DEF IInv, Allocation, InFlight, Busy, Forwarding, Ours,
           Theirs, MainReturns, tableVars, callVars, wireVars
    <1>4. Flight'
        BY SMTT(20) DEF IInv, Flight, InFlight, Forwarding, MainReturns,
           callVars, wireVars
    <1>5. Expected'
        BY SMTT(20) DEF IInv, Expected, Busy, MainReturns, tableVars, callVars
    <1>6. NoReplyUnknown'
        BY SMTT(20) DEF IInv, NoReplyUnknown, MainReturns
    <1> QED
        BY <1>2, <1>3, <1>4, <1>5, <1>6 DEF IInv

LEMMA AdapterAnswersInv ==
    ASSUME NEW s \in Seqs, IInv, AdapterAnswers(s)
    PROVE  IInv'
    <1>1. FlagTypes'
        BY Zenon DEF IInv, TypeOK, FlagTypes, eventVars, AdapterAnswers, flagVars
    <1>2. TypeOK'
        BY <1>1, SMTT(20) DEF IInv, TypeOK, AdapterAnswers, tableVars, callVars
    <1>3. Allocation'
        BY SMTT(20) DEF IInv, Allocation, InFlight, Busy, Forwarding, Ours,
           Theirs, AdapterAnswers, tableVars, callVars
    <1>4. Flight'
        BY SMTT(20) DEF IInv, Flight, InFlight, Forwarding, AdapterAnswers,
           callVars
    <1>5. Expected'
        BY SMTT(20) DEF IInv, Expected, InFlight, Busy, AdapterAnswers,
           tableVars, callVars
    <1>6. NoReplyUnknown'
        BY SMTT(20) DEF IInv, NoReplyUnknown, AdapterAnswers
    <1> QED
        BY <1>2, <1>3, <1>4, <1>5, <1>6 DEF IInv

LEMMA AdapterExitsInv ==
    ASSUME IInv, AdapterExits
    PROVE  IInv'
    <1>1. FlagTypes'
        BY Zenon DEF IInv, TypeOK, FlagTypes, eventVars, AdapterExits, flagVars
    <1>2. TypeOK'
        BY <1>1, SMTT(20) DEF IInv, TypeOK, AdapterExits, tableVars, callVars
    <1>3. Allocation'
        BY SMTT(20) DEF IInv, Allocation, InFlight, Busy, Forwarding, Ours,
           Theirs, AdapterExits, tableVars, callVars
    <1>4. Flight'
        BY SMTT(20) DEF IInv, Flight, InFlight, Forwarding, AdapterExits,
           callVars
    <1>5. Expected'
        BY SMTT(20) DEF IInv, Expected, InFlight, Busy, AdapterExits, tableVars,
           callVars
    <1>6. NoReplyUnknown'
        BY SMTT(20) DEF IInv, NoReplyUnknown, AdapterExits
    <1> QED
        BY <1>2, <1>3, <1>4, <1>5, <1>6 DEF IInv

\* The event loop, and what feeds it, moves no request.
LEMMA EventsInv ==
    ASSUME IInv, UNCHANGED <<nextSeq, tableVars, callVars, forwarder, main, wireVars,
                             answered>>,
           FlagTypes',
           \/ UNCHANGED reader
           \/ reader.at = "read" /\ reader' = [reader EXCEPT !.at = "check"]
    PROVE  IInv'
    <1>2. TypeOK'
        BY SMTT(20) DEF IInv, TypeOK, tableVars, callVars, wireVars
    <1>3. Allocation'
        BY SMTT(20) DEF IInv, TypeOK, Allocation, InFlight, Busy, Forwarding, Ours, Theirs,
           tableVars, callVars, wireVars
    <1>4. Flight'
        BY SMTT(20) DEF IInv, Flight, InFlight, Forwarding, callVars, wireVars
    <1>5. Expected'
        BY SMTT(20) DEF IInv, Expected, InFlight, Busy, tableVars, callVars, wireVars
    <1>6. NoReplyUnknown'
        BY SMTT(20) DEF IInv, TypeOK, NoReplyUnknown
    <1> QED
        BY <1>2, <1>3, <1>4, <1>5, <1>6 DEF IInv

LEMMA EventStepsInv ==
    ASSUME IInv, EventLoop \/ ReaderQueues \/ AdapterSignals
    PROVE  IInv'
    <1>1. FlagTypes'
        <2>1. FlagTypes
            BY DEF IInv, TypeOK
        <2>2. CASE EventFails
            BY <2>1, <2>2, Zenon DEF FlagTypes, Fatal, EventFails
        <2>3. CASE EventTaken \/ EventHandled \/ EventLoopEnds
            BY <2>1, <2>3, SMTT(20) DEF FlagTypes, flagVars, EventTaken, EventHandled,
               EventLoopEnds
        <2>4. CASE ReaderQueues \/ AdapterSignals
            BY <2>1, <2>4, SMTT(20) DEF FlagTypes, flagVars, ReaderQueues, AdapterSignals
        <2> QED
            BY <2>2, <2>3, <2>4 DEF EventLoop
    <1>2. /\ UNCHANGED <<nextSeq, tableVars, callVars, forwarder, main, wireVars,
                         answered>>
          /\ \/ UNCHANGED reader
             \/ reader.at = "read" /\ reader' = [reader EXCEPT !.at = "check"]
        BY Zenon DEF EventLoop, EventTaken, EventHandled, EventFails, EventLoopEnds, ReaderQueues,
           AdapterSignals
    <1> QED
        BY <1>1, <1>2, EventsInv

LEMMA StepInv == IInv /\ [Next]_vars => IInv'
    <1> SUFFICES ASSUME IInv, [Next]_vars
                 PROVE  IInv'
        OBVIOUS
    <1>1. CASE UNCHANGED vars
        <2>1. FlagTypes'
            BY <1>1, Zenon DEF IInv, TypeOK, FlagTypes, vars, flagVars, eventVars
        <2>2. TypeOK'
            BY <1>1, <2>1, SMTT(20)
               DEF IInv, TypeOK, vars, tableVars, callVars, wireVars
        <2>3. (Allocation /\ Flight /\ Expected /\ NoReplyUnknown)'
            BY <1>1, SMTT(20)
               DEF IInv, Allocation, Flight, Expected, NoReplyUnknown, InFlight, Busy,
                   Forwarding, Unsent, Ours, Theirs, vars, tableVars, callVars, wireVars
        <2> QED
            BY <2>2, <2>3 DEF IInv
    <1>2. ASSUME NEW c \in Callers, Call(c)
          PROVE  IInv'
        BY <1>2, CallBeginsInv, CallRegistersInv, CallWritesInv, CallWriteFailsInv,
           CallWithdrawsInv, CallReturnsInv, CallTimesOutInv, CallAbandonsInv DEF Call
    <1>3. CASE Editor
        BY <1>3, EditorRequestsInv, EditorAsksHookInv, EditorClosesInv DEF Editor
    <1>7. ASSUME NEW h \in Hooks, Hook(h)
          PROVE  IInv'
        BY <1>7, HookAnswersInv, HookForwardsInv DEF Hook
    <1>8. ASSUME NEW f \in Forwarders, Forward(f)
          PROVE  IInv'
        BY <1>8, ForwardRegistersInv, ForwardWritesInv, ForwardFailsInv DEF Forward
    <1>9. CASE EventLoop
        BY <1>9, EventStepsInv
    <1>4. CASE Reader
        <2>1. replies \subseteq Seqs
            BY DEF IInv, TypeOK
        <2> QED
            BY <1>4, <2>1, ReaderBlocksInv, ReaderReadsInv, ReaderDeliversInv, ReaderRejectsInv,
               ReaderEndsInv, EventStepsInv DEF Reader
    <1>5. CASE Main
        BY <1>5, MainFailsPendingInv, MainReleasesInv, MainClosesInv, MainReturnsInv DEF Main
    <1>6. CASE Adapter
        <2>1. requests \subseteq Seqs
            BY DEF IInv, TypeOK
        <2> QED
            BY <1>6, <2>1, AdapterAnswersInv, AdapterExitsInv, EventStepsInv DEF Adapter
    <1> QED
        BY <1>1, <1>2, <1>3, <1>4, <1>5, <1>6, <1>7, <1>8, <1>9 DEF Next

--------------------------------------------------------------------------------
\* SAFETY: the inductive invariant holds throughout every behaviour.
THEOREM Invariance == Spec => []IInv
    BY InitInv, StepInv, PTL DEF Spec

\* TYPE: every table of the proxy only ever holds request numbers, and every
\* thread is at a point its code has.
THEOREM TypeCorrect == Spec => []TypeOK
    BY Invariance, PTL DEF IInv

\* SAFETY: however many callers give up, and however late the replies to them
\* are, no reply is unknown to the proxy before the session ends.
THEOREM RepliesAreKnown == Spec => []NoReplyUnknown
    BY Invariance, PTL DEF IInv

\* SAFETY: no number is ever waited for on behalf of two parties, and none is
\* completed both for a caller and for the editor.
THEOREM TablesAreDisjoint == Spec => []OneTable
    <1>1. IInv => OneTable
        BY DEF IInv, Allocation, Expected, OneTable, Ours, Theirs
    <1> QED
        BY <1>1, Invariance, PTL
================================================================================
