------------------------------ MODULE RequestRelay ------------------------------
(***************************************************************************)
(* The threads of DapProxy (prototype/adapter/proxy.py) and how it          *)
(* correlates requests and replies with the downstream adapter.  Two kinds *)
(* of requests share one number space: those the editor sent, which are    *)
(* forwarded, and those the proxy makes itself (request_downstream), whose *)
(* caller waits for the reply and may give up on it.  The downstream       *)
(* reader hands each reply to whoever waits for it and queues the stops    *)
(* and resumes the adapter reports for the event-hook thread; the main     *)
(* thread ends the session.                                                *)
(*                                                                         *)
(* The upstream reader forwards most requests itself and gives the others  *)
(* to a hook thread, which may ask the adapter, and then answers or        *)
(* forwards in its turn.  A hook may ask, too, before an event is passed   *)
(* on.  Left out: the contents of messages, launch, the requests that the  *)
(* adapter makes of the editor.  CodeLLDB is external: it answers every    *)
(* request at most once, in any order, and may name the wrong command.     *)
(***************************************************************************)
EXTENDS Integers, FiniteSets

CONSTANTS
    Upstream,   \* the dap-upstream-reader thread
    Hooks,      \* dap-hook threads
    EventHooks, \* the dap-event-hooks thread
    Callers,    \* those of the last two kinds whose hooks make requests
    MaxSeq,     \* bound on the requests of a run
    MaxEvents   \* bound on the stops and resumes the adapter reports

ASSUME BoundsAssumption == MaxSeq \in Nat /\ MaxEvents \in Nat
ASSUME ThreadsAssumption ==
    /\ Upstream \notin Hooks /\ EventHooks \notin Hooks
    /\ Callers \subseteq Hooks \cup {EventHooks}

Forwarders == Hooks \cup {Upstream}

VARIABLES
    nextSeq,    \* _next_downstream_seq
    internal,   \* keys of _pending_internal
    forwarded,  \* keys of _forwarded_client_requests
    abandoned,  \* _abandoned_internal
    completed,  \* internal requests whose Event is set |-> what for
    caller,     \* caller |-> where it is in request_downstream, and its request
    forwarder,  \* forwarder |-> where it is with a request of the editor
    reader,     \* the downstream reader, and the reply at hand
    main,       \* the main thread, and the requests it has still to fail
    events,     \* the event-hook thread
    queued,     \* length of _event_hook_queue
    stop, fatal, disconnecting, editorClosed,  \* _stop, _fatal_message # None, ...
    adapter,    \* the downstream adapter process
    requests,   \* requests written that it has not answered
    replies,    \* replies written that have not been read
    sent,       \* stops and resumes it has reported
    unread,     \* those of them that have not been read
    answered    \* requests of the editor that were answered

callVars == <<caller, completed>>
tableVars == <<internal, forwarded, abandoned>>
flagVars == <<stop, fatal, disconnecting, editorClosed>>
wireVars == <<adapter, requests, replies>>
eventVars == <<events, queued, sent, unread>>
vars == <<nextSeq, tableVars, callVars, forwarder, reader, main, flagVars, wireVars,
          eventVars, answered>>

Seqs == 1 .. MaxSeq

Init ==
    /\ nextSeq = 1
    /\ internal = {} /\ forwarded = {} /\ abandoned = {}
    /\ completed = [s \in {} |-> "response"]
    /\ caller = [c \in Callers |-> [at |-> "idle", seq |-> 0]]
    /\ forwarder = [f \in Forwarders |-> [at |-> "idle", seq |-> 0]]
    /\ reader = [at |-> "check", seq |-> 0, to |-> "nobody"]
    /\ main = [at |-> "running", failing |-> {}, status |-> 0]
    /\ stop = FALSE /\ fatal = FALSE /\ disconnecting = FALSE /\ editorClosed = FALSE
    /\ adapter = "running"
    /\ requests = {} /\ replies = {}
    /\ events = "get" /\ queued = 0 /\ sent = 0 /\ unread = 0
    /\ answered = {}

\* _record_fatal
Fatal == fatal' = TRUE /\ stop' = TRUE /\ UNCHANGED <<disconnecting, editorClosed>>

\* MUTANT: whether the proxy has stopped is not looked at.
WriteBreaks == adapter # "running"

\* _write_downstream raises.
WriteFails == stop \/ adapter # "running"

--------------------------------------------------------------------------------
\* request_downstream, called from a hook.
InHook(c) == IF c = EventHooks THEN events = "hook" ELSE forwarder[c].at = "serving"

Asks(c) == c \in Callers /\ caller[c].at # "idle"

CallBegins(c) ==
    /\ caller[c].at = "idle" /\ InHook(c) /\ ~ stop /\ nextSeq <= MaxSeq
    /\ caller' = [caller EXCEPT ![c] = [at |-> "allocated", seq |-> nextSeq]]
    /\ nextSeq' = nextSeq + 1
    /\ UNCHANGED <<tableVars, completed, forwarder, reader, main, flagVars, wireVars,
                   eventVars, answered>>

CallRegisters(c) ==
    /\ caller[c].at = "allocated"
    /\ internal' = internal \cup {caller[c].seq}
    /\ caller' = [caller EXCEPT ![c].at = "registered"]
    /\ UNCHANGED <<nextSeq, forwarded, abandoned, completed, forwarder, reader, main, flagVars,
                   wireVars, eventVars, answered>>

CallWrites(c) ==
    /\ caller[c].at = "registered" /\ ~ WriteFails
    /\ requests' = requests \cup {caller[c].seq}
    /\ caller' = [caller EXCEPT ![c].at = "waiting"]
    /\ UNCHANGED <<nextSeq, tableVars, completed, forwarder, reader, main, flagVars, adapter,
                   replies, eventVars, answered>>

\* A broken pipe is fatal; a proxy that has stopped is not asked to write.
CallWriteFails(c) ==
    /\ caller[c].at = "registered" /\ WriteFails
    /\ IF stop THEN UNCHANGED flagVars ELSE Fatal
    /\ caller' = [caller EXCEPT ![c].at = "unwritten"]
    /\ UNCHANGED <<nextSeq, tableVars, completed, forwarder, reader, main, wireVars, eventVars,
                   answered>>

CallWithdraws(c) ==
    /\ caller[c].at = "unwritten"
    /\ internal' = internal \ {caller[c].seq}
    /\ caller' = [caller EXCEPT ![c].at = "idle"]
    /\ UNCHANGED <<nextSeq, forwarded, abandoned, completed, forwarder, reader, main, flagVars,
                   wireVars, eventVars, answered>>

CallReturns(c) ==
    /\ caller[c].at = "waiting" /\ caller[c].seq \in DOMAIN completed
    /\ caller' = [caller EXCEPT ![c].at = "idle"]
    /\ UNCHANGED <<nextSeq, tableVars, completed, forwarder, reader, main, flagVars, wireVars,
                   eventVars, answered>>

\* The wait ends without the event; the reply may arrive before the table has
\* been corrected.
CallTimesOut(c) ==
    /\ caller[c].at = "waiting" /\ caller[c].seq \notin DOMAIN completed
    /\ caller' = [caller EXCEPT ![c].at = "timedOut"]
    /\ UNCHANGED <<nextSeq, tableVars, completed, forwarder, reader, main, flagVars, wireVars,
                   eventVars, answered>>

\* MUTANT: the number is only forgotten.
CallForgets(c) ==
    /\ caller[c].at = "timedOut"
    /\ internal' = internal \ {caller[c].seq}
    /\ caller' = [caller EXCEPT ![c].at = "idle"]
    /\ UNCHANGED <<nextSeq, forwarded, abandoned, completed, forwarder, reader, main, flagVars,
                   wireVars, eventVars, answered>>

CallAbandons(c) ==
    /\ caller[c].at = "timedOut"
    /\ internal' = internal \ {caller[c].seq}
    /\ abandoned' = abandoned \cup {caller[c].seq}
    /\ caller' = [caller EXCEPT ![c].at = "idle"]
    /\ UNCHANGED <<nextSeq, forwarded, completed, forwarder, reader, main, flagVars, wireVars,
                   eventVars, answered>>

--------------------------------------------------------------------------------
\* _handle_upstream_message.  disconnect is the last request the editor makes.
Reads == forwarder[Upstream].at = "idle" /\ ~ stop /\ ~ disconnecting

EditorRequests(disconnects) ==
    /\ Reads /\ nextSeq <= MaxSeq
    /\ forwarder' = [forwarder EXCEPT ![Upstream] = [at |-> "allocated", seq |-> nextSeq]]
    /\ nextSeq' = nextSeq + 1
    /\ disconnecting' = disconnects
    /\ UNCHANGED <<tableVars, callVars, reader, main, stop, fatal, editorClosed,
                   wireVars, eventVars, answered>>

EditorAsksHook(h) ==
    /\ Reads /\ forwarder[h].at = "idle"
    /\ forwarder' = [forwarder EXCEPT ![h].at = "serving"]
    /\ UNCHANGED <<nextSeq, tableVars, callVars, reader, main, flagVars, wireVars, eventVars,
                   answered>>

\* _handle_hook_request: the hook has an answer, or fails, which is an answer too.
HookAnswers(h) ==
    /\ forwarder[h].at = "serving" /\ ~ Asks(h)
    /\ forwarder' = [forwarder EXCEPT ![h].at = "idle"]
    /\ UNCHANGED <<nextSeq, tableVars, callVars, reader, main, flagVars, wireVars, eventVars,
                   answered>>

\* It has none.
HookForwards(h) ==
    /\ forwarder[h].at = "serving" /\ ~ Asks(h) /\ nextSeq <= MaxSeq
    /\ forwarder' = [forwarder EXCEPT ![h] = [at |-> "allocated", seq |-> nextSeq]]
    /\ nextSeq' = nextSeq + 1
    /\ UNCHANGED <<tableVars, callVars, reader, main, flagVars, wireVars, eventVars, answered>>

\* _forward_client_request
ForwardRegisters(f) ==
    /\ forwarder[f].at = "allocated"
    /\ forwarded' = forwarded \cup {forwarder[f].seq}
    /\ forwarder' = [forwarder EXCEPT ![f].at = "registered"]
    /\ UNCHANGED <<nextSeq, internal, abandoned, callVars, reader, main, flagVars,
                   wireVars, eventVars, answered>>

ForwardWrites(f) ==
    /\ forwarder[f].at = "registered" /\ ~ WriteFails
    /\ requests' = requests \cup {forwarder[f].seq}
    /\ forwarder' = [forwarder EXCEPT ![f].at = "idle"]
    /\ UNCHANGED <<nextSeq, tableVars, callVars, reader, main, flagVars, adapter,
                   replies, eventVars, answered>>

\* The failure ends the upstream reader, and the session with it; a hook thread
\* answers the editor with the error.
ForwardFails(f) ==
    /\ forwarder[f].at = "registered" /\ WriteFails
    /\ forwarded' = forwarded \ {forwarder[f].seq}
    /\ IF stop /\ f # Upstream THEN UNCHANGED flagVars ELSE Fatal
    /\ forwarder' = [forwarder EXCEPT ![f].at = IF f = Upstream THEN "gone" ELSE "idle"]
    /\ UNCHANGED <<nextSeq, internal, abandoned, callVars, reader, main, wireVars,
                   eventVars, answered>>

EditorCloses ==
    /\ forwarder[Upstream].at = "idle"
    /\ editorClosed' = TRUE /\ stop' = TRUE
    /\ forwarder' = [forwarder EXCEPT ![Upstream].at = "gone"]
    /\ UNCHANGED <<nextSeq, tableVars, callVars, reader, main, fatal, disconnecting,
                   wireVars, eventVars, answered>>

--------------------------------------------------------------------------------
\* The downstream reader: _downstream_loop looks at _stop, then blocks in a read.
ReaderBlocks ==
    /\ reader.at = "check"
    /\ reader' = [reader EXCEPT !.at = IF stop THEN "gone" ELSE "read"]
    /\ UNCHANGED <<nextSeq, tableVars, callVars, forwarder, main, flagVars, wireVars,
                   eventVars, answered>>

\* MUTANT: while any reply is overdue, a reply nobody waits for is taken for it.
AddresseeOverdue(s) ==
    CASE s \in internal -> "caller"
      [] s \notin internal /\ abandoned # {} -> "nobody"
      [] s \notin internal /\ abandoned = {} /\ s \in forwarded -> "editor"
      [] OTHER -> "unknown"

\* _handle_downstream_response: every table is searched under one lock.
Addressee(s) ==
    CASE s \in internal -> "caller"
      [] s \notin internal /\ s \in abandoned -> "nobody"
      [] s \notin internal \cup abandoned /\ s \in forwarded -> "editor"
      [] OTHER -> "unknown"

\* MUTANT: the hooks of events run on the reader itself.
ReaderReadsBetweenHooks(s) ==
    /\ reader.at = "read" /\ s \in replies /\ events # "hook"
    /\ replies' = replies \ {s}
    /\ reader' = [at |-> "deliver", seq |-> s, to |-> Addressee(s)]
    /\ internal' = internal \ {s}
    /\ forwarded' = forwarded \ {s}
    /\ abandoned' = abandoned \ {s}
    /\ UNCHANGED <<nextSeq, callVars, forwarder, main, flagVars, adapter, requests, eventVars,
                   answered>>

ReaderReads(s) ==
    /\ reader.at = "read" /\ s \in replies
    /\ replies' = replies \ {s}
    /\ reader' = [at |-> "deliver", seq |-> s, to |-> Addressee(s)]
    /\ internal' = internal \ {s}
    /\ forwarded' = forwarded \ {s}
    /\ abandoned' = abandoned \ {s}
    /\ UNCHANGED <<nextSeq, callVars, forwarder, main, flagVars, adapter, requests, eventVars,
                   answered>>

Complete(s, how) ==
    completed' = [x \in DOMAIN completed \cup {s} |->
                     IF x = s THEN how ELSE completed[x]]

ReaderDelivers ==
    /\ reader.at = "deliver" /\ reader.to # "unknown"
    /\ IF reader.to = "caller" THEN Complete(reader.seq, "response") ELSE UNCHANGED completed
    /\ answered' = IF reader.to = "editor" THEN answered \cup {reader.seq} ELSE answered
    /\ reader' = [reader EXCEPT !.at = "check"]
    /\ UNCHANGED <<nextSeq, tableVars, caller, forwarder, main, flagVars, wireVars, eventVars>>

\* A reply nobody asked for, and one whose command is not that of its request
\* (_validate_response_command), end the reader.  The request is no longer in any
\* table then and its event is not set.
ReaderRejects ==
    /\ reader.at = "deliver" /\ reader.to # "nobody"
    /\ Fatal
    /\ reader' = [reader EXCEPT !.at = "gone"]
    /\ UNCHANGED <<nextSeq, tableVars, callVars, forwarder, main, wireVars, eventVars, answered>>

\* Stops and resumes are left to the event-hook thread, whose hooks may wait for
\* a reply; every other event is passed on at once.
ReaderQueues ==
    /\ reader.at = "read" /\ unread > 0
    /\ unread' = unread - 1 /\ queued' = queued + 1
    /\ reader' = [reader EXCEPT !.at = "check"]
    /\ UNCHANGED <<nextSeq, tableVars, callVars, forwarder, main, flagVars, wireVars, events,
                   sent, answered>>

ReaderEnds ==
    /\ reader.at = "read" /\ adapter = "exited"
    /\ replies = {} /\ unread = 0
    /\ IF disconnecting \/ editorClosed
       THEN stop' = TRUE /\ UNCHANGED <<fatal, disconnecting, editorClosed>>
       ELSE Fatal
    /\ reader' = [reader EXCEPT !.at = "gone"]
    /\ UNCHANGED <<nextSeq, tableVars, callVars, forwarder, main, wireVars, eventVars,
                   answered>>

--------------------------------------------------------------------------------
\* _event_hook_loop.  Once the proxy has stopped the loop takes one more event if it
\* is waiting for one; what else is queued is dropped.
EventTaken ==
    /\ events = "get" /\ queued > 0
    /\ queued' = queued - 1 /\ events' = "hook"
    /\ UNCHANGED <<nextSeq, tableVars, callVars, forwarder, reader, main, flagVars, wireVars,
                   sent, unread, answered>>

\* The hook returns the event for the editor, or swallows it.
EventHandled ==
    /\ events = "hook" /\ ~ Asks(EventHooks)
    /\ events' = IF stop THEN "gone" ELSE "get"
    /\ UNCHANGED <<nextSeq, tableVars, callVars, forwarder, reader, main, flagVars, wireVars,
                   queued, sent, unread, answered>>

\* A hook that raises ends the session.
EventFails ==
    /\ events = "hook" /\ ~ Asks(EventHooks)
    /\ Fatal /\ events' = "gone"
    /\ UNCHANGED <<nextSeq, tableVars, callVars, forwarder, reader, main, wireVars,
                   queued, sent, unread, answered>>

EventLoopEnds ==
    /\ events = "get" /\ queued = 0 /\ stop
    /\ events' = "gone"
    /\ UNCHANGED <<nextSeq, tableVars, callVars, forwarder, reader, main, flagVars, wireVars,
                   queued, sent, unread, answered>>

--------------------------------------------------------------------------------
\* The main thread: _fail_pending empties the table under the lock and sets the
\* events afterwards; _shutdown_downstream waits for the adapter or kills it.
MainFailsPending ==
    /\ main.at = "running" /\ stop
    /\ main' = [main EXCEPT !.at = "failing", !.failing = internal]
    /\ internal' = {}
    /\ UNCHANGED <<nextSeq, forwarded, abandoned, callVars, forwarder, reader, flagVars,
                   wireVars, eventVars, answered>>

MainReleases ==
    /\ main.at = "failing"
    /\ \E s \in main.failing :
          /\ Complete(s, "error")
          /\ main' = [main EXCEPT !.failing = @ \ {s}]
    /\ UNCHANGED <<nextSeq, tableVars, caller, forwarder, reader, flagVars, wireVars,
                   eventVars, answered>>

MainCloses ==
    /\ main.at = "failing" /\ main.failing = {}
    /\ main' = [main EXCEPT !.at = "closing"]
    /\ UNCHANGED <<nextSeq, tableVars, callVars, forwarder, reader, flagVars, wireVars,
                   eventVars, answered>>

MainReturns ==
    /\ main.at = "closing" /\ adapter = "exited"
    /\ main' = [main EXCEPT !.at = "done", !.status = IF fatal THEN 1 ELSE 0]
    /\ UNCHANGED <<nextSeq, tableVars, callVars, forwarder, reader, flagVars, wireVars,
                   eventVars, answered>>

--------------------------------------------------------------------------------
\* The adapter.  It exits when it is told to and when its input is closed, and
\* may crash before.
AdapterAnswers(s) ==
    /\ adapter = "running" /\ s \in requests
    /\ requests' = requests \ {s}
    /\ replies' = replies \cup {s}
    /\ UNCHANGED <<nextSeq, tableVars, callVars, forwarder, reader, main, flagVars, adapter,
                   eventVars, answered>>

AdapterSignals ==
    /\ adapter = "running" /\ sent < MaxEvents
    /\ sent' = sent + 1 /\ unread' = unread + 1
    /\ UNCHANGED <<nextSeq, tableVars, callVars, forwarder, reader, main, flagVars, wireVars,
                   events, queued, answered>>

AdapterExits ==
    /\ adapter = "running"
    /\ adapter' = "exited"
    /\ UNCHANGED <<nextSeq, tableVars, callVars, forwarder, reader, main, flagVars, requests,
                   replies, eventVars, answered>>

--------------------------------------------------------------------------------
Call(c) ==
    \/ CallBegins(c) \/ CallRegisters(c) \/ CallWrites(c) \/ CallWriteFails(c)
    \/ CallWithdraws(c) \/ CallReturns(c) \/ CallTimesOut(c) \/ CallAbandons(c)

Editor ==
    \/ \E disconnects \in BOOLEAN : EditorRequests(disconnects)
    \/ \E h \in Hooks : EditorAsksHook(h)
    \/ EditorCloses

Hook(h) == HookAnswers(h) \/ HookForwards(h)

Forward(f) == ForwardRegisters(f) \/ ForwardWrites(f) \/ ForwardFails(f)

Reader ==
    \/ ReaderBlocks \/ ReaderDelivers \/ ReaderRejects \/ ReaderEnds \/ ReaderQueues
    \/ \E s \in replies : ReaderReads(s)

EventLoop == EventTaken \/ EventHandled \/ EventFails \/ EventLoopEnds

Main == MainFailsPending \/ MainReleases \/ MainCloses \/ MainReturns

Adapter ==
    \/ AdapterSignals \/ AdapterExits \/ \E s \in requests : AdapterAnswers(s)

Next ==
    \/ Editor \/ Reader \/ EventLoop \/ Main \/ Adapter
    \/ \E h \in Hooks : Hook(h)
    \/ \E f \in Forwarders : Forward(f)
    \/ \E c \in Callers : Call(c)

Spec == Init /\ [][Next]_vars

\* The reply to a caller was refused: only its own timeout releases it.
Refused(c) == reader.at = "gone" /\ reader.to = "caller" /\ reader.seq = caller[c].seq

\* The proxy's threads run, and a hook returns.  A wait does end at its timeout,
\* but that is asked of a refused caller alone: nobody else should need it.  The
\* adapter answers what it is asked.
CallProceeds(c) ==
    \/ CallRegisters(c) \/ CallWrites(c) \/ CallWriteFails(c)
    \/ CallWithdraws(c) \/ CallReturns(c) \/ CallAbandons(c)

HookThread(h) == Hook(h) \/ Forward(h)

Fairness ==
    /\ \A c \in Callers : WF_vars(CallProceeds(c)) /\ WF_vars(Refused(c) /\ CallTimesOut(c))
    /\ \A h \in Hooks : WF_vars(HookThread(h))
    /\ WF_vars(EventLoop) /\ WF_vars(Forward(Upstream))
    /\ WF_vars(Reader) /\ WF_vars(Main)
    /\ WF_vars(\E s \in requests : AdapterAnswers(s))

FairSpec == Spec /\ Fairness

--------------------------------------------------------------------------------
FlagTypes ==
    /\ stop \in BOOLEAN /\ fatal \in BOOLEAN
    /\ disconnecting \in BOOLEAN /\ editorClosed \in BOOLEAN
    /\ events \in {"get", "hook", "gone"}
    /\ queued \in Nat /\ sent \in Nat /\ unread \in Nat

\* TYPE: every variable holds what the source keeps in it.
TypeOK ==
    /\ FlagTypes
    /\ nextSeq \in 1 .. MaxSeq + 1
    /\ internal \subseteq Seqs /\ forwarded \subseteq Seqs /\ abandoned \subseteq Seqs
    /\ DOMAIN completed \subseteq Seqs
    /\ \A s \in DOMAIN completed : completed[s] \in {"response", "error"}
    /\ caller \in [Callers -> [at : {"idle", "allocated", "registered", "waiting",
                                     "unwritten", "timedOut"}, seq : 0 .. MaxSeq]]
    /\ forwarder \in [Forwarders -> [at : {"idle", "serving", "allocated", "registered", "gone"},
                                     seq : 0 .. MaxSeq]]
    /\ reader \in [at : {"check", "read", "deliver", "gone"}, seq : 0 .. MaxSeq,
                   to : {"caller", "nobody", "editor", "unknown"}]
    /\ main \in [at : {"running", "failing", "closing", "done"},
                 failing : SUBSET Seqs, status : {0, 1}]
    /\ adapter \in {"running", "exited"}
    /\ requests \subseteq Seqs /\ replies \subseteq Seqs /\ answered \subseteq Seqs

\* SAFETY: as long as the session lasts no reply is unknown to the proxy, and so
\* none ends the session, whichever callers have given up and however late it is.
NoReplyUnknown == reader.to = "unknown" => main.at # "running"

\* SAFETY: the editor is never answered on behalf of the proxy's own request, nor
\* a caller with a reply meant for the editor: the tables never overlap.
OneTable ==
    /\ internal \cap forwarded = {} /\ forwarded \cap abandoned = {}
    /\ internal \cap abandoned = {}
    /\ DOMAIN completed \cap answered = {}

\* LIVENESS: once the proxy stops, every caller is released and every hook thread
\* done, even one about to register its request.  None of them waits for a timeout
\* but the caller whose reply the reader refused, for _fail_pending cannot see it.
StopReleases ==
    stop ~> /\ \A c \in Callers : caller[c].at = "idle"
            /\ \A h \in Hooks : forwarder[h].at = "idle"

\* LIVENESS: every request the editor makes is answered unless the session ends,
\* by the adapter or by the hook it was given to.
EditorAnswered ==
    /\ \A s \in Seqs : (s \in forwarded) ~> (s \in answered \/ stop)
    /\ \A h \in Hooks : (forwarder[h].at # "idle") ~> (forwarder[h].at = "idle")

\* LIVENESS: a stop or a resume the reader has queued is handled unless the
\* session ends, although its hook may wait for replies that only the reader
\* can deliver; no timeout is needed.
EventsHandled ==
    (queued > 0 \/ events = "hook") ~> ((queued = 0 /\ events # "hook") \/ stop)
================================================================================
