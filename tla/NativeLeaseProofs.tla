---------------------------- MODULE NativeLeaseProofs ---------------------------
(***************************************************************************)
(* What holds of NativeLease.tla for every set of Rust frames and every    *)
(* number of stops and suspensions, with an editor that waits for the      *)
(* answer to a request before it makes the next, so that one hook thread   *)
(* serves it: the suspensions the proxy makes for itself stay hidden, they *)
(* are given back, and frame ids are used only while they are good.        *)
(*                                                                         *)
(* In every lemma h is that thread.                                        *)
(***************************************************************************)
EXTENDS NativeLease, SequenceTheorems, TLAPS

\* CodeLLDB's events, and those on their way: the hook has still to be given the
\* queue, and after it what the reader has still to read.
Stopped(by) == [kind |-> "stopped", by |-> by]
Continued(by) == [kind |-> "continued", by |-> by]
Sides == {"user", "proxy"}
NativeEvents == {Stopped(by) : by \in Sides} \cup {Continued(by) : by \in Sides}

Pipe == queue \o wire

\* debugpy's.
PythonStopped == [kind |-> "stopped", all |-> TRUE]
PythonContinued(all) == [kind |-> "continued", all |-> all]
OnlyResumes == {<<PythonContinued(b)>> : b \in BOOLEAN}
EndInStop   == {<<PythonStopped>>} \cup {<<PythonContinued(b), PythonStopped>> : b \in BOOLEAN}

Places ==
    {"idle", "debugpy", "arm", "pause", "await", "trace", "publish", "suppress", "continue",
     "settle", "remember", "unwind", "acquire", "resolve", "acquired", "restore", "release",
     "forget", "released", "nativeContinue", "nativeContinued"}

Calls ==
    [op : {"none", "stackTrace", "rust", "step", "python", "resume", "native"}, pc : Places,
     frame : Frames \cup {None}, of : Nat, native : Nat, own : BOOLEAN, ok : BOOLEAN]

EngineTypes == suspended \in Sides \cup {None} /\ nstop \in Nat /\ pstop \in Nat
PipeTypes   == wire \in Seq(NativeEvents) /\ queue \in Seq(NativeEvents)
LeaseTypes  == published \in Nat /\ frameId \in [Frames -> Nat]
CallTypes   == call \in [Hooks -> Calls]

Types == EngineTypes /\ PipeTypes /\ LeaseTypes /\ CallTypes

\* A step of the thread that leaves the request it serves as it is.
SameRequest(h) ==
    /\ call'[h].op = call[h].op /\ call'[h].of = call[h].of
    /\ call'[h].frame = call[h].frame
    /\ call'[h].native = call[h].native /\ call'[h].ok = call[h].ok

In(h, places) == call[h].pc \in places

--------------------------------------------------------------------------------
\* CodeLLDB alternates; it never gets further ahead of the hooks than this.
Pipes ==
    \/ suspended = None /\ Pipe \in {<<>>, <<Continued("user")>>, <<Continued("proxy")>>}
    \/ /\ suspended # None
       /\ Pipe \in {<<>>, <<Stopped(suspended)>>, <<Continued("user"), Stopped(suspended)>>}
    \/ suspended = "user" /\ Pipe = <<Continued("proxy"), Stopped("user")>>

HoldsStop(p)   == p \in {<<Stopped("proxy")>>, <<Continued("user"), Stopped("proxy")>>}
HoldsResume(p) == p \in {<<Continued("proxy")>>, <<Continued("proxy"), Stopped("user")>>}
StopOnItsWay   == HoldsStop(Pipe)
ResumeOnItsWay == HoldsResume(Pipe)

\* The proxy's own events are awaited as long as they are on their way.
Awaited(h) ==
    /\ StopOnItsWay => At(h, "await")
    /\ ResumeOnItsWay => At(h, "settle")

\* The process is suspended, its suspension is known to the proxy, and the editor
\* has not been told of it.
Taken == suspended # None /\ Pipe = <<>> /\ "native" \notin view

Armed(h) ==
    /\ In(h, {"pause", "await"}) =>
           maintenance = h /\ (<<h, "stopped">> \in raised => Taken)
    /\ At(h, "await") =>
           /\ suspended # None
           /\ suspended = "proxy" =>
                  StopOnItsWay \/ <<h, "stopped">> \in raised \/ active \/ failed

Suppressing(h) ==
    /\ suppress # None => In(h, {"continue", "settle"})
    /\ At(h, "continue") => suppress = h /\ <<h, "continued">> \notin raised
    /\ At(h, "settle") =>
           IF ResumeOnItsWay THEN suppress = h /\ <<h, "continued">> \notin raised
           ELSE suppress = None

\* Where the process is taken, and where the lease is not recorded.
Holding(h) ==
    /\ active => Taken
    /\ In(h, {"trace", "publish", "suppress", "continue", "resolve", "acquired", "forget"})
           => Taken
    /\ In(h, {"arm", "publish", "suppress", "continue", "forget"}) => ~active
    /\ In(h, {"pause", "await", "trace"}) /\ call[h].op = "stackTrace" => ~active

\* What CodeLLDB has told of the suspension that is on.
Leased(h) ==
    /\ At(h, "resolve") => call[h].native = nstop
    /\ At(h, "acquired") \/ (At(h, "unwind") /\ call[h].ok) =>
           call[h].native = nstop /\ active

Accounted(h) ==
    suspended = "proxy" =>
        \/ failed
        \/ /\ ~In(h, {"settle", "remember", "released"})
           /\ \/ active
              \/ In(h, {"await", "trace", "publish", "suppress", "continue", "resolve",
                        "forget"})

\* What the editor is shown of CodeLLDB is a stop of the user's.
Shown(h) ==
    /\ "native" \in view => (suspended = "user" /\ Pipe = <<>>) \/ At(h, "nativeContinued")
    /\ At(h, "nativeContinue") => "native" \in view

\* The frame ids of a published stack are good as long as the lease lasts.
FrameIds(h) ==
    \A f \in Frames :
        published # 0 /\ frameId[f] # 0 => frameId[f] = nstop /\ (active \/ At(h, "forget"))

\* A stop of debugpy is in one place.
OneStop ==
    /\ pwire \in {<<>>} \cup OnlyResumes \cup EndInStop
    /\ pwire \in EndInStop => held
    /\ pwire # <<>> => "python" \notin view /\ ~active /\ ~resuming
    /\ "python" \in view \/ resuming => held
    /\ "python" \in view => ~resuming

\* Every request but a continue of a native thread is about one that is shown.
Busy(h) == ~In(h, {"idle", "nativeContinue", "nativeContinued"}) => "python" \in view

Operations(h) ==
    /\ In(h, {"arm", "publish", "suppress"}) => call[h].op = "stackTrace"
    /\ In(h, {"pause", "await", "trace"}) => call[h].op \in {"stackTrace", "rust", "step"}
    /\ In(h, {"acquire", "resolve"}) => call[h].op \in {"rust", "step"}
    /\ call[h].op \in {"rust", "step"} => call[h].of # 0 /\ call[h].frame \in Frames
    /\ call[h].ok => /\ call[h].op \in {"rust", "step"}
                     /\ ~In(h, {"acquire", "pause", "await", "trace", "resolve"})

IInv(h) ==
    /\ Types
    /\ Pipes
    /\ Awaited(h)
    /\ Armed(h)
    /\ Suppressing(h)
    /\ Holding(h)
    /\ Leased(h)
    /\ Accounted(h)
    /\ Shown(h)
    /\ FrameIds(h)
    /\ OneStop
    /\ Busy(h)
    /\ Operations(h)
    /\ MaintenanceHidden

--------------------------------------------------------------------------------
\* The events on their way.
LEMMA EventsDiffer ==
    /\ \A a, b \in Sides : /\ Stopped(a) # Continued(b)
                           /\ Stopped(a) = Stopped(b) => a = b
                           /\ Continued(a) = Continued(b) => a = b
    /\ \A a \in Sides : /\ Stopped(a).kind = "stopped" /\ Stopped(a).by = a
                        /\ Continued(a).kind = "continued" /\ Continued(a).by = a
    /\ \A a \in Sides : Stopped(a) \in NativeEvents /\ Continued(a) \in NativeEvents
    BY DEF Stopped, Continued, NativeEvents, Sides

LEMMA ShortPipes ==
    ASSUME NEW a, NEW b
    PROVE  /\ Append(<<>>, a) = <<a>>
           /\ Append(<<a>>, b) = <<a, b>>
           /\ Head(<<a>>) = a /\ Tail(<<a>>) = <<>>
           /\ Head(<<a, b>>) = a /\ Tail(<<a, b>>) = <<b>>
           /\ <<a>> # <<>> /\ <<a, b>> # <<>> /\ <<>> # <<a>> /\ <<>> # <<a, b>>
    <1>1. Append(<<a>>, b) = <<a, b>>
        <2> DEFINE one == <<a>>
                   two == <<a, b>>
        <2>1. /\ Append(one, b) = [i \in 1..2 |-> IF i = 2 THEN b ELSE one[i]]
              /\ two = [i \in 1..2 |-> two[i]]
            OBVIOUS
        <2>2. \A i \in 1..2 : (IF i = 2 THEN b ELSE one[i]) = two[i]
            OBVIOUS
        <2> HIDE DEF one, two
        <2>3. Append(one, b) = two
            BY <2>1, <2>2
        <2> QED
            BY <2>3 DEF one, two
    <1>2. Append(<<>>, a) = <<a>>
        OBVIOUS
    <1>3. Tail(<<a>>) = <<>> /\ Tail(<<a, b>>) = <<b>>
        OBVIOUS
    <1>4. Head(<<a>>) = a /\ Head(<<a, b>>) = a /\ <<a>> # <<>> /\ <<a, b>> # <<>>
        OBVIOUS
    <1> QED
        BY <1>1, <1>2, <1>3, <1>4

LEMMA PipeSame ==
    ASSUME UNCHANGED <<wire, queue>>
    PROVE  Pipe' = Pipe
    BY DEF Pipe

LEMMA PipeRead ==
    ASSUME Types, wire # <<>>, wire' = Tail(wire), queue' = Append(queue, Head(wire))
    PROVE  Pipe' = Pipe
    <1>1. wire \in Seq(NativeEvents) /\ queue \in Seq(NativeEvents)
        BY DEF Types, PipeTypes
    <1>2. /\ Len(Pipe') = Len(Pipe) /\ Pipe' \in Seq(NativeEvents) /\ Pipe \in Seq(NativeEvents)
          /\ \A i \in 1..Len(Pipe) : Pipe'[i] = Pipe[i]
        BY <1>1 DEF Pipe
    <1> QED
        BY <1>2, SeqEqual

LEMMA PipeSend ==
    ASSUME Types, NEW e \in NativeEvents, wire' = Append(wire, e), queue' = queue
    PROVE  Pipe' = Append(Pipe, e)
    <1>1. wire \in Seq(NativeEvents) /\ queue \in Seq(NativeEvents)
        BY DEF Types, PipeTypes
    <1>2. /\ Len(Pipe') = Len(Append(Pipe, e)) /\ Pipe' \in Seq(NativeEvents)
          /\ Append(Pipe, e) \in Seq(NativeEvents)
          /\ \A i \in 1..Len(Pipe') : Pipe'[i] = Append(Pipe, e)[i]
        BY <1>1 DEF Pipe
    <1> QED
        BY <1>2, SeqEqual

LEMMA PipeTake ==
    ASSUME Types, queue # <<>>, queue' = Tail(queue), wire' = wire
    PROVE  Pipe # <<>> /\ Head(Pipe) = Head(queue) /\ Pipe' = Tail(Pipe)
    <1>1. wire \in Seq(NativeEvents) /\ queue \in Seq(NativeEvents)
        BY DEF Types, PipeTypes
    <1>2. Pipe # <<>> /\ Head(Pipe) = Head(queue)
        BY <1>1 DEF Pipe
    <1>3. /\ Len(Pipe') = Len(Tail(Pipe)) /\ Pipe' \in Seq(NativeEvents)
          /\ Tail(Pipe) \in Seq(NativeEvents)
          /\ \A i \in 1..Len(Pipe') : Pipe'[i] = Tail(Pipe)[i]
        BY <1>1, <1>2 DEF Pipe
    <1> QED
        BY <1>2, <1>3, SeqEqual

LEMMA PipeEmpty ==
    ASSUME Types
    PROVE  InTime <=> Pipe # <<>>
    BY DEF Types, PipeTypes, InTime, Pipe

\* What is on its way, of the proxy's own events.
LEMMA OnItsWay ==
    /\ ~HoldsStop(<<>>) /\ ~HoldsResume(<<>>)
    /\ \A a \in Sides :
           /\ ~HoldsStop(<<Continued(a)>>)
           /\ HoldsResume(<<Continued(a)>>) <=> a = "proxy"
           /\ ~HoldsResume(<<Stopped(a)>>)
           /\ HoldsStop(<<Stopped(a)>>) <=> a = "proxy"
           /\ ~HoldsResume(<<Continued("user"), Stopped(a)>>)
           /\ HoldsStop(<<Continued("user"), Stopped(a)>>) <=> a = "proxy"
    /\ ~HoldsStop(<<Continued("proxy"), Stopped("user")>>)
    /\ HoldsResume(<<Continued("proxy"), Stopped("user")>>)
    <1>1. ASSUME NEW a, NEW b, NEW c, NEW d
          PROVE  /\ <<a>> = <<b>> <=> a = b
                 /\ <<a, b>> = <<c, d>> <=> a = c /\ b = d
                 /\ <<a>> # <<b, c>> /\ <<b, c>> # <<a>>
                 /\ <<>> # <<a>> /\ <<>> # <<a, b>>
        <2> DEFINE one == <<a>>
                   two == <<a, b>>
                   other == <<b>>
                   others == <<c, d>>
                   third == <<b, c>>
        <2>1. /\ Len(one) = 1 /\ Len(other) = 1 /\ Len(two) = 2 /\ Len(others) = 2
              /\ Len(third) = 2 /\ Len(<<>>) = 0
              /\ one[1] = a /\ other[1] = b
              /\ two[1] = a /\ two[2] = b /\ others[1] = c /\ others[2] = d
            OBVIOUS
        <2>2. (a = b => one = other) /\ (a = c /\ b = d => two = others)
            OBVIOUS
        <2> HIDE DEF one, two, other, others, third
        <2>3. one = other <=> a = b
            BY <2>1, <2>2
        <2>4. two = others <=> a = c /\ b = d
            BY <2>1, <2>2
        <2>5. one # third /\ third # one
            BY <2>1
        <2>6. <<>> # one /\ <<>> # two
            BY <2>1
        <2> QED
            BY <2>3, <2>4, <2>5, <2>6 DEF one, two, other, others, third
    <1>2. "user" \in Sides /\ "proxy" \in Sides /\ "user" # "proxy" /\ "stopped" # "continued"
        BY DEF Sides
    <1>3. ~HoldsStop(<<>>) /\ ~HoldsResume(<<>>)
        BY <1>1 DEF HoldsStop, HoldsResume
    <1>4. ASSUME NEW a \in Sides
          PROVE  ~HoldsStop(<<Continued(a)>>) /\ (HoldsResume(<<Continued(a)>>) <=> a = "proxy")
        BY <1>1, <1>2, EventsDiffer DEF HoldsStop, HoldsResume
    <1>5. ASSUME NEW a \in Sides
          PROVE  ~HoldsResume(<<Stopped(a)>>) /\ (HoldsStop(<<Stopped(a)>>) <=> a = "proxy")
        BY <1>1, <1>2, EventsDiffer DEF HoldsStop, HoldsResume
    <1>6. ASSUME NEW a \in Sides
          PROVE  /\ ~HoldsResume(<<Continued("user"), Stopped(a)>>)
                 /\ HoldsStop(<<Continued("user"), Stopped(a)>>) <=> a = "proxy"
        BY <1>1, <1>2, EventsDiffer DEF HoldsStop, HoldsResume
    <1>7. /\ ~HoldsStop(<<Continued("proxy"), Stopped("user")>>)
          /\ HoldsResume(<<Continued("proxy"), Stopped("user")>>)
        BY <1>1, <1>2, EventsDiffer DEF HoldsStop, HoldsResume
    <1> QED
        BY <1>3, <1>4, <1>5, <1>6, <1>7

--------------------------------------------------------------------------------
\* The hook thread.
LEMMA CallGoes ==
    ASSUME NEW h \in Hooks, Types, NEW pc \in Places, Goto(h, pc)
    PROVE  /\ CallTypes'
           /\ call'[h] = [call[h] EXCEPT !.pc = pc]
           /\ call'[h].pc = pc /\ call'[h].op = call[h].op /\ call'[h].of = call[h].of
           /\ call'[h].frame = call[h].frame
           /\ call'[h].native = call[h].native /\ call'[h].ok = call[h].ok
           /\ call'[h].own = call[h].own
    BY DEF Types, CallTypes, Goto, Calls

LEMMA CallEnds ==
    ASSUME NEW h \in Hooks, Types, Done(h)
    PROVE  /\ CallTypes'
           /\ call'[h].pc = "idle" /\ call'[h].op = "none" /\ ~call'[h].ok
    BY LeaseAssumption DEF Types, CallTypes, Done, Idle, Calls, Places

LEMMA CallArms ==
    ASSUME NEW h \in Hooks, Types, Arm(h, "pause")
    PROVE  /\ CallTypes'
           /\ call'[h].pc = "pause" /\ call'[h].op = call[h].op /\ call'[h].of = call[h].of
           /\ call'[h].frame = call[h].frame
           /\ call'[h].native = call[h].native /\ call'[h].ok = call[h].ok
           /\ maintenance' = h /\ raised' = raised \ {<<h, "stopped">>}
    <1>1. call' = [call EXCEPT ![h] = [call[h] EXCEPT !.pc = "pause", !.own = TRUE]]
        <2>1. call' = [call EXCEPT ![h].pc = "pause", ![h].own = TRUE]
            BY DEF Arm
        <2>2. call \in [Hooks -> Calls]
            BY DEF Types, CallTypes
        <2> QED
            BY <2>1, <2>2 DEF Calls
    <1>3. maintenance' = h /\ raised' = raised \ {<<h, "stopped">>}
        BY DEF Arm
    <1>2. call \in [Hooks -> Calls]
        BY DEF Types, CallTypes
    <1> DEFINE c == call[h]
               d == [c EXCEPT !.pc = "pause", !.own = TRUE]
    <1>4. c \in Calls /\ call' = [call EXCEPT ![h] = d]
        BY <1>1, <1>2
    <1> HIDE DEF c
    <1>5. /\ d \in Calls /\ d.pc = "pause" /\ d.op = c.op /\ d.of = c.of
          /\ d.frame = c.frame
          /\ d.native = c.native /\ d.ok = c.ok
        BY <1>4 DEF Calls, Places
    <1> HIDE DEF d
    <1>6. call'[h] = d /\ CallTypes'
        BY <1>2, <1>4, <1>5 DEF CallTypes
    <1> QED
        BY <1>3, <1>5, <1>6 DEF c

LEMMA CallAcquires ==
    ASSUME NEW h \in Hooks, Types,
           call' = [call EXCEPT ![h].pc = "acquired", ![h].native = nstop, ![h].ok = TRUE]
    PROVE  /\ CallTypes'
           /\ call'[h].pc = "acquired" /\ call'[h].op = call[h].op /\ call'[h].of = call[h].of
           /\ call'[h].frame = call[h].frame /\ call'[h].native = nstop /\ call'[h].ok
    <1> DEFINE c == call[h]
               d == [c EXCEPT !.pc = "acquired", !.native = nstop, !.ok = TRUE]
    <1>1. call \in [Hooks -> Calls]
        BY DEF Types, CallTypes
    <1>2. call' = [call EXCEPT ![h] = d]
        BY <1>1 DEF Calls
    <1>3. c \in Calls
        BY <1>1
    <1> HIDE DEF c
    <1>4. /\ d \in Calls
          /\ d.pc = "acquired" /\ d.op = c.op /\ d.of = c.of /\ d.frame = c.frame
          /\ d.native = nstop /\ d.ok
        BY <1>3 DEF Calls, Places, Types, EngineTypes
    <1> HIDE DEF d
    <1>5. d \in Calls
        BY <1>4
    <1>6. call'[h] = d /\ CallTypes'
        BY <1>1, <1>2, <1>5 DEF CallTypes
    <1> QED
        BY <1>4, <1>6 DEF c

LEMMA CallTraces ==
    ASSUME NEW h \in Hooks, Types, NEW n \in Nat, NEW pc \in Places,
           call' = [call EXCEPT ![h].native = n, ![h].pc = pc]
    PROVE  /\ CallTypes'
           /\ call'[h].pc = pc /\ call'[h].op = call[h].op /\ call'[h].of = call[h].of
           /\ call'[h].frame = call[h].frame /\ call'[h].native = n /\ call'[h].ok = call[h].ok
    <1> DEFINE c == call[h]
               d == [c EXCEPT !.native = n, !.pc = pc]
    <1>1. call \in [Hooks -> Calls]
        BY DEF Types, CallTypes
    <1>2. call' = [call EXCEPT ![h] = d]
        BY <1>1 DEF Calls
    <1>3. c \in Calls
        BY <1>1
    <1> HIDE DEF c
    <1>4. /\ d \in Calls
          /\ d.pc = pc /\ d.op = c.op /\ d.of = c.of /\ d.frame = c.frame
          /\ d.native = n /\ d.ok = c.ok
        BY <1>3 DEF Calls
    <1> HIDE DEF d
    <1>5. d \in Calls
        BY <1>4
    <1>6. call'[h] = d /\ CallTypes'
        BY <1>1, <1>2, <1>5 DEF CallTypes
    <1> QED
        BY <1>4, <1>6 DEF c

LEMMA CallResolves ==
    ASSUME NEW h \in Hooks, Types, NEW pc \in Places,
           call' = [call EXCEPT ![h].pc = pc, ![h].ok = TRUE]
    PROVE  /\ CallTypes'
           /\ call'[h].pc = pc /\ call'[h].op = call[h].op /\ call'[h].of = call[h].of
           /\ call'[h].frame = call[h].frame /\ call'[h].native = call[h].native /\ call'[h].ok
    <1> DEFINE c == call[h]
               d == [c EXCEPT !.pc = pc, !.ok = TRUE]
    <1>1. call \in [Hooks -> Calls]
        BY DEF Types, CallTypes
    <1>2. call' = [call EXCEPT ![h] = d]
        BY <1>1 DEF Calls
    <1>3. c \in Calls
        BY <1>1
    <1> HIDE DEF c
    <1>4. /\ d \in Calls
          /\ d.pc = pc /\ d.op = c.op /\ d.of = c.of /\ d.frame = c.frame
          /\ d.native = c.native /\ d.ok
        BY <1>3 DEF Calls
    <1> HIDE DEF d
    <1>5. d \in Calls
        BY <1>4
    <1>6. call'[h] = d /\ CallTypes'
        BY <1>1, <1>2, <1>5 DEF CallTypes
    <1> QED
        BY <1>4, <1>6 DEF c

LEMMA CallBegins ==
    ASSUME NEW h \in Hooks, Types, NEW op \in {"stackTrace", "python", "resume", "native"},
           NEW pc \in Places, Begin(h, op, pc)
    PROVE  /\ CallTypes'
           /\ call'[h].pc = pc /\ call'[h].op = op /\ ~call'[h].ok
    BY DEF Types, CallTypes, Begin, Idle, Calls

\* debugpy's events.
LEMMA PythonEvents ==
    /\ \A p \in {<<>>} \cup OnlyResumes : Append(p, PythonStopped) \in EndInStop
    /\ \A b \in BOOLEAN : Append(<<>>, PythonContinued(b)) \in OnlyResumes
    /\ \A p \in EndInStop :
           \/ Head(p) = PythonStopped /\ Tail(p) = <<>>
           \/ Head(p).kind = "continued" /\ Tail(p) = <<PythonStopped>>
    /\ \A p \in OnlyResumes : Head(p).kind = "continued" /\ Tail(p) = <<>>
    /\ <<PythonStopped>> \in EndInStop
    /\ <<>> \notin EndInStop \cup OnlyResumes
    /\ PythonStopped.kind = "stopped"
    <1>1. /\ PythonStopped.kind = "stopped"
          /\ \A b \in BOOLEAN : PythonContinued(b).kind = "continued"
        BY DEF PythonStopped, PythonContinued
    <1>2. \A p \in {<<>>} \cup OnlyResumes : Append(p, PythonStopped) \in EndInStop
        <2>1. Append(<<>>, PythonStopped) \in EndInStop
            BY ShortPipes DEF EndInStop
        <2>2. ASSUME NEW b \in BOOLEAN
              PROVE  Append(<<PythonContinued(b)>>, PythonStopped) \in EndInStop
            <3>1. Append(<<PythonContinued(b)>>, PythonStopped) = <<PythonContinued(b), PythonStopped>>
                BY ShortPipes
            <3> QED
                BY <3>1 DEF EndInStop
        <2> QED
            BY <2>1, <2>2 DEF OnlyResumes
    <1>3. \A b \in BOOLEAN : Append(<<>>, PythonContinued(b)) \in OnlyResumes
        BY ShortPipes DEF OnlyResumes
    <1>4. ASSUME NEW p \in EndInStop
          PROVE  \/ Head(p) = PythonStopped /\ Tail(p) = <<>>
                 \/ Head(p).kind = "continued" /\ Tail(p) = <<PythonStopped>>
        <2>1. CASE p = <<PythonStopped>>
            BY <2>1, ShortPipes
        <2>2. ASSUME NEW b \in BOOLEAN, p = <<PythonContinued(b), PythonStopped>>
              PROVE  Head(p).kind = "continued" /\ Tail(p) = <<PythonStopped>>
            BY <1>1, <2>2, ShortPipes
        <2> QED
            BY <2>1, <2>2 DEF EndInStop
    <1>5. ASSUME NEW p \in OnlyResumes
          PROVE  Head(p).kind = "continued" /\ Tail(p) = <<>>
        BY <1>1, ShortPipes DEF OnlyResumes
    <1>6. <<PythonStopped>> \in EndInStop /\ <<>> \notin EndInStop \cup OnlyResumes
        BY ShortPipes DEF EndInStop, OnlyResumes
    <1> QED
        BY <1>1, <1>2, <1>3, <1>4, <1>5, <1>6


\* What the steps do to what is on its way.
LEMMA StopIsSent ==
    ASSUME Pipes, suspended = None, suspended' \in Sides, None \notin Sides,
           suspended' = "user" \/ ~ResumeOnItsWay,
           Pipe' = Append(Pipe, Stopped(suspended'))
    PROVE  /\ Pipes' /\ Pipe' # <<>>
           /\ StopOnItsWay' <=> suspended' = "proxy"
           /\ ResumeOnItsWay' <=> ResumeOnItsWay
    <1>1. CASE Pipe = <<>>
        <2>1. Pipe' = <<Stopped(suspended')>>
            BY <1>1, ShortPipes
        <2>2. Pipes' /\ Pipe' # <<>>
            BY <2>1, ShortPipes DEF Pipes
        <2> QED
            BY <1>1, <2>1, <2>2, OnItsWay DEF StopOnItsWay, ResumeOnItsWay
    <1>2. CASE Pipe = <<Continued("user")>>
        <2>1. Pipe' = <<Continued("user"), Stopped(suspended')>>
            BY <1>2, ShortPipes
        <2>2. ~ResumeOnItsWay
            BY <1>2, OnItsWay DEF Sides, StopOnItsWay, ResumeOnItsWay
        <2>3. Pipes' /\ Pipe' # <<>>
            BY <2>1, ShortPipes DEF Pipes
        <2> QED
            BY <2>1, <2>2, <2>3, OnItsWay DEF StopOnItsWay, ResumeOnItsWay
    <1>3. CASE Pipe = <<Continued("proxy")>>
        <2>1. ResumeOnItsWay /\ suspended' = "user"
            BY <1>3, OnItsWay DEF Sides, StopOnItsWay, ResumeOnItsWay
        <2>2. Pipe' = <<Continued("proxy"), Stopped("user")>>
            BY <1>3, <2>1, ShortPipes
        <2>3. Pipes' /\ Pipe' # <<>>
            BY <2>1, <2>2, ShortPipes DEF Pipes
        <2> QED
            BY <2>1, <2>2, <2>3, OnItsWay DEF StopOnItsWay, ResumeOnItsWay
    <1> QED
        BY <1>1, <1>2, <1>3 DEF Pipes, Sides

LEMMA ResumeIsSent ==
    ASSUME Pipe = <<>>, suspended' = None, NEW a \in Sides, Pipe' = Append(Pipe, Continued(a))
    PROVE  /\ Pipes' /\ Pipe' # <<>>
           /\ ~StopOnItsWay'
           /\ ResumeOnItsWay' <=> a = "proxy"
    <1>1. Pipe' = <<Continued(a)>>
        BY ShortPipes
    <1>2. Pipes' /\ Pipe' # <<>>
        BY <1>1, ShortPipes DEF Pipes, Sides
    <1> QED
        BY <1>1, <1>2, OnItsWay DEF StopOnItsWay, ResumeOnItsWay

LEMMA StopIsTaken ==
    ASSUME Pipes, suspended \in Sides \cup {None}, None \notin Sides, suspended' = suspended,
           Pipe # <<>>, Head(Pipe).kind = "stopped", Pipe' = Tail(Pipe)
    PROVE  /\ suspended \in Sides /\ Head(Pipe).by = suspended
           /\ StopOnItsWay <=> suspended = "proxy"
           /\ ~ResumeOnItsWay
           /\ Pipe' = <<>> /\ Pipes'
           /\ ~StopOnItsWay' /\ ~ResumeOnItsWay'
    <1>1. suspended \in Sides /\ Pipe = <<Stopped(suspended)>>
        BY ShortPipes, EventsDiffer DEF Pipes, Sides
    <1>2. Pipe' = <<>> /\ Head(Pipe) = Stopped(suspended)
        BY <1>1, ShortPipes
    <1>3. Pipes'
        BY <1>2 DEF Pipes
    <1>4. Head(Pipe).by = suspended
        BY <1>1, <1>2, EventsDiffer
    <1> QED
        BY <1>1, <1>2, <1>3, <1>4, OnItsWay DEF StopOnItsWay, ResumeOnItsWay

LEMMA ResumeIsTaken ==
    ASSUME Pipes, suspended \in Sides \cup {None}, None \notin Sides, suspended' = suspended,
           Pipe # <<>>, Head(Pipe).kind = "continued", Pipe' = Tail(Pipe)
    PROVE  /\ Head(Pipe).by \in Sides
           /\ Head(Pipe).by = "proxy" <=> ResumeOnItsWay
           /\ Pipes' /\ (StopOnItsWay' <=> StopOnItsWay) /\ ~ResumeOnItsWay'
    <1>1. "user" \in Sides /\ "proxy" \in Sides /\ "user" # "proxy"
        BY DEF Sides
    <1>2. ASSUME NEW a \in Sides, Pipe = <<Continued(a)>>
          PROVE  /\ Head(Pipe).by = a /\ Pipes' /\ ~StopOnItsWay' /\ ~ResumeOnItsWay'
                 /\ ~StopOnItsWay /\ (ResumeOnItsWay <=> a = "proxy")
        <2>1. Pipe' = <<>> /\ Head(Pipe) = Continued(a)
            BY <1>2, ShortPipes
        <2>2. Pipes'
            BY <2>1 DEF Pipes
        <2>3. Head(Pipe).by = a
            BY <2>1, EventsDiffer
        <2> QED
            BY <1>2, <2>1, <2>2, <2>3, OnItsWay DEF StopOnItsWay, ResumeOnItsWay
    <1>3. CASE suspended # None /\ Pipe = <<Continued("user"), Stopped(suspended)>>
        <2>1. Pipe' = <<Stopped(suspended)>> /\ Head(Pipe) = Continued("user")
            BY <1>3, ShortPipes
        <2>2. Pipes'
            BY <1>3, <2>1 DEF Pipes
        <2>3. Head(Pipe).by = "user"
            BY <1>1, <2>1, EventsDiffer
        <2>4. suspended \in Sides
            BY <1>3
        <2>5. ~ResumeOnItsWay /\ ~ResumeOnItsWay' /\ (StopOnItsWay' <=> StopOnItsWay)
            BY <1>3, <2>1, <2>4, OnItsWay DEF StopOnItsWay, ResumeOnItsWay
        <2> QED
            BY <1>1, <2>2, <2>3, <2>5
    <1>4. CASE suspended = "user" /\ Pipe = <<Continued("proxy"), Stopped("user")>>
        <2>1. Pipe' = <<Stopped("user")>> /\ Head(Pipe) = Continued("proxy")
            BY <1>4, ShortPipes
        <2>2. Pipes'
            BY <1>1, <1>4, <2>1 DEF Pipes
        <2>3. Head(Pipe).by = "proxy"
            BY <1>1, <2>1, EventsDiffer
        <2>4. ResumeOnItsWay /\ ~ResumeOnItsWay' /\ ~StopOnItsWay /\ ~StopOnItsWay'
            BY <1>1, <1>4, <2>1, OnItsWay DEF StopOnItsWay, ResumeOnItsWay
        <2> QED
            BY <1>1, <2>2, <2>3, <2>4
    <1>5. \/ \E a \in Sides : Pipe = <<Continued(a)>>
          \/ suspended # None /\ Pipe = <<Continued("user"), Stopped(suspended)>>
          \/ suspended = "user" /\ Pipe = <<Continued("proxy"), Stopped("user")>>
        BY <1>1, ShortPipes, EventsDiffer DEF Pipes
    <1> QED
        BY <1>1, <1>2, <1>3, <1>4, <1>5

--------------------------------------------------------------------------------
LEMMA Sent ==
    /\ \A a \in Sides : [kind |-> "stopped", by |-> a] = Stopped(a)
                      /\ [kind |-> "continued", by |-> a] = Continued(a)
    /\ "user" \in Sides /\ "proxy" \in Sides
    /\ \A s \in Seq(NativeEvents), e \in NativeEvents : Append(s, e) \in Seq(NativeEvents)
    /\ \A s \in Seq(NativeEvents) :
           s # <<>> => Head(s) \in NativeEvents /\ Tail(s) \in Seq(NativeEvents)
    /\ \A e \in NativeEvents : e.by \in Sides
    <1>1. \A a \in Sides : [kind |-> "stopped", by |-> a] = Stopped(a)
                      /\ [kind |-> "continued", by |-> a] = Continued(a)
        BY DEF Stopped, Continued
    <1>2. "user" \in Sides /\ "proxy" \in Sides
        BY DEF Sides
    <1>3. \A s \in Seq(NativeEvents), e \in NativeEvents : Append(s, e) \in Seq(NativeEvents)
        OBVIOUS
    <1>4. \A s \in Seq(NativeEvents) :
           s # <<>> => Head(s) \in NativeEvents /\ Tail(s) \in Seq(NativeEvents)
        OBVIOUS
    <1>5. \A e \in NativeEvents : e.by \in Sides
        BY DEF NativeEvents, Stopped, Continued
    <1> QED
        BY <1>1, <1>2, <1>3, <1>4, <1>5

LEMMA TypesInit ==
    ASSUME Init
    PROVE  Types
    <1>1. Idle \in Calls
        BY DEF Idle, Calls, Places
    <1> QED
        BY <1>1 DEF Init, Types, EngineTypes, PipeTypes, LeaseTypes, CallTypes


--------------------------------------------------------------------------------
\* Every action keeps the invariant: first what it does to the variables, where it
\* leaves the thread, and what is on its way after it; then each part of the
\* invariant, those it does not disturb together.
LEMMA UserStopKeeps ==
    ASSUME NEW h, Hooks = {h}, IInv(h), UserStop
    PROVE  IInv(h)'
    <1> h \in Hooks /\ Types /\ None \notin {h, "user", "proxy"}
        BY LeaseAssumption DEF IInv
    <1>1. /\ suspended = None /\ suspended' = "user"
          /\ nstop' = nstop + 1
          /\ wire' = Append(wire, Stopped("user"))
          /\ UNCHANGED <<held, pstop, resuming, queue, pwire, maintenance, suppress, raised,
                         active, published, frameId, told, view, failed, call>>
        BY DEF UserStop, Stopped, engines, session, lease, editor
    <1>2. CallTypes'
        BY <1>1 DEF Types, CallTypes
    <1>3. /\ Pipes' /\ Pipe' # <<>>
          /\ ~StopOnItsWay' /\ (ResumeOnItsWay' <=> ResumeOnItsWay)
        BY <1>1, PipeSend, StopIsSent, Sent, EventsDiffer DEF IInv, Sides
    <1>4. Types'
        <2>1. PipeTypes'
            <3>1. Stopped("user") \in NativeEvents /\ Stopped("proxy") \in NativeEvents
                BY EventsDiffer DEF Sides
            <3> QED
                BY <1>1, <3>1, Sent DEF Types, PipeTypes
        <2> QED
            BY <1>1, <1>2, <2>1 DEF Types, EngineTypes, LeaseTypes, Sides
    <1>5. Pipes' /\ Awaited(h)' /\ Armed(h)' /\ Suppressing(h)'
        BY <1>1, <1>2, <1>3 DEF IInv, Pipes, Awaited, Armed, Taken, Suppressing, In, At
    <1>6. Holding(h)' /\ Accounted(h)' /\ Shown(h)'
        BY <1>1, <1>2, <1>3 DEF IInv, Holding, Taken, Accounted, Shown, In, At
    <1>7. Leased(h)'
        BY <1>1 DEF IInv, Leased, Holding, Taken, In, At
    <1>8. FrameIds(h)'
        BY <1>1 DEF IInv, FrameIds, Holding, Taken, In, At
    <1>9. OneStop' /\ Busy(h)' /\ Operations(h)' /\ MaintenanceHidden'
        BY <1>1, <1>2, <1>3 DEF IInv, OneStop, Busy, Operations, MaintenanceHidden, In
    <1> QED
        BY <1>4, <1>5, <1>6, <1>7, <1>8, <1>9 DEF IInv

LEMMA PythonStopsKeeps ==
    ASSUME NEW h, Hooks = {h}, IInv(h), PythonStops
    PROVE  IInv(h)'
    <1> h \in Hooks /\ Types /\ None \notin {h, "user", "proxy"}
        BY LeaseAssumption DEF IInv
    <1>1. /\ suspended = None /\ ~held /\ held'
          /\ pstop' = pstop + 1
          /\ pwire' = Append(pwire, PythonStopped)
          /\ UNCHANGED <<suspended, nstop, resuming, wire, queue, maintenance, suppress, raised,
                         active, published, frameId, told, view, failed, call>>
        BY DEF PythonStops, PythonStopped, engines, session, lease, editor
    <1>2. CallTypes'
        BY <1>1 DEF Types, CallTypes
    <1>3. /\ Pipe' = Pipe /\ (StopOnItsWay' <=> StopOnItsWay)
          /\ (ResumeOnItsWay' <=> ResumeOnItsWay)
          /\ (Pipe = <<>> => ~StopOnItsWay /\ ~ResumeOnItsWay)
        BY <1>1, OnItsWay DEF Pipe, StopOnItsWay, ResumeOnItsWay
    <1>4. Types'
        BY <1>1, <1>2, <1>3 DEF IInv, Types, EngineTypes, PipeTypes, LeaseTypes
    <1>5. Pipes' /\ Awaited(h)' /\ Armed(h)' /\ Suppressing(h)'
        BY <1>1, <1>2, <1>3 DEF IInv, Pipes, Awaited, Armed, Taken, Suppressing, In, At
    <1>6. Holding(h)' /\ Leased(h)' /\ Accounted(h)' /\ Shown(h)'
        BY <1>1, <1>2, <1>3 DEF IInv, Holding, Taken, Leased, Accounted, Shown, In, At
    <1>7. FrameIds(h)' /\ Busy(h)' /\ Operations(h)' /\ MaintenanceHidden'
        BY <1>1, <1>2, <1>3 DEF IInv, FrameIds, Busy, Operations, MaintenanceHidden, In, At
    <1>8. OneStop'
        <2>1. pwire' \in EndInStop
            BY <1>1, PythonEvents DEF IInv, OneStop
        <2>2. ~active /\ "python" \notin view /\ ~resuming
            BY <1>1 DEF IInv, OneStop, Holding, Taken
        <2> QED
            BY <1>1, <1>2, <2>1, <2>2, PythonEvents DEF IInv, OneStop
    <1> QED
        BY <1>4, <1>5, <1>6, <1>7, <1>8 DEF IInv

LEMMA PythonResumesKeeps ==
    ASSUME NEW h, Hooks = {h}, IInv(h), PythonResumes
    PROVE  IInv(h)'
    <1> h \in Hooks /\ Types /\ None \notin {h, "user", "proxy"}
        BY LeaseAssumption DEF IInv
    <1>1. /\ suspended = None /\ suspended' = suspended
          /\ held /\ ~held'
          /\ resuming /\ ~resuming'
          /\ \E b \in BOOLEAN : pwire' = Append(pwire, PythonContinued(b))
          /\ UNCHANGED <<nstop, pstop, wire, queue, maintenance, suppress, raised, active,
                         published, frameId, told, view, failed, call>>
        BY DEF PythonResumes, PythonContinued, engines, session, lease, editor
    <1>2. CallTypes'
        BY <1>1 DEF Types, CallTypes
    <1>3. /\ Pipe' = Pipe /\ (StopOnItsWay' <=> StopOnItsWay)
          /\ (ResumeOnItsWay' <=> ResumeOnItsWay)
          /\ (Pipe = <<>> => ~StopOnItsWay /\ ~ResumeOnItsWay)
        BY <1>1, OnItsWay DEF Pipe, StopOnItsWay, ResumeOnItsWay
    <1>4. Types'
        BY <1>1, <1>2, <1>3 DEF IInv, Types, EngineTypes, PipeTypes, LeaseTypes
    <1>5. Pipes' /\ Awaited(h)' /\ Armed(h)' /\ Suppressing(h)'
        BY <1>1, <1>2, <1>3 DEF IInv, Pipes, Awaited, Armed, Taken, Suppressing, In, At
    <1>6. Holding(h)' /\ Leased(h)' /\ Accounted(h)' /\ Shown(h)'
        BY <1>1, <1>2, <1>3 DEF IInv, Holding, Taken, Leased, Accounted, Shown, In, At
    <1>7. FrameIds(h)' /\ Busy(h)' /\ Operations(h)' /\ MaintenanceHidden'
        BY <1>1, <1>2, <1>3 DEF IInv, FrameIds, Busy, Operations, MaintenanceHidden, In, At
    <1>8. OneStop'
        <2>1. pwire = <<>> /\ ~active /\ "python" \notin view
            BY <1>1 DEF IInv, OneStop, Holding, Taken
        <2>2. pwire' \in OnlyResumes
            BY <1>1, <2>1, PythonEvents
        <2>3. pwire' \notin EndInStop
            BY <2>2, PythonEvents
        <2> QED
            BY <1>1, <1>2, <2>1, <2>2, <2>3 DEF IInv, OneStop
    <1> QED
        BY <1>4, <1>5, <1>6, <1>7, <1>8 DEF IInv

LEMMA NativeReaderKeeps ==
    ASSUME NEW h, Hooks = {h}, IInv(h), NativeReader
    PROVE  IInv(h)'
    <1> h \in Hooks /\ Types /\ None \notin {h, "user", "proxy"}
        BY LeaseAssumption DEF IInv
    <1>1. /\ wire # <<>> /\ wire' = Tail(wire)
          /\ queue' = Append(queue, Head(wire))
          /\ UNCHANGED <<suspended, nstop, held, pstop, resuming, pwire, maintenance, suppress,
                         raised, active, published, frameId, told, view, failed, call>>
        BY DEF NativeReader, engines, session, lease, editor
    <1>2. CallTypes'
        BY <1>1 DEF Types, CallTypes
    <1>3. Pipe' = Pipe /\ (StopOnItsWay' <=> StopOnItsWay)
          /\ (ResumeOnItsWay' <=> ResumeOnItsWay)
        BY <1>1, PipeRead DEF StopOnItsWay, ResumeOnItsWay
    <1>4. Types'
        <2>1. PipeTypes'
            <3>1. Stopped("user") \in NativeEvents /\ Stopped("proxy") \in NativeEvents
                BY EventsDiffer DEF Sides
            <3> QED
                BY <1>1, <3>1, Sent DEF Types, PipeTypes
        <2> QED
            BY <1>1, <1>2, <2>1 DEF Types, EngineTypes, LeaseTypes, Sides
    <1>5. Pipes' /\ Awaited(h)' /\ Armed(h)' /\ Suppressing(h)'
        BY <1>1, <1>2, <1>3 DEF IInv, Pipes, Awaited, Armed, Taken, Suppressing, In, At
    <1>6. Holding(h)' /\ Leased(h)' /\ Accounted(h)' /\ Shown(h)'
        BY <1>1, <1>2, <1>3 DEF IInv, Holding, Taken, Leased, Accounted, Shown, In, At
    <1>7. FrameIds(h)' /\ OneStop' /\ Busy(h)' /\ Operations(h)' /\ MaintenanceHidden'
        BY <1>1, <1>2, <1>3 DEF IInv, FrameIds, OneStop, Busy, Operations, MaintenanceHidden, In,
           At
    <1> QED
        BY <1>4, <1>5, <1>6, <1>7 DEF IInv

LEMMA OnStoppedKeeps ==
    ASSUME NEW h, Hooks = {h}, IInv(h), OnStopped
    PROVE  IInv(h)'
    <1> h \in Hooks /\ Types /\ None \notin {h, "user", "proxy"}
        BY LeaseAssumption DEF IInv
    <1>1. /\ queue # <<>> /\ Head(queue).kind = "stopped" /\ queue' = Tail(queue)
          /\ \/ /\ maintenance # None /\ raised' = raised \cup {<<maintenance, "stopped">>}
                /\ UNCHANGED <<told, view>>
             \/ /\ maintenance = None /\ raised' = raised
                /\ told'.by = Head(queue).by /\ view' = view \cup {"native"}
          /\ UNCHANGED <<suspended, nstop, held, pstop, resuming, wire, pwire, maintenance,
                         suppress, active, published, frameId, failed, call>>
        BY DEF OnStopped, Tell, engines, session, lease, editor
    <1>2. CallTypes'
        BY <1>1 DEF Types, CallTypes
    <1>3. /\ suspended \in Sides /\ Pipe # <<>> /\ Head(queue).by = suspended
          /\ StopOnItsWay <=> suspended = "proxy"
          /\ ~ResumeOnItsWay /\ Pipe' = <<>> /\ Pipes' /\ ~StopOnItsWay' /\ ~ResumeOnItsWay'
        BY <1>1, PipeTake, StopIsTaken DEF IInv, Types, EngineTypes, Sides
    <1>4. Types'
        <2>1. PipeTypes'
            <3>1. Stopped("user") \in NativeEvents /\ Stopped("proxy") \in NativeEvents
                BY EventsDiffer DEF Sides
            <3> QED
                BY <1>1, <3>1, Sent DEF Types, PipeTypes
        <2> QED
            BY <1>1, <1>2, <2>1 DEF Types, EngineTypes, LeaseTypes, Sides
    <1>5. Pipes' /\ Awaited(h)' /\ Suppressing(h)'
        BY <1>1, <1>2, <1>3 DEF IInv, Pipes, Awaited, Suppressing, In, At
    <1>6. Armed(h)'
        <2>1. "native" \notin view \/ At(h, "nativeContinued")
            BY <1>3 DEF IInv, Shown
        <2>2. ASSUME In(h, {"pause", "await"})
              PROVE  maintenance' = h /\ Taken' /\ <<h, "stopped">> \in raised'
            <3>1. maintenance = h /\ maintenance' = h /\ <<h, "stopped">> \in raised'
                  /\ view' = view
                BY <1>1, <2>2 DEF IInv, Armed
            <3>2. "native" \notin view'
                BY <2>1, <2>2, <3>1 DEF In, At
            <3> QED
                BY <1>1, <1>3, <3>1, <3>2 DEF Taken, Sides
        <2>3. call' = call /\ suspended' = suspended
            BY <1>1
        <2> QED
            BY <1>3, <2>2, <2>3 DEF IInv, Armed, In, At, Sides
    <1>7. Holding(h)' /\ Leased(h)' /\ Accounted(h)'
        BY <1>1, <1>2, <1>3 DEF IInv, Holding, Taken, Leased, Accounted, In, At
    <1>8. Shown(h)'
        <2>1. maintenance = None => suspended = "user"
            BY <1>3 DEF IInv, Awaited, Armed, In, At, Sides
        <2>2. maintenance # None => view' = view
            BY <1>1
        <2>3. suspended' = suspended /\ call' = call /\ Pipe' = <<>>
            BY <1>1, <1>3
        <2> QED
            BY <1>3, <2>1, <2>2, <2>3 DEF IInv, Shown, At
    <1>9. FrameIds(h)' /\ OneStop' /\ Busy(h)' /\ Operations(h)'
        BY <1>1, <1>2, <1>3 DEF IInv, FrameIds, OneStop, Busy, Operations, In, At
    <1>10. MaintenanceHidden'
        BY <1>1, <1>3 DEF IInv, MaintenanceHidden, Awaited, Armed, In, At
    <1> QED
        BY <1>4, <1>5, <1>6, <1>7, <1>8, <1>9, <1>10 DEF IInv

LEMMA OnContinuedKeeps ==
    ASSUME NEW h, Hooks = {h}, IInv(h), OnContinued
    PROVE  IInv(h)'
    <1> h \in Hooks /\ Types /\ None \notin {h, "user", "proxy"}
        BY LeaseAssumption DEF IInv
    <1>1. /\ queue # <<>> /\ Head(queue).kind = "continued" /\ queue' = Tail(queue)
          /\ \/ /\ suppress # None /\ suppress' = None /\ raised' = raised \cup {<<suppress, "continued">>}
                /\ UNCHANGED <<active, published, told, view>>
             \/ /\ suppress = None /\ suppress' = suppress /\ raised' = raised
                /\ ~active' /\ published' = 0
                /\ told'.by = Head(queue).by /\ view' = view \ {"native"}
          /\ UNCHANGED <<suspended, nstop, held, pstop, resuming, wire, pwire, maintenance,
                         frameId, failed, call>>
        BY DEF OnContinued, Tell, engines, session, lease, editor
    <1>2. CallTypes'
        BY <1>1 DEF Types, CallTypes
    <1>3. /\ Pipe # <<>> /\ Head(queue).by \in Sides
          /\ Head(queue).by = "proxy" <=> ResumeOnItsWay
          /\ Pipes' /\ (StopOnItsWay' <=> StopOnItsWay) /\ ~ResumeOnItsWay'
        BY <1>1, PipeTake, ResumeIsTaken DEF IInv, Types, EngineTypes, Sides
    <1>4. Types'
        <2>1. PipeTypes'
            <3>1. Stopped("user") \in NativeEvents /\ Stopped("proxy") \in NativeEvents
                BY EventsDiffer DEF Sides
            <3> QED
                BY <1>1, <3>1, Sent DEF Types, PipeTypes
        <2> QED
            BY <1>1, <1>2, <2>1 DEF Types, EngineTypes, LeaseTypes, Sides
    <1>5. Pipes' /\ Awaited(h)'
        BY <1>1, <1>2, <1>3 DEF IInv, Pipes, Awaited, At
    <1>6. Armed(h)'
        BY <1>1, <1>3 DEF IInv, Armed, Taken, Holding, In, At
    <1>7. Suppressing(h)'
        BY <1>1, <1>3 DEF IInv, Suppressing, Holding, Taken, In, At
    <1>8. Holding(h)' /\ Shown(h)'
        BY <1>1, <1>2, <1>3 DEF IInv, Holding, Taken, Shown, In, At
    <1>9. Leased(h)'
        BY <1>1, <1>3 DEF IInv, Leased, Holding, Taken, At
    <1>10. Accounted(h)'
        BY <1>1, <1>3 DEF IInv, Accounted, Holding, Taken, In
    <1>11. FrameIds(h)' /\ OneStop' /\ Busy(h)' /\ Operations(h)'
        BY <1>1, <1>2, <1>3 DEF IInv, FrameIds, OneStop, Busy, Operations, In, At
    <1>12. MaintenanceHidden'
        BY <1>1, <1>3 DEF IInv, MaintenanceHidden, Awaited, Suppressing
    <1> QED
        BY <1>4, <1>5, <1>6, <1>7, <1>8, <1>9, <1>10, <1>11, <1>12 DEF IInv

LEMMA PythonReaderStoppedKeeps ==
    ASSUME NEW h, Hooks = {h}, IInv(h), PythonReaderStopped
    PROVE  IInv(h)'
    <1> h \in Hooks /\ Types /\ None \notin {h, "user", "proxy"}
        BY LeaseAssumption DEF IInv
    <1>1. /\ told'.by = "user"
          /\ view' = view \cup {"python"}
          /\ UNCHANGED <<suspended, nstop, held, pstop, resuming, wire, queue, maintenance,
                         suppress, raised, active, published, frameId, failed, call>>
        BY DEF PythonReaderStopped, Tell, engines, session, lease, editor
    <1>2. CallTypes'
        BY <1>1 DEF Types, CallTypes
    <1>3. /\ Pipe' = Pipe /\ (StopOnItsWay' <=> StopOnItsWay)
          /\ (ResumeOnItsWay' <=> ResumeOnItsWay)
          /\ (Pipe = <<>> => ~StopOnItsWay /\ ~ResumeOnItsWay)
        BY <1>1, OnItsWay DEF Pipe, StopOnItsWay, ResumeOnItsWay
    <1>4. Types'
        BY <1>1, <1>2, <1>3 DEF IInv, Types, EngineTypes, PipeTypes, LeaseTypes
    <1>5. Pipes' /\ Awaited(h)' /\ Armed(h)' /\ Suppressing(h)'
        BY <1>1, <1>2, <1>3 DEF IInv, Pipes, Awaited, Armed, Taken, Suppressing, In, At
    <1>6. Holding(h)' /\ Leased(h)' /\ Accounted(h)' /\ Shown(h)'
        BY <1>1, <1>2, <1>3 DEF IInv, Holding, Taken, Leased, Accounted, Shown, In, At
    <1>7. FrameIds(h)' /\ Busy(h)' /\ Operations(h)' /\ MaintenanceHidden'
        BY <1>1, <1>2, <1>3 DEF IInv, FrameIds, Busy, Operations, MaintenanceHidden, In, At
    <1>8. OneStop'
        <2>1. pwire # <<>> /\ Head(pwire).kind = "stopped" /\ pwire' = Tail(pwire)
            BY DEF PythonReaderStopped
        <2>2. pwire \in EndInStop /\ pwire' = <<>>
            BY <2>1, PythonEvents DEF IInv, OneStop
        <2> QED
            BY <1>1, <2>2, PythonEvents DEF IInv, OneStop
    <1> QED
        BY <1>4, <1>5, <1>6, <1>7, <1>8 DEF IInv

LEMMA PythonReaderContinuedKeeps ==
    ASSUME NEW h, Hooks = {h}, IInv(h), PythonReaderContinued
    PROVE  IInv(h)'
    <1> h \in Hooks /\ Types /\ None \notin {h, "user", "proxy"}
        BY LeaseAssumption DEF IInv
    <1>read. pwire # <<>> /\ Head(pwire).kind = "continued" /\ pwire' = Tail(pwire)
        BY DEF PythonReaderContinued
    <1>told. \/ /\ ~active' /\ published' = 0 /\ told'.by = "user" /\ view' = view \ {"python"}
          \/ UNCHANGED <<active, published, told, view>>
        BY DEF PythonReaderContinued, Tell, editor
    <1>1. /\ published' \in {0, published}
          /\ told'.by \in {"user", told.by}
          /\ view' \in {view, view \ {"python"}}
          /\ ~active /\ ~active' /\ "python" \notin view
          /\ UNCHANGED <<suspended, nstop, held, pstop, resuming, wire, queue, maintenance,
                         suppress, raised, frameId, failed, call>>
        BY <1>read, <1>told DEF PythonReaderContinued, IInv, OneStop, engines, session, lease,
           editor
    <1>2. CallTypes'
        BY <1>1 DEF Types, CallTypes
    <1>3. /\ Pipe' = Pipe /\ (StopOnItsWay' <=> StopOnItsWay)
          /\ (ResumeOnItsWay' <=> ResumeOnItsWay)
          /\ (Pipe = <<>> => ~StopOnItsWay /\ ~ResumeOnItsWay)
        BY <1>1, OnItsWay DEF Pipe, StopOnItsWay, ResumeOnItsWay
    <1>4. Types'
        BY <1>1, <1>2, <1>3 DEF IInv, Types, EngineTypes, PipeTypes, LeaseTypes
    <1>5. Pipes' /\ Awaited(h)' /\ Armed(h)' /\ Suppressing(h)'
        BY <1>1, <1>2, <1>3 DEF IInv, Pipes, Awaited, Armed, Taken, Suppressing, In, At
    <1>6. Holding(h)' /\ Leased(h)' /\ Accounted(h)' /\ Shown(h)'
        BY <1>1, <1>2, <1>3 DEF IInv, Holding, Taken, Leased, Accounted, Shown, In, At
    <1>7. FrameIds(h)' /\ Busy(h)' /\ Operations(h)' /\ MaintenanceHidden'
        BY <1>1, <1>2, <1>3 DEF IInv, FrameIds, Busy, Operations, MaintenanceHidden, In, At
    <1>8. OneStop'
        <2>1. pwire' \in {<<>>, <<PythonStopped>>}
            BY <1>read, PythonEvents DEF IInv, OneStop
        <2>2. "python" \notin view /\ ~resuming
            BY <1>read DEF IInv, OneStop
        <2>3. pwire' # <<>> => held
            BY <1>read, PythonEvents DEF IInv, OneStop
        <2> QED
            BY <1>1, <2>1, <2>2, <2>3, PythonEvents DEF IInv, OneStop
    <1> QED
        BY <1>4, <1>5, <1>6, <1>7, <1>8 DEF IInv

LEMMA RequestStackKeeps ==
    ASSUME NEW h, Hooks = {h}, IInv(h), RequestStack(h)
    PROVE  IInv(h)'
    <1> h \in Hooks /\ Types /\ None \notin {h, "user", "proxy"}
        BY LeaseAssumption DEF IInv
    <1>1. /\ At(h, "idle") /\ "python" \in view
          /\ UNCHANGED <<suspended, nstop, held, pstop, resuming, wire, queue, pwire,
                         maintenance, suppress, raised, active, published, frameId, told, view,
                         failed>>
        BY Zenon DEF RequestStack, engines, session, lease, editor
    <1>2. CallTypes' /\ call'[h].pc = "debugpy" /\ call'[h].op = "stackTrace" /\ ~call'[h].ok
        BY CallBegins DEF RequestStack, Places
    <1>3. /\ Pipe' = Pipe /\ (StopOnItsWay' <=> StopOnItsWay)
          /\ (ResumeOnItsWay' <=> ResumeOnItsWay)
          /\ (Pipe = <<>> => ~StopOnItsWay /\ ~ResumeOnItsWay)
        BY <1>1, OnItsWay DEF Pipe, StopOnItsWay, ResumeOnItsWay
    <1>4. Types'
        BY <1>1, <1>2, <1>3 DEF IInv, Types, EngineTypes, PipeTypes, LeaseTypes
    <1>5. Pipes' /\ Awaited(h)' /\ Armed(h)' /\ Suppressing(h)'
        BY <1>1, <1>2, <1>3 DEF IInv, Pipes, Awaited, Armed, Taken, Suppressing, In, At
    <1>6. Holding(h)' /\ Leased(h)' /\ Accounted(h)' /\ Shown(h)'
        BY <1>1, <1>2, <1>3 DEF IInv, Holding, Taken, Leased, Accounted, Shown, In, At,
           SameRequest
    <1>7. FrameIds(h)' /\ OneStop' /\ Busy(h)' /\ Operations(h)' /\ MaintenanceHidden'
        BY <1>1, <1>2, <1>3 DEF IInv, FrameIds, OneStop, Busy, Operations, MaintenanceHidden, In,
           At, SameRequest
    <1> QED
        BY <1>4, <1>5, <1>6, <1>7 DEF IInv

LEMMA RequestRustKeeps ==
    ASSUME NEW h, Hooks = {h}, IInv(h), NEW op \in {"rust", "step"}, NEW f \in Frames,
           RequestRust(h, op, f)
    PROVE  IInv(h)'
    <1> h \in Hooks /\ Types /\ None \notin {h, "user", "proxy"}
        BY LeaseAssumption DEF IInv
    <1>1. /\ At(h, "idle") /\ "python" \in view /\ published # 0
          /\ UNCHANGED <<suspended, nstop, held, pstop, resuming, wire, queue, pwire,
                         maintenance, suppress, raised, active, published, frameId, told, view,
                         failed>>
        BY Zenon DEF RequestRust, engines, session, lease, editor
    <1>2. /\ CallTypes' /\ call'[h].pc = "acquire" /\ call'[h].op \in {"rust", "step"}
          /\ ~call'[h].ok
          /\ call'[h].of # 0 /\ call'[h].frame \in Frames
        BY <1>1 DEF RequestRust, Idle, Calls, Places, Types, LeaseTypes, CallTypes
    <1>3. /\ Pipe' = Pipe /\ (StopOnItsWay' <=> StopOnItsWay)
          /\ (ResumeOnItsWay' <=> ResumeOnItsWay)
          /\ (Pipe = <<>> => ~StopOnItsWay /\ ~ResumeOnItsWay)
        BY <1>1, OnItsWay DEF Pipe, StopOnItsWay, ResumeOnItsWay
    <1>4. Types'
        BY <1>1, <1>2, <1>3 DEF IInv, Types, EngineTypes, PipeTypes, LeaseTypes
    <1>5. Pipes' /\ Awaited(h)' /\ Armed(h)' /\ Suppressing(h)'
        BY <1>1, <1>2, <1>3 DEF IInv, Pipes, Awaited, Armed, Taken, Suppressing, In, At
    <1>6. Holding(h)' /\ Leased(h)' /\ Accounted(h)' /\ Shown(h)'
        BY <1>1, <1>2, <1>3 DEF IInv, Holding, Taken, Leased, Accounted, Shown, In, At,
           SameRequest
    <1>7. FrameIds(h)' /\ OneStop' /\ Busy(h)' /\ Operations(h)' /\ MaintenanceHidden'
        BY <1>1, <1>2, <1>3 DEF IInv, FrameIds, OneStop, Busy, Operations, MaintenanceHidden, In,
           At, SameRequest
    <1> QED
        BY <1>4, <1>5, <1>6, <1>7 DEF IInv

LEMMA RequestPythonKeeps ==
    ASSUME NEW h, Hooks = {h}, IInv(h), NEW op \in {"python", "resume"}, RequestPython(h, op)
    PROVE  IInv(h)'
    <1> h \in Hooks /\ Types /\ None \notin {h, "user", "proxy"}
        BY LeaseAssumption DEF IInv
    <1>1. /\ At(h, "idle") /\ "python" \in view
          /\ UNCHANGED <<suspended, nstop, held, pstop, resuming, wire, queue, pwire,
                         maintenance, suppress, raised, active, published, frameId, told, view,
                         failed>>
        BY Zenon DEF RequestPython, engines, session, lease, editor
    <1>2. CallTypes' /\ call'[h].pc = "release" /\ call'[h].op \in {"python", "resume"}
          /\ ~call'[h].ok
        BY CallBegins DEF RequestPython, Places
    <1>3. /\ Pipe' = Pipe /\ (StopOnItsWay' <=> StopOnItsWay)
          /\ (ResumeOnItsWay' <=> ResumeOnItsWay)
          /\ (Pipe = <<>> => ~StopOnItsWay /\ ~ResumeOnItsWay)
        BY <1>1, OnItsWay DEF Pipe, StopOnItsWay, ResumeOnItsWay
    <1>4. Types'
        BY <1>1, <1>2, <1>3 DEF IInv, Types, EngineTypes, PipeTypes, LeaseTypes
    <1>5. Pipes' /\ Awaited(h)' /\ Armed(h)' /\ Suppressing(h)'
        BY <1>1, <1>2, <1>3 DEF IInv, Pipes, Awaited, Armed, Taken, Suppressing, In, At
    <1>6. Holding(h)' /\ Leased(h)' /\ Accounted(h)' /\ Shown(h)'
        BY <1>1, <1>2, <1>3 DEF IInv, Holding, Taken, Leased, Accounted, Shown, In, At,
           SameRequest
    <1>7. FrameIds(h)' /\ OneStop' /\ Busy(h)' /\ Operations(h)' /\ MaintenanceHidden'
        BY <1>1, <1>2, <1>3 DEF IInv, FrameIds, OneStop, Busy, Operations, MaintenanceHidden, In,
           At, SameRequest
    <1> QED
        BY <1>4, <1>5, <1>6, <1>7 DEF IInv

LEMMA RequestNativeKeeps ==
    ASSUME NEW h, Hooks = {h}, IInv(h), RequestNative(h)
    PROVE  IInv(h)'
    <1> h \in Hooks /\ Types /\ None \notin {h, "user", "proxy"}
        BY LeaseAssumption DEF IInv
    <1>1. /\ At(h, "idle") /\ "native" \in view
          /\ UNCHANGED <<suspended, nstop, held, pstop, resuming, wire, queue, pwire,
                         maintenance, suppress, raised, active, published, frameId, told, view,
                         failed>>
        BY Zenon DEF RequestNative, engines, session, lease, editor
    <1>2. CallTypes' /\ call'[h].pc = "nativeContinue" /\ call'[h].op = "native" /\ ~call'[h].ok
        BY CallBegins DEF RequestNative, Places
    <1>3. /\ Pipe' = Pipe /\ (StopOnItsWay' <=> StopOnItsWay)
          /\ (ResumeOnItsWay' <=> ResumeOnItsWay)
          /\ (Pipe = <<>> => ~StopOnItsWay /\ ~ResumeOnItsWay)
        BY <1>1, OnItsWay DEF Pipe, StopOnItsWay, ResumeOnItsWay
    <1>4. Types'
        BY <1>1, <1>2, <1>3 DEF IInv, Types, EngineTypes, PipeTypes, LeaseTypes
    <1>5. Pipes' /\ Awaited(h)' /\ Armed(h)' /\ Suppressing(h)'
        BY <1>1, <1>2, <1>3 DEF IInv, Pipes, Awaited, Armed, Taken, Suppressing, In, At
    <1>6. Holding(h)' /\ Leased(h)' /\ Accounted(h)' /\ Shown(h)'
        BY <1>1, <1>2, <1>3 DEF IInv, Holding, Taken, Leased, Accounted, Shown, In, At,
           SameRequest
    <1>7. FrameIds(h)' /\ OneStop' /\ Busy(h)' /\ Operations(h)' /\ MaintenanceHidden'
        BY <1>1, <1>2, <1>3 DEF IInv, FrameIds, OneStop, Busy, Operations, MaintenanceHidden, In,
           At, SameRequest
    <1> QED
        BY <1>4, <1>5, <1>6, <1>7 DEF IInv

LEMMA AskDebugpyKeeps ==
    ASSUME NEW h, Hooks = {h}, IInv(h), AskDebugpy(h)
    PROVE  IInv(h)'
    <1> h \in Hooks /\ Types /\ None \notin {h, "user", "proxy"}
        BY LeaseAssumption DEF IInv
    <1>1. /\ At(h, "debugpy")
          /\ UNCHANGED <<suspended, nstop, held, pstop, resuming, wire, queue, pwire,
                         maintenance, suppress, raised, active, published, frameId, told, view,
                         failed>>
        BY Zenon DEF AskDebugpy, engines, session, lease, editor
    <1>2. /\ CallTypes'
          /\ \/ /\ call'[h].pc = "arm" /\ SameRequest(h) /\ call[h].op = "stackTrace"
                /\ suspended = None
             \/ call'[h].pc = "idle" /\ call'[h].op = "none" /\ ~call'[h].ok
        BY CallGoes, CallEnds DEF AskDebugpy, SameRequest, Places
    <1>3. /\ Pipe' = Pipe /\ (StopOnItsWay' <=> StopOnItsWay)
          /\ (ResumeOnItsWay' <=> ResumeOnItsWay)
          /\ (Pipe = <<>> => ~StopOnItsWay /\ ~ResumeOnItsWay)
        BY <1>1, OnItsWay DEF Pipe, StopOnItsWay, ResumeOnItsWay
    <1>4. Types'
        BY <1>1, <1>2, <1>3 DEF IInv, Types, EngineTypes, PipeTypes, LeaseTypes
    <1>5. Pipes' /\ Awaited(h)' /\ Armed(h)' /\ Suppressing(h)'
        BY <1>1, <1>2, <1>3 DEF IInv, Pipes, Awaited, Armed, Taken, Suppressing, In, At
    <1>6. Holding(h)' /\ Leased(h)' /\ Accounted(h)' /\ Shown(h)'
        BY <1>1, <1>2, <1>3 DEF IInv, Holding, Taken, Leased, Accounted, Shown, In, At,
           SameRequest
    <1>7. FrameIds(h)' /\ OneStop' /\ Busy(h)' /\ Operations(h)' /\ MaintenanceHidden'
        BY <1>1, <1>2, <1>3 DEF IInv, FrameIds, OneStop, Busy, Operations, MaintenanceHidden, In,
           At, SameRequest
    <1> QED
        BY <1>4, <1>5, <1>6, <1>7 DEF IInv

LEMMA CaptureArmsKeeps ==
    ASSUME NEW h, Hooks = {h}, IInv(h), CaptureArms(h)
    PROVE  IInv(h)'
    <1> h \in Hooks /\ Types /\ None \notin {h, "user", "proxy"}
        BY LeaseAssumption DEF IInv
    <1>1. /\ maintenance' = h
          /\ raised' = raised \ {<<h, "stopped">>}
          /\ At(h, "arm")
          /\ UNCHANGED <<suspended, nstop, held, pstop, resuming, wire, queue, pwire, suppress,
                         active, published, frameId, told, view, failed>>
        BY CallArms DEF CaptureArms, engines, session, lease, editor
    <1>2. CallTypes' /\ call'[h].pc = "pause" /\ SameRequest(h)
        BY CallArms DEF CaptureArms, SameRequest
    <1>3. /\ Pipe' = Pipe /\ (StopOnItsWay' <=> StopOnItsWay)
          /\ (ResumeOnItsWay' <=> ResumeOnItsWay)
          /\ (Pipe = <<>> => ~StopOnItsWay /\ ~ResumeOnItsWay)
        BY <1>1, OnItsWay DEF Pipe, StopOnItsWay, ResumeOnItsWay
    <1>4. Types'
        BY <1>1, <1>2, <1>3 DEF IInv, Types, EngineTypes, PipeTypes, LeaseTypes
    <1>5. Pipes' /\ Awaited(h)' /\ Armed(h)' /\ Suppressing(h)'
        BY <1>1, <1>2, <1>3 DEF IInv, Pipes, Awaited, Armed, Taken, Suppressing, In, At
    <1>6. Holding(h)' /\ Leased(h)' /\ Accounted(h)' /\ Shown(h)'
        BY <1>1, <1>2, <1>3 DEF IInv, Holding, Taken, Leased, Accounted, Shown, In, At,
           SameRequest
    <1>7. FrameIds(h)' /\ OneStop' /\ Busy(h)' /\ Operations(h)' /\ MaintenanceHidden'
        BY <1>1, <1>2, <1>3 DEF IInv, FrameIds, OneStop, Busy, Operations, MaintenanceHidden, In,
           At, SameRequest
    <1> QED
        BY <1>4, <1>5, <1>6, <1>7 DEF IInv

LEMMA AcquireBeginsKeeps ==
    ASSUME NEW h, Hooks = {h}, IInv(h), AcquireBegins(h)
    PROVE  IInv(h)'
    <1> h \in Hooks /\ Types /\ None \notin {h, "user", "proxy"}
        BY LeaseAssumption DEF IInv
    <1>1. /\ At(h, "acquire")
          /\ UNCHANGED <<suspended, nstop, held, pstop, resuming, wire, queue, pwire, suppress,
                         active, published, frameId, told, view, failed>>
        BY CallArms DEF AcquireBegins, engines, session, lease, editor
    <1>2. /\ CallTypes' /\ call[h].op \in {"rust", "step"}
          /\ call'[h].op = call[h].op /\ call'[h].of = call[h].of
          /\ call'[h].frame = call[h].frame
          /\ \/ /\ active /\ call'[h].pc = "acquired" /\ call'[h].native = nstop
                /\ UNCHANGED <<maintenance, raised>>
             \/ /\ active /\ call'[h].pc = "trace" /\ SameRequest(h)
                /\ UNCHANGED <<maintenance, raised>>
             \/ /\ ~active /\ call'[h].pc = "pause" /\ SameRequest(h)
                /\ maintenance' = h /\ raised' = raised \ {<<h, "stopped">>}
        <2>1. /\ call[h].op \in {"rust", "step"} /\ call[h].of # 0 /\ call[h].frame \in Frames
              /\ frameId[call[h].frame] \in Nat
            BY <1>1 DEF IInv, Operations, In, At, Types, LeaseTypes
        <2> DEFINE known == IF call[h].of = published THEN frameId[call[h].frame] ELSE 0
        <2>2. ASSUME active, known # 0,
                     call' = [call EXCEPT ![h].pc = "acquired", ![h].native = known, ![h].ok = TRUE]
              PROVE  /\ CallTypes' /\ call'[h].pc = "acquired" /\ call'[h].native = nstop
                     /\ call'[h].op = call[h].op /\ call'[h].of = call[h].of
                     /\ call'[h].frame = call[h].frame
            <3>1. known \in Nat /\ known = nstop
                BY <2>1, <2>2 DEF IInv, FrameIds
            <3>2. call' = [call EXCEPT ![h].pc = "acquired", ![h].native = nstop, ![h].ok = TRUE]
                BY <2>2, <3>1
            <3> QED
                BY <3>2, CallAcquires
        <2>3. ASSUME Goto(h, "trace")
              PROVE  CallTypes' /\ call'[h].pc = "trace" /\ SameRequest(h)
            BY <2>3, CallGoes DEF SameRequest, Places
        <2>4. ASSUME Arm(h, "pause")
              PROVE  /\ CallTypes' /\ call'[h].pc = "pause" /\ SameRequest(h)
                     /\ maintenance' = h /\ raised' = raised \ {<<h, "stopped">>}
            BY <2>4, CallArms DEF SameRequest
        <2>5. \/ /\ active /\ known # 0 /\ UNCHANGED <<maintenance, raised>>
                 /\ call' = [call EXCEPT ![h].pc = "acquired", ![h].native = known, ![h].ok = TRUE]
              \/ active /\ Goto(h, "trace") /\ UNCHANGED <<maintenance, raised>>
              \/ ~active /\ Arm(h, "pause")
            BY Zenon DEF AcquireBegins
        <2> HIDE DEF known
        <2> QED
            BY <2>1, <2>2, <2>3, <2>4, <2>5 DEF SameRequest
    <1>3. /\ Pipe' = Pipe /\ (StopOnItsWay' <=> StopOnItsWay)
          /\ (ResumeOnItsWay' <=> ResumeOnItsWay)
          /\ (Pipe = <<>> => ~StopOnItsWay /\ ~ResumeOnItsWay)
        BY <1>1, OnItsWay DEF Pipe, StopOnItsWay, ResumeOnItsWay
    <1>4. Types'
        BY <1>1, <1>2, <1>3 DEF IInv, Types, EngineTypes, PipeTypes, LeaseTypes
    <1>5. Pipes' /\ Awaited(h)' /\ Armed(h)' /\ Suppressing(h)'
        BY <1>1, <1>2, <1>3 DEF IInv, Pipes, Awaited, Armed, Taken, Suppressing, In, At
    <1>6. Holding(h)' /\ Leased(h)' /\ Accounted(h)' /\ Shown(h)'
        BY <1>1, <1>2, <1>3 DEF IInv, Holding, Taken, Leased, Accounted, Shown, In, At,
           SameRequest
    <1>7. FrameIds(h)' /\ OneStop' /\ Busy(h)' /\ Operations(h)' /\ MaintenanceHidden'
        BY <1>1, <1>2, <1>3 DEF IInv, FrameIds, OneStop, Busy, Operations, MaintenanceHidden, In,
           At, SameRequest
    <1> QED
        BY <1>4, <1>5, <1>6, <1>7 DEF IInv

LEMMA PauseKeeps ==
    ASSUME NEW h, Hooks = {h}, IInv(h), Pause(h)
    PROVE  IInv(h)'
    <1> h \in Hooks /\ Types /\ None \notin {h, "user", "proxy"}
        BY LeaseAssumption DEF IInv
    <1>1. /\ At(h, "pause")
          /\ \/ /\ suspended = None /\ suspended' = "proxy" /\ nstop' = nstop + 1
                /\ wire' = Append(wire, Stopped("proxy"))
             \/ suspended # None /\ UNCHANGED <<suspended, nstop, wire>>
          /\ UNCHANGED <<held, pstop, resuming, queue, pwire, maintenance, suppress, raised,
                         active, published, frameId, told, view, failed>>
        BY DEF Pause, Stopped, engines, session, lease, editor
    <1>2. CallTypes' /\ call'[h].pc = "await" /\ SameRequest(h)
        BY CallGoes DEF Pause, SameRequest, Places
    <1>3. /\ Pipes' /\ ~ResumeOnItsWay /\ ~ResumeOnItsWay'
          /\ \/ suspended = None /\ suspended' = "proxy" /\ Pipe' # <<>> /\ StopOnItsWay'
             \/ /\ suspended # None /\ UNCHANGED <<suspended, nstop>>
                /\ Pipe' = Pipe /\ (StopOnItsWay' <=> StopOnItsWay)
        <2>1. ~ResumeOnItsWay
            BY <1>1 DEF IInv, Awaited, At
        <2>2. CASE suspended = None
            BY <1>1, <2>1, <2>2, PipeSend, StopIsSent, Sent, EventsDiffer DEF IInv, Sides
        <2>3. CASE suspended # None
            <3>1. Pipe' = Pipe /\ UNCHANGED <<suspended, nstop>>
                BY <1>1, <2>3 DEF Pipe
            <3> QED
                BY <2>1, <2>3, <3>1 DEF IInv, Pipes, StopOnItsWay, ResumeOnItsWay
        <2> QED
            BY <2>2, <2>3
    <1>4. Types'
        <2>1. PipeTypes'
            <3>1. Stopped("user") \in NativeEvents /\ Stopped("proxy") \in NativeEvents
                BY EventsDiffer DEF Sides
            <3> QED
                BY <1>1, <3>1, Sent DEF Types, PipeTypes
        <2> QED
            BY <1>1, <1>2, <2>1 DEF Types, EngineTypes, LeaseTypes, Sides
    <1>5. Pipes' /\ Awaited(h)' /\ Suppressing(h)'
        BY <1>1, <1>2, <1>3 DEF IInv, Pipes, Awaited, Suppressing, In, At
    <1>6. Armed(h)'
        BY <1>1, <1>3 DEF IInv, Armed, Taken, Accounted, In, At
    <1>7. Holding(h)' /\ Leased(h)' /\ Accounted(h)' /\ Shown(h)'
        BY <1>1, <1>2, <1>3 DEF IInv, Holding, Taken, Leased, Accounted, Shown, In, At,
           SameRequest
    <1>8. FrameIds(h)'
        BY <1>1 DEF IInv, FrameIds, Holding, Taken, At
    <1>9. OneStop' /\ Busy(h)' /\ Operations(h)' /\ MaintenanceHidden'
        BY <1>1, <1>2, <1>3 DEF IInv, OneStop, Busy, Operations, MaintenanceHidden, In,
           SameRequest, At
    <1> QED
        BY <1>4, <1>5, <1>6, <1>7, <1>8, <1>9 DEF IInv

LEMMA AwaitStoppedKeeps ==
    ASSUME NEW h, Hooks = {h}, IInv(h), AwaitStopped(h)
    PROVE  IInv(h)'
    <1> h \in Hooks /\ Types /\ None \notin {h, "user", "proxy"}
        BY LeaseAssumption DEF IInv
    <1>1. /\ At(h, "await")
          /\ UNCHANGED <<suspended, nstop, held, pstop, resuming, wire, queue, pwire,
                         maintenance, suppress, raised, active, published, frameId, told, view,
                         failed>>
        BY Zenon DEF AwaitStopped, Awaits, engines, session, lease, editor
    <1>2. /\ CallTypes' /\ SameRequest(h)
          /\ \/ <<h, "stopped">> \in raised /\ call'[h].pc = "trace"
             \/ <<h, "stopped">> \notin raised /\ Pipe = <<>> /\ call'[h].pc = "unwind"
        BY CallGoes, PipeEmpty DEF AwaitStopped, Awaits, SameRequest, Places
    <1>3. /\ Pipe' = Pipe /\ (StopOnItsWay' <=> StopOnItsWay)
          /\ (ResumeOnItsWay' <=> ResumeOnItsWay)
          /\ (Pipe = <<>> => ~StopOnItsWay /\ ~ResumeOnItsWay)
        BY <1>1, OnItsWay DEF Pipe, StopOnItsWay, ResumeOnItsWay
    <1>4. Types'
        BY <1>1, <1>2, <1>3 DEF IInv, Types, EngineTypes, PipeTypes, LeaseTypes
    <1>5. Pipes' /\ Armed(h)' /\ Suppressing(h)'
        BY <1>1, <1>2, <1>3 DEF IInv, Pipes, Armed, Taken, Suppressing, In, At
    <1>6. Awaited(h)'
        BY <1>1, <1>2, <1>3 DEF IInv, Awaited, Armed, Taken, In, At
    <1>7. Holding(h)'
        BY <1>1, <1>2, <1>3 DEF IInv, Holding, Taken, Armed, In, At, SameRequest
    <1>8. Leased(h)'
        BY <1>1, <1>2 DEF IInv, Leased, Operations, In, At, SameRequest
    <1>9. Accounted(h)'
        BY <1>1, <1>2, <1>3 DEF IInv, Accounted, Armed, In
    <1>10. Shown(h)'
        BY <1>1, <1>2, <1>3 DEF IInv, Shown, Taken, At
    <1>11. FrameIds(h)' /\ OneStop' /\ Busy(h)' /\ Operations(h)' /\ MaintenanceHidden'
        BY <1>1, <1>2, <1>3 DEF IInv, FrameIds, OneStop, Busy, Operations, MaintenanceHidden, In,
           At, SameRequest
    <1> QED
        BY <1>4, <1>5, <1>6, <1>7, <1>8, <1>9, <1>10, <1>11 DEF IInv

LEMMA TraceKeeps ==
    ASSUME NEW h, Hooks = {h}, IInv(h), Trace(h)
    PROVE  IInv(h)'
    <1> h \in Hooks /\ Types /\ None \notin {h, "user", "proxy"}
        BY LeaseAssumption DEF IInv
    <1>1. /\ At(h, "trace")
          /\ UNCHANGED <<suspended, nstop, held, pstop, resuming, wire, queue, pwire,
                         maintenance, suppress, raised, active, published, frameId, told, view>>
        BY Zenon DEF Trace, engines, session, lease, editor
    <1>2. /\ CallTypes' /\ call'[h].op = call[h].op /\ call'[h].of = call[h].of
          /\ call'[h].frame = call[h].frame
          /\ call'[h].ok = call[h].ok
          /\ \/ /\ UNCHANGED failed /\ call'[h].native = nstop
                /\ call'[h].pc = IF call[h].op = "stackTrace" THEN "publish" ELSE "resolve"
             \/ failed' /\ call'[h].pc = "unwind" /\ call'[h].native = call[h].native
        <2>1. ASSUME call' = [call EXCEPT ![h].native = nstop,
                        ![h].pc = IF call[h].op = "stackTrace" THEN "publish" ELSE "resolve"]
              PROVE  /\ CallTypes' /\ call'[h].op = call[h].op /\ call'[h].of = call[h].of
                     /\ call'[h].frame = call[h].frame /\ call'[h].ok = call[h].ok
                     /\ call'[h].native = nstop
                     /\ call'[h].pc = IF call[h].op = "stackTrace" THEN "publish" ELSE "resolve"
            <3> DEFINE pc == IF call[h].op = "stackTrace" THEN "publish" ELSE "resolve"
            <3>1. pc \in Places
                BY DEF Places
            <3>2. nstop \in Nat
                BY DEF Types, EngineTypes
            <3>3. call' = [call EXCEPT ![h].native = nstop, ![h].pc = pc]
                BY <2>1
            <3> HIDE DEF pc
            <3>4. /\ CallTypes' /\ call'[h].op = call[h].op /\ call'[h].of = call[h].of
                  /\ call'[h].frame = call[h].frame /\ call'[h].ok = call[h].ok
                  /\ call'[h].native = nstop /\ call'[h].pc = pc
                BY <3>1, <3>2, <3>3, CallTraces
            <3> QED
                BY <3>4 DEF pc
        <2>2. ASSUME Goto(h, "unwind")
              PROVE  CallTypes' /\ call'[h].pc = "unwind" /\ SameRequest(h)
            BY <2>2, CallGoes DEF SameRequest, Places
        <2> QED
            BY <2>1, <2>2 DEF Trace, SameRequest
    <1>3. /\ Pipe' = Pipe /\ (StopOnItsWay' <=> StopOnItsWay)
          /\ (ResumeOnItsWay' <=> ResumeOnItsWay)
          /\ (Pipe = <<>> => ~StopOnItsWay /\ ~ResumeOnItsWay)
        BY <1>1, OnItsWay DEF Pipe, StopOnItsWay, ResumeOnItsWay
    <1>4. Types'
        BY <1>1, <1>2, <1>3 DEF IInv, Types, EngineTypes, PipeTypes, LeaseTypes
    <1>5. Pipes' /\ Awaited(h)' /\ Armed(h)' /\ Suppressing(h)'
        BY <1>1, <1>2, <1>3 DEF IInv, Pipes, Awaited, Armed, Taken, Suppressing, In, At
    <1>6. Holding(h)' /\ Accounted(h)' /\ Shown(h)'
        BY <1>1, <1>2, <1>3 DEF IInv, Holding, Taken, Accounted, Shown, In, At, SameRequest
    <1>7. Leased(h)'
        BY <1>1, <1>2 DEF IInv, Leased, Operations, In, At
    <1>8. FrameIds(h)' /\ OneStop' /\ Busy(h)' /\ Operations(h)' /\ MaintenanceHidden'
        BY <1>1, <1>2, <1>3 DEF IInv, FrameIds, OneStop, Busy, Operations, MaintenanceHidden, In,
           At, SameRequest
    <1> QED
        BY <1>4, <1>5, <1>6, <1>7, <1>8 DEF IInv

LEMMA PublishKeeps ==
    ASSUME NEW h, Hooks = {h}, IInv(h), Publish(h)
    PROVE  IInv(h)'
    <1> h \in Hooks /\ Types /\ None \notin {h, "user", "proxy"}
        BY LeaseAssumption DEF IInv
    <1>1. /\ published' = pstop
          /\ frameId' = [f \in Frames |-> 0]
          /\ At(h, "publish")
          /\ UNCHANGED <<suspended, nstop, held, pstop, resuming, wire, queue, pwire,
                         maintenance, suppress, raised, active, told, view, failed>>
        BY DEF Publish, engines, session, lease, editor
    <1>2. CallTypes' /\ call'[h].pc = "suppress" /\ SameRequest(h)
        BY CallGoes DEF Publish, SameRequest, Places
    <1>3. /\ Pipe' = Pipe /\ (StopOnItsWay' <=> StopOnItsWay)
          /\ (ResumeOnItsWay' <=> ResumeOnItsWay)
          /\ (Pipe = <<>> => ~StopOnItsWay /\ ~ResumeOnItsWay)
        BY <1>1, OnItsWay DEF Pipe, StopOnItsWay, ResumeOnItsWay
    <1>4. Types'
        BY <1>1, <1>2, <1>3 DEF IInv, Types, EngineTypes, PipeTypes, LeaseTypes
    <1>5. Pipes' /\ Awaited(h)' /\ Armed(h)' /\ Suppressing(h)'
        BY <1>1, <1>2, <1>3 DEF IInv, Pipes, Awaited, Armed, Taken, Suppressing, In, At
    <1>6. Holding(h)' /\ Leased(h)' /\ Accounted(h)' /\ Shown(h)'
        BY <1>1, <1>2, <1>3 DEF IInv, Holding, Taken, Leased, Accounted, Shown, In, At,
           SameRequest
    <1>7. FrameIds(h)' /\ OneStop' /\ Busy(h)' /\ Operations(h)' /\ MaintenanceHidden'
        BY <1>1, <1>2, <1>3 DEF IInv, FrameIds, OneStop, Busy, Operations, MaintenanceHidden, In,
           At, SameRequest
    <1> QED
        BY <1>4, <1>5, <1>6, <1>7 DEF IInv

LEMMA CaptureSuppressesKeeps ==
    ASSUME NEW h, Hooks = {h}, IInv(h), CaptureSuppresses(h)
    PROVE  IInv(h)'
    <1> h \in Hooks /\ Types /\ None \notin {h, "user", "proxy"}
        BY LeaseAssumption DEF IInv
    <1>1. /\ suppress' = h
          /\ raised' = raised \ {<<h, "continued">>}
          /\ At(h, "suppress")
          /\ UNCHANGED <<suspended, nstop, held, pstop, resuming, wire, queue, pwire,
                         maintenance, active, published, frameId, told, view, failed>>
        BY DEF CaptureSuppresses, Suppress, engines, session, lease, editor
    <1>2. CallTypes' /\ call'[h].pc = "continue" /\ SameRequest(h)
        BY CallGoes DEF CaptureSuppresses, SameRequest, Places
    <1>3. /\ Pipe' = Pipe /\ (StopOnItsWay' <=> StopOnItsWay)
          /\ (ResumeOnItsWay' <=> ResumeOnItsWay)
          /\ (Pipe = <<>> => ~StopOnItsWay /\ ~ResumeOnItsWay)
        BY <1>1, OnItsWay DEF Pipe, StopOnItsWay, ResumeOnItsWay
    <1>4. Types'
        BY <1>1, <1>2, <1>3 DEF IInv, Types, EngineTypes, PipeTypes, LeaseTypes
    <1>5. Pipes' /\ Awaited(h)' /\ Armed(h)' /\ Suppressing(h)'
        BY <1>1, <1>2, <1>3 DEF IInv, Pipes, Awaited, Armed, Taken, Suppressing, In, At
    <1>6. Holding(h)' /\ Leased(h)' /\ Accounted(h)' /\ Shown(h)'
        BY <1>1, <1>2, <1>3 DEF IInv, Holding, Taken, Leased, Accounted, Shown, In, At,
           SameRequest
    <1>7. FrameIds(h)' /\ OneStop' /\ Busy(h)' /\ Operations(h)' /\ MaintenanceHidden'
        BY <1>1, <1>2, <1>3 DEF IInv, FrameIds, OneStop, Busy, Operations, MaintenanceHidden, In,
           At, SameRequest
    <1> QED
        BY <1>4, <1>5, <1>6, <1>7 DEF IInv

LEMMA ResolveKeeps ==
    ASSUME NEW h, Hooks = {h}, IInv(h), Resolve(h)
    PROVE  IInv(h)'
    <1> h \in Hooks /\ Types /\ None \notin {h, "user", "proxy"}
        BY LeaseAssumption DEF IInv
    <1>1. /\ active'
          /\ At(h, "resolve")
          /\ frameId' = IF call[h].of = published
                        THEN [frameId EXCEPT ![call[h].frame] = call[h].native] ELSE frameId
          /\ UNCHANGED <<suspended, nstop, held, pstop, resuming, wire, queue, pwire,
                         maintenance, suppress, raised, published, told, view, failed>>
        BY DEF Resolve, engines, session, lease, editor
    <1>2. /\ CallTypes' /\ call'[h].pc = "unwind" /\ call'[h].op = call[h].op
          /\ call'[h].of = call[h].of
          /\ call'[h].frame = call[h].frame /\ call'[h].native = call[h].native
        BY CallResolves DEF Resolve, Places
    <1>3. /\ Pipe' = Pipe /\ (StopOnItsWay' <=> StopOnItsWay)
          /\ (ResumeOnItsWay' <=> ResumeOnItsWay)
          /\ (Pipe = <<>> => ~StopOnItsWay /\ ~ResumeOnItsWay)
        BY <1>1, OnItsWay DEF Pipe, StopOnItsWay, ResumeOnItsWay
    <1>4. Types'
        <2>1. call[h].native \in Nat
            BY DEF Types, CallTypes, Calls
        <2>2. frameId' \in [Frames -> Nat]
            BY <1>1, <2>1 DEF Types, LeaseTypes
        <2> QED
            BY <1>1, <1>2, <2>2 DEF Types, EngineTypes, PipeTypes, LeaseTypes
    <1>5. Pipes' /\ Awaited(h)' /\ Armed(h)' /\ Suppressing(h)'
        BY <1>1, <1>2, <1>3 DEF IInv, Pipes, Awaited, Armed, Taken, Suppressing, In, At
    <1>6. Holding(h)' /\ Leased(h)' /\ Accounted(h)' /\ Shown(h)'
        BY <1>1, <1>2, <1>3 DEF IInv, Holding, Taken, Leased, Accounted, Shown, In, At,
           SameRequest
    <1>7. FrameIds(h)'
        BY <1>1 DEF IInv, FrameIds, Leased
    <1>8. OneStop'
        BY <1>1 DEF IInv, OneStop, Busy, In, At
    <1>9. Busy(h)' /\ Operations(h)' /\ MaintenanceHidden'
        BY <1>1, <1>2, <1>3 DEF IInv, Busy, Operations, MaintenanceHidden, In, SameRequest, At
    <1> QED
        BY <1>4, <1>5, <1>6, <1>7, <1>8, <1>9 DEF IInv

LEMMA UnwindKeeps ==
    ASSUME NEW h, Hooks = {h}, IInv(h), Unwind(h)
    PROVE  IInv(h)'
    <1> h \in Hooks /\ Types /\ None \notin {h, "user", "proxy"}
        BY LeaseAssumption DEF IInv
    <1>1. /\ At(h, "unwind")
          /\ UNCHANGED <<suspended, nstop, held, pstop, resuming, wire, queue, pwire, suppress,
                         raised, active, published, frameId, told, view, failed>>
        BY Zenon DEF Unwind, engines, session, lease, editor
    <1>2. /\ CallTypes'
          /\ \/ call[h].ok /\ call'[h].pc = "acquired" /\ SameRequest(h)
             \/ ~call[h].ok /\ call'[h].pc = "restore" /\ SameRequest(h)
             \/ call'[h].pc = "idle" /\ call'[h].op = "none" /\ ~call'[h].ok
        BY CallGoes, CallEnds DEF Unwind, SameRequest, Places
    <1>3. /\ Pipe' = Pipe /\ (StopOnItsWay' <=> StopOnItsWay)
          /\ (ResumeOnItsWay' <=> ResumeOnItsWay)
          /\ (Pipe = <<>> => ~StopOnItsWay /\ ~ResumeOnItsWay)
        BY <1>1, OnItsWay DEF Pipe, StopOnItsWay, ResumeOnItsWay
    <1>4. Types'
        BY <1>1, <1>2, <1>3 DEF IInv, Types, EngineTypes, PipeTypes, LeaseTypes
    <1>5. Pipes' /\ Awaited(h)' /\ Armed(h)' /\ Suppressing(h)'
        BY <1>1, <1>2, <1>3 DEF IInv, Pipes, Awaited, Armed, Taken, Suppressing, In, At
    <1>6. Holding(h)'
        BY <1>1, <1>2, <1>3 DEF IInv, Holding, Taken, Leased, In
    <1>7. Leased(h)' /\ Accounted(h)' /\ Shown(h)'
        BY <1>1, <1>2, <1>3 DEF IInv, Leased, Accounted, Shown, Taken, In, At, SameRequest
    <1>8. FrameIds(h)' /\ OneStop' /\ Busy(h)' /\ Operations(h)' /\ MaintenanceHidden'
        BY <1>1, <1>2, <1>3 DEF IInv, FrameIds, OneStop, Busy, Operations, MaintenanceHidden, In,
           At, SameRequest
    <1> QED
        BY <1>4, <1>5, <1>6, <1>7, <1>8 DEF IInv

LEMMA ServeRustKeeps ==
    ASSUME NEW h, Hooks = {h}, IInv(h), ServeRust(h)
    PROVE  IInv(h)'
    <1> h \in Hooks /\ Types /\ None \notin {h, "user", "proxy"}
        BY LeaseAssumption DEF IInv
    <1>1. /\ At(h, "acquired")
          /\ UNCHANGED <<suspended, nstop, held, pstop, resuming, wire, queue, pwire,
                         maintenance, suppress, raised, active, published, frameId, told, view,
                         failed>>
        BY Zenon DEF ServeRust, engines, session, lease, editor
    <1>2. CallTypes' /\ call'[h].pc = "idle" /\ call'[h].op = "none" /\ ~call'[h].ok
        BY CallEnds DEF ServeRust
    <1>3. /\ Pipe' = Pipe /\ (StopOnItsWay' <=> StopOnItsWay)
          /\ (ResumeOnItsWay' <=> ResumeOnItsWay)
          /\ (Pipe = <<>> => ~StopOnItsWay /\ ~ResumeOnItsWay)
        BY <1>1, OnItsWay DEF Pipe, StopOnItsWay, ResumeOnItsWay
    <1>4. Types'
        BY <1>1, <1>2, <1>3 DEF IInv, Types, EngineTypes, PipeTypes, LeaseTypes
    <1>5. Pipes' /\ Awaited(h)' /\ Armed(h)' /\ Suppressing(h)'
        BY <1>1, <1>2, <1>3 DEF IInv, Pipes, Awaited, Armed, Taken, Suppressing, In, At
    <1>6. Holding(h)' /\ Leased(h)' /\ Accounted(h)' /\ Shown(h)'
        BY <1>1, <1>2, <1>3 DEF IInv, Holding, Taken, Leased, Accounted, Shown, In, At,
           SameRequest
    <1>7. FrameIds(h)' /\ OneStop' /\ Busy(h)' /\ Operations(h)' /\ MaintenanceHidden'
        BY <1>1, <1>2, <1>3 DEF IInv, FrameIds, OneStop, Busy, Operations, MaintenanceHidden, In,
           At, SameRequest
    <1> QED
        BY <1>4, <1>5, <1>6, <1>7 DEF IInv

LEMMA StepPreparesKeeps ==
    ASSUME NEW h, Hooks = {h}, IInv(h), StepPrepares(h)
    PROVE  IInv(h)'
    <1> h \in Hooks /\ Types /\ None \notin {h, "user", "proxy"}
        BY LeaseAssumption DEF IInv
    <1>1. /\ At(h, "acquired")
          /\ UNCHANGED <<suspended, nstop, held, pstop, resuming, wire, queue, pwire,
                         maintenance, suppress, raised, active, published, frameId, told, view,
                         failed>>
        BY Zenon DEF StepPrepares, engines, session, lease, editor
    <1>2. /\ CallTypes'
          /\ \/ call'[h].pc = "release" /\ SameRequest(h)
             \/ call'[h].pc = "idle" /\ call'[h].op = "none" /\ ~call'[h].ok
        BY CallGoes, CallEnds DEF StepPrepares, SameRequest, Places
    <1>3. /\ Pipe' = Pipe /\ (StopOnItsWay' <=> StopOnItsWay)
          /\ (ResumeOnItsWay' <=> ResumeOnItsWay)
          /\ (Pipe = <<>> => ~StopOnItsWay /\ ~ResumeOnItsWay)
        BY <1>1, OnItsWay DEF Pipe, StopOnItsWay, ResumeOnItsWay
    <1>4. Types'
        BY <1>1, <1>2, <1>3 DEF IInv, Types, EngineTypes, PipeTypes, LeaseTypes
    <1>5. Pipes' /\ Awaited(h)' /\ Armed(h)' /\ Suppressing(h)'
        BY <1>1, <1>2, <1>3 DEF IInv, Pipes, Awaited, Armed, Taken, Suppressing, In, At
    <1>6. Holding(h)' /\ Leased(h)' /\ Accounted(h)' /\ Shown(h)'
        BY <1>1, <1>2, <1>3 DEF IInv, Holding, Taken, Leased, Accounted, Shown, In, At,
           SameRequest
    <1>7. FrameIds(h)' /\ OneStop' /\ Busy(h)' /\ Operations(h)' /\ MaintenanceHidden'
        BY <1>1, <1>2, <1>3 DEF IInv, FrameIds, OneStop, Busy, Operations, MaintenanceHidden, In,
           At, SameRequest
    <1> QED
        BY <1>4, <1>5, <1>6, <1>7 DEF IInv

LEMMA StepRestoresKeeps ==
    ASSUME NEW h, Hooks = {h}, IInv(h), StepRestores(h)
    PROVE  IInv(h)'
    <1> h \in Hooks /\ Types /\ None \notin {h, "user", "proxy"}
        BY LeaseAssumption DEF IInv
    <1>1. /\ At(h, "restore")
          /\ UNCHANGED <<suspended, nstop, held, pstop, resuming, wire, queue, pwire,
                         maintenance, suppress, raised, active, published, frameId, told, view,
                         failed>>
        BY Zenon DEF StepRestores, engines, session, lease, editor
    <1>2. CallTypes' /\ call'[h].pc = "idle" /\ call'[h].op = "none" /\ ~call'[h].ok
        BY CallEnds DEF StepRestores
    <1>3. /\ Pipe' = Pipe /\ (StopOnItsWay' <=> StopOnItsWay)
          /\ (ResumeOnItsWay' <=> ResumeOnItsWay)
          /\ (Pipe = <<>> => ~StopOnItsWay /\ ~ResumeOnItsWay)
        BY <1>1, OnItsWay DEF Pipe, StopOnItsWay, ResumeOnItsWay
    <1>4. Types'
        BY <1>1, <1>2, <1>3 DEF IInv, Types, EngineTypes, PipeTypes, LeaseTypes
    <1>5. Pipes' /\ Awaited(h)' /\ Armed(h)' /\ Suppressing(h)'
        BY <1>1, <1>2, <1>3 DEF IInv, Pipes, Awaited, Armed, Taken, Suppressing, In, At
    <1>6. Holding(h)' /\ Leased(h)' /\ Accounted(h)' /\ Shown(h)'
        BY <1>1, <1>2, <1>3 DEF IInv, Holding, Taken, Leased, Accounted, Shown, In, At,
           SameRequest
    <1>7. FrameIds(h)' /\ OneStop' /\ Busy(h)' /\ Operations(h)' /\ MaintenanceHidden'
        BY <1>1, <1>2, <1>3 DEF IInv, FrameIds, OneStop, Busy, Operations, MaintenanceHidden, In,
           At, SameRequest
    <1> QED
        BY <1>4, <1>5, <1>6, <1>7 DEF IInv

LEMMA ReleaseBeginsKeeps ==
    ASSUME NEW h, Hooks = {h}, IInv(h), ReleaseBegins(h)
    PROVE  IInv(h)'
    <1> h \in Hooks /\ Types /\ None \notin {h, "user", "proxy"}
        BY LeaseAssumption DEF IInv
    <1>1. /\ ~active'
          /\ At(h, "release")
          /\ UNCHANGED <<suspended, nstop, held, pstop, resuming, wire, queue, pwire,
                         maintenance, suppress, raised, published, frameId, told, view, failed>>
        BY Zenon DEF ReleaseBegins, engines, session, lease, editor
    <1>2. /\ CallTypes' /\ SameRequest(h)
          /\ call'[h].pc = IF active THEN "forget" ELSE "released"
        BY CallGoes DEF ReleaseBegins, SameRequest, Places
    <1>3. /\ Pipe' = Pipe /\ (StopOnItsWay' <=> StopOnItsWay)
          /\ (ResumeOnItsWay' <=> ResumeOnItsWay)
          /\ (Pipe = <<>> => ~StopOnItsWay /\ ~ResumeOnItsWay)
        BY <1>1, OnItsWay DEF Pipe, StopOnItsWay, ResumeOnItsWay
    <1>4. Types'
        BY <1>1, <1>2, <1>3 DEF IInv, Types, EngineTypes, PipeTypes, LeaseTypes
    <1>5. Pipes' /\ Awaited(h)' /\ Armed(h)' /\ Suppressing(h)'
        BY <1>1, <1>2, <1>3 DEF IInv, Pipes, Awaited, Armed, Taken, Suppressing, In, At
    <1>6. Holding(h)' /\ Leased(h)' /\ Accounted(h)' /\ Shown(h)'
        BY <1>1, <1>2, <1>3 DEF IInv, Holding, Taken, Leased, Accounted, Shown, In, At,
           SameRequest
    <1>7. FrameIds(h)' /\ OneStop' /\ Busy(h)' /\ Operations(h)' /\ MaintenanceHidden'
        BY <1>1, <1>2, <1>3 DEF IInv, FrameIds, OneStop, Busy, Operations, MaintenanceHidden, In,
           At, SameRequest
    <1> QED
        BY <1>4, <1>5, <1>6, <1>7 DEF IInv

LEMMA ReleaseForgetsKeeps ==
    ASSUME NEW h, Hooks = {h}, IInv(h), ReleaseForgets(h)
    PROVE  IInv(h)'
    <1> h \in Hooks /\ Types /\ None \notin {h, "user", "proxy"}
        BY LeaseAssumption DEF IInv
    <1>1. /\ suppress' = h
          /\ raised' = raised \ {<<h, "continued">>}
          /\ frameId' = [f \in Frames |-> 0]
          /\ At(h, "forget")
          /\ UNCHANGED <<suspended, nstop, held, pstop, resuming, wire, queue, pwire,
                         maintenance, active, published, told, view, failed>>
        BY DEF ReleaseForgets, Suppress, engines, session, lease, editor
    <1>2. CallTypes' /\ call'[h].pc = "continue" /\ SameRequest(h)
        BY CallGoes DEF ReleaseForgets, SameRequest, Places
    <1>3. /\ Pipe' = Pipe /\ (StopOnItsWay' <=> StopOnItsWay)
          /\ (ResumeOnItsWay' <=> ResumeOnItsWay)
          /\ (Pipe = <<>> => ~StopOnItsWay /\ ~ResumeOnItsWay)
        BY <1>1, OnItsWay DEF Pipe, StopOnItsWay, ResumeOnItsWay
    <1>4. Types'
        BY <1>1, <1>2, <1>3 DEF IInv, Types, EngineTypes, PipeTypes, LeaseTypes
    <1>5. Pipes' /\ Awaited(h)' /\ Armed(h)' /\ Suppressing(h)'
        BY <1>1, <1>2, <1>3 DEF IInv, Pipes, Awaited, Armed, Taken, Suppressing, In, At
    <1>6. Holding(h)' /\ Leased(h)' /\ Accounted(h)' /\ Shown(h)'
        BY <1>1, <1>2, <1>3 DEF IInv, Holding, Taken, Leased, Accounted, Shown, In, At,
           SameRequest
    <1>7. FrameIds(h)' /\ OneStop' /\ Busy(h)' /\ Operations(h)' /\ MaintenanceHidden'
        BY <1>1, <1>2, <1>3 DEF IInv, FrameIds, OneStop, Busy, Operations, MaintenanceHidden, In,
           At, SameRequest
    <1> QED
        BY <1>4, <1>5, <1>6, <1>7 DEF IInv

LEMMA ContinueKeeps ==
    ASSUME NEW h, Hooks = {h}, IInv(h), Continue(h)
    PROVE  IInv(h)'
    <1> h \in Hooks /\ Types /\ None \notin {h, "user", "proxy"}
        BY LeaseAssumption DEF IInv
    <1>1. /\ suspended # None /\ suspended' = None
          /\ wire' = Append(wire, Continued("proxy"))
          /\ ~failed'
          /\ At(h, "continue")
          /\ UNCHANGED <<nstop, held, pstop, resuming, queue, pwire, maintenance, suppress,
                         raised, active, published, frameId, told, view>>
        BY DEF Continue, Continued, IInv, Holding, Taken, In, At, engines, session, lease, editor
    <1>2. CallTypes' /\ call'[h].pc = "settle" /\ SameRequest(h)
        BY CallGoes DEF Continue, SameRequest, Places
    <1>3. Pipes' /\ Pipe' # <<>> /\ ~StopOnItsWay' /\ ResumeOnItsWay'
        <2>1. Pipe = <<>>
            BY <1>1 DEF IInv, Holding, Taken, In, At
        <2> QED
            BY <1>1, <2>1, PipeSend, ResumeIsSent, EventsDiffer DEF Sides
    <1>4. Types'
        <2>1. PipeTypes'
            <3>1. Continued("user") \in NativeEvents /\ Continued("proxy") \in NativeEvents
                BY EventsDiffer DEF Sides
            <3> QED
                BY <1>1, <3>1, Sent DEF Types, PipeTypes
        <2> QED
            BY <1>1, <1>2, <2>1 DEF Types, EngineTypes, LeaseTypes, Sides
    <1>5. Pipes' /\ Awaited(h)' /\ Armed(h)' /\ Suppressing(h)'
        BY <1>1, <1>2, <1>3 DEF IInv, Pipes, Awaited, Armed, Taken, Suppressing, In, At
    <1>6. Holding(h)' /\ Leased(h)' /\ Accounted(h)'
        BY <1>1, <1>2, <1>3 DEF IInv, Holding, Taken, Leased, Accounted, In, At, SameRequest
    <1>7. Shown(h)'
        BY <1>1, <1>2 DEF IInv, Shown, Holding, Taken, In, At
    <1>8. FrameIds(h)' /\ OneStop' /\ Busy(h)' /\ Operations(h)' /\ MaintenanceHidden'
        BY <1>1, <1>2, <1>3 DEF IInv, FrameIds, OneStop, Busy, Operations, MaintenanceHidden, In,
           At, SameRequest
    <1> QED
        BY <1>4, <1>5, <1>6, <1>7, <1>8 DEF IInv

LEMMA AwaitContinuedKeeps ==
    ASSUME NEW h, Hooks = {h}, IInv(h), AwaitContinued(h)
    PROVE  IInv(h)'
    <1> h \in Hooks /\ Types /\ None \notin {h, "user", "proxy"}
        BY LeaseAssumption DEF IInv
    <1>1. /\ At(h, "settle")
          /\ UNCHANGED <<suspended, nstop, held, pstop, resuming, wire, queue, pwire,
                         maintenance, suppress, raised, active, published, frameId, told, view,
                         failed>>
        BY Zenon DEF AwaitContinued, Awaits, engines, session, lease, editor
    <1>2. /\ CallTypes' /\ SameRequest(h) /\ call'[h].pc = "remember"
          /\ <<h, "continued">> \in raised \/ Pipe = <<>>
        BY CallGoes, PipeEmpty DEF AwaitContinued, Awaits, SameRequest, Places
    <1>3. /\ Pipe' = Pipe /\ (StopOnItsWay' <=> StopOnItsWay)
          /\ (ResumeOnItsWay' <=> ResumeOnItsWay)
          /\ (Pipe = <<>> => ~StopOnItsWay /\ ~ResumeOnItsWay)
        BY <1>1, OnItsWay DEF Pipe, StopOnItsWay, ResumeOnItsWay
    <1>4. Types'
        BY <1>1, <1>2, <1>3 DEF IInv, Types, EngineTypes, PipeTypes, LeaseTypes
    <1>5. Pipes' /\ Armed(h)' /\ Suppressing(h)'
        BY <1>1, <1>2, <1>3 DEF IInv, Pipes, Armed, Taken, Suppressing, In, At
    <1>6. Awaited(h)'
        BY <1>1, <1>2, <1>3 DEF IInv, Awaited, Suppressing, At
    <1>7. Holding(h)' /\ Leased(h)' /\ Accounted(h)' /\ Shown(h)'
        BY <1>1, <1>2, <1>3 DEF IInv, Holding, Taken, Leased, Accounted, Shown, In, At,
           SameRequest
    <1>8. FrameIds(h)' /\ OneStop' /\ Busy(h)' /\ Operations(h)' /\ MaintenanceHidden'
        BY <1>1, <1>2, <1>3 DEF IInv, FrameIds, OneStop, Busy, Operations, MaintenanceHidden, In,
           At, SameRequest
    <1> QED
        BY <1>4, <1>5, <1>6, <1>7, <1>8 DEF IInv

LEMMA RememberKeeps ==
    ASSUME NEW h, Hooks = {h}, IInv(h), Remember(h)
    PROVE  IInv(h)'
    <1> h \in Hooks /\ Types /\ None \notin {h, "user", "proxy"}
        BY LeaseAssumption DEF IInv
    <1>1. /\ At(h, "remember")
          /\ UNCHANGED <<suspended, nstop, held, pstop, resuming, wire, queue, pwire,
                         maintenance, suppress, raised, active, published, frameId, told, view,
                         failed>>
        BY Zenon DEF Remember, engines, session, lease, editor
    <1>2. /\ CallTypes' /\ SameRequest(h)
          /\ call'[h].pc = IF call[h].op = "stackTrace" THEN "unwind" ELSE "released"
        BY CallGoes DEF Remember, SameRequest, Places
    <1>3. /\ Pipe' = Pipe /\ (StopOnItsWay' <=> StopOnItsWay)
          /\ (ResumeOnItsWay' <=> ResumeOnItsWay)
          /\ (Pipe = <<>> => ~StopOnItsWay /\ ~ResumeOnItsWay)
        BY <1>1, OnItsWay DEF Pipe, StopOnItsWay, ResumeOnItsWay
    <1>4. Types'
        BY <1>1, <1>2, <1>3 DEF IInv, Types, EngineTypes, PipeTypes, LeaseTypes
    <1>5. Pipes' /\ Awaited(h)' /\ Armed(h)' /\ Suppressing(h)'
        BY <1>1, <1>2, <1>3 DEF IInv, Pipes, Awaited, Armed, Taken, Suppressing, In, At
    <1>6. Holding(h)' /\ Accounted(h)' /\ Shown(h)'
        BY <1>1, <1>2, <1>3 DEF IInv, Holding, Taken, Accounted, Shown, In, At, SameRequest
    <1>7. Leased(h)'
        BY <1>2 DEF IInv, Leased, Operations, At, SameRequest
    <1>8. FrameIds(h)' /\ OneStop' /\ Busy(h)' /\ Operations(h)' /\ MaintenanceHidden'
        BY <1>1, <1>2, <1>3 DEF IInv, FrameIds, OneStop, Busy, Operations, MaintenanceHidden, In,
           At, SameRequest
    <1> QED
        BY <1>4, <1>5, <1>6, <1>7, <1>8 DEF IInv

LEMMA UsePythonKeeps ==
    ASSUME NEW h, Hooks = {h}, IInv(h), UsePython(h)
    PROVE  IInv(h)'
    <1> h \in Hooks /\ Types /\ None \notin {h, "user", "proxy"}
        BY LeaseAssumption DEF IInv
    <1>1. /\ At(h, "released")
          /\ UNCHANGED <<suspended, nstop, held, pstop, resuming, wire, queue, pwire,
                         maintenance, suppress, raised, active, published, frameId, told, view,
                         failed>>
        BY Zenon DEF UsePython, engines, session, lease, editor
    <1>2. CallTypes' /\ call'[h].pc = "debugpy" /\ SameRequest(h)
        BY CallGoes DEF UsePython, SameRequest, Places
    <1>3. /\ Pipe' = Pipe /\ (StopOnItsWay' <=> StopOnItsWay)
          /\ (ResumeOnItsWay' <=> ResumeOnItsWay)
          /\ (Pipe = <<>> => ~StopOnItsWay /\ ~ResumeOnItsWay)
        BY <1>1, OnItsWay DEF Pipe, StopOnItsWay, ResumeOnItsWay
    <1>4. Types'
        BY <1>1, <1>2, <1>3 DEF IInv, Types, EngineTypes, PipeTypes, LeaseTypes
    <1>5. Pipes' /\ Awaited(h)' /\ Armed(h)' /\ Suppressing(h)'
        BY <1>1, <1>2, <1>3 DEF IInv, Pipes, Awaited, Armed, Taken, Suppressing, In, At
    <1>6. Holding(h)' /\ Leased(h)' /\ Accounted(h)' /\ Shown(h)'
        BY <1>1, <1>2, <1>3 DEF IInv, Holding, Taken, Leased, Accounted, Shown, In, At,
           SameRequest
    <1>7. FrameIds(h)' /\ OneStop' /\ Busy(h)' /\ Operations(h)' /\ MaintenanceHidden'
        BY <1>1, <1>2, <1>3 DEF IInv, FrameIds, OneStop, Busy, Operations, MaintenanceHidden, In,
           At, SameRequest
    <1> QED
        BY <1>4, <1>5, <1>6, <1>7 DEF IInv

LEMMA ResumePythonKeeps ==
    ASSUME NEW h, Hooks = {h}, IInv(h), ResumePython(h)
    PROVE  IInv(h)'
    <1> h \in Hooks /\ Types /\ None \notin {h, "user", "proxy"}
        BY LeaseAssumption DEF IInv
    <1>1. /\ resuming' = held
          /\ view' = view \ {"python"}
          /\ At(h, "released")
          /\ UNCHANGED <<suspended, nstop, held, pstop, wire, queue, pwire, maintenance,
                         suppress, raised, active, published, frameId, told, failed>>
        BY DEF ResumePython, engines, session, lease, editor
    <1>2. CallTypes' /\ call'[h].pc = "idle" /\ call'[h].op = "none" /\ ~call'[h].ok
        BY CallEnds DEF ResumePython
    <1>3. /\ Pipe' = Pipe /\ (StopOnItsWay' <=> StopOnItsWay)
          /\ (ResumeOnItsWay' <=> ResumeOnItsWay)
          /\ (Pipe = <<>> => ~StopOnItsWay /\ ~ResumeOnItsWay)
        BY <1>1, OnItsWay DEF Pipe, StopOnItsWay, ResumeOnItsWay
    <1>4. Types'
        BY <1>1, <1>2, <1>3 DEF IInv, Types, EngineTypes, PipeTypes, LeaseTypes
    <1>5. Pipes' /\ Awaited(h)' /\ Armed(h)' /\ Suppressing(h)'
        BY <1>1, <1>2, <1>3 DEF IInv, Pipes, Awaited, Armed, Taken, Suppressing, In, At
    <1>6. Holding(h)' /\ Leased(h)' /\ Accounted(h)' /\ Shown(h)'
        BY <1>1, <1>2, <1>3 DEF IInv, Holding, Taken, Leased, Accounted, Shown, In, At,
           SameRequest
    <1>7. FrameIds(h)' /\ Busy(h)' /\ Operations(h)' /\ MaintenanceHidden'
        BY <1>1, <1>2, <1>3 DEF IInv, FrameIds, Busy, Operations, MaintenanceHidden, In, At,
           SameRequest
    <1>8. OneStop'
        <2>1. "python" \in view
            BY <1>1 DEF IInv, Busy, In, At
        <2> QED
            BY <1>1, <2>1 DEF IInv, OneStop
    <1> QED
        BY <1>4, <1>5, <1>6, <1>7, <1>8 DEF IInv

LEMMA NativeContinueKeeps ==
    ASSUME NEW h, Hooks = {h}, IInv(h), NativeContinue(h)
    PROVE  IInv(h)'
    <1> h \in Hooks /\ Types /\ None \notin {h, "user", "proxy"}
        BY LeaseAssumption DEF IInv
    <1>1. /\ suspended = "user" /\ suspended' = None
          /\ wire' = Append(wire, Continued("user"))
          /\ ~failed'
          /\ At(h, "nativeContinue")
          /\ UNCHANGED <<nstop, held, pstop, resuming, queue, pwire, maintenance, suppress,
                         raised, active, published, frameId, told, view>>
        BY DEF NativeContinue, Continued, IInv, Shown, At, engines, session, lease, editor
    <1>2. CallTypes' /\ call'[h].pc = "nativeContinued" /\ SameRequest(h)
        BY CallGoes, <1>1 DEF NativeContinue, SameRequest, Places
    <1>3. Pipes' /\ Pipe' # <<>> /\ ~StopOnItsWay' /\ ~ResumeOnItsWay' /\ "native" \in view
        <2>1. Pipe = <<>> /\ "native" \in view
            BY <1>1 DEF IInv, Shown, At
        <2> QED
            BY <1>1, <2>1, PipeSend, ResumeIsSent, EventsDiffer DEF Sides
    <1>4. Types'
        <2>1. PipeTypes'
            <3>1. Continued("user") \in NativeEvents /\ Continued("proxy") \in NativeEvents
                BY EventsDiffer DEF Sides
            <3> QED
                BY <1>1, <3>1, Sent DEF Types, PipeTypes
        <2> QED
            BY <1>1, <1>2, <2>1 DEF Types, EngineTypes, LeaseTypes, Sides
    <1>5. Pipes' /\ Awaited(h)' /\ Armed(h)' /\ Suppressing(h)'
        BY <1>1, <1>2, <1>3 DEF IInv, Pipes, Awaited, Armed, Taken, Suppressing, In, At
    <1>6. Holding(h)' /\ Leased(h)' /\ Accounted(h)' /\ Shown(h)'
        BY <1>1, <1>2, <1>3 DEF IInv, Holding, Taken, Leased, Accounted, Shown, In, At,
           SameRequest
    <1>7. FrameIds(h)' /\ OneStop' /\ Busy(h)' /\ Operations(h)' /\ MaintenanceHidden'
        BY <1>1, <1>2, <1>3 DEF IInv, FrameIds, OneStop, Busy, Operations, MaintenanceHidden, In,
           At, SameRequest
    <1> QED
        BY <1>4, <1>5, <1>6, <1>7 DEF IInv

LEMMA NativeContinuedKeeps ==
    ASSUME NEW h, Hooks = {h}, IInv(h), NativeContinued(h)
    PROVE  IInv(h)'
    <1> h \in Hooks /\ Types /\ None \notin {h, "user", "proxy"}
        BY LeaseAssumption DEF IInv
    <1>1. /\ view' = view \ {"native"}
          /\ At(h, "nativeContinued")
          /\ UNCHANGED <<suspended, nstop, held, pstop, resuming, wire, queue, pwire,
                         maintenance, suppress, raised, active, published, frameId, told,
                         failed>>
        BY DEF NativeContinued, engines, session, lease, editor
    <1>2. CallTypes' /\ call'[h].pc = "idle" /\ call'[h].op = "none" /\ ~call'[h].ok
        BY CallEnds DEF NativeContinued
    <1>3. /\ Pipe' = Pipe /\ (StopOnItsWay' <=> StopOnItsWay)
          /\ (ResumeOnItsWay' <=> ResumeOnItsWay)
          /\ (Pipe = <<>> => ~StopOnItsWay /\ ~ResumeOnItsWay)
        BY <1>1, OnItsWay DEF Pipe, StopOnItsWay, ResumeOnItsWay
    <1>4. Types'
        BY <1>1, <1>2, <1>3 DEF IInv, Types, EngineTypes, PipeTypes, LeaseTypes
    <1>5. Pipes' /\ Awaited(h)' /\ Armed(h)' /\ Suppressing(h)'
        BY <1>1, <1>2, <1>3 DEF IInv, Pipes, Awaited, Armed, Taken, Suppressing, In, At
    <1>6. Holding(h)' /\ Leased(h)' /\ Accounted(h)' /\ Shown(h)'
        BY <1>1, <1>2, <1>3 DEF IInv, Holding, Taken, Leased, Accounted, Shown, In, At,
           SameRequest
    <1>7. FrameIds(h)' /\ OneStop' /\ Busy(h)' /\ Operations(h)' /\ MaintenanceHidden'
        BY <1>1, <1>2, <1>3 DEF IInv, FrameIds, OneStop, Busy, Operations, MaintenanceHidden, In,
           At, SameRequest
    <1> QED
        BY <1>4, <1>5, <1>6, <1>7 DEF IInv

--------------------------------------------------------------------------------
\* The invariant.
LEMMA InitInv ==
    ASSUME NEW h, Hooks = {h}, Init
    PROVE  IInv(h)
    <1>1. Types
        BY TypesInit
    <1>2. Pipe = <<>> /\ ~StopOnItsWay /\ ~ResumeOnItsWay
        BY OnItsWay DEF Init, Pipe, StopOnItsWay, ResumeOnItsWay
    <1>3. call[h].pc = "idle" /\ call[h].op = "none" /\ ~call[h].ok
        BY DEF Init, Idle
    <1>4. Pipes /\ Awaited(h) /\ Armed(h) /\ Suppressing(h)
        BY <1>2, <1>3 DEF Init, Pipes, Awaited, Armed, Suppressing, In, At
    <1>5. Holding(h) /\ Leased(h) /\ Accounted(h) /\ Shown(h) /\ FrameIds(h)
        BY <1>2, <1>3, LeaseAssumption DEF Init, Holding, Leased, Accounted, Shown, FrameIds, In,
           At
    <1>6. OneStop
        BY PythonEvents DEF Init, OneStop
    <1>7. Busy(h) /\ Operations(h) /\ MaintenanceHidden
        BY <1>3 DEF Init, Busy, Operations, MaintenanceHidden, In, At
    <1> QED
        BY <1>1, <1>4, <1>5, <1>6, <1>7, <1>2 DEF IInv

LEMMA HookStepKeeps ==
    ASSUME NEW h, Hooks = {h}, IInv(h), HookStep(h)
    PROVE  IInv(h)'
    BY AskDebugpyKeeps, CaptureArmsKeeps, AcquireBeginsKeeps, PauseKeeps, AwaitStoppedKeeps,
       TraceKeeps, PublishKeeps, CaptureSuppressesKeeps, ResolveKeeps, UnwindKeeps,
       ServeRustKeeps, StepPreparesKeeps, StepRestoresKeeps, ReleaseBeginsKeeps,
       ReleaseForgetsKeeps, ContinueKeeps, AwaitContinuedKeeps, RememberKeeps, UsePythonKeeps,
       ResumePythonKeeps, NativeContinueKeeps, NativeContinuedKeeps DEF HookStep

LEMMA StutterKeeps ==
    ASSUME NEW h, IInv(h), UNCHANGED vars
    PROVE  IInv(h)'
    <1>1. /\ UNCHANGED <<suspended, nstop, held, pstop, resuming, wire, queue, pwire>>
          /\ UNCHANGED <<maintenance, suppress, raised, active, published, frameId, call>>
          /\ UNCHANGED <<told, view, failed>>
        BY DEF vars, engines, lease, editor
    <1>2. Types' /\ Pipes' /\ OneStop' /\ MaintenanceHidden'
        BY <1>1 DEF IInv, Types, EngineTypes, PipeTypes, LeaseTypes, CallTypes, Pipes, Pipe,
                    OneStop, MaintenanceHidden
    <1>3. Pipe' = Pipe /\ StopOnItsWay' = StopOnItsWay /\ ResumeOnItsWay' = ResumeOnItsWay
        BY <1>1 DEF Pipe, StopOnItsWay, ResumeOnItsWay
    <1>4. Awaited(h)' /\ Armed(h)' /\ Suppressing(h)' /\ Holding(h)'
        BY <1>1, <1>3 DEF IInv, Awaited, Armed, Suppressing, Holding, Taken, In, At
    <1>5. Leased(h)' /\ Accounted(h)' /\ Shown(h)' /\ FrameIds(h)' /\ Busy(h)' /\ Operations(h)'
        BY <1>1, <1>3 DEF IInv, Leased, Accounted, Shown, FrameIds, Busy, Operations, In, At
    <1> QED
        BY <1>2, <1>4, <1>5 DEF IInv

LEMMA NextInv ==
    ASSUME NEW h, Hooks = {h}, IInv(h), [Next]_vars
    PROVE  IInv(h)'
    <1>1. CASE UserStop \/ PythonStops \/ PythonResumes
        BY <1>1, UserStopKeeps, PythonStopsKeeps, PythonResumesKeeps
    <1>2. CASE Readers
        BY <1>2, NativeReaderKeeps, OnStoppedKeeps, OnContinuedKeeps, PythonReaderStoppedKeeps,
           PythonReaderContinuedKeeps DEF Readers
    <1>3. CASE Request(h)
        BY <1>3, RequestStackKeeps, RequestRustKeeps, RequestPythonKeeps, RequestNativeKeeps
           DEF Request
    <1>4. CASE HookStep(h)
        BY <1>4, HookStepKeeps
    <1>5. CASE UNCHANGED vars
        BY <1>5, StutterKeeps
    <1> QED
        BY <1>1, <1>2, <1>3, <1>4, <1>5 DEF Next

\* The inductive invariant of NativeLease.tla, served by one hook thread.
THEOREM Invariance ==
    ASSUME NEW h, Hooks = {h}
    PROVE  Spec => []IInv(h)
    <1>1. Init => IInv(h)
        BY InitInv
    <1>2. IInv(h) /\ [Next]_vars => IInv(h)'
        BY NextInv
    <1> QED
        BY <1>1, <1>2, PTL DEF Spec

--------------------------------------------------------------------------------
\* The properties.

\* _on_native_stopped_locked and _on_native_continued_locked never tell the editor
\* of a stop or a resume that the proxy made for itself.
THEOREM MaintenanceStaysHidden ==
    ASSUME NEW h, Hooks = {h}
    PROVE  Spec => []MaintenanceHidden
    <1>1. IInv(h) => MaintenanceHidden
        BY DEF IInv
    <1> QED
        BY <1>1, Invariance, PTL

\* A frame id that _acquire_native_lease hands to a request is one of the
\* suspension that is on.
THEOREM FramesServedAreCurrent ==
    ASSUME NEW h, Hooks = {h}
    PROVE  Spec => []ServedFramesAreCurrent
    <1>1. IInv(h) => ServedFramesAreCurrent
        BY DEF IInv, ServedFramesAreCurrent, Holding, Taken, Leased, In, At
    <1> QED
        BY <1>1, Invariance, PTL

\* When _release_native_lease is done the process is not suspended on the proxy's
\* behalf, so that debugpy can do what it is asked next.
THEOREM LeaseComesBack ==
    ASSUME NEW h, Hooks = {h}
    PROVE  Spec => []LeaseIsReturned
    <1>1. IInv(h) => LeaseIsReturned
        BY DEF IInv, LeaseIsReturned, Accounted, In, At
    <1> QED
        BY <1>1, Invariance, PTL

\* Between two requests the process is suspended on the proxy's behalf only if
\* _native_active says so, or CodeLLDB could not tell its frames.
THEOREM SuspensionsAreAccounted ==
    ASSUME NEW h, Hooks = {h}
    PROVE  Spec => []SuspensionIsAccounted
    <1>1. IInv(h) => SuspensionIsAccounted
        BY DEF IInv, SuspensionIsAccounted, AtRest, Accounted, Holding, Taken, In, At
    <1> QED
        BY <1>1, Invariance, PTL

\* The continued event of a maintenance, which _update_event_state takes for the
\* end of the stop, comes while the hook that corrects it is still waiting.
THEOREM HookSpeaksLast ==
    ASSUME NEW h, Hooks = {h}
    PROVE  Spec => []HookHasLastWord
    <1>1. ASSUME IInv(h), NEW e \in Range(wire) \cup Range(queue), e = Continued("proxy")
          PROVE  ResumeOnItsWay
        <2>1. wire \in Seq(NativeEvents) /\ queue \in Seq(NativeEvents)
            BY <1>1 DEF IInv, Types, PipeTypes
        <2>2. \E i \in 1..Len(Pipe) : Pipe[i] = Continued("proxy")
            <3>1. CASE e \in Range(queue)
                <4>1. PICK i \in 1..Len(queue) : queue[i] = e
                    BY <2>1, <3>1 DEF Range
                <4> QED
                    BY <1>1, <2>1, <4>1 DEF Pipe
            <3>2. CASE e \in Range(wire)
                <4>1. PICK i \in 1..Len(wire) : wire[i] = e
                    BY <2>1, <3>2 DEF Range
                <4>2. Len(queue) + i \in 1..Len(Pipe) /\ Pipe[Len(queue) + i] = e
                    BY <2>1, <4>1 DEF Pipe
                <4> QED
                    BY <1>1, <4>2
            <3> QED
                BY <1>1, <3>1, <3>2
        <2>3. /\ Pipe # <<>>
              /\ \A a : Pipe = <<a>> => a = Continued("proxy")
              /\ \A a, b : Pipe = <<a, b>> => a = Continued("proxy") \/ b = Continued("proxy")
            BY <2>2
        <2>4. /\ "user" \in Sides /\ "proxy" \in Sides /\ "user" # "proxy"
              /\ suspended # None => suspended \in Sides
            BY <1>1 DEF IInv, Types, EngineTypes, Sides
        <2> QED
            BY <1>1, <2>3, <2>4, EventsDiffer DEF IInv, Pipes, ResumeOnItsWay, HoldsResume
    <1>2. IInv(h) => HookHasLastWord
        BY <1>1 DEF IInv, Awaited, HookHasLastWord, Continued
    <1> QED
        BY <1>2, Invariance, PTL
================================================================================
