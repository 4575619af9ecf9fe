----------------------------- MODULE HandoffProofs ------------------------------
(***************************************************************************)
(* What holds of Handoff.tla for every set of threads and of hook threads  *)
(* and every number of stops and transfers: a Rust stop is continued       *)
(* unseen only for a transfer that is under way, after a step from Python  *)
(* into Rust the next stop the editor sees is a Rust one, and a transfer   *)
(* pauses debugpy only when an earlier resume is over.                     *)
(***************************************************************************)
EXTENDS Handoff, TLAPS

\* After a stepIn the stops of debugpy are resumed unseen.
StepInSuppresses == stepIn => suppress

\* A stop that is being resolved has the thread that resolves it.
ResolvingHasResolver == resolving => resolver # "none"

\* The transfer of thread t has still to queue its script, or the script, the
\* stop it runs into, or the search for the frame has still to come to its end.
Prepares(h, t) == call[h].pc \in {"arm", "queue"} /\ call[h].thread = t

ToCome(t) == script[t] # NoScript \/ "stopped" \in Range(pwire) \/ resolver # "none"

Justified ==
    \A t \in handoffs : (\E h \in Hooks : Prepares(h, t)) \/ ToCome(t) \/ "frame" \in failures \/ suppress

IInv ==
    /\ TypeOK
    /\ StepInSuppresses
    /\ ResolvingHasResolver
    /\ Justified

--------------------------------------------------------------------------------
\* The events of a connection: a queue of stops and resumes.
Names == {"stopped", "continued"}

LEMMA RangeAppend ==
    ASSUME NEW s \in Seq(Names), NEW e \in Names
    PROVE  Append(s, e) \in Seq(Names) /\ Range(Append(s, e)) = Range(s) \cup {e}
    <1>1. /\ Append(s, e) \in Seq(Names)
          /\ Len(Append(s, e)) = Len(s) + 1
          /\ DOMAIN Append(s, e) = 1..(Len(s) + 1)
          /\ DOMAIN s = 1..Len(s)
          /\ \A i \in 1..Len(s) : Append(s, e)[i] = s[i]
          /\ Append(s, e)[Len(s) + 1] = e
        OBVIOUS
    <1>2. Range(s) \cup {e} \subseteq Range(Append(s, e))
        BY <1>1 DEF Range
    <1>3. Range(Append(s, e)) \subseteq Range(s) \cup {e}
        BY <1>1 DEF Range
    <1> QED
        BY <1>1, <1>2, <1>3

LEMMA RangeTail ==
    ASSUME NEW s \in Seq(Names), s # <<>>
    PROVE  /\ Tail(s) \in Seq(Names)
           /\ Head(s) \in Names
           /\ Range(s) = Range(Tail(s)) \cup {Head(s)}
    <1>1. /\ Tail(s) \in Seq(Names)
          /\ Head(s) = s[1] /\ Head(s) \in Names
          /\ Len(s) \in Nat \ {0} /\ Len(Tail(s)) = Len(s) - 1
          /\ DOMAIN s = 1..Len(s) /\ DOMAIN Tail(s) = 1..(Len(s) - 1)
          /\ \A i \in 1..(Len(s) - 1) : Tail(s)[i] = s[i + 1]
        OBVIOUS
    <1>2. Range(Tail(s)) \cup {Head(s)} \subseteq Range(s)
        BY <1>1 DEF Range
    <1>3. ASSUME NEW i \in 1..Len(s)
          PROVE  s[i] \in Range(Tail(s)) \cup {Head(s)}
        <2>1. CASE i = 1
            BY <1>1, <2>1
        <2>2. CASE i # 1
            <3>1. i - 1 \in 1..(Len(s) - 1) /\ Tail(s)[i - 1] = s[i]
                BY <1>1, <2>2
            <3> QED
                BY <1>1, <3>1 DEF Range
        <2> QED
            BY <2>1, <2>2
    <1> QED
        BY <1>1, <1>2, <1>3 DEF Range

LEMMA InitInv == Init => IInv
    <1> SUFFICES ASSUME Init
                 PROVE  IInv
        OBVIOUS
    <1>1. TypeOK
        <2>1. call \in [Hooks -> [pc : {"idle", "arm", "queue", "continue", "continued"},
                                  thread : Threads \cup {None}]]
            BY DEF Init, Idle
        <2>2. /\ script \in [Threads -> [queued : BOOLEAN, running : Nat]]
              /\ waiter \in [Transfers -> {"none", "settle", "enter", "pause"}]
            BY DEF Init, NoScript
        <2>3. /\ wire \in Seq({"stopped", "continued"})
              /\ pwire \in Seq({"stopped", "continued"})
            BY DEF Init
        <2>4. /\ rust \in Threads \cup {None} /\ rstops \in 0..MaxRust /\ pstops \in 0..MaxPython
              /\ owner \in {"native", "python", None} /\ target \in Threads \cup {None}
              /\ transfers \in 0..MaxTransfers
            BY HandoffAssumption DEF Init
        <2> QED
            BY <2>1, <2>2, <2>3, <2>4 DEF Init, TypeOK
    <1>2. StepInSuppresses /\ ResolvingHasResolver /\ Justified
        BY DEF Init, StepInSuppresses, ResolvingHasResolver, Justified
    <1> QED
        BY <1>1, <1>2 DEF IInv

--------------------------------------------------------------------------------
\* The engines and the script.
LEMMA RustStopsInv ==
    ASSUME IInv, NEW t \in Threads, RustStops(t)
    PROVE  IInv'
    <1>1. TypeOK'
        BY HandoffAssumption, RangeAppend, RangeTail DEF IInv, TypeOK,
           Transfers, Names, RustStops, rendez, hooks, manager, threads, editor
    <1>2. StepInSuppresses'
        BY DEF IInv, StepInSuppresses, RustStops, rendez, hooks, manager,
           threads, editor
    <1>3. ResolvingHasResolver'
        BY DEF IInv, ResolvingHasResolver, TypeOK, RustStops, rendez, hooks,
           manager, threads, editor
    <1>4. Justified'
        BY RangeAppend, RangeTail DEF IInv, TypeOK, Justified, Prepares, ToCome,
           Names, RustStops, rendez, hooks, manager, threads, editor
    <1> QED
        BY <1>1, <1>2, <1>3, <1>4 DEF IInv

LEMMA ScriptEntersInv ==
    ASSUME IInv, NEW t \in Threads, ScriptEnters(t)
    PROVE  IInv'
    <1>1. TypeOK'
        BY HandoffAssumption DEF IInv, TypeOK, Transfers, ScriptEnters, engines,
           events, hooks, manager, threads, editor
    <1>2. StepInSuppresses'
        BY DEF IInv, StepInSuppresses, ScriptEnters, engines, events, hooks,
           manager, threads, editor
    <1>3. ResolvingHasResolver'
        BY DEF IInv, ResolvingHasResolver, TypeOK, ScriptEnters, engines,
           events, hooks, manager, threads, editor
    <1>4. Justified'
        BY DEF NoScript, IInv, TypeOK, Justified, Prepares, ToCome, ScriptEnters, engines,
           events, hooks, manager, threads, editor
    <1> QED
        BY <1>1, <1>2, <1>3, <1>4 DEF IInv

LEMMA ScriptBreaksInv ==
    ASSUME IInv, NEW t \in Threads, ScriptBreaks(t)
    PROVE  IInv'
    <1>1. TypeOK'
        <2>1. script[t].running - 1 \in Nat /\ DebugpyStops
            BY DEF IInv, TypeOK, ScriptBreaks
        <2>2. script' \in [Threads -> [queued : BOOLEAN, running : Nat]]
            BY <2>1 DEF IInv, TypeOK, ScriptBreaks
        <2> QED
          BY <2>1, <2>2, HandoffAssumption, RangeAppend, RangeTail DEF IInv, TypeOK,
           Transfers, Names, ScriptBreaks, hooks, manager, threads, editor,
           DebugpyStops
    <1>2. StepInSuppresses'
        BY DEF IInv, StepInSuppresses, ScriptBreaks, hooks, manager, threads,
           editor, DebugpyStops
    <1>3. ResolvingHasResolver'
        BY DEF IInv, ResolvingHasResolver, TypeOK, ScriptBreaks, hooks, manager,
           threads, editor, DebugpyStops
    <1>4. Justified'
        BY RangeAppend, RangeTail DEF IInv, TypeOK, Justified, Prepares, ToCome,
           Names, ScriptBreaks, hooks, manager, threads, editor, DebugpyStops
    <1> QED
        BY <1>1, <1>2, <1>3, <1>4 DEF IInv

LEMMA PythonBreaksInv ==
    ASSUME IInv, PythonBreaks
    PROVE  IInv'
    <1>1. TypeOK'
        BY HandoffAssumption, RangeAppend, RangeTail DEF IInv, TypeOK,
           Transfers, Names, PythonBreaks, rendez, hooks, manager, threads,
           editor, DebugpyStops
    <1>2. StepInSuppresses'
        BY DEF IInv, StepInSuppresses, PythonBreaks, rendez, hooks, manager,
           threads, editor, DebugpyStops
    <1>3. ResolvingHasResolver'
        BY DEF IInv, ResolvingHasResolver, TypeOK, PythonBreaks, rendez, hooks,
           manager, threads, editor, DebugpyStops
    <1>4. Justified'
        BY RangeAppend, RangeTail DEF IInv, TypeOK, Justified, Prepares, ToCome,
           Names, PythonBreaks, rendez, hooks, manager, threads, editor,
           DebugpyStops
    <1> QED
        BY <1>1, <1>2, <1>3, <1>4 DEF IInv

LEMMA DebugpyPausesInv ==
    ASSUME IInv, DebugpyPauses
    PROVE  IInv'
    <1>1. TypeOK'
        <2>1. /\ rust' \in Threads \cup {None}
              /\ rstops' \in 0..MaxRust
              /\ pstops' \in 0..MaxPython
              /\ script' \in [Threads -> [queued : BOOLEAN, running : Nat]]
              /\ entered' \in BOOLEAN
              /\ wire' \in Seq({"stopped", "continued"})
              /\ owner' \in {"native", "python", None}
              /\ handoffs' \subseteq Threads
              /\ stepIn' \in BOOLEAN
              /\ suppress' \in BOOLEAN
              /\ target' \in Threads \cup {None}
              /\ exposed' \in BOOLEAN
              /\ userResuming' \in BOOLEAN
              /\ resolving' \in BOOLEAN
              /\ resumeReady' \in BOOLEAN
              /\ waiter' \in [Transfers -> {"none", "settle", "enter", "pause"}]
              /\ resolver' \in {"none", "search", "expose", "emit"}
              /\ call' \in [Hooks -> [pc : {"idle", "arm", "queue", "continue", "continued"}, thread : Threads \cup {None}]]
              /\ transfers' \in 0..MaxTransfers
              /\ view' \subseteq {"native", "python"}
              /\ failures' \subseteq Failures
            BY HandoffAssumption, RangeAppend, RangeTail DEF IInv, TypeOK,
               Transfers, Names, DebugpyPauses, rendez, hooks, manager, threads,
               editor, DebugpyStops
        <2>2. /\ held' \in BOOLEAN
              /\ pausing' \in BOOLEAN
              /\ resuming' \in BOOLEAN
            BY Zenon DEF IInv, TypeOK, DebugpyPauses, rendez, hooks, manager,
               threads, editor, DebugpyStops
        <2>3. pwire' \in Seq({"stopped", "continued"})
            <3>1. CASE held
                BY <3>1, RangeAppend, RangeTail DEF IInv, TypeOK, Names, DebugpyPauses
            <3>2. CASE ~held
                BY <3>2, RangeAppend, RangeTail DEF IInv, TypeOK, Names, DebugpyPauses,
                   DebugpyStops
            <3> QED
                BY <3>1, <3>2 DEF DebugpyPauses
        <2> QED
            BY <2>1, <2>2, <2>3 DEF TypeOK
    <1>2. StepInSuppresses'
        BY DEF IInv, StepInSuppresses, DebugpyPauses, rendez, hooks, manager,
           threads, editor, DebugpyStops
    <1>3. ResolvingHasResolver'
        BY DEF IInv, ResolvingHasResolver, TypeOK, DebugpyPauses, rendez, hooks,
           manager, threads, editor, DebugpyStops
    <1>4. Justified'
        <2>1. Range(pwire) \subseteq Range(pwire')
            BY RangeAppend DEF IInv, TypeOK, Names, DebugpyPauses, DebugpyStops
        <2>2. UNCHANGED <<handoffs, call, script, resolver, failures, suppress>>
            BY DEF DebugpyPauses, rendez, hooks, threads, editor
        <2> QED
            BY <2>1, <2>2 DEF IInv, Justified, Prepares, ToCome
    <1> QED
        BY <1>1, <1>2, <1>3, <1>4 DEF IInv

LEMMA DebugpyResumesInv ==
    ASSUME IInv, DebugpyResumes
    PROVE  IInv'
    <1>1. TypeOK'
        <2>1. /\ rust' \in Threads \cup {None}
              /\ rstops' \in 0..MaxRust
              /\ pstops' \in 0..MaxPython
              /\ script' \in [Threads -> [queued : BOOLEAN, running : Nat]]
              /\ entered' \in BOOLEAN
              /\ wire' \in Seq({"stopped", "continued"})
              /\ pwire' \in Seq({"stopped", "continued"})
              /\ owner' \in {"native", "python", None}
              /\ handoffs' \subseteq Threads
              /\ stepIn' \in BOOLEAN
              /\ suppress' \in BOOLEAN
              /\ target' \in Threads \cup {None}
              /\ exposed' \in BOOLEAN
              /\ userResuming' \in BOOLEAN
              /\ resolving' \in BOOLEAN
              /\ resumeReady' \in BOOLEAN
              /\ waiter' \in [Transfers -> {"none", "settle", "enter", "pause"}]
              /\ resolver' \in {"none", "search", "expose", "emit"}
              /\ call' \in [Hooks -> [pc : {"idle", "arm", "queue", "continue", "continued"}, thread : Threads \cup {None}]]
              /\ transfers' \in 0..MaxTransfers
              /\ view' \subseteq {"native", "python"}
              /\ failures' \subseteq Failures
            BY HandoffAssumption, RangeAppend, RangeTail DEF IInv, TypeOK,
               Transfers, Names, DebugpyResumes, rendez, hooks, manager, threads,
               editor
        <2>2. /\ held' \in BOOLEAN
              /\ pausing' \in BOOLEAN
              /\ resuming' \in BOOLEAN
            BY Zenon DEF IInv, TypeOK, DebugpyResumes, rendez, hooks, manager,
               threads, editor
        <2> QED
            BY <2>1, <2>2 DEF TypeOK
    <1>2. StepInSuppresses'
        BY DEF IInv, StepInSuppresses, DebugpyResumes, rendez, hooks, manager,
           threads, editor
    <1>3. ResolvingHasResolver'
        BY DEF IInv, ResolvingHasResolver, TypeOK, DebugpyResumes, rendez,
           hooks, manager, threads, editor
    <1>4. Justified'
        BY RangeAppend, RangeTail DEF IInv, TypeOK, Justified, Prepares, ToCome,
           Names, DebugpyResumes, rendez, hooks, manager, threads, editor
    <1> QED
        BY <1>1, <1>2, <1>3, <1>4 DEF IInv

--------------------------------------------------------------------------------
\* CodeLLDB's and debugpy's events.
LEMMA OnStoppedInv ==
    ASSUME IInv, OnStopped
    PROVE  IInv'
    <1>1. TypeOK'
        <2>1. /\ rust' \in Threads \cup {None}
              /\ rstops' \in 0..MaxRust
              /\ pstops' \in 0..MaxPython
              /\ held' \in BOOLEAN
              /\ pausing' \in BOOLEAN
              /\ resuming' \in BOOLEAN
              /\ script' \in [Threads -> [queued : BOOLEAN, running : Nat]]
              /\ entered' \in BOOLEAN
              /\ pwire' \in Seq({"stopped", "continued"})
              /\ owner' \in {"native", "python", None}
              /\ handoffs' \subseteq Threads
              /\ target' \in Threads \cup {None}
              /\ exposed' \in BOOLEAN
              /\ userResuming' \in BOOLEAN
              /\ resolving' \in BOOLEAN
              /\ resumeReady' \in BOOLEAN
              /\ waiter' \in [Transfers -> {"none", "settle", "enter", "pause"}]
              /\ resolver' \in {"none", "search", "expose", "emit"}
              /\ call' \in [Hooks -> [pc : {"idle", "arm", "queue", "continue", "continued"}, thread : Threads \cup {None}]]
              /\ transfers' \in 0..MaxTransfers
            BY HandoffAssumption, RangeAppend, RangeTail DEF IInv, TypeOK,
               Transfers, Names, OnStopped, rendez, manager, threads, ShowRustStep,
               Acquire, ContinueUnseen, Release, ShowRustStop
        <2>2. /\ stepIn' \in BOOLEAN
              /\ suppress' \in BOOLEAN
              /\ view' \subseteq {"native", "python"}
              /\ failures' \subseteq Failures
            BY DEF Failures, IInv, TypeOK, OnStopped, rendez, manager, threads,
               ShowRustStep, Acquire, ContinueUnseen, Release, ShowRustStop
        <2>3. wire' \in Seq({"stopped", "continued"})
            <3>1. CASE ShowRustStep
                BY <3>1, RangeAppend, RangeTail DEF IInv, TypeOK, Names, OnStopped,
                   ShowRustStep
            <3>2. CASE ContinueUnseen
                <4>1. Tail(wire) \in Seq(Names) /\ "continued" \in Names
                    BY RangeTail DEF IInv, TypeOK, Names, OnStopped
                <4>2. Append(Tail(wire), "continued") \in Seq(Names)
                    BY <4>1, RangeAppend
                <4>3. wire' \in {Tail(wire), Append(Tail(wire), "continued")}
                    BY <3>2 DEF ContinueUnseen
                <4> QED
                    BY <4>1, <4>2, <4>3 DEF Names
            <3>3. CASE ShowRustStop
                BY <3>3, RangeAppend, RangeTail DEF IInv, TypeOK, Names, OnStopped,
                   ShowRustStop
            <3> QED
                BY <3>1, <3>2, <3>3 DEF OnStopped
        <2> QED
            BY <2>1, <2>2, <2>3 DEF TypeOK
    <1>2. StepInSuppresses'
        BY DEF IInv, StepInSuppresses, OnStopped, rendez, manager, threads,
           ShowRustStep, Acquire, ContinueUnseen, Release, ShowRustStop
    <1>3. ResolvingHasResolver'
        BY DEF IInv, ResolvingHasResolver, TypeOK, OnStopped, rendez, manager,
           threads, ShowRustStep, Acquire, ContinueUnseen, Release, ShowRustStop
    <1>4. Justified'
        BY RangeAppend, RangeTail DEF IInv, TypeOK, Justified, Prepares, ToCome,
           Names, OnStopped, rendez, manager, threads, ShowRustStep, Acquire,
           ContinueUnseen, Release, ShowRustStop
    <1> QED
        BY <1>1, <1>2, <1>3, <1>4 DEF IInv

LEMMA OnContinuedInv ==
    ASSUME IInv, OnContinued
    PROVE  IInv'
    <1>1. TypeOK'
        BY HandoffAssumption, RangeAppend, RangeTail DEF IInv, TypeOK,
           Transfers, Names, OnContinued, engines, rendez, hooks, manager,
           threads, Release, Acquire
    <1>2. StepInSuppresses'
        BY DEF IInv, StepInSuppresses, OnContinued, engines, rendez, hooks,
           manager, threads, Release, Acquire
    <1>3. ResolvingHasResolver'
        BY DEF IInv, ResolvingHasResolver, TypeOK, OnContinued, engines, rendez,
           hooks, manager, threads, Release, Acquire
    <1>4. Justified'
        BY RangeAppend, RangeTail DEF IInv, TypeOK, Justified, Prepares, ToCome,
           Names, OnContinued, engines, rendez, hooks, manager, threads,
           Release, Acquire
    <1> QED
        BY <1>1, <1>2, <1>3, <1>4 DEF IInv

LEMMA TargetedStopInv ==
    ASSUME IInv, TargetedStop
    PROVE  IInv'
    <1>1. TypeOK'
        BY HandoffAssumption, RangeAppend, RangeTail DEF IInv, TypeOK,
           Transfers, Names, TargetedStop, engines, rendez, hooks, editor
    <1>2. StepInSuppresses'
        BY DEF IInv, StepInSuppresses, TargetedStop, engines, rendez, hooks,
           editor
    <1>3. ResolvingHasResolver'
        BY DEF IInv, ResolvingHasResolver, TypeOK, TargetedStop, engines,
           rendez, hooks, editor
    <1>4. Justified'
        BY RangeAppend, RangeTail DEF IInv, TypeOK, Justified, Prepares, ToCome,
           ResolvingHasResolver,
           Names, TargetedStop, engines, rendez, hooks, editor
    <1> QED
        BY <1>1, <1>2, <1>3, <1>4 DEF IInv

LEMMA PlainStopInv ==
    ASSUME IInv, PlainStop
    PROVE  IInv'
    <1>1. TypeOK'
        <2>1. /\ rust' \in Threads \cup {None}
              /\ rstops' \in 0..MaxRust
              /\ pstops' \in 0..MaxPython
              /\ held' \in BOOLEAN
              /\ pausing' \in BOOLEAN
              /\ resuming' \in BOOLEAN
              /\ wire' \in Seq({"stopped", "continued"})
              /\ pwire' \in Seq({"stopped", "continued"})
              /\ owner' \in {"native", "python", None}
              /\ handoffs' \subseteq Threads
              /\ stepIn' \in BOOLEAN
              /\ suppress' \in BOOLEAN
              /\ target' \in Threads \cup {None}
              /\ waiter' \in [Transfers -> {"none", "settle", "enter", "pause"}]
              /\ resolver' \in {"none", "search", "expose", "emit"}
              /\ call' \in [Hooks -> [pc : {"idle", "arm", "queue", "continue", "continued"}, thread : Threads \cup {None}]]
              /\ transfers' \in 0..MaxTransfers
            BY HandoffAssumption, RangeAppend, RangeTail DEF IInv, TypeOK,
               Transfers, Names, PlainStop, threads, Acquire, EmitStopped,
               ResumeThread
        <2>2. /\ script' \in [Threads -> [queued : BOOLEAN, running : Nat]]
              /\ entered' \in BOOLEAN
              /\ exposed' \in BOOLEAN
              /\ userResuming' \in BOOLEAN
              /\ resolving' \in BOOLEAN
              /\ resumeReady' \in BOOLEAN
              /\ view' \subseteq {"native", "python"}
              /\ failures' \subseteq Failures
            BY Zenon DEF IInv, TypeOK, PlainStop, threads, Acquire, EmitStopped,
               ResumeThread
        <2> QED
            BY <2>1, <2>2 DEF TypeOK
    <1>2. StepInSuppresses'
        BY DEF IInv, StepInSuppresses, PlainStop, threads, Acquire, EmitStopped,
           ResumeThread
    <1>3. ResolvingHasResolver'
        BY DEF IInv, ResolvingHasResolver, TypeOK, PlainStop, threads, Acquire,
           EmitStopped, ResumeThread
    <1>4. Justified'
        BY RangeAppend, RangeTail DEF IInv, TypeOK, Justified, Prepares, ToCome,
           Names, PlainStop, threads, Acquire, EmitStopped, ResumeThread
    <1> QED
        BY <1>1, <1>2, <1>3, <1>4 DEF IInv

LEMMA ResumedInv ==
    ASSUME IInv, Resumed
    PROVE  IInv'
    <1>1. TypeOK'
        <2>1. /\ rust' \in Threads \cup {None}
              /\ rstops' \in 0..MaxRust
              /\ pstops' \in 0..MaxPython
              /\ held' \in BOOLEAN
              /\ pausing' \in BOOLEAN
              /\ resuming' \in BOOLEAN
              /\ script' \in [Threads -> [queued : BOOLEAN, running : Nat]]
              /\ entered' \in BOOLEAN
              /\ wire' \in Seq({"stopped", "continued"})
              /\ pwire' \in Seq({"stopped", "continued"})
              /\ owner' \in {"native", "python", None}
              /\ handoffs' \subseteq Threads
              /\ stepIn' \in BOOLEAN
              /\ suppress' \in BOOLEAN
              /\ target' \in Threads \cup {None}
              /\ waiter' \in [Transfers -> {"none", "settle", "enter", "pause"}]
              /\ resolver' \in {"none", "search", "expose", "emit"}
              /\ call' \in [Hooks -> [pc : {"idle", "arm", "queue", "continue", "continued"}, thread : Threads \cup {None}]]
              /\ transfers' \in 0..MaxTransfers
              /\ view' \subseteq {"native", "python"}
              /\ failures' \subseteq Failures
            BY HandoffAssumption, RangeAppend, RangeTail DEF IInv, TypeOK,
               Transfers, Names, Resumed, engines, rendez, hooks, threads, Release,
               Acquire
        <2>2. /\ exposed' \in BOOLEAN
              /\ userResuming' \in BOOLEAN
              /\ resolving' \in BOOLEAN
              /\ resumeReady' \in BOOLEAN
            BY Zenon DEF IInv, TypeOK, Resumed, engines, rendez, hooks, threads,
               Release, Acquire
        <2> QED
            BY <2>1, <2>2 DEF TypeOK
    <1>2. StepInSuppresses'
        BY DEF IInv, StepInSuppresses, Resumed, engines, rendez, hooks, threads,
           Release, Acquire
    <1>3. ResolvingHasResolver'
        BY DEF IInv, ResolvingHasResolver, TypeOK, Resumed, engines, rendez,
           hooks, threads, Release, Acquire
    <1>4. Justified'
        BY RangeAppend, RangeTail DEF IInv, TypeOK, Justified, Prepares, ToCome,
           Names, Resumed, engines, rendez, hooks, threads, Release, Acquire
    <1> QED
        BY <1>1, <1>2, <1>3, <1>4 DEF IInv

--------------------------------------------------------------------------------
\* The search for the selected frame.
LEMMA ResolverFindsInv ==
    ASSUME IInv, ResolverFinds
    PROVE  IInv'
    <1>1. TypeOK'
        BY HandoffAssumption DEF IInv, TypeOK, Transfers, ResolverFinds,
           engines, rendez, events, hooks, manager, editor, Acquire
    <1>2. StepInSuppresses'
        BY DEF IInv, StepInSuppresses, ResolverFinds, engines, rendez, events,
           hooks, manager, editor, Acquire
    <1>3. ResolvingHasResolver'
        BY DEF IInv, ResolvingHasResolver, TypeOK, ResolverFinds, engines,
           rendez, events, hooks, manager, editor, Acquire
    <1>4. Justified'
        BY DEF IInv, TypeOK, Justified, Prepares, ToCome, ResolverFinds,
           engines, rendez, events, hooks, manager, editor, Acquire
    <1> QED
        BY <1>1, <1>2, <1>3, <1>4 DEF IInv

LEMMA ResolverGivesUpInv ==
    ASSUME IInv, ResolverGivesUp
    PROVE  IInv'
    <1>1. TypeOK'
        <2>1. /\ rust' \in Threads \cup {None}
              /\ rstops' \in 0..MaxRust
              /\ pstops' \in 0..MaxPython
              /\ held' \in BOOLEAN
              /\ pausing' \in BOOLEAN
              /\ resuming' \in BOOLEAN
              /\ script' \in [Threads -> [queued : BOOLEAN, running : Nat]]
              /\ entered' \in BOOLEAN
              /\ wire' \in Seq({"stopped", "continued"})
              /\ pwire' \in Seq({"stopped", "continued"})
              /\ owner' \in {"native", "python", None}
              /\ handoffs' \subseteq Threads
              /\ stepIn' \in BOOLEAN
              /\ suppress' \in BOOLEAN
              /\ target' \in Threads \cup {None}
              /\ waiter' \in [Transfers -> {"none", "settle", "enter", "pause"}]
              /\ resolver' \in {"none", "search", "expose", "emit"}
              /\ call' \in [Hooks -> [pc : {"idle", "arm", "queue", "continue", "continued"}, thread : Threads \cup {None}]]
              /\ transfers' \in 0..MaxTransfers
              /\ view' \subseteq {"native", "python"}
              /\ failures' \subseteq Failures
            BY HandoffAssumption DEF IInv, TypeOK, Transfers, ResolverGivesUp,
               engines, rendez, events, hooks, Failures
        <2>2. /\ exposed' \in BOOLEAN
              /\ userResuming' \in BOOLEAN
              /\ resolving' \in BOOLEAN
              /\ resumeReady' \in BOOLEAN
            BY Zenon DEF IInv, TypeOK, ResolverGivesUp, engines, rendez, events,
               hooks
        <2> QED
            BY <2>1, <2>2 DEF TypeOK
    <1>2. StepInSuppresses'
        BY DEF IInv, StepInSuppresses, ResolverGivesUp, engines, rendez, events,
           hooks
    <1>3. ResolvingHasResolver'
        BY DEF IInv, ResolvingHasResolver, TypeOK, ResolverGivesUp, engines,
           rendez, events, hooks
    <1>4. Justified'
        BY DEF IInv, TypeOK, Justified, Prepares, ToCome, ResolverGivesUp,
           engines, rendez, events, hooks
    <1> QED
        BY <1>1, <1>2, <1>3, <1>4 DEF IInv

LEMMA ResolverExposesInv ==
    ASSUME IInv, ResolverExposes
    PROVE  IInv'
    <1>1. TypeOK'
        BY HandoffAssumption DEF IInv, TypeOK, Transfers, ResolverExposes,
           engines, rendez, events, hooks, editor
    <1>2. StepInSuppresses'
        BY DEF IInv, StepInSuppresses, ResolverExposes, engines, rendez, events,
           hooks, editor
    <1>3. ResolvingHasResolver'
        BY DEF IInv, ResolvingHasResolver, TypeOK, ResolverExposes, engines,
           rendez, events, hooks, editor
    <1>4. Justified'
        BY DEF IInv, TypeOK, Justified, Prepares, ToCome, ResolverExposes,
           engines, rendez, events, hooks, editor
    <1> QED
        BY <1>1, <1>2, <1>3, <1>4 DEF IInv

LEMMA ResolverEmitsInv ==
    ASSUME IInv, ResolverEmits
    PROVE  IInv'
    <1>1. TypeOK'
        <2>1. /\ rust' \in Threads \cup {None}
              /\ rstops' \in 0..MaxRust
              /\ pstops' \in 0..MaxPython
              /\ held' \in BOOLEAN
              /\ pausing' \in BOOLEAN
              /\ resuming' \in BOOLEAN
              /\ script' \in [Threads -> [queued : BOOLEAN, running : Nat]]
              /\ entered' \in BOOLEAN
              /\ wire' \in Seq({"stopped", "continued"})
              /\ pwire' \in Seq({"stopped", "continued"})
              /\ owner' \in {"native", "python", None}
              /\ handoffs' \subseteq Threads
              /\ stepIn' \in BOOLEAN
              /\ suppress' \in BOOLEAN
              /\ target' \in Threads \cup {None}
              /\ waiter' \in [Transfers -> {"none", "settle", "enter", "pause"}]
              /\ resolver' \in {"none", "search", "expose", "emit"}
              /\ call' \in [Hooks -> [pc : {"idle", "arm", "queue", "continue", "continued"}, thread : Threads \cup {None}]]
              /\ transfers' \in 0..MaxTransfers
            BY HandoffAssumption DEF IInv, TypeOK, Transfers, ResolverEmits, rendez,
               events, EmitStopped, ResumeThread
        <2>2. /\ exposed' \in BOOLEAN
              /\ userResuming' \in BOOLEAN
              /\ resolving' \in BOOLEAN
              /\ resumeReady' \in BOOLEAN
              /\ view' \subseteq {"native", "python"}
              /\ failures' \subseteq Failures
            BY Zenon DEF IInv, TypeOK, ResolverEmits, rendez, events, EmitStopped,
               ResumeThread
        <2> QED
            BY <2>1, <2>2 DEF TypeOK
    <1>2. StepInSuppresses'
        BY DEF IInv, StepInSuppresses, ResolverEmits, rendez, events,
           EmitStopped, ResumeThread
    <1>3. ResolvingHasResolver'
        BY DEF IInv, ResolvingHasResolver, TypeOK, ResolverEmits, rendez,
           events, EmitStopped, ResumeThread
    <1>4. Justified'
        BY DEF IInv, TypeOK, Justified, Prepares, ToCome, ResolverEmits, rendez,
           events, EmitStopped, ResumeThread
    <1> QED
        BY <1>1, <1>2, <1>3, <1>4 DEF IInv

--------------------------------------------------------------------------------
\* The thread that queues the pause.
LEMMA AwaitResumeInv ==
    ASSUME IInv, NEW n \in Transfers, AwaitResume(n)
    PROVE  IInv'
    <1>1. TypeOK'
        <2>1. /\ waiter' \in [Transfers -> {"none", "settle", "enter", "pause"}]
              /\ failures' \subseteq Failures
            BY DEF IInv, TypeOK, AwaitResume, Await, Failures
        <2> QED
            BY <2>1 DEF IInv, TypeOK, AwaitResume, Await, engines, rendez, events, hooks,
               manager
    <1>2. StepInSuppresses'
        BY DEF IInv, StepInSuppresses, AwaitResume, Await, engines, rendez,
           events, hooks, manager, editor
    <1>3. ResolvingHasResolver'
        BY DEF IInv, ResolvingHasResolver, TypeOK, AwaitResume, Await, engines,
           rendez, events, hooks, manager, editor
    <1>4. Justified'
        <2>1. /\ failures \subseteq failures'
              /\ UNCHANGED <<handoffs, call, script, pwire, resolver, suppress>>
            BY DEF AwaitResume, Await, engines, rendez, events, hooks, manager
        <2> QED
            BY <2>1 DEF IInv, Justified, Prepares, ToCome
    <1> QED
        BY <1>1, <1>2, <1>3, <1>4 DEF IInv

LEMMA AwaitEnteredInv ==
    ASSUME IInv, NEW n \in Transfers, AwaitEntered(n)
    PROVE  IInv'
    <1>1. TypeOK'
        <2>1. /\ waiter' \in [Transfers -> {"none", "settle", "enter", "pause"}]
              /\ failures' \subseteq Failures
            BY DEF IInv, TypeOK, AwaitEntered, Await, Failures
        <2> QED
            BY <2>1 DEF IInv, TypeOK, AwaitEntered, Await, engines, rendez, events, hooks,
               manager
    <1>2. StepInSuppresses'
        BY DEF IInv, StepInSuppresses, AwaitEntered, Await, engines, rendez,
           events, hooks, manager, editor
    <1>3. ResolvingHasResolver'
        BY DEF IInv, ResolvingHasResolver, TypeOK, AwaitEntered, Await, engines,
           rendez, events, hooks, manager, editor
    <1>4. Justified'
        <2>1. /\ failures \subseteq failures'
              /\ UNCHANGED <<handoffs, call, script, pwire, resolver, suppress>>
            BY DEF AwaitEntered, Await, engines, rendez, events, hooks, manager
        <2> QED
            BY <2>1 DEF IInv, Justified, Prepares, ToCome
    <1> QED
        BY <1>1, <1>2, <1>3, <1>4 DEF IInv

LEMMA QueuePauseInv ==
    ASSUME IInv, NEW n \in Transfers, QueuePause(n)
    PROVE  IInv'
    <1>1. TypeOK'
        BY HandoffAssumption DEF IInv, TypeOK, Transfers, QueuePause, rendez,
           events, hooks, manager, editor
    <1>2. StepInSuppresses'
        BY DEF IInv, StepInSuppresses, QueuePause, rendez, events, hooks,
           manager, editor
    <1>3. ResolvingHasResolver'
        BY DEF IInv, ResolvingHasResolver, TypeOK, QueuePause, rendez, events,
           hooks, manager, editor
    <1>4. Justified'
        BY DEF IInv, TypeOK, Justified, Prepares, ToCome, QueuePause, rendez,
           events, hooks, manager, editor
    <1> QED
        BY <1>1, <1>2, <1>3, <1>4 DEF IInv

--------------------------------------------------------------------------------
\* The editor's requests and what they do.
LEMMA SelectFrameInv ==
    ASSUME IInv, NEW h \in Hooks, NEW t \in Threads, SelectFrame(h, t)
    PROVE  IInv'
    <1>1. TypeOK'
        BY HandoffAssumption DEF IInv, TypeOK, Transfers, SelectFrame, engines,
           rendez, events, manager, editor, At, Goto, Done, Idle
    <1>2. StepInSuppresses'
        BY DEF IInv, StepInSuppresses, SelectFrame, engines, rendez, events,
           manager, editor, At, Goto, Done, Idle
    <1>3. ResolvingHasResolver'
        BY DEF IInv, ResolvingHasResolver, TypeOK, SelectFrame, engines, rendez,
           events, manager, editor, At, Goto, Done, Idle
    <1>4. Justified'
        BY DEF IInv, TypeOK, Justified, Prepares, ToCome, SelectFrame, engines,
           rendez, events, manager, editor, At, Goto, Done, Idle
    <1> QED
        BY <1>1, <1>2, <1>3, <1>4 DEF IInv

LEMMA ContinueRustInv ==
    ASSUME IInv, NEW h \in Hooks, ContinueRust(h)
    PROVE  IInv'
    <1>1. TypeOK'
        <2>1. /\ rust' \in Threads \cup {None}
              /\ rstops' \in 0..MaxRust
              /\ pstops' \in 0..MaxPython
              /\ held' \in BOOLEAN
              /\ pausing' \in BOOLEAN
              /\ resuming' \in BOOLEAN
              /\ script' \in [Threads -> [queued : BOOLEAN, running : Nat]]
              /\ entered' \in BOOLEAN
              /\ wire' \in Seq({"stopped", "continued"})
              /\ pwire' \in Seq({"stopped", "continued"})
              /\ owner' \in {"native", "python", None}
              /\ handoffs' \subseteq Threads
              /\ stepIn' \in BOOLEAN
              /\ suppress' \in BOOLEAN
              /\ target' \in Threads \cup {None}
              /\ exposed' \in BOOLEAN
              /\ userResuming' \in BOOLEAN
              /\ resolving' \in BOOLEAN
              /\ resumeReady' \in BOOLEAN
              /\ waiter' \in [Transfers -> {"none", "settle", "enter", "pause"}]
              /\ resolver' \in {"none", "search", "expose", "emit"}
              /\ transfers' \in 0..MaxTransfers
              /\ view' \subseteq {"native", "python"}
              /\ failures' \subseteq Failures
            BY HandoffAssumption, RangeAppend, RangeTail DEF IInv, TypeOK,
               Transfers, Names, ContinueRust, rendez, hooks, manager,
               NativeResumes, At, Goto, Done, Idle
        <2>2. call' \in [Hooks -> [pc : {"idle", "arm", "queue", "continue", "continued"}, thread : Threads \cup {None}]]
            BY Zenon DEF IInv, TypeOK, ContinueRust, rendez, hooks, manager,
               NativeResumes, At, Goto, Done, Idle
        <2> QED
            BY <2>1, <2>2 DEF TypeOK
    <1>2. StepInSuppresses'
        BY DEF IInv, StepInSuppresses, ContinueRust, rendez, hooks, manager,
           NativeResumes, At, Goto, Done, Idle
    <1>3. ResolvingHasResolver'
        BY DEF IInv, ResolvingHasResolver, TypeOK, ContinueRust, rendez, hooks,
           manager, NativeResumes, At, Goto, Done, Idle
    <1>4. Justified'
        BY RangeAppend, RangeTail DEF IInv, TypeOK, Justified, Prepares, ToCome,
           Names, ContinueRust, rendez, hooks, manager, NativeResumes, At, Goto,
           Done, Idle
    <1> QED
        BY <1>1, <1>2, <1>3, <1>4 DEF IInv

LEMMA ContinuePythonInv ==
    ASSUME IInv, NEW h \in Hooks, ContinuePython(h)
    PROVE  IInv'
    <1>1. TypeOK'
        <2>1. /\ rust' \in Threads \cup {None}
              /\ rstops' \in 0..MaxRust
              /\ pstops' \in 0..MaxPython
              /\ held' \in BOOLEAN
              /\ pausing' \in BOOLEAN
              /\ resuming' \in BOOLEAN
              /\ script' \in [Threads -> [queued : BOOLEAN, running : Nat]]
              /\ entered' \in BOOLEAN
              /\ wire' \in Seq({"stopped", "continued"})
              /\ pwire' \in Seq({"stopped", "continued"})
              /\ owner' \in {"native", "python", None}
              /\ handoffs' \subseteq Threads
              /\ stepIn' \in BOOLEAN
              /\ suppress' \in BOOLEAN
              /\ target' \in Threads \cup {None}
              /\ waiter' \in [Transfers -> {"none", "settle", "enter", "pause"}]
              /\ resolver' \in {"none", "search", "expose", "emit"}
              /\ call' \in [Hooks -> [pc : {"idle", "arm", "queue", "continue", "continued"}, thread : Threads \cup {None}]]
              /\ transfers' \in 0..MaxTransfers
              /\ view' \subseteq {"native", "python"}
              /\ failures' \subseteq Failures
            BY HandoffAssumption DEF IInv, TypeOK, Transfers, ContinuePython,
               rendez, events, hooks, threads, ResumeThread, At, Goto, Done, Idle
        <2>2. /\ exposed' \in BOOLEAN
              /\ userResuming' \in BOOLEAN
              /\ resolving' \in BOOLEAN
              /\ resumeReady' \in BOOLEAN
            BY Zenon DEF IInv, TypeOK, ContinuePython, rendez, events, hooks,
               threads, ResumeThread, At, Goto, Done, Idle
        <2> QED
            BY <2>1, <2>2 DEF TypeOK
    <1>2. StepInSuppresses'
        BY DEF IInv, StepInSuppresses, ContinuePython, rendez, events, hooks,
           threads, ResumeThread, At, Goto, Done, Idle
    <1>3. ResolvingHasResolver'
        BY DEF IInv, ResolvingHasResolver, TypeOK, ContinuePython, rendez,
           events, hooks, threads, ResumeThread, At, Goto, Done, Idle
    <1>4. Justified'
        BY DEF IInv, TypeOK, Justified, Prepares, ToCome, ContinuePython,
           rendez, events, hooks, threads, ResumeThread, At, Goto, Done, Idle
    <1> QED
        BY <1>1, <1>2, <1>3, <1>4 DEF IInv

LEMMA StepIntoRustInv ==
    ASSUME IInv, NEW h \in Hooks, StepIntoRust(h)
    PROVE  IInv'
    <1>1. TypeOK'
        BY HandoffAssumption DEF IInv, TypeOK, Transfers, StepIntoRust, rendez,
           events, threads, ResumeThread, At, Goto, Done, Idle
    <1>2. StepInSuppresses'
        BY DEF IInv, StepInSuppresses, StepIntoRust, rendez, events, threads,
           ResumeThread, At, Goto, Done, Idle
    <1>3. ResolvingHasResolver'
        BY DEF IInv, ResolvingHasResolver, TypeOK, StepIntoRust, rendez, events,
           threads, ResumeThread, At, Goto, Done, Idle
    <1>4. Justified'
        BY DEF IInv, TypeOK, Justified, Prepares, ToCome, StepIntoRust, rendez,
           events, threads, ResumeThread, At, Goto, Done, Idle
    <1> QED
        BY <1>1, <1>2, <1>3, <1>4 DEF IInv

LEMMA ArmInv ==
    ASSUME IInv, NEW h \in Hooks, Arm(h)
    PROVE  IInv'
    <1>1. TypeOK'
        <2>1. /\ rust' \in Threads \cup {None}
              /\ rstops' \in 0..MaxRust
              /\ pstops' \in 0..MaxPython
              /\ held' \in BOOLEAN
              /\ pausing' \in BOOLEAN
              /\ resuming' \in BOOLEAN
              /\ wire' \in Seq({"stopped", "continued"})
              /\ pwire' \in Seq({"stopped", "continued"})
              /\ owner' \in {"native", "python", None}
              /\ handoffs' \subseteq Threads
              /\ stepIn' \in BOOLEAN
              /\ suppress' \in BOOLEAN
              /\ target' \in Threads \cup {None}
              /\ waiter' \in [Transfers -> {"none", "settle", "enter", "pause"}]
              /\ resolver' \in {"none", "search", "expose", "emit"}
              /\ call' \in [Hooks -> [pc : {"idle", "arm", "queue", "continue", "continued"}, thread : Threads \cup {None}]]
              /\ transfers' \in 0..MaxTransfers
              /\ view' \subseteq {"native", "python"}
              /\ failures' \subseteq Failures
            BY HandoffAssumption DEF IInv, TypeOK, Transfers, Arm, engines, events,
               hooks, editor, At, Goto, Done, Idle
        <2>2. /\ script' \in [Threads -> [queued : BOOLEAN, running : Nat]]
              /\ entered' \in BOOLEAN
              /\ exposed' \in BOOLEAN
              /\ userResuming' \in BOOLEAN
              /\ resolving' \in BOOLEAN
              /\ resumeReady' \in BOOLEAN
            BY Zenon DEF IInv, TypeOK, Arm, engines, events, hooks, editor, At,
               Goto, Done, Idle
        <2> QED
            BY <2>1, <2>2 DEF TypeOK
    <1>2. StepInSuppresses'
        BY DEF IInv, StepInSuppresses, Arm, engines, events, hooks, editor, At,
           Goto, Done, Idle
    <1>3. ResolvingHasResolver'
        BY DEF IInv, ResolvingHasResolver, TypeOK, Arm, engines, events, hooks,
           editor, At, Goto, Done, Idle
    <1>4. Justified'
        BY DEF IInv, TypeOK, Justified, Prepares, ToCome, Arm, engines, events,
           hooks, editor, At, Goto, Done, Idle
    <1> QED
        BY <1>1, <1>2, <1>3, <1>4 DEF IInv

\* Adding a script or a waiting transfer keeps the types.
LEMMA QueuedScriptTyped ==
    ASSUME NEW s \in [Threads -> [queued : BOOLEAN, running : Nat]], NEW u
    PROVE  [s EXCEPT ![u].queued = TRUE] \in [Threads -> [queued : BOOLEAN, running : Nat]]
    OBVIOUS

LEMMA SettlingTyped ==
    ASSUME NEW w \in [Transfers -> {"none", "settle", "enter", "pause"}], NEW n
    PROVE  [w EXCEPT ![n] = "settle"] \in [Transfers -> {"none", "settle", "enter", "pause"}]
    OBVIOUS

LEMMA QueueScriptInv ==
    ASSUME IInv, NEW h \in Hooks, QueueScript(h)
    PROVE  IInv'
    <1>1. TypeOK'
        <2>1. /\ rust' \in Threads \cup {None}
              /\ rstops' \in 0..MaxRust
              /\ pstops' \in 0..MaxPython
              /\ held' \in BOOLEAN
              /\ pausing' \in BOOLEAN
              /\ resuming' \in BOOLEAN
              /\ wire' \in Seq({"stopped", "continued"})
              /\ pwire' \in Seq({"stopped", "continued"})
              /\ owner' \in {"native", "python", None}
              /\ handoffs' \subseteq Threads
              /\ stepIn' \in BOOLEAN
              /\ suppress' \in BOOLEAN
              /\ target' \in Threads \cup {None}
              /\ exposed' \in BOOLEAN
              /\ userResuming' \in BOOLEAN
              /\ resolving' \in BOOLEAN
              /\ resumeReady' \in BOOLEAN
              /\ resolver' \in {"none", "search", "expose", "emit"}
              /\ transfers' \in 0..MaxTransfers
              /\ view' \subseteq {"native", "python"}
              /\ failures' \subseteq Failures
            BY HandoffAssumption DEF IInv, TypeOK, Transfers, QueueScript, engines,
               events, manager, editor, Fails, Done, Idle, At, Goto
        <2>2. /\ script' \in [Threads -> [queued : BOOLEAN, running : Nat]]
              /\ entered' \in BOOLEAN
              /\ waiter' \in [Transfers -> {"none", "settle", "enter", "pause"}]
            <3>1. script' \in [Threads -> [queued : BOOLEAN, running : Nat]]
                <4>1. CASE script' = [script EXCEPT ![call[h].thread].queued = TRUE]
                    BY <4>1, QueuedScriptTyped, Zenon DEF IInv, TypeOK
                <4>2. CASE UNCHANGED script
                    BY <4>2, SMT DEF IInv, TypeOK
                <4> QED
                    BY <4>1, <4>2, Zenon DEF QueueScript
            <3>2. waiter' \in [Transfers -> {"none", "settle", "enter", "pause"}]
                <4>1. CASE waiter' = [waiter EXCEPT ![transfers] = "settle"]
                    BY <4>1, SettlingTyped, Zenon DEF IInv, TypeOK
                <4>2. CASE UNCHANGED waiter
                    BY <4>2, SMT DEF IInv, TypeOK
                <4> QED
                    BY <4>1, <4>2, Zenon DEF QueueScript
            <3>3. UNCHANGED entered
                BY Zenon DEF QueueScript
            <3> QED
                BY <3>1, <3>2, <3>3, Zenon DEF IInv, TypeOK
        <2>3. call' \in [Hooks -> [pc : {"idle", "arm", "queue", "continue", "continued"}, thread : Threads \cup {None}]]
            <3>1. CASE Goto(h, "continue")
                BY <3>1 DEF IInv, TypeOK, QueueScript, Goto
            <3>2. CASE Fails(h)
                BY <3>2 DEF IInv, TypeOK, QueueScript, Fails, Done, Idle
            <3> QED
                BY <3>1, <3>2 DEF QueueScript
        <2> QED
            BY <2>1, <2>2, <2>3 DEF TypeOK
    <1>2. StepInSuppresses'
        BY DEF IInv, StepInSuppresses, QueueScript, engines, events, manager,
           editor, Fails, Done, Idle, At, Goto
    <1>3. ResolvingHasResolver'
        BY DEF IInv, ResolvingHasResolver, TypeOK, QueueScript, engines, events,
           manager, editor, Fails, Done, Idle, At, Goto
    <1>4. Justified'
        <2> DEFINE u == call[h].thread
        <2>1. UNCHANGED <<pwire, resolver, failures, suppress>>
            BY DEF QueueScript, events, editor
        <2>2. \A g \in Hooks \ {h} : call'[g] = call[g]
            BY DEF IInv, TypeOK, QueueScript, Fails, Done, Goto
        <2>3. CASE script' = [script EXCEPT ![u].queued = TRUE] /\ UNCHANGED handoffs
            <3>1. \A t \in Threads :
                     /\ t = u => script'[t] # NoScript
                     /\ t # u => script'[t] = script[t]
                BY <2>3 DEF IInv, TypeOK, NoScript
            <3>2. \A t \in Threads \ {u} : ~ Prepares(h, t)
                BY DEF Prepares
            <3> SUFFICES ASSUME NEW t \in handoffs
                         PROVE  \/ \E g \in Hooks : Prepares(g, t)'
                                \/ ToCome(t)' \/ ("frame" \in failures)' \/ suppress'
                BY <2>3 DEF Justified
            <3>3. t \in Threads
                BY DEF IInv, TypeOK
            <3>4. CASE t = u
                BY <3>1, <3>3, <3>4 DEF ToCome, NoScript
            <3>5. CASE t # u
                <4>1. (\E g \in Hooks : Prepares(g, t)) \/ ToCome(t) \/ "frame" \in failures \/ suppress
                    BY DEF IInv, Justified
                <4>2. CASE \E g \in Hooks : Prepares(g, t)
                    <5>1. PICK g \in Hooks : Prepares(g, t)
                        BY <4>2
                    <5>2. g # h
                        BY <5>1, <3>2, <3>3, <3>5
                    <5> QED
                        BY <5>1, <5>2, <2>2 DEF Prepares
                <4>3. CASE ToCome(t)
                    BY <4>3, <3>1, <3>3, <3>5, <2>1 DEF ToCome, NoScript
                <4> QED
                    BY <4>1, <4>2, <4>3, <2>1
            <3> QED
                BY <3>4, <3>5
        <2>4. CASE Fails(h) /\ UNCHANGED script
            <3>1. handoffs' = handoffs \ {u}
                BY <2>4 DEF Fails
            <3> QED
                BY <2>1, <2>2, <2>4, <3>1 DEF IInv, Justified, Prepares, ToCome
        <2> QED
            BY <2>3, <2>4 DEF QueueScript
    <1> QED
        BY <1>1, <1>2, <1>3, <1>4 DEF IInv

LEMMA ReleaseCodeLLDBInv ==
    ASSUME IInv, NEW h \in Hooks, ReleaseCodeLLDB(h)
    PROVE  IInv'
    <1>1. TypeOK'
        <2>1. /\ rust' \in Threads \cup {None}
              /\ rstops' \in 0..MaxRust
              /\ pstops' \in 0..MaxPython
              /\ held' \in BOOLEAN
              /\ pausing' \in BOOLEAN
              /\ resuming' \in BOOLEAN
              /\ script' \in [Threads -> [queued : BOOLEAN, running : Nat]]
              /\ entered' \in BOOLEAN
              /\ pwire' \in Seq({"stopped", "continued"})
              /\ owner' \in {"native", "python", None}
              /\ handoffs' \subseteq Threads
              /\ stepIn' \in BOOLEAN
              /\ suppress' \in BOOLEAN
              /\ target' \in Threads \cup {None}
              /\ exposed' \in BOOLEAN
              /\ userResuming' \in BOOLEAN
              /\ resolving' \in BOOLEAN
              /\ resumeReady' \in BOOLEAN
              /\ waiter' \in [Transfers -> {"none", "settle", "enter", "pause"}]
              /\ resolver' \in {"none", "search", "expose", "emit"}
              /\ transfers' \in 0..MaxTransfers
              /\ view' \subseteq {"native", "python"}
              /\ failures' \subseteq Failures
            BY HandoffAssumption, RangeAppend, RangeTail DEF IInv, TypeOK,
               Transfers, Names, ReleaseCodeLLDB, rendez, manager, editor,
               NativeResumes, Fails, Done, Idle, At, Goto
        <2>2. wire' \in Seq({"stopped", "continued"})
            BY RangeAppend, RangeTail, Zenon DEF IInv, TypeOK, Names,
               ReleaseCodeLLDB, rendez, manager, editor, NativeResumes, Fails, Done,
               Idle, At, Goto
        <2>3. call' \in [Hooks -> [pc : {"idle", "arm", "queue", "continue", "continued"}, thread : Threads \cup {None}]]
            <3>1. CASE Goto(h, "continued")
                BY <3>1 DEF IInv, TypeOK, ReleaseCodeLLDB, Goto
            <3>2. CASE Fails(h)
                BY <3>2 DEF IInv, TypeOK, ReleaseCodeLLDB, Fails, Done, Idle
            <3> QED
                BY <3>1, <3>2 DEF ReleaseCodeLLDB
        <2> QED
            BY <2>1, <2>2, <2>3 DEF TypeOK
    <1>2. StepInSuppresses'
        BY DEF IInv, StepInSuppresses, ReleaseCodeLLDB, rendez, manager, editor,
           NativeResumes, Fails, Done, Idle, At, Goto
    <1>3. ResolvingHasResolver'
        BY DEF IInv, ResolvingHasResolver, TypeOK, ReleaseCodeLLDB, rendez,
           manager, editor, NativeResumes, Fails, Done, Idle, At, Goto
    <1>4. Justified'
        <2>1. UNCHANGED <<script, pwire, resolver, failures, suppress>>
            BY DEF ReleaseCodeLLDB, rendez, editor
        <2>2. /\ \A g \in Hooks \ {h} : call'[g] = call[g]
              /\ \A t : ~ Prepares(h, t)
              /\ handoffs' \subseteq handoffs
            BY DEF IInv, TypeOK, ReleaseCodeLLDB, Fails, Done, Goto, At, Prepares
        <2> QED
            BY <2>1, <2>2 DEF IInv, Justified, Prepares, ToCome
    <1> QED
        BY <1>1, <1>2, <1>3, <1>4 DEF IInv

LEMMA ReleasedInv ==
    ASSUME IInv, NEW h \in Hooks, Released(h)
    PROVE  IInv'
    <1>1. TypeOK'
        BY HandoffAssumption DEF IInv, TypeOK, Transfers, Released, engines,
           rendez, events, hooks, manager, editor, Release, Acquire, At, Goto,
           Done, Idle
    <1>2. StepInSuppresses'
        BY DEF IInv, StepInSuppresses, Released, engines, rendez, events, hooks,
           manager, editor, Release, Acquire, At, Goto, Done, Idle
    <1>3. ResolvingHasResolver'
        BY DEF IInv, ResolvingHasResolver, TypeOK, Released, engines, rendez,
           events, hooks, manager, editor, Release, Acquire, At, Goto, Done,
           Idle
    <1>4. Justified'
        BY DEF IInv, TypeOK, Justified, Prepares, ToCome, Released, engines,
           rendez, events, hooks, manager, editor, Release, Acquire, At, Goto,
           Done, Idle
    <1> QED
        BY <1>1, <1>2, <1>3, <1>4 DEF IInv

--------------------------------------------------------------------------------
LEMMA StutterInv ==
    ASSUME IInv, UNCHANGED vars
    PROVE  IInv'
    BY DEF IInv, TypeOK, StepInSuppresses, ResolvingHasResolver, Justified, Prepares, ToCome,
           vars, engines, rendez, events, hooks, manager, threads, editor

LEMMA NextInv ==
    ASSUME IInv, [Next]_vars
    PROVE  IInv'
    <1>1. CASE UNCHANGED vars
        BY <1>1, StutterInv
    <1>2. ASSUME NEW t \in Threads, RustStops(t) \/ ScriptEnters(t) \/ ScriptBreaks(t)
          PROVE  IInv'
        BY <1>2, RustStopsInv, ScriptEntersInv, ScriptBreaksInv
    <1>3. CASE PythonBreaks \/ DebugpyPauses \/ DebugpyResumes
        BY <1>3, PythonBreaksInv, DebugpyPausesInv, DebugpyResumesInv
    <1>4. CASE Readers
        BY <1>4, OnStoppedInv, OnContinuedInv, TargetedStopInv, PlainStopInv, ResumedInv
           DEF Readers
    <1>5. CASE Resolver
        BY <1>5, ResolverFindsInv, ResolverGivesUpInv, ResolverExposesInv, ResolverEmitsInv
           DEF Resolver
    <1>6. ASSUME NEW n \in Transfers, Waiter(n)
          PROVE  IInv'
        BY <1>6, AwaitResumeInv, AwaitEnteredInv, QueuePauseInv DEF Waiter
    <1>7. ASSUME NEW h \in Hooks, Request(h)
          PROVE  IInv'
        BY <1>7, SelectFrameInv, ContinueRustInv, ContinuePythonInv, StepIntoRustInv DEF Request
    <1>8. ASSUME NEW h \in Hooks, HookStep(h)
          PROVE  IInv'
        BY <1>8, ArmInv, QueueScriptInv, ReleaseCodeLLDBInv, ReleasedInv DEF HookStep
    <1> QED
        BY <1>1, <1>2, <1>3, <1>4, <1>5, <1>6, <1>7, <1>8 DEF Next

LEMMA Invariance == Spec => []IInv
    <1>1. IInv /\ [Next]_vars => IInv'
        BY NextInv
    <1> QED
        BY InitInv, <1>1, PTL DEF Spec

\* Every variable has its type in every reachable state.
THEOREM TypeCorrect == Spec => []TypeOK
    BY Invariance, PTL DEF IInv

\* The key that has Rust stops continued unseen never outlives its transfer:
\* whichever step of it failed, something is still to come, or was reported.
THEOREM KeysMeanTransfers == Spec => []KeyMeansTransfer
    <1>1. IInv => KeyMeansTransfer
        BY DEF IInv, TypeOK, Justified, Prepares, ToCome, KeyMeansTransfer, UnderWay, At
    <1> QED
        BY Invariance, <1>1, PTL

\* After a step from Python into Rust no stop of debugpy is shown before a Rust
\* stop was.
THEOREM StepsIntoRustEndThere == Spec => StepInEndsInRust
    <1>1. ASSUME IInv, [Next]_vars
          PROVE  [stepIn => ("python" \in view' => "python" \in view)]_vars
        <2> SUFFICES ASSUME Next, suppress
                     PROVE  "python" \in view' => "python" \in view
            BY <1>1 DEF IInv, StepInSuppresses
        <2>1. ASSUME NEW t \in Threads, RustStops(t) \/ ScriptEnters(t) \/ ScriptBreaks(t)
              PROVE  view' = view
            BY <2>1 DEF RustStops, ScriptEnters, ScriptBreaks, editor
        <2>2. CASE PythonBreaks \/ DebugpyPauses \/ DebugpyResumes
            BY <2>2 DEF PythonBreaks, DebugpyPauses, DebugpyResumes, editor
        <2>3. CASE Readers
            <3>1. ASSUME OnStopped
                  PROVE  view' = view \/ view' = view \cup {"native"}
                BY <3>1, Zenon DEF OnStopped, ShowRustStep, ContinueUnseen, ShowRustStop
            <3>2. ASSUME OnContinued
                  PROVE  view' = view \ {"native"}
                BY <3>2, Zenon DEF OnContinued
            <3>3. ASSUME TargetedStop
                  PROVE  view' = view
                BY <3>3, Zenon DEF TargetedStop, editor
            <3>4. ASSUME PlainStop
                  PROVE  view' = view
                BY <3>4, Zenon DEF PlainStop, EmitStopped
            <3>5. ASSUME Resumed
                  PROVE  view' = view \/ view' = view \ {"python"}
                BY <3>5, Zenon DEF Resumed
            <3> QED
                BY <2>3, <3>1, <3>2, <3>3, <3>4, <3>5 DEF Readers
        <2>4. CASE Resolver
            BY <2>4 DEF Resolver, ResolverFinds, ResolverGivesUp, ResolverExposes,
                        ResolverEmits, EmitStopped, editor
        <2>5. ASSUME NEW n \in Transfers, Waiter(n)
              PROVE  view' = view
            BY <2>5 DEF Waiter, AwaitResume, AwaitEntered, Await, QueuePause, editor
        <2>6. ASSUME NEW h \in Hooks, Request(h)
              PROVE  view' \subseteq view
            BY <2>6 DEF Request, SelectFrame, ContinueRust, ContinuePython, StepIntoRust, editor
        <2>7. ASSUME NEW h \in Hooks, HookStep(h)
              PROVE  view' = view
            BY <2>7 DEF HookStep, Arm, QueueScript, ReleaseCodeLLDB, Released, editor
        <2> QED
            BY <2>1, <2>2, <2>3, <2>4, <2>5, <2>6, <2>7 DEF Next
    <1> QED
        BY Invariance, <1>1, PTL DEF Spec, StepInEndsInRust
--------------------------------------------------------------------------------
\* A stop of debugpy is in one place: on its way, with the thread that resolves
\* it, with the editor, or with the request that ends it; and while that request
\* is out the settling of an earlier one cannot be taken for its own.
Arriving == {<<"stopped">>, <<"continued", "stopped">>}

OneStop ==
    /\ pwire \in Arriving \cup {<<>>, <<"continued">>}
    /\ pwire \in Arriving =>
           held /\ resolver = "none" /\ "python" \notin view /\ ~resuming
    /\ resolver # "none" => held /\ pwire = <<>> /\ "python" \notin view /\ ~resuming
    /\ "python" \in view => held /\ pwire = <<>> /\ ~resuming
    /\ resuming => held /\ pwire = <<>> /\ ~resumeReady

\* The queue of debugpy's events, as far as it fills up.
LEMMA ShortQueues ==
    /\ Append(<<>>, "stopped") = <<"stopped">>
    /\ Append(<<>>, "continued") = <<"continued">>
    /\ Append(<<"continued">>, "stopped") = <<"continued", "stopped">>
    /\ Head(<<"stopped">>) = "stopped" /\ Tail(<<"stopped">>) = <<>>
    /\ Head(<<"continued">>) = "continued" /\ Tail(<<"continued">>) = <<>>
    /\ Head(<<"continued", "stopped">>) = "continued"
    /\ Tail(<<"continued", "stopped">>) = <<"stopped">>
    /\ <<>> # <<"stopped">> /\ <<>> # <<"continued">> /\ <<>> # <<"continued", "stopped">>
    /\ <<"stopped">> # <<"continued">>
    /\ <<"stopped">> # <<"continued", "stopped">>
    /\ <<"continued">> # <<"continued", "stopped">>
    <1>1. Len(<<>>) = 0 /\ Len(<<"stopped">>) = 1 /\ Len(<<"continued">>) = 1
          /\ Len(<<"continued", "stopped">>) = 2
        OBVIOUS
    <1>2. /\ Append(<<>>, "stopped") = <<"stopped">>
          /\ Append(<<>>, "continued") = <<"continued">>
        OBVIOUS
    <1>3. Append(<<"continued">>, "stopped") = <<"continued", "stopped">>
        <2> DEFINE one == <<"continued">>
                   two == <<"continued", "stopped">>
        <2>1. /\ Append(one, "stopped") = [i \in 1..2 |-> IF i = 2 THEN "stopped" ELSE one[i]]
              /\ two = [i \in 1..2 |-> two[i]]
            OBVIOUS
        <2>2. \A i \in 1..2 : (IF i = 2 THEN "stopped" ELSE one[i]) = two[i]
            OBVIOUS
        <2> HIDE DEF one, two
        <2>3. Append(one, "stopped") = two
            BY <2>1, <2>2
        <2> QED
            BY <2>3 DEF one, two
    <1>4. Tail(<<"stopped">>) = <<>> /\ Tail(<<"continued">>) = <<>>
        OBVIOUS
    <1>5. Tail(<<"continued", "stopped">>) = <<"stopped">>
        OBVIOUS
    <1>6. /\ Head(<<"stopped">>) = "stopped" /\ Head(<<"continued">>) = "continued"
          /\ Head(<<"continued", "stopped">>) = "continued"
        OBVIOUS
    <1>7. <<"stopped">> # <<"continued">>
        OBVIOUS
    <1> QED
        BY <1>1, <1>2, <1>3, <1>4, <1>5, <1>6, <1>7

\* Steps in which debugpy's stop stays where it is.
LEMMA AsideStop ==
    ASSUME OneStop, UNCHANGED <<held, resuming, pwire, resolver, resumeReady>>,
           "python" \in view' => "python" \in view
    PROVE  OneStop'
    BY DEF OneStop

LEMMA EngineStop ==
    ASSUME OneStop,
           \/ \E t \in Threads : RustStops(t) \/ ScriptEnters(t) \/ ScriptBreaks(t)
           \/ PythonBreaks \/ DebugpyPauses \/ DebugpyResumes
    PROVE  OneStop'
    <1>1. ASSUME NEW t \in Threads, RustStops(t) \/ ScriptEnters(t)
          PROVE  OneStop'
        BY <1>1, AsideStop
           DEF RustStops, ScriptEnters, engines, events, manager, threads, editor
    <1>2. ASSUME ~held, DebugpyStops,
                 UNCHANGED <<resuming, resolver, resumeReady, view>>
          PROVE  OneStop'
        <2>1. pwire \in {<<>>, <<"continued">>} /\ resolver = "none" /\ "python" \notin view
              /\ ~resuming
            BY <1>2 DEF OneStop
        <2>2. pwire' \in Arriving
            BY <1>2, <2>1, ShortQueues DEF DebugpyStops, Arriving
        <2> QED
            BY <1>2, <2>1, <2>2 DEF OneStop, DebugpyStops
    <1>3. ASSUME NEW t \in Threads, ScriptBreaks(t)
          PROVE  OneStop'
        BY <1>2, <1>3 DEF ScriptBreaks, manager, threads, editor
    <1>4. CASE PythonBreaks
        BY <1>2, <1>4 DEF PythonBreaks, manager, threads, editor
    <1>5. CASE DebugpyPauses
        <2>1. UNCHANGED <<resuming, resolver, resumeReady, view>>
            BY <1>5 DEF DebugpyPauses, manager, threads, editor
        <2>2. CASE held
            BY <1>5, <2>1, <2>2, AsideStop DEF DebugpyPauses
        <2> QED
            BY <1>2, <1>5, <2>1, <2>2 DEF DebugpyPauses
    <1>6. CASE DebugpyResumes
        <2>1. UNCHANGED <<resolver, view>> /\ ~resuming'
              /\ pwire' = Append(pwire, "continued") /\ resuming
            BY <1>6 DEF DebugpyResumes, manager, threads, editor
        <2>2. pwire = <<>> /\ resolver = "none" /\ "python" \notin view
            BY <2>1 DEF OneStop
        <2> QED
            BY <2>1, <2>2, ShortQueues DEF OneStop, Arriving
    <1> QED
        BY <1>1, <1>3, <1>4, <1>5, <1>6

\* The stop goes from where it was to the editor, or to a request that ends it.
LEMMA EmittedStop ==
    ASSUME OneStop, held, ~resuming, "python" \notin view,
           EmitStopped, UNCHANGED held, pwire' = <<>>, resolver' = "none",
           resuming \in BOOLEAN, suppress \in BOOLEAN
    PROVE  OneStop'
    <1>1. CASE suppress
        <2>1. resuming' = held /\ resumeReady' = FALSE /\ view' = view
            BY <1>1 DEF EmitStopped, ResumeThread
        <2> QED
            BY <2>1, ShortQueues DEF OneStop, Arriving
    <1>2. CASE ~suppress
        <2>1. resuming' = resuming
            BY <1>2 DEF EmitStopped
        <2> QED
            BY <2>1, ShortQueues DEF OneStop, Arriving
    <1> QED
        BY <1>1, <1>2

LEMMA ReadersStop ==
    ASSUME TypeOK, OneStop, Readers
    PROVE  OneStop'
    <1>1. CASE OnStopped
        <2>1. UNCHANGED <<held, resuming, pwire, resolver, resumeReady>>
            BY <1>1 DEF OnStopped, manager, threads
        <2>2. view' = view \/ view' = view \cup {"native"}
            BY <1>1, Zenon DEF OnStopped, ShowRustStep, ContinueUnseen, ShowRustStop
        <2> QED
            BY <2>1, <2>2, AsideStop
    <1>2. CASE OnContinued
        BY <1>2, AsideStop DEF OnContinued, engines, manager, threads
    <1>3. CASE TargetedStop
        <2>1. /\ pwire # <<>> /\ Head(pwire) = "stopped" /\ pwire' = Tail(pwire)
              /\ UNCHANGED <<held, resuming, view, resumeReady>>
            BY <1>3 DEF TargetedStop, engines, editor
        <2>2. pwire = <<"stopped">>
            BY <2>1, ShortQueues DEF OneStop, Arriving
        <2>3. held /\ "python" \notin view /\ ~resuming
            BY <2>2 DEF OneStop, Arriving
        <2> QED
            BY <2>1, <2>2, <2>3, ShortQueues DEF OneStop, Arriving
    <1>4. CASE PlainStop
        <2>1. /\ pwire # <<>> /\ Head(pwire) = "stopped" /\ pwire' = Tail(pwire)
              /\ UNCHANGED <<held, resolver>> /\ EmitStopped
            BY <1>4 DEF PlainStop, threads
        <2>2. pwire = <<"stopped">>
            BY <2>1, ShortQueues DEF OneStop, Arriving
        <2>3. held /\ "python" \notin view /\ ~resuming /\ resolver = "none"
            BY <2>2 DEF OneStop, Arriving
        <2> QED
            BY <2>1, <2>2, <2>3, ShortQueues, EmittedStop DEF TypeOK
    <1>5. CASE Resumed
        <2>1. /\ pwire # <<>> /\ Head(pwire) = "continued" /\ pwire' = Tail(pwire)
              /\ UNCHANGED <<held, resuming, resolver>>
            BY <1>5 DEF Resumed, engines, threads
        <2>2. view' \subseteq view
            BY <1>5, Zenon DEF Resumed
        <2>3. pwire \in {<<"continued">>, <<"continued", "stopped">>}
            BY <2>1, ShortQueues DEF OneStop, Arriving
        <2>4. resolver = "none" /\ "python" \notin view /\ ~resuming
            BY <2>3, ShortQueues DEF OneStop
        <2>5. CASE pwire = <<"continued">>
            BY <2>1, <2>2, <2>4, <2>5, ShortQueues DEF OneStop, Arriving
        <2>6. CASE pwire = <<"continued", "stopped">>
            <3>1. held
                BY <2>6 DEF OneStop, Arriving
            <3>2. pwire' = <<"stopped">>
                BY <2>1, <2>6, ShortQueues
            <3> QED
                BY <2>1, <2>2, <2>4, <3>1, <3>2 DEF OneStop, Arriving
        <2> QED
            BY <2>3, <2>5, <2>6
    <1> QED
        BY <1>1, <1>2, <1>3, <1>4, <1>5 DEF Readers

LEMMA ResolverStop ==
    ASSUME TypeOK, OneStop, Resolver
    PROVE  OneStop'
    <1>1. CASE ResolverFinds \/ ResolverExposes
        BY <1>1 DEF OneStop, ResolverFinds, ResolverExposes, engines, events, manager, editor
    <1>2. CASE ResolverGivesUp
        BY <1>2 DEF OneStop, ResolverGivesUp, engines, events
    <1>3. CASE ResolverEmits
        <2>1. /\ resolver # "none" /\ resolver' = "none" /\ UNCHANGED <<held, pwire>>
              /\ EmitStopped
            BY <1>3 DEF ResolverEmits, events
        <2>2. held /\ pwire = <<>> /\ "python" \notin view /\ ~resuming
            BY <2>1 DEF OneStop
        <2> QED
            BY <2>1, <2>2, EmittedStop DEF TypeOK
    <1> QED
        BY <1>1, <1>2, <1>3 DEF Resolver

LEMMA WaiterStop ==
    ASSUME OneStop, NEW n \in Transfers, Waiter(n)
    PROVE  OneStop'
    BY AsideStop DEF Waiter, AwaitResume, AwaitEntered, Await, QueuePause, engines, events,
                     manager, editor

LEMMA RequestStop ==
    ASSUME TypeOK, OneStop, NEW h \in Hooks, Request(h)
    PROVE  OneStop'
    <1>1. ASSUME NEW t \in Threads, SelectFrame(h, t)
          PROVE  OneStop'
        BY <1>1, AsideStop DEF SelectFrame, engines, events, manager, editor
    <1>2. CASE ContinueRust(h)
        BY <1>2, AsideStop DEF ContinueRust, NativeResumes, manager
    <1>3. CASE ContinuePython(h) \/ StepIntoRust(h)
        <2>1. /\ "python" \in view /\ view' = view \ {"python"}
              /\ ResumeThread /\ UNCHANGED <<held, pwire, resolver>>
            BY <1>3 DEF ContinuePython, StepIntoRust, events, threads
        <2>2. held /\ pwire = <<>> /\ resolver = "none"
            BY <2>1 DEF OneStop
        <2>3. resuming' = held /\ resumeReady' = FALSE
            BY <2>1 DEF ResumeThread
        <2> QED
            BY <2>1, <2>2, <2>3, ShortQueues DEF OneStop, Arriving
    <1> QED
        BY <1>1, <1>2, <1>3 DEF Request

LEMMA HookStop ==
    ASSUME OneStop, NEW h \in Hooks, HookStep(h)
    PROVE  OneStop'
    BY AsideStop DEF HookStep, Arm, QueueScript, ReleaseCodeLLDB, Released, NativeResumes,
                     engines, events, manager, editor

LEMMA StopInvariance == Spec => [](IInv /\ OneStop)
    <1>1. Init => OneStop
        BY ShortQueues DEF Init, OneStop, Arriving
    <1>2. IInv /\ OneStop /\ [Next]_vars => OneStop'
        <2> SUFFICES ASSUME TypeOK, OneStop, [Next]_vars
                     PROVE  OneStop'
            BY DEF IInv
        <2>1. CASE UNCHANGED vars
            BY <2>1, AsideStop DEF vars, engines, events, manager, threads, editor
        <2>2. ASSUME NEW t \in Threads, RustStops(t) \/ ScriptEnters(t) \/ ScriptBreaks(t)
              PROVE  OneStop'
            BY <2>2, EngineStop
        <2>3. CASE PythonBreaks \/ DebugpyPauses \/ DebugpyResumes
            BY <2>3, EngineStop
        <2>4. CASE Readers
            BY <2>4, ReadersStop
        <2>5. CASE Resolver
            BY <2>5, ResolverStop
        <2>6. ASSUME NEW n \in Transfers, Waiter(n)
              PROVE  OneStop'
            BY <2>6, WaiterStop
        <2>7. ASSUME NEW h \in Hooks, Request(h) \/ HookStep(h)
              PROVE  OneStop'
            BY <2>7, RequestStop, HookStop
        <2> QED
            BY <2>1, <2>2, <2>3, <2>4, <2>5, <2>6, <2>7 DEF Next
    <1> QED
        BY <1>1, <1>2, Invariance, PTL DEF Spec

\* The pause of a transfer is not queued before the resume that was asked for
\* earlier has been carried out.
THEOREM PausesFollowResumes == Spec => PauseAfterResume
    <1>1. ASSUME IInv /\ OneStop, [Next]_vars
          PROVE  [\A n \in Transfers :
                      waiter[n] = "settle" /\ waiter'[n] = "enter" => ~resuming]_vars
        <2> SUFFICES ASSUME Next, NEW m \in Transfers,
                            waiter[m] = "settle", waiter'[m] = "enter"
                     PROVE  resumeReady
            BY <1>1 DEF OneStop
        <2>1. CASE \E t \in Threads : RustStops(t) \/ ScriptEnters(t) \/ ScriptBreaks(t)
            BY <2>1 DEF RustStops, ScriptEnters, ScriptBreaks, threads
        <2>2. CASE PythonBreaks \/ DebugpyPauses \/ DebugpyResumes
            BY <2>2 DEF PythonBreaks, DebugpyPauses, DebugpyResumes, threads
        <2>3. CASE Readers
            BY <2>3 DEF Readers, OnStopped, OnContinued, TargetedStop, PlainStop, Resumed, threads
        <2>4. CASE Resolver
            BY <2>4 DEF Resolver, ResolverFinds, ResolverGivesUp, ResolverExposes, ResolverEmits
        <2>5. ASSUME NEW n \in Transfers, Waiter(n)
              PROVE  resumeReady
            <3>1. waiter \in [Transfers -> {"none", "settle", "enter", "pause"}]
                BY <1>1 DEF IInv, TypeOK
            <3> QED
                BY <2>5, <3>1 DEF Waiter, AwaitResume, AwaitEntered, Await, QueuePause
        <2>6. ASSUME NEW h \in Hooks, Request(h)
              PROVE  resumeReady
            BY <2>6 DEF Request, SelectFrame, ContinueRust, ContinuePython, StepIntoRust, threads
        <2>7. ASSUME NEW h \in Hooks, HookStep(h)
              PROVE  resumeReady
            <3>1. waiter \in [Transfers -> {"none", "settle", "enter", "pause"}]
                BY <1>1 DEF IInv, TypeOK
            <3> QED
                BY <2>7, <3>1 DEF HookStep, Arm, QueueScript, ReleaseCodeLLDB, Released
        <2> QED
            BY <2>1, <2>2, <2>3, <2>4, <2>5, <2>6, <2>7 DEF Next
    <1> QED
        BY <1>1, StopInvariance, PTL DEF Spec, PauseAfterResume
================================================================================
