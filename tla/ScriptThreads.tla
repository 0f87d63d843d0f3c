---------------------------- MODULE ScriptThreads ----------------------------
(***************************************************************************)
(* Script threads: what they wait for, who wakes them, and when they run.  *)
(* A thread waits for time (con_timer) or until listeners announce a name  *)
(* (m_NotifyList, m_WaitForList).  Nothing runs concurrently, but scripts  *)
(* call each other through the engine: a thread that announces a name runs *)
(* the threads that wait for it before its own next command, and any of    *)
(* them may delete, wait for or wake the others.  The C++ stack of those   *)
(* calls is a variable here.                                               *)
(*                                                                         *)
(* Times are relative to the server frame.                                 *)
(***************************************************************************)
EXTENDS Integers, Sequences, FiniteSets, SequencesExt

CONSTANTS
    Threads, Objects, Names,
    Delays,                 \* what scripts wait for, in frames
    MaxCommands             \* bound: commands of one run before a thread waits or
                            \* ends (the code stops a thread that runs too long)

ASSUME ScriptThreadsAssumption ==
    /\ Threads \cap Objects = {}
    /\ IsFiniteSet(Threads) /\ IsFiniteSet(Objects) /\ IsFiniteSet(Names)
    /\ Delays \subseteq Nat
    /\ MaxCommands \in Nat
    /\ Names # {}           \* WaitTillAny waits for at least one
    /\ "0" \notin Names     \* const_str 0: a thread has ended, a move is over

VARIABLES
    d,          \* the threads and what the Director and the listeners know of them
    stack,      \* the C++ calls under way, the innermost last
    phase       \* of the frame: "events", "animate" (scripts paused) or "think"

vars == <<d, stack, phase>>

Listeners == Threads \cup Objects
AnyName == Names \cup {"0"}

\* SelectSeq for membership in a set, in a form that proofs can expand.
Kept(seq, S) ==
    LET kept[i \in 0 .. Len(seq)] ==
            IF i = 0 THEN <<>>
            ELSE IF seq[i] \in S THEN Append(kept[i - 1], seq[i]) ELSE kept[i - 1]
    IN  kept[Len(seq)]

Entries(names, threads) == names \X threads            \* of a m_NotifyList
Elements(threads) == [thread : threads, time : Int]     \* of the timer

Init ==
    /\ d = [alive |-> Objects,
            vm |-> [t \in Threads |-> "none"],
            state |-> [t \in Threads |-> "RUNNING"],
            notify |-> [l \in Listeners |-> <<>>],      \* <<name, thread>>
            waitFor |-> [t \in Threads |-> {}],         \* <<name, listener>>
            ends |-> [o \in Objects |-> {}],            \* <<name, thread>>
            timer |-> <<>>, dirty |-> FALSE, inttime |-> 0,
            timeouts |-> {},                \* events that cancel waiting
            level |-> 0,                    \* level.inttime
            asked |-> [t \in Threads |-> {}],   \* the names of a waittill_any
            timed |-> {}]                       \* threads whose wait may time out
    /\ stack = <<>>
    /\ phase = "think"

-----------------------------------------------------------------------------
(* Waiting for time.                                                       *)

\* Mutant: only what is already overdue makes the list dirty.
AddElement_Overdue(s, t, time) ==
    [s EXCEPT !.timer = Append(@, [thread |-> t, time |-> time]),
              !.dirty = @ \/ time < s.inttime]

AddElement(s, t, time) ==
    [s EXCEPT !.timer = Append(@, [thread |-> t, time |-> time]),
              !.dirty = @ \/ time <= s.inttime]

\* StartTiming of a thread that waits for nothing
Timed(s, t, time) == AddElement([s EXCEPT !.state[t] = "WAITING"], t, time)

CancelEvents(s, t) == [s EXCEPT !.timeouts = {e \in @ : e.thread # t}]

\* Mutant: the timeout of the wait that is over is left in the queue.
StoppedWaiting_TimeoutLeft(s, t) ==
    IF s.state[t] = "SUSPENDED" THEN Timed(s, t, s.level) ELSE s

\* ScriptThread::StoppedWaitFor, for the name 0: it runs when its time has come.
StoppedWaiting(s, t) ==
    LET c == CancelEvents(s, t)
    IN  IF c.state[t] = "SUSPENDED" THEN Timed(c, t, c.level) ELSE c

-----------------------------------------------------------------------------
(* Deleting listeners.  A thread that waits for an object which is deleted *)
(* is deleted, and so is the child of a waitthread whose parent is.        *)

Follow(s, gone) ==
    {t \in s.alive \cap Threads :
        \/ /\ s.notify[t] # <<>>
           /\ \A k \in DOMAIN s.notify[t] : s.notify[t][k][2] \in gone
        \/ /\ \E w \in s.waitFor[t] : w[1] # "0"
           /\ \A w \in s.waitFor[t] : w[2] \in gone}

\* Those that are deleted with the first: the fewest that leave nobody to follow.
Doomed(s, first) ==
    first \cup {t \in Threads :
                  \A T \in SUBSET Threads : Follow(s, first \cup T) \subseteq T => t \in T}

\* The threads all of whose listeners are gone, in the order they are told.
Freed(s, gone) ==
    Kept(FlattenSeq([i \in 1 .. Cardinality(gone) |-> s.notify[SetToSeq(gone)[i]]]),
         Entries(AnyName, {t \in Threads \ gone : \A w \in s.waitFor[t] : w[2] \in gone}))

\* Mutant: a deleted thread stays in the timer's list.
Removed_TimerKept(s, gone) ==
    [s EXCEPT
        !.alive = @ \ gone,
        !.vm = [t \in Threads |-> IF t \notin gone THEN @[t]
                                  ELSE IF @[t] = "EXECUTION" THEN "none" ELSE "DESTROYED"],
        !.state = [t \in Threads |-> IF t \in gone THEN "RUNNING" ELSE @[t]],
        !.notify = [l \in Listeners |-> IF l \in gone THEN <<>>
                        ELSE Kept(@[l], Entries(AnyName, Threads \ gone))],
        !.waitFor = [t \in Threads |-> IF t \in gone THEN {}
                        ELSE {w \in @[t] : w[2] \notin gone}],
        !.ends = [o \in Objects |-> IF o \in gone THEN {}
                        ELSE {e \in @[o] : e[2] \notin gone}],
        !.timeouts = {e \in @ : e.thread \notin gone},
        !.asked = [t \in Threads |-> IF t \in gone THEN {} ELSE @[t]],
        !.timed = @ \ gone]

Removed(s, gone) ==
    [Removed_TimerKept(s, gone) EXCEPT !.timer = Kept(@, Elements(Threads \ gone))]

Delete(s, first) ==
    LET gone == Doomed(s, first)
        freed == Freed(s, gone)
        told[i \in 0 .. Len(freed)] ==
            IF i = 0 THEN Removed(s, gone) ELSE StoppedWaiting(told[i - 1], freed[i][2])
    IN  told[Len(freed)]

-----------------------------------------------------------------------------
(* Waiting for listeners.                                                  *)

CancelWaitingAll(s, t) ==
    IF s.waitFor[t] = {} THEN s
    ELSE LET alone == [s EXCEPT !.waitFor[t] = {},
                                !.notify = [l \in Listeners |->
                                    Kept(@[l], Entries(AnyName, Threads \ {t}))]]
             children == {c \in Threads : <<"0", c>> \in s.waitFor[t] /\ alone.notify[c] = <<>>}
         IN  Delete(StoppedWaiting(alone, t), children)

\* Mutant: the listeners are not told that the thread no longer waits.
Stop_StillRegistered(s, t) ==
    CASE s.state[t] = "WAITING" ->
            [s EXCEPT !.state[t] = "RUNNING",
                      !.timer = Kept(@, Elements(Threads \ {t}))]
      [] s.state[t] = "SUSPENDED" -> [s EXCEPT !.state[t] = "RUNNING"]
      [] OTHER -> s

Stop(s, t) ==
    CASE s.state[t] = "WAITING" ->
            [s EXCEPT !.state[t] = "RUNNING",
                      !.timer = Kept(@, Elements(Threads \ {t}))]
      [] s.state[t] = "SUSPENDED" -> CancelWaitingAll([s EXCEPT !.state[t] = "RUNNING"], t)
      [] OTHER -> s

Suspend(s, t) == [s EXCEPT !.vm[t] = IF @ = "RUNNING" THEN "SUSPENDED" ELSE @]

\* Register: the first registration of a thread suspends it.
Register(s, t, waits) ==
    LET stopped == Suspend([Stop(s, t) EXCEPT !.state[t] = "SUSPENDED"], t)
    IN  [stopped EXCEPT
            !.waitFor[t] = waits,
            !.notify = [l \in Listeners |->
                @[l] \o SetToSeq({<<w[1], t>> : w \in {x \in waits : x[2] = l}})]]

Wait(s, t, delay) ==
    [Suspend(Timed(Stop(s, t), t, s.level + delay), t) EXCEPT
        !.asked[t] = {}, !.timed = @ \ {t}]

\* Unregister: the name is announced.  Threads that were to end on it end; who
\* waited for it waits no more, and who waits for nothing else is woken.
Ended(s, o, n) == Delete([s EXCEPT !.ends[o] = {e \in @ : e[1] # n}],
                         {e[2] : e \in {x \in s.ends[o] : x[1] = n}})

Announced(s, o, n) ==
    [Ended(s, o, n) EXCEPT !.notify[o] = Kept(@, Entries(AnyName \ {n}, Threads)),
                           !.waitFor = [t \in Threads |-> @[t] \ {<<n, o>>}]]

Woken(s, o, n) ==
    LET ended == Ended(s, o, n)
        told == Kept(ended.notify[o],
                     Entries({n}, {t \in Threads : ended.waitFor[t] = {<<n, o>>}}))
    IN  [i \in DOMAIN told |-> told[i][2]]

-----------------------------------------------------------------------------
(* The C++ stack: a run of a thread, a list of woken threads, the          *)
(* Director's ExecuteRunning.                                              *)

None == 99
Run(t) == [kind |-> "vm", thread |-> t, left |-> MaxCommands]
Wake(n, list) == [kind |-> "wake", name |-> n, list |-> list]
ExecuteRunning == [kind |-> "running", start |-> None]

TopIs(kind) == stack # <<>> /\ Last(stack).kind = kind
Top(frame) == [stack EXCEPT ![Len(stack)] = frame]
stackCount == Cardinality({i \in DOMAIN stack : stack[i].kind = "vm"})
Mentioned == {stack[i].thread : i \in {k \in DOMAIN stack : stack[k].kind = "vm"}}
               \cup UNION {Range(stack[i].list) : i \in {k \in DOMAIN stack : stack[k].kind = "wake"}}

Paused == phase = "animate"

\* ScriptExecuteInternal
Started(s, t) == [Stop(s, t) EXCEPT !.vm[t] = "RUNNING"]
Call(t) == <<ExecuteRunning, Run(t)>>

New(s, t) == [s EXCEPT !.alive = @ \cup {t}, !.vm[t] = "EXECUTION"]
Unused == Threads \ (d.alive \cup Mentioned)

-----------------------------------------------------------------------------
(* The commands of a thread.                                               *)

Current == Last(stack).thread
Runs == TopIs("vm") /\ d.vm[Current] = "RUNNING"
Continues == Last(stack).left > 0
Used == Top([Last(stack) EXCEPT !.left = @ - 1])

EventEnd == Runs /\ d' = Delete(d, {Current}) /\ UNCHANGED <<stack, phase>>

EventWait ==
    /\ Runs
    /\ \E delay \in Delays : d' = Wait(d, Current, delay)
    /\ UNCHANGED <<stack, phase>>

\* A script may have another thread wait.
EventWaitOther(t) ==
    /\ Runs /\ Continues
    /\ t \in d.alive \ {Current}
    /\ \E delay \in Delays : d' = Wait(d, t, delay)
    /\ stack' = Used
    /\ UNCHANGED phase

\* waittill one name of one or of several listeners
WaitTill ==
    /\ Runs
    /\ \E n \in Names, targets \in SUBSET (d.alive \cap Objects) :
        /\ targets # {}
        /\ d' = [Register(d, Current, {n} \X targets) EXCEPT
                    !.asked[Current] = {}, !.timed = @ \ {Current}]
    /\ UNCHANGED <<stack, phase>>

WaitTillTimeout ==
    /\ Runs
    /\ \E n \in Names, o \in d.alive \cap Objects, delay \in Delays \ {0} :
        d' = [Register(d, Current, {<<n, o>>}) EXCEPT
                 !.timeouts = @ \cup {[thread |-> Current, time |-> d.level + delay]},
                 !.asked[Current] = {}, !.timed = @ \cup {Current}]
    /\ UNCHANGED <<stack, phase>>

WaitTillAny ==
    /\ Runs
    /\ \E o \in d.alive \cap Objects :
        d' = [Register(d, Current, Names \X {o}) EXCEPT
                 !.asked[Current] = Names \X {o}, !.timed = @ \ {Current}]
    /\ UNCHANGED <<stack, phase>>

EventEndOn(o) ==
    /\ Runs /\ Continues
    /\ o \in d.alive
    /\ \E n \in Names : d' = [d EXCEPT !.ends[o] = @ \cup {<<n, Current>>}]
    /\ stack' = Used
    /\ UNCHANGED phase

EventUnregister(o) ==
    /\ Runs /\ Continues
    /\ o \in d.alive
    /\ \E n \in Names :
        /\ d' = Announced(d, o, n)
        /\ stack' = Append(Used, Wake(n, Woken(d, o, n)))
    /\ UNCHANGED phase

ImmediateRemove(l) ==
    /\ Runs /\ Continues
    /\ l \in d.alive
    /\ d' = Delete(d, {l})
    /\ stack' = Used
    /\ UNCHANGED phase

ExecuteThreadInternal(t) ==
    /\ Runs /\ Continues
    /\ t \in Unused
    /\ d' = Started(New(d, t), t)
    /\ stack' = Used \o Call(t)
    /\ UNCHANGED phase

WaitExecuteThreadInternal(t) ==
    /\ Runs
    /\ t \in Unused
    /\ d' = Started([Register(New(d, t), Current, {<<"0", t>>}) EXCEPT
                        !.asked[Current] = {}, !.timed = @ \ {Current}], t)
    /\ stack' = stack \o Call(t)
    /\ UNCHANGED phase

Command ==
    \/ EventEnd \/ EventWait \/ WaitTill \/ WaitTillTimeout \/ WaitTillAny
    \/ \E t \in Threads :
        EventWaitOther(t) \/ ExecuteThreadInternal(t) \/ WaitExecuteThreadInternal(t)
    \/ \E o \in Objects : EventEndOn(o) \/ EventUnregister(o)
    \/ \E l \in Listeners : ImmediateRemove(l)

-----------------------------------------------------------------------------
(* Calls return.                                                           *)

\* The end of ScriptVM::Execute
Return ==
    /\ TopIs("vm") /\ d.vm[Current] # "RUNNING"
    /\ d' = [d EXCEPT !.vm[Current] = IF @ = "SUSPENDED" THEN "EXECUTION" ELSE "none"]
    /\ stack' = Front(stack)
    /\ UNCHANGED phase

\* Mutant: a woken thread runs even while scripts are paused.
Execute_Paused(s, t) == [d |-> Started(s, t), calls |-> Call(t)]

Execute(s, t) ==
    IF Paused THEN [d |-> Timed(Stop(s, t), t, s.level), calls |-> <<>>]
              ELSE [d |-> Started(s, t), calls |-> Call(t)]

\* Unregister calls StoppedWaitFor of the threads it has woken, one by one.
StoppedWaitFor ==
    /\ TopIs("wake") /\ Last(stack).list # <<>>
    /\ LET frame == Last(stack)
           t == Head(frame.list)
           rest == Top(Wake(frame.name, Tail(frame.list)))
           c == CancelEvents(d, t)
           run == Execute(c, t)
       IN  IF t \notin d.alive THEN d' = d /\ stack' = rest
           ELSE IF d.state[t] # "SUSPENDED" THEN d' = c /\ stack' = rest
           ELSE IF frame.name = "0" THEN d' = StoppedWaiting(d, t) /\ stack' = rest
           ELSE IF d.vm[t] = "EXECUTION" THEN d' = run.d /\ stack' = rest \o run.calls
           ELSE d' = [c EXCEPT !.vm[t] = "RUNNING"] /\ stack' = rest
    /\ UNCHANGED phase

AllTold ==
    /\ TopIs("wake") /\ Last(stack).list = <<>>
    /\ stack' = Front(stack)
    /\ UNCHANGED <<d, phase>>

\* Mutant: threads run in the order they were added.
Next_Added(timer, due) == CHOOSE i \in due : \A j \in due : i <= j

\* con_timer::GetNextElement: the earliest, and of those the first that was added.
NextElement(timer, due) ==
    CHOOSE i \in due : \A j \in due :
        timer[i].time < timer[j].time \/ (timer[i].time = timer[j].time /\ i <= j)

Due(s) == {i \in DOMAIN s.timer : s.timer[i].time <= s.inttime}

Looping == Last(stack).start # None \/ (stackCount = 0 /\ d.dirty)

RunNext ==
    /\ TopIs("running") /\ Looping
    /\ Due(d) # {}
    /\ LET i == NextElement(d.timer, Due(d))
           t == d.timer[i].thread
       IN  /\ d' = [d EXCEPT !.timer = RemoveAt(@, i), !.level = d.timer[i].time,
                             !.state[t] = "RUNNING", !.vm[t] = "RUNNING"]
           /\ stack' = Append(Top([kind |-> "running",
                                   start |-> IF Last(stack).start = None THEN d.level
                                             ELSE Last(stack).start]), Run(t))
    /\ UNCHANGED phase

RunningEnds ==
    /\ TopIs("running") /\ (Looping => Due(d) = {})
    /\ d' = IF Looping
            THEN [d EXCEPT !.dirty = FALSE,
                           !.level = IF Last(stack).start = None THEN @ ELSE Last(stack).start]
            ELSE d
    /\ stack' = Front(stack)
    /\ UNCHANGED phase

Calls == Return \/ StoppedWaitFor \/ AllTold \/ RunNext \/ RunningEnds

-----------------------------------------------------------------------------
(* The game, between scripts: G_RunFrame and what happens in a frame.      *)

Quiet == stack = <<>>

\* Animations, moves and other things of the game announce names.
Unregister(o) ==
    /\ Quiet
    /\ o \in d.alive
    /\ \E n \in Names \cup {"0"} :
        /\ d' = Announced(d, o, n)
        /\ stack' = <<Wake(n, Woken(d, o, n))>>
    /\ UNCHANGED phase

\* WaitMove registers a thread for the end of a move, MoveEnd announces 0.
WaitMove ==
    /\ Runs
    /\ \E o \in d.alive \cap Objects :
        d' = [Register(d, Current, {<<"0", o>>}) EXCEPT
                 !.asked[Current] = {}, !.timed = @ \ {Current}]
    /\ UNCHANGED <<stack, phase>>

RemoveEvent(o) ==
    /\ Quiet /\ ~Paused
    /\ o \in d.alive
    /\ d' = Delete(d, {o})
    /\ UNCHANGED <<stack, phase>>

StartScript(t) ==
    /\ Quiet /\ ~Paused
    /\ t \in Unused
    /\ d' = Started(New(d, t), t)
    /\ stack' = Call(t)
    /\ UNCHANGED phase

\* L_ProcessPendingEvents: the time a thread may wait is over.
CancelWaiting(t) ==
    /\ Quiet /\ ~Paused
    /\ \E e \in d.timeouts :
        /\ e.thread = t /\ e.time <= d.level
        /\ d' = CancelWaitingAll([d EXCEPT !.timeouts = @ \ {e}], t)
    /\ UNCHANGED <<stack, phase>>

\* Times of the lists are relative to the level's.
Sooner(e) == [e EXCEPT !.time = @ - 1]

Later(s) ==
    [s EXCEPT !.timer = [i \in DOMAIN s.timer |-> Sooner(s.timer[i])],
              !.timeouts = {Sooner(e) : e \in s.timeouts},
              !.inttime = @ - 1]

NoEventDue == \A e \in d.timeouts : e.time > d.level

NewFrame ==
    /\ Quiet /\ phase = "think" /\ NoEventDue
    /\ d' = Later(d)
    /\ phase' = "events"
    /\ UNCHANGED stack

SetTime(s) == [s EXCEPT !.inttime = s.level, !.dirty = TRUE]

Pause ==
    /\ Quiet /\ phase = "events" /\ NoEventDue
    /\ d' = SetTime(d)
    /\ phase' = "animate"
    /\ UNCHANGED stack

Unpause ==
    /\ Quiet /\ phase = "animate"
    /\ phase' = "think"
    /\ stack' = <<ExecuteRunning>>
    /\ UNCHANGED d

Frame == NewFrame \/ Pause \/ Unpause

Game ==
    \/ \E o \in Objects : Unregister(o) \/ RemoveEvent(o)
    \/ \E t \in Threads : StartScript(t) \/ CancelWaiting(t)

Next == Command \/ WaitMove \/ Calls \/ Game \/ Frame

Spec == Init /\ [][Next]_vars

-----------------------------------------------------------------------------
InTimer(t) == {i \in DOMAIN d.timer : d.timer[i].thread = t}
Told(t) == {i \in DOMAIN stack : stack[i].kind = "wake" /\ t \in Range(stack[i].list)}
OnStack(t) == \E i \in DOMAIN stack : stack[i].kind = "vm" /\ stack[i].thread = t

\* Every thread runs, or there is exactly one thing that will make it run: its
\* time, a listener that knows of it, or the call that is about to wake it.
NoThreadForgotten ==
    \A t \in Threads \cap d.alive :
        /\ CASE d.state[t] = "RUNNING" -> OnStack(t) /\ d.waitFor[t] = {}
             [] d.state[t] = "WAITING" -> d.waitFor[t] = {}
             [] d.state[t] = "SUSPENDED" -> d.waitFor[t] # {} \/ Told(t) # {}
        /\ Cardinality(InTimer(t)) = IF d.state[t] = "WAITING" THEN 1 ELSE 0
        /\ \A l \in Listeners, n \in Names \cup {"0"} :
            <<n, l>> \in d.waitFor[t] <=> l \in d.alive /\ <<n, t>> \in Range(d.notify[l])

\* No reference to a thread that has been deleted is left in a list, an event or
\* the timer, where its memory would be used again.
OnlyLivingThreads ==
    LET dead == Threads \ d.alive
    IN  /\ \A t \in dead : InTimer(t) = {} /\ d.waitFor[t] = {} /\ d.notify[t] = <<>>
        /\ \A e \in d.timeouts : e.thread \notin dead
        /\ \A l \in Listeners : \A k \in DOMAIN d.notify[l] : d.notify[l][k][2] \notin dead

\* A timeout ends the wait it was given for, never a later one.
TimeoutOfThisWait ==
    \A e \in d.timeouts :
        \/ Told(e.thread) # {}
        \/ /\ e.thread \in d.timed
           /\ d.state[e.thread] = "SUSPENDED" /\ d.waitFor[e.thread] # {}

\* ExecuteRunning, which looks at the list only when it is dirty, overlooks no
\* thread whose time has come.
DueIsDirty == Due(d) # {} => d.dirty

\* While the animations of a frame are prepared no script runs.
PausedScriptsWait == Paused => \A i \in DOMAIN stack : stack[i].kind # "vm"

\* One ExecuteRunning runs the threads in the order of their times: time, which
\* is set to that of the thread that runs, does not go back until it ends.
TimeRunsForward ==
    [][RunNext /\ Last(stack).start # None => d'.level >= d.level]_vars

\* What the event documentation says and the code does not ensure; no run requires
\* these two, and the README gives the instances that show it.
\* waittill: "Wait until event of type name".  No call is about to resume a thread
\* that waits for something that has not been announced.
WaitsUntilAnnounced == \A t \in d.alive \cap Threads : Told(t) # {} => d.waitFor[t] = {}

\* waittill_any: "Wait until any event of type name".
WokenByAny ==
    \A t \in Threads : d.waitFor[t] # {} /\ d.asked[t] # {} => d.waitFor[t] = d.asked[t]
=============================================================================
