------------------------- MODULE ScriptThreadsProofs -------------------------
(* Proofs about script threads, for any number of threads, objects and names:*)
(* no script runs while scripts are paused; nothing refers to a thread that  *)
(* has been deleted; a thread whose time has come is seen; a timeout ends    *)
(* the wait it was given for; no thread is forgotten; threads are run in the *)
(* order of their times.  The first follows from the stack alone, the next   *)
(* three from ListInv, by one lemma for each operation of the data and one   *)
(* for each action, the last two from RunInv and TimeInv added to it.        *)
EXTENDS ScriptThreads, FiniteSetTheorems, WellFoundedInduction, TLAPS

\* While scripts are paused the stack is empty, or it holds one list of threads
\* that are told one after the other and put into the timer: nothing that could
\* call anything else.
OnlyTelling ==
    \/ stack = <<>>
    \/ stack = <<Wake(stack[1].name, stack[1].list)>>

\* What holds whenever scripts are paused.
PausedInv == Paused => OnlyTelling

LEMMA InitPaused == Init => PausedInv
  BY DEF Init, PausedInv, Paused

\* The only frame is neither the run of a thread nor ExecuteRunning.
LEMMA TopWhenPaused ==
    ASSUME OnlyTelling
    PROVE  ~TopIs("vm") /\ ~TopIs("running")
  <1>1. CASE stack = <<>>
    BY <1>1 DEF TopIs
  <1>2. CASE stack = <<Wake(stack[1].name, stack[1].list)>>
    <2>1. Last(stack) = stack[1] /\ stack[1].kind = "wake"
      BY <1>2 DEF Last, Wake
    <2>2. QED  BY <2>1 DEF TopIs
  <1>3. QED  BY <1>1, <1>2 DEF OnlyTelling

LEMMA PausedAfterTelling ==
    ASSUME PausedInv, StoppedWaitFor, Paused'
    PROVE  OnlyTelling'
  <1> DEFINE frame == Last(stack)
             told == Wake(frame.name, Tail(frame.list))
  <1>1. Paused /\ OnlyTelling
    BY DEF PausedInv, StoppedWaitFor, Paused
  <1>2. Len(stack) = 1 /\ stack = <<stack[1]>>
    BY <1>1 DEF OnlyTelling, StoppedWaitFor, TopIs
  <1>3. Top(told) = <<told>>
    BY <1>2 DEF Top
  <1>4. Execute(CancelEvents(d, Head(frame.list)), Head(frame.list)).calls = <<>>
    BY <1>1 DEF Execute
  <1>5. stack' = Top(told) \/ stack' = Top(told) \o <<>>
    BY <1>4 DEF StoppedWaitFor
  <1> HIDE DEF frame
  <1>6. stack' = <<told>>
    BY <1>3, <1>5
  <1>7. told = Wake(stack'[1].name, stack'[1].list)
    BY <1>6 DEF Wake
  <1>8. QED  BY <1>6, <1>7 DEF OnlyTelling

LEMMA NextPaused == PausedInv /\ [Next]_vars => PausedInv'
  <1> SUFFICES ASSUME PausedInv, [Next]_vars, Paused'
               PROVE  OnlyTelling'
    BY DEF PausedInv
  <1> USE DEF PausedInv
  <1>1. CASE UNCHANGED vars
    BY <1>1 DEF vars, Paused, OnlyTelling
  <1>2. CASE Command \/ WaitMove
    <2>1. TopIs("vm") /\ Paused
      BY <1>2 DEF Command, WaitMove, EventEnd, EventWait, WaitTill, WaitTillTimeout,
                  WaitTillAny, EventWaitOther, ExecuteThreadInternal,
                  WaitExecuteThreadInternal, EventEndOn, EventUnregister, ImmediateRemove,
                  Runs, Paused
    <2>2. QED  BY <2>1, TopWhenPaused
  <1>3. CASE StoppedWaitFor
    BY <1>3, PausedAfterTelling
  <1>4. CASE AllTold
    <2>1. Paused /\ OnlyTelling /\ stack # <<>>
      BY <1>4 DEF AllTold, Paused, TopIs
    <2> DEFINE told == Wake(stack[1].name, stack[1].list)
    <2> HIDE DEF told
    <2>2. stack = <<told>>
      BY <2>1 DEF OnlyTelling, told
    <2>3. stack' = <<>>
      BY <1>4, <2>2 DEF AllTold, Front
    <2>4. QED  BY <2>3 DEF OnlyTelling
  <1>5. CASE Return \/ RunNext \/ RunningEnds
    <2>1. Paused /\ (TopIs("vm") \/ TopIs("running"))
      BY <1>5 DEF Return, RunNext, RunningEnds, Paused
    <2>2. QED  BY <2>1, TopWhenPaused
  <1>6. CASE Game
    <2>1. CASE \E o \in Objects : Unregister(o)
      <3>1. PICK o \in Objects, n \in Names \cup {"0"} :
                stack' = <<Wake(n, Woken(d, o, n))>>
        BY <2>1 DEF Unregister
      <3> DEFINE list == Woken(d, o, n)
      <3> HIDE DEF list
      <3>2. stack' = <<Wake(n, list)>>
        BY <3>1 DEF list
      <3>3. stack'[1].name = n /\ stack'[1].list = list
        BY <3>2 DEF Wake
      <3>4. QED  BY <3>2, <3>3 DEF OnlyTelling
    <2>2. CASE ~Paused
      BY <2>2, <1>6 DEF Game, Unregister, RemoveEvent, StartScript, CancelWaiting, Paused
    <2>3. QED
      BY <1>6, <2>1, <2>2 DEF Game, RemoveEvent, StartScript, CancelWaiting
  <1>7. CASE Frame
    BY <1>7 DEF Frame, NewFrame, Pause, Unpause, Quiet, Paused, OnlyTelling
  <1>8. QED
    BY <1>1, <1>2, <1>3, <1>4, <1>5, <1>6, <1>7 DEF Next, Calls

LEMMA PausedImplies == PausedInv => PausedScriptsWait
  <1> SUFFICES ASSUME PausedInv, Paused, NEW i \in DOMAIN stack
               PROVE  stack[i].kind # "vm"
    BY DEF PausedScriptsWait
  <1>1. CASE stack = <<>>
    BY <1>1
  <1>2. CASE stack = <<Wake(stack[1].name, stack[1].list)>>
    <2>1. i = 1
      BY <1>2
    <2>2. QED  BY <1>2, <2>1 DEF Wake
  <1>3. QED  BY <1>1, <1>2 DEF PausedInv, OnlyTelling

\* No script runs between Director.Pause and Director.Unpause, however many
\* threads are woken there and whatever waits for them.
THEOREM ScriptsArePaused == Spec => []PausedScriptsWait
  <1>1. QED  BY InitPaused, NextPaused, PausedImplies, PTL DEF Spec

-----------------------------------------------------------------------------
(* Induction, on sets: the provers cannot instantiate the library's        *)
(* theorems about a predicate.                                             *)

\* Every nonempty set of natural numbers has a least element.
LEMMA Least ==
    ASSUME NEW T \in SUBSET Nat, T # {}
    PROVE  \E x \in T : \A y \in T : x <= y
<1> DEFINE F == {0 .. m : m \in T}
<1>1. F \subseteq FiniteSubsetsOf(Nat) /\ F # {}
  <2>1. \A m \in T : 0 .. m \in SUBSET Nat /\ IsFiniteSet(0 .. m)
    BY FS_Interval
  <2> QED
    BY <2>1 DEF FiniteSubsetsOf
<1> HIDE DEF F
<1>2. PICK U \in F : \A V \in F : <<V, U>> \notin StrictSubsetOrdering(Nat)
  BY <1>1, WFMin, FS_StrictSubsetOrderingWellFounded
<1>3. \A V \in F : V \subseteq U => V = U
  BY <1>1, <1>2 DEF StrictSubsetOrdering, FiniteSubsetsOf
<1>4. PICK x \in T : U = 0 .. x
  BY DEF F
<1>5. ASSUME NEW y \in T PROVE x <= y
  <2>1. 0 .. y \in F
    BY DEF F
  <2>2. SUFFICES ASSUME y < x PROVE FALSE
    BY <1>4
  <2>3. 0 .. y \subseteq U /\ x \in U /\ x \notin 0 .. y
    BY <1>4, <2>2
  <2> QED
    BY <2>1, <2>3, <1>3
<1> QED
  BY <1>5

LEMMA Induction ==
    ASSUME NEW S, 0 \in S, \A n \in Nat : n \in S => n + 1 \in S
    PROVE  Nat \subseteq S
<1> DEFINE T == Nat \ S
<1> SUFFICES ASSUME T # {} PROVE FALSE
  OBVIOUS
<1>1. PICK x \in T : \A y \in T : x <= y
  BY Least
<1>2. x # 0 /\ x - 1 \in Nat /\ x - 1 \notin T
  BY <1>1
<1> QED
  BY <1>2

\* Recursion over the natural numbers defines a function: f is the union of
\* the functions on 0 .. n that follow its steps.
Follows(f, n, S, base, step) ==
    /\ f \in [0 .. n -> S]
    /\ f[0] = base
    /\ \A i \in 0 .. n - 1 : f[i + 1] = step[i][f[i]]

Stepping(f, S, base, step) ==
    /\ f \in [Nat -> S]
    /\ f[0] = base
    /\ \A n \in Nat : f[n + 1] = step[n][f[n]]

LEMMA Recursion ==
    ASSUME NEW S, NEW base \in S, NEW step \in [Nat -> [S -> S]]
    PROVE  \E f : Stepping(f, S, base, step)
<1> DEFINE A(n, g) == Follows(g, n, S, base, step)
<1>1. \A n \in Nat : \E g : A(n, g)
  <2> DEFINE N == {n \in Nat : \E g : A(n, g)}
  <2>1. A(0, [i \in 0 .. 0 |-> base])
    BY DEF Follows
  <2>2. ASSUME NEW n \in Nat, NEW g, A(n, g)
        PROVE  A(n + 1, [i \in 0 .. n + 1 |-> IF i = n + 1 THEN step[n][g[n]] ELSE g[i]])
    BY <2>2 DEF Follows
  <2> HIDE DEF A
  <2>3. 0 \in N
    BY <2>1
  <2>4. ASSUME NEW n \in N PROVE n + 1 \in N
    <3>1. PICK g : A(n, g)
      OBVIOUS
    <3> DEFINE h == [i \in 0 .. n + 1 |-> IF i = n + 1 THEN step[n][g[n]] ELSE g[i]]
    <3>2. A(n + 1, h)
      BY <3>1, <2>2
    <3> HIDE DEF h
    <3>3. n + 1 \in Nat
      OBVIOUS
    <3> QED
      BY <3>2, <3>3
  <2> HIDE DEF N
  <2>5. Nat \subseteq N
    BY <2>3, <2>4, Induction
  <2> QED
    BY <2>5 DEF N
<1>2. ASSUME NEW m \in Nat, NEW n \in Nat, m <= n, NEW g, NEW h, A(m, g), A(n, h)
      PROVE  g[m] = h[m]
  <2> DEFINE N == {i \in Nat : i <= m => g[i] = h[i]}
  <2>1. 0 \in N
    BY <1>2 DEF Follows
  <2>2. ASSUME NEW i \in Nat, i \in N PROVE i + 1 \in N
    <3> SUFFICES ASSUME i + 1 <= m PROVE g[i + 1] = h[i + 1]
      OBVIOUS
    <3>1. g[i] = h[i] /\ i \in 0 .. m - 1 /\ i \in 0 .. n - 1
      BY <1>2, <2>2
    <3> QED
      BY <3>1, <1>2 DEF Follows
  <2> HIDE DEF N
  <2>3. Nat \subseteq N
    BY <2>1, <2>2, Induction
  <2> QED
    BY <2>3 DEF N
<1> DEFINE f == [n \in Nat |-> (CHOOSE g : A(n, g))[n]]
<1>3. \A n \in Nat : A(n, CHOOSE g : A(n, g))
  <2> HIDE DEF A
  <2> QED
    BY <1>1
<1>4. f[0] = base
  BY <1>3 DEF Follows
<1>5. ASSUME NEW n \in Nat
      PROVE  f[n] \in S /\ f[n + 1] = step[n][f[n]]
  <2> DEFINE upto == CHOOSE g : A(n, g)
             past == CHOOSE g : A(n + 1, g)
  <2>1. A(n, upto) /\ A(n + 1, past)
    <3> HIDE DEF A
    <3> QED
      BY <1>3
  <2>2. f[n] = upto[n] /\ f[n + 1] = past[n + 1]
    OBVIOUS
  <2> HIDE DEF upto, past
  <2>3. upto[n] = past[n]
    BY <1>2, <2>1
  <2> HIDE DEF f
  <2> QED
    BY <2>1, <2>2, <2>3 DEF Follows
<1>6. f \in [Nat -> S]
  <2> \A n \in Nat : f[n] \in S
    BY <1>5
  <2> QED
    OBVIOUS
<1> HIDE DEF f
<1> QED
  BY <1>4, <1>5, <1>6 DEF Stepping

-----------------------------------------------------------------------------
(* Lists: Kept, SetToSeq and FlattenSeq have the elements they should have. *)

\* f follows its steps over the positions 1 .. n.
Along(f, n, S, base, step) ==
    /\ f \in [0 .. n -> S]
    /\ f = [i \in 0 .. n |-> IF i = 0 THEN base ELSE step[i][f[i - 1]]]

\* Recursion over positions 0 .. n.
LEMMA Positions ==
    ASSUME NEW S, NEW base \in S, NEW len \in Nat, NEW step \in [1 .. len -> [S -> S]]
    PROVE  \E f : Along(f, len, S, base, step)
<1> DEFINE g == [i \in Nat |-> IF i \in 0 .. len - 1 THEN step[i + 1] ELSE [x \in S |-> x]]
<1>1. g \in [Nat -> [S -> S]]
  <2> SUFFICES ASSUME NEW i \in Nat PROVE g[i] \in [S -> S]
    OBVIOUS
  <2>1. CASE i \in 0 .. len - 1
    <3>1. i + 1 \in 1 .. len
      BY <2>1
    <3> QED
      BY <2>1, <3>1
  <2>2. CASE i \notin 0 .. len - 1
    BY <2>2
  <2> QED
    BY <2>1, <2>2
<1>2. \A i \in 1 .. len : g[i - 1] = step[i]
  OBVIOUS
<1> HIDE DEF g
<1>3. PICK r \in [Nat -> S] : r[0] = base /\ \A i \in Nat : r[i + 1] = g[i][r[i]]
  <2>1. base \in S
    OBVIOUS
  <2>2. \E f : Stepping(f, S, base, g)
    BY ONLY <1>1, <2>1, Recursion
  <2> QED
    BY <2>2 DEF Stepping
<1> DEFINE f == [i \in 0 .. len |-> r[i]]
<1>4. \A i \in 1 .. len : f[i] = step[i][f[i - 1]]
  <2> SUFFICES ASSUME NEW i \in 1 .. len PROVE f[i] = step[i][f[i - 1]]
    OBVIOUS
  <2>1. r[(i - 1) + 1] = g[i - 1][r[i - 1]]
    BY <1>3
  <2> QED
    BY <2>1, <1>2
<1>5. f \in [0 .. len -> S] /\ f[0] = base
  BY <1>3
<1> HIDE DEF f
<1>6. f = [i \in 0 .. len |-> IF i = 0 THEN base ELSE step[i][f[i - 1]]]
  BY <1>4, <1>5
<1> QED
  BY <1>5, <1>6 DEF Along

\* What holds at 0 and is kept by each step holds at the end.
LEMMA Stepwise ==
    ASSUME NEW n \in Nat, NEW S, 0 \in S, \A i \in 1 .. n : i - 1 \in S => i \in S
    PROVE  0 .. n \subseteq S
<1> DEFINE N == {i \in Nat : i <= n => i \in S}
<1>1. 0 \in N
  OBVIOUS
<1>2. ASSUME NEW i \in Nat, i \in N PROVE i + 1 \in N
  <2> SUFFICES ASSUME i + 1 <= n PROVE i + 1 \in S
    OBVIOUS
  <2>1. i + 1 \in 1 .. n /\ (i + 1) - 1 = i
    OBVIOUS
  <2> QED
    BY <1>2, <2>1
<1> HIDE DEF N
<1>3. Nat \subseteq N
  BY <1>1, <1>2, Induction
<1> QED
  BY <1>3 DEF N

-----------------------------------------------------------------------------
(* Sequences.                                                              *)

\* k has the elements of q that are in S, in their order; h gives their positions.
KeptAt(k, q, S, h) ==
    /\ h \in [DOMAIN k -> DOMAIN q]
    /\ \A i, j \in DOMAIN k : i < j => h[i] < h[j]
    /\ \A i \in DOMAIN k : k[i] = q[h[i]] /\ k[i] \in S
    /\ \A j \in DOMAIN q : q[j] \in S => \E i \in DOMAIN k : h[i] = j

\* The recursion of Kept.
IsKept(f, q, S) ==
    f = [i \in 0 .. Len(q) |->
            IF i = 0 THEN <<>> ELSE IF q[i] \in S THEN Append(f[i - 1], q[i]) ELSE f[i - 1]]

LEMMA KeptRecursion ==
    ASSUME NEW E, NEW q \in Seq(E), NEW S
    PROVE  \E f \in [0 .. Len(q) -> Seq(E)] : IsKept(f, q, S) /\ Kept(q, S) = f[Len(q)]
<1> DEFINE n == Len(q)
           step == [i \in 1 .. n |-> [x \in Seq(E) |->
                       IF q[i] \in S THEN Append(x, q[i]) ELSE x]]
<1>1. n \in Nat /\ <<>> \in Seq(E) /\ step \in [1 .. n -> [Seq(E) -> Seq(E)]]
  OBVIOUS
<1> HIDE DEF n, step
<1> DEFINE X == Seq(E)
           base == <<>>
<1>9. base \in X /\ step \in [1 .. n -> [X -> X]] /\ n \in Nat
  BY <1>1
<1> HIDE DEF X, base
<1>8. \E f : Along(f, n, X, base, step)
  BY ONLY <1>9, Positions
<1>2. PICK f \in [0 .. n -> Seq(E)] :
          f = [i \in 0 .. n |-> IF i = 0 THEN <<>> ELSE step[i][f[i - 1]]]
  BY <1>8 DEF X, base, Along
<1>3. IsKept(f, q, S)
  <2>1. \A i \in 1 .. n : step[i][f[i - 1]] = IF q[i] \in S THEN Append(f[i - 1], q[i]) ELSE f[i - 1]
    <3> SUFFICES ASSUME NEW i \in 1 .. n
                 PROVE  step[i][f[i - 1]] = IF q[i] \in S THEN Append(f[i - 1], q[i]) ELSE f[i - 1]
      OBVIOUS
    <3>1. f[i - 1] \in Seq(E)
      BY <1>1
    <3> QED
      BY <3>1 DEF step
  <2> DEFINE F == [i \in 0 .. n |-> IF i = 0 THEN <<>> ELSE IF q[i] \in S THEN Append(f[i - 1], q[i]) ELSE f[i - 1]]
             G == [i \in 0 .. n |-> IF i = 0 THEN <<>> ELSE step[i][f[i - 1]]]
  <2>2. \A i \in 0 .. n : F[i] = G[i]
    BY <2>1, <1>1
  <2>3. F = G
    BY <2>2
  <2> QED
    BY <1>2, <2>3 DEF IsKept, n
<1> DEFINE r == CHOOSE g : IsKept(g, q, S)
<1>4. IsKept(r, q, S)
  BY <1>3
<1>5. Kept(q, S) = r[Len(q)]
  BY DEF Kept, IsKept
<1> HIDE DEF r
<1>6. 0 .. n \subseteq {i \in 0 .. n : r[i] \in Seq(E)}
  <2> DEFINE N == {i \in 0 .. n : r[i] \in Seq(E)}
  <2>1. 0 \in N
    BY <1>4, <1>1 DEF IsKept, n
  <2>2. ASSUME NEW i \in 1 .. n, i - 1 \in N PROVE i \in N
    <3>1. r[i] = IF q[i] \in S THEN Append(r[i - 1], q[i]) ELSE r[i - 1]
      <4>1. i \in 0 .. Len(q) /\ i # 0
        BY <1>1 DEF n
      <4> QED
        BY <4>1, <1>4 DEF IsKept
    <3>2. q[i] \in E /\ r[i - 1] \in Seq(E) /\ i \in 0 .. n
      BY <2>2 DEF n
    <3>3. r[i] \in Seq(E)
      BY <3>1, <3>2
    <3> QED
      BY <3>2, <3>3
  <2> HIDE DEF N
  <2> QED
    BY <1>1, <2>1, <2>2, Stepwise DEF N
<1>7. r \in [0 .. n -> Seq(E)]
  <2>1. r = [i \in 0 .. n |-> r[i]]
    BY <1>4 DEF IsKept, n
  <2> QED
    BY <2>1, <1>6
<1> QED
  BY <1>4, <1>5, <1>7 DEF n

LEMMA KeptFacts ==
    ASSUME NEW E, NEW q \in Seq(E), NEW S
    PROVE  /\ Kept(q, S) \in Seq(E)
           /\ \E h : KeptAt(Kept(q, S), q, S, h)
<1>1. PICK f \in [0 .. Len(q) -> Seq(E)] : IsKept(f, q, S) /\ Kept(q, S) = f[Len(q)]
  BY KeptRecursion
<1> DEFINE n == Len(q)
           upto(i) == SubSeq(q, 1, i)
           N == {i \in 0 .. n : \E h : KeptAt(f[i], upto(i), S, h)}
<1>2. 0 \in N
  <2>1. f[0] = <<>> /\ upto(0) = <<>>
    BY <1>1 DEF IsKept
  <2>2. KeptAt(<<>>, <<>>, S, <<>>)
    BY DEF KeptAt
  <2> QED
    BY <2>1, <2>2
<1>3. ASSUME NEW i \in 1 .. n, i - 1 \in N PROVE i \in N
  <2> DEFINE x == f[i - 1]
             y == f[i]
  <2>1. PICK h : KeptAt(x, upto(i - 1), S, h)
    BY <1>3
  <2>2. x \in Seq(E) /\ y = IF q[i] \in S THEN Append(x, q[i]) ELSE x
    <3>1. i \in 0 .. Len(q) /\ i # 0 /\ i - 1 \in 0 .. Len(q)
      OBVIOUS
    <3> QED
      BY <3>1, <1>1 DEF IsKept
  <2>3. /\ DOMAIN upto(i) = 1 .. i /\ DOMAIN upto(i - 1) = 1 .. i - 1
        /\ \A j \in 1 .. i : upto(i)[j] = q[j]
        /\ \A j \in 1 .. i - 1 : upto(i - 1)[j] = q[j]
    OBVIOUS
  <2> HIDE DEF x, y, upto
  <2>4. CASE q[i] \notin S
    <3>1. y = x
      BY <2>2, <2>4
    <3>2. h \in [DOMAIN x -> 1 .. i] /\ \A j \in DOMAIN x : upto(i)[h[j]] = upto(i - 1)[h[j]]
      BY <2>1, <2>3 DEF KeptAt
    <3>3. \A j \in 1 .. i : upto(i)[j] \in S => j \in 1 .. i - 1 /\ upto(i - 1)[j] \in S
      BY <2>3, <2>4
    <3>4. KeptAt(y, upto(i), S, h)
      BY <2>1, <2>3, <3>1, <3>2, <3>3 DEF KeptAt
    <3> QED
      BY <3>4 DEF y
  <2>5. CASE q[i] \in S
    <3> DEFINE m == Len(x) + 1
               g == [j \in 1 .. m |-> IF j = m THEN i ELSE h[j]]
    <3>1. /\ m \in Nat /\ m >= 1 /\ DOMAIN x = 1 .. m - 1 /\ DOMAIN y = 1 .. m
          /\ y[m] = q[i] /\ \A j \in 1 .. m - 1 : y[j] = x[j]
      BY <2>2, <2>5
    <3> HIDE DEF m
    <3>2. \A j \in 1 .. m - 1 : h[j] \in 1 .. i - 1
      BY <3>1, <2>1, <2>3 DEF KeptAt
    <3>9. g \in [1 .. m -> 1 .. i] /\ g[m] = i /\ \A j \in 1 .. m - 1 : g[j] = h[j]
      <4>1. g[m] = i /\ \A j \in 1 .. m - 1 : j # m /\ g[j] = h[j]
        BY <3>1
      <4>2. \A j \in 1 .. m : j = m \/ j \in 1 .. m - 1
        BY <3>1
      <4>3. \A j \in 1 .. m : g[j] \in 1 .. i
        BY <4>1, <4>2, <3>2
      <4> HIDE DEF m
      <4>4. g \in [1 .. m -> 1 .. i]
        BY <4>3
      <4> QED
        BY <4>1, <4>4
    <3> HIDE DEF g
    <3>3. ASSUME NEW j \in 1 .. m, NEW k \in 1 .. m, j < k PROVE g[j] < g[k]
      <4>1. j \in 1 .. m - 1 /\ g[j] \in 1 .. i - 1
        BY <3>1, <3>2, <3>3, <3>9
      <4>2. CASE k = m
        BY <4>1, <4>2, <3>9
      <4>3. CASE k # m
        <5>1. k \in 1 .. m - 1
          BY <4>3, <3>1
        <5>2. h[j] < h[k]
          BY <4>1, <5>1, <3>1, <3>3, <2>1 DEF KeptAt
        <5> QED
          BY <5>1, <5>2, <4>1, <3>9
      <4> QED
        BY <4>2, <4>3
    <3>4. ASSUME NEW j \in 1 .. m PROVE y[j] = upto(i)[g[j]] /\ y[j] \in S
      <4>1. CASE j = m
        BY <4>1, <3>1, <3>9, <2>3, <2>5
      <4>2. CASE j # m
        <5>1. j \in 1 .. m - 1 /\ j \in DOMAIN x /\ g[j] = h[j] /\ h[j] \in 1 .. i - 1
          BY <4>2, <3>1, <3>2, <3>9
        <5>2. x[j] = upto(i - 1)[h[j]] /\ x[j] \in S
          BY <5>1, <2>1 DEF KeptAt
        <5>3. upto(i)[h[j]] = q[h[j]] /\ upto(i - 1)[h[j]] = q[h[j]] /\ y[j] = x[j]
          BY <5>1, <2>3, <3>1
        <5> QED
          BY <5>1, <5>2, <5>3
      <4> QED
        BY <4>1, <4>2
    <3>5. ASSUME NEW k \in 1 .. i, upto(i)[k] \in S PROVE \E j \in 1 .. m : g[j] = k
      <4>1. CASE k = i
        <5>1. m \in 1 .. m
          BY <3>1
        <5> QED
          BY <4>1, <5>1, <3>9
      <4>2. CASE k # i
        <5>1. k \in 1 .. i - 1 /\ upto(i - 1)[k] \in S
          BY <4>2, <3>5, <2>3
        <5>2. PICK j \in DOMAIN x : h[j] = k
          BY <5>1, <2>1, <2>3 DEF KeptAt
        <5>3. j \in 1 .. m /\ g[j] = h[j]
          BY <3>1, <3>9
        <5> QED
          BY <5>2, <5>3
      <4> QED
        BY <4>1, <4>2
    <3>6. KeptAt(y, upto(i), S, g)
      BY <3>1, <3>9, <3>3, <3>4, <3>5, <2>3 DEF KeptAt
    <3> QED
      BY <3>6 DEF y
  <2> QED
    BY <2>4, <2>5
<1>4. n \in Nat /\ upto(n) = q
  OBVIOUS
<1> HIDE DEF N, n, upto
<1>5. 0 .. n \subseteq N
  BY ONLY <1>2, <1>3, <1>4, Stepwise
<1>6. n \in N
  BY <1>4, <1>5
<1> QED
  BY <1>1, <1>4, <1>6 DEF N, n

\* k has the elements of q that are in S and no others.
Filtered(k, q, S, E) ==
    /\ k \in Seq(E)
    /\ \A i \in DOMAIN k : k[i] \in S /\ \E j \in DOMAIN q : q[j] = k[i]
    /\ \A j \in DOMAIN q : q[j] \in S => \E i \in DOMAIN k : k[i] = q[j]

LEMMA KeptElements ==
    ASSUME NEW E, NEW q \in Seq(E), NEW S
    PROVE  Filtered(Kept(q, S), q, S, E)
<1>1. PICK h : KeptAt(Kept(q, S), q, S, h)
  BY KeptFacts
<1>2. Kept(q, S) \in Seq(E)
  BY KeptFacts
<1> DEFINE K == Kept(q, S)
<1> HIDE DEF K
<1>3. KeptAt(K, q, S, h)
  BY <1>1 DEF K
<1>4. \A k \in DOMAIN K : K[k] \in S /\ h[k] \in DOMAIN q /\ q[h[k]] = K[k]
  BY <1>3 DEF KeptAt
<1>5. ASSUME NEW i \in DOMAIN q, q[i] \in S PROVE \E k \in DOMAIN K : K[k] = q[i]
  <2>1. PICK k \in DOMAIN K : h[k] = i
    BY <1>3, <1>5 DEF KeptAt
  <2> QED
    BY <2>1, <1>4
<1> QED
  BY <1>2, <1>4, <1>5 DEF K, Filtered

LEMMA KeptSeq ==
    ASSUME NEW E, NEW q \in Seq(E), NEW S
    PROVE  Kept(q, S) \in Seq(E)
BY KeptFacts

LEMMA KeptOfEmpty ==
    ASSUME NEW S
    PROVE  Kept(<<>>, S) = <<>>
<1> DEFINE q == <<>>
           K == Kept(q, S)
<1>1. q \in Seq({}) /\ DOMAIN q = {}
  OBVIOUS
<1>2. K \in Seq({})
  BY <1>1, KeptElements DEF Filtered
<1> HIDE DEF K
<1>3. K = <<>>
  BY <1>2
<1> QED
  BY <1>3 DEF K

\* Elements that are kept stay apart.
LEMMA KeptApart ==
    ASSUME NEW q \in Seq(Elements(Threads)), NEW S,
           \A j, k \in DOMAIN q : q[j].thread = q[k].thread => j = k
    PROVE  \A j, k \in DOMAIN Kept(q, S) : Kept(q, S)[j].thread = Kept(q, S)[k].thread => j = k
<1> DEFINE K == Kept(q, S)
<1>1. PICK h : KeptAt(K, q, S, h)
  BY KeptFacts
<1>2. K \in Seq(Elements(Threads))
  BY KeptFacts
<1> HIDE DEF K
<1> SUFFICES ASSUME NEW j \in DOMAIN K, NEW k \in DOMAIN K, K[j].thread = K[k].thread
             PROVE  j = k
  BY DEF K
<1>3. h[j] \in DOMAIN q /\ h[k] \in DOMAIN q /\ K[j] = q[h[j]] /\ K[k] = q[h[k]]
  BY <1>1 DEF KeptAt
<1>4. h[j] = h[k]
  BY <1>3
<1>5. j \in Nat /\ k \in Nat /\ h[j] \in Nat /\ h[k] \in Nat
  BY <1>2, <1>3
<1>6. ~(j < k) /\ ~(k < j)
  BY <1>1, <1>4, <1>5 DEF KeptAt
<1> QED
  BY <1>5, <1>6

LEMMA SetToSeqElements ==
    ASSUME NEW S, IsFiniteSet(S)
    PROVE  /\ SetToSeq(S) \in Seq(S)
           /\ \A x \in S : \E k \in DOMAIN SetToSeq(S) : SetToSeq(S)[k] = x
           /\ \A j, k \in DOMAIN SetToSeq(S) : SetToSeq(S)[j] = SetToSeq(S)[k] => j = k
<1> DEFINE n == Cardinality(S)
<1>1. n \in Nat /\ ExistsBijection(1 .. n, S)
  BY FS_CardinalityType
<1> HIDE DEF n
<1>2. PICK b \in Bijection(1 .. n, S) : TRUE
  BY <1>1 DEF ExistsBijection
<1>3. b \in [1 .. n -> S] /\ IsInjective(b)
  BY <1>2 DEF Bijection, Injection, IsInjective
<1> DEFINE f == SetToSeq(S)
<1>4. f \in [1 .. n -> S] /\ IsInjective(f)
  <2>1. f = CHOOSE g \in [1 .. n -> S] : IsInjective(g)
    BY DEF SetToSeq, n
  <2> HIDE DEF f
  <2> QED
    BY <1>3, <2>1
<1> HIDE DEF f
<1>5. f \in Seq(S) /\ \A j, k \in 1 .. n : f[j] = f[k] => j = k
  BY <1>1, <1>4 DEF IsInjective
<1>6. f \in Injection(1 .. n, S)
  BY <1>4 DEF Injection, IsInjective
<1>7. f \in Surjection(1 .. n, S)
  <2>1. IsFiniteSet(1 .. n) /\ Cardinality(1 .. n) = n
    BY <1>1, FS_Interval
  <2> QED
    BY <2>1, <1>6, FS_Injection DEF n
<1> QED
  BY <1>4, <1>5, <1>7 DEF Surjection, f

\* The recursion of FlattenSeq.
IsFlat(f, q) == f = [i \in 1 .. Len(q) |-> IF i = 1 THEN q[i] ELSE f[i - 1] \o q[i]]

\* f has the elements of the sequences of q and no others.
Flattened(f, q, E) ==
    /\ f \in Seq(E)
    /\ \A k \in DOMAIN f : \E i \in DOMAIN q : \E j \in DOMAIN q[i] : f[k] = q[i][j]
    /\ \A i \in DOMAIN q : \A j \in DOMAIN q[i] : \E k \in DOMAIN f : f[k] = q[i][j]

LEMMA FlattenSeqElements ==
    ASSUME NEW E, NEW q \in Seq(Seq(E))
    PROVE  Flattened(FlattenSeq(q), q, E)
<1> DEFINE n == Len(q)
<1>1. CASE n = 0
  <2>1. q = <<>> /\ FlattenSeq(q) = <<>> /\ DOMAIN q = {}
    BY <1>1 DEF FlattenSeq
  <2>2. Flattened(<<>>, <<>>, E)
    BY DEF Flattened
  <2> QED
    BY <2>1, <2>2
<1>2. CASE n # 0
  <2> DEFINE X == Seq(E)
             m == n - 1
             base == q[1]
             step == [i \in 1 .. m |-> [x \in X |-> x \o q[i + 1]]]
  <2>1. n \in Nat /\ n >= 1 /\ \A i \in 1 .. n : q[i] \in Seq(E)
    BY <1>2
  <2>2. m \in Nat /\ base \in X /\ step \in [1 .. m -> [X -> X]]
    <3>1. \A i \in 1 .. m : i + 1 \in 1 .. n
      BY <2>1
    <3>2. \A i \in 1 .. m, x \in X : x \o q[i + 1] \in X
      BY <3>1, <2>1
    <3> QED
      BY <3>2, <2>1
  <2>3. \A i \in 1 .. m : \A x \in X : step[i][x] = x \o q[i + 1]
    OBVIOUS
  <2> HIDE DEF X, base, step
  <2>4. PICK g : Along(g, m, X, base, step)
    BY ONLY <2>2, Positions
  <2> DEFINE f == [i \in 1 .. n |-> g[i - 1]]
  <2>5. IsFlat(f, q)
    <3>1. ASSUME NEW i \in 1 .. n
          PROVE  f[i] = IF i = 1 THEN q[i] ELSE f[i - 1] \o q[i]
      <4>1. CASE i = 1
        BY <4>1, <2>1, <2>2, <2>4 DEF Along, base
      <4>2. CASE i # 1
        <5> DEFINE k == i - 1
        <5>1. k \in 1 .. m /\ k \in 0 .. m /\ k # 0 /\ k - 1 \in 0 .. m /\ k + 1 = i /\ k \in 1 .. n
          BY <4>2, <2>1
        <5> HIDE DEF m, n
        <5>2. g[k] = step[k][g[k - 1]] /\ g[k - 1] \in X
          BY <5>1, <2>4 DEF Along
        <5>3. f[i] = g[k] /\ f[k] = g[k - 1]
          BY <5>1
        <5>4. g[k] = g[k - 1] \o q[i]
          BY <5>1, <5>2, <2>3
        <5> QED
          BY <4>2, <5>3, <5>4
      <4> QED
        BY <4>1, <4>2
    <3> HIDE DEF f
    <3>2. f = [i \in 1 .. n |-> f[i]]
      BY DEF f
    <3> QED
      BY <3>1, <3>2 DEF IsFlat
  <2> DEFINE r == CHOOSE h : IsFlat(h, q)
  <2>6. IsFlat(r, q)
    <3> HIDE DEF f
    <3> QED
      BY <2>5
  <2>7. FlattenSeq(q) = r[n]
    BY <1>2 DEF FlattenSeq, IsFlat
  <2> HIDE DEF r, f
  <2> DEFINE Flat(i) ==
               /\ r[i] \in Seq(E)
               /\ \A k \in DOMAIN r[i] : \E l \in 1 .. i : \E j \in DOMAIN q[l] : r[i][k] = q[l][j]
               /\ \A l \in 1 .. i : \A j \in DOMAIN q[l] : \E k \in DOMAIN r[i] : r[i][k] = q[l][j]
             N == {i \in 0 .. n : i = 0 \/ Flat(i)}
  <2>8. 0 \in N
    BY <2>1
  <2>9. ASSUME NEW i \in 1 .. n, i - 1 \in N PROVE i \in N
    <3>1. r[i] = IF i = 1 THEN q[i] ELSE r[i - 1] \o q[i]
      BY <2>6 DEF IsFlat
    <3>2. CASE i = 1
      <4>1. r[1] = q[1] /\ q[1] \in Seq(E)
        BY <2>1, <3>1, <3>2
      <4>2. Flat(1)
        BY <4>1
      <4> HIDE DEF Flat
      <4> QED
        BY <3>2, <4>2
    <3>3. CASE i # 1
      <4> DEFINE a == r[i - 1]
                 b == q[i]
                 c == r[i]
      <4>1. Flat(i - 1)
        BY <2>9, <3>3
      <4>2. a \in Seq(E) /\ b \in Seq(E) /\ c = a \o b
        BY <2>1, <3>1, <3>3, <4>1
      <4>3. \A k \in DOMAIN a : \E l \in 1 .. i - 1 : \E j \in DOMAIN q[l] : a[k] = q[l][j]
        BY <4>1
      <4>4. \A l \in 1 .. i - 1 : \A j \in DOMAIN q[l] : \E k \in DOMAIN a : a[k] = q[l][j]
        BY <4>1
      <4> HIDE DEF a, c, Flat
      <4>5. /\ c \in Seq(E)
            /\ \A k \in DOMAIN a : k \in DOMAIN c /\ c[k] = a[k]
            /\ \A k \in DOMAIN b : Len(a) + k \in DOMAIN c /\ c[Len(a) + k] = b[k]
            /\ \A k \in DOMAIN c : (k \in DOMAIN a /\ c[k] = a[k])
                                   \/ (k - Len(a) \in DOMAIN b /\ c[k] = b[k - Len(a)])
        <5> HIDE DEF b
        <5>1. Len(c) = Len(a) + Len(b)
          BY <4>2
        <5>2. \A k \in 1 .. Len(c) : c[k] = IF k <= Len(a) THEN a[k] ELSE b[k - Len(a)]
          BY <4>2
        <5>3. c \in Seq(E) /\ Len(a) \in Nat /\ Len(b) \in Nat
          BY <4>2
        <5>4. DOMAIN a = 1 .. Len(a) /\ DOMAIN b = 1 .. Len(b) /\ DOMAIN c = 1 .. Len(c)
          BY <4>2, <5>3
        <5> QED
          BY <5>1, <5>2, <5>3, <5>4
      <4>6. ASSUME NEW k \in DOMAIN c
            PROVE  \E l \in 1 .. i : \E j \in DOMAIN q[l] : c[k] = q[l][j]
        <5>1. CASE k \in DOMAIN a /\ c[k] = a[k]
          <6>1. PICK l \in 1 .. i - 1 : \E j \in DOMAIN q[l] : a[k] = q[l][j]
            BY <5>1, <4>3
          <6>2. l \in 1 .. i
            OBVIOUS
          <6> QED
            BY <5>1, <6>1, <6>2
        <5>2. CASE k - Len(a) \in DOMAIN b /\ c[k] = b[k - Len(a)]
          BY <5>2
        <5> QED
          BY <4>5, <5>1, <5>2
      <4>7. ASSUME NEW l \in 1 .. i, NEW j \in DOMAIN q[l]
            PROVE  \E k \in DOMAIN c : c[k] = q[l][j]
        <5>1. CASE l = i
          BY <5>1, <4>5
        <5>2. CASE l # i
          <6>1. l \in 1 .. i - 1
            BY <5>2
          <6>2. PICK k \in DOMAIN a : a[k] = q[l][j]
            BY <6>1, <4>4
          <6> QED
            BY <6>2, <4>5
        <5> QED
          BY <5>1, <5>2
      <4>8. Flat(i)
        BY <4>5, <4>6, <4>7 DEF c, Flat
      <4> QED
        BY <4>8
    <3> QED
      BY <3>2, <3>3
  <2> HIDE DEF N, Flat, n
  <2>10. 0 .. n \subseteq N
    BY ONLY <2>1, <2>8, <2>9, Stepwise
  <2>11. n \in N
    BY <2>1, <2>10
  <2>12. Flat(n)
    BY <2>1, <2>11 DEF N
  <2>13. DOMAIN q = 1 .. n
    BY DEF n
  <2>14. Flattened(r[n], q, E)
    BY <2>12, <2>13 DEF Flat, Flattened
  <2> QED
    BY <2>7, <2>14
<1> QED
  BY <1>1, <1>2

-----------------------------------------------------------------------------
(* The data, whatever scripts do with it.                                  *)

States == {"RUNNING", "WAITING", "SUSPENDED"}
VMStates == {"none", "EXECUTION", "RUNNING", "SUSPENDED", "DESTROYED"}
Entry == Entries(AnyName, Threads)
Waited == AnyName \X Listeners

Data ==
    [alive : SUBSET Listeners,
     vm : [Threads -> VMStates],
     state : [Threads -> States],
     notify : [Listeners -> Seq(Entry)],
     waitFor : [Threads -> SUBSET Waited],
     ends : [Objects -> SUBSET (Names \X Threads)],
     timer : Seq(Elements(Threads)), dirty : BOOLEAN, inttime : Int,
     timeouts : SUBSET Elements(Threads),
     level : Int,
     asked : [Threads -> SUBSET Waited],
     timed : SUBSET Threads]

\* A listener knows of a thread for a name exactly when the thread waits for it.
Registered(s) ==
    \A t \in Threads, l \in Listeners, n \in AnyName :
        <<n, l>> \in s.waitFor[t] <=> \E k \in DOMAIN s.notify[l] : s.notify[l][k] = <<n, t>>

\* Nothing is left of a listener that has been deleted.
Living(s) ==
    /\ \A l \in Listeners \ s.alive : s.notify[l] = <<>>
    /\ \A t \in Threads \ s.alive : s.waitFor[t] = {} /\ s.vm[t] # "RUNNING"
                                    /\ s.state[t] = "RUNNING"
    /\ \A e \in s.timeouts : e.thread \in s.alive

\* The timer has those threads that wait for time, each once.
TimerAgrees(s) ==
    /\ \A t \in Threads : s.state[t] = "WAITING" <=> \E k \in DOMAIN s.timer : s.timer[k].thread = t
    /\ \A j, k \in DOMAIN s.timer : s.timer[j].thread = s.timer[k].thread => j = k

\* The list is dirty when it has a thread whose time has come.
TimerDirty(s) == \A k \in DOMAIN s.timer : s.timer[k].time <= s.inttime => s.dirty

\* A thread waits for the end of other threads, never for any other name of them,
\* and they do not wait for it.
Parents(s) ==
    /\ \A t \in Threads : \A w \in s.waitFor[t] : w[2] \in Threads => w[1] = "0"
    /\ \A C \in SUBSET Threads : C # {} =>
         \E x \in C : \A c \in C : <<"0", c>> \notin s.waitFor[x]

\* A thread that waits for listeners is suspended.
Suspended(s, T) == \A t \in T : s.waitFor[t] # {} => s.state[t] = "SUSPENDED"

Lists(s) == Registered(s) /\ Living(s) /\ TimerAgrees(s) /\ TimerDirty(s) /\ Parents(s)

Good(s) == Lists(s) /\ Suspended(s, Threads)

\* A timeout ends the wait it was given for, or the thread is in T, being woken.
Timeouts(s, T) ==
    \A e \in s.timeouts :
        \/ e.thread \in T
        \/ /\ e.thread \in s.timed
           /\ s.state[e.thread] = "SUSPENDED" /\ s.waitFor[e.thread] # {}

Frames ==
    [kind : {"vm"}, thread : Threads, left : Int]
        \cup [kind : {"wake"}, name : AnyName, list : Seq(Threads)]
        \cup [kind : {"running"}, start : Int]

\* Who is about to be told that a wait is over.
Telling(st) == {t \in Threads : \E i \in DOMAIN st : st[i].kind = "wake" /\ t \in Range(st[i].list)}

\* The threads that wait for the end of a move wait for nothing else.
Moves(s, st) ==
    \A i \in DOMAIN st : st[i].kind = "wake" /\ st[i].name = "0" =>
        /\ Len(st) = 1
        /\ \A k \in DOMAIN st[i].list : s.waitFor[st[i].list[k]] = {}

Holds(s, st) ==
    /\ st \in Seq(Frames)
    /\ s \in Data
    /\ Good(s)
    /\ Timeouts(s, Telling(st))
    /\ Moves(s, st)

\* The inductive invariant.
ListInv == Holds(d, stack)

-----------------------------------------------------------------------------
(* Waiting is over.                                                        *)

\* r is s after the threads of T have stopped waiting.
Stops(r, s, T) ==
    /\ r.alive = s.alive /\ r.vm = s.vm /\ r.notify = s.notify /\ r.waitFor = s.waitFor
    /\ r.ends = s.ends /\ r.inttime = s.inttime /\ r.level = s.level
    /\ r.asked = s.asked /\ r.timed = s.timed
    /\ r.timeouts = {e \in s.timeouts : e.thread \notin T}
    /\ \A t \in Threads :
         r.state[t] = IF t \in T /\ s.state[t] = "SUSPENDED" THEN "WAITING" ELSE s.state[t]

\* What con_timer keeps of the two.
TimerOK(s) == TimerAgrees(s) /\ TimerDirty(s)

\* r is s, but t waits for time.
Waits(r, s, t) ==
    r = [s EXCEPT !.state = [s.state EXCEPT ![t] = "WAITING"], !.timer = r.timer, !.dirty = r.dirty]

\* A thread that is not in the timer is put there.
LEMMA TimedThread ==
    ASSUME NEW s \in Data, NEW t \in Threads, NEW time \in Int,
           TimerOK(s), s.state[t] # "WAITING"
    PROVE  /\ Timed(s, t, time) \in Data
           /\ TimerOK(Timed(s, t, time))
           /\ Waits(Timed(s, t, time), s, t)
<1> DEFINE r == Timed(s, t, time)
           element == [thread |-> t, time |-> time]
<1>1. /\ s.state \in [Threads -> States] /\ s.timer \in Seq(Elements(Threads))
      /\ s.dirty \in BOOLEAN /\ s.inttime \in Int /\ element \in Elements(Threads)
  BY DEF Data, Elements
<1>2. r = [s EXCEPT !.state = [s.state EXCEPT ![t] = "WAITING"],
                    !.timer = Append(s.timer, element),
                    !.dirty = s.dirty \/ time <= s.inttime]
  BY DEF Timed, AddElement, Data
<1>3. /\ r.state = [s.state EXCEPT ![t] = "WAITING"]
      /\ r.timer = Append(s.timer, element)
      /\ r.dirty = (s.dirty \/ time <= s.inttime)
      /\ r.inttime = s.inttime
  BY <1>2 DEF Data
<1>4. r.state \in [Threads -> States] /\ r.timer \in Seq(Elements(Threads)) /\ r.dirty \in BOOLEAN
  BY <1>1, <1>3 DEF States
<1>5. r = [s EXCEPT !.state = r.state, !.timer = r.timer, !.dirty = r.dirty]
  BY <1>2, <1>3
<1> HIDE DEF r
<1>6. r \in Data
  BY <1>4, <1>5 DEF Data
<1> DEFINE n == Len(s.timer)
<1>7. /\ n \in Nat /\ DOMAIN s.timer = 1 .. n /\ DOMAIN r.timer = 1 .. n + 1
      /\ r.timer[n + 1] = element
      /\ \A k \in 1 .. n : r.timer[k] = s.timer[k]
  BY <1>1, <1>3
<1> HIDE DEF n
<1>8. \A k \in 1 .. n : s.timer[k].thread # t
  BY <1>7 DEF TimerOK, TimerAgrees
<1>9. TimerAgrees(r)
  <2>1. ASSUME NEW x \in Threads
        PROVE  r.state[x] = "WAITING" <=> \E k \in 1 .. n + 1 : r.timer[k].thread = x
    <3>1. CASE x = t
      BY <3>1, <1>1, <1>3, <1>7
    <3>2. CASE x # t
      <4>1. r.state[x] = s.state[x]
        BY <3>2, <1>1, <1>3
      <4>2. r.state[x] = "WAITING" <=> \E k \in 1 .. n : s.timer[k].thread = x
        BY <4>1, <1>7 DEF TimerOK, TimerAgrees
      <4>3. ASSUME NEW k \in 1 .. n + 1, r.timer[k].thread = x PROVE k \in 1 .. n
        BY <4>3, <3>2, <1>7
      <4> QED
        BY <4>2, <4>3, <1>7
    <3> QED
      BY <3>1, <3>2
  <2>2. ASSUME NEW j \in 1 .. n + 1, NEW k \in 1 .. n + 1, r.timer[j].thread = r.timer[k].thread
        PROVE  j = k
    <3>1. CASE j = n + 1 \/ k = n + 1
      BY <3>1, <2>2, <1>7, <1>8
    <3>2. CASE j \in 1 .. n /\ k \in 1 .. n
      <4>1. s.timer[j].thread = s.timer[k].thread
        BY <3>2, <2>2, <1>7
      <4> QED
        BY <4>1, <3>2, <1>7 DEF TimerOK, TimerAgrees
    <3> QED
      BY <3>1, <3>2, <1>7
  <2> QED
    BY <1>7, <2>1, <2>2 DEF TimerAgrees
<1>10. TimerDirty(r)
  <2> SUFFICES ASSUME NEW k \in 1 .. n + 1, r.timer[k].time <= r.inttime PROVE r.dirty
    BY <1>7 DEF TimerDirty
  <2>1. CASE k = n + 1
    <3>1. r.timer[k].time = time
      BY <2>1, <1>7
    <3>2. time <= s.inttime
      BY <3>1, <1>3
    <3> QED
      BY <3>2, <1>3
  <2>2. CASE k \in 1 .. n
    <3>1. s.dirty
      BY <2>2, <1>3, <1>7 DEF TimerOK, TimerDirty
    <3> QED
      BY <3>1, <1>3
  <2> QED
    BY <2>1, <2>2, <1>7
<1> QED
  BY <1>3, <1>5, <1>6, <1>9, <1>10 DEF TimerOK, Waits, r

LEMMA OneStopped ==
    ASSUME NEW s \in Data, NEW t \in Threads, TimerOK(s)
    PROVE  /\ StoppedWaiting(s, t) \in Data
           /\ TimerOK(StoppedWaiting(s, t))
           /\ Stops(StoppedWaiting(s, t), s, {t})
<1> DEFINE c == CancelEvents(s, t)
           r == StoppedWaiting(s, t)
<1>1. c = [s EXCEPT !.timeouts = {e \in s.timeouts : e.thread # t}]
  BY DEF CancelEvents
<1>2. /\ c \in Data /\ c.timeouts = {e \in s.timeouts : e.thread # t}
      /\ c.alive = s.alive /\ c.vm = s.vm /\ c.notify = s.notify /\ c.waitFor = s.waitFor
      /\ c.ends = s.ends /\ c.inttime = s.inttime /\ c.level = s.level
      /\ c.asked = s.asked /\ c.timed = s.timed
      /\ c.state = s.state /\ c.timer = s.timer /\ c.dirty = s.dirty
  BY <1>1 DEF Data
<1>3. TimerOK(c)
  BY <1>2 DEF TimerOK, TimerAgrees, TimerDirty
<1>4. r = IF c.state[t] = "SUSPENDED" THEN Timed(c, t, c.level) ELSE c
  BY DEF StoppedWaiting
<1> HIDE DEF c
<1>5. CASE c.state[t] = "SUSPENDED"
  <2>1. c.level \in Int
    BY <1>2 DEF Data
  <2>2. r \in Data /\ TimerOK(r) /\ Waits(r, c, t)
    <3>1. r = Timed(c, t, c.level)
      BY <1>4, <1>5
    <3>2. c.state[t] # "WAITING"
      BY <1>5
    <3> HIDE DEF r
    <3> QED
      BY <1>2, <1>3, <2>1, <3>1, <3>2, TimedThread
  <2> HIDE DEF r
  <2>3. /\ r.alive = c.alive /\ r.vm = c.vm /\ r.notify = c.notify /\ r.waitFor = c.waitFor
        /\ r.ends = c.ends /\ r.inttime = c.inttime /\ r.level = c.level
        /\ r.asked = c.asked /\ r.timed = c.timed /\ r.timeouts = c.timeouts
        /\ r.state = [c.state EXCEPT ![t] = "WAITING"]
    BY <1>2, <2>2 DEF Data, Waits
  <2>4. s.state \in [Threads -> States]
    BY DEF Data
  <2>5. Stops(r, s, {t})
    BY <1>2, <1>5, <2>3, <2>4 DEF Stops
  <2> QED
    BY <2>2, <2>5 DEF r
<1>6. CASE c.state[t] # "SUSPENDED"
  <2>1. r = c
    BY <1>4, <1>6
  <2>2. Stops(c, s, {t})
    BY <1>2, <1>6 DEF Stops
  <2> QED
    BY <2>1, <2>2, <1>2, <1>3
<1> QED
  BY <1>5, <1>6

\* The recursion of Delete: the threads of list are told one after the other.
IsTold(f, s, list) ==
    f = [i \in 0 .. Len(list) |-> IF i = 0 THEN s ELSE StoppedWaiting(f[i - 1], list[i][2])]

\* The threads of a list of entries.
ThreadsOf(list) == {list[k][2] : k \in DOMAIN list}

LEMMA ToldExists ==
    ASSUME NEW s \in Data, NEW list \in Seq(Entry), TimerOK(s)
    PROVE  \E f : IsTold(f, s, list)
<1> DEFINE X == {x \in Data : TimerOK(x)}
           n == Len(list)
           step == [i \in 1 .. n |-> [x \in X |-> StoppedWaiting(x, list[i][2])]]
<1>1. n \in Nat /\ s \in X
  OBVIOUS
<1>2. \A i \in 1 .. n : list[i][2] \in Threads
  BY DEF Entry, Entries
<1>3. \A i \in 1 .. n : \A x \in X : StoppedWaiting(x, list[i][2]) \in X
  BY <1>2, OneStopped
<1>4. step \in [1 .. n -> [X -> X]]
  <2> HIDE DEF X
  <2> QED
    BY <1>3
<1>5. \A i \in 1 .. n : \A x \in X : step[i][x] = StoppedWaiting(x, list[i][2])
  <2> HIDE DEF X
  <2> QED
    OBVIOUS
<1> HIDE DEF X, step
<1>6. PICK f : Along(f, n, X, s, step)
  <2> HIDE DEF n
  <2> QED
    BY ONLY <1>1, <1>4, Positions
<1>7. ASSUME NEW i \in 0 .. n
      PROVE  f[i] = IF i = 0 THEN s ELSE StoppedWaiting(f[i - 1], list[i][2])
  <2>1. CASE i = 0
    BY <2>1, <1>6 DEF Along
  <2>2. CASE i # 0
    <3>1. i \in 1 .. n /\ i - 1 \in 0 .. n
      BY <2>2
    <3> HIDE DEF n
    <3>2. f[i] = step[i][f[i - 1]] /\ f[i - 1] \in X
      BY <3>1, <2>2, <1>6 DEF Along
    <3> QED
      BY <2>2, <3>1, <3>2, <1>5
  <2> QED
    BY <2>1, <2>2
<1>8. f = [i \in 0 .. n |-> f[i]]
  <2> HIDE DEF n
  <2> QED
    BY <1>6 DEF Along
<1>9. IsTold(f, s, list)
  BY <1>7, <1>8 DEF IsTold
<1> QED
  BY <1>9

LEMMA StopsNobody ==
    ASSUME NEW s \in Data
    PROVE  Stops(s, s, {})
BY DEF Stops, Data

LEMMA StopsOneMore ==
    ASSUME NEW s, NEW x, NEW r, NEW T, NEW t \in Threads, Stops(x, s, T), Stops(r, x, {t})
    PROVE  Stops(r, s, T \cup {t})
<1>1. r.timeouts = {e \in s.timeouts : e.thread \notin T \cup {t}}
  BY DEF Stops
<1>2. ASSUME NEW y \in Threads
      PROVE  r.state[y] = IF y \in T \cup {t} /\ s.state[y] = "SUSPENDED" THEN "WAITING"
                          ELSE s.state[y]
  <2>1. r.state[y] = IF y \in {t} /\ x.state[y] = "SUSPENDED" THEN "WAITING" ELSE x.state[y]
    BY DEF Stops
  <2>2. x.state[y] = IF y \in T /\ s.state[y] = "SUSPENDED" THEN "WAITING" ELSE s.state[y]
    BY DEF Stops
  <2> QED
    BY <2>1, <2>2
<1> QED
  BY <1>1, <1>2 DEF Stops

LEMMA AllStopped ==
    ASSUME NEW s \in Data, NEW list \in Seq(Entry), TimerOK(s), NEW f, IsTold(f, s, list)
    PROVE  LET r == f[Len(list)]
           IN  r \in Data /\ TimerOK(r) /\ Stops(r, s, ThreadsOf(list))
<1> DEFINE n == Len(list)
           First(i) == {list[k][2] : k \in 1 .. i}
           N == {i \in 0 .. n : f[i] \in Data /\ TimerOK(f[i]) /\ Stops(f[i], s, First(i))}
<1>1. n \in Nat
  OBVIOUS
<1>2. \A i \in 0 .. n : f[i] = IF i = 0 THEN s ELSE StoppedWaiting(f[i - 1], list[i][2])
  BY DEF IsTold
<1>3. 0 \in N
  <2>1. First(0) = {} /\ f[0] = s /\ 0 \in 0 .. n
    BY <1>1, <1>2
  <2> HIDE DEF n, First
  <2>2. Stops(s, s, {})
    BY StopsNobody
  <2> QED
    BY <2>1, <2>2
<1>4. ASSUME NEW i \in 1 .. n, i - 1 \in N PROVE i \in N
  <2> DEFINE x == f[i - 1]
             t == list[i][2]
  <2>1. x \in Data /\ TimerOK(x) /\ Stops(x, s, First(i - 1))
    BY <1>4
  <2>2. t \in Threads
    BY DEF Entry, Entries
  <2>3. f[i] = StoppedWaiting(x, t)
    BY <1>2
  <2>4. First(i) = First(i - 1) \cup {t}
    <3>1. 1 .. i = (1 .. i - 1) \cup {i}
      OBVIOUS
    <3> QED
      BY <3>1
  <2> HIDE DEF x, t, First
  <2>5. f[i] \in Data /\ TimerOK(f[i]) /\ Stops(f[i], x, {t})
    BY <2>1, <2>2, <2>3, OneStopped
  <2>6. Stops(f[i], s, First(i))
    BY <2>1, <2>2, <2>4, <2>5, StopsOneMore
  <2> QED
    BY <2>5, <2>6
<1> HIDE DEF N
<1>5. 0 .. n \subseteq N
  <2> HIDE DEF n
  <2> QED
    BY ONLY <1>1, <1>3, <1>4, Stepwise
<1>6. n \in N /\ First(n) = ThreadsOf(list)
  BY <1>1, <1>5 DEF ThreadsOf
<1> QED
  BY <1>6 DEF N

-----------------------------------------------------------------------------
(* Deleting listeners.                                                     *)

\* The threads that wait for deleted listeners only.
FreedThreads(s, gone) ==
    {t \in Threads \ gone : s.waitFor[t] # {} /\ \A w \in s.waitFor[t] : w[2] \in gone}

\* r is s without the listeners of gone.
Without(r, s, gone) ==
    /\ r.alive = s.alive \ gone
    /\ r.vm = [t \in Threads |-> IF t \notin gone THEN s.vm[t]
                                 ELSE IF s.vm[t] = "EXECUTION" THEN "none" ELSE "DESTROYED"]
    /\ r.notify = [l \in Listeners |-> IF l \in gone THEN <<>>
                     ELSE Kept(s.notify[l], Entries(AnyName, Threads \ gone))]
    /\ r.waitFor = [t \in Threads |-> IF t \in gone THEN {} ELSE {w \in s.waitFor[t] : w[2] \notin gone}]
    /\ r.inttime = s.inttime /\ r.level = s.level
    /\ r.timed = s.timed \ gone

\* ... and those who waited for nothing else have stopped waiting.
Deleted(r, s, gone) ==
    /\ Without(r, s, gone)
    /\ r.timeouts = {e \in s.timeouts : e.thread \notin gone \cup FreedThreads(s, gone)}
    /\ \A t \in Threads :
         r.state[t] = IF t \in gone THEN "RUNNING"
                      ELSE IF t \in FreedThreads(s, gone) /\ s.state[t] = "SUSPENDED"
                           THEN "WAITING" ELSE s.state[t]

LEMMA TimerKept ==
    ASSUME NEW s \in Data, TimerOK(s), NEW gone, NEW r,
           r.timer = Kept(s.timer, Elements(Threads \ gone)),
           r.inttime = s.inttime, r.dirty = s.dirty,
           \A t \in Threads : r.state[t] = "WAITING" <=> t \notin gone /\ s.state[t] = "WAITING"
    PROVE  r.timer \in Seq(Elements(Threads)) /\ TimerOK(r)
<1> DEFINE q == s.timer
           K == Kept(q, Elements(Threads \ gone))
<1>2. r.timer = K /\ r.inttime = s.inttime /\ r.dirty = s.dirty
  OBVIOUS
<1>4. /\ q \in Seq(Elements(Threads)) /\ K \in Seq(Elements(Threads))
      /\ \A k \in DOMAIN K : K[k] \in Elements(Threads \ gone) /\ \E i \in DOMAIN q : q[i] = K[k]
      /\ \A i \in DOMAIN q : q[i] \in Elements(Threads \ gone) => \E k \in DOMAIN K : K[k] = q[i]
  <2>1. q \in Seq(Elements(Threads))
    BY DEF Data
  <2> HIDE DEF q
  <2>2. Filtered(K, q, Elements(Threads \ gone), Elements(Threads))
    BY <2>1, KeptElements
  <2> QED
    BY <2>1, <2>2 DEF Filtered
<1>9. TimerAgrees(r)
  <2>1. \A j, k \in DOMAIN K : K[j].thread = K[k].thread => j = k
    BY <1>4, KeptApart DEF TimerOK, TimerAgrees
  <2>2. ASSUME NEW t \in Threads PROVE r.state[t] = "WAITING" <=> \E k \in DOMAIN K : K[k].thread = t
    <3>1. CASE t \in gone
      <4>1. \A k \in DOMAIN K : K[k].thread # t
        <5> HIDE DEF K, q
        <5>1. \A k \in DOMAIN K : K[k] \in Elements(Threads \ gone)
          BY <1>4
        <5> QED
          BY <5>1, <3>1 DEF Elements
      <4> QED
        BY <3>1, <4>1
    <3>2. CASE t \notin gone
      <4>1. r.state[t] = "WAITING" <=> \E i \in DOMAIN q : q[i].thread = t
        BY <3>2 DEF TimerOK, TimerAgrees
      <4>2. ASSUME NEW i \in DOMAIN q, q[i].thread = t PROVE \E k \in DOMAIN K : K[k].thread = t
        <5>1. q[i] \in Elements(Threads \ gone)
          <6> HIDE DEF q, K
          <6>1. q[i] \in Elements(Threads)
            BY <1>4
          <6> QED
            BY <6>1, <3>2, <4>2 DEF Elements
        <5> QED
          BY <5>1, <4>2, <1>4
      <4>3. ASSUME NEW k \in DOMAIN K, K[k].thread = t PROVE \E i \in DOMAIN q : q[i].thread = t
        BY <4>3, <1>4
      <4> QED
        BY <4>1, <4>2, <4>3
    <3> QED
      BY <3>1, <3>2
  <2>3. r.timer = K
    BY <1>2
  <2> HIDE DEF K
  <2> QED
    BY <2>1, <2>2, <2>3 DEF TimerAgrees
<1>10. TimerDirty(r)
  <2> SUFFICES ASSUME NEW k \in DOMAIN K, K[k].time <= s.inttime PROVE s.dirty
    BY <1>2 DEF TimerDirty
  <2>1. PICK i \in DOMAIN q : q[i] = K[k]
    BY <1>4
  <2> QED
    BY <2>1 DEF TimerOK, TimerDirty
<1> QED
  BY <1>2, <1>4, <1>9, <1>10 DEF TimerOK

LEMMA RemovedFacts ==
    ASSUME NEW s \in Data, TimerOK(s), NEW gone \in SUBSET Listeners
    PROVE  LET r == Removed(s, gone)
           IN  /\ r \in Data /\ TimerOK(r)
               /\ Without(r, s, gone)
               /\ r.timeouts = {e \in s.timeouts : e.thread \notin gone}
               /\ r.state = [t \in Threads |-> IF t \in gone THEN "RUNNING" ELSE s.state[t]]
<1> DEFINE r == Removed(s, gone)
           q == s.timer
           K == Kept(q, Elements(Threads \ gone))
<1>1. r = [s EXCEPT
        !.alive = s.alive \ gone,
        !.vm = [t \in Threads |-> IF t \notin gone THEN s.vm[t]
                                  ELSE IF s.vm[t] = "EXECUTION" THEN "none" ELSE "DESTROYED"],
        !.state = [t \in Threads |-> IF t \in gone THEN "RUNNING" ELSE s.state[t]],
        !.notify = [l \in Listeners |-> IF l \in gone THEN <<>>
                        ELSE Kept(s.notify[l], Entries(AnyName, Threads \ gone))],
        !.waitFor = [t \in Threads |-> IF t \in gone THEN {}
                        ELSE {w \in s.waitFor[t] : w[2] \notin gone}],
        !.ends = [o \in Objects |-> IF o \in gone THEN {}
                        ELSE {e \in s.ends[o] : e[2] \notin gone}],
        !.timeouts = {e \in s.timeouts : e.thread \notin gone},
        !.asked = [t \in Threads |-> IF t \in gone THEN {} ELSE s.asked[t]],
        !.timed = s.timed \ gone,
        !.timer = K]
  BY DEF Removed, Removed_TimerKept, Data
<1>2. /\ r.alive = s.alive \ gone
      /\ r.vm = [t \in Threads |-> IF t \notin gone THEN s.vm[t]
                                  ELSE IF s.vm[t] = "EXECUTION" THEN "none" ELSE "DESTROYED"]
      /\ r.state = [t \in Threads |-> IF t \in gone THEN "RUNNING" ELSE s.state[t]]
      /\ r.notify = [l \in Listeners |-> IF l \in gone THEN <<>>
                        ELSE Kept(s.notify[l], Entries(AnyName, Threads \ gone))]
      /\ r.waitFor = [t \in Threads |-> IF t \in gone THEN {}
                        ELSE {w \in s.waitFor[t] : w[2] \notin gone}]
      /\ r.ends = [o \in Objects |-> IF o \in gone THEN {}
                        ELSE {e \in s.ends[o] : e[2] \notin gone}]
      /\ r.timeouts = {e \in s.timeouts : e.thread \notin gone}
      /\ r.asked = [t \in Threads |-> IF t \in gone THEN {} ELSE s.asked[t]]
      /\ r.timed = s.timed \ gone
      /\ r.timer = K
      /\ r.dirty = s.dirty /\ r.inttime = s.inttime /\ r.level = s.level
  BY <1>1 DEF Data
<1>3. DOMAIN r = DOMAIN s /\ r = [x \in DOMAIN r |-> r[x]]
  BY <1>1 DEF Data
<1> HIDE DEF r
<1>5. /\ r.alive \in SUBSET Listeners /\ r.vm \in [Threads -> VMStates]
      /\ r.state \in [Threads -> States] /\ r.timed \in SUBSET Threads
      /\ r.timeouts \in SUBSET Elements(Threads)
  BY <1>2 DEF Data, VMStates, States
<1>6. r.notify \in [Listeners -> Seq(Entry)]
  <2>1. ASSUME NEW l \in Listeners PROVE Kept(s.notify[l], Entries(AnyName, Threads \ gone)) \in Seq(Entry)
    <3>1. s.notify[l] \in Seq(Entry)
      BY DEF Data
    <3> QED
      BY <3>1, KeptSeq
  <2>2. ASSUME NEW l \in Listeners PROVE r.notify[l] \in Seq(Entry)
    <3>1. r.notify[l] = IF l \in gone THEN <<>>
                        ELSE Kept(s.notify[l], Entries(AnyName, Threads \ gone))
      BY <1>2
    <3>2. Kept(s.notify[l], Entries(AnyName, Threads \ gone)) \in Seq(Entry)
      BY <2>1
    <3>3. <<>> \in Seq(Entry)
      OBVIOUS
    <3> QED
      BY <3>1, <3>2, <3>3
  <2>3. r.notify = [l \in Listeners |-> r.notify[l]]
    BY <1>2
  <2> QED
    BY <2>2, <2>3
<1>7. /\ r.waitFor \in [Threads -> SUBSET Waited] /\ r.ends \in [Objects -> SUBSET (Names \X Threads)]
      /\ r.asked \in [Threads -> SUBSET Waited]
  BY <1>2 DEF Data
<1>9. r.timer \in Seq(Elements(Threads)) /\ TimerOK(r)
  <2>1. \A t \in Threads : r.state[t] = "WAITING" <=> t \notin gone /\ s.state[t] = "WAITING"
    BY <1>2
  <2>2. r.timer = Kept(s.timer, Elements(Threads \ gone)) /\ r.inttime = s.inttime /\ r.dirty = s.dirty
    BY <1>2
  <2> QED
    BY <2>1, <2>2, TimerKept
<1>8. r \in Data
  BY <1>1, <1>2, <1>5, <1>6, <1>7, <1>9 DEF Data, r
<1>11. Without(r, s, gone)
  BY <1>2 DEF Without
<1> QED
  BY <1>2, <1>8, <1>9, <1>11 DEF r

LEMMA FiniteListeners ==
    ASSUME NEW S \in SUBSET Listeners
    PROVE  IsFiniteSet(S)
<1>1. IsFiniteSet(Threads \cup Objects)
  BY ScriptThreadsAssumption, FS_Union
<1> QED
  BY <1>1, FS_Subset DEF Listeners

LEMMA FreedFacts ==
    ASSUME NEW s \in Data, Registered(s), NEW gone \in SUBSET Listeners
    PROVE  /\ Freed(s, gone) \in Seq(Entry)
           /\ ThreadsOf(Freed(s, gone)) = FreedThreads(s, gone)
<1> DEFINE order == SetToSeq(gone)
           n == Cardinality(gone)
           lists == [i \in 1 .. n |-> s.notify[order[i]]]
           all == FlattenSeq(lists)
           S == Entries(AnyName, {t \in Threads \ gone : \A w \in s.waitFor[t] : w[2] \in gone})
           freed == Freed(s, gone)
<1>1. IsFiniteSet(gone)
  BY FiniteListeners
<1>2. /\ order \in Seq(gone) /\ \A x \in gone : \E k \in DOMAIN order : order[k] = x
      /\ n \in Nat /\ order \in [1 .. n -> gone]
  <2>1. order \in Seq(gone) /\ \A x \in gone : \E k \in DOMAIN order : order[k] = x
    BY <1>1, SetToSeqElements
  <2>2. n \in Nat /\ order \in [1 .. n -> gone]
    <3>1. n \in Nat /\ ExistsBijection(1 .. n, gone)
      BY <1>1, FS_CardinalityType
    <3>2. \E f \in [1 .. n -> gone] : IsInjective(f)
      BY <3>1 DEF ExistsBijection, Bijection, Injection, IsInjective
    <3> QED
      BY <3>1, <3>2 DEF SetToSeq
  <2> QED
    BY <2>1, <2>2
<1> HIDE DEF n, order
<1>3. lists \in Seq(Seq(Entry)) /\ DOMAIN lists = 1 .. n /\ \A i \in 1 .. n : lists[i] = s.notify[order[i]]
  <2>1. \A i \in 1 .. n : s.notify[order[i]] \in Seq(Entry)
    BY <1>2 DEF Data
  <2> QED
    BY <2>1, <1>2
<1> HIDE DEF lists
<1>4. Flattened(all, lists, Entry)
  BY <1>3, FlattenSeqElements
<1>5. all \in Seq(Entry)
  BY <1>4 DEF Flattened
<1>6. freed = Kept(all, S)
  BY DEF Freed, lists, n, order
<1> HIDE DEF all, S, freed
<1>7. Filtered(freed, all, S, Entry)
  BY <1>5, <1>6, KeptElements
<1>8. ASSUME NEW k \in DOMAIN freed PROVE freed[k][2] \in FreedThreads(s, gone)
  <2>1. freed[k] \in S /\ \E j \in DOMAIN all : all[j] = freed[k]
    BY <1>7 DEF Filtered
  <2>2. PICK i \in 1 .. n : \E j \in DOMAIN lists[i] : freed[k] = lists[i][j]
    BY <2>1, <1>3, <1>4 DEF Flattened
  <2>3. PICK name \in AnyName, t \in Threads \ gone :
          freed[k] = <<name, t>> /\ \A w \in s.waitFor[t] : w[2] \in gone
    BY <2>1 DEF S, Entries
  <2> DEFINE l == order[i]
  <2>4. l \in gone /\ \E j \in DOMAIN s.notify[l] : s.notify[l][j] = <<name, t>>
    BY <2>2, <2>3, <1>2, <1>3
  <2> HIDE DEF l
  <2>5. <<name, l>> \in s.waitFor[t]
    BY <2>3, <2>4 DEF Registered
  <2> QED
    BY <2>3, <2>5 DEF FreedThreads
<1>9. ASSUME NEW t \in FreedThreads(s, gone) PROVE \E k \in DOMAIN freed : freed[k][2] = t
  <2>1. PICK w \in s.waitFor[t] : w[2] \in gone
    BY DEF FreedThreads
  <2>2. t \in Threads \ gone /\ w \in Waited /\ \A x \in s.waitFor[t] : x[2] \in gone
    BY DEF FreedThreads, Data
  <2>3. PICK name \in AnyName, l \in Listeners : w = <<name, l>>
    BY <2>2 DEF Waited
  <2>4. l \in gone /\ \E j \in DOMAIN s.notify[l] : s.notify[l][j] = <<name, t>>
    BY <2>1, <2>2, <2>3 DEF Registered
  <2>5. PICK i \in 1 .. n : \E j \in DOMAIN lists[i] : lists[i][j] = <<name, t>>
    <3>1. PICK i \in DOMAIN order : order[i] = l
      BY <2>4, <1>2
    <3>2. i \in 1 .. n
      BY <1>2
    <3> QED
      BY <3>1, <3>2, <2>4, <1>3
  <2>6. PICK j2 \in DOMAIN all : all[j2] = <<name, t>>
    <3>1. i \in DOMAIN lists
      BY <1>3
    <3>2. PICK j \in DOMAIN lists[i] : lists[i][j] = <<name, t>>
      BY <2>5
    <3>3. \E k \in DOMAIN all : all[k] = lists[i][j]
      BY <3>1, <1>4 DEF Flattened
    <3> QED
      BY <3>2, <3>3
  <2>7. <<name, t>> \in S
    BY <2>2 DEF S, Entries
  <2>8. PICK k \in DOMAIN freed : freed[k] = <<name, t>>
    BY <2>6, <2>7, <1>7 DEF Filtered
  <2> QED
    BY <2>8
<1>10. freed \in Seq(Entry)
  BY <1>7 DEF Filtered
<1> QED
  BY <1>8, <1>9, <1>10 DEF ThreadsOf, freed

LEMMA DoomedListeners ==
    ASSUME NEW s, NEW first \in SUBSET Listeners
    PROVE  Doomed(s, first) \in SUBSET Listeners
BY DEF Doomed, Listeners

LEMMA DeleteFacts ==
    ASSUME NEW s \in Data, Registered(s), TimerOK(s), NEW first \in SUBSET Listeners
    PROVE  LET r == Delete(s, first)
           IN  r \in Data /\ TimerOK(r) /\ Deleted(r, s, Doomed(s, first))
<1> DEFINE gone == Doomed(s, first)
           freed == Freed(s, gone)
           b == Removed(s, gone)
           f == CHOOSE f : IsTold(f, b, freed)
           r == Delete(s, first)
<1>1. r = f[Len(freed)]
  BY DEF Delete, IsTold
<1>2. gone \in SUBSET Listeners
  BY DoomedListeners
<1> HIDE DEF gone
<1>3. freed \in Seq(Entry) /\ ThreadsOf(freed) = FreedThreads(s, gone)
  BY <1>2, FreedFacts
<1> HIDE DEF freed
<1>4. /\ b \in Data /\ TimerOK(b) /\ Without(b, s, gone)
      /\ b.timeouts = {e \in s.timeouts : e.thread \notin gone}
      /\ b.state = [t \in Threads |-> IF t \in gone THEN "RUNNING" ELSE s.state[t]]
  BY <1>2, RemovedFacts
<1> HIDE DEF b
<1>5. IsTold(f, b, freed)
  BY <1>3, <1>4, ToldExists
<1> HIDE DEF f, r
<1>6. r \in Data /\ TimerOK(r) /\ Stops(r, b, FreedThreads(s, gone))
  BY <1>1, <1>3, <1>4, <1>5, AllStopped
<1>7. Without(r, s, gone)
  BY <1>4, <1>6 DEF Stops, Without
<1>8. r.timeouts = {e \in s.timeouts : e.thread \notin gone \cup FreedThreads(s, gone)}
  BY <1>4, <1>6 DEF Stops
<1>9. ASSUME NEW t \in Threads
      PROVE  r.state[t] = IF t \in gone THEN "RUNNING"
                      ELSE IF t \in FreedThreads(s, gone) /\ s.state[t] = "SUSPENDED"
                           THEN "WAITING" ELSE s.state[t]
  <2>1. b.state[t] = IF t \in gone THEN "RUNNING" ELSE s.state[t]
    BY <1>4
  <2>2. r.state[t] = IF t \in FreedThreads(s, gone) /\ b.state[t] = "SUSPENDED" THEN "WAITING" ELSE b.state[t]
    BY <1>6 DEF Stops
  <2> QED
    BY <2>1, <2>2
<1> QED
  BY <1>6, <1>7, <1>8, <1>9 DEF Deleted, r, gone

LEMMA DeletedLists ==
    ASSUME NEW s \in Data, NEW r \in Data, NEW gone \in SUBSET Listeners,
           Lists(s), TimerOK(r), Deleted(r, s, gone)
    PROVE  /\ Lists(r)
           /\ \A T \in SUBSET Threads : Suspended(s, T) => Suspended(r, T)
           /\ \A T \in SUBSET Threads : Timeouts(s, T) => Timeouts(r, T)
<1>1. \A t \in Threads : r.waitFor[t] = IF t \in gone THEN {} ELSE {w \in s.waitFor[t] : w[2] \notin gone}
  BY DEF Deleted, Without
<1>2. \A l \in Listeners : r.notify[l] = IF l \in gone THEN <<>>
                     ELSE Kept(s.notify[l], Entries(AnyName, Threads \ gone))
  BY DEF Deleted, Without
<1>3. r.alive = s.alive \ gone
  BY DEF Deleted, Without
<1>4. \A t \in Threads :
         r.state[t] = IF t \in gone THEN "RUNNING"
                      ELSE IF t \in FreedThreads(s, gone) /\ s.state[t] = "SUSPENDED"
                           THEN "WAITING" ELSE s.state[t]
  BY DEF Deleted
<1>5. r.timeouts = {e \in s.timeouts : e.thread \notin gone \cup FreedThreads(s, gone)}
  BY DEF Deleted
<1>6. \A t \in Threads : s.waitFor[t] \in SUBSET Waited
  BY DEF Data
<1>7. Registered(r)
  <2> SUFFICES ASSUME NEW t \in Threads, NEW l \in Listeners, NEW n \in AnyName
               PROVE  <<n, l>> \in r.waitFor[t] <=> \E k \in DOMAIN r.notify[l] : r.notify[l][k] = <<n, t>>
    BY DEF Registered
  <2>1. CASE l \in gone
    <3>1. DOMAIN r.notify[l] = {}
      BY <2>1, <1>2
    <3>2. \A w \in r.waitFor[t] : w[2] \notin gone
      BY <1>1
    <3>4. <<n, l>> \notin r.waitFor[t]
      BY <2>1, <3>2
    <3> QED
      BY <3>1, <3>4
  <2>2. CASE l \notin gone
    <3> DEFINE q == s.notify[l]
               S == Entries(AnyName, Threads \ gone)
               K == Kept(q, S)
    <3>1. q \in Seq(Entry)
      BY DEF Data
    <3>2. Filtered(K, q, S, Entry)
      <4> HIDE DEF q, S
      <4> QED
        BY <3>1, KeptElements
    <3>3. r.notify[l] = K
      BY <2>2, <1>2
    <3>4. <<n, l>> \in s.waitFor[t] <=> \E k \in DOMAIN q : q[k] = <<n, t>>
      BY DEF Lists, Registered
    <3> HIDE DEF q, K
    <3>5. <<n, t>> \in S <=> t \notin gone
      BY DEF Entries
    <3>6. (\E k \in DOMAIN K : K[k] = <<n, t>>) <=> <<n, t>> \in S /\ \E k \in DOMAIN q : q[k] = <<n, t>>
      <4> HIDE DEF S
      <4> QED
        BY <3>2 DEF Filtered
    <3>7. <<n, l>> \in r.waitFor[t] <=> t \notin gone /\ <<n, l>> \in s.waitFor[t]
      BY <2>2, <1>1
    <3> QED
      BY <3>3, <3>4, <3>5, <3>6, <3>7
  <2> QED
    BY <2>1, <2>2
<1>8. Living(r)
  <2>1. ASSUME NEW l \in Listeners \ r.alive PROVE r.notify[l] = <<>>
    <3>1. CASE l \in gone
      BY <3>1, <1>2
    <3>2. CASE l \notin gone
      <4>1. s.notify[l] = <<>>
        BY <3>2, <1>3 DEF Lists, Living
      <4> QED
        BY <3>2, <4>1, <1>2, KeptOfEmpty
    <3> QED
      BY <3>1, <3>2
  <2>2. ASSUME NEW t \in Threads \ r.alive
        PROVE  r.waitFor[t] = {} /\ r.vm[t] # "RUNNING" /\ r.state[t] = "RUNNING"
    <3>1. r.vm[t] = IF t \notin gone THEN s.vm[t]
                    ELSE IF s.vm[t] = "EXECUTION" THEN "none" ELSE "DESTROYED"
      BY DEF Deleted, Without
    <3>2. CASE t \in gone
      BY <3>1, <3>2, <1>1, <1>4
    <3>3. CASE t \notin gone
      <4>1. s.waitFor[t] = {} /\ s.vm[t] # "RUNNING" /\ s.state[t] = "RUNNING"
        BY <3>3, <1>3 DEF Lists, Living
      <4> QED
        BY <3>1, <3>3, <4>1, <1>1, <1>4
    <3> QED
      BY <3>2, <3>3
  <2>3. \A e \in r.timeouts : e.thread \in r.alive
    BY <1>3, <1>5 DEF Lists, Living
  <2> QED
    BY <2>1, <2>2, <2>3 DEF Living
<1>9. Parents(r)
  <2>1. \A t \in Threads : r.waitFor[t] \subseteq s.waitFor[t]
    BY <1>1
  <2> QED
    BY <2>1 DEF Lists, Parents
<1>10. ASSUME NEW T \in SUBSET Threads, Suspended(s, T) PROVE Suspended(r, T)
  <2> SUFFICES ASSUME NEW t \in T, r.waitFor[t] # {} PROVE r.state[t] = "SUSPENDED"
    BY DEF Suspended
  <2>1. t \notin gone /\ r.waitFor[t] = {w \in s.waitFor[t] : w[2] \notin gone}
    BY <1>1
  <2>2. PICK w \in s.waitFor[t] : w[2] \notin gone
    BY <2>1
  <2>3. s.waitFor[t] # {} /\ t \notin FreedThreads(s, gone)
    BY <2>2 DEF FreedThreads
  <2> QED
    BY <2>1, <2>3, <1>4, <1>10 DEF Suspended
<1>11. ASSUME NEW T \in SUBSET Threads, Timeouts(s, T) PROVE Timeouts(r, T)
  <2> SUFFICES ASSUME NEW e \in r.timeouts, e.thread \notin T
               PROVE  e.thread \in r.timed /\ r.state[e.thread] = "SUSPENDED" /\ r.waitFor[e.thread] # {}
    BY DEF Timeouts
  <2> DEFINE t == e.thread
  <2>1. /\ e \in s.timeouts /\ t \notin gone /\ t \notin FreedThreads(s, gone) /\ t \in Threads
    BY <1>5 DEF Data, Elements
  <2>2. t \in s.timed /\ s.state[t] = "SUSPENDED" /\ s.waitFor[t] # {}
    BY <2>1, <1>11 DEF Timeouts
  <2>3. t \in r.timed
    BY <2>1, <2>2 DEF Deleted, Without
  <2>4. \E w \in s.waitFor[t] : w[2] \notin gone
    BY <2>1, <2>2 DEF FreedThreads
  <2> HIDE DEF t
  <2>5. r.state[t] = "SUSPENDED" /\ r.waitFor[t] # {}
    BY <2>1, <2>2, <2>4, <1>1, <1>4
  <2> QED
    BY <2>3, <2>5 DEF t
<1> QED
  BY <1>7, <1>8, <1>9, <1>10, <1>11 DEF Lists, TimerOK

-----------------------------------------------------------------------------
(* A thread waits for listeners no more.                                   *)

\* The threads that wait for the end of t, of those that wait for it, and so on.
Ancestors(a, t) ==
    {y \in Threads :
        \A U \in SUBSET Threads :
            (t \in U /\ \A x \in U, z \in Threads : <<"0", x>> \in a.waitFor[z] => z \in U) => y \in U}

LEMMA AncestorsFacts ==
    ASSUME NEW a, NEW t \in Threads
    PROVE  /\ Ancestors(a, t) \in SUBSET Threads /\ t \in Ancestors(a, t)
           /\ \A x \in Ancestors(a, t), z \in Threads : <<"0", x>> \in a.waitFor[z] => z \in Ancestors(a, t)
           /\ \A y \in Ancestors(a, t) : y # t => \E x \in Ancestors(a, t) : <<"0", x>> \in a.waitFor[y]
<1> DEFINE Closed(U) == t \in U /\ \A x \in U, z \in Threads : <<"0", x>> \in a.waitFor[z] => z \in U
           Anc == Ancestors(a, t)
<1>1. \A y \in Threads : y \in Anc <=> \A U \in SUBSET Threads : Closed(U) => y \in U
  BY DEF Ancestors
<1>2. Anc \in SUBSET Threads /\ t \in Anc
  BY <1>1 DEF Ancestors
<1> HIDE DEF Anc
<1>3. ASSUME NEW x \in Anc, NEW z \in Threads, <<"0", x>> \in a.waitFor[z] PROVE z \in Anc
  <2> SUFFICES ASSUME NEW U \in SUBSET Threads, Closed(U) PROVE z \in U
    BY <1>1
  <2>1. x \in U
    BY <1>1, <1>2
  <2> QED
    BY <2>1, <1>3
<1>4. Closed(Anc)
  BY <1>2, <1>3
<1>5. ASSUME NEW y \in Anc, y # t, \A x \in Anc : <<"0", x>> \notin a.waitFor[y] PROVE FALSE
  <2> DEFINE U == Anc \ {y}
  <2>1. Closed(U)
    BY <1>4, <1>5
  <2>2. U \in SUBSET Threads /\ y \notin U /\ y \in Threads
    BY <1>2
  <2> HIDE DEF U, Closed
  <2> QED
    BY <2>1, <2>2, <1>1
<1> QED
  BY <1>2, <1>3, <1>5 DEF Anc

\* Those whom nobody waits for any more because t does not are deleted; t is not
\* one of them: it would wait for itself.
LEMMA Survives ==
    ASSUME NEW s \in Data, Parents(s), NEW a \in Data, Registered(a), Parents(a), NEW t \in Threads,
           a.waitFor[t] = {}, \A x \in Threads \ {t} : a.waitFor[x] = s.waitFor[x],
           NEW children \in SUBSET Threads, \A c \in children : <<"0", c>> \in s.waitFor[t]
    PROVE  t \notin Doomed(a, children)
<1> DEFINE Anc == Ancestors(a, t)
<1>1. /\ Anc \in SUBSET Threads /\ t \in Anc
      /\ \A x \in Anc, z \in Threads : <<"0", x>> \in a.waitFor[z] => z \in Anc
      /\ \A y \in Anc : y # t => \E x \in Anc : <<"0", x>> \in a.waitFor[y]
  BY AncestorsFacts
<1> HIDE DEF Anc
<1>2. Anc \cap children = {}
  <2> SUFFICES ASSUME NEW c \in Anc, c \in children PROVE FALSE
    OBVIOUS
  <2>1. PICK x \in Anc : \A y \in Anc : <<"0", y>> \notin s.waitFor[x]
    BY <1>1 DEF Parents
  <2>2. x # t
    BY <2>1
  <2>3. a.waitFor[x] = s.waitFor[x]
    BY <1>1, <2>2
  <2> QED
    BY <1>1, <2>1, <2>2, <2>3
<1> DEFINE T1 == Threads \ Anc
<1>3. ASSUME NEW x \in Follow(a, children \cup T1), x \in Anc PROVE FALSE
  <2> DEFINE gone == children \cup T1
  <2>1. x \in Threads /\ Anc \cap gone = {}
    BY <1>2 DEF Follow
  <2> HIDE DEF gone
  <2>2. CASE a.notify[x] # <<>> /\ \A k \in DOMAIN a.notify[x] : a.notify[x][k][2] \in gone
    <3> DEFINE q == a.notify[x]
    <3>1. q \in Seq(Entry) /\ q # <<>>
      BY <2>1, <2>2 DEF Data, Listeners
    <3>2. 1 \in DOMAIN q /\ q[1] \in Entry /\ q[1][2] \in gone
      <4>1. 1 \in DOMAIN q /\ q[1] \in Entry
        <5> HIDE DEF q
        <5> QED
          BY <3>1
      <4> QED
        BY <4>1, <2>2
    <3>3. PICK n \in AnyName, y \in Threads : q[1] = <<n, y>>
      BY <3>2 DEF Entry, Entries
    <3>4. <<n, x>> \in a.waitFor[y]
      BY <3>2, <3>3, <2>1 DEF Registered, Listeners
    <3>5. n = "0"
      <4>1. <<n, x>>[2] = x /\ <<n, x>>[1] = n
        OBVIOUS
      <4> QED
        BY <3>4, <4>1, <2>1 DEF Parents
    <3>6. y \in Anc /\ y \in gone
      BY <1>1, <1>3, <3>2, <3>3, <3>4, <3>5
    <3> QED
      BY <3>6, <2>1
  <2>3. CASE a.waitFor[x] # {} /\ \A w \in a.waitFor[x] : w[2] \in gone
    <3>1. x # t
      BY <2>3
    <3>2. PICK z \in Anc : <<"0", z>> \in a.waitFor[x]
      BY <1>1, <1>3, <3>1
    <3>3. z \in gone
      BY <3>2, <2>3
    <3> QED
      BY <3>3, <2>1
  <2> QED
    BY <2>2, <2>3 DEF Follow, gone
<1>4. Follow(a, children \cup T1) \subseteq T1
  BY <1>3 DEF Follow
<1> QED
  BY <1>1, <1>2, <1>4 DEF Doomed

\* A thread that waits for nothing and whom nobody waits for does not follow others.
LEMMA FreshSurvives ==
    ASSUME NEW a, NEW x \in Threads, NEW first,
           a.notify[x] = <<>>, a.waitFor[x] = {}, x \notin first
    PROVE  x \notin Doomed(a, first)
<1> DEFINE T1 == Threads \ {x}
<1>1. Follow(a, first \cup T1) \subseteq T1
  BY DEF Follow
<1> HIDE DEF T1
<1>2. T1 \in SUBSET Threads /\ x \notin T1
  BY DEF T1
<1> QED
  BY <1>1, <1>2 DEF Doomed

LEMMA DeleteLists ==
    ASSUME NEW s \in Data, Lists(s), NEW first \in SUBSET Listeners
    PROVE  LET r == Delete(s, first)
           IN  /\ r \in Data /\ Lists(r)
               /\ \A T \in SUBSET Threads : Suspended(s, T) => Suspended(r, T)
               /\ \A T \in SUBSET Threads : Timeouts(s, T) => Timeouts(r, T)
               /\ Deleted(r, s, Doomed(s, first))
<1> DEFINE r == Delete(s, first)
           gone == Doomed(s, first)
<1>1. Registered(s) /\ TimerOK(s)
  BY DEF Lists, TimerOK
<1>2. r \in Data /\ TimerOK(r) /\ Deleted(r, s, gone)
  BY <1>1, DeleteFacts
<1>3. gone \in SUBSET Listeners
  BY DoomedListeners
<1> HIDE DEF r, gone
<1>4. /\ Lists(r)
      /\ \A T \in SUBSET Threads : Suspended(s, T) => Suspended(r, T)
      /\ \A T \in SUBSET Threads : Timeouts(s, T) => Timeouts(r, T)
  BY <1>2, <1>3, DeletedLists
<1> QED
  BY <1>2, <1>4 DEF r, gone

\* r is s after t has given up waiting for anything.
Released(r, s, t) ==
    /\ r \in Data /\ Good(r)
    /\ r.waitFor[t] = {}
    /\ \A x \in Threads : r.waitFor[x] \subseteq s.waitFor[x]
    /\ r.alive \subseteq s.alive /\ s.alive \cap Objects \subseteq r.alive
    /\ t \in s.alive => t \in r.alive
    /\ \A x \in s.alive \cap Threads : s.notify[x] = <<>> /\ s.waitFor[x] = {} => x \in r.alive
    /\ r.level = s.level /\ r.inttime = s.inttime

\* a is s without t in the lists of those it waits for.
Alone(a, s, t) ==
    a = [s EXCEPT !.waitFor[t] = {},
                  !.notify = [l \in Listeners |-> Kept(s.notify[l], Entries(AnyName, Threads \ {t}))]]

\* Alone, part by part.
IsAlone(a, s, t) ==
    /\ a \in Data
    /\ a.waitFor[t] = {} /\ \A x \in Threads \ {t} : a.waitFor[x] = s.waitFor[x]
    /\ \A l \in Listeners : a.notify[l] = Kept(s.notify[l], Entries(AnyName, Threads \ {t}))
    /\ a.alive = s.alive /\ a.vm = s.vm /\ a.state = s.state /\ a.timer = s.timer
    /\ a.dirty = s.dirty /\ a.inttime = s.inttime /\ a.level = s.level
    /\ a.timeouts = s.timeouts /\ a.timed = s.timed

LEMMA AloneFacts ==
    ASSUME NEW s \in Data, NEW t \in Threads, NEW a, Alone(a, s, t)
    PROVE  IsAlone(a, s, t)
<1>1. \A l \in Listeners : Kept(s.notify[l], Entries(AnyName, Threads \ {t})) \in Seq(Entry)
  BY KeptSeq DEF Data
<1> DEFINE notify == [l \in Listeners |-> Kept(s.notify[l], Entries(AnyName, Threads \ {t}))]
           waitFor == [s.waitFor EXCEPT ![t] = {}]
<1>2. notify \in [Listeners -> Seq(Entry)]
  BY <1>1
<1>3. waitFor \in [Threads -> SUBSET Waited]
  BY DEF Data
<1>4. a = [s EXCEPT !.waitFor = waitFor, !.notify = notify]
  BY DEF Alone, Data
<1>5. waitFor[t] = {} /\ \A x \in Threads \ {t} : waitFor[x] = s.waitFor[x]
  BY DEF Data
<1>6. \A l \in Listeners : notify[l] = Kept(s.notify[l], Entries(AnyName, Threads \ {t}))
  OBVIOUS
<1> HIDE DEF notify, waitFor
<1>7. /\ a.waitFor = waitFor /\ a.notify = notify
      /\ a.alive = s.alive /\ a.vm = s.vm /\ a.state = s.state /\ a.timer = s.timer
      /\ a.dirty = s.dirty /\ a.inttime = s.inttime /\ a.level = s.level
      /\ a.timeouts = s.timeouts /\ a.timed = s.timed
  BY <1>4 DEF Data
<1>8. a \in Data
  BY <1>2, <1>3, <1>4 DEF Data
<1> QED
  BY <1>5, <1>6, <1>7, <1>8 DEF IsAlone

LEMMA AloneLists ==
    ASSUME NEW s \in Data, Lists(s), NEW t \in Threads, NEW a, Alone(a, s, t)
    PROVE  Lists(a)
<1>1. /\ a \in Data
      /\ a.waitFor[t] = {} /\ \A x \in Threads \ {t} : a.waitFor[x] = s.waitFor[x]
      /\ \A l \in Listeners : a.notify[l] = Kept(s.notify[l], Entries(AnyName, Threads \ {t}))
      /\ a.alive = s.alive /\ a.vm = s.vm /\ a.state = s.state /\ a.timer = s.timer
      /\ a.dirty = s.dirty /\ a.inttime = s.inttime /\ a.level = s.level
      /\ a.timeouts = s.timeouts /\ a.timed = s.timed
  <2>1. IsAlone(a, s, t)
    BY AloneFacts
  <2> QED
    BY <2>1 DEF IsAlone
<1>2. Registered(a)
  <2> SUFFICES ASSUME NEW x \in Threads, NEW l \in Listeners, NEW n \in AnyName
               PROVE  <<n, l>> \in a.waitFor[x] <=> \E k \in DOMAIN a.notify[l] : a.notify[l][k] = <<n, x>>
    BY DEF Registered
  <2> DEFINE q == s.notify[l]
             S == Entries(AnyName, Threads \ {t})
             K == Kept(q, S)
  <2>1. q \in Seq(Entry)
    BY DEF Data
  <2>2. Filtered(K, q, S, Entry)
    <3> HIDE DEF q, S
    <3> QED
      BY <2>1, KeptElements
  <2>3. a.notify[l] = K
    BY <1>1
  <2>4. <<n, l>> \in s.waitFor[x] <=> \E k \in DOMAIN q : q[k] = <<n, x>>
    BY DEF Lists, Registered
  <2> HIDE DEF q, K
  <2>5. <<n, x>> \in S <=> x # t
    BY DEF Entries
  <2>6. (\E k \in DOMAIN K : K[k] = <<n, x>>) <=> <<n, x>> \in S /\ \E k \in DOMAIN q : q[k] = <<n, x>>
    <3> HIDE DEF S
    <3> QED
      BY <2>2 DEF Filtered
  <2> QED
    BY <1>1, <2>3, <2>4, <2>5, <2>6
<1>3. Living(a)
  <2>1. ASSUME NEW l \in Listeners \ a.alive PROVE a.notify[l] = <<>>
    <3>1. s.notify[l] = <<>>
      BY <1>1 DEF Lists, Living
    <3> QED
      BY <1>1, <3>1, KeptOfEmpty
  <2>2. \A x \in Threads \ a.alive : a.waitFor[x] = {} /\ a.vm[x] # "RUNNING" /\ a.state[x] = "RUNNING"
    BY <1>1 DEF Lists, Living
  <2>3. \A e \in a.timeouts : e.thread \in a.alive
    BY <1>1 DEF Lists, Living
  <2> QED
    BY <2>1, <2>2, <2>3 DEF Living
<1>4. TimerAgrees(a) /\ TimerDirty(a)
  BY <1>1 DEF Lists, TimerAgrees, TimerDirty
<1>5. Parents(a)
  <2>1. \A x \in Threads : a.waitFor[x] \subseteq s.waitFor[x]
    BY <1>1
  <2> QED
    BY <2>1 DEF Lists, Parents
<1> QED
  BY <1>2, <1>3, <1>4, <1>5 DEF Lists

\* Who waits for nothing any more may stop waiting.
LEMMA StoppedLists ==
    ASSUME NEW a \in Data, Lists(a), NEW t \in Threads, a.waitFor[t] = {},
           Suspended(a, Threads \ {t})
    PROVE  LET r == StoppedWaiting(a, t)
           IN  /\ r \in Data /\ Lists(r) /\ Suspended(r, Threads)
               /\ Stops(r, a, {t})
               /\ \A T \in SUBSET Threads : Timeouts(a, T \cup {t}) => Timeouts(r, T)
<1> DEFINE r == StoppedWaiting(a, t)
<1>1. TimerOK(a)
  BY DEF Lists, TimerOK
<1>2. r \in Data /\ TimerOK(r) /\ Stops(r, a, {t})
  BY <1>1, OneStopped
<1> HIDE DEF r
<1>3. /\ r.alive = a.alive /\ r.vm = a.vm /\ r.notify = a.notify /\ r.waitFor = a.waitFor
      /\ r.timed = a.timed
      /\ r.timeouts = {e \in a.timeouts : e.thread \notin {t}}
      /\ \A x \in Threads :
           r.state[x] = IF x \in {t} /\ a.state[x] = "SUSPENDED" THEN "WAITING" ELSE a.state[x]
  BY <1>2 DEF Stops
<1>4. Registered(r)
  <2> SUFFICES ASSUME NEW x \in Threads, NEW l \in Listeners, NEW n \in AnyName
               PROVE  <<n, l>> \in r.waitFor[x] <=> \E k \in DOMAIN r.notify[l] : r.notify[l][k] = <<n, x>>
    BY DEF Registered
  <2>1. <<n, l>> \in a.waitFor[x] <=> \E k \in DOMAIN a.notify[l] : a.notify[l][k] = <<n, x>>
    BY DEF Lists, Registered
  <2> QED
    BY <2>1, <1>3
<1>5. Living(r)
  <2>1. \A x \in Threads \ a.alive : a.state[x] = "RUNNING"
    BY DEF Lists, Living
  <2>2. \A x \in Threads \ a.alive : r.state[x] = "RUNNING"
    BY <2>1, <1>3
  <2> QED
    BY <2>2, <1>3 DEF Lists, Living
<1>6. Parents(r)
  BY <1>3 DEF Lists, Parents
<1>7. Suspended(r, Threads)
  BY <1>3 DEF Suspended
<1>8. ASSUME NEW T \in SUBSET Threads, Timeouts(a, T \cup {t}) PROVE Timeouts(r, T)
  <2> SUFFICES ASSUME NEW e \in r.timeouts, e.thread \notin T
               PROVE  e.thread \in r.timed /\ r.state[e.thread] = "SUSPENDED" /\ r.waitFor[e.thread] # {}
    BY DEF Timeouts
  <2> DEFINE x == e.thread
  <2>1. e \in a.timeouts /\ x # t /\ x \in Threads
    BY <1>3 DEF Data, Elements
  <2>2. x \in a.timed /\ a.state[x] = "SUSPENDED" /\ a.waitFor[x] # {}
    BY <2>1, <1>8 DEF Timeouts
  <2> HIDE DEF x
  <2>3. x \in r.timed /\ r.state[x] = "SUSPENDED" /\ r.waitFor[x] # {}
    BY <2>1, <2>2, <1>3
  <2> QED
    BY <2>3 DEF x
<1> QED
  BY <1>2, <1>4, <1>5, <1>6, <1>7, <1>8 DEF Lists, TimerOK, r

LEMMA CancelAll ==
    ASSUME NEW s \in Data, Lists(s), NEW t \in Threads, Suspended(s, Threads \ {t}),
           s.waitFor[t] # {}
    PROVE  LET r == CancelWaitingAll(s, t)
           IN  /\ Released(r, s, t)
               /\ r.state[t] = IF s.state[t] = "SUSPENDED" THEN "WAITING" ELSE s.state[t]
               /\ \A T \in SUBSET Threads : Timeouts(s, T \cup {t}) => Timeouts(r, T)
<1> DEFINE a == [s EXCEPT !.waitFor[t] = {},
                          !.notify = [l \in Listeners |->
                                        Kept(s.notify[l], Entries(AnyName, Threads \ {t}))]]
           b == StoppedWaiting(a, t)
           children == {c \in Threads : <<"0", c>> \in s.waitFor[t] /\ a.notify[c] = <<>>}
           gone == Doomed(b, children)
           r == CancelWaitingAll(s, t)
<1>1. Alone(a, s, t)
  BY DEF Alone
<1>2. r = Delete(b, children)
  <2>1. a = [s EXCEPT !.waitFor[t] = {},
                      !.notify = [l \in Listeners |->
                                    Kept(@[l], Entries(AnyName, Threads \ {t}))]]
    BY DEF Data
  <2> QED
    BY <2>1 DEF CancelWaitingAll
<1> HIDE DEF a
<1>3. /\ a \in Data
      /\ a.waitFor[t] = {} /\ \A x \in Threads \ {t} : a.waitFor[x] = s.waitFor[x]
      /\ \A l \in Listeners : a.notify[l] = Kept(s.notify[l], Entries(AnyName, Threads \ {t}))
      /\ a.alive = s.alive /\ a.vm = s.vm /\ a.state = s.state /\ a.timer = s.timer
      /\ a.dirty = s.dirty /\ a.inttime = s.inttime /\ a.level = s.level
      /\ a.timeouts = s.timeouts /\ a.timed = s.timed
  <2>1. IsAlone(a, s, t)
    BY <1>1, AloneFacts
  <2> QED
    BY <2>1 DEF IsAlone
<1>4. Lists(a)
  BY <1>1, AloneLists
<1>5. Suspended(a, Threads \ {t})
  BY <1>3 DEF Suspended
<1>6. /\ b \in Data /\ Lists(b) /\ Suspended(b, Threads) /\ Stops(b, a, {t})
      /\ \A T \in SUBSET Threads : Timeouts(a, T \cup {t}) => Timeouts(b, T)
  BY <1>3, <1>4, <1>5, StoppedLists
<1> HIDE DEF b
<1>7. /\ b.alive = s.alive /\ b.notify = a.notify /\ b.waitFor = a.waitFor
      /\ b.level = s.level /\ b.inttime = s.inttime
      /\ b.state[t] = IF s.state[t] = "SUSPENDED" THEN "WAITING" ELSE s.state[t]
  BY <1>3, <1>6 DEF Stops
<1>8. children \in SUBSET Threads /\ children \in SUBSET Listeners
      /\ \A c \in children : <<"0", c>> \in s.waitFor[t]
  BY DEF Listeners
<1> HIDE DEF children, r
<1>9. /\ r \in Data /\ Lists(r) /\ Suspended(r, Threads)
      /\ \A T \in SUBSET Threads : Timeouts(b, T) => Timeouts(r, T)
      /\ Deleted(r, b, gone)
  BY <1>2, <1>6, <1>8, DeleteLists
<1>10. t \notin gone
  <2>1. Parents(s) /\ Registered(b) /\ Parents(b)
    BY <1>6 DEF Lists
  <2>2. b.waitFor[t] = {} /\ \A x \in Threads \ {t} : b.waitFor[x] = s.waitFor[x]
    BY <1>3, <1>7
  <2> QED
    BY <1>6, <1>8, <2>1, <2>2, Survives
<1>11. gone \cap Objects = {}
  BY <1>8, ScriptThreadsAssumption DEF Doomed
<1>12. ASSUME NEW x \in s.alive \cap Threads, s.notify[x] = <<>>, s.waitFor[x] = {} PROVE x \notin gone
  <2>1. b.notify[x] = <<>>
    <3>1. a.notify[x] = Kept(<<>>, Entries(AnyName, Threads \ {t}))
      BY <1>3, <1>12 DEF Listeners
    <3> QED
      BY <3>1, <1>7, KeptOfEmpty
  <2>2. b.waitFor[x] = {}
    BY <1>3, <1>7, <1>12
  <2>3. x \notin children
    <3> SUFFICES ASSUME <<"0", x>> \in s.waitFor[t] PROVE FALSE
      BY <1>8
    <3>1. \E k \in DOMAIN s.notify[x] : s.notify[x][k] = <<"0", t>>
      BY DEF Lists, Registered, AnyName, Listeners
    <3> QED
      BY <3>1, <1>12
  <2> QED
    BY <2>1, <2>2, <2>3, FreshSurvives
<1> HIDE DEF gone
<1>13. /\ r.alive = s.alive \ gone
       /\ \A x \in Threads : r.waitFor[x] = IF x \in gone THEN {} ELSE {w \in b.waitFor[x] : w[2] \notin gone}
       /\ r.level = s.level /\ r.inttime = s.inttime
  BY <1>7, <1>9 DEF Deleted, Without
<1>14. \A x \in Threads : r.waitFor[x] \subseteq b.waitFor[x]
  BY <1>13
<1>15. \A x \in Threads : b.waitFor[x] \subseteq s.waitFor[x]
  BY <1>3, <1>7
<1>16. Released(r, s, t)
  <2>1. r.waitFor[t] = {}
    BY <1>3, <1>7, <1>14
  <2>2. Good(r)
    BY <1>9 DEF Good
  <2> QED
    BY <1>9, <1>10, <1>11, <1>12, <1>13, <1>14, <1>15, <2>1, <2>2 DEF Released
<1>17. r.state[t] = IF s.state[t] = "SUSPENDED" THEN "WAITING" ELSE s.state[t]
  <2>1. t \notin FreedThreads(b, gone)
    BY <1>3, <1>7 DEF FreedThreads
  <2>2. r.state[t] = b.state[t]
    BY <1>9, <1>10, <2>1 DEF Deleted
  <2> QED
    BY <2>2, <1>7
<1>18. ASSUME NEW T \in SUBSET Threads, Timeouts(s, T \cup {t}) PROVE Timeouts(r, T)
  <2>1. Timeouts(a, T \cup {t})
    <3> SUFFICES ASSUME NEW e \in s.timeouts, e.thread \notin T \cup {t}
                 PROVE  e.thread \in a.timed /\ a.state[e.thread] = "SUSPENDED" /\ a.waitFor[e.thread] # {}
      BY <1>3 DEF Timeouts
    <3>1. e.thread \in Threads \ {t}
      BY DEF Data, Elements
    <3> QED
      BY <3>1, <1>3, <1>18 DEF Timeouts
  <2> QED
    BY <2>1, <1>6, <1>9
<1> QED
  BY <1>16, <1>17, <1>18 DEF r

\* What Lists says depends on these parts of the state only.
SameLists(r, s) ==
    /\ r.notify = s.notify /\ r.waitFor = s.waitFor
    /\ r.timer = s.timer /\ r.inttime = s.inttime /\ r.dirty = s.dirty
    /\ s.alive \subseteq r.alive /\ r.timeouts \subseteq s.timeouts
    /\ \A x \in Threads \ r.alive : r.vm[x] # "RUNNING" /\ r.state[x] = "RUNNING"
    /\ \A x \in Threads : r.state[x] = "WAITING" <=> s.state[x] = "WAITING"

LEMMA ListsSame ==
    ASSUME NEW s, NEW r, Lists(s), SameLists(r, s)
    PROVE  Lists(r)
<1>1. Registered(r)
  <2> SUFFICES ASSUME NEW x \in Threads, NEW l \in Listeners, NEW n \in AnyName
               PROVE  <<n, l>> \in r.waitFor[x] <=> \E k \in DOMAIN r.notify[l] : r.notify[l][k] = <<n, x>>
    BY DEF Registered
  <2>1. <<n, l>> \in s.waitFor[x] <=> \E k \in DOMAIN s.notify[l] : s.notify[l][k] = <<n, x>>
    BY DEF Lists, Registered
  <2> QED
    BY <2>1 DEF SameLists
<1>2. Living(r)
  BY DEF Lists, Living, SameLists
<1>3. TimerAgrees(r) /\ TimerDirty(r)
  BY DEF Lists, TimerAgrees, TimerDirty, SameLists
<1>4. Parents(r)
  BY DEF Lists, Parents, SameLists
<1> QED
  BY <1>1, <1>2, <1>3, <1>4 DEF Lists

LEMMA StateChange ==
    ASSUME NEW s \in Data, Lists(s), NEW t \in Threads, NEW x \in {"RUNNING", "SUSPENDED"},
           s.state[t] # "WAITING", x = "SUSPENDED" => t \in s.alive,
           NEW r, r = [s EXCEPT !.state[t] = x]
    PROVE  r \in Data /\ Lists(r)
<1> DEFINE state == [s.state EXCEPT ![t] = x]
<1>1. /\ state \in [Threads -> States] /\ state[t] = x
      /\ \A y \in Threads \ {t} : state[y] = s.state[y]
  BY DEF Data, States
<1>2. r = [s EXCEPT !.state = state]
  BY DEF Data
<1> HIDE DEF state
<1>3. r \in Data
  BY <1>1, <1>2 DEF Data
<1>4. /\ r.notify = s.notify /\ r.waitFor = s.waitFor /\ r.timer = s.timer
      /\ r.inttime = s.inttime /\ r.dirty = s.dirty /\ r.alive = s.alive
      /\ r.timeouts = s.timeouts /\ r.vm = s.vm /\ r.state = state
  BY <1>2 DEF Data
<1>5. \A y \in Threads \ r.alive : r.vm[y] # "RUNNING" /\ r.state[y] = "RUNNING"
  BY <1>1, <1>4 DEF Lists, Living
<1>6. \A y \in Threads : r.state[y] = "WAITING" <=> s.state[y] = "WAITING"
  BY <1>1, <1>4
<1>7. r.timeouts \subseteq s.timeouts /\ s.alive \subseteq r.alive
  BY <1>4
<1>8. SameLists(r, s)
  BY <1>4, <1>5, <1>6, <1>7 DEF SameLists
<1>9. Lists(r)
  BY <1>8, ListsSame
<1> QED
  BY <1>3, <1>9

LEMMA ReleasedSame ==
    ASSUME NEW s, NEW r \in Data, Good(r), NEW t, s.waitFor[t] = {},
           r.waitFor = s.waitFor, r.alive = s.alive, r.level = s.level, r.inttime = s.inttime
    PROVE  Released(r, s, t)
BY DEF Released

LEMMA StopWaiting ==
    ASSUME NEW s \in Data, Good(s), NEW t \in Threads, s.state[t] = "WAITING"
    PROVE  LET r == Stop(s, t)
           IN  /\ Released(r, s, t) /\ r.state[t] = "RUNNING"
               /\ \A T \in SUBSET Threads : Timeouts(s, T) => Timeouts(r, T)
<1> DEFINE r == Stop(s, t)
           K == Kept(s.timer, Elements(Threads \ {t}))
           state == [s.state EXCEPT ![t] = "RUNNING"]
<1>1. r = [s EXCEPT !.state = state, !.timer = K]
  BY DEF Stop, Data
<1>2. /\ state \in [Threads -> States] /\ state[t] = "RUNNING"
      /\ \A y \in Threads \ {t} : state[y] = s.state[y]
  BY DEF Data, States
<1> HIDE DEF state
<1>3. /\ r.notify = s.notify /\ r.waitFor = s.waitFor /\ r.timer = K
      /\ r.inttime = s.inttime /\ r.dirty = s.dirty /\ r.alive = s.alive
      /\ r.timeouts = s.timeouts /\ r.vm = s.vm /\ r.state = state /\ r.level = s.level
      /\ r.timed = s.timed
  BY <1>1 DEF Data
<1>4. r.timer \in Seq(Elements(Threads)) /\ TimerOK(r)
  <2>1. TimerOK(s)
    BY DEF Good, Lists, TimerOK
  <2>2. \A y \in Threads : r.state[y] = "WAITING" <=> y \notin {t} /\ s.state[y] = "WAITING"
    BY <1>2, <1>3
  <2>3. r.timer = Kept(s.timer, Elements(Threads \ {t})) /\ r.inttime = s.inttime /\ r.dirty = s.dirty
    BY <1>3
  <2> QED
    BY <2>1, <2>2, <2>3, TimerKept
<1>5. r \in Data
  BY <1>1, <1>2, <1>3, <1>4 DEF Data
<1> HIDE DEF r
<1>6. Registered(r)
  <2> SUFFICES ASSUME NEW x \in Threads, NEW l \in Listeners, NEW n \in AnyName
               PROVE  <<n, l>> \in r.waitFor[x] <=> \E k \in DOMAIN r.notify[l] : r.notify[l][k] = <<n, x>>
    BY DEF Registered
  <2>1. <<n, l>> \in s.waitFor[x] <=> \E k \in DOMAIN s.notify[l] : s.notify[l][k] = <<n, x>>
    BY DEF Good, Lists, Registered
  <2> QED
    BY <2>1, <1>3
<1>7. Living(r)
  BY <1>2, <1>3 DEF Good, Lists, Living
<1>8. Parents(r)
  BY <1>3 DEF Good, Lists, Parents
<1>9. s.waitFor[t] = {}
  BY DEF Good, Suspended
<1>10. Suspended(r, Threads)
  BY <1>2, <1>3, <1>9 DEF Good, Suspended
<1>11. Good(r)
  BY <1>4, <1>6, <1>7, <1>8, <1>10 DEF Good, Lists, TimerOK
<1>12. ASSUME NEW T \in SUBSET Threads, Timeouts(s, T) PROVE Timeouts(r, T)
  <2> SUFFICES ASSUME NEW e \in s.timeouts, e.thread \notin T
               PROVE  e.thread \in r.timed /\ r.state[e.thread] = "SUSPENDED" /\ r.waitFor[e.thread] # {}
    BY <1>3 DEF Timeouts
  <2>1. e.thread \in s.timed /\ s.state[e.thread] = "SUSPENDED" /\ s.waitFor[e.thread] # {}
    BY <1>12 DEF Timeouts
  <2>2. e.thread \in Threads
    BY DEF Data, Elements
  <2> QED
    BY <2>1, <2>2, <1>2, <1>3
<1>13. Released(r, s, t)
  BY <1>3, <1>5, <1>9, <1>11, ReleasedSame
<1> QED
  BY <1>2, <1>3, <1>12, <1>13 DEF r

LEMMA StopSuspended ==
    ASSUME NEW s \in Data, Good(s), NEW t \in Threads, s.state[t] = "SUSPENDED"
    PROVE  LET r == Stop(s, t)
           IN  /\ Released(r, s, t) /\ r.state[t] = "RUNNING"
               /\ \A T \in SUBSET Threads : Timeouts(s, T) => Timeouts(r, T)
<1> DEFINE r == Stop(s, t)
           b == [s EXCEPT !.state[t] = "RUNNING"]
<1>1. r = CancelWaitingAll(b, t)
  BY DEF Stop
<1>2. b \in Data /\ Lists(b)
  BY StateChange DEF Good
<1>3. /\ b.notify = s.notify /\ b.waitFor = s.waitFor
      /\ b.alive = s.alive /\ b.timeouts = s.timeouts /\ b.timed = s.timed
      /\ b.level = s.level /\ b.inttime = s.inttime
      /\ b.state[t] = "RUNNING" /\ \A y \in Threads \ {t} : b.state[y] = s.state[y]
  BY DEF Data
<1> HIDE DEF b, r
<1>4. Suspended(b, Threads \ {t})
  BY <1>3 DEF Good, Suspended
<1>5. ASSUME NEW T \in SUBSET Threads, Timeouts(s, T) PROVE Timeouts(b, T \cup {t})
  <2> SUFFICES ASSUME NEW e \in s.timeouts, e.thread \notin T \cup {t}
               PROVE  e.thread \in b.timed /\ b.state[e.thread] = "SUSPENDED" /\ b.waitFor[e.thread] # {}
    BY <1>3 DEF Timeouts
  <2>1. e.thread \in Threads \ {t}
    BY DEF Data, Elements
  <2> QED
    BY <2>1, <1>3, <1>5 DEF Timeouts
<1>6. CASE s.waitFor[t] = {}
  <2>1. r = b
    BY <1>1, <1>3, <1>6 DEF CancelWaitingAll
  <2>2. Good(b)
    BY <1>2, <1>3, <1>4, <1>6 DEF Good, Suspended
  <2>3. Released(b, s, t)
    BY <1>2, <1>3, <1>6, <2>2, ReleasedSame
  <2>4. ASSUME NEW T \in SUBSET Threads, Timeouts(s, T) PROVE Timeouts(b, T)
    <3>1. Timeouts(b, T \cup {t})
      BY <2>4, <1>5
    <3> SUFFICES ASSUME NEW e \in s.timeouts, e.thread \notin T PROVE e.thread # t
      BY <3>1, <1>3 DEF Timeouts
    <3> QED
      BY <1>6, <2>4 DEF Timeouts
  <2> QED
    BY <2>1, <2>3, <2>4, <1>3 DEF r
<1>7. CASE s.waitFor[t] # {}
  <2>1. /\ Released(r, b, t) /\ r.state[t] = "RUNNING"
        /\ \A T \in SUBSET Threads : Timeouts(b, T \cup {t}) => Timeouts(r, T)
    <3>1. b.waitFor[t] # {} /\ b.state[t] # "SUSPENDED"
      BY <1>3, <1>7
    <3> QED
      BY <3>1, <1>1, <1>2, <1>3, <1>4, CancelAll
  <2>2. Released(r, s, t)
    BY <2>1, <1>3 DEF Released
  <2>3. \A T \in SUBSET Threads : Timeouts(s, T) => Timeouts(r, T)
    BY <2>1, <1>5
  <2> QED
    BY <2>1, <2>2, <2>3 DEF r
<1> QED
  BY <1>6, <1>7

\* A thread that is stopped waits for nothing, and lives if it did.
LEMMA StopFacts ==
    ASSUME NEW s \in Data, Good(s), NEW t \in Threads
    PROVE  LET r == Stop(s, t)
           IN  /\ Released(r, s, t) /\ r.state[t] = "RUNNING"
               /\ \A T \in SUBSET Threads : Timeouts(s, T) => Timeouts(r, T)
<1>1. CASE s.state[t] = "WAITING"
  BY <1>1, StopWaiting
<1>2. CASE s.state[t] = "SUSPENDED"
  BY <1>2, StopSuspended
<1>3. CASE s.state[t] = "RUNNING"
  <2>1. Stop(s, t) = s
    BY <1>3 DEF Stop
  <2>2. s.waitFor[t] = {}
    BY <1>3 DEF Good, Suspended
  <2>3. Released(s, s, t)
    BY <2>2, ReleasedSame
  <2> QED
    BY <1>3, <2>1, <2>3
<1> QED
  BY <1>1, <1>2, <1>3 DEF Data, States

-----------------------------------------------------------------------------
(* What scripts and the Director do with a thread.                         *)

\* r has all that s had, and a timeout of s is still one of the wait it was given for.
Keeps(r, s) ==
    /\ r \in Data /\ Good(r)
    /\ \A T \in SUBSET Threads : Timeouts(s, T) => Timeouts(r, T)

\* r is s with another vm of t, and with t no longer among the timed if it waits
\* for nothing.
Adjusts(r, s, t) ==
    /\ r \in Data
    /\ r.alive = s.alive /\ r.notify = s.notify /\ r.waitFor = s.waitFor
    /\ r.state = s.state /\ r.timer = s.timer /\ r.dirty = s.dirty
    /\ r.inttime = s.inttime /\ r.level = s.level
    /\ r.timeouts \subseteq s.timeouts
    /\ \A x \in Threads \ {t} : r.vm[x] = s.vm[x]
    /\ r.vm[t] = "RUNNING" => t \in s.alive
    /\ s.timed \ {t} \subseteq r.timed
    /\ s.waitFor[t] = {} \/ s.timed \subseteq r.timed

LEMMA AdjustsKeeps ==
    ASSUME NEW s \in Data, Good(s), NEW t \in Threads, NEW r, Adjusts(r, s, t)
    PROVE  Keeps(r, s)
<1>1. SameLists(r, s)
  <2>1. ASSUME NEW x \in Threads \ r.alive PROVE r.vm[x] # "RUNNING" /\ r.state[x] = "RUNNING"
    <3>1. s.vm[x] # "RUNNING" /\ s.state[x] = "RUNNING"
      BY DEF Adjusts, Good, Lists, Living
    <3> QED
      BY <3>1 DEF Adjusts
  <2> QED
    BY <2>1 DEF Adjusts, SameLists
<1>2. Lists(r)
  BY <1>1, ListsSame DEF Good
<1>3. Suspended(r, Threads)
  BY DEF Adjusts, Good, Suspended
<1>4. ASSUME NEW T \in SUBSET Threads, Timeouts(s, T) PROVE Timeouts(r, T)
  <2> SUFFICES ASSUME NEW e \in r.timeouts, e.thread \notin T
               PROVE  e.thread \in r.timed /\ r.state[e.thread] = "SUSPENDED" /\ r.waitFor[e.thread] # {}
    BY DEF Timeouts
  <2>1. e.thread \in s.timed /\ s.state[e.thread] = "SUSPENDED" /\ s.waitFor[e.thread] # {}
    BY <1>4 DEF Timeouts, Adjusts
  <2> QED
    BY <2>1 DEF Adjusts
<1> QED
  BY <1>2, <1>3, <1>4 DEF Keeps, Good, Adjusts

LEMMA SuspendAdjusts ==
    ASSUME NEW s \in Data, NEW t \in Threads
    PROVE  /\ Adjusts(Suspend(s, t), s, t)
           /\ Suspend(s, t).timed = s.timed /\ Suspend(s, t).timeouts = s.timeouts
<1> DEFINE vm == [s.vm EXCEPT ![t] = IF @ = "RUNNING" THEN "SUSPENDED" ELSE @]
           r == Suspend(s, t)
<1>1. r = [s EXCEPT !.vm = vm]
  BY DEF Suspend, Data
<1>2. vm \in [Threads -> VMStates] /\ vm[t] # "RUNNING" /\ \A x \in Threads \ {t} : vm[x] = s.vm[x]
  BY DEF Data, VMStates
<1> HIDE DEF vm, r
<1>3. r \in Data
  BY <1>1, <1>2 DEF Data
<1> QED
  BY <1>1, <1>2, <1>3 DEF Adjusts, Data, r

LEMMA StartedFacts ==
    ASSUME NEW s \in Data, Good(s), NEW t \in Threads, t \in s.alive
    PROVE  Keeps(Started(s, t), s)
<1> DEFINE p == Stop(s, t)
           r == Started(s, t)
           vm == [p.vm EXCEPT ![t] = "RUNNING"]
<1>1. r = [p EXCEPT !.vm[t] = "RUNNING"]
  BY DEF Started
<1>2. Released(p, s, t) /\ \A T \in SUBSET Threads : Timeouts(s, T) => Timeouts(p, T)
  BY StopFacts
<1>3. p \in Data /\ Good(p) /\ t \in p.alive
  BY <1>2 DEF Released
<1> HIDE DEF p, r
<1>4. r = [p EXCEPT !.vm = vm]
  BY <1>1, <1>3 DEF Data
<1>5. vm \in [Threads -> VMStates] /\ \A x \in Threads \ {t} : vm[x] = p.vm[x]
  BY <1>3 DEF Data, VMStates
<1> HIDE DEF vm
<1>6. r \in Data
  BY <1>3, <1>4, <1>5 DEF Data
<1>7. Adjusts(r, p, t)
  BY <1>3, <1>4, <1>5, <1>6 DEF Adjusts, Data
<1>8. Keeps(r, p)
  BY <1>3, <1>7, AdjustsKeeps
<1> QED
  BY <1>2, <1>8 DEF Keeps, r

\* A thread that waits for nothing may wait for time.
LEMMA TimedKeeps ==
    ASSUME NEW s \in Data, Good(s), NEW t \in Threads, NEW time \in Int,
           t \in s.alive, s.waitFor[t] = {}, s.state[t] # "WAITING"
    PROVE  /\ Keeps(Timed(s, t, time), s) /\ Waits(Timed(s, t, time), s, t)
<1> DEFINE r == Timed(s, t, time)
<1>1. r \in Data /\ TimerOK(r) /\ Waits(r, s, t)
  <2>1. TimerOK(s)
    BY DEF Good, Lists, TimerOK
  <2> QED
    BY <2>1, TimedThread
<1> HIDE DEF r
<1>2. /\ r.notify = s.notify /\ r.waitFor = s.waitFor /\ r.alive = s.alive
      /\ r.timeouts = s.timeouts /\ r.vm = s.vm /\ r.timed = s.timed
      /\ r.state = [s.state EXCEPT ![t] = "WAITING"]
  BY <1>1 DEF Waits, Data
<1>3. r.state[t] = "WAITING" /\ \A x \in Threads \ {t} : r.state[x] = s.state[x]
  BY <1>2 DEF Data
<1>4. Registered(r)
  <2> SUFFICES ASSUME NEW x \in Threads, NEW l \in Listeners, NEW n \in AnyName
               PROVE  <<n, l>> \in r.waitFor[x] <=> \E k \in DOMAIN r.notify[l] : r.notify[l][k] = <<n, x>>
    BY DEF Registered
  <2>1. <<n, l>> \in s.waitFor[x] <=> \E k \in DOMAIN s.notify[l] : s.notify[l][k] = <<n, x>>
    BY DEF Good, Lists, Registered
  <2> QED
    BY <2>1, <1>2
<1>5. Living(r)
  BY <1>2, <1>3 DEF Good, Lists, Living
<1>6. Parents(r)
  BY <1>2 DEF Good, Lists, Parents
<1>7. Suspended(r, Threads)
  BY <1>2, <1>3 DEF Good, Suspended
<1>8. ASSUME NEW T \in SUBSET Threads, Timeouts(s, T) PROVE Timeouts(r, T)
  <2> SUFFICES ASSUME NEW e \in r.timeouts, e.thread \notin T
               PROVE  e.thread \in r.timed /\ r.state[e.thread] = "SUSPENDED" /\ r.waitFor[e.thread] # {}
    BY DEF Timeouts
  <2>1. e.thread \in s.timed /\ s.state[e.thread] = "SUSPENDED" /\ s.waitFor[e.thread] # {}
    BY <1>2, <1>8 DEF Timeouts
  <2>2. e.thread \in Threads \ {t}
    BY <1>2, <2>1 DEF Data, Elements
  <2> QED
    BY <2>1, <2>2, <1>2, <1>3
<1> QED
  BY <1>1, <1>4, <1>5, <1>6, <1>7, <1>8 DEF Keeps, Good, Lists, TimerOK, r

LEMMA WaitKeeps ==
    ASSUME NEW s \in Data, Good(s), NEW t \in Threads, t \in s.alive, NEW delay \in Delays
    PROVE  Keeps(Wait(s, t, delay), s)
<1> DEFINE p == Stop(s, t)
           time == s.level + delay
           q == Timed(p, t, time)
           u == Suspend(q, t)
           r == Wait(s, t, delay)
           asked == [u.asked EXCEPT ![t] = {}]
<1>1. r = [u EXCEPT !.asked[t] = {}, !.timed = u.timed \ {t}]
  BY DEF Wait
<1>2. Released(p, s, t) /\ p.state[t] = "RUNNING"
      /\ \A T \in SUBSET Threads : Timeouts(s, T) => Timeouts(p, T)
  BY StopFacts
<1>3. p \in Data /\ Good(p) /\ t \in p.alive /\ p.waitFor[t] = {}
  BY <1>2 DEF Released
<1>4. time \in Int
  BY ScriptThreadsAssumption DEF Data
<1> HIDE DEF p, time
<1>5. Keeps(q, p) /\ Waits(q, p, t)
  BY <1>2, <1>3, <1>4, TimedKeeps
<1>6. q \in Data /\ Good(q) /\ q.waitFor[t] = {}
  BY <1>3, <1>5 DEF Keeps, Waits, Data
<1> HIDE DEF q
<1>7. Adjusts(u, q, t)
  BY <1>6, SuspendAdjusts
<1>8. Keeps(u, q)
  BY <1>6, <1>7, AdjustsKeeps
<1>9. u \in Data /\ Good(u) /\ u.waitFor[t] = {}
  BY <1>6, <1>7, <1>8 DEF Keeps, Adjusts
<1> HIDE DEF u, r
<1>10. r = [u EXCEPT !.asked = asked, !.timed = u.timed \ {t}]
  BY <1>1, <1>9 DEF Data
<1>11. asked \in [Threads -> SUBSET Waited] /\ u.timed \ {t} \in SUBSET Threads
  BY <1>9 DEF Data
<1> HIDE DEF asked
<1>12. r \in Data
  BY <1>9, <1>10, <1>11 DEF Data
<1>13. Adjusts(r, u, t)
  <2>1. u.vm[t] = "RUNNING" => t \in u.alive
    BY <1>9 DEF Good, Lists, Living
  <2> QED
    BY <2>1, <1>9, <1>10, <1>12 DEF Adjusts, Data
<1>14. Keeps(r, u)
  BY <1>9, <1>13, AdjustsKeeps
<1> QED
  BY <1>2, <1>5, <1>8, <1>14 DEF Keeps, r

\* Nothing of t is left that could end its wait, but for those of T.
Others(s, T, t) ==
    \A e \in s.timeouts :
        \/ e.thread \in T
        \/ /\ e.thread # t /\ e.thread \in s.timed
           /\ s.state[e.thread] = "SUSPENDED" /\ s.waitFor[e.thread] # {}

\* What t may wait for: living objects, and the end of threads that wait for nothing.
Targets(s, t, waits) ==
    /\ waits \in SUBSET Waited
    /\ \A w \in waits :
        /\ w[2] \in s.alive
        /\ w[2] \in Threads => w[1] = "0" /\ w[2] # t /\ s.notify[w[2]] = <<>> /\ s.waitFor[w[2]] = {}

\* r is s, but t, which waited for nothing, waits.
Registers(r, s, t, waits) ==
    /\ r.alive = s.alive /\ r.vm = s.vm /\ r.state = s.state
    /\ r.timer = s.timer /\ r.dirty = s.dirty /\ r.inttime = s.inttime
    /\ r.timeouts = s.timeouts /\ r.timed = s.timed
    /\ r.waitFor = [s.waitFor EXCEPT ![t] = waits]
    /\ r.notify = [l \in Listeners |->
                     s.notify[l] \o SetToSeq({<<w[1], t>> : w \in {x \in waits : x[2] = l}})]

LEMMA FiniteWaits ==
    ASSUME NEW t \in Threads, NEW waits \in SUBSET Waited, NEW l
    PROVE  LET q == SetToSeq({<<w[1], t>> : w \in {x \in waits : x[2] = l}})
           IN  /\ q \in Seq(Entry)
               /\ \A n, x : (\E k \in DOMAIN q : q[k] = <<n, x>>) <=> x = t /\ <<n, l>> \in waits
<1> DEFINE S == {<<w[1], t>> : w \in {x \in waits : x[2] = l}}
           q == SetToSeq(S)
<1>1. IsFiniteSet(AnyName)
  BY ScriptThreadsAssumption, FS_AddElement DEF AnyName
<1>2. IsFiniteSet(Entry)
  BY <1>1, ScriptThreadsAssumption, FS_Product DEF Entry, Entries
<1>3. S \in SUBSET Entry
  BY DEF Entry, Entries, Waited
<1>4. IsFiniteSet(S)
  <2> HIDE DEF S
  <2> QED
    BY <1>2, <1>3, FS_Subset
<1>5. \A n, x : <<n, x>> \in S <=> x = t /\ <<n, l>> \in waits
  BY DEF Waited
<1> HIDE DEF S
<1>6. q \in Seq(S) /\ \A x \in S : \E k \in DOMAIN q : q[k] = x
  BY <1>4, SetToSeqElements
<1> HIDE DEF q
<1>7. \A k \in DOMAIN q : q[k] \in S
  BY <1>6
<1>8. q \in Seq(Entry)
  BY <1>3, <1>6
<1> QED
  BY <1>5, <1>6, <1>7, <1>8 DEF q, S

\* What is in the first of two lists or in the second is in both together.
InList(x, list) == \E k \in DOMAIN list : list[k] = x

LEMMA Both ==
    ASSUME NEW E, NEW p \in Seq(E), NEW q \in Seq(E), NEW x
    PROVE  /\ p \o q \in Seq(E)
           /\ InList(x, p \o q) <=> InList(x, p) \/ InList(x, q)
<1> DEFINE r == p \o q
<1>1. /\ r \in Seq(E) /\ DOMAIN r = 1 .. Len(p) + Len(q)
      /\ DOMAIN p = 1 .. Len(p) /\ DOMAIN q = 1 .. Len(q) /\ Len(p) \in Nat /\ Len(q) \in Nat
      /\ \A k \in 1 .. Len(p) + Len(q) : r[k] = IF k <= Len(p) THEN p[k] ELSE q[k - Len(p)]
  OBVIOUS
<1> HIDE DEF r
<1>2. ASSUME NEW k \in DOMAIN r, r[k] = x
      PROVE  (\E j \in DOMAIN p : p[j] = x) \/ (\E j \in DOMAIN q : q[j] = x)
  <2>1. CASE k <= Len(p)
    BY <2>1, <1>1, <1>2
  <2>2. CASE ~(k <= Len(p))
    <3>1. k - Len(p) \in DOMAIN q /\ q[k - Len(p)] = x
      BY <2>2, <1>1, <1>2
    <3> QED
      BY <3>1
  <2> QED
    BY <2>1, <2>2
<1>3. ASSUME NEW j \in DOMAIN p, p[j] = x PROVE \E k \in DOMAIN r : r[k] = x
  BY <1>1, <1>3
<1>4. ASSUME NEW j \in DOMAIN q, q[j] = x PROVE \E k \in DOMAIN r : r[k] = x
  <2>1. j + Len(p) \in DOMAIN r /\ r[j + Len(p)] = x
    BY <1>1, <1>4
  <2> QED
    BY <2>1
<1> QED
  BY <1>1, <1>2, <1>3, <1>4 DEF r, InList

LEMMA RegistersLists ==
    ASSUME NEW s \in Data, Lists(s), Suspended(s, Threads), NEW t \in Threads,
           t \in s.alive, s.waitFor[t] = {}, s.state[t] = "SUSPENDED",
           NEW waits, Targets(s, t, waits),
           NEW r, Registers(r, s, t, waits)
    PROVE  /\ r.notify \in [Listeners -> Seq(Entry)] /\ r.waitFor \in [Threads -> SUBSET Waited]
           /\ Good(r)
<1> DEFINE S(l) == {<<w[1], t>> : w \in {x \in waits : x[2] = l}}
           q(l) == SetToSeq(S(l))
<1>1. waits \in SUBSET Waited
  BY DEF Targets
<1>2. ASSUME NEW l \in Listeners
      PROVE  /\ q(l) \in Seq(Entry)
             /\ \A n, x : (\E k \in DOMAIN q(l) : q(l)[k] = <<n, x>>) <=> x = t /\ <<n, l>> \in waits
  BY <1>1, FiniteWaits
<1> HIDE DEF q
<1>3. /\ \A l \in Listeners : r.notify[l] = s.notify[l] \o q(l)
      /\ r.notify = [l \in Listeners |-> r.notify[l]]
      /\ r.waitFor[t] = waits /\ \A x \in Threads \ {t} : r.waitFor[x] = s.waitFor[x]
      /\ r.waitFor \in [Threads -> SUBSET Waited]
  <2>1. s.waitFor \in [Threads -> SUBSET Waited]
    BY DEF Data
  <2>2. r.waitFor = [s.waitFor EXCEPT ![t] = waits]
    BY DEF Registers
  <2>3. r.notify = [l \in Listeners |-> s.notify[l] \o q(l)]
    BY DEF Registers, q
  <2> QED
    BY <1>1, <2>1, <2>2, <2>3
<1>4. ASSUME NEW l \in Listeners
      PROVE  /\ r.notify[l] \in Seq(Entry)
             /\ \A n, x : (\E k \in DOMAIN r.notify[l] : r.notify[l][k] = <<n, x>>)
                    <=> (\E k \in DOMAIN s.notify[l] : s.notify[l][k] = <<n, x>>)
                        \/ (x = t /\ <<n, l>> \in waits)
  <2> DEFINE a == s.notify[l]
             b == q(l)
  <2>1. a \in Seq(Entry) /\ b \in Seq(Entry)
    BY <1>2 DEF Data
  <2>2. \A n, x : (\E k \in DOMAIN b : b[k] = <<n, x>>) <=> x = t /\ <<n, l>> \in waits
    BY <1>2
  <2>3. r.notify[l] = a \o b
    BY <1>3
  <2> HIDE DEF a, b
  <2>4. a \o b \in Seq(Entry)
    BY <2>1, Both
  <2>5. ASSUME NEW n, NEW x
        PROVE  (\E k \in DOMAIN (a \o b) : (a \o b)[k] = <<n, x>>)
                 <=> (\E k \in DOMAIN a : a[k] = <<n, x>>) \/ (\E k \in DOMAIN b : b[k] = <<n, x>>)
    <3>1. InList(<<n, x>>, a \o b) <=> InList(<<n, x>>, a) \/ InList(<<n, x>>, b)
      BY <2>1, Both
    <3> QED
      BY <3>1 DEF InList
  <2>6. \A n, x : (\E k \in DOMAIN (a \o b) : (a \o b)[k] = <<n, x>>)
                    <=> (\E k \in DOMAIN a : a[k] = <<n, x>>) \/ (x = t /\ <<n, l>> \in waits)
    BY <2>2, <2>5
  <2> QED
    BY <2>3, <2>4, <2>6 DEF a
<1>5. r.notify \in [Listeners -> Seq(Entry)]
  BY <1>3, <1>4
<1>6. Registered(r)
  <2> SUFFICES ASSUME NEW x \in Threads, NEW l \in Listeners, NEW n \in AnyName
               PROVE  <<n, l>> \in r.waitFor[x] <=> \E k \in DOMAIN r.notify[l] : r.notify[l][k] = <<n, x>>
    BY DEF Registered
  <2>1. <<n, l>> \in s.waitFor[x] <=> \E k \in DOMAIN s.notify[l] : s.notify[l][k] = <<n, x>>
    BY DEF Lists, Registered
  <2>2. (\E k \in DOMAIN r.notify[l] : r.notify[l][k] = <<n, x>>)
           <=> <<n, l>> \in s.waitFor[x] \/ (x = t /\ <<n, l>> \in waits)
    BY <2>1, <1>4
  <2> QED
    BY <2>2, <1>3
<1>7. Living(r)
  <2>1. ASSUME NEW l \in Listeners \ r.alive PROVE r.notify[l] = <<>>
    <3>1. s.notify[l] = <<>>
      BY DEF Lists, Living, Registers
    <3>2. DOMAIN r.notify[l] = {}
      <4> SUFFICES ASSUME NEW k \in DOMAIN r.notify[l] PROVE FALSE
        OBVIOUS
      <4>1. r.notify[l][k] \in Entry
        BY <1>4
      <4>2. PICK n, x : r.notify[l][k] = <<n, x>>
        BY <4>1 DEF Entry, Entries
      <4>3. <<n, l>> \in waits
        BY <4>2, <3>1, <1>4
      <4>4. l \in s.alive
        BY <4>3 DEF Targets
      <4> QED
        BY <4>4 DEF Registers
    <3>3. r.notify[l] \in Seq(Entry)
      BY <1>4
    <3> DEFINE list == r.notify[l]
    <3> HIDE DEF list
    <3>4. list \in Seq(Entry) /\ DOMAIN list = {} => list = <<>>
      OBVIOUS
    <3> QED
      BY <3>2, <3>3, <3>4 DEF list
  <2>2. \A x \in Threads \ r.alive : r.waitFor[x] = {} /\ r.vm[x] # "RUNNING" /\ r.state[x] = "RUNNING"
    BY <1>3 DEF Lists, Living, Registers
  <2>3. \A e \in r.timeouts : e.thread \in r.alive
    BY DEF Lists, Living, Registers
  <2> QED
    BY <2>1, <2>2, <2>3 DEF Living
<1>8. TimerAgrees(r) /\ TimerDirty(r)
  BY DEF Lists, TimerAgrees, TimerDirty, Registers
<1>9. Parents(r)
  <2>1. ASSUME NEW x \in Threads, NEW w \in r.waitFor[x], w[2] \in Threads PROVE w[1] = "0"
    <3>1. CASE x = t
      BY <3>1, <2>1, <1>3 DEF Targets
    <3>2. CASE x # t
      BY <3>2, <2>1, <1>3 DEF Lists, Parents
    <3> QED
      BY <3>1, <3>2
  <2>2. ASSUME NEW C \in SUBSET Threads, C # {}
        PROVE  \E x \in C : \A c \in C : <<"0", c>> \notin r.waitFor[x]
    <3>1. CASE \E c \in C : <<"0", c>> \in waits
      <4>1. PICK c \in C : <<"0", c>> \in waits
        BY <3>1
      <4>2. c # t /\ s.waitFor[c] = {}
        BY <4>1 DEF Targets
      <4>3. r.waitFor[c] = {}
        BY <4>2, <1>3
      <4> QED
        BY <4>3
    <3>2. CASE \A c \in C : <<"0", c>> \notin waits
      <4>1. PICK x \in C : \A c \in C : <<"0", c>> \notin s.waitFor[x]
        BY <2>2 DEF Lists, Parents
      <4>2. \A c \in C : <<"0", c>> \notin r.waitFor[x]
        BY <3>2, <4>1, <1>3
      <4> QED
        BY <4>2
    <3> QED
      BY <3>1, <3>2
  <2> QED
    BY <2>1, <2>2 DEF Parents
<1>10. Suspended(r, Threads)
  BY <1>3 DEF Suspended, Registers
<1> QED
  BY <1>3, <1>5, <1>6, <1>7, <1>8, <1>9, <1>10 DEF Good, Lists

\* r is s, but t waits for what is in waits; what is left in T of its other waits
\* ends with them.
Waiting(r, s, t, waits) ==
    /\ r \in Data /\ Good(r)
    /\ r.waitFor[t] = waits /\ r.state[t] = "SUSPENDED" /\ t \in r.alive
    /\ \A w \in waits : w[2] \in r.alive
    /\ r.level = s.level
    /\ \A T \in SUBSET Threads : Timeouts(s, T) => Others(r, T, t)

LEMMA RegisterFacts ==
    ASSUME NEW s \in Data, Good(s), NEW t \in Threads, t \in s.alive,
           NEW waits, Targets(s, t, waits)
    PROVE  Waiting(Register(s, t, waits), s, t, waits)
<1> DEFINE p == Stop(s, t)
           b == [p EXCEPT !.state[t] = "SUSPENDED"]
           u == Suspend(b, t)
           waitFor == [u.waitFor EXCEPT ![t] = waits]
           notify == [l \in Listeners |->
                        u.notify[l] \o SetToSeq({<<w[1], t>> : w \in {x \in waits : x[2] = l}})]
           r == Register(s, t, waits)
<1>1. Released(p, s, t) /\ p.state[t] = "RUNNING"
      /\ \A T \in SUBSET Threads : Timeouts(s, T) => Timeouts(p, T)
  BY StopFacts
<1>2. /\ p \in Data /\ Good(p) /\ t \in p.alive /\ p.waitFor[t] = {} /\ p.level = s.level
      /\ s.alive \cap Objects \subseteq p.alive
      /\ \A x \in s.alive \cap Threads : s.notify[x] = <<>> /\ s.waitFor[x] = {} => x \in p.alive
      /\ \A x \in Threads : p.waitFor[x] \subseteq s.waitFor[x]
  BY <1>1 DEF Released
<1>3. r = [u EXCEPT !.waitFor[t] = waits, !.notify = notify]
  BY DEF Register
<1> HIDE DEF p
<1>4. b \in Data /\ Lists(b)
  BY <1>1, <1>2, StateChange DEF Good
<1>5. /\ b.alive = p.alive /\ b.notify = p.notify /\ b.waitFor = p.waitFor
      /\ b.timeouts = p.timeouts /\ b.timed = p.timed /\ b.level = p.level
      /\ b.state[t] = "SUSPENDED" /\ \A x \in Threads \ {t} : b.state[x] = p.state[x]
  BY <1>2 DEF Data
<1>6. Good(b)
  BY <1>2, <1>4, <1>5 DEF Good, Suspended
<1> HIDE DEF b
<1>7. /\ Adjusts(u, b, t) /\ u.timed = b.timed /\ u.timeouts = b.timeouts
  BY <1>4, SuspendAdjusts
<1>8. Keeps(u, b)
  BY <1>4, <1>6, <1>7, AdjustsKeeps
<1>9. /\ u \in Data /\ Good(u)
      /\ u.alive = p.alive /\ u.notify = p.notify /\ u.waitFor = p.waitFor
      /\ u.timeouts = p.timeouts /\ u.timed = p.timed /\ u.level = p.level
      /\ u.state[t] = "SUSPENDED" /\ \A x \in Threads \ {t} : u.state[x] = p.state[x]
  BY <1>5, <1>7, <1>8 DEF Keeps, Adjusts
<1> HIDE DEF u
<1>10. Targets(u, t, waits)
  <2>1. waits \in SUBSET Waited
    BY DEF Targets
  <2>2. ASSUME NEW w \in waits PROVE w[2] \in u.alive
    BY <2>1, <1>2, <1>9 DEF Targets, Waited, Listeners
  <2>3. ASSUME NEW w \in waits, w[2] \in Threads
        PROVE  w[1] = "0" /\ w[2] # t /\ u.notify[w[2]] = <<>> /\ u.waitFor[w[2]] = {}
    <3> DEFINE c == w[2]
    <3>1. w[1] = "0" /\ c # t /\ s.notify[c] = <<>> /\ s.waitFor[c] = {} /\ c \in s.alive
      BY <2>3 DEF Targets
    <3>2. u.waitFor[c] = {}
      BY <3>1, <2>3, <1>2, <1>9
    <3>3. DOMAIN p.notify[c] = {}
      <4> SUFFICES ASSUME NEW k \in DOMAIN p.notify[c] PROVE FALSE
        OBVIOUS
      <4> HIDE DEF c
      <4>1. p.notify[c] \in Seq(Entry)
        BY <1>2, <2>3 DEF Data, Listeners, c
      <4>2. p.notify[c][k] \in Entry
        BY <4>1
      <4>3. PICK n \in AnyName, x \in Threads : p.notify[c][k] = <<n, x>>
        BY <4>2 DEF Entry, Entries
      <4>4. c \in Listeners
        BY <2>3 DEF Listeners, c
      <4>5. <<n, c>> \in s.waitFor[x]
        BY <4>3, <4>4, <1>2 DEF Good, Lists, Registered
      <4>6. \E j \in DOMAIN s.notify[c] : s.notify[c][j] = <<n, x>>
        BY <4>4, <4>5 DEF Good, Lists, Registered
      <4> QED
        BY <4>6, <3>1
    <3>4. p.notify[c] \in Seq(Entry)
      BY <1>2, <2>3 DEF Data, Listeners
    <3> DEFINE list == p.notify[c]
    <3> HIDE DEF list
    <3>5. list \in Seq(Entry) /\ DOMAIN list = {} => list = <<>>
      OBVIOUS
    <3> QED
      BY <3>1, <3>2, <3>3, <3>4, <3>5, <1>9 DEF list
  <2> QED
    BY <2>1, <2>2, <2>3 DEF Targets
<1> HIDE DEF r
<1>11. r = [u EXCEPT !.waitFor = waitFor, !.notify = notify]
  BY <1>3, <1>9 DEF Data
<1>12. /\ r.waitFor = waitFor /\ r.notify = notify /\ r.alive = u.alive
       /\ r.vm = u.vm /\ r.state = u.state /\ r.timer = u.timer /\ r.dirty = u.dirty
       /\ r.inttime = u.inttime /\ r.level = u.level
       /\ r.timeouts = u.timeouts /\ r.timed = u.timed
  <2> HIDE DEF waitFor, notify
  <2> QED
    BY <1>9, <1>11 DEF Data
<1>13. Registers(r, u, t, waits)
  BY <1>12 DEF Registers
<1>14. /\ r.notify \in [Listeners -> Seq(Entry)] /\ r.waitFor \in [Threads -> SUBSET Waited]
       /\ Good(r)
  <2>1. Lists(u) /\ Suspended(u, Threads) /\ t \in u.alive /\ u.waitFor[t] = {}
    BY <1>2, <1>9 DEF Good
  <2> QED
    BY <2>1, <1>9, <1>10, <1>13, RegistersLists
<1>15. r.waitFor[t] = waits /\ \A x \in Threads \ {t} : r.waitFor[x] = u.waitFor[x]
  BY <1>9, <1>12 DEF Data
<1> HIDE DEF waitFor, notify
<1>16. r \in Data
  BY <1>9, <1>11, <1>12, <1>14 DEF Data
<1>17. ASSUME NEW T \in SUBSET Threads, Timeouts(s, T) PROVE Others(r, T, t)
  <2> SUFFICES ASSUME NEW e \in r.timeouts, e.thread \notin T
               PROVE  e.thread # t /\ e.thread \in r.timed
                      /\ r.state[e.thread] = "SUSPENDED" /\ r.waitFor[e.thread] # {}
    BY DEF Others
  <2>1. e \in p.timeouts
    BY <1>9, <1>12
  <2>2. e.thread \in p.timed /\ p.state[e.thread] = "SUSPENDED" /\ p.waitFor[e.thread] # {}
    BY <2>1, <1>1, <1>17 DEF Timeouts
  <2>3. e.thread \in Threads \ {t}
    BY <2>1, <2>2, <1>2 DEF Data, Elements
  <2> QED
    BY <2>2, <2>3, <1>9, <1>12, <1>15
<1>18. \A w \in waits : w[2] \in r.alive
  BY <1>10, <1>12 DEF Targets
<1> QED
  BY <1>2, <1>9, <1>12, <1>14, <1>15, <1>16, <1>17, <1>18 DEF Waiting, r

\* The names of waittill_any and the timed threads are those of the wait.
Asked(r, p, t, asked, timed, events) ==
    /\ timed \in {p.timed \ {t}, p.timed \cup {t}}
    /\ r = [p EXCEPT !.timeouts = p.timeouts \cup events,
                     !.asked[t] = asked, !.timed = timed]

LEMMA AskedKeeps ==
    ASSUME NEW s \in Data, NEW p, NEW t \in Threads, NEW waits, Waiting(p, s, t, waits),
           NEW asked \in SUBSET Waited, NEW timed, NEW events \in SUBSET Elements(Threads),
           \A e \in events : e.thread = t /\ t \in timed /\ waits # {},
           NEW r, Asked(r, p, t, asked, timed, events)
    PROVE  Keeps(r, s) /\ r.alive = p.alive
<1>0. /\ timed \in {p.timed \ {t}, p.timed \cup {t}}
      /\ r = [p EXCEPT !.timeouts = p.timeouts \cup events,
                       !.asked[t] = asked, !.timed = timed]
  BY DEF Asked
<1>1. p \in Data /\ Good(p) /\ p.waitFor[t] = waits /\ p.state[t] = "SUSPENDED" /\ t \in p.alive
  BY DEF Waiting
<1> DEFINE asks == [p.asked EXCEPT ![t] = asked]
           timeouts == p.timeouts \cup events
<1>2. asks \in [Threads -> SUBSET Waited] /\ timeouts \in SUBSET Elements(Threads)
      /\ timed \in SUBSET Threads /\ p.timed \ {t} \subseteq timed
  BY <1>0, <1>1 DEF Data
<1>3. r = [p EXCEPT !.timeouts = timeouts, !.asked = asks, !.timed = timed]
  BY <1>0, <1>1 DEF Data
<1> HIDE DEF asks
<1>4. /\ r.timeouts = timeouts /\ r.timed = timed /\ r.alive = p.alive
      /\ r.vm = p.vm /\ r.state = p.state /\ r.timer = p.timer /\ r.dirty = p.dirty
      /\ r.inttime = p.inttime /\ r.waitFor = p.waitFor /\ r.notify = p.notify
  BY <1>1, <1>3 DEF Data
<1>5. r \in Data
  <2> HIDE DEF timeouts
  <2> QED
    BY <1>1, <1>2, <1>3 DEF Data
<1>6. Registered(r)
  <2> SUFFICES ASSUME NEW x \in Threads, NEW l \in Listeners, NEW n \in AnyName
               PROVE  <<n, l>> \in r.waitFor[x] <=> \E k \in DOMAIN r.notify[l] : r.notify[l][k] = <<n, x>>
    BY DEF Registered
  <2>1. <<n, l>> \in p.waitFor[x] <=> \E k \in DOMAIN p.notify[l] : p.notify[l][k] = <<n, x>>
    BY <1>1 DEF Good, Lists, Registered
  <2> QED
    BY <2>1, <1>4
<1>7. Living(r)
  <2>1. \A l \in Listeners \ r.alive : r.notify[l] = <<>>
    BY <1>1, <1>4 DEF Good, Lists, Living
  <2>2. \A x \in Threads \ r.alive : r.waitFor[x] = {} /\ r.vm[x] # "RUNNING" /\ r.state[x] = "RUNNING"
    BY <1>1, <1>4 DEF Good, Lists, Living
  <2>3. \A e \in r.timeouts : e.thread \in r.alive
    BY <1>1, <1>4 DEF Good, Lists, Living
  <2> QED
    BY <2>1, <2>2, <2>3 DEF Living
<1>8. TimerAgrees(r) /\ TimerDirty(r) /\ Parents(r) /\ Suspended(r, Threads)
  BY <1>1, <1>4 DEF Good, Lists, TimerAgrees, TimerDirty, Parents, Suspended
<1>9. ASSUME NEW T \in SUBSET Threads, Timeouts(s, T) PROVE Timeouts(r, T)
  <2>1. Others(p, T, t)
    BY <1>9 DEF Waiting
  <2> SUFFICES ASSUME NEW e \in r.timeouts, e.thread \notin T
               PROVE  e.thread \in r.timed /\ r.state[e.thread] = "SUSPENDED" /\ r.waitFor[e.thread] # {}
    BY DEF Timeouts
  <2>2. CASE e \in events
    BY <2>2, <1>1, <1>4
  <2>3. CASE e \in p.timeouts
    <3>1. e.thread # t /\ e.thread \in p.timed
          /\ p.state[e.thread] = "SUSPENDED" /\ p.waitFor[e.thread] # {}
      BY <2>1, <2>3 DEF Others
    <3> QED
      BY <3>1, <1>2, <1>4
  <2> QED
    BY <2>2, <2>3, <1>4
<1> QED
  BY <1>4, <1>5, <1>6, <1>7, <1>8, <1>9 DEF Keeps, Good, Lists

LEMMA NewKeeps ==
    ASSUME NEW s \in Data, Good(s), NEW t \in Threads \ s.alive
    PROVE  LET r == New(s, t)
           IN  /\ Keeps(r, s) /\ r.alive = s.alive \cup {t}
               /\ r.notify[t] = <<>> /\ r.waitFor[t] = {}
<1> DEFINE r == New(s, t)
           vm == [s.vm EXCEPT ![t] = "EXECUTION"]
           alive == s.alive \cup {t}
<1>1. r = [s EXCEPT !.alive = alive, !.vm = vm]
  BY DEF New, Data
<1>2. alive \in SUBSET Listeners /\ vm \in [Threads -> VMStates]
      /\ \A x \in Threads \ {t} : vm[x] = s.vm[x]
  BY DEF Data, Listeners, VMStates
<1> HIDE DEF vm, r
<1>3. /\ r.alive = alive /\ r.vm = vm /\ r.notify = s.notify /\ r.waitFor = s.waitFor
      /\ r.timer = s.timer /\ r.inttime = s.inttime /\ r.dirty = s.dirty
      /\ r.timeouts = s.timeouts /\ r.state = s.state /\ r.timed = s.timed
  BY <1>1 DEF Data
<1>4. r \in Data
  BY <1>1, <1>2 DEF Data
<1>5. SameLists(r, s)
  <2>1. \A x \in Threads \ r.alive : r.vm[x] # "RUNNING" /\ r.state[x] = "RUNNING"
    BY <1>2, <1>3 DEF Good, Lists, Living
  <2> QED
    BY <2>1, <1>3 DEF SameLists
<1>6. Lists(r)
  BY <1>5, ListsSame DEF Good
<1>7. Suspended(r, Threads) /\ \A T \in SUBSET Threads : Timeouts(s, T) => Timeouts(r, T)
  BY <1>3 DEF Good, Suspended, Timeouts
<1>8. r.notify[t] = <<>> /\ r.waitFor[t] = {}
  BY <1>3 DEF Good, Lists, Living, Listeners
<1> QED
  BY <1>3, <1>4, <1>6, <1>7, <1>8 DEF Keeps, Good, r

-----------------------------------------------------------------------------
(* A name is announced.                                                    *)

LEMMA EndedFacts ==
    ASSUME NEW s \in Data, Good(s), NEW o \in Objects, NEW n
    PROVE  Keeps(Ended(s, o, n), s)
<1> DEFINE ends == [s.ends EXCEPT ![o] = {e \in s.ends[o] : e[1] # n}]
           b == [s EXCEPT !.ends = ends]
           first == {e[2] : e \in {x \in s.ends[o] : x[1] = n}}
           r == Ended(s, o, n)
<1>1. r = Delete(b, first)
  <2>1. b = [s EXCEPT !.ends[o] = {e \in @ : e[1] # n}]
    BY DEF Data
  <2> QED
    BY <2>1 DEF Ended
<1>2. ends \in [Objects -> SUBSET (Names \X Threads)]
  BY DEF Data
<1>3. first \in SUBSET Listeners
  BY DEF Data, Listeners
<1> HIDE DEF ends, first, r
<1>4. b \in Data
  BY <1>2 DEF Data
<1>5. /\ b.alive = s.alive /\ b.vm = s.vm /\ b.notify = s.notify /\ b.waitFor = s.waitFor
      /\ b.timer = s.timer /\ b.inttime = s.inttime /\ b.dirty = s.dirty
      /\ b.timeouts = s.timeouts /\ b.state = s.state /\ b.timed = s.timed
  BY DEF Data
<1> HIDE DEF b
<1>6. SameLists(b, s)
  <2>1. \A x \in Threads \ b.alive : b.vm[x] # "RUNNING" /\ b.state[x] = "RUNNING"
    BY <1>5 DEF Good, Lists, Living
  <2> QED
    BY <2>1, <1>5 DEF SameLists
<1>7. Lists(b)
  BY <1>6, ListsSame DEF Good
<1>8. Suspended(b, Threads) /\ \A T \in SUBSET Threads : Timeouts(s, T) => Timeouts(b, T)
  BY <1>5 DEF Good, Suspended, Timeouts
<1>9. /\ r \in Data /\ Lists(r)
      /\ \A T \in SUBSET Threads : Suspended(b, T) => Suspended(r, T)
      /\ \A T \in SUBSET Threads : Timeouts(b, T) => Timeouts(r, T)
  BY <1>1, <1>3, <1>4, <1>7, DeleteLists
<1> QED
  BY <1>8, <1>9 DEF Keeps, Good, r

\* r is s after the threads of list have been told the name they waited for.
Announces(r, s, list) ==
    /\ r \in Data /\ Good(r)
    /\ list \in Seq(Threads)
    /\ \A k \in DOMAIN list : r.waitFor[list[k]] = {}
    /\ \A T \in SUBSET Threads : Timeouts(s, T) => Timeouts(r, T \cup {x \in Threads : InList(x, list)})

LEMMA AnnouncedFacts ==
    ASSUME NEW s \in Data, Good(s), NEW o \in Objects, NEW n \in AnyName
    PROVE  Announces(Announced(s, o, n), s, Woken(s, o, n))
<1> DEFINE b == Ended(s, o, n)
           q == b.notify[o]
           kept == Kept(q, Entries(AnyName \ {n}, Threads))
           alone == {t \in Threads : b.waitFor[t] = {<<n, o>>}}
           told == Kept(q, Entries({n}, alone))
           notify == [b.notify EXCEPT ![o] = kept]
           waitFor == [t \in Threads |-> b.waitFor[t] \ {<<n, o>>}]
           r == Announced(s, o, n)
           list == Woken(s, o, n)
<1>1. r = [b EXCEPT !.notify[o] = kept, !.waitFor = waitFor]
  BY DEF Announced
<1>2. list = [i \in DOMAIN told |-> told[i][2]]
  BY DEF Woken
<1>3. Keeps(b, s)
  BY EndedFacts
<1>4. b \in Data /\ Good(b) /\ o \in Listeners
  BY <1>3 DEF Keeps, Listeners
<1> HIDE DEF b
<1>5. q \in Seq(Entry)
  BY <1>4 DEF Data
<1>6. /\ Filtered(kept, q, Entries(AnyName \ {n}, Threads), Entry)
      /\ Filtered(told, q, Entries({n}, alone), Entry)
      /\ kept \in Seq(Entry) /\ told \in Seq(Entry)
  <2> HIDE DEF q, alone
  <2> QED
    BY <1>5, KeptElements, KeptSeq
<1> HIDE DEF kept, told, q, r, list
<1>7. notify \in [Listeners -> Seq(Entry)] /\ notify[o] = kept
      /\ \A l \in Listeners \ {o} : notify[l] = b.notify[l]
  BY <1>4, <1>6 DEF Data
<1>8. waitFor \in [Threads -> SUBSET Waited]
      /\ \A t \in Threads : waitFor[t] = b.waitFor[t] \ {<<n, o>>}
  BY <1>4 DEF Data
<1>9. r = [b EXCEPT !.notify = notify, !.waitFor = waitFor]
  BY <1>1, <1>4 DEF Data
<1> HIDE DEF notify, waitFor
<1>10. /\ r.notify = notify /\ r.waitFor = waitFor /\ r.alive = b.alive
       /\ r.vm = b.vm /\ r.state = b.state /\ r.timer = b.timer /\ r.dirty = b.dirty
       /\ r.inttime = b.inttime /\ r.timeouts = b.timeouts /\ r.timed = b.timed
  BY <1>4, <1>9 DEF Data
<1>11. r \in Data
  BY <1>4, <1>7, <1>8, <1>9 DEF Data
<1>12. Registered(r)
  <2> SUFFICES ASSUME NEW x \in Threads, NEW l \in Listeners, NEW m \in AnyName
               PROVE  <<m, l>> \in r.waitFor[x] <=> \E k \in DOMAIN r.notify[l] : r.notify[l][k] = <<m, x>>
    BY DEF Registered
  <2>1. <<m, l>> \in b.waitFor[x] <=> \E k \in DOMAIN b.notify[l] : b.notify[l][k] = <<m, x>>
    BY <1>4 DEF Good, Lists, Registered
  <2>2. CASE l # o
    BY <2>1, <2>2, <1>7, <1>8, <1>10
  <2>3. CASE l = o
    <3>1. (\E k \in DOMAIN kept : kept[k] = <<m, x>>) <=> m # n /\ \E k \in DOMAIN q : q[k] = <<m, x>>
      <4>1. <<m, x>> \in Entries(AnyName \ {n}, Threads) <=> m # n
        BY DEF Entries
      <4>2. Filtered(kept, q, Entries(AnyName \ {n}, Threads), Entry)
        BY <1>6
      <4> QED
        BY <4>1, <4>2 DEF Filtered
    <3>2. <<m, o>> \in b.waitFor[x] <=> \E k \in DOMAIN q : q[k] = <<m, x>>
      BY <2>1, <2>3 DEF q
    <3> QED
      BY <2>3, <3>1, <3>2, <1>7, <1>8, <1>10
  <2> QED
    BY <2>2, <2>3
<1>13. Living(r)
  <2>1. ASSUME NEW l \in Listeners \ r.alive PROVE r.notify[l] = <<>>
    <3>1. b.notify[l] = <<>>
      BY <1>4, <1>10 DEF Good, Lists, Living
    <3>2. CASE l # o
      BY <3>1, <3>2, <1>7, <1>10
    <3>3. CASE l = o
      <4>1. kept = Kept(<<>>, Entries(AnyName \ {n}, Threads))
        BY <3>1, <3>3 DEF kept, q
      <4> QED
        BY <4>1, <3>3, <1>7, <1>10, KeptOfEmpty
    <3> QED
      BY <3>2, <3>3
  <2>2. \A x \in Threads \ r.alive : r.waitFor[x] = {} /\ r.vm[x] # "RUNNING" /\ r.state[x] = "RUNNING"
    BY <1>4, <1>8, <1>10 DEF Good, Lists, Living
  <2>3. \A e \in r.timeouts : e.thread \in r.alive
    BY <1>4, <1>10 DEF Good, Lists, Living
  <2> QED
    BY <2>1, <2>2, <2>3 DEF Living
<1>14. TimerAgrees(r) /\ TimerDirty(r)
  BY <1>4, <1>10 DEF Good, Lists, TimerAgrees, TimerDirty
<1>15. \A x \in Threads : r.waitFor[x] \subseteq b.waitFor[x]
  BY <1>8, <1>10
<1>16. Parents(r)
  BY <1>4, <1>15 DEF Good, Lists, Parents
<1>17. Suspended(r, Threads)
  BY <1>4, <1>10, <1>15 DEF Good, Suspended
<1>18. /\ DOMAIN list = DOMAIN told /\ \A k \in DOMAIN told : list[k] = told[k][2]
       /\ \A k \in DOMAIN told : told[k][2] \in alone
       /\ list \in Seq(Threads)
  <2>1. DOMAIN list = DOMAIN told /\ \A k \in DOMAIN told : list[k] = told[k][2]
    BY <1>2
  <2>2. ASSUME NEW k \in DOMAIN told PROVE told[k][2] \in alone
    <3> HIDE DEF alone
    <3>1. told[k] \in Entries({n}, alone)
      BY <1>6 DEF Filtered
    <3> QED
      BY <3>1 DEF Entries
  <2>3. list \in Seq(Threads)
    BY <2>2, <1>2, <1>6
  <2> QED
    BY <2>1, <2>2, <2>3
<1>19. ASSUME NEW k \in DOMAIN list PROVE r.waitFor[list[k]] = {}
  BY <1>8, <1>10, <1>18
<1>20. ASSUME NEW T \in SUBSET Threads, Timeouts(s, T)
       PROVE  Timeouts(r, T \cup {x \in Threads : InList(x, list)})
  <2>1. Timeouts(b, T)
    BY <1>3, <1>20 DEF Keeps
  <2>4. \A e \in r.timeouts : e.thread \in Threads
    BY <1>11 DEF Data, Elements
  <2> SUFFICES ASSUME NEW e \in r.timeouts, e.thread \notin T, ~InList(e.thread, list)
               PROVE  e.thread \in r.timed /\ r.state[e.thread] = "SUSPENDED" /\ r.waitFor[e.thread] # {}
    BY <2>4 DEF Timeouts
  <2> DEFINE x == e.thread
  <2>2. x \in b.timed /\ b.state[x] = "SUSPENDED" /\ b.waitFor[x] # {} /\ x \in Threads
    BY <2>1, <1>4, <1>10 DEF Timeouts, Data, Elements
  <2> HIDE DEF x
  <2>3. r.waitFor[x] # {}
    <3> SUFFICES ASSUME r.waitFor[x] = {} PROVE FALSE
      OBVIOUS
    <3>1. b.waitFor[x] = {<<n, o>>}
      BY <2>2, <1>8, <1>10
    <3>2. \E k \in DOMAIN q : q[k] = <<n, x>>
      BY <3>1, <2>2, <1>4 DEF Good, Lists, Registered, q
    <3>3. <<n, x>> \in Entries({n}, alone)
      BY <3>1, <2>2 DEF Entries
    <3>4. PICK k \in DOMAIN told : told[k] = <<n, x>>
      BY <3>2, <3>3, <1>6 DEF Filtered
    <3>5. list[k] = x /\ k \in DOMAIN list
      BY <3>4, <1>18
    <3> QED
      BY <3>5 DEF InList, x
  <2> QED
    BY <2>2, <2>3, <1>10 DEF x
<1> QED
  BY <1>11, <1>12, <1>13, <1>14, <1>16, <1>17, <1>18, <1>19, <1>20 DEF Announces, Good, Lists, r, list

-----------------------------------------------------------------------------
(* Time.                                                                   *)

\* There is a first element among those that are due.
LEMMA FirstExists ==
    ASSUME NEW q \in Seq(Elements(Threads)), NEW due \in SUBSET DOMAIN q, due # {}
    PROVE  \E i \in due : \A j \in due :
             q[i].time < q[j].time \/ (q[i].time = q[j].time /\ i <= j)
<1> DEFINE n == Len(q)
           Best(i, S) == \A j \in S : q[i].time < q[j].time \/ (q[i].time = q[j].time /\ i <= j)
           Upto(m) == due \cap 1 .. m
           N == {m \in 0 .. n : Upto(m) # {} => \E i \in Upto(m) : Best(i, Upto(m))}
<1>1. n \in Nat /\ DOMAIN q = 1 .. n /\ \A k \in 1 .. n : q[k].time \in Int
  <2>1. n \in Nat /\ DOMAIN q = 1 .. n /\ \A k \in 1 .. n : q[k] \in Elements(Threads)
    OBVIOUS
  <2> QED
    BY <2>1 DEF Elements
<1> HIDE DEF n
<1>2. 0 \in N
  BY <1>1
<1>3. ASSUME NEW m \in 1 .. n, m - 1 \in N PROVE m \in N
  <2>1. Upto(m) = IF m \in due THEN Upto(m - 1) \cup {m} ELSE Upto(m - 1)
    BY <1>1
  <2>2. CASE m \notin due
    BY <2>1, <2>2, <1>3
  <2>3. CASE m \in due /\ Upto(m - 1) = {}
    <3>1. Upto(m) = {m}
      BY <2>1, <2>3
    <3>2. Best(m, {m})
      BY <1>1
    <3> QED
      BY <3>1, <3>2
  <2>4. CASE m \in due /\ Upto(m - 1) # {}
    <3>1. PICK i \in Upto(m - 1) : Best(i, Upto(m - 1))
      BY <2>4, <1>3
    <3>2. i \in 1 .. n /\ i < m
      BY <3>1, <1>1
    <3>3. CASE q[i].time <= q[m].time
      <4>1. Best(i, Upto(m))
        BY <2>1, <2>4, <3>1, <3>2, <3>3, <1>1
      <4>2. i \in Upto(m) /\ m \in 0 .. n
        BY <2>1, <2>4, <3>1
      <4> HIDE DEF Best, Upto
      <4> QED
        BY <4>1, <4>2
    <3>4. CASE q[m].time < q[i].time
      <4>1. \A j \in Upto(m - 1) : q[m].time < q[j].time
        BY <3>1, <3>2, <3>4, <1>1
      <4>2. Best(m, Upto(m))
        BY <4>1, <2>1, <2>4, <1>1
      <4> QED
        BY <4>2, <2>1, <2>4
    <3> QED
      BY <3>2, <3>3, <3>4, <1>1
  <2> QED
    BY <2>2, <2>3, <2>4
<1> HIDE DEF N
<1>4. n \in N
  <2>1. 0 .. n \subseteq N
    BY ONLY <1>1, <1>2, <1>3, Stepwise
  <2> QED
    BY <2>1, <1>1
<1>5. Upto(n) = due
  BY <1>1
<1>6. \E i \in due : Best(i, due)
  BY <1>4, <1>5 DEF N
<1> QED
  BY <1>6

LEMMA NextExists ==
    ASSUME NEW q \in Seq(Elements(Threads)), NEW due \in SUBSET DOMAIN q, due # {}
    PROVE  NextElement(q, due) \in due
BY FirstExists DEF NextElement

LEMMA ElementRemoved ==
    ASSUME NEW q \in Seq(Elements(Threads)), NEW i \in DOMAIN q
    PROVE  /\ RemoveAt(q, i) \in Seq(Elements(Threads))
           /\ DOMAIN RemoveAt(q, i) = 1 .. Len(q) - 1
           /\ \A k \in 1 .. Len(q) - 1 : RemoveAt(q, i)[k] = q[IF k < i THEN k ELSE k + 1]
<1> DEFINE n == Len(q)
           R == RemoveAt(q, i)
           a == SubSeq(q, 1, i - 1)
           b == SubSeq(q, i + 1, n)
<1>1. n \in Nat /\ i \in 1 .. n
  OBVIOUS
<1>2. a \in Seq(Elements(Threads)) /\ Len(a) = i - 1 /\ \A k \in 1 .. i - 1 : a[k] = q[k]
  BY <1>1
<1>3. b \in Seq(Elements(Threads)) /\ Len(b) = n - i /\ \A k \in 1 .. n - i : b[k] = q[k + i]
  BY <1>1
<1>4. R = a \o b
  BY DEF RemoveAt
<1> HIDE DEF a, b, R, n
<1>5. /\ a \o b \in Seq(Elements(Threads)) /\ DOMAIN (a \o b) = 1 .. Len(a) + Len(b)
      /\ \A k \in 1 .. Len(a) + Len(b) : (a \o b)[k] = IF k <= Len(a) THEN a[k] ELSE b[k - Len(a)]
  <2>1. a \in Seq(Elements(Threads)) /\ b \in Seq(Elements(Threads))
    BY <1>2, <1>3
  <2> QED
    BY ONLY <2>1
<1>6. Len(a) + Len(b) = n - 1
  BY <1>2, <1>3, <1>1
<1>7. R \in Seq(Elements(Threads)) /\ DOMAIN R = 1 .. n - 1
  BY <1>4, <1>5, <1>6
<1>8. ASSUME NEW k \in 1 .. n - 1 PROVE R[k] = q[IF k < i THEN k ELSE k + 1]
  <2>1. CASE k < i
    BY <2>1, <1>2, <1>4, <1>5, <1>6, <1>1
  <2>2. CASE ~(k < i)
    <3>1. R[k] = b[k - (i - 1)]
      BY <2>2, <1>2, <1>4, <1>5, <1>6, <1>1
    <3>2. k - (i - 1) \in 1 .. n - i /\ (k - (i - 1)) + i = k + 1
      BY <2>2, <1>1
    <3> QED
      BY <3>1, <3>2, <1>3, <2>2
  <2> QED
    BY <2>1, <2>2
<1> QED
  BY <1>7, <1>8 DEF R, n

\* A thread whose time has come is taken from the timer and runs.
Taken(r, s, i) ==
    LET t == s.timer[i].thread
    IN  r = [s EXCEPT !.timer = RemoveAt(@, i), !.level = s.timer[i].time,
                      !.state[t] = "RUNNING", !.vm[t] = "RUNNING"]

LEMMA TakenKeeps ==
    ASSUME NEW s \in Data, Good(s), NEW i \in DOMAIN s.timer, NEW r, Taken(r, s, i)
    PROVE  Keeps(r, s) /\ s.timer[i].thread \in Threads /\ s.timer[i].time \in Int
<1> DEFINE q == s.timer
           t == q[i].thread
           n == Len(q)
           R == RemoveAt(q, i)
           state == [s.state EXCEPT ![t] = "RUNNING"]
           vm == [s.vm EXCEPT ![t] = "RUNNING"]
<1>1. q \in Seq(Elements(Threads)) /\ n \in Nat /\ i \in 1 .. n /\ DOMAIN q = 1 .. n
  BY DEF Data
<1>2. t \in Threads /\ q[i].time \in Int
  <2>1. q[i] \in Elements(Threads)
    BY <1>1
  <2> QED
    BY <2>1 DEF Elements
<1>3. s.state[t] = "WAITING"
  BY <1>1, <1>2 DEF Good, Lists, TimerAgrees
<1>4. s.waitFor[t] = {} /\ t \in s.alive
  BY <1>2, <1>3 DEF Good, Suspended, Lists, Living
<1>5. /\ R \in Seq(Elements(Threads)) /\ DOMAIN R = 1 .. n - 1
      /\ \A k \in 1 .. n - 1 : R[k] = q[IF k < i THEN k ELSE k + 1]
  BY <1>1, ElementRemoved
<1>6. r = [s EXCEPT !.timer = R, !.level = q[i].time, !.state = state, !.vm = vm]
  BY DEF Taken, Data
<1>7. /\ state \in [Threads -> States] /\ vm \in [Threads -> VMStates]
      /\ state[t] = "RUNNING" /\ \A x \in Threads \ {t} : state[x] = s.state[x] /\ vm[x] = s.vm[x]
  BY <1>2 DEF Data, States, VMStates
<1> HIDE DEF R, state, vm, n
<1>8. r \in Data
  BY <1>2, <1>5, <1>6, <1>7 DEF Data
<1>9. /\ r.timer = R /\ r.state = state /\ r.vm = vm /\ r.alive = s.alive
      /\ r.notify = s.notify /\ r.waitFor = s.waitFor /\ r.dirty = s.dirty
      /\ r.inttime = s.inttime /\ r.timeouts = s.timeouts /\ r.timed = s.timed
  BY <1>6 DEF Data
<1>10. Registered(r)
  <2> SUFFICES ASSUME NEW x \in Threads, NEW l \in Listeners, NEW m \in AnyName
               PROVE  <<m, l>> \in r.waitFor[x] <=> \E k \in DOMAIN r.notify[l] : r.notify[l][k] = <<m, x>>
    BY DEF Registered
  <2>1. <<m, l>> \in s.waitFor[x] <=> \E k \in DOMAIN s.notify[l] : s.notify[l][k] = <<m, x>>
    BY DEF Good, Lists, Registered
  <2> QED
    BY <2>1, <1>9
<1>11. Living(r)
  BY <1>4, <1>7, <1>9 DEF Good, Lists, Living
<1>12. Parents(r)
  BY <1>9 DEF Good, Lists, Parents
<1>13. Suspended(r, Threads)
  BY <1>4, <1>7, <1>9 DEF Good, Suspended
<1> HIDE DEF q
<1>14. \A j, k \in DOMAIN q : q[j].thread = q[k].thread => j = k
  BY DEF Good, Lists, TimerAgrees, q
<1>15. TimerAgrees(r)
  <2>1. ASSUME NEW x \in Threads PROVE r.state[x] = "WAITING" <=> \E k \in DOMAIN R : R[k].thread = x
    <3>1. CASE x = t
      <4>1. \A k \in 1 .. n - 1 : R[k].thread # t
        <5> SUFFICES ASSUME NEW k \in 1 .. n - 1, R[k].thread = t PROVE FALSE
          OBVIOUS
        <5>1. CASE k < i
          <6>1. k \in DOMAIN q /\ q[k].thread = q[i].thread
            BY <5>1, <1>1, <1>5
          <6> QED
            BY <6>1, <5>1, <1>1, <1>14
        <5>2. CASE ~(k < i)
          <6>1. k + 1 \in DOMAIN q /\ q[k + 1].thread = q[i].thread
            BY <5>2, <1>1, <1>5
          <6> QED
            BY <6>1, <5>2, <1>1, <1>14
        <5> QED
          BY <5>1, <5>2
      <4> QED
        BY <3>1, <4>1, <1>5, <1>7, <1>9
    <3>2. CASE x # t
      <4>1. r.state[x] = "WAITING" <=> \E k \in DOMAIN q : q[k].thread = x
        BY <3>2, <1>7, <1>9 DEF Good, Lists, TimerAgrees, q
      <4>2. ASSUME NEW k \in DOMAIN q, q[k].thread = x PROVE \E j \in DOMAIN R : R[j].thread = x
        <5>1. k # i
          BY <3>2, <4>2
        <5>2. CASE k < i
          <6>1. k \in 1 .. n - 1 /\ R[k].thread = x
            BY <5>2, <4>2, <1>1, <1>5
          <6> QED
            BY <6>1, <1>5
        <5>3. CASE i < k
          <6>1. k - 1 \in 1 .. n - 1 /\ ~(k - 1 < i) /\ (k - 1) + 1 = k
            BY <5>3, <1>1
          <6>2. R[k - 1].thread = x
            BY <6>1, <4>2, <1>5
          <6> QED
            BY <6>1, <6>2, <1>5
        <5> QED
          BY <5>1, <5>2, <5>3, <1>1
      <4>3. ASSUME NEW j \in DOMAIN R, R[j].thread = x PROVE \E k \in DOMAIN q : q[k].thread = x
        <5>1. (IF j < i THEN j ELSE j + 1) \in DOMAIN q
          BY <1>1, <1>5
        <5> QED
          BY <5>1, <4>3, <1>5
      <4> QED
        BY <4>1, <4>2, <4>3
    <3> QED
      BY <3>1, <3>2
  <2>2. ASSUME NEW j \in DOMAIN R, NEW k \in DOMAIN R, R[j].thread = R[k].thread PROVE j = k
    <3> DEFINE a == IF j < i THEN j ELSE j + 1
               b == IF k < i THEN k ELSE k + 1
    <3>1. a \in DOMAIN q /\ b \in DOMAIN q
      BY <1>1, <1>5
    <3>2. q[a].thread = q[b].thread
      BY <2>2, <1>5
    <3>3. a = b
      <4> HIDE DEF a, b
      <4> QED
        BY <3>1, <3>2, <1>14
    <3> QED
      BY <3>3, <1>1, <1>5
  <2> QED
    BY <2>1, <2>2, <1>9 DEF TimerAgrees
<1>16. TimerDirty(r)
  <2> SUFFICES ASSUME NEW k \in DOMAIN R, R[k].time <= s.inttime PROVE s.dirty
    BY <1>9 DEF TimerDirty
  <2>1. (IF k < i THEN k ELSE k + 1) \in DOMAIN q
    BY <1>1, <1>5
  <2>2. R[k] = q[IF k < i THEN k ELSE k + 1]
    BY <1>5
  <2> QED
    BY <2>1, <2>2 DEF Good, Lists, TimerDirty, q
<1>17. ASSUME NEW T \in SUBSET Threads, Timeouts(s, T) PROVE Timeouts(r, T)
  <2> SUFFICES ASSUME NEW e \in r.timeouts, e.thread \notin T
               PROVE  e.thread \in r.timed /\ r.state[e.thread] = "SUSPENDED" /\ r.waitFor[e.thread] # {}
    BY DEF Timeouts
  <2>1. e.thread \in s.timed /\ s.state[e.thread] = "SUSPENDED" /\ s.waitFor[e.thread] # {}
    BY <1>9, <1>17 DEF Timeouts
  <2>2. e.thread \in Threads \ {t}
    BY <2>1, <1>3, <1>9 DEF Data, Elements
  <2> QED
    BY <2>1, <2>2, <1>7, <1>9
<1> QED
  BY <1>2, <1>8, <1>10, <1>11, <1>12, <1>13, <1>15, <1>16, <1>17 DEF Keeps, Good, Lists, q

-----------------------------------------------------------------------------
(* The stack.                                                              *)

\* The same lists of threads are being told.
SameWakes(u, st) ==
    /\ u \in Seq(Frames)
    /\ \A j \in DOMAIN st : st[j].kind = "wake" => \E i \in DOMAIN u : u[i] = st[j]
    /\ \A i \in DOMAIN u : u[i].kind = "wake" => \E j \in DOMAIN st : u[i] = st[j]

LEMMA WakesAgain ==
    ASSUME NEW st, NEW u, NEW v, SameWakes(u, st), SameWakes(v, u)
    PROVE  SameWakes(v, st)
<1>1. ASSUME NEW j \in DOMAIN st, st[j].kind = "wake" PROVE \E i \in DOMAIN v : v[i] = st[j]
  <2>1. PICK i \in DOMAIN u : u[i] = st[j]
    BY <1>1 DEF SameWakes
  <2> QED
    BY <2>1, <1>1 DEF SameWakes
<1>2. ASSUME NEW i \in DOMAIN v, v[i].kind = "wake" PROVE \E j \in DOMAIN st : v[i] = st[j]
  <2>1. PICK j \in DOMAIN u : v[i] = u[j]
    BY <1>2 DEF SameWakes
  <2> QED
    BY <2>1, <1>2 DEF SameWakes
<1> QED
  BY <1>1, <1>2 DEF SameWakes

LEMMA WakesSame ==
    ASSUME NEW st \in Seq(Frames)
    PROVE  SameWakes(st, st)
BY DEF SameWakes

LEMMA Replaced ==
    ASSUME NEW st \in Seq(Frames), st # <<>>, Last(st).kind # "wake",
           NEW f \in Frames, f.kind # "wake"
    PROVE  SameWakes([st EXCEPT ![Len(st)] = f], st)
<1> DEFINE u == [st EXCEPT ![Len(st)] = f]
           n == Len(st)
<1>1. n \in Nat /\ n > 0 /\ DOMAIN st = 1 .. n /\ st[n].kind # "wake"
  BY DEF Last
<1>2. u \in Seq(Frames) /\ DOMAIN u = 1 .. n /\ u[n] = f /\ \A i \in 1 .. n - 1 : u[i] = st[i]
  <2>1. st \in [1 .. n -> Frames] /\ u = [st EXCEPT ![n] = f]
    BY <1>1
  <2> HIDE DEF Frames, u, n
  <2>2. u \in [1 .. n -> Frames] /\ u[n] = f /\ \A i \in 1 .. n - 1 : u[i] = st[i]
    BY <1>1, <2>1
  <2> QED
    BY <1>1, <2>2
<1> HIDE DEF u, n
<1>3. \A i \in 1 .. n : i = n \/ i \in 1 .. n - 1
  BY <1>1
<1> QED
  BY <1>1, <1>2, <1>3 DEF SameWakes, u, n

LEMMA Popped ==
    ASSUME NEW st \in Seq(Frames), st # <<>>
    PROVE  /\ Front(st) \in Seq(Frames)
           /\ \A i \in DOMAIN Front(st) : i \in DOMAIN st /\ Front(st)[i] = st[i]
           /\ \A i \in DOMAIN st : i = Len(st) \/ i \in DOMAIN Front(st)
           /\ Last(st).kind # "wake" => SameWakes(Front(st), st)
<1> DEFINE u == Front(st)
           n == Len(st)
<1>1. n \in Nat /\ n > 0 /\ DOMAIN st = 1 .. n /\ Last(st) = st[n]
  BY DEF Last
<1>2. u \in Seq(Frames) /\ DOMAIN u = 1 .. n - 1 /\ \A i \in 1 .. n - 1 : u[i] = st[i]
  BY <1>1 DEF Front
<1> HIDE DEF u, n
<1>3. \A i \in 1 .. n : i = n \/ i \in 1 .. n - 1
  BY <1>1
<1>4. Last(st).kind # "wake" => SameWakes(u, st)
  BY <1>1, <1>2, <1>3 DEF SameWakes
<1>5. \A i \in 1 .. n - 1 : i \in 1 .. n
  BY <1>1
<1>6. (\A i \in DOMAIN u : i \in DOMAIN st /\ u[i] = st[i]) /\ \A i \in DOMAIN st : i = n \/ i \in DOMAIN u
  BY <1>1, <1>2, <1>3, <1>5
<1> QED
  BY <1>2, <1>4, <1>6 DEF u, n

LEMMA Pushed ==
    ASSUME NEW st \in Seq(Frames), NEW f \in Frames
    PROVE  LET u == Append(st, f)
           IN  /\ u \in Seq(Frames)
               /\ \A i \in DOMAIN st : i \in DOMAIN u /\ u[i] = st[i]
               /\ Len(st) + 1 \in DOMAIN u /\ u[Len(st) + 1] = f
               /\ \A i \in DOMAIN u : i = Len(st) + 1 \/ i \in DOMAIN st
               /\ f.kind # "wake" => SameWakes(u, st)
<1> DEFINE u == Append(st, f)
           n == Len(st)
<1>1. n \in Nat /\ DOMAIN st = 1 .. n
  OBVIOUS
<1>2. u \in Seq(Frames) /\ DOMAIN u = 1 .. n + 1 /\ u[n + 1] = f /\ \A i \in 1 .. n : u[i] = st[i]
  OBVIOUS
<1> HIDE DEF u, n
<1>3. \A i \in 1 .. n + 1 : i = n + 1 \/ i \in 1 .. n
  BY <1>1
<1>4. \A i \in 1 .. n : i \in 1 .. n + 1
  BY <1>1
<1>5. f.kind # "wake" => SameWakes(u, st)
  BY <1>1, <1>2, <1>3, <1>4 DEF SameWakes
<1>6. n + 1 \in 1 .. n + 1
  BY <1>1
<1> QED
  BY <1>1, <1>2, <1>3, <1>4, <1>5, <1>6 DEF u, n

LEMMA FramesOf ==
    ASSUME NEW t \in Threads
    PROVE  /\ Run(t) \in Frames /\ Run(t).kind = "vm" /\ Run(t).thread = t
           /\ ExecuteRunning \in Frames /\ ExecuteRunning.kind = "running"
           /\ \A n \in AnyName, list \in Seq(Threads) :
                /\ Wake(n, list) \in Frames /\ Wake(n, list).kind = "wake"
                /\ Wake(n, list).name = n /\ Wake(n, list).list = list
BY ScriptThreadsAssumption DEF Run, ExecuteRunning, Wake, Frames, None

LEMMA Called ==
    ASSUME NEW st \in Seq(Frames), NEW t \in Threads
    PROVE  SameWakes(st \o Call(t), st)
<1> DEFINE u == Append(st, ExecuteRunning)
<1>1. ExecuteRunning \in Frames /\ Run(t) \in Frames
      /\ ExecuteRunning.kind # "wake" /\ Run(t).kind # "wake"
  BY FramesOf
<1>2. st \o Call(t) = Append(u, Run(t))
  BY <1>1 DEF Call
<1>3. u \in Seq(Frames) /\ SameWakes(u, st)
  BY <1>1, Pushed
<1> HIDE DEF u
<1>4. SameWakes(Append(u, Run(t)), u)
  BY <1>1, <1>3, Pushed
<1> QED
  BY <1>2, <1>3, <1>4, WakesAgain

\* No list of threads is being told that a move has ended.
NoMoves(st) == \A i \in DOMAIN st : ~(st[i].kind = "wake" /\ st[i].name = "0")

LEMMA NoMovesBelow ==
    ASSUME NEW s, NEW st, Holds(s, st), st = <<>> \/ Last(st).kind # "wake"
    PROVE  NoMoves(st)
<1> SUFFICES ASSUME NEW i \in DOMAIN st, st[i].kind = "wake", st[i].name = "0" PROVE FALSE
  BY DEF NoMoves
<1>1. Len(st) = 1 /\ st \in Seq(Frames)
  BY DEF Holds, Moves
<1>2. i = 1 /\ st # <<>> /\ Last(st) = st[1]
  BY <1>1 DEF Last
<1> QED
  BY <1>2

LEMMA TellingKept ==
    ASSUME NEW st, NEW u, \A j \in DOMAIN st : st[j].kind = "wake" => \E i \in DOMAIN u : u[i] = st[j]
    PROVE  Telling(st) \subseteq Telling(u)
<1> SUFFICES ASSUME NEW t \in Threads, NEW j \in DOMAIN st, st[j].kind = "wake",
                    t \in Range(st[j].list)
             PROVE  t \in Telling(u)
  BY DEF Telling
<1>1. PICK i \in DOMAIN u : u[i] = st[j]
  OBVIOUS
<1> QED
  BY <1>1 DEF Telling

LEMMA MoreTold ==
    ASSUME NEW s, NEW T, NEW U, Timeouts(s, T), T \subseteq U
    PROVE  Timeouts(s, U)
BY DEF Timeouts

\* Most steps leave the lists of threads that are told alone.
LEMMA HoldsAgain ==
    ASSUME NEW s, NEW st, Holds(s, st), NoMoves(st),
           NEW r, Keeps(r, s), NEW u, SameWakes(u, st)
    PROVE  Holds(r, u)
<1>1. u \in Seq(Frames) /\ r \in Data /\ Good(r)
  BY DEF SameWakes, Keeps
<1>2. Telling(st) \in SUBSET Threads /\ Telling(st) \subseteq Telling(u)
  BY TellingKept DEF SameWakes, Telling
<1>3. Timeouts(r, Telling(st))
  BY <1>2 DEF Holds, Keeps
<1>4. Timeouts(r, Telling(u))
  BY <1>2, <1>3, MoreTold
<1>5. Moves(r, u)
  <2>1. NoMoves(u)
    BY DEF NoMoves, SameWakes
  <2> QED
    BY <2>1 DEF NoMoves, Moves
<1> QED
  BY <1>1, <1>4, <1>5 DEF Holds

\* A name has been announced.
LEMMA HoldsTelling ==
    ASSUME NEW s, NEW st, Holds(s, st), NEW list, NEW r, Announces(r, s, list),
           NEW u \in Seq(Frames), SameWakes(u, st), NoMoves(u),
           NEW n \in AnyName, n = "0" => u = <<>>
    PROVE  Holds(r, Append(u, Wake(n, list)))
<1> DEFINE f == Wake(n, list)
           v == Append(u, f)
<1>1. r \in Data /\ Good(r) /\ list \in Seq(Threads)
  BY DEF Announces
<1>2. f \in Frames /\ f.kind = "wake" /\ f.name = n /\ f.list = list
  BY <1>1, ScriptThreadsAssumption DEF Wake, Frames
<1> HIDE DEF f
<1>3. /\ v \in Seq(Frames)
      /\ \A i \in DOMAIN u : i \in DOMAIN v /\ v[i] = u[i]
      /\ Len(u) + 1 \in DOMAIN v /\ v[Len(u) + 1] = f
      /\ \A i \in DOMAIN v : i = Len(u) + 1 \/ i \in DOMAIN u
  BY <1>2, Pushed
<1>4. Len(v) = Len(u) + 1
  OBVIOUS
<1> HIDE DEF v
<1> DEFINE T == Telling(st)
           U == T \cup {x \in Threads : InList(x, list)}
<1>5. Timeouts(r, U)
  <2>1. T \in SUBSET Threads /\ Timeouts(s, T)
    BY DEF Holds, Telling
  <2> QED
    BY <2>1 DEF Announces
<1>6. U \subseteq Telling(v)
  <2>1. T \subseteq Telling(v)
    <3>1. \A j \in DOMAIN st : st[j].kind = "wake" => \E i \in DOMAIN v : v[i] = st[j]
      BY <1>3 DEF SameWakes
    <3> QED
      BY <3>1, TellingKept
  <2>2. ASSUME NEW x \in Threads, InList(x, list) PROVE x \in Telling(v)
    <3>1. x \in Range(list)
      BY <2>2 DEF InList, Range
    <3> QED
      BY <3>1, <1>2, <1>3 DEF Telling
  <2> QED
    BY <2>1, <2>2
<1>7. Timeouts(r, Telling(v))
  <2> HIDE DEF U
  <2> QED
    BY <1>5, <1>6, MoreTold
<1>8. Moves(r, v)
  <2> SUFFICES ASSUME NEW i \in DOMAIN v, v[i].kind = "wake", v[i].name = "0"
               PROVE  Len(v) = 1 /\ \A k \in DOMAIN v[i].list : r.waitFor[v[i].list[k]] = {}
    BY DEF Moves
  <2>1. v[i] = f
    BY <1>3 DEF NoMoves
  <2>2. u = <<>>
    BY <2>1, <1>2
  <2> QED
    BY <2>1, <2>2, <1>2, <1>4 DEF Announces
<1> QED
  BY <1>1, <1>3, <1>7, <1>8 DEF Holds, v, f

-----------------------------------------------------------------------------
(* The commands of a thread.                                               *)

LEMMA TopFrame ==
    ASSUME ListInv, stack # <<>>
    PROVE  Last(stack) \in Frames /\ stack \in Seq(Frames)
<1>1. stack \in Seq(Frames)
  BY DEF ListInv, Holds
<1> QED
  BY <1>1 DEF Last

\* What is known while a thread runs.
Running ==
    /\ stack \in Seq(Frames) /\ d \in Data /\ Good(d)
    /\ Current \in Threads /\ Current \in d.alive
    /\ NoMoves(stack) /\ SameWakes(stack, stack) /\ SameWakes(Used, stack)

LEMMA RunsFacts ==
    ASSUME ListInv, Runs
    PROVE  Running
<1> DEFINE f == Last(stack)
           used == [f EXCEPT !.left = @ - 1]
<1>1. stack \in Seq(Frames) /\ stack # <<>> /\ f \in Frames /\ f.kind = "vm"
      /\ d \in Data /\ Good(d) /\ d.vm[f.thread] = "RUNNING"
  BY TopFrame DEF ListInv, Holds, Runs, TopIs, Current
<1>2. f \in [kind : {"vm"}, thread : Threads, left : Int]
  BY <1>1 DEF Frames
<1>3. used \in Frames /\ used.kind # "wake"
  BY <1>2 DEF Frames
<1>4. NoMoves(stack)
  BY <1>1, NoMovesBelow DEF ListInv
<1> HIDE DEF used
<1>5. SameWakes([stack EXCEPT ![Len(stack)] = used], stack)
  BY <1>1, <1>3, Replaced
<1>6. SameWakes(Used, stack)
  BY <1>5 DEF Used, Top, used
<1>7. f.thread \in d.alive
  BY <1>1, <1>2 DEF Good, Lists, Living
<1> QED
  BY <1>1, <1>2, <1>4, <1>6, <1>7, WakesSame DEF Running, Current

\* A step of a running thread.
LEMMA RunningStep ==
    ASSUME ListInv, Running, Keeps(d', d), SameWakes(stack', stack)
    PROVE  ListInv'
<1>1. Holds(d, stack) /\ NoMoves(stack)
  BY DEF ListInv, Running
<1>2. Holds(d', stack')
  BY <1>1, HoldsAgain
<1> QED
  BY <1>2 DEF ListInv

LEMMA DeleteKeeps ==
    ASSUME NEW s \in Data, Good(s), NEW first \in SUBSET Listeners
    PROVE  Keeps(Delete(s, first), s)
<1> DEFINE r == Delete(s, first)
<1>1. /\ r \in Data /\ Lists(r)
      /\ \A T \in SUBSET Threads : Suspended(s, T) => Suspended(r, T)
      /\ \A T \in SUBSET Threads : Timeouts(s, T) => Timeouts(r, T)
  BY DeleteLists DEF Good
<1> QED
  BY <1>1 DEF Keeps, Good

LEMMA ListsAfterEnd == ListInv /\ EventEnd => ListInv'
<1> SUFFICES ASSUME ListInv, EventEnd PROVE ListInv'
  OBVIOUS
<1>1. Running
  BY RunsFacts DEF EventEnd
<1>2. d \in Data /\ Good(d) /\ {Current} \in SUBSET Listeners
  BY <1>1 DEF Running, Listeners
<1>3. Keeps(Delete(d, {Current}), d)
  BY <1>2, DeleteKeeps
<1> QED
  BY <1>1, <1>3, RunningStep DEF EventEnd, Running

LEMMA ListsAfterRemove ==
    ASSUME ListInv, NEW l \in Listeners, ImmediateRemove(l)
    PROVE  ListInv'
<1>1. Running
  BY RunsFacts DEF ImmediateRemove
<1>2. d \in Data /\ Good(d) /\ {l} \in SUBSET Listeners
  BY <1>1 DEF Running
<1>3. Keeps(Delete(d, {l}), d)
  BY <1>2, DeleteKeeps
<1> QED
  BY <1>1, <1>3, RunningStep DEF ImmediateRemove, Running

LEMMA ListsAfterWait == ListInv /\ EventWait => ListInv'
<1> SUFFICES ASSUME ListInv, EventWait PROVE ListInv'
  OBVIOUS
<1>1. Running
  BY RunsFacts DEF EventWait
<1>2. PICK delay \in Delays : d' = Wait(d, Current, delay)
  BY DEF EventWait
<1>3. Keeps(Wait(d, Current, delay), d)
  BY <1>1, WaitKeeps DEF Running
<1> QED
  BY <1>1, <1>2, <1>3, RunningStep DEF EventWait, Running

LEMMA ListsAfterWaitOther ==
    ASSUME ListInv, NEW t \in Threads, EventWaitOther(t)
    PROVE  ListInv'
<1>1. Running
  BY RunsFacts DEF EventWaitOther
<1>2. PICK delay \in Delays : d' = Wait(d, t, delay)
  BY DEF EventWaitOther
<1>3. Keeps(Wait(d, t, delay), d)
  BY <1>1, WaitKeeps DEF Running, EventWaitOther
<1> QED
  BY <1>1, <1>2, <1>3, RunningStep DEF EventWaitOther, Running

LEMMA AsksKeeps ==
    ASSUME NEW s \in Data, Good(s), NEW t \in Threads, t \in s.alive,
           NEW waits, Targets(s, t, waits),
           NEW asked \in SUBSET Waited, NEW timed, NEW events \in SUBSET Elements(Threads),
           \A e \in events : e.thread = t /\ t \in timed /\ waits # {},
           NEW r, Asked(r, Register(s, t, waits), t, asked, timed, events)
    PROVE  Keeps(r, s) /\ \A w \in waits : w[2] \in r.alive
<1> DEFINE p == Register(s, t, waits)
<1>1. Waiting(p, s, t, waits)
  BY RegisterFacts
<1> HIDE DEF p
<1>2. Asked(r, p, t, asked, timed, events)
  BY DEF p
<1>3. Keeps(r, s) /\ r.alive = p.alive
  BY <1>1, <1>2, AskedKeeps
<1> QED
  BY <1>1, <1>3 DEF Waiting

\* Without a timeout.
LEMMA AsksUntimed ==
    ASSUME NEW s \in Data, Good(s), NEW t \in Threads, t \in s.alive,
           NEW waits, Targets(s, t, waits), NEW asked \in SUBSET Waited,
           NEW r, r = [Register(s, t, waits) EXCEPT !.asked[t] = asked, !.timed = @ \ {t}]
    PROVE  Keeps(r, s) /\ \A w \in waits : w[2] \in r.alive
<1> DEFINE p == Register(s, t, waits)
           timed == p.timed \ {t}
<1>1. p \in Data
  BY RegisterFacts DEF Waiting
<1>2. r = [p EXCEPT !.asked[t] = asked, !.timed = timed]
  OBVIOUS
<1>3. p.timeouts \cup {} = p.timeouts
  OBVIOUS
<1> HIDE DEF p
<1>4. r = [p EXCEPT !.timeouts = p.timeouts \cup {}, !.asked[t] = asked, !.timed = timed]
  BY <1>1, <1>2, <1>3 DEF Data
<1>5. Asked(r, Register(s, t, waits), t, asked, timed, {})
  BY <1>4 DEF Asked, p
<1> HIDE DEF timed
<1>6. {} \in SUBSET Elements(Threads) /\ \A e \in {} : e.thread = t /\ t \in timed /\ waits # {}
  OBVIOUS
<1> QED
  BY <1>5, <1>6, AsksKeeps

LEMMA ObjectTargets ==
    ASSUME NEW s, NEW t, NEW waits \in SUBSET (AnyName \X (s.alive \cap Objects))
    PROVE  Targets(s, t, waits)
<1>1. \A w \in waits : w[2] \in s.alive /\ w[2] \in Objects /\ w[2] \notin Threads
  BY ScriptThreadsAssumption
<1> QED
  BY <1>1 DEF Targets, Waited, Listeners

LEMMA ListsAfterWaitTill == ListInv /\ WaitTill => ListInv'
<1> SUFFICES ASSUME ListInv, WaitTill PROVE ListInv'
  OBVIOUS
<1>1. Running
  BY RunsFacts DEF WaitTill
<1>2. PICK n \in Names, targets \in SUBSET (d.alive \cap Objects) :
        /\ targets # {}
        /\ d' = [Register(d, Current, {n} \X targets) EXCEPT
                    !.asked[Current] = {}, !.timed = @ \ {Current}]
  BY DEF WaitTill
<1> DEFINE waits == {n} \X targets
<1>3. waits \in SUBSET (AnyName \X (d.alive \cap Objects))
  BY <1>2 DEF AnyName
<1>4. d' = [Register(d, Current, waits) EXCEPT !.asked[Current] = {}, !.timed = @ \ {Current}]
  BY <1>2
<1> HIDE DEF waits
<1>5. Targets(d, Current, waits)
  BY <1>3, ObjectTargets
<1>6. d \in Data /\ Good(d) /\ Current \in Threads /\ Current \in d.alive /\ {} \in SUBSET Waited
  BY <1>1 DEF Running
<1>7. Keeps(d', d)
  BY <1>4, <1>5, <1>6, AsksUntimed
<1> QED
  BY <1>1, <1>7, RunningStep DEF WaitTill, Running

LEMMA ListsAfterWaitTillAny == ListInv /\ WaitTillAny => ListInv'
<1> SUFFICES ASSUME ListInv, WaitTillAny PROVE ListInv'
  OBVIOUS
<1>1. Running
  BY RunsFacts DEF WaitTillAny
<1>2. PICK o \in d.alive \cap Objects :
        d' = [Register(d, Current, Names \X {o}) EXCEPT
                 !.asked[Current] = Names \X {o}, !.timed = @ \ {Current}]
  BY DEF WaitTillAny
<1> DEFINE waits == Names \X {o}
<1>3. waits \in SUBSET (AnyName \X (d.alive \cap Objects))
  BY <1>2 DEF AnyName
<1>4. d' = [Register(d, Current, waits) EXCEPT !.asked[Current] = waits, !.timed = @ \ {Current}]
  BY <1>2
<1>8. waits \in SUBSET Waited
  BY DEF Waited, AnyName, Listeners
<1> HIDE DEF waits
<1>6. d \in Data /\ Good(d) /\ Current \in Threads /\ Current \in d.alive
  BY <1>1 DEF Running
<1>5. Targets(d, Current, waits)
  BY <1>3, ObjectTargets
<1>7. Keeps(d', d)
  BY <1>4, <1>5, <1>6, <1>8, AsksUntimed
<1> QED
  BY <1>1, <1>7, RunningStep DEF WaitTillAny, Running

LEMMA ListsAfterWaitTillTimeout == ListInv /\ WaitTillTimeout => ListInv'
<1> SUFFICES ASSUME ListInv, WaitTillTimeout PROVE ListInv'
  OBVIOUS
<1>1. Running
  BY RunsFacts DEF WaitTillTimeout
<1>2. PICK n \in Names, o \in d.alive \cap Objects, delay \in Delays \ {0} :
        d' = [Register(d, Current, {<<n, o>>}) EXCEPT
                 !.timeouts = @ \cup {[thread |-> Current, time |-> d.level + delay]},
                 !.asked[Current] = {}, !.timed = @ \cup {Current}]
  BY DEF WaitTillTimeout
<1> DEFINE t == Current
           waits == {<<n, o>>}
           p == Register(d, t, waits)
           events == {[thread |-> t, time |-> d.level + delay]}
           timed == p.timed \cup {t}
<1>3. d \in Data /\ Good(d) /\ t \in Threads /\ t \in d.alive /\ {} \in SUBSET Waited
  BY <1>1 DEF Running
<1>4. d' = [p EXCEPT !.timeouts = p.timeouts \cup events, !.asked[t] = {}, !.timed = timed]
  BY <1>2
<1>5. Asked(d', Register(d, t, waits), t, {}, timed, events)
  BY <1>4 DEF Asked
<1>6. waits \in SUBSET (AnyName \X (d.alive \cap Objects)) /\ waits # {}
  BY DEF AnyName
<1>7. events \in SUBSET Elements(Threads)
  <2>1. d.level + delay \in Int
    BY <1>3, ScriptThreadsAssumption DEF Data
  <2> QED
    BY <1>3, <2>1 DEF Elements
<1>8. \A e \in events : e.thread = t /\ t \in timed /\ waits # {}
  BY <1>6
<1> HIDE DEF waits, timed, events, t
<1>9. Targets(d, t, waits)
  BY <1>6, ObjectTargets
<1>10. Keeps(d', d)
  BY <1>3, <1>5, <1>7, <1>8, <1>9, AsksKeeps
<1> QED
  BY <1>1, <1>10, RunningStep DEF WaitTillTimeout, Running

LEMMA ListsAfterWaitMove == ListInv /\ WaitMove => ListInv'
<1> SUFFICES ASSUME ListInv, WaitMove PROVE ListInv'
  OBVIOUS
<1>1. Running
  BY RunsFacts DEF WaitMove
<1>2. PICK o \in d.alive \cap Objects :
        d' = [Register(d, Current, {<<"0", o>>}) EXCEPT
                 !.asked[Current] = {}, !.timed = @ \ {Current}]
  BY DEF WaitMove
<1> DEFINE waits == {<<"0", o>>}
<1>3. waits \in SUBSET (AnyName \X (d.alive \cap Objects))
  BY DEF AnyName
<1>4. d' = [Register(d, Current, waits) EXCEPT !.asked[Current] = {}, !.timed = @ \ {Current}]
  BY <1>2
<1> HIDE DEF waits
<1>5. Targets(d, Current, waits)
  BY <1>3, ObjectTargets
<1>6. d \in Data /\ Good(d) /\ Current \in Threads /\ Current \in d.alive /\ {} \in SUBSET Waited
  BY <1>1 DEF Running
<1>7. Keeps(d', d)
  BY <1>4, <1>5, <1>6, AsksUntimed
<1> QED
  BY <1>1, <1>7, RunningStep DEF WaitMove, Running

LEMMA ListsAfterEndOn ==
    ASSUME ListInv, NEW o \in Objects, EventEndOn(o)
    PROVE  ListInv'
<1>1. Running
  BY RunsFacts DEF EventEndOn
<1>2. PICK n \in Names : d' = [d EXCEPT !.ends[o] = @ \cup {<<n, Current>>}]
  BY DEF EventEndOn
<1> DEFINE ends == [d.ends EXCEPT ![o] = @ \cup {<<n, Current>>}]
<1>3. d \in Data /\ Good(d) /\ Current \in Threads /\ Current \in d.alive
  BY <1>1 DEF Running
<1>4. ends \in [Objects -> SUBSET (Names \X Threads)]
  BY <1>3 DEF Data
<1>5. d' = [d EXCEPT !.ends = ends]
  BY <1>2, <1>3 DEF Data
<1> HIDE DEF ends
<1>6. d' \in Data
  BY <1>3, <1>4, <1>5 DEF Data
<1>7. Adjusts(d', d, Current)
  BY <1>3, <1>5, <1>6 DEF Adjusts, Data
<1>8. Keeps(d', d)
  BY <1>3, <1>7, AdjustsKeeps
<1> QED
  BY <1>1, <1>8, RunningStep DEF EventEndOn, Running

LEMMA ListsAfterUnregister ==
    ASSUME ListInv, NEW o \in Objects, EventUnregister(o)
    PROVE  ListInv'
<1>1. Running
  BY RunsFacts DEF EventUnregister
<1>2. PICK n \in Names : /\ d' = Announced(d, o, n)
                         /\ stack' = Append(Used, Wake(n, Woken(d, o, n)))
  BY DEF EventUnregister
<1> DEFINE list == Woken(d, o, n)
<1>3. d \in Data /\ Good(d) /\ NoMoves(stack) /\ SameWakes(Used, stack) /\ Holds(d, stack)
  BY <1>1 DEF Running, ListInv
<1>4. n \in AnyName /\ n # "0"
  BY ScriptThreadsAssumption DEF AnyName
<1>5. Announces(d', d, list)
  BY <1>2, <1>3, <1>4, AnnouncedFacts
<1> HIDE DEF list
<1> DEFINE u == Used
<1>6. u \in Seq(Frames) /\ NoMoves(u) /\ SameWakes(u, stack)
  BY <1>3 DEF SameWakes, NoMoves
<1>7. stack' = Append(u, Wake(n, list))
  BY <1>2 DEF list
<1> HIDE DEF u
<1>8. Holds(d', Append(u, Wake(n, list)))
  BY <1>3, <1>4, <1>5, <1>6, HoldsTelling
<1> QED
  BY <1>7, <1>8 DEF ListInv

\* Mentioned has the threads of the stack's frames.
LEMMA CurrentInUse ==
    ASSUME Running, NEW t \in Unused
    PROVE  t \in Threads /\ t \notin d.alive /\ t # Current
BY DEF Running, Unused

LEMMA ListsAfterExecute ==
    ASSUME ListInv, NEW t \in Threads, ExecuteThreadInternal(t)
    PROVE  ListInv'
<1>1. Running
  BY RunsFacts DEF ExecuteThreadInternal
<1>2. t \in Threads \ d.alive /\ d' = Started(New(d, t), t) /\ stack' = Used \o Call(t)
  BY DEF ExecuteThreadInternal, Unused
<1> DEFINE s == New(d, t)
<1>3. Keeps(s, d) /\ t \in s.alive
  BY <1>1, <1>2, NewKeeps DEF Running
<1> HIDE DEF s
<1>4. s \in Data /\ Good(s)
  BY <1>3 DEF Keeps
<1>5. Keeps(Started(s, t), s)
  BY <1>3, <1>4, StartedFacts
<1>6. Keeps(d', d)
  BY <1>2, <1>3, <1>5 DEF Keeps, s
<1>7. SameWakes(stack', stack)
  <2>1. SameWakes(Used, stack) /\ Used \in Seq(Frames)
    BY <1>1 DEF Running, SameWakes
  <2>2. SameWakes(Used \o Call(t), Used)
    BY <2>1, Called
  <2> QED
    BY <1>2, <2>1, <2>2, WakesAgain
<1> QED
  BY <1>1, <1>6, <1>7, RunningStep

LEMMA ListsAfterWaitExecute ==
    ASSUME ListInv, NEW t \in Threads, WaitExecuteThreadInternal(t)
    PROVE  ListInv'
<1>1. Running
  BY RunsFacts DEF WaitExecuteThreadInternal
<1> DEFINE c == Current
           s == New(d, t)
           waits == {<<"0", t>>}
           b == [Register(s, c, waits) EXCEPT !.asked[c] = {}, !.timed = @ \ {c}]
<1>2. t \in Threads \ d.alive /\ t # c /\ d' = Started(b, t) /\ stack' = stack \o Call(t)
  BY <1>1, CurrentInUse DEF WaitExecuteThreadInternal
<1>3. /\ Keeps(s, d) /\ s.alive = d.alive \cup {t} /\ s.notify[t] = <<>> /\ s.waitFor[t] = {}
  BY <1>1, <1>2, NewKeeps DEF Running
<1> HIDE DEF s
<1>4. s \in Data /\ Good(s) /\ c \in Threads /\ c \in s.alive /\ {} \in SUBSET Waited
  BY <1>1, <1>3 DEF Keeps, Running
<1>5. Targets(s, c, waits)
  BY <1>2, <1>3 DEF Targets, Waited, AnyName, Listeners
<1>6. \A w \in waits : w[2] = t
  OBVIOUS
<1>7. waits # {}
  OBVIOUS
<1> HIDE DEF waits, c, b
<1>8. Keeps(b, s) /\ \A w \in waits : w[2] \in b.alive
  <2>1. b = [Register(s, c, waits) EXCEPT !.asked[c] = {}, !.timed = @ \ {c}]
    BY DEF b
  <2> QED
    BY <1>4, <1>5, <2>1, AsksUntimed
<1>9. b \in Data /\ Good(b) /\ t \in b.alive
  BY <1>6, <1>7, <1>8 DEF Keeps
<1>10. Keeps(Started(b, t), b)
  BY <1>9, StartedFacts
<1>11. Keeps(d', d)
  BY <1>2, <1>3, <1>8, <1>10 DEF Keeps
<1>12. SameWakes(stack', stack)
  BY <1>1, <1>2, Called DEF Running
<1> QED
  BY <1>1, <1>11, <1>12, RunningStep

LEMMA ListsAfterCommand == ListInv /\ (Command \/ WaitMove) => ListInv'
BY ListsAfterEnd, ListsAfterWait, ListsAfterWaitTill, ListsAfterWaitTillTimeout,
   ListsAfterWaitTillAny, ListsAfterWaitMove, ListsAfterWaitOther, ListsAfterExecute,
   ListsAfterWaitExecute, ListsAfterEndOn, ListsAfterUnregister, ListsAfterRemove DEF Command

-----------------------------------------------------------------------------
(* Calls return, and time passes.                                          *)

\* A step of a frame that tells nobody, or of the game.
LEMMA QuietStep ==
    ASSUME ListInv, stack = <<>> \/ Last(stack).kind # "wake",
           Keeps(d', d), SameWakes(stack', stack)
    PROVE  ListInv'
<1>1. Holds(d, stack) /\ NoMoves(stack)
  BY NoMovesBelow DEF ListInv
<1>2. Holds(d', stack')
  BY <1>1, HoldsAgain
<1> QED
  BY <1>2 DEF ListInv

\* The lists of s have what they had, or nothing changes but the time.
LEMMA KeepsSelf ==
    ASSUME NEW s \in Data, Good(s)
    PROVE  Keeps(s, s)
BY DEF Keeps

LEMMA ListsAfterReturn == ListInv /\ Return => ListInv'
<1> SUFFICES ASSUME ListInv, Return PROVE ListInv'
  OBVIOUS
<1> DEFINE t == Current
           vm == [d.vm EXCEPT ![t] = IF @ = "SUSPENDED" THEN "EXECUTION" ELSE "none"]
<1>1. /\ stack \in Seq(Frames) /\ stack # <<>> /\ Last(stack) \in Frames
      /\ Last(stack).kind = "vm" /\ d \in Data /\ Good(d)
  BY TopFrame DEF ListInv, Holds, Return, TopIs
<1>2. t \in Threads
  BY <1>1 DEF Frames, Current
<1>3. d' = [d EXCEPT !.vm[t] = IF @ = "SUSPENDED" THEN "EXECUTION" ELSE "none"]
      /\ stack' = Front(stack)
  BY DEF Return
<1>4. vm \in [Threads -> VMStates] /\ vm[t] # "RUNNING" /\ \A x \in Threads \ {t} : vm[x] = d.vm[x]
  BY <1>1, <1>2 DEF Data, VMStates
<1>5. d' = [d EXCEPT !.vm = vm]
  BY <1>1, <1>3 DEF Data
<1> HIDE DEF vm, t
<1>6. d' \in Data
  BY <1>1, <1>4, <1>5 DEF Data
<1>7. Adjusts(d', d, t)
  BY <1>1, <1>4, <1>5, <1>6 DEF Adjusts, Data
<1>8. Keeps(d', d)
  BY <1>1, <1>2, <1>7, AdjustsKeeps
<1>9. SameWakes(stack', stack)
  BY <1>1, <1>3, Popped
<1> QED
  BY <1>1, <1>8, <1>9, QuietStep

LEMMA ListsAfterAllTold == ListInv /\ AllTold => ListInv'
<1> SUFFICES ASSUME ListInv, AllTold PROVE ListInv'
  OBVIOUS
<1> DEFINE n == Len(stack)
           u == Front(stack)
<1>1. /\ stack \in Seq(Frames) /\ stack # <<>> /\ Last(stack).list = <<>>
      /\ d' = d /\ stack' = u
  BY DEF ListInv, Holds, AllTold, TopIs
<1>2. /\ u \in Seq(Frames)
      /\ \A i \in DOMAIN u : i \in DOMAIN stack /\ u[i] = stack[i]
      /\ \A i \in DOMAIN stack : i = n \/ i \in DOMAIN u
  BY <1>1, Popped
<1>3. stack[n].list = <<>> /\ n \in Nat /\ Len(u) = n - 1
  <2>1. n \in Nat /\ n > 0
    BY <1>1
  <2>2. u = SubSeq(stack, 1, n - 1) /\ Last(stack) = stack[n]
    BY DEF Front, Last
  <2>3. Len(SubSeq(stack, 1, n - 1)) = n - 1
    <3>1. stack \in Seq(Frames) /\ n = Len(stack)
      BY <1>1
    <3> HIDE DEF u, n
    <3> QED
      BY ONLY <2>1, <3>1
  <2> HIDE DEF u, n
  <2> QED
    BY <1>1, <2>1, <2>2, <2>3
<1> HIDE DEF u, n
<1>4. Telling(stack) \subseteq Telling(u)
  <2> SUFFICES ASSUME NEW t \in Threads, NEW j \in DOMAIN stack, stack[j].kind = "wake",
                      t \in Range(stack[j].list)
               PROVE  t \in Telling(u)
    BY DEF Telling
  <2>1. j # n
    BY <1>3 DEF Range
  <2>2. j \in DOMAIN u /\ u[j] = stack[j]
    BY <2>1, <1>2
  <2> QED
    BY <2>2 DEF Telling
<1>5. Timeouts(d, Telling(u))
  BY <1>4, MoreTold DEF ListInv, Holds
<1>6. Moves(d, u)
  <2> SUFFICES ASSUME NEW i \in DOMAIN u, u[i].kind = "wake", u[i].name = "0" PROVE FALSE
    BY DEF Moves
  <2>1. Len(stack) = 1
    BY <1>2 DEF ListInv, Holds, Moves
  <2>2. DOMAIN u = {}
    BY <2>1, <1>2, <1>3 DEF n
  <2> QED
    BY <2>2
<1>7. Holds(d, u)
  BY <1>2, <1>5, <1>6 DEF ListInv, Holds
<1> QED
  BY <1>1, <1>7 DEF ListInv

LEMMA ListsAfterRunNext == ListInv /\ RunNext => ListInv'
<1> SUFFICES ASSUME ListInv, RunNext PROVE ListInv'
  OBVIOUS
<1> DEFINE i == NextElement(d.timer, Due(d))
           t == d.timer[i].thread
           f == [kind |-> "running",
                 start |-> IF Last(stack).start = None THEN d.level ELSE Last(stack).start]
           u == [stack EXCEPT ![Len(stack)] = f]
<1>1. /\ stack \in Seq(Frames) /\ stack # <<>> /\ Last(stack) \in Frames
      /\ Last(stack).kind = "running" /\ d \in Data /\ Good(d)
  BY TopFrame DEF ListInv, Holds, RunNext, TopIs
<1>2. d.timer \in Seq(Elements(Threads)) /\ Due(d) \in SUBSET DOMAIN d.timer /\ Due(d) # {}
  BY <1>1 DEF Due, RunNext, Data
<1>3. i \in Due(d)
  BY <1>2, NextExists
<1>4. i \in DOMAIN d.timer
  BY <1>3 DEF Due
<1>5. Taken(d', d, i)
  BY DEF RunNext, Taken
<1>6. stack' = Append(u, Run(t))
  BY DEF RunNext, Top
<1> HIDE DEF i
<1>7. Keeps(d', d) /\ t \in Threads
  BY <1>1, <1>4, <1>5, TakenKeeps
<1>8. Last(stack).start \in Int
  BY <1>1 DEF Frames
<1>9. f \in Frames /\ f.kind # "wake"
  <2>1. d.level \in Int
    BY <1>1 DEF Data
  <2> QED
    BY <1>8, <2>1 DEF Frames
<1> HIDE DEF f, t
<1>10. SameWakes(u, stack)
  BY <1>1, <1>9, Replaced
<1> HIDE DEF u
<1>11. SameWakes(Append(u, Run(t)), u)
  <2>1. Run(t) \in Frames /\ Run(t).kind # "wake"
    BY <1>7, FramesOf
  <2> QED
    BY <1>10, <2>1, Pushed DEF SameWakes
<1>12. SameWakes(stack', stack)
  BY <1>6, <1>10, <1>11, WakesAgain
<1> QED
  BY <1>1, <1>7, <1>12, QuietStep

LEMMA ListsAfterRunningEnds == ListInv /\ RunningEnds => ListInv'
<1> SUFFICES ASSUME ListInv, RunningEnds PROVE ListInv'
  OBVIOUS
<1>1. /\ stack \in Seq(Frames) /\ stack # <<>> /\ Last(stack) \in Frames
      /\ Last(stack).kind = "running" /\ d \in Data /\ Good(d)
  BY TopFrame DEF ListInv, Holds, RunningEnds, TopIs
<1>2. SameWakes(stack', stack)
  BY <1>1, Popped DEF RunningEnds
<1>3. Keeps(d', d)
  <2>1. CASE ~Looping
    BY <2>1, <1>1, KeepsSelf DEF RunningEnds
  <2>2. CASE Looping
    <3> DEFINE level == IF Last(stack).start = None THEN d.level ELSE Last(stack).start
    <3>1. Due(d) = {} /\ d' = [d EXCEPT !.dirty = FALSE, !.level = level]
      BY <2>2 DEF RunningEnds
    <3>2. level \in Int
      BY <1>1 DEF Frames, Data
    <3> HIDE DEF level
    <3>3. d' \in Data
      BY <1>1, <3>1, <3>2 DEF Data
    <3>4. /\ d'.alive = d.alive /\ d'.notify = d.notify /\ d'.waitFor = d.waitFor
          /\ d'.state = d.state /\ d'.timer = d.timer /\ d'.inttime = d.inttime
          /\ d'.timeouts = d.timeouts /\ d'.vm = d.vm /\ d'.timed = d.timed
      BY <1>1, <3>1 DEF Data
    <3>5. TimerDirty(d')
      BY <3>1, <3>4 DEF TimerDirty, Due
    <3>6. Registered(d')
      <4> SUFFICES ASSUME NEW x \in Threads, NEW l \in Listeners, NEW n \in AnyName
                   PROVE  <<n, l>> \in d'.waitFor[x] <=>
                            \E k \in DOMAIN d'.notify[l] : d'.notify[l][k] = <<n, x>>
        BY DEF Registered
      <4>1. <<n, l>> \in d.waitFor[x] <=> \E k \in DOMAIN d.notify[l] : d.notify[l][k] = <<n, x>>
        BY <1>1 DEF Good, Lists, Registered
      <4> QED
        BY ONLY <4>1, <3>4
    <3>7. Living(d') /\ TimerAgrees(d') /\ Parents(d') /\ Suspended(d', Threads)
      BY <1>1, <3>4 DEF Good, Lists, Living, TimerAgrees, Parents, Suspended
    <3>8. \A T \in SUBSET Threads : Timeouts(d, T) => Timeouts(d', T)
      BY <3>4 DEF Timeouts
    <3> QED
      BY <3>3, <3>5, <3>6, <3>7, <3>8 DEF Keeps, Good, Lists
  <2> QED
    BY <2>1, <2>2
<1> QED
  BY <1>1, <1>2, <1>3, QuietStep

\* The first of the threads that are to be told, and the stack without it.
Told1 == Head(Last(stack).list)
Rest == Top(Wake(Last(stack).name, Tail(Last(stack).list)))

\* u has the lists of threads that are left to be told.
LEMMA RestFacts ==
    ASSUME ListInv, TopIs("wake"), Last(stack).list # <<>>
    PROVE  /\ Told1 \in Threads /\ Last(stack).name \in AnyName
           /\ Rest \in Seq(Frames)
           /\ Telling(stack) \ {Told1} \subseteq Telling(Rest)
           /\ Last(stack).name # "0" => NoMoves(Rest)
           /\ Last(stack).name = "0" =>
                /\ d.waitFor[Told1] = {}
                /\ \A r : r.waitFor = d.waitFor => Moves(r, Rest)
<1> DEFINE frame == Last(stack)
           list == frame.list
           rest == Tail(list)
           n == Len(stack)
           f == Wake(frame.name, rest)
           t == Head(list)
<1>1. /\ stack \in Seq(Frames) /\ stack # <<>> /\ frame \in Frames
      /\ frame.kind = "wake" /\ d \in Data /\ Good(d) /\ list # <<>>
  BY TopFrame DEF ListInv, Holds, TopIs
<1>2. frame \in [kind : {"wake"}, name : AnyName, list : Seq(Threads)]
  BY <1>1 DEF Frames
<1>3. frame.name \in AnyName /\ list \in Seq(Threads)
  BY <1>2
<1> HIDE DEF list
<1>4. /\ t \in Threads /\ rest \in Seq(Threads) /\ t = list[1] /\ 1 \in DOMAIN list
      /\ \A k \in DOMAIN rest : k + 1 \in DOMAIN list /\ rest[k] = list[k + 1]
      /\ \A k \in DOMAIN list : k = 1 \/ (k - 1 \in DOMAIN rest /\ rest[k - 1] = list[k])
  BY <1>1, <1>3
<1> HIDE DEF t, rest
<1>5. f \in Frames /\ f.kind = "wake" /\ f.name = frame.name /\ f.list = rest
  BY <1>3, <1>4 DEF Wake, Frames
<1>6. n \in Nat /\ n > 0 /\ DOMAIN stack = 1 .. n /\ stack[n] = frame
  BY <1>1 DEF Last
<1>7. Rest = [stack EXCEPT ![n] = f] /\ Told1 = t
  BY DEF Rest, Top, Told1, t, rest, list
<1> HIDE DEF f, frame, n
<1>8. /\ Rest \in Seq(Frames) /\ Len(Rest) = n /\ DOMAIN Rest = 1 .. n
      /\ Rest[n] = f /\ \A i \in 1 .. n : i # n => Rest[i] = stack[i]
  <2>1. stack \in [1 .. n -> Frames]
    BY <1>1, <1>6
  <2> HIDE DEF Frames
  <2>2. Rest \in [1 .. n -> Frames] /\ Rest[n] = f /\ \A i \in 1 .. n : i # n => Rest[i] = stack[i]
    BY <1>5, <1>6, <1>7, <2>1
  <2> QED
    BY <1>6, <2>2
<1>9. ASSUME NEW x \in Telling(stack), x # t PROVE x \in Telling(Rest)
  <2>1. PICK j \in 1 .. n : stack[j].kind = "wake" /\ x \in Range(stack[j].list)
    BY <1>6 DEF Telling
  <2>2. x \in Threads
    BY DEF Telling
  <2>3. CASE j # n
    BY <2>1, <2>2, <2>3, <1>8 DEF Telling
  <2>4. CASE j = n
    <3>1. x \in Range(list)
      BY <2>1, <2>4, <1>6 DEF list
    <3>2. PICK k \in DOMAIN list : x = list[k]
      BY <3>1 DEF Range
    <3>3. k # 1
      BY <3>2, <1>4, <1>9
    <3>4. k - 1 \in DOMAIN rest /\ rest[k - 1] = x
      BY <3>2, <3>3, <1>4
    <3>5. x \in Range(rest)
      BY <3>4 DEF Range
    <3>6. n \in DOMAIN Rest /\ Rest[n].kind = "wake" /\ x \in Range(Rest[n].list)
      BY <3>5, <1>5, <1>6, <1>8
    <3> QED
      BY <3>6, <2>2 DEF Telling
  <2> QED
    BY <2>3, <2>4
<1>10. \A i \in 1 .. n : stack[i].kind = "wake" /\ stack[i].name = "0" =>
          n = 1 /\ \A k \in DOMAIN stack[i].list : d.waitFor[stack[i].list[k]] = {}
  BY <1>6 DEF ListInv, Holds, Moves, n
<1>11. ASSUME frame.name # "0" PROVE NoMoves(Rest)
  <2> SUFFICES ASSUME NEW i \in 1 .. n, Rest[i].kind = "wake", Rest[i].name = "0" PROVE FALSE
    BY <1>8 DEF NoMoves
  <2>1. i # n
    BY <1>5, <1>8, <1>11
  <2>2. n = 1
    BY <2>1, <1>8, <1>10
  <2> QED
    BY <2>1, <2>2
<1>12. ASSUME frame.name = "0"
       PROVE  d.waitFor[t] = {} /\ \A r : r.waitFor = d.waitFor => Moves(r, Rest)
  <2>1. n \in 1 .. n
    BY <1>6
  <2>2. n = 1 /\ \A k \in DOMAIN list : d.waitFor[list[k]] = {}
    BY <2>1, <1>1, <1>6, <1>10, <1>12 DEF list
  <2>3. d.waitFor[t] = {}
    BY <2>2, <1>4
  <2>4. ASSUME NEW r, r.waitFor = d.waitFor PROVE Moves(r, Rest)
    <3> SUFFICES ASSUME NEW i \in DOMAIN Rest
                 PROVE  Len(Rest) = 1 /\ \A k \in DOMAIN Rest[i].list : r.waitFor[Rest[i].list[k]] = {}
      BY DEF Moves
    <3>1. Rest[i].list = rest
      BY <2>2, <1>5, <1>8
    <3>2. \A k \in DOMAIN rest : d.waitFor[rest[k]] = {}
      BY <2>2, <1>4
    <3> QED
      BY <3>1, <3>2, <2>2, <2>4, <1>8
  <2> QED
    BY <2>3, <2>4
<1> QED
  BY <1>1, <1>3, <1>4, <1>7, <1>8, <1>9, <1>11, <1>12 DEF frame, list

\* The thread has been told: it has no timeout any more.
LEMMA ToldStep ==
    ASSUME ListInv, TopIs("wake"), Last(stack).list # <<>>,
           NEW c, Timeouts(c, Telling(stack) \ {Told1}), NEW r, Keeps(r, c),
           NEW u, SameWakes(u, Rest), Moves(r, u)
    PROVE  Holds(r, u)
<1> DEFINE T == Telling(stack) \ {Told1}
<1>1. T \in SUBSET Threads
  BY DEF Telling
<1>2. Timeouts(r, T)
  BY <1>1 DEF Keeps
<1>3. Telling(Rest) \subseteq Telling(u)
  BY TellingKept DEF SameWakes
<1>4. T \subseteq Telling(u)
  BY <1>3, RestFacts
<1> HIDE DEF T
<1>5. Timeouts(r, Telling(u))
  BY <1>2, <1>4, MoreTold
<1> QED
  BY <1>5 DEF Holds, Keeps, SameWakes

LEMMA ListsAfterStopped == ListInv /\ StoppedWaitFor => ListInv'
<1> SUFFICES ASSUME ListInv, StoppedWaitFor PROVE ListInv'
  OBVIOUS
<1> DEFINE frame == Last(stack)
           t == Told1
           c == CancelEvents(d, t)
           T == Telling(stack) \ {t}
<1>1. TopIs("wake") /\ frame.list # <<>> /\ d \in Data /\ Good(d)
      /\ Timeouts(d, Telling(stack))
  BY DEF StoppedWaitFor, ListInv, Holds
<1>2. /\ t \in Threads /\ Rest \in Seq(Frames)
      /\ frame.name # "0" => NoMoves(Rest)
      /\ frame.name = "0" => d.waitFor[t] = {} /\ \A r : r.waitFor = d.waitFor => Moves(r, Rest)
  BY <1>1, RestFacts
<1>3. IF t \notin d.alive THEN d' = d /\ stack' = Rest
      ELSE IF d.state[t] # "SUSPENDED" THEN d' = c /\ stack' = Rest
      ELSE IF frame.name = "0" THEN d' = StoppedWaiting(d, t) /\ stack' = Rest
      ELSE IF d.vm[t] = "EXECUTION" THEN d' = Execute(c, t).d /\ stack' = Rest \o Execute(c, t).calls
      ELSE d' = [c EXCEPT !.vm[t] = "RUNNING"] /\ stack' = Rest
  BY DEF StoppedWaitFor, Rest, Told1
<1> HIDE DEF frame, t
<1>4. SameWakes(Rest, Rest) /\ SameWakes(Rest \o Call(t), Rest)
  BY <1>2, WakesSame, Called
<1>5. /\ c \in Data /\ Adjusts(c, d, t) /\ c.waitFor = d.waitFor /\ c.alive = d.alive
      /\ c.timeouts = {e \in d.timeouts : e.thread # t} /\ c.timed = d.timed
      /\ c.state = d.state
  <2>1. c = [d EXCEPT !.timeouts = {e \in d.timeouts : e.thread # t}]
    BY DEF CancelEvents
  <2>2. d.vm[t] = "RUNNING" => t \in d.alive
    BY <1>1, <1>2 DEF Good, Lists, Living
  <2> QED
    BY <1>1, <2>1, <2>2 DEF Data, Adjusts
<1>6. Keeps(c, d)
  BY <1>1, <1>2, <1>5, AdjustsKeeps
<1> HIDE DEF c
<1>7. Good(c)
  BY <1>6 DEF Keeps
<1>8. Timeouts(c, T)
  BY <1>1, <1>5 DEF Timeouts
<1>9. T = Telling(stack) \ {Told1} /\ T \in SUBSET Threads
  BY DEF t, Telling
<1> HIDE DEF T
<1>10. \A r, u : Keeps(r, c) /\ SameWakes(u, Rest) /\ Moves(r, u) => Holds(r, u)
  BY <1>1, <1>8, <1>9, ToldStep DEF frame
<1>11. CASE t \notin d.alive
  <2>1. Timeouts(d, T)
    <3>1. \A e \in d.timeouts : e.thread # t
      BY <1>1, <1>11 DEF Good, Lists, Living
    <3> QED
      BY <3>1, <1>1, <1>9 DEF Timeouts, t
  <2>2. Moves(d, Rest)
    BY <1>2 DEF NoMoves, Moves
  <2>3. Keeps(d, d)
    BY <1>1, KeepsSelf
  <2>4. Holds(d, Rest)
    BY <1>1, <1>4, <1>9, <2>1, <2>2, <2>3, ToldStep DEF frame
  <2> QED
    BY <1>3, <1>11, <2>4 DEF ListInv
<1>12. CASE t \in d.alive /\ d.state[t] # "SUSPENDED"
  <2>1. Moves(c, Rest)
    BY <1>2, <1>5 DEF NoMoves, Moves
  <2>2. Keeps(c, c)
    BY <1>5, <1>7, KeepsSelf
  <2>3. Holds(c, Rest)
    BY <1>4, <1>10, <2>1, <2>2
  <2> QED
    BY <1>3, <1>12, <2>3 DEF ListInv
<1>13. CASE t \in d.alive /\ d.state[t] = "SUSPENDED" /\ frame.name = "0"
  <2> DEFINE r == StoppedWaiting(d, t)
  <2>1. d.waitFor[t] = {} /\ Lists(d) /\ Suspended(d, Threads \ {t})
    BY <1>1, <1>2, <1>13 DEF Good, Suspended
  <2>2. /\ r \in Data /\ Lists(r) /\ Suspended(r, Threads)
        /\ Stops(r, d, {t})
        /\ \A U \in SUBSET Threads : Timeouts(d, U \cup {t}) => Timeouts(r, U)
    BY <1>1, <1>2, <2>1, StoppedLists
  <2> HIDE DEF r
  <2>3. Good(r) /\ r.waitFor = d.waitFor
    BY <2>2 DEF Good, Stops
  <2>4. Keeps(r, r)
    BY <2>2, <2>3, KeepsSelf
  <2>5. Timeouts(r, T)
    <3>1. Telling(stack) \subseteq T \cup {t}
      BY <1>9 DEF t
    <3>2. Timeouts(d, T \cup {t})
      BY <1>1, <3>1, MoreTold
    <3> QED
      BY <1>9, <2>2, <3>2
  <2>6. Moves(r, Rest)
    BY <1>2, <1>13, <2>3
  <2>7. Holds(r, Rest)
    BY <1>1, <1>4, <1>9, <2>4, <2>5, <2>6, ToldStep DEF frame
  <2> QED
    BY <1>3, <1>13, <2>7 DEF ListInv, r
<1>14. CASE t \in d.alive /\ d.state[t] = "SUSPENDED" /\ frame.name # "0"
  <2>1. ASSUME NEW r, NEW u, Keeps(r, c), SameWakes(u, Rest) PROVE Holds(r, u)
    <3>1. Moves(r, u)
      <4>1. NoMoves(Rest)
        BY <1>2, <1>14
      <4>2. NoMoves(u)
        BY <2>1, <4>1 DEF NoMoves, SameWakes
      <4> QED
        BY <4>2 DEF NoMoves, Moves
    <3> QED
      BY <1>10, <2>1, <3>1
  <2>2. CASE d.vm[t] = "EXECUTION" /\ Paused
    <3> DEFINE p == Stop(c, t)
               r == Timed(p, t, c.level)
    <3>1. Execute(c, t).d = Timed(Stop(c, t), t, c.level) /\ Execute(c, t).calls = <<>>
      BY <2>2 DEF Execute
    <3>2. Released(p, c, t) /\ p.state[t] = "RUNNING"
          /\ \A U \in SUBSET Threads : Timeouts(c, U) => Timeouts(p, U)
      BY <1>2, <1>5, <1>7, StopFacts
    <3> HIDE DEF p
    <3>3. p \in Data /\ Good(p) /\ t \in p.alive /\ p.waitFor[t] = {} /\ c.level \in Int
      BY <1>5, <1>14, <3>2 DEF Released, Data
    <3>4. Keeps(r, p)
      BY <1>2, <3>2, <3>3, TimedKeeps
    <3>5. Keeps(r, c)
      BY <3>2, <3>4 DEF Keeps
    <3>6. d' = r /\ stack' = Rest
      <4>1. d' = r /\ stack' = Rest \o <<>>
        BY <1>3, <1>14, <2>2, <3>1 DEF p
      <4> QED
        BY <4>1, <1>2
    <3> HIDE DEF r
    <3> QED
      BY <1>4, <2>1, <3>5, <3>6 DEF ListInv
  <2>3. CASE d.vm[t] = "EXECUTION" /\ ~Paused
    <3>1. Execute(c, t).d = Started(c, t) /\ Execute(c, t).calls = Call(t)
      BY <2>3 DEF Execute
    <3>2. Keeps(Started(c, t), c)
      BY <1>2, <1>5, <1>7, <1>14, StartedFacts
    <3>3. d' = Started(c, t) /\ stack' = Rest \o Call(t)
      BY <1>3, <1>14, <2>3, <3>1
    <3> QED
      BY <1>4, <2>1, <3>2, <3>3 DEF ListInv
  <2>4. CASE d.vm[t] # "EXECUTION"
    <3> DEFINE vm == [c.vm EXCEPT ![t] = "RUNNING"]
               r == [c EXCEPT !.vm = vm]
    <3>1. d' = r /\ stack' = Rest
      BY <1>3, <1>5, <1>14, <2>4 DEF Data
    <3>2. vm \in [Threads -> VMStates] /\ \A x \in Threads \ {t} : vm[x] = c.vm[x]
      BY <1>2, <1>5 DEF Data, VMStates
    <3> HIDE DEF vm
    <3>3. Adjusts(r, c, t)
      BY <1>5, <1>14, <3>2 DEF Adjusts, Data
    <3> HIDE DEF r
    <3>4. Keeps(r, c)
      BY <1>2, <1>5, <1>7, <3>3, AdjustsKeeps
    <3> QED
      BY <1>4, <2>1, <3>1, <3>4 DEF ListInv
  <2> QED
    BY <2>2, <2>3, <2>4
<1> QED
  BY <1>11, <1>12, <1>13, <1>14

-----------------------------------------------------------------------------
(* The game, between scripts.                                              *)

LEMMA QuietFacts ==
    ASSUME ListInv, Quiet
    PROVE  d \in Data /\ Good(d) /\ <<>> \in Seq(Frames) /\ SameWakes(<<>>, <<>>) /\ NoMoves(<<>>)
<1>1. <<>> \in Seq(Frames)
  OBVIOUS
<1> QED
  <2>1. SameWakes(<<>>, <<>>)
    BY <1>1, WakesSame
  <2>2. NoMoves(<<>>)
    BY DEF NoMoves
  <2> QED
    BY <1>1, <2>1, <2>2 DEF ListInv, Holds

LEMMA ListsAfterGameUnregister ==
    ASSUME ListInv, NEW o \in Objects, Unregister(o)
    PROVE  ListInv'
<1>1. /\ stack = <<>> /\ d \in Data /\ Good(d) /\ <<>> \in Seq(Frames)
      /\ SameWakes(<<>>, <<>>) /\ NoMoves(<<>>) /\ Holds(d, <<>>)
  BY QuietFacts DEF Unregister, Quiet, ListInv
<1>2. PICK n \in AnyName : /\ d' = Announced(d, o, n)
                           /\ stack' = <<Wake(n, Woken(d, o, n))>>
  BY DEF Unregister, AnyName
<1> DEFINE list == Woken(d, o, n)
<1>3. Announces(d', d, list)
  BY <1>1, <1>2, AnnouncedFacts
<1>4. stack' = Append(<<>>, Wake(n, list))
  BY <1>2
<1> HIDE DEF list
<1>5. Holds(d', Append(<<>>, Wake(n, list)))
  BY <1>1, <1>3, HoldsTelling
<1> QED
  BY <1>4, <1>5 DEF ListInv

LEMMA ListsAfterGameRemove ==
    ASSUME ListInv, NEW o \in Objects, RemoveEvent(o)
    PROVE  ListInv'
<1>1. d \in Data /\ Good(d) /\ stack = <<>> /\ SameWakes(<<>>, <<>>)
  BY QuietFacts DEF RemoveEvent, Quiet
<1>2. {o} \in SUBSET Listeners
  BY DEF Listeners
<1>3. Keeps(d', d)
  BY <1>1, <1>2, DeleteKeeps DEF RemoveEvent
<1> QED
  BY <1>1, <1>3, QuietStep DEF RemoveEvent

LEMMA ListsAfterStart ==
    ASSUME ListInv, NEW t \in Threads, StartScript(t)
    PROVE  ListInv'
<1>1. d \in Data /\ Good(d) /\ stack = <<>> /\ <<>> \in Seq(Frames)
  BY QuietFacts DEF StartScript, Quiet
<1>2. t \in Threads \ d.alive /\ d' = Started(New(d, t), t) /\ stack' = Call(t)
  BY DEF StartScript, Unused
<1> DEFINE s == New(d, t)
<1>3. Keeps(s, d) /\ t \in s.alive
  BY <1>1, <1>2, NewKeeps
<1> HIDE DEF s
<1>4. s \in Data /\ Good(s)
  BY <1>3 DEF Keeps
<1>5. Keeps(Started(s, t), s)
  BY <1>3, <1>4, StartedFacts
<1>6. Keeps(d', d)
  BY <1>2, <1>3, <1>5 DEF Keeps, s
<1>7. SameWakes(stack', stack)
  <2>1. <<>> \o Call(t) = Call(t)
    BY DEF Call
  <2> QED
    BY <1>1, <1>2, <2>1, Called
<1> QED
  BY <1>1, <1>6, <1>7, QuietStep

LEMMA ListsAfterCancel ==
    ASSUME ListInv, NEW t \in Threads, CancelWaiting(t)
    PROVE  ListInv'
<1>1. d \in Data /\ Good(d) /\ stack = <<>> /\ SameWakes(<<>>, <<>>)
  BY QuietFacts DEF CancelWaiting, Quiet
<1>2. PICK e \in d.timeouts : d' = CancelWaitingAll([d EXCEPT !.timeouts = @ \ {e}], t)
  BY DEF CancelWaiting
<1> DEFINE c == [d EXCEPT !.timeouts = @ \ {e}]
<1>3. c \in Data /\ Adjusts(c, d, t) /\ c.waitFor = d.waitFor
  <2>1. d.vm[t] = "RUNNING" => t \in d.alive
    BY <1>1 DEF Good, Lists, Living
  <2> QED
    BY <1>1, <2>1 DEF Data, Adjusts
<1>4. Keeps(c, d)
  BY <1>1, <1>3, AdjustsKeeps
<1> HIDE DEF c
<1>5. d' = CancelWaitingAll(c, t)
  BY <1>2 DEF c
<1>6. Keeps(d', c)
  <2>1. Good(c)
    BY <1>4 DEF Keeps
  <2>2. CASE c.waitFor[t] = {}
    BY <1>3, <1>5, <2>1, <2>2, KeepsSelf DEF CancelWaitingAll
  <2>3. CASE c.waitFor[t] # {}
    <3> DEFINE r == CancelWaitingAll(c, t)
    <3>1. Lists(c) /\ Suspended(c, Threads \ {t})
      BY <2>1 DEF Good, Suspended
    <3>2. Released(r, c, t) /\ \A T \in SUBSET Threads : Timeouts(c, T \cup {t}) => Timeouts(r, T)
      BY <1>3, <2>3, <3>1, CancelAll
    <3> HIDE DEF r
    <3>3. ASSUME NEW T \in SUBSET Threads, Timeouts(c, T) PROVE Timeouts(r, T)
      <4>1. Timeouts(c, T \cup {t})
        BY <3>3, MoreTold
      <4> QED
        BY <3>2, <4>1
    <3>4. Keeps(r, c)
      BY <3>2, <3>3 DEF Released, Keeps
    <3> QED
      BY <1>5, <3>4 DEF r
  <2> QED
    BY <2>2, <2>3
<1>7. Keeps(d', d)
  BY <1>4, <1>6 DEF Keeps
<1> QED
  BY <1>1, <1>7, QuietStep DEF CancelWaiting

LEMMA ListsAfterGame == ListInv /\ Game => ListInv'
BY ListsAfterGameUnregister, ListsAfterGameRemove, ListsAfterStart, ListsAfterCancel DEF Game

\* A frame later all times, which are relative to the frame's, are less by one.
LEMMA LaterKeeps ==
    ASSUME NEW s \in Data, Good(s)
    PROVE  Keeps(Later(s), s)
<1> DEFINE timer == [i \in DOMAIN s.timer |-> Sooner(s.timer[i])]
           timeouts == {Sooner(e) : e \in s.timeouts}
           r == Later(s)
<1>1. r = [s EXCEPT !.timer = timer, !.timeouts = timeouts, !.inttime = s.inttime - 1]
  BY DEF Later, Data
<1>2. s.timer \in Seq(Elements(Threads)) /\ s.inttime \in Int
      /\ s.timeouts \in SUBSET Elements(Threads)
  BY DEF Data
<1>3. ASSUME NEW e \in Elements(Threads)
      PROVE  /\ Sooner(e) \in Elements(Threads) /\ Sooner(e).thread = e.thread
             /\ Sooner(e).time = e.time - 1 /\ e.time \in Int
  BY DEF Elements, Sooner
<1>4. /\ timer \in Seq(Elements(Threads)) /\ DOMAIN timer = DOMAIN s.timer
      /\ \A k \in DOMAIN s.timer : timer[k].thread = s.timer[k].thread
                                   /\ timer[k].time = s.timer[k].time - 1 /\ s.timer[k].time \in Int
  <2>1. \A k \in DOMAIN s.timer : s.timer[k] \in Elements(Threads)
    BY <1>2
  <2>2. \A k \in DOMAIN s.timer : timer[k] = Sooner(s.timer[k])
    OBVIOUS
  <2>3. \A k \in DOMAIN s.timer : timer[k] \in Elements(Threads)
    BY <1>3, <2>1, <2>2
  <2>4. DOMAIN timer = 1 .. Len(s.timer) /\ Len(s.timer) \in Nat
    BY <1>2
  <2>5. timer = [k \in 1 .. Len(s.timer) |-> timer[k]]
    BY <2>4
  <2>6. timer \in Seq(Elements(Threads))
    <3> DEFINE n == Len(s.timer)
    <3> HIDE DEF timer
    <3>1. timer \in [1 .. n -> Elements(Threads)] /\ n \in Nat
      BY <2>3, <2>4, <2>5
    <3> HIDE DEF n
    <3> QED
      BY <3>1
  <2> QED
    BY <1>3, <2>1, <2>2, <2>6
<1>5. /\ timeouts \in SUBSET Elements(Threads)
      /\ \A e \in timeouts : \E o \in s.timeouts : e.thread = o.thread
  BY <1>2, <1>3
<1> HIDE DEF timer, timeouts, r
<1>6. r \in Data
  <2>1. timer \in Seq(Elements(Threads)) /\ timeouts \in SUBSET Elements(Threads)
        /\ s.inttime - 1 \in Int
    BY <1>2, <1>4, <1>5
  <2> QED
    BY <1>1, <2>1 DEF Data
<1>7. /\ r.timer = timer /\ r.timeouts = timeouts /\ r.inttime = s.inttime - 1
      /\ r.alive = s.alive /\ r.notify = s.notify /\ r.waitFor = s.waitFor
      /\ r.state = s.state /\ r.vm = s.vm /\ r.timed = s.timed /\ r.dirty = s.dirty
  BY <1>1 DEF Data
<1>8. Registered(r)
  <2> SUFFICES ASSUME NEW x \in Threads, NEW l \in Listeners, NEW n \in AnyName
               PROVE  <<n, l>> \in r.waitFor[x] <=> \E k \in DOMAIN r.notify[l] : r.notify[l][k] = <<n, x>>
    BY DEF Registered
  <2>1. <<n, l>> \in s.waitFor[x] <=> \E k \in DOMAIN s.notify[l] : s.notify[l][k] = <<n, x>>
    BY DEF Good, Lists, Registered
  <2> QED
    BY <2>1, <1>7
<1>9. Living(r)
  BY <1>5, <1>7 DEF Good, Lists, Living
<1>10. TimerAgrees(r)
  BY <1>4, <1>7 DEF Good, Lists, TimerAgrees
<1>11. TimerDirty(r)
  <2> SUFFICES ASSUME NEW k \in DOMAIN s.timer, timer[k].time <= s.inttime - 1 PROVE s.dirty
    BY <1>4, <1>7 DEF TimerDirty
  <2>1. s.timer[k].time <= s.inttime
    BY <1>2, <1>4
  <2> QED
    BY <2>1 DEF Good, Lists, TimerDirty
<1>12. Parents(r) /\ Suspended(r, Threads)
  BY <1>7 DEF Good, Lists, Parents, Suspended
<1>13. ASSUME NEW T \in SUBSET Threads, Timeouts(s, T) PROVE Timeouts(r, T)
  BY <1>5, <1>7, <1>13 DEF Timeouts
<1> QED
  BY <1>6, <1>8, <1>9, <1>10, <1>11, <1>12, <1>13 DEF Keeps, Good, Lists, r

LEMMA SetTimeKeeps ==
    ASSUME NEW s \in Data, Good(s)
    PROVE  Keeps(SetTime(s), s)
<1> DEFINE r == SetTime(s)
<1>1. r = [s EXCEPT !.inttime = s.level, !.dirty = TRUE]
  BY DEF SetTime
<1> HIDE DEF r
<1>2. r \in Data
  BY <1>1 DEF Data
<1>3. /\ r.timer = s.timer /\ r.timeouts = s.timeouts /\ r.dirty = TRUE
      /\ r.alive = s.alive /\ r.notify = s.notify /\ r.waitFor = s.waitFor
      /\ r.state = s.state /\ r.vm = s.vm /\ r.timed = s.timed
  BY <1>1 DEF Data
<1>4. Registered(r)
  <2> SUFFICES ASSUME NEW x \in Threads, NEW l \in Listeners, NEW n \in AnyName
               PROVE  <<n, l>> \in r.waitFor[x] <=> \E k \in DOMAIN r.notify[l] : r.notify[l][k] = <<n, x>>
    BY DEF Registered
  <2>1. <<n, l>> \in s.waitFor[x] <=> \E k \in DOMAIN s.notify[l] : s.notify[l][k] = <<n, x>>
    BY DEF Good, Lists, Registered
  <2> QED
    BY <2>1, <1>3
<1>5. Living(r) /\ TimerAgrees(r) /\ TimerDirty(r) /\ Parents(r) /\ Suspended(r, Threads)
  BY <1>3 DEF Good, Lists, Living, TimerAgrees, TimerDirty, Parents, Suspended
<1>6. \A T \in SUBSET Threads : Timeouts(s, T) => Timeouts(r, T)
  BY <1>3 DEF Timeouts
<1> QED
  BY <1>2, <1>4, <1>5, <1>6 DEF Keeps, Good, Lists, r

LEMMA ListsAfterFrame == ListInv /\ Frame => ListInv'
<1> SUFFICES ASSUME ListInv, Frame PROVE ListInv'
  OBVIOUS
<1>1. Quiet
  BY DEF Frame, NewFrame, Pause, Unpause
<1>2. stack = <<>> /\ d \in Data /\ Good(d) /\ <<>> \in Seq(Frames) /\ SameWakes(<<>>, <<>>)
  BY <1>1, QuietFacts DEF Quiet
<1>3. CASE NewFrame
  <2>1. Keeps(Later(d), d)
    BY <1>2, LaterKeeps
  <2> QED
    BY <1>2, <1>3, <2>1, QuietStep DEF NewFrame
<1>4. CASE Pause
  <2>1. Keeps(SetTime(d), d)
    BY <1>2, SetTimeKeeps
  <2> QED
    BY <1>2, <1>4, <2>1, QuietStep DEF Pause
<1>5. CASE Unpause
  <2>1. d' = d /\ stack' = <<ExecuteRunning>> /\ Keeps(d, d)
    BY <1>2, <1>5, KeepsSelf DEF Unpause
  <2>2. ExecuteRunning \in Frames /\ ExecuteRunning.kind # "wake"
    BY DEF ExecuteRunning, Frames, None
  <2>3. SameWakes(Append(<<>>, ExecuteRunning), <<>>)
    BY <1>2, <2>2, Pushed
  <2> QED
    BY <1>2, <2>1, <2>3, QuietStep
<1> QED
  BY <1>3, <1>4, <1>5 DEF Frame

LEMMA NextListInv == ListInv /\ [Next]_vars => ListInv'
<1> SUFFICES ASSUME ListInv, [Next]_vars PROVE ListInv'
  OBVIOUS
<1>1. CASE UNCHANGED vars
  BY <1>1 DEF vars, ListInv
<1>2. CASE Command \/ WaitMove
  BY <1>2, ListsAfterCommand
<1>3. CASE Calls
  BY <1>3, ListsAfterReturn, ListsAfterStopped, ListsAfterAllTold, ListsAfterRunNext,
     ListsAfterRunningEnds DEF Calls
<1>4. CASE Game
  BY <1>4, ListsAfterGame
<1>5. CASE Frame
  BY <1>5, ListsAfterFrame
<1> QED
  BY <1>1, <1>2, <1>3, <1>4, <1>5 DEF Next

LEMMA InitListInv == Init => ListInv
<1> SUFFICES ASSUME Init PROVE Holds(d, stack)
  BY DEF ListInv
<1>1. stack = <<>> /\ stack \in Seq(Frames)
  BY DEF Init
<1>2. /\ d.alive = Objects /\ d.vm = [t \in Threads |-> "none"]
      /\ d.state = [t \in Threads |-> "RUNNING"] /\ d.notify = [l \in Listeners |-> <<>>]
      /\ d.waitFor = [t \in Threads |-> {}] /\ d.timer = <<>> /\ d.timeouts = {}
  BY DEF Init
<1>3. d \in Data
  <2>1. d.notify \in [Listeners -> Seq(Entry)] /\ d.timer \in Seq(Elements(Threads))
    <3>1. <<>> \in Seq(Entry) /\ <<>> \in Seq(Elements(Threads))
      OBVIOUS
    <3> QED
      BY <1>2, <3>1
  <2> QED
    BY <2>1 DEF Init, Data, VMStates, States, Listeners
<1>4. Registered(d) /\ Living(d) /\ TimerAgrees(d) /\ TimerDirty(d) /\ Suspended(d, Threads)
  <2>1. DOMAIN <<>> = {}
    OBVIOUS
  <2> QED
    BY <1>2, <2>1 DEF Registered, Living, TimerAgrees, TimerDirty, Suspended
<1>5. Parents(d)
  BY <1>2 DEF Parents
<1>6. Timeouts(d, Telling(stack)) /\ Moves(d, stack)
  BY <1>1, <1>2 DEF Timeouts, Moves
<1> QED
  BY <1>1, <1>3, <1>4, <1>5, <1>6 DEF Holds, Good, Lists

-----------------------------------------------------------------------------
(* The theorems.                                                           *)

LEMMA LivingImplied == ListInv => OnlyLivingThreads
<1> SUFFICES ASSUME ListInv PROVE OnlyLivingThreads
  OBVIOUS
<1>1. d \in Data /\ Living(d) /\ TimerAgrees(d) /\ Registered(d)
  BY DEF ListInv, Holds, Good, Lists
<1>2. ASSUME NEW t \in Threads \ d.alive
      PROVE  InTimer(t) = {} /\ d.waitFor[t] = {} /\ d.notify[t] = <<>>
  <2>1. d.waitFor[t] = {} /\ d.notify[t] = <<>> /\ d.state[t] # "WAITING"
    BY <1>1 DEF Living, Listeners
  <2> QED
    BY <2>1, <1>1 DEF InTimer, TimerAgrees
<1>3. \A e \in d.timeouts : e.thread \notin Threads \ d.alive
  BY <1>1 DEF Living
<1>4. ASSUME NEW l \in Listeners, NEW k \in DOMAIN d.notify[l]
      PROVE  d.notify[l][k][2] \notin Threads \ d.alive
  <2>1. d.notify[l] \in Seq(Entry)
    BY <1>1 DEF Data
  <2>2. d.notify[l][k] \in Entry
    BY <2>1
  <2>3. PICK n \in AnyName, t \in Threads : d.notify[l][k] = <<n, t>>
    BY <2>2 DEF Entry, Entries
  <2>4. <<n, l>> \in d.waitFor[t]
    BY <1>1, <2>3 DEF Registered
  <2> QED
    BY <1>1, <2>3, <2>4 DEF Living
<1> QED
  BY <1>2, <1>3, <1>4 DEF OnlyLivingThreads

LEMMA DirtyImplied == ListInv => DueIsDirty
BY DEF ListInv, Holds, Good, Lists, TimerDirty, DueIsDirty, Due

LEMMA TimeoutImplied == ListInv => TimeoutOfThisWait
<1> SUFFICES ASSUME ListInv, NEW e \in d.timeouts
             PROVE  \/ Told(e.thread) # {}
                    \/ /\ e.thread \in d.timed
                       /\ d.state[e.thread] = "SUSPENDED" /\ d.waitFor[e.thread] # {}
  BY DEF TimeoutOfThisWait
<1>1. Timeouts(d, Telling(stack))
  BY DEF ListInv, Holds
<1>2. e.thread \in Telling(stack) => Told(e.thread) # {}
  BY DEF Telling, Told
<1> QED
  BY <1>1, <1>2 DEF Timeouts

\* No list, event or timer keeps a reference to a deleted thread, whose memory
\* ~ScriptThread has given back: StoppedListener, CancelEventsOfType and
\* con_timer::RemoveElement have taken them all out, in whatever order scripts
\* wait, announce and delete.
THEOREM ReferencesAreAlive == Spec => []OnlyLivingThreads
<1> QED
  BY InitListInv, NextListInv, LivingImplied, PTL DEF Spec

\* A thread whose time has come is in a list that is marked dirty, so that
\* ExecuteRunning, which does nothing otherwise, looks at it.
THEOREM DueThreadsAreSeen == Spec => []DueIsDirty
<1> QED
  BY InitListInv, NextListInv, DirtyImplied, PTL DEF Spec

\* The CancelWaiting event of a waittill_timeout ends the wait it was posted for:
\* when that wait is over in another way, the event has been taken back before the
\* thread can wait again.
THEOREM TimeoutEndsItsWait == Spec => []TimeoutOfThisWait
<1> QED
  BY InitListInv, NextListInv, TimeoutImplied, PTL DEF Spec
-----------------------------------------------------------------------------
(* No thread is forgotten: what an operation leaves of the threads it is   *)
(* not about.                                                              *)

\* x runs in r if it ran in s, and waits if it did, unless it is in the timer now.
Undisturbed(r, s, x) ==
    x \in r.alive =>
        /\ x \in s.alive /\ r.vm[x] = s.vm[x]
        /\ r.state[x] = "RUNNING" => s.state[x] = "RUNNING"
        /\ s.state[x] = "RUNNING" => r.state[x] = "RUNNING"
        /\ r.waitFor[x] \subseteq s.waitFor[x]
        /\ r.state[x] = "SUSPENDED" /\ r.waitFor[x] = {} =>
             s.state[x] = "SUSPENDED" /\ s.waitFor[x] = {}

LEMMA UndisturbedAgain ==
    ASSUME NEW s, NEW p, NEW r, NEW x, Undisturbed(p, s, x), Undisturbed(r, p, x)
    PROVE  Undisturbed(r, s, x)
BY DEF Undisturbed

LEMMA UndisturbedSame ==
    ASSUME NEW s, NEW r, NEW x, r.alive = s.alive, r.vm[x] = s.vm[x],
           r.state[x] = s.state[x], r.waitFor[x] = s.waitFor[x]
    PROVE  Undisturbed(r, s, x)
BY DEF Undisturbed

\* Who waited only for what is deleted is in the timer.
LEMMA DeletedUndisturbed ==
    ASSUME NEW s, NEW r, NEW gone, Deleted(r, s, gone), NEW x \in Threads
    PROVE  Undisturbed(r, s, x)
<1> SUFFICES ASSUME x \in r.alive
             PROVE  /\ x \in s.alive /\ r.vm[x] = s.vm[x]
                    /\ r.state[x] = "RUNNING" => s.state[x] = "RUNNING"
                    /\ s.state[x] = "RUNNING" => r.state[x] = "RUNNING"
                    /\ r.waitFor[x] \subseteq s.waitFor[x]
                    /\ r.state[x] = "SUSPENDED" /\ r.waitFor[x] = {} =>
                         s.state[x] = "SUSPENDED" /\ s.waitFor[x] = {}
  BY DEF Undisturbed
<1>1. x \in s.alive /\ x \notin gone
  BY DEF Deleted, Without
<1>2. r.vm[x] = s.vm[x] /\ r.waitFor[x] = {w \in s.waitFor[x] : w[2] \notin gone}
  BY <1>1 DEF Deleted, Without
<1>3. r.state[x] = IF x \in FreedThreads(s, gone) /\ s.state[x] = "SUSPENDED" THEN "WAITING" ELSE s.state[x]
  BY <1>1 DEF Deleted
<1>4. ASSUME r.state[x] = "SUSPENDED", r.waitFor[x] = {}
      PROVE  s.state[x] = "SUSPENDED" /\ s.waitFor[x] = {}
  <2>1. s.state[x] = "SUSPENDED" /\ x \notin FreedThreads(s, gone)
    BY <1>3, <1>4
  <2>2. \A w \in s.waitFor[x] : w[2] \in gone
    BY <1>2, <1>4
  <2> QED
    BY <2>1, <2>2, <1>1 DEF FreedThreads
<1> QED
  BY <1>1, <1>2, <1>3, <1>4

LEMMA DeleteUndisturbed ==
    ASSUME NEW s \in Data, Lists(s), NEW first \in SUBSET Listeners, NEW x \in Threads
    PROVE  Undisturbed(Delete(s, first), s, x)
<1>1. Deleted(Delete(s, first), s, Doomed(s, first))
  BY DeleteLists
<1> QED
  BY <1>1, DeletedUndisturbed

LEMMA StoppedUndisturbed ==
    ASSUME NEW s, NEW r, NEW T, Stops(r, s, T), NEW x \in Threads
    PROVE  Undisturbed(r, s, x)
BY DEF Stops, Undisturbed

LEMMA CancelAllUndisturbed ==
    ASSUME NEW s \in Data, Lists(s), NEW t \in Threads, Suspended(s, Threads \ {t}),
           NEW x \in Threads
    PROVE  Undisturbed(CancelWaitingAll(s, t), s, x)
<1> DEFINE a == [s EXCEPT !.waitFor[t] = {},
                          !.notify = [l \in Listeners |->
                                        Kept(s.notify[l], Entries(AnyName, Threads \ {t}))]]
           b == StoppedWaiting(a, t)
           children == {c \in Threads : <<"0", c>> \in s.waitFor[t] /\ a.notify[c] = <<>>}
           r == CancelWaitingAll(s, t)
<1>1. CASE s.waitFor[t] = {}
  BY <1>1, UndisturbedSame DEF CancelWaitingAll
<1>2. CASE s.waitFor[t] # {}
  <2>1. Alone(a, s, t)
    BY DEF Alone
  <2>2. r = Delete(b, children)
    <3>1. a = [s EXCEPT !.waitFor[t] = {},
                        !.notify = [l \in Listeners |->
                                      Kept(@[l], Entries(AnyName, Threads \ {t}))]]
      BY DEF Data
    <3> QED
      BY <3>1, <1>2 DEF CancelWaitingAll
  <2> HIDE DEF a
  <2>3. Lists(a) /\ IsAlone(a, s, t)
    BY <2>1, AloneFacts, AloneLists
  <2>4. /\ a \in Data /\ a.waitFor[t] = {} /\ \A y \in Threads \ {t} : a.waitFor[y] = s.waitFor[y]
        /\ a.alive = s.alive /\ a.vm = s.vm /\ a.state = s.state
    BY <2>3 DEF IsAlone
  <2>5. Suspended(a, Threads \ {t})
    BY <2>4 DEF Suspended
  <2>6. b \in Data /\ Lists(b) /\ Stops(b, a, {t})
    BY <2>3, <2>4, <2>5, StoppedLists
  <2> HIDE DEF b
  <2>7. Undisturbed(b, s, x)
    <3>1. b.alive = s.alive /\ b.vm[x] = s.vm[x] /\ b.waitFor[x] \subseteq s.waitFor[x]
      BY <2>4, <2>6 DEF Stops
    <3>2. b.state[x] = IF x = t /\ s.state[x] = "SUSPENDED" THEN "WAITING" ELSE s.state[x]
      BY <2>4, <2>6 DEF Stops
    <3>3. CASE x = t
      BY <3>1, <3>2, <3>3 DEF Undisturbed
    <3>4. CASE x # t
      <4>1. b.waitFor[x] = s.waitFor[x]
        BY <3>4, <2>4, <2>6 DEF Stops
      <4> QED
        BY <3>1, <3>2, <3>4, <4>1, UndisturbedSame
    <3> QED
      BY <3>3, <3>4
  <2>8. children \in SUBSET Listeners
    BY DEF Listeners
  <2> HIDE DEF children, r
  <2>9. Undisturbed(Delete(b, children), b, x)
    BY <2>6, <2>8, DeleteUndisturbed
  <2>10. Undisturbed(r, s, x)
    BY <2>2, <2>7, <2>9, UndisturbedAgain
  <2> QED
    BY <2>10 DEF r
<1> QED
  BY <1>1, <1>2

LEMMA StopUndisturbed ==
    ASSUME NEW s \in Data, Good(s), NEW t \in Threads
    PROVE  LET r == Stop(s, t)
           IN  /\ \A x \in Threads \ {t} : Undisturbed(r, s, x)
               /\ t \in r.alive => t \in s.alive /\ r.vm[t] = s.vm[t]
<1> DEFINE r == Stop(s, t)
<1>1. CASE s.state[t] = "WAITING"
  <2> DEFINE K == Kept(s.timer, Elements(Threads \ {t}))
             state == [s.state EXCEPT ![t] = "RUNNING"]
  <2>1. r = [s EXCEPT !.state = state, !.timer = K]
    BY <1>1 DEF Stop, Data
  <2>2. \A x \in Threads \ {t} : state[x] = s.state[x]
    BY DEF Data
  <2> HIDE DEF K, state, r
  <2>3. r.alive = s.alive /\ r.vm = s.vm /\ r.waitFor = s.waitFor /\ r.state = state
    BY <2>1 DEF Data
  <2>4. \A x \in Threads \ {t} : Undisturbed(r, s, x)
    BY <2>2, <2>3, UndisturbedSame
  <2> QED
    BY <2>3, <2>4 DEF r
<1>2. CASE s.state[t] = "SUSPENDED"
  <2> DEFINE b == [s EXCEPT !.state[t] = "RUNNING"]
  <2>1. r = CancelWaitingAll(b, t)
    BY <1>2 DEF Stop
  <2>2. b \in Data /\ Lists(b)
    BY <1>2, StateChange DEF Good
  <2>3. /\ b.waitFor = s.waitFor /\ b.alive = s.alive /\ b.vm = s.vm
        /\ \A x \in Threads \ {t} : b.state[x] = s.state[x]
    BY DEF Data
  <2> HIDE DEF b, r
  <2>4. Suspended(b, Threads \ {t})
    BY <2>3 DEF Good, Suspended
  <2>5. \A x \in Threads : Undisturbed(r, b, x)
    BY <2>1, <2>2, <2>4, CancelAllUndisturbed
  <2>6. \A x \in Threads \ {t} : Undisturbed(b, s, x)
    BY <2>3, UndisturbedSame
  <2>7. \A x \in Threads \ {t} : Undisturbed(r, s, x)
    BY <2>5, <2>6, UndisturbedAgain
  <2>8. t \in r.alive => t \in s.alive /\ r.vm[t] = s.vm[t]
    BY <2>3, <2>5 DEF Undisturbed
  <2> QED
    BY <2>7, <2>8 DEF r
<1>3. CASE s.state[t] = "RUNNING"
  <2>1. r = s
    BY <1>3 DEF Stop
  <2> HIDE DEF r
  <2>2. \A x \in Threads \ {t} : Undisturbed(r, s, x)
    BY <2>1, UndisturbedSame
  <2> QED
    BY <2>1, <2>2 DEF r
<1> QED
  BY <1>1, <1>2, <1>3 DEF Data, States

\* t has been made to wait, for time or for names.
Sleeps(r, s, t) ==
    /\ \A x \in Threads \ {t} : Undisturbed(r, s, x)
    /\ t \in s.alive
    /\ r.vm[t] = IF s.vm[t] = "RUNNING" THEN "SUSPENDED" ELSE s.vm[t]
    /\ r.state[t] # "RUNNING"
    /\ r.state[t] = "SUSPENDED" => r.waitFor[t] # {}

LEMMA SleepsSame ==
    ASSUME NEW s, NEW p, NEW t, Sleeps(p, s, t), NEW r,
           r.alive = p.alive, r.vm = p.vm, r.state = p.state, r.waitFor = p.waitFor
    PROVE  Sleeps(r, s, t)
BY DEF Sleeps, Undisturbed

LEMMA SuspendVM ==
    ASSUME NEW s \in Data, NEW t \in Threads
    PROVE  LET r == Suspend(s, t)
           IN  /\ r.vm[t] = IF s.vm[t] = "RUNNING" THEN "SUSPENDED" ELSE s.vm[t]
               /\ \A x \in Threads \ {t} : r.vm[x] = s.vm[x]
               /\ r.alive = s.alive /\ r.state = s.state /\ r.waitFor = s.waitFor
<1> DEFINE vm == [s.vm EXCEPT ![t] = IF @ = "RUNNING" THEN "SUSPENDED" ELSE @]
           r == Suspend(s, t)
<1>1. r = [s EXCEPT !.vm = vm]
  BY DEF Suspend, Data
<1>2. /\ vm[t] = IF s.vm[t] = "RUNNING" THEN "SUSPENDED" ELSE s.vm[t]
      /\ \A x \in Threads \ {t} : vm[x] = s.vm[x]
  BY DEF Data
<1> HIDE DEF vm, r
<1> QED
  BY <1>1, <1>2 DEF Data, r

LEMMA WaitSleeps ==
    ASSUME NEW s \in Data, Good(s), NEW t \in Threads, t \in s.alive, NEW delay \in Delays
    PROVE  LET r == Wait(s, t, delay)
           IN  Sleeps(r, s, t) /\ r.waitFor[t] = {}
<1> DEFINE p == Stop(s, t)
           time == s.level + delay
           q == Timed(p, t, time)
           u == Suspend(q, t)
           r == Wait(s, t, delay)
<1>1. r = [u EXCEPT !.asked[t] = {}, !.timed = u.timed \ {t}]
  BY DEF Wait
<1>2. /\ Released(p, s, t) /\ p.state[t] = "RUNNING"
      /\ \A x \in Threads \ {t} : Undisturbed(p, s, x)
      /\ t \in p.alive => p.vm[t] = s.vm[t]
  BY StopFacts, StopUndisturbed
<1>3. p \in Data /\ Good(p) /\ t \in p.alive /\ p.waitFor[t] = {}
  BY <1>2 DEF Released
<1>4. time \in Int
  BY ScriptThreadsAssumption DEF Data
<1> HIDE DEF p, time
<1>5. Keeps(q, p) /\ Waits(q, p, t)
  BY <1>2, <1>3, <1>4, TimedKeeps
<1>6. q \in Data /\ q.waitFor = p.waitFor /\ q.vm = p.vm /\ q.alive = p.alive
      /\ q.state = [p.state EXCEPT ![t] = "WAITING"]
  BY <1>3, <1>5 DEF Keeps, Waits, Data
<1>7. q.state[t] = "WAITING" /\ \A x \in Threads \ {t} : q.state[x] = p.state[x]
  BY <1>3, <1>6 DEF Data
<1> HIDE DEF q
<1>8. /\ u.vm[t] = IF s.vm[t] = "RUNNING" THEN "SUSPENDED" ELSE s.vm[t]
      /\ \A x \in Threads \ {t} : u.vm[x] = p.vm[x]
      /\ u.alive = p.alive /\ u.state = q.state /\ u.waitFor = p.waitFor
  BY <1>2, <1>3, <1>6, SuspendVM
<1>9. u \in Data
  BY <1>6, SuspendAdjusts DEF Adjusts
<1> HIDE DEF u, r
<1>10. r.alive = u.alive /\ r.vm = u.vm /\ r.state = u.state /\ r.waitFor = u.waitFor
  BY <1>1, <1>9 DEF Data
<1>11. ASSUME NEW x \in Threads \ {t} PROVE Undisturbed(u, s, x)
  <2>1. Undisturbed(u, p, x)
    BY <1>7, <1>8, UndisturbedSame
  <2> QED
    BY <2>1, <1>2, UndisturbedAgain
<1>12. Sleeps(u, s, t)
  BY <1>7, <1>8, <1>11 DEF Sleeps
<1> QED
  BY <1>3, <1>8, <1>10, <1>12, SleepsSame DEF r

LEMMA RegisterSleeps ==
    ASSUME NEW s \in Data, Good(s), NEW t \in Threads, t \in s.alive,
           NEW waits \in SUBSET Waited, waits # {}
    PROVE  LET r == Register(s, t, waits)
           IN  Sleeps(r, s, t) /\ r.waitFor[t] = waits
<1> DEFINE p == Stop(s, t)
           b == [p EXCEPT !.state[t] = "SUSPENDED"]
           u == Suspend(b, t)
           waitFor == [u.waitFor EXCEPT ![t] = waits]
           notify == [l \in Listeners |->
                        u.notify[l] \o SetToSeq({<<w[1], t>> : w \in {x \in waits : x[2] = l}})]
           r == Register(s, t, waits)
<1>1. /\ Released(p, s, t)
      /\ \A x \in Threads \ {t} : Undisturbed(p, s, x)
      /\ t \in p.alive => p.vm[t] = s.vm[t]
  BY StopFacts, StopUndisturbed
<1>2. p \in Data /\ t \in p.alive
  BY <1>1 DEF Released
<1>3. r = [u EXCEPT !.waitFor[t] = waits, !.notify = notify]
  BY DEF Register
<1> HIDE DEF p
<1>4. b \in Data /\ b.alive = p.alive /\ b.vm = p.vm /\ b.waitFor = p.waitFor
      /\ b.state[t] = "SUSPENDED" /\ \A x \in Threads \ {t} : b.state[x] = p.state[x]
  BY <1>2 DEF Data, States
<1> HIDE DEF b
<1>5. /\ u.vm[t] = IF s.vm[t] = "RUNNING" THEN "SUSPENDED" ELSE s.vm[t]
      /\ \A x \in Threads \ {t} : u.vm[x] = p.vm[x]
      /\ u.alive = p.alive /\ u.state = b.state /\ u.waitFor = p.waitFor
  BY <1>1, <1>2, <1>4, SuspendVM
<1>6. u \in Data
  BY <1>4, SuspendAdjusts DEF Adjusts
<1> HIDE DEF u, r
<1>7. r = [u EXCEPT !.waitFor = waitFor, !.notify = notify]
  BY <1>3, <1>6 DEF Data
<1>8. waitFor[t] = waits /\ \A x \in Threads \ {t} : waitFor[x] = u.waitFor[x]
  BY <1>6 DEF Data
<1> HIDE DEF waitFor, notify
<1>9. r.alive = u.alive /\ r.vm = u.vm /\ r.state = u.state /\ r.waitFor = waitFor
  BY <1>6, <1>7 DEF Data
<1>10. ASSUME NEW x \in Threads \ {t} PROVE Undisturbed(r, s, x)
  <2>1. Undisturbed(r, p, x)
    BY <1>4, <1>5, <1>8, <1>9, UndisturbedSame
  <2> QED
    BY <2>1, <1>1, UndisturbedAgain
<1>11. Sleeps(r, s, t)
  BY <1>4, <1>5, <1>8, <1>9, <1>10 DEF Sleeps
<1> QED
  BY <1>8, <1>9, <1>11 DEF r

\* A thread that starts does not wait.
Starts(r, s, t) ==
    /\ \A x \in Threads \ {t} : Undisturbed(r, s, x)
    /\ r.vm[t] = "RUNNING" /\ r.state[t] = "RUNNING" /\ r.waitFor[t] = {}

LEMMA StartedStarts ==
    ASSUME NEW s \in Data, Good(s), NEW t \in Threads
    PROVE  Starts(Started(s, t), s, t)
<1> DEFINE p == Stop(s, t)
           r == Started(s, t)
           vm == [p.vm EXCEPT ![t] = "RUNNING"]
<1>1. /\ Released(p, s, t) /\ p.state[t] = "RUNNING"
      /\ \A x \in Threads \ {t} : Undisturbed(p, s, x)
  BY StopFacts, StopUndisturbed
<1>2. p \in Data /\ p.waitFor[t] = {}
  BY <1>1 DEF Released
<1>3. r = [p EXCEPT !.vm[t] = "RUNNING"]
  BY DEF Started
<1> HIDE DEF p, r
<1>4. r = [p EXCEPT !.vm = vm] /\ vm[t] = "RUNNING" /\ \A x \in Threads \ {t} : vm[x] = p.vm[x]
  BY <1>2, <1>3 DEF Data
<1> HIDE DEF vm
<1>5. r.alive = p.alive /\ r.vm = vm /\ r.state = p.state /\ r.waitFor = p.waitFor
  BY <1>2, <1>4 DEF Data
<1>6. ASSUME NEW x \in Threads \ {t} PROVE Undisturbed(r, s, x)
  <2>1. Undisturbed(r, p, x)
    BY <1>4, <1>5, UndisturbedSame
  <2> QED
    BY <2>1, <1>1, UndisturbedAgain
<1> QED
  BY <1>1, <1>2, <1>4, <1>5, <1>6 DEF Starts, r

\* What is left of x when a name is announced that it may have waited for.
Alike(r, s, x) ==
    x \in r.alive =>
        /\ x \in s.alive /\ r.vm[x] = s.vm[x]
        /\ r.state[x] = "RUNNING" => s.state[x] = "RUNNING"
        /\ s.state[x] = "RUNNING" => r.state[x] = "RUNNING"
        /\ r.waitFor[x] \subseteq s.waitFor[x]

\* Who waits for nothing any more is in the list of those that are told.
LEMMA AnnouncedWakes ==
    ASSUME NEW s \in Data, Good(s), NEW o \in Objects, NEW n \in AnyName, NEW x \in Threads
    PROVE  LET r == Announced(s, o, n)
               list == Woken(s, o, n)
           IN  /\ Alike(r, s, x)
               /\ ~InList(x, list) => Undisturbed(r, s, x)
               /\ InList(x, list) => <<n, o>> \in s.waitFor[x]
<1> DEFINE b == Ended(s, o, n)
           q == b.notify[o]
           kept == Kept(q, Entries(AnyName \ {n}, Threads))
           alone == {t \in Threads : b.waitFor[t] = {<<n, o>>}}
           told == Kept(q, Entries({n}, alone))
           waitFor == [t \in Threads |-> b.waitFor[t] \ {<<n, o>>}]
           r == Announced(s, o, n)
           list == Woken(s, o, n)
<1>1. r = [b EXCEPT !.notify[o] = kept, !.waitFor = waitFor]
  BY DEF Announced
<1>2. list = [i \in DOMAIN told |-> told[i][2]]
  BY DEF Woken
<1>3. b \in Data /\ Good(b) /\ o \in Listeners
  BY EndedFacts DEF Keeps, Listeners
<1>4. Undisturbed(b, s, x)
  <2> DEFINE ends == [s.ends EXCEPT ![o] = {e \in s.ends[o] : e[1] # n}]
             c == [s EXCEPT !.ends = ends]
             first == {e[2] : e \in {y \in s.ends[o] : y[1] = n}}
  <2>1. b = Delete(c, first)
    <3>1. c = [s EXCEPT !.ends[o] = {e \in @ : e[1] # n}]
      BY DEF Data
    <3> QED
      BY <3>1 DEF Ended
  <2>2. ends \in [Objects -> SUBSET (Names \X Threads)]
    BY DEF Data
  <2>3. first \in SUBSET Listeners
    BY DEF Data, Listeners
  <2> HIDE DEF ends, first, b
  <2>4. c \in Data
    BY <2>2 DEF Data
  <2>5. /\ c.alive = s.alive /\ c.vm = s.vm /\ c.notify = s.notify /\ c.waitFor = s.waitFor
        /\ c.timer = s.timer /\ c.inttime = s.inttime /\ c.dirty = s.dirty
        /\ c.timeouts = s.timeouts /\ c.state = s.state
    BY DEF Data
  <2> HIDE DEF c
  <2>6. SameLists(c, s)
    <3>1. \A y \in Threads \ c.alive : c.vm[y] # "RUNNING" /\ c.state[y] = "RUNNING"
      BY <2>5 DEF Good, Lists, Living
    <3> QED
      BY <3>1, <2>5 DEF SameLists
  <2>7. Lists(c)
    BY <2>6, ListsSame DEF Good
  <2>8. Undisturbed(b, c, x)
    BY <2>1, <2>3, <2>4, <2>7, DeleteUndisturbed
  <2>9. Undisturbed(c, s, x)
    BY <2>5, UndisturbedSame
  <2> QED
    BY <2>8, <2>9, UndisturbedAgain
<1> HIDE DEF b
<1>5. q \in Seq(Entry)
  BY <1>3 DEF Data
<1>6. Filtered(told, q, Entries({n}, alone), Entry)
  <2> HIDE DEF q, alone
  <2> QED
    BY <1>5, KeptElements, KeptSeq
<1> HIDE DEF kept, told, q, r, list
<1>7. /\ r.waitFor = waitFor /\ r.alive = b.alive /\ r.vm = b.vm /\ r.state = b.state
      /\ waitFor[x] = b.waitFor[x] \ {<<n, o>>}
  BY <1>1, <1>3 DEF Data
<1> HIDE DEF waitFor
<1>8. Alike(r, s, x)
  BY <1>4, <1>7 DEF Undisturbed, Alike
<1>9. ASSUME InList(x, list) PROVE <<n, o>> \in s.waitFor[x]
  <2>1. PICK k \in DOMAIN told : told[k][2] = x
    BY <1>2, <1>9 DEF InList
  <2>2. told[k] \in Entries({n}, alone)
    BY <1>6 DEF Filtered
  <2>3. b.waitFor[x] = {<<n, o>>}
    BY <2>1, <2>2 DEF Entries
  <2>4. x \in b.alive
    BY <2>3, <1>3 DEF Good, Lists, Living
  <2> QED
    BY <2>3, <2>4, <1>4 DEF Undisturbed
<1>10. ASSUME ~InList(x, list) PROVE Undisturbed(r, s, x)
  <2>1. b.waitFor[x] # {<<n, o>>}
    <3> SUFFICES ASSUME b.waitFor[x] = {<<n, o>>} PROVE FALSE
      OBVIOUS
    <3>1. \E k \in DOMAIN q : q[k] = <<n, x>>
      BY <1>3 DEF Good, Lists, Registered, q
    <3>2. <<n, x>> \in Entries({n}, alone)
      BY DEF Entries
    <3>3. PICK k \in DOMAIN told : told[k] = <<n, x>>
      BY <3>1, <3>2, <1>6 DEF Filtered
    <3>4. list[k] = x /\ k \in DOMAIN list
      BY <3>3, <1>2
    <3> QED
      BY <3>4, <1>10 DEF InList
  <2>2. r.waitFor[x] = {} => b.waitFor[x] = {}
    BY <2>1, <1>7
  <2> QED
    BY <2>2, <1>4, <1>7 DEF Undisturbed
<1> QED
  BY <1>8, <1>9, <1>10 DEF r, list

-----------------------------------------------------------------------------
(* Where threads are on the stack.                                         *)

IsRun(f, t) == f.kind = "vm" /\ f.thread = t
On(st, t) == \E i \in DOMAIN st : IsRun(st[i], t)
Below(st, t) == \E i \in DOMAIN st : i # Len(st) /\ IsRun(st[i], t)

\* No thread is run twice.
Single(st) == \A t \in Threads : \A i, j \in DOMAIN st : IsRun(st[i], t) /\ IsRun(st[j], t) => i = j

\* Nobody is told, or run by ExecuteRunning, whose run is under way further out.
Ordered(st) ==
    \A i, j \in DOMAIN st : j < i /\ st[j].kind = "vm" =>
        /\ st[i].kind = "wake" => st[j].thread \notin Range(st[i].list)
        /\ st[i].kind = "running" => st[i].start = None

\* The frame f may be put onto the stack st.
MayFollow(f, st) ==
    /\ \A x \in Threads : IsRun(f, x) => ~On(st, x)
    /\ f.kind = "wake" => \A x \in Range(f.list) : ~On(st, x)
    /\ f.kind = "running" => f.start = None \/ \A x \in Threads : ~On(st, x)

LEMMA PushedPlaces ==
    ASSUME NEW st \in Seq(Frames), NEW f \in Frames
    PROVE  LET u == Append(st, f)
           IN  /\ u \in Seq(Frames)
               /\ \A x : On(st, x) => On(u, x)
               /\ \A x : IsRun(f, x) => On(u, x)
               /\ \A x : On(u, x) => On(st, x) \/ IsRun(f, x)
               /\ \A x : Below(u, x) => On(st, x)
               /\ Telling(st) \subseteq Telling(u)
               /\ f.kind = "wake" => \A x \in Threads : InList(x, f.list) => x \in Telling(u)
               /\ Single(st) /\ MayFollow(f, st) => Single(u)
               /\ Ordered(st) /\ MayFollow(f, st) => Ordered(u)
<1> DEFINE u == Append(st, f)
           n == Len(st)
<1>1. n \in Nat /\ DOMAIN st = 1 .. n
  OBVIOUS
<1>2. u \in Seq(Frames) /\ Len(u) = n + 1 /\ DOMAIN u = 1 .. n + 1
      /\ u[n + 1] = f /\ \A i \in 1 .. n : u[i] = st[i]
  OBVIOUS
<1> HIDE DEF u, n
<1>3. \A i \in 1 .. n + 1 : i = n + 1 \/ i \in 1 .. n
  BY <1>1
<1>4. (\A i \in 1 .. n : i \in 1 .. n + 1 /\ i # n + 1) /\ n + 1 \in 1 .. n + 1
  BY <1>1
<1>5. \A x : On(st, x) => On(u, x)
  BY <1>1, <1>2, <1>4 DEF On
<1>6. \A x : IsRun(f, x) => On(u, x)
  BY <1>2, <1>4 DEF On
<1>7. \A x : On(u, x) => On(st, x) \/ IsRun(f, x)
  BY <1>1, <1>2, <1>3 DEF On
<1>8. \A x : Below(u, x) => On(st, x)
  BY <1>1, <1>2, <1>3 DEF On, Below
<1>9. Telling(st) \subseteq Telling(u)
  BY <1>1, <1>2, <1>4 DEF Telling
<1>10. f.kind = "wake" => \A x \in Threads : InList(x, f.list) => x \in Telling(u)
  BY <1>2, <1>4 DEF Telling, InList, Range
<1>11. ASSUME Single(st), MayFollow(f, st) PROVE Single(u)
  <2> SUFFICES ASSUME NEW t \in Threads, NEW i \in 1 .. n + 1, NEW j \in 1 .. n + 1,
                      IsRun(u[i], t), IsRun(u[j], t)
               PROVE  i = j
    BY <1>2 DEF Single
  <2>1. ASSUME NEW k \in 1 .. n, IsRun(u[k], t) PROVE ~IsRun(f, t)
    <3>1. On(st, t)
      BY <1>1, <1>2, <2>1 DEF On
    <3> QED
      BY <3>1, <1>11 DEF MayFollow
  <2>2. CASE i \in 1 .. n /\ j \in 1 .. n
    BY <2>2, <1>1, <1>2, <1>11 DEF Single
  <2>3. CASE i = n + 1 /\ j = n + 1
    BY <2>3
  <2>4. CASE i = n + 1 /\ j \in 1 .. n
    BY <2>1, <2>4, <1>2
  <2>5. CASE i \in 1 .. n /\ j = n + 1
    BY <2>1, <2>5, <1>2
  <2> QED
    BY <2>2, <2>3, <2>4, <2>5, <1>3
<1>12. ASSUME Ordered(st), MayFollow(f, st) PROVE Ordered(u)
  <2> SUFFICES ASSUME NEW i \in 1 .. n + 1, NEW j \in 1 .. n + 1, j < i, u[j].kind = "vm"
               PROVE  /\ u[i].kind = "wake" => u[j].thread \notin Range(u[i].list)
                      /\ u[i].kind = "running" => u[i].start = None
    BY <1>2 DEF Ordered
  <2>1. j \in 1 .. n
    BY <1>1
  <2>2. u[j] = st[j]
    BY <2>1, <1>2
  <2>3. CASE i \in 1 .. n
    BY <2>1, <2>2, <2>3, <1>1, <1>2, <1>12 DEF Ordered
  <2>4. CASE i = n + 1
    <3>1. IsRun(st[j], st[j].thread)
      BY <2>2 DEF IsRun
    <3>2. On(st, st[j].thread)
      BY <3>1, <2>1, <1>1 DEF On
    <3>3. st[j] \in Frames
      BY <2>1, <1>1
    <3>4. st[j].thread \in Threads
      BY <3>3, <2>2 DEF Frames
    <3> QED
      BY <3>2, <3>4, <2>2, <2>4, <1>2, <1>12 DEF MayFollow
  <2> QED
    BY <2>3, <2>4, <1>3
<1> QED
  BY <1>2, <1>5, <1>6, <1>7, <1>8, <1>9, <1>10, <1>11, <1>12 DEF u

LEMMA PoppedPlaces ==
    ASSUME NEW st \in Seq(Frames), st # <<>>
    PROVE  LET u == Front(st)
           IN  /\ u \in Seq(Frames)
               /\ \A x : On(u, x) => Below(st, x)
               /\ \A x : Below(st, x) => On(u, x)
               /\ \A x : Below(u, x) => Below(st, x)
               /\ Last(st).kind # "wake" \/ Last(st).list = <<>> => Telling(st) \subseteq Telling(u)
               /\ Single(st) => Single(u)
               /\ Ordered(st) => Ordered(u)
<1> DEFINE u == Front(st)
           n == Len(st)
           m == n - 1
<1>1. n \in Nat /\ n > 0 /\ DOMAIN st = 1 .. n /\ Last(st) = st[n]
  BY DEF Last
<1>2. u \in Seq(Frames) /\ DOMAIN u = 1 .. m /\ Len(u) = m /\ \A i \in 1 .. m : u[i] = st[i]
  BY <1>1 DEF Front
<1>3. n = Len(st)
  OBVIOUS
<1> HIDE DEF u, n
<1>4. (\A i \in 1 .. m : i \in 1 .. n /\ i # n) /\ (\A i \in 1 .. n : i # n => i \in 1 .. m)
  BY <1>1
<1> HIDE DEF m
<1>5. \A x : On(u, x) => Below(st, x)
  BY <1>1, <1>2, <1>3, <1>4 DEF On, Below
<1>6. \A x : Below(st, x) => On(u, x)
  BY <1>1, <1>2, <1>3, <1>4 DEF On, Below
<1>7. \A x : Below(u, x) => Below(st, x)
  BY <1>1, <1>2, <1>3, <1>4 DEF Below
<1>8. ASSUME Last(st).kind # "wake" \/ Last(st).list = <<>>, NEW x \in Telling(st)
      PROVE  x \in Telling(u)
  <2>1. PICK j \in 1 .. n : st[j].kind = "wake" /\ x \in Range(st[j].list) /\ x \in Threads
    BY <1>1 DEF Telling
  <2>2. j # n
    <3> SUFFICES ASSUME j = n PROVE FALSE
      OBVIOUS
    <3>1. st[j].list = <<>>
      BY <2>1, <1>1, <1>8
    <3>2. Range(<<>>) = {}
      BY DEF Range
    <3> QED
      BY <2>1, <3>1, <3>2
  <2>3. j \in DOMAIN u /\ u[j] = st[j]
    BY <2>2, <1>2, <1>4
  <2> QED
    BY <2>1, <2>3 DEF Telling
<1>9. Single(st) => Single(u)
  BY <1>1, <1>2, <1>4 DEF Single
<1>10. Ordered(st) => Ordered(u)
  BY <1>1, <1>2, <1>4 DEF Ordered
<1> QED
  BY <1>2, <1>5, <1>6, <1>7, <1>8, <1>9, <1>10 DEF u

\* The frame f may take the place of the innermost one.
MayReplace(f, st) ==
    /\ \A x : IsRun(f, x) => IsRun(Last(st), x)
    /\ \A x : IsRun(Last(st), x) => IsRun(f, x)
    /\ f.kind = "wake" => Last(st).kind = "wake" /\ Range(f.list) \subseteq Range(Last(st).list)
    /\ f.kind = "running" => f.start = None \/ \A x \in Threads : ~On(st, x)

LEMMA ReplacedPlaces ==
    ASSUME NEW st \in Seq(Frames), st # <<>>, NEW f \in Frames, MayReplace(f, st)
    PROVE  LET u == [st EXCEPT ![Len(st)] = f]
           IN  /\ u \in Seq(Frames)
               /\ \A x : On(u, x) => On(st, x)
               /\ \A x : On(st, x) => On(u, x)
               /\ \A x : Below(u, x) => Below(st, x)
               /\ Last(st).kind # "wake" => Telling(st) \subseteq Telling(u)
               /\ Last(st).kind = "wake" /\ f.kind = "wake" =>
                    \A x \in Telling(st) : x \in Telling(u)
                                           \/ x \in Range(Last(st).list) \ Range(f.list)
               /\ Single(st) => Single(u)
               /\ Ordered(st) => Ordered(u)
<1> DEFINE u == [st EXCEPT ![Len(st)] = f]
           n == Len(st)
<1>1. n \in Nat /\ n > 0 /\ DOMAIN st = 1 .. n /\ Last(st) = st[n] /\ n \in 1 .. n
  BY DEF Last
<1>2. u \in Seq(Frames) /\ DOMAIN u = 1 .. n /\ u[n] = f /\ \A i \in 1 .. n : i # n => u[i] = st[i]
  <2>1. st \in [1 .. n -> Frames] /\ u = [st EXCEPT ![n] = f]
    BY <1>1
  <2> HIDE DEF Frames, u, n
  <2>2. u \in [1 .. n -> Frames] /\ u[n] = f /\ \A i \in 1 .. n : i # n => u[i] = st[i]
    BY <1>1, <2>1
  <2> QED
    BY <1>1, <2>2
<1> HIDE DEF u, n
<1>3. Len(u) = n
  BY <1>1, <1>2
<1>4. \A i \in 1 .. n : \A x : IsRun(u[i], x) => IsRun(st[i], x)
  BY <1>1, <1>2 DEF MayReplace
<1>5. \A i \in 1 .. n : \A x : IsRun(st[i], x) => IsRun(u[i], x)
  BY <1>1, <1>2 DEF MayReplace
<1>6. (\A x : On(u, x) => On(st, x)) /\ (\A x : On(st, x) => On(u, x))
  BY <1>1, <1>2, <1>4, <1>5 DEF On
<1>7. \A x : Below(u, x) => Below(st, x)
  BY <1>1, <1>2, <1>3, <1>4 DEF Below, n
<1>8. Single(st) => Single(u)
  BY <1>1, <1>2, <1>4 DEF Single
<1>9. ASSUME Ordered(st) PROVE Ordered(u)
  <2> SUFFICES ASSUME NEW i \in 1 .. n, NEW j \in 1 .. n, j < i, u[j].kind = "vm"
               PROVE  /\ u[i].kind = "wake" => u[j].thread \notin Range(u[i].list)
                      /\ u[i].kind = "running" => u[i].start = None
    BY <1>2 DEF Ordered
  <2>1. j # n /\ u[j] = st[j]
    BY <1>1, <1>2
  <2>2. CASE i # n
    BY <2>1, <2>2, <1>1, <1>2, <1>9 DEF Ordered
  <2>3. CASE i = n
    <3>1. st[j] \in Frames
      BY <1>1
    <3>2. st[j].thread \in Threads
      BY <3>1, <2>1 DEF Frames
    <3>3. On(st, st[j].thread)
      BY <2>1, <1>1 DEF On, IsRun
    <3>4. st[n].kind = "wake" => st[j].thread \notin Range(st[n].list)
      BY <2>1, <2>3, <1>1, <1>9 DEF Ordered
    <3> QED
      BY <3>2, <3>3, <3>4, <2>1, <2>3, <1>1, <1>2 DEF MayReplace
  <2> QED
    BY <2>2, <2>3
<1>10. ASSUME Last(st).kind # "wake" PROVE Telling(st) \subseteq Telling(u)
  BY <1>1, <1>2, <1>10 DEF Telling
<1>11. ASSUME Last(st).kind = "wake", f.kind = "wake", NEW x \in Telling(st), x \notin Telling(u)
       PROVE  x \in Range(Last(st).list) \ Range(f.list)
  <2>1. PICK i \in 1 .. n : st[i].kind = "wake" /\ x \in Range(st[i].list)
    BY <1>1 DEF Telling
  <2>2. x \in Threads
    BY DEF Telling
  <2>3. ASSUME i # n PROVE FALSE
    BY <2>1, <2>2, <2>3, <1>2, <1>11 DEF Telling
  <2>4. x \notin Range(f.list)
    BY <2>2, <1>1, <1>2, <1>11 DEF Telling
  <2> QED
    BY <2>1, <2>3, <2>4, <1>1
<1> QED
  BY <1>2, <1>6, <1>7, <1>8, <1>9, <1>10, <1>11 DEF u


LEMMA TopOrBelow ==
    ASSUME NEW st \in Seq(Frames), st # <<>>
    PROVE  /\ \A x : On(st, x) => Below(st, x) \/ IsRun(Last(st), x)
           /\ \A x : IsRun(Last(st), x) => On(st, x)
           /\ \A x : Below(st, x) => On(st, x)
           /\ Single(st) => \A x \in Threads : IsRun(Last(st), x) => ~Below(st, x)
<1> DEFINE n == Len(st)
<1>1. n \in DOMAIN st /\ Last(st) = st[n]
  BY DEF Last
<1>2. n = Len(st)
  OBVIOUS
<1> HIDE DEF n
<1>3. ASSUME Single(st), NEW x \in Threads, IsRun(Last(st), x), Below(st, x) PROVE FALSE
  <2>1. PICK i \in DOMAIN st : i # n /\ IsRun(st[i], x)
    BY <1>2, <1>3 DEF Below
  <2> QED
    BY <2>1, <1>1, <1>3 DEF Single
<1>4. ASSUME NEW x, On(st, x), ~IsRun(Last(st), x) PROVE Below(st, x)
  BY <1>1, <1>2, <1>4 DEF On, Below
<1> QED
  BY <1>1, <1>3, <1>4 DEF On, Below
-----------------------------------------------------------------------------
(* How the state of a thread fits its place on the stack.                  *)

\* The machine of a thread works while the thread runs, and is not started twice.
\* Who waits for nothing any more is about to be told, and a thread that has made
\* others run waits for nothing but their end, so that nobody else will start it.
Fits(s, st, t) ==
    /\ s.vm[t] \in IF On(st, t) THEN {"RUNNING", "SUSPENDED"} ELSE {"EXECUTION"}
    /\ s.vm[t] = "RUNNING" => s.state[t] = "RUNNING"
    /\ s.state[t] = "RUNNING" => s.vm[t] = "RUNNING"
    /\ s.state[t] = "SUSPENDED" /\ s.waitFor[t] = {} => t \in Telling(st)
    /\ Below(st, t) => \A w \in s.waitFor[t] : w[1] = "0"

Fit(s, st, T) ==
    /\ Single(st) /\ Ordered(st)
    /\ \A t \in s.alive \cap T : Fits(s, st, t)

RunInv == Fit(d, stack, Threads)

\* If a call is put onto the stack, every thread there waits for nothing but the
\* end of others.
Deep(s, st) ==
    \A t \in s.alive \cap Threads : On(st, t) => \A w \in s.waitFor[t] : w[1] = "0"

\* The place of x has not changed.
Calm(u, st, x) ==
    /\ On(u, x) => On(st, x)
    /\ On(st, x) => On(u, x)
    /\ Below(u, x) => Below(st, x)
    /\ x \in Telling(st) => x \in Telling(u)

LEMMA UndisturbedFits ==
    ASSUME NEW s, NEW st, NEW x, x \in s.alive => Fits(s, st, x),
           NEW r, Undisturbed(r, s, x), x \in r.alive
    PROVE  Fits(r, st, x)
BY DEF Fits, Undisturbed

LEMMA CalmFits ==
    ASSUME NEW s, NEW st, NEW x, Fits(s, st, x), NEW u, Calm(u, st, x)
    PROVE  Fits(s, u, x)
BY DEF Fits, Calm

LEMMA FitOperation ==
    ASSUME NEW s, NEW st, NEW T, Fit(s, st, T), NEW r, \A x \in T : Undisturbed(r, s, x)
    PROVE  Fit(r, st, T)
<1>1. ASSUME NEW x \in r.alive \cap T PROVE Fits(r, st, x)
  <2>1. x \in s.alive => Fits(s, st, x)
    BY DEF Fit
  <2> QED
    BY <2>1, UndisturbedFits
<1> QED
  BY <1>1 DEF Fit

LEMMA FitMoved ==
    ASSUME NEW s, NEW st, NEW T, Fit(s, st, T),
           NEW u, Single(u), Ordered(u), \A x \in T : Calm(u, st, x)
    PROVE  Fit(s, u, T)
<1>1. ASSUME NEW x \in s.alive \cap T PROVE Fits(s, u, x)
  <2>1. Fits(s, st, x) /\ Calm(u, st, x)
    BY DEF Fit
  <2> QED
    BY <2>1, CalmFits
<1> QED
  BY <1>1 DEF Fit

LEMMA FitSame ==
    ASSUME NEW s, NEW st, NEW T, Fit(s, st, T),
           NEW r, r.alive = s.alive, r.vm = s.vm, r.state = s.state, r.waitFor = s.waitFor
    PROVE  Fit(r, st, T)
BY DEF Fit, Fits

\* All but t are as they were.
LEMMA FitAllBut ==
    ASSUME NEW s, NEW st, NEW T, NEW t, Fit(s, st, T \ {t}),
           NEW r, \A x \in T \ {t} : Undisturbed(r, s, x), t \in r.alive => Fits(r, st, t)
    PROVE  Fit(r, st, T)
<1>1. Fit(r, st, T \ {t})
  BY FitOperation
<1> QED
  BY <1>1 DEF Fit

LEMMA SleepsFits ==
    ASSUME NEW s, NEW st, NEW T \in SUBSET Threads, Fit(s, st, T), NEW t \in T,
           NEW r, Sleeps(r, s, t), Below(st, t) => \A w \in r.waitFor[t] : w[1] = "0"
    PROVE  Fit(r, st, T)
<1>1. Fits(s, st, t)
  BY DEF Fit, Sleeps
<1>2. Fits(r, st, t)
  BY <1>1 DEF Fits, Sleeps
<1>3. Fit(s, st, T \ {t}) /\ \A x \in T \ {t} : Undisturbed(r, s, x)
  BY DEF Fit, Sleeps
<1> QED
  BY <1>2, <1>3, FitAllBut

\* t is run by a call of its own.
LEMMA CallFits ==
    ASSUME NEW s, NEW st \in Seq(Frames), NEW t \in Threads, Fit(s, st, Threads \ {t}),
           Deep(s, st), ~On(st, t), NEW r, Starts(r, s, t)
    PROVE  Fit(r, st \o Call(t), Threads)
<1> DEFINE f == ExecuteRunning
           g == Run(t)
           v == Append(st, f)
           u == Append(v, g)
<1>1. st \o Call(t) = u
  BY DEF Call
<1>2. f \in Frames /\ f.kind = "running" /\ f.start = None /\ g \in Frames /\ g.kind = "vm" /\ g.thread = t
  BY FramesOf DEF ExecuteRunning
<1> HIDE DEF f, g
<1>3. (\A x : ~IsRun(f, x)) /\ IsRun(g, t) /\ (\A x : IsRun(g, x) => x = t)
  BY <1>2 DEF IsRun
<1>4. MayFollow(f, st)
  BY <1>2, <1>3 DEF MayFollow
<1>5. Single(st) /\ Ordered(st)
  BY DEF Fit
<1>6. /\ v \in Seq(Frames) /\ Single(v) /\ Ordered(v) /\ Telling(st) \subseteq Telling(v)
      /\ \A x : On(st, x) => On(v, x)
      /\ \A x : On(v, x) => On(st, x)
  BY <1>2, <1>3, <1>4, <1>5, PushedPlaces
<1> HIDE DEF v
<1>7. MayFollow(g, v)
  BY <1>2, <1>3, <1>6 DEF MayFollow
<1>8. /\ Single(u) /\ Ordered(u) /\ Telling(v) \subseteq Telling(u)
      /\ On(u, t)
      /\ \A x : On(v, x) => On(u, x)
      /\ \A x : On(u, x) => On(v, x) \/ x = t
      /\ \A x : Below(u, x) => On(v, x)
  BY <1>2, <1>3, <1>6, <1>7, PushedPlaces
<1> HIDE DEF u
<1>9. ASSUME NEW x \in r.alive \cap (Threads \ {t}) PROVE Fits(r, u, x)
  <2>1. Undisturbed(r, s, x)
    BY DEF Starts
  <2>2. x \in s.alive => Fits(s, st, x)
    BY DEF Fit
  <2>3. Fits(r, st, x)
    BY <2>1, <2>2, UndisturbedFits
  <2>4. On(u, x) => On(st, x)
    BY <1>6, <1>8
  <2>5. On(st, x) => On(u, x)
    BY <1>6, <1>8
  <2>6. x \in Telling(st) => x \in Telling(u)
    BY <1>6, <1>8
  <2>7. Below(u, x) => \A w \in r.waitFor[x] : w[1] = "0"
    <3> SUFFICES ASSUME Below(u, x), NEW w \in r.waitFor[x] PROVE w[1] = "0"
      OBVIOUS
    <3>1. On(st, x)
      BY <1>6, <1>8
    <3>2. x \in s.alive /\ w \in s.waitFor[x]
      BY <2>1 DEF Undisturbed
    <3> QED
      BY <3>1, <3>2 DEF Deep
  <2> QED
    BY <2>3, <2>4, <2>5, <2>6, <2>7 DEF Fits
<1>10. Fits(r, u, t)
  BY <1>8 DEF Fits, Starts
<1>11. Fit(r, u, Threads)
  BY <1>8, <1>9, <1>10 DEF Fit
<1> QED
  BY <1>1, <1>11

\* A name is announced.
LEMMA TellingFits ==
    ASSUME NEW s \in Data, Good(s), NEW st \in Seq(Frames), Fit(s, st, Threads), Deep(s, st),
           NEW o \in Objects, NEW n \in AnyName, n = "0" => \A x \in Threads : ~On(st, x)
    PROVE  Fit(Announced(s, o, n), Append(st, Wake(n, Woken(s, o, n))), Threads)
<1> DEFINE r == Announced(s, o, n)
           list == Woken(s, o, n)
           f == Wake(n, list)
           u == Append(st, f)
<1>1. \A x \in Threads : /\ Alike(r, s, x)
                         /\ ~InList(x, list) => Undisturbed(r, s, x)
                         /\ InList(x, list) => <<n, o>> \in s.waitFor[x]
  BY AnnouncedWakes
<1>2. list \in Seq(Threads)
  BY AnnouncedFacts DEF Announces
<1> HIDE DEF r, list
<1>3. f \in Frames /\ f.kind = "wake" /\ f.list = list
  BY <1>2 DEF Wake, Frames
<1> HIDE DEF f
<1>4. \A x : ~IsRun(f, x)
  BY <1>3 DEF IsRun
<1>5. ASSUME NEW x \in Range(list) PROVE ~On(st, x)
  <2>1. x \in Threads /\ InList(x, list)
    BY <1>2 DEF Range, InList
  <2>2. <<n, o>> \in s.waitFor[x]
    BY <2>1, <1>1
  <2>3. x \in s.alive
    BY <2>1, <2>2 DEF Good, Lists, Living
  <2>4. On(st, x) => n = "0"
    <3>1. On(st, x) => <<n, o>>[1] = "0"
      BY <2>1, <2>2, <2>3 DEF Deep
    <3> QED
      BY <3>1
  <2> QED
    BY <2>1, <2>4
<1>6. MayFollow(f, st)
  BY <1>3, <1>4, <1>5 DEF MayFollow
<1>7. Single(st) /\ Ordered(st)
  BY DEF Fit
<1>8. /\ Single(u) /\ Ordered(u) /\ Telling(st) \subseteq Telling(u)
      /\ \A x : On(st, x) => On(u, x)
      /\ \A x : On(u, x) => On(st, x)
      /\ \A x : Below(u, x) => On(st, x)
      /\ \A x \in Threads : InList(x, list) => x \in Telling(u)
  BY <1>3, <1>4, <1>6, <1>7, PushedPlaces
<1> HIDE DEF u
<1>9. ASSUME NEW x \in r.alive \cap Threads PROVE Fits(r, u, x)
  <2>1. Alike(r, s, x) /\ x \in s.alive
    BY <1>1 DEF Alike
  <2>2. Fits(s, st, x)
    BY <2>1 DEF Fit
  <2>3. Below(u, x) => \A w \in r.waitFor[x] : w[1] = "0"
    BY <2>1, <1>8 DEF Deep, Alike
  <2>4. r.vm[x] \in IF On(u, x) THEN {"RUNNING", "SUSPENDED"} ELSE {"EXECUTION"}
    BY <2>1, <2>2, <1>8 DEF Fits, Alike
  <2>5. (r.vm[x] = "RUNNING" => r.state[x] = "RUNNING") /\ (r.state[x] = "RUNNING" => r.vm[x] = "RUNNING")
    BY <2>1, <2>2 DEF Fits, Alike
  <2>6. r.state[x] = "SUSPENDED" /\ r.waitFor[x] = {} => x \in Telling(u)
    <3>1. CASE InList(x, list)
      BY <3>1, <1>8
    <3>2. CASE ~InList(x, list)
      <4>1. Undisturbed(r, s, x)
        BY <3>2, <1>1
      <4> QED
        BY <4>1, <2>2, <1>8 DEF Undisturbed, Fits
    <3> QED
      BY <3>1, <3>2
  <2> QED
    BY <2>3, <2>4, <2>5, <2>6 DEF Fits
<1>10. Fit(r, u, Threads)
  BY <1>8, <1>9 DEF Fit
<1> QED
  BY <1>10 DEF r, u, f, list
-----------------------------------------------------------------------------
(* The commands of a thread, again.                                        *)

\* What is known of the thread that runs.
Foremost ==
    /\ Fit(d, stack, Threads) /\ Fit(d, Used, Threads)
    /\ Deep(d, stack) /\ Deep(d, Used)
    /\ ~Below(stack, Current)
    /\ Used \in Seq(Frames)
    /\ \A x : On(Used, x) => On(stack, x)

LEMMA RunningPlace ==
    ASSUME ListInv, RunInv, Runs
    PROVE  Foremost
<1> DEFINE f == Last(stack)
           t == f.thread
           used == [f EXCEPT !.left = @ - 1]
<1>1. /\ stack \in Seq(Frames) /\ stack # <<>> /\ f \in Frames /\ f.kind = "vm"
      /\ d \in Data /\ Good(d) /\ t \in Threads /\ t \in d.alive
  BY RunsFacts, TopFrame DEF Runs, TopIs, Running, Current
<1>2. f \in [kind : {"vm"}, thread : Threads, left : Int]
  BY <1>1 DEF Frames
<1>3. used \in Frames /\ used.kind = "vm" /\ used.thread = t
  BY <1>2 DEF Frames
<1>4. Used = [stack EXCEPT ![Len(stack)] = used]
  BY DEF Used, Top
<1> HIDE DEF used
<1>5. IsRun(f, t) /\ (\A x : IsRun(f, x) => IsRun(used, x)) /\ (\A x : IsRun(used, x) => IsRun(f, x))
      /\ \A x : IsRun(f, x) => x = t
  BY <1>1, <1>3 DEF IsRun
<1>6. MayReplace(used, stack)
  BY <1>3, <1>5 DEF MayReplace
<1>7. Fit(d, stack, Threads) /\ Single(stack) /\ Ordered(stack)
  BY DEF RunInv, Fit
<1> DEFINE u == [stack EXCEPT ![Len(stack)] = used]
<1>8. /\ u \in Seq(Frames)
      /\ \A x : On(u, x) => On(stack, x)
      /\ \A x : On(stack, x) => On(u, x)
      /\ \A x : Below(u, x) => Below(stack, x)
      /\ Telling(stack) \subseteq Telling(u)
      /\ Single(u) /\ Ordered(u)
  BY <1>1, <1>3, <1>6, <1>7, ReplacedPlaces
<1> HIDE DEF u
<1>9. \A x \in Threads : Calm(u, stack, x)
  BY <1>8 DEF Calm
<1>10. Fit(d, u, Threads)
  BY <1>7, <1>8, <1>9, FitMoved
<1>11. /\ \A x : On(stack, x) => Below(stack, x) \/ x = t
       /\ ~Below(stack, t)
  BY <1>1, <1>5, <1>7, TopOrBelow
<1>12. Deep(d, stack)
  <2> SUFFICES ASSUME NEW x \in d.alive \cap Threads, On(stack, x), NEW w \in d.waitFor[x]
               PROVE  w[1] = "0"
    BY DEF Deep
  <2>1. Fits(d, stack, x)
    BY <1>7 DEF Fit
  <2>2. CASE Below(stack, x)
    BY <2>1, <2>2 DEF Fits
  <2>3. CASE x = t
    <3>1. d.vm[t] = "RUNNING"
      BY DEF Runs, Current
    <3>2. d.state[t] = "RUNNING"
      BY <2>1, <2>3, <3>1 DEF Fits
    <3> QED
      BY <2>3, <3>2, <1>1 DEF Good, Suspended
  <2> QED
    BY <2>2, <2>3, <1>11
<1>13. Deep(d, u)
  BY <1>8, <1>12 DEF Deep
<1> QED
  BY <1>4, <1>7, <1>8, <1>10, <1>11, <1>12, <1>13 DEF Foremost, Current, u

LEMMA FitDelete ==
    ASSUME NEW s \in Data, Good(s), NEW st, Fit(s, st, Threads), NEW first \in SUBSET Listeners
    PROVE  Fit(Delete(s, first), st, Threads)
<1>1. \A x \in Threads : Undisturbed(Delete(s, first), s, x)
  BY DeleteUndisturbed DEF Good
<1> QED
  BY <1>1, FitOperation

LEMMA RunsAfterEnd == ListInv /\ RunInv /\ EventEnd => RunInv'
<1> SUFFICES ASSUME ListInv, RunInv, EventEnd PROVE RunInv'
  OBVIOUS
<1>1. d \in Data /\ Good(d) /\ {Current} \in SUBSET Listeners
  BY RunsFacts DEF EventEnd, Running, Listeners
<1>2. Fit(Delete(d, {Current}), stack, Threads)
  BY <1>1, FitDelete DEF RunInv
<1> QED
  BY <1>2 DEF EventEnd, RunInv

LEMMA RunsAfterRemove ==
    ASSUME ListInv, RunInv, NEW l \in Listeners, ImmediateRemove(l)
    PROVE  RunInv'
<1>1. d \in Data /\ Good(d) /\ {l} \in SUBSET Listeners
  BY RunsFacts DEF ImmediateRemove, Running
<1>2. Fit(d, Used, Threads)
  BY RunningPlace DEF ImmediateRemove, Foremost
<1>3. Fit(Delete(d, {l}), Used, Threads)
  BY <1>1, <1>2, FitDelete
<1> QED
  BY <1>3 DEF ImmediateRemove, RunInv

LEMMA RunsAfterWait == ListInv /\ RunInv /\ EventWait => RunInv'
<1> SUFFICES ASSUME ListInv, RunInv, EventWait PROVE RunInv'
  OBVIOUS
<1>1. Running /\ Foremost
  BY RunsFacts, RunningPlace DEF EventWait
<1>2. PICK delay \in Delays : d' = Wait(d, Current, delay)
  BY DEF EventWait
<1>3. Sleeps(d', d, Current)
  BY <1>1, <1>2, WaitSleeps DEF Running
<1>4. Fit(d', stack, Threads)
  BY <1>1, <1>3, SleepsFits DEF Running, Foremost
<1> QED
  BY <1>4 DEF EventWait, RunInv

LEMMA RunsAfterWaitOther ==
    ASSUME ListInv, RunInv, NEW t \in Threads, EventWaitOther(t)
    PROVE  RunInv'
<1>1. Running /\ Foremost
  BY RunsFacts, RunningPlace DEF EventWaitOther
<1>2. PICK delay \in Delays : d' = Wait(d, t, delay)
  BY DEF EventWaitOther
<1>3. Sleeps(d', d, t) /\ d'.waitFor[t] = {}
  BY <1>1, <1>2, WaitSleeps DEF Running, EventWaitOther
<1>4. Fit(d', Used, Threads)
  BY <1>1, <1>3, SleepsFits DEF Foremost
<1> QED
  BY <1>4 DEF EventWaitOther, RunInv

\* A thread registers with listeners, with a timeout or without.
LEMMA AsksSleeps ==
    ASSUME NEW s \in Data, Good(s), NEW t \in Threads, t \in s.alive,
           NEW waits, Targets(s, t, waits), waits # {},
           NEW r, LET p == Register(s, t, waits)
                  IN  r.alive = p.alive /\ r.vm = p.vm /\ r.state = p.state /\ r.waitFor = p.waitFor
    PROVE  Sleeps(r, s, t) /\ r.waitFor[t] = waits
<1> DEFINE p == Register(s, t, waits)
<1>1. Sleeps(p, s, t) /\ p.waitFor[t] = waits
  BY RegisterSleeps DEF Targets
<1> HIDE DEF p
<1>2. Sleeps(r, s, t)
  BY <1>1, SleepsSame DEF p
<1> QED
  BY <1>1, <1>2 DEF p

UntimedWait(r, s, t, waits, asked) ==
    r = [Register(s, t, waits) EXCEPT !.asked[t] = asked, !.timed = @ \ {t}]

TimedWait(r, s, t, waits, events) ==
    r = [Register(s, t, waits) EXCEPT !.timeouts = @ \cup events,
                                      !.asked[t] = {}, !.timed = @ \cup {t}]

LEMMA UntimedSleeps ==
    ASSUME NEW s \in Data, Good(s), NEW t \in Threads, t \in s.alive,
           NEW waits, Targets(s, t, waits), waits # {}, NEW asked,
           NEW r, UntimedWait(r, s, t, waits, asked)
    PROVE  Sleeps(r, s, t) /\ r.waitFor[t] = waits
<1> DEFINE p == Register(s, t, waits)
<1>1. p \in Data
  BY RegisterFacts DEF Waiting
<1>2. r.alive = p.alive /\ r.vm = p.vm /\ r.state = p.state /\ r.waitFor = p.waitFor
  <2> DEFINE a == [p.asked EXCEPT ![t] = asked]
             timed == p.timed \ {t}
  <2>1. r = [p EXCEPT !.asked = a, !.timed = timed]
    BY DEF UntimedWait
  <2> HIDE DEF p, a, timed
  <2> QED
    BY <1>1, <2>1 DEF Data
<1> QED
  BY <1>2, AsksSleeps

LEMMA TimedSleeps ==
    ASSUME NEW s \in Data, Good(s), NEW t \in Threads, t \in s.alive,
           NEW waits, Targets(s, t, waits), waits # {}, NEW events,
           NEW r, TimedWait(r, s, t, waits, events)
    PROVE  Sleeps(r, s, t) /\ r.waitFor[t] = waits
<1> DEFINE p == Register(s, t, waits)
<1>1. p \in Data
  BY RegisterFacts DEF Waiting
<1>2. r.alive = p.alive /\ r.vm = p.vm /\ r.state = p.state /\ r.waitFor = p.waitFor
  <2> DEFINE timeouts == p.timeouts \cup events
             a == [p.asked EXCEPT ![t] = {}]
             timed == p.timed \cup {t}
  <2>1. r = [p EXCEPT !.timeouts = timeouts, !.asked = a, !.timed = timed]
    BY DEF TimedWait
  <2> HIDE DEF p, timeouts, a, timed
  <2> QED
    BY <1>1, <2>1 DEF Data
<1> QED
  BY <1>2, AsksSleeps

LEMMA RunsAsleep ==
    ASSUME Running, Foremost, Sleeps(d', d, Current), stack' = stack
    PROVE  RunInv'
<1>1. Fit(d', stack, Threads)
  BY SleepsFits DEF Running, Foremost
<1> QED
  BY <1>1 DEF RunInv

LEMMA RunsAfterWaitTill == ListInv /\ RunInv /\ WaitTill => RunInv'
<1> SUFFICES ASSUME ListInv, RunInv, WaitTill PROVE RunInv'
  OBVIOUS
<1>1. Running /\ Foremost
  BY RunsFacts, RunningPlace DEF WaitTill
<1>2. PICK n \in Names, targets \in SUBSET (d.alive \cap Objects) :
        /\ targets # {}
        /\ d' = [Register(d, Current, {n} \X targets) EXCEPT
                    !.asked[Current] = {}, !.timed = @ \ {Current}]
  BY DEF WaitTill
<1> DEFINE waits == {n} \X targets
<1>3. waits \in SUBSET (AnyName \X (d.alive \cap Objects))
  BY DEF AnyName
<1>4. waits # {}
  <2>1. PICK o \in targets : TRUE
    BY <1>2
  <2>2. <<n, o>> \in waits
    BY <2>1
  <2> QED
    BY <2>2
<1>5. UntimedWait(d', d, Current, waits, {})
  BY <1>2 DEF UntimedWait
<1> HIDE DEF waits
<1>6. Targets(d, Current, waits)
  BY <1>3, ObjectTargets
<1>7. Sleeps(d', d, Current)
  BY <1>1, <1>4, <1>5, <1>6, UntimedSleeps DEF Running
<1> QED
  BY <1>1, <1>7, RunsAsleep DEF WaitTill

LEMMA RunsAfterWaitTillAny == ListInv /\ RunInv /\ WaitTillAny => RunInv'
<1> SUFFICES ASSUME ListInv, RunInv, WaitTillAny PROVE RunInv'
  OBVIOUS
<1>1. Running /\ Foremost
  BY RunsFacts, RunningPlace DEF WaitTillAny
<1>2. PICK o \in d.alive \cap Objects :
        d' = [Register(d, Current, Names \X {o}) EXCEPT
                 !.asked[Current] = Names \X {o}, !.timed = @ \ {Current}]
  BY DEF WaitTillAny
<1> DEFINE waits == Names \X {o}
<1>3. waits \in SUBSET (AnyName \X (d.alive \cap Objects))
  BY DEF AnyName
<1>4. waits # {}
  <2>1. PICK n \in Names : TRUE
    BY ScriptThreadsAssumption
  <2>2. <<n, o>> \in waits
    BY <2>1
  <2> QED
    BY <2>2
<1>5. UntimedWait(d', d, Current, waits, waits)
  BY <1>2 DEF UntimedWait
<1> HIDE DEF waits
<1>6. Targets(d, Current, waits)
  BY <1>3, ObjectTargets
<1>7. Sleeps(d', d, Current)
  BY <1>1, <1>4, <1>5, <1>6, UntimedSleeps DEF Running
<1> QED
  BY <1>1, <1>7, RunsAsleep DEF WaitTillAny

LEMMA RunsAfterWaitTillTimeout == ListInv /\ RunInv /\ WaitTillTimeout => RunInv'
<1> SUFFICES ASSUME ListInv, RunInv, WaitTillTimeout PROVE RunInv'
  OBVIOUS
<1>1. Running /\ Foremost
  BY RunsFacts, RunningPlace DEF WaitTillTimeout
<1>2. PICK n \in Names, o \in d.alive \cap Objects, delay \in Delays \ {0} :
        d' = [Register(d, Current, {<<n, o>>}) EXCEPT
                 !.timeouts = @ \cup {[thread |-> Current, time |-> d.level + delay]},
                 !.asked[Current] = {}, !.timed = @ \cup {Current}]
  BY DEF WaitTillTimeout
<1> DEFINE waits == {<<n, o>>}
           events == {[thread |-> Current, time |-> d.level + delay]}
<1>3. waits \in SUBSET (AnyName \X (d.alive \cap Objects)) /\ waits # {}
  BY DEF AnyName
<1>4. TimedWait(d', d, Current, waits, events)
  BY <1>2 DEF TimedWait
<1> HIDE DEF waits, events
<1>5. Targets(d, Current, waits)
  BY <1>3, ObjectTargets
<1>6. Sleeps(d', d, Current)
  BY <1>1, <1>3, <1>4, <1>5, TimedSleeps DEF Running
<1> QED
  BY <1>1, <1>6, RunsAsleep DEF WaitTillTimeout

LEMMA RunsAfterWaitMove == ListInv /\ RunInv /\ WaitMove => RunInv'
<1> SUFFICES ASSUME ListInv, RunInv, WaitMove PROVE RunInv'
  OBVIOUS
<1>1. Running /\ Foremost
  BY RunsFacts, RunningPlace DEF WaitMove
<1>2. PICK o \in d.alive \cap Objects :
        d' = [Register(d, Current, {<<"0", o>>}) EXCEPT
                 !.asked[Current] = {}, !.timed = @ \ {Current}]
  BY DEF WaitMove
<1> DEFINE waits == {<<"0", o>>}
<1>3. waits \in SUBSET (AnyName \X (d.alive \cap Objects)) /\ waits # {}
  BY DEF AnyName
<1>4. UntimedWait(d', d, Current, waits, {})
  BY <1>2 DEF UntimedWait
<1> HIDE DEF waits
<1>5. Targets(d, Current, waits)
  BY <1>3, ObjectTargets
<1>6. Sleeps(d', d, Current)
  BY <1>1, <1>3, <1>4, <1>5, UntimedSleeps DEF Running
<1> QED
  BY <1>1, <1>6, RunsAsleep DEF WaitMove

LEMMA RunsAfterEndOn ==
    ASSUME ListInv, RunInv, NEW o \in Objects, EventEndOn(o)
    PROVE  RunInv'
<1>1. Running /\ Foremost
  BY RunsFacts, RunningPlace DEF EventEndOn
<1>2. PICK n \in Names : d' = [d EXCEPT !.ends[o] = @ \cup {<<n, Current>>}]
  BY DEF EventEndOn
<1> DEFINE ends == [d.ends EXCEPT ![o] = @ \cup {<<n, Current>>}]
<1>3. d' = [d EXCEPT !.ends = ends]
  BY <1>2
<1> HIDE DEF ends
<1>4. d'.alive = d.alive /\ d'.vm = d.vm /\ d'.state = d.state /\ d'.waitFor = d.waitFor
  BY <1>1, <1>3 DEF Running, Data
<1>5. Fit(d', Used, Threads)
  BY <1>1, <1>4, FitSame DEF Foremost
<1> QED
  BY <1>5 DEF EventEndOn, RunInv

LEMMA RunsAfterUnregister ==
    ASSUME ListInv, RunInv, NEW o \in Objects, EventUnregister(o)
    PROVE  RunInv'
<1>1. Running /\ Foremost
  BY RunsFacts, RunningPlace DEF EventUnregister
<1>2. PICK n \in Names : /\ d' = Announced(d, o, n)
                         /\ stack' = Append(Used, Wake(n, Woken(d, o, n)))
  BY DEF EventUnregister
<1>3. n \in AnyName /\ n # "0"
  BY ScriptThreadsAssumption DEF AnyName
<1>4. Fit(Announced(d, o, n), Append(Used, Wake(n, Woken(d, o, n))), Threads)
  BY <1>1, <1>3, TellingFits DEF Running, Foremost
<1> QED
  BY <1>2, <1>4 DEF RunInv

\* A thread that has not been used does not run.
LEMMA UnusedPlace ==
    ASSUME NEW t \in Threads, t \in Unused
    PROVE  ~On(stack, t) /\ t \notin d.alive
BY DEF Unused, Mentioned, On, IsRun

\* The others are as they were when a thread is made.
LEMMA NewFits ==
    ASSUME NEW s \in Data, NEW t \in Threads \ s.alive, NEW st, Fit(s, st, Threads), ~On(st, t)
    PROVE  /\ Fit(New(s, t), st, Threads \ {t})
           /\ Deep(s, st) => Deep(New(s, t), st)
           /\ New(s, t).waitFor = s.waitFor
<1> DEFINE vm == [s.vm EXCEPT ![t] = "EXECUTION"]
           alive == s.alive \cup {t}
           r == New(s, t)
<1>1. r = [s EXCEPT !.alive = alive, !.vm = vm]
  BY DEF New, Data
<1>2. \A x \in Threads \ {t} : vm[x] = s.vm[x] /\ (x \in alive => x \in s.alive)
  BY DEF Data
<1>3. \A x \in alive : x = t \/ x \in s.alive
  OBVIOUS
<1> HIDE DEF vm, alive, r
<1>4. r.alive = alive /\ r.vm = vm /\ r.state = s.state /\ r.waitFor = s.waitFor
  BY <1>1 DEF Data
<1>5. \A x \in Threads \ {t} : Undisturbed(r, s, x)
  BY <1>2, <1>4 DEF Undisturbed
<1>6. Fit(s, st, Threads \ {t})
  BY DEF Fit
<1>7. Fit(r, st, Threads \ {t})
  BY <1>5, <1>6, FitOperation
<1>8. Deep(s, st) => Deep(r, st)
  BY <1>3, <1>4 DEF Deep
<1> QED
  BY <1>4, <1>7, <1>8 DEF r

LEMMA RunsAfterExecute ==
    ASSUME ListInv, RunInv, NEW t \in Threads, ExecuteThreadInternal(t)
    PROVE  RunInv'
<1> DEFINE s == New(d, t)
<1>1. Running /\ Foremost
  BY RunsFacts, RunningPlace DEF ExecuteThreadInternal
<1>2. t \notin d.alive /\ ~On(stack, t) /\ d' = Started(s, t) /\ stack' = Used \o Call(t)
  BY UnusedPlace DEF ExecuteThreadInternal
<1>3. ~On(Used, t) /\ Fit(d, Used, Threads) /\ Deep(d, Used) /\ d \in Data /\ Good(d) /\ Used \in Seq(Frames)
  BY <1>1, <1>2 DEF Foremost, Running
<1>4. Fit(s, Used, Threads \ {t}) /\ Deep(s, Used)
  BY <1>2, <1>3, NewFits
<1>5. s \in Data /\ Good(s)
  BY <1>2, <1>3, NewKeeps DEF Keeps
<1> HIDE DEF s
<1>6. Starts(Started(s, t), s, t)
  BY <1>5, StartedStarts
<1>7. Fit(Started(s, t), Used \o Call(t), Threads)
  BY <1>3, <1>4, <1>6, CallFits
<1> QED
  BY <1>2, <1>7 DEF RunInv

LEMMA RunsAfterWaitExecute ==
    ASSUME ListInv, RunInv, NEW t \in Threads, WaitExecuteThreadInternal(t)
    PROVE  RunInv'
<1> DEFINE c == Current
           s == New(d, t)
           waits == {<<"0", t>>}
           b == [Register(s, c, waits) EXCEPT !.asked[c] = {}, !.timed = @ \ {c}]
<1>1. Running /\ Foremost
  BY RunsFacts, RunningPlace DEF WaitExecuteThreadInternal
<1>2. t \in Threads \ d.alive /\ t # c /\ d' = Started(b, t) /\ stack' = stack \o Call(t)
  BY <1>1, CurrentInUse DEF WaitExecuteThreadInternal
<1>3. ~On(stack, t) /\ Fit(d, stack, Threads) /\ Deep(d, stack) /\ stack \in Seq(Frames)
      /\ d \in Data /\ Good(d) /\ c \in Threads /\ c \in d.alive
  BY <1>1, UnusedPlace DEF WaitExecuteThreadInternal, Foremost, Running
<1>4. Fit(s, stack, Threads \ {t}) /\ Deep(s, stack)
  BY <1>2, <1>3, NewFits
<1>5. Keeps(s, d) /\ s.alive = d.alive \cup {t} /\ s.notify[t] = <<>> /\ s.waitFor[t] = {}
  BY <1>2, <1>3, NewKeeps
<1> HIDE DEF s
<1>6. s \in Data /\ Good(s) /\ c \in s.alive /\ {} \in SUBSET Waited
  BY <1>3, <1>5 DEF Keeps
<1>7. Targets(s, c, waits)
  BY <1>2, <1>5 DEF Targets, Waited, AnyName, Listeners
<1>8. waits # {} /\ (\A w \in waits : w[1] = "0") /\ \A w \in waits : w[2] = t
  OBVIOUS
<1> HIDE DEF waits, c, b
<1>9. UntimedWait(b, s, c, waits, {})
  BY DEF b, UntimedWait
<1>10. Sleeps(b, s, c) /\ b.waitFor[c] = waits
  BY <1>3, <1>6, <1>7, <1>8, <1>9, UntimedSleeps
<1>11. b \in Data /\ Good(b)
  <2>1. b = [Register(s, c, waits) EXCEPT !.asked[c] = {}, !.timed = @ \ {c}]
    BY DEF b
  <2>2. Keeps(b, s)
    BY <1>3, <1>6, <1>7, <2>1, AsksUntimed
  <2> QED
    BY <2>2 DEF Keeps
<1>12. Fit(b, stack, Threads \ {t})
  <2>1. Threads \ {t} \in SUBSET Threads /\ c \in Threads \ {t}
    BY <1>2, <1>3
  <2> QED
    BY <1>4, <1>8, <1>10, <2>1, SleepsFits
<1>13. Deep(b, stack)
  <2> SUFFICES ASSUME NEW x \in b.alive \cap Threads, On(stack, x), NEW w \in b.waitFor[x]
               PROVE  w[1] = "0"
    BY DEF Deep
  <2>1. CASE x = c
    BY <2>1, <1>8, <1>10
  <2>2. CASE x # c
    <3>1. x \in s.alive /\ w \in s.waitFor[x]
      BY <2>2, <1>10 DEF Sleeps, Undisturbed
    <3> QED
      BY <3>1, <1>4 DEF Deep
  <2> QED
    BY <2>1, <2>2
<1>14. Starts(Started(b, t), b, t)
  BY <1>11, StartedStarts
<1>15. Fit(Started(b, t), stack \o Call(t), Threads)
  BY <1>3, <1>12, <1>13, <1>14, CallFits
<1> QED
  BY <1>2, <1>15 DEF RunInv

LEMMA RunsAfterCommand == ListInv /\ RunInv /\ (Command \/ WaitMove) => RunInv'
BY RunsAfterEnd, RunsAfterWait, RunsAfterWaitTill, RunsAfterWaitTillTimeout,
   RunsAfterWaitTillAny, RunsAfterWaitMove, RunsAfterWaitOther, RunsAfterExecute,
   RunsAfterWaitExecute, RunsAfterEndOn, RunsAfterUnregister, RunsAfterRemove DEF Command
-----------------------------------------------------------------------------
(* Calls return, and time passes, again.                                   *)

\* A call ends that runs no thread and has nobody left to tell.
LEMMA PopFits ==
    ASSUME NEW s, NEW st \in Seq(Frames), st # <<>>, Fit(s, st, Threads),
           \A x : ~IsRun(Last(st), x), Last(st).kind # "wake" \/ Last(st).list = <<>>
    PROVE  Fit(s, Front(st), Threads)
<1> DEFINE u == Front(st)
<1>1. Single(st) /\ Ordered(st)
  BY DEF Fit
<1>2. /\ Single(u) /\ Ordered(u) /\ Telling(st) \subseteq Telling(u)
      /\ \A x : On(u, x) => Below(st, x)
      /\ \A x : Below(st, x) => On(u, x)
      /\ \A x : Below(u, x) => Below(st, x)
  BY <1>1, PoppedPlaces
<1> HIDE DEF u
<1>3. (\A x : On(st, x) => Below(st, x)) /\ \A x : Below(st, x) => On(st, x)
  BY TopOrBelow
<1>4. \A x \in Threads : Calm(u, st, x)
  BY <1>2, <1>3 DEF Calm
<1>5. Fit(s, u, Threads)
  BY <1>2, <1>4, FitMoved
<1> QED
  BY <1>5 DEF u

\* The call of a thread that does not run any more ends.
LEMMA RunsAfterReturn == ListInv /\ RunInv /\ Return => RunInv'
<1> SUFFICES ASSUME ListInv, RunInv, Return PROVE RunInv'
  OBVIOUS
<1> DEFINE c == Current
           u == Front(stack)
           vm == [d.vm EXCEPT ![c] = IF @ = "SUSPENDED" THEN "EXECUTION" ELSE "none"]
<1>1. /\ stack \in Seq(Frames) /\ stack # <<>> /\ Last(stack) \in Frames
      /\ Last(stack).kind = "vm" /\ d.vm[c] # "RUNNING" /\ d \in Data /\ Good(d)
  BY TopFrame DEF Return, TopIs, ListInv, Holds
<1>2. c \in Threads /\ IsRun(Last(stack), c) /\ \A x : IsRun(Last(stack), x) => x = c
  BY <1>1 DEF Frames, Current, IsRun
<1>3. d' = [d EXCEPT !.vm = vm] /\ stack' = u
  BY DEF Return
<1>4. vm[c] = (IF d.vm[c] = "SUSPENDED" THEN "EXECUTION" ELSE "none")
      /\ \A x \in Threads \ {c} : vm[x] = d.vm[x]
  BY <1>1, <1>2 DEF Data
<1> HIDE DEF vm, u, c
<1>5. d'.alive = d.alive /\ d'.vm = vm /\ d'.state = d.state /\ d'.waitFor = d.waitFor
  BY <1>1, <1>3 DEF Data
<1>6. Fit(d, stack, Threads) /\ Single(stack) /\ Ordered(stack)
  BY DEF RunInv, Fit
<1>7. /\ Single(u) /\ Ordered(u) /\ Telling(stack) \subseteq Telling(u)
      /\ \A x : On(u, x) => Below(stack, x)
      /\ \A x : Below(stack, x) => On(u, x)
      /\ \A x : Below(u, x) => Below(stack, x)
  BY <1>1, <1>6, PoppedPlaces DEF u
<1>8. /\ \A x : On(stack, x) => Below(stack, x) \/ x = c
      /\ \A x : Below(stack, x) => On(stack, x)
      /\ On(stack, c) /\ ~Below(stack, c)
  BY <1>1, <1>2, <1>6, TopOrBelow
<1>9. Fit(d, u, Threads \ {c})
  <2>1. \A x \in Threads \ {c} : Calm(u, stack, x)
    BY <1>7, <1>8 DEF Calm
  <2>2. Fit(d, stack, Threads \ {c})
    BY <1>6 DEF Fit
  <2> QED
    BY <2>1, <2>2, <1>7, FitMoved
<1>10. ASSUME c \in d'.alive PROVE Fits(d', u, c)
  <2>1. Fits(d, stack, c)
    BY <1>2, <1>5, <1>6, <1>10 DEF Fit
  <2>2. d.vm[c] = "SUSPENDED"
    BY <2>1, <1>1, <1>8 DEF Fits
  <2>3. vm[c] = "EXECUTION" /\ d.state[c] # "RUNNING"
    BY <2>1, <2>2, <1>4 DEF Fits
  <2>4. ~On(u, c) /\ ~Below(u, c)
    BY <1>7, <1>8
  <2>5. d.state[c] = "SUSPENDED" /\ d.waitFor[c] = {} => c \in Telling(u)
    BY <2>1, <1>7 DEF Fits
  <2> QED
    BY <2>3, <2>4, <2>5, <1>5 DEF Fits
<1>11. \A x \in Threads \ {c} : Undisturbed(d', d, x)
  BY <1>4, <1>5 DEF Undisturbed
<1>12. Fit(d', u, Threads)
  BY <1>9, <1>10, <1>11, FitAllBut
<1> QED
  BY <1>3, <1>12 DEF RunInv

LEMMA RunsAfterAllTold == ListInv /\ RunInv /\ AllTold => RunInv'
<1> SUFFICES ASSUME ListInv, RunInv, AllTold PROVE RunInv'
  OBVIOUS
<1>1. stack \in Seq(Frames) /\ stack # <<>> /\ Last(stack).kind = "wake" /\ Last(stack).list = <<>>
  BY TopFrame DEF AllTold, TopIs
<1>2. \A x : ~IsRun(Last(stack), x)
  BY <1>1 DEF IsRun
<1>3. Fit(d, Front(stack), Threads)
  BY <1>1, <1>2, PopFits DEF RunInv
<1> QED
  BY <1>3 DEF AllTold, RunInv

LEMMA RunsAfterRunningEnds == ListInv /\ RunInv /\ RunningEnds => RunInv'
<1> SUFFICES ASSUME ListInv, RunInv, RunningEnds PROVE RunInv'
  OBVIOUS
<1> DEFINE level == IF Last(stack).start = None THEN d.level ELSE Last(stack).start
<1>1. stack \in Seq(Frames) /\ stack # <<>> /\ Last(stack).kind = "running" /\ d \in Data
  BY TopFrame DEF RunningEnds, TopIs, ListInv, Holds
<1>2. \A x : ~IsRun(Last(stack), x)
  BY <1>1 DEF IsRun
<1>3. Fit(d, Front(stack), Threads)
  BY <1>1, <1>2, PopFits DEF RunInv
<1>4. d' = d \/ d' = [d EXCEPT !.dirty = FALSE, !.level = level]
  BY DEF RunningEnds
<1> HIDE DEF level
<1>5. d'.alive = d.alive /\ d'.vm = d.vm /\ d'.state = d.state /\ d'.waitFor = d.waitFor
  BY <1>1, <1>4 DEF Data
<1>6. Fit(d', Front(stack), Threads)
  BY <1>3, <1>5, FitSame
<1> QED
  BY <1>6 DEF RunningEnds, RunInv

\* ExecuteRunning, which runs threads only if none runs further out, runs them alone.
LEMMA NobodyRuns ==
    ASSUME ListInv, RunInv, TopIs("running"), Looping
    PROVE  \A x : ~On(stack, x)
<1> DEFINE n == Len(stack)
           Runners == {i \in DOMAIN stack : stack[i].kind = "vm"}
<1>1. stack \in Seq(Frames) /\ stack # <<>> /\ Last(stack).kind = "running"
  BY TopFrame DEF TopIs
<1>2. n \in Nat /\ n \in 1 .. n /\ DOMAIN stack = 1 .. n /\ Last(stack) = stack[n]
  BY <1>1 DEF Last
<1> HIDE DEF n
<1>3. CASE Last(stack).start # None
  <2>1. \A j \in 1 .. n : j # n => j < n
    BY <1>2
  <2>2. \A j \in 1 .. n : j < n => stack[j].kind # "vm"
    BY <1>1, <1>2, <1>3 DEF RunInv, Fit, Ordered
  <2>3. \A j \in 1 .. n : stack[j].kind # "vm"
    BY <2>1, <2>2, <1>1, <1>2
  <2> QED
    BY <2>3, <1>2 DEF On, IsRun
<1>4. CASE Last(stack).start = None
  <2>1. Cardinality(Runners) = 0
    BY <1>4 DEF Looping, stackCount
  <2>2. IsFiniteSet(Runners)
    <3>1. IsFiniteSet(1 .. n)
      BY <1>2, FS_Interval
    <3>2. Runners \subseteq 1 .. n
      BY <1>2
    <3> HIDE DEF Runners
    <3> QED
      BY <3>1, <3>2, FS_Subset
  <2> HIDE DEF Runners
  <2>3. Runners = {}
    BY <2>1, <2>2, FS_EmptySet
  <2> QED
    BY <2>3 DEF Runners, On, IsRun
<1> QED
  BY <1>3, <1>4

LEMMA TakenRuns ==
    ASSUME NEW s \in Data, Good(s), NEW i \in DOMAIN s.timer, NEW r, Taken(r, s, i)
    PROVE  LET t == s.timer[i].thread
           IN  /\ t \in Threads /\ t \in s.alive /\ s.waitFor[t] = {}
               /\ Starts(r, s, t)
<1> DEFINE t == s.timer[i].thread
           state == [s.state EXCEPT ![t] = "RUNNING"]
           vm == [s.vm EXCEPT ![t] = "RUNNING"]
           timer == RemoveAt(s.timer, i)
           level == s.timer[i].time
<1>1. t \in Threads
  BY TakenKeeps
<1>2. s.state[t] = "WAITING"
  BY <1>1 DEF Good, Lists, TimerAgrees
<1>3. t \in s.alive /\ s.waitFor[t] = {}
  BY <1>1, <1>2 DEF Good, Lists, Living, Suspended
<1>4. r = [s EXCEPT !.timer = timer, !.level = level, !.state = state, !.vm = vm]
  BY DEF Taken
<1>5. /\ state[t] = "RUNNING" /\ vm[t] = "RUNNING"
      /\ \A x \in Threads \ {t} : state[x] = s.state[x] /\ vm[x] = s.vm[x]
  BY <1>1 DEF Data
<1> HIDE DEF t, state, vm, timer, level
<1>6. r.alive = s.alive /\ r.vm = vm /\ r.state = state /\ r.waitFor = s.waitFor
  BY <1>4 DEF Data
<1>7. \A x \in Threads \ {t} : Undisturbed(r, s, x)
  BY <1>5, <1>6, UndisturbedSame
<1>8. Starts(r, s, t)
  BY <1>3, <1>5, <1>6, <1>7 DEF Starts
<1> QED
  BY <1>1, <1>3, <1>8 DEF t

LEMMA RunsAfterRunNext == ListInv /\ RunInv /\ RunNext => RunInv'
<1> SUFFICES ASSUME ListInv, RunInv, RunNext PROVE RunInv'
  OBVIOUS
<1> DEFINE i == NextElement(d.timer, Due(d))
           t == d.timer[i].thread
           f == [kind |-> "running",
                 start |-> IF Last(stack).start = None THEN d.level ELSE Last(stack).start]
           g == Run(t)
           v == [stack EXCEPT ![Len(stack)] = f]
           u == Append(v, g)
<1>1. /\ stack \in Seq(Frames) /\ stack # <<>> /\ Last(stack) \in Frames
      /\ Last(stack).kind = "running" /\ d \in Data /\ Good(d)
  BY TopFrame DEF RunNext, TopIs, ListInv, Holds
<1>2. d.timer \in Seq(Elements(Threads)) /\ Due(d) \in SUBSET DOMAIN d.timer /\ Due(d) # {}
  BY <1>1 DEF RunNext, Due, Data
<1>3. i \in Due(d)
  BY <1>2, NextExists
<1>4. i \in DOMAIN d.timer
  BY <1>2, <1>3
<1>5. Taken(d', d, i)
  BY DEF RunNext, Taken
<1>6. stack' = u
  BY DEF RunNext, Top
<1>7. \A x : ~On(stack, x)
  BY NobodyRuns DEF RunNext
<1> HIDE DEF i
<1>8. t \in Threads /\ t \in d.alive /\ d.waitFor[t] = {} /\ Starts(d', d, t)
  BY <1>1, <1>4, <1>5, TakenRuns
<1>9. f \in Frames /\ f.kind = "running"
  <2>1. Last(stack).start \in Int /\ d.level \in Int
    BY <1>1 DEF Frames, Data
  <2> QED
    BY <2>1 DEF Frames
<1>10. g \in Frames /\ g.kind = "vm" /\ g.thread = t
  BY <1>8, FramesOf
<1> HIDE DEF f, t, g
<1>11. (\A x : ~IsRun(f, x)) /\ (\A x : ~IsRun(Last(stack), x)) /\ IsRun(g, t)
       /\ \A x : IsRun(g, x) => x = t
  BY <1>1, <1>9, <1>10 DEF IsRun
<1>12. MayReplace(f, stack)
  BY <1>7, <1>9, <1>11 DEF MayReplace
<1>13. Fit(d, stack, Threads) /\ Single(stack) /\ Ordered(stack)
  BY DEF RunInv, Fit
<1>14. /\ v \in Seq(Frames) /\ Single(v) /\ Ordered(v) /\ Telling(stack) \subseteq Telling(v)
       /\ \A x : On(v, x) => On(stack, x)
  BY <1>1, <1>9, <1>12, <1>13, ReplacedPlaces
<1> HIDE DEF v
<1>15. \A x : ~On(v, x)
  BY <1>7, <1>14
<1>16. MayFollow(g, v)
  BY <1>10, <1>15 DEF MayFollow
<1>17. /\ Single(u) /\ Ordered(u) /\ Telling(v) \subseteq Telling(u) /\ On(u, t)
       /\ \A x : On(u, x) => On(v, x) \/ x = t
       /\ \A x : Below(u, x) => On(v, x)
  BY <1>10, <1>11, <1>14, <1>16, PushedPlaces
<1> HIDE DEF u
<1>18. Fit(d, u, Threads \ {t})
  <2>1. \A x \in Threads \ {t} : Calm(u, stack, x)
    BY <1>7, <1>14, <1>15, <1>17 DEF Calm
  <2>2. Fit(d, stack, Threads \ {t})
    BY <1>13 DEF Fit
  <2> QED
    BY <2>1, <2>2, <1>17, FitMoved
<1>19. Fits(d', u, t)
  BY <1>8, <1>17 DEF Fits, Starts
<1>20. \A x \in Threads \ {t} : Undisturbed(d', d, x)
  BY <1>8 DEF Starts
<1>21. Fit(d', u, Threads)
  BY <1>18, <1>19, <1>20, FitAllBut
<1> QED
  BY <1>6, <1>21 DEF RunInv

\* The next of the threads that were woken is told.  It is not on the stack, so its
\* machine is ready to run, and it is run or finds its place in the timer.
LEMMA RunsAfterStopped == ListInv /\ RunInv /\ StoppedWaitFor => RunInv'
<1> SUFFICES ASSUME ListInv, RunInv, StoppedWaitFor PROVE RunInv'
  OBVIOUS
<1> DEFINE frame == Last(stack)
           list == frame.list
           t == Told1
           c == CancelEvents(d, t)
           f == Wake(frame.name, Tail(list))
<1>1. /\ TopIs("wake") /\ list # <<>> /\ d \in Data /\ Good(d)
      /\ stack \in Seq(Frames) /\ stack # <<>> /\ frame \in Frames /\ frame.kind = "wake"
  BY TopFrame DEF StoppedWaitFor, TopIs, ListInv, Holds
<1>2. /\ t \in Threads /\ frame.name \in AnyName /\ Rest \in Seq(Frames)
      /\ Telling(stack) \ {t} \subseteq Telling(Rest)
  BY <1>1, RestFacts
<1>3. IF t \notin d.alive THEN d' = d /\ stack' = Rest
      ELSE IF d.state[t] # "SUSPENDED" THEN d' = c /\ stack' = Rest
      ELSE IF frame.name = "0" THEN d' = StoppedWaiting(d, t) /\ stack' = Rest
      ELSE IF d.vm[t] = "EXECUTION" THEN d' = Execute(c, t).d /\ stack' = Rest \o Execute(c, t).calls
      ELSE d' = [c EXCEPT !.vm[t] = "RUNNING"] /\ stack' = Rest
  BY DEF StoppedWaitFor, Rest, Told1
<1>4. list \in Seq(Threads)
  BY <1>1 DEF Frames
<1>5. /\ Tail(list) \in Seq(Threads) /\ Range(Tail(list)) \subseteq Range(list)
      /\ t \in Range(list)
  <2>1. t = Head(list)
    BY DEF Told1
  <2> HIDE DEF list, t
  <2>2. /\ Tail(list) \in Seq(Threads) /\ t = list[1] /\ 1 \in DOMAIN list
        /\ \A k \in DOMAIN Tail(list) : k + 1 \in DOMAIN list /\ Tail(list)[k] = list[k + 1]
    BY <1>1, <1>4, <2>1
  <2> QED
    BY <2>2 DEF Range
<1>6. f \in Frames /\ f.kind = "wake" /\ f.list = Tail(list)
  BY <1>2, <1>5 DEF Wake, Frames
<1>7. Rest = [stack EXCEPT ![Len(stack)] = f]
  BY DEF Rest, Top
<1> HIDE DEF t, c, f
<1>8. (\A x : ~IsRun(f, x)) /\ \A x : ~IsRun(frame, x)
  BY <1>1, <1>6 DEF IsRun
<1>9. MayReplace(f, stack)
  BY <1>1, <1>5, <1>6, <1>8 DEF MayReplace
<1>10. Fit(d, stack, Threads) /\ Single(stack) /\ Ordered(stack)
  BY DEF RunInv, Fit
<1>11. /\ Single(Rest) /\ Ordered(Rest)
       /\ \A x : On(Rest, x) => On(stack, x)
       /\ \A x : On(stack, x) => On(Rest, x)
       /\ \A x : Below(Rest, x) => Below(stack, x)
  BY <1>1, <1>6, <1>7, <1>9, <1>10, ReplacedPlaces
<1>12. \A x : On(stack, x) => Below(stack, x)
  BY <1>1, <1>8, TopOrBelow
<1>13. ~On(stack, t)
  <2> SUFFICES ASSUME On(stack, t) PROVE FALSE
    OBVIOUS
  <2>1. Below(stack, t)
    BY <1>12
  <2>2. PICK j \in DOMAIN stack : j # Len(stack) /\ IsRun(stack[j], t)
    BY <2>1 DEF Below
  <2>3. Len(stack) \in DOMAIN stack /\ j < Len(stack) /\ frame = stack[Len(stack)]
    BY <2>2, <1>1 DEF Last
  <2>4. t \notin Range(frame.list)
    BY <2>2, <2>3, <1>1, <1>10 DEF Ordered, IsRun
  <2> QED
    BY <2>4, <1>5
<1>14. ~On(Rest, t) /\ ~Below(Rest, t)
  <2>1. ~Below(stack, t)
    BY <1>1, <1>13, TopOrBelow
  <2> QED
    BY <2>1, <1>11, <1>13
<1>15. Fit(d, Rest, Threads \ {t})
  <2>1. \A x \in Threads \ {t} : Calm(Rest, stack, x)
    <3>1. \A x \in Threads \ {t} : x \in Telling(stack) => x \in Telling(Rest)
      BY <1>2
    <3> QED
      BY <3>1, <1>11 DEF Calm
  <2>2. Fit(d, stack, Threads \ {t})
    BY <1>10 DEF Fit
  <2> QED
    BY <2>1, <2>2, <1>11, FitMoved
<1>16. t \in d.alive => d.vm[t] = "EXECUTION" /\ d.state[t] # "RUNNING"
  BY <1>2, <1>10, <1>13 DEF Fit, Fits
<1>17. Deep(d, Rest)
  <2> SUFFICES ASSUME NEW x \in d.alive \cap Threads, On(Rest, x), NEW w \in d.waitFor[x]
               PROVE  w[1] = "0"
    BY DEF Deep
  <2>1. Below(stack, x)
    BY <1>11, <1>12
  <2> QED
    BY <2>1, <1>10 DEF Fit, Fits
<1>18. /\ c \in Data /\ Adjusts(c, d, t) /\ c.waitFor = d.waitFor /\ c.alive = d.alive
       /\ c.vm = d.vm /\ c.state = d.state
  <2>1. c = [d EXCEPT !.timeouts = {e \in d.timeouts : e.thread # t}]
    BY DEF c, CancelEvents
  <2>2. d.vm[t] = "RUNNING" => t \in d.alive
    BY <1>1, <1>2 DEF Good, Lists, Living
  <2> QED
    BY <1>1, <2>1, <2>2 DEF Data, Adjusts
<1>19. Good(c)
  BY <1>1, <1>2, <1>18, AdjustsKeeps DEF Keeps
<1>20. Fit(c, Rest, Threads \ {t}) /\ Deep(c, Rest)
  <2>1. Fit(c, Rest, Threads \ {t})
    BY <1>15, <1>18, FitSame
  <2> QED
    BY <2>1, <1>17, <1>18 DEF Deep
<1>21. ASSUME NEW r, \A x \in Threads \ {t} : Undisturbed(r, c, x),
              r.vm[t] = "EXECUTION", r.state[t] = "WAITING"
       PROVE  Fit(r, Rest, Threads)
  <2>1. Fits(r, Rest, t)
    BY <1>14, <1>21 DEF Fits
  <2> QED
    BY <2>1, <1>20, <1>21, FitAllBut
<1>22. CASE t \notin d.alive
  <2>1. Fit(d, Rest, Threads)
    BY <1>15, <1>22 DEF Fit
  <2> QED
    BY <2>1, <1>3, <1>22 DEF RunInv
<1>23. CASE t \in d.alive /\ d.state[t] # "SUSPENDED"
  <2>1. d.state[t] = "WAITING"
    BY <1>1, <1>2, <1>16, <1>23 DEF Data, States
  <2>2. \A x \in Threads \ {t} : Undisturbed(c, c, x)
    BY UndisturbedSame
  <2>3. Fit(c, Rest, Threads)
    BY <2>1, <2>2, <1>16, <1>18, <1>21, <1>23
  <2> QED
    BY <2>3, <1>3, <1>23 DEF RunInv
<1>24. CASE t \in d.alive /\ d.state[t] = "SUSPENDED" /\ frame.name = "0"
  <2> DEFINE r == StoppedWaiting(d, t)
  <2>1. d.waitFor[t] = {} /\ Lists(d) /\ Suspended(d, Threads \ {t})
    BY <1>1, <1>24, RestFacts DEF Good, Suspended, t
  <2>2. Stops(r, d, {t})
    BY <1>1, <1>2, <1>24, <2>1, StoppedLists
  <2> HIDE DEF r
  <2>3. r.vm[t] = "EXECUTION" /\ r.state[t] = "WAITING"
    BY <2>2, <1>2, <1>16, <1>24 DEF Stops
  <2>4. ASSUME NEW x \in Threads \ {t} PROVE Undisturbed(r, c, x)
    <3>1. Undisturbed(r, d, x)
      BY <2>2, StoppedUndisturbed
    <3>2. Undisturbed(d, c, x)
      BY <1>18, UndisturbedSame
    <3> QED
      BY <3>1, <3>2, UndisturbedAgain
  <2>5. Fit(r, Rest, Threads)
    BY <2>3, <2>4, <1>21
  <2> QED
    BY <2>5, <1>3, <1>24 DEF RunInv, r
<1>25. CASE t \in d.alive /\ d.state[t] = "SUSPENDED" /\ frame.name # "0"
  <2>1. d' = Execute(c, t).d /\ stack' = Rest \o Execute(c, t).calls
    BY <1>3, <1>16, <1>25
  <2>2. CASE Paused
    <3> DEFINE p == Stop(c, t)
               r == Timed(p, t, c.level)
    <3>1. Execute(c, t).d = r /\ Execute(c, t).calls = <<>>
      BY <2>2 DEF Execute
    <3>2. /\ Released(p, c, t) /\ p.state[t] = "RUNNING"
          /\ \A x \in Threads \ {t} : Undisturbed(p, c, x)
          /\ t \in p.alive => p.vm[t] = c.vm[t]
      BY <1>2, <1>18, <1>19, StopFacts, StopUndisturbed
    <3> HIDE DEF p
    <3>3. p \in Data /\ Good(p) /\ t \in p.alive /\ p.waitFor[t] = {} /\ c.level \in Int
      BY <3>2, <1>18, <1>25 DEF Released, Data
    <3>4. Keeps(r, p) /\ Waits(r, p, t)
      BY <1>2, <3>2, <3>3, TimedKeeps
    <3>5. r.waitFor = p.waitFor /\ r.vm = p.vm /\ r.alive = p.alive
          /\ r.state = [p.state EXCEPT ![t] = "WAITING"]
      BY <3>3, <3>4 DEF Waits, Keeps, Data
    <3>6. r.state[t] = "WAITING" /\ \A x \in Threads \ {t} : r.state[x] = p.state[x]
      BY <1>2, <3>3, <3>5 DEF Data
    <3> HIDE DEF r
    <3>7. r.vm[t] = "EXECUTION"
      BY <3>2, <3>3, <3>5, <1>16, <1>18, <1>25
    <3>8. ASSUME NEW x \in Threads \ {t} PROVE Undisturbed(r, c, x)
      <4>1. Undisturbed(r, p, x)
        BY <3>5, <3>6, UndisturbedSame
      <4> QED
        BY <4>1, <3>2, UndisturbedAgain
    <3>9. Fit(r, Rest, Threads)
      BY <3>6, <3>7, <3>8, <1>21
    <3>10. stack' = Rest
      BY <2>1, <3>1, <1>2
    <3> QED
      BY <2>1, <3>1, <3>9, <3>10 DEF RunInv
  <2>3. CASE ~Paused
    <3>1. Execute(c, t).d = Started(c, t) /\ Execute(c, t).calls = Call(t)
      BY <2>3 DEF Execute
    <3>2. Starts(Started(c, t), c, t)
      BY <1>2, <1>18, <1>19, StartedStarts
    <3>3. Fit(Started(c, t), Rest \o Call(t), Threads)
      BY <3>2, <1>2, <1>14, <1>20, CallFits
    <3> QED
      BY <2>1, <3>1, <3>3 DEF RunInv
  <2> QED
    BY <2>2, <2>3
<1> QED
  BY <1>22, <1>23, <1>24, <1>25

-----------------------------------------------------------------------------
(* The game, between scripts, again.                                       *)

LEMMA QuietPlace ==
    ASSUME ListInv, RunInv, Quiet
    PROVE  /\ Fit(d, <<>>, Threads) /\ Deep(d, <<>>) /\ (\A x : ~On(<<>>, x))
           /\ d \in Data /\ Good(d) /\ <<>> \in Seq(Frames)
<1>1. DOMAIN <<>> = {}
  OBVIOUS
<1>2. \A x : ~On(<<>>, x)
  BY <1>1 DEF On
<1>3. Fit(d, <<>>, Threads)
  BY DEF Quiet, RunInv
<1> QED
  BY <1>2, <1>3, QuietFacts DEF Deep

LEMMA RunsAfterGameUnregister ==
    ASSUME ListInv, RunInv, NEW o \in Objects, Unregister(o)
    PROVE  RunInv'
<1>1. /\ Fit(d, <<>>, Threads) /\ Deep(d, <<>>) /\ (\A x : ~On(<<>>, x))
      /\ d \in Data /\ Good(d) /\ <<>> \in Seq(Frames)
  BY QuietPlace DEF Unregister
<1>2. PICK n \in AnyName : /\ d' = Announced(d, o, n)
                           /\ stack' = <<Wake(n, Woken(d, o, n))>>
  BY DEF Unregister, AnyName
<1>3. Fit(Announced(d, o, n), Append(<<>>, Wake(n, Woken(d, o, n))), Threads)
  BY <1>1, TellingFits
<1>4. stack' = Append(<<>>, Wake(n, Woken(d, o, n)))
  BY <1>2
<1> QED
  BY <1>2, <1>3, <1>4 DEF RunInv

LEMMA RunsAfterGameRemove ==
    ASSUME ListInv, RunInv, NEW o \in Objects, RemoveEvent(o)
    PROVE  RunInv'
<1>1. Fit(d, stack, Threads) /\ d \in Data /\ Good(d) /\ {o} \in SUBSET Listeners
  BY QuietPlace DEF RemoveEvent, RunInv, Listeners
<1>2. Fit(Delete(d, {o}), stack, Threads)
  BY <1>1, FitDelete
<1> QED
  BY <1>2 DEF RemoveEvent, RunInv

LEMMA RunsAfterStart ==
    ASSUME ListInv, RunInv, NEW t \in Threads, StartScript(t)
    PROVE  RunInv'
<1> DEFINE s == New(d, t)
<1>1. /\ Fit(d, <<>>, Threads) /\ Deep(d, <<>>) /\ ~On(<<>>, t)
      /\ d \in Data /\ Good(d) /\ <<>> \in Seq(Frames)
  BY QuietPlace DEF StartScript
<1>2. t \in Threads \ d.alive /\ d' = Started(s, t) /\ stack' = Call(t)
  BY DEF StartScript, Unused
<1>3. Fit(s, <<>>, Threads \ {t}) /\ Deep(s, <<>>)
  BY <1>1, <1>2, NewFits
<1>4. s \in Data /\ Good(s)
  BY <1>1, <1>2, NewKeeps DEF Keeps
<1> HIDE DEF s
<1>5. Starts(Started(s, t), s, t)
  BY <1>4, StartedStarts
<1>6. Fit(Started(s, t), <<>> \o Call(t), Threads)
  BY <1>1, <1>3, <1>5, CallFits
<1>7. <<>> \o Call(t) = Call(t)
  BY DEF Call
<1> QED
  BY <1>2, <1>6, <1>7 DEF RunInv

LEMMA RunsAfterCancel ==
    ASSUME ListInv, RunInv, NEW t \in Threads, CancelWaiting(t)
    PROVE  RunInv'
<1>1. d \in Data /\ Good(d) /\ Fit(d, stack, Threads)
  BY QuietFacts DEF CancelWaiting, RunInv
<1>2. PICK e \in d.timeouts : d' = CancelWaitingAll([d EXCEPT !.timeouts = @ \ {e}], t)
  BY DEF CancelWaiting
<1> DEFINE c == [d EXCEPT !.timeouts = @ \ {e}]
<1>3. /\ c \in Data /\ Adjusts(c, d, t)
      /\ c.alive = d.alive /\ c.vm = d.vm /\ c.state = d.state /\ c.waitFor = d.waitFor
  <2>1. d.vm[t] = "RUNNING" => t \in d.alive
    BY <1>1 DEF Good, Lists, Living
  <2> QED
    BY <1>1, <2>1 DEF Data, Adjusts
<1>4. Good(c)
  BY <1>1, <1>3, AdjustsKeeps DEF Keeps
<1> HIDE DEF c
<1>5. Fit(c, stack, Threads)
  BY <1>1, <1>3, FitSame
<1>6. Suspended(c, Threads \ {t}) /\ Lists(c)
  BY <1>4 DEF Good, Suspended
<1>7. \A x \in Threads : Undisturbed(CancelWaitingAll(c, t), c, x)
  BY <1>3, <1>6, CancelAllUndisturbed
<1>8. Fit(CancelWaitingAll(c, t), stack, Threads)
  BY <1>5, <1>7, FitOperation
<1> QED
  BY <1>2, <1>8 DEF CancelWaiting, RunInv, c

LEMMA RunsAfterGame == ListInv /\ RunInv /\ Game => RunInv'
BY RunsAfterGameUnregister, RunsAfterGameRemove, RunsAfterStart, RunsAfterCancel DEF Game

LEMMA RunsAfterFrame == ListInv /\ RunInv /\ Frame => RunInv'
<1> SUFFICES ASSUME ListInv, RunInv, Frame PROVE RunInv'
  OBVIOUS
<1>1. Quiet
  BY DEF Frame, NewFrame, Pause, Unpause
<1>2. /\ Fit(d, <<>>, Threads) /\ (\A x : ~On(<<>>, x)) /\ stack = <<>>
      /\ d \in Data /\ <<>> \in Seq(Frames)
  BY <1>1, QuietPlace DEF Quiet
<1>3. CASE NewFrame
  <2>1. d' = Later(d) /\ stack' = stack
    BY <1>3 DEF NewFrame
  <2>2. d'.alive = d.alive /\ d'.vm = d.vm /\ d'.state = d.state /\ d'.waitFor = d.waitFor
    BY <1>2, <2>1 DEF Later, Data
  <2>3. Fit(d', <<>>, Threads)
    BY <1>2, <2>2, FitSame
  <2> QED
    BY <1>2, <2>1, <2>3 DEF RunInv
<1>4. CASE Pause
  <2>1. d' = SetTime(d) /\ stack' = stack
    BY <1>4 DEF Pause
  <2>2. d'.alive = d.alive /\ d'.vm = d.vm /\ d'.state = d.state /\ d'.waitFor = d.waitFor
    BY <1>2, <2>1 DEF SetTime, Data
  <2>3. Fit(d', <<>>, Threads)
    BY <1>2, <2>2, FitSame
  <2> QED
    BY <1>2, <2>1, <2>3 DEF RunInv
<1>5. CASE Unpause
  <2> DEFINE u == Append(<<>>, ExecuteRunning)
  <2>1. d' = d /\ stack' = u
    BY <1>5 DEF Unpause
  <2>2. ExecuteRunning \in Frames /\ ExecuteRunning.kind = "running" /\ ExecuteRunning.start = None
    BY DEF ExecuteRunning, Frames, None
  <2>3. \A x : ~IsRun(ExecuteRunning, x)
    BY <2>2 DEF IsRun
  <2>4. MayFollow(ExecuteRunning, <<>>)
    BY <2>2, <2>3 DEF MayFollow
  <2>5. Single(<<>>) /\ Ordered(<<>>)
    BY <1>2 DEF Fit
  <2>6. /\ Single(u) /\ Ordered(u) /\ Telling(<<>>) \subseteq Telling(u)
        /\ \A x : On(u, x) => On(<<>>, x)
        /\ \A x : Below(u, x) => On(<<>>, x)
    BY <1>2, <2>2, <2>3, <2>4, <2>5, PushedPlaces
  <2> HIDE DEF u
  <2>7. \A x \in Threads : Calm(u, <<>>, x)
    BY <1>2, <2>6 DEF Calm
  <2>8. Fit(d, u, Threads)
    BY <1>2, <2>6, <2>7, FitMoved
  <2> QED
    BY <2>1, <2>8 DEF RunInv
<1> QED
  BY <1>3, <1>4, <1>5 DEF Frame

LEMMA NextRunInv == ListInv /\ RunInv /\ [Next]_vars => RunInv'
<1> SUFFICES ASSUME ListInv, RunInv, [Next]_vars PROVE RunInv'
  OBVIOUS
<1>1. CASE UNCHANGED vars
  BY <1>1 DEF vars, RunInv
<1>2. CASE Command \/ WaitMove
  BY <1>2, RunsAfterCommand
<1>3. CASE Calls
  BY <1>3, RunsAfterReturn, RunsAfterStopped, RunsAfterAllTold, RunsAfterRunNext,
     RunsAfterRunningEnds DEF Calls
<1>4. CASE Game
  BY <1>4, RunsAfterGame
<1>5. CASE Frame
  BY <1>5, RunsAfterFrame
<1> QED
  BY <1>1, <1>2, <1>3, <1>4, <1>5 DEF Next

LEMMA InitRunInv == Init => RunInv
<1> SUFFICES ASSUME Init PROVE RunInv
  OBVIOUS
<1>1. stack = <<>> /\ d.alive = Objects
  BY DEF Init
<1>2. Single(stack) /\ Ordered(stack)
  <2>1. DOMAIN <<>> = {}
    OBVIOUS
  <2> QED
    BY <1>1, <2>1 DEF Single, Ordered
<1> QED
  BY <1>1, <1>2, ScriptThreadsAssumption DEF RunInv, Fit

\* What is in the timer for a thread.
LEMMA TimerOnce ==
    ASSUME d \in Data, TimerAgrees(d), NEW t \in Threads
    PROVE  Cardinality(InTimer(t)) = IF d.state[t] = "WAITING" THEN 1 ELSE 0
<1>1. CASE d.state[t] = "WAITING"
  <2>1. PICK k \in DOMAIN d.timer : d.timer[k].thread = t
    BY <1>1 DEF TimerAgrees
  <2>2. InTimer(t) = {k}
    BY <2>1 DEF InTimer, TimerAgrees
  <2> QED
    BY <1>1, <2>2, FS_Singleton
<1>2. CASE d.state[t] # "WAITING"
  <2>1. InTimer(t) = {}
    BY <1>2 DEF InTimer, TimerAgrees
  <2> QED
    BY <1>2, <2>1, FS_EmptySet
<1> QED
  BY <1>1, <1>2

LEMMA RememberedImplied == ListInv /\ RunInv => NoThreadForgotten
<1> SUFFICES ASSUME ListInv, RunInv, NEW t \in Threads \cap d.alive
             PROVE  /\ CASE d.state[t] = "RUNNING" -> OnStack(t) /\ d.waitFor[t] = {}
                         [] d.state[t] = "WAITING" -> d.waitFor[t] = {}
                         [] d.state[t] = "SUSPENDED" -> d.waitFor[t] # {} \/ Told(t) # {}
                    /\ Cardinality(InTimer(t)) = IF d.state[t] = "WAITING" THEN 1 ELSE 0
                    /\ \A l \in Listeners, n \in Names \cup {"0"} :
                        <<n, l>> \in d.waitFor[t] <=> l \in d.alive /\ <<n, t>> \in Range(d.notify[l])
  BY DEF NoThreadForgotten
<1>1. d \in Data /\ Good(d) /\ Fits(d, stack, t)
  BY DEF ListInv, Holds, RunInv, Fit
<1>2. d.waitFor[t] # {} => d.state[t] = "SUSPENDED"
  BY <1>1 DEF Good, Suspended
<1>3. d.state[t] = "RUNNING" => OnStack(t)
  <2>1. d.state[t] = "RUNNING" => On(stack, t)
    BY <1>1 DEF Fits
  <2> QED
    BY <2>1 DEF On, IsRun, OnStack
<1>4. d.state[t] = "SUSPENDED" /\ d.waitFor[t] = {} => Told(t) # {}
  <2>1. t \in Telling(stack) => Told(t) # {}
    BY DEF Telling, Told
  <2> QED
    BY <2>1, <1>1 DEF Fits
<1>5. d.state[t] \in {"RUNNING", "WAITING", "SUSPENDED"}
  BY <1>1 DEF Data, States
<1>6. (CASE d.state[t] = "RUNNING" -> OnStack(t) /\ d.waitFor[t] = {}
         [] d.state[t] = "WAITING" -> d.waitFor[t] = {}
         [] d.state[t] = "SUSPENDED" -> d.waitFor[t] # {} \/ Told(t) # {})
  BY <1>2, <1>3, <1>4, <1>5
<1>7. Cardinality(InTimer(t)) = IF d.state[t] = "WAITING" THEN 1 ELSE 0
  BY <1>1, TimerOnce DEF Good, Lists
<1>8. ASSUME NEW l \in Listeners, NEW n \in Names \cup {"0"}
      PROVE  <<n, l>> \in d.waitFor[t] <=> l \in d.alive /\ <<n, t>> \in Range(d.notify[l])
  <2>1. <<n, l>> \in d.waitFor[t] <=> \E k \in DOMAIN d.notify[l] : d.notify[l][k] = <<n, t>>
    BY <1>1 DEF Good, Lists, Registered, AnyName
  <2>2. <<n, t>> \in Range(d.notify[l]) <=> \E k \in DOMAIN d.notify[l] : d.notify[l][k] = <<n, t>>
    BY DEF Range
  <2>3. l \notin d.alive => d.notify[l] = <<>>
    BY <1>1 DEF Good, Lists, Living
  <2>4. DOMAIN <<>> = {}
    OBVIOUS
  <2>5. l \notin d.alive => DOMAIN d.notify[l] = {}
    BY <2>3, <2>4
  <2> QED
    BY <2>1, <2>2, <2>5
<1> QED
  BY <1>6, <1>7, <1>8

\* Every thread runs, or there is exactly one thing that will make it run: an
\* element of the timer, the listeners that have it in their lists, or the call
\* that is about to tell it, however the threads call, wake, wait for and delete
\* each other.
THEOREM NobodyIsForgotten == Spec => []NoThreadForgotten
<1>1. ListInv /\ RunInv /\ [Next]_vars => (ListInv /\ RunInv)'
  BY NextListInv, NextRunInv
<1>2. Init => ListInv /\ RunInv
  BY InitListInv, InitRunInv
<1> QED
  BY <1>1, <1>2, RememberedImplied, PTL DEF Spec
-----------------------------------------------------------------------------
(* Time: what an operation leaves of the timer, and of the level's time.   *)

\* Nobody in the timer is to run before the time it is now.
Late(s) == \A k \in DOMAIN s.timer : s.timer[k].time >= s.level

OnTime(r, s) == r.level = s.level /\ (Late(s) => Late(r))

LEMMA OnTimeAgain ==
    ASSUME NEW s, NEW p, NEW r, OnTime(p, s), OnTime(r, p)
    PROVE  OnTime(r, s)
BY DEF OnTime

LEMMA OnTimeSame ==
    ASSUME NEW s, NEW r, r.timer = s.timer, r.level = s.level
    PROVE  OnTime(r, s)
BY DEF OnTime, Late

LEMMA KeptOnTime ==
    ASSUME NEW s \in Data, NEW r, NEW S, r.timer = Kept(s.timer, S), r.level = s.level
    PROVE  OnTime(r, s)
<1> DEFINE q == s.timer
           K == Kept(q, S)
<1>1. q \in Seq(Elements(Threads))
  BY DEF Data
<1>2. r.timer = K
  OBVIOUS
<1> HIDE DEF q
<1>3. Filtered(K, q, S, Elements(Threads))
  BY <1>1, KeptElements
<1> HIDE DEF K
<1>4. \A k \in DOMAIN K : \E i \in DOMAIN q : q[i] = K[k]
  BY <1>3 DEF Filtered
<1>5. ASSUME Late(s), NEW k \in DOMAIN K PROVE K[k].time >= r.level
  <2>1. PICK i \in DOMAIN q : q[i] = K[k]
    BY <1>4
  <2>2. q[i].time >= s.level
    BY <1>5 DEF Late, q
  <2> QED
    BY <2>1, <2>2
<1> QED
  BY <1>2, <1>5 DEF OnTime, Late

\* Nobody is put into the timer for a time that is over.
LEMMA TimedOnTime ==
    ASSUME NEW s \in Data, NEW t \in Threads, NEW time \in Int, time >= s.level
    PROVE  OnTime(Timed(s, t, time), s)
<1> DEFINE r == Timed(s, t, time)
           element == [thread |-> t, time |-> time]
           q == s.timer
<1>1. q \in Seq(Elements(Threads)) /\ element \in Elements(Threads) /\ element.time = time
  BY DEF Data, Elements
<1>2. r = [s EXCEPT !.state = [s.state EXCEPT ![t] = "WAITING"],
                    !.timer = Append(q, element),
                    !.dirty = s.dirty \/ time <= s.inttime]
  BY DEF Timed, AddElement, Data
<1>3. r.timer = Append(q, element) /\ r.level = s.level
  BY <1>2 DEF Data
<1> DEFINE n == Len(q)
<1> HIDE DEF r, element
<1>4. /\ n \in Nat /\ DOMAIN q = 1 .. n /\ DOMAIN r.timer = 1 .. n + 1
      /\ r.timer[n + 1] = element
      /\ \A k \in 1 .. n : r.timer[k] = q[k]
  <2> HIDE DEF q
  <2> QED
    BY <1>1, <1>3
<1> HIDE DEF n
<1>5. ASSUME Late(s), NEW k \in 1 .. n + 1 PROVE r.timer[k].time >= r.level
  <2>1. CASE k = n + 1
    BY <2>1, <1>1, <1>3, <1>4
  <2>2. CASE k \in 1 .. n
    BY <2>2, <1>3, <1>4, <1>5 DEF Late
  <2> QED
    BY <2>1, <2>2, <1>4
<1>6. Late(s) => Late(r)
  BY <1>4, <1>5 DEF Late
<1> QED
  BY <1>3, <1>6 DEF OnTime, r

\* A thread that stops waiting is to run at once, not earlier.
LEMMA StoppedOnTime ==
    ASSUME NEW s \in Data, NEW t \in Threads
    PROVE  OnTime(StoppedWaiting(s, t), s)
<1> DEFINE c == CancelEvents(s, t)
           r == StoppedWaiting(s, t)
<1>1. c = [s EXCEPT !.timeouts = {e \in s.timeouts : e.thread # t}]
  BY DEF CancelEvents
<1>2. c \in Data /\ c.level = s.level /\ c.timer = s.timer /\ c.level \in Int
  BY <1>1 DEF Data
<1>3. r = IF c.state[t] = "SUSPENDED" THEN Timed(c, t, c.level) ELSE c
  BY DEF StoppedWaiting
<1> HIDE DEF c, r
<1>4. OnTime(c, s)
  BY <1>2, OnTimeSame
<1>5. OnTime(Timed(c, t, c.level), c)
  <2>1. c.level >= c.level
    BY <1>2
  <2> QED
    BY <1>2, <2>1, TimedOnTime
<1>6. OnTime(r, s)
  BY <1>3, <1>4, <1>5, OnTimeAgain
<1> QED
  BY <1>6 DEF r

LEMMA ToldOnTime ==
    ASSUME NEW s \in Data, NEW list \in Seq(Entry), TimerOK(s), NEW f, IsTold(f, s, list)
    PROVE  OnTime(f[Len(list)], s)
<1> DEFINE n == Len(list)
           N == {i \in 0 .. n : f[i] \in Data /\ TimerOK(f[i]) /\ OnTime(f[i], s)}
<1>1. n \in Nat
  OBVIOUS
<1>2. \A i \in 0 .. n : f[i] = IF i = 0 THEN s ELSE StoppedWaiting(f[i - 1], list[i][2])
  BY DEF IsTold
<1>3. 0 \in N
  <2>1. f[0] = s /\ 0 \in 0 .. n
    BY <1>1, <1>2
  <2> HIDE DEF n
  <2> QED
    BY <2>1, OnTimeSame
<1>4. ASSUME NEW i \in 1 .. n, i - 1 \in N PROVE i \in N
  <2> DEFINE x == f[i - 1]
             t == list[i][2]
  <2>1. x \in Data /\ TimerOK(x) /\ OnTime(x, s)
    BY <1>4
  <2>2. t \in Threads
    BY DEF Entry, Entries
  <2>3. f[i] = StoppedWaiting(x, t)
    BY <1>2
  <2> HIDE DEF x, t
  <2>4. f[i] \in Data /\ TimerOK(f[i]) /\ OnTime(f[i], x)
    BY <2>1, <2>2, <2>3, OneStopped, StoppedOnTime
  <2>5. OnTime(f[i], s)
    BY <2>1, <2>4, OnTimeAgain
  <2> QED
    BY <2>4, <2>5
<1> HIDE DEF N
<1>5. 0 .. n \subseteq N
  <2> HIDE DEF n
  <2> QED
    BY ONLY <1>1, <1>3, <1>4, Stepwise
<1>6. n \in N
  BY <1>1, <1>5
<1> QED
  BY <1>6 DEF N

LEMMA RemovedOnTime ==
    ASSUME NEW s \in Data, NEW gone
    PROVE  OnTime(Removed(s, gone), s)
<1> DEFINE r == Removed(s, gone)
           p == Removed_TimerKept(s, gone)
<1>1. p.timer = s.timer /\ p.level = s.level /\ DOMAIN p = DOMAIN s
  BY DEF Removed_TimerKept, Data
<1>2. r = [p EXCEPT !.timer = Kept(p.timer, Elements(Threads \ gone))]
  BY DEF Removed
<1>3. "timer" \in DOMAIN s
  BY DEF Data
<1> HIDE DEF p, r
<1>4. r.timer = Kept(s.timer, Elements(Threads \ gone)) /\ r.level = s.level
  BY <1>1, <1>2, <1>3
<1>5. OnTime(r, s)
  BY <1>4, KeptOnTime
<1> QED
  BY <1>5 DEF r

LEMMA DeleteOnTime ==
    ASSUME NEW s \in Data, Registered(s), TimerOK(s), NEW first \in SUBSET Listeners
    PROVE  OnTime(Delete(s, first), s)
<1> DEFINE gone == Doomed(s, first)
           freed == Freed(s, gone)
           b == Removed(s, gone)
           f == CHOOSE f : IsTold(f, b, freed)
           r == Delete(s, first)
<1>1. r = f[Len(freed)]
  BY DEF Delete, IsTold
<1>2. gone \in SUBSET Listeners
  BY DoomedListeners
<1> HIDE DEF gone
<1>3. freed \in Seq(Entry)
  BY <1>2, FreedFacts
<1> HIDE DEF freed
<1>4. b \in Data /\ TimerOK(b) /\ OnTime(b, s)
  BY <1>2, RemovedFacts, RemovedOnTime
<1> HIDE DEF b
<1>5. IsTold(f, b, freed)
  BY <1>3, <1>4, ToldExists
<1> HIDE DEF f, r
<1>6. OnTime(r, b)
  BY <1>1, <1>3, <1>4, <1>5, ToldOnTime
<1>7. OnTime(r, s)
  BY <1>4, <1>6, OnTimeAgain
<1> QED
  BY <1>7 DEF r

LEMMA CancelAllOnTime ==
    ASSUME NEW s \in Data, Lists(s), NEW t \in Threads, Suspended(s, Threads \ {t})
    PROVE  OnTime(CancelWaitingAll(s, t), s)
<1> DEFINE a == [s EXCEPT !.waitFor[t] = {},
                          !.notify = [l \in Listeners |->
                                        Kept(s.notify[l], Entries(AnyName, Threads \ {t}))]]
           b == StoppedWaiting(a, t)
           children == {c \in Threads : <<"0", c>> \in s.waitFor[t] /\ a.notify[c] = <<>>}
           r == CancelWaitingAll(s, t)
<1>1. CASE s.waitFor[t] = {}
  BY <1>1, OnTimeSame DEF CancelWaitingAll
<1>2. CASE s.waitFor[t] # {}
  <2>1. Alone(a, s, t)
    BY DEF Alone
  <2>2. r = Delete(b, children)
    <3>1. a = [s EXCEPT !.waitFor[t] = {},
                        !.notify = [l \in Listeners |->
                                      Kept(@[l], Entries(AnyName, Threads \ {t}))]]
      BY DEF Data
    <3> QED
      BY <3>1, <1>2 DEF CancelWaitingAll
  <2> HIDE DEF a
  <2>3. Lists(a) /\ IsAlone(a, s, t)
    BY <2>1, AloneFacts, AloneLists
  <2>4. /\ a \in Data /\ a.waitFor[t] = {} /\ \A y \in Threads \ {t} : a.waitFor[y] = s.waitFor[y]
        /\ a.state = s.state /\ a.timer = s.timer /\ a.level = s.level
    BY <2>3 DEF IsAlone
  <2>5. Suspended(a, Threads \ {t})
    BY <2>4 DEF Suspended
  <2>6. b \in Data /\ Lists(b)
    BY <2>3, <2>4, <2>5, StoppedLists
  <2>7. OnTime(b, a)
    BY <2>4, StoppedOnTime
  <2> HIDE DEF b
  <2>8. children \in SUBSET Listeners
    BY DEF Listeners
  <2> HIDE DEF children, r
  <2>9. OnTime(Delete(b, children), b)
    BY <2>6, <2>8, DeleteOnTime DEF Lists, TimerOK
  <2>10. OnTime(a, s)
    BY <2>4, OnTimeSame
  <2>11. OnTime(r, s)
    BY <2>2, <2>7, <2>9, <2>10, OnTimeAgain
  <2> QED
    BY <2>11 DEF r
<1> QED
  BY <1>1, <1>2

LEMMA StopOnTime ==
    ASSUME NEW s \in Data, Good(s), NEW t \in Threads
    PROVE  OnTime(Stop(s, t), s)
<1> DEFINE r == Stop(s, t)
<1>1. CASE s.state[t] = "WAITING"
  <2> DEFINE K == Kept(s.timer, Elements(Threads \ {t}))
             state == [s.state EXCEPT ![t] = "RUNNING"]
  <2>1. r = [s EXCEPT !.state = state, !.timer = K]
    BY <1>1 DEF Stop, Data
  <2> HIDE DEF K, state, r
  <2>2. r.timer = K /\ r.level = s.level
    BY <2>1 DEF Data
  <2>3. OnTime(r, s)
    BY <2>2, KeptOnTime DEF K
  <2> QED
    BY <2>3 DEF r
<1>2. CASE s.state[t] = "SUSPENDED"
  <2> DEFINE b == [s EXCEPT !.state[t] = "RUNNING"]
  <2>1. r = CancelWaitingAll(b, t)
    BY <1>2 DEF Stop
  <2>2. b \in Data /\ Lists(b)
    BY <1>2, StateChange DEF Good
  <2>3. /\ b.waitFor = s.waitFor /\ b.timer = s.timer /\ b.level = s.level
        /\ \A x \in Threads \ {t} : b.state[x] = s.state[x]
    BY DEF Data
  <2> HIDE DEF b, r
  <2>4. Suspended(b, Threads \ {t})
    BY <2>3 DEF Good, Suspended
  <2>5. OnTime(r, b)
    BY <2>1, <2>2, <2>4, CancelAllOnTime
  <2>6. OnTime(b, s)
    BY <2>3, OnTimeSame
  <2>7. OnTime(r, s)
    BY <2>5, <2>6, OnTimeAgain
  <2> QED
    BY <2>7 DEF r
<1>3. CASE s.state[t] = "RUNNING"
  BY <1>3, OnTimeSame DEF Stop
<1> QED
  BY <1>1, <1>2, <1>3 DEF Data, States

LEMMA SuspendOnTime ==
    ASSUME NEW s \in Data, NEW t \in Threads
    PROVE  OnTime(Suspend(s, t), s)
<1>1. Adjusts(Suspend(s, t), s, t)
  BY SuspendAdjusts
<1> QED
  BY <1>1, OnTimeSame DEF Adjusts

LEMMA WaitOnTime ==
    ASSUME NEW s \in Data, Good(s), NEW t \in Threads, t \in s.alive, NEW delay \in Delays
    PROVE  OnTime(Wait(s, t, delay), s)
<1> DEFINE p == Stop(s, t)
           time == s.level + delay
           q == Timed(p, t, time)
           u == Suspend(q, t)
           r == Wait(s, t, delay)
<1>1. r = [u EXCEPT !.asked[t] = {}, !.timed = u.timed \ {t}]
  BY DEF Wait
<1>2. Released(p, s, t) /\ p.state[t] = "RUNNING" /\ OnTime(p, s)
  BY StopFacts, StopOnTime
<1>3. p \in Data /\ Good(p) /\ t \in p.alive /\ p.waitFor[t] = {} /\ p.level = s.level
  BY <1>2 DEF Released
<1>4. time \in Int /\ time >= s.level
  <2>1. delay \in Nat /\ s.level \in Int
    BY ScriptThreadsAssumption DEF Data
  <2> QED
    BY <2>1
<1> HIDE DEF p, time
<1>5. q \in Data /\ OnTime(q, p)
  <2>1. Keeps(q, p)
    BY <1>2, <1>3, <1>4, TimedKeeps
  <2>2. OnTime(q, p)
    BY <1>3, <1>4, TimedOnTime
  <2> QED
    BY <2>1, <2>2 DEF Keeps
<1> HIDE DEF q
<1>6. u \in Data /\ OnTime(u, q)
  BY <1>5, SuspendAdjusts, SuspendOnTime DEF Adjusts
<1> HIDE DEF u, r
<1>7. r.timer = u.timer /\ r.level = u.level
  BY <1>1, <1>6 DEF Data
<1>8. OnTime(r, u)
  BY <1>7, OnTimeSame
<1>9. OnTime(r, s)
  BY <1>2, <1>5, <1>6, <1>8, OnTimeAgain
<1> QED
  BY <1>9 DEF r

LEMMA RegisterOnTime ==
    ASSUME NEW s \in Data, Good(s), NEW t \in Threads, NEW waits
    PROVE  OnTime(Register(s, t, waits), s)
<1> DEFINE p == Stop(s, t)
           b == [p EXCEPT !.state[t] = "SUSPENDED"]
           u == Suspend(b, t)
           notify == [l \in Listeners |->
                        u.notify[l] \o SetToSeq({<<w[1], t>> : w \in {x \in waits : x[2] = l}})]
           r == Register(s, t, waits)
<1>1. Released(p, s, t) /\ OnTime(p, s)
  BY StopFacts, StopOnTime
<1>2. p \in Data
  BY <1>1 DEF Released
<1>3. r = [u EXCEPT !.waitFor[t] = waits, !.notify = notify]
  BY DEF Register
<1> HIDE DEF p
<1>4. b \in Data /\ b.timer = p.timer /\ b.level = p.level
  BY <1>2 DEF Data, States
<1> HIDE DEF b
<1>5. u \in Data /\ OnTime(u, b)
  BY <1>4, SuspendAdjusts, SuspendOnTime DEF Adjusts
<1> HIDE DEF u, notify, r
<1>6. r.timer = u.timer /\ r.level = u.level
  BY <1>3, <1>5 DEF Data
<1>7. OnTime(b, p) /\ OnTime(r, u)
  BY <1>4, <1>6, OnTimeSame
<1>8. OnTime(r, s)
  BY <1>1, <1>5, <1>7, OnTimeAgain
<1> QED
  BY <1>8 DEF r

LEMMA AsksOnTime ==
    ASSUME NEW s \in Data, Good(s), NEW t \in Threads, t \in s.alive,
           NEW waits, Targets(s, t, waits), NEW r, NEW x,
           UntimedWait(r, s, t, waits, x) \/ TimedWait(r, s, t, waits, x)
    PROVE  OnTime(r, s)
<1> DEFINE p == Register(s, t, waits)
<1>1. p \in Data /\ OnTime(p, s)
  BY RegisterFacts, RegisterOnTime DEF Waiting
<1>2. \/ r = [p EXCEPT !.asked[t] = x, !.timed = @ \ {t}]
      \/ r = [p EXCEPT !.timeouts = @ \cup x, !.asked[t] = {}, !.timed = @ \cup {t}]
  BY DEF UntimedWait, TimedWait
<1> HIDE DEF p
<1>3. r.timer = p.timer /\ r.level = p.level
  BY <1>1, <1>2 DEF Data
<1>4. OnTime(r, p)
  BY <1>3, OnTimeSame
<1> QED
  BY <1>1, <1>4, OnTimeAgain

LEMMA NewOnTime ==
    ASSUME NEW s \in Data, NEW t \in Threads
    PROVE  OnTime(New(s, t), s)
<1>1. New(s, t).timer = s.timer /\ New(s, t).level = s.level
  BY DEF New, Data
<1> QED
  BY <1>1, OnTimeSame

LEMMA StartedOnTime ==
    ASSUME NEW s \in Data, Good(s), NEW t \in Threads
    PROVE  OnTime(Started(s, t), s)
<1> DEFINE p == Stop(s, t)
           r == Started(s, t)
<1>1. Released(p, s, t) /\ OnTime(p, s)
  BY StopFacts, StopOnTime
<1>2. p \in Data
  BY <1>1 DEF Released
<1>3. r = [p EXCEPT !.vm[t] = "RUNNING"]
  BY DEF Started
<1> HIDE DEF p, r
<1>4. r.timer = p.timer /\ r.level = p.level
  BY <1>2, <1>3 DEF Data
<1>5. OnTime(r, s)
  BY <1>1, <1>4, OnTimeSame, OnTimeAgain
<1> QED
  BY <1>5 DEF r

LEMMA AnnouncedOnTime ==
    ASSUME NEW s \in Data, Good(s), NEW o \in Objects, NEW n
    PROVE  OnTime(Announced(s, o, n), s)
<1> DEFINE ends == [s.ends EXCEPT ![o] = {e \in s.ends[o] : e[1] # n}]
           b == [s EXCEPT !.ends = ends]
           first == {e[2] : e \in {x \in s.ends[o] : x[1] = n}}
           p == Ended(s, o, n)
           r == Announced(s, o, n)
<1>1. p = Delete(b, first)
  <2>1. b = [s EXCEPT !.ends[o] = {e \in @ : e[1] # n}]
    BY DEF Data
  <2> QED
    BY <2>1 DEF Ended
<1>2. ends \in [Objects -> SUBSET (Names \X Threads)]
  BY DEF Data
<1>3. first \in SUBSET Listeners
  BY DEF Data, Listeners
<1>4. p \in Data
  BY EndedFacts DEF Keeps
<1>5. r = [p EXCEPT !.notify[o] = Kept(@, Entries(AnyName \ {n}, Threads)),
                    !.waitFor = [t \in Threads |-> @[t] \ {<<n, o>>}]]
  BY DEF Announced
<1> HIDE DEF ends, first, p, r
<1>6. b \in Data
  BY <1>2 DEF Data
<1>7. /\ b.notify = s.notify /\ b.waitFor = s.waitFor /\ b.state = s.state
      /\ b.timer = s.timer /\ b.inttime = s.inttime /\ b.dirty = s.dirty /\ b.level = s.level
  BY DEF Data
<1> HIDE DEF b
<1>8. TimerOK(b)
  BY <1>7 DEF Good, Lists, TimerOK, TimerAgrees, TimerDirty
<1>9. Registered(b)
  <2>1. Registered(s)
    BY DEF Good, Lists
  <2> QED
    BY <2>1, <1>7 DEF Registered
<1>10. OnTime(p, b) /\ OnTime(b, s)
  BY <1>1, <1>3, <1>6, <1>7, <1>8, <1>9, DeleteOnTime, OnTimeSame
<1>11. r.timer = p.timer /\ r.level = p.level
  BY <1>4, <1>5 DEF Data
<1>12. OnTime(r, s)
  BY <1>10, <1>11, OnTimeSame, OnTimeAgain
<1> QED
  BY <1>12 DEF r

\* The thread that is taken is the one whose time is the earliest.
LEMMA TakenOnTime ==
    ASSUME NEW s \in Data, Due(s) # {}, NEW r, Taken(r, s, NextElement(s.timer, Due(s)))
    PROVE  /\ NextElement(s.timer, Due(s)) \in DOMAIN s.timer
           /\ r.level = s.timer[NextElement(s.timer, Due(s))].time
           /\ Late(r)
<1> DEFINE q == s.timer
           due == Due(s)
           i == NextElement(q, due)
           n == Len(q)
           R == RemoveAt(q, i)
           level == q[i].time
           state == [s.state EXCEPT ![q[i].thread] = "RUNNING"]
           vm == [s.vm EXCEPT ![q[i].thread] = "RUNNING"]
<1>1. q \in Seq(Elements(Threads)) /\ s.inttime \in Int
  BY DEF Data
<1>2. /\ due \in SUBSET DOMAIN q /\ due # {}
      /\ \A j \in DOMAIN q : j \in due \/ ~(q[j].time <= s.inttime)
      /\ \A j \in due : q[j].time <= s.inttime
  BY DEF Due
<1>3. r = [s EXCEPT !.timer = R, !.level = level, !.state = state, !.vm = vm]
  BY DEF Taken
<1> HIDE DEF state, vm, R, level
<1>4. r.timer = R /\ r.level = level
  BY <1>3 DEF Data
<1> HIDE DEF q, due
<1>5. i \in due /\ \A j \in due : q[i].time < q[j].time \/ (q[i].time = q[j].time /\ i <= j)
  BY <1>1, <1>2, FirstExists DEF NextElement
<1> HIDE DEF i
<1>6. i \in DOMAIN q
  BY <1>2, <1>5
<1>7. /\ DOMAIN R = 1 .. n - 1
      /\ \A k \in 1 .. n - 1 : R[k] = q[IF k < i THEN k ELSE k + 1]
  BY <1>1, <1>6, ElementRemoved DEF R
<1>8. n \in Nat /\ DOMAIN q = 1 .. n /\ \A j \in 1 .. n : q[j].time \in Int
  <2>1. n \in Nat /\ DOMAIN q = 1 .. n /\ \A j \in 1 .. n : q[j] \in Elements(Threads)
    BY <1>1
  <2> QED
    BY <2>1 DEF Elements
<1> HIDE DEF n
<1>9. ASSUME NEW j \in 1 .. n PROVE q[j].time >= level
  <2>1. q[j].time \in Int /\ q[i].time \in Int /\ level = q[i].time /\ q[i].time <= s.inttime
    BY <1>2, <1>5, <1>6, <1>8 DEF level
  <2>2. CASE j \in due
    <3>1. q[i].time < q[j].time \/ q[i].time = q[j].time
      BY <2>2, <1>5
    <3> QED
      BY <3>1, <2>1
  <2>3. CASE j \notin due
    <3>1. ~(q[j].time <= s.inttime)
      BY <2>3, <1>2, <1>8
    <3> QED
      BY <3>1, <2>1, <1>1
  <2> QED
    BY <2>2, <2>3
<1>10. ASSUME NEW k \in 1 .. n - 1 PROVE R[k].time >= level
  <2>1. (IF k < i THEN k ELSE k + 1) \in 1 .. n
    BY <1>8
  <2> QED
    BY <2>1, <1>7, <1>9
<1>11. Late(r)
  BY <1>4, <1>7, <1>10 DEF Late
<1> QED
  BY <1>4, <1>6, <1>11 DEF i, q, due, level

-----------------------------------------------------------------------------
(* The calls of ExecuteRunning that have run a thread.                     *)

IsLoop(f) == f.kind = "running" /\ f.start # None
Loops(st) == {i \in DOMAIN st : IsLoop(st[i])}

\* Such a call has run a thread, which is next on the stack, or has returned.
Followed(st) == \A i \in Loops(st) : i < Len(st) => st[i + 1].kind = "vm"

\* u has no such call that st has not.
Covers(u, st) ==
    /\ u \in Seq(Frames)
    /\ Loops(u) \subseteq Loops(st)
    /\ Followed(st) => Followed(u)

LEMMA CoversAgain ==
    ASSUME NEW st, NEW u, NEW v, Covers(u, st), Covers(v, u)
    PROVE  Covers(v, st)
BY DEF Covers

LEMMA CoversSame ==
    ASSUME NEW st \in Seq(Frames)
    PROVE  Covers(st, st)
BY DEF Covers

LEMMA PushedLoops ==
    ASSUME NEW st \in Seq(Frames), st = <<>> \/ ~IsLoop(Last(st)), NEW f \in Frames, ~IsLoop(f)
    PROVE  LET u == Append(st, f)
           IN  Covers(u, st) /\ u # <<>> /\ Last(u) = f
<1> DEFINE u == Append(st, f)
           n == Len(st)
<1>1. n \in Nat /\ DOMAIN st = 1 .. n
  OBVIOUS
<1>2. /\ u \in Seq(Frames) /\ Len(u) = n + 1 /\ DOMAIN u = 1 .. n + 1 /\ u[n + 1] = f
      /\ \A i \in 1 .. n : u[i] = st[i]
  OBVIOUS
<1>3. n \in 1 .. n => ~IsLoop(st[n])
  <2>1. st # <<>> => Last(st) = st[n]
    BY DEF Last
  <2>2. n \in 1 .. n => st # <<>>
    BY <1>1
  <2> QED
    BY <2>1, <2>2
<1>4. u # <<>> /\ Last(u) = f
  BY <1>2 DEF Last
<1> HIDE DEF u, n
<1>5. ASSUME NEW i \in Loops(u) PROVE i \in Loops(st) /\ i < n
  <2>1. i \in 1 .. n + 1 /\ IsLoop(u[i])
    BY <1>2 DEF Loops
  <2>2. i \in 1 .. n
    BY <2>1, <1>1, <1>2
  <2>3. i \in Loops(st) /\ i # n
    BY <2>1, <2>2, <1>1, <1>2, <1>3 DEF Loops
  <2> QED
    BY <2>2, <2>3, <1>1
<1>6. ASSUME Followed(st), NEW i \in Loops(u), i < Len(u) PROVE u[i + 1].kind = "vm"
  <2>1. i \in 1 .. n + 1 /\ i < n /\ i \in Loops(st)
    BY <1>2, <1>5, <1>6 DEF Loops
  <2>2. st[i + 1].kind = "vm"
    BY <2>1, <1>6 DEF Followed, n
  <2>3. i + 1 \in 1 .. n
    BY <2>1, <1>1
  <2> QED
    BY <2>2, <2>3, <1>2
<1>7. Covers(u, st)
  BY <1>2, <1>5, <1>6 DEF Covers, Followed
<1> QED
  BY <1>4, <1>7 DEF u

\* A frame that is no ExecuteRunning, and is replaced by one of its kind.
LEMMA ReplacedLoops ==
    ASSUME NEW st \in Seq(Frames), st # <<>>, Last(st).kind # "running",
           NEW f \in Frames, f.kind = Last(st).kind
    PROVE  LET u == [st EXCEPT ![Len(st)] = f]
           IN  Covers(u, st) /\ u # <<>> /\ Last(u) = f
<1> DEFINE u == [st EXCEPT ![Len(st)] = f]
           n == Len(st)
<1>1. n \in Nat /\ n \in 1 .. n /\ DOMAIN st = 1 .. n /\ Last(st) = st[n]
  BY DEF Last
<1>2. /\ u \in Seq(Frames) /\ Len(u) = n /\ DOMAIN u = 1 .. n /\ u[n] = f
      /\ \A i \in 1 .. n : i # n => u[i] = st[i]
  <2>1. st \in [1 .. n -> Frames] /\ u = [st EXCEPT ![n] = f]
    BY <1>1
  <2> HIDE DEF Frames, u, n
  <2>2. u \in [1 .. n -> Frames] /\ u[n] = f /\ \A i \in 1 .. n : i # n => u[i] = st[i]
    BY <1>1, <2>1
  <2> QED
    BY <1>1, <2>2
<1> HIDE DEF u, n
<1>3. u # <<>> /\ Last(u) = f
  <2>1. u # <<>>
    BY <1>1, <1>2
  <2> QED
    BY <2>1, <1>2 DEF Last
<1>4. ASSUME NEW i \in Loops(u) PROVE i \in Loops(st)
  BY <1>1, <1>2, <1>4 DEF Loops, IsLoop
<1>5. ASSUME Followed(st), NEW i \in Loops(u), i < Len(u) PROVE u[i + 1].kind = "vm"
  <2>1. i \in 1 .. n /\ i < n /\ i \in Loops(st)
    BY <1>2, <1>4, <1>5 DEF Loops
  <2>2. st[i + 1].kind = "vm"
    BY <2>1, <1>5 DEF Followed, n
  <2>3. i + 1 \in 1 .. n
    BY <2>1, <1>1
  <2>4. u[i + 1].kind = st[i + 1].kind
    <3>1. CASE i + 1 = n
      BY <3>1, <1>1, <1>2
    <3>2. CASE i + 1 # n
      BY <3>2, <2>3, <1>2
    <3> QED
      BY <3>1, <3>2
  <2> QED
    BY <2>2, <2>4
<1>6. Covers(u, st)
  BY <1>2, <1>4, <1>5 DEF Covers, Followed
<1> QED
  BY <1>3, <1>6 DEF u

LEMMA PoppedLoops ==
    ASSUME NEW st \in Seq(Frames), st # <<>>
    PROVE  Covers(Front(st), st)
<1> DEFINE u == Front(st)
           n == Len(st)
<1>1. n \in Nat /\ n > 0 /\ DOMAIN st = 1 .. n
  OBVIOUS
<1>2. u \in Seq(Frames) /\ Len(u) = n - 1 /\ DOMAIN u = 1 .. n - 1 /\ \A i \in 1 .. n - 1 : u[i] = st[i]
  BY <1>1 DEF Front
<1> HIDE DEF u, n
<1>3. \A i \in Loops(u) : i \in 1 .. n - 1 /\ i \in Loops(st)
  BY <1>1, <1>2 DEF Loops
<1>4. ASSUME Followed(st), NEW i \in Loops(u), i < Len(u) PROVE u[i + 1].kind = "vm"
  <2>1. i \in 1 .. n - 1 /\ i < n - 1 /\ i \in Loops(st)
    BY <1>2, <1>3, <1>4
  <2>2. i < n /\ i + 1 \in 1 .. n - 1
    BY <2>1, <1>1
  <2>3. st[i + 1].kind = "vm"
    BY <2>1, <2>2, <1>4 DEF Followed, n
  <2> QED
    BY <2>2, <2>3, <1>2
<1>5. Covers(u, st)
  BY <1>2, <1>3, <1>4 DEF Covers, Followed
<1> QED
  BY <1>5 DEF u

\* ExecuteRunning has run nobody when it is called.
LEMMA FramesLoop ==
    ASSUME NEW f \in Frames, f.kind # "running" \/ f = ExecuteRunning
    PROVE  ~IsLoop(f)
BY DEF IsLoop, ExecuteRunning

LEMMA CalledLoops ==
    ASSUME NEW st \in Seq(Frames), st = <<>> \/ ~IsLoop(Last(st)), NEW t \in Threads
    PROVE  Covers(st \o Call(t), st)
<1> DEFINE u == Append(st, ExecuteRunning)
<1>1. ExecuteRunning \in Frames /\ Run(t) \in Frames /\ Run(t).kind # "running"
  BY FramesOf
<1>2. ~IsLoop(ExecuteRunning) /\ ~IsLoop(Run(t))
  BY <1>1, FramesLoop
<1>3. st \o Call(t) = Append(u, Run(t))
  BY <1>1 DEF Call
<1>4. Covers(u, st) /\ u # <<>> /\ Last(u) = ExecuteRunning
  BY <1>1, <1>2, PushedLoops
<1> HIDE DEF u
<1>5. Covers(Append(u, Run(t)), u)
  BY <1>1, <1>2, <1>4, PushedLoops DEF Covers
<1> QED
  BY <1>3, <1>4, <1>5, CoversAgain

\* While ExecuteRunning runs threads, nobody is to run before the time it is now.
TimeInv == Followed(stack) /\ (Loops(stack) # {} => Late(d))

LEMMA TimeStep ==
    ASSUME TimeInv, OnTime(d', d), Covers(stack', stack)
    PROVE  TimeInv'
BY DEF TimeInv, OnTime, Covers

LEMMA NoLoops ==
    ASSUME Covers(stack', <<>>)
    PROVE  TimeInv'
<1>1. DOMAIN <<>> = {}
  OBVIOUS
<1>2. Loops(<<>>) = {}
  BY <1>1 DEF Loops
<1>3. Followed(<<>>)
  BY <1>2 DEF Followed
<1> QED
  BY <1>2, <1>3 DEF TimeInv, Covers

\* What is known of the stack while a thread runs.
RunningCall ==
    /\ Covers(Used, stack) /\ Covers(stack, stack)
    /\ stack \in Seq(Frames) /\ Used \in Seq(Frames)
    /\ ~IsLoop(Last(stack)) /\ ~IsLoop(Last(Used))

LEMMA RunsInCall ==
    ASSUME ListInv, Runs
    PROVE  Running /\ RunningCall
<1> DEFINE f == Last(stack)
           used == [f EXCEPT !.left = @ - 1]
<1>1. Running
  BY RunsFacts
<1>2. stack \in Seq(Frames) /\ stack # <<>> /\ f \in Frames /\ f.kind = "vm"
  BY TopFrame DEF Runs, TopIs
<1>3. f \in [kind : {"vm"}, thread : Threads, left : Int]
  BY <1>2 DEF Frames
<1>4. used \in Frames /\ used.kind = "vm"
  BY <1>3 DEF Frames
<1>5. Used = [stack EXCEPT ![Len(stack)] = used]
  BY DEF Used, Top
<1> HIDE DEF used, f
<1>6. Covers(Used, stack) /\ Last(Used) = used
  BY <1>2, <1>4, <1>5, ReplacedLoops DEF f
<1>7. ~IsLoop(f) /\ ~IsLoop(used)
  BY <1>2, <1>4, FramesLoop
<1> QED
  BY <1>1, <1>2, <1>6, <1>7, CoversSame DEF RunningCall, Covers, f

-----------------------------------------------------------------------------
(* The commands of a thread, and time.                                     *)

LEMMA TimeAfterEnd == ListInv /\ TimeInv /\ EventEnd => TimeInv'
<1> SUFFICES ASSUME ListInv, TimeInv, EventEnd PROVE TimeInv'
  OBVIOUS
<1>1. Running /\ RunningCall
  BY RunsInCall DEF EventEnd
<1>2. d \in Data /\ Registered(d) /\ TimerOK(d) /\ {Current} \in SUBSET Listeners
  BY <1>1 DEF Running, Listeners, Good, Lists, TimerOK
<1>3. OnTime(Delete(d, {Current}), d)
  BY <1>2, DeleteOnTime
<1> QED
  BY <1>1, <1>3, TimeStep DEF EventEnd, RunningCall

LEMMA TimeAfterRemove ==
    ASSUME ListInv, TimeInv, NEW l \in Listeners, ImmediateRemove(l)
    PROVE  TimeInv'
<1>1. Running /\ RunningCall
  BY RunsInCall DEF ImmediateRemove
<1>2. d \in Data /\ Registered(d) /\ TimerOK(d) /\ {l} \in SUBSET Listeners
  BY <1>1 DEF Running, Good, Lists, TimerOK
<1>3. OnTime(Delete(d, {l}), d)
  BY <1>2, DeleteOnTime
<1> QED
  BY <1>1, <1>3, TimeStep DEF ImmediateRemove, RunningCall

LEMMA TimeAfterWait == ListInv /\ TimeInv /\ EventWait => TimeInv'
<1> SUFFICES ASSUME ListInv, TimeInv, EventWait PROVE TimeInv'
  OBVIOUS
<1>1. Running /\ RunningCall
  BY RunsInCall DEF EventWait
<1>2. PICK delay \in Delays : d' = Wait(d, Current, delay)
  BY DEF EventWait
<1>3. OnTime(d', d)
  BY <1>1, <1>2, WaitOnTime DEF Running
<1> QED
  BY <1>1, <1>3, TimeStep DEF EventWait, RunningCall

LEMMA TimeAfterWaitOther ==
    ASSUME ListInv, TimeInv, NEW t \in Threads, EventWaitOther(t)
    PROVE  TimeInv'
<1>1. Running /\ RunningCall
  BY RunsInCall DEF EventWaitOther
<1>2. PICK delay \in Delays : d' = Wait(d, t, delay)
  BY DEF EventWaitOther
<1>3. OnTime(d', d)
  BY <1>1, <1>2, WaitOnTime DEF Running, EventWaitOther
<1> QED
  BY <1>1, <1>3, TimeStep DEF EventWaitOther, RunningCall

\* The running thread waits for names of objects.
LEMMA TimeAsks ==
    ASSUME ListInv, TimeInv, Runs, NEW waits \in SUBSET (AnyName \X (d.alive \cap Objects)), NEW x,
           UntimedWait(d', d, Current, waits, x) \/ TimedWait(d', d, Current, waits, x),
           stack' = stack
    PROVE  TimeInv'
<1>1. Running /\ RunningCall
  BY RunsInCall
<1>2. Targets(d, Current, waits)
  BY ObjectTargets
<1>3. OnTime(d', d)
  BY <1>1, <1>2, AsksOnTime DEF Running
<1> QED
  BY <1>1, <1>3, TimeStep DEF RunningCall

LEMMA TimeAfterWaitTill == ListInv /\ TimeInv /\ WaitTill => TimeInv'
<1> SUFFICES ASSUME ListInv, TimeInv, WaitTill PROVE TimeInv'
  OBVIOUS
<1>1. PICK n \in Names, targets \in SUBSET (d.alive \cap Objects) :
        d' = [Register(d, Current, {n} \X targets) EXCEPT
                    !.asked[Current] = {}, !.timed = @ \ {Current}]
  BY DEF WaitTill
<1> DEFINE waits == {n} \X targets
<1>2. waits \in SUBSET (AnyName \X (d.alive \cap Objects))
  BY DEF AnyName
<1>3. UntimedWait(d', d, Current, waits, {})
  BY <1>1 DEF UntimedWait
<1> HIDE DEF waits
<1> QED
  BY <1>2, <1>3, TimeAsks DEF WaitTill

LEMMA TimeAfterWaitTillAny == ListInv /\ TimeInv /\ WaitTillAny => TimeInv'
<1> SUFFICES ASSUME ListInv, TimeInv, WaitTillAny PROVE TimeInv'
  OBVIOUS
<1>1. PICK o \in d.alive \cap Objects :
        d' = [Register(d, Current, Names \X {o}) EXCEPT
                 !.asked[Current] = Names \X {o}, !.timed = @ \ {Current}]
  BY DEF WaitTillAny
<1> DEFINE waits == Names \X {o}
<1>2. waits \in SUBSET (AnyName \X (d.alive \cap Objects))
  BY DEF AnyName
<1>3. UntimedWait(d', d, Current, waits, waits)
  BY <1>1 DEF UntimedWait
<1> HIDE DEF waits
<1> QED
  BY <1>2, <1>3, TimeAsks DEF WaitTillAny

LEMMA TimeAfterWaitTillTimeout == ListInv /\ TimeInv /\ WaitTillTimeout => TimeInv'
<1> SUFFICES ASSUME ListInv, TimeInv, WaitTillTimeout PROVE TimeInv'
  OBVIOUS
<1>1. PICK n \in Names, o \in d.alive \cap Objects, delay \in Delays \ {0} :
        d' = [Register(d, Current, {<<n, o>>}) EXCEPT
                 !.timeouts = @ \cup {[thread |-> Current, time |-> d.level + delay]},
                 !.asked[Current] = {}, !.timed = @ \cup {Current}]
  BY DEF WaitTillTimeout
<1> DEFINE waits == {<<n, o>>}
           events == {[thread |-> Current, time |-> d.level + delay]}
<1>2. waits \in SUBSET (AnyName \X (d.alive \cap Objects))
  BY DEF AnyName
<1>3. TimedWait(d', d, Current, waits, events)
  BY <1>1 DEF TimedWait
<1> HIDE DEF waits, events
<1> QED
  BY <1>2, <1>3, TimeAsks DEF WaitTillTimeout

LEMMA TimeAfterWaitMove == ListInv /\ TimeInv /\ WaitMove => TimeInv'
<1> SUFFICES ASSUME ListInv, TimeInv, WaitMove PROVE TimeInv'
  OBVIOUS
<1>1. PICK o \in d.alive \cap Objects :
        d' = [Register(d, Current, {<<"0", o>>}) EXCEPT
                 !.asked[Current] = {}, !.timed = @ \ {Current}]
  BY DEF WaitMove
<1> DEFINE waits == {<<"0", o>>}
<1>2. waits \in SUBSET (AnyName \X (d.alive \cap Objects))
  BY DEF AnyName
<1>3. UntimedWait(d', d, Current, waits, {})
  BY <1>1 DEF UntimedWait
<1> HIDE DEF waits
<1> QED
  BY <1>2, <1>3, TimeAsks DEF WaitMove

LEMMA TimeAfterEndOn ==
    ASSUME ListInv, TimeInv, NEW o \in Objects, EventEndOn(o)
    PROVE  TimeInv'
<1>1. Running /\ RunningCall
  BY RunsInCall DEF EventEndOn
<1>2. PICK n \in Names : d' = [d EXCEPT !.ends[o] = @ \cup {<<n, Current>>}]
  BY DEF EventEndOn
<1>3. d'.timer = d.timer /\ d'.level = d.level
  BY <1>1, <1>2 DEF Running, Data
<1> QED
  BY <1>1, <1>3, OnTimeSame, TimeStep DEF EventEndOn, RunningCall

LEMMA TimeAfterUnregister ==
    ASSUME ListInv, TimeInv, NEW o \in Objects, EventUnregister(o)
    PROVE  TimeInv'
<1>1. Running /\ RunningCall
  BY RunsInCall DEF EventUnregister
<1>2. PICK n \in Names : /\ d' = Announced(d, o, n)
                         /\ stack' = Append(Used, Wake(n, Woken(d, o, n)))
  BY DEF EventUnregister
<1>3. n \in AnyName /\ d \in Data /\ Good(d)
  BY <1>1 DEF AnyName, Running
<1> DEFINE list == Woken(d, o, n)
           f == Wake(n, list)
<1>4. list \in Seq(Threads)
  BY <1>3, AnnouncedFacts DEF Announces
<1> HIDE DEF list
<1>5. f \in Frames /\ f.kind = "wake"
  BY <1>3, <1>4 DEF Wake, Frames
<1>6. OnTime(d', d)
  BY <1>2, <1>3, AnnouncedOnTime
<1>7. stack' = Append(Used, f)
  BY <1>2 DEF list
<1> HIDE DEF f
<1>8. Covers(stack', Used)
  BY <1>1, <1>5, <1>7, FramesLoop, PushedLoops DEF RunningCall
<1>9. Covers(stack', stack)
  BY <1>1, <1>8, CoversAgain DEF RunningCall
<1> QED
  BY <1>6, <1>9, TimeStep

LEMMA TimeAfterExecute ==
    ASSUME ListInv, TimeInv, NEW t \in Threads, ExecuteThreadInternal(t)
    PROVE  TimeInv'
<1> DEFINE s == New(d, t)
<1>1. Running /\ RunningCall
  BY RunsInCall DEF ExecuteThreadInternal
<1>2. t \in Threads \ d.alive /\ d' = Started(s, t) /\ stack' = Used \o Call(t)
  BY DEF ExecuteThreadInternal, Unused
<1>3. Keeps(s, d) /\ OnTime(s, d)
  BY <1>1, <1>2, NewKeeps, NewOnTime DEF Running
<1> HIDE DEF s
<1>4. OnTime(d', s)
  BY <1>2, <1>3, StartedOnTime DEF Keeps
<1>5. OnTime(d', d)
  BY <1>3, <1>4, OnTimeAgain
<1>6. Covers(stack', Used)
  BY <1>1, <1>2, CalledLoops DEF RunningCall
<1>7. Covers(stack', stack)
  BY <1>1, <1>6, CoversAgain DEF RunningCall
<1> QED
  BY <1>5, <1>7, TimeStep

LEMMA TimeAfterWaitExecute ==
    ASSUME ListInv, TimeInv, NEW t \in Threads, WaitExecuteThreadInternal(t)
    PROVE  TimeInv'
<1> DEFINE c == Current
           s == New(d, t)
           waits == {<<"0", t>>}
           b == [Register(s, c, waits) EXCEPT !.asked[c] = {}, !.timed = @ \ {c}]
<1>1. Running /\ RunningCall
  BY RunsInCall DEF WaitExecuteThreadInternal
<1>2. t \in Threads \ d.alive /\ t # c /\ d' = Started(b, t) /\ stack' = stack \o Call(t)
  BY <1>1, CurrentInUse DEF WaitExecuteThreadInternal
<1>3. /\ Keeps(s, d) /\ s.alive = d.alive \cup {t} /\ s.notify[t] = <<>> /\ s.waitFor[t] = {}
      /\ OnTime(s, d)
  BY <1>1, <1>2, NewKeeps, NewOnTime DEF Running
<1> HIDE DEF s
<1>4. s \in Data /\ Good(s) /\ c \in Threads /\ c \in s.alive /\ {} \in SUBSET Waited
  BY <1>1, <1>3 DEF Keeps, Running
<1>5. Targets(s, c, waits)
  BY <1>2, <1>3 DEF Targets, Waited, AnyName, Listeners
<1> HIDE DEF waits, c, b
<1>6. b = [Register(s, c, waits) EXCEPT !.asked[c] = {}, !.timed = @ \ {c}]
  BY DEF b
<1>7. b \in Data /\ Good(b)
  <2>1. Keeps(b, s)
    BY <1>4, <1>5, <1>6, AsksUntimed
  <2> QED
    BY <2>1 DEF Keeps
<1>8. OnTime(b, s)
  <2>1. UntimedWait(b, s, c, waits, {})
    BY <1>6 DEF UntimedWait
  <2> QED
    BY <1>4, <1>5, <2>1, AsksOnTime
<1>9. OnTime(d', b)
  BY <1>2, <1>7, StartedOnTime
<1>10. OnTime(d', d)
  BY <1>3, <1>8, <1>9, OnTimeAgain
<1>11. Covers(stack', stack)
  BY <1>1, <1>2, CalledLoops DEF RunningCall
<1> QED
  BY <1>10, <1>11, TimeStep

LEMMA TimeAfterCommand == ListInv /\ TimeInv /\ (Command \/ WaitMove) => TimeInv'
BY TimeAfterEnd, TimeAfterWait, TimeAfterWaitTill, TimeAfterWaitTillTimeout,
   TimeAfterWaitTillAny, TimeAfterWaitMove, TimeAfterWaitOther, TimeAfterExecute,
   TimeAfterWaitExecute, TimeAfterEndOn, TimeAfterUnregister, TimeAfterRemove DEF Command

-----------------------------------------------------------------------------
(* Calls return, and time passes.  What ListInv and RunInv say of the      *)
(* stack leaves one ExecuteRunning that runs threads.                      *)

LEMMA TimeAfterReturn == ListInv /\ TimeInv /\ Return => TimeInv'
<1> SUFFICES ASSUME ListInv, TimeInv, Return PROVE TimeInv'
  OBVIOUS
<1>1. stack \in Seq(Frames) /\ stack # <<>> /\ d \in Data
  BY TopFrame DEF ListInv, Holds, Return, TopIs
<1> DEFINE vm == [d.vm EXCEPT ![Current] = IF @ = "SUSPENDED" THEN "EXECUTION" ELSE "none"]
<1>2. d' = [d EXCEPT !.vm = vm] /\ stack' = Front(stack)
  BY <1>1 DEF Return, Data
<1> HIDE DEF vm
<1>3. d'.timer = d.timer /\ d'.level = d.level
  BY <1>1, <1>2 DEF Data
<1> QED
  BY <1>1, <1>2, <1>3, PoppedLoops, OnTimeSame, TimeStep

LEMMA TimeAfterAllTold == ListInv /\ TimeInv /\ AllTold => TimeInv'
<1> SUFFICES ASSUME ListInv, TimeInv, AllTold PROVE TimeInv'
  OBVIOUS
<1>1. stack \in Seq(Frames) /\ stack # <<>>
  BY TopFrame DEF AllTold, TopIs
<1>2. OnTime(d, d)
  BY OnTimeSame
<1> QED
  BY <1>1, <1>2, PoppedLoops, TimeStep DEF AllTold

\* The loop of ExecuteRunning is the only one.
LEMMA OneLoop ==
    ASSUME ListInv, RunInv, TimeInv, TopIs("running"), Looping
    PROVE  Loops(stack) \subseteq {Len(stack)}
<1> SUFFICES ASSUME NEW i \in Loops(stack), i # Len(stack) PROVE FALSE
  OBVIOUS
<1>1. stack \in Seq(Frames)
  BY TopFrame DEF TopIs
<1>2. i < Len(stack) /\ i + 1 \in DOMAIN stack
  <2>1. Len(stack) \in Nat /\ DOMAIN stack = 1 .. Len(stack) /\ i \in DOMAIN stack
    BY <1>1 DEF Loops
  <2> QED
    BY <2>1
<1>3. stack[i + 1].kind = "vm"
  BY <1>2 DEF TimeInv, Followed
<1>4. On(stack, stack[i + 1].thread)
  BY <1>2, <1>3 DEF On, IsRun
<1> QED
  BY <1>4, NobodyRuns

LEMMA TimeAfterRunningEnds == ListInv /\ RunInv /\ TimeInv /\ RunningEnds => TimeInv'
<1> SUFFICES ASSUME ListInv, RunInv, TimeInv, RunningEnds PROVE TimeInv'
  OBVIOUS
<1>1. /\ stack \in Seq(Frames) /\ stack # <<>> /\ TopIs("running") /\ stack' = Front(stack)
  BY TopFrame DEF RunningEnds, TopIs
<1>2. Covers(stack', stack)
  BY <1>1, PoppedLoops
<1>3. CASE ~Looping
  <2>1. d' = d
    BY <1>3 DEF RunningEnds
  <2>2. OnTime(d', d)
    BY <2>1, OnTimeSame
  <2> QED
    BY <1>2, <2>2, TimeStep
<1>4. CASE Looping
  <2>1. Loops(stack) \subseteq {Len(stack)}
    BY <1>1, <1>4, OneLoop
  <2>2. Len(stack) \notin DOMAIN Front(stack)
    <3> DEFINE n == Len(stack)
               u == Front(stack)
    <3>1. n \in Nat /\ n > 0 /\ DOMAIN stack = 1 .. n
      BY <1>1
    <3>2. DOMAIN u = 1 .. n - 1
      BY <1>1, <3>1 DEF Front
    <3> HIDE DEF u, n
    <3>3. n \notin 1 .. n - 1
      BY <3>1
    <3> QED
      BY <3>2, <3>3 DEF u, n
  <2>3. Loops(stack') = {}
    BY <1>1, <1>2, <2>1, <2>2 DEF Covers, Loops
  <2> QED
    BY <2>3 DEF TimeInv, Followed
<1> QED
  BY <1>3, <1>4

\* What RunNext does: the time it is is that of the thread that runs.
LEMMA NextOnTime ==
    ASSUME ListInv, RunNext
    PROVE  /\ Late(d')
           /\ \E i \in DOMAIN d.timer : d'.level = d.timer[i].time
<1>1. d \in Data /\ Due(d) # {}
  BY DEF ListInv, Holds, RunNext
<1>2. Taken(d', d, NextElement(d.timer, Due(d)))
  BY DEF RunNext, Taken
<1> QED
  BY <1>1, <1>2, TakenOnTime

LEMMA TimeAfterRunNext == ListInv /\ RunInv /\ TimeInv /\ RunNext => TimeInv'
<1> SUFFICES ASSUME ListInv, RunInv, TimeInv, RunNext PROVE TimeInv'
  OBVIOUS
<1> DEFINE i == NextElement(d.timer, Due(d))
           t == d.timer[i].thread
           f == [kind |-> "running",
                 start |-> IF Last(stack).start = None THEN d.level ELSE Last(stack).start]
           n == Len(stack)
           v == [stack EXCEPT ![n] = f]
           u == Append(v, Run(t))
<1>1. /\ stack \in Seq(Frames) /\ stack # <<>> /\ Last(stack) \in Frames
      /\ Last(stack).kind = "running" /\ d \in Data
  BY TopFrame DEF ListInv, Holds, RunNext, TopIs
<1>2. stack' = u /\ Run(t).kind = "vm"
  BY DEF RunNext, Top, Run
<1>3. Loops(stack) \subseteq {n}
  BY OneLoop DEF RunNext
<1> HIDE DEF f, t
<1>4. n \in Nat /\ n > 0 /\ DOMAIN stack = 1 .. n
  BY <1>1
<1>5. v \in [1 .. n -> {stack[k] : k \in 1 .. n} \cup {f}]
      /\ \A k \in 1 .. n : k # n => v[k] = stack[k]
  BY <1>1, <1>4
<1> HIDE DEF v, n
<1>6. Len(v) = n /\ DOMAIN v = 1 .. n /\ v \in Seq({stack[k] : k \in 1 .. n} \cup {f})
  BY <1>4, <1>5
<1>7. /\ DOMAIN u = 1 .. n + 1 /\ Len(u) = n + 1 /\ u[n + 1] = Run(t)
      /\ \A k \in 1 .. n : u[k] = v[k]
  BY <1>4, <1>6
<1> HIDE DEF u
<1>8. ASSUME NEW k \in Loops(u) PROVE k = n
  <2>1. k \in 1 .. n + 1 /\ IsLoop(u[k])
    BY <1>7 DEF Loops
  <2>2. k # n + 1
    BY <2>1, <1>2, <1>7 DEF IsLoop
  <2>3. k \in 1 .. n
    BY <2>1, <2>2, <1>4
  <2>4. ASSUME k # n PROVE FALSE
    <3>1. u[k] = stack[k]
      BY <2>3, <2>4, <1>5, <1>7
    <3>2. k \in Loops(stack)
      BY <2>1, <2>3, <3>1, <1>4 DEF Loops
    <3> QED
      BY <3>2, <2>4, <1>3
  <2> QED
    BY <2>4
<1>9. Followed(u)
  BY <1>2, <1>7, <1>8 DEF Followed
<1>10. Late(d')
  BY NextOnTime
<1> QED
  BY <1>2, <1>9, <1>10 DEF TimeInv

LEMMA TimeAfterStopped == ListInv /\ TimeInv /\ StoppedWaitFor => TimeInv'
<1> SUFFICES ASSUME ListInv, TimeInv, StoppedWaitFor PROVE TimeInv'
  OBVIOUS
<1> DEFINE frame == Last(stack)
           t == Told1
           c == CancelEvents(d, t)
           f == Wake(frame.name, Tail(frame.list))
           e == Execute(c, t)
<1>1. /\ TopIs("wake") /\ frame.list # <<>> /\ d \in Data /\ Good(d)
      /\ stack \in Seq(Frames) /\ stack # <<>> /\ frame \in Frames /\ frame.kind = "wake"
  BY TopFrame DEF StoppedWaitFor, TopIs, ListInv, Holds
<1>2. t \in Threads /\ frame.name \in AnyName /\ Rest \in Seq(Frames)
  BY <1>1, RestFacts
<1>3. IF t \notin d.alive THEN d' = d /\ stack' = Rest
      ELSE IF d.state[t] # "SUSPENDED" THEN d' = c /\ stack' = Rest
      ELSE IF frame.name = "0" THEN d' = StoppedWaiting(d, t) /\ stack' = Rest
      ELSE IF d.vm[t] = "EXECUTION" THEN d' = e.d /\ stack' = Rest \o e.calls
      ELSE d' = [c EXCEPT !.vm[t] = "RUNNING"] /\ stack' = Rest
  BY DEF StoppedWaitFor, Rest, Told1
<1>4. f \in Frames /\ f.kind = "wake"
  <2>1. frame.list \in Seq(Threads)
    BY <1>1 DEF Frames
  <2> DEFINE list == frame.list
  <2> HIDE DEF list
  <2>2. Tail(list) \in Seq(Threads)
    BY <1>1, <2>1 DEF list
  <2> QED
    BY <1>2, <2>2 DEF Wake, Frames, list
<1>5. Rest = [stack EXCEPT ![Len(stack)] = f]
  BY DEF Rest, Top
<1> HIDE DEF t, c, f, e, frame
<1>6. Covers(Rest, stack) /\ Last(Rest) = f /\ ~IsLoop(f)
  BY <1>1, <1>4, <1>5, ReplacedLoops, FramesLoop DEF frame
<1>7. /\ c \in Data /\ Adjusts(c, d, t) /\ c.alive = d.alive
      /\ c.timer = d.timer /\ c.level = d.level
  <2>1. c = [d EXCEPT !.timeouts = {x \in d.timeouts : x.thread # t}]
    BY DEF c, CancelEvents
  <2>2. d.vm[t] = "RUNNING" => t \in d.alive
    BY <1>1, <1>2 DEF Good, Lists, Living
  <2> QED
    BY <1>1, <2>1, <2>2 DEF Data, Adjusts
<1>8. Good(c)
  BY <1>1, <1>2, <1>7, AdjustsKeeps DEF Keeps
<1>9. OnTime(c, d) /\ OnTime(d, d) /\ OnTime(StoppedWaiting(d, t), d)
  BY <1>1, <1>2, <1>7, OnTimeSame, StoppedOnTime
<1>10. OnTime([c EXCEPT !.vm[t] = "RUNNING"], d)
  <2> DEFINE r == [c EXCEPT !.vm[t] = "RUNNING"]
  <2>1. r.timer = d.timer /\ r.level = d.level
    BY <1>7 DEF Data
  <2> HIDE DEF r
  <2> QED
    BY <2>1, OnTimeSame DEF r
<1>11. ASSUME t \in d.alive PROVE OnTime(e.d, c) /\ Covers(Rest \o e.calls, Rest)
  <2>1. CASE Paused
    <3> DEFINE p == Stop(c, t)
    <3>1. e.d = Timed(p, t, c.level) /\ e.calls = <<>>
      BY <2>1 DEF e, Execute
    <3>2. Released(p, c, t) /\ OnTime(p, c)
      BY <1>2, <1>7, <1>8, StopFacts, StopOnTime
    <3> HIDE DEF p
    <3>3. p \in Data /\ p.level = c.level /\ c.level \in Int
      BY <3>2, <1>7 DEF Released, Data
    <3>4. OnTime(e.d, p)
      BY <1>2, <3>1, <3>3, TimedOnTime
    <3>5. Rest \o e.calls = Rest
      BY <3>1, <1>2
    <3> QED
      BY <3>2, <3>4, <3>5, <1>2, OnTimeAgain, CoversSame
  <2>2. CASE ~Paused
    <3>1. e.d = Started(c, t) /\ e.calls = Call(t)
      BY <2>2 DEF e, Execute
    <3> QED
      BY <3>1, <1>2, <1>6, <1>7, <1>8, StartedOnTime, CalledLoops
  <2> QED
    BY <2>1, <2>2
<1>12. CASE stack' = Rest /\ (d' = d \/ d' = c \/ d' = StoppedWaiting(d, t)
                              \/ d' = [c EXCEPT !.vm[t] = "RUNNING"])
  BY <1>6, <1>9, <1>10, <1>12, TimeStep
<1>13. CASE t \in d.alive /\ d' = e.d /\ stack' = Rest \o e.calls
  <2>1. OnTime(d', d)
    BY <1>9, <1>11, <1>13, OnTimeAgain
  <2>2. Covers(stack', stack)
    BY <1>6, <1>11, <1>13, CoversAgain
  <2> QED
    BY <2>1, <2>2, TimeStep
<1> QED
  BY <1>3, <1>12, <1>13

-----------------------------------------------------------------------------
(* The game runs no loop of ExecuteRunning.                                *)

LEMMA TimeAfterGame == ListInv /\ Game => TimeInv'
<1> SUFFICES ASSUME ListInv, Game PROVE TimeInv'
  OBVIOUS
<1>1. stack = <<>>
  BY DEF Game, Unregister, RemoveEvent, StartScript, CancelWaiting, Quiet
<1>2. d \in Data /\ Good(d) /\ <<>> \in Seq(Frames)
  BY <1>1, QuietFacts DEF Quiet
<1>3. ASSUME NEW o \in Objects, Unregister(o) PROVE TimeInv'
  <2>1. PICK n \in AnyName : stack' = <<Wake(n, Woken(d, o, n))>>
    BY <1>3 DEF Unregister, AnyName
  <2> DEFINE list == Woken(d, o, n)
             f == Wake(n, list)
  <2>2. list \in Seq(Threads)
    BY <1>2, AnnouncedFacts DEF Announces
  <2> HIDE DEF list
  <2>3. f \in Frames /\ f.kind = "wake"
    BY <2>2 DEF Wake, Frames
  <2>4. stack' = Append(<<>>, f)
    BY <2>1 DEF list
  <2> HIDE DEF f
  <2>5. Covers(stack', <<>>)
    BY <1>2, <2>3, <2>4, FramesLoop, PushedLoops
  <2> QED
    BY <2>5, NoLoops
<1>4. ASSUME NEW t \in Threads, StartScript(t) PROVE TimeInv'
  <2>1. stack' = <<>> \o Call(t)
    <3>1. <<>> \o Call(t) = Call(t)
      BY DEF Call
    <3> QED
      BY <3>1, <1>4 DEF StartScript
  <2>2. Covers(stack', <<>>)
    BY <1>2, <2>1, CalledLoops
  <2> QED
    BY <2>2, NoLoops
<1>5. ASSUME stack' = stack PROVE TimeInv'
  BY <1>1, <1>2, <1>5, CoversSame, NoLoops
<1> QED
  BY <1>3, <1>4, <1>5 DEF Game, RemoveEvent, CancelWaiting

LEMMA TimeAfterFrame == ListInv /\ Frame => TimeInv'
<1> SUFFICES ASSUME ListInv, Frame PROVE TimeInv'
  OBVIOUS
<1>1. stack = <<>>
  BY DEF Frame, NewFrame, Pause, Unpause, Quiet
<1>2. <<>> \in Seq(Frames)
  OBVIOUS
<1>3. CASE NewFrame \/ Pause
  BY <1>1, <1>2, <1>3, CoversSame, NoLoops DEF NewFrame, Pause
<1>4. CASE Unpause
  <2>1. stack' = Append(<<>>, ExecuteRunning)
    BY <1>4 DEF Unpause
  <2>2. ExecuteRunning \in Frames
    BY DEF ExecuteRunning, Frames, None
  <2>3. Covers(stack', <<>>)
    BY <1>2, <2>1, <2>2, FramesLoop, PushedLoops
  <2> QED
    BY <2>3, NoLoops
<1> QED
  BY <1>3, <1>4 DEF Frame

LEMMA NextTimeInv == ListInv /\ RunInv /\ TimeInv /\ [Next]_vars => TimeInv'
<1> SUFFICES ASSUME ListInv, RunInv, TimeInv, [Next]_vars PROVE TimeInv'
  OBVIOUS
<1>1. CASE UNCHANGED vars
  BY <1>1 DEF vars, TimeInv
<1>2. CASE Command \/ WaitMove
  BY <1>2, TimeAfterCommand
<1>3. CASE Calls
  BY <1>3, TimeAfterReturn, TimeAfterStopped, TimeAfterAllTold, TimeAfterRunNext,
     TimeAfterRunningEnds DEF Calls
<1>4. CASE Game
  BY <1>4, TimeAfterGame
<1>5. CASE Frame
  BY <1>5, TimeAfterFrame
<1> QED
  BY <1>1, <1>2, <1>3, <1>4, <1>5 DEF Next

LEMMA InitTimeInv == Init => TimeInv
<1> SUFFICES ASSUME Init PROVE TimeInv
  OBVIOUS
<1>1. stack = <<>> /\ DOMAIN <<>> = {}
  BY DEF Init
<1>2. Loops(stack) = {}
  BY <1>1 DEF Loops
<1> QED
  BY <1>2 DEF TimeInv, Followed

\* Who is still in the timer is to run now or later, so the next is not earlier.
LEMMA ForwardImplied ==
    ListInv /\ TimeInv =>
      [RunNext /\ Last(stack).start # None => d'.level >= d.level]_vars
<1> SUFFICES ASSUME ListInv, TimeInv, RunNext, Last(stack).start # None
             PROVE  d'.level >= d.level
  OBVIOUS
<1>1. stack \in Seq(Frames) /\ stack # <<>> /\ Last(stack).kind = "running"
  BY TopFrame DEF RunNext, TopIs
<1>2. Len(stack) \in Loops(stack)
  BY <1>1 DEF Loops, IsLoop, Last
<1>3. Late(d)
  BY <1>2 DEF TimeInv
<1>4. PICK i \in DOMAIN d.timer : d'.level = d.timer[i].time
  BY NextOnTime
<1> QED
  BY <1>3, <1>4 DEF Late

\* The threads that one ExecuteRunning runs are run in the order of their times:
\* the level's time, which is set to that of each thread, does not go back before
\* the call ends, whatever the threads put into the timer, delete or wake.
THEOREM ThreadsRunInOrder == Spec => TimeRunsForward
<1>1. Init => ListInv /\ RunInv /\ TimeInv
  BY InitListInv, InitRunInv, InitTimeInv
<1>2. ListInv /\ RunInv /\ TimeInv /\ [Next]_vars => (ListInv /\ RunInv /\ TimeInv)'
  BY NextListInv, NextRunInv, NextTimeInv
<1>3. ListInv /\ TimeInv =>
        [RunNext /\ Last(stack).start # None => d'.level >= d.level]_vars
  BY ForwardImplied
<1> QED
  BY <1>1, <1>2, <1>3, PTL DEF Spec, TimeRunsForward
=============================================================================
