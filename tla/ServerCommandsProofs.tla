------------------------ MODULE ServerCommandsProofs ------------------------
(***************************************************************************)
(* Proofs about ServerCommands, for every size of the rings, every set of  *)
(* configstrings and of long strings, and every bound.                     *)
(*                                                                         *)
(* What the runs check of the commands executed and of the keys relates    *)
(* the client to what the server sent some time before.  The inductive     *)
(* invariant IInv says in between what the server's ring holds (RingOK),   *)
(* which gamestates are under way (GamestateInv), and what the messages    *)
(* and packets in flight and the client's ring hold of the commands issued *)
(* (InFlightInv, ClientInv, SnapshotInv), as long as no packet was found   *)
(* out of range.                                                           *)
(* On top of it, MapInv and StringsInv say what the commands issued make   *)
(* of the configstrings the client has, was sent, or was made a snapshot   *)
(* with: those the server has or had.                                      *)
(***************************************************************************)
EXTENDS ServerCommands, SequenceTheorems, FiniteSetTheorems, TLAPS

-----------------------------------------------------------------------------
(* The types of the records, and of the messages.                          *)

States == {CS_ZOMBIE, CS_CONNECTED, CS_PRIMED, CS_ACTIVE}
Runs   == UNION {[a + 1 .. b -> Commands] : a \in Nat, b \in Nat}

ClientT ==
    [state : States, reliableSequence : Nat, reliableAcknowledge : Nat,
     reliableSent : Nat, reliableCommands : [Ring -> Commands],
     gamestateMessageNum : Nat \cup {-1}, serverIdAcknowledge : 0 .. MaxServerId,
     csUpdated : [ConfigString -> BOOLEAN], issued : Seq(Commands)]

Messages ==
    [sequence : Nat, body : {"gamestate", "snapshot", "nop"}, commands : Runs,
     reliableSequence : Nat, serverId : 0 .. MaxServerId, configstrings : Strings,
     state : States]

Packets ==
    [serverId : 0 .. MaxServerId, move : BOOLEAN, messageAcknowledge : Nat,
     reliableAcknowledge : Nat, key : Commands]

Snapshots ==
    [serverCommandNum : Nat, state : States, configstrings : Strings,
     reliableSequence : Nat]

ClientConnection ==
    [state : {"CA_CONNECTED", "CA_PRIMED", "CA_DISCONNECTED"},
     serverId : 0 .. MaxServerId, serverMessageSequence : Nat,
     serverCommandSequence : Nat, serverCommands : [Ring -> Commands],
     snapshots : Seq(Snapshots)]

CGame ==
    [serverCommandSequence : Nat, configstrings : [ConfigString -> Value \cup {-1}],
     bigConfigString : Seq(Commands), shown : Snapshots \cup {NoSnapshot},
     executed : Seq(Commands), base : Nat]

TypeInv ==
    /\ cl \in ClientT
    /\ sv \in [serverId : 1 .. MaxServerId, configstrings : Strings]
    /\ outgoingSequence \in 1 .. MaxMessages + 1
    /\ changes \in Value
    /\ toClient \in Seq(Messages)
    /\ toServer \in Seq(Packets)
    /\ clc \in ClientConnection
    /\ cgs \in CGame
    /\ illegible \in BOOLEAN
    /\ deferred \in BOOLEAN

-----------------------------------------------------------------------------
(* The server's queue.                                                     *)

\* What number i holds; 0 stands for what the ring holds before any command.
Issued(c, i) == IF i = 0 THEN NoCommand ELSE c.issued[i]

\* The ring holds the newest commands; that of a dropped client, of which the
\* two last may be new, those it has not acknowledged.
RingOK(c) ==
    /\ Len(c.issued) = c.reliableSequence
    /\ c.reliableAcknowledge <= c.reliableSequence
    /\ c.reliableSequence - c.reliableAcknowledge <= MAX_RELIABLE_COMMANDS
    /\ c.state # CS_ZOMBIE =>
         \A i \in 0 .. c.reliableSequence :
            c.reliableSequence - i < MAX_RELIABLE_COMMANDS =>
                c.reliableCommands[Slot(i)] = Issued(c, i)
    /\ c.state = CS_ZOMBIE =>
         /\ c.reliableSequence - c.reliableAcknowledge <= 2
         /\ \A i \in c.reliableAcknowledge + 1 .. c.reliableSequence :
               /\ c.reliableCommands[Slot(i)] = c.issued[i]
               /\ c.issued[i].op # "cs"

\* What adding commands to client_t b may have made of it.
Evolves(b, c) ==
    /\ c.state \in {b.state, CS_ZOMBIE}
    /\ c.reliableAcknowledge = b.reliableAcknowledge
    /\ c.reliableSent = b.reliableSent
    /\ c.serverIdAcknowledge = b.serverIdAcknowledge
    /\ c.state # CS_ZOMBIE =>
         /\ c.reliableSequence >= b.reliableSequence
         /\ c.gamestateMessageNum = b.gamestateMessageNum
         /\ \A i \in 1 .. b.reliableSequence :
               i <= b.reliableSent => c.issued[i] = b.issued[i]

-----------------------------------------------------------------------------
(* Gamestates.                                                             *)

SequenceInv ==
    /\ \A n \in 1 .. Len(toClient) :
         /\ clc.serverMessageSequence < toClient[n].sequence
         /\ toClient[n].sequence < outgoingSequence
    /\ \A m, n \in 1 .. Len(toClient) :
         m < n => toClient[m].sequence < toClient[n].sequence
    /\ \A n \in 1 .. Len(toServer) :
         toServer[n].messageAcknowledge <= clc.serverMessageSequence
    /\ clc.serverMessageSequence < outgoingSequence

\* A client with the current gamestate, and those under way with it.
GamestateInv ==
    /\ clc.serverId <= sv.serverId
    /\ \A n \in 1 .. Len(toClient) : toClient[n].serverId <= sv.serverId
    /\ \A n \in 1 .. Len(toServer) : toServer[n].serverId <= sv.serverId
    /\ cl.state # CS_ZOMBIE =>
         /\ \A n \in 1 .. Len(toClient) :
               toClient[n].body = "gamestate" /\ toClient[n].serverId = sv.serverId =>
                   toClient[n].sequence <= cl.gamestateMessageNum
         /\ clc.serverId = sv.serverId =>
               \A n \in 1 .. Len(toServer) :
                  toServer[n].serverId # sv.serverId =>
                      toServer[n].messageAcknowledge <= cl.gamestateMessageNum

-----------------------------------------------------------------------------
(* The client's side of the commands.                                      *)

Live(m) == m.state # CS_ZOMBIE

\* No gap between command number latest and the commands of m, which are all but
\* what half a message cannot carry, and all of them if none is partial.
Carries(m, latest, partial) ==
    \E a \in Nat, b \in Nat :
        /\ m.commands \in [a + 1 .. b -> Commands]
        /\ a <= b
        /\ a <= latest
        /\ b <= m.reliableSequence
        /\ ~partial /\ m.body # "nop" => b = m.reliableSequence
        /\ m.body # "nop" => m.reliableSequence <= b + Unsendable
        /\ m.body = "nop" => b = 0

\* The messages made before the client was dropped come first and in order.
InFlightInv ==
    \A n \in 1 .. Len(toClient) :
        Live(toClient[n]) =>
            /\ Carries(toClient[n], clc.serverCommandSequence, deferred)
            /\ clc.serverCommandSequence <= toClient[n].reliableSequence
            /\ \A m \in 1 .. n :
                 /\ Live(toClient[m])
                 /\ toClient[m].reliableSequence <= toClient[n].reliableSequence

\* Snapshots came with the commands added before them, or with all but what half
\* a message cannot carry.
Guaranteed(s) == s.state # CS_ZOMBIE => s.serverCommandNum >= s.reliableSequence
Near(s) == s.state # CS_ZOMBIE => s.reliableSequence <= s.serverCommandNum + Unsendable
SnapshotInv ==
    /\ ~deferred =>
         /\ \A n \in 1 .. Len(clc.snapshots) : Guaranteed(clc.snapshots[n])
         /\ cgs.shown # NoSnapshot => Guaranteed(cgs.shown)
    /\ \A n \in 1 .. Len(clc.snapshots) : Near(clc.snapshots[n])
    /\ cgs.shown # NoSnapshot => Near(cgs.shown)

\* What is in flight is part of what was issued and sent.
MessagesInv ==
    \A n \in 1 .. Len(toClient) :
        LET m == toClient[n] IN
        /\ Live(m)
        /\ m.reliableSequence <= cl.reliableSequence
        /\ m.body # "nop" => m.reliableSequence <= cl.reliableSent
        /\ \A i \in DOMAIN m.commands : m.commands[i] = cl.issued[i]

PacketsInv ==
    \A n \in 1 .. Len(toServer) :
        /\ toServer[n].reliableAcknowledge <= clc.serverCommandSequence
        /\ ~deferred => toServer[n].key = Issued(cl, toServer[n].reliableAcknowledge)

\* So is what the client holds and what the cgame executed.
HoldsInv ==
    /\ cl.reliableAcknowledge <= clc.serverCommandSequence
    /\ clc.serverCommandSequence <= cl.reliableSent
    /\ cl.reliableSent <= cl.reliableSequence
    /\ ~deferred => clc.serverCommands[Slot(clc.serverCommandSequence)]
                        = Issued(cl, clc.serverCommandSequence)
    /\ \A i \in cgs.base + 1 .. clc.serverCommandSequence :
          clc.serverCommandSequence - i < MAX_RELIABLE_COMMANDS =>
              clc.serverCommands[Slot(i)] = cl.issued[i]

CGameInv ==
    /\ cgs.base <= cgs.serverCommandSequence
    /\ cgs.serverCommandSequence <= clc.serverCommandSequence
    /\ Len(cgs.executed) = cgs.serverCommandSequence - cgs.base
    /\ \A i \in 1 .. Len(cgs.executed) : cgs.executed[i] = cl.issued[cgs.base + i]
    /\ \A n \in 1 .. Len(clc.snapshots) :
          clc.snapshots[n].serverCommandNum <= clc.serverCommandSequence

ClientInv == MessagesInv /\ PacketsInv /\ HoldsInv /\ CGameInv

IInv ==
    /\ TypeInv
    /\ RingOK(cl)
    /\ SequenceInv
    /\ GamestateInv
    /\ ~illegible => InFlightInv /\ SnapshotInv
    /\ ~illegible /\ cl.state # CS_ZOMBIE => ClientInv

-----------------------------------------------------------------------------
(* Induction, on sets: the provers cannot instantiate the library's        *)
(* theorems about a predicate.                                             *)

\* Every nonempty set of natural numbers has a least element.
LEMMA Least ==
    ASSUME NEW T \in SUBSET Nat, T # {}
    PROVE  \E x \in T : \A y \in T : x <= y
<1> DEFINE F == {0 .. m : m \in T}
<1>1. F \subseteq FiniteSubsetsOf(Nat) /\ F # {}
  <2>1. \A m \in T : 0 .. m \in SUBSET Nat /\ IsFiniteSet(0 .. m)
    BY FS_Interval
  <2> QED
    BY <2>1 DEF FiniteSubsetsOf
<1> HIDE DEF F
<1>2. PICK U \in F : \A V \in F : <<V, U>> \notin StrictSubsetOrdering(Nat)
  BY <1>1, WFMin, FS_StrictSubsetOrderingWellFounded
<1>3. \A V \in F : V \subseteq U => V = U
  BY <1>1, <1>2 DEF StrictSubsetOrdering, FiniteSubsetsOf
<1>4. PICK x \in T : U = 0 .. x
  BY DEF F
<1>5. ASSUME NEW y \in T PROVE x <= y
  <2>1. 0 .. y \in F
    BY DEF F
  <2>2. SUFFICES ASSUME y < x PROVE FALSE
    BY <1>4
  <2>3. 0 .. y \subseteq U /\ x \in U /\ x \notin 0 .. y
    BY <1>4, <2>2
  <2> QED
    BY <2>1, <2>3, <1>3
<1> QED
  BY <1>5

LEMMA Induction ==
    ASSUME NEW S, 0 \in S, \A n \in Nat : n \in S => n + 1 \in S
    PROVE  Nat \subseteq S
<1> DEFINE T == Nat \ S
<1> SUFFICES ASSUME T # {} PROVE FALSE
  OBVIOUS
<1>1. PICK x \in T : \A y \in T : x <= y
  BY Least
<1>2. x # 0 /\ x - 1 \in Nat /\ x - 1 \notin T
  BY <1>1
<1> QED
  BY <1>2

\* Recursion over the natural numbers defines a function: f is the union of
\* the functions on 0 .. n that follow its steps.
Follows(f, n, S, base, step) ==
    /\ f \in [0 .. n -> S]
    /\ f[0] = base
    /\ \A i \in 0 .. n - 1 : f[i + 1] = step[i][f[i]]

LEMMA Recursion ==
    ASSUME NEW S, NEW base \in S, NEW step \in [Nat -> [S -> S]]
    PROVE  \E f \in [Nat -> S] :
              /\ f[0] = base
              /\ \A n \in Nat : f[n + 1] = step[n][f[n]]
<1> DEFINE A(n, g) == Follows(g, n, S, base, step)
<1>1. \A n \in Nat : \E g : A(n, g)
  <2> DEFINE N == {n \in Nat : \E g : A(n, g)}
  <2>1. A(0, [i \in 0 .. 0 |-> base])
    BY DEF Follows
  <2>2. ASSUME NEW n \in Nat, NEW g, A(n, g)
        PROVE  A(n + 1, [i \in 0 .. n + 1 |-> IF i = n + 1 THEN step[n][g[n]] ELSE g[i]])
    BY <2>2 DEF Follows
  <2> HIDE DEF A
  <2>3. 0 \in N
    BY <2>1
  <2>4. ASSUME NEW n \in N PROVE n + 1 \in N
    <3>1. PICK g : A(n, g)
      OBVIOUS
    <3> DEFINE h == [i \in 0 .. n + 1 |-> IF i = n + 1 THEN step[n][g[n]] ELSE g[i]]
    <3>2. A(n + 1, h)
      BY <3>1, <2>2
    <3> HIDE DEF h
    <3>3. n + 1 \in Nat
      OBVIOUS
    <3> QED
      BY <3>2, <3>3
  <2> HIDE DEF N
  <2>5. Nat \subseteq N
    BY <2>3, <2>4, Induction
  <2> QED
    BY <2>5 DEF N
<1>2. ASSUME NEW m \in Nat, NEW n \in Nat, m <= n, NEW g, NEW h, A(m, g), A(n, h)
      PROVE  g[m] = h[m]
  <2> DEFINE N == {i \in Nat : i <= m => g[i] = h[i]}
  <2>1. 0 \in N
    BY <1>2 DEF Follows
  <2>2. ASSUME NEW i \in Nat, i \in N PROVE i + 1 \in N
    <3> SUFFICES ASSUME i + 1 <= m PROVE g[i + 1] = h[i + 1]
      OBVIOUS
    <3>1. g[i] = h[i] /\ i \in 0 .. m - 1 /\ i \in 0 .. n - 1
      BY <1>2, <2>2
    <3> QED
      BY <3>1, <1>2 DEF Follows
  <2> HIDE DEF N
  <2>3. Nat \subseteq N
    BY <2>1, <2>2, Induction
  <2> QED
    BY <2>3 DEF N
<1> DEFINE f == [n \in Nat |-> (CHOOSE g : A(n, g))[n]]
<1>3. \A n \in Nat : A(n, CHOOSE g : A(n, g))
  <2> HIDE DEF A
  <2> QED
    BY <1>1
<1>4. f[0] = base
  BY <1>3 DEF Follows
<1>5. ASSUME NEW n \in Nat
      PROVE  f[n] \in S /\ f[n + 1] = step[n][f[n]]
  <2> DEFINE upto == CHOOSE g : A(n, g)
             past == CHOOSE g : A(n + 1, g)
  <2>1. A(n, upto) /\ A(n + 1, past)
    <3> HIDE DEF A
    <3> QED
      BY <1>3
  <2>2. f[n] = upto[n] /\ f[n + 1] = past[n + 1]
    OBVIOUS
  <2> HIDE DEF upto, past
  <2>3. upto[n] = past[n]
    BY <1>2, <2>1
  <2> HIDE DEF f
  <2> QED
    BY <2>1, <2>2, <2>3 DEF Follows
<1>6. f \in [Nat -> S]
  <2> \A n \in Nat : f[n] \in S
    BY <1>5
  <2> QED
    OBVIOUS
<1> HIDE DEF f
<1> QED
  BY <1>4, <1>5, <1>6

-----------------------------------------------------------------------------
(* The rings.                                                              *)

\* A positive number below the size of a ring is no multiple of it.
LEMMA NoMultiple ==
    ASSUME NEW q \in Int, NEW d \in Int, d = MAX_RELIABLE_COMMANDS * q,
           0 < d, d < MAX_RELIABLE_COMMANDS
    PROVE  FALSE
<1>1. CASE q <= 0
  <2>1. MAX_RELIABLE_COMMANDS * q <= 0
    BY <1>1, ServerCommandsAssumption
  <2> QED
    BY <2>1, ServerCommandsAssumption
<1>2. CASE q >= 1
  <2>1. MAX_RELIABLE_COMMANDS * q >= MAX_RELIABLE_COMMANDS
    BY <1>2, ServerCommandsAssumption
  <2> QED
    BY <2>1, ServerCommandsAssumption
<1> QED
  BY <1>1, <1>2

LEMMA SlotInRing ==
    ASSUME NEW i \in Nat
    PROVE  Slot(i) \in Ring
BY ServerCommandsAssumption DEF Slot, Ring

\* Two commands in one slot are a ring apart.
LEMMA SlotsDiffer ==
    ASSUME NEW i \in Nat, NEW j \in Nat, i < j, j - i < MAX_RELIABLE_COMMANDS
    PROVE  Slot(i) # Slot(j)
<1> SUFFICES ASSUME i % MAX_RELIABLE_COMMANDS = j % MAX_RELIABLE_COMMANDS PROVE FALSE
  BY DEF Slot
<1> DEFINE a == i \div MAX_RELIABLE_COMMANDS
           b == j \div MAX_RELIABLE_COMMANDS
<1>1. i = MAX_RELIABLE_COMMANDS * a + (i % MAX_RELIABLE_COMMANDS) /\ a \in Int
  BY ServerCommandsAssumption
<1>2. j = MAX_RELIABLE_COMMANDS * b + (j % MAX_RELIABLE_COMMANDS) /\ b \in Int
  BY ServerCommandsAssumption
<1>3. /\ MAX_RELIABLE_COMMANDS \in Int
      /\ i % MAX_RELIABLE_COMMANDS \in Int /\ j % MAX_RELIABLE_COMMANDS \in Int
  BY ServerCommandsAssumption
<1> HIDE DEF a, b
<1>4. j - i = MAX_RELIABLE_COMMANDS * b - MAX_RELIABLE_COMMANDS * a
  <2>1. MAX_RELIABLE_COMMANDS * a \in Int /\ MAX_RELIABLE_COMMANDS * b \in Int
    BY <1>1, <1>2, <1>3
  <2> QED
    BY <1>1, <1>2, <1>3, <2>1
<1>5. MAX_RELIABLE_COMMANDS * b - MAX_RELIABLE_COMMANDS * a = MAX_RELIABLE_COMMANDS * (b - a)
  BY <1>1, <1>2, <1>3
<1>6. b - a \in Int
  BY <1>1, <1>2
<1> DEFINE q == b - a
<1>7. j - i = MAX_RELIABLE_COMMANDS * q /\ q \in Int
  BY <1>4, <1>5, <1>6
<1> HIDE DEF q
<1> QED
  BY <1>7, NoMultiple

-----------------------------------------------------------------------------
(* Adding commands to the server's queue.                                  *)

LEMMA CommandTypes ==
    /\ \A v \in Value : Printed(v) \in Commands
    /\ \A k \in ConfigString, v \in Value :
         /\ Command("cs", k, v) \in Commands
         /\ Command("bcs0", k, v) \in Commands
         /\ Command("bcs2", k, v) \in Commands
    /\ Disconnect \in Commands /\ NoCommand \in Commands
    /\ EmptyRing \in [Ring -> Commands]
    /\ \A v : Printed(v).op # "cs"
    /\ Disconnect.op # "cs"
<1>1. 0 \in Value
  BY ServerCommandsAssumption DEF Value
<1> QED
  BY <1>1 DEF Printed, Command, Commands, Disconnect, NoCommand, EmptyRing, NoIndex

LEMMA StoreFields ==
    ASSUME NEW c \in ClientT, NEW cmd \in Commands, Len(c.issued) = c.reliableSequence
    PROVE  LET s == Store(c, cmd) IN
           /\ s \in ClientT
           /\ s.state = c.state
           /\ s.reliableAcknowledge = c.reliableAcknowledge
           /\ s.reliableSent = c.reliableSent
           /\ s.serverIdAcknowledge = c.serverIdAcknowledge
           /\ s.gamestateMessageNum = c.gamestateMessageNum
           /\ s.reliableSequence = c.reliableSequence + 1
           /\ Len(s.issued) = s.reliableSequence
           /\ s.issued[s.reliableSequence] = cmd
           /\ \A i \in 1 .. c.reliableSequence : s.issued[i] = c.issued[i]
           /\ s.reliableCommands[Slot(s.reliableSequence)] = cmd
           /\ \A r \in Ring : r # Slot(s.reliableSequence) =>
                  s.reliableCommands[r] = c.reliableCommands[r]
<1> DEFINE s == Store(c, cmd)
<1>1. Slot(c.reliableSequence + 1) \in Ring
  BY SlotInRing DEF ClientT
<1>2. /\ s.reliableSequence = c.reliableSequence + 1
      /\ s.reliableCommands = [c.reliableCommands EXCEPT ![Slot(c.reliableSequence + 1)] = cmd]
      /\ s.issued = Append(c.issued, cmd)
      /\ s.state = c.state
      /\ s.reliableAcknowledge = c.reliableAcknowledge
      /\ s.reliableSent = c.reliableSent
      /\ s.serverIdAcknowledge = c.serverIdAcknowledge
      /\ s.gamestateMessageNum = c.gamestateMessageNum
  BY DEF Store, ClientT
<1>3. /\ Append(c.issued, cmd) \in Seq(Commands)
      /\ Len(Append(c.issued, cmd)) = Len(c.issued) + 1
      /\ Append(c.issued, cmd)[Len(c.issued) + 1] = cmd
      /\ \A i \in 1 .. Len(c.issued) : Append(c.issued, cmd)[i] = c.issued[i]
  BY DEF ClientT
<1>4. s \in ClientT
  <2>1. [c.reliableCommands EXCEPT ![Slot(c.reliableSequence + 1)] = cmd] \in [Ring -> Commands]
    BY <1>1 DEF ClientT
  <2>2. c.reliableSequence + 1 \in Nat
    BY DEF ClientT
  <2>3. s = [c EXCEPT !.reliableSequence = c.reliableSequence + 1,
                      !.reliableCommands = [c.reliableCommands EXCEPT
                                              ![Slot(c.reliableSequence + 1)] = cmd],
                      !.issued = Append(c.issued, cmd)]
    BY DEF Store, ClientT
  <2> HIDE DEF s
  <2> QED
    BY <2>1, <2>2, <2>3, <1>3 DEF ClientT
<1>5. c.reliableCommands \in [Ring -> Commands] /\ c.reliableSequence \in Nat
  BY DEF ClientT
<1> HIDE DEF s
<1> QED
  BY <1>1, <1>2, <1>3, <1>4, <1>5 DEF s

\* A command is stored if no unacknowledged one is in its slot.
LEMMA StoreOK ==
    ASSUME NEW c \in ClientT, RingOK(c), NEW cmd \in Commands, c.state # CS_ZOMBIE,
           c.reliableSequence + 1 - c.reliableAcknowledge <= MAX_RELIABLE_COMMANDS
    PROVE  Store(c, cmd) \in ClientT /\ RingOK(Store(c, cmd)) /\ Evolves(c, Store(c, cmd))
<1> DEFINE s == Store(c, cmd)
<1>1. Len(c.issued) = c.reliableSequence
  BY DEF RingOK
<1>2. /\ c.reliableSequence \in Nat /\ c.reliableAcknowledge \in Nat /\ c.reliableSent \in Nat
      /\ c.state \in States
  BY DEF ClientT
<1>3. ASSUME NEW i \in 0 .. c.reliableSequence + 1,
             c.reliableSequence + 1 - i < MAX_RELIABLE_COMMANDS
      PROVE  s.reliableCommands[Slot(i)] = Issued(s, i)
  <2>1. CASE i = c.reliableSequence + 1
    BY <1>1, <1>2, <2>1, StoreFields DEF Issued
  <2>2. CASE i \in 0 .. c.reliableSequence
    <3>1. Slot(i) # Slot(c.reliableSequence + 1) /\ Slot(i) \in Ring
      BY <1>2, <1>3, <2>2, SlotsDiffer, SlotInRing
    <3>2. c.reliableCommands[Slot(i)] = Issued(c, i)
      BY <1>2, <1>3, <2>2, ServerCommandsAssumption DEF RingOK
    <3>3. s.reliableCommands[Slot(i)] = c.reliableCommands[Slot(i)]
      BY <1>1, <3>1, StoreFields
    <3>4. Issued(s, i) = Issued(c, i)
      BY <1>1, <1>2, <2>2, StoreFields DEF Issued
    <3> QED
      BY <3>2, <3>3, <3>4
  <2> QED
    BY <1>2, <2>1, <2>2
<1>4. /\ s \in ClientT /\ Len(s.issued) = s.reliableSequence
      /\ s.reliableSequence = c.reliableSequence + 1
      /\ s.reliableAcknowledge = c.reliableAcknowledge
      /\ s.state = c.state
  BY <1>1, StoreFields
<1>5. Evolves(c, s)
  BY <1>1, <1>2, StoreFields DEF Evolves
<1>6. RingOK(s)
  <2> HIDE DEF s
  <2>1. s.reliableAcknowledge <= s.reliableSequence
    BY <1>2, <1>4 DEF RingOK
  <2>2. \A i \in 0 .. s.reliableSequence :
          s.reliableSequence - i < MAX_RELIABLE_COMMANDS =>
              s.reliableCommands[Slot(i)] = Issued(s, i)
    BY <1>2, <1>3, <1>4
  <2>3. s.reliableSequence - s.reliableAcknowledge <= MAX_RELIABLE_COMMANDS
    BY <1>2, <1>4
  <2> QED
    BY <1>4, <2>1, <2>2, <2>3 DEF RingOK
<1> QED
  BY <1>4, <1>5, <1>6

\* The commands a client is dropped with fit whatever the ring held.
LEMMA DropOK ==
    ASSUME NEW c \in ClientT, RingOK(c)
    PROVE  LET d == SV_DropClient(c) IN
           d \in ClientT /\ RingOK(d) /\ Evolves(c, d) /\ d.state = CS_ZOMBIE
<1>1. CASE c.state = CS_ZOMBIE
  BY <1>1 DEF SV_DropClient, Evolves, ClientT
<1> DEFINE a == c.reliableAcknowledge
           reset == [c EXCEPT !.reliableSequence = c.reliableAcknowledge,
                              !.issued = SubSeq(@, 1, c.reliableAcknowledge),
                              !.gamestateMessageNum = -1]
<1>2. /\ reset \in ClientT /\ Len(reset.issued) = a /\ a \in Nat
      /\ reset.reliableSequence = a
      /\ reset.reliableAcknowledge = a
      /\ reset.reliableSent = c.reliableSent
      /\ reset.serverIdAcknowledge = c.serverIdAcknowledge
  <2>1. a \in Nat /\ c.issued \in Seq(Commands) /\ a <= Len(c.issued) /\ Len(c.issued) \in Nat
    BY DEF RingOK, ClientT
  <2>2. SubSeq(c.issued, 1, a) \in Seq(Commands) /\ Len(SubSeq(c.issued, 1, a)) = a
    BY <2>1
  <2> QED
    BY <2>1, <2>2 DEF ClientT
<1>3. CASE c.state # CS_ZOMBIE /\ c.state < CS_PRIMED
  <2> DEFINE d == [reset EXCEPT !.state = CS_ZOMBIE]
  <2>1. SV_DropClient(c) = d
    BY <1>3 DEF SV_DropClient
  <2>2. /\ d \in ClientT /\ d.state = CS_ZOMBIE
        /\ d.reliableSequence = a /\ d.reliableAcknowledge = a /\ Len(d.issued) = a
        /\ d.reliableSent = c.reliableSent
        /\ d.serverIdAcknowledge = c.serverIdAcknowledge
    BY <1>2 DEF ClientT, States
  <2> HIDE DEF d, reset
  <2>3. RingOK(d)
    BY <1>2, <2>2, ServerCommandsAssumption DEF RingOK
  <2>4. Evolves(c, d)
    BY <2>2 DEF Evolves
  <2> QED
    BY <2>1, <2>2, <2>3, <2>4
<1>4. CASE c.state # CS_ZOMBIE /\ ~(c.state < CS_PRIMED)
  <2> DEFINE s == Store(reset, Printed(0))
             t == Store(s, Disconnect)
             d == [t EXCEPT !.state = CS_ZOMBIE]
  <2>1. SV_DropClient(c) = d
    BY <1>4 DEF SV_DropClient
  <2>2. Printed(0) \in Commands /\ Disconnect \in Commands
        /\ Printed(0).op # "cs" /\ Disconnect.op # "cs"
    BY CommandTypes, ServerCommandsAssumption DEF Value
  <2> HIDE DEF reset
  <2>3. /\ s \in ClientT
        /\ s.reliableAcknowledge = a
        /\ s.reliableSent = c.reliableSent
        /\ s.serverIdAcknowledge = c.serverIdAcknowledge
        /\ s.reliableSequence = a + 1
        /\ Len(s.issued) = a + 1
        /\ s.issued[a + 1] = Printed(0)
        /\ s.reliableCommands[Slot(a + 1)] = Printed(0)
    BY <1>2, <2>2, StoreFields
  <2> HIDE DEF s
  <2>4. /\ t \in ClientT
        /\ t.reliableAcknowledge = a
        /\ t.reliableSent = c.reliableSent
        /\ t.serverIdAcknowledge = c.serverIdAcknowledge
        /\ t.reliableSequence = a + 2
        /\ Len(t.issued) = a + 2
        /\ t.issued[a + 2] = Disconnect
        /\ t.reliableCommands[Slot(a + 2)] = Disconnect
        /\ \A i \in 1 .. a + 1 : t.issued[i] = s.issued[i]
        /\ \A r \in Ring : r # Slot(a + 2) => t.reliableCommands[r] = s.reliableCommands[r]
    BY <1>2, <2>2, <2>3, StoreFields, (a + 1) + 1 = a + 2
  <2>5. Slot(a + 1) \in Ring /\ Slot(a + 1) # Slot(a + 2)
    <3>1. a + 1 < a + 2 /\ (a + 2) - (a + 1) < MAX_RELIABLE_COMMANDS
      BY <1>2, ServerCommandsAssumption
    <3> QED
      BY <1>2, <3>1, SlotInRing, SlotsDiffer
  <2> HIDE DEF t
  <2>6. /\ d \in ClientT /\ d.state = CS_ZOMBIE
        /\ d.reliableSequence = a + 2 /\ d.reliableAcknowledge = a
        /\ d.reliableSent = c.reliableSent
        /\ d.serverIdAcknowledge = c.serverIdAcknowledge
        /\ d.issued = t.issued /\ d.reliableCommands = t.reliableCommands
    BY <2>4 DEF ClientT, States
  <2> HIDE DEF d
  <2>7. RingOK(d)
    <3>1. \A i \in a + 1 .. a + 2 : i = a + 1 \/ i = a + 2
      BY <1>2
    <3>2. d.issued[a + 1] = Printed(0) /\ d.issued[a + 2] = Disconnect
      BY <1>2, <2>3, <2>4, <2>6
    <3>3. d.reliableCommands[Slot(a + 1)] = Printed(0)
          /\ d.reliableCommands[Slot(a + 2)] = Disconnect
      BY <2>3, <2>4, <2>5, <2>6
    <3>4. \A i \in a + 1 .. a + 2 :
            d.reliableCommands[Slot(i)] = d.issued[i] /\ d.issued[i].op # "cs"
      BY <2>2, <3>1, <3>2, <3>3
    <3>5. a <= a + 2 /\ (a + 2) - a <= 2 /\ (a + 2) - a <= MAX_RELIABLE_COMMANDS
      BY <1>2, ServerCommandsAssumption
    <3> QED
      BY <2>4, <2>6, <3>4, <3>5 DEF RingOK
  <2>8. Evolves(c, d)
    BY <2>6 DEF Evolves
  <2> QED
    BY <2>1, <2>6, <2>7, <2>8
<1> QED
  BY <1>1, <1>3, <1>4

\* A pending command is replaced in its slot, whatever number holds that now;
\* none of those that were sent does.
LEMMA ReplaceOK ==
    ASSUME NEW c \in ClientT, RingOK(c), NEW cmd \in Commands, cmd.op = "cs",
           Pending(c, cmd) # {}
    PROVE  LET r == SV_ReplacePendingServerCommands(c, cmd) IN
           r \in ClientT /\ RingOK(r) /\ Evolves(c, r)
<1> DEFINE i == CHOOSE i \in Pending(c, cmd) : \A j \in Pending(c, cmd) : i <= j
           now == [j \in DOMAIN c.issued |-> IF Holds(c, j, i) THEN cmd ELSE c.issued[j]]
           r == SV_ReplacePendingServerCommands(c, cmd)
<1>1. /\ c.reliableSequence \in Nat /\ c.reliableSent \in Nat /\ c.reliableAcknowledge \in Nat
      /\ c.issued \in Seq(Commands) /\ Len(c.issued) = c.reliableSequence
      /\ c.reliableCommands \in [Ring -> Commands]
      /\ DOMAIN c.issued = 1 .. c.reliableSequence
  BY DEF ClientT, RingOK
<1>2. i \in Pending(c, cmd)
  <2>1. Pending(c, cmd) \in SUBSET Nat
    BY <1>1 DEF Pending
  <2> QED
    BY <2>1, Least
<1> HIDE DEF i
<1>3. /\ i \in c.reliableSent + 1 .. c.reliableSequence /\ i \in Nat
      /\ c.reliableCommands[Slot(i)].op = "cs"
      /\ Slot(i) \in Ring
  BY <1>1, <1>2, SlotInRing DEF Pending
<1>4. r = [c EXCEPT !.reliableCommands = [c.reliableCommands EXCEPT ![Slot(i)] = cmd],
                    !.issued = now]
  BY DEF SV_ReplacePendingServerCommands, i, ClientT
<1>5. now \in Seq(Commands) /\ Len(now) = c.reliableSequence
  <2>1. now \in [1 .. c.reliableSequence -> Commands]
    BY <1>1, ElementOfSeq
  <2> QED
    BY <1>1, <2>1
<1>6. [c.reliableCommands EXCEPT ![Slot(i)] = cmd] \in [Ring -> Commands]
  BY <1>1, <1>3
<1>7. \A j \in 1 .. c.reliableSequence :
        now[j] = IF Holds(c, j, i) THEN cmd ELSE c.issued[j]
  BY <1>1
<1> HIDE DEF now, r
<1>8. /\ r \in ClientT /\ r.state = c.state /\ r.issued = now
      /\ r.reliableSequence = c.reliableSequence
      /\ r.reliableAcknowledge = c.reliableAcknowledge
      /\ r.reliableSent = c.reliableSent
      /\ r.serverIdAcknowledge = c.serverIdAcknowledge
      /\ r.gamestateMessageNum = c.gamestateMessageNum
      /\ r.reliableCommands[Slot(i)] = cmd
      /\ \A s \in Ring : s # Slot(i) => r.reliableCommands[s] = c.reliableCommands[s]
  BY <1>1, <1>3, <1>4, <1>5, <1>6 DEF ClientT
<1>9. Evolves(c, r)
  <2>1. ASSUME NEW j \in 1 .. c.reliableSequence, j <= c.reliableSent
        PROVE  ~Holds(c, j, i)
    <3>1. j < i /\ i - j <= c.reliableSequence - j /\ j \in Nat
      BY <1>1, <1>3, <2>1
    <3>2. CASE c.reliableSequence - j < MAX_RELIABLE_COMMANDS
      <4>1. i - j < MAX_RELIABLE_COMMANDS
        BY <1>1, <1>3, <3>1, <3>2, ServerCommandsAssumption
      <4> QED
        BY <1>3, <3>1, <4>1, SlotsDiffer DEF Holds
    <3> QED
      BY <3>2 DEF Holds
  <2> QED
    BY <1>1, <1>7, <1>8, <2>1 DEF Evolves
<1>10. ASSUME NEW j \in 0 .. c.reliableSequence,
              c.reliableSequence - j < MAX_RELIABLE_COMMANDS, c.state # CS_ZOMBIE
       PROVE  r.reliableCommands[Slot(j)] = Issued(r, j)
  <2>1. c.reliableCommands[Slot(j)] = Issued(c, j) /\ Slot(j) \in Ring
    BY <1>1, <1>10, SlotInRing DEF RingOK
  <2>2. CASE Slot(j) # Slot(i)
    BY <1>7, <1>8, <2>1, <2>2 DEF Issued, Holds
  <2>3. CASE Slot(j) = Slot(i)
    <3>1. j # 0
      <4> SUFFICES ASSUME j = 0 PROVE FALSE
        OBVIOUS
      <4>1. 0 < i /\ i - 0 < MAX_RELIABLE_COMMANDS
        BY <1>1, <1>3, <1>10, ServerCommandsAssumption
      <4> QED
        BY <1>3, <2>3, <4>1, SlotsDiffer
    <3>2. Holds(c, j, i)
      BY <1>10, <2>3 DEF Holds
    <3> QED
      BY <1>1, <1>7, <1>8, <2>3, <3>1, <3>2 DEF Issued
  <2> QED
    BY <2>2, <2>3
<1>11. ASSUME c.state = CS_ZOMBIE,
              NEW j \in c.reliableAcknowledge + 1 .. c.reliableSequence
       PROVE  r.reliableCommands[Slot(j)] = r.issued[j] /\ r.issued[j].op # "cs"
  <2>1. /\ c.reliableCommands[Slot(j)] = c.issued[j] /\ c.issued[j].op # "cs"
        /\ Slot(j) \in Ring /\ j \in 1 .. c.reliableSequence
    BY <1>1, <1>11, SlotInRing DEF RingOK
  <2>2. Slot(j) # Slot(i)
    BY <1>3, <2>1
  <2> QED
    BY <1>7, <1>8, <2>1, <2>2 DEF Holds
<1>12. RingOK(r)
  BY <1>1, <1>5, <1>8, <1>10, <1>11 DEF RingOK
<1> QED
  BY <1>8, <1>9, <1>12 DEF r

LEMMA AddOK ==
    ASSUME NEW c \in ClientT, RingOK(c), NEW cmd \in Commands
    PROVE  LET a == SV_AddServerCommand(c, cmd) IN
           a \in ClientT /\ RingOK(a) /\ Evolves(c, a)
<1> DEFINE a == SV_AddServerCommand(c, cmd)
<1>1. CASE MOHTA /\ cmd.op = "cs" /\ Pending(c, cmd) # {}
  BY <1>1, ReplaceOK DEF SV_AddServerCommand
<1>2. CASE ~(MOHTA /\ cmd.op = "cs" /\ Pending(c, cmd) # {}) /\ c.state < CS_PRIMED
  BY <1>2 DEF SV_AddServerCommand, Evolves, ClientT
<1>3. CASE /\ ~(MOHTA /\ cmd.op = "cs" /\ Pending(c, cmd) # {}) /\ ~(c.state < CS_PRIMED)
           /\ c.reliableSequence + 1 - c.reliableAcknowledge = MAX_RELIABLE_COMMANDS + 1
  BY <1>3, DropOK DEF SV_AddServerCommand
<1>4. CASE /\ ~(MOHTA /\ cmd.op = "cs" /\ Pending(c, cmd) # {}) /\ ~(c.state < CS_PRIMED)
           /\ c.reliableSequence + 1 - c.reliableAcknowledge # MAX_RELIABLE_COMMANDS + 1
  <2>1. c.reliableSequence + 1 - c.reliableAcknowledge <= MAX_RELIABLE_COMMANDS
    BY <1>4, ServerCommandsAssumption DEF RingOK, ClientT
  <2>2. c.state # CS_ZOMBIE
    BY <1>4 DEF CS_ZOMBIE, CS_PRIMED
  <2> QED
    BY <1>4, <2>1, <2>2, StoreOK DEF SV_AddServerCommand
<1> QED
  BY <1>1, <1>2, <1>3, <1>4

LEMMA EvolvesOn ==
    ASSUME NEW b \in ClientT, NEW c \in ClientT, NEW d \in ClientT,
           Evolves(b, c), Evolves(c, d)
    PROVE  Evolves(b, d)
<1>1. /\ b.reliableSequence \in Nat /\ c.reliableSequence \in Nat
      /\ d.reliableSequence \in Nat /\ b.reliableSent \in Nat
  BY DEF ClientT
<1>2. ASSUME d.state # CS_ZOMBIE
      PROVE  /\ d.reliableSequence >= b.reliableSequence
             /\ d.gamestateMessageNum = b.gamestateMessageNum
             /\ \A i \in 1 .. b.reliableSequence :
                   i <= b.reliableSent => d.issued[i] = b.issued[i]
  <2>1. c.state # CS_ZOMBIE /\ c.reliableSent = b.reliableSent
        /\ c.reliableSequence >= b.reliableSequence
    BY <1>2 DEF Evolves
  <2>2. ASSUME NEW i \in 1 .. b.reliableSequence, i <= b.reliableSent
        PROVE  d.issued[i] = b.issued[i]
    BY <1>1, <1>2, <2>1, <2>2 DEF Evolves
  <2> QED
    BY <1>1, <1>2, <2>1, <2>2 DEF Evolves
<1> QED
  BY <1>2 DEF Evolves

LEMMA SendConfigstringOK ==
    ASSUME NEW c \in ClientT, RingOK(c), NEW k \in ConfigString, NEW v \in Value
    PROVE  LET s == SV_SendConfigstring(c, k, v) IN
           s \in ClientT /\ RingOK(s) /\ Evolves(c, s)
<1>1. CASE v \notin LongString
  BY <1>1, AddOK, CommandTypes DEF SV_SendConfigstring
<1>2. CASE v \in LongString
  <2> DEFINE a == SV_AddServerCommand(c, Command("bcs0", k, v))
             b == SV_AddServerCommand(a, Command("bcs2", k, v))
  <2>1. a \in ClientT /\ RingOK(a) /\ Evolves(c, a)
    BY AddOK, CommandTypes
  <2> HIDE DEF a
  <2>2. b \in ClientT /\ RingOK(b) /\ Evolves(a, b)
    BY <2>1, AddOK, CommandTypes
  <2> HIDE DEF b
  <2>3. Evolves(c, b)
    BY <2>1, <2>2, EvolvesOn
  <2> QED
    BY <1>2, <2>2, <2>3 DEF SV_SendConfigstring, a, b
<1> QED
  BY <1>1, <1>2

\* Only fields that say nothing of the queue are different.
LEMMA SameQueue ==
    ASSUME NEW c \in ClientT, NEW d \in ClientT, RingOK(c),
           d.state = c.state \/ (c.state # CS_ZOMBIE /\ d.state # CS_ZOMBIE),
           d.reliableSequence = c.reliableSequence,
           d.reliableAcknowledge = c.reliableAcknowledge,
           d.reliableCommands = c.reliableCommands, d.issued = c.issued
    PROVE  RingOK(d)
BY DEF RingOK, Issued

\* A finite set of numbers has a largest one.
LEMMA LargestIn ==
    ASSUME NEW S \in SUBSET Nat, IsFiniteSet(S), S # {}
    PROVE  Largest(S) \in S /\ \A y \in S : y <= Largest(S)
<1> DEFINE n == Cardinality(S)
<1>1. PICK f : ExistsBijection(1 .. n, S) /\ f \in Bijection(1 .. n, S) /\ n \in Nat
  BY FS_CardinalityType DEF ExistsBijection
<1> HIDE DEF n
<1>2. f \in [1 .. n -> S] /\ \A y \in S : \E i \in 1 .. n : f[i] = y
  BY <1>1 DEF Bijection, Injection, Surjection, IsInjective
<1> DEFINE N == {k \in Nat : \E b \in Nat : \A i \in 1 .. n : i <= k => f[i] <= b}
<1>3. 0 \in N
  OBVIOUS
<1>4. ASSUME NEW k \in Nat, k \in N PROVE k + 1 \in N
  <2>1. PICK b \in Nat : \A i \in 1 .. n : i <= k => f[i] <= b
    BY <1>4
  <2>2. CASE k + 1 \in 1 .. n
    <3> DEFINE d == IF f[k + 1] <= b THEN b ELSE f[k + 1]
    <3>1. f[k + 1] \in Nat
      BY <1>2, <2>2
    <3>2. d \in Nat /\ b <= d /\ f[k + 1] <= d
      BY <3>1
    <3> HIDE DEF d
    <3>3. ASSUME NEW i \in 1 .. n, i <= k + 1 PROVE f[i] <= d
      <4>1. f[i] \in Nat
        BY <1>2
      <4>2. i <= k \/ i = k + 1
        BY <1>1, <3>3
      <4> QED
        BY <2>1, <3>2, <4>1, <4>2
    <3> QED
      BY <3>2, <3>3
  <2>3. CASE k + 1 \notin 1 .. n
    <3>1. \A i \in 1 .. n : i <= k + 1 => i <= k
      BY <1>1, <2>3
    <3> QED
      BY <2>1, <3>1
  <2> QED
    BY <2>2, <2>3
<1> HIDE DEF N
<1>5. n \in N
  BY <1>1, <1>3, <1>4, Induction
<1> DEFINE T == {b \in Nat : \A y \in S : y <= b}
<1>6. PICK b \in Nat : \A i \in 1 .. n : i <= n => f[i] <= b
  BY <1>5 DEF N
<1>7. b \in T
  BY <1>1, <1>2, <1>6
<1>8. PICK x \in T : \A y \in T : x <= y
  BY <1>7, Least
<1>9. x \in S
  <2> SUFFICES ASSUME x \notin S PROVE FALSE
    OBVIOUS
  <2>1. PICK y \in S : TRUE
    OBVIOUS
  <2>2. x - 1 \in Nat
    BY <1>8, <2>1
  <2>3. x - 1 \in T
    BY <1>8, <2>2
  <2> QED
    BY <1>8, <2>3
<1>10. \E z \in S : \A y \in S : y <= z
  BY <1>8, <1>9
<1> QED
  BY <1>10 DEF Largest

\* The client_t after each index, in increasing order.
LEMMA UpdateConfigstringsSteps ==
    ASSUME NEW c \in ClientT, RingOK(c), sv.configstrings \in Strings
    PROVE  \E after :
              /\ after[0] = c
              /\ \A n \in Nat : /\ after[n] \in ClientT /\ RingOK(after[n])
                                /\ Evolves(c, after[n])
              /\ \A n \in Nat : after[n + 1] =
                    IF n + 1 \in ConfigString /\ c.csUpdated[n + 1]
                    THEN [SV_SendConfigstring(after[n], n + 1, sv.configstrings[n + 1])
                            EXCEPT !.csUpdated[n + 1] = FALSE]
                    ELSE after[n]
              /\ SV_UpdateConfigstrings(c) = after[Largest(ConfigString)]
<1> DEFINE S == {x \in ClientT : RingOK(x) /\ Evolves(c, x)}
           Sends(k) == k \in ConfigString /\ c.csUpdated[k]
           Flagged(x, k) == [SV_SendConfigstring(x, k, sv.configstrings[k])
                               EXCEPT !.csUpdated[k] = FALSE]
           step == [n \in Nat |-> [x \in S |-> IF Sends(n + 1) THEN Flagged(x, n + 1) ELSE x]]
           after == CHOOSE after : after =
                      [k \in Nat |->
                         IF k = 0 THEN c
                         ELSE IF k \in ConfigString /\ c.csUpdated[k]
                              THEN [SV_SendConfigstring(after[k - 1], k, sv.configstrings[k])
                                      EXCEPT !.csUpdated[k] = FALSE]
                              ELSE after[k - 1]]
<1>1. ASSUME NEW x \in S, NEW k \in ConfigString
      PROVE  Flagged(x, k) \in S
  <2> DEFINE y == SV_SendConfigstring(x, k, sv.configstrings[k])
             z == [y EXCEPT !.csUpdated[k] = FALSE]
  <2>1. sv.configstrings[k] \in Value
    BY DEF Strings
  <2>2. y \in ClientT /\ RingOK(y) /\ Evolves(x, y)
    BY <2>1, SendConfigstringOK
  <2>3. Evolves(c, y)
    BY <2>2, EvolvesOn
  <2> HIDE DEF y
  <2>4. /\ z \in ClientT /\ z.state = y.state
        /\ z.reliableSequence = y.reliableSequence
        /\ z.reliableAcknowledge = y.reliableAcknowledge
        /\ z.reliableSent = y.reliableSent
        /\ z.serverIdAcknowledge = y.serverIdAcknowledge
        /\ z.gamestateMessageNum = y.gamestateMessageNum
        /\ z.reliableCommands = y.reliableCommands /\ z.issued = y.issued
    <3>1. [y.csUpdated EXCEPT ![k] = FALSE] \in [ConfigString -> BOOLEAN]
      BY <2>2 DEF ClientT
    <3> QED
      BY <2>2, <3>1 DEF ClientT
  <2> HIDE DEF z
  <2>5. RingOK(z)
    BY <2>2, <2>4, SameQueue
  <2>6. Evolves(c, z)
    BY <2>3, <2>4 DEF Evolves
  <2> QED
    BY <2>4, <2>5, <2>6 DEF z, y
<1>2. c \in S
  BY DEF Evolves, ClientT
<1> HIDE DEF S
<1>3. step \in [Nat -> [S -> S]]
  <2>1. ASSUME NEW n \in Nat, NEW x \in S
        PROVE  (IF Sends(n + 1) THEN Flagged(x, n + 1) ELSE x) \in S
    <3> HIDE DEF Flagged
    <3> QED
      BY <1>1
  <2> HIDE DEF Flagged, Sends
  <2> QED
    BY <2>1
<1>4. \A n \in Nat : \A x \in S : step[n][x] = IF Sends(n + 1) THEN Flagged(x, n + 1) ELSE x
  <2> HIDE DEF Flagged, Sends
  <2> QED
    OBVIOUS
<1> HIDE DEF step
<1>5. PICK f \in [Nat -> S] : f[0] = c /\ \A n \in Nat : f[n + 1] = step[n][f[n]]
  <2> HIDE DEF after, Flagged, Sends
  <2> QED
    BY ONLY <1>2, <1>3, Recursion
<1>6. f = [k \in Nat |->
             IF k = 0 THEN c
             ELSE IF k \in ConfigString /\ c.csUpdated[k]
                  THEN [SV_SendConfigstring(f[k - 1], k, sv.configstrings[k])
                          EXCEPT !.csUpdated[k] = FALSE]
                  ELSE f[k - 1]]
  <2>1. ASSUME NEW k \in Nat, k # 0
        PROVE  f[k] = IF Sends(k) THEN Flagged(f[k - 1], k) ELSE f[k - 1]
    <3>1. k - 1 \in Nat /\ (k - 1) + 1 = k
      BY <2>1
    <3>2. f[k] = step[k - 1][f[k - 1]] /\ f[k - 1] \in S
      BY <1>5, <3>1
    <3>3. step[k - 1][f[k - 1]] = IF Sends(k) THEN Flagged(f[k - 1], k) ELSE f[k - 1]
      <4> HIDE DEF Sends, Flagged
      <4> QED
        BY <1>4, <3>1, <3>2
    <3> HIDE DEF Sends, Flagged
    <3> QED
      BY <3>2, <3>3
  <2> QED
    BY <1>5, <2>1
<1>7. after = [k \in Nat |->
             IF k = 0 THEN c
             ELSE IF k \in ConfigString /\ c.csUpdated[k]
                  THEN [SV_SendConfigstring(after[k - 1], k, sv.configstrings[k])
                          EXCEPT !.csUpdated[k] = FALSE]
                  ELSE after[k - 1]]
  BY <1>6
<1>8. SV_UpdateConfigstrings(c) = after[Largest(ConfigString)]
  BY DEF SV_UpdateConfigstrings
<1> HIDE DEF after
<1>9. after[0] = c
  BY <1>7
<1>10. \A n \in Nat : after[n + 1] = IF Sends(n + 1) THEN Flagged(after[n], n + 1) ELSE after[n]
  <2> TAKE n \in Nat
  <2>1. n + 1 \in Nat /\ n + 1 # 0 /\ (n + 1) - 1 = n
    OBVIOUS
  <2> QED
    BY <1>7, <2>1
<1> DEFINE N == {n \in Nat : after[n] \in S}
<1>11. 0 \in N
  BY <1>2, <1>9
<1>12. ASSUME NEW n \in Nat, n \in N PROVE n + 1 \in N
  <2> HIDE DEF Flagged
  <2> QED
    BY <1>1, <1>10, <1>12
<1> HIDE DEF N
<1>13. Nat \subseteq N
  BY <1>11, <1>12, Induction
<1>14. \A n \in Nat : after[n] \in ClientT /\ RingOK(after[n]) /\ Evolves(c, after[n])
  BY <1>13 DEF N, S
<1> QED
  BY <1>8, <1>9, <1>10, <1>14

LEMMA UpdateConfigstringsOK ==
    ASSUME NEW c \in ClientT, RingOK(c), sv.configstrings \in Strings
    PROVE  LET u == SV_UpdateConfigstrings(c) IN
           u \in ClientT /\ RingOK(u) /\ Evolves(c, u)
<1>1. Largest(ConfigString) \in Nat
  BY LargestIn, ServerCommandsAssumption
<1> QED
  BY <1>1, UpdateConfigstringsSteps

LEMMA EnterWorldOK ==
    ASSUME NEW c \in ClientT, RingOK(c), c.state # CS_ZOMBIE, sv.configstrings \in Strings
    PROVE  LET e == SV_ClientEnterWorld(c)
               d == [c EXCEPT !.state = CS_ACTIVE] IN
           e \in ClientT /\ RingOK(e) /\ Evolves(d, e)
<1> DEFINE d == [c EXCEPT !.state = CS_ACTIVE]
<1>1. /\ d \in ClientT /\ d.state = CS_ACTIVE
      /\ d.reliableSequence = c.reliableSequence
      /\ d.reliableAcknowledge = c.reliableAcknowledge
      /\ d.reliableCommands = c.reliableCommands /\ d.issued = c.issued
  BY DEF ClientT, States
<1>2. d.state # CS_ZOMBIE
  BY <1>1 DEF CS_ACTIVE, CS_ZOMBIE
<1> HIDE DEF d
<1>3. RingOK(d)
  BY <1>1, <1>2, SameQueue
<1>4. SV_ClientEnterWorld(c) = SV_UpdateConfigstrings(d)
  BY DEF SV_ClientEnterWorld, d
<1> QED
  BY <1>1, <1>3, <1>4, UpdateConfigstringsOK DEF d

LEMMA UnsendableOK ==
    /\ Unsendable \in Nat
    /\ MAX_RELIABLE_COMMANDS <= MaxWritten + 1 + Unsendable
BY ServerCommandsAssumption DEF Unsendable

\* The commands of a message are those issued after what was acknowledged, all
\* of them if the message has room.
LEMMA CommandsToClient ==
    ASSUME NEW c \in ClientT, RingOK(c)
    PROVE  \E b \in Nat :
              /\ c.reliableAcknowledge <= b /\ b <= c.reliableSequence
              /\ SV_UpdateServerCommandsToClient(c)
                    \in [c.reliableAcknowledge + 1 .. b -> Commands]
              /\ \A i \in c.reliableAcknowledge + 1 .. b :
                    SV_UpdateServerCommandsToClient(c)[i] = c.issued[i]
              /\ b # c.reliableSequence =>
                    /\ c.reliableSequence \notin c.reliableAcknowledge + 1 .. b
                    /\ c.reliableSequence - c.reliableAcknowledge > MaxWritten + 1
              /\ c.reliableSequence <= b + Unsendable
<1> DEFINE first == c.reliableAcknowledge + 1
           last == IF c.reliableSequence - first < MaxWritten
                   THEN c.reliableSequence ELSE first + MaxWritten
<1>1. /\ c.reliableAcknowledge \in Nat /\ c.reliableSequence \in Nat
      /\ c.issued \in Seq(Commands) /\ Len(c.issued) = c.reliableSequence
      /\ c.reliableAcknowledge <= c.reliableSequence
      /\ c.reliableSequence - c.reliableAcknowledge <= MAX_RELIABLE_COMMANDS
      /\ c.reliableCommands \in [Ring -> Commands]
  BY DEF RingOK, ClientT
<1>2. /\ last \in Nat /\ c.reliableAcknowledge <= last /\ last <= c.reliableSequence
      /\ last # c.reliableSequence =>
            /\ c.reliableSequence \notin first .. last
            /\ c.reliableSequence - c.reliableAcknowledge > MaxWritten + 1
      /\ c.reliableSequence <= last + Unsendable
  <2>1. CASE c.reliableSequence - first < MaxWritten
    BY <1>1, <2>1, UnsendableOK
  <2>2. CASE ~(c.reliableSequence - first < MaxWritten)
    <3>1. last = c.reliableAcknowledge + 1 + MaxWritten
      BY <2>2
    <3>2. MaxWritten \in Nat /\ c.reliableAcknowledge + 1 + MaxWritten <= c.reliableSequence
      BY <1>1, <2>2, ServerCommandsAssumption
    <3> HIDE DEF last
    <3>3. c.reliableSequence <= last + Unsendable
      BY <1>1, <3>1, <3>2, UnsendableOK, ServerCommandsAssumption
    <3> QED
      BY <1>1, <3>1, <3>2, <3>3
  <2> QED
    BY <2>1, <2>2
<1>3. ASSUME NEW i \in first .. last
      PROVE  /\ i \in Nat /\ Slot(i) \in Ring
             /\ c.reliableCommands[Slot(i)] = c.issued[i]
  <2>1. i \in Nat /\ i \in c.reliableAcknowledge + 1 .. c.reliableSequence
    BY <1>1, <1>2
  <2>2. c.reliableSequence - i < MAX_RELIABLE_COMMANDS /\ i # 0
    BY <1>1, <2>1, ServerCommandsAssumption
  <2>3. i \in 0 .. c.reliableSequence
    BY <1>1, <2>1
  <2> QED
    BY <2>1, <2>2, <2>3, SlotInRing DEF RingOK, Issued
<1>4. SV_UpdateServerCommandsToClient(c) = [i \in first .. last |-> c.reliableCommands[Slot(i)]]
  BY DEF SV_UpdateServerCommandsToClient
<1> HIDE DEF last
<1>5. SV_UpdateServerCommandsToClient(c) \in [first .. last -> Commands]
  BY <1>1, <1>3, <1>4
<1>6. \A i \in first .. last : SV_UpdateServerCommandsToClient(c)[i] = c.issued[i]
  BY <1>3, <1>4
<1> QED
  BY <1>2, <1>5, <1>6

-----------------------------------------------------------------------------
(* Messages in flight.                                                     *)

After(r, s, n, S) ==
    /\ r \in Seq(S) /\ Len(r) = Len(s) - n /\ Len(r) \in Nat
    /\ \A i \in 1 .. Len(r) : r[i] = s[n + i] /\ n + i \in 1 .. Len(s)

LEMMA Received ==
    ASSUME NEW S, NEW s \in Seq(S), NEW n \in 1 .. Len(s)
    PROVE  After(SubSeq(s, n + 1, Len(s)), s, n, S)
<1> USE DEF After
<1>1. Len(s) \in Nat /\ n \in Nat
  OBVIOUS
<1> DEFINE r == SubSeq(s, n + 1, Len(s))
<1>2. CASE n = Len(s)
  <2>1. r = <<>>
    BY <1>1, <1>2, SubSeqEmpty
  <2> HIDE DEF r
  <2> QED
    BY <1>1, <1>2, <2>1 DEF r
<1>3. CASE n # Len(s)
  <2>1. n + 1 \in 1 .. Len(s) + 1 /\ Len(s) \in 0 .. Len(s) /\ n + 1 <= Len(s)
    BY <1>1, <1>3
  <2>2. /\ r \in Seq(S)
        /\ Len(r) = Len(s) - (n + 1) + 1
        /\ \A i \in 1 .. Len(s) - (n + 1) + 1 : r[i] = s[(n + 1) + i - 1]
    BY <2>1, <1>1, SubSeqProperties
  <2>3. Len(r) = Len(s) - n
    BY <1>1, <2>2
  <2>4. \A i \in 1 .. Len(r) : n + i \in 1 .. Len(s) /\ (n + 1) + i - 1 = n + i
    BY <1>1, <2>3
  <2> HIDE DEF r
  <2>5. \A i \in 1 .. Len(r) : r[i] = s[n + i]
    BY <1>1, <2>2, <2>3, <2>4
  <2> QED
    BY <1>1, <2>2, <2>3, <2>4, <2>5 DEF r
<1> QED
  BY <1>2, <1>3

\* The message sent comes last, after those that were in flight, the oldest of
\* which may be lost.
EndsWith(r, s, e, S) ==
    /\ r \in Seq(S) /\ Len(r) \in Nat /\ Len(r) > 0
    /\ r[Len(r)] = e
    /\ \E d \in {0, 1} : \A i \in 1 .. Len(r) - 1 :
          i + d \in 1 .. Len(s) /\ r[i] = s[i + d]

LEMMA SentLast ==
    ASSUME NEW S, NEW s \in Seq(S), NEW e \in S
    PROVE  EndsWith(Sent(s, e), s, e, S)
<1> USE DEF EndsWith
<1> DEFINE r == Sent(s, e)
<1>1. Len(s) \in Nat /\ MaxInFlight \in Nat /\ MaxInFlight > 0
  BY ServerCommandsAssumption
<1>2. CASE Len(s) < MaxInFlight
  <2>1. r = Append(s, e)
    BY <1>2 DEF Sent
  <2>2. /\ Append(s, e) \in Seq(S) /\ Len(Append(s, e)) = Len(s) + 1
        /\ Append(s, e)[Len(s) + 1] = e
        /\ \A i \in 1 .. Len(s) : Append(s, e)[i] = s[i]
    BY AppendProperties
  <2> HIDE DEF r
  <2>3. \A i \in 1 .. Len(r) - 1 : i + 0 \in 1 .. Len(s) /\ r[i] = s[i + 0]
    BY <1>1, <2>1, <2>2
  <2> QED
    BY <1>1, <2>1, <2>2, <2>3 DEF r
<1>3. CASE ~(Len(s) < MaxInFlight)
  <2>1. r = Append(Tail(s), e)
    BY <1>3 DEF Sent
  <2>2. s # <<>> /\ Len(s) > 0
    BY <1>1, <1>3
  <2>3. /\ Tail(s) \in Seq(S) /\ Len(Tail(s)) = Len(s) - 1
        /\ \A i \in 1 .. Len(Tail(s)) : Tail(s)[i] = s[i + 1]
    BY <2>2, HeadTailProperties
  <2>4. /\ r \in Seq(S) /\ Len(r) = Len(Tail(s)) + 1
        /\ r[Len(Tail(s)) + 1] = e
        /\ \A i \in 1 .. Len(Tail(s)) : r[i] = Tail(s)[i]
    BY <2>1, <2>3, AppendProperties
  <2> HIDE DEF r
  <2>5. \A i \in 1 .. Len(r) - 1 : i + 1 \in 1 .. Len(s) /\ r[i] = s[i + 1]
    BY <1>1, <2>3, <2>4
  <2> QED
    BY <1>1, <2>2, <2>3, <2>4, <2>5 DEF r
<1> QED
  BY <1>2, <1>3

-----------------------------------------------------------------------------
(* The types of what is read from the sequences.                           *)

LEMMA MessageTypes ==
    ASSUME NEW s \in Seq(Messages), NEW n \in 1 .. Len(s)
    PROVE  /\ s[n] \in Messages
           /\ s[n].sequence \in Nat /\ s[n].reliableSequence \in Nat /\ s[n].serverId \in Nat
           /\ s[n].serverId \in 0 .. MaxServerId
           /\ s[n].commands \in Runs /\ s[n].configstrings \in Strings /\ s[n].state \in States
<1>1. s[n] \in Messages
  BY ElementOfSeq
<1> QED
  BY <1>1, ServerCommandsAssumption DEF Messages

LEMMA PacketTypes ==
    ASSUME NEW s \in Seq(Packets), NEW n \in 1 .. Len(s)
    PROVE  /\ s[n] \in Packets
           /\ s[n].serverId \in Nat /\ s[n].serverId \in 0 .. MaxServerId
           /\ s[n].messageAcknowledge \in Nat /\ s[n].reliableAcknowledge \in Nat
           /\ s[n].key \in Commands
<1>1. s[n] \in Packets
  BY ElementOfSeq
<1> QED
  BY <1>1, ServerCommandsAssumption DEF Packets

LEMMA SnapshotTypes ==
    ASSUME NEW s \in Seq(Snapshots), NEW n \in 1 .. Len(s)
    PROVE  /\ s[n] \in Snapshots
           /\ s[n].serverCommandNum \in Nat /\ s[n].reliableSequence \in Nat
<1>1. s[n] \in Snapshots
  BY ElementOfSeq
<1> QED
  BY <1>1 DEF Snapshots

LEMMA VariableTypes ==
    ASSUME TypeInv
    PROVE  /\ cl \in ClientT /\ clc \in ClientConnection /\ cgs \in CGame
           /\ toClient \in Seq(Messages) /\ toServer \in Seq(Packets)
           /\ Len(toClient) \in Nat /\ Len(toServer) \in Nat
           /\ cl.reliableSequence \in Nat /\ cl.reliableSent \in Nat
           /\ cl.reliableAcknowledge \in Nat /\ cl.issued \in Seq(Commands)
           /\ cl.gamestateMessageNum \in Int /\ cl.state \in States
           /\ sv.serverId \in Nat /\ sv.configstrings \in Strings
           /\ outgoingSequence \in Nat
           /\ clc.serverId \in Nat /\ clc.serverMessageSequence \in Nat
           /\ clc.serverCommandSequence \in Nat
           /\ clc.serverCommands \in [Ring -> Commands]
           /\ clc.snapshots \in Seq(Snapshots) /\ Len(clc.snapshots) \in Nat
           /\ cgs.base \in Nat /\ cgs.serverCommandSequence \in Nat
           /\ cgs.executed \in Seq(Commands) /\ Len(cgs.executed) \in Nat
<1>1. /\ cl \in ClientT /\ clc \in ClientConnection /\ cgs \in CGame
      /\ toClient \in Seq(Messages) /\ toServer \in Seq(Packets)
      /\ sv \in [serverId : 1 .. MaxServerId, configstrings : Strings]
      /\ outgoingSequence \in 1 .. MaxMessages + 1
  BY DEF TypeInv
<1>2. Len(toClient) \in Nat /\ Len(toServer) \in Nat
  BY <1>1
<1>3. /\ cl.reliableSequence \in Nat /\ cl.reliableSent \in Nat
      /\ cl.reliableAcknowledge \in Nat /\ cl.issued \in Seq(Commands)
      /\ cl.gamestateMessageNum \in Int /\ cl.state \in States
  BY <1>1 DEF ClientT
<1>4. sv.serverId \in Nat /\ sv.configstrings \in Strings /\ outgoingSequence \in Nat
  BY <1>1, ServerCommandsAssumption
<1>5. /\ clc.serverId \in Nat /\ clc.serverMessageSequence \in Nat
      /\ clc.serverCommandSequence \in Nat
      /\ clc.serverCommands \in [Ring -> Commands]
      /\ clc.snapshots \in Seq(Snapshots) /\ Len(clc.snapshots) \in Nat
  BY <1>1, ServerCommandsAssumption DEF ClientConnection
<1>6. /\ cgs.base \in Nat /\ cgs.serverCommandSequence \in Nat
      /\ cgs.executed \in Seq(Commands) /\ Len(cgs.executed) \in Nat
  BY <1>1 DEF CGame
<1> QED
  BY <1>1, <1>2, <1>3, <1>4, <1>5, <1>6

-----------------------------------------------------------------------------
(* Steps that only change the queue, and may take packets from the client. *)

Fewer(new, old) == \A n \in 1 .. Len(new) : \E m \in 1 .. Len(old) : new[n] = old[m]

\* What was sent is still there, unless the client was dropped.
Keeps(b, c) ==
    c.state # CS_ZOMBIE =>
        /\ b.state # CS_ZOMBIE
        /\ c.reliableSequence >= b.reliableSequence
        /\ c.reliableSent = b.reliableSent
        /\ c.gamestateMessageNum = b.gamestateMessageNum
        /\ \A i \in 1 .. b.reliableSequence :
              i <= b.reliableSent => c.issued[i] = b.issued[i]

LEMMA EvolvesKeeps ==
    ASSUME NEW b, NEW c, Evolves(b, c)
    PROVE  Keeps(b, c)
BY DEF Evolves, Keeps

LEMMA KeepsOn ==
    ASSUME NEW b, NEW c, NEW d, Keeps(c, d), b.state # CS_ZOMBIE,
           c.reliableSequence = b.reliableSequence, c.reliableSent = b.reliableSent,
           c.gamestateMessageNum = b.gamestateMessageNum, c.issued = b.issued
    PROVE  Keeps(b, d)
BY DEF Keeps

QueueStep ==
    /\ cl' \in ClientT /\ RingOK(cl') /\ Keeps(cl, cl')
    /\ sv' \in [serverId : 1 .. MaxServerId, configstrings : Strings]
    /\ sv'.serverId \in {sv.serverId, sv.serverId + 1}
    /\ changes' \in Value
    /\ toServer' \in Seq(Packets) /\ Fewer(toServer', toServer)
    /\ illegible' \in BOOLEAN /\ (illegible => illegible')
    /\ ~illegible /\ ~illegible' /\ cl.state # CS_ZOMBIE /\ ClientInv =>
           cl'.reliableAcknowledge <= clc.serverCommandSequence
    /\ UNCHANGED <<outgoingSequence, toClient, clc, cgs, deferred>>

LEMMA QueueStepGamestates ==
    ASSUME TypeInv, TypeInv', SequenceInv, GamestateInv, QueueStep
    PROVE  SequenceInv' /\ GamestateInv'
<1> USE DEF QueueStep, Fewer
<1>1. SequenceInv'
  BY DEF SequenceInv
<1>2. sv.serverId \in Nat /\ sv.serverId <= sv'.serverId
      /\ clc.serverId \in Nat
  <2>1. sv.serverId \in Nat /\ clc.serverId \in Nat
    BY VariableTypes
  <2> QED
    BY <2>1
<1>2a. \A n \in 1 .. Len(toClient) : toClient[n].serverId \in Nat
  BY VariableTypes, MessageTypes
<1>2b. \A n \in 1 .. Len(toServer) : toServer[n].serverId \in Nat
  BY VariableTypes, PacketTypes
<1>3. GamestateInv'
  <2>1. /\ clc.serverId <= sv'.serverId
        /\ \A n \in 1 .. Len(toClient) : toClient[n].serverId <= sv'.serverId
        /\ \A n \in 1 .. Len(toServer') : toServer'[n].serverId <= sv'.serverId
    <3>1. clc.serverId <= sv'.serverId
      BY <1>2 DEF GamestateInv
    <3>2. \A n \in 1 .. Len(toClient) : toClient[n].serverId <= sv'.serverId
      BY <1>2, <1>2a DEF GamestateInv
    <3>3. \A n \in 1 .. Len(toServer) : toServer[n].serverId <= sv'.serverId
      BY <1>2, <1>2b DEF GamestateInv
    <3> QED
      BY <3>1, <3>2, <3>3
  <2>2. CASE sv'.serverId = sv.serverId
    BY <2>1, <2>2 DEF GamestateInv, Keeps
  <2>3. CASE sv'.serverId = sv.serverId + 1
    <3>1. /\ clc.serverId # sv'.serverId
          /\ \A n \in 1 .. Len(toClient) : toClient[n].serverId # sv'.serverId
      BY <1>2, <1>2a, <2>3 DEF GamestateInv
    <3> QED
      BY <2>1, <3>1 DEF GamestateInv
  <2> QED
    BY <2>2, <2>3
<1> QED
  BY <1>1, <1>3

LEMMA QueueStepInFlight ==
    ASSUME InFlightInv, SnapshotInv, QueueStep
    PROVE  InFlightInv' /\ SnapshotInv'
<1>1. toClient' = toClient /\ clc' = clc /\ cgs' = cgs /\ deferred' = deferred
  BY DEF QueueStep
<1> QED
  BY <1>1 DEF InFlightInv, SnapshotInv, Carries

LEMMA QueueStepClient ==
    ASSUME TypeInv, InFlightInv, ClientInv, QueueStep, ~illegible, ~illegible',
           cl.state # CS_ZOMBIE, cl'.state # CS_ZOMBIE
    PROVE  ClientInv'
<1>1. /\ toClient' = toClient /\ clc' = clc /\ cgs' = cgs /\ deferred' = deferred
      /\ Fewer(toServer', toServer) /\ toServer' \in Seq(Packets)
  BY DEF QueueStep
<1>2. /\ cl.reliableSequence \in Nat /\ cl'.reliableSequence \in Nat /\ cl.reliableSent \in Nat
      /\ cl'.reliableAcknowledge \in Nat
      /\ clc.serverCommandSequence \in Nat /\ cgs.base \in Nat
      /\ cgs.serverCommandSequence \in Nat /\ cgs.executed \in Seq(Commands)
  BY DEF TypeInv, ClientT, ClientConnection, CGame, QueueStep
<1>3. /\ cl'.reliableSequence >= cl.reliableSequence
      /\ cl'.reliableSent = cl.reliableSent
      /\ \A i \in 1 .. cl.reliableSent : cl'.issued[i] = cl.issued[i]
  BY <1>2 DEF QueueStep, Keeps, ClientInv, HoldsInv
<1>4. MessagesInv'
  <2> SUFFICES ASSUME NEW n \in 1 .. Len(toClient)
               PROVE  LET m == toClient[n] IN
                      /\ Live(m)
                      /\ m.reliableSequence <= cl'.reliableSequence
                      /\ m.body # "nop" => m.reliableSequence <= cl'.reliableSent
                      /\ \A i \in DOMAIN m.commands : m.commands[i] = cl'.issued[i]
    BY <1>1 DEF MessagesInv
  <2> DEFINE m == toClient[n]
  <2>1. m \in Messages /\ m.reliableSequence \in Nat
    BY VariableTypes, MessageTypes
  <2>2. /\ Live(m) /\ m.reliableSequence <= cl.reliableSequence
        /\ m.body # "nop" => m.reliableSequence <= cl.reliableSent
        /\ \A i \in DOMAIN m.commands : m.commands[i] = cl.issued[i]
        /\ Carries(m, clc.serverCommandSequence, deferred)
    BY DEF ClientInv, MessagesInv, InFlightInv
  <2> HIDE DEF m
  <2>3. PICK a \in Nat, b \in Nat :
           /\ m.commands \in [a + 1 .. b -> Commands] /\ b <= m.reliableSequence
           /\ m.body = "nop" => b = 0
    BY <2>2 DEF Carries
  <2>4. b <= cl.reliableSent
    BY <1>2, <2>1, <2>2, <2>3
  <2>5. \A i \in DOMAIN m.commands : m.commands[i] = cl'.issued[i]
    BY <1>2, <1>3, <2>2, <2>3, <2>4
  <2> QED
    BY <1>2, <1>3, <2>1, <2>2, <2>5 DEF m
<1>5. clc.serverCommandSequence <= cl.reliableSent
  BY DEF ClientInv, HoldsInv
<1>6. \A i \in 0 .. clc.serverCommandSequence : Issued(cl', i) = Issued(cl, i)
  BY <1>2, <1>3, <1>5 DEF Issued
<1>7. PacketsInv'
  <2> SUFFICES ASSUME NEW n \in 1 .. Len(toServer')
               PROVE  /\ toServer'[n].reliableAcknowledge <= clc.serverCommandSequence
                      /\ ~deferred => toServer'[n].key
                                         = Issued(cl', toServer'[n].reliableAcknowledge)
    BY <1>1 DEF PacketsInv
  <2>1. PICK m \in 1 .. Len(toServer) : toServer'[n] = toServer[m]
    BY <1>1 DEF Fewer
  <2>2. toServer[m].reliableAcknowledge \in 0 .. clc.serverCommandSequence
    <3>1. toServer[m].reliableAcknowledge \in Nat
      BY VariableTypes, PacketTypes
    <3>2. toServer[m].reliableAcknowledge <= clc.serverCommandSequence
      BY DEF ClientInv, PacketsInv
    <3> QED
      BY <1>2, <3>1, <3>2
  <2> QED
    BY <1>2, <1>6, <2>1, <2>2 DEF ClientInv, PacketsInv
<1>8. HoldsInv'
  <2>1. \A i \in cgs.base + 1 .. clc.serverCommandSequence : cl'.issued[i] = cl.issued[i]
    BY <1>2, <1>3, <1>5
  <2>2. cl'.reliableAcknowledge <= clc.serverCommandSequence
    BY DEF QueueStep
  <2>3. cl'.reliableSent <= cl'.reliableSequence
    BY <1>2, <1>3 DEF ClientInv, HoldsInv
  <2>4. Issued(cl', clc.serverCommandSequence) = Issued(cl, clc.serverCommandSequence)
    BY <1>2, <1>6
  <2> QED
    BY <1>1, <1>3, <2>1, <2>2, <2>3, <2>4 DEF ClientInv, HoldsInv
<1>9. CGameInv'
  <2>1. \A i \in 1 .. Len(cgs.executed) : cl'.issued[cgs.base + i] = cl.issued[cgs.base + i]
    <3>1. Len(cgs.executed) = cgs.serverCommandSequence - cgs.base /\ Len(cgs.executed) \in Nat
          /\ cgs.serverCommandSequence <= clc.serverCommandSequence
      BY <1>2 DEF ClientInv, CGameInv
    <3>2. \A i \in 1 .. Len(cgs.executed) : cgs.base + i \in 1 .. cl.reliableSent
      BY <1>2, <1>5, <3>1
    <3> QED
      BY <1>3, <3>2
  <2> QED
    BY <1>1, <2>1 DEF ClientInv, CGameInv
<1> QED
  BY <1>4, <1>7, <1>8, <1>9 DEF ClientInv

LEMMA QueueStepOK ==
    ASSUME IInv, QueueStep
    PROVE  IInv'
<1>1. TypeInv'
  BY DEF IInv, TypeInv, QueueStep
<1>2. RingOK(cl)'
  BY DEF QueueStep, RingOK, Issued
<1>3. SequenceInv' /\ GamestateInv'
  BY <1>1, QueueStepGamestates DEF IInv
<1>4. ~illegible' => InFlightInv' /\ SnapshotInv'
  BY QueueStepInFlight DEF IInv, QueueStep
<1>5. ~illegible' /\ cl'.state # CS_ZOMBIE => ClientInv'
  BY QueueStepClient DEF IInv, QueueStep, Keeps
<1> QED
  BY <1>1, <1>2, <1>3, <1>4, <1>5 DEF IInv

-----------------------------------------------------------------------------
(* Steps that send the client a message.                                   *)

\* Message m carries the commands issued after some number the client has.
Filled(m) ==
    \E a \in Nat, b \in Nat :
        /\ m.commands \in [a + 1 .. b -> Commands]
        /\ a <= b /\ b <= m.reliableSequence
        /\ \A i \in a + 1 .. b : m.commands[i] = cl.issued[i]
        /\ ~deferred' /\ m.body # "nop" => b = m.reliableSequence
        /\ m.body # "nop" => m.reliableSequence <= b + Unsendable
        /\ m.body = "nop" => b = 0
        /\ ~illegible /\ cl.state # CS_ZOMBIE /\ ClientInv => a <= clc.serverCommandSequence

SendStep(m) ==
    /\ cl' \in ClientT /\ RingOK(cl')
    /\ (cl'.state = CS_ZOMBIE) = (cl.state = CS_ZOMBIE)
    /\ cl'.reliableSequence = cl.reliableSequence
    /\ cl'.issued = cl.issued
    /\ cl'.reliableSent \in {cl.reliableSent, cl.reliableSequence}
    /\ m.body # "nop" => cl'.reliableSent = cl.reliableSequence
    /\ ~illegible /\ cl.state # CS_ZOMBIE /\ ClientInv =>
           cl'.reliableAcknowledge <= clc.serverCommandSequence
    /\ cl'.gamestateMessageNum = (IF m.body = "gamestate" THEN outgoingSequence
                                  ELSE cl.gamestateMessageNum)
    /\ m \in Messages
    /\ m.sequence = outgoingSequence
    /\ m.reliableSequence = cl.reliableSequence
    /\ m.serverId = sv.serverId
    /\ Live(m) => cl.state # CS_ZOMBIE
    /\ cl.state # CS_ZOMBIE => Live(m)
    /\ Filled(m)
    /\ toClient' = Sent(toClient, m)
    /\ outgoingSequence' = outgoingSequence + 1
    /\ outgoingSequence' \in 1 .. MaxMessages + 1
    /\ deferred' \in BOOLEAN /\ (deferred => deferred')
    /\ toServer' \in Seq(Packets) /\ Fewer(toServer', toServer)
    /\ UNCHANGED <<sv, changes, clc, cgs, illegible>>

\* Nobody has the current gamestate, or is about to get it.
Ahead ==
    /\ clc.serverId # sv.serverId
    /\ \A n \in 1 .. Len(toClient) :
          toClient[n].body = "gamestate" => toClient[n].serverId # sv.serverId

\* What is sent when: a gamestate to who does not have it, a snapshot to who
\* acknowledged the map.
Made(m) ==
    /\ m.configstrings = sv.configstrings
    /\ cl'.csUpdated = cl.csUpdated
    /\ m.body # "gamestate" =>
         /\ cl'.state = cl.state /\ m.state = cl.state
         /\ cl'.serverIdAcknowledge = cl.serverIdAcknowledge
    /\ m.body = "snapshot" => cl.serverIdAcknowledge = sv.serverId
    /\ m.body = "gamestate" =>
         /\ cl.state # CS_ZOMBIE /\ cl'.state = CS_PRIMED
         /\ Ahead
         /\ \E n \in 1 .. Len(toServer) :
               /\ cl'.serverIdAcknowledge = toServer[n].serverId
               /\ toServer[n].serverId # sv.serverId

LEMMA SendStepTypes ==
    ASSUME TypeInv, NEW m, SendStep(m)
    PROVE  /\ TypeInv'
           /\ Len(toClient') \in Nat /\ Len(toClient') > 0
           /\ toClient'[Len(toClient')] = m
           /\ \E d \in {0, 1} : \A i \in 1 .. Len(toClient') - 1 :
                 i + d \in 1 .. Len(toClient) /\ toClient'[i] = toClient[i + d]
<1>1. /\ toClient' \in Seq(Messages) /\ Len(toClient') \in Nat /\ Len(toClient') > 0
      /\ toClient'[Len(toClient')] = m
      /\ \E d \in {0, 1} : \A i \in 1 .. Len(toClient') - 1 :
            i + d \in 1 .. Len(toClient) /\ toClient'[i] = toClient[i + d]
  <2>1. toClient \in Seq(Messages) /\ m \in Messages /\ toClient' = Sent(toClient, m)
    BY VariableTypes DEF SendStep
  <2> DEFINE r == Sent(toClient, m)
  <2>2. EndsWith(r, toClient, m, Messages)
    BY <2>1, SentLast
  <2>3. toClient' = r
    BY <2>1
  <2> HIDE DEF r
  <2> QED
    BY <2>2, <2>3 DEF EndsWith
<1>2. TypeInv'
  BY <1>1 DEF TypeInv, SendStep
<1> QED
  BY <1>1, <1>2

LEMMA SendStepSequences ==
    ASSUME TypeInv, SequenceInv, NEW m, SendStep(m)
    PROVE  SequenceInv'
<1> DEFINE last == Len(toClient')
<1>1. PICK d \in {0, 1} : \A i \in 1 .. last - 1 :
         i + d \in 1 .. Len(toClient) /\ toClient'[i] = toClient[i + d]
  BY SendStepTypes
<1>2. last \in Nat /\ last > 0 /\ toClient'[last] = m
  BY SendStepTypes
<1>3. /\ outgoingSequence \in Nat /\ clc.serverMessageSequence \in Nat
      /\ outgoingSequence' = outgoingSequence + 1 /\ m.sequence = outgoingSequence
      /\ clc' = clc /\ Fewer(toServer', toServer)
      /\ clc.serverMessageSequence < outgoingSequence
  BY VariableTypes DEF SendStep, SequenceInv
<1>4. \A i \in 1 .. Len(toClient) :
        /\ toClient[i].sequence \in Nat
        /\ clc.serverMessageSequence < toClient[i].sequence
        /\ toClient[i].sequence < outgoingSequence
  BY VariableTypes, MessageTypes DEF SequenceInv
<1>5. \A i \in 1 .. last - 1 :
        /\ toClient'[i].sequence \in Nat
        /\ clc.serverMessageSequence < toClient'[i].sequence
        /\ toClient'[i].sequence < outgoingSequence
  BY <1>1, <1>4
<1> HIDE DEF last
<1>6. \A i \in 1 .. last : i = last \/ i \in 1 .. last - 1
  BY <1>2
<1>7. \A i \in 1 .. last :
        /\ clc.serverMessageSequence < toClient'[i].sequence
        /\ toClient'[i].sequence < outgoingSequence + 1
  BY <1>2, <1>3, <1>5, <1>6
<1>8. ASSUME NEW i \in 1 .. last, NEW j \in 1 .. last, i < j
      PROVE  toClient'[i].sequence < toClient'[j].sequence
  <2>1. i \in 1 .. last - 1
    BY <1>2, <1>8
  <2>2. CASE j = last
    BY <1>2, <1>3, <1>5, <2>1, <2>2
  <2>3. CASE j \in 1 .. last - 1
    <3>1. i + d < j + d
      BY <1>2, <1>8
    <3> QED
      BY <1>1, <2>1, <2>3, <3>1 DEF SequenceInv
  <2> QED
    BY <1>6, <2>2, <2>3
<1>9. \A n \in 1 .. Len(toServer') :
        toServer'[n].messageAcknowledge <= clc.serverMessageSequence
  BY <1>3 DEF SequenceInv, Fewer
<1>10. clc.serverMessageSequence < outgoingSequence + 1
  BY <1>3
<1> QED
  BY <1>3, <1>7, <1>8, <1>9, <1>10 DEF SequenceInv, last

LEMMA SendStepGamestates ==
    ASSUME TypeInv, SequenceInv, GamestateInv, NEW m, SendStep(m)
    PROVE  GamestateInv'
<1> DEFINE last == Len(toClient')
<1>1. PICK d \in {0, 1} : \A i \in 1 .. last - 1 :
         i + d \in 1 .. Len(toClient) /\ toClient'[i] = toClient[i + d]
  BY SendStepTypes
<1>2. last \in Nat /\ last > 0 /\ toClient'[last] = m
  BY SendStepTypes
<1>3. /\ outgoingSequence \in Nat /\ clc.serverMessageSequence \in Nat
      /\ m.sequence = outgoingSequence /\ m.serverId = sv.serverId
      /\ clc' = clc /\ sv' = sv /\ Fewer(toServer', toServer)
      /\ clc.serverMessageSequence < outgoingSequence
      /\ sv.serverId \in Nat
      /\ (cl'.state = CS_ZOMBIE) = (cl.state = CS_ZOMBIE)
      /\ cl'.gamestateMessageNum = (IF m.body = "gamestate" THEN outgoingSequence
                                    ELSE cl.gamestateMessageNum)
  BY VariableTypes DEF SendStep, SequenceInv
<1>4. \A i \in 1 .. Len(toClient) :
        toClient[i].sequence \in Nat /\ toClient[i].sequence < outgoingSequence
  BY VariableTypes, MessageTypes DEF SequenceInv
<1>5. \A i \in 1 .. Len(toServer) :
        /\ toServer[i].messageAcknowledge \in Nat
        /\ toServer[i].messageAcknowledge < outgoingSequence
  <2> TAKE i \in 1 .. Len(toServer)
  <2>1. toServer[i].messageAcknowledge \in Nat
    BY VariableTypes, PacketTypes
  <2>2. /\ toServer[i].messageAcknowledge <= clc.serverMessageSequence
        /\ clc.serverMessageSequence < outgoingSequence
    BY DEF SequenceInv
  <2>3. clc.serverMessageSequence \in Nat /\ outgoingSequence \in Nat
    BY VariableTypes
  <2> QED
    BY <2>1, <2>2, <2>3
<1>6. \A i \in 1 .. last : i = last \/ i \in 1 .. last - 1
  BY <1>2
<1> HIDE DEF last
<1>7. \A i \in 1 .. last : toClient'[i].serverId <= sv.serverId
  BY <1>1, <1>2, <1>3, <1>6 DEF GamestateInv
<1>8. clc.serverId <= sv.serverId
      /\ \A n \in 1 .. Len(toServer') : toServer'[n].serverId <= sv.serverId
  BY <1>3 DEF GamestateInv, Fewer
<1>9. ASSUME cl'.state # CS_ZOMBIE, NEW n \in 1 .. last,
             toClient'[n].body = "gamestate", toClient'[n].serverId = sv.serverId
      PROVE  toClient'[n].sequence <= cl'.gamestateMessageNum
  <2>1. CASE n = last
    BY <1>2, <1>3, <1>9, <2>1
  <2>2. CASE n \in 1 .. last - 1
    <3>1. /\ n + d \in 1 .. Len(toClient) /\ toClient'[n] = toClient[n + d]
      BY <1>1, <2>2
    <3>2. toClient[n + d].sequence <= cl.gamestateMessageNum
      BY <1>3, <1>9, <3>1 DEF GamestateInv
    <3> QED
      BY <1>3, <1>4, <3>1, <3>2
  <2> QED
    BY <1>6, <2>1, <2>2
<1>10. ASSUME cl'.state # CS_ZOMBIE, clc.serverId = sv.serverId, NEW n \in 1 .. Len(toServer'),
              toServer'[n].serverId # sv.serverId
       PROVE  toServer'[n].messageAcknowledge <= cl'.gamestateMessageNum
  <2>1. PICK k \in 1 .. Len(toServer) : toServer'[n] = toServer[k]
    BY <1>3 DEF Fewer
  <2>2. toServer[k].messageAcknowledge <= cl.gamestateMessageNum
    BY <1>3, <1>10, <2>1 DEF GamestateInv
  <2> QED
    BY <1>3, <1>5, <2>1, <2>2
<1> QED
  BY <1>3, <1>7, <1>8, <1>9, <1>10 DEF GamestateInv, last

LEMMA SendStepInFlight ==
    ASSUME TypeInv, InFlightInv, SnapshotInv, cl.state # CS_ZOMBIE => ClientInv, ~illegible,
           NEW m, SendStep(m)
    PROVE  InFlightInv' /\ SnapshotInv'
<1> DEFINE last == Len(toClient')
<1>1. PICK d \in {0, 1} : \A i \in 1 .. last - 1 :
         i + d \in 1 .. Len(toClient) /\ toClient'[i] = toClient[i + d]
  BY SendStepTypes
<1>2. last \in Nat /\ last > 0 /\ toClient'[last] = m
  BY SendStepTypes
<1>3. clc' = clc /\ cgs' = cgs /\ (deferred => deferred') /\ Filled(m)
  BY DEF SendStep
<1>4. SnapshotInv'
  BY <1>3 DEF SnapshotInv
<1>5. \A e : Carries(e, clc.serverCommandSequence, deferred)
               => Carries(e, clc.serverCommandSequence, deferred')
  BY <1>3 DEF Carries
<1>6. \A i \in 1 .. last : i = last \/ i \in 1 .. last - 1
  BY <1>2
<1> HIDE DEF last
<1>7. ASSUME NEW n \in 1 .. last - 1, Live(toClient'[n])
      PROVE  /\ Carries(toClient'[n], clc.serverCommandSequence, deferred')
             /\ clc.serverCommandSequence <= toClient'[n].reliableSequence
             /\ \A k \in 1 .. n :
                  /\ Live(toClient'[k])
                  /\ toClient'[k].reliableSequence <= toClient'[n].reliableSequence
  <2>1. n + d \in 1 .. Len(toClient) /\ toClient'[n] = toClient[n + d]
    BY <1>1
  <2>2. \A k \in 1 .. n : k + d \in 1 .. n + d /\ k \in 1 .. last - 1
    BY <1>2
  <2>3. \A k \in 1 .. n : toClient'[k] = toClient[k + d]
    BY <1>1, <2>2
  <2>4. /\ Carries(toClient[n + d], clc.serverCommandSequence, deferred)
        /\ clc.serverCommandSequence <= toClient[n + d].reliableSequence
        /\ \A k \in 1 .. n + d :
             /\ Live(toClient[k])
             /\ toClient[k].reliableSequence <= toClient[n + d].reliableSequence
    BY <1>7, <2>1 DEF InFlightInv
  <2> QED
    BY <1>5, <2>1, <2>2, <2>3, <2>4
<1>8. ASSUME Live(m)
      PROVE  /\ Carries(m, clc.serverCommandSequence, deferred')
             /\ clc.serverCommandSequence <= m.reliableSequence
             /\ \A k \in 1 .. last - 1 :
                  /\ Live(toClient'[k])
                  /\ toClient'[k].reliableSequence <= m.reliableSequence
  <2>1. cl.state # CS_ZOMBIE /\ ClientInv /\ m.reliableSequence = cl.reliableSequence
    BY <1>8 DEF SendStep
  <2>2. Carries(m, clc.serverCommandSequence, deferred')
    BY <1>3, <2>1 DEF Filled, Carries
  <2>3. clc.serverCommandSequence <= m.reliableSequence
    BY <2>1, VariableTypes DEF ClientInv, HoldsInv
  <2>4. \A k \in 1 .. Len(toClient) :
          Live(toClient[k]) /\ toClient[k].reliableSequence <= m.reliableSequence
    BY <2>1 DEF ClientInv, MessagesInv
  <2> QED
    BY <1>1, <2>2, <2>3, <2>4
<1>9. \A n \in 1 .. last :
        Live(toClient'[n]) =>
            /\ Carries(toClient'[n], clc.serverCommandSequence, deferred')
            /\ clc.serverCommandSequence <= toClient'[n].reliableSequence
            /\ \A k \in 1 .. n :
                 /\ Live(toClient'[k])
                 /\ toClient'[k].reliableSequence <= toClient'[n].reliableSequence
  <2> TAKE n \in 1 .. last
  <2>1. CASE n \in 1 .. last - 1
    BY <1>7, <2>1
  <2>2. CASE n = last
    <3>1. m.reliableSequence \in Nat
      BY DEF SendStep, Messages
    <3> QED
      BY <1>2, <1>6, <1>8, <2>2, <3>1
  <2> QED
    BY <1>6, <2>1, <2>2
<1>10. InFlightInv'
  BY <1>3, <1>9 DEF InFlightInv, last
<1> QED
  BY <1>4, <1>10

LEMMA SendStepClient ==
    ASSUME TypeInv, InFlightInv, ClientInv, ~illegible, cl.state # CS_ZOMBIE,
           NEW m, SendStep(m)
    PROVE  ClientInv'
<1> DEFINE last == Len(toClient')
<1>1. PICK d \in {0, 1} : \A i \in 1 .. last - 1 :
         i + d \in 1 .. Len(toClient) /\ toClient'[i] = toClient[i + d]
  BY SendStepTypes
<1>2. last \in Nat /\ last > 0 /\ toClient'[last] = m
  BY SendStepTypes
<1>3. /\ clc' = clc /\ cgs' = cgs /\ (deferred => deferred') /\ Filled(m)
      /\ Fewer(toServer', toServer)
      /\ cl'.reliableSequence = cl.reliableSequence /\ cl'.issued = cl.issued
      /\ cl'.reliableSent \in {cl.reliableSent, cl.reliableSequence}
      /\ m.body # "nop" => cl'.reliableSent = cl.reliableSequence
      /\ cl'.reliableAcknowledge <= clc.serverCommandSequence
      /\ m.reliableSequence = cl.reliableSequence /\ Live(m)
  BY DEF SendStep
<1>4. /\ cl.reliableSequence \in Nat /\ cl.reliableSent \in Nat
      /\ clc.serverCommandSequence \in Nat
      /\ clc.serverCommandSequence <= cl.reliableSent
      /\ cl.reliableSent <= cl.reliableSequence
  BY VariableTypes DEF ClientInv, HoldsInv
<1>5. cl.reliableSent <= cl'.reliableSent /\ cl'.reliableSent <= cl.reliableSequence
      /\ cl'.reliableSent \in Nat
  BY <1>3, <1>4
<1>6. \A i \in 1 .. last : i = last \/ i \in 1 .. last - 1
  BY <1>2
<1> HIDE DEF last
<1>7. \A n \in 1 .. Len(toClient) :
        LET e == toClient[n] IN
        /\ Live(e)
        /\ e.reliableSequence <= cl.reliableSequence
        /\ e.body # "nop" => e.reliableSequence <= cl'.reliableSent
        /\ \A i \in DOMAIN e.commands : e.commands[i] = cl.issued[i]
  <2> TAKE n \in 1 .. Len(toClient)
  <2>1. toClient[n].reliableSequence \in Nat
    BY VariableTypes, MessageTypes
  <2> QED
    BY <1>4, <1>5, <2>1 DEF ClientInv, MessagesInv
<1>8. /\ m.reliableSequence <= cl.reliableSequence
      /\ m.body # "nop" => m.reliableSequence <= cl'.reliableSent
      /\ \A i \in DOMAIN m.commands : m.commands[i] = cl.issued[i]
  BY <1>3, <1>4 DEF Filled
<1>9. MessagesInv'
  <2>1. \A n \in 1 .. last :
        LET e == toClient'[n] IN
        /\ Live(e)
        /\ e.reliableSequence <= cl.reliableSequence
        /\ e.body # "nop" => e.reliableSequence <= cl'.reliableSent
        /\ \A i \in DOMAIN e.commands : e.commands[i] = cl.issued[i]
    <3> TAKE n \in 1 .. last
    <3>1. CASE n = last
      BY <1>2, <1>3, <1>8, <3>1
    <3>2. CASE n \in 1 .. last - 1
      BY <1>1, <1>7, <3>2
    <3> QED
      BY <1>6, <3>1, <3>2
  <2> QED
    BY <1>3, <2>1 DEF MessagesInv, last
<1>10. PacketsInv'
  <2> SUFFICES ASSUME NEW n \in 1 .. Len(toServer')
               PROVE  /\ toServer'[n].reliableAcknowledge <= clc.serverCommandSequence
                      /\ ~deferred' => toServer'[n].key
                                          = Issued(cl', toServer'[n].reliableAcknowledge)
    BY <1>3 DEF PacketsInv
  <2>1. PICK k \in 1 .. Len(toServer) : toServer'[n] = toServer[k]
    BY <1>3 DEF Fewer
  <2> QED
    BY <1>3, <2>1 DEF ClientInv, PacketsInv, Issued
<1>11. HoldsInv'
  <2>1. clc.serverCommandSequence <= cl'.reliableSent
        /\ cl'.reliableSent <= cl'.reliableSequence
    BY <1>3, <1>4, <1>5
  <2> QED
    BY <1>3, <2>1 DEF ClientInv, HoldsInv, Issued
<1>12. CGameInv'
  BY <1>3 DEF ClientInv, CGameInv
<1> QED
  BY <1>9, <1>10, <1>11, <1>12 DEF ClientInv

LEMMA SendStepOK ==
    ASSUME IInv, NEW m, SendStep(m)
    PROVE  IInv'
<1>1. TypeInv' /\ SequenceInv' /\ GamestateInv'
  BY SendStepTypes, SendStepSequences, SendStepGamestates DEF IInv
<1>2. RingOK(cl)'
  BY DEF SendStep, RingOK, Issued
<1>3. illegible' = illegible /\ (cl'.state # CS_ZOMBIE => cl.state # CS_ZOMBIE)
  BY DEF SendStep
<1>4. ~illegible' => InFlightInv' /\ SnapshotInv'
  BY <1>3, SendStepInFlight DEF IInv
<1>5. ~illegible' /\ cl'.state # CS_ZOMBIE => ClientInv'
  BY <1>3, SendStepClient DEF IInv
<1> QED
  BY <1>1, <1>2, <1>4, <1>5 DEF IInv

-----------------------------------------------------------------------------
(* The client parses a message.                                            *)

LEMMA FreshOnes ==
    ASSUME TypeInv, NEW m, NEW a \in Nat, NEW b \in Nat,
           m.commands \in [a + 1 .. b -> Commands]
    PROVE  /\ Fresh(m) \in SUBSET (a + 1 .. b)
           /\ \A S \in SUBSET Fresh(m) : S \in SUBSET Nat /\ IsFiniteSet(S)
           /\ Fresh(m) \cup {clc.serverCommandSequence} \in SUBSET Nat
           /\ IsFiniteSet(Fresh(m) \cup {clc.serverCommandSequence})
<1>1. Fresh(m) \in SUBSET (a + 1 .. b)
  BY DEF Fresh
<1>2. IsFiniteSet(a + 1 .. b)
  BY FS_Interval
<1>3. \A S \in SUBSET Fresh(m) : S \in SUBSET Nat /\ IsFiniteSet(S)
  BY <1>1, <1>2, FS_Subset
<1>4. Fresh(m) \cup {clc.serverCommandSequence} \in SUBSET Nat
  BY <1>3, VariableTypes
<1>5. IsFiniteSet(Fresh(m) \cup {clc.serverCommandSequence})
  BY <1>3, FS_AddElement
<1> QED
  BY <1>1, <1>3, <1>4, <1>5

LEMMA StoredFields ==
    ASSUME TypeInv, NEW m \in Messages
    PROVE  /\ Stored(m) \in ClientConnection
           /\ Stored(m).state = clc.state
           /\ Stored(m).serverId = clc.serverId
           /\ Stored(m).snapshots = clc.snapshots
           /\ Stored(m).serverMessageSequence = m.sequence
           /\ Stored(m).serverCommandSequence
                = Largest(Fresh(m) \cup {clc.serverCommandSequence})
           /\ \A s \in Ring : Stored(m).serverCommands[s] =
                LET here == {i \in Fresh(m) : Slot(i) = s}
                IN  IF here = {} THEN clc.serverCommands[s] ELSE m.commands[Largest(here)]
<1>1. PICK a \in Nat, b \in Nat : m.commands \in [a + 1 .. b -> Commands]
  BY DEF Messages, Runs
<1> DEFINE latest == Largest(Fresh(m) \cup {clc.serverCommandSequence})
           ring == [s \in Ring |->
                      LET here == {i \in Fresh(m) : Slot(i) = s}
                      IN  IF here = {} THEN clc.serverCommands[s] ELSE m.commands[Largest(here)]]
<1>2. latest \in Nat
  BY <1>1, FreshOnes, LargestIn
<1>3. ASSUME NEW s \in Ring, {i \in Fresh(m) : Slot(i) = s} # {}
      PROVE  m.commands[Largest({i \in Fresh(m) : Slot(i) = s})] \in Commands
  <2> DEFINE here == {i \in Fresh(m) : Slot(i) = s}
  <2>1. here \in SUBSET Fresh(m)
    OBVIOUS
  <2> HIDE DEF here
  <2>2. Largest(here) \in here
    BY <1>1, <1>3, <2>1, FreshOnes, LargestIn DEF here
  <2>3. Largest(here) \in a + 1 .. b
    BY <1>1, <2>1, <2>2, FreshOnes
  <2>4. m.commands[Largest(here)] \in Commands
    BY <1>1, <2>3
  <2> QED
    BY <2>4 DEF here
<1>4. ring \in [Ring -> Commands]
  <2>1. \A s \in Ring : clc.serverCommands[s] \in Commands
    BY VariableTypes
  <2> QED
    BY <1>3, <2>1
<1>5. m.sequence \in Nat /\ clc \in ClientConnection
  BY VariableTypes DEF Messages
<1>6. Stored(m) = [clc EXCEPT !.serverMessageSequence = m.sequence,
                              !.serverCommandSequence = latest,
                              !.serverCommands = ring]
  BY <1>5 DEF Stored, ClientConnection
<1>7. \A s \in Ring : ring[s] =
                LET here == {i \in Fresh(m) : Slot(i) = s}
                IN  IF here = {} THEN clc.serverCommands[s] ELSE m.commands[Largest(here)]
  OBVIOUS
<1> HIDE DEF ring, latest
<1>8. /\ Stored(m) \in ClientConnection
      /\ Stored(m).state = clc.state
      /\ Stored(m).serverId = clc.serverId
      /\ Stored(m).snapshots = clc.snapshots
      /\ Stored(m).serverMessageSequence = m.sequence
      /\ Stored(m).serverCommandSequence = latest
      /\ Stored(m).serverCommands = ring
  BY <1>2, <1>4, <1>5, <1>6 DEF ClientConnection
<1> QED
  BY <1>7, <1>8 DEF latest

\* Without a gap before the commands of m, the ring holds the newest of them.
LEMMA StoredRing ==
    ASSUME TypeInv, NEW m \in Messages, NEW a \in Nat, NEW b \in Nat,
           m.commands \in [a + 1 .. b -> Commands], a <= clc.serverCommandSequence
    PROVE  LET latest == Stored(m).serverCommandSequence IN
           /\ latest = IF b > clc.serverCommandSequence THEN b ELSE clc.serverCommandSequence
           /\ \A i \in clc.serverCommandSequence + 1 .. b :
                 latest - i < MAX_RELIABLE_COMMANDS =>
                     Stored(m).serverCommands[Slot(i)] = m.commands[i]
           /\ \A i \in 0 .. clc.serverCommandSequence :
                 latest - i < MAX_RELIABLE_COMMANDS =>
                     Stored(m).serverCommands[Slot(i)] = clc.serverCommands[Slot(i)]
<1> DEFINE latest == Stored(m).serverCommandSequence
           seq == clc.serverCommandSequence
           F == Fresh(m)
<1>1. seq \in Nat /\ latest = Largest(F \cup {seq})
  BY VariableTypes, StoredFields
<1>2. F = seq + 1 .. b
  BY <1>1 DEF Fresh
<1> HIDE DEF F
<1>3. latest \in F \cup {seq} /\ \A y \in F \cup {seq} : y <= latest
  BY <1>1, FreshOnes, LargestIn DEF F
<1> HIDE DEF latest, seq
<1>s. /\ latest \in Nat /\ seq <= latest
       /\ (latest = seq \/ latest \in F)
       /\ \A y \in F : y \in Nat /\ y <= latest
  <2>1. seq <= latest /\ \A y \in F : y <= latest
    BY <1>3
  <2>2. latest = seq \/ latest \in F
    BY <1>3
  <2>3. \A y \in F : y \in Nat
    BY <1>1, <1>2
  <2> QED
    BY <1>1, <2>1, <2>2, <2>3
<1>4. latest = IF b > seq THEN b ELSE seq
  <2>1. CASE b > seq
    <3>1. b \in F
      BY <1>1, <1>2, <2>1
    <3>2. b <= latest
      BY <1>s, <3>1
    <3> QED
      BY <1>1, <1>2, <1>s, <2>1, <3>2
  <2>2. CASE ~(b > seq)
    BY <1>1, <1>2, <1>s, <2>2
  <2> QED
    BY <2>1, <2>2
<1>5. ASSUME NEW i \in Nat, NEW j \in F, j # i, Slot(j) = Slot(i), latest - i < MAX_RELIABLE_COMMANDS
      PROVE  j < i
  <2>1. j \in Nat /\ j <= latest /\ latest \in Nat
    BY <1>s
  <2> SUFFICES ASSUME i < j PROVE FALSE
    BY <1>5, <2>1
  <2>2. j - i < MAX_RELIABLE_COMMANDS
    BY <1>5, <2>1, ServerCommandsAssumption
  <2> QED
    BY <1>5, <2>1, <2>2, SlotsDiffer
<1>6. ASSUME NEW i \in seq + 1 .. b, latest - i < MAX_RELIABLE_COMMANDS
      PROVE  Stored(m).serverCommands[Slot(i)] = m.commands[i]
  <2> DEFINE here == {j \in F : Slot(j) = Slot(i)}
  <2>1. i \in here /\ i \in Nat /\ Slot(i) \in Ring
    BY <1>1, <1>2, SlotInRing
  <2>2. Largest(here) \in here /\ \A y \in here : y <= Largest(here)
    <3>1. here \in SUBSET F
      OBVIOUS
    <3> HIDE DEF here
    <3> QED
      BY <2>1, <3>1, FreshOnes, LargestIn DEF F
  <2>3. Largest(here) = i
    <3>1. Largest(here) \in F /\ Slot(Largest(here)) = Slot(i) /\ i <= Largest(here)
      BY <2>1, <2>2
    <3>2. Largest(here) \in Nat
      BY <1>1, <1>2, <3>1
    <3> QED
      BY <1>5, <1>6, <2>1, <3>1, <3>2
  <2>4. Stored(m).serverCommands[Slot(i)] =
           IF here = {} THEN clc.serverCommands[Slot(i)] ELSE m.commands[Largest(here)]
    BY <2>1, StoredFields DEF F
  <2> HIDE DEF here
  <2> QED
    BY <2>1, <2>3, <2>4
<1>7. ASSUME NEW i \in 0 .. seq, latest - i < MAX_RELIABLE_COMMANDS
      PROVE  Stored(m).serverCommands[Slot(i)] = clc.serverCommands[Slot(i)]
  <2> DEFINE here == {j \in F : Slot(j) = Slot(i)}
  <2>1. i \in Nat /\ Slot(i) \in Ring
    BY <1>1, SlotInRing
  <2>2. \A j \in F : j # i /\ ~(j < i)
    BY <1>1, <1>2
  <2>3. here = {}
    BY <1>5, <1>7, <2>1, <2>2
  <2>4. Stored(m).serverCommands[Slot(i)] =
           IF here = {} THEN clc.serverCommands[Slot(i)] ELSE m.commands[Largest(here)]
    BY <2>1, StoredFields DEF F
  <2> HIDE DEF here
  <2> QED
    BY <2>3, <2>4
<1> QED
  BY <1>4, <1>6, <1>7 DEF latest, seq

ParseStep(m, n) ==
    /\ n \in 1 .. Len(toClient) /\ m = toClient[n] /\ m \in Messages
    /\ After(toClient', toClient, n, Messages)
    /\ clc'.serverMessageSequence = m.sequence
    /\ clc'.serverCommands = Stored(m).serverCommands
    /\ m.body = "gamestate" =>
         /\ clc'.serverCommandSequence = m.reliableSequence
         /\ clc'.serverId = m.serverId
         /\ clc'.snapshots = <<>>
         /\ cgs'.base = m.reliableSequence /\ cgs'.serverCommandSequence = m.reliableSequence
         /\ cgs'.executed = <<>> /\ cgs'.shown = NoSnapshot
         /\ cgs'.configstrings = m.configstrings
    /\ m.body # "gamestate" =>
         /\ cgs' = cgs
         /\ clc'.serverCommandSequence = Stored(m).serverCommandSequence
         /\ clc'.serverId = clc.serverId
         /\ \/ clc'.snapshots = clc.snapshots
            \/ /\ m.body = "snapshot"
               /\ \E s \in Snapshots :
                     /\ clc'.snapshots = Append(clc.snapshots, s)
                     /\ s.serverCommandNum = clc'.serverCommandSequence
                     /\ s.state = m.state /\ s.configstrings = m.configstrings
                     /\ s.reliableSequence = m.reliableSequence
    /\ UNCHANGED <<server, toServer, history>>

LEMMA ParseIsStep ==
    ASSUME TypeInv, NEW n \in 1 .. Len(toClient), CL_ParseServerMessage(n)
    PROVE  TypeInv' /\ ParseStep(toClient[n], n)
<1> DEFINE m == toClient[n]
           s == Stored(m)
<1>1. /\ m \in Messages /\ m.sequence \in Nat /\ m.reliableSequence \in Nat
      /\ m.serverId \in 0 .. MaxServerId /\ m.configstrings \in Strings
      /\ m.state \in States /\ m.body \in {"gamestate", "snapshot", "nop"}
  <2>1. m \in Messages
    BY VariableTypes, MessageTypes
  <2> HIDE DEF m
  <2> QED
    BY <2>1 DEF Messages
<1>2. n \in 1 .. Len(toClient) /\ m = toClient[n]
  OBVIOUS
<1>3. After(toClient', toClient, n, Messages)
  BY VariableTypes, Received DEF CL_ParseServerMessage
<1>4. UNCHANGED <<server, toServer, history>>
  BY DEF CL_ParseServerMessage
<1>5. /\ s \in ClientConnection /\ s.serverId = clc.serverId
      /\ s.snapshots = clc.snapshots /\ s.serverMessageSequence = m.sequence
      /\ s.snapshots \in Seq(Snapshots)
  BY <1>1, StoredFields, VariableTypes
<1>6. \/ m.body = "gamestate" /\ CL_ParseGamestate(m)
      \/ m.body = "snapshot" /\ CL_ParseSnapshot(m)
      \/ m.body = "nop" /\ clc' = s /\ UNCHANGED cgs
  BY DEF CL_ParseServerMessage
<1> HIDE DEF m, s
<1>7. clc' \in ClientConnection /\ cgs' \in CGame /\ ParseStep(m, n)
  <2>1. CASE m.body = "gamestate"
    <3>1. /\ clc' = [s EXCEPT !.serverCommandSequence = m.reliableSequence,
                              !.serverId = m.serverId,
                              !.snapshots = <<>>,
                              !.state = "CA_PRIMED"]
          /\ cgs' = [cgs EXCEPT !.serverCommandSequence = m.reliableSequence,
                                !.configstrings = m.configstrings,
                                !.shown = NoSnapshot, !.executed = <<>>,
                                !.base = m.reliableSequence]
      BY <1>6, <2>1 DEF CL_ParseGamestate, s
    <3>2. <<>> \in Seq(Snapshots) /\ <<>> \in Seq(Commands)
      BY EmptySeq
    <3>3. m.configstrings \in [ConfigString -> Value \cup {-1}]
      BY <1>1 DEF Strings
    <3>4. /\ clc' \in ClientConnection
          /\ clc'.serverMessageSequence = m.sequence
          /\ clc'.serverCommands = s.serverCommands
          /\ clc'.serverCommandSequence = m.reliableSequence
          /\ clc'.serverId = m.serverId /\ clc'.snapshots = <<>>
      BY <1>1, <1>5, <3>1, <3>2 DEF ClientConnection
    <3>5. /\ cgs' \in CGame
          /\ cgs'.base = m.reliableSequence /\ cgs'.serverCommandSequence = m.reliableSequence
          /\ cgs'.executed = <<>> /\ cgs'.shown = NoSnapshot
          /\ cgs'.configstrings = m.configstrings
      BY <1>1, <3>1, <3>2, <3>3, VariableTypes DEF CGame
    <3> QED
      BY <1>1, <1>2, <1>3, <1>4, <2>1, <3>4, <3>5 DEF ParseStep, s
  <2>2. CASE m.body = "nop"
    BY <1>1, <1>2, <1>3, <1>4, <1>5, <1>6, <2>2, VariableTypes DEF ParseStep, s
  <2>3. CASE m.body = "snapshot"
    <3> DEFINE shot == [serverCommandNum |-> s.serverCommandSequence,
                        state |-> m.state, configstrings |-> m.configstrings,
                        reliableSequence |-> m.reliableSequence]
               t == [s EXCEPT !.snapshots = Append(@, shot)]
    <3>1. cgs' = cgs /\ (clc' = s \/ clc' = t)
      BY <1>6, <2>3 DEF CL_ParseSnapshot, s
    <3>2. /\ shot \in Snapshots /\ shot.serverCommandNum = s.serverCommandSequence
          /\ shot.state = m.state /\ shot.reliableSequence = m.reliableSequence
          /\ shot.configstrings = m.configstrings
      BY <1>1, <1>5 DEF Snapshots, ClientConnection
    <3> HIDE DEF shot
    <3>3. Append(clc.snapshots, shot) \in Seq(Snapshots)
      BY <3>2, VariableTypes, AppendProperties
    <3>4. /\ t \in ClientConnection
          /\ t.serverMessageSequence = m.sequence
          /\ t.serverCommands = s.serverCommands
          /\ t.serverCommandSequence = s.serverCommandSequence
          /\ t.serverId = s.serverId /\ t.snapshots = Append(clc.snapshots, shot)
      BY <1>5, <3>3 DEF ClientConnection
    <3> HIDE DEF t
    <3>5. CASE clc' = s
      BY <1>1, <1>2, <1>3, <1>4, <1>5, <2>3, <3>1, <3>5, VariableTypes DEF ParseStep, s
    <3>6. CASE clc' = t
      BY <1>1, <1>2, <1>3, <1>4, <1>5, <2>3, <3>1, <3>2, <3>4, <3>6, VariableTypes
      DEF ParseStep, s
    <3> QED
      BY <3>1, <3>5, <3>6
  <2> QED
    BY <1>1, <2>1, <2>2, <2>3
<1>8. TypeInv'
  BY <1>3, <1>4, <1>7 DEF TypeInv, After, server, history
<1> QED
  BY <1>7, <1>8 DEF m

LEMMA ParseSequences ==
    ASSUME TypeInv, SequenceInv, NEW m, NEW n, ParseStep(m, n)
    PROVE  SequenceInv'
<1>1. /\ n \in 1 .. Len(toClient) /\ n \in Nat /\ m = toClient[n]
      /\ clc'.serverMessageSequence = m.sequence
      /\ toServer' = toServer /\ outgoingSequence' = outgoingSequence
      /\ Len(toClient') \in Nat
      /\ \A i \in 1 .. Len(toClient') : toClient'[i] = toClient[n + i] /\ n + i \in 1 .. Len(toClient)
  BY DEF ParseStep, After, server
<1>2. \A i \in 1 .. Len(toClient') : n < n + i
  BY <1>1
<1>3. \A i \in 1 .. Len(toClient') :
        /\ m.sequence < toClient'[i].sequence
        /\ toClient'[i].sequence < outgoingSequence
  BY <1>1, <1>2 DEF SequenceInv
<1>4. \A i, j \in 1 .. Len(toClient') : i < j => toClient'[i].sequence < toClient'[j].sequence
  <2> TAKE i, j \in 1 .. Len(toClient')
  <2> HAVE i < j
  <2>1. n + i < n + j
    BY <1>1
  <2> QED
    BY <1>1, <2>1 DEF SequenceInv
<1>5. m.sequence < outgoingSequence /\ clc.serverMessageSequence < m.sequence
      /\ m.sequence \in Nat /\ clc.serverMessageSequence \in Nat
  BY <1>1, VariableTypes, MessageTypes DEF SequenceInv
<1>6. \A i \in 1 .. Len(toServer) : toServer[i].messageAcknowledge <= m.sequence
  <2> TAKE i \in 1 .. Len(toServer)
  <2>1. toServer[i].messageAcknowledge \in Nat
        /\ toServer[i].messageAcknowledge <= clc.serverMessageSequence
    BY VariableTypes, PacketTypes DEF SequenceInv
  <2> QED
    BY <1>5, <2>1
<1> QED
  BY <1>1, <1>3, <1>4, <1>5, <1>6 DEF SequenceInv

LEMMA ParseGamestates ==
    ASSUME TypeInv, SequenceInv, GamestateInv, NEW m, NEW n, ParseStep(m, n)
    PROVE  GamestateInv'
<1>1. /\ n \in 1 .. Len(toClient) /\ m = toClient[n]
      /\ toServer' = toServer /\ cl' = cl /\ sv' = sv
      /\ \A i \in 1 .. Len(toClient') : \E k \in 1 .. Len(toClient) : toClient'[i] = toClient[k]
      /\ m.body = "gamestate" => clc'.serverId = m.serverId
      /\ m.body # "gamestate" => clc'.serverId = clc.serverId
  BY DEF ParseStep, After, server
<1>2. clc'.serverId <= sv.serverId
  BY <1>1 DEF GamestateInv
<1>3. /\ \A i \in 1 .. Len(toClient') : toClient'[i].serverId <= sv.serverId
      /\ cl.state # CS_ZOMBIE =>
            \A i \in 1 .. Len(toClient') :
               toClient'[i].body = "gamestate" /\ toClient'[i].serverId = sv.serverId =>
                   toClient'[i].sequence <= cl.gamestateMessageNum
  BY <1>1 DEF GamestateInv
<1>4. ASSUME cl.state # CS_ZOMBIE, clc'.serverId = sv.serverId, NEW i \in 1 .. Len(toServer),
             toServer[i].serverId # sv.serverId
      PROVE  toServer[i].messageAcknowledge <= cl.gamestateMessageNum
  <2>1. CASE m.body # "gamestate"
    BY <1>1, <1>4, <2>1 DEF GamestateInv
  <2>2. CASE m.body = "gamestate"
    <3>1. m.sequence <= cl.gamestateMessageNum
      BY <1>1, <1>4, <2>2 DEF GamestateInv
    <3>2. /\ m.sequence \in Nat /\ clc.serverMessageSequence \in Nat
          /\ cl.gamestateMessageNum \in Int
          /\ toServer[i].messageAcknowledge \in Nat
      BY <1>1, VariableTypes, MessageTypes, PacketTypes
    <3>3. /\ toServer[i].messageAcknowledge <= clc.serverMessageSequence
          /\ clc.serverMessageSequence < m.sequence
      BY <1>1 DEF SequenceInv
    <3> QED
      BY <3>1, <3>2, <3>3
  <2> QED
    BY <2>1, <2>2
<1> QED
  BY <1>1, <1>2, <1>3, <1>4 DEF GamestateInv

\* What is read of the commands of a message made before the client was dropped.
LEMMA ParseCommands ==
    ASSUME TypeInv, InFlightInv, NEW m, NEW n, ParseStep(m, n), Live(m)
    PROVE  \E b \in Nat :
              /\ b <= m.reliableSequence
              /\ m.commands \in [DOMAIN m.commands -> Commands]
              /\ \A i \in clc.serverCommandSequence + 1 .. b : i \in DOMAIN m.commands
              /\ ~deferred /\ m.body # "nop" => b = m.reliableSequence
              /\ m.body # "nop" => m.reliableSequence <= b + Unsendable
              /\ m.body = "nop" => b = 0
              /\ Stored(m).serverCommandSequence =
                   IF b > clc.serverCommandSequence THEN b ELSE clc.serverCommandSequence
              /\ clc.serverCommandSequence <= clc'.serverCommandSequence
              /\ clc'.serverCommandSequence \in Nat
              /\ clc'.serverCommandSequence <= m.reliableSequence
              /\ m.body = "gamestate" => clc'.serverCommandSequence = m.reliableSequence
              /\ m.body # "gamestate" =>
                    clc'.serverCommandSequence = Stored(m).serverCommandSequence
              /\ \A i \in clc.serverCommandSequence + 1 .. b :
                    Stored(m).serverCommandSequence - i < MAX_RELIABLE_COMMANDS =>
                        clc'.serverCommands[Slot(i)] = m.commands[i]
              /\ \A i \in 0 .. clc.serverCommandSequence :
                    Stored(m).serverCommandSequence - i < MAX_RELIABLE_COMMANDS =>
                        clc'.serverCommands[Slot(i)] = clc.serverCommands[Slot(i)]
<1>1. n \in 1 .. Len(toClient) /\ m = toClient[n] /\ m \in Messages
  BY DEF ParseStep
<1>2. Carries(m, clc.serverCommandSequence, deferred)
      /\ clc.serverCommandSequence <= m.reliableSequence
  BY <1>1 DEF InFlightInv
<1>3. PICK a \in Nat, b \in Nat :
        /\ m.commands \in [a + 1 .. b -> Commands]
        /\ a <= b
        /\ a <= clc.serverCommandSequence
        /\ b <= m.reliableSequence
        /\ ~deferred /\ m.body # "nop" => b = m.reliableSequence
        /\ m.body # "nop" => m.reliableSequence <= b + Unsendable
        /\ m.body = "nop" => b = 0
  BY <1>2 DEF Carries
<1>4. /\ clc.serverCommandSequence \in Nat /\ m.reliableSequence \in Nat
  BY <1>1, VariableTypes, MessageTypes
<1>5. /\ clc'.serverCommands = Stored(m).serverCommands
      /\ m.body = "gamestate" => clc'.serverCommandSequence = m.reliableSequence
      /\ m.body # "gamestate" => clc'.serverCommandSequence = Stored(m).serverCommandSequence
  BY DEF ParseStep
<1>6. Stored(m).serverCommandSequence =
         IF b > clc.serverCommandSequence THEN b ELSE clc.serverCommandSequence
  BY <1>1, <1>3, StoredRing
<1>7. /\ clc.serverCommandSequence <= clc'.serverCommandSequence
      /\ clc'.serverCommandSequence \in Nat
      /\ clc'.serverCommandSequence <= m.reliableSequence
  <2>1. CASE m.body = "gamestate"
    BY <1>2, <1>4, <1>5, <2>1
  <2>2. CASE m.body # "gamestate"
    BY <1>2, <1>3, <1>4, <1>5, <1>6, <2>2
  <2> QED
    BY <2>1, <2>2
<1>8. /\ \A i \in clc.serverCommandSequence + 1 .. b :
            Stored(m).serverCommandSequence - i < MAX_RELIABLE_COMMANDS =>
                clc'.serverCommands[Slot(i)] = m.commands[i]
      /\ \A i \in 0 .. clc.serverCommandSequence :
            Stored(m).serverCommandSequence - i < MAX_RELIABLE_COMMANDS =>
                clc'.serverCommands[Slot(i)] = clc.serverCommands[Slot(i)]
  BY <1>1, <1>3, <1>5, StoredRing
<1>9. /\ m.commands \in [DOMAIN m.commands -> Commands]
      /\ \A i \in clc.serverCommandSequence + 1 .. b : i \in DOMAIN m.commands
  BY <1>3, <1>4
<1> QED
  BY <1>3, <1>5, <1>6, <1>7, <1>8, <1>9

LEMMA ParseInFlight ==
    ASSUME TypeInv, InFlightInv, SnapshotInv, NEW m, NEW n, ParseStep(m, n)
    PROVE  InFlightInv' /\ SnapshotInv'
<1>1. /\ n \in 1 .. Len(toClient) /\ n \in Nat /\ m = toClient[n]
      /\ deferred' = deferred
      /\ Len(toClient') \in Nat
      /\ \A i \in 1 .. Len(toClient') : toClient'[i] = toClient[n + i] /\ n + i \in 1 .. Len(toClient)
  BY DEF ParseStep, After, history
<1>2. ASSUME NEW i \in 1 .. Len(toClient'), Live(toClient'[i])
      PROVE  /\ Carries(toClient'[i], clc'.serverCommandSequence, deferred)
             /\ clc'.serverCommandSequence <= toClient'[i].reliableSequence
             /\ \A k \in 1 .. i :
                  /\ Live(toClient'[k])
                  /\ toClient'[k].reliableSequence <= toClient'[i].reliableSequence
  <2>1. toClient'[i] = toClient[n + i] /\ n + i \in 1 .. Len(toClient)
    BY <1>1
  <2>2. n \in 1 .. n + i /\ \A k \in 1 .. i : n + k \in 1 .. n + i /\ k \in 1 .. Len(toClient')
    BY <1>1
  <2>3. /\ Carries(toClient[n + i], clc.serverCommandSequence, deferred)
        /\ \A k \in 1 .. n + i :
             Live(toClient[k]) /\ toClient[k].reliableSequence <= toClient[n + i].reliableSequence
    BY <1>2, <2>1 DEF InFlightInv
  <2>4. Live(m) /\ m.reliableSequence <= toClient[n + i].reliableSequence
    BY <1>1, <2>2, <2>3
  <2>5. /\ m.reliableSequence \in Nat /\ toClient[n + i].reliableSequence \in Nat
        /\ clc.serverCommandSequence \in Nat
    BY <1>1, <2>1, VariableTypes, MessageTypes
  <2>6. /\ clc.serverCommandSequence <= clc'.serverCommandSequence
        /\ clc'.serverCommandSequence \in Nat
        /\ clc'.serverCommandSequence <= m.reliableSequence
    BY <2>4, ParseCommands
  <2>7. clc'.serverCommandSequence <= toClient[n + i].reliableSequence
    BY <2>4, <2>5, <2>6
  <2>8. Carries(toClient[n + i], clc'.serverCommandSequence, deferred)
    <3> DEFINE e == toClient[n + i]
    <3>1. Carries(e, clc.serverCommandSequence, deferred)
      BY <2>3
    <3> HIDE DEF e
    <3>2. PICK a \in Nat, b \in Nat :
            /\ e.commands \in [a + 1 .. b -> Commands]
            /\ a <= b
            /\ a <= clc.serverCommandSequence
            /\ b <= e.reliableSequence
            /\ ~deferred /\ e.body # "nop" => b = e.reliableSequence
            /\ e.body # "nop" => e.reliableSequence <= b + Unsendable
            /\ e.body = "nop" => b = 0
      BY <3>1 DEF Carries
    <3>3. a <= clc'.serverCommandSequence
      BY <2>5, <2>6, <3>2
    <3>4. Carries(e, clc'.serverCommandSequence, deferred)
      BY <3>2, <3>3 DEF Carries
    <3> QED
      BY <3>4 DEF e
  <2>9. \A k \in 1 .. i :
          Live(toClient'[k]) /\ toClient'[k].reliableSequence <= toClient'[i].reliableSequence
    BY <1>1, <2>1, <2>2, <2>3
  <2> QED
    BY <2>1, <2>7, <2>8, <2>9
<1>3. InFlightInv'
  BY <1>1, <1>2 DEF InFlightInv
<1>4. ASSUME m.body = "gamestate"
      PROVE  /\ \A k \in 1 .. Len(clc'.snapshots) :
                   Guaranteed(clc'.snapshots[k]) /\ Near(clc'.snapshots[k])
             /\ cgs'.shown = NoSnapshot
  <2>1. clc'.snapshots = <<>> /\ cgs'.shown = NoSnapshot
    BY <1>4 DEF ParseStep
  <2> QED
    BY <2>1
<1>5. ASSUME m.body # "gamestate"
      PROVE  /\ \A k \in 1 .. Len(clc'.snapshots) :
                   /\ ~deferred => Guaranteed(clc'.snapshots[k])
                   /\ Near(clc'.snapshots[k])
             /\ cgs' = cgs
  <2>1. /\ cgs' = cgs
        /\ \/ clc'.snapshots = clc.snapshots
           \/ /\ m.body = "snapshot"
              /\ \E s \in Snapshots :
                    /\ clc'.snapshots = Append(clc.snapshots, s)
                    /\ s.serverCommandNum = clc'.serverCommandSequence
                    /\ s.state = m.state
                    /\ s.reliableSequence = m.reliableSequence
    BY <1>5 DEF ParseStep
  <2>2. \A k \in 1 .. Len(clc.snapshots) :
           /\ ~deferred => Guaranteed(clc.snapshots[k])
           /\ Near(clc.snapshots[k])
    BY <1>5 DEF SnapshotInv
  <2>3. CASE clc'.snapshots = clc.snapshots
    BY <2>1, <2>2, <2>3
  <2>4. CASE clc'.snapshots # clc.snapshots
    <3>1. PICK s \in Snapshots :
             /\ clc'.snapshots = Append(clc.snapshots, s)
             /\ s.serverCommandNum = clc'.serverCommandSequence
             /\ s.state = m.state
             /\ s.reliableSequence = m.reliableSequence
      BY <2>1, <2>4
    <3>2. (~deferred => Guaranteed(s)) /\ Near(s)
      <4> SUFFICES ASSUME Live(m)
                   PROVE  /\ ~deferred => clc'.serverCommandSequence >= m.reliableSequence
                          /\ m.reliableSequence <= clc'.serverCommandSequence + Unsendable
        BY <3>1 DEF Guaranteed, Near, Live
      <4>1. m.body # "nop"
        BY <2>1, <2>4
      <4>2. PICK b \in Nat :
              /\ ~deferred => b = m.reliableSequence
              /\ m.reliableSequence <= b + Unsendable
              /\ Stored(m).serverCommandSequence =
                   IF b > clc.serverCommandSequence THEN b ELSE clc.serverCommandSequence
              /\ clc'.serverCommandSequence = Stored(m).serverCommandSequence
        BY <1>5, <4>1, ParseCommands
      <4>3. clc.serverCommandSequence \in Nat /\ m.reliableSequence \in Nat
        BY <1>1, VariableTypes, MessageTypes
      <4> QED
        BY <4>2, <4>3, UnsendableOK
    <3>3. /\ Len(clc'.snapshots) = Len(clc.snapshots) + 1
          /\ clc'.snapshots[Len(clc.snapshots) + 1] = s
          /\ \A k \in 1 .. Len(clc.snapshots) : clc'.snapshots[k] = clc.snapshots[k]
      BY <3>1, VariableTypes, AppendProperties
    <3>4. \A k \in 1 .. Len(clc'.snapshots) :
             k \in 1 .. Len(clc.snapshots) \/ k = Len(clc.snapshots) + 1
      <4>1. Len(clc.snapshots) \in Nat /\ Len(clc'.snapshots) = Len(clc.snapshots) + 1
        BY <3>3, VariableTypes
      <4> QED
        BY ONLY <4>1
    <3> QED
      BY <2>1, <2>2, <3>2, <3>3, <3>4
  <2> QED
    BY <2>3, <2>4
<1>6. SnapshotInv'
  BY <1>1, <1>4, <1>5 DEF SnapshotInv
<1> QED
  BY <1>3, <1>6

LEMMA ParseClient ==
    ASSUME TypeInv, InFlightInv, ClientInv, NEW m, NEW n, ParseStep(m, n)
    PROVE  ClientInv'
<1> DEFINE seq == clc.serverCommandSequence
           new == clc'.serverCommandSequence
<1>1. /\ n \in 1 .. Len(toClient) /\ n \in Nat /\ m = toClient[n]
      /\ deferred' = deferred /\ cl' = cl /\ toServer' = toServer
      /\ \A i \in 1 .. Len(toClient') : \E k \in 1 .. Len(toClient) : toClient'[i] = toClient[k]
  BY DEF ParseStep, After, history, server
<1>2. /\ seq \in Nat /\ m.reliableSequence \in Nat
      /\ cl.reliableAcknowledge \in Nat /\ cl.reliableSent \in Nat /\ cl.reliableSequence \in Nat
      /\ cgs.base \in Nat /\ cgs.serverCommandSequence \in Nat
  BY <1>1, VariableTypes, MessageTypes
<1>3. /\ Live(m)
      /\ m.body # "nop" => m.reliableSequence <= cl.reliableSent
      /\ \A i \in DOMAIN m.commands : m.commands[i] = cl.issued[i]
  BY <1>1 DEF ClientInv, MessagesInv
<1>4. PICK b \in Nat :
        /\ b <= m.reliableSequence
        /\ \A i \in seq + 1 .. b : i \in DOMAIN m.commands
        /\ ~deferred /\ m.body # "nop" => b = m.reliableSequence
        /\ m.body = "nop" => b = 0
        /\ Stored(m).serverCommandSequence = IF b > seq THEN b ELSE seq
        /\ seq <= new
        /\ new \in Nat
        /\ new <= m.reliableSequence
        /\ m.body = "gamestate" => new = m.reliableSequence
        /\ m.body # "gamestate" => new = Stored(m).serverCommandSequence
        /\ \A i \in seq + 1 .. b :
              Stored(m).serverCommandSequence - i < MAX_RELIABLE_COMMANDS =>
                  clc'.serverCommands[Slot(i)] = m.commands[i]
        /\ \A i \in 0 .. seq :
              Stored(m).serverCommandSequence - i < MAX_RELIABLE_COMMANDS =>
                  clc'.serverCommands[Slot(i)] = clc.serverCommands[Slot(i)]
  BY <1>3, ParseCommands
<1> HIDE DEF seq, new
<1>5. /\ \A i \in seq + 1 .. b :
            Stored(m).serverCommandSequence - i < MAX_RELIABLE_COMMANDS =>
                clc'.serverCommands[Slot(i)] = cl.issued[i]
  BY <1>3, <1>4
<1>6. seq <= cl.reliableSent /\ cl.reliableSent <= cl.reliableSequence
      /\ cl.reliableAcknowledge <= seq
  BY DEF ClientInv, HoldsInv, seq
<1>7. new <= cl.reliableSent
  <2>1. CASE m.body = "nop"
    BY <1>2, <1>4, <1>6, <2>1
  <2>2. CASE m.body # "nop"
    BY <1>2, <1>3, <1>4, <2>2
  <2> QED
    BY <2>1, <2>2
<1>8. MessagesInv'
  <2>1. ASSUME NEW i \in 1 .. Len(toClient')
        PROVE  LET e == toClient'[i] IN
               /\ Live(e)
               /\ e.reliableSequence <= cl.reliableSequence
               /\ e.body # "nop" => e.reliableSequence <= cl.reliableSent
               /\ \A j \in DOMAIN e.commands : e.commands[j] = cl.issued[j]
    <3>1. PICK k \in 1 .. Len(toClient) : toClient'[i] = toClient[k]
      BY <1>1
    <3> QED
      BY <3>1 DEF ClientInv, MessagesInv
  <2> QED
    BY <1>1, <2>1 DEF MessagesInv
<1>9. PacketsInv'
  <2> SUFFICES ASSUME NEW i \in 1 .. Len(toServer)
               PROVE  /\ toServer[i].reliableAcknowledge <= new
                      /\ ~deferred => toServer[i].key = Issued(cl, toServer[i].reliableAcknowledge)
    BY <1>1 DEF PacketsInv, Issued, new
  <2>1. toServer[i].reliableAcknowledge \in Nat /\ toServer[i].reliableAcknowledge <= seq
    BY VariableTypes, PacketTypes DEF ClientInv, PacketsInv, seq
  <2>2. ~deferred => toServer[i].key = Issued(cl, toServer[i].reliableAcknowledge)
    BY DEF ClientInv, PacketsInv
  <2> QED
    BY <1>2, <1>4, <2>1, <2>2
<1>10. ASSUME ~deferred
       PROVE  clc'.serverCommands[Slot(new)] = Issued(cl, new)
  <2>1. new = Stored(m).serverCommandSequence
    <3>1. CASE m.body = "gamestate"
      <4>1. b = m.reliableSequence
        BY <1>4, <1>10, <3>1
      <4>2. seq <= b
        BY <1>2, <1>4, <3>1, <4>1
      <4> QED
        BY <1>2, <1>4, <3>1, <4>1, <4>2
    <3>2. CASE m.body # "gamestate"
      BY <1>4, <3>2
    <3> QED
      BY <3>1, <3>2
  <2>2. new - new < MAX_RELIABLE_COMMANDS
    BY <1>4, ServerCommandsAssumption
  <2>3. CASE b > seq
    <3>1. new = b /\ b \in seq + 1 .. b /\ b # 0
      BY <1>2, <1>4, <2>1, <2>3
    <3> QED
      BY <1>5, <2>1, <2>2, <3>1 DEF Issued
  <2>4. CASE ~(b > seq)
    <3>1. new = seq /\ seq \in 0 .. seq
      BY <1>2, <1>4, <2>1, <2>4
    <3>2. clc'.serverCommands[Slot(seq)] = clc.serverCommands[Slot(seq)]
      BY <1>4, <2>1, <2>2, <3>1
    <3>3. clc.serverCommands[Slot(seq)] = Issued(cl, seq)
      BY <1>10 DEF ClientInv, HoldsInv, seq
    <3> QED
      BY <3>1, <3>2, <3>3
  <2> QED
    BY <2>3, <2>4
<1>11. ASSUME NEW i \in cgs'.base + 1 .. new, new - i < MAX_RELIABLE_COMMANDS
       PROVE  clc'.serverCommands[Slot(i)] = cl.issued[i]
  <2>1. CASE m.body = "gamestate"
    <3>1. cgs'.base = m.reliableSequence /\ new = m.reliableSequence
      BY <2>1, <1>4 DEF ParseStep
    <3> QED
      BY <1>2, <1>11, <3>1
  <2>2. CASE m.body # "gamestate"
    <3>1. cgs' = cgs /\ new = Stored(m).serverCommandSequence
      BY <2>2, <1>4 DEF ParseStep
    <3>2. CASE i <= seq
      <4>1. i \in 0 .. seq /\ i \in cgs.base + 1 .. seq /\ seq - i < MAX_RELIABLE_COMMANDS
        BY <1>2, <1>4, <1>11, <3>1, <3>2, ServerCommandsAssumption
      <4>2. clc'.serverCommands[Slot(i)] = clc.serverCommands[Slot(i)]
        BY <1>4, <1>11, <3>1, <4>1
      <4>3. clc.serverCommands[Slot(i)] = cl.issued[i]
        BY <4>1 DEF ClientInv, HoldsInv, seq
      <4> QED
        BY <4>2, <4>3
    <3>3. CASE ~(i <= seq)
      <4>1. i \in seq + 1 .. b
        BY <1>2, <1>4, <1>11, <3>1, <3>3
      <4> QED
        BY <1>5, <1>11, <3>1, <4>1
    <3> QED
      BY <3>2, <3>3
  <2> QED
    BY <2>1, <2>2
<1>12. HoldsInv'
  <2>1. cl.reliableAcknowledge <= new
    BY <1>2, <1>4, <1>6
  <2> QED
    BY <1>1, <1>6, <1>7, <1>10, <1>11, <2>1 DEF HoldsInv, Issued, new
<1>13. CGameInv'
  <2>1. CASE m.body = "gamestate"
    <3>1. /\ cgs'.base = m.reliableSequence /\ cgs'.serverCommandSequence = m.reliableSequence
          /\ cgs'.executed = <<>> /\ clc'.snapshots = <<>> /\ new = m.reliableSequence
      BY <2>1, <1>4 DEF ParseStep
    <3> QED
      BY <1>2, <3>1 DEF CGameInv, new
  <2>2. CASE m.body # "gamestate"
    <3>1. /\ cgs' = cgs
          /\ \/ clc'.snapshots = clc.snapshots
             \/ \E s \in Snapshots :
                    /\ clc'.snapshots = Append(clc.snapshots, s)
                    /\ s.serverCommandNum = new
      BY <2>2 DEF ParseStep, new
    <3>2. \A k \in 1 .. Len(clc.snapshots) : clc.snapshots[k].serverCommandNum <= new
      <4> TAKE k \in 1 .. Len(clc.snapshots)
      <4>1. clc.snapshots[k].serverCommandNum <= seq
        BY DEF ClientInv, CGameInv, seq
      <4>2. clc.snapshots[k].serverCommandNum \in Nat
        BY VariableTypes, SnapshotTypes
      <4> QED
        BY <1>2, <1>4, <4>1, <4>2
    <3>3. \A k \in 1 .. Len(clc'.snapshots) : clc'.snapshots[k].serverCommandNum <= new
      <4>1. CASE clc'.snapshots = clc.snapshots
        BY <3>2, <4>1
      <4>2. CASE clc'.snapshots # clc.snapshots
        <5>1. PICK s \in Snapshots :
                clc'.snapshots = Append(clc.snapshots, s) /\ s.serverCommandNum = new
          BY <3>1, <4>2
        <5>2. /\ Len(clc'.snapshots) = Len(clc.snapshots) + 1
              /\ clc'.snapshots[Len(clc.snapshots) + 1] = s
              /\ \A k \in 1 .. Len(clc.snapshots) : clc'.snapshots[k] = clc.snapshots[k]
          BY <5>1, VariableTypes, AppendProperties
        <5>3. \A k \in 1 .. Len(clc'.snapshots) :
                 k \in 1 .. Len(clc.snapshots) \/ k = Len(clc.snapshots) + 1
          <6>1. Len(clc.snapshots) \in Nat /\ Len(clc'.snapshots) = Len(clc.snapshots) + 1
            BY <5>2, VariableTypes
          <6> QED
            BY ONLY <6>1
        <5> QED
          BY <1>4, <3>2, <5>1, <5>2, <5>3
      <4> QED
        BY <4>1, <4>2
    <3>4. cgs.serverCommandSequence <= new
      BY <1>2, <1>4 DEF ClientInv, CGameInv, seq
    <3> QED
      BY <1>1, <3>1, <3>3, <3>4 DEF ClientInv, CGameInv, new
  <2> QED
    BY <2>1, <2>2
<1> QED
  BY <1>8, <1>9, <1>12, <1>13 DEF ClientInv

LEMMA ParseOK ==
    ASSUME IInv, NEW n \in 1 .. Len(toClient), CL_ParseServerMessage(n)
    PROVE  IInv'
<1>1. TypeInv' /\ ParseStep(toClient[n], n)
  BY ParseIsStep DEF IInv
<1>2. SequenceInv' /\ GamestateInv'
  BY <1>1, ParseSequences, ParseGamestates DEF IInv
<1>3. illegible' = illegible /\ cl' = cl
  BY <1>1 DEF ParseStep, server, history
<1>4. RingOK(cl)'
  BY <1>3 DEF IInv, RingOK, Issued
<1>5. ~illegible' => InFlightInv' /\ SnapshotInv'
  BY <1>1, <1>3, ParseInFlight DEF IInv
<1>6. ~illegible' /\ cl'.state # CS_ZOMBIE => ClientInv'
  BY <1>1, <1>3, ParseClient DEF IInv
<1> QED
  BY <1>1, <1>2, <1>4, <1>5, <1>6 DEF IInv

-----------------------------------------------------------------------------
(* The client sends a packet.                                              *)

LEMMA WriteOK ==
    ASSUME IInv, NEW move \in BOOLEAN, CL_WritePacket(move)
    PROVE  IInv'
<1> DEFINE p == [serverId |-> clc.serverId, move |-> move,
                 messageAcknowledge |-> clc.serverMessageSequence,
                 reliableAcknowledge |-> clc.serverCommandSequence,
                 key |-> clc.serverCommands[Slot(clc.serverCommandSequence)]]
<1>1. TypeInv
  BY DEF IInv
<1>2. /\ p \in Packets /\ p.serverId = clc.serverId
      /\ p.messageAcknowledge = clc.serverMessageSequence
      /\ p.reliableAcknowledge = clc.serverCommandSequence
      /\ p.key = clc.serverCommands[Slot(clc.serverCommandSequence)]
  <2>1. /\ clc.serverId \in 0 .. MaxServerId
        /\ clc.serverCommands[Slot(clc.serverCommandSequence)] \in Commands
    BY <1>1, VariableTypes, SlotInRing DEF ClientConnection
  <2> QED
    BY <1>1, <2>1, VariableTypes DEF Packets
<1>3. toServer' = Sent(toServer, p) /\ UNCHANGED <<server, toClient, clc, cgs, history>>
  BY DEF CL_WritePacket
<1> HIDE DEF p
<1>4. EndsWith(toServer', toServer, p, Packets)
  <2>1. EndsWith(Sent(toServer, p), toServer, p, Packets)
    BY <1>1, <1>2, VariableTypes, SentLast
  <2> QED
    BY <1>3, <2>1
<1> DEFINE last == Len(toServer')
<1>5. /\ toServer' \in Seq(Packets)
      /\ \A i \in 1 .. last : toServer'[i] = p \/ \E k \in 1 .. Len(toServer) : toServer'[i] = toServer[k]
  <2>1. \A i \in 1 .. last : i = last \/ i \in 1 .. last - 1
    BY <1>4 DEF EndsWith
  <2>2. \A i \in 1 .. last - 1 : \E k \in 1 .. Len(toServer) : toServer'[i] = toServer[k]
    BY <1>4 DEF EndsWith
  <2>3. toServer'[last] = p /\ toServer' \in Seq(Packets)
    BY <1>4 DEF EndsWith
  <2> HIDE DEF last
  <2> QED
    BY <2>1, <2>2, <2>3
<1> HIDE DEF last
<1>6. /\ cl' = cl /\ sv' = sv /\ outgoingSequence' = outgoingSequence /\ changes' = changes
      /\ toClient' = toClient /\ clc' = clc /\ cgs' = cgs
      /\ illegible' = illegible /\ deferred' = deferred
  BY <1>3 DEF server, history
<1>7. TypeInv' /\ RingOK(cl)'
  BY <1>1, <1>5, <1>6 DEF IInv, TypeInv, RingOK, Issued
<1>8. SequenceInv'
  <2>1. ASSUME NEW i \in 1 .. last
        PROVE  toServer'[i].messageAcknowledge <= clc.serverMessageSequence
    <3>1. CASE toServer'[i] = p
      <4>1. clc.serverMessageSequence \in Nat
        BY <1>1, VariableTypes
      <4> QED
        BY <1>2, <3>1, <4>1
    <3>2. CASE \E k \in 1 .. Len(toServer) : toServer'[i] = toServer[k]
      BY <3>2 DEF IInv, SequenceInv
    <3> QED
      BY <1>5, <3>1, <3>2
  <2> QED
    BY <1>6, <2>1 DEF IInv, SequenceInv, last
<1>9. GamestateInv'
  <2>1. \A i \in 1 .. last : toServer'[i].serverId <= sv.serverId
    BY <1>2, <1>5 DEF IInv, GamestateInv
  <2>2. ASSUME cl.state # CS_ZOMBIE, clc.serverId = sv.serverId
        PROVE  \A i \in 1 .. last :
                  toServer'[i].serverId # sv.serverId =>
                      toServer'[i].messageAcknowledge <= cl.gamestateMessageNum
    BY <1>2, <1>5, <2>2 DEF IInv, GamestateInv
  <2> QED
    BY <1>6, <2>1, <2>2 DEF IInv, GamestateInv, last
<1>10. ~illegible' => InFlightInv' /\ SnapshotInv'
  BY <1>6 DEF IInv, InFlightInv, SnapshotInv
<1>11. ASSUME ~illegible', cl'.state # CS_ZOMBIE PROVE ClientInv'
  <2>1. ClientInv
    BY <1>6, <1>11 DEF IInv
  <2>2. PacketsInv'
    <3>1. ASSUME NEW i \in 1 .. last
          PROVE  /\ toServer'[i].reliableAcknowledge <= clc.serverCommandSequence
                 /\ ~deferred => toServer'[i].key = Issued(cl, toServer'[i].reliableAcknowledge)
      <4>1. CASE toServer'[i] = p
        BY <1>1, <1>2, <2>1, <4>1, VariableTypes DEF ClientInv, HoldsInv
      <4>2. CASE \E k \in 1 .. Len(toServer) : toServer'[i] = toServer[k]
        BY <2>1, <4>2 DEF ClientInv, PacketsInv
      <4> QED
        BY <1>5, <4>1, <4>2
    <3> QED
      BY <1>6, <3>1 DEF PacketsInv, Issued, last
  <2> QED
    BY <1>6, <2>1, <2>2 DEF ClientInv, MessagesInv, HoldsInv, CGameInv, Issued
<1> QED
  BY <1>7, <1>8, <1>9, <1>10, <1>11 DEF IInv

-----------------------------------------------------------------------------
(* The cgame executes commands.                                            *)

\* What executing the commands up to number latest makes of cgame g.
LEMMA ExecuteType ==
    ASSUME NEW g \in CGame, NEW cmd \in Commands
    PROVE  LET e == Execute(g, cmd) IN
           /\ e \in CGame
           /\ e.serverCommandSequence = g.serverCommandSequence + 1
           /\ e.executed = Append(g.executed, cmd)
           /\ e.base = g.base /\ e.shown = g.shown
<1> DEFINE big == BigConfigString(g, cmd)
           set == IF cmd.op = "cs" THEN cmd.index
                  ELSE IF cmd.op = "bcs2" THEN Head(big).index ELSE NoIndex
           v   == IF cmd.op = "bcs2" THEN Whole(big) ELSE cmd.value
           strings == [k \in ConfigString |-> IF k = set THEN v ELSE g.configstrings[k]]
<1>1. /\ g.serverCommandSequence \in Nat /\ g.executed \in Seq(Commands)
      /\ g.bigConfigString \in Seq(Commands)
      /\ g.configstrings \in [ConfigString -> Value \cup {-1}]
  BY DEF CGame
<1>2. big \in Seq(Commands) /\ (cmd.op = "bcs2" => Head(big) \in Commands)
  <2>1. Append(g.bigConfigString, cmd) \in Seq(Commands)
        /\ Append(g.bigConfigString, cmd) # <<>>
    BY <1>1, AppendProperties
  <2>2. Head(Append(g.bigConfigString, cmd)) \in Commands
    BY <2>1, HeadTailProperties
  <2> QED
    BY <1>1, <2>1, <2>2 DEF BigConfigString
<1>3. v \in Value \cup {-1}
  <2>1. \A c \in Commands : c.value \in Value
    BY DEF Commands
  <2> QED
    BY <1>2, <2>1 DEF Whole
<1> HIDE DEF v, set, big
<1>4. strings \in [ConfigString -> Value \cup {-1}]
  BY <1>1, <1>3
<1>5. Append(g.executed, cmd) \in Seq(Commands) /\ g.serverCommandSequence + 1 \in Nat
  BY <1>1
<1>6. Execute(g, cmd) = [g EXCEPT
           !.serverCommandSequence = g.serverCommandSequence + 1,
           !.executed = Append(g.executed, cmd),
           !.bigConfigString = big,
           !.configstrings = strings]
  BY DEF Execute, big, set, v, CGame
<1> HIDE DEF strings
<1> QED
  BY <1>2, <1>4, <1>5, <1>6 DEF CGame

\* g after h, the commands in between appended.
Ran(g, h, latest) ==
    /\ h \in CGame
    /\ h.base = g.base /\ h.shown = g.shown
    /\ h.serverCommandSequence =
         IF latest > g.serverCommandSequence THEN latest ELSE g.serverCommandSequence
    /\ Len(h.executed) = Len(g.executed) + (h.serverCommandSequence - g.serverCommandSequence)
    /\ \A i \in 1 .. Len(g.executed) : h.executed[i] = g.executed[i]
    /\ \A n \in g.serverCommandSequence + 1 .. h.serverCommandSequence :
          h.executed[Len(g.executed) + (n - g.serverCommandSequence)]
             = clc.serverCommands[Slot(n)]

LEMMA RanOn ==
    ASSUME TypeInv, NEW g \in CGame, NEW h, NEW n \in Nat, Ran(g, h, n)
    PROVE  Ran(g, IF n + 1 <= g.serverCommandSequence THEN g
                  ELSE Execute(h, clc.serverCommands[Slot(n + 1)]), n + 1)
<1> DEFINE cmd == clc.serverCommands[Slot(n + 1)]
           e == Execute(h, cmd)
<1>1. /\ g.serverCommandSequence \in Nat /\ g.executed \in Seq(Commands)
      /\ Len(g.executed) \in Nat
  BY DEF CGame
<1>2. CASE n + 1 <= g.serverCommandSequence
  BY <1>1, <1>2 DEF Ran
<1>3. CASE ~(n + 1 <= g.serverCommandSequence)
  <2>1. /\ h \in CGame /\ h.executed \in Seq(Commands) /\ Len(h.executed) \in Nat
        /\ h.serverCommandSequence = n
        /\ Len(h.executed) = Len(g.executed) + (n - g.serverCommandSequence)
    BY <1>1, <1>3 DEF Ran, CGame
  <2>2. cmd \in Commands
    BY VariableTypes, SlotInRing
  <2> HIDE DEF cmd
  <2>3. /\ e \in CGame /\ e.serverCommandSequence = n + 1
        /\ e.executed = Append(h.executed, cmd)
        /\ e.base = h.base /\ e.shown = h.shown
    BY <2>1, <2>2, ExecuteType
  <2> HIDE DEF e
  <2>4. /\ Len(e.executed) = Len(h.executed) + 1
        /\ e.executed[Len(h.executed) + 1] = cmd
        /\ \A i \in 1 .. Len(h.executed) : e.executed[i] = h.executed[i]
    BY <2>1, <2>2, <2>3, AppendProperties
  <2>5. /\ Len(e.executed) = Len(g.executed) + (n + 1 - g.serverCommandSequence)
        /\ \A i \in 1 .. Len(g.executed) : i \in 1 .. Len(h.executed)
    BY <1>1, <1>3, <2>1, <2>4
  <2>6. \A i \in 1 .. Len(g.executed) : e.executed[i] = g.executed[i]
    BY <2>4, <2>5 DEF Ran
  <2>7. ASSUME NEW i \in g.serverCommandSequence + 1 .. n + 1
        PROVE  e.executed[Len(g.executed) + (i - g.serverCommandSequence)]
                  = clc.serverCommands[Slot(i)]
    <3>1. CASE i = n + 1
      <4> DEFINE x == Len(g.executed)
                 y == Len(h.executed)
                 z == g.serverCommandSequence
      <4>1. y = x + (n - z) /\ x \in Nat /\ y \in Nat /\ z \in Nat
        BY <1>1, <2>1
      <4> HIDE DEF x, y, z
      <4>2. x + ((n + 1) - z) = y + 1
        BY <4>1
      <4>3. Len(g.executed) + (i - g.serverCommandSequence) = Len(h.executed) + 1
        BY <3>1, <4>2 DEF x, y, z
      <4> QED
        BY <2>4, <3>1, <4>3 DEF cmd
    <3>2. CASE i \in g.serverCommandSequence + 1 .. n
      <4>1. Len(g.executed) + (i - g.serverCommandSequence) \in 1 .. Len(h.executed)
        BY <1>1, <2>1, <3>2
      <4>2. h.executed[Len(g.executed) + (i - g.serverCommandSequence)]
               = clc.serverCommands[Slot(i)]
        BY <2>1, <3>2 DEF Ran
      <4> QED
        BY <2>4, <4>1, <4>2
    <3> QED
      BY <1>1, <3>1, <3>2
  <2>8. e.base = g.base /\ e.shown = g.shown
    BY <2>3 DEF Ran
  <2>9. Ran(g, e, n + 1)
    <3>1. e.serverCommandSequence = IF n + 1 > g.serverCommandSequence THEN n + 1
                                    ELSE g.serverCommandSequence
      BY <1>1, <1>3, <2>3
    <3>2. Len(e.executed)
             = Len(g.executed) + (e.serverCommandSequence - g.serverCommandSequence)
      <4> DEFINE w == e.serverCommandSequence
                 x == Len(g.executed)
                 y == Len(e.executed)
                 z == g.serverCommandSequence
      <4>1. /\ w = n + 1 /\ y = x + (n + 1 - z)
            /\ x \in Nat /\ z \in Nat /\ n \in Nat
        BY <1>1, <2>1, <2>3, <2>5
      <4> HIDE DEF w, x, y, z
      <4>2. y = x + (w - z)
        BY <4>1
      <4> QED
        BY <4>2 DEF w, x, y, z
    <3>3. \A i \in g.serverCommandSequence + 1 .. e.serverCommandSequence :
             e.executed[Len(g.executed) + (i - g.serverCommandSequence)]
                = clc.serverCommands[Slot(i)]
      BY <2>3, <2>7
    <3> QED
      BY <2>3, <2>6, <2>8, <3>1, <3>2, <3>3 DEF Ran
  <2> QED
    BY <1>3, <2>9 DEF e, cmd
<1> QED
  BY <1>2, <1>3

LEMMA ExecutedOnceSteps ==
    ASSUME TypeInv, NEW g \in CGame
    PROVE  /\ ExecutedOnce(g, 0) = g
           /\ \A n \in Nat : ExecutedOnce(g, n + 1) =
                IF n + 1 <= g.serverCommandSequence THEN g
                ELSE Execute(ExecutedOnce(g, n), clc.serverCommands[Slot(n + 1)])
<1> DEFINE step == [n \in Nat |-> [x \in CGame |->
                      IF n + 1 <= g.serverCommandSequence THEN g
                      ELSE Execute(x, clc.serverCommands[Slot(n + 1)])]]
           after == CHOOSE after : after =
                      [n \in Nat |-> IF n <= g.serverCommandSequence THEN g
                                     ELSE Execute(after[n - 1], clc.serverCommands[Slot(n)])]
<1>1. step \in [Nat -> [CGame -> CGame]]
  <2>1. ASSUME NEW n \in Nat, NEW x \in CGame
        PROVE  (IF n + 1 <= g.serverCommandSequence THEN g
                ELSE Execute(x, clc.serverCommands[Slot(n + 1)])) \in CGame
    <3>1. clc.serverCommands[Slot(n + 1)] \in Commands
      BY VariableTypes, SlotInRing
    <3> QED
      BY <3>1, ExecuteType
  <2> QED
    BY <2>1
<1>2. \A n \in Nat : \A x \in CGame :
        step[n][x] = IF n + 1 <= g.serverCommandSequence THEN g
                     ELSE Execute(x, clc.serverCommands[Slot(n + 1)])
  OBVIOUS
<1> HIDE DEF step
<1>3. PICK f \in [Nat -> CGame] : f[0] = g /\ \A n \in Nat : f[n + 1] = step[n][f[n]]
  <2> HIDE DEF after
  <2>1. g \in CGame
    OBVIOUS
  <2> DEFINE S == CGame
  <2>2. g \in S /\ step \in [Nat -> [S -> S]]
    BY <1>1, <2>1
  <2> HIDE DEF S
  <2>3. \E f \in [Nat -> S] : f[0] = g /\ \A n \in Nat : f[n + 1] = step[n][f[n]]
    BY <2>2, Recursion
  <2> QED
    BY <2>3 DEF S
<1>4. g.serverCommandSequence \in Nat
  BY DEF CGame
<1>5. f = [n \in Nat |-> IF n <= g.serverCommandSequence THEN g
                         ELSE Execute(f[n - 1], clc.serverCommands[Slot(n)])]
  <2>1. ASSUME NEW n \in Nat, n # 0
        PROVE  f[n] = IF n <= g.serverCommandSequence THEN g
                      ELSE Execute(f[n - 1], clc.serverCommands[Slot(n)])
    <3>1. n - 1 \in Nat /\ (n - 1) + 1 = n
      BY <2>1
    <3>2. f[n] = step[n - 1][f[n - 1]] /\ f[n - 1] \in CGame
      BY <1>3, <3>1
    <3> QED
      BY <1>2, <3>1, <3>2
  <2> QED
    BY <1>3, <1>4, <2>1
<1>6. after = [n \in Nat |-> IF n <= g.serverCommandSequence THEN g
                             ELSE Execute(after[n - 1], clc.serverCommands[Slot(n)])]
  BY <1>5
<1>7. \A n : ExecutedOnce(g, n) = after[n]
  BY DEF ExecutedOnce
<1> HIDE DEF after
<1>8. after[0] = g
  BY <1>4, <1>6
<1>9. \A n \in Nat : after[n + 1] = IF n + 1 <= g.serverCommandSequence THEN g
                                    ELSE Execute(after[n], clc.serverCommands[Slot(n + 1)])
  <2> TAKE n \in Nat
  <2>1. n + 1 \in Nat /\ (n + 1) - 1 = n
    OBVIOUS
  <2> QED
    BY <1>6, <2>1
<1> QED
  BY <1>7, <1>8, <1>9

LEMMA ExecutedOnceRan ==
    ASSUME TypeInv, NEW g \in CGame, NEW latest \in Nat
    PROVE  Ran(g, ExecutedOnce(g, latest), latest)
<1> DEFINE E(n) == ExecutedOnce(g, n)
           N == {n \in Nat : Ran(g, E(n), n)}
<1>1. /\ E(0) = g
      /\ \A n \in Nat : E(n + 1) = IF n + 1 <= g.serverCommandSequence THEN g
                                   ELSE Execute(E(n), clc.serverCommands[Slot(n + 1)])
  BY ExecutedOnceSteps
<1> HIDE DEF E
<1>2. 0 \in N
  <2>1. Len(g.executed) \in Nat /\ g.serverCommandSequence \in Nat
    BY DEF CGame
  <2>2. Ran(g, g, 0)
    BY <2>1 DEF Ran
  <2> QED
    BY <1>1, <2>2
<1>3. ASSUME NEW n \in Nat, n \in N PROVE n + 1 \in N
  BY <1>1, <1>3, RanOn
<1> HIDE DEF N
<1>4. Nat \subseteq N
  BY <1>2, <1>3, Induction
<1> QED
  BY <1>4 DEF N, E

\* The first pass leaves no command executed behind.
LEMMA ExecutedRan ==
    ASSUME TypeInv, NEW g \in CGame, NEW latest \in Nat
    PROVE  Ran(g, Executed(g, latest), latest)
<1> DEFINE h == ExecutedOnce(g, latest)
           again == [h EXCEPT !.serverCommandSequence = g.serverCommandSequence,
                              !.executed = g.executed]
           e == ExecutedOnce(again, latest)
<1>1. h \in CGame /\ h.base = g.base /\ h.shown = g.shown
  BY ExecutedOnceRan DEF Ran
<1> HIDE DEF h
<1>2. /\ again \in CGame /\ again.base = g.base /\ again.shown = g.shown
      /\ again.serverCommandSequence = g.serverCommandSequence
      /\ again.executed = g.executed
  BY <1>1 DEF CGame
<1>3. Executed(g, latest) = e
  BY DEF Executed, h
<1> HIDE DEF again
<1>4. Ran(again, e, latest)
  BY <1>2, ExecutedOnceRan
<1> HIDE DEF e
<1> QED
  BY <1>2, <1>3, <1>4 DEF Ran

\* What a snapshot that is shown does: nothing, or the commands up to its own.
ProcessStep(s) ==
    /\ s \in Snapshots
    /\ clc.snapshots # <<>> /\ s = Head(clc.snapshots)
    /\ clc' \in ClientConnection
    /\ clc'.snapshots \in {clc.snapshots, Tail(clc.snapshots)}
    /\ clc'.serverId = clc.serverId
    /\ clc'.serverMessageSequence = clc.serverMessageSequence
    /\ clc'.serverCommandSequence = clc.serverCommandSequence
    /\ clc'.serverCommands = clc.serverCommands
    /\ cgs' \in CGame
    /\ \/ cgs' = cgs
       \/ /\ ~CycledOut(s.serverCommandNum)
          /\ cgs'.shown = s
          /\ \E e : /\ Ran(cgs, e, s.serverCommandNum)
                    /\ cgs'.base = e.base
                    /\ cgs'.serverCommandSequence = e.serverCommandSequence
                    /\ cgs'.executed = e.executed
                    /\ cgs'.configstrings = e.configstrings
                    /\ e = Executed(cgs, s.serverCommandNum)
    /\ UNCHANGED <<server, toClient, toServer, history>>

LEMMA ProcessIsStep ==
    ASSUME TypeInv, CG_ProcessSnapshots
    PROVE  ProcessStep(Head(clc.snapshots))
<1> DEFINE s == Head(clc.snapshots)
           e == Executed(cgs, s.serverCommandNum)
<1>1. clc.snapshots \in Seq(Snapshots) /\ clc.snapshots # <<>>
      /\ clc \in ClientConnection /\ cgs \in CGame
  BY VariableTypes DEF CG_ProcessSnapshots
<1>2. s \in Snapshots /\ Tail(clc.snapshots) \in Seq(Snapshots)
  BY <1>1, HeadTailProperties
<1>3. s.serverCommandNum \in Nat
  BY <1>2 DEF Snapshots
<1>4. Ran(cgs, e, s.serverCommandNum)
  BY <1>1, <1>3, ExecutedRan
<1>5. UNCHANGED <<server, toClient, toServer, history>>
  BY DEF CG_ProcessSnapshots
<1>6. \/ /\ clc' = [clc EXCEPT !.snapshots = Tail(@)]
         /\ cgs' = cgs
      \/ /\ clc' = [clc EXCEPT !.state = "CA_DISCONNECTED"]
         /\ cgs' = cgs
      \/ /\ ~CycledOut(s.serverCommandNum)
         /\ cgs' = [e EXCEPT !.shown = s]
         /\ clc' = [clc EXCEPT !.snapshots = Tail(@),
                      !.state = IF Disconnect \in Executes(s.serverCommandNum)
                                THEN "CA_DISCONNECTED" ELSE @]
  BY DEF CG_ProcessSnapshots
<1> HIDE DEF s, e
<1>7. /\ clc' \in ClientConnection
      /\ clc'.snapshots \in {clc.snapshots, Tail(clc.snapshots)}
      /\ clc'.serverId = clc.serverId
      /\ clc'.serverMessageSequence = clc.serverMessageSequence
      /\ clc'.serverCommandSequence = clc.serverCommandSequence
      /\ clc'.serverCommands = clc.serverCommands
  BY <1>1, <1>2, <1>6 DEF ClientConnection
<1>8. /\ cgs' \in CGame
      /\ \/ cgs' = cgs
         \/ /\ ~CycledOut(s.serverCommandNum)
            /\ cgs'.shown = s
            /\ cgs'.base = e.base
            /\ cgs'.serverCommandSequence = e.serverCommandSequence
            /\ cgs'.executed = e.executed
            /\ cgs'.configstrings = e.configstrings
  <2>1. CASE cgs' = cgs
    BY <1>1, <2>1
  <2>2. CASE ~CycledOut(s.serverCommandNum) /\ cgs' = [e EXCEPT !.shown = s]
    <3>1. e \in CGame
      BY <1>4 DEF Ran
    <3> QED
      BY <1>2, <2>2, <3>1 DEF CGame
  <2> QED
    BY <1>6, <2>1, <2>2
<1>9. s = Head(clc.snapshots) /\ e = Executed(cgs, s.serverCommandNum)
  BY DEF s, e
<1> QED
  BY <1>1, <1>2, <1>4, <1>5, <1>7, <1>8, <1>9 DEF ProcessStep

LEMMA ProcessSnapshotInv ==
    ASSUME TypeInv, SnapshotInv, NEW s, ProcessStep(s)
    PROVE  SnapshotInv'
<1>1. /\ clc.snapshots \in Seq(Snapshots) /\ clc.snapshots # <<>> /\ s = Head(clc.snapshots)
      /\ clc'.snapshots \in {clc.snapshots, Tail(clc.snapshots)}
      /\ cgs'.shown \in {cgs.shown, s}
      /\ deferred' = deferred
  BY VariableTypes DEF ProcessStep, history
<1>2. \A k \in 1 .. Len(clc'.snapshots) : \E i \in 1 .. Len(clc.snapshots) :
         clc'.snapshots[k] = clc.snapshots[i]
  <2>1. /\ Len(Tail(clc.snapshots)) = Len(clc.snapshots) - 1
        /\ \A k \in 1 .. Len(Tail(clc.snapshots)) :
              Tail(clc.snapshots)[k] = clc.snapshots[k + 1] /\ k + 1 \in 1 .. Len(clc.snapshots)
    BY <1>1, HeadTailProperties
  <2> QED
    BY <1>1, <2>1
<1>3. s = clc.snapshots[1] /\ 1 \in 1 .. Len(clc.snapshots)
  BY <1>1
<1> QED
  BY <1>1, <1>2, <1>3 DEF SnapshotInv

LEMMA ProcessClient ==
    ASSUME TypeInv, ClientInv, NEW s, ProcessStep(s)
    PROVE  ClientInv'
<1>1. /\ clc.snapshots \in Seq(Snapshots) /\ clc.snapshots # <<>> /\ s = Head(clc.snapshots)
      /\ clc'.snapshots \in {clc.snapshots, Tail(clc.snapshots)}
      /\ clc'.serverCommandSequence = clc.serverCommandSequence
      /\ clc'.serverCommands = clc.serverCommands
      /\ deferred' = deferred /\ cl' = cl /\ toClient' = toClient /\ toServer' = toServer
  BY VariableTypes DEF ProcessStep, history, server
<1>2. \A k \in 1 .. Len(clc'.snapshots) : \E i \in 1 .. Len(clc.snapshots) :
         clc'.snapshots[k] = clc.snapshots[i]
  <2>1. /\ Len(Tail(clc.snapshots)) = Len(clc.snapshots) - 1
        /\ \A k \in 1 .. Len(Tail(clc.snapshots)) :
              Tail(clc.snapshots)[k] = clc.snapshots[k + 1] /\ k + 1 \in 1 .. Len(clc.snapshots)
    BY <1>1, HeadTailProperties
  <2> QED
    BY <1>1, <2>1
<1>3. s = clc.snapshots[1] /\ 1 \in 1 .. Len(clc.snapshots)
  BY <1>1
<1>4. MessagesInv' /\ PacketsInv'
  BY <1>1 DEF ClientInv, MessagesInv, PacketsInv, Issued
<1>5. /\ \A k \in 1 .. Len(clc'.snapshots) :
            clc'.snapshots[k].serverCommandNum <= clc.serverCommandSequence
      /\ s.serverCommandNum <= clc.serverCommandSequence
  BY <1>2, <1>3 DEF ClientInv, CGameInv
<1>6. CASE cgs' = cgs
  BY <1>1, <1>4, <1>5, <1>6 DEF ClientInv, HoldsInv, CGameInv, Issued
<1>7. CASE cgs' # cgs
  <2>1. PICK e : /\ Ran(cgs, e, s.serverCommandNum)
                 /\ cgs'.base = e.base
                 /\ cgs'.serverCommandSequence = e.serverCommandSequence
                 /\ cgs'.executed = e.executed
    BY <1>7 DEF ProcessStep
  <2> DEFINE seq == clc.serverCommandSequence
             old == cgs.serverCommandSequence
             now == cgs'.serverCommandSequence
             len == Len(cgs.executed)
  <2>2. /\ cgs'.base = cgs.base
        /\ now = IF s.serverCommandNum > old THEN s.serverCommandNum ELSE old
        /\ Len(cgs'.executed) = len + (now - old)
        /\ \A i \in 1 .. len : cgs'.executed[i] = cgs.executed[i]
        /\ \A n \in old + 1 .. now :
              cgs'.executed[len + (n - old)] = clc.serverCommands[Slot(n)]
    BY <2>1 DEF Ran
  <2>3. /\ seq \in Nat /\ old \in Nat /\ len \in Nat /\ cgs.base \in Nat
        /\ s.serverCommandNum \in Nat
    BY <1>3, VariableTypes, SnapshotTypes
  <2>4. cgs.base <= old /\ old <= seq /\ len = old - cgs.base
    BY DEF ClientInv, CGameInv
  <2>5. now > old => seq - old <= MAX_RELIABLE_COMMANDS
    <3>1. ~CycledOut(s.serverCommandNum)
      BY <1>7 DEF ProcessStep
    <3> QED
      BY <2>2, <2>3, <3>1, ServerCommandsAssumption DEF CycledOut
  <2> HIDE DEF seq, old, now, len
  <2>6. now \in Nat /\ old <= now /\ now <= seq
    BY <1>5, <2>2, <2>3, <2>4 DEF seq
  <2>7. ASSUME NEW i \in 1 .. Len(cgs'.executed)
        PROVE  cgs'.executed[i] = cl.issued[cgs.base + i]
    <3>1. CASE i <= len
      <4>1. i \in 1 .. len
        BY <2>3, <2>6, <2>2, <3>1
      <4> QED
        BY <2>2, <4>1 DEF ClientInv, CGameInv, len
    <3>2. CASE ~(i <= len)
      <4> DEFINE b == cgs.base
                 l == Len(cgs'.executed)
      <4>a. /\ i \in Nat /\ i <= l /\ l = len + (now - old) /\ ~(i <= len)
            /\ len = old - b /\ b \in Nat /\ b <= old
        BY <2>2, <2>3, <2>4, <3>2
      <4> HIDE DEF b, l
      <4> DEFINE n == b + i
      <4>b. n > old /\ n <= now /\ len + (n - old) = i /\ n \in Nat
        BY <2>3, <2>6, <4>a
      <4> HIDE DEF n
      <4>1. n \in old + 1 .. now /\ n \in b + 1 .. seq
        BY <2>3, <2>6, <4>a, <4>b
      <4>2. seq - n < MAX_RELIABLE_COMMANDS
        <5>1. now > old
          BY <2>3, <2>6, <4>b
        <5>2. seq - old <= MAX_RELIABLE_COMMANDS
          BY <2>5, <5>1
        <5> QED
          BY <2>3, <4>b, <5>2, ServerCommandsAssumption
      <4>3. clc.serverCommands[Slot(n)] = cl.issued[n]
        BY <4>1, <4>2 DEF ClientInv, HoldsInv, seq, b
      <4>4. cgs'.executed[len + (n - old)] = clc.serverCommands[Slot(n)]
        BY <2>2, <4>1
      <4>5. n = cgs.base + i
        BY DEF n, b
      <4> QED
        BY <4>b, <4>3, <4>4, <4>5
    <3> QED
      BY <3>1, <3>2
  <2>8. Len(cgs'.executed) = now - cgs.base
    BY <2>2, <2>3, <2>4, <2>6
  <2>9. HoldsInv'
    BY <1>1, <2>2 DEF ClientInv, HoldsInv, Issued
  <2>10. cgs.base <= now
    BY <2>3, <2>4, <2>6
  <2>11. CGameInv'
    BY <1>1, <1>5, <2>2, <2>6, <2>7, <2>8, <2>10 DEF CGameInv, now, seq
  <2> QED
    BY <1>4, <2>9, <2>11 DEF ClientInv
<1> QED
  BY <1>6, <1>7

LEMMA ProcessOK ==
    ASSUME IInv, CG_ProcessSnapshots
    PROVE  IInv'
<1> DEFINE s == Head(clc.snapshots)
<1>1. TypeInv /\ ProcessStep(s)
  BY ProcessIsStep DEF IInv
<1> HIDE DEF s
<1>2. /\ cl' = cl /\ sv' = sv /\ outgoingSequence' = outgoingSequence /\ changes' = changes
      /\ toClient' = toClient /\ toServer' = toServer
      /\ illegible' = illegible /\ deferred' = deferred
      /\ clc' \in ClientConnection /\ cgs' \in CGame
      /\ clc'.serverId = clc.serverId
      /\ clc'.serverMessageSequence = clc.serverMessageSequence
      /\ clc'.serverCommandSequence = clc.serverCommandSequence
  BY <1>1 DEF ProcessStep, server, history
<1>3. TypeInv' /\ RingOK(cl)'
  BY <1>1, <1>2 DEF IInv, TypeInv, RingOK, Issued
<1>4. SequenceInv' /\ GamestateInv'
  BY <1>2 DEF IInv, SequenceInv, GamestateInv
<1>5. ~illegible' => InFlightInv' /\ SnapshotInv'
  BY <1>1, <1>2, ProcessSnapshotInv DEF IInv, InFlightInv
<1>6. ~illegible' /\ cl'.state # CS_ZOMBIE => ClientInv'
  BY <1>1, <1>2, ProcessClient DEF IInv
<1> QED
  BY <1>3, <1>4, <1>5, <1>6 DEF IInv

-----------------------------------------------------------------------------
(* The steps of the game, the operator and the server.                     *)

\* What the action property NoNeedlessGamestate says of a step.
OnlyNeeded == GamestateSent => clc.serverId # sv.serverId

LEMMA KeepsNeeded ==
    ASSUME Keeps(cl, cl')
    PROVE  OnlyNeeded
BY DEF Keeps, OnlyNeeded, GamestateSent, CS_PRIMED, CS_ZOMBIE

\* Commands were added, or the client dropped, without a packet.
LEMMA LocalOK ==
    ASSUME IInv, cl' \in ClientT, RingOK(cl'), Keeps(cl, cl'),
           cl'.reliableAcknowledge = cl.reliableAcknowledge,
           sv' \in [serverId : 1 .. MaxServerId, configstrings : Strings],
           sv'.serverId \in {sv.serverId, sv.serverId + 1},
           changes' \in Value,
           UNCHANGED <<outgoingSequence, toClient, toServer, clc, cgs, history>>
    PROVE  IInv' /\ OnlyNeeded /\ QueueStep
<1>1. TypeInv
  BY DEF IInv
<1>2. toServer' \in Seq(Packets) /\ Fewer(toServer', toServer)
  BY <1>1, VariableTypes DEF Fewer
<1>3. illegible' = illegible /\ illegible \in BOOLEAN /\ deferred' = deferred
  BY <1>1 DEF TypeInv, history
<1>4. ClientInv => cl'.reliableAcknowledge <= clc.serverCommandSequence
  BY DEF ClientInv, HoldsInv
<1>5. QueueStep
  BY <1>2, <1>3, <1>4 DEF QueueStep
<1> QED
  BY <1>5, QueueStepOK, KeepsNeeded

LEMMA ServerTypes ==
    ASSUME TypeInv
    PROVE  /\ cl \in ClientT /\ sv \in [serverId : 1 .. MaxServerId, configstrings : Strings]
           /\ changes \in Value /\ sv.serverId \in {sv.serverId, sv.serverId + 1}
           /\ changes < MaxChanges => changes + 1 \in Value
<1>1. MaxChanges \in Nat
  BY ServerCommandsAssumption
<1> QED
  BY <1>1 DEF TypeInv, Value

LEMMA SetConfigstringOK ==
    ASSUME IInv, NEW k \in ConfigString, SV_SetConfigstring(k)
    PROVE  IInv' /\ OnlyNeeded /\ QueueStep
<1>1. TypeInv /\ RingOK(cl)
  BY DEF IInv
<1> DEFINE v == changes + 1
<1>2. /\ v \in Value /\ changes' = v /\ sv' = [sv EXCEPT !.configstrings[k] = v]
      /\ cl \in ClientT /\ sv \in [serverId : 1 .. MaxServerId, configstrings : Strings]
  BY <1>1, ServerTypes DEF SV_SetConfigstring
<1>3. cl' = IF cl.state = CS_PRIMED THEN [cl EXCEPT !.csUpdated[k] = TRUE]
            ELSE IF cl.state = CS_ACTIVE THEN SV_SendConfigstring(cl, k, v) ELSE cl
  BY DEF SV_SetConfigstring
<1> HIDE DEF v
<1>4. /\ sv' \in [serverId : 1 .. MaxServerId, configstrings : Strings]
      /\ sv'.serverId = sv.serverId
  BY <1>2 DEF Strings
<1>5. /\ cl' \in ClientT /\ RingOK(cl') /\ Keeps(cl, cl')
      /\ cl'.reliableAcknowledge = cl.reliableAcknowledge
  <2>1. CASE cl.state = CS_PRIMED
    <3> DEFINE d == [cl EXCEPT !.csUpdated = [cl.csUpdated EXCEPT ![k] = TRUE]]
    <3>1. cl' = d
      BY <1>2, <1>3, <2>1 DEF ClientT
    <3>2. [cl.csUpdated EXCEPT ![k] = TRUE] \in [ConfigString -> BOOLEAN]
      BY <1>2 DEF ClientT
    <3>3. d \in ClientT
      BY <1>2, <3>2 DEF ClientT
    <3>4. /\ d.state = cl.state /\ d.reliableSequence = cl.reliableSequence
          /\ d.reliableAcknowledge = cl.reliableAcknowledge
          /\ d.reliableSent = cl.reliableSent
          /\ d.gamestateMessageNum = cl.gamestateMessageNum
          /\ d.reliableCommands = cl.reliableCommands /\ d.issued = cl.issued
      BY <1>2 DEF ClientT
    <3> HIDE DEF d
    <3>5. RingOK(d)
      BY <1>1, <1>2, <3>3, <3>4, SameQueue
    <3>6. Keeps(cl, d)
      BY <1>1, <3>4, VariableTypes DEF Keeps
    <3> QED
      BY <3>1, <3>3, <3>4, <3>5, <3>6
  <2>2. CASE cl.state # CS_PRIMED /\ cl.state = CS_ACTIVE
    <3>1. cl' = SV_SendConfigstring(cl, k, v)
      BY <1>3, <2>2
    <3>2. cl' \in ClientT /\ RingOK(cl') /\ Evolves(cl, cl')
      BY <1>1, <1>2, <3>1, SendConfigstringOK
    <3> QED
      BY <3>2, EvolvesKeeps DEF Evolves
  <2>3. CASE cl.state # CS_PRIMED /\ cl.state # CS_ACTIVE
    <3>1. cl' = cl
      BY <1>3, <2>3
    <3> QED
      BY <1>1, <1>2, <3>1, VariableTypes DEF Keeps
  <2> QED
    BY <2>1, <2>2, <2>3
<1>6. UNCHANGED <<outgoingSequence, toClient, toServer, clc, cgs, history>>
  BY DEF SV_SetConfigstring
<1>7. changes' \in Value /\ sv'.serverId \in {sv.serverId, sv.serverId + 1}
  BY <1>2, <1>4
<1> QED
  BY <1>4, <1>5, <1>6, <1>7, LocalOK

LEMMA SendServerCommandOK ==
    ASSUME IInv, SV_SendServerCommand
    PROVE  IInv' /\ OnlyNeeded /\ QueueStep
<1>1. TypeInv /\ RingOK(cl)
  BY DEF IInv
<1>2. /\ changes + 1 \in Value /\ cl \in ClientT
      /\ sv \in [serverId : 1 .. MaxServerId, configstrings : Strings]
  BY <1>1, ServerTypes DEF SV_SendServerCommand
<1>3. /\ cl' = SV_AddServerCommand(cl, Printed(changes + 1)) /\ changes' = changes + 1 /\ sv' = sv
      /\ UNCHANGED <<outgoingSequence, toClient, toServer, clc, cgs, history>>
  BY DEF SV_SendServerCommand
<1>4. cl' \in ClientT /\ RingOK(cl') /\ Evolves(cl, cl')
  BY <1>1, <1>2, <1>3, AddOK, CommandTypes
<1>5. Keeps(cl, cl') /\ cl'.reliableAcknowledge = cl.reliableAcknowledge
  BY <1>4, EvolvesKeeps DEF Evolves
<1> QED
  BY <1>2, <1>3, <1>4, <1>5, LocalOK

LEMMA DropClientOK ==
    ASSUME IInv, DropClient
    PROVE  IInv' /\ OnlyNeeded /\ QueueStep
<1>1. TypeInv /\ RingOK(cl)
  BY DEF IInv
<1>2. /\ changes \in Value /\ cl \in ClientT
      /\ sv \in [serverId : 1 .. MaxServerId, configstrings : Strings]
  BY <1>1, ServerTypes
<1>3. /\ cl' = SV_DropClient(cl) /\ changes' = changes /\ sv' = sv
      /\ UNCHANGED <<outgoingSequence, toClient, toServer, clc, cgs, history>>
  BY DEF DropClient
<1>4. cl' \in ClientT /\ RingOK(cl') /\ Evolves(cl, cl')
  BY <1>1, <1>2, <1>3, DropOK
<1>5. Keeps(cl, cl') /\ cl'.reliableAcknowledge = cl.reliableAcknowledge
  BY <1>4, EvolvesKeeps DEF Evolves
<1> QED
  BY <1>2, <1>3, <1>4, <1>5, LocalOK

LEMMA SpawnServerOK ==
    ASSUME IInv, SV_SpawnServer
    PROVE  IInv' /\ OnlyNeeded /\ QueueStep
<1>1. TypeInv /\ RingOK(cl)
  BY DEF IInv
<1>2. /\ changes \in Value /\ cl \in ClientT /\ cl.state \in States
      /\ sv.serverId \in 1 .. MaxServerId /\ sv.serverId < MaxServerId
  BY <1>1, ServerTypes, VariableTypes DEF SV_SpawnServer
<1>3. /\ sv' = [serverId |-> sv.serverId + 1, configstrings |-> [k \in ConfigString |-> 0]]
      /\ cl' = IF cl.state >= CS_CONNECTED THEN [cl EXCEPT !.state = CS_CONNECTED] ELSE cl
      /\ changes' = changes
      /\ UNCHANGED <<outgoingSequence, toClient, toServer, clc, cgs, history>>
  BY DEF SV_SpawnServer
<1>4. /\ sv' \in [serverId : 1 .. MaxServerId, configstrings : Strings]
      /\ sv'.serverId = sv.serverId + 1
  <2>1. sv.serverId + 1 \in 1 .. MaxServerId /\ 0 \in Value
    BY <1>2, ServerCommandsAssumption DEF Value
  <2>2. [k \in ConfigString |-> 0] \in Strings
    BY <2>1 DEF Strings
  <2> QED
    BY <1>3, <2>1, <2>2
<1>5. /\ cl' \in ClientT /\ RingOK(cl') /\ Keeps(cl, cl')
      /\ cl'.reliableAcknowledge = cl.reliableAcknowledge
  <2>1. CASE cl.state >= CS_CONNECTED
    <3> DEFINE d == [cl EXCEPT !.state = CS_CONNECTED]
    <3>1. d \in ClientT
      BY <1>2 DEF ClientT, States
    <3>2. /\ d.state = CS_CONNECTED /\ d.reliableSequence = cl.reliableSequence
          /\ d.reliableAcknowledge = cl.reliableAcknowledge
          /\ d.reliableSent = cl.reliableSent
          /\ d.gamestateMessageNum = cl.gamestateMessageNum
          /\ d.reliableCommands = cl.reliableCommands /\ d.issued = cl.issued
      BY <1>2 DEF ClientT
    <3>3. cl' = d
      BY <1>3, <2>1
    <3> HIDE DEF d
    <3>4. cl.state # CS_ZOMBIE /\ d.state # CS_ZOMBIE
      BY <2>1, <3>2 DEF CS_ZOMBIE, CS_CONNECTED
    <3>5. RingOK(d)
      BY <1>1, <1>2, <3>1, <3>2, <3>4, SameQueue
    <3>6. Keeps(cl, d)
      BY <1>1, <3>2, <3>4, VariableTypes DEF Keeps
    <3> QED
      BY <3>1, <3>2, <3>3, <3>5, <3>6
  <2>2. CASE ~(cl.state >= CS_CONNECTED)
    <3>1. cl' = cl
      BY <1>3, <2>2
    <3> QED
      BY <1>1, <1>2, <3>1, VariableTypes DEF Keeps
  <2> QED
    BY <2>1, <2>2
<1> QED
  BY <1>2, <1>3, <1>4, <1>5, LocalOK

\* Messages with commands carry those of client_t c after what c acknowledged.
LEMMA FilledFull ==
    ASSUME TypeInv, NEW c \in ClientT, RingOK(c), NEW m \in Messages,
           c.reliableSequence = cl.reliableSequence, c.issued = cl.issued,
           m.commands = SV_UpdateServerCommandsToClient(c),
           m.reliableSequence = c.reliableSequence, m.body # "nop",
           deferred' = (deferred \/ (m.body # "nop" /\ LeavesOut(c, m))),
           ~illegible /\ cl.state # CS_ZOMBIE /\ ClientInv =>
               c.reliableAcknowledge <= clc.serverCommandSequence
    PROVE  Filled(m)
<1> DEFINE a == c.reliableAcknowledge
<1>1. PICK b \in Nat :
         /\ a <= b /\ b <= c.reliableSequence
         /\ m.commands \in [a + 1 .. b -> Commands]
         /\ \A i \in a + 1 .. b : m.commands[i] = c.issued[i]
         /\ b # c.reliableSequence =>
               /\ c.reliableSequence \notin a + 1 .. b
               /\ c.reliableSequence - a > MaxWritten + 1
         /\ c.reliableSequence <= b + Unsendable
  BY CommandsToClient
<1>2. a \in Nat /\ c.reliableSequence \in Nat
  BY DEF ClientT
<1>3. ~deferred' => b = c.reliableSequence
  <2> SUFFICES ASSUME b # c.reliableSequence
               PROVE  LeavesOut(c, m)
    BY Zenon
  <2>1. c.reliableSequence \in a + 1 .. m.reliableSequence
    BY <1>1, <1>2, ServerCommandsAssumption
  <2>2. c.reliableSequence \notin DOMAIN m.commands
    BY <1>1
  <2> QED
    BY <2>1, <2>2 DEF LeavesOut
<1> HIDE DEF a
<1>4. /\ b <= m.reliableSequence
      /\ \A i \in a + 1 .. b : m.commands[i] = cl.issued[i]
      /\ ~deferred' /\ m.body # "nop" => b = m.reliableSequence
      /\ m.body # "nop" => m.reliableSequence <= b + Unsendable
      /\ m.body = "nop" => b = 0
  BY <1>1, <1>3
<1>5. ~illegible /\ cl.state # CS_ZOMBIE /\ ClientInv => a <= clc.serverCommandSequence
  BY DEF a
<1> QED
  BY <1>1, <1>2, <1>4, <1>5 DEF Filled

\* The types of the message made.
LEMMA ServerMessageTypes ==
    ASSUME TypeInv, NEW c \in ClientT, NEW body \in {"gamestate", "snapshot", "nop"},
           NEW commands \in Runs
    PROVE  LET m == ServerMessage(c, body, commands) IN
           /\ m \in Messages /\ m.body = body /\ m.commands = commands
           /\ m.sequence = outgoingSequence /\ m.serverId = sv.serverId
           /\ m.reliableSequence = c.reliableSequence /\ m.state = c.state
           /\ m.configstrings = sv.configstrings
<1>1. sv.serverId \in 0 .. MaxServerId /\ sv.configstrings \in Strings /\ outgoingSequence \in Nat
  BY VariableTypes, ServerTypes, ServerCommandsAssumption
<1>2. c.reliableSequence \in Nat /\ c.state \in States
  BY DEF ClientT
<1> QED
  BY <1>1, <1>2 DEF ServerMessage, Messages

LEMMA RunsIn ==
    ASSUME NEW a \in Nat, NEW b \in Nat, NEW f \in [a + 1 .. b -> Commands]
    PROVE  f \in Runs
<1> DEFINE R == {[x + 1 .. y -> Commands] : x \in Nat, y \in Nat}
<1>1. [a + 1 .. b -> Commands] \in R
  OBVIOUS
<1>2. Runs = UNION R
  BY DEF Runs
<1> HIDE DEF R
<1>3. f \in UNION R
  BY <1>1
<1> QED
  BY <1>2, <1>3

LEMMA UpdateIsRun ==
    ASSUME NEW c \in ClientT, RingOK(c)
    PROVE  SV_UpdateServerCommandsToClient(c) \in Runs
<1>1. c.reliableAcknowledge \in Nat
  BY DEF ClientT
<1>2. PICK b \in Nat : SV_UpdateServerCommandsToClient(c)
                          \in [c.reliableAcknowledge + 1 .. b -> Commands]
  BY CommandsToClient
<1> QED
  BY <1>1, <1>2, RunsIn

LEMMA NextSequence ==
    ASSUME TypeInv, outgoingSequence <= MaxMessages
    PROVE  outgoingSequence + 1 \in 1 .. MaxMessages + 1
<1>1. MaxMessages \in Nat /\ outgoingSequence \in 1 .. MaxMessages + 1
  BY ServerCommandsAssumption DEF TypeInv
<1> QED
  BY <1>1

LEMMA SendSnapshotOK ==
    ASSUME IInv, SV_SendClientSnapshot
    PROVE  IInv' /\ OnlyNeeded /\ \E m : SendStep(m) /\ Made(m)
<1>1. /\ TypeInv /\ RingOK(cl) /\ cl \in ClientT /\ cl.reliableSequence \in Nat
      /\ deferred \in BOOLEAN
      /\ toServer \in Seq(Packets) /\ Fewer(toServer, toServer)
      /\ ClientInv => cl.reliableAcknowledge <= clc.serverCommandSequence
  BY VariableTypes DEF IInv, TypeInv, Fewer, ClientInv, HoldsInv
<1>2. UNCHANGED <<sv, changes, toServer, clc, cgs, illegible>>
  BY DEF SV_SendClientSnapshot
<1>3. CASE /\ cl' = [cl EXCEPT !.reliableSent = cl.reliableSequence]
           /\ SV_SendMessageToClient(cl,
                ServerMessage(cl, "snapshot", SV_UpdateServerCommandsToClient(cl)))
           /\ cl.serverIdAcknowledge = sv.serverId
  <2> DEFINE m == ServerMessage(cl, "snapshot", SV_UpdateServerCommandsToClient(cl))
  <2>1. /\ m \in Messages /\ m.body = "snapshot"
        /\ m.commands = SV_UpdateServerCommandsToClient(cl)
        /\ m.sequence = outgoingSequence /\ m.serverId = sv.serverId
        /\ m.reliableSequence = cl.reliableSequence /\ m.state = cl.state
        /\ m.configstrings = sv.configstrings
    BY <1>1, UpdateIsRun, ServerMessageTypes
  <2>2. SV_SendMessageToClient(cl, m)
    BY <1>3
  <2> HIDE DEF m
  <2>3. /\ outgoingSequence' = outgoingSequence + 1
        /\ outgoingSequence' \in 1 .. MaxMessages + 1
        /\ toClient' = Sent(toClient, m)
        /\ deferred' = (deferred \/ (m.body # "nop" /\ LeavesOut(cl, m)))
    BY <1>1, <2>2, NextSequence DEF SV_SendMessageToClient
  <2>4. Filled(m)
    BY <1>1, <2>1, <2>3, FilledFull
  <2>5. /\ cl' \in ClientT /\ cl'.state = cl.state /\ cl'.issued = cl.issued
        /\ cl'.reliableSequence = cl.reliableSequence
        /\ cl'.reliableAcknowledge = cl.reliableAcknowledge
        /\ cl'.reliableCommands = cl.reliableCommands
        /\ cl'.reliableSent = cl.reliableSequence
        /\ cl'.gamestateMessageNum = cl.gamestateMessageNum
        /\ cl'.csUpdated = cl.csUpdated
        /\ cl'.serverIdAcknowledge = cl.serverIdAcknowledge
    BY <1>1, <1>3 DEF ClientT
  <2>6. RingOK(cl')
    BY <1>1, <2>5, SameQueue
  <2>7. deferred' \in BOOLEAN /\ (deferred => deferred')
    BY <1>1, <2>3
  <2>8. SendStep(m)
    BY <1>1, <1>2, <2>1, <2>3, <2>4, <2>5, <2>6, <2>7 DEF SendStep, Live
  <2>9. OnlyNeeded
    BY <2>5 DEF OnlyNeeded, GamestateSent
  <2>10. Made(m)
    BY <1>3, <2>1, <2>5 DEF Made
  <2> QED
    BY <2>8, <2>9, <2>10, SendStepOK
<1>4. CASE /\ SV_SendMessageToClient(cl, ServerMessage(cl, "nop", <<>>))
           /\ UNCHANGED cl
  <2> DEFINE m == ServerMessage(cl, "nop", <<>>)
  <2>1. <<>> \in [0 + 1 .. 0 -> Commands]
    OBVIOUS
  <2>2. <<>> \in Runs
    BY <2>1, RunsIn
  <2>3. /\ m \in Messages /\ m.body = "nop" /\ m.commands = <<>>
        /\ m.sequence = outgoingSequence /\ m.serverId = sv.serverId
        /\ m.reliableSequence = cl.reliableSequence /\ m.state = cl.state
        /\ m.configstrings = sv.configstrings
    BY <1>1, <2>2, ServerMessageTypes
  <2>4. SV_SendMessageToClient(cl, m) /\ cl' = cl
    BY <1>4
  <2> HIDE DEF m
  <2>5. /\ outgoingSequence' = outgoingSequence + 1
        /\ outgoingSequence' \in 1 .. MaxMessages + 1
        /\ toClient' = Sent(toClient, m)
        /\ deferred' = deferred
    BY <1>1, <2>3, <2>4, NextSequence DEF SV_SendMessageToClient
  <2>6. Filled(m)
    <3>1. /\ 0 <= m.reliableSequence /\ m.commands \in [0 + 1 .. 0 -> Commands]
          /\ 0 <= clc.serverCommandSequence
      BY <1>1, <2>1, <2>3, VariableTypes
    <3>2. \A i \in 0 + 1 .. 0 : m.commands[i] = cl.issued[i]
      OBVIOUS
    <3> QED
      BY <2>3, <3>1, <3>2 DEF Filled
  <2>7. SendStep(m)
    BY <1>1, <1>2, <2>3, <2>4, <2>5, <2>6 DEF SendStep, Live
  <2>8. OnlyNeeded
    BY <2>4 DEF OnlyNeeded, GamestateSent
  <2>9. Made(m)
    BY <2>3, <2>4 DEF Made
  <2> QED
    BY <2>7, <2>8, <2>9, SendStepOK
<1> QED
  BY <1>3, <1>4 DEF SV_SendClientSnapshot

\* What the acknowledgements of a packet make of the client_t.
LEMMA AcknowledgedFields ==
    ASSUME TypeInv, RingOK(cl), NEW p \in Packets, cl.state # CS_ZOMBIE, Legible(cl, p)
    PROVE  LET d == Acknowledged(cl, p) IN
           /\ d \in ClientT /\ RingOK(d)
           /\ d.state = cl.state /\ d.reliableSequence = cl.reliableSequence
           /\ d.reliableSent = cl.reliableSent /\ d.issued = cl.issued
           /\ d.gamestateMessageNum = cl.gamestateMessageNum
           /\ d.reliableCommands = cl.reliableCommands
           /\ d.reliableAcknowledge = p.reliableAcknowledge
           /\ d.csUpdated = cl.csUpdated /\ d.serverIdAcknowledge = p.serverId
           /\ Keeps(cl, d)
<1> DEFINE d == Acknowledged(cl, p)
<1>1. /\ cl \in ClientT /\ p.serverId \in 0 .. MaxServerId /\ p.reliableAcknowledge \in Nat
      /\ cl.reliableSequence \in Nat
  BY VariableTypes DEF Packets
<1>2. /\ d \in ClientT
      /\ d.state = cl.state /\ d.reliableSequence = cl.reliableSequence
      /\ d.reliableSent = cl.reliableSent /\ d.issued = cl.issued
      /\ d.gamestateMessageNum = cl.gamestateMessageNum
      /\ d.reliableCommands = cl.reliableCommands
      /\ d.reliableAcknowledge = p.reliableAcknowledge
      /\ d.csUpdated = cl.csUpdated /\ d.serverIdAcknowledge = p.serverId
  BY <1>1 DEF Acknowledged, ClientT
<1> HIDE DEF d
<1>3. /\ p.reliableAcknowledge <= cl.reliableSequence
      /\ cl.reliableSequence - p.reliableAcknowledge <= MAX_RELIABLE_COMMANDS
  BY <1>1, ServerCommandsAssumption DEF Legible
<1>4. RingOK(d)
  BY <1>2, <1>3 DEF RingOK, Issued
<1>5. Keeps(cl, d)
  BY <1>1, <1>2 DEF Keeps
<1> QED
  BY <1>2, <1>4, <1>5 DEF d

\* The queue of commands changed when packet number n arrived.
LEMMA ArrivedOK ==
    ASSUME IInv, NEW n \in 1 .. Len(toServer),
           toServer' = SubSeq(toServer, n + 1, Len(toServer)),
           cl' \in ClientT, RingOK(cl'), Keeps(cl, cl'),
           illegible' \in BOOLEAN, illegible => illegible',
           cl'.reliableAcknowledge \in {cl.reliableAcknowledge, toServer[n].reliableAcknowledge}
               \/ illegible',
           UNCHANGED <<sv, changes, outgoingSequence, toClient, clc, cgs, deferred>>
    PROVE  IInv' /\ OnlyNeeded /\ QueueStep
<1>1. /\ TypeInv /\ toServer \in Seq(Packets) /\ changes \in Value
      /\ sv \in [serverId : 1 .. MaxServerId, configstrings : Strings]
  BY VariableTypes, ServerTypes DEF IInv
<1>2. After(toServer', toServer, n, Packets)
  <2>1. After(SubSeq(toServer, n + 1, Len(toServer)), toServer, n, Packets)
    BY <1>1, Received
  <2> QED
    BY <2>1
<1>3. toServer' \in Seq(Packets) /\ Fewer(toServer', toServer)
  BY <1>2 DEF After, Fewer
<1>4. ~illegible' /\ ClientInv => cl'.reliableAcknowledge <= clc.serverCommandSequence
  BY DEF ClientInv, HoldsInv, PacketsInv
<1>5. QueueStep
  BY <1>1, <1>3, <1>4 DEF QueueStep
<1> QED
  BY <1>5, QueueStepOK, KeepsNeeded

LEMMA IgnoreIllegibleOK ==
    ASSUME IInv, NEW n \in 1 .. Len(toServer), cl.state # CS_ZOMBIE,
           toServer' = SubSeq(toServer, n + 1, Len(toServer)),
           IgnoreIllegible(toServer[n]), UNCHANGED <<sv, changes, clc, cgs>>
    PROVE  IInv' /\ OnlyNeeded /\ QueueStep
<1> DEFINE p == toServer[n]
           d == [Acknowledged(cl, p) EXCEPT !.reliableAcknowledge = cl.reliableSequence]
<1>1. /\ TypeInv /\ RingOK(cl) /\ cl \in ClientT /\ p \in Packets
      /\ p.serverId \in 0 .. MaxServerId /\ cl.reliableSequence \in Nat
      /\ p.reliableAcknowledge \in Nat
  BY VariableTypes, PacketTypes DEF IInv
<1>2. cl' = d /\ illegible' = TRUE /\ UNCHANGED <<outgoingSequence, toClient, deferred>>
  BY DEF IgnoreIllegible
<1> HIDE DEF p
<1>3. /\ d \in ClientT
      /\ d.state = cl.state /\ d.reliableSequence = cl.reliableSequence
      /\ d.reliableSent = cl.reliableSent /\ d.issued = cl.issued
      /\ d.gamestateMessageNum = cl.gamestateMessageNum
      /\ d.reliableCommands = cl.reliableCommands
      /\ d.reliableAcknowledge = cl.reliableSequence
  BY <1>1 DEF Acknowledged, ClientT
<1> HIDE DEF d
<1>4. RingOK(d)
  BY <1>1, <1>3, ServerCommandsAssumption DEF RingOK, Issued
<1>5. Keeps(cl, d)
  BY <1>1, <1>3 DEF Keeps
<1> QED
  BY <1>2, <1>3, <1>4, <1>5, ArrivedOK

LEMMA CurrentGameStateOK ==
    ASSUME IInv, NEW n \in 1 .. Len(toServer), cl.state # CS_ZOMBIE,
           toServer' = SubSeq(toServer, n + 1, Len(toServer)),
           CurrentGameState(toServer[n]), UNCHANGED <<sv, changes, clc, cgs>>
    PROVE  IInv' /\ OnlyNeeded /\ QueueStep
<1> DEFINE p == toServer[n]
           d == Acknowledged(cl, p)
<1>1. TypeInv /\ RingOK(cl) /\ p \in Packets /\ sv.configstrings \in Strings
  BY VariableTypes, PacketTypes DEF IInv
<1>2. /\ Legible(cl, p)
      /\ cl' \in {SV_ClientEnterWorld(d), d}
      /\ UNCHANGED <<outgoingSequence, toClient, history>>
  BY DEF CurrentGameState
<1> HIDE DEF p
<1>3. /\ d \in ClientT /\ RingOK(d) /\ d.state = cl.state
      /\ d.reliableSequence = cl.reliableSequence
      /\ d.reliableSent = cl.reliableSent /\ d.issued = cl.issued
      /\ d.gamestateMessageNum = cl.gamestateMessageNum
      /\ d.reliableAcknowledge = p.reliableAcknowledge
      /\ Keeps(cl, d)
  BY <1>1, <1>2, AcknowledgedFields
<1> HIDE DEF d
<1>4. /\ cl' \in ClientT /\ RingOK(cl') /\ Keeps(cl, cl')
      /\ cl'.reliableAcknowledge = p.reliableAcknowledge
  <2>1. CASE cl' = d
    BY <1>3, <2>1
  <2>2. CASE cl' = SV_ClientEnterWorld(d)
    <3> DEFINE e == [d EXCEPT !.state = CS_ACTIVE]
    <3>1. cl' \in ClientT /\ RingOK(cl') /\ Evolves(e, cl')
      BY <1>1, <1>3, <2>2, EnterWorldOK
    <3>2. /\ e.reliableSequence = cl.reliableSequence /\ e.reliableSent = cl.reliableSent
          /\ e.gamestateMessageNum = cl.gamestateMessageNum /\ e.issued = cl.issued
          /\ e.reliableAcknowledge = p.reliableAcknowledge
      BY <1>3 DEF ClientT
    <3> HIDE DEF e
    <3>3. Keeps(cl, cl')
      BY <3>1, <3>2, EvolvesKeeps, KeepsOn
    <3> QED
      BY <3>1, <3>2, <3>3 DEF Evolves
  <2> QED
    BY <1>2, <2>1, <2>2
<1>5. illegible' = illegible /\ deferred' = deferred /\ illegible \in BOOLEAN
  BY <1>1, <1>2 DEF history, TypeInv
<1> QED
  BY <1>2, <1>4, <1>5, ArrivedOK DEF p

LEMMA OtherGameStateOK ==
    ASSUME IInv, NEW n \in 1 .. Len(toServer), cl.state # CS_ZOMBIE,
           toServer' = SubSeq(toServer, n + 1, Len(toServer)),
           OtherGameState(toServer[n]), UNCHANGED <<sv, changes, clc, cgs>>
    PROVE  /\ IInv' /\ OnlyNeeded
           /\ \/ QueueStep /\ cl' = Acknowledged(cl, toServer[n])
              \/ \E m : SendStep(m) /\ Made(m)
<1> DEFINE p == toServer[n]
           d == Acknowledged(cl, p)
<1>1. /\ TypeInv /\ RingOK(cl) /\ p \in Packets /\ toServer \in Seq(Packets)
      /\ deferred \in BOOLEAN /\ illegible \in BOOLEAN
      /\ cl.reliableSequence \in Nat /\ outgoingSequence \in Nat
      /\ ClientInv => p.reliableAcknowledge <= clc.serverCommandSequence
  BY VariableTypes, PacketTypes DEF IInv, TypeInv, ClientInv, PacketsInv
<1>2. /\ Legible(cl, p) /\ illegible' = illegible
      /\ \/ /\ p.serverId # sv.serverId
            /\ p.messageAcknowledge > cl.gamestateMessageNum
            /\ SV_SendClientGameState(d)
         \/ cl' = d /\ UNCHANGED <<outgoingSequence, toClient, deferred>>
  BY DEF OtherGameState
<1> HIDE DEF p
<1>3. /\ d \in ClientT /\ RingOK(d) /\ d.state = cl.state
      /\ d.reliableSequence = cl.reliableSequence
      /\ d.reliableSent = cl.reliableSent /\ d.issued = cl.issued
      /\ d.gamestateMessageNum = cl.gamestateMessageNum
      /\ d.reliableAcknowledge = p.reliableAcknowledge
      /\ d.csUpdated = cl.csUpdated /\ d.serverIdAcknowledge = p.serverId
      /\ Keeps(cl, d)
  BY <1>1, <1>2, AcknowledgedFields
<1> HIDE DEF d
<1>4. CASE cl' = d /\ UNCHANGED <<outgoingSequence, toClient, deferred>>
  <2>1. IInv' /\ OnlyNeeded /\ QueueStep
    BY <1>1, <1>2, <1>3, <1>4, ArrivedOK DEF p
  <2> QED
    BY <1>4, <2>1 DEF d, p
<1>5. CASE /\ p.serverId # sv.serverId
           /\ p.messageAcknowledge > cl.gamestateMessageNum
           /\ SV_SendClientGameState(d)
  <2> DEFINE m == ServerMessage(Primed(d), "gamestate", SV_UpdateServerCommandsToClient(d))
  <2>1. /\ Primed(d) \in ClientT
        /\ Primed(d).state = CS_PRIMED
        /\ Primed(d).reliableSequence = cl.reliableSequence
        /\ Primed(d).reliableSent = cl.reliableSequence
        /\ Primed(d).reliableAcknowledge = d.reliableAcknowledge
        /\ Primed(d).reliableCommands = d.reliableCommands
        /\ Primed(d).issued = cl.issued
        /\ Primed(d).gamestateMessageNum = outgoingSequence
        /\ Primed(d).csUpdated = cl.csUpdated
        /\ Primed(d).serverIdAcknowledge = p.serverId
    BY <1>1, <1>3 DEF Primed, ClientT, States
  <2>2. RingOK(Primed(d))
    <3>1. Primed(d).state # CS_ZOMBIE /\ d.state # CS_ZOMBIE
      BY <1>3, <2>1 DEF CS_PRIMED, CS_ZOMBIE
    <3> QED
      BY <1>3, <2>1, <3>1, SameQueue
  <2>3. /\ m \in Messages /\ m.body = "gamestate"
        /\ m.commands = SV_UpdateServerCommandsToClient(d)
        /\ m.sequence = outgoingSequence /\ m.serverId = sv.serverId
        /\ m.reliableSequence = cl.reliableSequence /\ m.state = CS_PRIMED
        /\ m.configstrings = sv.configstrings
    BY <1>1, <1>3, <2>1, UpdateIsRun, ServerMessageTypes
  <2>4. cl' = Primed(d) /\ SV_SendMessageToClient(d, m)
    BY <1>5 DEF SV_SendClientGameState
  <2> HIDE DEF m
  <2>5. /\ outgoingSequence' = outgoingSequence + 1
        /\ outgoingSequence' \in 1 .. MaxMessages + 1
        /\ toClient' = Sent(toClient, m)
        /\ deferred' = (deferred \/ (m.body # "nop" /\ LeavesOut(d, m)))
    BY <1>1, <2>4, NextSequence DEF SV_SendMessageToClient
  <2>6. Filled(m)
    BY <1>1, <1>3, <2>3, <2>5, FilledFull
  <2>7. After(toServer', toServer, n, Packets)
    <3>1. After(SubSeq(toServer, n + 1, Len(toServer)), toServer, n, Packets)
      BY <1>1, Received
    <3> QED
      BY <3>1
  <2>8. toServer' \in Seq(Packets) /\ Fewer(toServer', toServer)
    BY <2>7 DEF After, Fewer
  <2>9. deferred' \in BOOLEAN /\ (deferred => deferred')
    BY <1>1, <2>5
  <2>10. Live(m) /\ cl'.state # CS_ZOMBIE
    BY <2>1, <2>3, <2>4 DEF Live, CS_PRIMED, CS_ZOMBIE
  <2>11. SendStep(m)
    <3>1. /\ cl' \in ClientT /\ RingOK(cl')
          /\ cl'.reliableSequence = cl.reliableSequence
          /\ cl'.issued = cl.issued
          /\ cl'.reliableSent = cl.reliableSequence
          /\ cl'.gamestateMessageNum = outgoingSequence
          /\ ClientInv => cl'.reliableAcknowledge <= clc.serverCommandSequence
      BY <1>1, <1>3, <2>1, <2>2, <2>4
    <3> QED
      BY <1>2, <2>3, <2>5, <2>6, <2>8, <2>9, <2>10, <3>1 DEF SendStep
  <2>12. clc.serverId # sv.serverId
    <3>1. ~(p.messageAcknowledge <= cl.gamestateMessageNum)
      <4>1. p.messageAcknowledge \in Nat /\ cl.gamestateMessageNum \in Int
        BY <1>1, VariableTypes, PacketTypes DEF p
      <4> QED
        BY <1>5, <4>1
    <3> QED
      BY <1>5, <3>1 DEF IInv, GamestateInv, p
  <2>13. ASSUME NEW i \in 1 .. Len(toClient), toClient[i].body = "gamestate",
                toClient[i].serverId = sv.serverId
         PROVE  FALSE
    <3>1. /\ toClient[i].sequence <= cl.gamestateMessageNum
          /\ clc.serverMessageSequence < toClient[i].sequence
          /\ p.messageAcknowledge <= clc.serverMessageSequence
      BY <2>13 DEF IInv, GamestateInv, SequenceInv, p
    <3>2. /\ toClient[i].sequence \in Nat /\ clc.serverMessageSequence \in Nat
          /\ p.messageAcknowledge \in Nat /\ cl.gamestateMessageNum \in Int
      BY <1>1, VariableTypes, MessageTypes, PacketTypes DEF p
    <3> QED
      BY <1>5, <3>1, <3>2
  <2>14. Made(m)
    <3>1. cl'.csUpdated = cl.csUpdated /\ cl'.state = CS_PRIMED
          /\ cl'.serverIdAcknowledge = toServer[n].serverId
          /\ toServer[n].serverId # sv.serverId
      BY <1>5, <2>1, <2>4 DEF p
    <3> QED
      BY <2>3, <2>12, <2>13, <3>1 DEF Made, Ahead
  <2> QED
    BY <2>11, <2>12, <2>14, SendStepOK DEF OnlyNeeded
<1> QED
  BY <1>2, <1>4, <1>5

LEMMA ExecuteClientMessageOK ==
    ASSUME IInv, NEW n \in 1 .. Len(toServer), SV_ExecuteClientMessage(n)
    PROVE  IInv' /\ OnlyNeeded
<1>1. /\ toServer' = SubSeq(toServer, n + 1, Len(toServer))
      /\ UNCHANGED <<sv, changes, clc, cgs>>
      /\ TypeInv /\ RingOK(cl) /\ cl \in ClientT /\ illegible \in BOOLEAN
  BY DEF SV_ExecuteClientMessage, IInv, TypeInv
<1>2. CASE cl.state = CS_ZOMBIE /\ UNCHANGED <<cl, outgoingSequence, toClient, history>>
  <2>1. Keeps(cl, cl')
    BY <1>2 DEF Keeps
  <2> QED
    BY <1>1, <1>2, <2>1, ArrivedOK DEF history
<1>3. CASE /\ cl.state # CS_ZOMBIE
           /\ \/ IgnoreIllegible(toServer[n])
              \/ OtherGameState(toServer[n])
              \/ CurrentGameState(toServer[n])
  BY <1>1, <1>3, IgnoreIllegibleOK, OtherGameStateOK, CurrentGameStateOK
<1> QED
  BY <1>2, <1>3 DEF SV_ExecuteClientMessage

-----------------------------------------------------------------------------
(* The invariant.                                                          *)

LEMMA InitOK == Init => IInv
<1> SUFFICES ASSUME Init PROVE IInv
  OBVIOUS
<1> USE DEF Init
<1>1. 0 \in Value /\ 0 \in 0 .. MaxServerId /\ 1 \in 1 .. MaxServerId
      /\ 1 \in 1 .. MaxMessages + 1
  BY ServerCommandsAssumption DEF Value
<1>2. [k \in ConfigString |-> 0] \in Strings
      /\ [k \in ConfigString |-> 0] \in [ConfigString -> Value \cup {-1}]
  BY <1>1 DEF Strings
<1>3. cl \in ClientT
  BY <1>1, CommandTypes DEF ClientT, States
<1>4. clc \in ClientConnection
  BY <1>1, CommandTypes DEF ClientConnection
<1>5. cgs \in CGame
  BY <1>2 DEF CGame, NoSnapshot
<1>6. TypeInv
  <2>1. sv \in [serverId : 1 .. MaxServerId, configstrings : Strings]
    BY <1>1, <1>2
  <2>2. /\ <<>> \in Seq(Messages) /\ <<>> \in Seq(Packets)
    OBVIOUS
  <2>3. /\ outgoingSequence = 1 /\ changes = 0 /\ toClient = <<>> /\ toServer = <<>>
        /\ illegible = FALSE /\ deferred = FALSE
    OBVIOUS
  <2> QED
    BY ONLY <1>1, <1>3, <1>4, <1>5, <2>1, <2>2, <2>3 DEF TypeInv
<1>7. Slot(0) \in Ring
  BY SlotInRing
<1>8. RingOK(cl)
  <2>1. \A i \in 0 .. 0 : i = 0 /\ cl.reliableCommands[Slot(i)] = NoCommand
    BY <1>7 DEF EmptyRing
  <2>2. \A i \in 0 .. 0 : Issued(cl, i) = NoCommand
    BY DEF Issued
  <2> QED
    BY <2>1, <2>2, ServerCommandsAssumption DEF RingOK, CS_ZOMBIE, CS_CONNECTED
<1>9. SequenceInv
  BY DEF SequenceInv
<1>10. GamestateInv
  BY DEF GamestateInv
<1>11. InFlightInv /\ SnapshotInv
  BY DEF InFlightInv, SnapshotInv, NoSnapshot
<1>12. ClientInv
  <2>1. clc.serverCommands[Slot(0)] = NoCommand /\ Issued(cl, 0) = NoCommand
    BY <1>7 DEF EmptyRing, Issued
  <2> QED
    BY <2>1 DEF ClientInv, MessagesInv, PacketsInv, HoldsInv, CGameInv
<1> QED
  BY <1>6, <1>8, <1>9, <1>10, <1>11, <1>12 DEF IInv

LEMMA StutterOK ==
    ASSUME IInv, UNCHANGED vars
    PROVE  IInv' /\ OnlyNeeded
<1>1. /\ cl' = cl /\ sv' = sv /\ outgoingSequence' = outgoingSequence /\ changes' = changes
      /\ toClient' = toClient /\ toServer' = toServer /\ clc' = clc /\ cgs' = cgs
      /\ illegible' = illegible /\ deferred' = deferred
  BY DEF vars, server, history
<1>2. TypeInv' /\ RingOK(cl)' /\ SequenceInv' /\ GamestateInv'
  BY <1>1 DEF IInv, TypeInv, RingOK, Issued, SequenceInv, GamestateInv
<1>3. ~illegible' => InFlightInv' /\ SnapshotInv'
  BY <1>1 DEF IInv, InFlightInv, SnapshotInv
<1>4. ~illegible' /\ cl'.state # CS_ZOMBIE => ClientInv'
  BY <1>1 DEF IInv, ClientInv, MessagesInv, PacketsInv, HoldsInv, CGameInv, Issued
<1>5. OnlyNeeded
  BY <1>1 DEF OnlyNeeded, GamestateSent
<1> QED
  BY <1>2, <1>3, <1>4, <1>5 DEF IInv

LEMMA SameClientNeeded ==
    ASSUME UNCHANGED server
    PROVE  OnlyNeeded
BY DEF server, OnlyNeeded, GamestateSent

LEMMA StepOK == IInv /\ [Next]_vars => IInv' /\ OnlyNeeded
<1> SUFFICES ASSUME IInv, [Next]_vars PROVE IInv' /\ OnlyNeeded
  OBVIOUS
<1>1. ASSUME NEW k \in ConfigString, SV_SetConfigstring(k) PROVE IInv' /\ OnlyNeeded
  BY <1>1, SetConfigstringOK
<1>2. ASSUME SV_SendServerCommand PROVE IInv' /\ OnlyNeeded
  BY <1>2, SendServerCommandOK
<1>3. ASSUME DropClient PROVE IInv' /\ OnlyNeeded
  BY <1>3, DropClientOK
<1>4. ASSUME SV_SpawnServer PROVE IInv' /\ OnlyNeeded
  BY <1>4, SpawnServerOK
<1>5. ASSUME SV_SendClientSnapshot PROVE IInv' /\ OnlyNeeded
  BY <1>5, SendSnapshotOK
<1>6. ASSUME NEW n \in 1 .. Len(toServer), SV_ExecuteClientMessage(n)
      PROVE  IInv' /\ OnlyNeeded
  BY <1>6, ExecuteClientMessageOK
<1>7. ASSUME NEW n \in 1 .. Len(toClient), CL_ParseServerMessage(n)
      PROVE  IInv' /\ OnlyNeeded
  BY <1>7, ParseOK, SameClientNeeded DEF CL_ParseServerMessage
<1>8. ASSUME NEW move \in BOOLEAN, CL_WritePacket(move) PROVE IInv' /\ OnlyNeeded
  BY <1>8, WriteOK, SameClientNeeded DEF CL_WritePacket
<1>9. ASSUME CG_ProcessSnapshots PROVE IInv' /\ OnlyNeeded
  BY <1>9, ProcessOK, SameClientNeeded DEF CG_ProcessSnapshots
<1> QED
  BY <1>1, <1>2, <1>3, <1>4, <1>5, <1>6, <1>7, <1>8, <1>9, StutterOK DEF Next

(***************************************************************************)
(* The invariant behind the theorems below, which holds in every behaviour *)
(* of ServerCommands.                                                      *)
(***************************************************************************)
THEOREM CommandsInvariant == Spec => []IInv
<1>1. IInv /\ [Next]_vars => IInv'
  BY StepOK
<1> QED
  BY <1>1, InitOK, PTL DEF Spec

(***************************************************************************)
(* Type correctness: the client_t, the sequences of messages and packets,  *)
(* clc and the cgame keep their types through every step, and the history  *)
(* of the commands issued has one for each number given out.               *)
(***************************************************************************)
THEOREM CommandsTypes == Spec => []TypeOK
<1>1. IInv => TypeOK
  <2> SUFFICES ASSUME IInv PROVE TypeOK
    OBVIOUS
  <2>1. TypeInv /\ RingOK(cl) /\ 0 \in Value
    BY ServerCommandsAssumption DEF IInv, Value
  <2>2. \A i \in 1 .. Len(toClient) :
          /\ toClient[i].body \in {"gamestate", "snapshot", "nop"}
          /\ \A j \in DOMAIN toClient[i].commands : toClient[i].commands[j] \in Commands
    <3> SUFFICES ASSUME NEW i \in 1 .. Len(toClient)
                 PROVE  /\ toClient[i].body \in {"gamestate", "snapshot", "nop"}
                        /\ \A j \in DOMAIN toClient[i].commands :
                              toClient[i].commands[j] \in Commands
      OBVIOUS
    <3>1. toClient[i] \in Messages /\ toClient[i].commands \in Runs
      BY <2>1, VariableTypes, MessageTypes
    <3>2. PICK a \in Nat, b \in Nat : toClient[i].commands \in [a + 1 .. b -> Commands]
      BY <3>1 DEF Runs
    <3> QED
      BY <3>1, <3>2 DEF Messages
  <2>3. \A i \in 1 .. Len(toServer) : toServer[i].key \in Commands
    BY <2>1, VariableTypes, PacketTypes
  <2>4. /\ cl \in ClientT /\ Len(cl.issued) = cl.reliableSequence
        /\ clc \in ClientConnection /\ cgs \in CGame
        /\ {illegible, deferred} \subseteq BOOLEAN
    BY <2>1 DEF TypeInv, RingOK
  <2> QED
    BY <2>1, <2>2, <2>3, <2>4 DEF TypeOK, TypeInv, ClientT, States, ClientConnection, CGame
<1> QED
  BY <1>1, CommandsInvariant, PTL

(***************************************************************************)
(* SV_AddServerCommand reuses a slot of the ring only when its command was *)
(* acknowledged or the client dropped, whatever was replaced while it was  *)
(* pending and whatever the client acknowledges.                           *)
(***************************************************************************)
THEOREM RingIntact == Spec => []RingHoldsUnacknowledged
<1>1. IInv => RingHoldsUnacknowledged
  <2> SUFFICES ASSUME IInv, NEW i \in cl.reliableAcknowledge + 1 .. cl.reliableSequence
               PROVE  cl.reliableCommands[Slot(i)] = cl.issued[i]
    BY DEF RingHoldsUnacknowledged
  <2>1. RingOK(cl) /\ cl.reliableAcknowledge \in Nat /\ cl.reliableSequence \in Nat
    BY VariableTypes DEF IInv
  <2>2. i \in 0 .. cl.reliableSequence /\ i # 0
        /\ cl.reliableSequence - i < MAX_RELIABLE_COMMANDS
    BY <2>1, ServerCommandsAssumption DEF RingOK
  <2> QED
    BY <2>1, <2>2 DEF RingOK, Issued
<1> QED
  BY <1>1, CommandsInvariant, PTL

(***************************************************************************)
(* The cgame executes exactly the commands the server issued after the     *)
(* gamestate, each once and in order, through every loss, resending and    *)
(* replacement, also when messages leave out commands.                     *)
(***************************************************************************)
THEOREM CommandsExecuted == Spec => []ExecutedAsIssued
<1>1. IInv => ExecutedAsIssued
  BY DEF IInv, ClientInv, CGameInv, ExecutedAsIssued
<1> QED
  BY <1>1, CommandsInvariant, PTL

LEMMA KeysInvariant == IInv /\ ~deferred => KeysAgree
<1> SUFFICES ASSUME IInv, ~deferred, cl.state # CS_ZOMBIE, ~illegible,
                    NEW n \in 1 .. Len(toServer), Legible(cl, toServer[n])
             PROVE  cl.reliableCommands[Slot(toServer[n].reliableAcknowledge)]
                       = toServer[n].key
  BY DEF KeysAgree
<1> DEFINE a == toServer[n].reliableAcknowledge
<1>1. a \in Nat /\ cl.reliableSequence \in Nat /\ RingOK(cl)
  BY VariableTypes, PacketTypes DEF IInv
<1>2. toServer[n].key = Issued(cl, a)
  BY DEF IInv, ClientInv, PacketsInv
<1>3. cl.reliableSequence - a \in 0 .. MAX_RELIABLE_COMMANDS - 1
  BY DEF Legible
<1> HIDE DEF a
<1>4. a \in 0 .. cl.reliableSequence /\ cl.reliableSequence - a < MAX_RELIABLE_COMMANDS
  BY <1>1, <1>3, ServerCommandsAssumption
<1>5. cl.reliableCommands[Slot(a)] = Issued(cl, a)
  BY <1>1, <1>4 DEF RingOK
<1> QED
  BY <1>2, <1>5 DEF a

LEMMA GuaranteeInvariant == IInv /\ ~deferred => SnapshotGuarantee
BY DEF IInv, SnapshotInv, Guaranteed, SnapshotGuarantee, Showing, CS_ACTIVE, CS_ZOMBIE

(***************************************************************************)
(* Until a message leaves out commands, SV_Netchan_Decode decodes every    *)
(* packet the server is going to read with the command CL_Netchan_Encode   *)
(* used as the key.                                                        *)
(***************************************************************************)
THEOREM ServerKeys == Spec => [](~deferred => KeysAgree)
BY CommandsInvariant, KeysInvariant, PTL

(***************************************************************************)
(* Until a message leaves out commands, no snapshot of a client in the     *)
(* world is shown before the commands added before it were executed.       *)
(***************************************************************************)
THEOREM CommandsBeforeSnapshot == Spec => [](~deferred => SnapshotGuarantee)
BY CommandsInvariant, GuaranteeInvariant, PTL

LEMMA FewInvariant == IInv => SnapshotOvertakesFew
BY DEF IInv, SnapshotInv, Near, SnapshotOvertakesFew, Showing, CS_ACTIVE, CS_ZOMBIE

(***************************************************************************)
(* When SV_UpdateServerCommandsToClient leaves out commands, a snapshot    *)
(* shown is ahead of no more than those that do not fit in half a message  *)
(* with the rest of a full ring, in every behaviour.                       *)
(***************************************************************************)
THEOREM SnapshotsOvertakeFew == Spec => []SnapshotOvertakesFew
BY CommandsInvariant, FewInvariant, PTL

(***************************************************************************)
(* SV_ExecuteClientMessage sends no gamestate to a client that parsed the  *)
(* current one, whatever packets of another map it still gets from it.     *)
(***************************************************************************)
THEOREM GamestatesNeeded == Spec => NoNeedlessGamestate
<1>1. IInv /\ [Next]_vars => [GamestateSent => clc.serverId # sv.serverId]_vars
  BY StepOK DEF OnlyNeeded
<1> QED
  BY <1>1, CommandsInvariant, PTL DEF Spec, NoNeedlessGamestate

-----------------------------------------------------------------------------
(* Configstrings.  IInv says which commands the client executes; here is   *)
(* what they make of its configstrings.  The commands that lead from those *)
(* of the cgame to those of a snapshot were all issued before the snapshot *)
(* was made, and may have been cut off since by a drop: h stands for them. *)

\* Executing cmd gives configstring k its value.
Gives(cmd, k) == cmd.op \in {"cs", "bcs2"} /\ cmd.index = k

\* The commands of h after number a up to b turn the value u of configstring k
\* into v.
Leads(h, k, u, a, v, b) ==
    \/ v = u /\ \A i \in a + 1 .. b : ~Gives(h[i], k)
    \/ \E i \in a + 1 .. b :
         /\ Gives(h[i], k) /\ h[i].value = v
         /\ \A j \in i + 1 .. b : ~Gives(h[j], k)

\* All of them: configstrings f into g.
Turns(h, f, a, g, b) == \A k \in ConfigString : Leads(h, k, f[k], a, g[k], b)

\* A long string is never interrupted: its first piece comes right before the
\* last.
Pieces(h) ==
    \A i \in 1 .. Len(h) :
        /\ h[i].op = "bcs0" => LongString # {}
        /\ h[i].op = "bcs2" =>
             i > 1 /\ h[i - 1] = Command("bcs0", h[i].index, h[i].value)

\* Number n does not end within a long string.
Ends(h, n) == n > 0 => h[n].op # "bcs0"

\* What may still be replaced, there is one of for each configstring.
OnePending(c) ==
    MOHTA => \A i, j \in c.reliableSent + 1 .. c.reliableSequence :
        /\ c.issued[i].op = "cs" /\ c.issued[j].op = "cs"
        /\ c.issued[i].index = c.issued[j].index
        => i = j

\* The client gets configstring k when it enters the world.
Due(c, k) == c.state = CS_PRIMED /\ c.csUpdated[k]

\* From f on, the commands issued after number n give the client the strings
\* of the server, but for those it still gets.
Current(c, strings, f, n) ==
    \A k \in ConfigString :
        Due(c, k) \/ Leads(c.issued, k, f[k], n, strings[k], c.reliableSequence)

\* A client that has the current gamestate, or whose packets say so, is sent no
\* other; nothing of the map comes before it; and a client that was not sent it
\* knows an older one.
MapInv ==
    /\ cl.serverIdAcknowledge <= sv.serverId
    /\ cl.serverIdAcknowledge = sv.serverId => clc.serverId = sv.serverId
    /\ \A n \in 1 .. Len(toServer) :
          toServer[n].serverId = sv.serverId => clc.serverId = sv.serverId
    /\ clc.serverId = sv.serverId =>
          \A n \in 1 .. Len(toClient) : toClient[n].body # "gamestate"
    /\ \A n \in 1 .. Len(toClient) :
          toClient[n].body = "gamestate" =>
              /\ Live(toClient[n])
              /\ \A i \in n + 1 .. Len(toClient) :
                    /\ toClient[i].body # "snapshot"
                    /\ toClient[i].body = "gamestate" =>
                          toClient[n].serverId < toClient[i].serverId
    /\ cl.state = CS_CONNECTED =>
          /\ clc.serverId < sv.serverId
          /\ \A n \in 1 .. Len(toClient) :
                toClient[n].body = "gamestate" => toClient[n].serverId < sv.serverId

\* The queue of the server.
QueueInv(c) ==
    /\ Pieces(c.issued)
    /\ Ends(c.issued, c.reliableSequence)
    /\ OnePending(c)

\* The server will make the configstrings of the client those of its own.
ServerInv ==
    /\ QueueInv(cl)
    /\ clc.serverId = sv.serverId =>
         Current(cl, sv.configstrings, cgs.configstrings, cgs.serverCommandSequence)
    /\ \A n \in 1 .. Len(toClient) :
         toClient[n].body = "gamestate" /\ toClient[n].serverId = sv.serverId =>
             Current(cl, sv.configstrings, toClient[n].configstrings,
                     toClient[n].reliableSequence)
    /\ \A n \in 1 .. Len(clc.snapshots) :
         clc.snapshots[n].reliableSequence <= cl.reliableSent

\* Messages in flight, made before a drop, of which h was issued: what their
\* commands and snapshots say.
FlightInv(h, latest) ==
    \A n \in 1 .. Len(toClient) :
        LET m == toClient[n] IN
        Live(m) =>
            /\ clc.serverCommandSequence = latest
            /\ m.reliableSequence <= Len(h)
            /\ m.body # "nop" => Ends(h, m.reliableSequence)
            /\ \A i \in DOMAIN m.commands : m.commands[i] = h[i]
            /\ m.body = "snapshot" /\ m.state = CS_ACTIVE =>
                 Turns(h, cgs.configstrings, cgs.serverCommandSequence,
                       m.configstrings, m.reliableSequence)

\* The snapshots received, in order, those of a dropped client last.
ListInv(h, latest) ==
    \A n \in 1 .. Len(clc.snapshots) :
        LET s == clc.snapshots[n] IN
        /\ Live(s) =>
             /\ \A m \in 1 .. n :
                  /\ Live(clc.snapshots[m])
                  /\ clc.snapshots[m].serverCommandNum <= s.serverCommandNum
             /\ cgs.serverCommandSequence <= s.serverCommandNum
             /\ s.serverCommandNum <= latest
             /\ s.serverCommandNum <= s.reliableSequence
             /\ s.reliableSequence <= Len(h)
             /\ Ends(h, s.serverCommandNum)
             /\ s.state = CS_ACTIVE =>
                  Turns(h, cgs.configstrings, cgs.serverCommandSequence,
                        s.configstrings, s.reliableSequence)
        /\ ~Live(s) =>
             /\ cl.state = CS_ZOMBIE
             /\ \A m \in 1 .. Len(toClient) : ~Live(toClient[m])

\* A snapshot from before the drop may still be shown.
Waits == \/ cl.state # CS_ZOMBIE
         \/ \E n \in 1 .. Len(toClient) : Live(toClient[n])
         \/ \E n \in 1 .. Len(clc.snapshots) : Live(clc.snapshots[n])

\* h was issued until the client was dropped, and the client has it up to
\* latest: what is in flight, received and executed agrees with it.
Story(h, latest) ==
    /\ latest <= clc.serverCommandSequence
    /\ Pieces(h)
    /\ FlightInv(h, latest)
    /\ ListInv(h, latest)
    /\ Waits =>
         /\ cgs.serverCommandSequence <= latest
         /\ Ends(h, cgs.serverCommandSequence)
         /\ \A i \in cgs.serverCommandSequence + 1 .. latest :
               clc.serverCommandSequence - i < MAX_RELIABLE_COMMANDS =>
                   clc.serverCommands[Slot(i)] = h[i]
    /\ cl.state # CS_ZOMBIE => h = cl.issued /\ latest = clc.serverCommandSequence

-----------------------------------------------------------------------------
(* Runs of commands and the configstrings they set.                        *)

LEMMA LeadsLocal ==
    ASSUME NEW h, NEW g, NEW k, NEW u, NEW v, NEW a \in Nat, NEW b \in Nat,
           \A i \in a + 1 .. b : g[i] = h[i], Leads(h, k, u, a, v, b)
    PROVE  Leads(g, k, u, a, v, b)
<1>1. \A i \in a + 1 .. b : \A j \in i + 1 .. b : j \in a + 1 .. b
  OBVIOUS
<1> QED
  BY <1>1 DEF Leads, Gives

\* One more command.
LEMMA LeadsOn ==
    ASSUME NEW h, NEW k, NEW u, NEW v, NEW a \in Nat, NEW b \in Nat, a <= b,
           Leads(h, k, u, a, v, b), ~Gives(h[b + 1], k)
    PROVE  Leads(h, k, u, a, v, b + 1)
<1>1. CASE v = u /\ \A i \in a + 1 .. b : ~Gives(h[i], k)
  <2>1. \A i \in a + 1 .. b + 1 : i \in a + 1 .. b \/ i = b + 1
    OBVIOUS
  <2> QED
    BY <1>1, <2>1 DEF Leads
<1>2. ASSUME NEW i \in a + 1 .. b, Gives(h[i], k), h[i].value = v,
             \A j \in i + 1 .. b : ~Gives(h[j], k)
      PROVE  Leads(h, k, u, a, v, b + 1)
  <2>1. i \in a + 1 .. b + 1 /\ \A j \in i + 1 .. b + 1 : j \in i + 1 .. b \/ j = b + 1
    OBVIOUS
  <2> QED
    BY <1>2, <2>1 DEF Leads
<1> QED
  BY <1>1, <1>2 DEF Leads

LEMMA LeadsTo ==
    ASSUME NEW h, NEW k, NEW u, NEW a \in Nat, NEW b \in Nat, a < b, Gives(h[b], k)
    PROVE  Leads(h, k, u, a, h[b].value, b)
<1>1. b \in a + 1 .. b /\ \A j \in b + 1 .. b : FALSE
  OBVIOUS
<1> QED
  BY <1>1 DEF Leads

\* What remains to be done after the commands up to c.
LEMMA LeadsRest ==
    ASSUME NEW h, NEW k, NEW u, NEW v, NEW w, NEW a \in Nat, NEW b \in Nat, NEW c \in Nat,
           a <= c, c <= b, Leads(h, k, u, a, v, b), Leads(h, k, u, a, w, c)
    PROVE  Leads(h, k, w, c, v, b)
<1>1. ASSUME NEW i \in c + 1 .. b, Gives(h[i], k)
      PROVE  Leads(h, k, w, c, v, b)
  <2>1. i \in a + 1 .. b
    OBVIOUS
  <2>2. PICK j \in a + 1 .. b :
          Gives(h[j], k) /\ h[j].value = v /\ \A l \in j + 1 .. b : ~Gives(h[l], k)
    BY <1>1, <2>1 DEF Leads
  <2>3. ~(i \in j + 1 .. b)
    BY <1>1, <2>2
  <2>4. j \in c + 1 .. b
    BY <2>1, <2>3
  <2> QED
    BY <2>2, <2>4 DEF Leads
<1>2. CASE \A i \in c + 1 .. b : ~Gives(h[i], k)
  <2>1. CASE v = u /\ \A i \in a + 1 .. b : ~Gives(h[i], k)
    <3>1. \A i \in a + 1 .. c : i \in a + 1 .. b
      OBVIOUS
    <3>2. w = u
      BY <2>1, <3>1 DEF Leads
    <3> QED
      BY <1>2, <2>1, <3>2 DEF Leads
  <2>2. ASSUME NEW i \in a + 1 .. b, Gives(h[i], k), h[i].value = v,
               \A j \in i + 1 .. b : ~Gives(h[j], k)
        PROVE  Leads(h, k, w, c, v, b)
    <3>1. i \in a + 1 .. c
      <4>1. i \notin c + 1 .. b
        BY <1>2, <2>2
      <4> QED
        BY <4>1
    <3>2. PICK j \in a + 1 .. c :
            Gives(h[j], k) /\ h[j].value = w /\ \A l \in j + 1 .. c : ~Gives(h[l], k)
      BY <2>2, <3>1 DEF Leads
    <3>3. ~(i \in j + 1 .. c) /\ ~(j \in i + 1 .. b)
      BY <2>2, <3>2
    <3>4. i = j
      BY <3>1, <3>3
    <3> QED
      BY <1>2, <2>2, <3>2, <3>4 DEF Leads
  <2> QED
    BY <2>1, <2>2 DEF Leads
<1> QED
  BY <1>1, <1>2

LEMMA LeadsSame ==
    ASSUME NEW h, NEW k, NEW u, NEW v, NEW w, NEW a \in Nat, NEW b \in Nat, a <= b,
           Leads(h, k, u, a, v, b), Leads(h, k, u, a, w, b)
    PROVE  v = w
<1>1. Leads(h, k, w, b, v, b)
  BY LeadsRest
<1>2. \A i \in b + 1 .. b : FALSE
  OBVIOUS
<1> QED
  BY <1>1, <1>2 DEF Leads

\* Nothing comes between a and a.
LEMMA LeadsNowhere ==
    ASSUME NEW h, NEW k, NEW u, NEW a \in Nat
    PROVE  Leads(h, k, u, a, u, a)
<1>1. \A i \in a + 1 .. a : FALSE
  OBVIOUS
<1> QED
  BY <1>1 DEF Leads

LEMMA TurnsLocal ==
    ASSUME NEW h, NEW g, NEW f, NEW e, NEW a \in Nat, NEW b \in Nat,
           \A i \in a + 1 .. b : g[i] = h[i], Turns(h, f, a, e, b)
    PROVE  Turns(g, f, a, e, b)
BY LeadsLocal DEF Turns

\* Commands gone through again leave the same.
LEMMA LeadsAgain ==
    ASSUME NEW h, NEW k, NEW u, NEW v, NEW w, NEW a \in Nat, NEW b \in Nat,
           Leads(h, k, u, a, v, b), Leads(h, k, v, a, w, b)
    PROVE  Leads(h, k, u, a, w, b)
BY DEF Leads

-----------------------------------------------------------------------------
(* What executing commands makes of the configstrings.                     *)

\* One command sets the configstring it gives, if the last piece of a long one
\* comes after its first.
LEMMA ExecuteSets ==
    ASSUME NEW g \in CGame, NEW cmd \in Commands,
           cmd.op = "bcs2" => g.bigConfigString = <<Command("bcs0", cmd.index, cmd.value)>>
    PROVE  /\ cmd.op = "bcs0" => Execute(g, cmd).bigConfigString = <<cmd>>
           /\ \A k \in ConfigString : Execute(g, cmd).configstrings[k] =
                 IF Gives(cmd, k) THEN cmd.value ELSE g.configstrings[k]
<1> DEFINE big == BigConfigString(g, cmd)
           set == IF cmd.op = "cs" THEN cmd.index
                  ELSE IF cmd.op = "bcs2" THEN Head(big).index ELSE NoIndex
           v   == IF cmd.op = "bcs2" THEN Whole(big) ELSE cmd.value
           strings == [k \in ConfigString |-> IF k = set THEN v ELSE g.configstrings[k]]
<1>1. /\ Execute(g, cmd).bigConfigString = big
      /\ Execute(g, cmd).configstrings = strings
  BY DEF Execute, CGame
<1>2. cmd.op = "bcs0" => big = <<cmd>>
  BY DEF BigConfigString
<1>3. ASSUME cmd.op = "bcs2"
      PROVE  Head(big).index = cmd.index /\ Whole(big) = cmd.value
  <2> DEFINE first == Command("bcs0", cmd.index, cmd.value)
  <2>1. cmd = Command("bcs2", cmd.index, cmd.value)
    BY <1>3 DEF Commands, Command
  <2>2. first.index = cmd.index /\ first.value = cmd.value
    BY DEF Command
  <2> HIDE DEF first
  <2>3. big = Append(<<first>>, cmd)
    BY <1>3 DEF BigConfigString, first
  <2>4. Append(<<first>>, cmd) = <<first, cmd>> /\ Head(<<first, cmd>>) = first
    <3>1. <<first>> \in Seq({first, cmd}) /\ cmd \in {first, cmd} /\ Len(<<first>>) = 1
      OBVIOUS
    <3>2. /\ Append(<<first>>, cmd) \in Seq({first, cmd})
          /\ Len(Append(<<first>>, cmd)) = 2
          /\ Append(<<first>>, cmd)[1] = first /\ Append(<<first>>, cmd)[2] = cmd
      BY <3>1, AppendProperties
    <3>3. /\ <<first, cmd>> \in Seq({first, cmd}) /\ Len(<<first, cmd>>) = 2
          /\ <<first, cmd>>[1] = first /\ <<first, cmd>>[2] = cmd
          /\ Head(<<first, cmd>>) = first
      OBVIOUS
    <3>4. \A i \in 1 .. 2 : i = 1 \/ i = 2
      OBVIOUS
    <3>5. \A i \in 1 .. 2 : Append(<<first>>, cmd)[i] = <<first, cmd>>[i]
      BY <3>2, <3>3, <3>4
    <3> QED
      BY <3>2, <3>3, <3>5, SeqEqual
  <2>5. Whole(<<first, cmd>>) = cmd.value
    BY <2>1, <2>2, <2>4 DEF Whole, first
  <2> QED
    BY <2>2, <2>3, <2>4, <2>5
<1>4. ASSUME NEW k \in ConfigString
      PROVE  strings[k] = IF Gives(cmd, k) THEN cmd.value ELSE g.configstrings[k]
  <2>1. k # NoIndex
    BY ServerCommandsAssumption DEF NoIndex
  <2>2. CASE cmd.op = "bcs2"
    BY <1>3, <2>2 DEF Gives
  <2>3. CASE cmd.op # "bcs2"
    BY <2>1, <2>3 DEF Gives
  <2> QED
    BY <2>2, <2>3
<1> HIDE DEF strings, big
<1> QED
  BY <1>1, <1>2, <1>4

\* e after the commands of h up to n, executed from g on.
Sets(h, g, e, n) ==
    /\ e \in CGame
    /\ Turns(h, g.configstrings, g.serverCommandSequence, e.configstrings, n)
    /\ n > g.serverCommandSequence /\ h[n].op = "bcs0" => e.bigConfigString = <<h[n]>>

LEMMA SetsOn ==
    ASSUME NEW h \in Seq(Commands), Pieces(h), NEW g \in CGame, NEW e, NEW n \in Nat,
           g.serverCommandSequence <= n, n < Len(h), Ends(h, g.serverCommandSequence),
           Sets(h, g, e, n)
    PROVE  Sets(h, g, Execute(e, h[n + 1]), n + 1)
<1> DEFINE cmd == h[n + 1]
           x == Execute(e, cmd)
<1>1. /\ n + 1 \in 1 .. Len(h) /\ cmd \in Commands
      /\ g.serverCommandSequence \in Nat
      /\ e \in CGame
  BY DEF CGame, Sets
<1>2. ASSUME cmd.op = "bcs2"
      PROVE  e.bigConfigString = <<Command("bcs0", cmd.index, cmd.value)>>
  <2>1. n + 1 > 1 /\ h[(n + 1) - 1] = Command("bcs0", cmd.index, cmd.value)
    BY <1>1, <1>2 DEF Pieces
  <2>2. (n + 1) - 1 = n /\ n > 0
    BY <2>1
  <2>3. h[n] = Command("bcs0", cmd.index, cmd.value) /\ h[n].op = "bcs0"
    BY <2>1, <2>2 DEF Command
  <2>4. n # g.serverCommandSequence
    BY <2>2, <2>3 DEF Ends
  <2>5. n > g.serverCommandSequence
    BY <1>1, <2>4
  <2> QED
    BY <2>3, <2>5 DEF Sets
<1> HIDE DEF cmd
<1>3. /\ x \in CGame
      /\ cmd.op = "bcs0" => x.bigConfigString = <<cmd>>
      /\ \A k \in ConfigString : x.configstrings[k] =
            IF Gives(cmd, k) THEN cmd.value ELSE e.configstrings[k]
  BY <1>1, <1>2, ExecuteSets, ExecuteType
<1> HIDE DEF x
<1>4. ASSUME NEW k \in ConfigString
      PROVE  Leads(h, k, g.configstrings[k], g.serverCommandSequence,
                   x.configstrings[k], n + 1)
  <2>1. Leads(h, k, g.configstrings[k], g.serverCommandSequence, e.configstrings[k], n)
    BY DEF Sets, Turns
  <2>2. CASE Gives(cmd, k)
    <3>1. g.serverCommandSequence < n + 1 /\ n + 1 \in Nat
      BY <1>1
    <3>2. Leads(h, k, g.configstrings[k], g.serverCommandSequence, h[n + 1].value, n + 1)
      BY <1>1, <2>2, <3>1, LeadsTo DEF cmd
    <3> QED
      BY <1>3, <2>2, <3>2 DEF cmd
  <2>3. CASE ~Gives(cmd, k)
    <3>1. ~Gives(h[n + 1], k)
      BY <2>3 DEF cmd
    <3> QED
      BY <1>1, <1>3, <2>1, <2>3, <3>1, LeadsOn
  <2> QED
    BY <2>2, <2>3
<1>5. Turns(h, g.configstrings, g.serverCommandSequence, x.configstrings, n + 1)
  BY <1>4 DEF Turns
<1> QED
  BY <1>3, <1>5 DEF Sets, x, cmd

\* The ring holds the commands of h up to number latest.
Held(h, g, latest) ==
    \A i \in g.serverCommandSequence + 1 .. latest : clc.serverCommands[Slot(i)] = h[i]

LEMMA ExecutedOnceSets ==
    ASSUME TypeInv, NEW h \in Seq(Commands), Pieces(h), NEW g \in CGame, NEW latest \in Nat,
           g.serverCommandSequence <= latest, latest <= Len(h),
           Ends(h, g.serverCommandSequence), Held(h, g, latest)
    PROVE  Sets(h, g, ExecutedOnce(g, latest), latest)
<1> DEFINE E(n) == ExecutedOnce(g, n)
           a == g.serverCommandSequence
           N == {n \in Nat : /\ n <= a => E(n) = g
                             /\ a <= n /\ n <= latest => Sets(h, g, E(n), n)}
<1>1. a \in Nat
  BY DEF CGame
<1>2. /\ E(0) = g
      /\ \A n \in Nat : E(n + 1) = IF n + 1 <= a THEN g
                                   ELSE Execute(E(n), clc.serverCommands[Slot(n + 1)])
  BY ExecutedOnceSteps
<1> HIDE DEF E
<1>3. Sets(h, g, g, a)
  <2>1. Turns(h, g.configstrings, a, g.configstrings, a)
    BY <1>1, LeadsNowhere DEF Turns
  <2> QED
    BY <1>1, <2>1 DEF Sets
<1>4. 0 \in N
  <2>1. a <= 0 => a = 0
    BY <1>1
  <2> QED
    BY <1>2, <1>3, <2>1
<1>5. ASSUME NEW n \in Nat, n \in N PROVE n + 1 \in N
  <2>1. CASE n + 1 <= a
    <3>1. E(n + 1) = g
      BY <1>2, <2>1
    <3>2. a <= n + 1 => a = n + 1
      BY <1>1, <2>1
    <3> QED
      BY <1>3, <3>1, <3>2
  <2>2. CASE ~(n + 1 <= a)
    <3>1. E(n + 1) = Execute(E(n), clc.serverCommands[Slot(n + 1)])
      BY <1>2, <2>2
    <3>2. ASSUME n + 1 <= latest PROVE Sets(h, g, E(n + 1), n + 1)
      <4>1. a <= n /\ n <= latest /\ n < Len(h) /\ n + 1 \in a + 1 .. latest
        BY <1>1, <2>2, <3>2
      <4>2. Sets(h, g, E(n), n)
        BY <1>5, <4>1
      <4>3. clc.serverCommands[Slot(n + 1)] = h[n + 1]
        BY <4>1 DEF Held
      <4> QED
        BY <3>1, <4>1, <4>2, <4>3, SetsOn
    <3> QED
      BY <2>2, <3>2
  <2> QED
    BY <2>1, <2>2
<1> HIDE DEF N
<1>6. latest \in N
  BY <1>4, <1>5, Induction
<1> QED
  BY <1>6 DEF N, E

\* Both passes together set what one would.
LEMMA ExecutedSets ==
    ASSUME TypeInv, NEW h \in Seq(Commands), Pieces(h), NEW g \in CGame, NEW latest \in Nat,
           g.serverCommandSequence <= latest, latest <= Len(h),
           Ends(h, g.serverCommandSequence), Held(h, g, latest)
    PROVE  Turns(h, g.configstrings, g.serverCommandSequence,
                 Executed(g, latest).configstrings, latest)
<1> DEFINE x == ExecutedOnce(g, latest)
           again == [x EXCEPT !.serverCommandSequence = g.serverCommandSequence,
                              !.executed = g.executed]
           e == ExecutedOnce(again, latest)
<1>1. Sets(h, g, x, latest)
  BY ExecutedOnceSets
<1>2. x \in CGame
  BY <1>1 DEF Sets
<1> HIDE DEF x
<1>3. /\ again \in CGame
      /\ again.serverCommandSequence = g.serverCommandSequence
      /\ again.configstrings = x.configstrings
  BY <1>2 DEF CGame
<1>4. Executed(g, latest) = e
  BY DEF Executed, x
<1> HIDE DEF again
<1>5. Held(h, again, latest)
  BY <1>3 DEF Held
<1>6. Sets(h, again, e, latest)
  BY <1>3, <1>5, ExecutedOnceSets
<1> HIDE DEF e
<1>7. g.serverCommandSequence \in Nat
  BY DEF CGame
<1> QED
  BY <1>1, <1>3, <1>4, <1>6, <1>7, LeadsAgain DEF Sets, Turns

-----------------------------------------------------------------------------
(* What adding to the queue makes of the configstrings to come.            *)

\* Long strings have no pending command that could be replaced.
Orderly == LongString = {} \/ ~MOHTA

\* The queue of a client that was not dropped.
Queue(c) ==
    /\ c \in ClientT /\ RingOK(c) /\ c.state # CS_ZOMBIE
    /\ c.reliableAcknowledge <= c.reliableSent
    /\ c.reliableSent <= c.reliableSequence

LEMMA QueueTypes ==
    ASSUME NEW c, Queue(c)
    PROVE  /\ c \in ClientT /\ Len(c.issued) = c.reliableSequence
           /\ c.reliableSequence \in Nat /\ c.reliableSent \in Nat
           /\ c.reliableAcknowledge \in Nat /\ c.issued \in Seq(Commands)
           /\ c.reliableSent <= c.reliableSequence
           /\ \A i \in 1 .. c.reliableSequence : c.issued[i] \in Commands
<1>1. /\ c \in ClientT /\ Len(c.issued) = c.reliableSequence
      /\ c.reliableSequence \in Nat /\ c.reliableSent \in Nat
      /\ c.reliableAcknowledge \in Nat /\ c.issued \in Seq(Commands)
      /\ c.reliableSent <= c.reliableSequence
  BY DEF Queue, RingOK, ClientT
<1> QED
  BY <1>1, ElementOfSeq

\* The commands not sent yet are in the ring.
LEMMA UnsentHeld ==
    ASSUME NEW c, Queue(c), NEW i \in c.reliableSent + 1 .. c.reliableSequence
    PROVE  /\ c.reliableSequence - i < MAX_RELIABLE_COMMANDS
           /\ i \in 1 .. c.reliableSequence
           /\ c.reliableCommands[Slot(i)] = c.issued[i]
<1>1. /\ c.reliableSequence \in Nat /\ c.reliableSent \in Nat /\ c.reliableAcknowledge \in Nat
  BY QueueTypes
<1>2. c.reliableSequence - c.reliableAcknowledge <= MAX_RELIABLE_COMMANDS
      /\ c.reliableAcknowledge <= c.reliableSent
  BY DEF Queue, RingOK
<1>3. /\ c.reliableSequence - i < MAX_RELIABLE_COMMANDS
      /\ i \in 1 .. c.reliableSequence /\ i \in 0 .. c.reliableSequence /\ i # 0
  BY <1>1, <1>2, ServerCommandsAssumption
<1> QED
  BY <1>3 DEF Queue, RingOK, Issued

\* d is c with configstring k given value v, unless the client was dropped.
Brings(c, d, k, v) ==
    d.state # CS_ZOMBIE =>
        /\ QueueInv(d)
        /\ d.csUpdated = c.csUpdated
        /\ \A a \in 0 .. c.reliableSent, j \in ConfigString : \A u :
              /\ j = k => Leads(d.issued, j, u, a, v, d.reliableSequence)
              /\ j # k => \A w : Leads(c.issued, j, u, a, w, c.reliableSequence) =>
                                 Leads(d.issued, j, u, a, w, d.reliableSequence)

LEMMA StoreLeads ==
    ASSUME NEW c \in ClientT, NEW cmd \in Commands, Len(c.issued) = c.reliableSequence,
           NEW a \in 0 .. c.reliableSequence, NEW k, NEW u
    PROVE  LET s == Store(c, cmd) IN
           /\ Gives(cmd, k) => Leads(s.issued, k, u, a, cmd.value, s.reliableSequence)
           /\ ~Gives(cmd, k) =>
                \A w : Leads(c.issued, k, u, a, w, c.reliableSequence) =>
                       Leads(s.issued, k, u, a, w, s.reliableSequence)
<1> DEFINE s == Store(c, cmd)
           n == c.reliableSequence
<1>1. /\ s.reliableSequence = n + 1 /\ s.issued[n + 1] = cmd
      /\ \A i \in 1 .. n : s.issued[i] = c.issued[i]
  BY StoreFields
<1> HIDE DEF s
<1>2. n \in Nat /\ a \in Nat /\ a <= n /\ n + 1 \in Nat /\ a < n + 1
  BY DEF ClientT
<1>3. ASSUME Gives(cmd, k) PROVE Leads(s.issued, k, u, a, cmd.value, n + 1)
  <2>1. Leads(s.issued, k, u, a, s.issued[n + 1].value, n + 1)
    BY <1>1, <1>2, <1>3, LeadsTo
  <2> QED
    BY <1>1, <2>1
<1>4. ASSUME ~Gives(cmd, k), NEW w, Leads(c.issued, k, u, a, w, n)
      PROVE  Leads(s.issued, k, u, a, w, n + 1)
  <2>1. \A i \in a + 1 .. n : s.issued[i] = c.issued[i]
    BY <1>1, <1>2
  <2>2. Leads(s.issued, k, u, a, w, n)
    BY <1>2, <1>4, <2>1, LeadsLocal
  <2> QED
    BY <1>1, <1>2, <1>4, <2>2, LeadsOn
<1> QED
  BY <1>1, <1>3, <1>4 DEF s

\* A print, or a configstring of which none is pending.
LEMMA StoreBrings ==
    ASSUME NEW c, Queue(c), QueueInv(c), NEW cmd \in Commands, NEW k, NEW v,
           \/ cmd.op = "cs" /\ cmd.index = k /\ cmd.value = v
           \/ cmd.op = "print" /\ k \notin ConfigString,
           MOHTA /\ cmd.op = "cs" => Pending(c, cmd) = {}
    PROVE  Brings(c, Store(c, cmd), k, v)
<1> DEFINE s == Store(c, cmd)
           n == c.reliableSequence
<1>1. /\ c \in ClientT /\ Len(c.issued) = n /\ n \in Nat
      /\ c.reliableSent \in Nat /\ c.reliableSent <= n
  BY QueueTypes
<1>2. /\ s.reliableSequence = n + 1 /\ s.issued[n + 1] = cmd /\ Len(s.issued) = n + 1
      /\ \A i \in 1 .. n : s.issued[i] = c.issued[i]
      /\ s.reliableSent = c.reliableSent
  BY <1>1, StoreFields
<1>3. s.csUpdated = c.csUpdated
  BY <1>1 DEF Store, ClientT
<1>4. \A a \in 0 .. n : \A j, u :
        /\ Gives(cmd, j) => Leads(s.issued, j, u, a, cmd.value, s.reliableSequence)
        /\ ~Gives(cmd, j) => \A w : Leads(c.issued, j, u, a, w, n) =>
                                    Leads(s.issued, j, u, a, w, s.reliableSequence)
  BY <1>1, StoreLeads
<1> HIDE DEF s
<1>5. Pieces(s.issued)
  <2> SUFFICES ASSUME NEW i \in 1 .. n + 1
               PROVE  /\ s.issued[i].op = "bcs0" => LongString # {}
                      /\ s.issued[i].op = "bcs2" =>
                           i > 1 /\ s.issued[i - 1] = Command("bcs0", s.issued[i].index,
                                                              s.issued[i].value)
    BY <1>2 DEF Pieces
  <2>1. CASE i = n + 1
    BY <1>2, <2>1
  <2>2. CASE i \in 1 .. n
    <3>1. i > 1 => i - 1 \in 1 .. n
      BY <1>1, <2>2
    <3> QED
      BY <1>1, <1>2, <2>2, <3>1 DEF QueueInv, Pieces
  <2> QED
    BY <1>1, <2>1, <2>2
<1>6. Ends(s.issued, s.reliableSequence)
  BY <1>2 DEF Ends
<1>7. OnePending(s)
  <2> SUFFICES ASSUME MOHTA, NEW i \in c.reliableSent + 1 .. n + 1,
                      NEW j \in c.reliableSent + 1 .. n + 1,
                      s.issued[i].op = "cs", s.issued[j].op = "cs",
                      s.issued[i].index = s.issued[j].index, i < j
               PROVE  FALSE
    <3>1. \A i, j \in c.reliableSent + 1 .. n + 1 : i < j \/ j < i \/ i = j
      BY <1>1
    <3> QED
      BY <1>2, <3>1 DEF OnePending
  <2>1. i \in c.reliableSent + 1 .. n /\ i \in 1 .. n
    BY <1>1
  <2>2. CASE j = n + 1
    <3>1. cmd.op = "cs" /\ c.issued[i].op = "cs" /\ c.issued[i].index = cmd.index
      BY <1>2, <2>1, <2>2
    <3>2. c.reliableCommands[Slot(i)] = c.issued[i]
      BY <2>1, UnsentHeld
    <3> QED
      BY <2>1, <3>1, <3>2 DEF Pending
  <2>3. CASE j # n + 1
    <3>1. j \in c.reliableSent + 1 .. n /\ j \in 1 .. n
      BY <1>1, <2>3
    <3>2. s.issued[i] = c.issued[i] /\ s.issued[j] = c.issued[j]
      BY <1>2, <2>1, <3>1
    <3>3. i = j
      BY <2>1, <3>1, <3>2 DEF QueueInv, OnePending
    <3> QED
      BY <1>1, <3>3
  <2> QED
    BY <2>2, <2>3
<1>8. ASSUME NEW a \in 0 .. c.reliableSent, NEW j \in ConfigString, NEW u
      PROVE  /\ j = k => Leads(s.issued, j, u, a, v, s.reliableSequence)
             /\ j # k => \A w : Leads(c.issued, j, u, a, w, n) =>
                                Leads(s.issued, j, u, a, w, s.reliableSequence)
  <2>1. a \in 0 .. n
    BY <1>1
  <2>2. (j = k) = Gives(cmd, j) /\ (j = k => cmd.value = v)
    BY DEF Gives
  <2> QED
    BY <1>4, <2>1, <2>2
<1> QED
  BY <1>3, <1>5, <1>6, <1>7, <1>8 DEF Brings, QueueInv, s

\* Both pieces of a long string.
LEMMA PiecesBring ==
    ASSUME NEW c, Queue(c), QueueInv(c), ~MOHTA,
           NEW k \in ConfigString, NEW v \in Value, v \in LongString
    PROVE  Brings(c, Store(Store(c, Command("bcs0", k, v)), Command("bcs2", k, v)), k, v)
<1> DEFINE x == Command("bcs0", k, v)
           y == Command("bcs2", k, v)
           s == Store(c, x)
           t == Store(s, y)
           n == c.reliableSequence
<1>1. /\ c \in ClientT /\ Len(c.issued) = n /\ n \in Nat
      /\ c.reliableSent \in Nat /\ c.reliableSent <= n
      /\ x \in Commands /\ y \in Commands
  BY QueueTypes, CommandTypes
<1>x. /\ x.op = "bcs0" /\ y.op = "bcs2" /\ y.index = k /\ y.value = v
      /\ \A j : ~Gives(x, j) /\ (Gives(y, j) = (j = k))
      /\ x = Command("bcs0", y.index, y.value)
  BY DEF Command, Gives
<1> HIDE DEF x, y
<1>2. /\ s.reliableSequence = n + 1 /\ s.issued[n + 1] = x /\ Len(s.issued) = n + 1
      /\ \A i \in 1 .. n : s.issued[i] = c.issued[i]
      /\ s \in ClientT
  BY <1>1, StoreFields
<1>3. s.csUpdated = c.csUpdated
  BY <1>1 DEF Store, ClientT
<1>4. \A a \in 0 .. n : \A j, u, w :
        Leads(c.issued, j, u, a, w, n) => Leads(s.issued, j, u, a, w, n + 1)
  BY <1>1, <1>x, <1>2, StoreLeads
<1> HIDE DEF s
<1>5. /\ t.reliableSequence = n + 2 /\ t.issued[n + 2] = y /\ Len(t.issued) = n + 2
      /\ \A i \in 1 .. n + 1 : t.issued[i] = s.issued[i]
  <2>1. (n + 1) + 1 = n + 2
    BY <1>1
  <2>2. Len(s.issued) = s.reliableSequence
    BY <1>2
  <2>3. /\ t.reliableSequence = s.reliableSequence + 1
        /\ t.issued[s.reliableSequence + 1] = y
        /\ Len(t.issued) = s.reliableSequence + 1
        /\ \A i \in 1 .. s.reliableSequence : t.issued[i] = s.issued[i]
    BY <1>1, <1>2, <2>2, StoreFields
  <2> HIDE DEF t
  <2> QED
    BY <1>2, <2>1, <2>3
<1>6. t.csUpdated = c.csUpdated
  BY <1>2, <1>3 DEF Store, ClientT
<1>7. \A a \in 0 .. n + 1 : \A j, u :
        /\ j = k => Leads(t.issued, j, u, a, v, t.reliableSequence)
        /\ j # k => \A w : Leads(s.issued, j, u, a, w, n + 1) =>
                           Leads(t.issued, j, u, a, w, t.reliableSequence)
  BY <1>1, <1>x, <1>2, StoreLeads
<1> HIDE DEF t
<1>8. /\ t.issued[n + 1] = x
      /\ \A i \in 1 .. n : t.issued[i] = c.issued[i]
  BY <1>1, <1>2, <1>5
<1>9. Pieces(t.issued)
  <2> SUFFICES ASSUME NEW i \in 1 .. n + 2
               PROVE  /\ t.issued[i].op = "bcs0" => LongString # {}
                      /\ t.issued[i].op = "bcs2" =>
                           i > 1 /\ t.issued[i - 1] = Command("bcs0", t.issued[i].index,
                                                              t.issued[i].value)
    BY <1>5 DEF Pieces
  <2>1. CASE i = n + 2
    <3>1. i - 1 = n + 1 /\ i > 1
      BY <1>1, <2>1
    <3> QED
      BY <1>x, <1>5, <1>8, <2>1, <3>1
  <2>2. CASE i = n + 1
    BY <1>x, <1>8, <2>2
  <2>3. CASE i \in 1 .. n
    <3>1. i > 1 => i - 1 \in 1 .. n
      BY <1>1, <2>3
    <3> QED
      BY <1>1, <1>8, <2>3, <3>1 DEF QueueInv, Pieces
  <2> QED
    BY <1>1, <2>1, <2>2, <2>3
<1>10. Ends(t.issued, t.reliableSequence) /\ OnePending(t)
  BY <1>x, <1>5 DEF Ends, OnePending
<1>11. ASSUME NEW a \in 0 .. c.reliableSent, NEW j \in ConfigString, NEW u
       PROVE  /\ j = k => Leads(t.issued, j, u, a, v, t.reliableSequence)
              /\ j # k => \A w : Leads(c.issued, j, u, a, w, n) =>
                                 Leads(t.issued, j, u, a, w, t.reliableSequence)
  <2>1. a \in 0 .. n /\ a \in 0 .. n + 1
    BY <1>1
  <2> QED
    BY <1>4, <1>7, <2>1
<1> QED
  BY <1>6, <1>9, <1>10, <1>11 DEF Brings, QueueInv, t, s, x, y

\* A pending command replaced is the only one for its configstring.
LEMMA ReplaceBrings ==
    ASSUME NEW c, Queue(c), QueueInv(c), MOHTA, LongString = {},
           NEW k \in ConfigString, NEW v \in Value, Pending(c, Command("cs", k, v)) # {}
    PROVE  Brings(c, SV_ReplacePendingServerCommands(c, Command("cs", k, v)), k, v)
<1> DEFINE cmd == Command("cs", k, v)
           i == CHOOSE i \in Pending(c, cmd) : \A j \in Pending(c, cmd) : i <= j
           now == [j \in DOMAIN c.issued |-> IF Holds(c, j, i) THEN cmd ELSE c.issued[j]]
           r == SV_ReplacePendingServerCommands(c, cmd)
           n == c.reliableSequence
           sent == c.reliableSent
<1>1. /\ c \in ClientT /\ Len(c.issued) = n /\ n \in Nat /\ c.issued \in Seq(Commands)
      /\ sent \in Nat /\ sent <= n
      /\ DOMAIN c.issued = 1 .. n
  BY QueueTypes
<1>c. cmd.op = "cs" /\ cmd.index = k /\ cmd.value = v
  BY DEF Command
<1>2. i \in Pending(c, cmd)
  <2>1. Pending(c, cmd) \in SUBSET Nat
    BY <1>1 DEF Pending
  <2> QED
    BY <2>1, Least
<1>3. /\ r.issued = now /\ r.reliableSequence = n /\ r.reliableSent = sent
      /\ r.csUpdated = c.csUpdated
  BY <1>1 DEF SV_ReplacePendingServerCommands, ClientT
<1> HIDE DEF i, r, cmd
<1>4. /\ i \in sent + 1 .. n /\ i \in 1 .. n /\ i \in Nat
      /\ c.issued[i].op = "cs" /\ c.issued[i].index = k
      /\ n - i < MAX_RELIABLE_COMMANDS
  <2>1. i \in sent + 1 .. n
    BY <1>2 DEF Pending
  <2>2. i \in 1 .. n /\ c.reliableCommands[Slot(i)] = c.issued[i]
        /\ n - i < MAX_RELIABLE_COMMANDS
    BY <2>1, UnsentHeld
  <2> QED
    BY <1>c, <1>2, <2>1, <2>2 DEF Pending
<1>5. ASSUME NEW j \in 1 .. n
      PROVE  now[j] = IF j = i THEN cmd ELSE c.issued[j]
  <2>1. Holds(c, i, i)
    BY <1>4 DEF Holds
  <2>2. ASSUME Holds(c, j, i) PROVE j = i
    <3>1. Slot(j) = Slot(i) /\ n - j < MAX_RELIABLE_COMMANDS
      BY <2>2 DEF Holds
    <3>2. j < i => i - j < MAX_RELIABLE_COMMANDS
      BY <1>1, <1>4, <3>1, ServerCommandsAssumption
    <3>3. i < j => j - i < MAX_RELIABLE_COMMANDS
      BY <1>1, <1>4, <3>1, ServerCommandsAssumption
    <3>4. j \in Nat /\ ~(j < i) /\ ~(i < j)
      BY <1>1, <1>4, <3>1, <3>2, <3>3, SlotsDiffer
    <3> QED
      BY <1>4, <3>4
  <2>3. now[j] = IF Holds(c, j, i) THEN cmd ELSE c.issued[j]
    BY <1>1
  <2> HIDE DEF now
  <2> QED
    BY <2>1, <2>2, <2>3
<1>6. Len(now) = n
  BY <1>1
<1> HIDE DEF now
<1>7. \A j \in 1 .. n : c.issued[j].op \notin {"bcs0", "bcs2"}
  <2> TAKE j \in 1 .. n
  <2>1. c.issued[j].op # "bcs0"
    BY <1>1 DEF QueueInv, Pieces
  <2>2. ASSUME c.issued[j].op = "bcs2" PROVE FALSE
    <3>1. j > 1 /\ c.issued[j - 1].op = "bcs0"
      <4>1. j > 1 /\ c.issued[j - 1] = Command("bcs0", c.issued[j].index, c.issued[j].value)
        BY <1>1, <2>2 DEF QueueInv, Pieces
      <4> QED
        BY <4>1 DEF Command
    <3>2. j - 1 \in 1 .. n
      BY <1>1, <3>1
    <3> QED
      BY <1>1, <3>1, <3>2 DEF QueueInv, Pieces
  <2> QED
    BY <2>1, <2>2
<1>8. \A j \in 1 .. n : /\ now[j].op = c.issued[j].op /\ now[j].index = c.issued[j].index
                        /\ j # i => now[j] = c.issued[j]
  BY <1>c, <1>4, <1>5
<1>9. QueueInv(r)
  <2>1. Pieces(now)
    BY <1>6, <1>7, <1>8 DEF Pieces
  <2>2. Ends(now, n)
    <3>1. n > 0 => n \in 1 .. n
      BY <1>1
    <3> QED
      BY <1>7, <1>8, <3>1 DEF Ends
  <2>3. OnePending(r)
    <3>1. \A j \in sent + 1 .. n : j \in 1 .. n
      BY <1>1
    <3> QED
      BY <1>3, <1>8, <3>1 DEF OnePending, QueueInv
  <2> QED
    BY <1>3, <2>1, <2>2, <2>3 DEF QueueInv
<1>10. ASSUME NEW a \in 0 .. sent, NEW j \in ConfigString, NEW u
       PROVE  /\ j = k => Leads(now, j, u, a, v, n)
              /\ j # k => \A w : Leads(c.issued, j, u, a, w, n) => Leads(now, j, u, a, w, n)
  <2>1. a \in Nat /\ \A l \in a + 1 .. n : l \in 1 .. n
    BY <1>1
  <2>2. ASSUME j = k PROVE Leads(now, j, u, a, v, n)
    <3>1. i \in a + 1 .. n /\ Gives(now[i], j) /\ now[i].value = v
      <4>1. i \in a + 1 .. n
        BY <1>1, <1>4
      <4> QED
        BY <1>c, <1>4, <1>5, <2>2, <4>1 DEF Gives
    <3>2. ASSUME NEW l \in i + 1 .. n, Gives(now[l], j) PROVE FALSE
      <4>1. l \in sent + 1 .. n /\ l \in 1 .. n /\ l # i
        BY <1>1, <1>4
      <4>2. c.issued[l].op = "cs" /\ c.issued[l].index = k
        BY <1>7, <1>8, <2>2, <3>2, <4>1 DEF Gives
      <4>3. l = i
        BY <1>4, <4>1, <4>2 DEF QueueInv, OnePending
      <4> QED
        BY <4>1, <4>3
    <3> QED
      BY <3>1, <3>2 DEF Leads
  <2>3. ASSUME j # k, NEW w, Leads(c.issued, j, u, a, w, n) PROVE Leads(now, j, u, a, w, n)
    <3>1. \A l \in 1 .. n : /\ Gives(now[l], j) <=> Gives(c.issued[l], j)
                            /\ Gives(c.issued[l], j) => now[l] = c.issued[l]
      <4> TAKE l \in 1 .. n
      <4>1. CASE l = i
        <5>1. ~Gives(now[l], j) /\ ~Gives(c.issued[l], j)
          BY <1>4, <1>8, <2>3, <4>1 DEF Gives
        <5> QED
          BY <5>1
      <4>2. CASE l # i
        BY <1>8, <4>2
      <4> QED
        BY <4>1, <4>2
    <3>2. \A l \in a + 1 .. n : \A q \in l + 1 .. n : q \in 1 .. n
      BY <1>1
    <3> QED
      BY <2>1, <2>3, <3>1, <3>2 DEF Leads
  <2> QED
    BY <2>2, <2>3
<1> QED
  BY <1>3, <1>9, <1>10 DEF Brings, r, cmd

\* Adding a command: nothing for a client that has no gamestate, the queue
\* full, or the command stored.
LEMMA AddIs ==
    ASSUME NEW c, NEW cmd, ~(MOHTA /\ cmd.op = "cs" /\ Pending(c, cmd) # {})
    PROVE  /\ c.state < CS_PRIMED => SV_AddServerCommand(c, cmd) = c
           /\ ~(c.state < CS_PRIMED) =>
                SV_AddServerCommand(c, cmd) \in {SV_DropClient(c), Store(c, cmd)}
BY DEF SV_AddServerCommand

LEMMA SendBrings ==
    ASSUME Orderly, NEW c, Queue(c), QueueInv(c), c.state \in {CS_PRIMED, CS_ACTIVE},
           NEW k \in ConfigString, NEW v \in Value
    PROVE  Brings(c, SV_SendConfigstring(c, k, v), k, v)
<1>1. ~(c.state < CS_PRIMED) /\ c \in ClientT /\ RingOK(c) /\ CS_ZOMBIE < CS_PRIMED
  BY DEF CS_PRIMED, CS_ACTIVE, CS_ZOMBIE, Queue
<1>2. SV_DropClient(c).state = CS_ZOMBIE
  BY <1>1, DropOK
<1>3. CASE v \notin LongString
  <2> DEFINE cmd == Command("cs", k, v)
  <2>1. SV_SendConfigstring(c, k, v) = SV_AddServerCommand(c, cmd)
    BY <1>3 DEF SV_SendConfigstring
  <2>2. cmd \in Commands /\ cmd.op = "cs" /\ cmd.index = k /\ cmd.value = v
    BY CommandTypes DEF Command
  <2>3. CASE MOHTA /\ Pending(c, cmd) # {}
    <3>1. SV_AddServerCommand(c, cmd) = SV_ReplacePendingServerCommands(c, cmd)
      BY <2>2, <2>3 DEF SV_AddServerCommand
    <3> QED
      BY <2>1, <2>3, <3>1, ReplaceBrings DEF Orderly
  <2>4. CASE ~(MOHTA /\ Pending(c, cmd) # {})
    <3> HIDE DEF cmd
    <3>1. SV_AddServerCommand(c, cmd) \in {SV_DropClient(c), Store(c, cmd)}
      BY <1>1, <2>4, AddIs
    <3>2. Brings(c, SV_DropClient(c), k, v)
      BY <1>2 DEF Brings
    <3>3. Brings(c, Store(c, cmd), k, v)
      BY <2>2, <2>4, StoreBrings
    <3> QED
      BY <2>1, <3>1, <3>2, <3>3
  <2> QED
    BY <2>3, <2>4
<1>4. CASE v \in LongString
  <2> DEFINE x == Command("bcs0", k, v)
             y == Command("bcs2", k, v)
             s == SV_AddServerCommand(c, x)
  <2>1. SV_SendConfigstring(c, k, v) = SV_AddServerCommand(s, y)
    BY <1>4 DEF SV_SendConfigstring
  <2>2. x \in Commands /\ y \in Commands /\ x.op = "bcs0" /\ y.op = "bcs2"
    BY CommandTypes DEF Command
  <2>3. ~MOHTA
    BY <1>4 DEF Orderly
  <2>4. Brings(c, Store(Store(c, x), y), k, v)
    BY <1>4, <2>3, PiecesBring
  <2> HIDE DEF x, y, s
  <2>5. s \in ClientT /\ RingOK(s) /\ Evolves(c, s)
    BY <1>1, <2>2, AddOK DEF s
  <2>6. s \in {SV_DropClient(c), Store(c, x)}
    BY <1>1, <2>3, AddIs DEF s
  <2>7. CASE s.state = CS_ZOMBIE
    <3>1. SV_AddServerCommand(s, y) = s
      BY <1>1, <2>3, <2>7, AddIs
    <3> QED
      BY <2>1, <2>7, <3>1 DEF Brings
  <2>8. CASE s.state # CS_ZOMBIE
    <3>1. s = Store(c, x)
      BY <1>2, <2>6, <2>8
    <3>2. ~(s.state < CS_PRIMED)
      BY <1>1, <2>5, <2>8 DEF Evolves
    <3>3. SV_AddServerCommand(s, y) \in {SV_DropClient(s), Store(s, y)}
      BY <2>3, <3>2, AddIs
    <3>4. SV_DropClient(s).state = CS_ZOMBIE
      BY <2>5, DropOK
    <3>5. Brings(c, SV_DropClient(s), k, v)
      BY <3>4 DEF Brings
    <3> QED
      BY <2>1, <2>4, <3>1, <3>3, <3>5
  <2> QED
    BY <2>7, <2>8
<1> QED
  BY <1>3, <1>4

LEMMA PrintBrings ==
    ASSUME NEW c, Queue(c), QueueInv(c), c.state \in {CS_PRIMED, CS_ACTIVE}, NEW v \in Value
    PROVE  Brings(c, SV_AddServerCommand(c, Printed(v)), NoIndex, v)
<1>1. ~(c.state < CS_PRIMED) /\ c \in ClientT /\ RingOK(c)
  BY DEF CS_PRIMED, CS_ACTIVE, Queue
<1>2. Printed(v) \in Commands /\ Printed(v).op = "print"
  BY CommandTypes DEF Printed, Command
<1>3. SV_AddServerCommand(c, Printed(v)) \in {SV_DropClient(c), Store(c, Printed(v))}
  BY <1>1, <1>2, AddIs
<1>4. Brings(c, SV_DropClient(c), NoIndex, v)
  BY <1>1, DropOK DEF Brings
<1>5. NoIndex \notin ConfigString
  BY ServerCommandsAssumption DEF NoIndex
<1>6. Brings(c, Store(c, Printed(v)), NoIndex, v)
  BY <1>2, <1>5, StoreBrings
<1> QED
  BY <1>3, <1>4, <1>6

\* d has what the server gave the client: the configstrings flagged up to
\* index n, and of the others those c has.
Updated(c, d, n) ==
    d.state # CS_ZOMBIE =>
        /\ QueueInv(d)
        /\ \A a \in 0 .. c.reliableSent, j \in ConfigString : \A u :
              /\ c.csUpdated[j] /\ j <= n =>
                   Leads(d.issued, j, u, a, sv.configstrings[j], d.reliableSequence)
              /\ ~(c.csUpdated[j] /\ j <= n) =>
                   \A w : Leads(c.issued, j, u, a, w, c.reliableSequence) =>
                          Leads(d.issued, j, u, a, w, d.reliableSequence)

LEMMA EvolvesQueue ==
    ASSUME NEW c, Queue(c), NEW d \in ClientT, RingOK(d), Evolves(c, d), d.state # CS_ZOMBIE
    PROVE  Queue(d) /\ d.state = c.state /\ d.reliableSent = c.reliableSent
<1>1. /\ c.reliableAcknowledge \in Nat /\ c.reliableSent \in Nat /\ c.reliableSequence \in Nat
      /\ d.reliableSequence \in Nat
  BY DEF Queue, ClientT
<1>2. /\ d.state = c.state /\ d.reliableSent = c.reliableSent
      /\ d.reliableAcknowledge = c.reliableAcknowledge
      /\ d.reliableSequence >= c.reliableSequence
  BY DEF Evolves
<1>3. c.reliableAcknowledge <= c.reliableSent /\ c.reliableSent <= c.reliableSequence
  BY DEF Queue
<1> QED
  BY <1>1, <1>2, <1>3 DEF Queue

\* One more flagged configstring.
LEMMA UpdatedOn ==
    ASSUME Orderly, sv.configstrings \in Strings,
           NEW c, Queue(c), c.state = CS_ACTIVE,
           NEW d \in ClientT, RingOK(d), Evolves(c, d), NEW n \in Nat, Updated(c, d, n),
           n + 1 \in ConfigString, c.csUpdated[n + 1]
    PROVE  Updated(c, [SV_SendConfigstring(d, n + 1, sv.configstrings[n + 1])
                         EXCEPT !.csUpdated[n + 1] = FALSE], n + 1)
<1> DEFINE k == n + 1
           v == sv.configstrings[k]
           s == SV_SendConfigstring(d, k, v)
           e == [s EXCEPT !.csUpdated[k] = FALSE]
<1>1. v \in Value
  BY DEF Strings
<1> HIDE DEF v
<1>2. s \in ClientT /\ RingOK(s) /\ Evolves(d, s)
  BY <1>1, SendConfigstringOK
<1> HIDE DEF s
<1>3. /\ e.state = s.state /\ e.issued = s.issued /\ e.reliableSequence = s.reliableSequence
      /\ e.reliableSent = s.reliableSent
  BY <1>2 DEF ClientT
<1> HIDE DEF e
<1>4. SUFFICES ASSUME s.state # CS_ZOMBIE
               PROVE  Updated(c, e, n + 1)
  BY <1>3 DEF Updated, e, s, v
<1>5. d.state # CS_ZOMBIE
  BY <1>2, <1>4 DEF Evolves
<1>6. Queue(d) /\ d.state = CS_ACTIVE /\ d.reliableSent = c.reliableSent
  BY <1>5, EvolvesQueue
<1>7. QueueInv(d)
  BY <1>5 DEF Updated
<1>8. Brings(d, s, k, v)
  BY <1>1, <1>6, <1>7, SendBrings DEF s
<1>9. QueueInv(e)
  <2>1. QueueInv(s)
    BY <1>4, <1>8 DEF Brings
  <2> QED
    BY <1>3, <2>1 DEF QueueInv, OnePending
<1>10. ASSUME NEW a \in 0 .. c.reliableSent, NEW j \in ConfigString, NEW u
       PROVE  /\ c.csUpdated[j] /\ j <= k =>
                   Leads(s.issued, j, u, a, sv.configstrings[j], s.reliableSequence)
              /\ ~(c.csUpdated[j] /\ j <= k) =>
                   \A w : Leads(c.issued, j, u, a, w, c.reliableSequence) =>
                          Leads(s.issued, j, u, a, w, s.reliableSequence)
  <2>1. j \in Nat /\ k \in ConfigString
    BY ServerCommandsAssumption
  <2>2. CASE j = k
    <3>1. c.csUpdated[j] /\ j <= k
      BY <2>1, <2>2
    <3>2. Leads(s.issued, j, u, a, v, s.reliableSequence)
      BY <1>4, <1>6, <1>8, <2>2 DEF Brings
    <3> QED
      BY <2>2, <3>1, <3>2 DEF v
  <2>3. CASE j # k
    <3>1. j <= k <=> j <= n
      BY <2>1, <2>3
    <3>2. \A w : Leads(d.issued, j, u, a, w, d.reliableSequence) =>
                 Leads(s.issued, j, u, a, w, s.reliableSequence)
      BY <1>4, <1>6, <1>8, <2>3 DEF Brings
    <3>3. /\ c.csUpdated[j] /\ j <= n =>
                Leads(d.issued, j, u, a, sv.configstrings[j], d.reliableSequence)
          /\ ~(c.csUpdated[j] /\ j <= n) =>
                \A w : Leads(c.issued, j, u, a, w, c.reliableSequence) =>
                       Leads(d.issued, j, u, a, w, d.reliableSequence)
      BY <1>5 DEF Updated
    <3> QED
      BY <3>1, <3>2, <3>3
  <2> QED
    BY <2>2, <2>3
<1> QED
  BY <1>3, <1>9, <1>10 DEF Updated

LEMMA UpdateBrings ==
    ASSUME Orderly, sv.configstrings \in Strings,
           NEW c, Queue(c), QueueInv(c), c.state = CS_ACTIVE
    PROVE  Updated(c, SV_UpdateConfigstrings(c), Largest(ConfigString))
<1>1. c \in ClientT /\ RingOK(c)
  BY DEF Queue
<1>2. PICK after :
        /\ after[0] = c
        /\ \A n \in Nat : /\ after[n] \in ClientT /\ RingOK(after[n])
                          /\ Evolves(c, after[n])
        /\ \A n \in Nat : after[n + 1] =
              IF n + 1 \in ConfigString /\ c.csUpdated[n + 1]
              THEN [SV_SendConfigstring(after[n], n + 1, sv.configstrings[n + 1])
                      EXCEPT !.csUpdated[n + 1] = FALSE]
              ELSE after[n]
        /\ SV_UpdateConfigstrings(c) = after[Largest(ConfigString)]
  BY <1>1, UpdateConfigstringsSteps
<1> DEFINE N == {n \in Nat : Updated(c, after[n], n)}
<1>3. 0 \in N
  <2>1. \A j \in ConfigString : ~(j <= 0)
    BY ServerCommandsAssumption
  <2>2. Updated(c, c, 0)
    BY <2>1 DEF Updated
  <2> QED
    BY <1>2, <2>2
<1>4. ASSUME NEW n \in Nat, n \in N PROVE n + 1 \in N
  <2>1. Updated(c, after[n], n) /\ after[n] \in ClientT /\ RingOK(after[n]) /\ Evolves(c, after[n])
    BY <1>2, <1>4
  <2>2. CASE n + 1 \in ConfigString /\ c.csUpdated[n + 1]
    <3>1. after[n + 1] = [SV_SendConfigstring(after[n], n + 1, sv.configstrings[n + 1])
                            EXCEPT !.csUpdated[n + 1] = FALSE]
      BY <1>2, <2>2
    <3> QED
      BY <2>1, <2>2, <3>1, UpdatedOn
  <2>3. CASE ~(n + 1 \in ConfigString /\ c.csUpdated[n + 1])
    <3>1. after[n + 1] = after[n]
      BY <1>2, <2>3
    <3>2. \A j \in ConfigString : c.csUpdated[j] => (j <= n + 1 <=> j <= n)
      <4>1. \A j \in ConfigString : j \in Nat
        BY ServerCommandsAssumption
      <4> QED
        BY <2>3, <4>1
    <3>3. Updated(c, after[n], n + 1)
      BY <2>1, <3>2 DEF Updated
    <3> QED
      BY <3>1, <3>3
  <2> QED
    BY <2>2, <2>3
<1> HIDE DEF N
<1>5. Nat \subseteq N
  BY <1>3, <1>4, Induction
<1>6. Largest(ConfigString) \in Nat
  BY LargestIn, ServerCommandsAssumption
<1> QED
  BY <1>2, <1>5, <1>6 DEF N

-----------------------------------------------------------------------------
(* Steps that leave the messages, and the client, alone.                   *)

\* Some story fits what is in flight, received and executed.
StoryInv == \E h \in Seq(Commands), latest \in Nat : Story(h, latest)

\* What commands after number n make of f is what they make of it afterwards.
Renews(c, before, d, after) ==
    \A f : \A n \in 0 .. c.reliableSent : Current(c, before, f, n) => Current(d, after, f, n)

LEMMA SentNumbers ==
    ASSUME IInv, ~illegible, cl.state # CS_ZOMBIE
    PROVE  /\ cgs.serverCommandSequence \in 0 .. cl.reliableSent
           /\ clc.serverCommandSequence \in 0 .. cl.reliableSent
           /\ cl.reliableSent \in 0 .. cl.reliableSequence
           /\ cl.reliableSent \in Nat /\ cl.reliableSequence \in Nat
           /\ Len(cl.issued) = cl.reliableSequence
           /\ cl.issued \in Seq(Commands)
           /\ \A n \in 1 .. Len(toClient) :
                 /\ Live(toClient[n])
                 /\ toClient[n].reliableSequence \in 0 .. cl.reliableSequence
                 /\ toClient[n].body # "nop" =>
                       toClient[n].reliableSequence \in 0 .. cl.reliableSent
<1>1. TypeInv /\ RingOK(cl) /\ ClientInv
  BY DEF IInv
<1>2. /\ cgs.serverCommandSequence \in Nat /\ clc.serverCommandSequence \in Nat
      /\ cl.reliableSent \in Nat /\ cl.reliableSequence \in Nat
      /\ Len(cl.issued) = cl.reliableSequence
      /\ cl.issued \in Seq(Commands)
  BY <1>1 DEF TypeInv, ClientT, ClientConnection, CGame, RingOK
<1>3. \A n \in 1 .. Len(toClient) : toClient[n].reliableSequence \in Nat
  BY <1>1, VariableTypes, MessageTypes
<1>4. /\ cgs.serverCommandSequence <= clc.serverCommandSequence
      /\ clc.serverCommandSequence <= cl.reliableSent
      /\ cl.reliableSent <= cl.reliableSequence
  BY <1>1 DEF ClientInv, CGameInv, HoldsInv
<1>5. \A n \in 1 .. Len(toClient) :
        /\ Live(toClient[n])
        /\ toClient[n].reliableSequence <= cl.reliableSequence
        /\ toClient[n].body # "nop" => toClient[n].reliableSequence <= cl.reliableSent
  BY <1>1 DEF ClientInv, MessagesInv
<1> QED
  BY <1>2, <1>3, <1>4, <1>5

LEMMA QueueStepServer ==
    ASSUME IInv, ServerInv, QueueStep, ~illegible, cl.state # CS_ZOMBIE,
           cl'.state # CS_ZOMBIE, QueueInv(cl'),
           Ahead' \/ (/\ sv'.serverId = sv.serverId
                      /\ Renews(cl, sv.configstrings, cl', sv'.configstrings))
    PROVE  ServerInv'
<1>1. /\ toClient' = toClient /\ clc' = clc /\ cgs' = cgs
      /\ cl'.reliableSent = cl.reliableSent
  BY DEF QueueStep, Keeps
<1>2. ASSUME clc.serverId = sv'.serverId
      PROVE  Current(cl', sv'.configstrings, cgs.configstrings, cgs.serverCommandSequence)
  <2>1. ~Ahead'
    BY <1>1, <1>2 DEF Ahead
  <2>2. sv'.serverId = sv.serverId
        /\ Renews(cl, sv.configstrings, cl', sv'.configstrings)
    BY <2>1
  <2>3. Current(cl, sv.configstrings, cgs.configstrings, cgs.serverCommandSequence)
    BY <1>2, <2>2 DEF ServerInv
  <2> QED
    BY <2>2, <2>3, SentNumbers DEF Renews
<1>3. ASSUME NEW n \in 1 .. Len(toClient),
             toClient[n].body = "gamestate", toClient[n].serverId = sv'.serverId
      PROVE  Current(cl', sv'.configstrings, toClient[n].configstrings,
                     toClient[n].reliableSequence)
  <2>1. ~Ahead'
    BY <1>1, <1>3 DEF Ahead
  <2>2. sv'.serverId = sv.serverId
        /\ Renews(cl, sv.configstrings, cl', sv'.configstrings)
    BY <2>1
  <2>3. Current(cl, sv.configstrings, toClient[n].configstrings, toClient[n].reliableSequence)
    BY <1>3, <2>2 DEF ServerInv
  <2>4. toClient[n].reliableSequence \in 0 .. cl.reliableSent
    BY <1>3, SentNumbers
  <2> QED
    BY <2>2, <2>3, <2>4 DEF Renews
<1>4. \A n \in 1 .. Len(clc.snapshots) : clc.snapshots[n].reliableSequence <= cl.reliableSent
  BY DEF ServerInv
<1> QED
  BY <1>1, <1>2, <1>3, <1>4 DEF ServerInv

LEMMA QueueStepDropped ==
    ASSUME QueueStep, cl'.state = CS_ZOMBIE, StoryInv
    PROVE  StoryInv'
<1>1. PICK h \in Seq(Commands), latest \in Nat : Story(h, latest)
  BY DEF StoryInv
<1>2. toClient' = toClient /\ clc' = clc /\ cgs' = cgs
  BY DEF QueueStep
<1>3. FlightInv(h, latest)'
  BY <1>1, <1>2 DEF Story, FlightInv
<1>4. ListInv(h, latest)'
  BY <1>1, <1>2 DEF Story, ListInv
<1>5. Waits' => Waits
  BY <1>2 DEF Waits
<1>6. Story(h, latest)'
  BY <1>1, <1>2, <1>3, <1>4, <1>5 DEF Story
<1> QED
  BY <1>6 DEF StoryInv

LEMMA QueueStepStory ==
    ASSUME IInv, IInv', ServerInv, QueueStep, ~illegible, ~illegible', StoryInv,
           cl.state # CS_ZOMBIE, cl'.state # CS_ZOMBIE, QueueInv(cl')
    PROVE  StoryInv'
<1>1. PICK h \in Seq(Commands), latest \in Nat : Story(h, latest)
  BY DEF StoryInv
<1>2. toClient' = toClient /\ clc' = clc /\ cgs' = cgs
  BY DEF QueueStep
<1>3. cl'.issued \in Seq(Commands) /\ Len(cl'.issued) = cl'.reliableSequence
  BY DEF QueueStep, RingOK, ClientT
<1>4. PICK g \in Seq(Commands) : g = cl'.issued
  BY <1>3
<1>5. h = cl.issued /\ latest = clc.serverCommandSequence
  BY <1>1 DEF Story
<1> DEFINE sent == cl.reliableSent
<1>6. /\ sent \in Nat /\ cl.reliableSequence \in Nat /\ sent <= cl.reliableSequence
      /\ Len(h) = cl.reliableSequence
  BY <1>5, SentNumbers
<1>7. \A i \in 1 .. sent : g[i] = h[i]
  <2>1. \A i \in 1 .. sent : i \in 1 .. cl.reliableSequence /\ i <= sent
    BY <1>6
  <2> QED
    BY <1>4, <1>5, <2>1 DEF QueueStep, Keeps
<1>8. Len(g) \in Nat /\ Len(h) <= Len(g)
  <2>1. cl'.reliableSequence >= cl.reliableSequence /\ cl'.reliableSequence \in Nat
    BY DEF QueueStep, Keeps, ClientT
  <2> QED
    BY <1>3, <1>4, <1>6, <2>1
<1>9. ASSUME NEW f, NEW a \in Nat, NEW e, NEW b \in 0 .. sent, Turns(h, f, a, e, b)
      PROVE  Turns(g, f, a, e, b)
  <2>1. \A i \in a + 1 .. b : i \in 1 .. sent
    BY <1>6
  <2>2. \A i \in a + 1 .. b : g[i] = h[i]
    BY <1>7, <2>1
  <2>3. b \in Nat
    BY <1>6
  <2> QED
    BY <1>9, <2>2, <2>3, TurnsLocal
<1>10. \A b \in 0 .. sent : Ends(h, b) => Ends(g, b)
  <2>1. \A b \in 0 .. sent : b > 0 => b \in 1 .. sent
    BY <1>6
  <2> QED
    BY <1>7, <2>1 DEF Ends
<1>11. cgs.serverCommandSequence \in 0 .. sent /\ cgs.serverCommandSequence \in Nat
       /\ latest \in 0 .. sent
  BY <1>5, SentNumbers
<1> HIDE DEF sent
<1>12. FlightInv(g, latest)'
  <2>1. ASSUME NEW n \in 1 .. Len(toClient), Live(toClient[n])
        PROVE  LET m == toClient[n] IN
               /\ clc.serverCommandSequence = latest
               /\ m.reliableSequence <= Len(g)
               /\ m.body # "nop" => Ends(g, m.reliableSequence)
               /\ \A i \in DOMAIN m.commands : m.commands[i] = g[i]
               /\ m.body = "snapshot" /\ m.state = CS_ACTIVE =>
                    Turns(g, cgs.configstrings, cgs.serverCommandSequence,
                          m.configstrings, m.reliableSequence)
    <3> DEFINE m == toClient[n]
    <3>1. /\ m.reliableSequence <= Len(h)
          /\ m.body # "nop" => Ends(h, m.reliableSequence)
          /\ m.body = "snapshot" /\ m.state = CS_ACTIVE =>
               Turns(h, cgs.configstrings, cgs.serverCommandSequence,
                     m.configstrings, m.reliableSequence)
      BY <1>1, <2>1 DEF Story, FlightInv
    <3>2. m.reliableSequence \in 0 .. cl.reliableSequence
          /\ (m.body # "nop" => m.reliableSequence \in 0 .. sent)
      BY <2>1, SentNumbers DEF sent
    <3>3. \A i \in DOMAIN m.commands : m.commands[i] = g[i]
      <4>1. ClientInv'
        BY DEF IInv
      <4>2. \A i \in DOMAIN toClient'[n].commands : toClient'[n].commands[i] = cl'.issued[i]
        BY <1>2, <4>1 DEF ClientInv, MessagesInv
      <4> QED
        BY <1>2, <1>4, <4>2
    <3> HIDE DEF m
    <3>4. m.reliableSequence <= Len(g)
      BY <1>6, <1>8, <3>1, <3>2
    <3>5. m.body # "nop" => Ends(g, m.reliableSequence)
      BY <1>10, <3>1, <3>2
    <3>6. m.body = "snapshot" /\ m.state = CS_ACTIVE =>
               Turns(g, cgs.configstrings, cgs.serverCommandSequence,
                     m.configstrings, m.reliableSequence)
      BY <1>9, <1>11, <3>1, <3>2
    <3> QED
      BY <1>5, <3>3, <3>4, <3>5, <3>6 DEF m
  <2> QED
    BY <1>2, <2>1 DEF FlightInv
<1>13. ListInv(g, latest)'
  <2>1. ASSUME NEW n \in 1 .. Len(clc.snapshots), Live(clc.snapshots[n])
        PROVE  LET s == clc.snapshots[n] IN
               /\ s.reliableSequence <= Len(g)
               /\ Ends(g, s.serverCommandNum)
               /\ s.state = CS_ACTIVE =>
                    Turns(g, cgs.configstrings, cgs.serverCommandSequence,
                          s.configstrings, s.reliableSequence)
    <3> DEFINE s == clc.snapshots[n]
    <3>1. /\ s.reliableSequence <= Len(h)
          /\ s.serverCommandNum <= latest
          /\ Ends(h, s.serverCommandNum)
          /\ s.state = CS_ACTIVE =>
               Turns(h, cgs.configstrings, cgs.serverCommandSequence,
                     s.configstrings, s.reliableSequence)
      BY <1>1, <2>1 DEF Story, ListInv
    <3>2. s.reliableSequence <= sent
      BY <2>1 DEF ServerInv, sent
    <3>3. s.reliableSequence \in Nat /\ s.serverCommandNum \in Nat
      <4>1. TypeInv
        BY DEF IInv
      <4>2. clc.snapshots \in Seq(Snapshots)
        BY <4>1, VariableTypes
      <4> QED
        BY <2>1, <4>2, SnapshotTypes
    <3> HIDE DEF s
    <3>4. s.reliableSequence \in 0 .. sent /\ s.serverCommandNum \in 0 .. sent
          /\ s.reliableSequence <= Len(g)
      BY <1>6, <1>8, <1>11, <3>1, <3>2, <3>3 DEF sent
    <3>5. Ends(g, s.serverCommandNum)
      BY <1>10, <3>1, <3>4
    <3>6. s.state = CS_ACTIVE =>
               Turns(g, cgs.configstrings, cgs.serverCommandSequence,
                     s.configstrings, s.reliableSequence)
      BY <1>9, <1>11, <3>1, <3>4
    <3> QED
      BY <3>4, <3>5, <3>6 DEF s
  <2>2. \A n \in 1 .. Len(clc.snapshots) : Live(clc.snapshots[n])
    BY <1>1 DEF Story, ListInv
  <2> QED
    BY <1>1, <1>2, <2>1, <2>2 DEF Story, ListInv
<1>14. /\ cgs.serverCommandSequence <= latest
       /\ Ends(g, cgs.serverCommandSequence)
       /\ \A i \in cgs.serverCommandSequence + 1 .. latest :
             clc.serverCommandSequence - i < MAX_RELIABLE_COMMANDS =>
                 clc.serverCommands[Slot(i)] = g[i]
  <2>1. Waits
    BY DEF Waits
  <2>2. /\ cgs.serverCommandSequence <= latest
        /\ Ends(h, cgs.serverCommandSequence)
        /\ \A i \in cgs.serverCommandSequence + 1 .. latest :
              clc.serverCommandSequence - i < MAX_RELIABLE_COMMANDS =>
                  clc.serverCommands[Slot(i)] = h[i]
    BY <1>1, <2>1 DEF Story
  <2>3. \A i \in cgs.serverCommandSequence + 1 .. latest : i \in 1 .. sent
    BY <1>6, <1>11 DEF sent
  <2> QED
    BY <1>7, <1>10, <1>11, <2>2, <2>3
<1>15. Pieces(g)
  BY <1>4 DEF QueueInv
<1>16. Story(g, latest)'
  BY <1>1, <1>2, <1>4, <1>5, <1>12, <1>13, <1>14, <1>15 DEF Story
<1> QED
  BY <1>16 DEF StoryInv

-----------------------------------------------------------------------------
(* Who has, is sent, and acknowledged which map.                           *)

LEMMA QueueStepMap ==
    ASSUME TypeInv, GamestateInv, MapInv, QueueStep,
           \/ cl'.serverIdAcknowledge = cl.serverIdAcknowledge
           \/ \E n \in 1 .. Len(toServer) : cl'.serverIdAcknowledge = toServer[n].serverId,
           cl'.state = CS_CONNECTED =>
               cl.state = CS_CONNECTED \/ sv'.serverId = sv.serverId + 1
    PROVE  MapInv'
<1>1. /\ toClient' = toClient /\ clc' = clc /\ Fewer(toServer', toServer)
      /\ sv'.serverId \in {sv.serverId, sv.serverId + 1}
  BY DEF QueueStep
<1>2. /\ sv.serverId \in Nat /\ clc.serverId \in Nat /\ cl.serverIdAcknowledge \in Nat
      /\ \A n \in 1 .. Len(toClient) : toClient[n].serverId \in Nat
      /\ \A n \in 1 .. Len(toServer) : toServer[n].serverId \in Nat
  <2>1. cl.serverIdAcknowledge \in Nat
    BY ServerCommandsAssumption DEF TypeInv, ClientT
  <2> QED
    BY <2>1, VariableTypes, MessageTypes, PacketTypes
<1>3. /\ clc.serverId <= sv.serverId
      /\ \A n \in 1 .. Len(toClient) : toClient[n].serverId <= sv.serverId
      /\ \A n \in 1 .. Len(toServer) : toServer[n].serverId <= sv.serverId
  BY DEF GamestateInv
<1>4. cl'.serverIdAcknowledge \in Nat /\ cl'.serverIdAcknowledge <= sv.serverId
  BY <1>2, <1>3 DEF MapInv
<1>5. CASE sv'.serverId = sv.serverId
  <2>1. cl'.serverIdAcknowledge = sv.serverId => clc.serverId = sv.serverId
    BY DEF MapInv
  <2>2. \A n \in 1 .. Len(toServer') :
           toServer'[n].serverId = sv.serverId => clc.serverId = sv.serverId
    BY <1>1 DEF MapInv, Fewer
  <2>3. cl'.state = CS_CONNECTED => cl.state = CS_CONNECTED
    BY <1>2, <1>5
  <2> QED
    BY <1>1, <1>4, <1>5, <2>1, <2>2, <2>3 DEF MapInv
<1>6. CASE sv'.serverId = sv.serverId + 1
  <2>1. /\ cl'.serverIdAcknowledge <= sv'.serverId /\ cl'.serverIdAcknowledge # sv'.serverId
        /\ clc.serverId < sv'.serverId /\ clc.serverId # sv'.serverId
    BY <1>2, <1>3, <1>4, <1>6
  <2>2. \A n \in 1 .. Len(toServer') : toServer'[n].serverId # sv'.serverId
    <3>1. \A n \in 1 .. Len(toServer) : toServer[n].serverId # sv'.serverId
      BY <1>2, <1>3, <1>6
    <3> QED
      BY <1>1, <3>1 DEF Fewer
  <2>3. \A n \in 1 .. Len(toClient) : toClient[n].serverId < sv'.serverId
    BY <1>2, <1>3, <1>6
  <2> QED
    BY <1>1, <2>1, <2>2, <2>3 DEF MapInv
<1> QED
  BY <1>1, <1>5, <1>6

LEMMA SendStepMap ==
    ASSUME TypeInv, GamestateInv, MapInv, NEW m, SendStep(m), Made(m)
    PROVE  MapInv'
<1> DEFINE last == Len(toClient')
<1>1. PICK d \in {0, 1} : \A i \in 1 .. last - 1 :
         i + d \in 1 .. Len(toClient) /\ toClient'[i] = toClient[i + d]
  BY SendStepTypes
<1>2. last \in Nat /\ last > 0 /\ toClient'[last] = m
  BY SendStepTypes
<1> HIDE DEF last
<1>3. /\ sv' = sv /\ clc' = clc /\ Fewer(toServer', toServer)
      /\ m.serverId = sv.serverId
      /\ cl.state # CS_ZOMBIE => Live(m)
  BY DEF SendStep
<1>4. /\ sv.serverId \in Nat /\ clc.serverId \in Nat
      /\ \A n \in 1 .. Len(toClient) :
            toClient[n].serverId \in Nat /\ toClient[n].serverId <= sv.serverId
      /\ \A n \in 1 .. Len(toServer) : toServer[n].serverId <= sv.serverId
      /\ clc.serverId <= sv.serverId
  BY VariableTypes, MessageTypes DEF GamestateInv
<1>5. /\ cl'.serverIdAcknowledge <= sv.serverId
      /\ cl'.serverIdAcknowledge = sv.serverId => clc.serverId = sv.serverId
  BY <1>4 DEF MapInv, Made
<1>6. \A n \in 1 .. Len(toServer') :
         toServer'[n].serverId = sv.serverId => clc.serverId = sv.serverId
  BY <1>3 DEF MapInv, Fewer
<1>7. ASSUME clc.serverId = sv.serverId, NEW n \in 1 .. last, toClient'[n].body = "gamestate"
      PROVE  FALSE
  <2>1. CASE n = last
    BY <1>2, <1>7, <2>1 DEF Made, Ahead
  <2>2. CASE n # last
    <3>1. n \in 1 .. last - 1
      BY <1>2, <2>2
    <3> QED
      BY <1>1, <1>7, <3>1 DEF MapInv
  <2> QED
    BY <2>1, <2>2
<1>8. ASSUME NEW n \in 1 .. last, toClient'[n].body = "gamestate"
      PROVE  /\ Live(toClient'[n])
             /\ \A i \in n + 1 .. last :
                   /\ toClient'[i].body # "snapshot"
                   /\ toClient'[i].body = "gamestate" =>
                         toClient'[n].serverId < toClient'[i].serverId
  <2>1. CASE n = last
    BY <1>2, <1>3, <1>8, <2>1 DEF Made
  <2>2. CASE n # last
    <3>1. n \in 1 .. last - 1
      BY <1>2, <2>2
    <3>2. n + d \in 1 .. Len(toClient) /\ toClient'[n] = toClient[n + d]
      BY <1>1, <3>1
    <3>3. Live(toClient'[n])
      BY <1>8, <3>2 DEF MapInv
    <3>4. ASSUME NEW i \in n + 1 .. last
          PROVE  /\ toClient'[i].body # "snapshot"
                 /\ toClient'[i].body = "gamestate" =>
                       toClient'[n].serverId < toClient'[i].serverId
      <4>1. CASE i = last
        <5>1. m.body # "snapshot"
          <6> SUFFICES ASSUME m.body = "snapshot" PROVE FALSE
            OBVIOUS
          <6>1. clc.serverId = sv.serverId
            BY DEF Made, MapInv
          <6> QED
            BY <1>8, <3>2, <6>1 DEF MapInv
        <5>2. m.body = "gamestate" => toClient[n + d].serverId # sv.serverId
          BY <1>8, <3>2 DEF Made, Ahead
        <5>3. m.body = "gamestate" => toClient[n + d].serverId < sv.serverId
          BY <1>4, <3>2, <5>2
        <5> QED
          BY <1>2, <1>3, <3>2, <4>1, <5>1, <5>3
      <4>2. CASE i # last
        <5>1. i \in 1 .. last - 1
          BY <1>2, <3>1, <4>2
        <5>2. i + d \in 1 .. Len(toClient) /\ toClient'[i] = toClient[i + d]
          BY <1>1, <5>1
        <5>3. i + d \in (n + d) + 1 .. Len(toClient)
          BY <3>1, <3>2, <5>1, <5>2
        <5> QED
          BY <1>8, <3>2, <5>2, <5>3 DEF MapInv
      <4> QED
        BY <4>1, <4>2
    <3> QED
      BY <3>3, <3>4
  <2> QED
    BY <2>1, <2>2
<1>9. ASSUME cl'.state = CS_CONNECTED
      PROVE  /\ clc.serverId < sv.serverId
             /\ \A n \in 1 .. last :
                   toClient'[n].body = "gamestate" => toClient'[n].serverId < sv.serverId
  <2>1. m.body # "gamestate" /\ cl.state = CS_CONNECTED
    BY <1>9 DEF Made, CS_PRIMED, CS_CONNECTED
  <2>2. \A n \in 1 .. last : n = last \/ n \in 1 .. last - 1
    BY <1>2
  <2> QED
    BY <1>1, <1>2, <2>1, <2>2 DEF MapInv
<1> QED
  BY <1>3, <1>5, <1>6, <1>7, <1>8, <1>9 DEF MapInv, last

\* The messages left after number n was read.
LEMMA AfterShift ==
    ASSUME NEW r, NEW s, NEW S, NEW n \in 1 .. Len(s), After(r, s, n, S)
    PROVE  /\ Len(r) \in Nat /\ n \in Nat
           /\ \A i \in 1 .. Len(r) : n + i \in n + 1 .. Len(s) /\ r[i] = s[n + i]
BY DEF After

LEMMA ParseMap ==
    ASSUME TypeInv, GamestateInv, MapInv, NEW m, NEW n, ParseStep(m, n)
    PROVE  MapInv'
<1>1. /\ n \in 1 .. Len(toClient) /\ m = toClient[n]
      /\ cl' = cl /\ sv' = sv /\ toServer' = toServer
      /\ m.body = "gamestate" => clc'.serverId = m.serverId
      /\ m.body # "gamestate" => clc'.serverId = clc.serverId
      /\ After(toClient', toClient, n, Messages)
  BY DEF ParseStep, server
<1>2. /\ Len(toClient') \in Nat /\ n \in Nat
      /\ \A i \in 1 .. Len(toClient') :
            n + i \in n + 1 .. Len(toClient) /\ toClient'[i] = toClient[n + i]
  BY <1>1, AfterShift
<1>3. /\ sv.serverId \in Nat /\ clc.serverId \in Nat /\ Len(toClient) \in Nat
      /\ \A i \in 1 .. Len(toClient) :
            toClient[i].serverId \in Nat /\ toClient[i].serverId <= sv.serverId
  BY VariableTypes, MessageTypes DEF GamestateInv
<1>4. clc.serverId = sv.serverId => clc'.serverId = sv.serverId
  BY <1>1 DEF MapInv
<1>5. ASSUME clc'.serverId = sv.serverId, NEW i \in 1 .. Len(toClient'),
             toClient'[i].body = "gamestate"
      PROVE  FALSE
  <2>1. n + i \in n + 1 .. Len(toClient) /\ toClient'[i] = toClient[n + i]
        /\ n + i \in 1 .. Len(toClient)
    BY <1>1, <1>2, <1>3
  <2>2. CASE m.body # "gamestate"
    BY <1>1, <1>5, <2>1, <2>2 DEF MapInv
  <2>3. CASE m.body = "gamestate"
    <3>1. m.serverId < toClient[n + i].serverId
      BY <1>1, <1>5, <2>1, <2>3 DEF MapInv
    <3>2. toClient[n + i].serverId <= sv.serverId /\ toClient[n + i].serverId \in Nat
      BY <1>3, <2>1
    <3> QED
      BY <1>1, <1>3, <1>5, <2>3, <3>1, <3>2
  <2> QED
    BY <2>2, <2>3
<1>6. ASSUME NEW i \in 1 .. Len(toClient'), toClient'[i].body = "gamestate"
      PROVE  /\ Live(toClient'[i])
             /\ \A j \in i + 1 .. Len(toClient') :
                   /\ toClient'[j].body # "snapshot"
                   /\ toClient'[j].body = "gamestate" =>
                         toClient'[i].serverId < toClient'[j].serverId
  <2>1. n + i \in 1 .. Len(toClient) /\ toClient'[i] = toClient[n + i]
    BY <1>1, <1>2, <1>3
  <2>2. ASSUME NEW j \in i + 1 .. Len(toClient')
        PROVE  n + j \in (n + i) + 1 .. Len(toClient) /\ toClient'[j] = toClient[n + j]
    <3>1. j \in 1 .. Len(toClient')
      BY <1>2
    <3>2. n + j \in n + 1 .. Len(toClient) /\ toClient'[j] = toClient[n + j]
      BY <1>2, <3>1
    <3> QED
      BY <1>1, <1>2, <1>3, <3>2
  <2> QED
    BY <1>6, <2>1, <2>2 DEF MapInv
<1>7. ASSUME cl.state = CS_CONNECTED
      PROVE  /\ clc'.serverId < sv.serverId
             /\ \A i \in 1 .. Len(toClient') :
                   toClient'[i].body = "gamestate" => toClient'[i].serverId < sv.serverId
  <2>1. \A i \in 1 .. Len(toClient') :
           n + i \in 1 .. Len(toClient) /\ toClient'[i] = toClient[n + i]
    BY <1>1, <1>2, <1>3
  <2> QED
    BY <1>1, <1>7, <2>1 DEF MapInv
<1> QED
  BY <1>1, <1>4, <1>5, <1>6, <1>7 DEF MapInv

LEMMA WriteMap ==
    ASSUME TypeInv, MapInv, NEW move \in BOOLEAN, CL_WritePacket(move)
    PROVE  MapInv'
<1> DEFINE p == [serverId |-> clc.serverId, move |-> move,
                 messageAcknowledge |-> clc.serverMessageSequence,
                 reliableAcknowledge |-> clc.serverCommandSequence,
                 key |-> clc.serverCommands[Slot(clc.serverCommandSequence)]]
           last == Len(toServer')
<1>1. p \in Packets
  <2>1. /\ clc.serverId \in 0 .. MaxServerId
        /\ clc.serverMessageSequence \in Nat /\ clc.serverCommandSequence \in Nat
        /\ clc.serverCommands \in [Ring -> Commands]
    BY DEF TypeInv, ClientConnection
  <2>2. clc.serverCommands[Slot(clc.serverCommandSequence)] \in Commands
    BY <2>1, SlotInRing
  <2> QED
    BY <2>1, <2>2 DEF Packets
<1>2. p.serverId = clc.serverId
  OBVIOUS
<1>3. toServer' = Sent(toServer, p) /\ UNCHANGED <<server, toClient, clc, cgs, history>>
  BY DEF CL_WritePacket
<1> HIDE DEF p
<1>4. EndsWith(toServer', toServer, p, Packets)
  <2> DEFINE r == Sent(toServer, p)
  <2>1. EndsWith(r, toServer, p, Packets)
    BY <1>1, VariableTypes, SentLast
  <2>2. toServer' = r
    BY <1>3
  <2> HIDE DEF r
  <2> QED
    BY <2>1, <2>2
<1>5. last \in Nat /\ last > 0 /\ toServer'[last] = p
      /\ \E d \in {0, 1} : \A i \in 1 .. last - 1 :
            i + d \in 1 .. Len(toServer) /\ toServer'[i] = toServer[i + d]
  BY <1>4 DEF EndsWith
<1> HIDE DEF last
<1>6. \A n \in 1 .. last : toServer'[n].serverId = sv.serverId => clc.serverId = sv.serverId
  <2>1. \A n \in 1 .. last : n = last \/ n \in 1 .. last - 1
    BY <1>5
  <2> QED
    BY <1>2, <1>5, <2>1 DEF MapInv
<1> QED
  BY <1>3, <1>6 DEF MapInv, server, last

LEMMA ProcessMap ==
    ASSUME MapInv, NEW s, ProcessStep(s)
    PROVE  MapInv'
BY DEF MapInv, ProcessStep, server

-----------------------------------------------------------------------------
(* The invariant about configstrings, while no packet was found out of     *)
(* range and no message lacked room for the pieces of a long string.       *)

Plain == ~illegible /\ (LongString = {} \/ ~deferred)

StringsInv ==
    Plain => /\ cl.state # CS_ZOMBIE => ServerInv
             /\ StoryInv
             /\ ConfigstringsCurrent

\* What a step that changes the queue has to keep.
Passes == /\ QueueInv(cl')
          /\ \/ Ahead'
             \/ /\ sv'.serverId = sv.serverId
                /\ Renews(cl, sv.configstrings, cl', sv'.configstrings)

LEMMA QueueStepStrings ==
    ASSUME IInv, IInv', StringsInv, QueueStep,
           ~illegible /\ ~illegible' /\ cl.state # CS_ZOMBIE /\ cl'.state # CS_ZOMBIE /\ ServerInv
               => Passes
    PROVE  StringsInv'
<1> SUFFICES ASSUME Plain'
             PROVE  /\ cl'.state # CS_ZOMBIE => ServerInv'
                    /\ StoryInv'
                    /\ ConfigstringsCurrent'
  BY DEF StringsInv
<1>1. /\ illegible => illegible'
      /\ deferred' = deferred /\ clc' = clc /\ cgs' = cgs
      /\ cl'.state # CS_ZOMBIE => cl.state # CS_ZOMBIE
  BY DEF QueueStep, Keeps
<1>2. Plain /\ ~illegible /\ ~illegible'
  BY <1>1 DEF Plain
<1>3. /\ cl.state # CS_ZOMBIE => ServerInv
      /\ StoryInv
      /\ ConfigstringsCurrent
  BY <1>2 DEF StringsInv
<1>4. ConfigstringsCurrent'
  BY <1>1, <1>2, <1>3 DEF ConfigstringsCurrent, Showing
<1>5. CASE cl'.state = CS_ZOMBIE
  BY <1>3, <1>4, <1>5, QueueStepDropped
<1>6. CASE cl'.state # CS_ZOMBIE
  <2>1. cl.state # CS_ZOMBIE /\ ServerInv
    BY <1>1, <1>3, <1>6
  <2>2. Passes
    BY <1>2, <1>6, <2>1
  <2>3. QueueInv(cl')
    BY <2>2 DEF Passes
  <2>4. Ahead' \/ (/\ sv'.serverId = sv.serverId
                   /\ Renews(cl, sv.configstrings, cl', sv'.configstrings))
    BY <2>2 DEF Passes
  <2>5. ServerInv'
    BY <1>2, <1>6, <2>1, <2>3, <2>4, QueueStepServer
  <2>6. StoryInv'
    BY <1>2, <1>3, <1>6, <2>1, <2>3, QueueStepStory
  <2> QED
    BY <1>4, <2>5, <2>6
<1> QED
  BY <1>5, <1>6

LEMMA ClientQueue ==
    ASSUME IInv, ~illegible, cl.state # CS_ZOMBIE
    PROVE  Queue(cl)
<1>1. /\ TypeInv /\ RingOK(cl) /\ cl \in ClientT
      /\ cl.reliableAcknowledge <= clc.serverCommandSequence
      /\ clc.serverCommandSequence <= cl.reliableSent
      /\ cl.reliableSent <= cl.reliableSequence
  BY DEF IInv, TypeInv, ClientInv, HoldsInv
<1>2. /\ cl.reliableAcknowledge \in Nat /\ clc.serverCommandSequence \in Nat
      /\ cl.reliableSent \in Nat
  BY <1>1, VariableTypes
<1> QED
  BY <1>1, <1>2 DEF Queue

\* The queue and the flags are the same.
LEMMA SamePasses ==
    ASSUME ServerInv, sv' = sv,
           cl'.issued = cl.issued, cl'.reliableSequence = cl.reliableSequence,
           cl'.reliableSent = cl.reliableSent,
           cl'.state = cl.state, cl'.csUpdated = cl.csUpdated
    PROVE  Passes
<1>1. QueueInv(cl')
  BY DEF ServerInv, QueueInv, OnePending
<1>2. Renews(cl, sv.configstrings, cl', sv'.configstrings)
  BY DEF Renews, Current, Due
<1> QED
  BY <1>1, <1>2 DEF Passes

\* Flagged while the client loads, sent to one in the world; a client that has
\* no gamestate will get the value with it.
LEMMA SetConfigstringStrings ==
    ASSUME Orderly, IInv, IInv', MapInv, StringsInv, NEW k \in ConfigString, SV_SetConfigstring(k)
    PROVE  StringsInv' /\ MapInv'
<1> DEFINE v == changes + 1
<1>1. TypeInv /\ GamestateInv /\ QueueStep /\ cl \in ClientT /\ RingOK(cl)
  BY SetConfigstringOK DEF IInv, TypeInv
<1>2. /\ v \in Value /\ sv' = [sv EXCEPT !.configstrings[k] = v]
      /\ sv \in [serverId : 1 .. MaxServerId, configstrings : Strings]
  BY <1>1, ServerTypes DEF SV_SetConfigstring
<1>3. cl' = IF cl.state = CS_PRIMED THEN [cl EXCEPT !.csUpdated[k] = TRUE]
            ELSE IF cl.state = CS_ACTIVE THEN SV_SendConfigstring(cl, k, v) ELSE cl
  BY DEF SV_SetConfigstring
<1>4. clc' = clc /\ toClient' = toClient
  BY DEF SV_SetConfigstring
<1> HIDE DEF v
<1>5. /\ sv'.serverId = sv.serverId /\ sv'.configstrings[k] = v
      /\ \A j \in ConfigString : j # k => sv'.configstrings[j] = sv.configstrings[j]
  BY <1>2 DEF Strings
<1>6. CASE cl.state = CS_PRIMED
  <2>1. /\ cl'.issued = cl.issued /\ cl'.reliableSequence = cl.reliableSequence
        /\ cl'.reliableSent = cl.reliableSent
        /\ cl'.state = cl.state
        /\ cl'.serverIdAcknowledge = cl.serverIdAcknowledge
        /\ cl'.csUpdated[k] = TRUE
        /\ \A j \in ConfigString : j # k => cl'.csUpdated[j] = cl.csUpdated[j]
    BY <1>1, <1>3, <1>6 DEF ClientT
  <2>2. ASSUME ServerInv PROVE Passes
    <3>1. QueueInv(cl')
      BY <2>1, <2>2 DEF ServerInv, QueueInv, OnePending
    <3>2. ASSUME NEW f, NEW n \in 0 .. cl.reliableSent, Current(cl, sv.configstrings, f, n),
                 NEW j \in ConfigString
          PROVE  Due(cl', j) \/ Leads(cl'.issued, j, f[j], n, sv'.configstrings[j],
                                      cl'.reliableSequence)
      <4>1. CASE j = k
        BY <1>6, <2>1, <4>1 DEF Due
      <4>2. CASE j # k
        <5>1. Due(cl, j) \/ Leads(cl.issued, j, f[j], n, sv.configstrings[j],
                                  cl.reliableSequence)
          BY <3>2 DEF Current
        <5>2. Due(cl, j) => Due(cl', j)
          BY <1>6, <2>1, <4>2 DEF Due
        <5> QED
          BY <1>5, <2>1, <4>2, <5>1, <5>2
      <4> QED
        BY <4>1, <4>2
    <3>3. Renews(cl, sv.configstrings, cl', sv'.configstrings)
      BY <3>2 DEF Renews, Current
    <3> QED
      BY <1>5, <3>1, <3>3 DEF Passes
  <2>3. StringsInv'
    BY <1>1, <2>2, QueueStepStrings
  <2>4. MapInv'
    BY <1>1, <2>1, QueueStepMap
  <2> QED
    BY <2>3, <2>4
<1>7. CASE cl.state = CS_ACTIVE
  <2>1. cl' = SV_SendConfigstring(cl, k, v)
    BY <1>3, <1>7 DEF CS_ACTIVE, CS_PRIMED
  <2>2. Evolves(cl, cl')
    BY <1>1, <1>2, <2>1, SendConfigstringOK
  <2>3. ASSUME ServerInv, ~illegible, cl'.state # CS_ZOMBIE PROVE Passes
    <3>1. cl.state # CS_ZOMBIE /\ cl.state \in {CS_PRIMED, CS_ACTIVE} /\ cl.state # CS_PRIMED
      BY <1>7 DEF CS_ZOMBIE, CS_ACTIVE, CS_PRIMED
    <3>2. Queue(cl) /\ QueueInv(cl)
      BY <2>3, <3>1, ClientQueue DEF ServerInv
    <3>3. Brings(cl, cl', k, v)
      BY <1>2, <2>1, <3>1, <3>2, SendBrings
    <3>4. ASSUME NEW f, NEW n \in 0 .. cl.reliableSent, Current(cl, sv.configstrings, f, n),
                 NEW j \in ConfigString
          PROVE  Leads(cl'.issued, j, f[j], n, sv'.configstrings[j], cl'.reliableSequence)
      <4>1. CASE j = k
        BY <1>5, <2>3, <3>3, <4>1 DEF Brings
      <4>2. CASE j # k
        <5>1. Leads(cl.issued, j, f[j], n, sv.configstrings[j], cl.reliableSequence)
          BY <3>1, <3>4 DEF Current, Due
        <5> QED
          BY <1>5, <2>3, <3>3, <4>2, <5>1 DEF Brings
      <4> QED
        BY <4>1, <4>2
    <3>5. Renews(cl, sv.configstrings, cl', sv'.configstrings)
      BY <3>4 DEF Renews, Current
    <3> QED
      BY <1>5, <2>3, <3>3, <3>5 DEF Passes, Brings
  <2>4. StringsInv'
    BY <1>1, <2>3, QueueStepStrings
  <2>5. MapInv'
    <3>1. /\ cl'.serverIdAcknowledge = cl.serverIdAcknowledge
          /\ cl'.state \in {CS_ACTIVE, CS_ZOMBIE}
      BY <1>7, <2>2 DEF Evolves
    <3>2. cl'.state # CS_CONNECTED
      BY <3>1 DEF CS_ACTIVE, CS_ZOMBIE, CS_CONNECTED
    <3> QED
      BY <1>1, <3>1, <3>2, QueueStepMap
  <2> QED
    BY <2>4, <2>5
<1>8. CASE cl.state # CS_PRIMED /\ cl.state # CS_ACTIVE
  <2>1. cl' = cl
    BY <1>3, <1>8
  <2>2. MapInv'
    BY <1>1, <2>1, QueueStepMap
  <2>3. ASSUME ServerInv, cl.state # CS_ZOMBIE PROVE Passes
    <3>1. cl.state = CS_CONNECTED
      BY <1>1, <1>8, <2>3 DEF ClientT, States
    <3>2. Ahead'
      <4>1. /\ clc.serverId < sv.serverId
            /\ \A n \in 1 .. Len(toClient) :
                  toClient[n].body = "gamestate" => toClient[n].serverId < sv.serverId
        BY <3>1 DEF MapInv
      <4>2. /\ clc.serverId \in Nat /\ sv.serverId \in Nat
            /\ \A n \in 1 .. Len(toClient) : toClient[n].serverId \in Nat
        BY <1>1, VariableTypes, MessageTypes
      <4>3. /\ clc.serverId # sv.serverId
            /\ \A n \in 1 .. Len(toClient) :
                  toClient[n].body = "gamestate" => toClient[n].serverId # sv.serverId
        BY <4>1, <4>2
      <4> QED
        BY <1>4, <1>5, <4>3 DEF Ahead
    <3> QED
      BY <2>1, <2>3, <3>2 DEF Passes, ServerInv
  <2>4. StringsInv'
    BY <1>1, <2>3, QueueStepStrings
  <2> QED
    BY <2>2, <2>4
<1> QED
  BY <1>6, <1>7, <1>8

LEMMA SendServerCommandStrings ==
    ASSUME IInv, IInv', MapInv, StringsInv, SV_SendServerCommand
    PROVE  StringsInv' /\ MapInv'
<1> DEFINE cmd == Printed(changes + 1)
<1>1. TypeInv /\ GamestateInv /\ QueueStep /\ cl \in ClientT /\ RingOK(cl)
  BY SendServerCommandOK DEF IInv, TypeInv
<1>2. /\ changes + 1 \in Value /\ sv' = sv /\ cl' = SV_AddServerCommand(cl, cmd)
  BY <1>1, ServerTypes DEF SV_SendServerCommand
<1>3. cmd.op = "print" /\ cmd \in Commands
  BY <1>2, CommandTypes DEF Printed, Command
<1> HIDE DEF cmd
<1>4. Evolves(cl, cl')
  BY <1>1, <1>2, <1>3, AddOK
<1>5. MapInv'
  <2>1. /\ cl'.serverIdAcknowledge = cl.serverIdAcknowledge
        /\ cl'.state = CS_CONNECTED => cl.state = CS_CONNECTED
    BY <1>4 DEF Evolves, CS_ZOMBIE, CS_CONNECTED
  <2> QED
    BY <1>1, <2>1, QueueStepMap
<1>6. ASSUME ServerInv, ~illegible, cl.state # CS_ZOMBIE, cl'.state # CS_ZOMBIE PROVE Passes
  <2>1. CASE cl.state < CS_PRIMED
    <3>1. cl' = cl
      BY <1>2, <1>3, <2>1, AddIs
    <3> QED
      BY <1>2, <1>6, <3>1, SamePasses
  <2>2. CASE ~(cl.state < CS_PRIMED)
    <3>1. cl.state \in {CS_PRIMED, CS_ACTIVE}
      BY <1>1, <2>2 DEF ClientT, States, CS_ZOMBIE, CS_CONNECTED, CS_PRIMED, CS_ACTIVE
    <3>2. Queue(cl) /\ QueueInv(cl)
      BY <1>6, ClientQueue DEF ServerInv
    <3>3. Brings(cl, cl', NoIndex, changes + 1)
      BY <1>2, <3>1, <3>2, PrintBrings DEF cmd
    <3>4. cl'.state = cl.state
      BY <1>4, <1>6 DEF Evolves
    <3>5. NoIndex \notin ConfigString
      BY ServerCommandsAssumption DEF NoIndex
    <3>6. ASSUME NEW f, NEW n \in 0 .. cl.reliableSent, Current(cl, sv.configstrings, f, n),
                 NEW j \in ConfigString
          PROVE  Due(cl', j) \/ Leads(cl'.issued, j, f[j], n, sv.configstrings[j],
                                      cl'.reliableSequence)
      <4>1. Due(cl, j) \/ Leads(cl.issued, j, f[j], n, sv.configstrings[j],
                                cl.reliableSequence)
        BY <3>6 DEF Current
      <4>2. Due(cl, j) => Due(cl', j)
        BY <1>6, <3>3, <3>4 DEF Due, Brings
      <4>3. j # NoIndex
        BY <3>5
      <4>4. \A w : Leads(cl.issued, j, f[j], n, w, cl.reliableSequence) =>
                   Leads(cl'.issued, j, f[j], n, w, cl'.reliableSequence)
        BY <1>6, <3>3, <4>3 DEF Brings
      <4> QED
        BY <4>1, <4>2, <4>4
    <3>7. Renews(cl, sv.configstrings, cl', sv'.configstrings)
      BY <1>2, <3>6 DEF Renews, Current
    <3> QED
      BY <1>2, <1>6, <3>3, <3>7 DEF Passes, Brings
  <2> QED
    BY <2>1, <2>2
<1>7. StringsInv'
  BY <1>1, <1>6, QueueStepStrings
<1> QED
  BY <1>5, <1>7

LEMMA DropClientStrings ==
    ASSUME IInv, IInv', MapInv, StringsInv, DropClient
    PROVE  StringsInv' /\ MapInv'
<1>1. TypeInv /\ GamestateInv /\ QueueStep /\ cl \in ClientT /\ RingOK(cl)
  BY DropClientOK DEF IInv, TypeInv
<1>2. Evolves(cl, cl') /\ cl'.state = CS_ZOMBIE
  BY <1>1, DropOK DEF DropClient
<1>3. MapInv'
  BY <1>1, <1>2, QueueStepMap DEF Evolves, CS_ZOMBIE, CS_CONNECTED
<1>4. StringsInv'
  BY <1>1, <1>2, QueueStepStrings
<1> QED
  BY <1>3, <1>4

LEMMA SpawnServerStrings ==
    ASSUME IInv, IInv', MapInv, StringsInv, SV_SpawnServer
    PROVE  StringsInv' /\ MapInv'
<1>1. TypeInv /\ GamestateInv /\ QueueStep /\ cl \in ClientT
  BY SpawnServerOK DEF IInv, TypeInv
<1>2. /\ sv'.serverId = sv.serverId + 1
      /\ clc' = clc /\ toClient' = toClient
      /\ cl' = IF cl.state >= CS_CONNECTED THEN [cl EXCEPT !.state = CS_CONNECTED] ELSE cl
  BY DEF SV_SpawnServer
<1>3. /\ cl'.issued = cl.issued /\ cl'.reliableSequence = cl.reliableSequence
      /\ cl'.reliableSent = cl.reliableSent
      /\ cl'.serverIdAcknowledge = cl.serverIdAcknowledge
  BY <1>1, <1>2 DEF ClientT
<1>4. MapInv'
  BY <1>1, <1>2, <1>3, QueueStepMap
<1>5. ASSUME ServerInv PROVE Passes
  <2>1. QueueInv(cl')
    BY <1>3, <1>5 DEF ServerInv, QueueInv, OnePending
  <2>2. /\ clc.serverId \in Nat /\ sv.serverId \in Nat /\ clc.serverId <= sv.serverId
        /\ \A n \in 1 .. Len(toClient) :
              toClient[n].serverId \in Nat /\ toClient[n].serverId <= sv.serverId
    BY <1>1, VariableTypes, MessageTypes DEF GamestateInv
  <2>3. /\ clc.serverId # sv.serverId + 1
        /\ \A n \in 1 .. Len(toClient) : toClient[n].serverId # sv.serverId + 1
    BY <2>2
  <2>4. Ahead'
    BY <1>2, <2>3 DEF Ahead
  <2> QED
    BY <2>1, <2>4 DEF Passes
<1>6. StringsInv'
  BY <1>1, <1>5, QueueStepStrings
<1> QED
  BY <1>4, <1>6

\* The flagged configstrings are sent to a client that enters the world.
LEMMA EnterWorldPasses ==
    ASSUME Orderly, TypeInv, NEW d, Queue(d), cl.state = CS_PRIMED, ServerInv, sv' = sv,
           d.issued = cl.issued, d.reliableSequence = cl.reliableSequence,
           d.reliableSent = cl.reliableSent, d.csUpdated = cl.csUpdated,
           cl' = SV_ClientEnterWorld(d), cl'.state # CS_ZOMBIE
    PROVE  Passes
<1> DEFINE e == [d EXCEPT !.state = CS_ACTIVE]
<1>1. d \in ClientT /\ RingOK(d) /\ sv.configstrings \in Strings
  BY VariableTypes DEF Queue
<1>2. /\ e \in ClientT /\ e.state = CS_ACTIVE
      /\ e.reliableSequence = cl.reliableSequence
      /\ e.reliableAcknowledge = d.reliableAcknowledge
      /\ e.reliableSent = cl.reliableSent /\ e.csUpdated = cl.csUpdated
      /\ e.reliableCommands = d.reliableCommands /\ e.issued = cl.issued
  BY <1>1 DEF ClientT, States
<1>3. cl' = SV_UpdateConfigstrings(e)
  BY DEF SV_ClientEnterWorld
<1> HIDE DEF e
<1>4. e.state # CS_ZOMBIE
  BY <1>2 DEF CS_ACTIVE, CS_ZOMBIE
<1>5. RingOK(e)
  BY <1>1, <1>2, <1>4, SameQueue DEF Queue
<1>6. Queue(e) /\ QueueInv(e)
  BY <1>2, <1>4, <1>5 DEF Queue, ServerInv, QueueInv, OnePending
<1>7. Updated(e, cl', Largest(ConfigString))
  BY <1>1, <1>2, <1>3, <1>6, UpdateBrings
<1>8. \A j \in ConfigString : j <= Largest(ConfigString)
  BY LargestIn, ServerCommandsAssumption
<1>9. ASSUME NEW f, NEW n \in 0 .. cl.reliableSent, Current(cl, sv.configstrings, f, n),
             NEW j \in ConfigString
      PROVE  Leads(cl'.issued, j, f[j], n, sv.configstrings[j], cl'.reliableSequence)
  <2>1. CASE cl.csUpdated[j]
    BY <1>2, <1>7, <1>8, <2>1 DEF Updated
  <2>2. CASE ~cl.csUpdated[j]
    <3>1. Leads(cl.issued, j, f[j], n, sv.configstrings[j], cl.reliableSequence)
      BY <1>9, <2>2 DEF Current, Due
    <3>2. Leads(e.issued, j, f[j], n, sv.configstrings[j], e.reliableSequence)
      BY <1>2, <3>1
    <3>3. n \in 0 .. e.reliableSent /\ ~(e.csUpdated[j] /\ j <= Largest(ConfigString))
      BY <1>2, <2>2
    <3> QED
      BY <1>7, <3>2, <3>3 DEF Updated
  <2> QED
    BY <2>1, <2>2
<1>10. Renews(cl, sv.configstrings, cl', sv'.configstrings)
  BY <1>9 DEF Renews, Current
<1> QED
  BY <1>7, <1>10 DEF Passes, Updated

LEMMA CurrentGameStateStrings ==
    ASSUME Orderly, IInv, IInv', MapInv, StringsInv,
           NEW n \in 1 .. Len(toServer), cl.state # CS_ZOMBIE,
           toServer' = SubSeq(toServer, n + 1, Len(toServer)),
           CurrentGameState(toServer[n]), UNCHANGED <<sv, changes, clc, cgs>>
    PROVE  StringsInv' /\ MapInv'
<1> DEFINE p == toServer[n]
           d == Acknowledged(cl, p)
<1>1. /\ TypeInv /\ GamestateInv /\ QueueStep /\ cl \in ClientT /\ RingOK(cl) /\ p \in Packets
      /\ p.reliableAcknowledge \in Nat /\ cl.reliableSent \in Nat
      /\ clc.serverCommandSequence \in Nat /\ sv.configstrings \in Strings
  BY CurrentGameStateOK, VariableTypes, PacketTypes DEF IInv, TypeInv
<1>2. /\ Legible(cl, p)
      /\ cl' = IF p.move /\ cl.state = CS_PRIMED THEN SV_ClientEnterWorld(d) ELSE d
      /\ sv' = sv
  BY DEF CurrentGameState
<1>3. ~illegible => p.reliableAcknowledge <= clc.serverCommandSequence
                    /\ clc.serverCommandSequence <= cl.reliableSent
                    /\ cl.reliableSent <= cl.reliableSequence
  BY DEF IInv, ClientInv, PacketsInv, HoldsInv
<1>4. p.serverId = toServer[n].serverId
  OBVIOUS
<1> HIDE DEF p
<1>5. /\ d \in ClientT /\ RingOK(d) /\ d.state = cl.state
      /\ d.reliableSequence = cl.reliableSequence
      /\ d.reliableSent = cl.reliableSent /\ d.issued = cl.issued
      /\ d.reliableAcknowledge = p.reliableAcknowledge
      /\ d.csUpdated = cl.csUpdated /\ d.serverIdAcknowledge = p.serverId
  BY <1>1, <1>2, AcknowledgedFields
<1>6. ~illegible => Queue(d)
  BY <1>1, <1>3, <1>5 DEF Queue
<1> HIDE DEF d
<1>7. CASE p.move /\ cl.state = CS_PRIMED
  <2> DEFINE e == [d EXCEPT !.state = CS_ACTIVE]
  <2>1. cl' = SV_ClientEnterWorld(d)
    BY <1>2, <1>7
  <2>2. Evolves(e, cl')
    BY <1>1, <1>5, <2>1, EnterWorldOK
  <2>3. e.state = CS_ACTIVE /\ e.serverIdAcknowledge = p.serverId
    BY <1>5 DEF ClientT
  <2> HIDE DEF e
  <2>4. cl'.serverIdAcknowledge = p.serverId /\ cl'.state # CS_CONNECTED
    BY <2>2, <2>3 DEF Evolves, CS_ACTIVE, CS_CONNECTED, CS_ZOMBIE
  <2>5. MapInv'
    BY <1>1, <1>4, <2>4, QueueStepMap
  <2>6. ASSUME ServerInv, ~illegible, cl'.state # CS_ZOMBIE PROVE Passes
    BY <1>1, <1>2, <1>5, <1>6, <1>7, <2>1, <2>6, EnterWorldPasses
  <2>7. StringsInv'
    BY <1>1, <2>6, QueueStepStrings
  <2> QED
    BY <2>5, <2>7
<1>8. CASE ~(p.move /\ cl.state = CS_PRIMED)
  <2>1. cl' = d
    BY <1>2, <1>8
  <2>2. MapInv'
    BY <1>1, <1>4, <1>5, <2>1, QueueStepMap
  <2>3. ServerInv => Passes
    BY <1>2, <1>5, <2>1, SamePasses
  <2>4. StringsInv'
    BY <1>1, <2>3, QueueStepStrings
  <2> QED
    BY <2>2, <2>4
<1> QED
  BY <1>7, <1>8

-----------------------------------------------------------------------------
(* Steps that send the client a message.                                   *)

LEMMA SendStepServer ==
    ASSUME IInv, MapInv, ServerInv, NEW m, SendStep(m), Made(m), ~illegible,
           cl.state # CS_ZOMBIE
    PROVE  ServerInv'
<1> DEFINE last == Len(toClient')
<1>1. /\ TypeInv
      /\ \E d \in {0, 1} : \A i \in 1 .. last - 1 :
            i + d \in 1 .. Len(toClient) /\ toClient'[i] = toClient[i + d]
      /\ last \in Nat /\ last > 0 /\ toClient'[last] = m
  BY SendStepTypes DEF IInv
<1> HIDE DEF last
<1>2. /\ sv' = sv /\ clc' = clc /\ cgs' = cgs
      /\ cl'.issued = cl.issued /\ cl'.reliableSequence = cl.reliableSequence
      /\ cl'.reliableSent \in {cl.reliableSent, cl.reliableSequence}
      /\ m.reliableSequence = cl.reliableSequence
  BY DEF SendStep
<1>3. /\ m.configstrings = sv.configstrings /\ cl'.csUpdated = cl.csUpdated
      /\ m.body # "gamestate" => cl'.state = cl.state
      /\ m.body = "gamestate" => Ahead
  BY DEF Made
<1>4. cl.reliableSent \in Nat /\ cl.reliableSequence \in Nat /\ cl.reliableSent <= cl.reliableSequence
  BY SentNumbers
<1>5. QueueInv(cl')
  <2>1. OnePending(cl')
    <3>1. \A i \in cl'.reliableSent + 1 .. cl.reliableSequence :
             i \in cl.reliableSent + 1 .. cl.reliableSequence
      BY <1>2, <1>4
    <3> QED
      BY <1>2, <3>1 DEF ServerInv, QueueInv, OnePending
  <2> QED
    BY <1>2, <2>1 DEF ServerInv, QueueInv
<1>6. ASSUME m.body # "gamestate", NEW strings, NEW f, NEW a, Current(cl, strings, f, a)
      PROVE  Current(cl', strings, f, a)
  BY <1>2, <1>3, <1>6 DEF Current, Due
<1>7. ASSUME clc.serverId = sv.serverId
      PROVE  Current(cl', sv.configstrings, cgs.configstrings, cgs.serverCommandSequence)
  <2>1. m.body # "gamestate"
    BY <1>3, <1>7 DEF Ahead
  <2> QED
    BY <1>6, <1>7, <2>1 DEF ServerInv
<1>8. ASSUME NEW n \in 1 .. last, toClient'[n].body = "gamestate",
             toClient'[n].serverId = sv.serverId
      PROVE  Current(cl', sv.configstrings, toClient'[n].configstrings,
                     toClient'[n].reliableSequence)
  <2>1. CASE n = last
    <3>1. \A k : Leads(cl'.issued, k, sv.configstrings[k], cl.reliableSequence,
                       sv.configstrings[k], cl.reliableSequence)
      BY <1>4, LeadsNowhere
    <3> QED
      BY <1>1, <1>2, <1>3, <2>1, <3>1 DEF Current
  <2>2. CASE n # last
    <3>1. n \in 1 .. last - 1
      BY <1>1, <2>2
    <3>2. PICK o \in 1 .. Len(toClient) : toClient'[n] = toClient[o]
      BY <1>1, <3>1
    <3>3. m.body # "gamestate"
      BY <1>3, <1>8, <3>2 DEF Ahead
    <3> QED
      BY <1>6, <1>8, <3>2, <3>3 DEF ServerInv
  <2> QED
    BY <2>1, <2>2
<1>9. \A n \in 1 .. Len(clc.snapshots) : clc.snapshots[n].reliableSequence <= cl'.reliableSent
  <2>1. \A n \in 1 .. Len(clc.snapshots) :
           /\ clc.snapshots[n].reliableSequence <= cl.reliableSent
           /\ clc.snapshots[n].reliableSequence \in Nat
    BY <1>1, VariableTypes, SnapshotTypes DEF ServerInv
  <2> QED
    BY <1>2, <1>4, <2>1
<1> QED
  BY <1>2, <1>5, <1>7, <1>8, <1>9 DEF ServerInv, last

LEMMA SendStepStory ==
    ASSUME IInv, MapInv, cl.state # CS_ZOMBIE => ServerInv, StoryInv,
           NEW m, SendStep(m), Made(m), ~illegible
    PROVE  StoryInv'
<1> DEFINE last == Len(toClient')
<1>1. PICK h \in Seq(Commands), latest \in Nat : Story(h, latest)
  BY DEF StoryInv
<1>2. /\ TypeInv
      /\ \E d \in {0, 1} : \A i \in 1 .. last - 1 :
            i + d \in 1 .. Len(toClient) /\ toClient'[i] = toClient[i + d]
      /\ last \in Nat /\ last > 0 /\ toClient'[last] = m
  BY SendStepTypes DEF IInv
<1>3. /\ sv' = sv /\ clc' = clc /\ cgs' = cgs
      /\ cl'.issued = cl.issued
      /\ (cl'.state = CS_ZOMBIE) = (cl.state = CS_ZOMBIE)
      /\ m.reliableSequence = cl.reliableSequence
      /\ Live(m) => cl.state # CS_ZOMBIE
      /\ Filled(m)
  BY DEF SendStep
<1>4. \A n \in 1 .. last : \/ toClient'[n] = m /\ (Live(m) => cl.state # CS_ZOMBIE)
                           \/ \E o \in 1 .. Len(toClient) : toClient'[n] = toClient[o]
  <2>1. \A n \in 1 .. last : n = last \/ n \in 1 .. last - 1
    BY <1>2
  <2> QED
    BY <1>2, <1>3, <2>1
<1> HIDE DEF last
<1>5. ASSUME Live(m)
      PROVE  /\ clc.serverCommandSequence = latest
             /\ m.reliableSequence <= Len(h)
             /\ m.body # "nop" => Ends(h, m.reliableSequence)
             /\ \A i \in DOMAIN m.commands : m.commands[i] = h[i]
             /\ m.body = "snapshot" /\ m.state = CS_ACTIVE =>
                  Turns(h, cgs.configstrings, cgs.serverCommandSequence,
                        m.configstrings, m.reliableSequence)
  <2>1. cl.state # CS_ZOMBIE /\ ServerInv
    BY <1>3, <1>5
  <2>2. h = cl.issued /\ latest = clc.serverCommandSequence
    BY <1>1, <2>1 DEF Story
  <2>3. Len(h) = cl.reliableSequence /\ cl.reliableSequence \in Nat
    BY <2>1, <2>2, SentNumbers
  <2>4. Ends(h, m.reliableSequence)
    BY <1>3, <2>1, <2>2 DEF ServerInv, QueueInv
  <2>5. \A i \in DOMAIN m.commands : m.commands[i] = h[i]
    BY <1>3, <2>2 DEF Filled
  <2>6. ASSUME m.body = "snapshot", m.state = CS_ACTIVE
        PROVE  Turns(h, cgs.configstrings, cgs.serverCommandSequence,
                     m.configstrings, m.reliableSequence)
    <3>1. clc.serverId = sv.serverId
      BY <2>6 DEF Made, MapInv
    <3>2. Current(cl, sv.configstrings, cgs.configstrings, cgs.serverCommandSequence)
      BY <2>1, <3>1 DEF ServerInv
    <3>3. cl.state # CS_PRIMED /\ m.configstrings = sv.configstrings
      BY <2>6 DEF Made, CS_ACTIVE, CS_PRIMED
    <3> QED
      BY <1>3, <2>2, <3>2, <3>3 DEF Current, Due, Turns
  <2> QED
    BY <1>3, <2>2, <2>3, <2>4, <2>5, <2>6
<1>6. FlightInv(h, latest)'
  <2>1. FlightInv(h, latest)
    BY <1>1 DEF Story
  <2> SUFFICES ASSUME NEW n \in 1 .. last, Live(toClient'[n])
               PROVE  LET o == toClient'[n] IN
                      /\ clc.serverCommandSequence = latest
                      /\ o.reliableSequence <= Len(h)
                      /\ o.body # "nop" => Ends(h, o.reliableSequence)
                      /\ \A i \in DOMAIN o.commands : o.commands[i] = h[i]
                      /\ o.body = "snapshot" /\ o.state = CS_ACTIVE =>
                           Turns(h, cgs.configstrings, cgs.serverCommandSequence,
                                 o.configstrings, o.reliableSequence)
    BY <1>3 DEF FlightInv, last
  <2>2. CASE toClient'[n] = m
    BY <1>5, <2>2
  <2>3. CASE \E o \in 1 .. Len(toClient) : toClient'[n] = toClient[o]
    BY <2>1, <2>3 DEF FlightInv
  <2> QED
    BY <1>4, <2>2, <2>3
<1>7. \A n \in 1 .. last : Live(toClient'[n]) =>
         cl.state # CS_ZOMBIE \/ \E o \in 1 .. Len(toClient) : Live(toClient[o])
  BY <1>4
<1>8. ListInv(h, latest)'
  <2>1. ListInv(h, latest)
    BY <1>1 DEF Story
  <2>2. ASSUME NEW n \in 1 .. Len(clc.snapshots), ~Live(clc.snapshots[n])
        PROVE  cl'.state = CS_ZOMBIE /\ \A o \in 1 .. last : ~Live(toClient'[o])
    BY <1>3, <1>7, <2>1, <2>2 DEF ListInv
  <2> QED
    BY <1>3, <2>1, <2>2 DEF ListInv, last
<1>9. Waits' => Waits
  BY <1>3, <1>7 DEF Waits, last
<1>10. Story(h, latest)'
  BY <1>1, <1>3, <1>6, <1>8, <1>9 DEF Story
<1> QED
  BY <1>10 DEF StoryInv

LEMMA SendStepStrings ==
    ASSUME IInv, MapInv, StringsInv, NEW m, SendStep(m), Made(m)
    PROVE  StringsInv' /\ MapInv'
<1>1. /\ illegible' = illegible /\ (deferred => deferred') /\ cgs' = cgs
      /\ (cl'.state = CS_ZOMBIE) = (cl.state = CS_ZOMBIE)
  BY DEF SendStep
<1>2. MapInv'
  BY SendStepMap DEF IInv
<1>3. ASSUME Plain'
      PROVE  /\ cl'.state # CS_ZOMBIE => ServerInv'
             /\ StoryInv'
             /\ ConfigstringsCurrent'
  <2>1. Plain /\ ~illegible
    BY <1>1, <1>3 DEF Plain
  <2>2. (cl.state # CS_ZOMBIE => ServerInv) /\ StoryInv /\ ConfigstringsCurrent
    BY <2>1 DEF StringsInv
  <2>3. cl'.state # CS_ZOMBIE => ServerInv'
    BY <1>1, <2>1, <2>2, SendStepServer
  <2>4. StoryInv'
    BY <2>1, <2>2, SendStepStory
  <2>5. ConfigstringsCurrent'
    BY <1>1, <2>2 DEF ConfigstringsCurrent, Showing
  <2> QED
    BY <2>3, <2>4, <2>5
<1> QED
  BY <1>2, <1>3 DEF StringsInv

LEMMA SendSnapshotStrings ==
    ASSUME IInv, MapInv, StringsInv, SV_SendClientSnapshot
    PROVE  StringsInv' /\ MapInv'
BY SendSnapshotOK, SendStepStrings

LEMMA IgnoreIllegibleStrings ==
    ASSUME IInv, MapInv, NEW n \in 1 .. Len(toServer), cl.state # CS_ZOMBIE,
           toServer' = SubSeq(toServer, n + 1, Len(toServer)),
           IgnoreIllegible(toServer[n]), UNCHANGED <<sv, changes, clc, cgs>>
    PROVE  StringsInv' /\ MapInv'
<1>1. TypeInv /\ GamestateInv /\ QueueStep /\ cl \in ClientT
  BY IgnoreIllegibleOK DEF IInv, TypeInv
<1>2. illegible' = TRUE
      /\ cl' = [Acknowledged(cl, toServer[n]) EXCEPT !.reliableAcknowledge = cl.reliableSequence]
  BY DEF IgnoreIllegible
<1>3. cl'.state = cl.state /\ cl'.serverIdAcknowledge = toServer[n].serverId
  BY <1>1, <1>2 DEF Acknowledged, ClientT
<1>4. MapInv'
  BY <1>1, <1>3, QueueStepMap
<1> QED
  BY <1>2, <1>4 DEF StringsInv, Plain

LEMMA OtherGameStateStrings ==
    ASSUME IInv, IInv', MapInv, StringsInv, NEW n \in 1 .. Len(toServer), cl.state # CS_ZOMBIE,
           toServer' = SubSeq(toServer, n + 1, Len(toServer)),
           OtherGameState(toServer[n]), UNCHANGED <<sv, changes, clc, cgs>>
    PROVE  StringsInv' /\ MapInv'
<1> DEFINE d == Acknowledged(cl, toServer[n])
<1>1. TypeInv /\ GamestateInv /\ RingOK(cl) /\ toServer[n] \in Packets /\ sv' = sv
  BY VariableTypes, PacketTypes DEF IInv
<1>2. \/ QueueStep /\ cl' = d
      \/ \E m : SendStep(m) /\ Made(m)
  BY OtherGameStateOK
<1>3. Legible(cl, toServer[n])
  BY DEF OtherGameState
<1>4. /\ d.state = cl.state /\ d.reliableSequence = cl.reliableSequence
      /\ d.reliableSent = cl.reliableSent /\ d.issued = cl.issued
      /\ d.csUpdated = cl.csUpdated /\ d.serverIdAcknowledge = toServer[n].serverId
  BY <1>1, <1>3, AcknowledgedFields
<1> HIDE DEF d
<1>5. CASE QueueStep /\ cl' = d
  <2>1. MapInv'
    BY <1>1, <1>4, <1>5, QueueStepMap
  <2>2. ServerInv => Passes
    BY <1>1, <1>4, <1>5, SamePasses
  <2>3. StringsInv'
    BY <1>5, <2>2, QueueStepStrings
  <2> QED
    BY <2>1, <2>3
<1> QED
  BY <1>2, <1>5, SendStepStrings

LEMMA ExecuteClientMessageStrings ==
    ASSUME Orderly, IInv, IInv', MapInv, StringsInv,
           NEW n \in 1 .. Len(toServer), SV_ExecuteClientMessage(n)
    PROVE  StringsInv' /\ MapInv'
<1>1. /\ toServer' = SubSeq(toServer, n + 1, Len(toServer))
      /\ UNCHANGED <<sv, changes, clc, cgs>>
      /\ TypeInv /\ GamestateInv /\ RingOK(cl) /\ cl \in ClientT /\ illegible \in BOOLEAN
  BY DEF SV_ExecuteClientMessage, IInv, TypeInv
<1>2. CASE cl.state = CS_ZOMBIE /\ UNCHANGED <<cl, outgoingSequence, toClient, history>>
  <2>1. Keeps(cl, cl')
    BY <1>2 DEF Keeps
  <2>2. QueueStep
    BY <1>1, <1>2, <2>1, ArrivedOK DEF history
  <2>3. MapInv'
    BY <1>1, <1>2, <2>2, QueueStepMap
  <2>4. StringsInv'
    BY <1>2, <2>2, QueueStepStrings
  <2> QED
    BY <2>3, <2>4
<1>3. CASE /\ cl.state # CS_ZOMBIE
           /\ \/ IgnoreIllegible(toServer[n])
              \/ OtherGameState(toServer[n])
              \/ CurrentGameState(toServer[n])
  BY <1>1, <1>3, IgnoreIllegibleStrings, OtherGameStateStrings, CurrentGameStateStrings
<1> QED
  BY <1>2, <1>3 DEF SV_ExecuteClientMessage

-----------------------------------------------------------------------------
(* Steps of the client.                                                    *)

\* Storing the commands of a message overwrites only slots that are due.
LEMMA StoredKeeps ==
    ASSUME TypeInv, NEW m \in Messages
    PROVE  LET seq == clc.serverCommandSequence
               new == Stored(m).serverCommandSequence IN
           /\ seq <= new /\ new \in Nat
           /\ \A i \in 0 .. seq : new - i < MAX_RELIABLE_COMMANDS =>
                 Stored(m).serverCommands[Slot(i)] = clc.serverCommands[Slot(i)]
<1> DEFINE seq == clc.serverCommandSequence
           new == Stored(m).serverCommandSequence
           F == Fresh(m)
<1>1. PICK a \in Nat, b \in Nat : m.commands \in [a + 1 .. b -> Commands]
  BY DEF Messages, Runs
<1>2. seq \in Nat /\ new = Largest(F \cup {seq})
  BY VariableTypes, StoredFields
<1>3. F \cup {seq} \in SUBSET Nat /\ IsFiniteSet(F \cup {seq}) /\ F \cup {seq} # {}
  BY <1>1, FreshOnes
<1>4. \A j \in F : j > seq
  BY DEF Fresh
<1>5. \A s \in Ring : Stored(m).serverCommands[s] =
          LET here == {i \in F : Slot(i) = s}
          IN  IF here = {} THEN clc.serverCommands[s] ELSE m.commands[Largest(here)]
  BY StoredFields
<1> HIDE DEF F, new, seq
<1>6. /\ new \in F \cup {seq} /\ \A y \in F \cup {seq} : y <= new
  BY <1>2, <1>3, LargestIn
<1>7. new \in Nat /\ seq <= new /\ \A j \in F : j \in Nat /\ j <= new
  BY <1>3, <1>6
<1>8. ASSUME NEW i \in 0 .. seq, new - i < MAX_RELIABLE_COMMANDS
      PROVE  Stored(m).serverCommands[Slot(i)] = clc.serverCommands[Slot(i)]
  <2>1. i \in Nat /\ Slot(i) \in Ring
    BY <1>2, SlotInRing
  <2>2. ASSUME NEW j \in F, Slot(j) = Slot(i) PROVE FALSE
    <3>1. j \in Nat /\ j <= new /\ j > seq
      BY <1>4, <1>7
    <3>2. i < j /\ j - i < MAX_RELIABLE_COMMANDS
      BY <1>2, <1>7, <1>8, <2>1, <3>1, ServerCommandsAssumption
    <3> QED
      BY <2>1, <2>2, <3>1, <3>2, SlotsDiffer
  <2>3. {j \in F : Slot(j) = Slot(i)} = {}
    BY <2>2
  <2> QED
    BY <1>5, <2>1, <2>3
<1> QED
  BY <1>7, <1>8 DEF new, seq

\* The list of snapshots after a message was read.
LEMMA ParsedSnapshots ==
    ASSUME TypeInv, NEW m, NEW n, ParseStep(m, n), m.body # "gamestate"
    PROVE  LET old == Len(clc.snapshots) IN
           /\ old \in Nat /\ Len(clc'.snapshots) \in {old, old + 1}
           /\ \A k \in 1 .. old : clc'.snapshots[k] = clc.snapshots[k]
           /\ Len(clc'.snapshots) = old + 1 =>
                /\ m.body = "snapshot"
                /\ clc'.snapshots[old + 1].serverCommandNum = clc'.serverCommandSequence
                /\ clc'.snapshots[old + 1].state = m.state
                /\ clc'.snapshots[old + 1].configstrings = m.configstrings
                /\ clc'.snapshots[old + 1].reliableSequence = m.reliableSequence
<1>1. \/ clc'.snapshots = clc.snapshots
      \/ /\ m.body = "snapshot"
         /\ \E s \in Snapshots :
               /\ clc'.snapshots = Append(clc.snapshots, s)
               /\ s.serverCommandNum = clc'.serverCommandSequence
               /\ s.state = m.state /\ s.configstrings = m.configstrings
               /\ s.reliableSequence = m.reliableSequence
  BY DEF ParseStep
<1>2. clc.snapshots \in Seq(Snapshots) /\ Len(clc.snapshots) \in Nat
  BY VariableTypes
<1>3. CASE clc'.snapshots = clc.snapshots
  BY <1>2, <1>3
<1>4. CASE clc'.snapshots # clc.snapshots
  <2>1. PICK s \in Snapshots :
               /\ clc'.snapshots = Append(clc.snapshots, s)
               /\ s.serverCommandNum = clc'.serverCommandSequence
               /\ s.state = m.state /\ s.configstrings = m.configstrings
               /\ s.reliableSequence = m.reliableSequence
    BY <1>1, <1>4
  <2>2. /\ Len(clc'.snapshots) = Len(clc.snapshots) + 1
        /\ clc'.snapshots[Len(clc.snapshots) + 1] = s
        /\ \A k \in 1 .. Len(clc.snapshots) : clc'.snapshots[k] = clc.snapshots[k]
    BY <1>2, <2>1, AppendProperties
  <2> QED
    BY <1>1, <1>2, <1>4, <2>1, <2>2
<1> QED
  BY <1>3, <1>4

\* What is in flight after a message of a client that was not dropped.
LEMMA ParseLiveFlight ==
    ASSUME TypeInv, MapInv, NEW m, NEW n, ParseStep(m, n), Live(m),
           NEW h, NEW latest, FlightInv(h, latest),
           NEW new, clc'.serverCommandSequence = new
    PROVE  FlightInv(h, new)'
<1>1. /\ n \in 1 .. Len(toClient) /\ m = toClient[n]
      /\ After(toClient', toClient, n, Messages)
      /\ m.body # "gamestate" => cgs' = cgs
  BY DEF ParseStep
<1>2. \A i \in 1 .. Len(toClient') :
         n + i \in n + 1 .. Len(toClient) /\ toClient'[i] = toClient[n + i]
  BY <1>1, AfterShift
<1>3. \A i \in n + 1 .. Len(toClient) : i \in 1 .. Len(toClient)
  BY <1>1
<1> SUFFICES ASSUME NEW i \in 1 .. Len(toClient'), Live(toClient'[i])
             PROVE  LET o == toClient'[i] IN
                    /\ clc'.serverCommandSequence = new
                    /\ o.reliableSequence <= Len(h)
                    /\ o.body # "nop" => Ends(h, o.reliableSequence)
                    /\ \A j \in DOMAIN o.commands : o.commands[j] = h[j]
                    /\ o.body = "snapshot" /\ o.state = CS_ACTIVE =>
                         Turns(h, cgs'.configstrings, cgs'.serverCommandSequence,
                               o.configstrings, o.reliableSequence)
  BY DEF FlightInv
<1> DEFINE o == toClient[n + i]
<1>4. toClient'[i] = o /\ n + i \in 1 .. Len(toClient) /\ n + i \in n + 1 .. Len(toClient)
  BY <1>2, <1>3
<1>5. /\ o.reliableSequence <= Len(h)
      /\ o.body # "nop" => Ends(h, o.reliableSequence)
      /\ \A j \in DOMAIN o.commands : o.commands[j] = h[j]
      /\ o.body = "snapshot" /\ o.state = CS_ACTIVE =>
           Turns(h, cgs.configstrings, cgs.serverCommandSequence,
                 o.configstrings, o.reliableSequence)
  BY <1>4 DEF FlightInv
<1>6. m.body = "gamestate" => o.body # "snapshot"
  BY <1>1, <1>4 DEF MapInv
<1> HIDE DEF o
<1> QED
  BY <1>1, <1>4, <1>5, <1>6

LEMMA ParseLive ==
    ASSUME IInv, MapInv, Plain, NEW m, NEW n, ParseStep(m, n), Live(m), StoryInv
    PROVE  StoryInv'
<1>1. PICK h \in Seq(Commands), latest \in Nat : Story(h, latest)
  BY DEF StoryInv
<1> DEFINE seq == clc.serverCommandSequence
<1>2. /\ n \in 1 .. Len(toClient) /\ m = toClient[n] /\ m \in Messages
      /\ cl' = cl
      /\ m.body # "gamestate" => cgs' = cgs
      /\ m.body = "gamestate" => clc'.snapshots = <<>>
                                 /\ cgs'.serverCommandSequence = m.reliableSequence
  BY DEF ParseStep, server
<1>3. TypeInv /\ InFlightInv
  BY DEF IInv, Plain
<1>4. /\ seq = latest
      /\ m.reliableSequence <= Len(h)
      /\ m.body # "nop" => Ends(h, m.reliableSequence)
      /\ \A i \in DOMAIN m.commands : m.commands[i] = h[i]
      /\ m.body = "snapshot" /\ m.state = CS_ACTIVE =>
           Turns(h, cgs.configstrings, cgs.serverCommandSequence,
                 m.configstrings, m.reliableSequence)
  BY <1>1, <1>2 DEF Story, FlightInv
<1>5. /\ cgs.serverCommandSequence <= latest
      /\ Ends(h, cgs.serverCommandSequence)
      /\ \A i \in cgs.serverCommandSequence + 1 .. latest :
            seq - i < MAX_RELIABLE_COMMANDS => clc.serverCommands[Slot(i)] = h[i]
  <2>1. Waits
    BY <1>2 DEF Waits
  <2> QED
    BY <1>1, <2>1 DEF Story
<1>6. PICK b \in Nat :
        /\ b <= m.reliableSequence
        /\ \A i \in seq + 1 .. b : i \in DOMAIN m.commands
        /\ ~deferred /\ m.body # "nop" => b = m.reliableSequence
        /\ Stored(m).serverCommandSequence = IF b > seq THEN b ELSE seq
        /\ seq <= clc'.serverCommandSequence
        /\ clc'.serverCommandSequence \in Nat
        /\ clc'.serverCommandSequence <= m.reliableSequence
        /\ m.body = "gamestate" => clc'.serverCommandSequence = m.reliableSequence
        /\ m.body # "gamestate" =>
              clc'.serverCommandSequence = Stored(m).serverCommandSequence
        /\ \A i \in seq + 1 .. b :
              Stored(m).serverCommandSequence - i < MAX_RELIABLE_COMMANDS =>
                  clc'.serverCommands[Slot(i)] = m.commands[i]
        /\ \A i \in 0 .. seq :
              Stored(m).serverCommandSequence - i < MAX_RELIABLE_COMMANDS =>
                  clc'.serverCommands[Slot(i)] = clc.serverCommands[Slot(i)]
  BY <1>3, ParseCommands
<1>7. PICK new \in Nat : new = clc'.serverCommandSequence
  BY <1>6
<1>8. /\ seq \in Nat /\ cgs.serverCommandSequence \in Nat /\ m.reliableSequence \in Nat
      /\ Len(h) \in Nat
  <2>1. seq \in Nat /\ cgs.serverCommandSequence \in Nat /\ Len(h) \in Nat
    BY <1>1, <1>3, VariableTypes
  <2>2. m.reliableSequence \in Nat
    BY <1>2 DEF Messages
  <2> QED
    BY <2>1, <2>2
<1> HIDE DEF seq
<1>9. FlightInv(h, new)'
  BY <1>1, <1>3, <1>7, ParseLiveFlight DEF Story
<1>10. m.body = "snapshot" => Ends(h, new)
  <2>1. CASE LongString = {}
    <3>1. new > 0 => new \in 1 .. Len(h)
      BY <1>4, <1>6, <1>7, <1>8
    <3> QED
      BY <1>1, <2>1, <3>1 DEF Story, Pieces, Ends
  <2>2. CASE ~deferred
    <3>1. m.body = "snapshot" => new = m.reliableSequence
      BY <1>6, <1>7, <1>8, <2>2
    <3> QED
      BY <1>4, <3>1
  <2> QED
    BY <2>1, <2>2 DEF Plain
<1>11. ListInv(h, new)'
  <2>1. CASE m.body = "gamestate"
    <3>1. clc'.snapshots = <<>>
      BY <1>2, <2>1
    <3> QED
      BY <3>1 DEF ListInv
  <2>2. CASE m.body # "gamestate"
    <3> DEFINE old == Len(clc.snapshots)
    <3>1. /\ old \in Nat /\ Len(clc'.snapshots) \in {old, old + 1}
          /\ \A k \in 1 .. old : clc'.snapshots[k] = clc.snapshots[k]
          /\ Len(clc'.snapshots) = old + 1 =>
                /\ m.body = "snapshot"
                /\ clc'.snapshots[old + 1].serverCommandNum = new
                /\ clc'.snapshots[old + 1].state = m.state
                /\ clc'.snapshots[old + 1].configstrings = m.configstrings
                /\ clc'.snapshots[old + 1].reliableSequence = m.reliableSequence
      BY <1>3, <1>7, <2>2, ParsedSnapshots
    <3>2. \A k \in 1 .. old :
            LET s == clc.snapshots[k] IN
            /\ Live(s)
            /\ \A l \in 1 .. k :
                 clc.snapshots[l].serverCommandNum <= s.serverCommandNum
            /\ cgs.serverCommandSequence <= s.serverCommandNum
            /\ s.serverCommandNum <= latest
            /\ s.serverCommandNum <= s.reliableSequence
            /\ s.reliableSequence <= Len(h)
            /\ Ends(h, s.serverCommandNum)
            /\ s.state = CS_ACTIVE =>
                 Turns(h, cgs.configstrings, cgs.serverCommandSequence,
                       s.configstrings, s.reliableSequence)
      <4>1. \A k \in 1 .. old : Live(clc.snapshots[k])
        BY <1>1, <1>2 DEF Story, ListInv
      <4> QED
        BY <1>1, <4>1 DEF Story, ListInv
    <3>3. \A k \in 1 .. old : clc.snapshots[k].serverCommandNum \in Nat
      BY <1>3, VariableTypes, SnapshotTypes
    <3>4. seq <= new /\ new <= m.reliableSequence
      BY <1>6, <1>7
    <3>5. \A k \in 1 .. Len(clc'.snapshots) :
            /\ k \in 1 .. old \/ (k = old + 1 /\ Len(clc'.snapshots) = old + 1)
            /\ \A l \in 1 .. k : l \in 1 .. old \/ (l = old + 1 /\ k = old + 1)
      BY <3>1
    <3> HIDE DEF old
    <3>6. ASSUME NEW k \in 1 .. Len(clc'.snapshots)
          PROVE  LET s == clc'.snapshots[k] IN
                 /\ Live(s)
                 /\ cgs.serverCommandSequence <= s.serverCommandNum
                 /\ s.serverCommandNum <= new
                 /\ s.serverCommandNum <= s.reliableSequence
                 /\ s.reliableSequence <= Len(h)
                 /\ Ends(h, s.serverCommandNum)
                 /\ s.state = CS_ACTIVE =>
                      Turns(h, cgs.configstrings, cgs.serverCommandSequence,
                            s.configstrings, s.reliableSequence)
      <4>1. CASE k \in 1 .. old
        BY <1>4, <1>8, <3>1, <3>2, <3>3, <3>4, <4>1
      <4>2. CASE k = old + 1 /\ Len(clc'.snapshots) = old + 1
        <5>1. /\ m.body = "snapshot"
              /\ clc'.snapshots[k].serverCommandNum = new
              /\ clc'.snapshots[k].state = m.state
              /\ clc'.snapshots[k].configstrings = m.configstrings
              /\ clc'.snapshots[k].reliableSequence = m.reliableSequence
          BY <3>1, <4>2
        <5>2. cgs.serverCommandSequence <= new
          BY <1>4, <1>5, <1>8, <3>4
        <5> QED
          BY <1>4, <1>10, <3>4, <5>1, <5>2 DEF Live
      <4> QED
        BY <3>5, <4>1, <4>2
    <3>7. ASSUME NEW k \in 1 .. Len(clc'.snapshots), NEW l \in 1 .. k
          PROVE  /\ Live(clc'.snapshots[l])
                 /\ clc'.snapshots[l].serverCommandNum <= clc'.snapshots[k].serverCommandNum
      <4>1. l \in 1 .. Len(clc'.snapshots)
        BY <3>1
      <4>2. CASE k \in 1 .. old
        <5>1. l \in 1 .. old
          BY <3>1, <4>2
        <5> QED
          BY <3>1, <3>2, <3>6, <4>1, <4>2, <5>1
      <4>3. CASE k = old + 1 /\ Len(clc'.snapshots) = old + 1
        <5>1. clc'.snapshots[k].serverCommandNum = new
          BY <3>1, <4>3
        <5> QED
          BY <3>6, <4>1, <5>1
      <4> QED
        BY <3>5, <4>2, <4>3
    <3> QED
      BY <1>2, <2>2, <3>6, <3>7 DEF ListInv
  <2> QED
    BY <2>1, <2>2
<1>12. /\ cgs'.serverCommandSequence <= new
       /\ Ends(h, cgs'.serverCommandSequence)
       /\ \A i \in cgs'.serverCommandSequence + 1 .. new :
             clc'.serverCommandSequence - i < MAX_RELIABLE_COMMANDS =>
                 clc'.serverCommands[Slot(i)] = h[i]
  <2>1. CASE m.body = "gamestate"
    <3>1. cgs'.serverCommandSequence = new /\ new = m.reliableSequence
      BY <1>2, <1>6, <1>7, <2>1
    <3>2. \A i \in new + 1 .. new : FALSE
      OBVIOUS
    <3> QED
      BY <1>4, <2>1, <3>1, <3>2
  <2>2. CASE m.body # "gamestate"
    <3>1. cgs' = cgs /\ new = Stored(m).serverCommandSequence /\ seq <= new
          /\ new = IF b > seq THEN b ELSE seq
      BY <1>2, <1>6, <1>7, <2>2
    <3>2. cgs.serverCommandSequence <= new
      BY <1>4, <1>5, <1>8, <3>1
    <3>3. ASSUME NEW i \in cgs.serverCommandSequence + 1 .. new, new - i < MAX_RELIABLE_COMMANDS
          PROVE  clc'.serverCommands[Slot(i)] = h[i]
      <4>1. CASE i <= seq
        <5>1. i \in 0 .. seq /\ seq - i < MAX_RELIABLE_COMMANDS
              /\ i \in cgs.serverCommandSequence + 1 .. latest
          BY <1>4, <1>8, <3>1, <3>3, <4>1, ServerCommandsAssumption
        <5> QED
          BY <1>5, <1>6, <3>1, <3>3, <5>1
      <4>2. CASE ~(i <= seq)
        <5>1. i \in seq + 1 .. b
          BY <1>8, <3>1, <3>3, <4>2
        <5> QED
          BY <1>4, <1>6, <3>1, <3>3, <5>1
      <4> QED
        BY <4>1, <4>2
    <3> QED
      BY <1>5, <1>7, <3>1, <3>2, <3>3
  <2> QED
    BY <2>1, <2>2
<1>13. cl.state # CS_ZOMBIE => h = cl.issued
  BY <1>1 DEF Story
<1>14. Pieces(h) /\ new <= clc'.serverCommandSequence
  BY <1>1, <1>7 DEF Story
<1>15. Story(h, new)'
  BY <1>2, <1>7, <1>9, <1>11, <1>12, <1>13, <1>14 DEF Story
<1> QED
  BY <1>15 DEF StoryInv

LEMMA ParseDead ==
    ASSUME IInv, MapInv, ~illegible, NEW m, NEW n, ParseStep(m, n), ~Live(m), StoryInv
    PROVE  StoryInv'
<1>1. PICK h \in Seq(Commands), latest \in Nat : Story(h, latest)
  BY DEF StoryInv
<1>2. /\ n \in 1 .. Len(toClient) /\ m = toClient[n] /\ m \in Messages
      /\ cl' = cl
      /\ After(toClient', toClient, n, Messages)
  BY DEF ParseStep, server
<1>3. TypeInv /\ InFlightInv /\ (cl.state # CS_ZOMBIE => ClientInv)
  BY DEF IInv
<1>4. cl.state = CS_ZOMBIE
  BY <1>2, <1>3 DEF ClientInv, MessagesInv
<1>5. m.body # "gamestate"
  BY <1>2 DEF MapInv
<1>6. \A i \in 1 .. Len(toClient') : ~Live(toClient'[i])
  <2>1. \A i \in 1 .. Len(toClient') :
           n + i \in n + 1 .. Len(toClient) /\ toClient'[i] = toClient[n + i]
    BY <1>2, AfterShift
  <2>2. \A i \in n + 1 .. Len(toClient) : i \in 1 .. Len(toClient) /\ n \in 1 .. i
    BY <1>2
  <2> QED
    BY <1>2, <1>3, <2>1, <2>2 DEF InFlightInv
<1>7. /\ cgs' = cgs
      /\ clc'.serverCommands = Stored(m).serverCommands
      /\ clc'.serverCommandSequence = Stored(m).serverCommandSequence
  BY <1>5 DEF ParseStep
<1> DEFINE seq == clc.serverCommandSequence
           new == clc'.serverCommandSequence
<1>8. /\ seq <= new /\ new \in Nat /\ seq \in Nat
      /\ \A i \in 0 .. seq : new - i < MAX_RELIABLE_COMMANDS =>
            clc'.serverCommands[Slot(i)] = clc.serverCommands[Slot(i)]
  BY <1>2, <1>3, <1>7, StoredKeeps, VariableTypes
<1> DEFINE old == Len(clc.snapshots)
<1>9. /\ old \in Nat /\ Len(clc'.snapshots) \in {old, old + 1}
      /\ \A k \in 1 .. old : clc'.snapshots[k] = clc.snapshots[k]
      /\ Len(clc'.snapshots) = old + 1 => clc'.snapshots[old + 1].state = m.state
  BY <1>3, <1>5, ParsedSnapshots
<1> HIDE DEF seq, new, old
<1>10. \A k \in 1 .. Len(clc'.snapshots) :
          \/ k \in 1 .. old /\ clc'.snapshots[k] = clc.snapshots[k]
          \/ ~Live(clc'.snapshots[k])
  <2>1. \A k \in 1 .. Len(clc'.snapshots) :
           k \in 1 .. old \/ (k = old + 1 /\ Len(clc'.snapshots) = old + 1)
    BY <1>9
  <2> QED
    BY <1>9, <2>1 DEF Live
<1>11. ListInv(h, latest)'
  <2>1. ListInv(h, latest)
    BY <1>1 DEF Story
  <2>2. \A k \in 1 .. old : \A l \in 1 .. k : l \in 1 .. old
    BY <1>9
  <2>3. ASSUME NEW k \in 1 .. Len(clc'.snapshots), Live(clc'.snapshots[k])
        PROVE  LET s == clc'.snapshots[k] IN
               /\ \A l \in 1 .. k :
                    /\ Live(clc'.snapshots[l])
                    /\ clc'.snapshots[l].serverCommandNum <= s.serverCommandNum
               /\ cgs.serverCommandSequence <= s.serverCommandNum
               /\ s.serverCommandNum <= latest
               /\ s.serverCommandNum <= s.reliableSequence
               /\ s.reliableSequence <= Len(h)
               /\ Ends(h, s.serverCommandNum)
               /\ s.state = CS_ACTIVE =>
                    Turns(h, cgs.configstrings, cgs.serverCommandSequence,
                          s.configstrings, s.reliableSequence)
    <3>1. k \in 1 .. old /\ clc'.snapshots[k] = clc.snapshots[k] /\ Live(clc.snapshots[k])
      BY <1>10, <2>3
    <3>2. \A l \in 1 .. k : clc'.snapshots[l] = clc.snapshots[l]
      BY <1>9, <2>2, <3>1
    <3> QED
      BY <2>1, <3>1, <3>2 DEF ListInv, old
  <2> QED
    BY <1>2, <1>4, <1>6, <1>7, <2>3 DEF ListInv
<1>12. Waits' => Waits
  BY <1>2, <1>4, <1>6, <1>10 DEF Waits, old
<1>13. ASSUME Waits, NEW i \in cgs.serverCommandSequence + 1 .. latest,
              new - i < MAX_RELIABLE_COMMANDS
       PROVE  clc'.serverCommands[Slot(i)] = h[i]
  <2>1. latest <= seq /\ cgs.serverCommandSequence \in Nat
    BY <1>1, <1>3, VariableTypes DEF Story, seq
  <2>2. i \in 0 .. seq /\ seq - i < MAX_RELIABLE_COMMANDS
    BY <1>8, <1>13, <2>1, ServerCommandsAssumption
  <2>3. clc.serverCommands[Slot(i)] = h[i]
    BY <1>1, <1>13, <2>2 DEF Story, seq
  <2> QED
    BY <1>8, <1>13, <2>2, <2>3
<1>14. FlightInv(h, latest)'
  BY <1>6 DEF FlightInv
<1>15. latest <= new /\ Pieces(h)
  <2>1. latest <= seq /\ Pieces(h)
    BY <1>1 DEF Story, seq
  <2> QED
    BY <1>8, <2>1
<1>16. Waits => /\ cgs.serverCommandSequence <= latest
                /\ Ends(h, cgs.serverCommandSequence)
  BY <1>1 DEF Story
<1>17. Story(h, latest)'
  BY <1>2, <1>4, <1>7, <1>11, <1>12, <1>13, <1>14, <1>15, <1>16 DEF Story, new
<1> QED
  BY <1>17 DEF StoryInv

LEMMA ParseServer ==
    ASSUME IInv, MapInv, ServerInv, ~illegible, cl.state # CS_ZOMBIE,
           NEW m, NEW n, ParseStep(m, n)
    PROVE  ServerInv'
<1>1. /\ n \in 1 .. Len(toClient) /\ m = toClient[n]
      /\ cl' = cl /\ sv' = sv
      /\ \A i \in 1 .. Len(toClient') : \E k \in 1 .. Len(toClient) : toClient'[i] = toClient[k]
      /\ m.body = "gamestate" =>
           /\ clc'.serverId = m.serverId /\ clc'.snapshots = <<>>
           /\ cgs'.serverCommandSequence = m.reliableSequence
           /\ cgs'.configstrings = m.configstrings
      /\ m.body # "gamestate" => clc'.serverId = clc.serverId /\ cgs' = cgs
  BY DEF ParseStep, After, server
<1>2. TypeInv
  BY DEF IInv
<1>3. \A i \in 1 .. Len(toClient') :
         toClient'[i].body = "gamestate" /\ toClient'[i].serverId = sv.serverId =>
             Current(cl, sv.configstrings, toClient'[i].configstrings,
                     toClient'[i].reliableSequence)
  BY <1>1 DEF ServerInv
<1>4. QueueInv(cl)
  BY DEF ServerInv
<1>5. CASE m.body = "gamestate"
  <2>1. clc'.serverId = sv.serverId =>
          Current(cl, sv.configstrings, m.configstrings, m.reliableSequence)
    BY <1>1, <1>5 DEF ServerInv
  <2> QED
    BY <1>1, <1>3, <1>4, <1>5, <2>1 DEF ServerInv
<1>6. CASE m.body # "gamestate"
  <2> DEFINE old == Len(clc.snapshots)
  <2>1. /\ old \in Nat /\ Len(clc'.snapshots) \in {old, old + 1}
        /\ \A k \in 1 .. old : clc'.snapshots[k] = clc.snapshots[k]
        /\ Len(clc'.snapshots) = old + 1 =>
             /\ m.body = "snapshot"
             /\ clc'.snapshots[old + 1].reliableSequence = m.reliableSequence
    BY <1>2, <1>6, ParsedSnapshots
  <2>2. m.body = "snapshot" => m.reliableSequence \in 0 .. cl.reliableSent
    BY <1>1, SentNumbers
  <2>3. cl.reliableSent \in Nat
    BY SentNumbers
  <2>4. \A k \in 1 .. old : clc.snapshots[k].reliableSequence <= cl.reliableSent
    BY DEF ServerInv
  <2> HIDE DEF old
  <2>5. \A k \in 1 .. Len(clc'.snapshots) :
           k \in 1 .. old \/ (k = old + 1 /\ Len(clc'.snapshots) = old + 1)
    BY <2>1
  <2>6. \A k \in 1 .. Len(clc'.snapshots) : clc'.snapshots[k].reliableSequence <= cl.reliableSent
    BY <2>1, <2>2, <2>3, <2>4, <2>5
  <2>7. clc.serverId = sv.serverId =>
         Current(cl, sv.configstrings, cgs.configstrings, cgs.serverCommandSequence)
    BY DEF ServerInv
  <2> QED
    BY <1>1, <1>3, <1>4, <1>6, <2>6, <2>7 DEF ServerInv
<1> QED
  BY <1>5, <1>6

LEMMA ParseStrings ==
    ASSUME IInv, MapInv, StringsInv, NEW n \in 1 .. Len(toClient), CL_ParseServerMessage(n)
    PROVE  StringsInv' /\ MapInv'
<1> DEFINE m == toClient[n]
<1>1. TypeInv /\ GamestateInv /\ ParseStep(m, n)
  BY ParseIsStep DEF IInv
<1> HIDE DEF m
<1>2. /\ illegible' = illegible /\ deferred' = deferred /\ cl' = cl
      /\ m.body = "gamestate" => cgs'.shown = NoSnapshot
      /\ m.body # "gamestate" => cgs' = cgs
  BY <1>1 DEF ParseStep, history, server
<1>3. MapInv'
  BY <1>1, ParseMap
<1>4. ASSUME Plain
      PROVE  /\ cl'.state # CS_ZOMBIE => ServerInv'
             /\ StoryInv'
             /\ ConfigstringsCurrent'
  <2>1. (cl.state # CS_ZOMBIE => ServerInv) /\ StoryInv /\ ConfigstringsCurrent /\ ~illegible
    BY <1>4 DEF StringsInv, Plain
  <2>2. cl'.state # CS_ZOMBIE => ServerInv'
    BY <1>1, <1>2, <2>1, ParseServer
  <2>3. StoryInv'
    BY <1>1, <1>4, <2>1, ParseLive, ParseDead
  <2>4. ConfigstringsCurrent'
    BY <1>2, <2>1 DEF ConfigstringsCurrent, Showing
  <2> QED
    BY <2>2, <2>3, <2>4
<1> QED
  BY <1>2, <1>3, <1>4 DEF StringsInv, Plain

\* What the server and the client keep as it was.
LEMMA SameStrings ==
    ASSUME StringsInv, UNCHANGED <<server, toClient, clc, cgs, history>>
    PROVE  StringsInv'
<1>1. /\ cl' = cl /\ sv' = sv /\ toClient' = toClient /\ clc' = clc /\ cgs' = cgs
      /\ illegible' = illegible /\ deferred' = deferred
  BY DEF server, history
<1>2. ServerInv => ServerInv'
  BY <1>1 DEF ServerInv
<1>3. ASSUME NEW h \in Seq(Commands), NEW latest \in Nat, Story(h, latest)
      PROVE  Story(h, latest)'
  <2>1. FlightInv(h, latest)'
    BY <1>1, <1>3 DEF Story, FlightInv
  <2>2. ListInv(h, latest)'
    BY <1>1, <1>3 DEF Story, ListInv
  <2>3. Waits' = Waits
    BY <1>1 DEF Waits
  <2> QED
    BY <1>1, <1>3, <2>1, <2>2, <2>3 DEF Story
<1>4. StoryInv => StoryInv'
  BY <1>3 DEF StoryInv
<1>5. ConfigstringsCurrent => ConfigstringsCurrent'
  BY <1>1 DEF ConfigstringsCurrent, Showing
<1> QED
  BY <1>1, <1>2, <1>4, <1>5 DEF StringsInv, Plain

LEMMA WriteStrings ==
    ASSUME IInv, MapInv, StringsInv, NEW move \in BOOLEAN, CL_WritePacket(move)
    PROVE  StringsInv' /\ MapInv'
<1>1. UNCHANGED <<server, toClient, clc, cgs, history>>
  BY DEF CL_WritePacket
<1>2. TypeInv
  BY DEF IInv
<1> QED
  BY <1>1, <1>2, SameStrings, WriteMap

\* The snapshots left, the first of which may have been taken.
LEMMA Listed ==
    ASSUME TypeInv, NEW s, ProcessStep(s)
    PROVE  /\ 1 \in 1 .. Len(clc.snapshots) /\ s = clc.snapshots[1]
           /\ Len(clc'.snapshots) \in Nat
           /\ \E d \in {0, 1} : \A k \in 1 .. Len(clc'.snapshots) :
                 k + d \in 1 .. Len(clc.snapshots) /\ clc'.snapshots[k] = clc.snapshots[k + d]
<1>1. /\ clc.snapshots \in Seq(Snapshots) /\ clc.snapshots # <<>> /\ s = Head(clc.snapshots)
      /\ clc'.snapshots \in {clc.snapshots, Tail(clc.snapshots)}
  BY VariableTypes DEF ProcessStep
<1>2. 1 \in 1 .. Len(clc.snapshots) /\ s = clc.snapshots[1]
  BY <1>1
<1>3. CASE clc'.snapshots = clc.snapshots
  <2>1. \A k \in 1 .. Len(clc'.snapshots) :
           k + 0 \in 1 .. Len(clc.snapshots) /\ clc'.snapshots[k] = clc.snapshots[k + 0]
    BY <1>1, <1>3
  <2> QED
    BY <1>1, <1>2, <1>3, <2>1
<1>4. CASE clc'.snapshots = Tail(clc.snapshots)
  <2>1. /\ Len(Tail(clc.snapshots)) = Len(clc.snapshots) - 1
        /\ Len(clc.snapshots) \in Nat /\ Len(clc.snapshots) > 0
        /\ \A k \in 1 .. Len(Tail(clc.snapshots)) :
              Tail(clc.snapshots)[k] = clc.snapshots[k + 1] /\ k + 1 \in 1 .. Len(clc.snapshots)
    BY <1>1, HeadTailProperties
  <2> QED
    BY <1>2, <1>4, <2>1
<1> QED
  BY <1>1, <1>3, <1>4

\* A snapshot skipped, or too late to be shown.
LEMMA SkipStrings ==
    ASSUME TypeInv, StringsInv, NEW s, ProcessStep(s), cgs' = cgs
    PROVE  StringsInv'
<1>1. /\ cl' = cl /\ sv' = sv /\ toClient' = toClient
      /\ illegible' = illegible /\ deferred' = deferred
      /\ clc'.serverId = clc.serverId
      /\ clc'.serverCommandSequence = clc.serverCommandSequence
      /\ clc'.serverCommands = clc.serverCommands
  BY DEF ProcessStep, server, history
<1>2. PICK d \in {0, 1} : \A k \in 1 .. Len(clc'.snapshots) :
         k + d \in 1 .. Len(clc.snapshots) /\ clc'.snapshots[k] = clc.snapshots[k + d]
  BY Listed
<1>3. ServerInv => ServerInv'
  BY <1>1, <1>2 DEF ServerInv
<1>4. ASSUME NEW h \in Seq(Commands), NEW latest \in Nat, Story(h, latest)
      PROVE  Story(h, latest)'
  <2>1. FlightInv(h, latest)'
    BY <1>1, <1>4 DEF Story, FlightInv
  <2>2. ListInv(h, latest)'
    <3>1. \A k \in 1 .. Len(clc'.snapshots) : \A l \in 1 .. k :
             l + d \in 1 .. k + d /\ clc'.snapshots[l] = clc.snapshots[l + d]
      <4>1. \A k \in 1 .. Len(clc'.snapshots) : \A l \in 1 .. k : l \in 1 .. Len(clc'.snapshots)
        BY Listed
      <4> QED
        BY <1>2, <4>1
    <3>2. ListInv(h, latest)
      BY <1>4 DEF Story
    <3> QED
      BY <1>1, <1>2, <3>1, <3>2 DEF ListInv
  <2>3. Waits' => Waits
    BY <1>1, <1>2 DEF Waits
  <2> QED
    BY <1>1, <1>4, <2>1, <2>2, <2>3 DEF Story
<1>5. StoryInv => StoryInv'
  BY <1>4 DEF StoryInv
<1>6. ConfigstringsCurrent => ConfigstringsCurrent'
  BY <1>1 DEF ConfigstringsCurrent, Showing
<1> QED
  BY <1>1, <1>3, <1>5, <1>6 DEF StringsInv, Plain

\* A snapshot of a dropped client is shown after everything else.
LEMMA ShowDead ==
    ASSUME TypeInv, NEW s, ProcessStep(s), cgs' # cgs, ~Live(s), StoryInv
    PROVE  StoryInv' /\ ConfigstringsCurrent' /\ cl'.state = CS_ZOMBIE
<1>1. PICK h \in Seq(Commands), latest \in Nat : Story(h, latest)
  BY DEF StoryInv
<1>2. /\ cl' = cl /\ toClient' = toClient
      /\ clc'.serverCommandSequence = clc.serverCommandSequence
      /\ cgs'.shown = s
  BY DEF ProcessStep, server
<1>3. PICK d \in {0, 1} : \A k \in 1 .. Len(clc'.snapshots) :
         k + d \in 1 .. Len(clc.snapshots) /\ clc'.snapshots[k] = clc.snapshots[k + d]
  BY Listed
<1>4. 1 \in 1 .. Len(clc.snapshots) /\ s = clc.snapshots[1]
  BY Listed
<1>5. ListInv(h, latest)
  BY <1>1 DEF Story
<1>6. cl.state = CS_ZOMBIE /\ \A n \in 1 .. Len(toClient) : ~Live(toClient[n])
  BY <1>4, <1>5 DEF ListInv
<1>7. \A k \in 1 .. Len(clc.snapshots) : ~Live(clc.snapshots[k])
  <2>1. \A k \in 1 .. Len(clc.snapshots) : 1 \in 1 .. k
    OBVIOUS
  <2> QED
    BY <1>4, <1>5, <2>1 DEF ListInv
<1>8. \A k \in 1 .. Len(clc'.snapshots) : ~Live(clc'.snapshots[k])
  BY <1>3, <1>7
<1>9. ~Waits'
  BY <1>2, <1>6, <1>8 DEF Waits
<1>10. FlightInv(h, latest)' /\ ListInv(h, latest)'
  BY <1>2, <1>6, <1>8 DEF FlightInv, ListInv
<1>11. Story(h, latest)'
  BY <1>1, <1>2, <1>6, <1>9, <1>10 DEF Story
<1>12. ConfigstringsCurrent'
  BY <1>2 DEF ConfigstringsCurrent, Showing, Live, CS_ZOMBIE, CS_ACTIVE
<1> QED
  BY <1>2, <1>6, <1>11, <1>12 DEF StoryInv

LEMMA TurnsRest ==
    ASSUME NEW h, NEW f, NEW g, NEW w, NEW a \in Nat, NEW b \in Nat, NEW c \in Nat,
           a <= c, c <= b, Turns(h, f, a, g, b), Turns(h, f, a, w, c)
    PROVE  Turns(h, w, c, g, b)
BY LeadsRest DEF Turns

\* What showing a snapshot of a client that was not dropped sets.
Shows(h, latest, s) ==
    LET a == cgs.serverCommandSequence
        n == s.serverCommandNum
    IN /\ a \in Nat /\ n \in Nat /\ latest \in Nat
       /\ a <= n /\ n <= latest /\ n <= s.reliableSequence /\ s.reliableSequence <= Len(h)
       /\ Ends(h, n)
       /\ cgs'.serverCommandSequence = n
       /\ Turns(h, cgs.configstrings, a, cgs'.configstrings, n)
       /\ s.state = CS_ACTIVE =>
            Turns(h, cgs.configstrings, a, s.configstrings, s.reliableSequence)

LEMMA ShowSets ==
    ASSUME TypeInv, NEW s, ProcessStep(s), cgs' # cgs, Live(s),
           NEW h \in Seq(Commands), NEW latest \in Nat, Story(h, latest)
    PROVE  Shows(h, latest, s)
<1> DEFINE a == cgs.serverCommandSequence
           n == s.serverCommandNum
           seq == clc.serverCommandSequence
<1>1. 1 \in 1 .. Len(clc.snapshots) /\ s = clc.snapshots[1] /\ s \in Snapshots
  BY Listed DEF ProcessStep
<1>2. /\ a \in Nat /\ n \in Nat /\ seq \in Nat /\ s.reliableSequence \in Nat
      /\ Len(h) \in Nat /\ cgs \in CGame
  <2>1. n \in Nat /\ s.reliableSequence \in Nat
    BY <1>1 DEF Snapshots
  <2> QED
    BY <2>1, VariableTypes
<1>3. /\ a <= n /\ n <= latest /\ n <= s.reliableSequence /\ s.reliableSequence <= Len(h)
      /\ Ends(h, n)
      /\ s.state = CS_ACTIVE =>
           Turns(h, cgs.configstrings, a, s.configstrings, s.reliableSequence)
  BY <1>1 DEF Story, ListInv
<1>4. /\ Ends(h, a) /\ Pieces(h)
      /\ \A i \in a + 1 .. latest :
            seq - i < MAX_RELIABLE_COMMANDS => clc.serverCommands[Slot(i)] = h[i]
  <2>1. Waits
    BY <1>1 DEF Waits
  <2> QED
    BY <2>1 DEF Story
<1>5. /\ ~CycledOut(n)
      /\ cgs'.configstrings = Executed(cgs, n).configstrings
      /\ \E e : /\ Ran(cgs, e, n)
                /\ cgs'.serverCommandSequence = e.serverCommandSequence
  BY DEF ProcessStep
<1>6. cgs'.serverCommandSequence = n
  <2>1. cgs'.serverCommandSequence = IF n > a THEN n ELSE a
    BY <1>5 DEF Ran
  <2> QED
    BY <1>2, <1>3, <2>1
<1>7. Held(h, cgs, n)
  <2>1. ASSUME NEW i \in a + 1 .. n PROVE clc.serverCommands[Slot(i)] = h[i]
    <3>1. a < n /\ i \in a + 1 .. latest
      BY <1>2, <1>3
    <3>2. seq - i < MAX_RELIABLE_COMMANDS
      BY <1>2, <1>5, <3>1, ServerCommandsAssumption DEF CycledOut
    <3> QED
      BY <1>4, <3>1, <3>2
  <2> QED
    BY <2>1 DEF Held
<1>8. n <= Len(h)
  BY <1>2, <1>3
<1>9. Turns(h, cgs.configstrings, a, Executed(cgs, n).configstrings, n)
  BY <1>2, <1>3, <1>4, <1>7, <1>8, ExecutedSets
<1> QED
  BY <1>2, <1>3, <1>5, <1>6, <1>9 DEF Shows

LEMMA ShowStory ==
    ASSUME TypeInv, InFlightInv, NEW s, ProcessStep(s), Live(s),
           NEW h \in Seq(Commands), NEW latest \in Nat, Story(h, latest), Shows(h, latest, s)
    PROVE  Story(h, latest)'
<1> DEFINE a == cgs.serverCommandSequence
           n == s.serverCommandNum
           seq == clc.serverCommandSequence
           f == cgs.configstrings
           g == cgs'.configstrings
<1>1. /\ cl' = cl /\ toClient' = toClient
      /\ clc'.serverCommandSequence = seq
      /\ clc'.serverCommands = clc.serverCommands
  BY DEF ProcessStep, server
<1>2. PICK d \in {0, 1} : \A k \in 1 .. Len(clc'.snapshots) :
         k + d \in 1 .. Len(clc.snapshots) /\ clc'.snapshots[k] = clc.snapshots[k + d]
  BY Listed
<1>3. /\ 1 \in 1 .. Len(clc.snapshots) /\ s = clc.snapshots[1]
      /\ Len(clc'.snapshots) \in Nat /\ Len(clc.snapshots) \in Nat
  BY Listed, VariableTypes
<1>4. /\ a \in Nat /\ n \in Nat /\ a <= n /\ n <= latest
      /\ Ends(h, n) /\ cgs'.serverCommandSequence = n
      /\ Turns(h, f, a, g, n)
  BY DEF Shows
<1>5. /\ seq \in Nat /\ latest <= seq /\ Pieces(h)
      /\ FlightInv(h, latest) /\ ListInv(h, latest)
  BY VariableTypes DEF Story
<1>6. ASSUME NEW i \in 1 .. Len(toClient), Live(toClient[i]),
             toClient[i].body = "snapshot", toClient[i].state = CS_ACTIVE
      PROVE  Turns(h, g, n, toClient[i].configstrings, toClient[i].reliableSequence)
  <2> DEFINE b == toClient[i].reliableSequence
  <2>1. Turns(h, f, a, toClient[i].configstrings, b)
    BY <1>5, <1>6 DEF FlightInv
  <2>2. seq <= b
    BY <1>6 DEF InFlightInv
  <2>3. b \in Nat
    BY <1>6, VariableTypes, MessageTypes
  <2> HIDE DEF b, f, g
  <2>4. n <= b
    BY <1>4, <1>5, <2>2, <2>3
  <2>5. Turns(h, g, n, toClient[i].configstrings, b)
    BY <1>4, <2>1, <2>3, <2>4, TurnsRest
  <2> QED
    BY <2>5 DEF b
<1>7. FlightInv(h, latest)'
  BY <1>1, <1>4, <1>5, <1>6 DEF FlightInv
<1>8. ASSUME NEW i \in 1 .. Len(clc.snapshots), Live(clc.snapshots[i])
      PROVE  LET o == clc.snapshots[i] IN
             /\ n <= o.serverCommandNum
             /\ o.state = CS_ACTIVE => Turns(h, g, n, o.configstrings, o.reliableSequence)
  <2> DEFINE o == clc.snapshots[i]
  <2>1. 1 \in 1 .. i
    BY <1>3
  <2>2. /\ n <= o.serverCommandNum /\ o.serverCommandNum <= o.reliableSequence
        /\ o.state = CS_ACTIVE => Turns(h, f, a, o.configstrings, o.reliableSequence)
    BY <1>3, <1>5, <1>8, <2>1 DEF ListInv
  <2>3. o.serverCommandNum \in Nat /\ o.reliableSequence \in Nat
    BY VariableTypes, SnapshotTypes
  <2> HIDE DEF o, f, g
  <2>4. n <= o.reliableSequence
    BY <1>4, <2>2, <2>3
  <2>5. o.state = CS_ACTIVE => Turns(h, g, n, o.configstrings, o.reliableSequence)
    BY <1>4, <2>2, <2>3, <2>4, TurnsRest
  <2> QED
    BY <2>2, <2>5 DEF o
<1> HIDE DEF f, g
<1>9. \A k \in 1 .. Len(clc'.snapshots) : \A l \in 1 .. k :
         l + d \in 1 .. k + d /\ clc'.snapshots[l] = clc.snapshots[l + d]
  <2>1. \A k \in 1 .. Len(clc'.snapshots) : \A l \in 1 .. k : l \in 1 .. Len(clc'.snapshots)
    BY <1>3
  <2> QED
    BY <1>2, <2>1
<1>10. ListInv(h, latest)'
  <2>1. ASSUME NEW k \in 1 .. Len(clc'.snapshots)
        PROVE  LET o == clc'.snapshots[k] IN
               /\ Live(o) =>
                    /\ \A l \in 1 .. k :
                         /\ Live(clc'.snapshots[l])
                         /\ clc'.snapshots[l].serverCommandNum <= o.serverCommandNum
                    /\ n <= o.serverCommandNum
                    /\ o.serverCommandNum <= latest
                    /\ o.serverCommandNum <= o.reliableSequence
                    /\ o.reliableSequence <= Len(h)
                    /\ Ends(h, o.serverCommandNum)
                    /\ o.state = CS_ACTIVE =>
                         Turns(h, g, n, o.configstrings, o.reliableSequence)
               /\ ~Live(o) =>
                    /\ cl.state = CS_ZOMBIE
                    /\ \A j \in 1 .. Len(toClient) : ~Live(toClient[j])
    <3> DEFINE i == k + d
    <3>1. i \in 1 .. Len(clc.snapshots) /\ clc'.snapshots[k] = clc.snapshots[i]
      BY <1>2
    <3>2. \A l \in 1 .. k : l + d \in 1 .. i /\ clc'.snapshots[l] = clc.snapshots[l + d]
      BY <1>9
    <3> HIDE DEF i
    <3>3. /\ Live(clc.snapshots[i]) =>
              /\ \A l \in 1 .. i :
                   /\ Live(clc.snapshots[l])
                   /\ clc.snapshots[l].serverCommandNum <= clc.snapshots[i].serverCommandNum
              /\ clc.snapshots[i].serverCommandNum <= latest
              /\ clc.snapshots[i].serverCommandNum <= clc.snapshots[i].reliableSequence
              /\ clc.snapshots[i].reliableSequence <= Len(h)
              /\ Ends(h, clc.snapshots[i].serverCommandNum)
          /\ ~Live(clc.snapshots[i]) =>
              /\ cl.state = CS_ZOMBIE
              /\ \A j \in 1 .. Len(toClient) : ~Live(toClient[j])
      BY <1>5, <3>1 DEF ListInv
    <3> QED
      BY <1>8, <3>1, <3>2, <3>3
  <2> QED
    BY <1>1, <1>4, <2>1 DEF ListInv, g
<1>11. Waits
  BY <1>3 DEF Waits
<1>12. \A i \in n + 1 .. latest :
          seq - i < MAX_RELIABLE_COMMANDS => clc.serverCommands[Slot(i)] = h[i]
  <2>1. \A i \in n + 1 .. latest : i \in a + 1 .. latest
    BY <1>4
  <2> QED
    BY <1>11, <2>1 DEF Story
<1>13. cl.state # CS_ZOMBIE => h = cl.issued /\ latest = seq
  BY DEF Story
<1> HIDE DEF a, n, seq
<1> QED
  BY <1>1, <1>4, <1>5, <1>7, <1>10, <1>12, <1>13 DEF Story, n

LEMMA ShowServer ==
    ASSUME TypeInv, RingOK(cl), cl.state # CS_ZOMBIE, ServerInv, NEW s, ProcessStep(s),
           NEW h \in Seq(Commands), NEW latest \in Nat, Story(h, latest), Shows(h, latest, s)
    PROVE  ServerInv'
<1>1. /\ cl' = cl /\ sv' = sv /\ toClient' = toClient /\ clc'.serverId = clc.serverId
  BY DEF ProcessStep, server
<1>2. PICK d \in {0, 1} : \A k \in 1 .. Len(clc'.snapshots) :
         k + d \in 1 .. Len(clc.snapshots) /\ clc'.snapshots[k] = clc.snapshots[k + d]
  BY Listed
<1> DEFINE a == cgs.serverCommandSequence
           n == s.serverCommandNum
           b == cl.reliableSequence
           f == cgs.configstrings
           g == cgs'.configstrings
<1>3. /\ a \in Nat /\ n \in Nat /\ a <= n /\ n <= s.reliableSequence
      /\ s.reliableSequence <= Len(h)
      /\ cgs'.serverCommandSequence = n
      /\ Turns(h, f, a, g, n)
  BY DEF Shows
<1>4. b \in Nat /\ Len(cl.issued) = b /\ h = cl.issued
  BY VariableTypes DEF RingOK, Story
<1>5. s.reliableSequence \in Nat
  BY DEF ProcessStep, Snapshots
<1>6. ASSUME clc.serverId = sv.serverId
      PROVE  Current(cl, sv.configstrings, g, n)
  <2>1. Current(cl, sv.configstrings, f, a)
    BY <1>6 DEF ServerInv
  <2>2. ASSUME NEW k \in ConfigString, Leads(h, k, f[k], a, sv.configstrings[k], b)
        PROVE  Leads(h, k, g[k], n, sv.configstrings[k], b)
    <3>1. Leads(h, k, f[k], a, g[k], n)
      BY <1>3 DEF Turns
    <3>2. n <= b
      BY <1>3, <1>4, <1>5
    <3> HIDE DEF a, n, b, f, g
    <3> QED
      BY <1>3, <1>4, <2>2, <3>1, <3>2, LeadsRest
  <2> QED
    BY <1>4, <2>1, <2>2 DEF Current
<1>7. /\ QueueInv(cl)
      /\ \A i \in 1 .. Len(toClient) :
           toClient[i].body = "gamestate" /\ toClient[i].serverId = sv.serverId =>
             Current(cl, sv.configstrings, toClient[i].configstrings,
                     toClient[i].reliableSequence)
      /\ \A i \in 1 .. Len(clc.snapshots) : clc.snapshots[i].reliableSequence <= cl.reliableSent
  BY DEF ServerInv
<1>8. \A k \in 1 .. Len(clc'.snapshots) : clc'.snapshots[k].reliableSequence <= cl.reliableSent
  BY <1>2, <1>7
<1> QED
  BY <1>1, <1>3, <1>6, <1>7, <1>8 DEF ServerInv

LEMMA ShowCurrent ==
    ASSUME TypeInv, NEW s, ProcessStep(s), cgs' # cgs,
           NEW h, NEW latest, Shows(h, latest, s)
    PROVE  ConfigstringsCurrent'
<1>1. /\ cgs'.shown = s /\ s \in Snapshots
      /\ cgs'.configstrings \in [ConfigString -> Value \cup {-1}]
  BY DEF ProcessStep, CGame
<1>2. s.configstrings \in [ConfigString -> Value] /\ s.reliableSequence \in Nat
  BY <1>1 DEF Snapshots, Strings
<1> SUFFICES ASSUME s.state = CS_ACTIVE, s.serverCommandNum >= s.reliableSequence
             PROVE  cgs'.configstrings = s.configstrings
  BY <1>1 DEF ConfigstringsCurrent, Showing
<1> DEFINE a == cgs.serverCommandSequence
           n == s.serverCommandNum
           f == cgs.configstrings
           g == cgs'.configstrings
<1>3. /\ a \in Nat /\ n \in Nat /\ a <= n /\ n <= s.reliableSequence
      /\ Turns(h, f, a, g, n) /\ Turns(h, f, a, s.configstrings, s.reliableSequence)
  BY DEF Shows
<1>4. n = s.reliableSequence
  BY <1>2, <1>3
<1>5. ASSUME NEW k \in ConfigString PROVE g[k] = s.configstrings[k]
  <2>1. Leads(h, k, f[k], a, g[k], n) /\ Leads(h, k, f[k], a, s.configstrings[k], n)
    BY <1>3, <1>4 DEF Turns
  <2> HIDE DEF a, n, f, g
  <2> QED
    BY <1>3, <2>1, LeadsSame
<1> QED
  BY <1>1, <1>2, <1>5

LEMMA ProcessStrings ==
    ASSUME IInv, MapInv, StringsInv, CG_ProcessSnapshots
    PROVE  StringsInv' /\ MapInv'
<1> DEFINE s == Head(clc.snapshots)
<1>1. TypeInv /\ RingOK(cl) /\ ProcessStep(s)
  BY ProcessIsStep DEF IInv
<1> HIDE DEF s
<1>2. MapInv'
  BY <1>1, ProcessMap
<1>3. CASE cgs' = cgs
  BY <1>1, <1>2, <1>3, SkipStrings
<1>4. ASSUME cgs' # cgs, Plain
      PROVE  /\ cl'.state # CS_ZOMBIE => ServerInv'
             /\ StoryInv'
             /\ ConfigstringsCurrent'
  <2>1. (cl.state # CS_ZOMBIE => ServerInv) /\ StoryInv /\ InFlightInv
    BY <1>4 DEF StringsInv, Plain, IInv
  <2>2. CASE ~Live(s)
    BY <1>1, <1>4, <2>1, <2>2, ShowDead
  <2>3. CASE Live(s)
    <3>1. PICK h \in Seq(Commands), latest \in Nat : Story(h, latest)
      BY <2>1 DEF StoryInv
    <3>2. Shows(h, latest, s)
      BY <1>1, <1>4, <2>3, <3>1, ShowSets
    <3>3. Story(h, latest)'
      BY <1>1, <2>1, <2>3, <3>1, <3>2, ShowStory
    <3>4. cl'.state # CS_ZOMBIE => ServerInv'
      <4>1. cl' = cl
        BY <1>1 DEF ProcessStep, server
      <4> QED
        BY <1>1, <2>1, <3>1, <3>2, <4>1, ShowServer
    <3>5. ConfigstringsCurrent'
      BY <1>1, <1>4, <3>2, ShowCurrent
    <3> QED
      BY <3>3, <3>4, <3>5 DEF StoryInv
  <2> QED
    BY <2>2, <2>3
<1>5. illegible' = illegible /\ deferred' = deferred
  BY <1>1 DEF ProcessStep, history
<1> QED
  BY <1>2, <1>3, <1>4, <1>5 DEF StringsInv, Plain

-----------------------------------------------------------------------------
(* The initial states, any step, and the theorems.                         *)

LEMMA InitMap == Init => MapInv
<1> SUFFICES ASSUME Init PROVE MapInv
  OBVIOUS
<1>1. /\ cl.serverIdAcknowledge = 0 /\ sv.serverId = 1 /\ clc.serverId = 0
      /\ Len(toServer) = 0 /\ Len(toClient) = 0
  BY DEF Init
<1>2. \A i \in 1 .. 0 : FALSE
  OBVIOUS
<1> QED
  BY <1>1, <1>2 DEF MapInv

LEMMA InitStrings == Init => StringsInv
<1> SUFFICES ASSUME Init PROVE StringsInv
  OBVIOUS
<1>1. /\ cl.reliableSequence = 0 /\ cl.reliableSent = 0 /\ cl.issued = <<>>
      /\ sv.serverId = 1 /\ clc.serverId = 0 /\ clc.snapshots = <<>>
      /\ clc.serverCommandSequence = 0
      /\ cgs.serverCommandSequence = 0 /\ cgs.shown = NoSnapshot
      /\ Len(toClient) = 0 /\ Len(clc.snapshots) = 0 /\ Len(cl.issued) = 0
  BY DEF Init
<1>2. \A i \in 1 .. 0 : FALSE
  OBVIOUS
<1>3. \A i \in 0 + 1 .. 0 : FALSE
  OBVIOUS
<1>4. QueueInv(cl)
  BY <1>1, <1>2, <1>3 DEF QueueInv, Pieces, Ends, OnePending
<1>5. ServerInv
  BY <1>1, <1>2, <1>4 DEF ServerInv
<1>6. Story(<<>>, 0)
  BY <1>1, <1>2, <1>3 DEF Story, Pieces, Ends, FlightInv, ListInv
<1>7. <<>> \in Seq(Commands) /\ 0 \in Nat
  OBVIOUS
<1>8. StoryInv
  BY <1>6, <1>7 DEF StoryInv
<1>9. ConfigstringsCurrent
  BY <1>1 DEF ConfigstringsCurrent, Showing
<1> QED
  BY <1>5, <1>8, <1>9 DEF StringsInv

LEMMA StringsStepOK ==
    ASSUME Orderly, IInv, MapInv, StringsInv, [Next]_vars
    PROVE  StringsInv' /\ MapInv'
<1>1. IInv'
  BY StepOK
<1>2. ASSUME NEW k \in ConfigString, SV_SetConfigstring(k) PROVE StringsInv' /\ MapInv'
  BY <1>1, <1>2, SetConfigstringStrings
<1>3. ASSUME SV_SendServerCommand PROVE StringsInv' /\ MapInv'
  BY <1>1, <1>3, SendServerCommandStrings
<1>4. ASSUME DropClient PROVE StringsInv' /\ MapInv'
  BY <1>1, <1>4, DropClientStrings
<1>5. ASSUME SV_SpawnServer PROVE StringsInv' /\ MapInv'
  BY <1>1, <1>5, SpawnServerStrings
<1>6. ASSUME SV_SendClientSnapshot PROVE StringsInv' /\ MapInv'
  BY <1>6, SendSnapshotStrings
<1>7. ASSUME NEW n \in 1 .. Len(toServer), SV_ExecuteClientMessage(n)
      PROVE  StringsInv' /\ MapInv'
  BY <1>1, <1>7, ExecuteClientMessageStrings
<1>8. ASSUME NEW n \in 1 .. Len(toClient), CL_ParseServerMessage(n)
      PROVE  StringsInv' /\ MapInv'
  BY <1>8, ParseStrings
<1>9. ASSUME NEW move \in BOOLEAN, CL_WritePacket(move) PROVE StringsInv' /\ MapInv'
  BY <1>9, WriteStrings
<1>10. ASSUME CG_ProcessSnapshots PROVE StringsInv' /\ MapInv'
  BY <1>10, ProcessStrings
<1>11. ASSUME UNCHANGED vars PROVE StringsInv' /\ MapInv'
  <2>1. UNCHANGED <<server, toClient, clc, cgs, history>> /\ toServer' = toServer
    BY <1>11 DEF vars
  <2>2. StringsInv'
    BY <2>1, SameStrings
  <2>3. MapInv'
    BY <2>1 DEF MapInv, server
  <2> QED
    BY <2>2, <2>3
<1>12. Next => StringsInv' /\ MapInv'
  BY <1>2, <1>3, <1>4, <1>5, <1>6, <1>7, <1>8, <1>9, <1>10 DEF Next
<1> QED
  BY <1>11, <1>12

LEMMA StringsInvariant ==
    ASSUME Orderly
    PROVE  Spec => []StringsInv
<1>1. Init => IInv
  BY InitOK
<1>2. Init => MapInv /\ StringsInv
  BY InitMap, InitStrings
<1>3. IInv /\ [Next]_vars => IInv'
  BY StepOK
<1>4. IInv /\ MapInv /\ StringsInv /\ [Next]_vars => MapInv' /\ StringsInv'
  BY StringsStepOK
<1> QED
  BY <1>1, <1>2, <1>3, <1>4, PTL DEF Spec

(***************************************************************************)
(* If no string is too long for one command, the configstrings a client    *)
(* shows a snapshot with are those the server had when it made it          *)
(* (SV_SetConfigstring, SV_UpdateConfigstrings, CG_ConfigStringModified),  *)
(* through loss, resending, replaced commands, changes made while the      *)
(* client enters, and changes of map.                                      *)
(***************************************************************************)
THEOREM ConfigstringsAreCurrent ==
    ASSUME LongString = {}
    PROVE  Spec => []ConfigstringsCurrent
<1>1. Spec => []StringsInv
  BY StringsInvariant DEF Orderly
<1>2. StringsInv => ConfigstringsCurrent
  BY DEF StringsInv, Plain, ConfigstringsCurrent
<1> QED
  BY <1>1, <1>2, PTL

(***************************************************************************)
(* With strings sent in pieces too, under the protocol without replacement *)
(* of pending configstrings, as long as every message had room for its     *)
(* commands.  Under the other protocol SV_ReplacePendingServerCommands may *)
(* put a newer value ahead of pieces queued before it.                     *)
(***************************************************************************)
THEOREM PiecesAreCurrent ==
    ASSUME ~MOHTA
    PROVE  Spec => []ConfigstringsCurrentUnlessDeferred
<1>1. Spec => []StringsInv
  BY StringsInvariant DEF Orderly
<1>2. StringsInv => ConfigstringsCurrentUnlessDeferred
  BY DEF StringsInv, Plain, ConfigstringsCurrent, ConfigstringsCurrentUnlessDeferred
<1> QED
  BY <1>1, <1>2, PTL
=============================================================================
