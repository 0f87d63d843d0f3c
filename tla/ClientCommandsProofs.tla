------------------------ MODULE ClientCommandsProofs ------------------------
(***************************************************************************)
(* Proofs about ClientCommands, for every size of the ring, every fragment *)
(* size and any number of commands and messages in flight.                 *)
(*                                                                         *)
(* What the invariants say of a command executed depends on the packets in *)
(* flight and these on the ring, so the inductive invariant IInv names     *)
(* what each of them holds, whatever happens: the ring its newest commands *)
(* (RingInv), the packets, the acknowledgements and the history the        *)
(* commands in order, but for those overwritten (Recorded).  As long as    *)
(* the ring was not overrun, packets have no gaps either (InStep).         *)
(***************************************************************************)
EXTENDS ClientCommands, SequenceTheorems, TLAPS

-----------------------------------------------------------------------------
\* A packet carries the commands from some number to that of its move.
PacketsAt(s) == UNION {[commands : [a + 1 .. s -> Numbers], move : {s}] : a \in Numbers}
Packets == UNION {PacketsAt(s) : s \in Numbers}
Acks    == [lastClientCommand : Numbers, key : Numbers]

FlightInv ==
    /\ toServer \in Seq(Packets)
    /\ toClient \in Seq(Acks)
    /\ \A n \in 1 .. Len(toServer) : toServer[n].move <= reliableSequence
    /\ \A n \in 1 .. Len(toClient) : toClient[n].lastClientCommand <= lastClientCommand

\* The ring holds its newest commands.
RingInv ==
    \A i \in 1 .. reliableSequence :
        reliableSequence - i < MAX_RELIABLE_COMMANDS => reliableCommands[Slot(i)] = i

\* At most one command more than slots is unacknowledged.
WindowInv ==
    /\ reliableSequence - reliableAcknowledge <= MAX_RELIABLE_COMMANDS + 1
    /\ reliableSequence - reliableAcknowledge > MAX_RELIABLE_COMMANDS
         => most > MAX_RELIABLE_COMMANDS

\* Command i is c, or was overwritten by the one a ring newer.
Holds(c, i) ==
    \/ c = i
    \/ c = i + MAX_RELIABLE_COMMANDS /\ most > MAX_RELIABLE_COMMANDS

\* The commands of a packet, of which the newest was not overwritten.
Carries(p) ==
    /\ \A i \in DOMAIN p.commands : Holds(p.commands[i], i)
    /\ p.move \in DOMAIN p.commands => p.commands[p.move] = p.move

ExecutedInv ==
    /\ Len(executed) = lastClientCommand
    /\ \A i \in 1 .. Len(executed) : Holds(executed[i], i)
    /\ lastClientCommandString = lastClientCommand

KeysInv == \A n \in 1 .. Len(toClient) : toClient[n].key = toClient[n].lastClientCommand

Recorded ==
    /\ WindowInv
    /\ \A n \in 1 .. Len(toServer) : Carries(toServer[n])
    /\ KeysInv
    /\ ExecutedInv

\* No gap before the commands of p.
Faithful(p) == \E a \in 0 .. lastClientCommand : DOMAIN p.commands = a + 1 .. p.move

PacketsFaithful == \A n \in 1 .. Len(toServer) : Faithful(toServer[n])

AcksInOrder ==
    /\ \A n \in 1 .. Len(toClient) : toClient[n].lastClientCommand >= reliableAcknowledge
    /\ \A i, j \in 1 .. Len(toClient) :
         i <= j => toClient[i].lastClientCommand <= toClient[j].lastClientCommand

InStep ==
    /\ reliableSequence - reliableAcknowledge <= most
    /\ reliableAcknowledge <= lastClientCommand
    /\ PacketsFaithful
    /\ AcksInOrder
    /\ moved <= lastClientCommand

IInv ==
    /\ TypeOK
    /\ FlightInv
    /\ RingInv
    /\ Recorded
    /\ most <= MAX_RELIABLE_COMMANDS => InStep

-----------------------------------------------------------------------------
(* The ring.                                                               *)

\* A positive number below the size of the ring is no multiple of it.
LEMMA NoMultiple ==
    ASSUME NEW q \in Int, NEW d \in Int, d = MAX_RELIABLE_COMMANDS * q,
           0 < d, d < MAX_RELIABLE_COMMANDS
    PROVE  FALSE
<1>1. CASE q <= 0
  <2>1. MAX_RELIABLE_COMMANDS * q <= 0
    BY <1>1, ClientCommandsAssumption
  <2> QED
    BY <2>1, ClientCommandsAssumption
<1>2. CASE q >= 1
  <2>1. MAX_RELIABLE_COMMANDS * q >= MAX_RELIABLE_COMMANDS
    BY <1>2, ClientCommandsAssumption
  <2> QED
    BY <2>1, ClientCommandsAssumption
<1> QED
  BY <1>1, <1>2

\* A slot is in the ring, and two commands in one slot are a ring apart.
LEMMA SlotInRing ==
    ASSUME NEW i \in Nat
    PROVE  Slot(i) \in Ring
BY ClientCommandsAssumption DEF Slot, Ring

LEMMA SlotsDiffer ==
    ASSUME NEW i \in Nat, NEW j \in Nat, i < j, j - i < MAX_RELIABLE_COMMANDS
    PROVE  Slot(i) # Slot(j)
<1> SUFFICES ASSUME i % MAX_RELIABLE_COMMANDS = j % MAX_RELIABLE_COMMANDS PROVE FALSE
  BY DEF Slot
<1> DEFINE a == i \div MAX_RELIABLE_COMMANDS
           b == j \div MAX_RELIABLE_COMMANDS
<1>1. i = MAX_RELIABLE_COMMANDS * a + (i % MAX_RELIABLE_COMMANDS) /\ a \in Int
  BY ClientCommandsAssumption
<1>2. j = MAX_RELIABLE_COMMANDS * b + (j % MAX_RELIABLE_COMMANDS) /\ b \in Int
  BY ClientCommandsAssumption
<1>3. /\ MAX_RELIABLE_COMMANDS \in Int
      /\ i % MAX_RELIABLE_COMMANDS \in Int /\ j % MAX_RELIABLE_COMMANDS \in Int
  BY ClientCommandsAssumption
<1> HIDE DEF a, b
<1>4. j - i = MAX_RELIABLE_COMMANDS * b - MAX_RELIABLE_COMMANDS * a
  <2>1. MAX_RELIABLE_COMMANDS * a \in Int /\ MAX_RELIABLE_COMMANDS * b \in Int
    BY <1>1, <1>2, <1>3
  <2> QED
    BY <1>1, <1>2, <1>3, <2>1
<1>5. MAX_RELIABLE_COMMANDS * b - MAX_RELIABLE_COMMANDS * a
        = MAX_RELIABLE_COMMANDS * (b - a)
  BY <1>1, <1>2, <1>3
<1> QED
  BY <1>1, <1>2, <1>4, <1>5, NoMultiple

\* A ring further is the same slot.
LEMMA SlotAgain ==
    ASSUME NEW i \in Nat
    PROVE  Slot(i + MAX_RELIABLE_COMMANDS) = Slot(i)
<1> DEFINE M == MAX_RELIABLE_COMMANDS
           j == i + M
           a == i \div M
           b == j \div M
           r == i % M
           q == j % M
<1>1. M \in Nat \ {0} /\ j \in Nat
  BY ClientCommandsAssumption
<1>2. i = M * a + r /\ a \in Int /\ r \in Int /\ 0 <= r /\ r < M
  BY <1>1
<1>3. j = M * b + q /\ b \in Int /\ q \in Int /\ 0 <= q /\ q < M
  BY <1>1
<1>4. j = i + M
  OBVIOUS
<1> HIDE DEF j, a, b, r, q
<1>5. M * (b - a - 1) = r - q /\ M * (a + 1 - b) = q - r
  <2>1. M * (b - a - 1) = M * b - M * a - M /\ M * (a + 1 - b) = M * a + M - M * b
    BY <1>1, <1>2, <1>3
  <2>2. M * a \in Int /\ M * b \in Int
    BY <1>1, <1>2, <1>3
  <2> QED
    BY <1>1, <1>2, <1>3, <1>4, <2>1, <2>2
<1>6. ~(0 < r - q)
  BY <1>1, <1>2, <1>3, <1>5, NoMultiple
<1>7. ~(0 < q - r)
  BY <1>1, <1>2, <1>3, <1>5, NoMultiple
<1> QED
  BY <1>2, <1>3, <1>6, <1>7 DEF Slot, r, q, j

-----------------------------------------------------------------------------
(* Messages in flight.                                                     *)

\* How many messages are lost when one is sent.
Lost(f) == IF Len(f) < MaxInFlight THEN 0 ELSE 1

\* Sending appends a message, and may lose the oldest.
LEMMA SentProperties ==
    ASSUME NEW S, NEW f \in Seq(S), NEW m \in S
    PROVE  /\ Lost(f) \in Nat /\ Lost(f) <= Len(f)
           /\ Sent(f, m) \in Seq(S)
           /\ Len(Sent(f, m)) = Len(f) - Lost(f) + 1
           /\ Sent(f, m)[Len(f) - Lost(f) + 1] = m
           /\ \A n \in 1 .. Len(f) - Lost(f) : Sent(f, m)[n] = f[n + Lost(f)]
<1>1. CASE Len(f) < MaxInFlight
  <2>1. Sent(f, m) = Append(f, m) /\ Lost(f) = 0
    BY <1>1 DEF Sent, Lost
  <2> QED
    BY <2>1, AppendProperties
<1>2. CASE ~(Len(f) < MaxInFlight)
  <2>1. Sent(f, m) = Append(Tail(f), m) /\ Lost(f) = 1
    BY <1>2 DEF Sent, Lost
  <2>2. f # <<>> /\ Len(f) \in Nat /\ Len(f) >= 1
    BY <1>2, ClientCommandsAssumption
  <2>3. /\ Tail(f) \in Seq(S) /\ Len(Tail(f)) = Len(f) - 1
        /\ \A n \in 1 .. Len(Tail(f)) : Tail(f)[n] = f[n + 1]
    BY <2>2, HeadTailProperties
  <2>4. /\ Append(Tail(f), m) \in Seq(S)
        /\ Len(Append(Tail(f), m)) = Len(f) - 1 + 1
        /\ Append(Tail(f), m)[Len(f) - 1 + 1] = m
        /\ \A n \in 1 .. Len(f) - 1 : Append(Tail(f), m)[n] = f[n + 1]
    BY <2>2, <2>3, AppendProperties
  <2> QED
    BY <2>1, <2>2, <2>4
<1> QED
  BY <1>1, <1>2

\* The same, element by element: the last is new, the others were there.
LEMMA SentElements ==
    ASSUME NEW S, NEW f \in Seq(S), NEW m \in S, NEW n \in 1 .. Len(Sent(f, m))
    PROVE  \/ n = Len(Sent(f, m)) /\ Sent(f, m)[n] = m
           \/ /\ n < Len(Sent(f, m)) /\ n + Lost(f) \in 1 .. Len(f)
              /\ Sent(f, m)[n] = f[n + Lost(f)]
<1>1. /\ Lost(f) \in Nat /\ Lost(f) <= Len(f) /\ Len(f) \in Nat
      /\ Len(Sent(f, m)) = Len(f) - Lost(f) + 1
      /\ Sent(f, m)[Len(f) - Lost(f) + 1] = m
      /\ \A k \in 1 .. Len(f) - Lost(f) : Sent(f, m)[k] = f[k + Lost(f)]
  BY SentProperties, LenProperties
<1>2. CASE n = Len(f) - Lost(f) + 1
  BY <1>1, <1>2
<1>3. CASE n # Len(f) - Lost(f) + 1
  <2>1. n \in 1 .. Len(f) - Lost(f) /\ n + Lost(f) \in 1 .. Len(f) /\ n < Len(Sent(f, m))
    BY <1>1, <1>3
  <2> QED
    BY <1>1, <2>1
<1> QED
  BY <1>2, <1>3

\* Receiving the n-th message discards it and those before it.
LEMMA ReceivedProperties ==
    ASSUME NEW S, NEW f \in Seq(S), NEW n \in 1 .. Len(f)
    PROVE  /\ SubSeq(f, n + 1, Len(f)) \in Seq(S)
           /\ Len(SubSeq(f, n + 1, Len(f))) = Len(f) - n
           /\ \A i \in 1 .. Len(f) - n : SubSeq(f, n + 1, Len(f))[i] = f[n + i]
<1>1. Len(f) \in Nat /\ n \in Nat /\ n <= Len(f)
  BY LenProperties
<1>2. SubSeq(f, n + 1, Len(f)) = [i \in 1 .. Len(f) - n |-> f[n + i]]
  BY <1>1
<1>3. \A i \in 1 .. Len(f) - n : f[n + i] \in S
  BY <1>1, ElementOfSeq
<1> QED
  BY <1>1, <1>2, <1>3

-----------------------------------------------------------------------------
(* The commands of a packet that are new.                                  *)

\* The packets in flight, field by field.
LEMMA PacketFacts ==
    ASSUME NEW p \in Packets
    PROVE  /\ p.move \in Numbers
           /\ \E a \in Numbers : DOMAIN p.commands = a + 1 .. p.move
           /\ \A i \in DOMAIN p.commands : p.commands[i] \in Numbers
           /\ DOMAIN p.commands \subseteq 1 .. p.move
<1>1. PICK a \in Numbers, s \in Numbers :
        p \in [commands : [a + 1 .. s -> Numbers], move : {s}]
  <2>1. PICK s \in Numbers : p \in PacketsAt(s)
    BY DEF Packets
  <2> QED
    BY <2>1 DEF PacketsAt
<1>2. p.move = s /\ p.commands \in [a + 1 .. s -> Numbers]
  BY <1>1
<1>3. a + 1 .. s \subseteq 1 .. s
  BY ClientCommandsAssumption DEF Numbers
<1> QED
  BY <1>2, <1>3

\* Without a gap, the new commands are those from the next to the newest.
LEMMA NewCommands ==
    ASSUME NEW p \in Packets, lastClientCommand \in Nat, NoneLost(p)
    PROVE  \/ New(p) = {}
           \/ /\ lastClientCommand < p.move
              /\ New(p) = lastClientCommand + 1 .. p.move
<1>1. PICK a \in Numbers : DOMAIN p.commands = a + 1 .. p.move
  BY PacketFacts
<1>2. p.move \in Nat /\ a \in Nat
  BY PacketFacts, ClientCommandsAssumption DEF Numbers
<1>3. New(p) = {i \in a + 1 .. p.move : i > lastClientCommand}
  BY <1>1 DEF New
<1>4. CASE New(p) # {}
  <2>1. lastClientCommand + 1 \in New(p)
    BY <1>4 DEF NoneLost
  <2>2. a <= lastClientCommand /\ lastClientCommand < p.move
    BY <1>2, <1>3, <2>1
  <2>3. {i \in a + 1 .. p.move : i > lastClientCommand} = lastClientCommand + 1 .. p.move
    BY <1>2, <2>2
  <2> QED
    BY <1>3, <2>2, <2>3
<1> QED
  BY <1>4

\* What SV_ExecuteCommands does, without its choices.
LEMMA Executes ==
    ASSUME NEW p \in Packets, lastClientCommand \in Nat, SV_ExecuteCommands(p)
    PROVE  /\ \/ /\ New(p) = {}
                 /\ UNCHANGED <<lastClientCommand, lastClientCommandString, executed>>
              \/ /\ lastClientCommand < p.move
                 /\ New(p) = lastClientCommand + 1 .. p.move
                 /\ lastClientCommand' = p.move
                 /\ lastClientCommandString' = p.commands[p.move]
                 /\ executed' = executed \o
                      [k \in 1 .. p.move - lastClientCommand |->
                         p.commands[lastClientCommand + k]]
           /\ moved' = Larger(moved, p.move)
           /\ UNCHANGED zombie
<1> DEFINE latest == CHOOSE i \in New(p) \cup {lastClientCommand} :
                        \A j \in New(p) : j <= i
           first  == CHOOSE i \in New(p) : \A j \in New(p) : i <= j
<1>1. NoneLost(p) /\ moved' = Larger(moved, p.move) /\ UNCHANGED zombie
  BY DEF SV_ExecuteCommands
<1>2. lastClientCommand' = latest
  BY DEF SV_ExecuteCommands
<1>3. \/ New(p) = {} /\ UNCHANGED <<lastClientCommandString, executed>>
      \/ /\ New(p) # {}
         /\ lastClientCommandString' = p.commands[latest]
         /\ executed' = executed \o
              [k \in 1 .. latest - first + 1 |-> p.commands[first + k - 1]]
  BY DEF SV_ExecuteCommands
<1>4. CASE New(p) = {}
  <2>1. latest = lastClientCommand
    BY <1>4
  <2> QED
    BY <1>1, <1>2, <1>3, <1>4, <2>1
<1>5. CASE New(p) # {}
  <2>1. lastClientCommand < p.move /\ New(p) = lastClientCommand + 1 .. p.move
    BY <1>1, <1>5, NewCommands
  <2>2. p.move \in Nat
    BY PacketFacts, ClientCommandsAssumption DEF Numbers
  <2>3. latest = p.move
    <3>1. p.move \in New(p) /\ \A j \in New(p) : j <= p.move
      BY <2>1, <2>2
    <3>2. latest \in New(p) \cup {lastClientCommand} /\ \A j \in New(p) : j <= latest
      BY <3>1
    <3> HIDE DEF latest
    <3> QED
      BY <2>1, <2>2, <3>1, <3>2
  <2>4. first = lastClientCommand + 1
    <3>1. /\ lastClientCommand + 1 \in New(p)
          /\ \A j \in New(p) : lastClientCommand + 1 <= j
      BY <2>1, <2>2
    <3>2. first \in New(p) /\ \A j \in New(p) : first <= j
      BY <3>1
    <3> HIDE DEF first
    <3> QED
      BY <2>1, <2>2, <3>1, <3>2
  <2> HIDE DEF latest, first
  <2>5. latest - first + 1 = p.move - lastClientCommand
    BY <2>2, <2>3, <2>4
  <2>6. [k \in 1 .. latest - first + 1 |-> p.commands[first + k - 1]]
          = [k \in 1 .. p.move - lastClientCommand |-> p.commands[lastClientCommand + k]]
    <3>1. \A k \in 1 .. p.move - lastClientCommand : first + k - 1 = lastClientCommand + k
      BY <2>2, <2>4
    <3> QED
      BY <2>5, <3>1
  <2> QED
    BY <1>1, <1>2, <1>3, <1>5, <2>1, <2>3, <2>6
<1> QED
  BY <1>4, <1>5

-----------------------------------------------------------------------------
(* The invariant holds initially, and each action preserves it.            *)

LEMMA InitIInv == Init => IInv
<1> SUFFICES ASSUME Init PROVE IInv
  OBVIOUS
<1>1. MaxCommands \in Nat /\ MAX_RELIABLE_COMMANDS \in Nat
  BY ClientCommandsAssumption
<1>2. connected \in BOOLEAN /\ zombie \in BOOLEAN
  BY Zenon DEF Init
<1>3. /\ reliableSequence = 0 /\ reliableAcknowledge = 0 /\ lastClientCommand = 0
      /\ lastClientCommandString = 0 /\ moved = 0 /\ most = 0
      /\ executed = <<>> /\ toServer = <<>> /\ toClient = <<>>
      /\ reliableCommands = [s \in Ring |-> 0]
  BY DEF Init, None
<1>4. TypeOK
  <2>1. reliableCommands \in [Ring -> Numbers]
    BY <1>1, <1>3 DEF Numbers
  <2>2. executed \in Seq(Numbers) /\ Len(toServer) = 0 /\ Len(toClient) = 0
    BY <1>3, EmptySeq
  <2> QED
    BY <1>1, <1>2, <1>3, <2>1, <2>2 DEF TypeOK, Numbers
<1>5. FlightInv
  BY <1>3, EmptySeq DEF FlightInv
<1>6. RingInv
  BY <1>3 DEF RingInv
<1>7. InStep
  BY <1>1, <1>3, EmptySeq DEF InStep, PacketsFaithful, AcksInOrder
<1>8. Recorded
  BY <1>1, <1>3, EmptySeq DEF Recorded, WindowInv, KeysInv, ExecutedInv
<1> QED
  BY <1>4, <1>5, <1>6, <1>7, <1>8 DEF IInv

\* TypeOK follows from the ranges of the scalars, the ring and the history.
Scalars ==
    /\ reliableSequence \in Numbers
    /\ reliableAcknowledge \in 0 .. reliableSequence
    /\ lastClientCommand \in 0 .. reliableSequence
    /\ lastClientCommandString \in Numbers
    /\ moved \in Numbers
    /\ most \in 0 .. MAX_RELIABLE_COMMANDS + 1

Stores ==
    /\ reliableCommands \in [Ring -> Numbers]
    /\ executed \in Seq(Numbers)

LEMMA TypeParts ==
    TypeOK /\ FlightInv <=>
        connected \in BOOLEAN /\ zombie \in BOOLEAN /\ Scalars /\ Stores /\ FlightInv
<1>1. TypeOK =>
        connected \in BOOLEAN /\ zombie \in BOOLEAN /\ Scalars /\ Stores
  BY Zenon DEF TypeOK, Scalars, Stores
<1>2. ASSUME Scalars, FlightInv
      PROVE  /\ \A n \in 1 .. Len(toServer) :
                  /\ DOMAIN toServer[n].commands \subseteq 1 .. reliableSequence
                  /\ toServer[n].move \in Numbers
             /\ \A n \in 1 .. Len(toClient) :
                  /\ toClient[n].lastClientCommand \in 0 .. lastClientCommand
                  /\ toClient[n].key \in Numbers
  <2>1. ASSUME NEW n \in 1 .. Len(toServer)
        PROVE  /\ DOMAIN toServer[n].commands \subseteq 1 .. reliableSequence
               /\ toServer[n].move \in Numbers
    <3>1. toServer[n] \in Packets /\ toServer[n].move <= reliableSequence
      BY <1>2, <2>1, ElementOfSeq DEF FlightInv
    <3>2. /\ DOMAIN toServer[n].commands \subseteq 1 .. toServer[n].move
          /\ toServer[n].move \in Numbers
      BY <3>1, PacketFacts
    <3>3. 1 .. toServer[n].move \subseteq 1 .. reliableSequence
      BY <1>2, <3>1, <3>2, ClientCommandsAssumption DEF Scalars, Numbers
    <3> QED
      BY <3>2, <3>3
  <2>2. ASSUME NEW n \in 1 .. Len(toClient)
        PROVE  /\ toClient[n].lastClientCommand \in 0 .. lastClientCommand
               /\ toClient[n].key \in Numbers
    <3>1. toClient[n] \in Acks /\ toClient[n].lastClientCommand <= lastClientCommand
      BY <1>2, <2>2, ElementOfSeq DEF FlightInv
    <3> QED
      BY <1>2, <3>1, ClientCommandsAssumption DEF Scalars, Acks, Numbers
  <2> QED
    BY <2>1, <2>2
<1>3. ASSUME connected \in BOOLEAN, zombie \in BOOLEAN, Scalars, Stores, FlightInv
      PROVE  TypeOK
  BY <1>2, <1>3, Zenon DEF TypeOK, Scalars, Stores
<1> QED
  BY <1>1, <1>3, Zenon

\* The invariant without the Boolean variables: everything a step can break.
Core ==
    /\ Scalars /\ Stores /\ FlightInv /\ RingInv /\ Recorded
    /\ most <= MAX_RELIABLE_COMMANDS => InStep

\* The numbers are numbers.
LEMMA ScalarTypes ==
    ASSUME Scalars
    PROVE  /\ MAX_RELIABLE_COMMANDS \in Nat \ {0} /\ MaxCommands \in Nat
           /\ reliableSequence \in Nat /\ reliableSequence <= MaxCommands
           /\ reliableAcknowledge \in Nat /\ reliableAcknowledge <= reliableSequence
           /\ lastClientCommand \in Nat /\ lastClientCommand <= reliableSequence
           /\ lastClientCommandString \in Nat /\ moved \in Nat
           /\ most \in Nat /\ most <= MAX_RELIABLE_COMMANDS + 1
BY ClientCommandsAssumption DEF Scalars, Numbers

\* Of the unacknowledged commands the ring lacks at most the oldest.
LEMMA RingFacts ==
    ASSUME Core, NEW i \in reliableAcknowledge + 1 .. reliableSequence
    PROVE  \/ reliableCommands[Slot(i)] = i
           \/ /\ i = reliableAcknowledge + 1
              /\ reliableSequence - reliableAcknowledge = MAX_RELIABLE_COMMANDS + 1
<1>1. reliableSequence - reliableAcknowledge <= MAX_RELIABLE_COMMANDS + 1
  BY DEF Core, Recorded, WindowInv
<1>2. i \in 1 .. reliableSequence
  BY ScalarTypes DEF Core
<1>3. CASE reliableSequence - i < MAX_RELIABLE_COMMANDS
  BY <1>2, <1>3 DEF Core, RingInv
<1>4. CASE ~(reliableSequence - i < MAX_RELIABLE_COMMANDS)
  BY <1>1, <1>4, ScalarTypes DEF Core
<1> QED
  BY <1>3, <1>4

\* The oldest was overwritten by the newest, which is a ring newer.
LEMMA PacketHolds ==
    ASSUME Core, NEW i \in reliableAcknowledge + 1 .. reliableSequence
    PROVE  /\ Holds(reliableCommands[Slot(i)], i)
           /\ i = reliableSequence => reliableCommands[Slot(i)] = i
<1>1. /\ MAX_RELIABLE_COMMANDS \in Nat \ {0} /\ reliableSequence \in Nat
      /\ reliableAcknowledge \in Nat /\ RingInv /\ WindowInv /\ i \in Nat
      /\ most \in Nat /\ i >= 1 /\ i <= reliableSequence
  BY ScalarTypes DEF Core, Recorded
<1>2. CASE reliableSequence - i < MAX_RELIABLE_COMMANDS
  <2>1. reliableCommands[Slot(i)] = i
    BY <1>1, <1>2 DEF RingInv
  <2> QED
    BY <2>1 DEF Holds
<1>3. CASE ~(reliableSequence - i < MAX_RELIABLE_COMMANDS)
  <2>1. /\ reliableSequence = i + MAX_RELIABLE_COMMANDS
        /\ most > MAX_RELIABLE_COMMANDS /\ i # reliableSequence
    BY <1>1, <1>3 DEF WindowInv
  <2>2. Slot(reliableSequence) = Slot(i)
    BY <1>1, <2>1, SlotAgain
  <2>3. reliableCommands[Slot(reliableSequence)] = reliableSequence
    BY <1>1 DEF RingInv
  <2> QED
    BY <2>1, <2>2, <2>3 DEF Holds
<1> QED
  BY <1>2, <1>3

\* What holds as long as no command is added or executed.
LEMMA StillHolds ==
    ASSUME Core, most' \in Nat, most <= most', NEW c, NEW i, Holds(c, i)
    PROVE  Holds(c, i)'
BY ScalarTypes DEF Core, Holds

LEMMA StillExecuted ==
    ASSUME Core, most' \in Nat, most <= most',
           UNCHANGED <<lastClientCommand, lastClientCommandString, executed>>
    PROVE  ExecutedInv'
<1>1. ExecutedInv
  BY DEF Core, Recorded
<1>2. ASSUME NEW i \in 1 .. Len(executed) PROVE Holds(executed[i], i)'
  <2>1. PICK c : c = executed[i]
    OBVIOUS
  <2>2. Holds(c, i)
    BY <1>1, <2>1 DEF ExecutedInv
  <2>3. Holds(c, i)'
    BY <2>2, StillHolds
  <2> QED
    BY <2>1, <2>3 DEF Holds
<1> QED
  BY <1>1, <1>2 DEF ExecutedInv

\* Packets and acknowledgements on their way do not change.
LEMMA StillRecorded ==
    ASSUME Core, most' \in Nat, most <= most', WindowInv', ExecutedInv',
           \A n \in 1 .. Len(toServer') :
             \/ \E k \in 1 .. Len(toServer) : toServer'[n] = toServer[k]
             \/ Carries(toServer'[n]),
           \A n \in 1 .. Len(toClient') :
             \/ \E k \in 1 .. Len(toClient) : toClient'[n] = toClient[k]
             \/ toClient'[n].key = toClient'[n].lastClientCommand
    PROVE  Recorded'
<1>1. ASSUME NEW n \in 1 .. Len(toServer') PROVE Carries(toServer[n])'
  <2>1. PICK p : p = toServer'[n]
    OBVIOUS
  <2>2. Carries(p)
    BY <2>1 DEF Core, Recorded
  <2>3. \A i \in DOMAIN p.commands : Holds(p.commands[i], i)'
    <3> SUFFICES ASSUME NEW i \in DOMAIN p.commands PROVE Holds(p.commands[i], i)'
      OBVIOUS
    <3>1. Holds(p.commands[i], i)
      BY <2>2 DEF Carries
    <3> QED
      BY <3>1, StillHolds
  <2> QED
    BY <2>1, <2>2, <2>3 DEF Carries, Holds
<1>2. KeysInv'
  BY DEF Core, Recorded, KeysInv
<1> QED
  BY <1>1, <1>2 DEF Recorded

\* A command goes into a slot no other of the newest commands is in.
LEMMA AddPreserves == Core /\ CL_AddReliableCommand => Core'
<1> SUFFICES ASSUME Core, CL_AddReliableCommand PROVE Core'
  OBVIOUS
<1>1. Scalars /\ Stores /\ FlightInv /\ RingInv
  BY DEF Core
<1>2. UNCHANGED <<reliableAcknowledge, lastClientCommand, lastClientCommandString,
                  executed, moved, toServer, toClient>>
  BY DEF CL_AddReliableCommand, server
<1>3. CASE UNCHANGED <<reliableSequence, reliableCommands, most>>
  BY <1>2, <1>3 DEF Core, Scalars, Stores, FlightInv, RingInv, InStep, Recorded, WindowInv,
                    Carries, Holds, KeysInv, PacketsFaithful, Faithful, AcksInOrder, ExecutedInv
<1>4. CASE /\ reliableSequence < MaxCommands
           /\ ~Overflows
           /\ Added
           /\ most' = Larger(most, reliableSequence + 1 - reliableAcknowledge)
  <2>1. /\ reliableSequence' = reliableSequence + 1
        /\ reliableCommands' = [reliableCommands EXCEPT ![Slot(reliableSequence + 1)]
                                  = reliableSequence + 1]
    BY <1>4 DEF Added
  <2>2. /\ most' \in 0 .. MAX_RELIABLE_COMMANDS + 1 /\ most <= most'
        /\ reliableSequence' - reliableAcknowledge <= most'
        /\ reliableSequence' - reliableAcknowledge <= MAX_RELIABLE_COMMANDS + 1
    BY <1>1, <1>4, <2>1, ScalarTypes DEF Larger, Overflows
  <2>3. Scalars'
    BY <1>1, <1>2, <1>4, <2>1, <2>2, ScalarTypes DEF Scalars, Numbers
  <2>4. Stores'
    <3>1. reliableSequence + 1 \in Numbers
      BY <1>1, <1>4, ScalarTypes DEF Numbers
    <3> QED
      BY <1>1, <1>2, <2>1, <3>1 DEF Stores
  <2>5. FlightInv'
    <3>1. ASSUME NEW n \in 1 .. Len(toServer) PROVE toServer[n].move <= reliableSequence + 1
      <4>1. toServer[n].move \in Nat
        <5>1. toServer[n] \in Packets
          BY <1>1, ElementOfSeq DEF FlightInv
        <5> QED
          BY <5>1, PacketFacts, ClientCommandsAssumption DEF Numbers
      <4>2. toServer[n].move <= reliableSequence
        BY <1>1 DEF FlightInv
      <4> QED
        BY <1>1, <4>1, <4>2, ScalarTypes
    <3> QED
      BY <1>1, <1>2, <2>1, <3>1 DEF FlightInv
  <2>6. RingInv'
    <3> SUFFICES ASSUME NEW i \in 1 .. reliableSequence',
                        reliableSequence' - i < MAX_RELIABLE_COMMANDS
                 PROVE  reliableCommands'[Slot(i)] = i
      BY Zenon DEF RingInv
    <3>1. reliableSequence + 1 \in Nat /\ Slot(reliableSequence + 1) \in Ring
      BY <1>1, ScalarTypes, SlotInRing
    <3>2. CASE i = reliableSequence + 1
      BY <1>1, <2>1, <3>1, <3>2 DEF Stores
    <3>3. CASE i # reliableSequence + 1
      <4>1. /\ i \in 1 .. reliableSequence /\ i \in Nat /\ i < reliableSequence + 1
            /\ reliableSequence - i < MAX_RELIABLE_COMMANDS
            /\ (reliableSequence + 1) - i < MAX_RELIABLE_COMMANDS
        BY <1>1, <2>1, <3>3, ScalarTypes
      <4>2. Slot(i) # Slot(reliableSequence + 1)
        BY <3>1, <4>1, SlotsDiffer
      <4>3. reliableCommands[Slot(i)] = i
        BY <1>1, <4>1 DEF RingInv
      <4>4. Slot(i) \in Ring
        BY <4>1, SlotInRing
      <4> QED
        BY <1>1, <2>1, <4>2, <4>3, <4>4 DEF Stores
    <3> QED
      BY <3>2, <3>3
  <2>7. ASSUME most' <= MAX_RELIABLE_COMMANDS PROVE InStep'
    <3>1. InStep
      BY <1>1, <2>2, <2>7, ScalarTypes DEF Core
    <3> QED
      BY <1>2, <2>2, <3>1 DEF InStep, PacketsFaithful, Faithful, AcksInOrder
  <2>8. Recorded'
    <3>1. most' \in Nat /\ most <= most' /\ WindowInv'
      BY <1>1, <1>2, <2>1, <2>2, ScalarTypes DEF WindowInv
    <3>2. ExecutedInv'
      BY <1>2, <3>1, StillExecuted
    <3> QED
      BY <1>2, <3>1, <3>2, StillRecorded
  <2> QED
    BY <2>3, <2>4, <2>5, <2>6, <2>7, <2>8 DEF Core
<1> QED
  BY <1>3, <1>4 DEF CL_AddReliableCommand

\* A packet takes the unacknowledged commands from the ring.
LEMMA WritePreserves == Core /\ CL_WritePacket => Core'
<1> SUFFICES ASSUME Core, CL_WritePacket PROVE Core'
  OBVIOUS
<1>1. Scalars /\ Stores /\ FlightInv /\ RingInv
  BY DEF Core
<1>2. UNCHANGED <<reliableSequence, reliableAcknowledge, reliableCommands, most,
                  lastClientCommand, lastClientCommandString, executed, moved, toClient>>
  BY DEF CL_WritePacket, client, server
<1> DEFINE p == [commands |-> [i \in Unacknowledged |-> reliableCommands[Slot(i)]],
                 move |-> reliableSequence]
<1>3. /\ p.move = reliableSequence
      /\ DOMAIN p.commands = reliableAcknowledge + 1 .. reliableSequence
      /\ \A i \in reliableAcknowledge + 1 .. reliableSequence :
           p.commands[i] = reliableCommands[Slot(i)]
  BY DEF Unacknowledged
<1>4. p \in Packets
  <2>1. \A i \in reliableAcknowledge + 1 .. reliableSequence :
          reliableCommands[Slot(i)] \in Numbers
    <3> SUFFICES ASSUME NEW i \in reliableAcknowledge + 1 .. reliableSequence
                 PROVE  reliableCommands[Slot(i)] \in Numbers
      OBVIOUS
    <3>1. Slot(i) \in Ring
      BY <1>1, ScalarTypes, SlotInRing
    <3> QED
      BY <1>1, <3>1 DEF Stores
  <2>2. p \in [commands : [reliableAcknowledge + 1 .. reliableSequence -> Numbers],
               move : {reliableSequence}]
    BY <2>1 DEF Unacknowledged
  <2>3. reliableAcknowledge \in Numbers /\ reliableSequence \in Numbers
    BY <1>1, ScalarTypes DEF Numbers
  <2> HIDE DEF p
  <2>4. p \in PacketsAt(reliableSequence)
    BY <2>2, <2>3 DEF PacketsAt
  <2> QED
    BY <2>3, <2>4 DEF Packets
<1>5. /\ Carries(p)
      /\ most <= MAX_RELIABLE_COMMANDS => Faithful(p)
  <2>1. most <= MAX_RELIABLE_COMMANDS => reliableAcknowledge \in 0 .. lastClientCommand
    BY <1>1, ScalarTypes DEF Core, InStep
  <2>2. \A i \in reliableAcknowledge + 1 .. reliableSequence :
          /\ Holds(p.commands[i], i)
          /\ i = reliableSequence => p.commands[i] = i
    BY <1>3, PacketHolds
  <2> HIDE DEF p
  <2>3. Carries(p)
    BY <1>3, <2>2 DEF Carries
  <2> QED
    BY <1>3, <2>1, <2>3 DEF Faithful
<1>6. toServer' \in {toServer, Sent(toServer, p)}
  BY DEF CL_WritePacket, CL_Netchan_Transmit
<1> HIDE DEF p
<1>7. /\ toServer' \in Seq(Packets)
      /\ \A n \in 1 .. Len(toServer') :
           \/ toServer'[n] = p
           \/ \E k \in 1 .. Len(toServer) : toServer'[n] = toServer[k]
  <2>1. CASE toServer' = toServer
    BY <1>1, <2>1 DEF FlightInv
  <2>2. CASE toServer' = Sent(toServer, p)
    <3>1. toServer \in Seq(Packets)
      BY <1>1 DEF FlightInv
    <3>2. Sent(toServer, p) \in Seq(Packets)
      BY <1>4, <3>1, SentProperties
    <3>3. ASSUME NEW n \in 1 .. Len(Sent(toServer, p))
          PROVE  \/ Sent(toServer, p)[n] = p
                 \/ \E k \in 1 .. Len(toServer) : Sent(toServer, p)[n] = toServer[k]
      BY <1>4, <3>1, SentElements
    <3> QED
      BY <2>2, <3>2, <3>3, Zenon
  <2> QED
    BY <1>6, <2>1, <2>2
<1>8. FlightInv'
  <2>1. ASSUME NEW n \in 1 .. Len(toServer') PROVE toServer'[n].move <= reliableSequence
    <3>1. CASE toServer'[n] = p
      BY <1>1, <1>3, <3>1, ScalarTypes
    <3>2. CASE \E k \in 1 .. Len(toServer) : toServer'[n] = toServer[k]
      BY <1>1, <3>2 DEF FlightInv
    <3> QED
      BY <1>7, <3>1, <3>2
  <2> QED
    BY <1>1, <1>2, <1>7, <2>1 DEF FlightInv
<1>9. ASSUME most <= MAX_RELIABLE_COMMANDS PROVE InStep'
  <2>1. InStep
    BY <1>9 DEF Core
  <2>2. PacketsFaithful'
    <3>1. ASSUME NEW n \in 1 .. Len(toServer') PROVE Faithful(toServer'[n])
      BY <1>5, <1>7, <1>9, <2>1, <3>1 DEF InStep, PacketsFaithful
    <3> QED
      BY <1>2, <3>1 DEF PacketsFaithful, Faithful
  <2> QED
    BY <1>2, <2>1, <2>2 DEF InStep, AcksInOrder
<1>10. Scalars' /\ Stores' /\ RingInv'
  BY <1>1, <1>2 DEF Scalars, Stores, RingInv
<1>11. Recorded'
  <2>1. most' \in Nat /\ most <= most' /\ WindowInv'
    BY <1>1, <1>2, ScalarTypes DEF Core, Recorded, WindowInv
  <2>2. ExecutedInv'
    BY <1>2, <2>1, StillExecuted
  <2>3. \A n \in 1 .. Len(toServer') :
          \/ \E k \in 1 .. Len(toServer) : toServer'[n] = toServer[k]
          \/ Carries(toServer'[n])
    BY <1>5, <1>7
  <2>4. \A n \in 1 .. Len(toClient') : \E k \in 1 .. Len(toClient) : toClient'[n] = toClient[k]
    BY <1>2
  <2> QED
    BY <2>1, <2>2, <2>3, <2>4, StillRecorded
<1> QED
  BY <1>2, <1>8, <1>9, <1>10, <1>11 DEF Core

\* Acknowledgements are in order, so the one received lies in the window.
LEMMA AcknowledgePreserves ==
    ASSUME Core, NEW n \in 1 .. Len(toClient), CL_ParseServerMessage(n)
    PROVE  Core'
<1>1. Scalars /\ Stores /\ FlightInv /\ RingInv
  BY DEF Core
<1>2. UNCHANGED <<reliableSequence, reliableCommands, most, lastClientCommand,
                  lastClientCommandString, executed, moved, toServer>>
  BY DEF CL_ParseServerMessage, server
<1> DEFINE ack == toClient[n].lastClientCommand
<1>3. /\ toClient' = SubSeq(toClient, n + 1, Len(toClient))
      /\ reliableAcknowledge' = IF ack < reliableSequence - MAX_RELIABLE_COMMANDS
                                THEN reliableSequence ELSE ack
  BY DEF CL_ParseServerMessage
<1>4. ack \in Nat /\ ack <= lastClientCommand
  <2>1. toClient[n] \in Acks
    BY <1>1, ElementOfSeq DEF FlightInv
  <2> QED
    BY <1>1, <2>1, ClientCommandsAssumption DEF Acks, Numbers, FlightInv
<1> HIDE DEF ack
<1>5. /\ toClient' \in Seq(Acks) /\ Len(toClient') = Len(toClient) - n
      /\ Len(toClient) \in Nat /\ n \in Nat
      /\ \A i \in 1 .. Len(toClient) - n :
           n + i \in 1 .. Len(toClient) /\ toClient'[i] = toClient[n + i]
  <2>1. toClient \in Seq(Acks) /\ Len(toClient) \in Nat /\ n \in Nat
    BY <1>1, LenProperties DEF FlightInv
  <2>2. \A i \in 1 .. Len(toClient) - n : n + i \in 1 .. Len(toClient)
    BY <2>1
  <2> QED
    BY <1>3, <2>1, <2>2, ReceivedProperties
<1>6. Scalars'
  <2>1. reliableAcknowledge' \in 0 .. reliableSequence
    BY <1>1, <1>3, <1>4, ScalarTypes
  <2> QED
    BY <1>1, <1>2, <2>1 DEF Scalars
<1>7. Stores' /\ RingInv'
  BY <1>1, <1>2 DEF Stores, RingInv
<1>8. FlightInv'
  <2>1. \A i \in 1 .. Len(toClient') : toClient'[i].lastClientCommand <= lastClientCommand
    BY <1>1, <1>5 DEF FlightInv
  <2> QED
    BY <1>1, <1>2, <1>5, <2>1 DEF FlightInv
<1>9. ASSUME most <= MAX_RELIABLE_COMMANDS PROVE InStep'
  <2>1. InStep
    BY <1>9 DEF Core
  <2>2. reliableAcknowledge' = ack /\ reliableAcknowledge <= ack
    <3>1. reliableAcknowledge <= ack
      BY <2>1 DEF InStep, AcksInOrder, ack
    <3>2. reliableSequence - reliableAcknowledge <= most
      BY <2>1 DEF InStep
    <3> QED
      BY <1>1, <1>3, <1>4, <1>9, <3>1, <3>2, ScalarTypes
  <2>3. reliableSequence - ack <= most
    BY <1>1, <1>4, <2>1, <2>2, ScalarTypes DEF InStep
  <2>4. AcksInOrder'
    <3>1. ASSUME NEW i \in 1 .. Len(toClient')
          PROVE  toClient'[i].lastClientCommand >= ack
      <4>1. n + i \in 1 .. Len(toClient) /\ toClient'[i] = toClient[n + i] /\ n <= n + i
        BY <1>5
      <4>2. ack <= toClient[n + i].lastClientCommand
        BY <2>1, <4>1 DEF InStep, AcksInOrder, ack
      <4>3. toClient[n + i].lastClientCommand \in Nat
        <5>1. toClient[n + i] \in Acks
          BY <1>1, <4>1, ElementOfSeq DEF FlightInv
        <5> QED
          BY <5>1, ClientCommandsAssumption DEF Acks, Numbers
      <4> QED
        BY <1>4, <4>1, <4>2, <4>3
    <3>2. ASSUME NEW i \in 1 .. Len(toClient'), NEW j \in 1 .. Len(toClient'), i <= j
          PROVE  toClient'[i].lastClientCommand <= toClient'[j].lastClientCommand
      <4>1. /\ n + i \in 1 .. Len(toClient) /\ toClient'[i] = toClient[n + i]
            /\ n + j \in 1 .. Len(toClient) /\ toClient'[j] = toClient[n + j]
            /\ n + i <= n + j
        BY <1>5, <3>2
      <4> QED
        BY <2>1, <4>1 DEF InStep, AcksInOrder
    <3> QED
      BY <2>2, <3>1, <3>2 DEF AcksInOrder
  <2> QED
    BY <1>2, <1>4, <2>1, <2>2, <2>3, <2>4
       DEF InStep, PacketsFaithful, Faithful
<1>10. Recorded'
  <2>1. most' \in Nat /\ most <= most'
    BY <1>1, <1>2, ScalarTypes
  <2>2. WindowInv'
    BY <1>1, <1>2, <1>3, <1>4, ScalarTypes DEF WindowInv
  <2>3. ExecutedInv'
    BY <1>2, <2>1, StillExecuted
  <2>4. \A i \in 1 .. Len(toClient') : \E k \in 1 .. Len(toClient) : toClient'[i] = toClient[k]
    BY <1>5
  <2> QED
    BY <1>2, <2>1, <2>2, <2>3, <2>4, StillRecorded
<1> QED
  BY <1>2, <1>6, <1>7, <1>8, <1>9, <1>10 DEF Core

\* What the server acknowledges now is no less than what it did before.
LEMMA SendPreserves == Core /\ SV_SendMessage => Core'
<1> SUFFICES ASSUME Core, SV_SendMessage PROVE Core'
  OBVIOUS
<1>1. Scalars /\ Stores /\ FlightInv /\ RingInv
  BY DEF Core
<1>2. UNCHANGED <<reliableSequence, reliableAcknowledge, reliableCommands, most,
                  lastClientCommand, lastClientCommandString, executed, moved, toServer>>
  BY DEF SV_SendMessage, client, server
<1> DEFINE m == [lastClientCommand |-> lastClientCommand, key |-> lastClientCommandString]
<1>3. m.lastClientCommand = lastClientCommand /\ m.key = lastClientCommandString
  OBVIOUS
<1>4. m \in Acks
  BY <1>1, ScalarTypes DEF Acks, Scalars, Numbers
<1>5. toClient' = Sent(toClient, m)
  BY DEF SV_SendMessage
<1> HIDE DEF m
<1>6. toClient \in Seq(Acks) /\ Len(toClient) \in Nat
  BY <1>1, LenProperties DEF FlightInv
<1>7. toClient' \in Seq(Acks) /\ Len(toClient') \in Nat /\ Lost(toClient) \in Nat
  BY <1>4, <1>5, <1>6, SentProperties, LenProperties
<1>8. ASSUME NEW n \in 1 .. Len(toClient')
      PROVE  \/ n = Len(toClient') /\ toClient'[n] = m
             \/ /\ n < Len(toClient') /\ n + Lost(toClient) \in 1 .. Len(toClient)
                /\ toClient'[n] = toClient[n + Lost(toClient)]
  BY <1>4, <1>5, <1>6, SentElements
<1>9. ASSUME NEW n \in 1 .. Len(toClient)
      PROVE  /\ toClient[n].lastClientCommand \in Nat
             /\ toClient[n].lastClientCommand <= lastClientCommand
  <2>1. toClient[n] \in Acks
    BY <1>6, ElementOfSeq
  <2> QED
    BY <1>1, <2>1, ClientCommandsAssumption DEF Acks, Numbers, FlightInv
<1>10. FlightInv'
  <2>1. ASSUME NEW n \in 1 .. Len(toClient')
        PROVE  toClient'[n].lastClientCommand <= lastClientCommand
    <3>1. CASE toClient'[n] = m
      BY <1>1, <1>3, <3>1, ScalarTypes
    <3>2. CASE \E k \in 1 .. Len(toClient) : toClient'[n] = toClient[k]
      BY <1>9, <3>2
    <3> QED
      BY <1>8, <3>1, <3>2
  <2> QED
    BY <1>1, <1>2, <1>7, <2>1 DEF FlightInv
<1>11. ASSUME most <= MAX_RELIABLE_COMMANDS PROVE InStep'
  <2>1. InStep
    BY <1>11 DEF Core
  <2>2. reliableAcknowledge <= lastClientCommand
    BY <2>1 DEF InStep
  <2>3. ASSUME NEW n \in 1 .. Len(toClient')
        PROVE  toClient'[n].lastClientCommand >= reliableAcknowledge
    <3>1. CASE toClient'[n] = m
      BY <1>1, <1>3, <2>2, <3>1, ScalarTypes
    <3>2. CASE \E k \in 1 .. Len(toClient) : toClient'[n] = toClient[k]
      BY <2>1, <3>2 DEF InStep, AcksInOrder
    <3> QED
      BY <1>8, <3>1, <3>2
  <2>4. ASSUME NEW i \in 1 .. Len(toClient'), NEW j \in 1 .. Len(toClient'), i <= j
        PROVE  toClient'[i].lastClientCommand <= toClient'[j].lastClientCommand
    <3>1. CASE toClient'[j] = m
      <4>1. toClient'[i].lastClientCommand <= lastClientCommand
        BY <1>2, <1>10 DEF FlightInv
      <4> QED
        BY <1>3, <3>1, <4>1
    <3>2. CASE /\ j < Len(toClient') /\ j + Lost(toClient) \in 1 .. Len(toClient)
               /\ toClient'[j] = toClient[j + Lost(toClient)]
      <4>1. i # Len(toClient')
        BY <1>7, <2>4, <3>2
      <4>2. /\ i + Lost(toClient) \in 1 .. Len(toClient)
            /\ toClient'[i] = toClient[i + Lost(toClient)]
        BY <1>8, <4>1
      <4>3. i + Lost(toClient) <= j + Lost(toClient)
        BY <1>7, <2>4
      <4> QED
        BY <2>1, <3>2, <4>2, <4>3 DEF InStep, AcksInOrder
    <3> QED
      BY <1>8, <3>1, <3>2
  <2>5. AcksInOrder'
    BY <1>2, <2>3, <2>4 DEF AcksInOrder
  <2> QED
    BY <1>2, <2>1, <2>5 DEF InStep, PacketsFaithful, Faithful
<1>12. Scalars' /\ Stores' /\ RingInv'
  BY <1>1, <1>2 DEF Scalars, Stores, RingInv
<1>13. Recorded'
  <2>1. most' \in Nat /\ most <= most' /\ WindowInv'
    BY <1>1, <1>2, ScalarTypes DEF Core, Recorded, WindowInv
  <2>2. ExecutedInv'
    BY <1>2, <2>1, StillExecuted
  <2>3. m.key = m.lastClientCommand
    BY <1>3 DEF Core, Recorded, ExecutedInv
  <2>4. \A n \in 1 .. Len(toClient') :
          \/ \E k \in 1 .. Len(toClient) : toClient'[n] = toClient[k]
          \/ toClient'[n].key = toClient'[n].lastClientCommand
    BY <1>8, <2>3
  <2>5. \A n \in 1 .. Len(toServer') : \E k \in 1 .. Len(toServer) : toServer'[n] = toServer[k]
    BY <1>2
  <2> QED
    BY <2>1, <2>2, <2>4, <2>5, StillRecorded
<1> QED
  BY <1>2, <1>10, <1>11, <1>12, <1>13 DEF Core

\* The commands executed continue those executed before.
LEMMA ExecutePreserves ==
    ASSUME Core, NEW n \in 1 .. Len(toServer),
           SV_ExecuteCommands(toServer[n]),
           toServer' = SubSeq(toServer, n + 1, Len(toServer)),
           UNCHANGED client, UNCHANGED toClient
    PROVE  Core'
<1> DEFINE p == toServer[n]
<1>1. Scalars /\ Stores /\ FlightInv /\ RingInv
  BY DEF Core
<1>2. UNCHANGED <<reliableSequence, reliableAcknowledge, reliableCommands, most, toClient>>
  BY DEF client
<1>3. p \in Packets /\ p.move <= reliableSequence
  BY <1>1, ElementOfSeq DEF FlightInv
<1>4. SV_ExecuteCommands(p) /\ lastClientCommand \in Nat
  BY <1>1, ScalarTypes
<1> HIDE DEF p
<1>5. p.move \in Nat /\ p.move \in Numbers
  BY <1>3, PacketFacts, ClientCommandsAssumption DEF Numbers
<1>6. moved' = Larger(moved, p.move)
  BY <1>3, <1>4, Executes
<1>7. \/ New(p) = {} /\ UNCHANGED <<lastClientCommand, lastClientCommandString, executed>>
      \/ /\ lastClientCommand < p.move
         /\ New(p) = lastClientCommand + 1 .. p.move
         /\ lastClientCommand' = p.move
         /\ lastClientCommandString' = p.commands[p.move]
         /\ executed' = executed \o
              [k \in 1 .. p.move - lastClientCommand |-> p.commands[lastClientCommand + k]]
  BY <1>3, <1>4, Executes
<1>8. New(p) \subseteq DOMAIN p.commands
  BY DEF New
<1>9. /\ toServer' \in Seq(Packets) /\ Len(toServer') = Len(toServer) - n
      /\ \A i \in 1 .. Len(toServer') :
           n + i \in 1 .. Len(toServer) /\ toServer'[i] = toServer[n + i]
  <2>1. toServer \in Seq(Packets) /\ Len(toServer) \in Nat /\ n \in Nat
    BY <1>1, LenProperties DEF FlightInv
  <2>2. \A i \in 1 .. Len(toServer) - n : n + i \in 1 .. Len(toServer)
    BY <2>1
  <2> QED
    BY <2>1, <2>2, ReceivedProperties
<1>10. lastClientCommand <= lastClientCommand' /\ lastClientCommand' \in 0 .. reliableSequence
  BY <1>1, <1>3, <1>5, <1>7, ScalarTypes
<1>11. Scalars'
  <2>1. lastClientCommandString' \in Numbers
    <3>1. CASE UNCHANGED lastClientCommandString
      BY <1>1, <3>1 DEF Scalars
    <3>2. CASE /\ lastClientCommand < p.move
               /\ New(p) = lastClientCommand + 1 .. p.move
               /\ lastClientCommandString' = p.commands[p.move]
      <4>1. p.move \in DOMAIN p.commands
        BY <1>4, <1>5, <1>8, <3>2
      <4> QED
        BY <1>3, <3>2, <4>1, PacketFacts
    <3> QED
      BY <1>7, <3>1, <3>2
  <2>2. moved' \in Numbers
    BY <1>1, <1>5, <1>6 DEF Larger, Scalars
  <2> QED
    BY <1>1, <1>2, <1>10, <2>1, <2>2 DEF Scalars
<1> DEFINE run == [k \in 1 .. p.move - lastClientCommand |-> p.commands[lastClientCommand + k]]
<1>12. ASSUME lastClientCommand < p.move, New(p) = lastClientCommand + 1 .. p.move
       PROVE  /\ run \in Seq(Numbers) /\ Len(run) = p.move - lastClientCommand
              /\ \A k \in 1 .. p.move - lastClientCommand :
                   /\ lastClientCommand + k \in DOMAIN p.commands
                   /\ run[k] = p.commands[lastClientCommand + k]
  <2>1. \A k \in 1 .. p.move - lastClientCommand : lastClientCommand + k \in DOMAIN p.commands
    BY <1>4, <1>5, <1>8, <1>12
  <2>2. \A k \in 1 .. p.move - lastClientCommand : p.commands[lastClientCommand + k] \in Numbers
    BY <1>3, <2>1, PacketFacts
  <2>3. p.move - lastClientCommand \in Nat
    BY <1>4, <1>5, <1>12
  <2> QED
    BY <2>1, <2>2, <2>3
<1> HIDE DEF run
<1>13. Stores'
  <2>1. CASE UNCHANGED executed
    BY <1>1, <1>2, <2>1 DEF Stores
  <2>2. CASE /\ lastClientCommand < p.move
             /\ New(p) = lastClientCommand + 1 .. p.move
             /\ executed' = executed \o run
    <3>1. executed \in Seq(Numbers) /\ run \in Seq(Numbers)
      BY <1>1, <1>12, <2>2 DEF Stores
    <3>2. executed' \in Seq(Numbers)
      BY <2>2, <3>1, ConcatProperties
    <3> QED
      BY <1>1, <1>2, <3>2 DEF Stores
  <2> QED
    BY <1>7, <2>1, <2>2 DEF run
<1>14. FlightInv'
  <2>1. ASSUME NEW i \in 1 .. Len(toServer') PROVE toServer'[i].move <= reliableSequence
    BY <1>1, <1>9 DEF FlightInv
  <2>2. ASSUME NEW i \in 1 .. Len(toClient)
        PROVE  toClient[i].lastClientCommand <= lastClientCommand'
    <3>1. toClient[i] \in Acks
      BY <1>1, ElementOfSeq DEF FlightInv
    <3>2. toClient[i].lastClientCommand \in Nat
      BY <3>1, ClientCommandsAssumption DEF Acks, Numbers
    <3>3. toClient[i].lastClientCommand <= lastClientCommand
      BY <1>1 DEF FlightInv
    <3> QED
      BY <1>1, <1>10, <3>2, <3>3, ScalarTypes
  <2> QED
    BY <1>1, <1>2, <1>9, <2>1, <2>2 DEF FlightInv
<1>15. ASSUME most <= MAX_RELIABLE_COMMANDS PROVE InStep'
  <2>1. InStep
    BY <1>15 DEF Core
  <2>2. Faithful(p)
    BY <2>1 DEF InStep, PacketsFaithful, p
  <2>3. ASSUME NEW i \in 1 .. Len(toServer') PROVE
          \E a \in 0 .. lastClientCommand' :
            DOMAIN toServer'[i].commands = a + 1 .. toServer'[i].move
    <3>1. Faithful(toServer[n + i]) /\ toServer'[i] = toServer[n + i]
      BY <1>9, <2>1 DEF InStep, PacketsFaithful
    <3>2. 0 .. lastClientCommand \subseteq 0 .. lastClientCommand'
      BY <1>1, <1>10, ScalarTypes
    <3> QED
      BY <3>1, <3>2 DEF Faithful
  <2>4. PacketsFaithful'
    BY <2>3 DEF PacketsFaithful, Faithful
  <2>5. moved' <= lastClientCommand'
    <3>1. moved <= lastClientCommand /\ moved \in Nat
      BY <1>1, <2>1, ScalarTypes DEF InStep
    <3>2. CASE New(p) = {} /\ UNCHANGED <<lastClientCommand, lastClientCommandString, executed>>
      <4>1. PICK a \in 0 .. lastClientCommand : DOMAIN p.commands = a + 1 .. p.move
        BY <2>2 DEF Faithful
      <4>2. p.move <= lastClientCommand
        <5> SUFFICES ASSUME ~(p.move <= lastClientCommand) PROVE FALSE
          OBVIOUS
        <5>1. p.move \in DOMAIN p.commands /\ p.move > lastClientCommand
          BY <1>4, <1>5, <4>1
        <5> QED
          BY <3>2, <5>1 DEF New
      <4> QED
        BY <1>4, <1>5, <1>6, <3>1, <3>2, <4>2 DEF Larger
    <3>3. CASE lastClientCommand < p.move /\ lastClientCommand' = p.move
      BY <1>4, <1>5, <1>6, <3>1, <3>3 DEF Larger
    <3> QED
      BY <1>7, <3>2, <3>3
  <2>6. /\ reliableSequence - reliableAcknowledge <= most
        /\ reliableAcknowledge <= lastClientCommand'
    BY <1>1, <1>10, <2>1, ScalarTypes DEF InStep
  <2>7. AcksInOrder'
    BY <1>2, <2>1 DEF InStep, AcksInOrder
  <2> QED
    BY <1>2, <2>4, <2>5, <2>6, <2>7 DEF InStep
<1>16. RingInv'
  BY <1>1, <1>2 DEF RingInv
<1>17. Carries(p)
  BY DEF Core, Recorded, p
<1>18. ExecutedInv'
  <2>1. CASE UNCHANGED <<lastClientCommand, lastClientCommandString, executed>>
    BY <1>1, <1>2, <2>1, StillExecuted, ScalarTypes
  <2>2. CASE /\ lastClientCommand < p.move
             /\ New(p) = lastClientCommand + 1 .. p.move
             /\ lastClientCommand' = p.move
             /\ lastClientCommandString' = p.commands[p.move]
             /\ executed' = executed \o run
    <3>1. /\ executed \in Seq(Numbers) /\ Len(executed) = lastClientCommand
          /\ \A i \in 1 .. Len(executed) : Holds(executed[i], i)
      BY <1>1 DEF Core, Recorded, ExecutedInv, Stores
    <3>2. /\ run \in Seq(Numbers) /\ Len(run) = p.move - lastClientCommand
          /\ \A k \in 1 .. p.move - lastClientCommand :
               Holds(run[k], lastClientCommand + k)
      BY <1>12, <1>17, <2>2 DEF Carries
    <3>3. p.commands[p.move] = p.move
      <4>1. p.move \in DOMAIN p.commands
        BY <1>4, <1>5, <1>8, <2>2
      <4> QED
        BY <1>17, <4>1 DEF Carries
    <3>4. /\ Len(executed') = p.move
          /\ \A i \in 1 .. p.move : executed'[i] =
               IF i <= lastClientCommand THEN executed[i] ELSE run[i - lastClientCommand]
      <4>1. /\ Len(executed \o run) = Len(executed) + Len(run)
            /\ \A i \in 1 .. Len(executed) + Len(run) : (executed \o run)[i] =
                 IF i <= Len(executed) THEN executed[i] ELSE run[i - Len(executed)]
        BY <3>1, <3>2, ConcatProperties
      <4>2. Len(executed) + Len(run) = p.move
        BY <1>4, <1>5, <3>1, <3>2
      <4> QED
        BY <2>2, <3>1, <4>1, <4>2
    <3>5. ASSUME NEW i \in 1 .. p.move PROVE Holds(executed'[i], i)
      <4>1. CASE i <= lastClientCommand
        BY <1>4, <3>1, <3>4, <4>1
      <4>2. CASE ~(i <= lastClientCommand)
        <5>1. /\ i - lastClientCommand \in 1 .. p.move - lastClientCommand
              /\ lastClientCommand + (i - lastClientCommand) = i
          BY <1>4, <1>5, <4>2
        <5>2. Holds(run[i - lastClientCommand], lastClientCommand + (i - lastClientCommand))
          BY <3>2, <5>1
        <5> QED
          BY <3>4, <4>2, <5>1, <5>2
      <4> QED
        BY <4>1, <4>2
    <3> QED
      BY <1>2, <2>2, <3>3, <3>4, <3>5 DEF ExecutedInv, Holds
  <2> QED
    BY <1>7, <2>1, <2>2 DEF run
<1>19. Recorded'
  <2>1. most' \in Nat /\ most <= most' /\ WindowInv'
    BY <1>1, <1>2, ScalarTypes DEF Core, Recorded, WindowInv
  <2>2. \A i \in 1 .. Len(toServer') : \E k \in 1 .. Len(toServer) : toServer'[i] = toServer[k]
    BY <1>9
  <2>3. \A i \in 1 .. Len(toClient') : \E k \in 1 .. Len(toClient) : toClient'[i] = toClient[k]
    BY <1>2
  <2> QED
    BY <1>18, <2>1, <2>2, <2>3, StillRecorded
<1> QED
  BY <1>2, <1>11, <1>13, <1>14, <1>15, <1>16, <1>19 DEF Core

\* A packet is executed, ignored by a zombie, or makes one of the client.
LEMMA ReceivePreserves ==
    ASSUME Core, NEW n \in 1 .. Len(toServer), SV_ExecuteClientMessage(n)
    PROVE  Core'
<1>1. /\ toServer' = SubSeq(toServer, n + 1, Len(toServer))
      /\ UNCHANGED client /\ UNCHANGED toClient
  BY DEF SV_ExecuteClientMessage
<1>2. CASE SV_ExecuteCommands(toServer[n])
  BY <1>1, <1>2, ExecutePreserves
<1>3. CASE UNCHANGED <<lastClientCommand, lastClientCommandString, executed, moved>>
  <2>1. Scalars /\ Stores /\ FlightInv /\ RingInv
    BY DEF Core
  <2>2. UNCHANGED <<reliableSequence, reliableAcknowledge, reliableCommands, most>>
    BY <1>1 DEF client
  <2>3. /\ toServer' \in Seq(Packets) /\ Len(toServer') = Len(toServer) - n
        /\ \A i \in 1 .. Len(toServer') :
             n + i \in 1 .. Len(toServer) /\ toServer'[i] = toServer[n + i]
    <3>1. toServer \in Seq(Packets) /\ Len(toServer) \in Nat /\ n \in Nat
      BY <2>1, LenProperties DEF FlightInv
    <3>2. \A i \in 1 .. Len(toServer) - n : n + i \in 1 .. Len(toServer)
      BY <3>1
    <3> QED
      BY <1>1, <3>1, <3>2, ReceivedProperties
  <2>4. FlightInv'
    <3>1. ASSUME NEW i \in 1 .. Len(toServer') PROVE toServer'[i].move <= reliableSequence
      BY <2>1, <2>3 DEF FlightInv
    <3> QED
      BY <1>1, <1>3, <2>1, <2>2, <2>3, <3>1 DEF FlightInv
  <2>5. ASSUME most <= MAX_RELIABLE_COMMANDS PROVE InStep'
    <3>1. InStep
      BY <2>5 DEF Core
    <3>2. ASSUME NEW i \in 1 .. Len(toServer') PROVE Faithful(toServer'[i])
      BY <2>3, <3>1 DEF InStep, PacketsFaithful
    <3>3. PacketsFaithful'
      BY <1>3, <3>2 DEF PacketsFaithful, Faithful
    <3> QED
      BY <1>1, <1>3, <2>2, <3>1, <3>3 DEF InStep, AcksInOrder
  <2>6. Scalars' /\ Stores' /\ RingInv'
    BY <1>3, <2>1, <2>2 DEF Scalars, Stores, RingInv
  <2>7. Recorded'
    <3>1. most' \in Nat /\ most <= most' /\ WindowInv'
      BY <2>1, <2>2, ScalarTypes DEF Core, Recorded, WindowInv
    <3>2. ExecutedInv'
      BY <1>3, <3>1, StillExecuted
    <3>3. \A i \in 1 .. Len(toServer') : \E k \in 1 .. Len(toServer) : toServer'[i] = toServer[k]
      BY <2>3
    <3>4. \A i \in 1 .. Len(toClient') : \E k \in 1 .. Len(toClient) : toClient'[i] = toClient[k]
      BY <1>1
    <3> QED
      BY <3>1, <3>2, <3>3, <3>4, StillRecorded
  <2> QED
    BY <2>2, <2>4, <2>5, <2>6, <2>7 DEF Core
<1> QED
  BY <1>2, <1>3, Zenon DEF SV_ExecuteClientMessage, SV_DropLost, server

\* Steps that change neither the numbers nor the messages.
LEMMA UnchangedPreserves ==
    ASSUME Core,
           UNCHANGED <<reliableSequence, reliableAcknowledge, reliableCommands, most,
                       lastClientCommand, lastClientCommandString, executed, moved,
                       toServer, toClient>>
    PROVE  Core'
BY DEF Core, Scalars, Stores, FlightInv, RingInv, Recorded, WindowInv, Carries, Holds,
       ExecutedInv, KeysInv, InStep, PacketsFaithful, Faithful, AcksInOrder

LEMMA NextPreserves == Core /\ [Next]_vars => Core'
<1> SUFFICES ASSUME Core, [Next]_vars PROVE Core'
  OBVIOUS
<1>1. ASSUME CL_AddReliableCommand PROVE Core'
  BY <1>1, AddPreserves
<1>2. ASSUME CL_WritePacket PROVE Core'
  BY <1>2, WritePreserves
<1>3. ASSUME NEW n \in 1 .. Len(toClient), CL_ParseServerMessage(n) PROVE Core'
  BY <1>3, AcknowledgePreserves
<1>4. ASSUME SV_SendMessage PROVE Core'
  BY <1>4, SendPreserves
<1>5. ASSUME NEW n \in 1 .. Len(toServer), SV_ExecuteClientMessage(n) PROVE Core'
  BY <1>5, ReceivePreserves
<1>6. ASSUME SV_DropClient PROVE Core'
  BY <1>6, UnchangedPreserves, Zenon DEF SV_DropClient, client
<1>7. ASSUME UNCHANGED vars PROVE Core'
  BY <1>7, UnchangedPreserves, Zenon DEF vars, client, server
<1> QED
  BY <1>1, <1>2, <1>3, <1>4, <1>5, <1>6, <1>7, Zenon DEF Next

\* connected and zombie stay Boolean.
LEMMA FlagsPreserved ==
    connected \in BOOLEAN /\ zombie \in BOOLEAN /\ [Next]_vars
        => connected' \in BOOLEAN /\ zombie' \in BOOLEAN
<1> SUFFICES ASSUME connected \in BOOLEAN, zombie \in BOOLEAN, [Next]_vars
             PROVE  connected' \in BOOLEAN /\ zombie' \in BOOLEAN
  OBVIOUS
<1>1. ASSUME CL_AddReliableCommand PROVE connected' \in {connected, FALSE} /\ zombie' = zombie
  BY <1>1, Zenon DEF CL_AddReliableCommand, Added, server
<1>2. ASSUME CL_WritePacket \/ SV_SendMessage PROVE connected' = connected /\ zombie' = zombie
  BY <1>2, Zenon DEF CL_WritePacket, SV_SendMessage, client, server
<1>3. ASSUME NEW n \in 1 .. Len(toClient), CL_ParseServerMessage(n)
      PROVE  connected' = connected /\ zombie' = zombie
  BY <1>3, Zenon DEF CL_ParseServerMessage, server
<1>4. ASSUME NEW n \in 1 .. Len(toServer), SV_ExecuteClientMessage(n)
      PROVE  connected' = connected /\ zombie' \in {zombie, TRUE}
  BY <1>4, Zenon DEF SV_ExecuteClientMessage, SV_ExecuteCommands, SV_DropLost, client, server
<1>5. ASSUME SV_DropClient PROVE connected' = connected /\ zombie' = TRUE
  BY <1>5, Zenon DEF SV_DropClient, client
<1>6. ASSUME UNCHANGED vars PROVE connected' = connected /\ zombie' = zombie
  BY <1>6, Zenon DEF vars, client, server
<1>7. /\ connected' = connected \/ connected' = FALSE
      /\ zombie' = zombie \/ zombie' = TRUE
  BY <1>1, <1>2, <1>3, <1>4, <1>5, <1>6, Zenon DEF Next
<1> QED
  BY <1>7, Zenon

-----------------------------------------------------------------------------
(***************************************************************************)
(* The inductive invariant: the ring has the newest commands, packets and  *)
(* the server what was in the ring, and a client that never had more of    *)
(* them unacknowledged than fit is in step with the server, whatever is    *)
(* lost or repeated.                                                       *)
(***************************************************************************)
THEOREM ClientInductive == Spec => []IInv
<1>1. IInv <=> connected \in BOOLEAN /\ zombie \in BOOLEAN /\ Core
  BY TypeParts, Zenon DEF IInv, Core
<1>2. ASSUME IInv, [Next]_vars PROVE IInv'
  <2>1. Core' /\ connected' \in BOOLEAN /\ zombie' \in BOOLEAN
    BY <1>1, <1>2, NextPreserves, FlagsPreserved, Zenon
  <2>2. (TypeOK /\ FlightInv)'
    <3>1. (TypeOK /\ FlightInv)' <=>
            (connected \in BOOLEAN /\ zombie \in BOOLEAN /\ Scalars /\ Stores /\ FlightInv)'
      BY TypeParts, PTL
    <3> QED
      BY <2>1, <3>1, Zenon DEF Core
  <2> QED
    BY <2>1, <2>2, Zenon DEF IInv, Core
<1> QED
  BY <1>2, InitIInv, PTL DEF Spec

(***************************************************************************)
(* The numbers and rings of both sides keep their types and bounds.        *)
(***************************************************************************)
THEOREM ClientTypeCorrect == Spec => []TypeOK
<1>1. IInv => TypeOK
  BY DEF IInv
<1> QED
  BY <1>1, ClientInductive, PTL

(***************************************************************************)
(* Of the unacknowledged commands only the oldest is ever overwritten in   *)
(* the ring of CL_AddReliableCommand, and only by one command too many.    *)
(***************************************************************************)
THEOREM ClientRing == Spec => []OnlyOldestOverwritten
<1>1. IInv => OnlyOldestOverwritten
  <2> SUFFICES ASSUME IInv, NEW i \in Unacknowledged
               PROVE  \/ reliableCommands[Slot(i)] = i
                      \/ /\ i = reliableAcknowledge + 1
                         /\ reliableSequence - reliableAcknowledge = MAX_RELIABLE_COMMANDS + 1
    BY Zenon DEF OnlyOldestOverwritten
  <2>1. Core
    BY TypeParts, Zenon DEF IInv, Core
  <2>2. i \in reliableAcknowledge + 1 .. reliableSequence
    BY DEF Unacknowledged
  <2> QED
    BY <2>1, <2>2, RingFacts
<1> QED
  BY <1>1, ClientInductive, PTL

(***************************************************************************)
(* The server executes every command once, in the order in which           *)
(* CL_AddReliableCommand was called, and one that was overwritten as the   *)
(* command that took its slot, for every size of the ring.                 *)
(***************************************************************************)
THEOREM ClientOrder == Spec => []ExecutedAsAdded
<1>1. IInv => ExecutedAsAdded
  BY DEF IInv, Recorded, ExecutedInv, Holds, ExecutedAsAdded
<1> QED
  BY <1>1, ClientInductive, PTL

(***************************************************************************)
(* A move is executed after the commands added before it.                  *)
(***************************************************************************)
THEOREM ClientMoves == Spec => []CommandsBeforeMove
<1>1. IInv => CommandsBeforeMove
  BY DEF IInv, InStep, CommandsBeforeMove
<1> QED
  BY <1>1, ClientInductive, PTL

(***************************************************************************)
(* CL_Netchan_Decode finds the command SV_Netchan_Encode used, until the   *)
(* client has added a whole ring of commands after it.                     *)
(***************************************************************************)
THEOREM ClientKeys == Spec => []KeysAgreeWithinRing
<1>1. IInv => KeysAgreeWithinRing
  <2> SUFFICES ASSUME IInv, NEW n \in 1 .. Len(toClient),
                      toClient[n].lastClientCommand > 0,
                      reliableSequence - toClient[n].lastClientCommand < MAX_RELIABLE_COMMANDS
               PROVE  reliableCommands[Slot(toClient[n].lastClientCommand)] = toClient[n].key
    BY Zenon DEF KeysAgreeWithinRing
  <2>1. Core
    BY TypeParts, Zenon DEF IInv, Core
  <2>2. Scalars /\ FlightInv /\ RingInv
    BY <2>1 DEF Core
  <2>3. toClient[n].key = toClient[n].lastClientCommand
    BY <2>1 DEF Core, Recorded, KeysInv
  <2>4. /\ toClient[n].lastClientCommand \in Nat
        /\ toClient[n].lastClientCommand <= lastClientCommand
    <3>1. toClient[n] \in Acks
      BY <2>2, ElementOfSeq DEF FlightInv
    <3> QED
      BY <2>2, <3>1, ClientCommandsAssumption DEF Acks, Numbers, FlightInv
  <2>5. toClient[n].lastClientCommand \in 1 .. reliableSequence
    BY <2>2, <2>4, ScalarTypes
  <2> QED
    BY <2>2, <2>3, <2>5 DEF RingInv
<1> QED
  BY <1>1, ClientInductive, PTL
=============================================================================
