---------------------------- MODULE ClientCommands ----------------------------
(***************************************************************************)
(* Reliable commands from one client to the server, and the moves sent     *)
(* with them: CL_AddReliableCommand, CL_WritePacket and the reading of     *)
(* acknowledgements on the client, SV_ExecuteClientMessage and             *)
(* SV_ClientCommand on the server.                                         *)
(*                                                                         *)
(* A command is the number it had when it was added, so that "the n-th     *)
(* command" is the value n; a ring slot may hold another one than its      *)
(* number.  Messages in flight are as in ServerCommands.  The client has   *)
(* the current gamestate.  A command that flood protection keeps from the  *)
(* game counts as executed, as it does in lastClientCommand.               *)
(***************************************************************************)
EXTENDS Integers, Sequences

CONSTANTS MAX_RELIABLE_COMMANDS,  \* slots of the ring
          FRAGMENT_SIZE,  \* commands that make a packet too long for one datagram
          MaxCommands,    \* bound: commands added
          MaxInFlight     \* bound: messages in flight in each direction

ASSUME ClientCommandsAssumption ==
    /\ MAX_RELIABLE_COMMANDS \in Nat \ {0}
    /\ {FRAGMENT_SIZE, MaxCommands, MaxInFlight} \subseteq Nat \ {0}

VARIABLES
    connected,            \* client: not disconnected by an error
    reliableSequence,     \* client: commands added
    reliableAcknowledge,  \* client: commands known to have arrived
    reliableCommands,     \* client: the ring
    lastClientCommand,    \* server: number of the last command executed
    lastClientCommandString, \* server: that command
    zombie,               \* server: the client was dropped
    executed,             \* history: the commands executed, in order
    moved,                \* history: commands added before the last move executed
    most,                 \* history: the most commands ever unacknowledged
    toServer,             \* packets in flight
    toClient              \* acknowledgements in flight

client == <<connected, reliableSequence, reliableAcknowledge, reliableCommands, most>>
server == <<lastClientCommand, lastClientCommandString, zombie, executed, moved>>
vars   == <<client, server, toServer, toClient>>

Ring    == 0 .. MAX_RELIABLE_COMMANDS - 1
Slot(n) == n % MAX_RELIABLE_COMMANDS
None    == 0
Larger(a, b) == IF a >= b THEN a ELSE b

Sent(flight, m) ==
    IF Len(flight) < MaxInFlight THEN Append(flight, m) ELSE Append(Tail(flight), m)

-----------------------------------------------------------------------------
Init ==
    /\ connected = TRUE
    /\ reliableSequence = 0
    /\ reliableAcknowledge = 0
    /\ reliableCommands = [s \in Ring |-> None]
    /\ lastClientCommand = 0
    /\ lastClientCommandString = None
    /\ zombie = FALSE
    /\ executed = <<>>
    /\ moved = 0
    /\ most = 0
    /\ toServer = <<>>
    /\ toClient = <<>>

\* Mutant: the slot is chosen before the number is advanced.
Added_Before ==
    /\ reliableSequence' = reliableSequence + 1
    /\ reliableCommands' = [reliableCommands EXCEPT ![Slot(reliableSequence)]
                              = reliableSequence + 1]
    /\ UNCHANGED connected

\* The command is put into the ring.
Added ==
    /\ reliableSequence' = reliableSequence + 1
    /\ reliableCommands' = [reliableCommands EXCEPT ![Slot(reliableSequence + 1)]
                              = reliableSequence + 1]
    /\ UNCHANGED connected

\* Mutant: one command more fits.
Overflows_Late ==
    reliableSequence - reliableAcknowledge > MAX_RELIABLE_COMMANDS + 1

\* The test that is to keep the ring from losing an unacknowledged command.
Overflows == reliableSequence - reliableAcknowledge > MAX_RELIABLE_COMMANDS

\* Client command overflow is an error, which ends the connection.
CL_AddReliableCommand ==
    /\ connected
    /\ reliableSequence < MaxCommands
    /\ \/ /\ Overflows
          /\ connected' = FALSE
          /\ UNCHANGED <<reliableSequence, reliableCommands, most>>
       \/ /\ ~Overflows
          /\ Added
          /\ most' = Larger(most, reliableSequence + 1 - reliableAcknowledge)
    /\ UNCHANGED <<reliableAcknowledge, server, toServer, toClient>>

\* Of a packet too long for a datagram only the first fragment goes out: nobody
\* calls CL_Netchan_TransmitNextFragment.
CL_Netchan_Transmit(p) ==
    toServer' = IF reliableSequence - reliableAcknowledge < FRAGMENT_SIZE
                THEN Sent(toServer, p) ELSE toServer

\* Mutant: the loop over the commands ends before the newest.
Unacknowledged_ButNewest == reliableAcknowledge + 1 .. reliableSequence - 1

\* The numbers of the commands every packet repeats.
Unacknowledged == reliableAcknowledge + 1 .. reliableSequence

\* The unacknowledged commands, and a move made after all of them.
CL_WritePacket ==
    /\ connected
    /\ CL_Netchan_Transmit(
         [commands |-> [i \in Unacknowledged |-> reliableCommands[Slot(i)]],
          move |-> reliableSequence])
    /\ UNCHANGED <<client, server, toClient>>

\* CL_ParseServerMessage, of the n-th message in flight.
CL_ParseServerMessage(n) ==
    /\ connected
    /\ toClient' = SubSeq(toClient, n + 1, Len(toClient))
    /\ LET ack == toClient[n].lastClientCommand
       IN  reliableAcknowledge' =
             IF ack < reliableSequence - MAX_RELIABLE_COMMANDS
             THEN reliableSequence ELSE ack
    /\ UNCHANGED <<connected, reliableSequence, reliableCommands, most, server, toServer>>

-----------------------------------------------------------------------------
\* Every message carries the acknowledgement and is encoded with the command
\* acknowledged; clients dropped are sent messages too.
SV_SendMessage ==
    /\ toClient' = Sent(toClient, [lastClientCommand |-> lastClientCommand,
                                   key |-> lastClientCommandString])
    /\ UNCHANGED <<client, server, toServer>>

\* Mutant: commands seen before are executed again.
New_Repeats(p) == {i \in DOMAIN p.commands : i >= lastClientCommand}

\* The numbers of the commands in p that were not executed yet.
New(p) == {i \in DOMAIN p.commands : i > lastClientCommand}

\* There is no gap before the first of them.
NoneLost(p) == New(p) # {} => lastClientCommand + 1 \in New(p)

\* SV_ClientCommand for each command of the packet, then SV_UserMove.
SV_ExecuteCommands(p) ==
    LET latest == CHOOSE i \in New(p) \cup {lastClientCommand} :
                     \A j \in New(p) : j <= i
        first  == CHOOSE i \in New(p) : \A j \in New(p) : i <= j
    IN  /\ NoneLost(p)
        /\ lastClientCommand' = latest
        /\ \/ /\ New(p) = {}
              /\ UNCHANGED <<lastClientCommandString, executed>>
           \/ /\ New(p) # {}
              /\ lastClientCommandString' = p.commands[latest]
              /\ executed' = executed \o
                   [k \in 1 .. latest - first + 1 |-> p.commands[first + k - 1]]
        /\ moved' = Larger(moved, p.move)
        /\ UNCHANGED zombie

\* "Lost reliable commands": the client is dropped, the move ignored.
SV_DropLost(p) ==
    /\ ~NoneLost(p)
    /\ zombie' = TRUE
    /\ UNCHANGED <<lastClientCommand, lastClientCommandString, executed, moved>>

\* Of the n-th packet in flight; SV_PacketEvent ignores those of a zombie.
SV_ExecuteClientMessage(n) ==
    /\ toServer' = SubSeq(toServer, n + 1, Len(toServer))
    /\ \/ zombie /\ UNCHANGED server
       \/ ~zombie /\ (SV_ExecuteCommands(toServer[n]) \/ SV_DropLost(toServer[n]))
    /\ UNCHANGED <<client, toClient>>

\* SV_DropClient for a reason of its own: a timeout, a kick.
SV_DropClient ==
    /\ ~zombie
    /\ zombie' = TRUE
    /\ UNCHANGED <<lastClientCommand, lastClientCommandString, executed, moved,
                   client, toServer, toClient>>

Next ==
    \/ CL_AddReliableCommand
    \/ CL_WritePacket
    \/ \E n \in 1 .. Len(toClient) : CL_ParseServerMessage(n)
    \/ SV_SendMessage
    \/ \E n \in 1 .. Len(toServer) : SV_ExecuteClientMessage(n)
    \/ SV_DropClient

Spec == Init /\ [][Next]_vars

\* Both sides send in every frame (CL_SendCmd, SV_SendClientMessages), and the
\* network does not lose everything.
FairSpec ==
    /\ Spec
    /\ WF_vars(CL_WritePacket)
    /\ WF_vars(SV_SendMessage)
    /\ SF_vars(\E n \in 1 .. Len(toServer) : SV_ExecuteClientMessage(n))
    /\ SF_vars(\E n \in 1 .. Len(toClient) : CL_ParseServerMessage(n))

-----------------------------------------------------------------------------
Numbers == 0 .. MaxCommands

TypeOK ==
    /\ connected \in BOOLEAN
    /\ reliableSequence \in Numbers
    /\ reliableAcknowledge \in 0 .. reliableSequence
    /\ reliableCommands \in [Ring -> Numbers]
    /\ lastClientCommand \in 0 .. reliableSequence
    /\ lastClientCommandString \in Numbers
    /\ zombie \in BOOLEAN
    /\ executed \in Seq(Numbers)
    /\ moved \in Numbers
    /\ most \in 0 .. MAX_RELIABLE_COMMANDS + 1
    /\ \A n \in 1 .. Len(toServer) :
         /\ DOMAIN toServer[n].commands \subseteq 1 .. reliableSequence
         /\ toServer[n].move \in Numbers
    /\ \A n \in 1 .. Len(toClient) :
         /\ toClient[n].lastClientCommand \in 0 .. lastClientCommand
         /\ toClient[n].key \in Numbers

(***************************************************************************)
(* "if we would be losing an old command that hasn't been acknowledged, we *)
(* must drop the connection" (CL_AddReliableCommand): the test lets one    *)
(* command more in than the ring holds, and no second one.  Of the         *)
(* unacknowledged commands only the oldest is ever overwritten, and only   *)
(* when there is one more of them than slots.                              *)
(***************************************************************************)
OnlyOldestOverwritten ==
    \A i \in Unacknowledged :
        \/ reliableCommands[Slot(i)] = i
        \/ /\ i = reliableAcknowledge + 1
           /\ reliableSequence - reliableAcknowledge = MAX_RELIABLE_COMMANDS + 1

(***************************************************************************)
(* The server executes the commands of the client in the order they were   *)
(* added, each at most once, and no other, whatever packets are lost and   *)
(* however often a command is repeated.  What a client that overran its    *)
(* ring did not lose is still executed in its place: where a command was   *)
(* overwritten, the server executes the one that took its slot, which is a *)
(* ring newer.                                                             *)
(***************************************************************************)
ExecutedAsAdded ==
    /\ Len(executed) = lastClientCommand
    /\ \A i \in 1 .. Len(executed) :
         \/ executed[i] = i
         \/ executed[i] = i + MAX_RELIABLE_COMMANDS /\ most > MAX_RELIABLE_COMMANDS

(***************************************************************************)
(* "gauranteed to not have future usercmd_t executed before it is          *)
(* executed" (CL_AddReliableCommand): when the server executes a move, the *)
(* commands added before the move was made have been executed.             *)
(***************************************************************************)
CommandsBeforeMove == most <= MAX_RELIABLE_COMMANDS => moved <= lastClientCommand

(***************************************************************************)
(* CL_Netchan_Decode decodes a message with what is in the ring slot of    *)
(* the command the message acknowledges.  That is the command the server   *)
(* encoded it with, however the message crossed with newer commands and    *)
(* packets, until the client has added a whole ring of commands after it.  *)
(***************************************************************************)
KeysAgreeWithinRing ==
    \A n \in 1 .. Len(toClient) :
        LET m == toClient[n] IN
        /\ m.lastClientCommand > 0
        /\ reliableSequence - m.lastClientCommand < MAX_RELIABLE_COMMANDS
        => reliableCommands[Slot(m.lastClientCommand)] = m.key

(***************************************************************************)
(* "The given command will be transmitted to the server": a command added  *)
(* is executed in the end, unless an error or the server ends the          *)
(* connection, or the client overran its ring.                             *)
(***************************************************************************)
EveryCommandArrives ==
    \A n \in 1 .. MaxCommands :
        reliableSequence >= n ~>
            \/ lastClientCommand >= n
            \/ zombie \/ ~connected
            \/ most > MAX_RELIABLE_COMMANDS
=============================================================================
