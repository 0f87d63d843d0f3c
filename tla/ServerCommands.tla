---------------------------- MODULE ServerCommands ----------------------------
(***************************************************************************)
(* Reliable commands from the server to one client, with the gamestates    *)
(* and snapshots that carry them: SV_AddServerCommand, configstrings,      *)
(* SV_SendClientGameState, SV_SendClientSnapshot, SV_ExecuteClientMessage  *)
(* and SV_DropClient on the server; CL_ParseServerMessage, CL_WritePacket  *)
(* and the cgame's CG_ProcessSnapshots on the client.                      *)
(*                                                                         *)
(* A message sent is appended to a sequence; receiving one discards those  *)
(* before it, which is what the netchan guarantees (MessageChannel): they  *)
(* may be lost, but never arrive late or twice.  The server is a           *)
(* multiplayer one, sv_pure is 0, nothing is downloaded, and the build is  *)
(* a release build (NDEBUG).                                               *)
(***************************************************************************)
EXTENDS Integers, Sequences, FiniteSets

CONSTANTS MAX_RELIABLE_COMMANDS,  \* slots of the two command rings
          MaxWritten,     \* commands of unit length that fit in msg->maxsize/2
          ConfigString,   \* configstring indexes
          LongString,     \* values too long for one "cs" command
          MOHTA,          \* com_protocol->integer >= PROTOCOL_MOHTA_MIN
          MaxChanges,     \* bound: configstring changes and prints
          MaxMessages,    \* bound: messages the server sends
          MaxServerId,    \* bound: maps
          MaxInFlight     \* bound: messages in flight in each direction

ASSUME ServerCommandsAssumption ==
    /\ MAX_RELIABLE_COMMANDS \in Nat /\ MAX_RELIABLE_COMMANDS >= 2
    /\ MaxWritten \in Nat
    /\ ConfigString \subseteq Nat \ {0} /\ ConfigString # {} /\ IsFiniteSet(ConfigString)
    /\ MOHTA \in BOOLEAN
    /\ {MaxChanges, MaxMessages} \subseteq Nat
    /\ {MaxServerId, MaxInFlight} \subseteq Nat \ {0}

CS_ZOMBIE == 1
CS_CONNECTED == 2
CS_PRIMED == 3
CS_ACTIVE == 4

VARIABLES
    cl,               \* server: the client_t
    sv,               \* server: serverId and configstrings
    outgoingSequence, \* server: netchan.outgoingSequence
    changes,          \* how many values configstrings and prints were given
    toClient,         \* messages in flight to the client
    toServer,         \* messages in flight to the server
    clc,              \* client: connection state (clc and cl.serverId)
    cgs,              \* client: the cgame
    illegible,        \* history: SV_ExecuteClientMessage found acks out of range
    deferred          \* history: a message left out a command

server  == <<cl, sv, outgoingSequence, changes>>
history == <<illegible, deferred>>
vars    == <<server, toClient, toServer, clc, cgs, history>>

Value == 0 .. MaxChanges
Ring  == 0 .. MAX_RELIABLE_COMMANDS - 1
Slot(n) == n % MAX_RELIABLE_COMMANDS

Command(op, index, value) == [op |-> op, index |-> index, value |-> value]
NoIndex    == 0
NoCommand  == Command("none", NoIndex, 0)
Printed(v) == Command("print", NoIndex, v)
Disconnect == Command("disconnect", NoIndex, 0)
EmptyRing  == [i \in Ring |-> NoCommand]
NoSnapshot == <<>>

Largest(S) == CHOOSE x \in S : \A y \in S : y <= x

-----------------------------------------------------------------------------
(* The server's queue of commands.  The operators take the client_t and    *)
(* return it changed.  "issued" is a history of what each number holds.    *)

Store(c, cmd) ==
    [c EXCEPT !.reliableSequence = @ + 1,
              !.reliableCommands[Slot(c.reliableSequence + 1)] = cmd,
              !.issued = Append(@, cmd)]

\* Mutant: commands the client may already have are replaced too.
Pending_AlsoSent(c, cmd) ==
    {i \in c.reliableAcknowledge + 1 .. c.reliableSequence :
        /\ c.reliableCommands[Slot(i)].op = "cs"
        /\ c.reliableCommands[Slot(i)].index = cmd.index}

\* The pending, unsent commands that set the same configstring.
Pending(c, cmd) ==
    {i \in c.reliableSent + 1 .. c.reliableSequence :
        /\ c.reliableCommands[Slot(i)].op = "cs"
        /\ c.reliableCommands[Slot(i)].index = cmd.index}

\* The slot belongs to the newest command that was put into it.
Holds(c, j, i) == Slot(j) = Slot(i) /\ c.reliableSequence - j < MAX_RELIABLE_COMMANDS

SV_ReplacePendingServerCommands(c, cmd) ==
    LET i == CHOOSE i \in Pending(c, cmd) : \A j \in Pending(c, cmd) : i <= j
    IN  [c EXCEPT !.reliableCommands[Slot(i)] = cmd,
                  !.issued = [j \in DOMAIN @ |-> IF Holds(c, j, i) THEN cmd ELSE @[j]]]

\* The sequence goes back to the last acknowledged command, so that the two
\* commands added here cannot overflow.  They are added only to a client that
\* was sent a gamestate.
SV_DropClient(c) ==
    LET reset == [c EXCEPT !.reliableSequence = c.reliableAcknowledge,
                           !.issued = SubSeq(@, 1, c.reliableAcknowledge),
                           !.gamestateMessageNum = -1]
    IN  IF c.state = CS_ZOMBIE THEN c
        ELSE IF c.state < CS_PRIMED THEN [reset EXCEPT !.state = CS_ZOMBIE]
        ELSE [Store(Store(reset, Printed(0)), Disconnect) EXCEPT !.state = CS_ZOMBIE]

\* Mutant: the overflow is noticed one command late.
SV_AddServerCommand_Late(c, cmd) ==
    IF MOHTA /\ cmd.op = "cs" /\ Pending(c, cmd) # {}
    THEN SV_ReplacePendingServerCommands(c, cmd)
    ELSE IF c.state < CS_PRIMED THEN c
    ELSE IF c.reliableSequence + 1 - c.reliableAcknowledge = MAX_RELIABLE_COMMANDS + 2
    THEN SV_DropClient(c)
    ELSE Store(c, cmd)

\* The test of gamestateMessageNum against -1 in the code is for SV_DropClient,
\* whose own two commands cannot overflow.
SV_AddServerCommand(c, cmd) ==
    IF MOHTA /\ cmd.op = "cs" /\ Pending(c, cmd) # {}
    THEN SV_ReplacePendingServerCommands(c, cmd)
    ELSE IF c.state < CS_PRIMED THEN c
    ELSE IF c.reliableSequence + 1 - c.reliableAcknowledge = MAX_RELIABLE_COMMANDS + 1
    THEN SV_DropClient(c)
    ELSE Store(c, cmd)

\* A long string is cut into pieces: a first and a last one here.
SV_SendConfigstring(c, k, v) ==
    IF v \in LongString
    THEN SV_AddServerCommand(SV_AddServerCommand(c, Command("bcs0", k, v)),
                             Command("bcs2", k, v))
    ELSE SV_AddServerCommand(c, Command("cs", k, v))

\* The indexes changed while the client was loading, in increasing order.
SV_UpdateConfigstrings(c) ==
    LET after[k \in Nat] ==    \* once the indexes up to k are done
          IF k = 0 THEN c
          ELSE IF k \in ConfigString /\ c.csUpdated[k]
               THEN [SV_SendConfigstring(after[k - 1], k, sv.configstrings[k])
                       EXCEPT !.csUpdated[k] = FALSE]
               ELSE after[k - 1]
    IN  after[Largest(ConfigString)]

SV_ClientEnterWorld(c) == SV_UpdateConfigstrings([c EXCEPT !.state = CS_ACTIVE])

-----------------------------------------------------------------------------
(* Messages.                                                               *)

\* What is in flight after m is sent; the oldest is lost if there is no room.
Sent(flight, m) ==
    IF Len(flight) < MaxInFlight THEN Append(flight, m) ELSE Append(Tail(flight), m)

\* Mutant: what was sent once is not sent again.
SV_UpdateServerCommandsToClient_Once(c) ==
    [i \in c.reliableSent + 1 .. c.reliableSequence |-> c.reliableCommands[Slot(i)]]

\* Mutant: the command that passes half the buffer is left out too.
SV_UpdateServerCommandsToClient_Short(c) ==
    LET first == c.reliableAcknowledge + 1
        last  == IF c.reliableSequence - first < MaxWritten
                 THEN c.reliableSequence ELSE first + MaxWritten - 1
    IN  [i \in first .. last |-> c.reliableCommands[Slot(i)]]

\* The unacknowledged commands, cut after the one that passes half the buffer.
SV_UpdateServerCommandsToClient(c) ==
    LET first == c.reliableAcknowledge + 1
        last  == IF c.reliableSequence - first < MaxWritten
                 THEN c.reliableSequence ELSE first + MaxWritten
    IN  [i \in first .. last |-> c.reliableCommands[Slot(i)]]

ServerMessage(c, body, commands) ==
    [sequence |-> outgoingSequence, body |-> body, commands |-> commands,
     reliableSequence |-> c.reliableSequence, serverId |-> sv.serverId,
     configstrings |-> sv.configstrings, state |-> c.state]

\* Some command the client is said to have is not in message m.
LeavesOut(c, m) ==
    \E i \in c.reliableAcknowledge + 1 .. m.reliableSequence : i \notin DOMAIN m.commands

SV_SendMessageToClient(c, m) ==
    /\ outgoingSequence <= MaxMessages
    /\ outgoingSequence' = outgoingSequence + 1
    /\ toClient' = Sent(toClient, m)
    /\ deferred' = (deferred \/ (m.body # "nop" /\ LeavesOut(c, m)))

\* The client_t a gamestate is sent from, then the sending.
Primed(c) == [c EXCEPT !.state = CS_PRIMED, !.gamestateMessageNum = outgoingSequence,
                       !.reliableSent = c.reliableSequence]

SV_SendClientGameState(c) ==
    /\ cl' = Primed(c)
    /\ SV_SendMessageToClient(c,
         ServerMessage(Primed(c), "gamestate", SV_UpdateServerCommandsToClient(c)))

\* Commands and a snapshot, or a nop until the client acknowledged the map.
SV_SendClientSnapshot ==
    /\ \/ /\ cl.serverIdAcknowledge = sv.serverId
          /\ cl' = [cl EXCEPT !.reliableSent = cl.reliableSequence]
          /\ SV_SendMessageToClient(cl,
               ServerMessage(cl, "snapshot", SV_UpdateServerCommandsToClient(cl)))
       \/ /\ cl.serverIdAcknowledge # sv.serverId
          /\ SV_SendMessageToClient(cl, ServerMessage(cl, "nop", <<>>))
          /\ UNCHANGED cl
    /\ UNCHANGED <<sv, changes, toServer, clc, cgs, illegible>>

-----------------------------------------------------------------------------
(* What the game and the operator do.                                      *)

SV_SetConfigstring(k) ==
    /\ changes < MaxChanges
    /\ changes' = changes + 1
    /\ sv' = [sv EXCEPT !.configstrings[k] = changes + 1]
    /\ cl' = IF cl.state = CS_PRIMED THEN [cl EXCEPT !.csUpdated[k] = TRUE]
             ELSE IF cl.state = CS_ACTIVE THEN SV_SendConfigstring(cl, k, changes + 1)
             ELSE cl
    /\ UNCHANGED <<outgoingSequence, toClient, toServer, clc, cgs, history>>

\* SV_SendServerCommand with a command that is not a configstring.
SV_SendServerCommand ==
    /\ changes < MaxChanges
    /\ changes' = changes + 1
    /\ cl' = SV_AddServerCommand(cl, Printed(changes + 1))
    /\ UNCHANGED <<sv, outgoingSequence, toClient, toServer, clc, cgs, history>>

\* A timeout, a kick, or the game.
DropClient ==
    /\ cl.state \in {CS_CONNECTED, CS_PRIMED, CS_ACTIVE}
    /\ cl' = SV_DropClient(cl)
    /\ UNCHANGED <<sv, outgoingSequence, changes, toClient, toServer, clc, cgs, history>>

\* SV_SpawnServer with another map: a gamestate will be sent when the client's
\* next packet arrives.
SV_SpawnServer ==
    /\ sv.serverId < MaxServerId
    /\ sv' = [serverId |-> sv.serverId + 1,
              configstrings |-> [k \in ConfigString |-> 0]]
    /\ cl' = IF cl.state >= CS_CONNECTED THEN [cl EXCEPT !.state = CS_CONNECTED] ELSE cl
    /\ UNCHANGED <<outgoingSequence, changes, toClient, toServer, clc, cgs, history>>

-----------------------------------------------------------------------------
(* A packet of the client arrives.                                         *)

\* Mutant: a client exactly one window behind is let through.
Legible_FullWindow(c, p) ==
    c.reliableSequence - p.reliableAcknowledge \in 0 .. MAX_RELIABLE_COMMANDS

\* The client acknowledges commands of its window.
Legible(c, p) ==
    c.reliableSequence - p.reliableAcknowledge \in 0 .. MAX_RELIABLE_COMMANDS - 1

Acknowledged(c, p) == [c EXCEPT !.serverIdAcknowledge = p.serverId,
                                !.reliableAcknowledge = p.reliableAcknowledge]

\* The acknowledgements are out of range: everything counts as acknowledged.
IgnoreIllegible(p) ==
    /\ ~Legible(cl, p)
    /\ cl' = [Acknowledged(cl, p) EXCEPT !.reliableAcknowledge = cl.reliableSequence]
    /\ illegible' = TRUE
    /\ UNCHANGED <<outgoingSequence, toClient, deferred>>

\* Mutant: the gamestate is sent again without asking which message was the last.
OtherGameState_Always(p) ==
    /\ Legible(cl, p)
    /\ p.serverId # sv.serverId
    /\ \/ /\ cl.state # CS_ACTIVE
          /\ SV_SendClientGameState(Acknowledged(cl, p))
       \/ /\ cl.state = CS_ACTIVE
          /\ cl' = Acknowledged(cl, p)
          /\ UNCHANGED <<outgoingSequence, toClient, deferred>>
    /\ UNCHANGED illegible

\* A packet of another map; the client may have missed the gamestate.
OtherGameState(p) ==
    /\ Legible(cl, p)
    /\ p.serverId # sv.serverId
    /\ \/ /\ cl.state # CS_ACTIVE
          /\ p.messageAcknowledge > cl.gamestateMessageNum
          /\ SV_SendClientGameState(Acknowledged(cl, p))
       \/ /\ cl.state = CS_ACTIVE \/ p.messageAcknowledge <= cl.gamestateMessageNum
          /\ cl' = Acknowledged(cl, p)
          /\ UNCHANGED <<outgoingSequence, toClient, deferred>>
    /\ UNCHANGED illegible

\* A packet of the current map; the first move puts the client into the world.
CurrentGameState(p) ==
    /\ Legible(cl, p)
    /\ p.serverId = sv.serverId
    /\ cl' = IF p.move /\ cl.state = CS_PRIMED
             THEN SV_ClientEnterWorld(Acknowledged(cl, p)) ELSE Acknowledged(cl, p)
    /\ UNCHANGED <<outgoingSequence, toClient, history>>

\* SV_PacketEvent: packets of a zombie are not processed.
SV_ExecuteClientMessage(n) ==
    /\ toServer' = SubSeq(toServer, n + 1, Len(toServer))
    /\ \/ /\ cl.state = CS_ZOMBIE
          /\ UNCHANGED <<cl, outgoingSequence, toClient, history>>
       \/ /\ cl.state # CS_ZOMBIE
          /\ \/ IgnoreIllegible(toServer[n])
             \/ OtherGameState(toServer[n])
             \/ CurrentGameState(toServer[n])
    /\ UNCHANGED <<sv, changes, clc, cgs>>

-----------------------------------------------------------------------------
(* The client.                                                             *)

\* The commands of a message that CL_ParseCommandString does not ignore.
Fresh(m) == {i \in DOMAIN m.commands : i > clc.serverCommandSequence}

\* clc after the commands of message m were stored.
Stored(m) ==
    [clc EXCEPT
       !.serverMessageSequence = m.sequence,
       !.serverCommandSequence = Largest(Fresh(m) \cup {@}),
       !.serverCommands = [s \in Ring |->
           LET here == {i \in Fresh(m) : Slot(i) = s}
           IN  IF here = {} THEN @[s] ELSE m.commands[Largest(here)]]]

\* The cgame restarts and will execute the commands after the gamestate.
CL_ParseGamestate(m) ==
    /\ clc' = [Stored(m) EXCEPT !.serverCommandSequence = m.reliableSequence,
                                !.serverId = m.serverId,
                                !.snapshots = <<>>,
                                !.state = "CA_PRIMED"]
    /\ cgs' = [cgs EXCEPT !.serverCommandSequence = m.reliableSequence,
                          !.configstrings = m.configstrings,
                          !.shown = NoSnapshot, !.executed = <<>>,
                          !.base = m.reliableSequence]

\* A snapshot is kept unless what it is a delta of is no longer there.
CL_ParseSnapshot(m) ==
    /\ UNCHANGED cgs
    /\ clc' \in {Stored(m),
                 [Stored(m) EXCEPT !.snapshots = Append(@,
                    [serverCommandNum |-> Stored(m).serverCommandSequence,
                     state |-> m.state, configstrings |-> m.configstrings,
                     reliableSequence |-> m.reliableSequence])]}

CL_ParseServerMessage(n) ==
    /\ clc.state # "CA_DISCONNECTED"
    /\ toClient' = SubSeq(toClient, n + 1, Len(toClient))
    /\ \/ /\ toClient[n].body = "gamestate"
          /\ CL_ParseGamestate(toClient[n])
       \/ /\ toClient[n].body = "snapshot"
          /\ CL_ParseSnapshot(toClient[n])
       \/ /\ toClient[n].body = "nop"
          /\ clc' = Stored(toClient[n])
          /\ UNCHANGED cgs
    /\ UNCHANGED <<server, toServer, history>>

\* The move, if the cgame runs; key is the command it is encoded with.
CL_WritePacket(move) ==
    /\ clc.state # "CA_DISCONNECTED"
    /\ move => clc.state = "CA_PRIMED"
    /\ toServer' = Sent(toServer,
         [serverId |-> clc.serverId, move |-> move,
          messageAcknowledge |-> clc.serverMessageSequence,
          reliableAcknowledge |-> clc.serverCommandSequence,
          key |-> clc.serverCommands[Slot(clc.serverCommandSequence)]])
    /\ UNCHANGED <<server, toClient, clc, cgs, history>>

\* Mutant: a first piece does not start the string anew.
BigConfigString_NotRestarted(g, cmd) ==
    IF cmd.op \in {"bcs0", "bcs2"} THEN Append(g.bigConfigString, cmd) ELSE g.bigConfigString

\* The long string after a piece arrived: a first piece starts it anew.
BigConfigString(g, cmd) ==
    IF cmd.op = "bcs0" THEN <<cmd>>
    ELSE IF cmd.op = "bcs2" THEN Append(g.bigConfigString, cmd)
    ELSE g.bigConfigString

\* What the last piece makes of it: the value, or -1 for a string nobody sent.
Whole(pieces) ==
    LET v == Head(pieces).value IN
    IF pieces = <<Command("bcs0", Head(pieces).index, v),
                  Command("bcs2", Head(pieces).index, v)>> THEN v ELSE -1

\* One command: configstrings are set, the pieces of a long one are collected.
Execute(g, cmd) ==
    LET big == BigConfigString(g, cmd)
        set == IF cmd.op = "cs" THEN cmd.index
               ELSE IF cmd.op = "bcs2" THEN Head(big).index ELSE NoIndex
        v   == IF cmd.op = "bcs2" THEN Whole(big) ELSE cmd.value
    IN  [g EXCEPT
           !.serverCommandSequence = @ + 1,
           !.executed = Append(@, cmd),
           !.bigConfigString = big,
           !.configstrings = [k \in ConfigString |-> IF k = set THEN v ELSE @[k]]]

\* The commands up to number latest.
ExecutedOnce(g, latest) ==
    LET after[n \in Nat] ==
          IF n <= g.serverCommandSequence THEN g
          ELSE Execute(after[n - 1], clc.serverCommands[Slot(n)])
    IN  after[latest]

\* CG_ExecuteNewServerCommands goes through them twice.  In the first pass only
\* configstrings have an effect, the second one executes everything.
Executed(g, latest) ==
    ExecutedOnce([ExecutedOnce(g, latest) EXCEPT
                    !.serverCommandSequence = g.serverCommandSequence,
                    !.executed = g.executed], latest)

\* The commands among them; "disconnect" ends the connection.
Executes(latest) == {clc.serverCommands[Slot(n)] : n \in cgs.serverCommandSequence + 1 .. latest}

\* CL_GetServerCommand raises an error for a command no longer in the ring.
CycledOut(latest) ==
    /\ cgs.serverCommandSequence < latest
    /\ cgs.serverCommandSequence + 1 <= clc.serverCommandSequence - MAX_RELIABLE_COMMANDS

\* The next snapshot is shown; until the first one of an active client was,
\* the others are skipped.
CG_ProcessSnapshots ==
    /\ clc.state = "CA_PRIMED"
    /\ clc.snapshots # <<>>
    /\ LET s == Head(clc.snapshots) IN
       \/ /\ cgs.shown = NoSnapshot /\ s.state # CS_ACTIVE
          /\ clc' = [clc EXCEPT !.snapshots = Tail(@)]
          /\ UNCHANGED cgs
       \/ /\ cgs.shown # NoSnapshot \/ s.state = CS_ACTIVE
          /\ \/ /\ CycledOut(s.serverCommandNum)
                /\ clc' = [clc EXCEPT !.state = "CA_DISCONNECTED"]
                /\ UNCHANGED cgs
             \/ /\ ~CycledOut(s.serverCommandNum)
                /\ cgs' = [Executed(cgs, s.serverCommandNum) EXCEPT !.shown = s]
                /\ clc' = [clc EXCEPT !.snapshots = Tail(@),
                             !.state = IF Disconnect \in Executes(s.serverCommandNum)
                                       THEN "CA_DISCONNECTED" ELSE @]
    /\ UNCHANGED <<server, toClient, toServer, history>>

-----------------------------------------------------------------------------
\* The client was accepted (SV_DirectConnect, connectResponse) and no gamestate
\* was sent yet.
Init ==
    /\ cl = [state |-> CS_CONNECTED, reliableSequence |-> 0, reliableAcknowledge |-> 0,
             reliableSent |-> 0, reliableCommands |-> EmptyRing,
             gamestateMessageNum |-> -1, serverIdAcknowledge |-> 0,
             csUpdated |-> [k \in ConfigString |-> FALSE], issued |-> <<>>]
    /\ sv = [serverId |-> 1, configstrings |-> [k \in ConfigString |-> 0]]
    /\ outgoingSequence = 1
    /\ changes = 0
    /\ toClient = <<>>
    /\ toServer = <<>>
    /\ clc = [state |-> "CA_CONNECTED", serverId |-> 0, serverMessageSequence |-> 0,
              serverCommandSequence |-> 0, serverCommands |-> EmptyRing,
              snapshots |-> <<>>]
    /\ cgs = [serverCommandSequence |-> 0, configstrings |-> [k \in ConfigString |-> 0],
              bigConfigString |-> <<>>, shown |-> NoSnapshot,
              executed |-> <<>>, base |-> 0]
    /\ illegible = FALSE
    /\ deferred = FALSE

Next ==
    \/ \E k \in ConfigString : SV_SetConfigstring(k)
    \/ SV_SendServerCommand
    \/ DropClient
    \/ SV_SpawnServer
    \/ SV_SendClientSnapshot
    \/ \E n \in 1 .. Len(toServer) : SV_ExecuteClientMessage(n)
    \/ \E n \in 1 .. Len(toClient) : CL_ParseServerMessage(n)
    \/ \E move \in BOOLEAN : CL_WritePacket(move)
    \/ CG_ProcessSnapshots

Spec == Init /\ [][Next]_vars

-----------------------------------------------------------------------------
Commands == [op : {"none", "print", "disconnect", "cs", "bcs0", "bcs2"},
             index : ConfigString \cup {NoIndex}, value : Value]
Strings  == [ConfigString -> Value]

TypeOK ==
    /\ cl \in [state : {CS_ZOMBIE, CS_CONNECTED, CS_PRIMED, CS_ACTIVE},
               reliableSequence : Nat, reliableAcknowledge : Nat, reliableSent : Nat,
               reliableCommands : [Ring -> Commands],
               gamestateMessageNum : Nat \cup {-1}, serverIdAcknowledge : 0 .. MaxServerId,
               csUpdated : [ConfigString -> BOOLEAN], issued : Seq(Commands)]
    /\ Len(cl.issued) = cl.reliableSequence
    /\ sv \in [serverId : 1 .. MaxServerId, configstrings : Strings]
    /\ outgoingSequence \in 1 .. MaxMessages + 1
    /\ changes \in Value
    /\ \A i \in 1 .. Len(toClient) :
         /\ toClient[i].body \in {"gamestate", "snapshot", "nop"}
         /\ \A j \in DOMAIN toClient[i].commands : toClient[i].commands[j] \in Commands
    /\ \A i \in 1 .. Len(toServer) : toServer[i].key \in Commands
    /\ clc.state \in {"CA_CONNECTED", "CA_PRIMED", "CA_DISCONNECTED"}
    /\ clc.serverCommands \in [Ring -> Commands]
    /\ clc.serverCommandSequence \in Nat
    /\ cgs.configstrings \in [ConfigString -> Value \cup {-1}]
    /\ {illegible, deferred} \subseteq BOOLEAN

\* A snapshot of a client in the world is being shown.
Showing == cgs.shown # NoSnapshot /\ cgs.shown.state = CS_ACTIVE

(***************************************************************************)
(* "guaranteed to not have future snapshot_t executed before it is         *)
(* executed" (SV_AddServerCommand): when a snapshot is shown, every        *)
(* command added before the server made it has been executed.              *)
(***************************************************************************)
SnapshotGuarantee ==
    Showing /\ ~illegible =>
        cgs.shown.serverCommandNum >= cgs.shown.reliableSequence

\* How many of a full ring's commands half a message has no room for.
Unsendable == IF MaxWritten + 1 < MAX_RELIABLE_COMMANDS
              THEN MAX_RELIABLE_COMMANDS - (MaxWritten + 1) ELSE 0

(***************************************************************************)
(* What remains of that guarantee when SV_UpdateServerCommandsToClient     *)
(* leaves out commands: a snapshot shown is ahead of no more commands than *)
(* those of a full ring that half a message cannot carry, whatever was     *)
(* lost, sent again or left out before.                                    *)
(***************************************************************************)
SnapshotOvertakesFew ==
    Showing /\ ~illegible =>
        cgs.shown.reliableSequence <= cgs.shown.serverCommandNum + Unsendable

(***************************************************************************)
(* Since its gamestate the cgame has executed exactly the commands issued  *)
(* after it, each once, in order and unaltered, through losses, resending, *)
(* replacement of pending configstrings and reuse of ring slots.           *)
(***************************************************************************)
ExecutedAsIssued ==
    ~illegible /\ cl.state # CS_ZOMBIE =>
        \A i \in 1 .. Len(cgs.executed) : cgs.executed[i] = cl.issued[cgs.base + i]

(***************************************************************************)
(* The ring still holds every command that may have to be sent again, and  *)
(* as it was issued: a slot is reused only after its command was           *)
(* acknowledged or the client dropped.                                     *)
(***************************************************************************)
RingHoldsUnacknowledged ==
    \A i \in cl.reliableAcknowledge + 1 .. cl.reliableSequence :
        cl.reliableCommands[Slot(i)] = cl.issued[i]

(***************************************************************************)
(* The configstrings the client has when it shows a snapshot that came     *)
(* with all its commands are the server's when it made that snapshot,      *)
(* whichever way each of them came: in the gamestate, flagged in csUpdated *)
(* while the client was loading, as a command, in pieces, or in place of   *)
(* an older pending command.                                               *)
(***************************************************************************)
ConfigstringsCurrent ==
    Showing /\ ~illegible /\ cgs.shown.serverCommandNum >= cgs.shown.reliableSequence =>
        cgs.configstrings = cgs.shown.configstrings

\* The same, if every message had room for its commands.
ConfigstringsCurrentUnlessDeferred == ~deferred => ConfigstringsCurrent

(***************************************************************************)
(* A packet the server is going to read was encoded with the command the   *)
(* server decodes it with (SV_Netchan_Decode and the key of a usercmd use  *)
(* reliableCommands[reliableAcknowledge]): that slot was not overwritten,  *)
(* and is what the client holds under the number.                          *)
(***************************************************************************)
KeysAgree ==
    cl.state # CS_ZOMBIE /\ ~illegible =>
        \A n \in 1 .. Len(toServer) :
            LET p == toServer[n] IN
            p.serverId = sv.serverId /\ Legible(cl, p) =>
                cl.reliableCommands[Slot(p.reliableAcknowledge)] = p.key

(***************************************************************************)
(* SV_DropClient "guarantees that the client receives both the print and   *)
(* disconnect commands": a client shown a snapshot made after it was       *)
(* dropped has executed "disconnect".  The code does not ensure this: no   *)
(* run requires it, and the README gives the instance that shows it.       *)
(***************************************************************************)
DisconnectDelivered ==
    cgs.shown # NoSnapshot /\ cgs.shown.state = CS_ZOMBIE =>
        clc.state = "CA_DISCONNECTED"

(***************************************************************************)
(* A gamestate is sent only to a client that does not have the current one *)
(* ("it will be resent if the client acknowledges a later message but has  *)
(* the wrong gamestate"): packets that crossed it do not cause another.    *)
(***************************************************************************)
GamestateSent == cl'.state = CS_PRIMED /\ cl'.gamestateMessageNum # cl.gamestateMessageNum
NoNeedlessGamestate == [][GamestateSent => clc.serverId # sv.serverId]_vars
=============================================================================
