---------------------------- MODULE ServerMessages ----------------------------
(***************************************************************************)
(* Gamestates and snapshots on top of the server's fragment queue.  The    *)
(* server writes down under which number a message goes out when it hands  *)
(* the message over: the gamestate in gamestateMessageNum, a snapshot by   *)
(* the frame it builds, and in the delta itself.  It takes                 *)
(* netchan.outgoingSequence for that number, which is wrong as soon as     *)
(* another message is still being sent.                                    *)
(*                                                                         *)
(* SvNetchan is the channel to the client, with all its fragments.  Of the *)
(* client's packets the last one may be on its way, executed late or lost. *)
(***************************************************************************)
EXTENDS SvNetchan, FiniteSets, SequencesExt

CONSTANTS
    Gamestates, Snapshots, Nops,    \* messages of each kind, by their length
    PACKET_BACKUP,
    Slack,                          \* 3: frames this close to reuse are not used
    MaxServerId                     \* bound: maps and restarts

ASSUME ServerMessagesAssumption ==
    /\ Gamestates \cup Snapshots \cup Nops \subseteq Message
    /\ {PACKET_BACKUP, Slack, MaxServerId} \subseteq Nat
    /\ PACKET_BACKUP > Slack

VARIABLES
    sv,         \* serverId, restartedServerId, rounds of SV_FinalMessage
    client,     \* the client_t, without its channel and frames
    frames,     \* which message was built in each frame
    messages,   \* what the messages handed over say, in the order of handed
    cl,         \* the client: its server id and the snapshots it has
    packet      \* the client's last packet

upper == <<sv, client, frames, messages, cl, packet>>
allvars == <<vars, upper>>

Frame(n) == n % PACKET_BACKUP
NoPacket == [id |-> 0, ack |-> 0, move |-> "lost"]

InitMessages ==
    /\ Init
    /\ sv = [serverId |-> 1, restartedServerId |-> 1, final |-> 0]
    /\ client = [state |-> "CONNECTED", gamestateMessageNum |-> -1,
                 serverIdAcknowledge |-> 0, deltaMessage |-> 0]
    /\ frames = [n \in 0 .. PACKET_BACKUP - 1 |-> 0]
    /\ messages = <<>>
    /\ cl = [serverId |-> 0, snap |-> 0, snaps |-> {}]
    /\ packet = NoPacket

Running == sv.final = 0

\* The message handed over last, with what it says.
Hand(kinds, says) ==
    /\ \E m \in kinds : SV_Netchan_Transmit(m)
    /\ messages' = Append(messages, says)

-----------------------------------------------------------------------------
(* Snapshots.                                                              *)

DeltaSource ==
    IF \/ client.deltaMessage <= 0
       \/ client.state # "ACTIVE"
       \/ outgoingSequence - client.deltaMessage >= PACKET_BACKUP - Slack
    THEN 0 ELSE client.deltaMessage

\* A nop takes the place of the snapshot when the client does not have the map;
\* the frame is built nevertheless.
SV_SendClientSnapshot ==
    /\ frames' = [frames EXCEPT ![Frame(outgoingSequence)] = Len(messages) + 1]
    /\ IF client.serverIdAcknowledge \in {sv.serverId, sv.restartedServerId}
       THEN Hand(Snapshots,
                 [type |-> "snapshot", id |-> sv.serverId,
                  lastframe |-> IF DeltaSource = 0 THEN 0 ELSE outgoingSequence - DeltaSource,
                  base |-> IF DeltaSource = 0 THEN 0 ELSE frames[Frame(DeltaSource)]])
       ELSE Hand(Nops, [type |-> "nop", id |-> sv.serverId, lastframe |-> 0, base |-> 0])

\* Mutant: a snapshot is sent although earlier messages wait.
SV_SendClientMessages_Queued ==
    /\ Running
    /\ SV_SendClientSnapshot
    /\ UNCHANGED <<sv, client, cl, packet>>

\* "Drop this snapshot if the packet queue is still full or delta compression
\* will break"
SV_SendClientMessages ==
    /\ Running
    /\ ~Busy
    /\ SV_SendClientSnapshot
    /\ UNCHANGED <<sv, client, cl, packet>>

\* One of the two rounds, between which the server does nothing else.
SV_FinalMessage ==
    /\ sv.final < 2
    /\ SV_SendClientSnapshot
    /\ sv' = [sv EXCEPT !.final = @ + 1]
    /\ UNCHANGED <<client, cl, packet>>

SV_SendQueuedMessages ==
    /\ Running
    /\ SV_Netchan_TransmitNextFragment
    /\ UNCHANGED upper

-----------------------------------------------------------------------------
(* Maps, and the packets of the client.                                    *)

SV_SpawnServer ==
    /\ Running
    /\ sv.serverId < MaxServerId
    /\ \/ /\ sv' = [sv EXCEPT !.serverId = @ + 1, !.restartedServerId = sv.serverId + 1]
          /\ client' = [client EXCEPT !.state = "CONNECTED"]
       \/ /\ sv' = [sv EXCEPT !.serverId = @ + 1, !.restartedServerId = sv.serverId]
          /\ client' = [client EXCEPT !.state = "ACTIVE", !.deltaMessage = -1]
    /\ UNCHANGED <<vars, frames, messages, cl, packet>>

\* SV_UserMove; the first move of a primed client brings it into the game.
Moved(c, p) ==
    IF p.move = "none" THEN c
    ELSE [c EXCEPT !.state = IF @ = "PRIMED" THEN "ACTIVE" ELSE @,
                   !.deltaMessage = IF p.move = "move" /\ c.state = "ACTIVE" THEN p.ack ELSE -1]

CatchingUp(p) == sv.restartedServerId <= p.id /\ p.id < sv.serverId

Dropped(p) == client.state # "ACTIVE" /\ p.ack > client.gamestateMessageNum

\* Mutant: the number of the last message that was sent.
GamestateNum_LastSent == outgoingSequence - 1

GamestateNum == outgoingSequence

SV_SendClientGameState(c) ==
    /\ client' = [c EXCEPT !.state = "PRIMED", !.gamestateMessageNum = GamestateNum]
    /\ Hand(Gamestates, [type |-> "gamestate", id |-> sv.serverId, lastframe |-> 0, base |-> 0])

SV_ExecuteClientMessage ==
    /\ Running
    /\ packet # NoPacket
    /\ packet' = NoPacket
    /\ LET c == [client EXCEPT !.serverIdAcknowledge = packet.id]
       IN  \/ /\ packet.id = sv.serverId
              /\ client' = Moved(c, packet)
              /\ UNCHANGED <<vars, messages>>
           \/ /\ packet.id # sv.serverId
              /\ CatchingUp(packet) \/ ~Dropped(packet)
              /\ client' = c
              /\ UNCHANGED <<vars, messages>>
           \/ /\ packet.id # sv.serverId
              /\ ~CatchingUp(packet) /\ Dropped(packet)
              /\ SV_SendClientGameState(c)
    /\ UNCHANGED <<sv, frames, cl>>

-----------------------------------------------------------------------------
(* The client.                                                             *)

Move == IF cl.snap # 0 /\ cl.snap = incomingSequence THEN "move" ELSE "moveNoDelta"

\* Without a snapshot the client may still be loading.
CL_WritePacket ==
    /\ \E move \in {"none", Move} :
        /\ IF cl.serverId = 0 THEN move = "none" ELSE cl.snap # 0 => move # "none"
        /\ packet' = [id |-> cl.serverId, ack |-> incomingSequence, move |-> move]
    /\ packet' # packet
    /\ UNCHANGED <<vars, sv, client, frames, messages, cl>>

\* A delta needs the snapshot with the number it names.  The commands of the
\* message come first; one of them tells of a restart.
CL_ParseSnapshot(n) ==
    LET m == messages[n]
        valid == m.lastframe = 0 \/ n - m.lastframe \in cl.snaps
    IN  [serverId |-> m.id,
         snap |-> IF valid THEN n ELSE cl.snap,
         snaps |-> IF valid THEN {k \in cl.snaps : Frame(k) # Frame(n)} \cup {n} ELSE cl.snaps]

CL_ParseServerMessage(n) ==
    cl' = CASE messages[n].type = "gamestate" ->
                    [serverId |-> messages[n].id, snap |-> 0, snaps |-> {}]
            [] messages[n].type = "snapshot" -> CL_ParseSnapshot(n)
            [] OTHER -> cl

CL_PacketEvent ==
    /\ ReceiveDatagram
    /\ IF received' = received THEN UNCHANGED cl ELSE CL_ParseServerMessage(Last(received').sequence)
    /\ UNCHANGED <<sv, client, frames, messages, packet>>

-----------------------------------------------------------------------------
NextMessages ==
    \/ SV_SendClientMessages
    \/ SV_FinalMessage
    \/ SV_SendQueuedMessages
    \/ SV_SpawnServer
    \/ SV_ExecuteClientMessage
    \/ CL_WritePacket
    \/ CL_PacketEvent

SpecMessages == InitMessages /\ [][NextMessages]_allvars

-----------------------------------------------------------------------------
(***************************************************************************)
(* Where the client takes a delta from is what the server made it from:    *)
(* although the server writes a snapshot before the channel numbers it,    *)
(* frames and deltas name the message that went out.                       *)
(***************************************************************************)
DeltaBasesAgree ==
    \A n \in cl.snaps :
        messages[n].lastframe # 0 => messages[n].base = n - messages[n].lastframe

(***************************************************************************)
(* A gamestate is sent again only when it was lost ("if we can tell that   *)
(* the client has dropped the last gamestate we sent them, resend it"):    *)
(* never while it waits behind another message, is sent piece by piece, or *)
(* is on its way.                                                          *)
(***************************************************************************)
ResentOnlyIfLost ==
    [][ messages' # messages /\ Last(messages').type = "gamestate"
        => \A k \in DOMAIN messages :
              messages[k].type = "gamestate" /\ messages[k].id = sv.serverId
              => /\ k <= incomingSequence
                 /\ \A i \in DOMAIN received : received[i].sequence # k ]_allvars

(***************************************************************************)
(* What the comment of SV_FinalMessage says and the code does not ensure;  *)
(* no run requires it, and the README gives an instance that shows it.     *)
(* "The messages are sent immediately, not just stuck on the outgoing      *)
(* message list, because the server is going to totally exit".             *)
(***************************************************************************)
FinalMessageIsSent == sv.final = 2 => ~Busy
=============================================================================
