------------------------------ MODULE Snapshot -------------------------------
(***************************************************************************)
(* Delta compression of snapshots.  The server keeps, for every client,    *)
(* the frames it sent (client_t.frames) and, for all clients, the states   *)
(* of their entities in one circular buffer (svs.snapshotEntities); the    *)
(* client keeps what it parsed in two circular buffers of its own          *)
(* (cl.snapshots, cl.parseEntities).  A delta is right only if both read   *)
(* the same frame, through new maps, restarts and lost messages.           *)
(*                                                                         *)
(* Messages and packets arrive in order or not at all: the sequenced       *)
(* channel discards late ones.                                             *)
(***************************************************************************)
EXTENDS Integers, Sequences, FiniteSets, SequencesExt

CONSTANTS
    Views,                  \* what the client can see, a function from entity
                            \* numbers to states, and how many entities the
                            \* clients before it see at the same time
    PACKET_BACKUP,
    Slack,                  \* 3: frames this close to reuse are not used
    numSnapshotEntities,
    MAX_PARSE_ENTITIES,
    Margin,                 \* 128: entities this close to reuse are not used
    InFlight,               \* bound: messages of one direction on their way
    MaxMessages,            \* bound: messages to the client
    MaxServerId             \* bound: maps and restarts

ASSUME SnapshotAssumption ==
    /\ {PACKET_BACKUP, numSnapshotEntities, MAX_PARSE_ENTITIES} \subseteq Nat \ {0}
    /\ {Slack, Margin, MaxMessages, MaxServerId} \subseteq Nat
    /\ InFlight \in Nat \ {0}
    /\ \A v \in Views :
         /\ v.others \in Nat
         /\ DOMAIN v.world \subseteq 0 .. 1022
         /\ v.world = [n \in DOMAIN v.world |-> v.world[n]]

VARIABLES
    sv,             \* serverId, restartedServerId, map, nextSnapshotEntities
    client,         \* the client_t, without its frames
    frames,
    snapshotEntities,
    cl,             \* the client's state, without its snapshots
    snapshots,
    parseEntities,
    toClient, toServer      \* the last messages of each direction

vars == <<sv, client, frames, snapshotEntities, cl, snapshots, parseEntities,
          toClient, toServer>>

Frame(n) == n % PACKET_BACKUP
NoEntity == [number |-> 0, state |-> 0]
Gone == [number |-> 1023, state |-> 0]      \* MAX_GENTITIES - 1
NoNumber == 99999
NoFrame == [first |-> 0, num |-> 0]
NoSnap == [valid |-> FALSE, messageNum |-> 0, first |-> 0, num |-> 0,
           truth |-> <<>>, map |-> 0]

Cleared(id, map, num) ==
    [serverId |-> id, map |-> map, snap |-> NoSnap, parseEntitiesNum |-> 0,
     sequence |-> num]

Init ==
    /\ sv = [serverId |-> 1, restartedServerId |-> 1, map |-> 1, next |-> 0]
    /\ client = [state |-> "CONNECTED", deltaMessage |-> 0, serverIdAcknowledge |-> 0,
                 gamestateMessageNum |-> -1, outgoingSequence |-> 1]
    /\ frames = [n \in 0 .. PACKET_BACKUP - 1 |-> NoFrame]
    /\ snapshotEntities = [n \in 0 .. numSnapshotEntities - 1 |-> NoEntity]
    /\ cl = Cleared(0, 0, 0)
    /\ snapshots = [n \in 0 .. PACKET_BACKUP - 1 |-> NoSnap]
    /\ parseEntities = [n \in 0 .. MAX_PARSE_ENTITIES - 1 |-> NoEntity]
    /\ toClient = <<>>
    /\ toServer = <<>>

\* When more messages are sent than can be on their way, the oldest is lost.
Sent(channel, m) == Append(IF Len(channel) = InFlight THEN Tail(channel) ELSE channel, m)

-----------------------------------------------------------------------------
(* Lists of entities in circular buffers, in the order of their numbers.   *)

Sorted(S) ==
    CHOOSE q \in [1 .. Cardinality(S) -> S] : \A i, j \in DOMAIN q : i < j => q[i] < q[j]

Ordered(world) ==
    [k \in DOMAIN Sorted(DOMAIN world) |->
        LET n == Sorted(DOMAIN world)[k] IN [number |-> n, state |-> world[n]]]

\* Of several that are stored in one place the last remains.
LastAt(size, first, list, n) ==
    CHOOSE k \in DOMAIN list :
        /\ (first + k - 1) % size = n
        /\ \A j \in DOMAIN list : (first + j - 1) % size = n => j <= k

Stored(ring, size, first, list) ==
    [n \in DOMAIN ring |->
        IF \E k \in DOMAIN list : (first + k - 1) % size = n
        THEN list[LastAt(size, first, list, n)]
        ELSE ring[n]]

Listed(ring, size, first, num) == [k \in 1 .. num |-> ring[(first + k - 1) % size]]

World(list) ==
    [n \in {list[k].number : k \in DOMAIN list} |->
        list[CHOOSE k \in DOMAIN list : list[k].number = n].state]

-----------------------------------------------------------------------------
(* The server builds and writes a snapshot.                                *)

\* Mutant: entities that have rolled off the buffer are used.
DeltaSource_RolledOff(next) ==
    IF \/ client.deltaMessage <= 0
       \/ client.state # "ACTIVE"
       \/ client.outgoingSequence - client.deltaMessage >= PACKET_BACKUP - Slack
    THEN 0 ELSE client.deltaMessage

\* The message whose frame is the source of the delta, or 0.
DeltaSource(next) ==
    IF \/ client.deltaMessage <= 0
       \/ client.state # "ACTIVE"
       \/ client.outgoingSequence - client.deltaMessage >= PACKET_BACKUP - Slack
       \/ frames[Frame(client.deltaMessage)].first <= next - numSnapshotEntities
    THEN 0 ELSE client.deltaMessage

\* SV_EmitPacketEntities: an entity is written when it is new or has changed,
\* and when it is gone.
Emitted(from, to) ==
    [changed |-> [n \in {x \in DOMAIN to : x \notin DOMAIN from \/ from[x] # to[x]} |-> to[n]],
     removed |-> DOMAIN from \ DOMAIN to]

\* Mutant: snapshots are sent whatever map the client has.
Acknowledged_Always == TRUE

Acknowledged == client.serverIdAcknowledge \in {sv.serverId, sv.restartedServerId}

\* The frames of the clients before it take places of the buffer too.
SV_SendClientSnapshot(world, others) ==
    LET number == client.outgoingSequence
        frame == [first |-> sv.next + others, num |-> Cardinality(DOMAIN world)]
        ring == Stored(snapshotEntities, numSnapshotEntities, sv.next,
                       [i \in 1 .. others |-> NoEntity] \o Ordered(world))
        next == frame.first + frame.num
        source == DeltaSource(next)
        old == frames[Frame(source)]
        from == IF source = 0 THEN <<>>
                ELSE World(Listed(ring, numSnapshotEntities, old.first, old.num))
    IN  /\ number <= MaxMessages
        /\ frames' = [frames EXCEPT ![Frame(number)] = frame]
        /\ snapshotEntities' = ring
        /\ sv' = [sv EXCEPT !.next = next]
        /\ client' = [client EXCEPT !.outgoingSequence = number + 1]
        /\ toClient' = Sent(toClient,
            IF Acknowledged
            THEN [type |-> "snapshot", num |-> number, id |-> sv.serverId, map |-> sv.map,
                  delta |-> IF source = 0 THEN 0 ELSE number - source,
                  entities |-> Emitted(from, world), truth |-> world]
            ELSE [type |-> "nop", num |-> number])
        /\ UNCHANGED <<cl, snapshots, parseEntities, toServer>>

-----------------------------------------------------------------------------
(* Maps.                                                                   *)

SV_SpawnServer ==
    /\ sv.serverId < MaxServerId
    /\ sv' = [serverId |-> sv.serverId + 1, restartedServerId |-> sv.serverId + 1,
              map |-> sv.map + 1, next |-> 0]
    /\ snapshotEntities' = [n \in DOMAIN snapshotEntities |-> NoEntity]
    /\ client' = [client EXCEPT !.state = "CONNECTED"]
    /\ UNCHANGED <<frames, cl, snapshots, parseEntities, toClient, toServer>>

SV_ClientEnterWorld(c) == [c EXCEPT !.state = "ACTIVE", !.deltaMessage = -1]

SV_Restart ==
    /\ sv.serverId < MaxServerId
    /\ sv' = [sv EXCEPT !.serverId = sv.serverId + 1, !.restartedServerId = sv.serverId]
    /\ client' = SV_ClientEnterWorld(client)
    /\ UNCHANGED <<frames, snapshotEntities, cl, snapshots, parseEntities, toClient,
                   toServer>>

-----------------------------------------------------------------------------
(* The client sends packets and the server executes them.                  *)

\* Mutant: only an invalid snapshot asks for a full one.
Move_AnyValid == IF ~cl.snap.valid THEN "moveNoDelta" ELSE "move"

Move == IF ~cl.snap.valid \/ cl.sequence # cl.snap.messageNum
        THEN "moveNoDelta" ELSE "move"

CL_WritePacket ==
    \E move \in {"none", Move} :
        /\ IF cl.serverId = 0 THEN move = "none" ELSE cl.snap.valid => move # "none"
        /\ LET p == [id |-> cl.serverId, ack |-> cl.sequence, move |-> move]
           IN  /\ \A k \in DOMAIN toServer : toServer[k] # p
               /\ toServer' = Sent(toServer, p)
        /\ UNCHANGED <<sv, client, frames, snapshotEntities, cl, snapshots,
                       parseEntities, toClient>>

\* SV_UserMove
Moved(c, p) ==
    LET asked == [c EXCEPT !.deltaMessage = IF p.move = "move" THEN p.ack ELSE -1]
    IN  IF p.move = "none" THEN c
        ELSE IF c.state = "PRIMED" THEN SV_ClientEnterWorld(asked)
        ELSE IF c.state # "ACTIVE" THEN [asked EXCEPT !.deltaMessage = -1]
        ELSE asked

Dropped(p) == client.state # "ACTIVE" /\ p.ack > client.gamestateMessageNum

SV_SendClientGameState(c) ==
    /\ c.outgoingSequence <= MaxMessages
    /\ client' = [c EXCEPT !.state = "PRIMED",
                           !.gamestateMessageNum = c.outgoingSequence,
                           !.outgoingSequence = c.outgoingSequence + 1]
    /\ toClient' = Sent(toClient, [type |-> "gamestate", num |-> c.outgoingSequence,
                                   id |-> sv.serverId, map |-> sv.map])

SV_ExecuteClientMessage(k) ==
    LET p == toServer[k]
        c == [client EXCEPT !.serverIdAcknowledge = p.id]
    IN  /\ toServer' = SubSeq(toServer, k + 1, Len(toServer))
        /\ \/ /\ p.id = sv.serverId
              /\ client' = Moved(c, p)
              /\ UNCHANGED toClient
           \/ /\ p.id # sv.serverId
              /\ ~(sv.restartedServerId <= p.id /\ p.id < sv.serverId)
              /\ Dropped(p)
              /\ SV_SendClientGameState(c)
           \/ /\ p.id # sv.serverId
              /\ \/ sv.restartedServerId <= p.id /\ p.id < sv.serverId
                 \/ ~Dropped(p)
              /\ client' = c
              /\ UNCHANGED toClient
        /\ UNCHANGED <<sv, frames, snapshotEntities, cl, snapshots, parseEntities>>

-----------------------------------------------------------------------------
(* The client parses messages.                                             *)

CL_ParseGamestate(m) ==
    /\ m.type = "gamestate"
    /\ cl' = Cleared(m.id, m.map, m.num)
    /\ snapshots' = [n \in DOMAIN snapshots |-> NoSnap]
    /\ parseEntities' = [n \in DOMAIN parseEntities |-> NoEntity]

Verdict(old, deltaNum) ==
    IF ~old.valid THEN "invalid"
    ELSE IF old.messageNum # deltaNum THEN "too old"
    ELSE IF cl.parseEntitiesNum - old.first > MAX_PARSE_ENTITIES - Margin
         THEN "entities too old"
    ELSE "valid"

\* The old list is read while the new one is written into the same buffer: k is the
\* next entity of the message, whose numbers are given, i that of the old list.
OldPlace(old, i) == (old.first + i) % MAX_PARSE_ENTITIES

OldNumber(ring, old, i) == IF i < old.num THEN ring[OldPlace(old, i)].number ELSE NoNumber

CL_DeltaEntity(s, old, delta, numbers) ==
    LET newnum == IF s.k <= Len(numbers) THEN numbers[s.k] ELSE NoNumber
        entity == IF s.oldnum < newnum THEN s.ring[OldPlace(old, s.i)]
                  ELSE IF newnum \in delta.removed THEN Gone
                  ELSE [number |-> newnum, state |-> delta.changed[newnum]]
        ring == [s.ring EXCEPT ![s.next % MAX_PARSE_ENTITIES] = entity]
        i == IF s.oldnum <= newnum THEN s.i + 1 ELSE s.i
    IN  IF {s.oldnum, newnum} = {NoNumber} THEN s
        ELSE [ring |-> ring, i |-> i,
              oldnum |-> IF i = s.i THEN s.oldnum ELSE OldNumber(ring, old, i),
              next |-> IF entity = Gone THEN s.next ELSE s.next + 1,
              k |-> IF newnum <= s.oldnum THEN s.k + 1 ELSE s.k]

CL_ParsePacketEntities(old, delta) ==
    LET numbers == Sorted(DOMAIN delta.changed \cup delta.removed)
        steps == old.num + Len(numbers)
        parsed[n \in 0 .. steps] ==
            IF n = 0 THEN [ring |-> parseEntities, next |-> cl.parseEntitiesNum, i |-> 0,
                           oldnum |-> OldNumber(parseEntities, old, 0), k |-> 1]
            ELSE CL_DeltaEntity(parsed[n - 1], old, delta, numbers)
    IN  parsed[steps]

\* Snapshots that were lost between the last one and this are no longer valid.
Skipped(num) ==
    {Frame(n) : n \in (IF num - (cl.snap.messageNum + 1) >= PACKET_BACKUP
                       THEN num - (PACKET_BACKUP - 1)
                       ELSE cl.snap.messageNum + 1) .. num - 1}

Kept(snap) ==
    [n \in DOMAIN snapshots |->
        IF n = Frame(snap.messageNum) THEN snap
        ELSE IF n \in Skipped(snap.messageNum) THEN [snapshots[n] EXCEPT !.valid = FALSE]
        ELSE snapshots[n]]

\* The commands of the message come first; one of them tells of a restart.
CL_ParseSnapshot(m) ==
    LET deltaNum == m.num - m.delta
        old == IF m.delta = 0 THEN NoSnap ELSE snapshots[Frame(deltaNum)]
        v == IF m.delta = 0 THEN "valid" ELSE Verdict(old, deltaNum)
        parsed == CL_ParsePacketEntities(old, m.entities)
        snap == [valid |-> TRUE, messageNum |-> m.num, first |-> cl.parseEntitiesNum,
                 num |-> parsed.next - cl.parseEntitiesNum, truth |-> m.truth, map |-> m.map]
    IN  /\ m.type = "snapshot"
        /\ parseEntities' = parsed.ring
        /\ cl' = [cl EXCEPT !.sequence = m.num, !.parseEntitiesNum = parsed.next,
                            !.serverId = m.id, !.snap = IF v = "valid" THEN snap ELSE cl.snap]
        /\ snapshots' = IF v = "valid" THEN Kept(snap) ELSE snapshots

CL_ParseNop(m) ==
    /\ m.type = "nop"
    /\ cl' = [cl EXCEPT !.sequence = m.num]
    /\ UNCHANGED <<snapshots, parseEntities>>

CL_ParseServerMessage(k) ==
    /\ toClient' = SubSeq(toClient, k + 1, Len(toClient))
    /\ \/ CL_ParseGamestate(toClient[k])
       \/ CL_ParseSnapshot(toClient[k])
       \/ CL_ParseNop(toClient[k])
    /\ UNCHANGED <<sv, client, frames, snapshotEntities, toServer>>

-----------------------------------------------------------------------------
Next ==
    \/ \E v \in Views : SV_SendClientSnapshot(v.world, v.others)
    \/ SV_SpawnServer
    \/ SV_Restart
    \/ CL_WritePacket
    \/ \E k \in DOMAIN toServer : SV_ExecuteClientMessage(k)
    \/ \E k \in DOMAIN toClient : CL_ParseServerMessage(k)

Spec == Init /\ [][Next]_vars

-----------------------------------------------------------------------------
\* CL_GetSnapshot, for the client game: which snapshots it is given.
Gets(n) ==
    /\ n <= cl.snap.messageNum
    /\ cl.snap.messageNum - n < PACKET_BACKUP
    /\ snapshots[Frame(n)].valid
    /\ cl.parseEntitiesNum - snapshots[Frame(n)].first < MAX_PARSE_ENTITIES

GetSnapshot(n) ==
    LET s == snapshots[Frame(n)]
    IN  World(Listed(parseEntities, MAX_PARSE_ENTITIES, s.first, s.num))

TypeOK ==
    /\ sv.restartedServerId <= sv.serverId /\ sv.serverId <= MaxServerId
    /\ client.state \in {"CONNECTED", "PRIMED", "ACTIVE"}
    /\ client.outgoingSequence \in 1 .. MaxMessages + 1
    /\ {client.deltaMessage, client.gamestateMessageNum}
         \subseteq -1 .. client.outgoingSequence - 1
    /\ cl.sequence \in 0 .. client.outgoingSequence - 1
    /\ \A n \in DOMAIN snapshots :
         /\ snapshots[n].first + snapshots[n].num <= cl.parseEntitiesNum
         /\ snapshots[n].messageNum <= cl.snap.messageNum
    /\ Len(toClient) <= InFlight /\ Len(toServer) <= InFlight

\* Whatever snapshot the client game is given, it is the one it asked for, and
\* has the entities the server saw when it built it.
SnapshotsIntact ==
    \A n \in 1 .. MaxMessages : Gets(n) =>
        /\ snapshots[Frame(n)].messageNum = n
        /\ GetSnapshot(n) = snapshots[Frame(n)].truth

\* "Delta from invalid frame (not supposed to happen!)" does not happen, nor a
\* delta from a frame the client has replaced, whichever message arrives next.
DeltaFromKnownFrame ==
    \A k \in DOMAIN toClient : LET m == toClient[k] IN
        m.type = "snapshot" /\ m.delta # 0
        => Verdict(snapshots[Frame(m.num - m.delta)], m.num - m.delta)
             \notin {"invalid", "too old"}

\* The client never has a snapshot of a map whose gamestate, with the baselines
\* that new entities are made from, it does not have.
MapAgrees == cl.snap.valid => cl.snap.map = cl.map

\* "They just haven't caught the map_restart yet" and "use a comparison here to
\* catch multiple map_restart", says SV_ExecuteClientMessage: a client in the game
\* that has the map is sent snapshots, and with them the new id, because the server
\* accepts the id of its last packet, of its next one, or of one it will send once
\* it has got what is on its way.  The code does not ensure it: snapshots are sent
\* for the ids of now and of before the last restart only, so that the second of
\* two restarts shuts out a client that has not noticed the first.
RestartsCaught ==
    client.state = "ACTIVE" /\ cl.map = sv.map =>
        {sv.serverId, sv.restartedServerId}
          \cap ({client.serverIdAcknowledge, cl.serverId}
                 \cup {m.id : m \in {k \in Range(toClient) : k.type = "snapshot"}}) # {}
=============================================================================
