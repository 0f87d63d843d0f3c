# A verification project for OpenMoHAA's network core and scripts

OpenMoHAA is a re-implementation of the Medal of Honor: Allied Assault engine: a client/server game
descended from Quake III. A dedicated server simulates the world; every client receives a *gamestate* when
a map starts, and afterwards a stream of *snapshots*, while it sends back its *moves*. All of it travels over
UDP. On top of UDP the engine builds, in a few dozen functions spread over the server, the client and the
cgame, everything the game relies on: slots that clients get, lose and get back, whole messages from fragments,
commands that arrive exactly once and in order, configstrings that agree on both sides, snapshots sent as
differences, a window of file blocks, a limit on requests, and a connection that survives loss, duplication,
reordering and map changes. Above it, the game itself is written in scripts, whose threads wait for each other, wake
and delete each other. None of this is covered by unit tests. This project models it in TLA+, checks it with
TLC, and proves a part with TLAPS.

All paths below are under `src/code/`.

## 1. Inventory

| Component | State | Operations | Interacts with |
|---|---|---|---|
| **Connection lifecycle** `server/sv_client.c`, `sv_main.c`, `sv_init.c`, `client/cl_main.cpp` | `svs.challenges`, `client_t.state`, `lastPacketTime`, `lastConnectTime`, `timeoutCount`, slots; `clc.state`, `clc.challenge` | `SV_GetChallenge`, `SV_DirectConnect`, `SV_DropClient`, `SV_CheckTimeouts`, `SV_PacketEvent`, `SV_SpawnServer`, `SV_MapRestart_f`; `CL_CheckForResend`, `CL_ConnectionlessPacket` | resets everything below; tells the game of players |
| **Channel** `qcommon/net_chan.c` | `netchan_t`: outgoing/incoming sequence, `unsentBuffer`, `fragmentBuffer` | `Netchan_Setup`, `Netchan_Transmit`, `Netchan_TransmitNextFragment`, `Netchan_Process` | UDP or loopback below; server and client above |
| **Server channel** `server/sv_net_chan.c` | `netchan_start_queue` of a `client_t` | `SV_Netchan_Transmit`, `SV_Netchan_TransmitNextFragment`, `...NextInQueue`, `SV_Netchan_Process`; encoding with the last reliable command | called by gamestates, snapshots, `SV_SendQueuedMessages` |
| **Server commands** `server/sv_main.c`, `sv_init.c`, `sv_snapshot.c`, `sv_client.c`; `client/cl_parse.cpp`, `cl_cgame.cpp`; `cgame/cg_servercmds.c`, `cg_snapshot.c` | ring `reliableCommands` on both sides, `reliableSequence/Acknowledge/Sent`, `csUpdated`, `gamestateMessageNum`, the cgame's `serverCommandSequence` and its buffer for long strings | add, replace, send, resend, acknowledge, store, execute; gamestate and its retransmission; drop | messages are numbered by the channel; the game and the operator cause commands |
| **Client commands** `client/cl_main.cpp`, `cl_input.cpp`, `cl_net_chan.cpp`; `server/sv_client.c` | the client's ring; `lastClientCommand` of a `client_t` | `CL_AddReliableCommand`, `CL_WritePacket`, `SV_ClientCommand`, acknowledgement in every server message | shares packets with the acknowledgement of server commands |
| **Snapshots** `server/sv_snapshot.c`, `sv_client.c`; `client/cl_parse.cpp`, `cl_cgame.cpp` | `frames[PACKET_BACKUP]` of each client, `svs.snapshotEntities` shared by all; `cl.snapshots`, `cl.parseEntities` | `SV_BuildClientSnapshot`, `SV_EmitPacketEntities`, `CL_ParseSnapshot`, `CL_ParsePacketEntities`, `CL_GetSnapshot` | `messageAcknowledge` and `serverId` of client packets |
| **Downloads** `server/sv_client.c`, `client/cl_parse.cpp` | window of `MAX_DOWNLOAD_WINDOW` blocks, `downloadClientBlock`, `downloadSendTime`, `clc.downloadBlock` | `SV_BeginDownload_f`, `SV_WriteDownloadToClient`, `SV_NextDownload_f`, `SV_SendDownloadMessages`, `CL_ParseDownload` | `nextdl` is a client command; blocks are messages of the channel |
| **Rate limiting** `server/sv_main.c` | `leakyBucket_t` in hash chains, two buckets of no address | `SVC_BucketForAddress`, `SVC_RateLimit`, `SVC_RateLimitAddress` | connectionless packets |
| **Script threads** `fgame/scriptthread.cpp`, `scriptmaster.cpp`, `script/scriptvm.cpp`; `corepp/listener.cpp`, `con_timer.cpp` | `ScriptThread::m_ScriptVM`, thread states, `m_NotifyList`, `m_WaitForList`, `m_EndList` of every listener, the Director's timer list, the event queue, and the C++ stack | start, `wait`, `waittill` and its variants, notify, `ExecuteRunning`, `endon`, `end`, `delete` | `G_RunFrame`; all game objects are listeners |
| **Server frame** `server/sv_main.c` | `svs.time`, `sv.timeResidual` | `SV_Frame` | runs everything else |
| **Loopback, delayed packets** `qcommon/net_chan.c` | `loopback_t` rings, `packetQueue` | `NET_SendLoopPacket`, `NET_GetLoopPacket`, `NET_QueuePacket`, `NET_FlushPacketQueue` | below the channel |
| **Deathmatch rounds** `fgame/dm_manager.cpp` | teams, round state, `g_temp*` cvars | start, end, restart | script, configstrings, map restart |
| Command buffer, cvars, event loop, memory | buffers | `Cbuf_Execute`, `Com_EventLoop`, `Z_Malloc` | everything |
| File system, collision, skeletons, navigation, renderer, sound, UI, bots, GameSpy | - | - | I/O, floating point, data-driven or third party |

On the network the actors are the server, the clients and the network. Server and client are single-threaded loops; what
is concurrent is the *loops and the packets between them*, so that is what those models interleave: every
step is one call that runs to completion on one side, with every call it makes inside. In the scripts
nothing is concurrent either, but scripts call each other through the engine; there the C++ stack is a variable, and
a step is what happens between two such calls.

### What is hard, and what makes each component correct

* **Connection.** Every message of the handshake may be lost, repeated or late; the server forgets challenges; a slot
  is freed by a drop, a kick, silence or a map change while packets of its client are under way, and
  taken again by the same client or another. *Correct:* a client has one slot at most; the game has a player in
  exactly the slots in use (the code also leaves one where it denied a reconnect); zombies come free; a client that is out notices, an attempt ends, and who is let in
  gets the gamestate.
* **Channel.** Fragments are lost, repeated, reordered, and fragments of two messages meet in one buffer. A
  message whose length is a multiple of the fragment size needs an empty last fragment. Messages handed over
  while another is half sent must neither overwrite nor overtake it. *Correct:* what is handed up is whole, in
  order, at most once, under the number of its place in the order of sending; everything is sent in the end.
* **Server commands.** A ring of `MAX_RELIABLE_COMMANDS` slots is written by the game, read by every message,
  resent until acknowledged, partly rewritten (pending configstrings are replaced), cut short when half a
  message is full, rewound when a client is dropped, and it doubles as the key of the packet encoding. The
  client executes commands late (with the snapshot they came with), in two passes. *Correct:* commands are
  executed as issued, before the snapshots made after them; a client that shows a snapshot has the
  configstrings of that snapshot; both sides encode with the same key; a gamestate is sent again if and only if it
  was lost.
* **Client commands.** The same, in the other direction, plus *every command is executed before the moves made
  after it* and *arrives in the end*.
* **Snapshots.** A delta names an older frame by its message number. Both sides keep frames in rings of
  `PACKET_BACKUP`, and their entities in circular buffers (the server's is shared by all clients, the client
  reads the old list while it writes the new one into the same buffer). Acknowledgements are late, snapshots lost, and
  a map change or restart clears one side first. *Correct:* the entities the cgame sees are those the server
  saw; a delta is made from a frame the client has; nobody gets a snapshot of a map whose gamestate he has not.
* **Downloads.** Blocks are read ahead of the acknowledgements into a few buffers that are used again, the whole
  window is sent again after a second of silence, a block carries a 16-bit number and no name, and several files
  follow each other. *Correct:* the client's file is the server's file; a download ends, and a gamestate follows
  the last one.
* **Rate limiting.** Buckets are found by a hash, reclaimed from the chain of another hash when they have expired, and
  timed by the wall clock in an `int`, which wraps and can be set back. *Correct:* the chains hold the buckets in use;
  nobody gets more than the burst ahead of the rate, and who keeps to the rate is not refused.
* **Script threads.** A thread that announces a name runs those that wait for it before its own next command; each may
  delete the announcer, wake or delete those still to be woken, or wait again. Timeouts are events that
  must go with the wait they belong to; the timer runs only when it is marked dirty, and changes the time while it
  runs. *Correct:* no thread is forgotten, none used after its deletion, none that is due overlooked, none run while
  animations are prepared.

The hazards found while reading are listed in `PROJECT.json` with the line where each bites.

## 2. Modules

```
MessageChannel        what the channel promises                (abstract)
     ^  implemented by (proved and checked)
SvNetchan ---- EXTENDS ---> Netchan                            (detailed)
     ^          ^
     |     ServerMessages    gamestates and snapshots over the queue  (MCServerMessages)
     |          ^
     |     ServerMessagesProofs    the proofs about both
MCSvNetchan

ServerCommands        server -> client commands, gamestates
     ^
ServerCommandsProofs

ClientCommands        client -> server commands and moves
     ^
ClientCommandsProofs
Snapshot              entities of the snapshots                (MCSnapshot)
     ^
SnapshotProofs
Download              files, block by block                    (MCDownload)
     ^
DownloadProofs

Connection            challenges, slots, zombies, map changes
     ^
ConnectionProofs, MCConnection

RateLimit             the limit, buckets found by address      (abstract)
     ^  implemented by (checked and proved)
LeakyBucket           hash chains                              (MCLeakyBucket)
     ^
RateLimitProofs

ScriptThreads         waiting, waking, deleting, timers
     ^
ScriptThreadsProofs, MCScriptThreads
```

MC modules and `.cfg` files only give values to constants.

**`Connection`** - `slots` is `svs.clients` (the fields that decide about slots), `challenges` is `svs.challenges`,
`clc` the state of each client, `game` whether the game has a player in a slot. `SV_GetChallenge` looks for
the client's own challenge in the order of the array, with its limit for the second half
(`MAX_CHALLENGES_MULTI`), and takes the oldest place; `SV_DirectConnect` has its quick reject, its reconnect into an
owned slot, the free slots, and `ClientConnect`'s denial. Connectionless messages stay in `net` up to
`Lifetime` frames and may be received again until then; nothing obliges anybody to receive them, which is loss. Packets of the
channel arrive at once or not at all: `ClientPacket` is a packet of a client with a slot, `StrayPacket` one
without, answered by `disconnect`. A message that is sent again replaces its older copy. Times are ages in frames, which stop
at the limit they are compared with: the state space is finite without a bound on the number of frames. `SV_Frame`
ages everything and runs `SV_CheckTimeouts`. A new map or a restart drops those the game denies, in any subset. A client's
number of its challenge (`Numbers`) is any one not in use, which is what 31 random bits amount to.

**`Netchan`** - one direction of the channel. The variables are the fields of `netchan_t`. A message is a model
value with a length, its k-th byte is the pair `<<m, k>>`; so "the right bytes" is something an invariant can
say. The network is the set of all datagrams ever sent: receiving does not remove one and nothing obliges the
receiver to take one, hence loss, duplication and reordering need no actions. `Netchan_Transmit` overwrites
`unsentBuffer` exactly as the code does; that nobody calls it too early is the business of the next module.

**`SvNetchan`** - the queue of `sv_net_chan.c` on top. `SV_Netchan_Transmit` queues a message if fragments or
other queued messages are waiting; `SV_Netchan_TransmitNextFragment` sends a fragment or takes the next message.

**`ServerMessages`** - composes the two previous modules with the part of `client_t` that writes down the number of a
message before it has one: `SV_SendClientGameState` takes `netchan.outgoingSequence` for `gamestateMessageNum`, and
`SV_BuildClientSnapshot` and `SV_WriteSnapshotToClient` take it for the frame and for the base of the delta. That is the
number of the message *being sent*; one that has to wait gets a later one. `messages` says what each message handed over
says, in the order of `handed`; every action hands messages to `SV_Netchan_Transmit` of `SvNetchan`, and the client reads
them as `Netchan_Process` hands them up. Of the client's packets one is on its way, which may be executed late or
lost; `SV_ExecuteClientMessage` has its branches for the current map, for a client that is catching up, and for a lost
gamestate. Of the entities there remains which message a frame was built for. `SV_FinalMessage` is the two rounds in
which the server takes leave, regardless of the queue; nothing is sent or received after it.

**`MessageChannel`** - the abstract specification: a sequence `sent`, and `Receive(s)` for any `s` later than
the last one. `ChannelSpec` in `SvNetchan` is the refinement: `sent` is the content of what was handed over,
`received` and `last` are the receiver's. `ServerCommands`, `ClientCommands`, `Snapshot` and `Download` build on this
promise: there a message in flight is an element of a sequence, receiving one discards those before it, and the
oldest is lost when there is no room.

**`ServerCommands`** - one client from "accepted by `SV_DirectConnect`" on, over any number of maps. `cl` is its
`client_t`, `sv` the server's configstrings and `serverId`; `clc` and `cgs` are the client's connection and
cgame. The operators on the `client_t` (`SV_AddServerCommand`, `SV_SendConfigstring`, `SV_DropClient`, ...) take
a record and return it changed, so that each handler composes them in the order of the code: for instance
`SV_SetConfigstring` -> `SV_SendConfigstring` -> two `SV_AddServerCommand` -> maybe `SV_DropClient` is one
step. `SV_ExecuteClientMessage` has its three outcomes (illegible, another map, this map), the gamestate sent
again from inside it included. The cgame executes the commands up to a snapshot's `serverCommandNum` when it
shows the snapshot, in two passes (`Executed`), with the string pieces collected in a buffer that outlives both.
A configstring value is a number that is never used twice, so "the current value" is unambiguous; members of
`LongString` are those too long for one `cs`, and go out as `bcs0`, `bcs2`. `issued` is a history of what
each command number holds, replaced commands included; `illegible` and `deferred` remember that an acknowledgement was out of range, and
that a message left out commands.

**`ClientCommands`** - commands added by the client; a command is its own number. Every packet carries all
unacknowledged commands and a move, as the ring holds them. `most` is a history of how full the ring was: one command more
than it has slots is let in.

**`Snapshot`** - one client's snapshots. A view is a function from entity numbers to states, with the number of
entities that the clients before it put into the shared buffer in the same frame. `frames` and `snapshotEntities` are
the server's, `snapshots` and `parseEntities` the client's, each with the size the constants give, so that places are
used again. `SV_SendClientSnapshot` builds the frame, chooses the source of the delta (`DeltaSource`, all its conditions)
and writes the differences; `CL_ParseSnapshot` merges them with the old frame as it finds it in its own buffer,
reading and writing it in one pass, and keeps the snapshot only if it is valid. `truth` in a snapshot is history: what the
server saw. `CL_WritePacket` and `SV_ExecuteClientMessage` carry `serverId` and the acknowledged message back;
`SV_SpawnServer` and `SV_Restart` change the ids as the code does.

**`Download`** - the files a client misses, from its first gamestate to the one after its last download. `cl` holds
the download fields of the `client_t`; `downloadBlocks` are its buffers, so that a buffer read again before its
block was acknowledged would show. `clc` holds the client's download fields, the places of the files still to come in the
server's list (they are taken from the lowest on, as the code takes names from the front), the temporary file
`tmp` and the finished ones on `disk`. Any subset of the files may be there at the start. The client's commands
are a queue (what `ClientCommands` promises) of which the server has executed the first `executed`; both are
counted from the last acknowledged one, which keeps the state space finite without a bound on the number of
commands. The resend timer is only "more than a second has passed", which may be so at any time. A block that
comes without a request is left unread by `CL_ParseDownload`, and its bytes are taken for message types: the model
lets the client fail or go on. `confused` remembers that a block of one file was taken for one of another. Left
out: redirection to a web server, a map change during the download; a client that needs more commands than its ring
holds is ended.

**`RateLimit`, `LeakyBucket`** - `RateLimit` has the arithmetic: draining a bucket by whole periods, moving its
time back to the start of a period, filling it, expiring, in `int`s of `2 * Half` values; a bucket is found by the address
it holds. `LeakyBucket` has the same charges and the doubly linked hash chains by which the code finds, unlinks and
links buckets; `LimitSpec` is checked, and proved, as its abstract specification. What a search visits (`Chain`) is the least set with the
head in it and, after each bucket, the next one. A request charges its address and, if that
had room, the bucket of its kind (`outboundLeakyBucket`, or the one for bad rcon passwords). `debt` is a
history: each request that passes adds one period, each millisecond takes one off.

**`ScriptThreads`** - `d` holds the threads and all lists that mention them (`m_NotifyList`, `m_WaitForList`,
`m_EndList`, the timer's list with its dirty flag and time, the timeouts in the event queue); `stack` is the C++
stack: a `vm` frame is a thread that executes, a `wake` frame the list of threads that an announcement still has to
tell, a `running` frame `Director::ExecuteRunning`. A command of the innermost thread is any of those that
change this state: waiting for time, for names of listeners (one name, all, any, with or without a timeout), for
another thread (`waitthread`), for a move; announcing; deleting a listener; `endon`; starting a thread; ending. A thread that
is deleted while it executes is only marked, as `ScriptVM` does, and goes away when its frame returns. `phase` is the
order of `G_RunFrame`: events, animations with scripts paused, then the threads.

Abstractions common to `ServerCommands` and `ClientCommands`: formatting, wording and the entities of a snapshot are left
out; a multiplayer server in a release build (`NDEBUG`); `sv_pure 0`; no download in progress; one client (the
`client_t`s are independent in these operations). The XOR encoding of `SV_Netchan_Encode/Decode` and `CL_Netchan_*` is
modelled by its key, the command the acknowledgement names: a packet is readable when both sides pick the same command.

## 3. Runs

Every module is checked on instances small enough to be exhausted and large enough that the interesting cases
occur.

| Run | Bounds | Shows |
|---|---|---|
| `sv_netchan` | 3 messages with lengths 0, 2, 3, 4 and fragment size 2: empty, exactly one and two fragments, short last fragment | sequence numbers (and so content and order), refinement of `MessageChannel`, and that everything is sent |
| `server_messages` | 6 messages, gamestates of two fragments, snapshots of one or two, 2 server ids, ring of 4 frames with a slack of 1 | a gamestate is sent again only if it was lost, and client and server mean the same base, although numbers are taken before the queue gives them |
| `server_commands` | ring of 2, two maps, 2 changes, 4 messages, 2 in flight, replacement on | `SnapshotGuarantee`, `ExecutedAsIssued`, `ConfigstringsCurrent`, `KeysAgree`, `NoNeedlessGamestate` |
| `server_commands_pieces` | ring of 3, half a message holds 2 commands, long strings, no replacement | commands left out of messages, of which a snapshot overtakes one at most; the ring across overflow; pieces |
| `client_commands` | ring of 3 used twice and overrun, 2 in flight each way | at-most-once, order, what an overrun overwrites, commands before moves, keys, and arrival |
| `download` | four files (one and two blocks, one the client cannot create, one refused), window of 2, shorts of 8 values, ring of 5, 2 in flight | files intact, and all of them arrive |
| `connection` | 1 client, 2 slots, 2 challenges, new maps; messages arrive in the frame they were sent or are lost | one slot each, zombies end, a client that is out notices, attempts end, the gamestate arrives |
| `connection_shared` | 2 clients, 1 slot, 1 challenge, maps and restarts, denial and kicks; messages one frame late and repeated | no old gamestate for a new connection, the game's players are those in the slots, and those whose reconnect was denied |
| `snapshot` | `PACKET_BACKUP` 4, 10 server and 8 client entities, 6 messages, 2 server ids, 2 in flight; views of 3 entities, and of 2 after 3 of other clients | snapshots intact, deltas from known frames, one map |
| `leaky_bucket` | 3 addresses (two of one hash), 2 buckets, burst 2, period 2, a clock of 14 values that wraps and is set back | chains exact, limit holds, no wrong refusal, refinement of `RateLimit` |
| `script_threads` | 2 threads, 2 objects, 2 names, delays 0 and 1, one command of each thread before it has to wait | no thread forgotten, used after deletion, or overlooked by the timer; scripts paused; a timeout ends its own wait |
| `restart_no_gamestate` | that of `connection`, with restarts in place of new maps | expected to fail: the disagreement of section 5 |

`CHECK_DEADLOCK FALSE` where the bounds (messages, changes, maps) end every behaviour: `sv_netchan`,
`server_messages`, the runs of `ServerCommands`, `client_commands`, `download`, `snapshot`. The others go on for ever within bounded times, and are
checked for deadlock. `connection_shared`, `leaky_bucket` and the script threads use symmetry of clients, of
addresses of one hash, of threads and objects; those runs check no liveness.

Why the bounds are enough for what they show. *Rings:* with a ring of 2 or 3 and sequences up to 6 every slot is
reused and the overflow test is reached from both sides; `snapshot` uses each of its four circular buffers twice, and
its views differ by an entity added, one removed and one changed. *Messages:* 4 are gamestate, lost gamestate,
gamestate again and a snapshot; 2 in flight let one be lost, delayed or overtaken. *Maps:* two make old and new
`serverId` meet. *Downloads:* the short file fits into the window together with its empty last block, so that it is
complete before the window moves, and the long one makes a buffer be used again; 2 in flight let a block sent again
meet the next file. *Connection:* a client alone can own a slot and ask for another, with an older challenge; two
clients for one slot take it from each other, and one challenge is wiped by the other's request. *Buckets:* more
addresses than buckets force reclamation from another chain; a burst of 2 has room for one, and is full after two.
*Numbers:* six messages allow a
delta after a gamestate that was queued behind a long snapshot, a gamestate sent again, and a ring that comes round.
*Threads:* one announces and one is told, which deletes, wakes or makes wait again the first; `NoThreadForgotten`,
`OnlyLivingThreads`, `DueIsDirty`, `PausedScriptsWait` and `TimeRunsForward` were also checked with three threads, one
object, one name and two commands each (3.4 million states), where the one told meets a third still to be told.

What they do not show: three maps, ring sizes where a command is two rings old, several indexes of configstrings at
once, three threads that wait for several names each, three maps with a queue.

*Fairness.*

* `sv_netchan`: weak fairness of `SV_Netchan_TransmitNextFragment`, since `SV_SendQueuedPackets` calls
  `SV_SendQueuedMessages` in every pass of the main loop until nothing is left (`SV_RateMsec` delays only).
* `client_commands`: weak fairness of `CL_WritePacket` and `SV_SendMessage` (each side sends in every frame:
  `CL_SendCmd`, `SV_SendClientMessages`) and strong fairness of receiving on both sides: the network does not lose
  everything. None on adding commands or dropping clients.
* `download`: weak fairness of `SV_SendDownloadMessages` (`SV_SendQueuedPackets` calls it in every pass of the main
  loop) and of `SV_ExecuteClientCommand` (commands arrive: `EveryCommandArrives`), strong fairness of receiving each
  block that is sent again and again, and a gamestate. None on the snapshots and drops.
* `connection`: weak fairness of `SV_Frame` (`Com_Frame` calls it for ever) and of `CL_CheckForResend` (called by
  `CL_Frame`), strong fairness of receiving each kind of message that is sent again and again. None on connecting,
  leaving, crashing, kicks or maps.
* The other specifications state safety only.

## 4. Proofs

**`ServerMessagesProofs`** proves, of `SvNetchan`, for every set of messages, length function, fragment size and number of
messages:
`TypeCorrect`, `ChannelSequence` and `Refinement` (`Spec => ChannelSpec`), and with them `ChannelIntegrity` and
`ChannelOrder`. The only assumptions are those on the constants: a positive fragment size, lengths up to `MAX_MSGLEN`,
and a value `NoMessage` that is no message.

None of the invariants is inductive alone: integrity speaks of messages handed up, and what can be handed up
next depends on the fragments in flight, on the part rebuilt and on the sender. `IInv` names, for each of
these, *the message it belongs to*: with `Started` the number of messages that left the queue,

* `SendInv`: `handed` is what was started followed by the queue; `transmitted` pairs each number up to
  `Started` with `handed` at that number; a message half sent is `handed[outgoingSequence]`;
* `NetInv`: a datagram with sequence `s` carries bytes of `handed[s]`, a fragment exactly those that
  `NextFragmentLength` cuts at its offset;
* `RebuiltInv`: the fragment buffer is a prefix of `handed[fragmentSequence]`;
* `ReceivedInv`, `ReceivedStarted`: what was handed up is `handed` at its number, numbers grow and stay at or below
  `incomingSequence`.

The step that matters is a fragment that continues the part rebuilt (`AcceptedPiece`): prefix plus next bytes is
a longer prefix (`BytesConcat`), and a fragment shorter than `FRAGMENT_SIZE` ends its message
(`FragmentBounds`), so what is handed up is the whole of it. `Refinement` follows: each step is a `Send`, a
`Receive` or a stutter of `MessageChannel`.

Of `ServerMessages`, which composes the channel, the same module proves, for every ring size, all sets and lengths of messages and any number of maps,
`GamestateResentOnlyIfLost` (`SpecMessages => ResentOnlyIfLost`) and `DeltasHaveTheirBases` (`SpecMessages =>
[]DeltaBasesAgree`), and `MessagesUseChannel`: every behaviour of the composition is one of `SvNetchan`, so that what is
proved of the channel holds of it. `UpperInv` contains `IInv` of the channel and says:

* `OneWaits`: at most one message waits in the queue, the last gamestate. A snapshot goes out only when nothing waits, and
  a gamestate only when the packet acknowledges more than `gamestateMessageNum`;
* `RecordedAtMostOneLow`: hence the number recorded is too low by one at most, and an acknowledgement greater than it
  covers the gamestate (`GamestateFollows`). Were two messages able to wait, this would not hold;
* `IdsGrow`, `KnowsGamestates`: ids grow with numbers, and a client that has received a gamestate says so in the packets
  that acknowledge it. A packet that acknowledges the gamestate and names an older map means that it was lost.

For the deltas, `DeltaInv` says that the bases asked for are snapshots (`BasesAreSnapshots`), that a snapshot is in the
frame of its number until the ring comes round (`FramesHold`; two numbers less than a ring apart have different
frames, `FramesDiffer`), and that what is written is what was built (`BasesAgree`). The last rounds of `SV_FinalMessage`
fill the wrong frame when something waits, and are harmless only because nothing that waits is sent any more.

**`ServerCommandsProofs`** proves, for every size of the ring and of a message, every set of configstrings and of long
strings, any number of maps and any number of messages in flight: `RingIntact` (`RingHoldsUnacknowledged`),
`CommandsExecuted` (`ExecutedAsIssued`), `GamestatesNeeded` (`NoNeedlessGamestate`), and `ServerKeys` and
`CommandsBeforeSnapshot`: `KeysAgree` and `SnapshotGuarantee` *until a message leaves out commands*, as none does in the
run `server_commands`. Once one does, both can fail: the third disagreement of section 5 is a counterexample to
`SnapshotGuarantee`, and for `KeysAgree` there is one with a ring of 3, `MaxWritten` 0 and two maps. What is left of the
guarantee then is proved without a condition: by `SnapshotsOvertakeFew` (`SnapshotOvertakesFew`) a snapshot overtakes at most
`Unsendable` commands, those of a full ring that do not fit in half a message. The bound counts commands of unit length, of
which half a message holds `MaxWritten` and the one that passes the half; `server_commands_pieces` reaches it. `CommandsExecuted` holds
of commands that were left out too, which TLC also found on the instance of that run.

A step of the server concerns commands that the client will execute several messages later, so the invariant `IInv` says
what there is in between:

* `RingOK`: the server's ring holds its newest `MAX_RELIABLE_COMMANDS` commands as they were issued; the ring of a dropped
  client, whose numbers went back, holds those not acknowledged. Every operation that adds commands is shown to keep it, from one
  command (`StoreOK`, `ReplaceOK`, `DropOK`, `AddOK`) to the loop over all configstrings (`UpdateConfigstringsOK`), together
  with `Evolves`: what was sent is not changed any more;
* `SequenceInv`, `GamestateInv`: a client that has the current gamestate, and the packets under way from before it had
  it, acknowledge no message later than `gamestateMessageNum`;
* `InFlightInv` (`Carries`): between the client and the commands of a message in flight there is no gap, whichever of
  the messages before it are lost; messages made after a drop come last;
* `MessagesInv`, `PacketsInv`, `HoldsInv`, `CGameInv`, as long as the client was not dropped: what messages carry, what the client's
  ring holds since its gamestate and what the cgame executed are what was issued under these numbers, and every key is that of its
  number;
* `SnapshotInv`: snapshots in the client came with the commands added before them, unless a message left out some, and then
  with all but `Unsendable` of them.

All but the first two lines hold while no packet was found out of range (`illegible`). The actions are sorted into four kinds, each shown once to keep
`IInv`: those that only change the queue and may take packets (`QueueStep`), those that send a message (`SendStep`), the
parsing of a message, and the cgame's commands. The recursion of `SV_UpdateConfigstrings` and `CG_ExecuteNewServerCommands` is dealt
with by induction over sets of numbers, which the module derives from well-foundedness (`Induction`, `Recursion`).

What the commands *do* is proved on top of this. `ConfigstringsAreCurrent` states `ConfigstringsCurrent` for `LongString = {}`, as in the
run `server_commands`; `PiecesAreCurrent` states `ConfigstringsCurrentUnlessDeferred` for any long strings without `MOHTA`, as in
`server_commands_pieces`. The conditions are needed: without them disagreements 1 and 2 of section 5 are counterexamples. Both follow from
one invariant, for `Orderly` (no long strings, or no replacement) while nothing was found out of range and, with long
strings, nothing was deferred (`Plain`). The notion it is made of is `Leads`: the commands issued after one number up to another turn
one value of a configstring into another, the last that gives it deciding. It composes and can be cut (`LeadsOn`, `LeadsRest`),
and what it leads to is unique (`LeadsSame`). The two passes of `CG_ExecuteNewServerCommands` lead to what one would
(`ExecutedSets`), as pieces of a string follow one another (`Pieces`) and no number at which execution stops lies between them (`Ends`).

* `MapInv`: once a client has the current gamestate, or is said by a packet to have it, no other is under way, and no snapshot follows a gamestate in flight;
* `ServerInv`, while the client was not dropped: from the configstrings of the cgame, and of each gamestate of this map in flight, the
  commands issued since lead to the server's own (`Current`), except for indexes flagged in `csUpdated`, which
  `SV_UpdateConfigstrings` still sends. With replacement on, at most one command per configstring waits unsent (`OnePending`), so a
  new value takes the place of the newest one, and what was sent stays as it was (`AddIs`, `SendBrings`, `UpdateBrings`);
* `StoryInv`: there is a sequence of commands, what was issued until the client was dropped if it was, that leads from the
  cgame's configstrings to those recorded with each snapshot in flight (`FlightInv`) or received (`ListInv`), and that the
  client's ring holds as far as it may still be executed. It is existential because dropping cuts off commands the client may still get.

**`ClientCommandsProofs`** proves, for every ring size, every fragment size and any number of commands and of messages
in flight, the safety properties of `client_commands`: `ClientRing` (`OnlyOldestOverwritten`), `ClientOrder`
(`ExecutedAsAdded`), `ClientMoves` (`CommandsBeforeMove`) and `ClientKeys` (`KeysAgreeWithinRing`), with
`ClientTypeCorrect`, from `ClientCommandsAssumption` (positive constants). All but `ClientMoves` hold of a ring that was
overrun too, and say what becomes of the command it loses. That a command is executed at its
place depends on what the packets in flight carry, and this on the ring at the time they were written, so
`IInv` consists of:

* `RingInv`: the ring holds its newest `MAX_RELIABLE_COMMANDS` commands, unconditionally. It rests on `SlotsDiffer`:
  two numbers less than a ring apart have different slots;
* `FlightInv`: the types of the messages in flight, and numbers that exist on the other side;
* `Recorded`, also unconditionally: at most one command more than slots is unacknowledged (`WindowInv`), which is what the
  overflow test gives; every command in a packet is the one of its number, or the one a ring newer that overwrote it
  (`Carries`), and so is every command executed (`ExecutedInv`); the newest of a packet never is overwritten, so that
  the key the server encodes with is the command it acknowledges (`KeysInv`);
* `InStep`, as long as `most <= MAX_RELIABLE_COMMANDS`: at most `most` commands are unacknowledged; every packet's
  commands are the numbers after one the server has already executed, up to its move (`Faithful`);
  acknowledgements in flight are in order and not below the one the client has (`AcksInOrder`), hence the branch
  for an acknowledgement out of range is never taken.

The step that matters is `SV_ExecuteCommands`: its two choices are the ends of an interval (`NewCommands`,
`Executes`), which continues what was executed (`ExecutePreserves`).

**`RateLimitProofs`** proves `RateIsBounded` (`LimitSpec => []RateBound`) for every set of addresses and buckets, every
burst, period and width of the clock that leaves the burst expressible: what an address got in a burst never exceeds
the burst ahead of the rate. `debt` alone is no invariant: what bounds it is the bucket that remembers it. `IInv` says
that a holder's debt, and the time since the `lastTime` of its bucket, fit together under what the bucket's fill stands
for (`Covered`), that an address has one bucket at most, and that an address without one owes less than a period.
Draining removes whole periods and moves the time back by the remainder, which loses nothing (`DrainArithmetic`,
`DrainCovers`); a bucket reclaimed had expired (`AllocationKeeps`); the clock is a remainder modulo `2 * Half`, so that
differences are those of the true times (`ModShift`, `Int32Of`, `IntervalOf`, `IntervalLater`). When it is set back
the account `debt` starts again (`SetBackKeeps`): the code promises no more.
`RateIsGranted` (`LimitSpec => []NotOverLimited`) is the converse: what a bucket holds is owed. `BackedInv` bounds
each level by the debt of its holder plus the time since `lastTime` (`Backed`), and the same arithmetic, read the other way, keeps
it (`DrainBacks`, `ChargeBacks`, `AllocationBacks`). It assumes `MaxTime < 2 * Half`, time that stays within one turn
of the clock: after 2^32 milliseconds (49.7 days) without a request the interval of a bucket is small again, and its old level
counts as if it had been filled just now. The first theorem has no such assumption.

For the hash chains of `LeakyBucket` the module proves `ChainsAreExact` (`Spec => []ChainsExact`) and `ChainsImplementLimit`
(`Spec => LimitSpec`), for every hash function and number of buckets; the two theorems above hold of the chains by it
(`ChainsBoundRate`, `ChainsGrantRate`). `ChainInv` speaks of no sequence of buckets and needs none: the links go both
ways within a hash (`NeighboursOK`), a head has no bucket before it (`HeadsOK`), and every set that contains the
head and, with a bucket, its next one contains all buckets in use with the hash (`Reached`), which is how the search of the
code comes to them. `SVC_BucketForAddress` reclaims a bucket and links it in one go, to another chain as a rule; the lemmas take
the two halves apart: a bucket leaves the middle, the head or the end of a chain (`BucketLeaves`), one in no chain becomes
a head (`BucketJoins`). Then `FoundIsExact` says that the search finds the bucket that holds the address, and each
step is one of `RateLimit`.

**`SnapshotProofs`** proves `SnapshotsAreOfTheMap` (`MapAgrees`) for any number of maps, restarts, messages and
entities, any sizes of the buffers and any loss. The server sends snapshots when the last server id it heard of is
current (`Acknowledged`), so the invariant is about ids: one that still counts (`>= restartedServerId`), in the
client, in a packet or in what the server remembers, means that the client has the server's map already (`Known`); and a gamestate in
flight is followed only by gamestates of its map or later ones, and by snapshots of its map (`InOrder`), which
makes the invariant survive the loss or the skipping of any of them (`SentFlight`). A new map makes all ids stale at once,
a restart makes only the older ones stale, which one lemma shows for both (`LevelStep`).

`DeltasFromKnownFrames` (`DeltaFromKnownFrame`) rests on a second invariant, `DeltaInv`, which follows the number of a snapshot
from the client, which asks for deltas from it, through a packet into `deltaMessage`, and from there into a message. At
each place the snapshot is still where the client keeps it, or the message that reuses that place is one that cannot
arrive before (`Held`, `OnItsWay`, `Asks`, `Remembered`). The hard part is a gamestate in between, for which the client
clears its snapshots while packets and `deltaMessage` still name them. It is repeated only when one past the last was
acknowledged, so one at most is on its way; while it is, the client has not the server's map and cannot ask for
deltas of it (`NotYet`); and no delta follows it until the client has asked again. The theorem holds of any `Slack`, also 0.

`SnapshotsAreIntact` (`SnapshotsIntact`) is about what is in the buffers, and holds for any sizes of the three and any `Slack`
if no more entities are new at once than the client leaves room for (`FewNew`). Its invariant `SnapInv` compares the two sides
for each snapshot the client has or is being sent: in the server's frame of its number are the entities that were
sent, until the frame or the first entity may have been used again (`Remembers`); the client's buffer has them as long
as the first of them may not have been overwritten (`Stands`, `InBuffer`); and a message on its way has what turns the client's
snapshot into the server's (`Built`). What is in the buffers is a list in the order of entity numbers, and
`Sorted` picks the only such order of the numbers (`SortedIs`). The hard lemma is the merge of
`CL_ParsePacketEntities`, which reads and writes one buffer (`ParsedList`): after each step what was read of the old list and
of the delta, and what was written, are the parts of three lists below one number (`Merged`), so that what was written is
ahead of what was read by no more than the entities that are new, and by `FewNew` does not reach what is still to be read. A gamestate empties the client's snapshots, and a new map the server's buffer, while messages of the old map
are on their way: `Remembers` claims nothing until the client has the server's map.

**`DownloadProofs`** proves `FilesAreIntact` (`FileIntact`) for any files, numbers of blocks, ring of commands and number
of messages in flight, from `DownloadAssumption`, in which the window is not longer than the block numbers (48 and 65536), and
`DistinctPaks`. `FileIntact` speaks of the client's files; what decides about them is a message whose number is right and
whose contents are of another block. Such messages exist: `downloadXmitBlock` may be behind `downloadClientBlock` when
acknowledgements come late, and the buffer of the block it names has been read again by then. `Right` says of which blocks
that can be true: of those the client has (their number is below the one expected), while a block it has not has the
contents its number says and is less than a window ahead, so that the short it is sent as is taken for no other
(`ShortTells`). To know what the client has, the server's part must be compared with the client's *through the commands in between*:

* `Going`: the commands not executed are the `nextdl` of the last blocks, so that `downloadClientBlock` is the block the
  client expects less their number, and "broken download" is not reached in this way; `Window`: the buffers hold what was
  read, as far as a window back from the last block read;
* `Asked` and `Begun`: before that, the request is the client's last command, or executed; nothing of the file has been read or sent yet;
* `StillMissing`: so it is for each file the client still misses, or is yet to ask for (`Untouched`);
* `Restarting`: one `donedl` or one gamestate is on its way at most, and only when nothing is left to download, so that no
  gamestate starts the downloads again in the middle of one.

Received messages take the acknowledged commands from both sides (`ForgetSync`); then a block is taken (`AcceptStep`), a
file ends and the next is asked for (`NextSync`), or the files are compared again (`InitDownloadsStep`). The server executes commands
(`PassSync`, `BeginSync`), closes a download (`CloseSync`), or reads and sends (`ReadWindow`, `BlockFits`). TLC shows that the
invariant does not hold of a window longer than the block numbers. `DistinctPaks` says that the server lists each file once.
`FS_ReferencedPakNames` lists a pak found in two directories twice, and its client downloads it twice; TLC has found no
broken file in this case on instances of the size of `download`, but the proof does not cover it, since blocks of the first time are
then blocks of a file still missing.

**`ConnectionProofs`** proves `ClientsHoldOneSlot` (`OneSlotEach`) and `GameKnowsItsPlayers` (`GameAgrees`) for any number
of clients, slots and challenges and any lifetime of messages. The inductive invariant is `Typed /\ OneOwner /\
GameAgrees /\ AbandonedAreFree`. `abandoned` is a history of the slots that came free because the game denied their client a
reconnect, of which the game is not told: in them, and in no other free slot, it still has a player, until somebody gets
the slot. Almost every action changes a slot in one of a few ways: it stays, it becomes a zombie with the game
told, it comes free, or its state grows. `TameStep` says this of every slot, is shown once to keep the invariant
(`TamePreserves`), and for each action but an accepted connect it remains to say that it is tame. `AcceptStep` gives a slot an
owner: its reconnect branch takes the owner's slot, and it comes to the free slots only when there is none.

`FirstPacketsForceGameState` (`FirstPacketForcesGameState`) needs a bound on the network, `Prompt`: no message lives longer
than half of `sv_reconnectlimit`, `sv_zombietime` and `sv_timeout` (1.5, 1 and 60 seconds with the defaults). What could
go wrong is a copy of an earlier `connect` that arrives while its client is in the game, and gives it a new
`client_t`. `TimesInv` says that it finds the old one, and too young: the client took the answer to a connect
that was accepted while that answer was on its way (`AnswersAreOfNow`), and had sent this copy before, so that the slot
is at most two lifetimes old (`OldConnects`); and what was heard of it is no older (`HeardSince`), so that the slot
was not freed for silence. Most actions touch neither (`Calm`). TLC shows that the first bound is needed: with
`Lifetime` 2 and `sv_reconnectlimit` 3, or 1 and 2, the property is violated (number 12 of section 5).

**`ScriptThreadsProofs`** proves six properties for any threads, objects and names. `ScriptsArePaused`
(`PausedScriptsWait`) needs the stack only: `PausedInv` says that while scripts are paused it is empty, or holds the
list of one announcement from an animation, all of whose threads are stopped; `Unregister` and what follows it push
no other frame before `phase` changes.

`ReferencesAreAlive` (`OnlyLivingThreads`), `DueThreadsAreSeen` (`DueIsDirty`) and `TimeoutEndsItsWait`
(`TimeoutOfThisWait`) come out of one inductive invariant, `ListInv`: a listener has a thread in its list for a name
exactly when the thread has that name of that listener among what it waits for (`Registered`); nothing is left of a
listener that was deleted (`Living`); the timer has each thread that waits for time once and no other
(`TimerAgrees`), and is dirty as soon as one of them is due (`TimerDirty`); a thread that waits for listeners is
`SUSPENDED`; a timeout is one of the present wait of its thread, or of a thread that is in a list being told
(`Timeouts`); and the wait of parents for the end of their children (`waitthread`) has no cycle (`Parents`). The last is
the least obvious. Deleting a listener deletes those who wait for it, and children nobody waits for any more, and so on
(`Doomed`, a least fixed point): a thread which gives up its wait would delete itself if it were among its own ancestors
(`Survives`), and the code that runs on after `CancelWaitingAll` would use what it has deleted. Each operation of the data
has a lemma that it keeps these facts (`DeleteLists`, `CancelAll`, `StopWaiting`, `TimedKeeps`, `RegisterFacts`,
`EndedFacts`, `AnnouncedFacts`, `TakenKeeps`: `Keeps(r, s)`), and each action is then a `Keeps` and a change of the stack
which leaves the lists that are being told (`SameWakes`), adds one or takes its first thread (`RestFacts`).

`NobodyIsForgotten` (`NoThreadForgotten`) needs a second invariant, `RunInv`, that relates the threads to the frames of the
stack. No thread has two frames (`Single`); a thread whose frame is further out is neither in a list that is being told nor
there when `ExecuteRunning` takes threads from the timer (`Ordered`); and each thread fits its place (`Fits`): its machine
is `RUNNING` or `SUSPENDED` when it is on the stack and ready (`EXECUTION`) when it is not, it runs exactly when the thread
does, a suspended thread that waits for nothing is in a list being told, and a thread which has called others waits at
most for their end. The last is what keeps the stack sound: only the innermost thread gives commands, so a thread further out
can wait for the end of one it called, but never for a name, and no announcement can run it a second time. It is
also why the last branch of `StoppedWaitFor`, for a machine that is not ready, is never taken. The operations of
the data leave the other threads `Undisturbed`, put one to sleep (`Sleeps`) or start one (`Starts`), and the stack is pushed
(`PushedPlaces`), popped or has its innermost frame replaced.

`ThreadsRunInOrder` (`TimeRunsForward`) is about the loop of `ExecuteRunning`, which sets the time of the level to that of each
thread it takes. Between two threads of one loop a script may put others into the timer, and may call code
that calls `ExecuteRunning` again, whose end would set the time of the level back if it had run a thread itself. `TimeInv` says that while a call that has
run a thread is on the stack, nobody in the timer is to run before the time of the level (`Late`), and that such a
call is innermost or is followed by the run of a thread (`Followed`). By the second, a nested call takes no
thread: it begins only when `stackCount` is 0, and `NobodyRuns`, from `RunInv`, turns that into no run on the stack. Hence there is only
one such loop (`OneLoop`), and when it ends none is left that `Late` would have to hold for. Operations of the data
leave the time, and the timer no earlier (`OnTime`); the thread taken next is the earliest (`NextOnTime`).

Lists are filtered by a recursive function (`Kept`); as induction theorems with an operator parameter cannot be used, `Least`,
`Induction` and `Recursion` derive induction on sets of numbers and the existence of recursive functions from the
well-foundedness of strict inclusion, and the facts about `Kept`, `SetToSeq` and `FlattenSeq` from these.

Only model-checked: liveness, which is beyond the prover. Every safety property and every action property the passing runs
check is stated by a theorem, under the conditions named above.

Every inductive invariant was checked with TLC on the instances of section 3 before it was proved.

Some definitions state properties that no run checks. `TypeOK` of every module says what its variables hold; those of
`SvNetchan`, `ServerCommands` and `ClientCommands` are proved (`TypeCorrect`, `CommandsTypes`, `ClientTypeCorrect`).
`Integrity` and `InOrder` of `Netchan` follow from `SequenceIsOrderHanded` and are proved. `AcknowledgeMatches` and
`GameStateFollows` of `Download`, `DisconnectDelivered` of `ServerCommands`, `RestartsCaught` of `Snapshot`, `WokenByAny` and `WaitsUntilAnnounced` of
`ScriptThreads` and `FinalMessageIsSent` of `ServerMessages` are claims of the comments which the code does not ensure.

## 5. Where the code and its comments disagree

One has a run in which TLC finds the behaviour, and an entry in `findings`:

* **`GameStateArrives`, run `restart_no_gamestate`.** `SV_MapRestart_f` makes every client it finds `CS_CONNECTED` or
  better `CS_ACTIVE`, one that has not received its gamestate included. `SV_ExecuteClientMessage` sends a lost gamestate
  again only to clients that are not `CS_ACTIVE`, so that a client whose gamestate is lost stays `CA_CONNECTED`. In
  the run `connection`, with new maps in place of restarts, the property holds.

The others TLC finds under the constants given here, starting from the `.cfg` of the module's first run, with the property
named in place of those of the run:

1. **`ConfigstringsCurrent`, repeated pieces** (ring 4, `MaxWritten` 0, `ConfigString` and `LongString` `{1}`, `MOHTA` FALSE,
   `MaxChanges` 1, `MaxMessages` 3, `MaxServerId` 1). `CG_ExecuteNewServerCommands` fetches each command
   twice, `CL_GetServerCommand` appends pieces of a long configstring to a static buffer each time. If the
   first piece arrived with an earlier snapshot, the second pass appends to a finished string.
2. **`ConfigstringsCurrent`, stale value** (ring 4, `MaxWritten` 2, `LongString` `{2}`, `MaxChanges` 3, `MaxMessages` 3,
   `MaxServerId` 1). `SV_ReplacePendingServerCommands` puts a new short
   value into the slot of an older `cs`, in front of a longer value queued in pieces meanwhile. The client ends
   with the older one.
3. **`SnapshotGuarantee`, half a message** (ring 2, `MaxWritten` 0, `MaxMessages` 3, `MaxServerId` 1). Commands deferred
   because half the message is full are executed after the snapshot of that message, though "guaranteed to not have
   future snapshot_t executed before it is executed".
4. **`DisconnectDelivered`, dropped** (ring 2, `MaxMessages` 3, `MaxServerId` 1). Dropping rewinds `reliableSequence` to what
   was acknowledged; a client that has received more ignores the print and the `disconnect`.
5. **`EveryCommandArrives`, long packets** (`FRAGMENT_SIZE` 2, `MAX_RELIABLE_COMMANDS` 4, `MaxCommands` 2). The client never
   calls `CL_Netchan_TransmitNextFragment`: of a long packet only the first fragment leaves, and the next packet is as
   long.
6. **`AcknowledgeMatches`, confused files** (two files, none refused; ring 4). A block carries a number but no file. When a
   file fits into the window and the window is sent again because the acknowledgements are late, a client that has
   completed the file and begun the next one takes block 0 of the old file for block 0 of the new one; the server drops
   it with "broken download", or, if it has opened the new file by then, the new file has a block of the old one.
7. **`GameStateFollows`, gamestate after a download** (the same). The gamestate that answers `donedl` is sent once. The
   client knows the current `serverId` already, so the branch of `SV_ExecuteClientMessage` that resends a lost gamestate
   is never taken, and the client waits in `CA_CONNECTED`.
8. **`RestartsCaught`, two restarts** (`MaxServerId` 3). "use a comparison here to catch multiple map_restart", says
   `SV_ExecuteClientMessage` (`sv_client.c:2140`) of ids from `restartedServerId` on. But every restart moves
   `restartedServerId` to the id just before it (`sv_init.c:739`), and `SV_SendMessageToClient` sends snapshots only for the
   last two ids. A client that is still to read its first gamestate when the map is restarted twice is `CS_ACTIVE` with
   an id older than both: it gets neither snapshots nor a gamestate.
9. **`WokenByAny`** (1 thread, 1 object, 2 names, one command). `waittill_any` is documented as "Wait until any event of
   type name" (`listener.cpp:336`), and registers the thread for each of the names. `UnregisterTarget`
   (`listener.cpp:4205`) reports the thread as free when it waits for nothing else: it waits until all have been
   announced.
10. **`WaitsUntilAnnounced`** (2 threads, 1 object, 1 name, one command). `Unregister` collects the threads to wake and wakes
   them one by one (`listener.cpp:4081`). If the first of them makes the second run through the Director, the second may
   wait for the same name again, and is then resumed (`scriptthread.cpp:2456`) by the announcement from before.
11. **`FinalMessageIsSent`** (`MCServerMessages.cfg`). "The messages are sent immediately, not just stuck on the outgoing
   message list, because the server is going to totally exit", says `SV_FinalMessage` (`sv_init.c`). But
   `SV_SendClientSnapshot` ends in `SV_Netchan_Transmit`, which queues a message as long as fragments of another are
   unsent, and the queue is freed at shutdown: a client that is being sent a gamestate gets no final message, and the
   second round of two gets stuck when the first one is long.
12. **`FirstPacketForcesGameState`, a late connect** (`MCConnection.cfg` with `Lifetime` 2). "When we receive the first packet
   from the client, we will notice that it is from a different serverid", says `SV_DirectConnect` (`sv_client.c:684`) of the
   client that gets a `client_t`, "forcing a retransmit". A copy of its `connect` that arrives more than
   `sv_reconnectlimit` after it was accepted gives a client in the game a new `client_t`, if its challenge is still known; its packets name the current
   server id, no gamestate is sent, and its slot stays `CS_CONNECTED`.
13. **`SnapshotsIntact`, many new entities** (two views, of the entities 1, 2 and 3 and of 3 alone; `numSnapshotEntities` 16,
   `MAX_PARSE_ENTITIES` 5, `Margin` 1, `InFlight` 1, `MaxServerId` 1). "If the frame is delta compressed from data that we no
   longer have available, we must suck up the rest of the frame, but not use it", says `CL_ParseSnapshot`
   (`cl_parse.cpp:303`), and leaves 128 places of `parseEntities` for the new list, which is written while the old one is
   read. When more entities than that are new at once the old list may be overwritten before it has been read, and the
   snapshot is kept as valid. A snapshot has up to 1024 entities. `SnapshotsAreIntact` proves that this is the only way.

Found while reading, without a counterexample of their own:

* `SVC_BucketForAddress` reclaims a bucket only if `lastTime > 0` (`sv_main.c:398`): one last used when the clock, as an
  `int`, was negative is never reclaimed.
* The challenge in a `connectResponse` is not compared with the client's, and a late `connect` can connect the
  client again; `sv_reconnectlimit` (`sv_client.c:684`) is the only guard.
* A client that is `CA_CHALLENGING` with a challenge the server has wiped goes on sending it; only the user ends that.
* When `ClientConnect` denies a *re*connect, the slot was overwritten before; the game is not told that the player left.
  `GameAgrees` of `Connection` states which slots this leaves with a player and no client.
* "if we would be losing an old command that hasn't been acknowledged, we must drop the connection", says
  `CL_AddReliableCommand` (`cl_main.cpp:243`), and tests `>` where `>=` is meant: one unacknowledged command can be
  overwritten before the overflow is noticed, and the server executes the newer one twice, in its place and in its own.
  `OnlyOldestOverwritten` and `ExecutedAsAdded` of `ClientCommands` state how far this goes.
* `SV_DropClient` wipes the first challenge of the client only; `SV_KickAll_f` refreshes `lastPacketTime` of zombies.
* `cl_parse.cpp:265` says of a snapshot that cannot be used "no changes to the state will be made at all", but
  `parseEntities` moves on; and `PACKET_BACKUP` frames fit into it only if snapshots are small, as the test in
  `CL_ParseSnapshot` knows and the comment in `client.h:95` does not.
* `delete` is documented as "Removes this listener immediately", and posts an event (`listener.cpp:166`, `4421`).
* A thread stopped for executing too many commands stays `RUNNING` and is never run again.
* `dm_manager.cpp:1158` clears `g_tempaxiswinsinrow` twice, and not the allies' counterpart; `GetMatchStartTime` tests the
  allies twice, so that an empty axis does not reset the round; a round may start while the end of the last is
  pending, which reaches "no winner could be determined when there should've been"; `PlayerKilled` is never called.

Conditions in the passing properties that come from the source and are worth knowing:

* `KeysAgree` (server) holds in its run because no message leaves out commands there; after a deferral followed by
  a gamestate it does not.
* A client exactly `MAX_RELIABLE_COMMANDS` behind is taken for illegible and its window counted as acknowledged
  (`sv_client.c`, "fux0red").
* `KeysAgreeWithinRing` (client) is about messages that acknowledge a command less than a ring old. The slot of an older one
  was reused, so that a client which has a whole ring of commands outstanding reads the next message with the wrong key.
* `CommandsBeforeMove` is stated for a ring that was not overrun.
* `SnapshotGuarantee` and `KeysAgree` are checked where messages have room for all commands, and
  `ConfigstringsCurrentUnlessDeferred` until they have not (numbers 1 and 3 above).
* `EveryCommandArrives` is checked with packets of one fragment (number 5 above).
* `FilesArrive` excludes refused files, whose refusal is sent once, and files of 2^15 blocks or more, whose numbers
  no longer fit into the short they are sent as and compared with.
* `SnapshotsIntact` holds if at most `Margin` entities (128) are new at once; the constants of `snapshot` keep it.

## 6. Not modelled, and why

Renderer, sound, user interface, collision, skeletons, navigation, bots and game rules are floating-point
computation or data; the file system and the platform layer are I/O; GameSpy, curl, codecs and the like are
third party. The memory allocators are arithmetic on one heap with no protocol around them. The server frame, the
loopback queues and the deathmatch rounds are in the plan.

Left out of components that are modelled in part:

* *Connection:* port translation, bans, LAN and ping checks, `sv_privateClients`, protocol versions and the
  authorisation of keys, bots; `lastConnectTime` and `lastPacketTime` set 300 and 800 ms ahead.
* *Channel:* loopback and delayed packets, profiling, `SV_Netchan_FreeQueue`.
* *Server and client commands:* what commands do, flood protection, `sv_pure`, single player, messages that overflow.
* *Downloads:* redirection to a web server, a map change during the download.
* *Snapshots:* the player state, sounds, entities sent whole, who sees what (areas and PVS), the rate of snapshots
  (`SV_IsValidSnapshotClient` and its times), single player.
* *Script threads:* `pause`, `DelayExecute`, `waitexec` of a script class, waiting actors, exceptions and
  `MAX_STACK_DEPTH`, a name given twice in one `waittill`, `DisableListenerNotify`, `RemoveArchivedClass` and
  saved games; that a waiting thread is woken in the end, which depends on the scripts.

## 7. Plan

1. *Done:* `Netchan`, `SvNetchan`, `MessageChannel`; `ClientCommands`; both with proofs. `ServerMessages`, gamestates
   and snapshots over the queue: checked and proved. `ServerCommands`, `Download`, `Snapshot`, `Connection`, `RateLimit`,
   `ScriptThreads`: checked, their invariants proved.
2. *Proofs worth having:* `FileIntact` when a pak is listed twice.
3. `ServerCommands` and `Download` over the queue of `SvNetchan`, as `ServerMessages` does for gamestates and snapshots,
   with `SV_Netchan_FreeQueue` when a client is dropped while messages wait.
4. Deathmatch rounds (`dm_manager.cpp`), then the server frame with pause and the restart before the clock wraps.
