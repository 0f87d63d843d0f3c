----------------------------- MODULE Connection ------------------------------
(***************************************************************************)
(* How a client gets a slot of the server, loses it and gets it back:      *)
(* challenges and connects over connectionless messages that are lost,     *)
(* repeated and delayed (SV_GetChallenge, SV_DirectConnect,                *)
(* CL_CheckForResend, CL_ConnectionlessPacket), drops, zombies and         *)
(* timeouts (SV_DropClient, SV_CheckTimeouts, SV_PacketEvent).             *)
(*                                                                         *)
(* Time is counted in frames of the server; what the code compares with a  *)
(* limit is kept as an age, which stops growing at the limit.  Packets of  *)
(* the sequenced channel arrive at once or not at all.                     *)
(***************************************************************************)
EXTENDS Naturals, Sequences, FiniteSets

CONSTANTS
    Clients,            \* each is one address and one qport
    MAX_CLIENTS,
    MAX_CHALLENGES,
    MAX_CHALLENGES_MULTI,
    Numbers,            \* bound: the challenge numbers that can be in use
    RETRANSMIT_TIMEOUT,
    sv_reconnectlimit,
    sv_zombietime,
    sv_timeout,
    TimeoutFrames,      \* 5: frames of silence beyond sv_timeout
    Lifetime,           \* bound: the oldest that a message gets
    MayDeny,            \* whether the game may refuse a client
    MayKickZombies,     \* bound: without it nobody kicks whom was dropped
    LevelChanges,       \* bound: whether maps change, restart, or both
    NoClient, NoNumber

Slots == 1 .. MAX_CLIENTS
Places == 0 .. MAX_CHALLENGES - 1

ASSUME ConnectionAssumption ==
    /\ {MAX_CLIENTS, MAX_CHALLENGES, RETRANSMIT_TIMEOUT} \subseteq Nat \ {0}
    /\ {sv_reconnectlimit, sv_zombietime, sv_timeout, TimeoutFrames, Lifetime} \subseteq Nat
    /\ MAX_CHALLENGES_MULTI \in Places
    /\ {MayDeny, MayKickZombies} \subseteq BOOLEAN
    /\ LevelChanges \subseteq {"map", "restart"}
    /\ NoClient \notin Clients
    /\ NoNumber \notin Numbers

VARIABLES
    clc,            \* client -> state, challenge, age of its last request, gamestate
    slots,          \* slot -> client_t
    game,           \* slot -> whether the game has a player there
    abandoned,      \* history: slots cleared by a refused reconnect, not given away since
    challenges,     \* place -> challenge_t
    byAge,          \* the places in use, the oldest first (challenge_t.time)
    net             \* messages on their way, with their age

vars == <<clc, slots, game, abandoned, challenges, byAge, net>>

\* Messages to the server are from, and those to a client are for, "client".
Message(type, c, n) == [type |-> type, client |-> c, num |-> n, age |-> 0]
Messages ==
    [type : {"getchallenge", "connect", "challengeResponse", "connectResponse",
             "droperror", "disconnect"},
     client : Clients, num : Numbers \cup {NoNumber}, age : 0 .. Lifetime]

Free == [state |-> "FREE", client |-> NoClient, challenge |-> NoNumber,
         lastConnect |-> 0, lastPacket |-> 0, timeoutCount |-> 0]
NoChallenge == [client |-> NoClient, num |-> NoNumber, connected |-> FALSE]
Disconnected == [state |-> "DISCONNECTED", challenge |-> NoNumber,
                 sent |-> 0, gamestate |-> FALSE]

Init ==
    /\ clc = [c \in Clients |-> Disconnected]
    /\ slots = [i \in Slots |-> Free]
    /\ game = [i \in Slots |-> FALSE]
    /\ abandoned = {}
    /\ challenges = [p \in Places |-> NoChallenge]
    /\ byAge = <<>>
    /\ net = {}

\* A message that is sent again makes an older copy of it superfluous.
Sent(m) == {k \in net : [k EXCEPT !.age = 0] # m} \cup {m}

Older(n, limit) == IF n < limit THEN n + 1 ELSE limit
In(i) == slots[i].state \in {"CONNECTED", "PRIMED", "ACTIVE"}
LowestOf(S) == CHOOSE x \in S : \A y \in S : x <= y

-----------------------------------------------------------------------------
(* The client asks.                                                        *)

CL_Connect(c) ==
    /\ clc[c].state = "DISCONNECTED"
    /\ clc' = [clc EXCEPT ![c].state = "CONNECTING", ![c].sent = RETRANSMIT_TIMEOUT]
    /\ UNCHANGED <<slots, game, abandoned, challenges, byAge, net>>

Request(c) ==
    IF clc[c].state = "CONNECTING" THEN Message("getchallenge", c, NoNumber)
                                   ELSE Message("connect", c, clc[c].challenge)

CL_CheckForResend(c) ==
    /\ clc[c].state \in {"CONNECTING", "CHALLENGING"}
    /\ clc[c].sent = RETRANSMIT_TIMEOUT
    /\ clc' = [clc EXCEPT ![c].sent = 0]
    /\ net' = Sent(Request(c))
    /\ UNCHANGED <<slots, game, abandoned, challenges, byAge>>

-----------------------------------------------------------------------------
(* The server's challenges.                                                *)

NumbersInUse ==
    {clc[c].challenge : c \in Clients} \cup {slots[i].challenge : i \in Slots}
    \cup {challenges[p].num : p \in Places} \cup {m.num : m \in net}

Unused(p) == challenges[p].client = NoClient

\* A request that finds a challenge of its own address which is not connected
\* does not look at the second half of the places.
Scanned(c) ==
    {p \in Places : \/ p < MAX_CHALLENGES_MULTI
                    \/ \A q \in 0 .. p : ~(challenges[q].client = c /\ ~challenges[q].connected)}

Oldest(c) ==
    LET unused == {p \in Scanned(c) : Unused(p)}
    IN  IF Scanned(c) = {} THEN 0
        ELSE IF unused # {} THEN LowestOf(unused)
        ELSE SelectSeq(byAge, LAMBDA p : p \in Scanned(c))[1]

Without(p) == SelectSeq(byAge, LAMBDA q : q # p)

\* FindChallenge always takes the oldest place, and a new number.
SV_GetChallenge(m) ==
    /\ m.type = "getchallenge"
    /\ LET c == m.client
           p == Oldest(c)
       IN  \E n \in Numbers \ NumbersInUse :
            /\ \A k \in Numbers \ NumbersInUse : k >= n
            /\ challenges' = [challenges EXCEPT ![p] =
                                 [client |-> c, num |-> n, connected |-> FALSE]]
            /\ byAge' = Append(Without(p), p)
            /\ net' = Sent(Message("challengeResponse", c, n))
    /\ UNCHANGED <<clc, slots, game, abandoned>>

-----------------------------------------------------------------------------
(* The server's slots.                                                     *)

Owned(c) == {i \in Slots : slots[i].state # "FREE" /\ slots[i].client = c}

\* Mutant: only a zombie's address has to wait.
TooSoon_Zombie(c) ==
    /\ Owned(c) # {}
    /\ slots[LowestOf(Owned(c))].state = "ZOMBIE"
    /\ slots[LowestOf(Owned(c))].lastConnect < sv_reconnectlimit

TooSoon(c) ==
    /\ Owned(c) # {}
    /\ slots[LowestOf(Owned(c))].lastConnect < sv_reconnectlimit

Matching(m) == {p \in Places : challenges[p].client = m.client /\ challenges[p].num = m.num}

\* Mutant: a zombie is not reused.
SlotFor_Living(c) ==
    IF \E i \in Owned(c) : In(i) THEN {LowestOf({i \in Owned(c) : In(i)})}
    ELSE LET free == {i \in Slots : slots[i].state = "FREE"}
         IN  IF free = {} THEN {} ELSE {LowestOf(free)}

\* The slot of the same address, whatever its state, or the first free one.
SlotFor(c) ==
    IF Owned(c) # {} THEN {LowestOf(Owned(c))}
    ELSE LET free == {i \in Slots : slots[i].state = "FREE"}
         IN  IF free = {} THEN {} ELSE {LowestOf(free)}

Marked(m) == [challenges EXCEPT ![LowestOf(Matching(m))].connected = TRUE]

Connected(m) ==
    [Free EXCEPT !.state = "CONNECTED", !.client = m.client, !.challenge = m.num]

Accept(m, i) ==
    /\ slots' = [slots EXCEPT ![i] = Connected(m)]
    /\ game' = [game EXCEPT ![i] = TRUE]
    /\ abandoned' = abandoned \ {i}
    /\ net' = Sent(Message("connectResponse", m.client, m.num))

\* The slot has been cleared when the game is asked, and the game is not told
\* that the player whose slot it was is gone.
Deny(m, i) ==
    /\ MayDeny
    /\ slots' = [slots EXCEPT ![i] = Free]
    /\ abandoned' = IF In(i) THEN abandoned \cup {i} ELSE abandoned
    /\ net' = Sent(Message("droperror", m.client, NoNumber))
    /\ UNCHANGED game

ServerIsFull(m) ==
    /\ SlotFor(m.client) = {}
    /\ net' = Sent(Message("droperror", m.client, NoNumber))
    /\ UNCHANGED <<slots, game, abandoned>>

SV_DirectConnect(m) ==
    /\ m.type = "connect"
    /\ ~TooSoon(m.client)
    /\ Matching(m) # {}
    /\ challenges' = Marked(m)
    /\ \/ ServerIsFull(m)
       \/ \E i \in SlotFor(m.client) : Accept(m, i) \/ Deny(m, i)
    /\ UNCHANGED <<clc, byAge>>

-----------------------------------------------------------------------------
(* SV_DropClient, for all slots that one event drops.                      *)

\* The first challenge of a dropped client's address is forgotten, whichever
\* of them it is.
Forgotten(dropped) ==
    {p \in Places : \E i \in dropped :
        /\ challenges[p].client = slots[i].client
        /\ \A q \in 0 .. p - 1 : challenges[q].client # slots[i].client}

\* Mutant: the game is not told.
SV_DropClient_Quiet(dropped) ==
    /\ UNCHANGED <<game, abandoned>>
    /\ challenges' = [p \in Places |->
                        IF p \in Forgotten(dropped) THEN NoChallenge ELSE challenges[p]]
    /\ byAge' = SelectSeq(byAge, LAMBDA p : p \notin Forgotten(dropped))

SV_DropClient(dropped) ==
    /\ game' = [i \in Slots |-> i \notin dropped /\ game[i]]
    /\ UNCHANGED abandoned
    /\ challenges' = [p \in Places |->
                        IF p \in Forgotten(dropped) THEN NoChallenge ELSE challenges[p]]
    /\ byAge' = SelectSeq(byAge, LAMBDA p : p \notin Forgotten(dropped))

Zombie(s) == [s EXCEPT !.state = "ZOMBIE"]

\* The server drops a client by itself, for instance because it does not
\* acknowledge its commands.
Drop(i) ==
    /\ In(i)
    /\ SV_DropClient({i})
    /\ slots' = [slots EXCEPT ![i] = Zombie(slots[i])]
    /\ UNCHANGED <<clc, net>>

\* A kick counts as a packet, "in case there is a funny zombie".
Heard(s) == [s EXCEPT !.lastPacket = 0]

Kick(i) ==
    /\ In(i)
    /\ SV_DropClient({i})
    /\ slots' = [slots EXCEPT ![i] = Heard(Zombie(slots[i]))]
    /\ UNCHANGED <<clc, net>>

KickZombie(i) ==
    /\ MayKickZombies
    /\ slots[i].state = "ZOMBIE"
    /\ slots' = [slots EXCEPT ![i] = Heard(slots[i])]
    /\ UNCHANGED <<clc, game, abandoned, challenges, byAge, net>>

\* A new map: clients are connected to the game again, which may refuse some,
\* and have the wrong gamestate.
SV_SpawnServer(denied) ==
    /\ "map" \in LevelChanges
    /\ denied = {} \/ MayDeny
    /\ slots' = [i \in Slots |-> IF i \in denied THEN Zombie(slots[i])
                                ELSE IF In(i) THEN [slots[i] EXCEPT !.state = "CONNECTED"]
                                ELSE slots[i]]
    /\ SV_DropClient(denied)
    /\ clc' = [c \in Clients |-> [clc[c] EXCEPT !.gamestate = FALSE]]
    /\ UNCHANGED net

\* A restart: clients are connected to the game again and enter it, whether they
\* have the gamestate or not.
SV_Restart(denied) ==
    /\ "restart" \in LevelChanges
    /\ denied = {} \/ MayDeny
    /\ slots' = [i \in Slots |-> IF i \in denied THEN Zombie(slots[i])
                                ELSE IF In(i) THEN [slots[i] EXCEPT !.state = "ACTIVE"]
                                ELSE slots[i]]
    /\ SV_DropClient(denied)
    /\ UNCHANGED <<clc, net>>

-----------------------------------------------------------------------------
(* Packets of the sequenced channel (SV_PacketEvent).  The checksum of a    *)
(* packet is made with the challenge of its connection.                     *)

\* Mutant: a zombie's packets count as a sign of life.
Alive_Zombie(s) == Heard(s)

Alive(s) == IF s.state = "ZOMBIE" THEN s ELSE Heard(s)

\* Mutant: the gamestate is sent once.
Executed_Once(s, hasGameState) ==
    IF s.state = "CONNECTED" /\ ~hasGameState THEN [s EXCEPT !.state = "PRIMED"]
    ELSE IF s.state = "PRIMED" THEN [s EXCEPT !.state = "ACTIVE"]
    ELSE s

\* A client without the gamestate is sent it, unless it is in the game.
Executed(s, hasGameState) ==
    IF s.state \in {"CONNECTED", "PRIMED"} /\ ~hasGameState THEN [s EXCEPT !.state = "PRIMED"]
    ELSE IF s.state = "PRIMED" THEN [s EXCEPT !.state = "ACTIVE"]
    ELSE s

\* Mutant: the checksum is not looked at.
InChannel_AnyChallenge(c, i) ==
    /\ slots[i].state # "FREE"
    /\ slots[i].client = c
    /\ clc[c].state = "CONNECTED"

\* The channel takes a packet of the client's connection.
InChannel(c, i) ==
    /\ slots[i].state # "FREE"
    /\ slots[i].client = c
    /\ clc[c].state = "CONNECTED"
    /\ slots[i].challenge = clc[c].challenge

First(i) == i = LowestOf(Owned(slots[i].client))

\* A packet that belongs to no slot is answered, one with a wrong checksum not.
StrayPacket(c) ==
    /\ clc[c].state = "CONNECTED"
    /\ Owned(c) = {}
    /\ net' = Sent(Message("disconnect", c, NoNumber))
    /\ UNCHANGED <<clc, slots, game, abandoned, challenges, byAge>>

ClientPacket(i) ==
    LET c == slots[i].client
    IN  /\ InChannel(c, i)
        /\ First(i)
        /\ slots' = [slots EXCEPT ![i] = Executed(Alive(slots[i]), clc[c].gamestate)]
        /\ UNCHANGED <<clc, game, abandoned, challenges, byAge, net>>

GameState(i) ==
    LET c == slots[i].client
    IN  /\ slots[i].state = "PRIMED"
        /\ InChannel(c, i)
        /\ clc' = [clc EXCEPT ![c].gamestate = TRUE]
        /\ UNCHANGED <<slots, game, abandoned, challenges, byAge, net>>

(* CL_Disconnect sends a "disconnect" command in its last packets, which    *)
(* may all be lost.                                                        *)

LeaveUnnoticed(c) ==
    /\ clc' = [clc EXCEPT ![c] = Disconnected]
    /\ UNCHANGED <<slots, game, abandoned, challenges, byAge>>

SV_Disconnect_f(c, i) ==
    /\ InChannel(c, i)
    /\ First(i)
    /\ In(i)
    /\ clc' = [clc EXCEPT ![c] = Disconnected]
    /\ slots' = [slots EXCEPT ![i] = Zombie(Alive(slots[i]))]
    /\ SV_DropClient({i})

CL_Disconnect(c) ==
    /\ clc[c].state # "DISCONNECTED"
    /\ UNCHANGED net
    /\ \/ LeaveUnnoticed(c)
       \/ \E i \in Slots : SV_Disconnect_f(c, i)

\* A zombie's last message holds the "disconnect" command.
LastMessage(i) ==
    /\ slots[i].state = "ZOMBIE"
    /\ InChannel(slots[i].client, i)
    /\ LeaveUnnoticed(slots[i].client)
    /\ UNCHANGED net

-----------------------------------------------------------------------------
(* What the client gets.                                                   *)

CL_ChallengeResponse(m) ==
    /\ m.type = "challengeResponse"
    /\ clc[m.client].state = "CONNECTING"
    /\ clc' = [clc EXCEPT ![m.client] =
                [state |-> "CHALLENGING", challenge |-> m.num,
                 sent |-> RETRANSMIT_TIMEOUT, gamestate |-> FALSE]]
    /\ UNCHANGED <<slots, game, abandoned, challenges, byAge, net>>

\* The challenge in the response is not looked at.
CL_ConnectResponse(m) ==
    /\ m.type = "connectResponse"
    /\ clc[m.client].state = "CHALLENGING"
    /\ clc' = [clc EXCEPT ![m.client].state = "CONNECTED", ![m.client].sent = 0]
    /\ UNCHANGED <<slots, game, abandoned, challenges, byAge, net>>

CL_DropError(m) ==
    /\ m.type = "droperror"
    /\ CL_Disconnect(m.client)

\* Before the channel is set up its address is not the server's.
CL_DisconnectPacket(m) ==
    /\ m.type = "disconnect"
    /\ clc[m.client].state = "CONNECTED"
    /\ CL_Disconnect(m.client)

-----------------------------------------------------------------------------
(* A frame of the server passes, and SV_CheckTimeouts looks at the slots.  *)

Silence == IF sv_zombietime > sv_timeout THEN sv_zombietime + 1 ELSE sv_timeout + 1

Aged(s) == [s EXCEPT !.lastConnect = Older(s.lastConnect, sv_reconnectlimit),
                     !.lastPacket = Older(s.lastPacket, Silence)]

Silent(s) == s.state \in {"CONNECTED", "PRIMED", "ACTIVE"} /\ s.lastPacket > sv_timeout

TimedOut(s) == Silent(s) /\ s.timeoutCount = TimeoutFrames

CheckTimeout(s) ==
    IF s.state = "FREE" THEN Free
    ELSE IF s.state = "ZOMBIE" /\ s.lastPacket > sv_zombietime THEN Free
    ELSE IF TimedOut(s) THEN Free
    ELSE IF Silent(s) THEN [s EXCEPT !.timeoutCount = s.timeoutCount + 1]
    ELSE [s EXCEPT !.timeoutCount = 0]

Later == {[m EXCEPT !.age = m.age + 1] : m \in {k \in net : k.age < Lifetime}}

\* Mutant: a connect is not sent again.
Waited_Once(s) ==
    IF s.state = "CONNECTING"
    THEN [s EXCEPT !.sent = Older(s.sent, RETRANSMIT_TIMEOUT)] ELSE s

Waited(s) ==
    IF s.state \in {"CONNECTING", "CHALLENGING"}
    THEN [s EXCEPT !.sent = Older(s.sent, RETRANSMIT_TIMEOUT)] ELSE s

SV_Frame ==
    /\ clc' = [c \in Clients |-> Waited(clc[c])]
    /\ slots' = [i \in Slots |-> CheckTimeout(Aged(slots[i]))]
    /\ SV_DropClient({i \in Slots : TimedOut(Aged(slots[i]))})
    /\ net' = Later

-----------------------------------------------------------------------------
\* A message that is received stays on its way, and may arrive again.
Receive(m) ==
    \/ SV_GetChallenge(m)
    \/ SV_DirectConnect(m)
    \/ CL_ChallengeResponse(m)
    \/ CL_ConnectResponse(m)
    \/ CL_DropError(m)
    \/ CL_DisconnectPacket(m)

Next ==
    \/ \E c \in Clients : CL_Connect(c)
    \/ \E c \in Clients : CL_Disconnect(c)
    \/ \E c \in Clients : CL_CheckForResend(c)
    \/ \E c \in Clients : StrayPacket(c)
    \/ \E i \in Slots : ClientPacket(i)
    \/ \E i \in Slots : GameState(i)
    \/ \E m \in net : Receive(m)
    \/ \E i \in Slots : Drop(i)
    \/ \E i \in Slots : Kick(i)
    \/ \E i \in Slots : KickZombie(i)
    \/ \E denied \in SUBSET {i \in Slots : In(i)} : SV_SpawnServer(denied) \/ SV_Restart(denied)
    \/ \E i \in Slots : LastMessage(i)
    \/ SV_Frame

\* The server runs and clients send what they have to; of messages that are
\* sent over and over, some arrive.
Fairness ==
    /\ WF_vars(SV_Frame)
    /\ \A c \in Clients :
        /\ WF_vars(CL_CheckForResend(c))
        /\ SF_vars(StrayPacket(c))
        /\ \A type \in {"getchallenge", "connect", "challengeResponse",
                        "connectResponse", "disconnect"} :
             SF_vars(\E m \in net : m.type = type /\ m.client = c /\ Receive(m))
    /\ \A i \in Slots : SF_vars(ClientPacket(i)) /\ SF_vars(GameState(i))

Spec == Init /\ [][Next]_vars
FairSpec == Spec /\ Fairness

-----------------------------------------------------------------------------
TypeOK ==
    /\ clc \in [Clients ->
         [state : {"DISCONNECTED", "CONNECTING", "CHALLENGING", "CONNECTED"},
          challenge : Numbers \cup {NoNumber}, sent : 0 .. RETRANSMIT_TIMEOUT,
          gamestate : BOOLEAN]]
    /\ slots \in [Slots ->
         [state : {"FREE", "CONNECTED", "PRIMED", "ACTIVE", "ZOMBIE"},
          client : Clients \cup {NoClient}, challenge : Numbers \cup {NoNumber},
          lastConnect : 0 .. sv_reconnectlimit, lastPacket : 0 .. Silence,
          timeoutCount : 0 .. TimeoutFrames]]
    /\ game \in [Slots -> BOOLEAN]
    /\ abandoned \subseteq Slots
    /\ challenges \in [Places -> [client : Clients \cup {NoClient},
                                  num : Numbers \cup {NoNumber}, connected : BOOLEAN]]
    /\ net \subseteq Messages
    /\ Len(byAge) = Cardinality({p \in Places : ~Unused(p)})
    /\ \A p \in Places : ~Unused(p) <=> \E k \in DOMAIN byAge : byAge[k] = p

\* A client whose slot waits for its first packet has no gamestate yet, so that
\* the packet will be noticed to be from a different server id and force one
\* (the comment at gamestateMessageNum = -1 in SV_DirectConnect).
FirstPacketForcesGameState ==
    \A i \in Slots : LET c == slots[i].client IN
        slots[i].state = "CONNECTED" /\ clc[c].state = "CONNECTED"
            /\ clc[c].challenge = slots[i].challenge
        => ~clc[c].gamestate

\* A client never holds two slots, so that the first one found is the one: by
\* its packets, by the quick reject and by a reconnect.
OneSlotEach == \A c \in Clients : Cardinality(Owned(c)) <= 1

\* The game has a player in exactly the slots in use and in those whose player
\* was refused when it reconnected, which clears the slot without a word to the
\* game (SV_DirectConnect), until the slot is given away again.
GameAgrees ==
    \A i \in Slots :
        game[i] <=> In(i) \/ (slots[i].state = "FREE" /\ i \in abandoned)

\* Whatever a dropped client goes on sending, its slot comes free.
ZombiesEnd == \A i \in Slots : slots[i].state = "ZOMBIE" ~> slots[i].state # "ZOMBIE"

\* A client whose slot was freed or taken over by another of its connections
\* finds out, though every message that says so may be lost ("so it doesn't
\* have to wait for the full timeout period", CL_DisconnectPacket).
HasSlot(c) == \E i \in Slots : slots[i].client = c /\ slots[i].challenge = clc[c].challenge
NoticesItIsOut ==
    \A c \in Clients : clc[c].state = "CONNECTED" /\ ~HasSlot(c)
                         ~> clc[c].state # "CONNECTED" \/ HasSlot(c)

\* A client that answers a challenge gets in or is refused, unless the server
\* forgets the challenge first.
Remembered(c) ==
    \E p \in Places : challenges[p].client = c /\ challenges[p].num = clc[c].challenge
AttemptEnds ==
    \A c \in Clients : clc[c].state = "CHALLENGING"
                         ~> clc[c].state # "CHALLENGING" \/ ~Remembered(c)

\* A client that is let in gets the gamestate, though every copy of it may be
\* lost ("It will be resent if the client acknowledges a later message but has
\* the wrong gamestate", SV_SendClientGameState).
Awaits(c) ==
    \E i \in Slots : /\ slots[i].client = c /\ slots[i].challenge = clc[c].challenge
                     /\ slots[i].state \in {"CONNECTED", "PRIMED"}
GameStateArrives ==
    \A c \in Clients : clc[c].state = "CONNECTED" /\ Awaits(c)
                         ~> clc[c].gamestate \/ clc[c].state # "CONNECTED" \/ ~HasSlot(c)
=============================================================================
