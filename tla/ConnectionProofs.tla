-------------------------- MODULE ConnectionProofs ---------------------------
(* That a client never holds two slots, which slots the game has players in, *)
(* and that a client whose slot is new has no gamestate, for any number of   *)
(* clients, slots and challenges.                                            *)
EXTENDS Connection, FiniteSetTheorems, WellFoundedInduction, TLAPS

ClientRecord ==
    [state : {"FREE", "CONNECTED", "PRIMED", "ACTIVE", "ZOMBIE"},
     client : Clients \cup {NoClient}, challenge : Numbers \cup {NoNumber},
     lastConnect : Nat, lastPacket : Nat, timeoutCount : Nat]

ConnectionRecord ==
    [state : {"DISCONNECTED", "CONNECTING", "CHALLENGING", "CONNECTED"},
     challenge : Numbers \cup {NoNumber}, sent : Nat, gamestate : BOOLEAN]

MessageRecord ==
    [type : {"getchallenge", "connect", "challengeResponse", "connectResponse",
             "droperror", "disconnect"},
     client : Clients, num : Numbers \cup {NoNumber}, age : Nat]

Typed ==
    /\ clc \in [Clients -> ConnectionRecord]
    /\ slots \in [Slots -> ClientRecord]
    /\ game \in [Slots -> BOOLEAN]
    /\ net \subseteq MessageRecord

-----------------------------------------------------------------------------
(* Types.                                                                  *)

LEMMA FreeTyped == Free \in ClientRecord
  BY DEF Free, ClientRecord

LEMMA DisconnectedTyped == Disconnected \in ConnectionRecord
  BY DEF Disconnected, ConnectionRecord

LEMMA MessageTyped ==
    ASSUME NEW type \in {"getchallenge", "connect", "challengeResponse",
                         "connectResponse", "droperror", "disconnect"},
           NEW c \in Clients, NEW n \in Numbers \cup {NoNumber}
    PROVE  Message(type, c, n) \in MessageRecord
  BY DEF Message, MessageRecord

LEMMA SentTyped ==
    ASSUME Typed, NEW m \in MessageRecord
    PROVE  Sent(m) \subseteq MessageRecord
  BY DEF Typed, Sent

LEMMA ZombieAndAliveTyped ==
    ASSUME NEW s \in ClientRecord
    PROVE  /\ Zombie(s) \in ClientRecord /\ Zombie(s).client = s.client
           /\ Zombie(s).state = "ZOMBIE"
           /\ Heard(s) \in ClientRecord /\ Heard(s).client = s.client
           /\ Heard(s).state = s.state
           /\ Alive(s) \in ClientRecord /\ Alive(s).client = s.client
           /\ Alive(s).state = s.state
  BY DEF ClientRecord, Zombie, Heard, Alive

LEMMA OlderTyped ==
    ASSUME NEW n \in Nat, NEW limit \in Nat
    PROVE  Older(n, limit) \in Nat
  BY DEF Older

LEMMA AgedTyped ==
    ASSUME NEW s \in ClientRecord
    PROVE  Aged(s) \in ClientRecord /\ Aged(s).client = s.client /\ Aged(s).state = s.state
  <1>1. sv_reconnectlimit \in Nat /\ Silence \in Nat
    BY ConnectionAssumption DEF Silence
  <1>2. s.lastConnect \in Nat /\ s.lastPacket \in Nat
    BY DEF ClientRecord
  <1>3. Older(s.lastConnect, sv_reconnectlimit) \in Nat /\ Older(s.lastPacket, Silence) \in Nat
    BY <1>1, <1>2, OlderTyped
  <1>4. QED  BY <1>3 DEF Aged, ClientRecord

\* SV_CheckTimeouts frees slots or leaves them to their clients.
LEMMA CheckTimeoutTyped ==
    ASSUME NEW s \in ClientRecord
    PROVE  /\ CheckTimeout(s) \in ClientRecord
           /\ \/ /\ CheckTimeout(s).state = "FREE"
                 /\ s.state \in {"FREE", "ZOMBIE"} \/ TimedOut(s)
              \/ /\ CheckTimeout(s).client = s.client
                 /\ CheckTimeout(s).state = s.state
                 /\ s.state # "FREE"
                 /\ ~TimedOut(s)
  <1>1. CASE CheckTimeout(s) = Free
    <2>1. s.state \in {"FREE", "ZOMBIE"} \/ TimedOut(s)
      <3>1. ASSUME s.state \notin {"FREE", "ZOMBIE"}, ~TimedOut(s)
            PROVE  FALSE
        <4>1. CheckTimeout(s) \in {[s EXCEPT !.timeoutCount = s.timeoutCount + 1],
                                   [s EXCEPT !.timeoutCount = 0]}
          BY <3>1 DEF CheckTimeout
        <4>2. CheckTimeout(s).state = s.state
          BY <4>1 DEF ClientRecord
        <4>3. QED  BY <1>1, <3>1, <4>2 DEF Free
      <3>2. QED  BY <3>1
    <2>2. QED  BY <1>1, <2>1, FreeTyped DEF Free
  <1>2. CASE CheckTimeout(s) # Free
    <2>1. /\ ~TimedOut(s) /\ s.state # "FREE"
          /\ \/ CheckTimeout(s) = [s EXCEPT !.timeoutCount = s.timeoutCount + 1]
             \/ CheckTimeout(s) = [s EXCEPT !.timeoutCount = 0]
      BY <1>2 DEF CheckTimeout
    <2>2. QED  BY <2>1 DEF ClientRecord
  <1>3. QED  BY <1>1, <1>2

-----------------------------------------------------------------------------
(* What every step but a connect does to a slot.                           *)

Playing(s) == s.state \in {"CONNECTED", "PRIMED", "ACTIVE"}

Tame(s, r, had, has) ==
    /\ r.state # "FREE" => s.state # "FREE" /\ r.client = s.client
    /\ Playing(r) => Playing(s) /\ (had => has)
    /\ r.state = "ZOMBIE" => ~has \/ (s.state = "ZOMBIE" /\ (has => had))
    /\ r.state = "FREE" => \/ s.state # "FREE" /\ ~has
                           \/ ~Playing(s) /\ (has <=> had)

TameStep ==
    /\ \A i \in Slots : Tame(slots[i], slots'[i], game[i], game'[i])
    /\ UNCHANGED abandoned

OneOwner ==
    \A i, j \in Slots :
        /\ slots[i].state # "FREE"
        /\ slots[j].state # "FREE"
        /\ slots[i].client = slots[j].client
        => i = j

\* A slot that is abandoned is not given to anybody.
AbandonedAreFree == \A i \in Slots : i \in abandoned => slots[i].state = "FREE"

Inv == Typed /\ OneOwner /\ GameAgrees /\ AbandonedAreFree

LEMMA TamePreserves ==
    ASSUME Typed, Typed', OneOwner, GameAgrees, AbandonedAreFree, TameStep
    PROVE  OneOwner' /\ GameAgrees' /\ AbandonedAreFree'
  <1>1. OneOwner'
    BY DEF OneOwner, TameStep, Tame
  <1>2. AbandonedAreFree'
    BY DEF AbandonedAreFree, TameStep, Tame
  <1>3. ASSUME NEW i \in Slots
        PROVE  game'[i] <=> Playing(slots'[i]) \/ (slots'[i].state = "FREE" /\ i \in abandoned')
    <2>1. /\ Tame(slots[i], slots'[i], game[i], game'[i]) /\ abandoned' = abandoned
          /\ i \in abandoned => slots[i].state = "FREE"
          /\ game[i] <=> Playing(slots[i]) \/ (slots[i].state = "FREE" /\ i \in abandoned)
      BY DEF TameStep, GameAgrees, In, Playing, AbandonedAreFree
    <2>2. slots'[i] \in ClientRecord
      BY DEF Typed
    <2>3. CASE Playing(slots'[i])
      BY <2>1, <2>3 DEF Tame, Playing
    <2>4. CASE slots'[i].state = "ZOMBIE"
      BY <2>1, <2>4 DEF Tame, Playing
    <2>5. CASE slots'[i].state = "FREE"
      BY <2>1, <2>5 DEF Tame, Playing
    <2>6. QED  BY <2>2, <2>3, <2>4, <2>5 DEF ClientRecord, Playing
  <1>4. GameAgrees'
    BY <1>3 DEF GameAgrees, Playing, In
  <1>5. QED  BY <1>1, <1>2, <1>4

\* A step that leaves slots and players alone.
LEMMA IdleIsTame ==
    ASSUME Typed, UNCHANGED <<slots, game, abandoned>>
    PROVE  TameStep
  BY DEF Typed, TameStep, Tame, Playing

\* A step that changes one slot and no player.
LEMMA OneSlotStep ==
    ASSUME Typed, NEW i \in Slots, NEW r \in ClientRecord,
           slots' = [slots EXCEPT ![i] = r], UNCHANGED <<game, abandoned>>,
           Tame(slots[i], r, game[i], game[i])
    PROVE  slots' \in [Slots -> ClientRecord] /\ TameStep
  <1>1. slots' \in [Slots -> ClientRecord]
    BY DEF Typed
  <1>2. ASSUME NEW j \in Slots
        PROVE  Tame(slots[j], slots'[j], game[j], game'[j])
    <2>1. CASE j = i
      <3>1. slots'[j] = r /\ game'[j] = game[i]
        BY <2>1 DEF Typed
      <3>2. QED  BY <2>1, <3>1
    <2>2. CASE j # i
      <3>1. slots'[j] = slots[j] /\ game'[j] = game[j]
        BY <2>2 DEF Typed
      <3>2. QED  BY <3>1 DEF Tame, Playing
    <2>3. QED  BY <2>1, <2>2
  <1>3. QED  BY <1>1, <1>2 DEF TameStep

\* SV_DropClient for some slots, which become zombies or free; the others keep
\* their state.
LEMMA DropStep ==
    ASSUME Typed, NEW D, SV_DropClient(D), \A i \in Slots : i \in D => Playing(slots[i]),
           slots' \in [Slots -> ClientRecord],
           \A i \in Slots : slots'[i].state # "FREE"
                => slots[i].state # "FREE" /\ slots'[i].client = slots[i].client,
           \A i \in Slots : Playing(slots'[i]) => i \notin D /\ Playing(slots[i]),
           \A i \in Slots : slots'[i].state = "ZOMBIE" => i \in D \/ slots[i].state = "ZOMBIE",
           \A i \in Slots : slots'[i].state = "FREE" => i \in D \/ ~Playing(slots[i])
    PROVE  game' \in [Slots -> BOOLEAN] /\ TameStep
  <1>1. game' = [i \in Slots |-> i \notin D /\ game[i]]
    BY DEF SV_DropClient
  <1>2. game' \in [Slots -> BOOLEAN]
    BY <1>1 DEF Typed
  <1>3. ASSUME NEW i \in Slots
        PROVE  Tame(slots[i], slots'[i], game[i], game'[i])
    <2>1. game'[i] <=> i \notin D /\ game[i]
      BY <1>1
    <2>2. i \in D => slots[i].state # "FREE"
      BY DEF Playing
    <2>3. QED  BY <2>1, <2>2 DEF Tame
  <1>4. UNCHANGED abandoned
    BY DEF SV_DropClient
  <1>5. QED  BY <1>2, <1>3, <1>4 DEF TameStep

-----------------------------------------------------------------------------
(* The client's steps.                                                     *)

LEMMA ConnectStep ==
    ASSUME Typed, NEW c \in Clients, CL_Connect(c)
    PROVE  Typed' /\ TameStep
  <1>1. RETRANSMIT_TIMEOUT \in Nat
    BY ConnectionAssumption
  <1>2. clc[c] \in ConnectionRecord
    BY DEF Typed
  <1>3. [clc[c] EXCEPT !.state = "CONNECTING", !.sent = RETRANSMIT_TIMEOUT] \in ConnectionRecord
    BY <1>1, <1>2 DEF ConnectionRecord
  <1>4. clc' = [clc EXCEPT ![c] =
                  [clc[c] EXCEPT !.state = "CONNECTING", !.sent = RETRANSMIT_TIMEOUT]]
    BY <1>2 DEF CL_Connect, Typed, ConnectionRecord
  <1>5. clc' \in [Clients -> ConnectionRecord]
    BY <1>3, <1>4 DEF Typed
  <1>6. QED  BY <1>5, IdleIsTame DEF CL_Connect, Typed

LEMMA CheckForResendStep ==
    ASSUME Typed, NEW c \in Clients, CL_CheckForResend(c)
    PROVE  Typed' /\ TameStep
  <1>1. clc[c] \in ConnectionRecord
    BY DEF Typed
  <1>2. clc' \in [Clients -> ConnectionRecord]
    BY <1>1 DEF CL_CheckForResend, Typed, ConnectionRecord
  <1>3. clc[c].challenge \in Numbers \cup {NoNumber}
    BY <1>1 DEF ConnectionRecord
  <1>4. Request(c) \in MessageRecord
    BY <1>3, MessageTyped DEF Request
  <1>5. net' \subseteq MessageRecord
    BY <1>4, SentTyped DEF CL_CheckForResend
  <1>6. QED  BY <1>2, <1>5, IdleIsTame DEF CL_CheckForResend, Typed

LEMMA ChallengeResponseStep ==
    ASSUME Typed, NEW m \in net, CL_ChallengeResponse(m)
    PROVE  Typed' /\ TameStep
  <1>1. m \in MessageRecord /\ RETRANSMIT_TIMEOUT \in Nat
    BY ConnectionAssumption DEF Typed
  <1>2. m.client \in Clients /\ m.num \in Numbers \cup {NoNumber}
    BY <1>1 DEF MessageRecord
  <1>3. [state |-> "CHALLENGING", challenge |-> m.num,
         sent |-> RETRANSMIT_TIMEOUT, gamestate |-> FALSE] \in ConnectionRecord
    BY <1>1, <1>2 DEF ConnectionRecord
  <1>4. clc' \in [Clients -> ConnectionRecord]
    BY <1>2, <1>3 DEF CL_ChallengeResponse, Typed
  <1>5. QED  BY <1>4, IdleIsTame DEF CL_ChallengeResponse, Typed

LEMMA ConnectResponseStep ==
    ASSUME Typed, NEW m \in net, CL_ConnectResponse(m)
    PROVE  Typed' /\ TameStep
  <1>1. m.client \in Clients
    BY DEF Typed, MessageRecord
  <1>2. clc[m.client] \in ConnectionRecord
    BY <1>1 DEF Typed
  <1>3. [clc[m.client] EXCEPT !.state = "CONNECTED", !.sent = 0] \in ConnectionRecord
    BY <1>2 DEF ConnectionRecord
  <1>4. clc' = [clc EXCEPT ![m.client] =
                  [clc[m.client] EXCEPT !.state = "CONNECTED", !.sent = 0]]
    BY <1>1, <1>2 DEF CL_ConnectResponse, Typed, ConnectionRecord
  <1>5. clc' \in [Clients -> ConnectionRecord]
    BY <1>1, <1>3, <1>4 DEF Typed
  <1>6. QED  BY <1>5, IdleIsTame DEF CL_ConnectResponse, Typed

LEMMA GameStateStep ==
    ASSUME Typed, NEW i \in Slots, GameState(i)
    PROVE  Typed' /\ TameStep
  <1> DEFINE c == slots[i].client
  <1>1. clc' \in [Clients -> ConnectionRecord]
    <2>1. CASE c \in Clients
      <3>1. clc[c] \in ConnectionRecord
        BY <2>1 DEF Typed
      <3>2. [clc[c] EXCEPT !.gamestate = TRUE] \in ConnectionRecord
        BY <3>1 DEF ConnectionRecord
      <3>3. clc' = [clc EXCEPT ![c] = [clc[c] EXCEPT !.gamestate = TRUE]]
        BY <3>1 DEF GameState, ConnectionRecord
      <3>4. QED  BY <3>2, <3>3 DEF Typed
    <2>2. CASE c \notin Clients
      BY <2>2 DEF GameState, Typed
    <2>3. QED  BY <2>1, <2>2
  <1>2. QED  BY <1>1, IdleIsTame DEF GameState, Typed

LEMMA LeaveTyped ==
    ASSUME Typed, NEW c
    PROVE  [clc EXCEPT ![c] = Disconnected] \in [Clients -> ConnectionRecord]
  BY DisconnectedTyped DEF Typed

\* CL_Disconnect, whether or not the server gets its last packets.
LEMMA DisconnectStep ==
    ASSUME Typed, NEW c \in Clients, CL_Disconnect(c)
    PROVE  Typed' /\ TameStep
  <1>1. CASE LeaveUnnoticed(c)
    BY <1>1, LeaveTyped, IdleIsTame DEF CL_Disconnect, LeaveUnnoticed, Typed
  <1>2. CASE \E i \in Slots : SV_Disconnect_f(c, i)
    <2>1. PICK i \in Slots : SV_Disconnect_f(c, i)
      BY <1>2
    <2> DEFINE r == Zombie(Alive(slots[i]))
    <2>2. slots[i] \in ClientRecord /\ Alive(slots[i]) \in ClientRecord
      BY ZombieAndAliveTyped DEF Typed
    <2>3. r \in ClientRecord /\ r.client = slots[i].client /\ r.state = "ZOMBIE"
      BY <2>2, ZombieAndAliveTyped
    <2>4. slots' = [slots EXCEPT ![i] = r] /\ SV_DropClient({i}) /\ Playing(slots[i])
      BY <2>1 DEF SV_Disconnect_f, In, Playing
    <2> HIDE DEF r
    <2>5. slots' \in [Slots -> ClientRecord] /\ slots'[i] = r
      BY <2>3, <2>4 DEF Typed
    <2>6. \A j \in Slots : j # i => slots'[j] = slots[j]
      BY <2>4 DEF Typed
    <2>7. game' \in [Slots -> BOOLEAN] /\ TameStep
      BY <2>3, <2>4, <2>5, <2>6, DropStep DEF Playing
    <2>8. clc' \in [Clients -> ConnectionRecord] /\ net' = net
      BY <2>1, LeaveTyped DEF SV_Disconnect_f, CL_Disconnect
    <2>9. QED  BY <2>5, <2>7, <2>8 DEF Typed
  <1>3. QED  BY <1>1, <1>2 DEF CL_Disconnect

LEMMA LastMessageStep ==
    ASSUME Typed, NEW i \in Slots, LastMessage(i)
    PROVE  Typed' /\ TameStep
  BY LeaveTyped, IdleIsTame DEF LastMessage, LeaveUnnoticed, Typed

-----------------------------------------------------------------------------
(* The server's steps.                                                     *)

LEMMA GetChallengeStep ==
    ASSUME Typed, NEW m \in net, SV_GetChallenge(m)
    PROVE  Typed' /\ TameStep
  <1>1. m.client \in Clients
    BY DEF Typed, MessageRecord
  <1>2. PICK n \in Numbers : net' = Sent(Message("challengeResponse", m.client, n))
    BY DEF SV_GetChallenge
  <1>3. Message("challengeResponse", m.client, n) \in MessageRecord
    BY <1>1, MessageTyped
  <1>4. net' \subseteq MessageRecord
    BY <1>2, <1>3, SentTyped
  <1>5. QED  BY <1>4, IdleIsTame DEF SV_GetChallenge, Typed

LEMMA StrayPacketStep ==
    ASSUME Typed, NEW c \in Clients, StrayPacket(c)
    PROVE  Typed' /\ TameStep
  <1>1. Message("disconnect", c, NoNumber) \in MessageRecord
    BY MessageTyped
  <1>2. net' \subseteq MessageRecord
    BY <1>1, SentTyped DEF StrayPacket
  <1>3. QED  BY <1>2, IdleIsTame DEF StrayPacket, Typed

LEMMA DroppedToZombie ==
    ASSUME Typed, NEW i \in Slots, NEW r \in ClientRecord, SV_DropClient({i}),
           Playing(slots[i]), slots' = [slots EXCEPT ![i] = r],
           r.client = slots[i].client, r.state = "ZOMBIE"
    PROVE  slots' \in [Slots -> ClientRecord] /\ game' \in [Slots -> BOOLEAN] /\ TameStep
  <1>1. slots' \in [Slots -> ClientRecord] /\ slots'[i] = r
    BY DEF Typed
  <1>2. \A j \in Slots : j # i => slots'[j] = slots[j]
    BY DEF Typed
  <1>3. QED  BY <1>1, <1>2, DropStep DEF Playing

LEMMA DropAndKickStep ==
    ASSUME Typed, NEW i \in Slots, Drop(i) \/ Kick(i)
    PROVE  Typed' /\ TameStep
  <1>1. slots[i] \in ClientRecord
    BY DEF Typed
  <1> DEFINE z == Zombie(slots[i])
             h == Heard(Zombie(slots[i]))
  <1>2. /\ z \in ClientRecord /\ z.client = slots[i].client /\ z.state = "ZOMBIE"
        /\ h \in ClientRecord /\ h.client = slots[i].client /\ h.state = "ZOMBIE"
    BY <1>1, ZombieAndAliveTyped
  <1>3. SV_DropClient({i}) /\ Playing(slots[i]) /\ UNCHANGED <<clc, net>>
    BY DEF Drop, Kick, In, Playing
  <1>4. slots' = [slots EXCEPT ![i] = z] \/ slots' = [slots EXCEPT ![i] = h]
    BY DEF Drop, Kick
  <1> HIDE DEF z, h
  <1>5. slots' \in [Slots -> ClientRecord] /\ game' \in [Slots -> BOOLEAN] /\ TameStep
    BY <1>2, <1>3, <1>4, DroppedToZombie
  <1>6. QED  BY <1>3, <1>5 DEF Typed

LEMMA KickZombieStep ==
    ASSUME Typed, NEW i \in Slots, KickZombie(i)
    PROVE  Typed' /\ TameStep
  <1>1. slots[i] \in ClientRecord
    BY DEF Typed
  <1> DEFINE r == Heard(slots[i])
  <1>2. r \in ClientRecord /\ r.client = slots[i].client /\ r.state = slots[i].state
    BY <1>1, ZombieAndAliveTyped
  <1>3. slots' = [slots EXCEPT ![i] = r] /\ UNCHANGED <<clc, game, abandoned, net>>
    BY DEF KickZombie
  <1> HIDE DEF r
  <1>4. Tame(slots[i], r, game[i], game[i])
    BY <1>2 DEF Tame, Playing
  <1>5. slots' \in [Slots -> ClientRecord] /\ TameStep
    BY <1>2, <1>3, <1>4, OneSlotStep
  <1>6. QED  BY <1>3, <1>5 DEF Typed

LEMMA ClientPacketStep ==
    ASSUME Typed, NEW i \in Slots, ClientPacket(i)
    PROVE  Typed' /\ TameStep
  <1> DEFINE c == slots[i].client
             a == Alive(slots[i])
             r == Executed(a, clc[c].gamestate)
  <1>1. slots[i] \in ClientRecord
    BY DEF Typed
  <1>2. a \in ClientRecord /\ a.client = c /\ a.state = slots[i].state
    BY <1>1, ZombieAndAliveTyped
  <1>3. slots' = [slots EXCEPT ![i] = r] /\ UNCHANGED <<clc, game, abandoned, net>>
    BY DEF ClientPacket
  <1>4. /\ r \in ClientRecord /\ r.client = a.client
        /\ \/ r.state = a.state
           \/ a.state \in {"CONNECTED", "PRIMED"} /\ r.state \in {"PRIMED", "ACTIVE"}
    <2>1. r \in {a, [a EXCEPT !.state = "PRIMED"], [a EXCEPT !.state = "ACTIVE"]}
            /\ (r = a \/ a.state \in {"CONNECTED", "PRIMED"})
      BY DEF Executed
    <2> HIDE DEF a, r
    <2>2. QED  BY <1>2, <2>1 DEF ClientRecord
  <1> HIDE DEF a, r
  <1>5. Tame(slots[i], r, game[i], game[i])
    BY <1>2, <1>4 DEF Tame, Playing
  <1>6. slots' \in [Slots -> ClientRecord] /\ TameStep
    BY <1>3, <1>4, <1>5, OneSlotStep
  <1>7. QED  BY <1>3, <1>6 DEF Typed

\* A new map or a restart: who is refused is dropped, who is not has another
\* state.
LEMMA SpawnStep ==
    ASSUME Typed, NEW denied \in SUBSET {i \in Slots : In(i)},
           NEW state \in {"CONNECTED", "ACTIVE"},
           slots' = [i \in Slots |-> IF i \in denied THEN Zombie(slots[i])
                                     ELSE IF In(i) THEN [slots[i] EXCEPT !.state = state]
                                     ELSE slots[i]],
           SV_DropClient(denied)
    PROVE  slots' \in [Slots -> ClientRecord] /\ game' \in [Slots -> BOOLEAN] /\ TameStep
  <1>1. ASSUME NEW i \in Slots
        PROVE  /\ slots'[i] \in ClientRecord /\ slots'[i].client = slots[i].client
               /\ slots'[i].state # "FREE" <=> slots[i].state # "FREE"
               /\ i \in denied => Playing(slots[i])
               /\ Playing(slots'[i]) => i \notin denied /\ Playing(slots[i])
               /\ slots'[i].state = "ZOMBIE" => i \in denied \/ slots[i].state = "ZOMBIE"
    <2>1. slots[i] \in ClientRecord
      BY DEF Typed
    <2>2. CASE i \in denied
      <3>1. slots'[i] = Zombie(slots[i]) /\ Playing(slots[i])
        BY <2>2 DEF In, Playing
      <3>2. QED  BY <2>1, <2>2, <3>1, ZombieAndAliveTyped DEF Playing
    <2>3. CASE i \notin denied /\ In(i)
      <3>1. slots'[i] = [slots[i] EXCEPT !.state = state] /\ Playing(slots[i])
        BY <2>3 DEF In, Playing
      <3>2. QED  BY <2>1, <2>3, <3>1 DEF ClientRecord, Playing
    <2>4. CASE i \notin denied /\ ~In(i)
      <3>1. slots'[i] = slots[i]
        BY <2>4
      <3>2. QED  BY <2>1, <2>4, <3>1 DEF Playing, In
    <2>5. QED  BY <2>2, <2>3, <2>4
  <1>2. slots' \in [Slots -> ClientRecord]
    <2>1. slots' = [i \in Slots |-> slots'[i]]
      OBVIOUS
    <2>2. QED  BY <1>1, <2>1
  <1>3. QED  BY <1>1, <1>2, DropStep DEF Playing

LEMMA SpawnServerStep ==
    ASSUME Typed, NEW denied \in SUBSET {i \in Slots : In(i)}, SV_SpawnServer(denied)
    PROVE  Typed' /\ TameStep
  <1>1. slots' \in [Slots -> ClientRecord] /\ game' \in [Slots -> BOOLEAN] /\ TameStep
    BY SpawnStep DEF SV_SpawnServer
  <1>2. clc' \in [Clients -> ConnectionRecord]
    <2>1. \A c \in Clients : [clc[c] EXCEPT !.gamestate = FALSE] \in ConnectionRecord
      BY DEF Typed, ConnectionRecord
    <2>2. QED  BY <2>1 DEF SV_SpawnServer
  <1>3. QED  BY <1>1, <1>2 DEF SV_SpawnServer, Typed

LEMMA RestartStep ==
    ASSUME Typed, NEW denied \in SUBSET {i \in Slots : In(i)}, SV_Restart(denied)
    PROVE  Typed' /\ TameStep
  <1>1. slots' \in [Slots -> ClientRecord] /\ game' \in [Slots -> BOOLEAN] /\ TameStep
    BY SpawnStep DEF SV_Restart
  <1>2. QED  BY <1>1 DEF SV_Restart, Typed

LEMMA FrameStep ==
    ASSUME Typed, SV_Frame
    PROVE  Typed' /\ TameStep
  <1> DEFINE timedOut == {i \in Slots : TimedOut(Aged(slots[i]))}
  <1>1. ASSUME NEW i \in Slots
        PROVE  /\ slots'[i] \in ClientRecord
               /\ slots'[i].state # "FREE"
                    => /\ slots[i].state # "FREE" /\ slots'[i].client = slots[i].client
                       /\ slots'[i].state = slots[i].state /\ i \notin timedOut
               /\ slots'[i].state = "FREE" => i \in timedOut \/ ~Playing(slots[i])
               /\ i \in timedOut => Playing(slots[i])
    <2> DEFINE a == Aged(slots[i])
    <2>1. a \in ClientRecord /\ a.client = slots[i].client /\ a.state = slots[i].state
      BY AgedTyped DEF Typed
    <2>2. slots'[i] = CheckTimeout(a) /\ (i \in timedOut <=> TimedOut(a))
      BY DEF SV_Frame
    <2> HIDE DEF a, timedOut
    <2>3. TimedOut(a) => Playing(slots[i])
      BY <2>1 DEF TimedOut, Silent, Playing
    <2>4. QED  BY <2>1, <2>2, <2>3, CheckTimeoutTyped DEF Playing
  <1>2. slots' \in [Slots -> ClientRecord]
    <2>1. slots' = [i \in Slots |-> slots'[i]]
      BY DEF SV_Frame
    <2>2. QED  BY <1>1, <2>1
  <1>3. SV_DropClient(timedOut)
    BY DEF SV_Frame
  <1> HIDE DEF timedOut
  <1>4. game' \in [Slots -> BOOLEAN] /\ TameStep
    BY <1>1, <1>2, <1>3, DropStep DEF Playing
  <1>5. clc' \in [Clients -> ConnectionRecord]
    <2>1. ASSUME NEW c \in Clients
          PROVE  Waited(clc[c]) \in ConnectionRecord
      <3>1. clc[c] \in ConnectionRecord /\ RETRANSMIT_TIMEOUT \in Nat
        BY ConnectionAssumption DEF Typed
      <3>2. Older(clc[c].sent, RETRANSMIT_TIMEOUT) \in Nat
        BY <3>1, OlderTyped DEF ConnectionRecord
      <3>3. QED  BY <3>1, <3>2 DEF Waited, ConnectionRecord
    <2>2. QED  BY <2>1 DEF SV_Frame
  <1>6. net' \subseteq MessageRecord
    <2>1. \A m \in net : [m EXCEPT !.age = m.age + 1] \in MessageRecord
      BY DEF Typed, MessageRecord
    <2>2. QED  BY <2>1 DEF SV_Frame, Later
  <1>7. QED  BY <1>2, <1>4, <1>5, <1>6 DEF Typed

-----------------------------------------------------------------------------
(* SV_DirectConnect: who has a slot is given that one again.               *)

LEMMA SlotOfOwner ==
    ASSUME OneOwner, NEW c, NEW i \in SlotFor(c), NEW j \in Slots,
           slots[j].state # "FREE", slots[j].client = c
    PROVE  j = i
  <1>1. Owned(c) = {j}
    BY DEF Owned, OneOwner
  <1>2. LowestOf({j}) = j
    BY DEF LowestOf, Slots
  <1>3. QED  BY <1>1, <1>2 DEF SlotFor

LEMMA AcceptStep ==
    ASSUME Inv, NEW m \in net, NEW i \in SlotFor(m.client), Accept(m, i), UNCHANGED clc
    PROVE  Inv'
  <1> USE DEF Inv
  <1>1. m \in MessageRecord
    BY DEF Typed
  <1>2. m.client \in Clients /\ m.num \in Numbers \cup {NoNumber}
    BY <1>1 DEF MessageRecord
  <1> DEFINE r == Connected(m)
  <1>3. r \in ClientRecord /\ r.client = m.client /\ r.state = "CONNECTED"
    BY <1>2 DEF Connected, Free, ClientRecord
  <1>4. slots' = [slots EXCEPT ![i] = r] /\ game' = [game EXCEPT ![i] = TRUE]
    BY DEF Accept
  <1> HIDE DEF r
  <1>5. /\ slots' \in [Slots -> ClientRecord] /\ game' \in [Slots -> BOOLEAN]
        /\ \A j \in Slots : j = i => slots'[j] = r /\ game'[j] = TRUE
        /\ \A j \in Slots : j # i => slots'[j] = slots[j] /\ game'[j] = game[j]
        /\ abandoned' = abandoned \ {i}
    BY <1>3, <1>4 DEF Typed, Accept
  <1>6. Typed'
    <2>1. Message("connectResponse", m.client, m.num) \in MessageRecord
      BY <1>2, MessageTyped
    <2>2. net' \subseteq MessageRecord
      BY <2>1, SentTyped DEF Accept
    <2>3. QED  BY <1>5, <2>2 DEF Typed
  <1>7. OneOwner'
    <2>1. ASSUME NEW j \in Slots, NEW k \in Slots, slots'[j].state # "FREE",
                 slots'[k].state # "FREE", slots'[j].client = slots'[k].client, j # k
          PROVE  FALSE
      <3>1. CASE j # i /\ k # i
        BY <2>1, <3>1, <1>5 DEF OneOwner
      <3>2. CASE j = i
        <4>1. slots[k].state # "FREE" /\ slots[k].client = m.client
          BY <2>1, <3>2, <1>3, <1>5
        <4>2. QED  BY <4>1, <2>1, <3>2, SlotOfOwner
      <3>3. CASE k = i
        <4>1. slots[j].state # "FREE" /\ slots[j].client = m.client
          BY <2>1, <3>3, <1>3, <1>5
        <4>2. QED  BY <4>1, <2>1, <3>3, SlotOfOwner
      <3>4. QED  BY <3>1, <3>2, <3>3
    <2>2. QED  BY <2>1 DEF OneOwner
  <1>8. GameAgrees' /\ AbandonedAreFree'
    BY <1>3, <1>5 DEF GameAgrees, In, AbandonedAreFree
  <1>9. QED  BY <1>6, <1>7, <1>8

LEMMA ServerIsFullStep ==
    ASSUME Typed, NEW m \in net, ServerIsFull(m), UNCHANGED clc
    PROVE  Typed' /\ TameStep
  <1>1. m.client \in Clients
    BY DEF Typed, MessageRecord
  <1>2. Message("droperror", m.client, NoNumber) \in MessageRecord
    BY <1>1, MessageTyped
  <1>3. net' \subseteq MessageRecord /\ UNCHANGED <<slots, game, abandoned>>
    BY <1>2, SentTyped DEF ServerIsFull
  <1>4. QED  BY <1>3, IdleIsTame DEF Typed

\* A reconnect that is refused leaves a player of the game without a client.
LEMMA DenyStep ==
    ASSUME Inv, NEW m \in net, NEW i \in SlotFor(m.client), Deny(m, i), UNCHANGED clc
    PROVE  Inv'
  <1> USE DEF Inv
  <1>1. m.client \in Clients
    BY DEF Typed, MessageRecord
  <1>2. Message("droperror", m.client, NoNumber) \in MessageRecord
    BY <1>1, MessageTyped
  <1>3. net' \subseteq MessageRecord /\ UNCHANGED game
    BY <1>2, SentTyped DEF Deny
  <1>4. /\ slots' = [slots EXCEPT ![i] = Free]
        /\ abandoned' = IF In(i) THEN abandoned \cup {i} ELSE abandoned
    BY DEF Deny
  <1>5. /\ slots' \in [Slots -> ClientRecord]
        /\ \A j \in Slots : j = i => slots'[j] = Free /\ slots'[j].state = "FREE"
        /\ \A j \in Slots : j # i => slots'[j] = slots[j] /\ (j \in abandoned' <=> j \in abandoned)
    BY <1>4, FreeTyped DEF Typed, Free
  <1>6. Typed'
    BY <1>3, <1>5 DEF Typed
  <1>7. OneOwner'
    BY <1>5 DEF OneOwner
  <1>8. AbandonedAreFree'
    BY <1>5 DEF AbandonedAreFree
  <1>9. GameAgrees'
    <2> SUFFICES ASSUME NEW j \in Slots
                 PROVE  game[j] <=> Playing(slots'[j])
                                    \/ (slots'[j].state = "FREE" /\ j \in abandoned')
      BY <1>3 DEF GameAgrees, In, Playing
    <2>1. game[j] <=> In(j) \/ (slots[j].state = "FREE" /\ j \in abandoned)
      BY DEF GameAgrees
    <2>2. CASE j # i
      BY <1>5, <2>1, <2>2 DEF In, Playing
    <2>3. CASE j = i
      <3>1. slots'[j].state = "FREE" /\ ~Playing(slots'[j])
        BY <1>5, <2>3 DEF Playing
      <3>2. j \in abandoned' <=> In(j) \/ j \in abandoned
        BY <1>4, <2>3
      <3>3. j \in abandoned => slots[j].state = "FREE"
        BY DEF AbandonedAreFree
      <3>4. QED  BY <2>1, <3>1, <3>2, <3>3
    <2>4. QED  BY <2>2, <2>3
  <1>10. QED  BY <1>6, <1>7, <1>8, <1>9

-----------------------------------------------------------------------------
LEMMA InitInv == Init => Inv
  BY DisconnectedTyped, FreeTyped
     DEF Init, Inv, Typed, OneOwner, GameAgrees, AbandonedAreFree, In, Free

LEMMA ReceiveStep ==
    ASSUME Inv, NEW m \in net, Receive(m)
    PROVE  Inv'
  <1>1. m.client \in Clients
    BY DEF Inv, Typed, MessageRecord
  <1>2. CASE SV_DirectConnect(m)
    <2>1. CASE \E i \in SlotFor(m.client) : Accept(m, i)
      BY <1>2, <2>1, AcceptStep DEF SV_DirectConnect
    <2>2. CASE ServerIsFull(m)
      BY <1>2, <2>2, ServerIsFullStep, TamePreserves DEF SV_DirectConnect, Inv
    <2>3. CASE \E i \in SlotFor(m.client) : Deny(m, i)
      BY <1>2, <2>3, DenyStep DEF SV_DirectConnect
    <2>4. QED  BY <1>2, <2>1, <2>2, <2>3 DEF SV_DirectConnect
  <1>3. CASE ~SV_DirectConnect(m)
    <2>1. Typed' /\ TameStep
      BY <1>1, <1>3, GetChallengeStep, ChallengeResponseStep, ConnectResponseStep,
         DisconnectStep DEF Receive, CL_DropError, CL_DisconnectPacket, Inv
    <2>2. QED  BY <2>1, TamePreserves DEF Inv
  <1>4. QED  BY <1>2, <1>3

LEMMA NextInv == Inv /\ [Next]_vars => Inv'
  <1> SUFFICES ASSUME Inv, [Next]_vars
               PROVE  Inv'
    OBVIOUS
  <1>1. CASE \E m \in net : Receive(m)
    BY <1>1, ReceiveStep
  <1>2. CASE ~\E m \in net : Receive(m)
    <2>1. Typed
      BY DEF Inv
    <2>2. CASE UNCHANGED vars
      BY <2>1, <2>2, IdleIsTame, TamePreserves DEF vars, Inv, Typed
    <2>3. CASE \E c \in Clients : CL_Connect(c) \/ CL_Disconnect(c) \/ CL_CheckForResend(c)
                                    \/ StrayPacket(c)
      BY <2>1, <2>3, ConnectStep, DisconnectStep, CheckForResendStep, StrayPacketStep,
         TamePreserves DEF Inv
    <2>4. CASE \E i \in Slots : \/ ClientPacket(i) \/ GameState(i) \/ Drop(i) \/ Kick(i)
                                \/ KickZombie(i) \/ LastMessage(i)
      BY <2>1, <2>4, ClientPacketStep, GameStateStep, DropAndKickStep, KickZombieStep,
         LastMessageStep, TamePreserves DEF Inv
    <2>5. CASE \E denied \in SUBSET {i \in Slots : In(i)} :
                  SV_SpawnServer(denied) \/ SV_Restart(denied)
      BY <2>1, <2>5, SpawnServerStep, RestartStep, TamePreserves DEF Inv
    <2>6. CASE SV_Frame
      BY <2>1, <2>6, FrameStep, TamePreserves DEF Inv
    <2>7. QED  BY <1>2, <2>2, <2>3, <2>4, <2>5, <2>6 DEF Next
  <1>3. QED  BY <1>1, <1>2

LEMMA OneOwnerCounts == OneOwner => OneSlotEach
  <1> SUFFICES ASSUME OneOwner, NEW c \in Clients
               PROVE  Cardinality(Owned(c)) <= 1
    BY DEF OneSlotEach
  <1>1. CASE Owned(c) = {}
    BY <1>1, FS_EmptySet
  <1>2. CASE \E i : Owned(c) = {i}
    BY <1>2, FS_Singleton
  <1>3. Owned(c) = {} \/ \E i : Owned(c) = {i}
    BY DEF Owned, OneOwner
  <1>4. QED  BY <1>1, <1>2, <1>3

\* However connects are repeated and delayed, however often the client comes
\* back and whatever else happens to its slot, it holds at most one.
THEOREM ClientsHoldOneSlot == Spec => []OneSlotEach
  <1>1. Inv => OneSlotEach
    BY OneOwnerCounts DEF Inv
  <1>2. QED  BY InitInv, NextInv, <1>1, PTL DEF Spec

\* The game's players are the clients of the slots in use, and those it was not
\* told of when it refused their reconnect, through drops, kicks, timeouts,
\* reconnects, new maps and restarts.
THEOREM GameKnowsItsPlayers == Spec => []GameAgrees
  <1>1. Inv => GameAgrees
    BY DEF Inv
  <1>2. QED  BY InitInv, NextInv, <1>1, PTL DEF Spec

-----------------------------------------------------------------------------
\* A message does not outlive half the time for which a client is not connected
\* again, nor half that after which its slot may come free.
Prompt ==
    /\ 2 * Lifetime < sv_reconnectlimit
    /\ 2 * Lifetime <= sv_zombietime
    /\ 2 * Lifetime <= sv_timeout

(* The first packet.  A client in the game that has the gamestate must not *)
(* get a new client_t by a connect it sent before: such a connect is not   *)
(* older than Lifetime, and was sent before the client took the answer to  *)
(* one that was accepted, which is not older than Lifetime either.  As     *)
(* long as it may arrive the slot is found, and is too young.              *)

UsesSlot(c) == \E i \in Slots : slots[i].state # "FREE" /\ slots[i].client = c

\* What a slot knows of the last packet is not older than the connection.
HeardSince ==
    \A i \in Slots : slots[i].state # "FREE" =>
        \/ slots[i].lastPacket <= slots[i].lastConnect
        \/ slots[i].lastConnect = sv_reconnectlimit

AnswersAreOfNow ==
    \A i \in Slots, m \in net :
        slots[i].state # "FREE" /\ m.type = "connectResponse" /\ m.client = slots[i].client
        => slots[i].lastConnect <= m.age

OldConnects ==
    \A m \in net :
        m.type = "connect" /\ clc[m.client].state = "CONNECTED" =>
            /\ \A i \in Slots : slots[i].state # "FREE" /\ slots[i].client = m.client
                                => slots[i].lastConnect <= m.age + Lifetime
            /\ clc[m.client].gamestate => UsesSlot(m.client)

TimesInv ==
    /\ \A m \in net : m.age <= Lifetime
    /\ \A i \in Slots : slots[i].state # "FREE" => slots[i].client \in Clients
    /\ \A c \in Clients : clc[c].gamestate => clc[c].state = "CONNECTED"
    /\ HeardSince
    /\ AnswersAreOfNow
    /\ OldConnects
    /\ FirstPacketForcesGameState

Calm ==
    /\ \A i \in Slots :
        /\ slots'[i].state = "FREE" <=> slots[i].state = "FREE"
        /\ slots'[i].client = slots[i].client
        /\ slots'[i].challenge = slots[i].challenge
        /\ slots'[i].lastConnect = slots[i].lastConnect
        /\ slots'[i].lastPacket \in {slots[i].lastPacket, 0}
        /\ slots'[i].state = "CONNECTED" =>
             slots[i].state = "CONNECTED" \/ \A c \in Clients : ~clc'[c].gamestate
    /\ \A c \in Clients :
        /\ clc'[c].gamestate => clc[c].gamestate /\ clc'[c].state = "CONNECTED"
        /\ clc'[c].state = "CONNECTED" =>
             clc[c].state = "CONNECTED" /\ clc'[c].challenge = clc[c].challenge
    /\ \A m \in net' :
        \/ m \in net
        \/ /\ m.age = 0 /\ m.type # "connectResponse" /\ m.client \in Clients
           /\ m.type = "connect" => clc'[m.client].state # "CONNECTED"

LEMMA SlotFields ==
    ASSUME Typed, NEW i \in Slots
    PROVE  /\ slots[i] \in ClientRecord
           /\ slots[i].lastConnect \in Nat /\ slots[i].lastPacket \in Nat
  BY DEF Typed, ClientRecord

LEMMA MessageFields ==
    ASSUME Typed, NEW m \in net
    PROVE  m \in MessageRecord /\ m.client \in Clients /\ m.age \in Nat
  BY DEF Typed, MessageRecord

\* Most steps make no client_t and answer no connect.
LEMMA CalmKeeps ==
    ASSUME Typed, TimesInv, Calm
    PROVE  TimesInv'
  <1>1. Lifetime \in Nat /\ sv_reconnectlimit \in Nat
    BY ConnectionAssumption
  <1>2. \A m \in net' : m.age <= Lifetime
    BY <1>1 DEF TimesInv, Calm
  <1>3. \A i \in Slots : slots'[i].state # "FREE" => slots'[i].client \in Clients
    BY DEF TimesInv, Calm
  <1>4. \A c \in Clients : clc'[c].gamestate => clc'[c].state = "CONNECTED"
    BY DEF Calm
  <1>5. HeardSince'
    <2> SUFFICES ASSUME NEW i \in Slots, slots'[i].state # "FREE"
                 PROVE  \/ slots'[i].lastPacket <= slots'[i].lastConnect
                        \/ slots'[i].lastConnect = sv_reconnectlimit
      BY DEF HeardSince
    <2>1. /\ slots[i].state # "FREE" /\ slots'[i].lastConnect = slots[i].lastConnect
          /\ slots'[i].lastPacket \in {slots[i].lastPacket, 0}
      BY DEF Calm
    <2>2. \/ slots[i].lastPacket <= slots[i].lastConnect
          \/ slots[i].lastConnect = sv_reconnectlimit
      BY <2>1 DEF TimesInv, HeardSince
    <2>3. QED  BY <2>1, <2>2, SlotFields
  <1>6. AnswersAreOfNow'
    <2> SUFFICES ASSUME NEW i \in Slots, NEW m \in net', slots'[i].state # "FREE",
                        m.type = "connectResponse", m.client = slots'[i].client
                 PROVE  slots'[i].lastConnect <= m.age
      BY DEF AnswersAreOfNow
    <2>1. /\ slots[i].state # "FREE" /\ slots'[i].lastConnect = slots[i].lastConnect
          /\ m.client = slots[i].client /\ m \in net
      BY DEF Calm
    <2>2. QED  BY <2>1 DEF TimesInv, AnswersAreOfNow
  <1>7. OldConnects'
    <2> SUFFICES ASSUME NEW m \in net', m.type = "connect", clc'[m.client].state = "CONNECTED"
                 PROVE  /\ \A i \in Slots :
                             slots'[i].state # "FREE" /\ slots'[i].client = m.client
                             => slots'[i].lastConnect <= m.age + Lifetime
                        /\ clc'[m.client].gamestate => UsesSlot(m.client)'
      BY DEF OldConnects, UsesSlot
    <2>1. m \in net /\ m.client \in Clients
      BY MessageFields DEF Calm
    <2>2. clc[m.client].state = "CONNECTED" /\ (clc'[m.client].gamestate => clc[m.client].gamestate)
      BY <2>1 DEF Calm
    <2>3. /\ \A i \in Slots : slots[i].state # "FREE" /\ slots[i].client = m.client
                                => slots[i].lastConnect <= m.age + Lifetime
          /\ clc[m.client].gamestate => UsesSlot(m.client)
      BY <2>1, <2>2 DEF TimesInv, OldConnects
    <2>4. QED  BY <2>2, <2>3 DEF Calm, UsesSlot
  <1>8. FirstPacketForcesGameState'
    <2> SUFFICES ASSUME NEW i \in Slots, slots'[i].state = "CONNECTED",
                        clc'[slots'[i].client].state = "CONNECTED",
                        clc'[slots'[i].client].challenge = slots'[i].challenge,
                        clc'[slots'[i].client].gamestate
                 PROVE  FALSE
      BY DEF FirstPacketForcesGameState
    <2> DEFINE c == slots[i].client
    <2>1. /\ slots'[i].client = c /\ slots'[i].challenge = slots[i].challenge
          /\ c \in Clients /\ slots[i].state # "FREE"
      BY DEF Calm, TimesInv
    <2> HIDE DEF c
    <2>2. slots[i].state = "CONNECTED"
      BY <2>1 DEF Calm
    <2>3. /\ clc[c].state = "CONNECTED" /\ clc[c].challenge = slots[i].challenge
          /\ clc[c].gamestate
      BY <2>1 DEF Calm
    <2>4. QED  BY <2>2, <2>3 DEF TimesInv, FirstPacketForcesGameState, c
  <1>9. QED  BY <1>2, <1>3, <1>4, <1>5, <1>6, <1>7, <1>8 DEF TimesInv

\* What is sent replaces a copy of itself.
LEMMA SentIs ==
    ASSUME NEW type, NEW c, NEW n, NEW k \in Sent(Message(type, c, n))
    PROVE  k \in net \/ (k.age = 0 /\ k.type = type /\ k.client = c)
  BY DEF Sent, Message

LEMMA ClientStepsAreCalm ==
    ASSUME Typed, TimesInv, NEW c \in Clients,
           \/ CL_Connect(c) \/ CL_CheckForResend(c) \/ StrayPacket(c)
           \/ \E m \in net : m.client = c /\ (CL_ChallengeResponse(m) \/ SV_GetChallenge(m))
    PROVE  Calm
  <1>1. UNCHANGED slots
    BY DEF CL_Connect, CL_CheckForResend, StrayPacket, CL_ChallengeResponse, SV_GetChallenge
  <1>2. clc[c] \in ConnectionRecord /\ \A d \in Clients : clc[d].gamestate => clc[d].state = "CONNECTED"
    BY DEF Typed, TimesInv
  <1>3. \A d \in Clients : d # c => clc'[d] = clc[d]
    BY DEF Typed, CL_Connect, CL_CheckForResend, StrayPacket, CL_ChallengeResponse,
           SV_GetChallenge
  <1>4. CASE CL_Connect(c)
    <2>1. clc'[c].state = "CONNECTING" /\ clc'[c].gamestate = clc[c].gamestate
          /\ clc[c].state = "DISCONNECTED" /\ net' = net
      BY <1>2, <1>4 DEF CL_Connect, Typed, ConnectionRecord
    <2>2. QED  BY <1>1, <1>2, <1>3, <2>1 DEF Calm
  <1>5. CASE CL_CheckForResend(c)
    <2>1. /\ clc'[c].state = clc[c].state /\ clc[c].state # "CONNECTED"
          /\ clc'[c].gamestate = clc[c].gamestate
      BY <1>2, <1>5 DEF CL_CheckForResend, Typed, ConnectionRecord
    <2>2. \A m \in net' : m \in net \/ (m.age = 0 /\ m.type # "connectResponse" /\ m.client = c)
      <3>1. net' = Sent(Message("getchallenge", c, NoNumber))
              \/ net' = Sent(Message("connect", c, clc[c].challenge))
        BY <1>5 DEF CL_CheckForResend, Request
      <3>2. QED  BY <3>1, SentIs
    <2>3. QED  BY <1>1, <1>2, <1>3, <2>1, <2>2 DEF Calm
  <1>6. CASE StrayPacket(c)
    <2>1. clc' = clc /\ net' = Sent(Message("disconnect", c, NoNumber))
      BY <1>6 DEF StrayPacket
    <2>2. QED  BY <1>1, <1>2, <2>1, SentIs DEF Calm
  <1>7. CASE \E m \in net : m.client = c /\ CL_ChallengeResponse(m)
    <2>1. clc'[c].state = "CHALLENGING" /\ ~clc'[c].gamestate /\ net' = net
      BY <1>7 DEF CL_ChallengeResponse, Typed
    <2>2. QED  BY <1>1, <1>2, <1>3, <2>1 DEF Calm
  <1>8. CASE \E m \in net : m.client = c /\ SV_GetChallenge(m)
    <2>1. clc' = clc /\ \E n : net' = Sent(Message("challengeResponse", c, n))
      BY <1>8 DEF SV_GetChallenge
    <2>2. QED  BY <1>1, <1>2, <2>1, SentIs DEF Calm
  <1>9. QED  BY <1>4, <1>5, <1>6, <1>7, <1>8

\* One slot changes, but its owner and the time of its connect.
LEMMA SlotStepIsCalm ==
    ASSUME Typed, TimesInv, NEW i \in Slots, NEW r, slots' = [slots EXCEPT ![i] = r],
           r.state = "FREE" <=> slots[i].state = "FREE",
           r.client = slots[i].client, r.challenge = slots[i].challenge,
           r.lastConnect = slots[i].lastConnect,
           r.lastPacket \in {slots[i].lastPacket, 0},
           r.state = "CONNECTED" => slots[i].state = "CONNECTED",
           \A c \in Clients : clc'[c] = clc[c] \/ clc'[c] = Disconnected,
           net' = net
    PROVE  Calm
  <1>1. slots'[i] = r /\ \A j \in Slots : j # i => slots'[j] = slots[j]
    BY DEF Typed
  <1>2. Disconnected.state = "DISCONNECTED" /\ ~Disconnected.gamestate
    BY DEF Disconnected
  <1>3. \A c \in Clients : clc[c].gamestate => clc[c].state = "CONNECTED"
    BY DEF TimesInv
  <1>4. QED  BY <1>1, <1>2, <1>3 DEF Calm

LEMMA HeardFields ==
    ASSUME NEW s \in ClientRecord
    PROVE  \A r \in {Zombie(s), Heard(s), Alive(s), Heard(Zombie(s)), Zombie(Alive(s))} :
             /\ r \in ClientRecord
             /\ r.state \in {s.state, "ZOMBIE"} /\ r.client = s.client
             /\ r.challenge = s.challenge /\ r.lastConnect = s.lastConnect
             /\ r.lastPacket \in {s.lastPacket, 0}
  <1> DEFINE Same(r) ==
               /\ r \in ClientRecord
               /\ r.state \in {s.state, "ZOMBIE"} /\ r.client = s.client
               /\ r.challenge = s.challenge /\ r.lastConnect = s.lastConnect
               /\ r.lastPacket \in {s.lastPacket, 0}
  <1>1. Same(Zombie(s))
    BY DEF ClientRecord, Zombie
  <1>2. Same(Heard(s))
    BY DEF ClientRecord, Heard
  <1>3. Same(Alive(s))
    BY DEF ClientRecord, Alive, Heard
  <1>4. Same(Heard(Zombie(s)))
    BY DEF ClientRecord, Heard, Zombie
  <1>5. Same(Zombie(Alive(s)))
    BY DEF ClientRecord, Zombie, Alive, Heard
  <1>6. QED  BY <1>1, <1>2, <1>3, <1>4, <1>5

LEMMA SlotStepsAreCalm ==
    ASSUME Typed, TimesInv, NEW i \in Slots,
           \/ Drop(i) \/ Kick(i) \/ KickZombie(i) \/ ClientPacket(i) \/ LastMessage(i)
    PROVE  Calm
  <1>1. slots[i] \in ClientRecord
    BY DEF Typed
  <1>2. CASE Drop(i) \/ Kick(i) \/ KickZombie(i)
    <2>1. PICK r \in {Zombie(slots[i]), Heard(Zombie(slots[i])), Heard(slots[i])} :
             slots' = [slots EXCEPT ![i] = r]
      BY <1>2 DEF Drop, Kick, KickZombie
    <2>2. slots[i].state # "FREE" /\ UNCHANGED <<clc, net>>
      BY <1>2 DEF Drop, Kick, KickZombie, In
    <2>3. /\ r.state \in {slots[i].state, "ZOMBIE"} /\ r.client = slots[i].client
          /\ r.challenge = slots[i].challenge /\ r.lastConnect = slots[i].lastConnect
          /\ r.lastPacket \in {slots[i].lastPacket, 0}
      BY <1>1, <2>1, HeardFields
    <2>4. QED  BY <2>1, <2>2, <2>3, SlotStepIsCalm
  <1>3. CASE ClientPacket(i)
    <2> DEFINE a == Alive(slots[i])
               g == clc[slots[i].client].gamestate
               r == Executed(a, g)
    <2>1. slots' = [slots EXCEPT ![i] = r] /\ UNCHANGED <<clc, net>>
          /\ slots[i].state # "FREE"
      BY <1>3 DEF ClientPacket, InChannel
    <2>2. /\ a \in ClientRecord /\ a.state = slots[i].state /\ a.client = slots[i].client
          /\ a.challenge = slots[i].challenge /\ a.lastConnect = slots[i].lastConnect
          /\ a.lastPacket \in {slots[i].lastPacket, 0}
      BY <1>1, HeardFields, ZombieAndAliveTyped
    <2>3. r \in {a, [a EXCEPT !.state = "PRIMED"], [a EXCEPT !.state = "ACTIVE"]}
      BY DEF Executed
    <2> HIDE DEF a, r, g
    <2>4. /\ r.state \in {a.state, "PRIMED", "ACTIVE"} /\ r.client = a.client
          /\ r.challenge = a.challenge /\ r.lastConnect = a.lastConnect
          /\ r.lastPacket = a.lastPacket
      BY <2>2, <2>3 DEF ClientRecord
    <2>5. QED  BY <2>1, <2>2, <2>4, SlotStepIsCalm
  <1>4. CASE LastMessage(i)
    <2>1. /\ slots' = [slots EXCEPT ![i] = slots[i]] /\ net' = net
          /\ clc' = [clc EXCEPT ![slots[i].client] = Disconnected]
      BY <1>4 DEF LastMessage, LeaveUnnoticed, Typed
    <2>2. \A c \in Clients : clc'[c] = clc[c] \/ clc'[c] = Disconnected
      BY <2>1 DEF Typed
    <2>3. QED  BY <2>1, <2>2, SlotStepIsCalm
  <1>5. QED  BY <1>2, <1>3, <1>4

LEMMA DisconnectIsCalm ==
    ASSUME Typed, TimesInv, NEW c \in Clients, CL_Disconnect(c)
    PROVE  Calm
  <1>1. net' = net /\ clc' = [clc EXCEPT ![c] = Disconnected]
    BY DEF CL_Disconnect, LeaveUnnoticed, SV_Disconnect_f
  <1>2. \A d \in Clients : clc'[d] = clc[d] \/ clc'[d] = Disconnected
    BY <1>1 DEF Typed
  <1>3. CASE LeaveUnnoticed(c)
    <2>1. UNCHANGED slots
      BY <1>3 DEF LeaveUnnoticed
    <2>2. Disconnected.state = "DISCONNECTED" /\ ~Disconnected.gamestate
      BY DEF Disconnected
    <2>3. \A d \in Clients : clc[d].gamestate => clc[d].state = "CONNECTED"
      BY DEF TimesInv
    <2>4. QED  BY <1>1, <1>2, <2>1, <2>2, <2>3 DEF Calm
  <1>4. CASE \E i \in Slots : SV_Disconnect_f(c, i)
    <2>1. PICK i \in Slots : SV_Disconnect_f(c, i)
      BY <1>4
    <2> DEFINE r == Zombie(Alive(slots[i]))
    <2>2. slots[i] \in ClientRecord
      BY DEF Typed
    <2>3. /\ r.client = slots[i].client
          /\ r.challenge = slots[i].challenge /\ r.lastConnect = slots[i].lastConnect
          /\ r.lastPacket \in {slots[i].lastPacket, 0}
      BY <2>2, HeardFields
    <2>4. r.state = "ZOMBIE"
      BY <2>2, ZombieAndAliveTyped
    <2>5. slots' = [slots EXCEPT ![i] = r] /\ slots[i].state # "FREE"
      BY <2>1 DEF SV_Disconnect_f, InChannel
    <2> HIDE DEF r
    <2>6. QED  BY <1>1, <1>2, <2>3, <2>4, <2>5, SlotStepIsCalm
  <1>5. QED  BY <1>3, <1>4 DEF CL_Disconnect

LEMMA LevelStepIsCalm ==
    ASSUME Typed, TimesInv, NEW denied \in SUBSET {i \in Slots : In(i)},
           SV_SpawnServer(denied) \/ SV_Restart(denied)
    PROVE  Calm
  <1>1. PICK state \in {"CONNECTED", "ACTIVE"} :
           /\ slots' = [i \in Slots |-> IF i \in denied THEN Zombie(slots[i])
                                        ELSE IF In(i) THEN [slots[i] EXCEPT !.state = state]
                                        ELSE slots[i]]
           /\ state = "ACTIVE" \/ clc' = [c \in Clients |-> [clc[c] EXCEPT !.gamestate = FALSE]]
           /\ \/ clc' = clc
              \/ clc' = [c \in Clients |-> [clc[c] EXCEPT !.gamestate = FALSE]]
           /\ net' = net
    BY DEF SV_SpawnServer, SV_Restart
  <1>2. ASSUME NEW c \in Clients
        PROVE  /\ clc'[c].state = clc[c].state /\ clc'[c].challenge = clc[c].challenge
               /\ clc'[c].gamestate => clc[c].gamestate
               /\ state = "CONNECTED" => ~clc'[c].gamestate
    <2>1. clc[c] \in ConnectionRecord
      BY DEF Typed
    <2>2. QED  BY <1>1, <2>1 DEF ConnectionRecord
  <1>3. ASSUME NEW i \in Slots
        PROVE  /\ slots'[i].state = "FREE" <=> slots[i].state = "FREE"
               /\ slots'[i].client = slots[i].client
               /\ slots'[i].challenge = slots[i].challenge
               /\ slots'[i].lastConnect = slots[i].lastConnect
               /\ slots'[i].lastPacket = slots[i].lastPacket
               /\ slots'[i].state = "CONNECTED" => slots[i].state = "CONNECTED"
                                                   \/ state = "CONNECTED"
    <2>1. slots[i] \in ClientRecord
      BY DEF Typed
    <2>2. CASE i \in denied
      BY <1>1, <2>1, <2>2 DEF In, Zombie, ClientRecord
    <2>3. CASE i \notin denied
      BY <1>1, <2>1, <2>3 DEF In, ClientRecord
    <2>4. QED  BY <2>2, <2>3
  <1>4. \A c \in Clients : clc[c].gamestate => clc[c].state = "CONNECTED"
    BY DEF TimesInv
  <1>5. QED  BY <1>1, <1>2, <1>3, <1>4 DEF Calm

\* A slot is written, and a message about it may be sent.
LEMMA WrittenSlot ==
    ASSUME Typed, NEW i \in Slots, NEW r, slots' = [slots EXCEPT ![i] = r]
    PROVE  slots'[i] = r /\ \A j \in Slots : j # i => slots'[j] = slots[j]
  BY DEF Typed

LEMMA FullIsCalm ==
    ASSUME Typed, TimesInv, NEW m \in net, ServerIsFull(m), UNCHANGED clc
    PROVE  Calm
  <1>1. m.client \in Clients /\ net' = Sent(Message("droperror", m.client, NoNumber))
    BY MessageFields DEF ServerIsFull
  <1>2. \A c \in Clients : clc[c].gamestate => clc[c].state = "CONNECTED"
    BY DEF TimesInv
  <1>3. UNCHANGED <<slots, clc>>
    BY DEF ServerIsFull
  <1>4. QED  BY <1>1, <1>2, <1>3, SentIs DEF Calm

\* The gamestate of the slot a client uses.
LEMMA GameStateTimes ==
    ASSUME Inv, TimesInv, NEW i \in Slots, GameState(i)
    PROVE  TimesInv'
  <1> DEFINE c == slots[i].client
  <1>1. /\ slots[i].state = "PRIMED" /\ c \in Clients /\ clc[c].state = "CONNECTED"
        /\ UNCHANGED <<slots, net>>
    BY DEF GameState, InChannel, TimesInv
  <1>2. /\ clc'[c].state = "CONNECTED"
        /\ \A d \in Clients : clc'[d].state = clc[d].state
        /\ \A d \in Clients : d # c => clc'[d] = clc[d]
    <2>1. clc[c] \in ConnectionRecord
      BY <1>1 DEF Inv, Typed
    <2>2. clc' = [clc EXCEPT ![c] = [clc[c] EXCEPT !.gamestate = TRUE]]
      BY <2>1 DEF GameState, ConnectionRecord
    <2>3. clc' = [clc EXCEPT ![c] = clc'[c]] /\ clc'[c].state = "CONNECTED"
      BY <1>1, <2>1, <2>2 DEF Inv, Typed, ConnectionRecord
    <2>4. QED  BY <1>1, <2>1, <2>2, <2>3 DEF Inv, Typed, ConnectionRecord
  <1>3. UsesSlot(c)'
    BY <1>1 DEF UsesSlot
  <1>4. OldConnects'
    <2> SUFFICES ASSUME NEW m \in net, m.type = "connect", clc'[m.client].state = "CONNECTED"
                 PROVE  /\ \A j \in Slots :
                             slots[j].state # "FREE" /\ slots[j].client = m.client
                             => slots[j].lastConnect <= m.age + Lifetime
                        /\ clc'[m.client].gamestate => UsesSlot(m.client)'
      BY <1>1 DEF OldConnects, UsesSlot
    <2>1. m.client \in Clients
      BY MessageFields DEF Inv
    <2>2. clc[m.client].state = "CONNECTED"
      BY <1>2, <2>1
    <2>3. m.client = c \/ clc'[m.client] = clc[m.client]
      BY <1>2, <2>1
    <2>4. /\ \A j \in Slots : slots[j].state # "FREE" /\ slots[j].client = m.client
                                => slots[j].lastConnect <= m.age + Lifetime
          /\ clc[m.client].gamestate => UsesSlot(m.client)
      BY <2>2 DEF TimesInv, OldConnects
    <2>5. UsesSlot(m.client)' <=> UsesSlot(m.client)
      BY <1>1 DEF UsesSlot
    <2>6. m.client = c => UsesSlot(m.client)
      BY <1>1 DEF UsesSlot
    <2> HIDE DEF c
    <2>7. QED  BY <2>3, <2>4, <2>5, <2>6
  <1>5. FirstPacketForcesGameState'
    <2> SUFFICES ASSUME NEW j \in Slots, slots[j].state = "CONNECTED",
                        clc'[slots[j].client].state = "CONNECTED",
                        clc'[slots[j].client].challenge = slots[j].challenge,
                        clc'[slots[j].client].gamestate
                 PROVE  FALSE
      BY <1>1 DEF FirstPacketForcesGameState
    <2>1. slots[j].client \in Clients
      BY DEF TimesInv
    <2>2. slots[j].client # c
      BY <1>1 DEF Inv, OneOwner
    <2>3. clc'[slots[j].client] = clc[slots[j].client]
      BY <1>2, <2>1, <2>2
    <2>4. QED  BY <2>3 DEF TimesInv, FirstPacketForcesGameState
  <1>6. \A d \in Clients : clc'[d].gamestate => clc'[d].state = "CONNECTED"
    BY <1>2 DEF TimesInv
  <1>7. QED  BY <1>1, <1>4, <1>5, <1>6 DEF TimesInv, HeardSince, AnswersAreOfNow

\* The answer that a client takes to its connect.
LEMMA ConnectResponseTimes ==
    ASSUME Inv, TimesInv, NEW r \in net, CL_ConnectResponse(r)
    PROVE  TimesInv'
  <1> DEFINE c == r.client
  <1>1. /\ c \in Clients /\ r.age \in Nat /\ r.age <= Lifetime /\ Lifetime \in Nat
        /\ r.type = "connectResponse" /\ clc[c].state = "CHALLENGING"
        /\ UNCHANGED <<slots, net>>
    BY MessageFields, ConnectionAssumption DEF CL_ConnectResponse, Inv, TimesInv
  <1>2. /\ ~clc'[c].gamestate /\ clc'[c].state = "CONNECTED"
        /\ \A d \in Clients : d # c => clc'[d] = clc[d]
    <2>1. clc[c] \in ConnectionRecord /\ ~clc[c].gamestate
      BY <1>1 DEF Inv, Typed, TimesInv
    <2>2. clc' = [clc EXCEPT ![c] = [clc[c] EXCEPT !.state = "CONNECTED", !.sent = 0]]
      BY <2>1 DEF CL_ConnectResponse, ConnectionRecord
    <2>3. QED  BY <1>1, <2>1, <2>2 DEF Inv, Typed, ConnectionRecord
  <1>3. \A j \in Slots : slots[j].state # "FREE" /\ slots[j].client = c
                           => slots[j].lastConnect <= Lifetime
    <2> SUFFICES ASSUME NEW j \in Slots, slots[j].state # "FREE", slots[j].client = c
                 PROVE  slots[j].lastConnect <= Lifetime
      OBVIOUS
    <2>1. slots[j].lastConnect <= r.age
      BY <1>1 DEF TimesInv, AnswersAreOfNow
    <2>2. slots[j].lastConnect \in Nat
      BY SlotFields DEF Inv
    <2>3. QED  BY <1>1, <2>1, <2>2
  <1>4. OldConnects'
    <2> SUFFICES ASSUME NEW m \in net, m.type = "connect", clc'[m.client].state = "CONNECTED"
                 PROVE  /\ \A j \in Slots :
                             slots[j].state # "FREE" /\ slots[j].client = m.client
                             => slots[j].lastConnect <= m.age + Lifetime
                        /\ clc'[m.client].gamestate => UsesSlot(m.client)'
      BY <1>1 DEF OldConnects, UsesSlot
    <2>1. m.client \in Clients /\ m.age \in Nat
      BY MessageFields DEF Inv
    <2>2. CASE m.client = c
      <3>1. \A j \in Slots : slots[j].lastConnect \in Nat
        BY SlotFields DEF Inv
      <3>2. QED  BY <1>1, <1>2, <1>3, <2>1, <2>2, <3>1
    <2>3. CASE m.client # c
      <3>1. clc'[m.client] = clc[m.client]
        BY <1>2, <2>1, <2>3
      <3>2. QED  BY <1>1, <3>1 DEF TimesInv, OldConnects, UsesSlot
    <2>4. QED  BY <2>2, <2>3
  <1>5. FirstPacketForcesGameState'
    <2> SUFFICES ASSUME NEW j \in Slots, slots[j].state = "CONNECTED",
                        clc'[slots[j].client].state = "CONNECTED",
                        clc'[slots[j].client].challenge = slots[j].challenge,
                        clc'[slots[j].client].gamestate
                 PROVE  FALSE
      BY <1>1 DEF FirstPacketForcesGameState
    <2>1. slots[j].client \in Clients
      BY DEF TimesInv
    <2>2. clc'[slots[j].client] = clc[slots[j].client]
      BY <1>2, <2>1
    <2>3. QED  BY <2>2 DEF TimesInv, FirstPacketForcesGameState
  <1>6. \A d \in Clients : clc'[d].gamestate => clc'[d].state = "CONNECTED"
    BY <1>2 DEF TimesInv
  <1>7. QED  BY <1>1, <1>4, <1>5, <1>6 DEF TimesInv, HeardSince, AnswersAreOfNow

\* A connect that the server looks at is not of a client in the game: that one
\* has a slot, which was given to it too short a time ago.
LEMMA ConnectIsNotOld ==
    ASSUME Prompt, Inv, TimesInv, NEW m \in net, m.type = "connect", ~TooSoon(m.client)
    PROVE  ~clc[m.client].gamestate
  <1> SUFFICES ASSUME clc[m.client].gamestate
               PROVE  FALSE
    OBVIOUS
  <1> DEFINE c == m.client
  <1>1. c \in Clients /\ m.age \in Nat /\ m.age <= Lifetime
    BY MessageFields DEF Inv, TimesInv
  <1>2. clc[c].state = "CONNECTED"
    BY <1>1 DEF TimesInv
  <1>3. PICK j \in Slots : slots[j].state # "FREE" /\ slots[j].client = c
    BY <1>2 DEF TimesInv, OldConnects, UsesSlot
  <1>4. slots[j].lastConnect <= m.age + Lifetime
    BY <1>2, <1>3 DEF TimesInv, OldConnects
  <1>5. Owned(c) = {j}
    BY <1>3 DEF Inv, OneOwner, Owned
  <1>6. LowestOf({j}) = j
    BY DEF LowestOf, Slots
  <1>7. slots[j].lastConnect < sv_reconnectlimit
    <2>1. slots[j].lastConnect \in Nat /\ {Lifetime, sv_reconnectlimit} \subseteq Nat
      BY SlotFields, ConnectionAssumption DEF Inv
    <2>2. QED  BY <1>1, <1>4, <2>1 DEF Prompt
  <1>8. QED  BY <1>5, <1>6, <1>7 DEF TooSoon

\* LowestOf is a member of its set.
LEMMA LowestExists ==
    ASSUME NEW T \in SUBSET Nat, T # {}
    PROVE  \E x \in T : \A y \in T : x <= y
  <1> DEFINE F == {0 .. m : m \in T}
  <1>1. F \subseteq FiniteSubsetsOf(Nat) /\ F # {}
    <2>1. \A m \in T : 0 .. m \in SUBSET Nat /\ IsFiniteSet(0 .. m)
      BY FS_Interval
    <2> QED
      BY <2>1 DEF FiniteSubsetsOf
  <1> HIDE DEF F
  <1>2. PICK U \in F : \A V \in F : <<V, U>> \notin StrictSubsetOrdering(Nat)
    BY <1>1, WFMin, FS_StrictSubsetOrderingWellFounded
  <1>3. \A V \in F : V \subseteq U => V = U
    BY <1>1, <1>2 DEF StrictSubsetOrdering, FiniteSubsetsOf
  <1>4. PICK x \in T : U = 0 .. x
    BY DEF F
  <1>5. ASSUME NEW y \in T PROVE x <= y
    <2>1. 0 .. y \in F
      BY DEF F
    <2>2. SUFFICES ASSUME y < x PROVE FALSE
      BY <1>4
    <2>3. 0 .. y \subseteq U /\ x \in U /\ x \notin 0 .. y
      BY <1>4, <2>2
    <2> QED
      BY <2>1, <2>3, <1>3
  <1> QED
    BY <1>5

LEMMA SlotForIs ==
    ASSUME OneOwner, NEW c, NEW i \in SlotFor(c)
    PROVE  i \in Slots /\ (slots[i].state = "FREE" \/ slots[i].client = c)
  <1>1. CASE Owned(c) # {}
    <2>1. PICK j \in Slots : Owned(c) = {j}
      BY <1>1 DEF Owned, OneOwner
    <2>2. LowestOf({j}) = j
      BY DEF LowestOf, Slots
    <2>3. QED  BY <1>1, <2>1, <2>2 DEF SlotFor, Owned
  <1>2. CASE Owned(c) = {}
    <2> DEFINE free == {k \in Slots : slots[k].state = "FREE"}
    <2>1. free # {} /\ i = LowestOf(free)
      BY <1>2 DEF SlotFor
    <2>2. PICK x \in free : \A y \in free : x <= y
      <3>1. free \subseteq Nat /\ free # {}
        BY <2>1 DEF Slots
      <3>2. QED  BY <3>1, LowestExists
    <2>3. LowestOf(free) \in free
      BY <2>2 DEF LowestOf
    <2>4. QED  BY <2>1, <2>3
  <1>3. QED  BY <1>1, <1>2

\* The slot found for a connect is written: by its new client_t or cleared.
LEMMA GivenOrClearedTimes ==
    ASSUME Inv, TimesInv, NEW m \in net, NEW i \in SlotFor(m.client),
           NEW r \in {Connected(m), Free}, slots' = [slots EXCEPT ![i] = r],
           ~clc[m.client].gamestate, UNCHANGED clc,
           \A k \in net' : k \in net \/ /\ k.age = 0 /\ k.client = m.client
                                        /\ k.type \in {"connectResponse", "droperror"}
    PROVE  TimesInv'
  <1> DEFINE c == m.client
  <1>1. c \in Clients /\ Lifetime \in Nat /\ i \in Slots
    BY MessageFields, SlotForIs, ConnectionAssumption DEF Inv
  <1>2. /\ slots'[i] = r /\ \A j \in Slots : j # i => slots'[j] = slots[j]
        /\ r.state \in {"CONNECTED", "FREE"} /\ r.lastConnect = 0 /\ r.lastPacket = 0
        /\ r.state # "FREE" => r.client = c
    <2>1. slots'[i] = r /\ \A j \in Slots : j # i => slots'[j] = slots[j]
      BY <1>1, WrittenSlot DEF Inv
    <2>2. CASE r = Connected(m)
      BY <2>1, <2>2 DEF Connected, Free
    <2>3. CASE r = Free
      BY <2>1, <2>3 DEF Free
    <2>4. QED  BY <2>2, <2>3
  <1>3. \A j \in Slots : j # i => slots[j].state = "FREE" \/ slots[j].client # c
    BY SlotOfOwner DEF Inv
  <1>4. slots[i].state = "FREE" \/ slots[i].client = c
    BY SlotForIs DEF Inv
  <1>5. \A k \in net' : k.client \in Clients /\ k.age \in Nat /\ k.age <= Lifetime
    BY <1>1, MessageFields DEF Inv, TimesInv
  <1>6. \A j \in Slots : slots'[j].state # "FREE" => slots'[j].client \in Clients
    BY <1>1, <1>2 DEF TimesInv
  <1>7. HeardSince'
    BY <1>2 DEF TimesInv, HeardSince
  <1>8. AnswersAreOfNow'
    <2> SUFFICES ASSUME NEW j \in Slots, NEW k \in net', slots'[j].state # "FREE",
                        k.type = "connectResponse", k.client = slots'[j].client
                 PROVE  slots'[j].lastConnect <= k.age
      BY DEF AnswersAreOfNow
    <2>1. CASE j = i
      BY <1>2, <1>5, <2>1
    <2>2. CASE j # i
      <3>1. slots'[j] = slots[j] /\ k.client # c
        BY <1>2, <1>3, <2>2
      <3>2. k \in net
        BY <3>1
      <3>3. QED  BY <3>1, <3>2 DEF TimesInv, AnswersAreOfNow
    <2>3. QED  BY <2>1, <2>2
  <1>9. OldConnects'
    <2> SUFFICES ASSUME NEW k \in net', k.type = "connect", clc[k.client].state = "CONNECTED"
                 PROVE  /\ \A j \in Slots :
                             slots'[j].state # "FREE" /\ slots'[j].client = k.client
                             => slots'[j].lastConnect <= k.age + Lifetime
                        /\ clc[k.client].gamestate => UsesSlot(k.client)'
      BY DEF OldConnects, UsesSlot
    <2>1. k \in net
      OBVIOUS
    <2>2. /\ \A j \in Slots : slots[j].state # "FREE" /\ slots[j].client = k.client
                                => slots[j].lastConnect <= k.age + Lifetime
          /\ clc[k.client].gamestate => UsesSlot(k.client)
      BY <2>1 DEF TimesInv, OldConnects
    <2>3. 0 <= k.age + Lifetime
      BY <1>1, <1>5
    <2>4. ASSUME clc[k.client].gamestate
          PROVE  UsesSlot(k.client)'
      <3>1. PICK j \in Slots : slots[j].state # "FREE" /\ slots[j].client = k.client
        BY <2>2, <2>4 DEF UsesSlot
      <3>2. j # i
        BY <1>4, <2>4, <3>1
      <3>3. QED  BY <1>2, <3>1, <3>2 DEF UsesSlot
    <2>5. QED  BY <1>2, <2>2, <2>3, <2>4
  <1>10. FirstPacketForcesGameState'
    <2> SUFFICES ASSUME NEW j \in Slots, slots'[j].state = "CONNECTED",
                        clc[slots'[j].client].state = "CONNECTED",
                        clc[slots'[j].client].challenge = slots'[j].challenge,
                        clc[slots'[j].client].gamestate
                 PROVE  FALSE
      BY DEF FirstPacketForcesGameState
    <2>1. j # i
      BY <1>2
    <2>2. slots'[j] = slots[j]
      BY <1>2, <2>1
    <2>3. QED  BY <2>2 DEF TimesInv, FirstPacketForcesGameState
  <1>11. QED  BY <1>5, <1>6, <1>7, <1>8, <1>9, <1>10 DEF TimesInv

LEMMA DirectConnectTimes ==
    ASSUME Prompt, Inv, TimesInv, NEW m \in net, SV_DirectConnect(m)
    PROVE  TimesInv'
  <1>1. UNCHANGED clc /\ ~clc[m.client].gamestate
    BY ConnectIsNotOld DEF SV_DirectConnect
  <1>2. CASE ServerIsFull(m)
    BY <1>1, <1>2, FullIsCalm, CalmKeeps DEF Inv
  <1>3. CASE \E i \in SlotFor(m.client) : Accept(m, i) \/ Deny(m, i)
    <2>1. PICK i \in SlotFor(m.client) : Accept(m, i) \/ Deny(m, i)
      BY <1>3
    <2>2. PICK r \in {Connected(m), Free} : slots' = [slots EXCEPT ![i] = r]
      BY <2>1 DEF Accept, Deny
    <2>3. \/ net' = Sent(Message("connectResponse", m.client, m.num))
          \/ net' = Sent(Message("droperror", m.client, NoNumber))
      BY <2>1 DEF Accept, Deny
    <2>4. \A k \in net' : k \in net \/ /\ k.age = 0 /\ k.client = m.client
                                       /\ k.type \in {"connectResponse", "droperror"}
      BY <2>3, SentIs
    <2>5. QED  BY <1>1, <2>2, <2>4, GivenOrClearedTimes
  <1>4. QED  BY <1>2, <1>3 DEF SV_DirectConnect

\* SV_CheckTimeouts leaves a slot in use whose client was heard lately.
LEMMA CheckedSlot ==
    ASSUME Typed, NEW i \in Slots, SV_Frame
    PROVE  LET s == slots[i]
               r == slots'[i]
           IN  \/ r = Free
               \/ /\ s.state # "FREE" /\ r.state = s.state /\ r.client = s.client
                  /\ r.challenge = s.challenge
                  /\ r.lastConnect = Older(s.lastConnect, sv_reconnectlimit)
                  /\ r.lastPacket = Older(s.lastPacket, Silence)
  <1> DEFINE s == slots[i]
             a == Aged(s)
  <1>1. s \in ClientRecord
    BY DEF Typed
  <1>2. a \in ClientRecord /\ a.state = s.state /\ a.client = s.client
    BY <1>1, AgedTyped
  <1>3. /\ a.challenge = s.challenge
        /\ a.lastConnect = Older(s.lastConnect, sv_reconnectlimit)
        /\ a.lastPacket = Older(s.lastPacket, Silence)
    BY <1>1 DEF Aged, ClientRecord
  <1>4. slots'[i] = CheckTimeout(a)
    BY DEF SV_Frame
  <1> HIDE DEF a
  <1>5. \/ CheckTimeout(a) = Free
        \/ /\ a.state # "FREE"
           /\ \/ CheckTimeout(a) = [a EXCEPT !.timeoutCount = a.timeoutCount + 1]
              \/ CheckTimeout(a) = [a EXCEPT !.timeoutCount = 0]
    BY DEF CheckTimeout
  <1>6. QED  BY <1>2, <1>3, <1>4, <1>5 DEF ClientRecord

LEMMA HeardStays ==
    ASSUME Prompt, Typed, NEW i \in Slots, SV_Frame, slots[i].state # "FREE",
           slots[i].lastPacket < 2 * Lifetime
    PROVE  slots'[i].state # "FREE"
  <1> DEFINE s == slots[i]
             a == Aged(s)
  <1>1. s \in ClientRecord /\ s.lastPacket \in Nat
    BY SlotFields DEF Typed
  <1>2. {Lifetime, sv_zombietime, sv_timeout} \subseteq Nat
    BY ConnectionAssumption
  <1>3. Silence \in Nat /\ a.lastPacket = Older(s.lastPacket, Silence)
    BY <1>1, <1>2 DEF Silence, Aged, ClientRecord
  <1>4. a.lastPacket \in Nat /\ a.lastPacket <= s.lastPacket + 1
    <2> HIDE DEF a
    <2>1. \A n, l \in Nat : Older(n, l) \in Nat /\ Older(n, l) <= n + 1
      BY DEF Older
    <2>2. QED  BY <1>1, <1>3, <2>1
  <1>5. a.lastPacket <= sv_zombietime /\ a.lastPacket <= sv_timeout
    <2> HIDE DEF a
    <2>1. QED  BY <1>1, <1>2, <1>4 DEF Prompt
  <1>6. a \in ClientRecord /\ a.state = s.state
    BY <1>1, AgedTyped
  <1>7. slots'[i] = CheckTimeout(a)
    BY DEF SV_Frame
  <1> HIDE DEF a
  <1>8. ~Silent(a) /\ ~TimedOut(a)
    BY <1>2, <1>4, <1>5 DEF Silent, TimedOut
  <1>9. CheckTimeout(a) = [a EXCEPT !.timeoutCount = 0]
    BY <1>2, <1>4, <1>5, <1>6, <1>8 DEF CheckTimeout
  <1>10. QED  BY <1>6, <1>7, <1>9 DEF ClientRecord

LEMMA FrameTimes ==
    ASSUME Prompt, Inv, TimesInv, SV_Frame
    PROVE  TimesInv'
  <1>1. {Lifetime, sv_reconnectlimit, sv_zombietime, sv_timeout, Silence} \subseteq Nat
    BY ConnectionAssumption DEF Silence
  <1>2. \A c \in Clients : /\ clc'[c].state = clc[c].state
                           /\ clc'[c].challenge = clc[c].challenge
                           /\ clc'[c].gamestate = clc[c].gamestate
    <2> SUFFICES ASSUME NEW c \in Clients
                 PROVE  /\ clc'[c].state = clc[c].state
                        /\ clc'[c].challenge = clc[c].challenge
                        /\ clc'[c].gamestate = clc[c].gamestate
      OBVIOUS
    <2>1. clc[c] \in ConnectionRecord /\ clc'[c] = Waited(clc[c])
      BY DEF Inv, Typed, SV_Frame
    <2>2. QED  BY <2>1 DEF Waited, ConnectionRecord
  <1>3. ASSUME NEW k \in net'
        PROVE  \E m \in net : /\ m.age < Lifetime /\ k.age = m.age + 1
                              /\ k.type = m.type /\ k.client = m.client
    <2>1. PICK m \in net : m.age < Lifetime /\ k = [m EXCEPT !.age = m.age + 1]
      BY <1>3 DEF SV_Frame, Later
    <2>2. m \in MessageRecord
      BY MessageFields DEF Inv
    <2>3. QED  BY <2>1, <2>2 DEF MessageRecord
  <1>4. ASSUME NEW j \in Slots, slots'[j].state # "FREE"
        PROVE  /\ slots[j].state # "FREE" /\ slots'[j].state = slots[j].state
               /\ slots'[j].client = slots[j].client /\ slots'[j].challenge = slots[j].challenge
               /\ slots'[j].lastConnect = Older(slots[j].lastConnect, sv_reconnectlimit)
               /\ slots'[j].lastPacket = Older(slots[j].lastPacket, Silence)
               /\ slots[j].lastConnect \in Nat /\ slots[j].lastPacket \in Nat
    BY <1>4, CheckedSlot, SlotFields DEF Inv, Free
  <1>5. \A k \in net' : k.age <= Lifetime
    <2> SUFFICES ASSUME NEW k \in net'  PROVE k.age <= Lifetime
      OBVIOUS
    <2>1. PICK m \in net : m.age < Lifetime /\ k.age = m.age + 1
      BY <1>3
    <2>2. QED  BY <1>1, <2>1, MessageFields DEF Inv
  <1>6. \A j \in Slots : slots'[j].state # "FREE" => slots'[j].client \in Clients
    BY <1>4 DEF TimesInv
  <1>7. HeardSince'
    <2> SUFFICES ASSUME NEW j \in Slots, slots'[j].state # "FREE"
                 PROVE  \/ slots'[j].lastPacket <= slots'[j].lastConnect
                        \/ slots'[j].lastConnect = sv_reconnectlimit
      BY DEF HeardSince
    <2>1. \/ slots[j].lastPacket <= slots[j].lastConnect
          \/ slots[j].lastConnect = sv_reconnectlimit
      BY <1>4 DEF TimesInv, HeardSince
    <2>2. QED  BY <1>1, <1>4, <2>1 DEF Older
  <1>8. ASSUME NEW n \in Nat, NEW b \in Nat, n <= b
        PROVE  Older(n, sv_reconnectlimit) <= b + 1
    <2>1. sv_reconnectlimit \in Nat
      BY <1>1
    <2>2. QED  BY <1>8, <2>1 DEF Older
  <1>9. AnswersAreOfNow'
    <2> SUFFICES ASSUME NEW j \in Slots, NEW k \in net', slots'[j].state # "FREE",
                        k.type = "connectResponse", k.client = slots'[j].client
                 PROVE  slots'[j].lastConnect <= k.age
      BY DEF AnswersAreOfNow
    <2>1. PICK m \in net : k.age = m.age + 1 /\ m.type = k.type /\ m.client = k.client
      BY <1>3
    <2>2. slots[j].lastConnect <= m.age
      BY <1>4, <2>1 DEF TimesInv, AnswersAreOfNow
    <2>3. QED  BY <1>4, <1>8, <2>1, <2>2, MessageFields DEF Inv
  <1>10. OldConnects'
    <2> SUFFICES ASSUME NEW k \in net', k.type = "connect", clc'[k.client].state = "CONNECTED"
                 PROVE  /\ \A j \in Slots :
                             slots'[j].state # "FREE" /\ slots'[j].client = k.client
                             => slots'[j].lastConnect <= k.age + Lifetime
                        /\ clc'[k.client].gamestate => UsesSlot(k.client)'
      BY DEF OldConnects, UsesSlot
    <2>1. PICK m \in net : /\ m.age < Lifetime /\ k.age = m.age + 1
                           /\ m.type = k.type /\ m.client = k.client
      BY <1>3
    <2>2. m.client \in Clients /\ m.age \in Nat
      BY MessageFields DEF Inv
    <2>3. /\ \A j \in Slots : slots[j].state # "FREE" /\ slots[j].client = k.client
                                => slots[j].lastConnect <= m.age + Lifetime
          /\ clc[k.client].gamestate => UsesSlot(k.client)
      BY <1>2, <2>1, <2>2 DEF TimesInv, OldConnects
    <2>4. ASSUME NEW j \in Slots, slots'[j].state # "FREE", slots'[j].client = k.client
          PROVE  slots'[j].lastConnect <= k.age + Lifetime
      <3>1. slots[j].lastConnect <= m.age + Lifetime /\ m.age + Lifetime \in Nat
        BY <1>1, <1>4, <2>2, <2>3, <2>4
      <3>2. slots'[j].lastConnect <= m.age + Lifetime + 1
        BY <1>4, <1>8, <2>4, <3>1
      <3>3. QED  BY <1>1, <2>1, <2>2, <3>2
    <2>5. ASSUME clc'[k.client].gamestate
          PROVE  UsesSlot(k.client)'
      <3>1. PICK j \in Slots : slots[j].state # "FREE" /\ slots[j].client = k.client
        BY <1>2, <2>1, <2>2, <2>3, <2>5 DEF UsesSlot
      <3>2. /\ slots[j].lastConnect <= m.age + Lifetime
            /\ slots[j].lastConnect \in Nat /\ slots[j].lastPacket \in Nat
        BY <2>3, <3>1, SlotFields DEF Inv
      <3>3. \/ slots[j].lastPacket <= slots[j].lastConnect
            \/ slots[j].lastConnect = sv_reconnectlimit
        BY <3>1 DEF TimesInv, HeardSince
      <3>4. slots[j].lastPacket < 2 * Lifetime
        BY <1>1, <2>1, <2>2, <3>2, <3>3 DEF Prompt
      <3>5. slots'[j].state # "FREE"
        BY <3>1, <3>4, HeardStays DEF Inv
      <3>6. QED  BY <1>4, <3>1, <3>5 DEF UsesSlot
    <2>6. QED  BY <2>4, <2>5
  <1>11. FirstPacketForcesGameState'
    <2> SUFFICES ASSUME NEW j \in Slots, slots'[j].state = "CONNECTED",
                        clc'[slots'[j].client].state = "CONNECTED",
                        clc'[slots'[j].client].challenge = slots'[j].challenge,
                        clc'[slots'[j].client].gamestate
                 PROVE  FALSE
      BY DEF FirstPacketForcesGameState
    <2>1. /\ slots[j].state = "CONNECTED" /\ slots'[j].client = slots[j].client
          /\ slots'[j].challenge = slots[j].challenge /\ slots[j].client \in Clients
      BY <1>4 DEF TimesInv
    <2>2. QED  BY <1>2, <2>1 DEF TimesInv, FirstPacketForcesGameState
  <1>12. \A c \in Clients : clc'[c].gamestate => clc'[c].state = "CONNECTED"
    BY <1>2 DEF TimesInv
  <1>13. QED  BY <1>5, <1>6, <1>7, <1>9, <1>10, <1>11, <1>12 DEF TimesInv

LEMMA InitTimes == Init => TimesInv
  BY DEF Init, Free, Disconnected, TimesInv, HeardSince, AnswersAreOfNow, OldConnects,
         FirstPacketForcesGameState

LEMMA NextTimes ==
    ASSUME Prompt, Inv, TimesInv, [Next]_vars
    PROVE  TimesInv'
  <1> USE DEF Inv
  <1>1. CASE UNCHANGED vars
    <2>1. Calm
      BY <1>1 DEF vars, Calm, TimesInv
    <2>2. QED  BY <2>1, CalmKeeps
  <1>2. CASE \E m \in net : Receive(m)
    <2>1. PICK m \in net : Receive(m)
      BY <1>2
    <2>2. m.client \in Clients
      BY MessageFields
    <2>3. CASE SV_DirectConnect(m)
      BY <2>3, DirectConnectTimes
    <2>4. CASE CL_ConnectResponse(m)
      BY <2>4, ConnectResponseTimes
    <2>5. CASE SV_GetChallenge(m) \/ CL_ChallengeResponse(m)
      <3>1. Calm
        BY <2>2, <2>5, ClientStepsAreCalm
      <3>2. QED  BY <3>1, CalmKeeps
    <2>6. CASE CL_DropError(m) \/ CL_DisconnectPacket(m)
      <3>1. Calm
        BY <2>2, <2>6, DisconnectIsCalm DEF CL_DropError, CL_DisconnectPacket
      <3>2. QED  BY <3>1, CalmKeeps
    <2>7. QED  BY <2>1, <2>3, <2>4, <2>5, <2>6 DEF Receive
  <1>3. CASE \E c \in Clients : \/ CL_Connect(c) \/ CL_Disconnect(c) \/ CL_CheckForResend(c)
                                \/ StrayPacket(c)
    <2>1. Calm
      BY <1>3, ClientStepsAreCalm, DisconnectIsCalm
    <2>2. QED  BY <2>1, CalmKeeps
  <1>4. CASE \E i \in Slots : \/ ClientPacket(i) \/ Drop(i) \/ Kick(i)
                              \/ KickZombie(i) \/ LastMessage(i)
    <2>1. Calm
      BY <1>4, SlotStepsAreCalm
    <2>2. QED  BY <2>1, CalmKeeps
  <1>5. CASE \E i \in Slots : GameState(i)
    BY <1>5, GameStateTimes
  <1>6. CASE \E denied \in SUBSET {i \in Slots : In(i)} :
                SV_SpawnServer(denied) \/ SV_Restart(denied)
    <2>1. Calm
      BY <1>6, LevelStepIsCalm
    <2>2. QED  BY <2>1, CalmKeeps
  <1>7. CASE SV_Frame
    BY <1>7, FrameTimes
  <1>8. QED  BY <1>1, <1>2, <1>3, <1>4, <1>5, <1>6, <1>7 DEF Next

\* A client whose slot waits for its first packet has no gamestate, whatever was
\* lost or repeated on the way to the slot and however late it came, if no
\* message lives longer than half of the limits of SV_DirectConnect and
\* SV_CheckTimeouts.
THEOREM FirstPacketsForceGameState ==
    ASSUME Prompt
    PROVE  Spec => []FirstPacketForcesGameState
  <1>1. Init => Inv /\ TimesInv
    BY InitInv, InitTimes
  <1>2. Inv /\ TimesInv /\ [Next]_vars => (Inv /\ TimesInv)'
    BY NextInv, NextTimes
  <1>3. TimesInv => FirstPacketForcesGameState
    BY DEF TimesInv
  <1>4. QED  BY <1>1, <1>2, <1>3, PTL DEF Spec
=============================================================================
