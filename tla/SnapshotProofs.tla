--------------------------- MODULE SnapshotProofs ----------------------------
(***************************************************************************)
(* That a client's snapshot is of the map whose gamestate it has, for any  *)
(* number of maps, restarts, messages and entities, and whatever is lost.  *)
(*                                                                         *)
(* The server sends snapshots when the last server id it heard from the    *)
(* client is current.  So the invariant is about ids: wherever one is that *)
(* still counts, in the client, in a packet, in a message or in what the   *)
(* server remembers, the client has the server's map already.              *)
(*                                                                         *)
(* And that deltas are made from snapshots the client still has: DeltaInv  *)
(* follows the numbers of snapshots from the client back to the server.    *)
(*                                                                         *)
(* And that a snapshot holds what the server saw, although both sides keep *)
(* the entities in circular buffers: SnapInv says what is in the places of *)
(* those lists that can still be read.                                     *)
(***************************************************************************)
EXTENDS Snapshot, SequenceTheorems, FiniteSetTheorems, WellFoundedInduction, TLAPS

\* s is the server, map the one the client has.
Known(id, s, map) ==
    /\ id \in Nat /\ id <= s.serverId
    /\ id >= s.restartedServerId => map = s.map

Right(m, s, map) ==
    /\ m.type = "gamestate" =>
         /\ m.id \in Nat /\ m.id <= s.serverId
         /\ m.map \in Nat /\ map <= m.map /\ m.map <= s.map
         /\ m.id >= s.restartedServerId => m.map = s.map
    /\ m.type = "snapshot" => Known(m.id, s, map) /\ m.map = map

\* What a message that follows a gamestate is about.
InOrder(m, n) ==
    m.type = "gamestate" =>
        /\ n.type = "gamestate" => m.map <= n.map
        /\ n.type = "snapshot" => m.map = n.map

Flight(q, s, map) ==
    /\ \A i \in 1 .. Len(q) : Right(q[i], s, map)
    /\ \A i, j \in 1 .. Len(q) : i < j => InOrder(q[i], q[j])

Packets(q, s, map) == \A i \in 1 .. Len(q) : Known(q[i].id, s, map)

ServerOK(s, map) ==
    /\ s.serverId \in Nat /\ s.restartedServerId \in Nat /\ s.map \in Nat /\ map \in Nat
    /\ 1 <= s.restartedServerId /\ s.restartedServerId <= s.serverId
    /\ map <= s.map

\* The fields of the records, which are all assigned to separately.
Shapes ==
    /\ sv = [serverId |-> sv.serverId, restartedServerId |-> sv.restartedServerId,
             map |-> sv.map, next |-> sv.next]
    /\ client = [state |-> client.state, deltaMessage |-> client.deltaMessage,
                 serverIdAcknowledge |-> client.serverIdAcknowledge,
                 gamestateMessageNum |-> client.gamestateMessageNum,
                 outgoingSequence |-> client.outgoingSequence]
    /\ cl = [serverId |-> cl.serverId, map |-> cl.map, snap |-> cl.snap,
             parseEntitiesNum |-> cl.parseEntitiesNum, sequence |-> cl.sequence]
    /\ \E S : toClient \in Seq(S)
    /\ \E S : toServer \in Seq(S)

IInv ==
    /\ Shapes
    /\ ServerOK(sv, cl.map)
    /\ Known(cl.serverId, sv, cl.map)
    /\ Known(client.serverIdAcknowledge, sv, cl.map)
    /\ Packets(toServer, sv, cl.map)
    /\ Flight(toClient, sv, cl.map)
    /\ MapAgrees

-----------------------------------------------------------------------------
(* Messages on their way.                                                  *)

\* What is sent comes last, and the oldest is lost or not.
LEMMA SentIs ==
    ASSUME NEW S, NEW q \in Seq(S), NEW m
    PROVE  /\ \E T : Sent(q, m) \in Seq(T)
           /\ \E lost \in {0, 1} :
                /\ Len(Sent(q, m)) = Len(q) + 1 - lost
                /\ lost <= Len(q)
                /\ \A i \in 1 .. Len(q) - lost : Sent(q, m)[i] = q[i + lost]
                /\ Sent(q, m)[Len(q) + 1 - lost] = m
<1> DEFINE T == S \cup {m}
<1>1. q \in Seq(T) /\ m \in T /\ InFlight \in Nat \ {0} /\ Len(q) \in Nat
  BY SnapshotAssumption
<1>2. CASE Len(q) = InFlight
  <2>1. q # <<>>
    BY <1>1, <1>2
  <2> DEFINE t == Tail(q)
  <2>2. /\ t \in Seq(T) /\ Len(t) = Len(q) - 1 /\ Len(q) >= 1
        /\ \A i \in 1 .. Len(t) : t[i] = q[i + 1]
    BY <1>1, <2>1, <1>2
  <2>3. Sent(q, m) = Append(t, m)
    BY <1>2 DEF Sent
  <2> HIDE DEF t, T
  <2>4. /\ Append(t, m) \in Seq(T) /\ Len(Append(t, m)) = Len(q)
        /\ \A i \in 1 .. Len(t) : Append(t, m)[i] = t[i]
        /\ Append(t, m)[Len(t) + 1] = m
    BY <1>1, <2>2, AppendProperties
  <2>5. \A i \in 1 .. Len(q) - 1 : Append(t, m)[i] = q[i + 1]
    BY <1>1, <2>2, <2>4
  <2>6. Append(t, m)[Len(q) + 1 - 1] = m
    BY <1>1, <2>2, <2>4
  <2> QED
    BY <1>1, <2>2, <2>3, <2>4, <2>5, <2>6
<1>3. CASE Len(q) # InFlight
  <2>1. Sent(q, m) = Append(q, m)
    BY <1>3 DEF Sent
  <2> HIDE DEF T
  <2>2. /\ Append(q, m) \in Seq(T) /\ Len(Append(q, m)) = Len(q) + 1
        /\ \A i \in 1 .. Len(q) : Append(q, m)[i] = q[i]
        /\ Append(q, m)[Len(q) + 1] = m
    BY <1>1, AppendProperties
  <2> QED
    BY <1>1, <2>1, <2>2
<1> QED
  BY <1>2, <1>3

\* Receiving the k-th discards those before it.
LEMMA RestIs ==
    ASSUME NEW S, NEW q \in Seq(S), NEW k \in 1 .. Len(q)
    PROVE  LET r == SubSeq(q, k + 1, Len(q))
           IN  /\ \E T : r \in Seq(T)
               /\ Len(r) = Len(q) - k
               /\ \A i \in 1 .. Len(r) : r[i] = q[i + k]
<1> DEFINE r == SubSeq(q, k + 1, Len(q))
<1>1. Len(q) \in Nat /\ k + 1 \in 1 .. Len(q) + 1
  OBVIOUS
<1>2. \A i \in k + 1 .. Len(q) : q[i] \in S
  BY <1>1
<1>3. r \in Seq(S) /\ Len(r) = Len(q) - k /\ \A i \in 1 .. Len(r) : r[i] = q[i + k]
  BY <1>1, <1>2
<1> QED
  BY <1>3

LEMMA SentFlight ==
    ASSUME NEW S, NEW q \in Seq(S), NEW m, NEW s, NEW map, Flight(q, s, map),
           Right(m, s, map), \A i \in 1 .. Len(q) : InOrder(q[i], m)
    PROVE  Flight(Sent(q, m), s, map)
<1> DEFINE r == Sent(q, m)
<1>1. PICK lost \in {0, 1} : /\ Len(r) = Len(q) + 1 - lost
                             /\ lost <= Len(q)
                             /\ \A i \in 1 .. Len(q) - lost : r[i] = q[i + lost]
                             /\ r[Len(q) + 1 - lost] = m
  BY SentIs
<1>2. Len(q) \in Nat
  OBVIOUS
<1> HIDE DEF r
<1>3. \A i \in 1 .. Len(r) :
        \/ i = Len(r) /\ r[i] = m
        \/ i < Len(r) /\ i + lost \in 1 .. Len(q) /\ r[i] = q[i + lost]
  BY <1>1, <1>2
<1>4. \A i \in 1 .. Len(r) : Right(r[i], s, map)
  BY <1>3 DEF Flight
<1>5. ASSUME NEW i \in 1 .. Len(r), NEW j \in 1 .. Len(r), i < j
      PROVE  InOrder(r[i], r[j])
  <2>1. i + lost \in 1 .. Len(q) /\ r[i] = q[i + lost]
    BY <1>1, <1>2, <1>3, <1>5
  <2>2. CASE r[j] = m
    BY <2>1, <2>2
  <2>3. CASE j + lost \in 1 .. Len(q) /\ r[j] = q[j + lost]
    <3>1. i + lost < j + lost
      BY <1>2, <1>1, <1>5
    <3> QED
      BY <2>1, <2>3, <3>1 DEF Flight
  <2> QED
    BY <1>3, <2>2, <2>3
<1> QED
  BY <1>4, <1>5 DEF Flight, r

LEMMA SentPackets ==
    ASSUME NEW S, NEW q \in Seq(S), NEW p, NEW s, NEW map, Packets(q, s, map),
           Known(p.id, s, map)
    PROVE  Packets(Sent(q, p), s, map)
<1> DEFINE r == Sent(q, p)
<1>1. PICK lost \in {0, 1} : /\ Len(r) = Len(q) + 1 - lost
                             /\ lost <= Len(q)
                             /\ \A i \in 1 .. Len(q) - lost : r[i] = q[i + lost]
                             /\ r[Len(q) + 1 - lost] = p
  BY SentIs
<1>2. Len(q) \in Nat
  OBVIOUS
<1> HIDE DEF r
<1>3. \A i \in 1 .. Len(r) :
        r[i] = p \/ (i + lost \in 1 .. Len(q) /\ r[i] = q[i + lost])
  BY <1>1, <1>2
<1>4. \A i \in 1 .. Len(r) : Known(r[i].id, s, map)
  BY <1>3 DEF Packets
<1> QED
  BY <1>4 DEF Packets, r

\* The messages behind the one received are right for the map it leaves.
LEMMA RestFlight ==
    ASSUME NEW S, NEW q \in Seq(S), NEW k \in 1 .. Len(q), NEW s, NEW map, NEW after,
           Flight(q, s, map),
           \A i \in 1 .. Len(q) : k < i => Right(q[i], s, after)
    PROVE  Flight(SubSeq(q, k + 1, Len(q)), s, after)
<1> DEFINE r == SubSeq(q, k + 1, Len(q))
<1>1. Len(r) = Len(q) - k /\ \A i \in 1 .. Len(r) : r[i] = q[i + k]
  BY RestIs
<1>2. Len(q) \in Nat
  OBVIOUS
<1> HIDE DEF r
<1>3. \A i \in 1 .. Len(r) : i + k \in 1 .. Len(q) /\ k < i + k /\ r[i] = q[i + k]
  BY <1>1, <1>2
<1>4. \A i \in 1 .. Len(r) : Right(r[i], s, after)
  BY <1>3
<1>5. ASSUME NEW i \in 1 .. Len(r), NEW j \in 1 .. Len(r), i < j
      PROVE  InOrder(r[i], r[j])
  <2>1. i + k < j + k
    BY <1>2, <1>5
  <2> QED
    BY <2>1, <1>3 DEF Flight
<1> QED
  BY <1>4, <1>5 DEF Flight, r

LEMMA RestPackets ==
    ASSUME NEW S, NEW q \in Seq(S), NEW k \in 1 .. Len(q), NEW s, NEW map,
           Packets(q, s, map)
    PROVE  Packets(SubSeq(q, k + 1, Len(q)), s, map)
<1> DEFINE r == SubSeq(q, k + 1, Len(q))
<1>1. Len(r) = Len(q) - k /\ \A i \in 1 .. Len(r) : r[i] = q[i + k]
  BY RestIs
<1>2. Len(q) \in Nat
  OBVIOUS
<1> HIDE DEF r
<1>3. \A i \in 1 .. Len(r) : i + k \in 1 .. Len(q) /\ r[i] = q[i + k]
  BY <1>1, <1>2
<1>4. \A i \in 1 .. Len(r) : Known(r[i].id, s, map)
  BY <1>3 DEF Packets
<1> QED
  BY <1>4 DEF Packets, r

-----------------------------------------------------------------------------
(* The server's steps.                                                     *)

\* Only these three of the server's fields count.
LEMMA SameServer ==
    ASSUME NEW s, NEW t, NEW map, t.serverId = s.serverId,
           t.restartedServerId = s.restartedServerId, t.map = s.map
    PROVE  /\ ServerOK(s, map) => ServerOK(t, map)
           /\ \A id : Known(id, s, map) => Known(id, t, map)
           /\ \A q : Packets(q, s, map) => Packets(q, t, map)
           /\ \A q : Flight(q, s, map) => Flight(q, t, map)
BY DEF ServerOK, Known, Packets, Flight, Right

LEMMA SendSnapshotStep ==
    ASSUME IInv, NEW world, NEW others, SV_SendClientSnapshot(world, others)
    PROVE  IInv'
<1>1. UNCHANGED <<cl, toServer>>
  BY DEF SV_SendClientSnapshot
<1>2. \E n : sv' = [sv EXCEPT !.next = n]
  BY DEF SV_SendClientSnapshot
<1>3. client' = [client EXCEPT !.outgoingSequence = client.outgoingSequence + 1]
  BY DEF SV_SendClientSnapshot
<1>4. \E m : /\ toClient' = Sent(toClient, m)
             /\ \/ m.type = "nop"
                \/ Acknowledged /\ m.type = "snapshot" /\ m.id = sv.serverId /\ m.map = sv.map
  <2> DEFINE snap(d, e) == [type |-> "snapshot", num |-> client.outgoingSequence,
                            id |-> sv.serverId, map |-> sv.map, delta |-> d,
                            entities |-> e, truth |-> world]
             nop == [type |-> "nop", num |-> client.outgoingSequence]
  <2>1. \/ toClient' = Sent(toClient, nop)
        \/ Acknowledged /\ \E d, e : toClient' = Sent(toClient, snap(d, e))
    <3>1. CASE Acknowledged
      BY <3>1 DEF SV_SendClientSnapshot
    <3>2. CASE ~Acknowledged
      BY <3>2 DEF SV_SendClientSnapshot
    <3> QED
      BY <3>1, <3>2
  <2>2. nop.type = "nop"
    OBVIOUS
  <2>3. \A d, e : /\ snap(d, e).type = "snapshot" /\ snap(d, e).id = sv.serverId
                  /\ snap(d, e).map = sv.map
    OBVIOUS
  <2> HIDE DEF snap, nop
  <2> QED
    BY <2>1, <2>2, <2>3
<1>5. /\ sv'.serverId = sv.serverId /\ sv'.restartedServerId = sv.restartedServerId
      /\ sv'.map = sv.map
      /\ sv' = [serverId |-> sv'.serverId, restartedServerId |-> sv'.restartedServerId,
                map |-> sv'.map, next |-> sv'.next]
  BY <1>2 DEF IInv, Shapes
<1>6. /\ client'.serverIdAcknowledge = client.serverIdAcknowledge
      /\ client' = [state |-> client'.state, deltaMessage |-> client'.deltaMessage,
                    serverIdAcknowledge |-> client'.serverIdAcknowledge,
                    gamestateMessageNum |-> client'.gamestateMessageNum,
                    outgoingSequence |-> client'.outgoingSequence]
  BY <1>3 DEF IInv, Shapes
<1>7. PICK m : /\ toClient' = Sent(toClient, m)
               /\ \/ m.type = "nop"
                  \/ Acknowledged /\ m.type = "snapshot" /\ m.id = sv.serverId /\ m.map = sv.map
  BY <1>4
<1>8. Right(m, sv, cl.map) /\ \A i \in 1 .. Len(toClient) : InOrder(toClient[i], m)
  <2>1. CASE m.type = "nop"
    BY <2>1 DEF Right, InOrder
  <2>2. CASE Acknowledged /\ m.type = "snapshot" /\ m.id = sv.serverId /\ m.map = sv.map
    <3>1. cl.map = sv.map
      BY <2>2 DEF IInv, Acknowledged, Known, ServerOK
    <3>2. Right(m, sv, cl.map)
      BY <2>2, <3>1 DEF IInv, Right, Known, ServerOK
    <3>3. ASSUME NEW i \in 1 .. Len(toClient) PROVE InOrder(toClient[i], m)
      <4>1. Right(toClient[i], sv, cl.map)
        BY DEF IInv, Flight
      <4> QED
        BY <4>1, <2>2, <3>1 DEF Right, InOrder, IInv, ServerOK
    <3> QED
      BY <3>2, <3>3
  <2> QED
    BY <1>7, <2>1, <2>2
<1>9. Flight(toClient', sv, cl.map) /\ \E T : toClient' \in Seq(T)
  <2>1. PICK S : toClient \in Seq(S)
    BY DEF IInv, Shapes
  <2>2. \E T : Sent(toClient, m) \in Seq(T)
    BY <2>1, SentIs
  <2>3. Flight(Sent(toClient, m), sv, cl.map)
    BY <2>1, <1>8, SentFlight DEF IInv
  <2> QED
    BY <2>2, <2>3, <1>7
<1>10. /\ ServerOK(sv', cl.map) /\ Known(cl.serverId, sv', cl.map)
       /\ Known(client'.serverIdAcknowledge, sv', cl.map)
       /\ Packets(toServer, sv', cl.map) /\ Flight(toClient', sv', cl.map)
  BY <1>5, <1>6, <1>9, SameServer DEF IInv
<1>11. Shapes'
  BY <1>1, <1>5, <1>6, <1>9 DEF IInv, Shapes
<1> QED
  BY <1>1, <1>10, <1>11 DEF IInv, MapAgrees

\* The ids in use are older than the new one, and older than those that still
\* count if the map is a new one.
LEMMA LevelStep ==
    ASSUME IInv, SV_SpawnServer \/ SV_Restart
    PROVE  IInv'
<1>1. UNCHANGED <<cl, toClient, toServer>>
  BY DEF SV_SpawnServer, SV_Restart
<1>2. /\ sv'.serverId = sv.serverId + 1
      /\ \/ sv'.restartedServerId = sv.serverId + 1 /\ sv'.map = sv.map + 1
         \/ sv'.restartedServerId = sv.serverId /\ sv'.map = sv.map
      /\ sv' = [serverId |-> sv'.serverId, restartedServerId |-> sv'.restartedServerId,
                map |-> sv'.map, next |-> sv'.next]
  <2>1. CASE SV_SpawnServer
    BY <2>1 DEF SV_SpawnServer
  <2>2. CASE SV_Restart
    <3>1. sv' = [sv EXCEPT !.serverId = sv.serverId + 1, !.restartedServerId = sv.serverId]
      BY <2>2 DEF SV_Restart
    <3> QED
      BY <3>1 DEF IInv, Shapes
  <2> QED
    BY <2>1, <2>2
<1>3. /\ client'.serverIdAcknowledge = client.serverIdAcknowledge
      /\ client' = [state |-> client'.state, deltaMessage |-> client'.deltaMessage,
                    serverIdAcknowledge |-> client'.serverIdAcknowledge,
                    gamestateMessageNum |-> client'.gamestateMessageNum,
                    outgoingSequence |-> client'.outgoingSequence]
  BY DEF SV_SpawnServer, SV_Restart, SV_ClientEnterWorld, IInv, Shapes
<1>4. ServerOK(sv', cl.map)
  BY <1>2 DEF IInv, ServerOK
<1>5. \A id : Known(id, sv, cl.map) => Known(id, sv', cl.map)
  BY <1>2 DEF IInv, ServerOK, Known
<1>6. \A m : Right(m, sv, cl.map) => Right(m, sv', cl.map)
  BY <1>2, <1>5 DEF IInv, ServerOK, Right
<1>7. /\ Known(cl.serverId, sv', cl.map) /\ Known(client'.serverIdAcknowledge, sv', cl.map)
      /\ Packets(toServer, sv', cl.map) /\ Flight(toClient, sv', cl.map)
  BY <1>3, <1>5, <1>6 DEF IInv, Packets, Flight
<1>8. Shapes'
  BY <1>1, <1>2, <1>3 DEF IInv, Shapes
<1> QED
  BY <1>1, <1>4, <1>7, <1>8 DEF IInv, MapAgrees

\* A packet brings the id the client had when it sent it; a gamestate that is
\* sent then is the newest.
LEMMA ExecuteStep ==
    ASSUME IInv, NEW k \in DOMAIN toServer, SV_ExecuteClientMessage(k)
    PROVE  IInv'
<1> DEFINE p == toServer[k]
           r == SubSeq(toServer, k + 1, Len(toServer))
<1>1. UNCHANGED <<sv, cl>> /\ toServer' = r
  BY DEF SV_ExecuteClientMessage
<1>2. PICK S : toServer \in Seq(S)
  BY DEF IInv, Shapes
<1>3. k \in 1 .. Len(toServer)
  BY <1>2
<1>4. Known(p.id, sv, cl.map)
  BY <1>3 DEF IInv, Packets
<1>5. Packets(r, sv, cl.map) /\ \E T : r \in Seq(T)
  BY <1>2, <1>3, RestPackets, RestIs DEF IInv
<1>6. PICK Q : toClient \in Seq(Q)
  BY DEF IInv, Shapes
<1> DEFINE c == [client EXCEPT !.serverIdAcknowledge = p.id]
<1>7. c = [state |-> client.state, deltaMessage |-> client.deltaMessage,
           serverIdAcknowledge |-> p.id,
           gamestateMessageNum |-> client.gamestateMessageNum,
           outgoingSequence |-> client.outgoingSequence]
  <2>1. client = [state |-> client.state, deltaMessage |-> client.deltaMessage,
                  serverIdAcknowledge |-> client.serverIdAcknowledge,
                  gamestateMessageNum |-> client.gamestateMessageNum,
                  outgoingSequence |-> client.outgoingSequence]
    BY DEF IInv, Shapes
  <2> HIDE DEF p
  <2> QED
    BY <2>1
<1>8. \/ client' \in {c, Moved(c, p)} /\ UNCHANGED toClient
      \/ SV_SendClientGameState(c)
  BY DEF SV_ExecuteClientMessage
<1> HIDE DEF c
<1>9. /\ client'.serverIdAcknowledge = p.id
      /\ client' = [state |-> client'.state, deltaMessage |-> client'.deltaMessage,
                    serverIdAcknowledge |-> client'.serverIdAcknowledge,
                    gamestateMessageNum |-> client'.gamestateMessageNum,
                    outgoingSequence |-> client'.outgoingSequence]
  <2>1. CASE client' = c
    BY <2>1, <1>7
  <2>2. CASE client' = Moved(c, p)
    <3> HIDE DEF p
    <3> QED
      BY <2>2, <1>7 DEF Moved, SV_ClientEnterWorld
  <2>3. CASE SV_SendClientGameState(c)
    <3> HIDE DEF p
    <3> QED
      BY <2>3, <1>7 DEF SV_SendClientGameState
  <2> QED
    BY <1>8, <2>1, <2>2, <2>3
<1>10. Flight(toClient', sv, cl.map) /\ \E T : toClient' \in Seq(T)
  <2>1. CASE UNCHANGED toClient
    BY <2>1, <1>6 DEF IInv
  <2>2. CASE SV_SendClientGameState(c)
    <3> DEFINE m == [type |-> "gamestate", num |-> c.outgoingSequence,
                     id |-> sv.serverId, map |-> sv.map]
    <3>1. toClient' = Sent(toClient, m)
      BY <2>2 DEF SV_SendClientGameState
    <3>2. m.type = "gamestate" /\ m.id = sv.serverId /\ m.map = sv.map
      OBVIOUS
    <3> HIDE DEF m
    <3>3. Right(m, sv, cl.map)
      BY <3>2 DEF IInv, ServerOK, Right
    <3>4. ASSUME NEW i \in 1 .. Len(toClient) PROVE InOrder(toClient[i], m)
      <4>1. Right(toClient[i], sv, cl.map)
        BY DEF IInv, Flight
      <4> QED
        BY <4>1, <3>2 DEF Right, InOrder
    <3> QED
      BY <3>1, <3>3, <3>4, <1>6, SentFlight, SentIs DEF IInv
  <2> QED
    BY <1>8, <2>1, <2>2
<1> HIDE DEF p, r
<1>11. Shapes'
  BY <1>1, <1>5, <1>9, <1>10 DEF IInv, Shapes
<1> QED
  BY <1>1, <1>4, <1>5, <1>9, <1>10, <1>11 DEF IInv, MapAgrees

-----------------------------------------------------------------------------
(* The client's steps.                                                     *)

LEMMA WritePacketStep ==
    ASSUME IInv, CL_WritePacket
    PROVE  IInv'
<1>1. UNCHANGED <<sv, client, cl, toClient>>
  BY DEF CL_WritePacket
<1>2. PICK move : toServer' = Sent(toServer, [id |-> cl.serverId, ack |-> cl.sequence,
                                              move |-> move])
  BY DEF CL_WritePacket
<1> DEFINE p == [id |-> cl.serverId, ack |-> cl.sequence, move |-> move]
<1>3. Known(p.id, sv, cl.map)
  BY DEF IInv
<1>4. PICK S : toServer \in Seq(S)
  BY DEF IInv, Shapes
<1> HIDE DEF p
<1>5. Packets(Sent(toServer, p), sv, cl.map) /\ \E T : Sent(toServer, p) \in Seq(T)
  BY <1>3, <1>4, SentPackets, SentIs DEF IInv
<1>6. toServer' = Sent(toServer, p)
  BY <1>2 DEF p
<1>7. Shapes'
  BY <1>1, <1>5, <1>6 DEF IInv, Shapes
<1> QED
  BY <1>1, <1>5, <1>6, <1>7 DEF IInv, MapAgrees

\* What the client has after it parsed a message of the server.
LEMMA ParsedIs ==
    ASSUME IInv, NEW k \in DOMAIN toClient, CL_ParseServerMessage(k)
    PROVE  LET m == toClient[k]
           IN  /\ cl' = [serverId |-> cl'.serverId, map |-> cl'.map, snap |-> cl'.snap,
                         parseEntitiesNum |-> cl'.parseEntitiesNum,
                         sequence |-> cl'.sequence]
               /\ \/ /\ m.type = "gamestate"
                     /\ cl'.serverId = m.id /\ cl'.map = m.map /\ ~cl'.snap.valid
                  \/ /\ m.type = "snapshot"
                     /\ cl'.serverId = m.id /\ cl'.map = cl.map
                     /\ cl'.snap = cl.snap \/ cl'.snap.map = m.map
                  \/ cl'.serverId = cl.serverId /\ cl'.map = cl.map /\ cl'.snap = cl.snap
<1> DEFINE m == toClient[k]
<1>1. cl = [serverId |-> cl.serverId, map |-> cl.map, snap |-> cl.snap,
            parseEntitiesNum |-> cl.parseEntitiesNum, sequence |-> cl.sequence]
  BY DEF IInv, Shapes
<1>2. CASE CL_ParseGamestate(m)
  <2>1. cl' = [serverId |-> m.id, map |-> m.map, snap |-> NoSnap,
               parseEntitiesNum |-> 0, sequence |-> m.num] /\ m.type = "gamestate"
    BY <1>2 DEF CL_ParseGamestate, Cleared
  <2> HIDE DEF m
  <2>2. ~NoSnap.valid
    BY DEF NoSnap
  <2> QED
    BY <2>1, <2>2 DEF m
<1>3. CASE CL_ParseSnapshot(m)
  <2>1. /\ m.type = "snapshot"
        /\ \E v, f, n, x :
             cl' = [cl EXCEPT !.sequence = m.num, !.parseEntitiesNum = n, !.serverId = m.id,
                              !.snap = IF v = "valid"
                                       THEN [valid |-> TRUE, messageNum |-> m.num,
                                             first |-> f, num |-> x,
                                             truth |-> m.truth, map |-> m.map]
                                       ELSE cl.snap]
    BY <1>3 DEF CL_ParseSnapshot
  <2>2. PICK v, f, n, x :
             cl' = [cl EXCEPT !.sequence = m.num, !.parseEntitiesNum = n, !.serverId = m.id,
                              !.snap = IF v = "valid"
                                       THEN [valid |-> TRUE, messageNum |-> m.num,
                                             first |-> f, num |-> x,
                                             truth |-> m.truth, map |-> m.map]
                                       ELSE cl.snap]
    BY <2>1
  <2> HIDE DEF m
  <2>3. /\ cl'.serverId = m.id /\ cl'.map = cl.map
        /\ cl'.snap = cl.snap \/ cl'.snap.map = m.map
        /\ cl' = [serverId |-> cl'.serverId, map |-> cl'.map, snap |-> cl'.snap,
                  parseEntitiesNum |-> cl'.parseEntitiesNum, sequence |-> cl'.sequence]
    BY <2>2, <1>1
  <2> QED
    BY <2>1, <2>3 DEF m
<1>4. CASE CL_ParseNop(m)
  <2>1. cl' = [cl EXCEPT !.sequence = m.num]
    BY <1>4 DEF CL_ParseNop
  <2> HIDE DEF m
  <2> QED
    BY <2>1, <1>1
<1> QED
  BY <1>2, <1>3, <1>4 DEF CL_ParseServerMessage

LEMMA ParseStep ==
    ASSUME IInv, NEW k \in DOMAIN toClient, CL_ParseServerMessage(k)
    PROVE  IInv'
<1> DEFINE m == toClient[k]
           r == SubSeq(toClient, k + 1, Len(toClient))
<1>1. UNCHANGED <<sv, client, toServer>> /\ toClient' = r
  BY DEF CL_ParseServerMessage
<1>2. PICK S : toClient \in Seq(S)
  BY DEF IInv, Shapes
<1>3. k \in 1 .. Len(toClient)
  BY <1>2
<1>4. Right(m, sv, cl.map) /\ \A i \in 1 .. Len(toClient) : k < i => InOrder(m, toClient[i])
  BY <1>3 DEF IInv, Flight
<1>5. ASSUME NEW after, ServerOK(sv, after), cl.map <= after, m.type = "gamestate",
             after = m.map, NEW i \in 1 .. Len(toClient), k < i
      PROVE  Right(toClient[i], sv, after)
  <2>1. Right(toClient[i], sv, cl.map) /\ InOrder(m, toClient[i])
    BY <1>4, <1>5 DEF IInv, Flight
  <2> HIDE DEF m
  <2> QED
    BY <2>1, <1>5 DEF Right, InOrder, Known, ServerOK, IInv
<1>6. \E T : r \in Seq(T)
  BY <1>2, <1>3, RestIs
<1>7. cl' = [serverId |-> cl'.serverId, map |-> cl'.map, snap |-> cl'.snap,
             parseEntitiesNum |-> cl'.parseEntitiesNum, sequence |-> cl'.sequence]
  BY ParsedIs
<1>8. Shapes'
  BY <1>1, <1>6, <1>7 DEF IInv, Shapes
<1>9. CASE m.type = "gamestate" /\ cl'.serverId = m.id /\ cl'.map = m.map /\ ~cl'.snap.valid
  <2>1. /\ m.id \in Nat /\ m.id <= sv.serverId
        /\ m.map \in Nat /\ cl.map <= m.map /\ m.map <= sv.map
        /\ m.id >= sv.restartedServerId => m.map = sv.map
    BY <1>4, <1>9 DEF Right
  <2>2. ServerOK(sv, m.map) /\ Known(m.id, sv, m.map)
    BY <2>1 DEF IInv, ServerOK, Known
  <2>3. \A id : Known(id, sv, cl.map) => Known(id, sv, m.map)
    BY <2>1 DEF IInv, ServerOK, Known
  <2>4. Flight(r, sv, m.map)
    <3>1. \A i \in 1 .. Len(toClient) : k < i => Right(toClient[i], sv, m.map)
      BY <1>5, <1>9, <2>1, <2>2
    <3> HIDE DEF m
    <3> QED
      BY <3>1, <1>2, <1>3, RestFlight DEF IInv
  <2> HIDE DEF m, r
  <2> QED
    BY <1>1, <1>8, <1>9, <2>2, <2>3, <2>4 DEF IInv, Packets, MapAgrees
<1>10. ASSUME Known(cl'.serverId, sv, cl.map), cl'.map = cl.map,
              cl'.snap = cl.snap \/ cl'.snap.map = cl.map
       PROVE  IInv'
  <2>1. Flight(r, sv, cl.map)
    <3>1. \A i \in 1 .. Len(toClient) : Right(toClient[i], sv, cl.map)
      BY DEF IInv, Flight
    <3> QED
      BY <3>1, <1>2, <1>3, RestFlight DEF IInv
  <2> HIDE DEF m, r
  <2> QED
    BY <1>1, <1>8, <1>10, <2>1 DEF IInv, MapAgrees
<1>11. CASE /\ m.type = "snapshot" /\ cl'.serverId = m.id /\ cl'.map = cl.map
            /\ cl'.snap = cl.snap \/ cl'.snap.map = m.map
  BY <1>4, <1>10, <1>11 DEF Right
<1>12. CASE cl'.serverId = cl.serverId /\ cl'.map = cl.map /\ cl'.snap = cl.snap
  BY <1>10, <1>12 DEF IInv
<1> QED
  BY <1>9, <1>11, <1>12, ParsedIs

-----------------------------------------------------------------------------
LEMMA InitInv == Init => IInv
<1> SUFFICES ASSUME Init PROVE IInv
  OBVIOUS
<1>1. /\ sv = [serverId |-> 1, restartedServerId |-> 1, map |-> 1, next |-> 0]
      /\ client = [state |-> "CONNECTED", deltaMessage |-> 0, serverIdAcknowledge |-> 0,
                   gamestateMessageNum |-> -1, outgoingSequence |-> 1]
      /\ toClient = <<>> /\ toServer = <<>>
  BY DEF Init
<1>2. cl = [serverId |-> 0, map |-> 0, snap |-> NoSnap, parseEntitiesNum |-> 0, sequence |-> 0]
  BY DEF Init, Cleared
<1>3. Shapes
  <2>1. toClient \in Seq({}) /\ toServer \in Seq({})
    BY <1>1
  <2> QED
    BY <1>1, <1>2, <2>1 DEF Shapes
<1>4. ServerOK(sv, cl.map) /\ Known(cl.serverId, sv, cl.map)
      /\ Known(client.serverIdAcknowledge, sv, cl.map)
  BY <1>1, <1>2 DEF ServerOK, Known
<1>5. Packets(toServer, sv, cl.map) /\ Flight(toClient, sv, cl.map)
  BY <1>1 DEF Packets, Flight
<1>6. MapAgrees
  BY <1>2 DEF MapAgrees, NoSnap
<1> QED
  BY <1>3, <1>4, <1>5, <1>6 DEF IInv

LEMMA NextInv == IInv /\ [Next]_vars => IInv'
<1> SUFFICES ASSUME IInv, [Next]_vars PROVE IInv'
  OBVIOUS
<1>1. CASE UNCHANGED vars
  BY <1>1 DEF vars, IInv, Shapes, MapAgrees
<1>2. CASE Next
  BY <1>2, SendSnapshotStep, LevelStep, ExecuteStep, WritePacketStep, ParseStep DEF Next
<1> QED
  BY <1>1, <1>2

\* Whatever messages and packets are lost, and however maps and restarts follow
\* each other, a client never has a snapshot of a map whose gamestate it has not.
THEOREM SnapshotsAreOfTheMap == Spec => []MapAgrees
<1>1. IInv => MapAgrees
  BY DEF IInv
<1> QED
  BY <1>1, InitInv, NextInv, PTL DEF Spec

-----------------------------------------------------------------------------
(* Deltas.  A number that the server may make a delta from, wherever it is *)
(* on its way, is that of a snapshot the client has, unless this is too    *)
(* old to be used.  No such number outlives a gamestate, which clears the  *)
(* client's snapshots: of the gamestates on their way there is never more  *)
(* than one, and while there is one the client has not the server's map.   *)

\* The snapshot of message n is in its place, until a later one may be there.
Held(last, ring, n) ==
    /\ n \in Nat /\ n <= last
    /\ last - n < PACKET_BACKUP => ring[Frame(n)].valid /\ ring[Frame(n)].messageNum = n

Numbered ==
    /\ client.state \in {"CONNECTED", "PRIMED", "ACTIVE"}
    /\ client.outgoingSequence \in Nat \ {0}
    /\ client.gamestateMessageNum \in Int
    /\ client.gamestateMessageNum < client.outgoingSequence
    /\ client.deltaMessage \in Int
    /\ cl.sequence \in Nat /\ cl.sequence < client.outgoingSequence
    /\ cl.snap.messageNum \in Nat /\ cl.snap.messageNum <= cl.sequence
    /\ DOMAIN snapshots = 0 .. PACKET_BACKUP - 1

\* No delta follows a gamestate.
Follows(m, n) ==
    /\ m.num < n.num
    /\ m.type = "gamestate" /\ n.type = "snapshot" => n.delta = 0

OnItsWay(m, s, c, l, ring) ==
    /\ m.num \in Nat /\ l.sequence < m.num /\ m.num < c.outgoingSequence
    /\ m.type = "gamestate" =>
         /\ m.num = c.gamestateMessageNum
         /\ m.map = s.map => /\ c.state # "CONNECTED"
                             /\ c.state = "PRIMED" => m.id = s.serverId
    /\ m.type = "snapshot" =>
         /\ c.state = "PRIMED" /\ m.map = s.map => m.id = s.serverId
         /\ m.delta # 0 =>
              /\ m.delta \in Nat /\ m.delta < PACKET_BACKUP
              /\ Held(l.snap.messageNum, ring, m.num - m.delta)

Asks(p, s, c, l, ring) ==
    /\ p.ack \in Nat /\ p.ack <= l.sequence
    /\ p.move = "move" /\ p.id = s.serverId => Held(l.snap.messageNum, ring, p.ack)
    /\ c.state = "PRIMED" /\ l.map = s.map /\ p.id # s.serverId
       => p.ack <= c.gamestateMessageNum

Remembered ==
    /\ client.state # "ACTIVE" => sv.restartedServerId = sv.serverId
    /\ cl.map = sv.map =>
         /\ client.state # "CONNECTED"
         /\ client.gamestateMessageNum <= cl.sequence
         /\ client.state = "PRIMED" => cl.serverId = sv.serverId
    /\ client.state = "ACTIVE" /\ client.deltaMessage > 0 =>
         cl.map = sv.map /\ Held(cl.snap.messageNum, snapshots, client.deltaMessage)

DeltaInv ==
    /\ Numbered
    /\ cl.snap.valid => Held(cl.snap.messageNum, snapshots, cl.snap.messageNum)
    /\ Remembered
    /\ \A i \in 1 .. Len(toClient) : OnItsWay(toClient[i], sv, client, cl, snapshots)
    /\ \A i, j \in 1 .. Len(toClient) : i < j => Follows(toClient[i], toClient[j])
    /\ \A i \in 1 .. Len(toServer) : Asks(toServer[i], sv, client, cl, snapshots)

OneMore(q, m, r) ==
    /\ \A i \in 1 .. Len(r) : r[i] = m \/ \E a \in 1 .. Len(q) : r[i] = q[a]
    /\ \A i, j \in 1 .. Len(r) : i < j =>
         \E a \in 1 .. Len(q) :
             /\ r[i] = q[a]
             /\ r[j] = m \/ \E b \in 1 .. Len(q) : a < b /\ r[j] = q[b]

LEMMA SentEach ==
    ASSUME NEW S, NEW q \in Seq(S), NEW m, NEW r, r = Sent(q, m)
    PROVE  OneMore(q, m, r)
<1>1. PICK lost \in {0, 1} : /\ Len(r) = Len(q) + 1 - lost
                             /\ lost <= Len(q)
                             /\ \A i \in 1 .. Len(q) - lost : r[i] = q[i + lost]
                             /\ r[Len(q) + 1 - lost] = m
  BY SentIs
<1>2. Len(q) \in Nat
  OBVIOUS
<1>3. \A i \in 1 .. Len(r) :
        \/ i = Len(r) /\ r[i] = m
        \/ i < Len(r) /\ i + lost \in 1 .. Len(q) /\ r[i] = q[i + lost]
  BY <1>1, <1>2
<1>4. ASSUME NEW i \in 1 .. Len(r), NEW j \in 1 .. Len(r), i < j
      PROVE  /\ i + lost \in 1 .. Len(q) /\ r[i] = q[i + lost]
             /\ r[j] = m \/ (j + lost \in 1 .. Len(q) /\ i + lost < j + lost /\ r[j] = q[j + lost])
  BY <1>1, <1>2, <1>3, <1>4
<1> QED
  BY <1>3, <1>4 DEF OneMore

\* What is left when the first k were taken.
Left(q, k, r) ==
    /\ \A i \in 1 .. Len(r) : \E a \in 1 .. Len(q) : k < a /\ r[i] = q[a]
    /\ \A i, j \in 1 .. Len(r) : i < j =>
         \E a, b \in 1 .. Len(q) : a < b /\ r[i] = q[a] /\ r[j] = q[b]

LEMMA RestEach ==
    ASSUME NEW S, NEW q \in Seq(S), NEW k \in 1 .. Len(q),
           NEW r, r = SubSeq(q, k + 1, Len(q))
    PROVE  Left(q, k, r)
<1>1. Len(r) = Len(q) - k /\ \A i \in 1 .. Len(r) : r[i] = q[i + k]
  BY RestIs
<1>2. Len(q) \in Nat
  OBVIOUS
<1>3. \A i \in 1 .. Len(r) : i + k \in 1 .. Len(q) /\ k < i + k /\ r[i] = q[i + k]
  BY <1>1, <1>2
<1>4. \A i, j \in 1 .. Len(r) : i < j => i + k < j + k
  BY <1>1, <1>2
<1> QED
  BY <1>3, <1>4 DEF Left

LEMMA FrameInRing ==
    ASSUME NEW n \in Nat
    PROVE  Frame(n) \in 0 .. PACKET_BACKUP - 1
BY SnapshotAssumption DEF Frame

\* Two messages in the same place are a ring apart.
LEMMA FramesDiffer ==
    ASSUME NEW i \in Nat, NEW j \in Nat, i < j, Frame(i) = Frame(j)
    PROVE  j - i >= PACKET_BACKUP
<1> DEFINE a == i \div PACKET_BACKUP
           b == j \div PACKET_BACKUP
<1>1. PACKET_BACKUP \in Nat /\ PACKET_BACKUP > 0
  BY SnapshotAssumption
<1>2. /\ i = PACKET_BACKUP * a + (i % PACKET_BACKUP) /\ a \in Int
      /\ j = PACKET_BACKUP * b + (j % PACKET_BACKUP) /\ b \in Int
      /\ i % PACKET_BACKUP \in Int
  BY <1>1
<1>3. i % PACKET_BACKUP = j % PACKET_BACKUP
  BY DEF Frame
<1> HIDE DEF a, b
<1>4. j - i = PACKET_BACKUP * (b - a) /\ b - a \in Int
  <2>1. /\ PACKET_BACKUP * a \in Int /\ PACKET_BACKUP * b \in Int
        /\ PACKET_BACKUP * (b - a) = PACKET_BACKUP * b - PACKET_BACKUP * a
    BY <1>1, <1>2
  <2> QED
    BY <1>2, <1>3, <2>1
<1>5. b - a >= 1
  <2>1. CASE b - a <= 0
    <3>1. PACKET_BACKUP * (b - a) <= 0
      BY <1>1, <1>4, <2>1
    <3> QED
      BY <1>4, <3>1
  <2> QED
    BY <1>4, <2>1
<1>6. PACKET_BACKUP * (b - a) >= PACKET_BACKUP
  BY <1>1, <1>4, <1>5
<1> QED
  BY <1>4, <1>6

\* While a gamestate is on its way, the client has not the server's map, nor has
\* any packet its id.
LEMMA NotYet ==
    ASSUME IInv, DeltaInv, NEW i \in 1 .. Len(toClient), toClient[i].type = "gamestate"
    PROVE  /\ cl.map # sv.map
           /\ \A id : Known(id, sv, cl.map) => id # sv.serverId
<1>1. OnItsWay(toClient[i], sv, client, cl, snapshots)
  BY DEF DeltaInv
<1>2. cl.map # sv.map
  BY <1>1 DEF OnItsWay, DeltaInv, Remembered, Numbered
<1> QED
  BY <1>2 DEF IInv, ServerOK, Known

\* A delta is made from a snapshot the client has.
LEMMA SourceHeld ==
    ASSUME IInv, DeltaInv, NEW next, DeltaSource(next) # 0
    PROVE  LET source == DeltaSource(next)
           IN  /\ Held(cl.snap.messageNum, snapshots, source)
               /\ cl.map = sv.map
               /\ source < client.outgoingSequence
               /\ client.outgoingSequence - source < PACKET_BACKUP
<1>1. /\ DeltaSource(next) = client.deltaMessage
      /\ ~(client.deltaMessage <= 0) /\ client.state = "ACTIVE"
      /\ ~(client.outgoingSequence - client.deltaMessage >= PACKET_BACKUP - Slack)
  BY DEF DeltaSource
<1>2. cl.map = sv.map /\ Held(cl.snap.messageNum, snapshots, client.deltaMessage)
  BY <1>1 DEF DeltaInv, Numbered, Remembered
<1>3. /\ client.deltaMessage \in Nat /\ client.outgoingSequence \in Nat
      /\ cl.snap.messageNum \in Nat /\ cl.sequence \in Nat
      /\ cl.snap.messageNum <= cl.sequence /\ cl.sequence < client.outgoingSequence
  BY <1>2 DEF DeltaInv, Numbered, Held
<1>4. client.deltaMessage <= cl.snap.messageNum
  BY <1>2 DEF Held
<1>5. client.deltaMessage < client.outgoingSequence
  BY <1>3, <1>4
<1>6. PACKET_BACKUP \in Nat /\ Slack \in Nat
  BY SnapshotAssumption
<1>7. client.outgoingSequence - client.deltaMessage < PACKET_BACKUP
  BY <1>1, <1>3, <1>6
<1> QED
  BY <1>1, <1>2, <1>5, <1>7

LEMMA DeltaSendStep ==
    ASSUME IInv, DeltaInv, NEW world, NEW others, SV_SendClientSnapshot(world, others)
    PROVE  DeltaInv'
<1> DEFINE number == client.outgoingSequence
<1>1. UNCHANGED <<cl, snapshots, toServer>>
  BY DEF SV_SendClientSnapshot
<1>2. /\ sv'.serverId = sv.serverId /\ sv'.restartedServerId = sv.restartedServerId
      /\ sv'.map = sv.map
  <2>1. \E n : sv' = [sv EXCEPT !.next = n]
    BY DEF SV_SendClientSnapshot
  <2> QED
    BY <2>1 DEF IInv, Shapes
<1>3. /\ client'.state = client.state /\ client'.deltaMessage = client.deltaMessage
      /\ client'.gamestateMessageNum = client.gamestateMessageNum
      /\ client'.outgoingSequence = number + 1
  <2>1. client' = [client EXCEPT !.outgoingSequence = client.outgoingSequence + 1]
    BY DEF SV_SendClientSnapshot
  <2> QED
    BY <2>1 DEF IInv, Shapes
<1>4. \E m : /\ toClient' = Sent(toClient, m)
             /\ m.num = number
             /\ \/ m.type = "nop"
                \/ /\ m.type = "snapshot" /\ m.id = sv.serverId
                   /\ \E n : m.delta = IF DeltaSource(n) = 0 THEN 0 ELSE number - DeltaSource(n)
  <2> DEFINE snap(d, e) == [type |-> "snapshot", num |-> client.outgoingSequence,
                            id |-> sv.serverId, map |-> sv.map, delta |-> d,
                            entities |-> e, truth |-> world]
             nop == [type |-> "nop", num |-> client.outgoingSequence]
             D(n) == IF DeltaSource(n) = 0 THEN 0 ELSE number - DeltaSource(n)
  <2>1. \/ toClient' = Sent(toClient, nop)
        \/ \E n, e : toClient' = Sent(toClient, snap(D(n), e))
    <3>1. CASE Acknowledged
      BY <3>1 DEF SV_SendClientSnapshot
    <3>2. CASE ~Acknowledged
      BY <3>2 DEF SV_SendClientSnapshot
    <3> QED
      BY <3>1, <3>2
  <2>2. nop.type = "nop" /\ nop.num = number
    OBVIOUS
  <2>3. \A d, e : /\ snap(d, e).type = "snapshot" /\ snap(d, e).id = sv.serverId
                  /\ snap(d, e).num = number /\ snap(d, e).delta = d
    OBVIOUS
  <2> HIDE DEF snap, nop
  <2> QED
    BY <2>1, <2>2, <2>3
<1>5. PICK m : /\ toClient' = Sent(toClient, m)
               /\ m.num = number
               /\ \/ m.type = "nop"
                  \/ /\ m.type = "snapshot" /\ m.id = sv.serverId
                     /\ \E n : m.delta = IF DeltaSource(n) = 0 THEN 0
                                         ELSE number - DeltaSource(n)
  BY <1>4
<1>6. Numbered' /\ Remembered'
  BY <1>1, <1>2, <1>3 DEF DeltaInv, Numbered, Remembered
<1>7. \A x : OnItsWay(x, sv, client, cl, snapshots) => OnItsWay(x, sv', client', cl', snapshots')
  BY <1>1, <1>2, <1>3 DEF OnItsWay, DeltaInv, Numbered
<1>8. OnItsWay(m, sv', client', cl', snapshots') /\ (m.type = "snapshot" /\ m.delta # 0 => cl.map = sv.map)
  <2>1. CASE m.type = "nop"
    BY <2>1, <1>1, <1>3, <1>5 DEF OnItsWay, DeltaInv, Numbered
  <2>2. CASE m.type = "snapshot" /\ m.id = sv.serverId
    <3>1. PICK n : m.delta = IF DeltaSource(n) = 0 THEN 0 ELSE number - DeltaSource(n)
      BY <2>2, <1>5
    <3>2. ASSUME m.delta # 0
          PROVE  /\ m.delta \in Nat /\ m.delta < PACKET_BACKUP
                 /\ Held(cl.snap.messageNum, snapshots, number - m.delta)
                 /\ cl.map = sv.map
      <4>1. DeltaSource(n) # 0 /\ m.delta = number - DeltaSource(n)
        BY <3>1, <3>2
      <4>2. /\ DeltaSource(n) \in Nat /\ DeltaSource(n) < number
            /\ number - DeltaSource(n) < PACKET_BACKUP
            /\ Held(cl.snap.messageNum, snapshots, DeltaSource(n))
            /\ cl.map = sv.map
        BY <4>1, SourceHeld DEF Held
      <4>3. number \in Nat
        BY DEF DeltaInv, Numbered
      <4>4. number - m.delta = DeltaSource(n)
        BY <4>1, <4>2, <4>3
      <4> QED
        BY <4>1, <4>2, <4>3, <4>4
    <3> QED
      BY <2>2, <3>2, <1>1, <1>2, <1>3, <1>5 DEF OnItsWay, DeltaInv, Numbered
  <2> QED
    BY <1>5, <2>1, <2>2
<1>9. \A i \in 1 .. Len(toClient) : Follows(toClient[i], m)
  <2> SUFFICES ASSUME NEW i \in 1 .. Len(toClient) PROVE Follows(toClient[i], m)
    OBVIOUS
  <2>1. OnItsWay(toClient[i], sv, client, cl, snapshots)
    BY DEF DeltaInv
  <2>2. toClient[i].type = "gamestate" => cl.map # sv.map
    BY NotYet
  <2> QED
    BY <2>1, <2>2, <1>5, <1>8 DEF OnItsWay, Follows
<1>10. PICK S : toClient \in Seq(S)
  BY DEF IInv, Shapes
<1>s. OneMore(toClient, m, toClient')
  BY <1>5, <1>10, SentEach
<1>11. /\ \A i \in 1 .. Len(toClient') : OnItsWay(toClient'[i], sv', client', cl', snapshots')
       /\ \A i, j \in 1 .. Len(toClient') : i < j => Follows(toClient'[i], toClient'[j])
  <2>1. \A i \in 1 .. Len(toClient) : OnItsWay(toClient[i], sv', client', cl', snapshots')
    BY <1>7 DEF DeltaInv
  <2> QED
    BY <2>1, <1>8, <1>9, <1>s DEF DeltaInv, OneMore
<1>12. /\ \A i \in 1 .. Len(toServer) : Asks(toServer[i], sv', client', cl', snapshots')
       /\ cl'.snap.valid => Held(cl'.snap.messageNum, snapshots', cl'.snap.messageNum)
  BY <1>1, <1>2, <1>3 DEF DeltaInv, Asks
<1> QED
  BY <1>1, <1>6, <1>11, <1>12 DEF DeltaInv

\* The numbers in use are those of older maps or of before the restart; a client
\* that the restart brought into the game has not asked for deltas yet.
LEMMA DeltaLevelStep ==
    ASSUME IInv, DeltaInv, SV_SpawnServer \/ SV_Restart
    PROVE  DeltaInv'
<1>1. UNCHANGED <<cl, snapshots, toClient, toServer>>
  BY DEF SV_SpawnServer, SV_Restart
<1>2. /\ sv'.serverId = sv.serverId + 1
      /\ \/ /\ sv'.restartedServerId = sv.serverId + 1 /\ sv'.map = sv.map + 1
            /\ client'.state = "CONNECTED" /\ client'.deltaMessage = client.deltaMessage
         \/ /\ sv'.map = sv.map
            /\ client'.state = "ACTIVE" /\ client'.deltaMessage = -1
      /\ client'.gamestateMessageNum = client.gamestateMessageNum
      /\ client'.outgoingSequence = client.outgoingSequence
  <2>1. CASE SV_SpawnServer
    BY <2>1 DEF SV_SpawnServer, IInv, Shapes
  <2>2. CASE SV_Restart
    BY <2>2 DEF SV_Restart, SV_ClientEnterWorld, IInv, Shapes
  <2> QED
    BY <2>1, <2>2
<1>3. /\ sv.serverId \in Nat /\ sv.map \in Nat /\ cl.map \in Nat /\ cl.map <= sv.map
      /\ Known(cl.serverId, sv, cl.map)
  BY DEF IInv, ServerOK
<1>4. Numbered'
  BY <1>1, <1>2 DEF DeltaInv, Numbered
<1>5. Remembered'
  BY <1>1, <1>2, <1>3 DEF DeltaInv, Remembered
<1>6. \A i \in 1 .. Len(toClient) : OnItsWay(toClient[i], sv', client', cl', snapshots')
  <2> SUFFICES ASSUME NEW i \in 1 .. Len(toClient) PROVE OnItsWay(toClient[i], sv', client', cl', snapshots')
    OBVIOUS
  <2>1. OnItsWay(toClient[i], sv, client, cl, snapshots) /\ Right(toClient[i], sv, cl.map)
    BY DEF DeltaInv, IInv, Flight
  <2>2. toClient[i].type = "gamestate" => toClient[i].map \in Nat /\ toClient[i].map <= sv.map
    BY <2>1 DEF Right
  <2> QED
    BY <1>1, <1>2, <1>3, <2>1, <2>2 DEF OnItsWay
<1>7. \A i \in 1 .. Len(toServer) : Asks(toServer[i], sv', client', cl', snapshots')
  <2> SUFFICES ASSUME NEW i \in 1 .. Len(toServer) PROVE Asks(toServer[i], sv', client', cl', snapshots')
    OBVIOUS
  <2>1. Asks(toServer[i], sv, client, cl, snapshots) /\ Known(toServer[i].id, sv, cl.map)
    BY DEF DeltaInv, IInv, Packets
  <2>2. toServer[i].id # sv'.serverId
    BY <2>1, <1>2, <1>3 DEF Known
  <2> QED
    BY <1>1, <1>2, <2>1, <2>2 DEF Asks
<1> QED
  BY <1>1, <1>4, <1>5, <1>6, <1>7 DEF DeltaInv

\* A packet of the server's map asks for a snapshot that its sender has; a
\* gamestate is sent when the last one is lost, hence none is on its way.
LEMMA DeltaExecuteStep ==
    ASSUME IInv, DeltaInv, NEW k \in DOMAIN toServer, SV_ExecuteClientMessage(k)
    PROVE  DeltaInv'
<1> DEFINE p == toServer[k]
           r == SubSeq(toServer, k + 1, Len(toServer))
           c == [client EXCEPT !.serverIdAcknowledge = p.id]
<1>1. UNCHANGED <<sv, cl, snapshots>> /\ toServer' = r
  BY DEF SV_ExecuteClientMessage
<1>2. PICK S : toServer \in Seq(S)
  BY DEF IInv, Shapes
<1>3. k \in 1 .. Len(toServer)
  BY <1>2
<1>4. Known(p.id, sv, cl.map) /\ Asks(p, sv, client, cl, snapshots)
  BY <1>3 DEF IInv, Packets, DeltaInv
<1>5. c = [state |-> client.state, deltaMessage |-> client.deltaMessage,
           serverIdAcknowledge |-> p.id,
           gamestateMessageNum |-> client.gamestateMessageNum,
           outgoingSequence |-> client.outgoingSequence]
  <2>1. client = [state |-> client.state, deltaMessage |-> client.deltaMessage,
                  serverIdAcknowledge |-> client.serverIdAcknowledge,
                  gamestateMessageNum |-> client.gamestateMessageNum,
                  outgoingSequence |-> client.outgoingSequence]
    BY DEF IInv, Shapes
  <2> HIDE DEF p
  <2> QED
    BY <2>1
<1>6. \/ /\ p.id = sv.serverId /\ client' = Moved(c, p) /\ UNCHANGED toClient
      \/ client' = c /\ UNCHANGED toClient
      \/ /\ p.id # sv.serverId
         /\ ~(sv.restartedServerId <= p.id /\ p.id < sv.serverId)
         /\ Dropped(p) /\ SV_SendClientGameState(c)
  BY DEF SV_ExecuteClientMessage
<1>7. \A i \in 1 .. Len(toServer') : \E a \in 1 .. Len(toServer) : toServer'[i] = toServer[a]
  <2>1. Left(toServer, k, toServer')
    BY <1>1, <1>2, <1>3, RestEach
  <2> QED
    BY <2>1 DEF Left
<1> HIDE DEF c, p, r
<1>8. ASSUME UNCHANGED toClient,
             client'.state = client.state \/ (client.state = "PRIMED" /\ client'.state = "ACTIVE"),
             client'.deltaMessage \in Int,
             client'.state = "ACTIVE" /\ client'.deltaMessage > 0 =>
                cl.map = sv.map /\ Held(cl.snap.messageNum, snapshots, client'.deltaMessage),
             client'.gamestateMessageNum = client.gamestateMessageNum,
             client'.outgoingSequence = client.outgoingSequence
      PROVE  DeltaInv'
  <2>1. Numbered'
    BY <1>1, <1>8 DEF DeltaInv, Numbered
  <2>2. Remembered'
    BY <1>1, <1>8 DEF DeltaInv, Remembered, Numbered
  <2>3. \A x : OnItsWay(x, sv, client, cl, snapshots) => OnItsWay(x, sv', client', cl', snapshots')
    BY <1>1, <1>8 DEF OnItsWay
  <2>4. \A x : Asks(x, sv, client, cl, snapshots) => Asks(x, sv', client', cl', snapshots')
    BY <1>1, <1>8 DEF Asks
  <2>5. \A i \in 1 .. Len(toServer') : Asks(toServer'[i], sv', client', cl', snapshots')
    BY <1>7, <2>4 DEF DeltaInv
  <2> QED
    BY <1>1, <1>8, <2>1, <2>2, <2>3, <2>5 DEF DeltaInv
<1>9. CASE client' = c /\ UNCHANGED toClient
  <2>1. client.deltaMessage \in Int
    BY DEF DeltaInv, Numbered
  <2>2. client.state = "ACTIVE" /\ client.deltaMessage > 0 =>
                cl.map = sv.map /\ Held(cl.snap.messageNum, snapshots, client.deltaMessage)
    BY DEF DeltaInv, Remembered
  <2> QED
    BY <1>5, <1>8, <1>9, <2>1, <2>2
<1>10. CASE p.id = sv.serverId /\ client' = Moved(c, p) /\ UNCHANGED toClient
  <2>1. cl.map = sv.map /\ p.ack \in Nat
        /\ (p.move = "move" => Held(cl.snap.messageNum, snapshots, p.ack))
    BY <1>4, <1>10 DEF Known, Asks, IInv, ServerOK
  <2>2. /\ client.deltaMessage \in Int
        /\ client.state = "ACTIVE" /\ client.deltaMessage > 0 =>
                cl.map = sv.map /\ Held(cl.snap.messageNum, snapshots, client.deltaMessage)
        /\ client.state \in {"CONNECTED", "PRIMED", "ACTIVE"}
    BY DEF DeltaInv, Numbered, Remembered
  <2>3. /\ client'.state = client.state \/ (client.state = "PRIMED" /\ client'.state = "ACTIVE")
        /\ \/ client'.deltaMessage \in {client.deltaMessage, -1}
           \/ client'.deltaMessage = p.ack /\ p.move = "move"
        /\ client'.state = "ACTIVE" /\ client'.deltaMessage = client.deltaMessage
             /\ client.deltaMessage > 0 => client.state = "ACTIVE"
        /\ client'.gamestateMessageNum = client.gamestateMessageNum
        /\ client'.outgoingSequence = client.outgoingSequence
    <3>1. CASE p.move = "none"
      BY <1>5, <1>10, <3>1 DEF Moved
    <3>2. CASE p.move # "none" /\ client.state = "PRIMED"
      BY <1>5, <1>10, <3>2 DEF Moved, SV_ClientEnterWorld
    <3>3. CASE p.move # "none" /\ client.state = "CONNECTED"
      BY <1>5, <1>10, <3>3 DEF Moved
    <3>4. CASE p.move # "none" /\ client.state = "ACTIVE"
      BY <1>5, <1>10, <3>4 DEF Moved
    <3> QED
      BY <2>2, <3>1, <3>2, <3>3, <3>4
  <2>4. client'.state = "ACTIVE" /\ client'.deltaMessage > 0 =>
                cl.map = sv.map /\ Held(cl.snap.messageNum, snapshots, client'.deltaMessage)
    BY <2>1, <2>2, <2>3
  <2>5. client'.deltaMessage \in Int
    BY <2>1, <2>2, <2>3
  <2> QED
    BY <1>8, <1>10, <2>3, <2>4, <2>5
<1>11. CASE /\ p.id # sv.serverId
            /\ ~(sv.restartedServerId <= p.id /\ p.id < sv.serverId)
            /\ Dropped(p) /\ SV_SendClientGameState(c)
  <2> DEFINE m == [type |-> "gamestate", num |-> client.outgoingSequence,
                   id |-> sv.serverId, map |-> sv.map]
  <2>1. /\ client'.state = "PRIMED" /\ client'.deltaMessage = client.deltaMessage
        /\ client'.gamestateMessageNum = client.outgoingSequence
        /\ client'.outgoingSequence = client.outgoingSequence + 1
        /\ toClient' = Sent(toClient, m)
    <3>1. c.outgoingSequence = client.outgoingSequence
      BY <1>5
    <3>2. /\ client' = [c EXCEPT !.state = "PRIMED",
                           !.gamestateMessageNum = c.outgoingSequence,
                           !.outgoingSequence = c.outgoingSequence + 1]
          /\ toClient' = Sent(toClient, [type |-> "gamestate", num |-> c.outgoingSequence,
                                   id |-> sv.serverId, map |-> sv.map])
      BY <1>11 DEF SV_SendClientGameState
    <3>3. toClient' = Sent(toClient, m)
      BY <3>1, <3>2
    <3> HIDE DEF m
    <3>4. client' = [c EXCEPT !.state = "PRIMED",
                              !.gamestateMessageNum = client.outgoingSequence,
                              !.outgoingSequence = client.outgoingSequence + 1]
      BY <3>1, <3>2
    <3>5. client' = [state |-> "PRIMED", deltaMessage |-> client.deltaMessage,
                     serverIdAcknowledge |-> p.id,
                     gamestateMessageNum |-> client.outgoingSequence,
                     outgoingSequence |-> client.outgoingSequence + 1]
      BY <1>5, <3>4
    <3> QED
      BY <3>3, <3>5
  <2>2. /\ client.state # "ACTIVE" /\ p.ack > client.gamestateMessageNum
        /\ p.ack \in Nat /\ p.ack <= cl.sequence
    BY <1>4, <1>11 DEF Dropped, Asks
  <2>3. \A i \in 1 .. Len(toClient) : toClient[i].type # "gamestate"
    BY <2>2 DEF DeltaInv, OnItsWay, Numbered
  <2>4. cl.map # sv.map
    <3>1. client.state \in {"CONNECTED", "PRIMED"}
      BY <2>2 DEF DeltaInv, Numbered
    <3> QED
      BY <1>4, <1>11, <2>2, <3>1 DEF DeltaInv, Remembered, Asks, Numbered
  <2>5. \A i \in 1 .. Len(toClient) : Right(toClient[i], sv, cl.map) /\ OnItsWay(toClient[i], sv, client, cl, snapshots)
    BY DEF DeltaInv, IInv, Flight
  <2>6. \A i \in 1 .. Len(toClient) : OnItsWay(toClient[i], sv', client', cl', snapshots')
    BY <1>1, <2>1, <2>3, <2>4, <2>5 DEF OnItsWay, Right, DeltaInv, Numbered
  <2>7. m.type = "gamestate" /\ m.num = client.outgoingSequence /\ m.id = sv.serverId
    OBVIOUS
  <2> HIDE DEF m
  <2>8. OnItsWay(m, sv', client', cl', snapshots')
    BY <1>1, <2>1, <2>7 DEF OnItsWay, DeltaInv, Numbered
  <2>9. \A i \in 1 .. Len(toClient) : Follows(toClient[i], m)
    BY <2>3, <2>5, <2>7 DEF OnItsWay, Follows
  <2>10. PICK Q : toClient \in Seq(Q)
    BY DEF IInv, Shapes
  <2>11. OneMore(toClient, m, toClient')
    BY <2>1, <2>10, SentEach
  <2>12. /\ \A i \in 1 .. Len(toClient') : OnItsWay(toClient'[i], sv', client', cl', snapshots')
         /\ \A i, j \in 1 .. Len(toClient') : i < j => Follows(toClient'[i], toClient'[j])
    BY <2>6, <2>8, <2>9, <2>11 DEF DeltaInv, OneMore
  <2>13. Numbered'
    BY <1>1, <2>1 DEF DeltaInv, Numbered
  <2>14. Remembered'
    BY <1>1, <2>1, <2>2, <2>4 DEF DeltaInv, Remembered
  <2>15. \A x : Asks(x, sv, client, cl, snapshots) => Asks(x, sv', client', cl', snapshots')
    BY <1>1, <2>1, <2>4 DEF Asks
  <2>16. \A i \in 1 .. Len(toServer') : Asks(toServer'[i], sv', client', cl', snapshots')
    BY <1>7, <2>15 DEF DeltaInv
  <2> QED
    BY <1>1, <2>12, <2>13, <2>14, <2>16 DEF DeltaInv
<1> QED
  BY <1>6, <1>9, <1>10, <1>11

LEMMA DeltaWriteStep ==
    ASSUME IInv, DeltaInv, CL_WritePacket
    PROVE  DeltaInv'
<1>1. UNCHANGED <<sv, client, cl, snapshots, toClient>>
  BY DEF CL_WritePacket
<1>2. PICK move \in {"none", Move} :
        toServer' = Sent(toServer, [id |-> cl.serverId, ack |-> cl.sequence, move |-> move])
  BY DEF CL_WritePacket
<1> DEFINE p == [id |-> cl.serverId, ack |-> cl.sequence, move |-> move]
<1>3. PICK S : toServer \in Seq(S)
  BY DEF IInv, Shapes
<1>4. p.id = cl.serverId /\ p.ack = cl.sequence /\ p.move = move
  OBVIOUS
<1> HIDE DEF p
<1>5. toServer' = Sent(toServer, p)
  BY <1>2 DEF p
<1>6. \A i \in 1 .. Len(toServer') :
        toServer'[i] = p \/ \E a \in 1 .. Len(toServer) : toServer'[i] = toServer[a]
  <2>1. OneMore(toServer, p, toServer')
    BY <1>3, <1>5, SentEach
  <2> QED
    BY <2>1 DEF OneMore
<1>7. move = "move" => cl.snap.valid /\ cl.sequence = cl.snap.messageNum
  BY <1>2 DEF Move
<1>8. Asks(p, sv, client, cl, snapshots)
  BY <1>4, <1>7 DEF Asks, DeltaInv, Numbered, Remembered
<1>9. \A i \in 1 .. Len(toServer') : Asks(toServer'[i], sv, client, cl, snapshots)
  BY <1>6, <1>8 DEF DeltaInv
<1> QED
  BY <1>1, <1>9 DEF DeltaInv, Numbered, Remembered, OnItsWay, Asks

\* What the client parsed changes its snapshots in one of three ways.
LEMMA ParsedSnapshots ==
    ASSUME IInv, DeltaInv, NEW k \in DOMAIN toClient, CL_ParseServerMessage(k)
    PROVE  LET m == toClient[k]
           IN  /\ cl'.sequence = m.num
               /\ \/ /\ m.type = "gamestate"
                     /\ cl'.serverId = m.id /\ cl'.map = m.map
                     /\ ~cl'.snap.valid /\ cl'.snap.messageNum = 0
                     /\ DOMAIN snapshots' = DOMAIN snapshots
                  \/ /\ m.type = "snapshot" /\ cl'.serverId = m.id /\ cl'.map = cl.map
                     /\ cl'.snap.valid /\ cl'.snap.messageNum = m.num
                     /\ snapshots' = Kept(cl'.snap)
                  \/ /\ m.type \in {"snapshot", "nop"} /\ cl'.map = cl.map
                     /\ m.type = "snapshot" => cl'.serverId = m.id
                     /\ m.type = "nop" => cl'.serverId = cl.serverId
                     /\ cl'.snap = cl.snap /\ snapshots' = snapshots
<1> DEFINE m == toClient[k]
<1>1. cl = [serverId |-> cl.serverId, map |-> cl.map, snap |-> cl.snap,
            parseEntitiesNum |-> cl.parseEntitiesNum, sequence |-> cl.sequence]
  BY DEF IInv, Shapes
<1>2. CASE CL_ParseGamestate(m)
  <2>1. /\ cl' = [serverId |-> m.id, map |-> m.map, snap |-> NoSnap,
                  parseEntitiesNum |-> 0, sequence |-> m.num]
        /\ m.type = "gamestate"
        /\ snapshots' = [n \in DOMAIN snapshots |-> NoSnap]
    BY <1>2 DEF CL_ParseGamestate, Cleared
  <2> HIDE DEF m
  <2>2. ~NoSnap.valid /\ NoSnap.messageNum = 0
    BY DEF NoSnap
  <2> QED
    BY <2>1, <2>2 DEF m
<1>3. CASE CL_ParseSnapshot(m)
  <2> DEFINE Snap(f, n) == [valid |-> TRUE, messageNum |-> m.num, first |-> f, num |-> n,
                            truth |-> m.truth, map |-> m.map]
  <2>1. /\ m.type = "snapshot"
        /\ \E v, f, n, x :
             /\ cl' = [cl EXCEPT !.sequence = m.num, !.parseEntitiesNum = x, !.serverId = m.id,
                                 !.snap = IF v = "valid" THEN Snap(f, n) ELSE cl.snap]
             /\ snapshots' = IF v = "valid" THEN Kept(Snap(f, n)) ELSE snapshots
    BY <1>3 DEF CL_ParseSnapshot
  <2>2. PICK v, f, n, x :
             /\ cl' = [cl EXCEPT !.sequence = m.num, !.parseEntitiesNum = x, !.serverId = m.id,
                                 !.snap = IF v = "valid" THEN Snap(f, n) ELSE cl.snap]
             /\ snapshots' = IF v = "valid" THEN Kept(Snap(f, n)) ELSE snapshots
    BY <2>1
  <2>3. Snap(f, n).valid /\ Snap(f, n).messageNum = m.num
    OBVIOUS
  <2> HIDE DEF m, Snap
  <2>4. /\ cl'.serverId = m.id /\ cl'.map = cl.map /\ cl'.sequence = m.num
        /\ cl'.snap = IF v = "valid" THEN Snap(f, n) ELSE cl.snap
    BY <2>2, <1>1
  <2> QED
    BY <2>1, <2>2, <2>3, <2>4 DEF m
<1>4. CASE CL_ParseNop(m)
  <2>1. cl' = [cl EXCEPT !.sequence = m.num] /\ m.type = "nop" /\ UNCHANGED snapshots
    BY <1>4 DEF CL_ParseNop
  <2> HIDE DEF m
  <2> QED
    BY <2>1, <1>1 DEF m
<1> QED
  BY <1>2, <1>3, <1>4 DEF CL_ParseServerMessage

\* A new snapshot, and the gap before it, take the places of none that is less
\* than a ring older.
LEMMA KeptHolds ==
    ASSUME DeltaInv, NEW snap, snap.valid, snap.messageNum \in Nat,
           cl.snap.messageNum < snap.messageNum
    PROVE  /\ Held(snap.messageNum, Kept(snap), snap.messageNum)
           /\ \A n : Held(cl.snap.messageNum, snapshots, n) =>
                       Held(snap.messageNum, Kept(snap), n)
           /\ DOMAIN Kept(snap) = DOMAIN snapshots
<1> DEFINE last == cl.snap.messageNum
           num == snap.messageNum
<1>1. /\ DOMAIN snapshots = 0 .. PACKET_BACKUP - 1 /\ last \in Nat
      /\ PACKET_BACKUP \in Nat \ {0}
  BY SnapshotAssumption DEF DeltaInv, Numbered
<1>2. Kept(snap)[Frame(num)] = snap
  BY <1>1, FrameInRing DEF Kept
<1>3. ASSUME NEW n, Held(last, snapshots, n)
      PROVE  Held(num, Kept(snap), n)
  <2>1. n \in Nat /\ n <= last /\ n < num
    BY <1>1, <1>3 DEF Held
  <2>2. ASSUME num - n < PACKET_BACKUP
        PROVE  Kept(snap)[Frame(n)].valid /\ Kept(snap)[Frame(n)].messageNum = n
    <3>1. Frame(n) # Frame(num)
      BY <2>1, <2>2, <1>1, FramesDiffer
    <3>2. Frame(n) \notin Skipped(num)
      <4> SUFFICES ASSUME NEW x \in (IF num - (last + 1) >= PACKET_BACKUP
                                     THEN num - (PACKET_BACKUP - 1)
                                     ELSE last + 1) .. num - 1,
                          Frame(x) = Frame(n)
                   PROVE  FALSE
        BY DEF Skipped
      <4>1. x \in Nat /\ last < x /\ x < num
        BY <1>1
      <4>2. x - n >= PACKET_BACKUP
        <5>1. n < x
          BY <1>1, <2>1, <4>1
        <5> QED
          BY <2>1, <4>1, <5>1, FramesDiffer
      <4> QED
        BY <1>1, <2>1, <2>2, <4>1, <4>2
    <3>3. Kept(snap)[Frame(n)] = snapshots[Frame(n)]
      BY <1>1, <2>1, <3>1, <3>2, FrameInRing DEF Kept
    <3>4. last - n < PACKET_BACKUP
      BY <1>1, <2>1, <2>2
    <3> QED
      BY <1>3, <3>3, <3>4 DEF Held
  <2> QED
    BY <2>1, <2>2 DEF Held
<1>4. DOMAIN Kept(snap) = DOMAIN snapshots
  BY DEF Kept
<1> QED
  BY <1>2, <1>3, <1>4 DEF Held

LEMMA DeltaParseStep ==
    ASSUME IInv, DeltaInv, NEW k \in DOMAIN toClient, CL_ParseServerMessage(k)
    PROVE  DeltaInv'
<1> DEFINE m == toClient[k]
           r == SubSeq(toClient, k + 1, Len(toClient))
<1>1. UNCHANGED <<sv, client, toServer>> /\ toClient' = r
  BY DEF CL_ParseServerMessage
<1>2. PICK S : toClient \in Seq(S)
  BY DEF IInv, Shapes
<1>3. k \in 1 .. Len(toClient)
  BY <1>2
<1>4. OnItsWay(m, sv, client, cl, snapshots) /\ Right(m, sv, cl.map)
  BY <1>3 DEF DeltaInv, IInv, Flight
<1>5. Left(toClient, k, toClient')
  BY <1>1, <1>2, <1>3, RestEach
<1>6. \A a \in 1 .. Len(toClient) : k < a =>
        /\ OnItsWay(toClient[a], sv, client, cl, snapshots)
        /\ Follows(m, toClient[a]) /\ InOrder(m, toClient[a])
        /\ Right(toClient[a], sv, cl.map)
  BY <1>3 DEF DeltaInv, IInv, Flight
<1>7. /\ m.num \in Nat /\ cl.sequence \in Nat /\ cl.sequence < m.num
      /\ m.num < client.outgoingSequence
      /\ cl.snap.messageNum \in Nat /\ cl.snap.messageNum < m.num
  BY <1>4 DEF OnItsWay, DeltaInv, Numbered
<1>8. /\ cl'.sequence = m.num
      /\ \/ /\ m.type = "gamestate"
            /\ cl'.serverId = m.id /\ cl'.map = m.map
            /\ ~cl'.snap.valid /\ cl'.snap.messageNum = 0
            /\ DOMAIN snapshots' = DOMAIN snapshots
         \/ /\ m.type = "snapshot" /\ cl'.serverId = m.id /\ cl'.map = cl.map
            /\ cl'.snap.valid /\ cl'.snap.messageNum = m.num
            /\ snapshots' = Kept(cl'.snap)
         \/ /\ m.type \in {"snapshot", "nop"} /\ cl'.map = cl.map
            /\ m.type = "snapshot" => cl'.serverId = m.id
            /\ m.type = "nop" => cl'.serverId = cl.serverId
            /\ cl'.snap = cl.snap /\ snapshots' = snapshots
  BY ParsedSnapshots
<1>9. m.type = "gamestate" => /\ cl.map # sv.map
                              /\ \A id : Known(id, sv, cl.map) => id # sv.serverId
  BY <1>3, NotYet
<1>10. \A i \in 1 .. Len(toServer) : /\ Asks(toServer[i], sv, client, cl, snapshots)
                                     /\ Known(toServer[i].id, sv, cl.map)
  BY DEF DeltaInv, IInv, Packets
<1> HIDE DEF m, r
<1>11. ASSUME \A a \in 1 .. Len(toClient) : k < a =>
                 OnItsWay(toClient[a], sv, client, cl', snapshots'),
              \A i \in 1 .. Len(toServer) : Asks(toServer[i], sv, client, cl', snapshots'),
              Numbered', Remembered',
              cl'.snap.valid => Held(cl'.snap.messageNum, snapshots', cl'.snap.messageNum)
       PROVE  DeltaInv'
  <2>1. \A i \in 1 .. Len(toClient') : OnItsWay(toClient'[i], sv', client', cl', snapshots')
    BY <1>1, <1>5, <1>11 DEF Left
  <2>2. \A i, j \in 1 .. Len(toClient') : i < j => Follows(toClient'[i], toClient'[j])
    BY <1>1, <1>5 DEF DeltaInv, Left
  <2> QED
    BY <1>1, <1>11, <2>1, <2>2 DEF DeltaInv
<1>12. CASE /\ m.type = "gamestate"
            /\ cl'.serverId = m.id /\ cl'.map = m.map
            /\ ~cl'.snap.valid /\ cl'.snap.messageNum = 0
            /\ DOMAIN snapshots' = DOMAIN snapshots
  <2>1. Numbered'
    BY <1>1, <1>7, <1>8, <1>12 DEF DeltaInv, Numbered
  <2>2. m.num = client.gamestateMessageNum
    BY <1>4, <1>12 DEF OnItsWay
  <2>3. Remembered'
    <3>1. /\ client.state # "ACTIVE" => sv.restartedServerId = sv.serverId
          /\ ~(client.state = "ACTIVE" /\ client.deltaMessage > 0)
      BY <1>9, <1>12 DEF DeltaInv, Remembered
    <3>2. cl'.map = sv.map => /\ client.state # "CONNECTED"
                              /\ client.gamestateMessageNum <= cl'.sequence
                              /\ client.state = "PRIMED" => cl'.serverId = sv.serverId
      <4>1. m.map = sv.map => /\ client.state # "CONNECTED"
                              /\ client.state = "PRIMED" => m.id = sv.serverId
        BY <1>4, <1>12 DEF OnItsWay
      <4>2. client.gamestateMessageNum <= cl'.sequence
        BY <1>7, <1>8, <2>2
      <4> QED
        BY ONLY <1>12, <4>1, <4>2
    <3> QED
      BY <1>1, <3>1, <3>2 DEF Remembered
  <2>4. ASSUME NEW a \in 1 .. Len(toClient), k < a
        PROVE  OnItsWay(toClient[a], sv, client, cl', snapshots')
    <3>1. toClient[a].num \in Nat /\ m.num < toClient[a].num
      BY <1>6, <2>4 DEF OnItsWay, Follows
    <3>2. toClient[a].type = "snapshot" => toClient[a].delta = 0
      BY <1>6, <1>12, <2>4 DEF Follows
    <3> QED
      BY <1>6, <1>8, <2>4, <3>1, <3>2 DEF OnItsWay
  <2>5. ASSUME NEW i \in 1 .. Len(toServer)
        PROVE  Asks(toServer[i], sv, client, cl', snapshots')
    <3>1. toServer[i].ack \in Nat /\ toServer[i].ack <= cl.sequence
          /\ toServer[i].id # sv.serverId
      BY <1>9, <1>10, <1>12 DEF Asks
    <3> QED
      BY <1>7, <1>8, <2>2, <3>1 DEF Asks
  <2> QED
    BY <1>11, <1>12, <2>1, <2>3, <2>4, <2>5
<1>13. ASSUME m.type # "gamestate", cl'.map = cl.map,
              cl'.snap.messageNum \in Nat, cl'.snap.messageNum <= m.num,
              DOMAIN snapshots' = DOMAIN snapshots,
              m.type = "snapshot" => cl'.serverId = m.id,
              m.type # "snapshot" => cl'.serverId = cl.serverId,
              \A n : Held(cl.snap.messageNum, snapshots, n) =>
                       Held(cl'.snap.messageNum, snapshots', n),
              cl'.snap.valid => Held(cl'.snap.messageNum, snapshots', cl'.snap.messageNum)
       PROVE  DeltaInv'
  <2>1. Numbered'
    BY <1>1, <1>7, <1>8, <1>13 DEF DeltaInv, Numbered
  <2>2. cl.map = sv.map /\ client.state = "PRIMED" => cl'.serverId = sv.serverId
    <3>1. CASE m.type = "snapshot"
      BY <1>4, <1>13, <3>1 DEF Right, OnItsWay
    <3>2. CASE m.type # "snapshot"
      BY <1>13, <3>2 DEF DeltaInv, Remembered
    <3> QED
      BY <3>1, <3>2
  <2>3. Remembered'
    BY <1>1, <1>7, <1>8, <1>13, <2>2 DEF DeltaInv, Remembered, Numbered
  <2>4. ASSUME NEW a \in 1 .. Len(toClient), k < a
        PROVE  OnItsWay(toClient[a], sv, client, cl', snapshots')
    <3>1. OnItsWay(toClient[a], sv, client, cl, snapshots) /\ m.num < toClient[a].num
      BY <1>6, <2>4 DEF Follows
    <3> QED
      BY <1>8, <1>13, <3>1 DEF OnItsWay
  <2>5. ASSUME NEW i \in 1 .. Len(toServer)
        PROVE  Asks(toServer[i], sv, client, cl', snapshots')
    BY <1>7, <1>8, <1>10, <1>13 DEF Asks
  <2> QED
    BY <1>11, <1>13, <2>1, <2>3, <2>4, <2>5
<1>14. CASE /\ m.type = "snapshot" /\ cl'.serverId = m.id /\ cl'.map = cl.map
            /\ cl'.snap.valid /\ cl'.snap.messageNum = m.num
            /\ snapshots' = Kept(cl'.snap)
  BY <1>7, <1>13, <1>14, KeptHolds
<1>15. CASE /\ m.type \in {"snapshot", "nop"} /\ cl'.map = cl.map
            /\ m.type = "snapshot" => cl'.serverId = m.id
            /\ m.type = "nop" => cl'.serverId = cl.serverId
            /\ cl'.snap = cl.snap /\ snapshots' = snapshots
  <2>1. cl.snap.valid => Held(cl.snap.messageNum, snapshots, cl.snap.messageNum)
    BY DEF DeltaInv
  <2> QED
    BY <1>7, <1>13, <1>15, <2>1
<1> QED
  BY <1>8, <1>12, <1>14, <1>15

-----------------------------------------------------------------------------
LEMMA DeltaInit == Init => DeltaInv
<1> SUFFICES ASSUME Init PROVE DeltaInv
  OBVIOUS
<1>1. /\ sv = [serverId |-> 1, restartedServerId |-> 1, map |-> 1, next |-> 0]
      /\ client = [state |-> "CONNECTED", deltaMessage |-> 0, serverIdAcknowledge |-> 0,
                   gamestateMessageNum |-> -1, outgoingSequence |-> 1]
      /\ toClient = <<>> /\ toServer = <<>>
      /\ DOMAIN snapshots = 0 .. PACKET_BACKUP - 1
  BY DEF Init
<1>2. cl = [serverId |-> 0, map |-> 0, snap |-> NoSnap, parseEntitiesNum |-> 0, sequence |-> 0]
  BY DEF Init, Cleared
<1>3. ~NoSnap.valid /\ NoSnap.messageNum = 0
  BY DEF NoSnap
<1> QED
  BY <1>1, <1>2, <1>3 DEF DeltaInv, Numbered, Remembered

LEMMA DeltaNext == IInv /\ DeltaInv /\ [Next]_vars => DeltaInv'
<1> SUFFICES ASSUME IInv, DeltaInv, [Next]_vars PROVE DeltaInv'
  OBVIOUS
<1>1. CASE UNCHANGED vars
  BY <1>1 DEF vars, DeltaInv, Numbered, Remembered
<1>2. CASE Next
  BY <1>2, DeltaSendStep, DeltaLevelStep, DeltaExecuteStep, DeltaWriteStep,
     DeltaParseStep DEF Next
<1> QED
  BY <1>1, <1>2

LEMMA DeltaInvSuffices == IInv /\ DeltaInv => DeltaFromKnownFrame
<1> SUFFICES ASSUME IInv, DeltaInv, NEW k \in DOMAIN toClient,
                    toClient[k].type = "snapshot", toClient[k].delta # 0
             PROVE  Verdict(snapshots[Frame(toClient[k].num - toClient[k].delta)],
                            toClient[k].num - toClient[k].delta)
                      \notin {"invalid", "too old"}
  BY DEF DeltaFromKnownFrame
<1> DEFINE m == toClient[k]
           n == m.num - m.delta
<1>1. k \in 1 .. Len(toClient)
  BY DEF IInv, Shapes
<1>2. OnItsWay(m, sv, client, cl, snapshots)
  BY <1>1 DEF DeltaInv
<1>3. /\ Held(cl.snap.messageNum, snapshots, n)
      /\ m.num \in Nat /\ m.delta \in Nat /\ m.delta < PACKET_BACKUP
      /\ cl.snap.messageNum \in Nat /\ cl.snap.messageNum <= m.num
  BY <1>2 DEF OnItsWay, DeltaInv, Numbered
<1> HIDE DEF m
<1>4. cl.snap.messageNum - n < PACKET_BACKUP
  BY <1>3, SnapshotAssumption
<1>5. snapshots[Frame(n)].valid /\ snapshots[Frame(n)].messageNum = n
  BY <1>3, <1>4 DEF Held
<1>6. Verdict(snapshots[Frame(n)], n) \in {"entities too old", "valid"}
  BY <1>5 DEF Verdict
<1> QED
  BY <1>6 DEF m

(***************************************************************************)
(* CL_ParseSnapshot never meets "Delta from invalid frame (not supposed to *)
(* happen!)", nor a frame replaced since, through lost messages, gamestates*)
(* sent again, new maps and restarts: DeltaFromKnownFrame for every number *)
(* of frames kept and any margin (Slack), 0 included.                      *)
(***************************************************************************)
THEOREM DeltasFromKnownFrames == Spec => []DeltaFromKnownFrame
<1>1. Init => IInv /\ DeltaInv
  BY InitInv, DeltaInit
<1>2. IInv /\ DeltaInv /\ [Next]_vars => IInv' /\ DeltaInv'
  BY NextInv, DeltaNext
<1>3. IInv /\ DeltaInv => DeltaFromKnownFrame
  BY DeltaInvSuffices
<1> QED
  BY <1>1, <1>2, <1>3, PTL DEF Spec
-----------------------------------------------------------------------------
(* Snapshots.  Both sides find the entities of the snapshot a delta is     *)
(* made from in a circular buffer, and the numbers alone say whether they  *)
(* are still there.                                                        *)

Worlds == {v.world : v \in Views}

\* What the server has of the frames it sent, and the map the client has.
Memory ==
    [map |-> sv.map, next |-> sv.next, sequence |-> client.outgoingSequence,
     frames |-> frames, entities |-> snapshotEntities, clientMap |-> cl.map]

\* Its frame n has the entities that were sent, until its place or that of its first
\* entity may have been used again, or there is a new map.
Remembers(n, truth, mem) ==
    mem.clientMap = mem.map /\ mem.sequence - n <= PACKET_BACKUP =>
        LET f == mem.frames[Frame(n)]
        IN  /\ f.first \in Nat /\ f.num \in Nat /\ f.first + f.num <= mem.next
            /\ f.first > mem.next - numSnapshotEntities =>
                 Listed(mem.entities, numSnapshotEntities, f.first, f.num) = Ordered(truth)

\* A message on its way has what must be changed in the client's snapshot.
Built(m, last, ring, mem) ==
    m.type = "snapshot" =>
        /\ m.truth \in Worlds
        /\ m.delta = 0 => m.entities = Emitted(<<>>, m.truth)
        /\ m.delta # 0 /\ last - (m.num - m.delta) < PACKET_BACKUP =>
             m.entities = Emitted(ring[Frame(m.num - m.delta)].truth, m.truth)
        /\ Remembers(m.num, m.truth, mem)

\* The entities of a snapshot are in the client's buffer until the first may have
\* been overwritten.
InBuffer(s, entities, next) ==
    /\ s.first + s.num <= next
    /\ s.first > next - MAX_PARSE_ENTITIES =>
         Listed(entities, MAX_PARSE_ENTITIES, s.first, s.num) = Ordered(s.truth)

\* A snapshot of the client is in its place and is one of the last.
InPlace(s, x, last) ==
    /\ s.messageNum \in Nat /\ Frame(s.messageNum) = x
    /\ s.messageNum <= last /\ last - s.messageNum < PACKET_BACKUP

Stands(s, x, last, entities, next, mem) ==
    /\ s = [valid |-> s.valid, messageNum |-> s.messageNum, first |-> s.first,
            num |-> s.num, truth |-> s.truth, map |-> s.map]
    /\ s.first \in Nat /\ s.num \in Nat
    /\ s.valid =>
         /\ InPlace(s, x, last)
         /\ s.truth \in Worlds
         /\ InBuffer(s, entities, next)
         /\ Remembers(s.messageNum, s.truth, mem)

Places(ring, size) == DOMAIN ring = 0 .. size - 1

Sizes ==
    /\ sv.next \in Nat /\ cl.parseEntitiesNum \in Nat
    /\ DOMAIN frames = 0 .. PACKET_BACKUP - 1
    /\ Places(snapshotEntities, numSnapshotEntities)
    /\ Places(parseEntities, MAX_PARSE_ENTITIES)

SnapInv ==
    /\ Sizes
    /\ \A i \in 1 .. Len(toClient) :
         Built(toClient[i], cl.snap.messageNum, snapshots, Memory)
    /\ \A x \in 0 .. PACKET_BACKUP - 1 :
         Stands(snapshots[x], x, cl.snap.messageNum, parseEntities,
                cl.parseEntitiesNum, Memory)

-----------------------------------------------------------------------------
(* Induction, on sets: the provers cannot instantiate the library's        *)
(* theorems about a predicate.                                             *)

\* Every nonempty set of natural numbers has a least element.
LEMMA Least ==
    ASSUME NEW T \in SUBSET Nat, T # {}
    PROVE  \E x \in T : \A y \in T : x <= y
<1> DEFINE F == {0 .. m : m \in T}
<1>1. F \subseteq FiniteSubsetsOf(Nat) /\ F # {}
  <2>1. \A m \in T : 0 .. m \in SUBSET Nat /\ IsFiniteSet(0 .. m)
    BY FS_Interval
  <2> QED
    BY <2>1 DEF FiniteSubsetsOf
<1> HIDE DEF F
<1>2. PICK U \in F : \A V \in F : <<V, U>> \notin StrictSubsetOrdering(Nat)
  BY <1>1, WFMin, FS_StrictSubsetOrderingWellFounded
<1>3. \A V \in F : V \subseteq U => V = U
  BY <1>1, <1>2 DEF StrictSubsetOrdering, FiniteSubsetsOf
<1>4. PICK x \in T : U = 0 .. x
  BY DEF F
<1>5. ASSUME NEW y \in T PROVE x <= y
  <2>1. 0 .. y \in F
    BY DEF F
  <2>2. SUFFICES ASSUME y < x PROVE FALSE
    BY <1>4
  <2>3. 0 .. y \subseteq U /\ x \in U /\ x \notin 0 .. y
    BY <1>4, <2>2
  <2> QED
    BY <2>1, <2>3, <1>3
<1> QED
  BY <1>5

LEMMA Induction ==
    ASSUME NEW S, 0 \in S, \A n \in Nat : n \in S => n + 1 \in S
    PROVE  Nat \subseteq S
<1> DEFINE T == Nat \ S
<1> SUFFICES ASSUME T # {} PROVE FALSE
  OBVIOUS
<1>1. PICK x \in T : \A y \in T : x <= y
  BY Least
<1>2. x # 0 /\ x - 1 \in Nat /\ x - 1 \notin T
  BY <1>1
<1> QED
  BY <1>2

\* What holds at 0 and is kept by each step holds at the end.
LEMMA Stepwise ==
    ASSUME NEW n \in Nat, NEW S, 0 \in S, \A i \in 1 .. n : i - 1 \in S => i \in S
    PROVE  0 .. n \subseteq S
<1> DEFINE N == {i \in Nat : i <= n => i \in S}
<1>1. 0 \in N
  OBVIOUS
<1>2. ASSUME NEW i \in Nat, i \in N PROVE i + 1 \in N
  <2> SUFFICES ASSUME i + 1 <= n PROVE i + 1 \in S
    OBVIOUS
  <2>1. i + 1 \in 1 .. n /\ (i + 1) - 1 = i
    OBVIOUS
  <2> QED
    BY <1>2, <2>1
<1> HIDE DEF N
<1>3. Nat \subseteq N
  BY <1>1, <1>2, Induction
<1> QED
  BY <1>3 DEF N

-----------------------------------------------------------------------------
(* Places of a circular buffer, and lists in the order of their numbers.   *)

LEMMA PlacesDiffer ==
    ASSUME NEW size \in Nat \ {0}, NEW i \in Int, NEW j \in Int, i < j, j - i < size
    PROVE  i % size # j % size
<1> DEFINE a == i \div size
           b == j \div size
<1>1. /\ i = size * a + (i % size) /\ a \in Int
      /\ j = size * b + (j % size) /\ b \in Int
      /\ i % size \in Int
  OBVIOUS
<1> HIDE DEF a, b
<1> SUFFICES ASSUME i % size = j % size PROVE FALSE
  OBVIOUS
<1>2. j - i = size * (b - a) /\ b - a \in Int
  <2>1. /\ size * a \in Int /\ size * b \in Int
        /\ size * (b - a) = size * b - size * a
    BY <1>1
  <2> QED
    BY <1>1, <2>1
<1>3. CASE b - a <= 0
  <2>1. size * (b - a) <= 0
    BY <1>2, <1>3
  <2> QED
    BY <1>2, <2>1
<1>4. CASE b - a >= 1
  <2>1. size * (b - a) >= size
    BY <1>2, <1>4
  <2> QED
    BY <1>2, <2>1
<1> QED
  BY <1>2, <1>3, <1>4

LEMMA PlaceInRing ==
    ASSUME NEW size \in Nat \ {0}, NEW i \in Int
    PROVE  i % size \in 0 .. size - 1
  OBVIOUS

Increasing(q, S) ==
    /\ q \in [1 .. Cardinality(S) -> S]
    /\ \A i, j \in DOMAIN q : i < j => q[i] < q[j]

LEMMA SortedExists ==
    ASSUME NEW S \in SUBSET Nat, IsFiniteSet(S)
    PROVE  \E q : Increasing(q, S)
<1> DEFINE N == {n \in Nat : \A T \in SUBSET Nat :
                    IsFiniteSet(T) /\ Cardinality(T) = n => \E q : Increasing(q, T)}
<1>1. 0 \in N
  <2> SUFFICES ASSUME NEW T \in SUBSET Nat, IsFiniteSet(T), Cardinality(T) = 0
               PROVE  \E q : Increasing(q, T)
    OBVIOUS
  <2>1. Increasing(<<>>, T)
    BY DEF Increasing
  <2> QED
    BY <2>1
<1>2. ASSUME NEW n \in N PROVE n + 1 \in N
  <2> SUFFICES ASSUME NEW T \in SUBSET Nat, IsFiniteSet(T), Cardinality(T) = n + 1
               PROVE  \E q : Increasing(q, T)
    BY DEF N
  <2>1. n \in Nat /\ T # {}
    BY FS_EmptySet
  <2>2. PICK x \in T : \A y \in T : x <= y
    BY <2>1, Least
  <2>3. /\ IsFiniteSet(T \ {x}) /\ Cardinality(T \ {x}) = n
        /\ T \ {x} \in SUBSET Nat
    <3>1. x \in T /\ n \in Int
      BY <2>1
    <3>2. IsFiniteSet(T \ {x}) /\ Cardinality(T \ {x}) = Cardinality(T) - 1
      BY <3>1, FS_RemoveElement
    <3> QED
      BY <3>1, <3>2
  <2>4. PICK q : Increasing(q, T \ {x})
    BY <2>3 DEF N
  <2> DEFINE r == [i \in 1 .. n + 1 |-> IF i = 1 THEN x ELSE q[i - 1]]
  <2>5. q \in [1 .. n -> T \ {x}] /\ \A i, j \in 1 .. n : i < j => q[i] < q[j]
    BY <2>3, <2>4 DEF Increasing
  <2>6. r \in [1 .. n + 1 -> T]
    <3> SUFFICES ASSUME NEW i \in 1 .. n + 1, i # 1 PROVE q[i - 1] \in T
      OBVIOUS
    <3>1. i - 1 \in 1 .. n
      BY <2>1
    <3> QED
      BY <2>5, <3>1
  <2>7. ASSUME NEW i \in 1 .. n + 1, NEW j \in 1 .. n + 1, i < j
        PROVE  r[i] < r[j]
    <3>1. j - 1 \in 1 .. n /\ r[j] = q[j - 1]
      BY <2>1, <2>7
    <3>2. q[j - 1] \in T \ {x} /\ x \in Nat /\ q[j - 1] \in Nat
      BY <2>5, <3>1
    <3>3. CASE i = 1
      BY <2>2, <3>1, <3>2, <3>3
    <3>4. CASE i # 1
      <4>1. i - 1 \in 1 .. n /\ i - 1 < j - 1 /\ r[i] = q[i - 1]
        BY <2>1, <2>7, <3>4
      <4> QED
        BY <2>5, <3>1, <4>1
    <3> QED
      BY <3>3, <3>4
  <2> HIDE DEF r
  <2>8. Increasing(r, T)
    BY <2>6, <2>7 DEF Increasing
  <2> QED
    BY <2>8
<1> HIDE DEF N
<1>3. Nat \subseteq N
  BY <1>1, <1>2, Induction
<1>4. Cardinality(S) \in Nat
  BY FS_CardinalityType
<1> QED
  BY <1>3, <1>4 DEF N

\* q has the elements of S, in order.
Listing(q, S) ==
    /\ q \in Seq(Nat) /\ Len(q) = Cardinality(S)
    /\ \A i \in 1 .. Len(q) : q[i] \in S
    /\ \A i, j \in 1 .. Len(q) : i < j => q[i] < q[j]
    /\ \A x \in S : \E i \in 1 .. Len(q) : q[i] = x

LEMMA SortedIs ==
    ASSUME NEW S \in SUBSET Nat, IsFiniteSet(S)
    PROVE  Listing(Sorted(S), S)
<1> DEFINE q == Sorted(S)
           n == Cardinality(S)
<1>1. Increasing(q, S)
  <2>1. PICK p : Increasing(p, S)
    BY SortedExists
  <2>2. p \in [1 .. n -> S] /\ \A i, j \in DOMAIN p : i < j => p[i] < p[j]
    BY <2>1 DEF Increasing
  <2> HIDE DEF n
  <2>3. q = CHOOSE r \in [1 .. n -> S] : \A i, j \in DOMAIN r : i < j => r[i] < r[j]
    BY DEF Sorted, n
  <2> HIDE DEF q
  <2> QED
    BY <2>2, <2>3 DEF Increasing, n
<1>2. n \in Nat
  BY FS_CardinalityType
<1> HIDE DEF q, n
<1>3. q \in [1 .. n -> S] /\ \A i, j \in 1 .. n : i < j => q[i] < q[j]
  BY <1>1 DEF Increasing, n
<1>4. q \in Seq(Nat) /\ Len(q) = n
  <2>1. \A i \in 1 .. n : q[i] \in Nat
    BY <1>3
  <2>2. q \in [1 .. n -> Nat]
    BY <1>3, <2>1
  <2> QED
    BY <1>2, <2>2
<1>5. q \in Injection(1 .. n, S)
  <2>1. ASSUME NEW i \in 1 .. n, NEW j \in 1 .. n, q[i] = q[j] PROVE i = j
    <3>1. q[i] \in Nat /\ i \in Int /\ j \in Int
      <4>1. q[i] \in S
        BY <1>3
      <4>2. q[i] \in Nat
        BY <4>1
      <4> QED
        BY <4>2, <1>2
    <3>2. ~(i < j) /\ ~(j < i)
      BY <1>3, <2>1, <3>1
    <3> QED
      BY <3>1, <3>2
  <2> QED
    BY <1>3, <2>1 DEF Injection, IsInjective
<1>6. q \in Surjection(1 .. n, S)
  <2>1. IsFiniteSet(1 .. n) /\ Cardinality(1 .. n) = n
    BY <1>2, FS_Interval
  <2> QED
    BY <2>1, <1>5, FS_Injection DEF n
<1> QED
  BY <1>3, <1>4, <1>6 DEF Surjection, Listing, q, n

LEMMA SmallSets == \A S \in SUBSET (0 .. 1022) : IsFiniteSet(S) /\ S \in SUBSET Nat
<1>1. ASSUME NEW n \in Nat, NEW S \in SUBSET (0 .. n)
      PROVE  IsFiniteSet(S) /\ S \in SUBSET Nat
  <2>1. IsFiniteSet(0 .. n)
    BY FS_Interval
  <2>2. IsFiniteSet(S)
    BY <2>1, FS_Subset
  <2> QED
    BY <2>2
<1> DEFINE n == 1022
<1>2. n \in Nat
  OBVIOUS
<1> HIDE DEF n
<1>3. \A S \in SUBSET (0 .. n) : IsFiniteSet(S) /\ S \in SUBSET Nat
  BY <1>1, <1>2
<1> QED
  BY <1>3 DEF n

LEMMA WorldFacts ==
    ASSUME NEW w \in Worlds
    PROVE  /\ DOMAIN w \in SUBSET Nat /\ IsFiniteSet(DOMAIN w)
           /\ DOMAIN w \subseteq 0 .. 1022
           /\ w = [n \in DOMAIN w |-> w[n]]
<1>1. DOMAIN w \subseteq 0 .. 1022 /\ w = [n \in DOMAIN w |-> w[n]]
  <2>1. PICK v \in Views : w = v.world
    BY DEF Worlds
  <2>2. DOMAIN v.world \subseteq 0 .. 1022 /\ v.world = [n \in DOMAIN v.world |-> v.world[n]]
    BY SnapshotAssumption
  <2> QED
    BY <2>1, <2>2
<1>2. IsFiniteSet(DOMAIN w) /\ DOMAIN w \in SUBSET Nat
  BY <1>1, SmallSets
<1> QED
  BY <1>1, <1>2

\* o is the list of w, whose numbers are q.
ListOf(o, q, w) ==
    /\ Listing(q, DOMAIN w)
    /\ o = [k \in 1 .. Len(q) |-> [number |-> q[k], state |-> w[q[k]]]]

LEMMA OrderedIs ==
    ASSUME NEW w \in Worlds
    PROVE  ListOf(Ordered(w), Sorted(DOMAIN w), w)
<1> DEFINE q == Sorted(DOMAIN w)
<1>1. Listing(q, DOMAIN w)
  BY WorldFacts, SortedIs
<1>2. Ordered(w) = [k \in DOMAIN q |-> [number |-> q[k], state |-> w[q[k]]]]
  BY DEF Ordered
<1> HIDE DEF q
<1>3. DOMAIN q = 1 .. Len(q)
  BY <1>1 DEF Listing
<1> QED
  BY <1>1, <1>2, <1>3 DEF ListOf, q

\* What the list is made of is what it was made from.
LEMMA WorldOrdered ==
    ASSUME NEW w \in Worlds
    PROVE  World(Ordered(w)) = w
<1> DEFINE o == Ordered(w)
           q == Sorted(DOMAIN w)
<1>1. ListOf(o, q, w)
  BY OrderedIs
<1>2. w = [n \in DOMAIN w |-> w[n]]
  BY WorldFacts
<1>3. World(o) = [n \in {o[k].number : k \in DOMAIN o} |->
                    o[CHOOSE k \in DOMAIN o : o[k].number = n].state]
  BY DEF World
<1> HIDE DEF o, q
<1>4. /\ DOMAIN o = 1 .. Len(q)
      /\ \A k \in 1 .. Len(q) : o[k].number = q[k] /\ o[k].state = w[q[k]]
  BY <1>1 DEF ListOf
<1>5. {o[k].number : k \in DOMAIN o} = DOMAIN w
  <2>1. /\ \A k \in 1 .. Len(q) : q[k] \in DOMAIN w
        /\ \A x \in DOMAIN w : \E k \in 1 .. Len(q) : q[k] = x
    BY <1>1 DEF ListOf, Listing
  <2>2. {o[k].number : k \in DOMAIN o} = {q[k] : k \in 1 .. Len(q)}
    BY <1>4
  <2> QED
    BY <2>1, <2>2
<1>6. ASSUME NEW n \in DOMAIN w
      PROVE  o[CHOOSE k \in DOMAIN o : o[k].number = n].state = w[n]
  <2> DEFINE j == CHOOSE k \in DOMAIN o : o[k].number = n
  <2>1. \E k \in DOMAIN o : o[k].number = n
    BY <1>5
  <2>2. j \in DOMAIN o /\ o[j].number = n
    BY <2>1
  <2> HIDE DEF j
  <2>3. o[j].state = w[n]
    BY <1>4, <2>2
  <2> QED
    BY <2>3 DEF j
<1>7. World(o) = [n \in DOMAIN w |-> w[n]]
  BY <1>3, <1>5, <1>6
<1> QED
  BY <1>2, <1>7 DEF o

-----------------------------------------------------------------------------
(* What is stored is found, until as much again has been stored.           *)

Length(list, len) == DOMAIN list = 1 .. len

\* Of what was in the ring before len were stored from first on.
Spared(after, ring, size, first, len) ==
    \A i \in Int : i < first /\ first + len - i <= size => after[i % size] = ring[i % size]

\* Places just before those stored, and not the last that could be reached, keep
\* what they have.
LEMMA StoredBefore ==
    ASSUME NEW size \in Nat \ {0}, NEW ring, Places(ring, size),
           NEW first \in Nat, NEW list, NEW len \in Nat, Length(list, len)
    PROVE  Spared(Stored(ring, size, first, list), ring, size, first, len)
<1> SUFFICES ASSUME NEW i \in Int, i < first, first + len - i <= size
             PROVE  Stored(ring, size, first, list)[i % size] = ring[i % size]
  BY DEF Spared
<1>1. i % size \in DOMAIN ring
  BY PlaceInRing DEF Places
<1>2. ASSUME NEW k \in DOMAIN list PROVE (first + k - 1) % size # i % size
  <2>1. first + k - 1 \in Int /\ i < first + k - 1 /\ (first + k - 1) - i < size
    BY DEF Length
  <2> QED
    BY <2>1, PlacesDiffer
<1> QED
  BY <1>1, <1>2 DEF Stored

LEMMA StoredAt ==
    ASSUME NEW size \in Nat \ {0}, NEW ring, Places(ring, size),
           NEW first \in Nat, NEW list, NEW len \in Nat, Length(list, len),
           NEW k \in 1 .. len, len - k < size
    PROVE  Stored(ring, size, first, list)[(first + k - 1) % size] = list[k]
<1> DEFINE n == (first + k - 1) % size
           last == LastAt(size, first, list, n)
           IsLast(x) == /\ (first + x - 1) % size = n
                        /\ \A j \in DOMAIN list : (first + j - 1) % size = n => j <= x
<1>1. n \in DOMAIN ring
  <2>1. first + k - 1 \in Int
    OBVIOUS
  <2> QED
    BY <2>1, PlaceInRing DEF Places
<1> USE DEF Length
<1>2. IsLast(k)
  <2> SUFFICES ASSUME NEW j \in DOMAIN list, (first + j - 1) % size = n, k < j
               PROVE  FALSE
    OBVIOUS
  <2>1. /\ first + k - 1 \in Int /\ first + j - 1 \in Int
        /\ first + k - 1 < first + j - 1 /\ (first + j - 1) - (first + k - 1) < size
    <3>1. j \in 1 .. len
      BY DEF Length
    <3> HIDE DEF n
    <3> QED
      BY <3>1
  <2> QED
    BY <2>1, PlacesDiffer
<1>3. last = CHOOSE x \in DOMAIN list : IsLast(x)
  BY DEF LastAt
<1>4. last \in DOMAIN list /\ IsLast(last)
  <2> HIDE DEF last, IsLast
  <2> QED
    BY <1>2, <1>3
<1> HIDE DEF last
<1>5. last = k
  <2>1. last <= k /\ k <= last
    BY <1>2, <1>4
  <2> HIDE DEF IsLast, n
  <2>2. last \in 1 .. len /\ k \in 1 .. len
    BY <1>4
  <2> QED
    BY <2>1, <2>2
<1>6. \E x \in DOMAIN list : (first + x - 1) % size = n
  OBVIOUS
<1>7. Stored(ring, size, first, list)[n] = list[last]
  <2> HIDE DEF n
  <2> QED
    BY <1>1, <1>6 DEF Stored, last
<1> QED
  BY <1>5, <1>7

\* A list stored earlier, whose first place has not been reached.
LEMMA ListedBefore ==
    ASSUME NEW size \in Nat \ {0}, NEW ring, Places(ring, size),
           NEW first \in Nat, NEW list, NEW len \in Nat, Length(list, len),
           NEW f \in Nat, NEW num \in Nat, f + num <= first, f > first + len - size
    PROVE  Listed(Stored(ring, size, first, list), size, f, num) = Listed(ring, size, f, num)
<1>0. Spared(Stored(ring, size, first, list), ring, size, first, len)
  BY StoredBefore
<1>1. ASSUME NEW k \in 1 .. num
      PROVE  Stored(ring, size, first, list)[(f + k - 1) % size] = ring[(f + k - 1) % size]
  <2>1. f + k - 1 \in Int /\ f + k - 1 < first /\ first + len - (f + k - 1) <= size
    OBVIOUS
  <2> DEFINE i == f + k - 1
  <2>2. i \in Int /\ i < first /\ first + len - i <= size
    BY <2>1
  <2> HIDE DEF i
  <2>3. Stored(ring, size, first, list)[i % size] = ring[i % size]
    BY ONLY <1>0, <2>2 DEF Spared
  <2> QED
    BY <2>3 DEF i
<1> QED
  BY <1>1 DEF Listed

\* The second part of a list that was stored.
LEMMA ListedAt ==
    ASSUME NEW size \in Nat \ {0}, NEW ring, Places(ring, size),
           NEW first \in Nat, NEW S, NEW p \in Seq(S), NEW q \in Seq(S), Len(q) < size
    PROVE  Listed(Stored(ring, size, first, p \o q), size, first + Len(p), Len(q)) = q
<1> DEFINE list == p \o q
<1>1. /\ Len(p) \in Nat /\ Len(q) \in Nat
      /\ list \in Seq(S) /\ Len(list) = Len(p) + Len(q)
      /\ \A k \in 1 .. Len(q) : list[Len(p) + k] = q[k]
  OBVIOUS
<1> DEFINE len == Len(p) + Len(q)
<1>2. Length(list, len) /\ len \in Nat
  BY <1>1 DEF Length
<1> HIDE DEF list
<1>3. ASSUME NEW k \in 1 .. Len(q)
      PROVE  Stored(ring, size, first, list)[(first + Len(p) + k - 1) % size] = q[k]
  <2> DEFINE j == Len(p) + k
  <2>1. /\ j \in 1 .. len /\ len - j < size
        /\ first + j - 1 = first + Len(p) + k - 1
    BY <1>1
  <2> HIDE DEF j, len
  <2>2. Stored(ring, size, first, list)[(first + j - 1) % size] = list[j]
    BY <1>2, <2>1, StoredAt
  <2>3. list[j] = q[k]
    BY <1>1 DEF j
  <2> QED
    BY <2>1, <2>2, <2>3
<1>4. Listed(Stored(ring, size, first, list), size, first + Len(p), Len(q))
        = [k \in 1 .. Len(q) |-> q[k]]
  BY <1>3 DEF Listed
<1>5. q = [k \in 1 .. Len(q) |-> q[k]]
  OBVIOUS
<1> QED
  BY <1>4, <1>5 DEF list


-----------------------------------------------------------------------------
(* How far a list in the order of its numbers has been read.               *)

\* The first p numbers of q, and no others, are below t.
Below(q, p, t) ==
    /\ p \in 0 .. Len(q)
    /\ \A j \in 1 .. Len(q) : (j <= p => q[j] < t) /\ (q[j] < t => j <= p)

\* No number of S is from t to x - 1.
NoneBetween(S, t, x) == \A y \in S : y < t \/ x <= y

\* Its next number, or NoNumber.
NumberAt(q, p) == IF p <= Len(q) THEN q[p] ELSE NoNumber

LEMMA NextNumber ==
    ASSUME NEW S \in SUBSET (0 .. 1022), NEW q, Listing(q, S), NEW t \in Nat,
           NEW p, Below(q, p, t)
    PROVE  /\ NumberAt(q, p + 1) \in Nat
           /\ t <= 1023 => t <= NumberAt(q, p + 1)
           /\ NoneBetween(S, t, NumberAt(q, p + 1))
           /\ p < Len(q) => NumberAt(q, p + 1) \in S
           /\ p >= Len(q) => NumberAt(q, p + 1) = NoNumber
           /\ NumberAt(q, p + 1) \in S => p < Len(q) /\ NumberAt(q, p + 1) = q[p + 1]
<1>1. /\ Len(q) \in Nat /\ p \in Nat /\ p <= Len(q)
      /\ \A j \in 1 .. Len(q) : q[j] \in S /\ q[j] \in Nat /\ q[j] <= 1022
      /\ \A i, j \in 1 .. Len(q) : i < j => q[i] < q[j]
      /\ \A y \in S : y \in Nat /\ y <= 1022 /\ \E j \in 1 .. Len(q) : q[j] = y
  <2>1. Len(q) \in Nat /\ \A j \in 1 .. Len(q) : q[j] \in S
    BY DEF Listing
  <2>2. p \in 0 .. Len(q)
    BY DEF Below
  <2>3. \A y \in S : y \in Nat /\ y <= 1022
    OBVIOUS
  <2>4. /\ \A i, j \in 1 .. Len(q) : i < j => q[i] < q[j]
        /\ \A y \in S : \E j \in 1 .. Len(q) : q[j] = y
    BY DEF Listing
  <2>5. \A j \in 1 .. Len(q) : q[j] \in S /\ q[j] \in Nat /\ q[j] <= 1022
    <3> SUFFICES ASSUME NEW j \in 1 .. Len(q)
                 PROVE  q[j] \in S /\ q[j] \in Nat /\ q[j] <= 1022
      OBVIOUS
    <3> DEFINE y == q[j]
    <3>1. y \in S
      BY <2>1
    <3> HIDE DEF y
    <3>2. y \in Nat /\ y <= 1022
      BY ONLY <2>3, <3>1
    <3> QED
      BY <3>1, <3>2 DEF y
  <2>6. p \in Nat /\ p <= Len(q)
    BY <2>1, <2>2
  <2> QED
    BY ONLY <2>1, <2>3, <2>4, <2>5, <2>6
<1>2. \A j \in 1 .. Len(q) : (j <= p => q[j] < t) /\ (q[j] < t => j <= p)
  BY DEF Below
<1>3. CASE p < Len(q)
  <2>1. p + 1 \in 1 .. Len(q) /\ NumberAt(q, p + 1) = q[p + 1]
    BY <1>1, <1>3 DEF NumberAt
  <2> DEFINE x == q[p + 1]
  <2>2. x \in S /\ x \in Nat /\ t <= x
    BY <1>1, <1>2, <2>1
  <2>3. \A y \in S : y < t \/ x <= y
    <3> SUFFICES ASSUME NEW y \in S, ~(y < t) PROVE x <= y
      OBVIOUS
    <3>1. PICK j \in 1 .. Len(q) : q[j] = y
      BY <1>1
    <3>2. j = p + 1 \/ p + 1 < j
      BY <1>1, <1>2, <3>1
    <3>3. y \in Nat
      BY <1>1
    <3>4. CASE j = p + 1
      BY <2>2, <3>1, <3>4
    <3>5. CASE p + 1 < j
      <4>1. x < q[j]
        BY <1>1, <2>1, <3>5
      <4> QED
        BY <2>2, <3>1, <3>3, <4>1
    <3> QED
      BY <3>2, <3>4, <3>5
  <2> HIDE DEF x
  <2>4. NumberAt(q, p + 1) = x
    BY <2>1 DEF x
  <2> QED
    BY <1>1, <1>3, <2>2, <2>3, <2>4 DEF NoneBetween, x
<1>4. CASE p = Len(q)
  <2>1. NumberAt(q, p + 1) = NoNumber
    BY <1>1, <1>4 DEF NumberAt
  <2>2. \A y \in S : y < t
    BY <1>1, <1>2, <1>4
  <2>3. NoNumber \in Nat /\ NoNumber \notin S /\ NoNumber > 1023
    BY DEF NoNumber
  <2> QED
    BY <1>1, <1>4, <2>1, <2>2, <2>3 DEF NoneBetween
<1> QED
  BY <1>1, <1>3, <1>4

LEMMA Advance ==
    ASSUME NEW S \in SUBSET Nat, NEW q, Listing(q, S), NEW t \in Nat,
           NEW p, Below(q, p, t), NEW x \in Nat, t <= x, NoneBetween(S, t, x)
    PROVE  /\ x \in S => p < Len(q) /\ q[p + 1] = x /\ Below(q, p + 1, x + 1)
           /\ x \notin S => Below(q, p, x + 1)
<1>1. /\ Len(q) \in Nat /\ p \in Nat /\ p <= Len(q)
      /\ \A j \in 1 .. Len(q) : q[j] \in S /\ q[j] \in Nat
      /\ \A i, j \in 1 .. Len(q) : i < j => q[i] < q[j]
      /\ \A y \in S : \E j \in 1 .. Len(q) : q[j] = y
  <2>1. Len(q) \in Nat /\ \A j \in 1 .. Len(q) : q[j] \in S
    BY DEF Listing
  <2>2. p \in 0 .. Len(q)
    BY DEF Below
  <2>3. \A y \in S : y \in Nat
    OBVIOUS
  <2>4. /\ \A i, j \in 1 .. Len(q) : i < j => q[i] < q[j]
        /\ \A y \in S : \E j \in 1 .. Len(q) : q[j] = y
    BY DEF Listing
  <2>5. \A j \in 1 .. Len(q) : q[j] \in S /\ q[j] \in Nat
    BY <2>1, <2>3
  <2>6. p \in Nat /\ p <= Len(q)
    BY <2>1, <2>2
  <2> QED
    BY ONLY <2>1, <2>4, <2>5, <2>6
<1>2. \A j \in 1 .. Len(q) : (j <= p => q[j] < t) /\ (q[j] < t => j <= p)
  BY DEF Below
<1>3. \A j \in 1 .. Len(q) : q[j] < t \/ x <= q[j]
  BY <1>1 DEF NoneBetween
<1>4. ASSUME x \in S PROVE p < Len(q) /\ q[p + 1] = x /\ Below(q, p + 1, x + 1)
  <2>1. PICK j \in 1 .. Len(q) : q[j] = x
    BY <1>1, <1>4
  <2>2. j = p + 1
    <3>1. p < j
      BY <1>1, <1>2, <2>1
    <3>2. ASSUME p + 1 < j PROVE FALSE
      <4>1. p + 1 \in 1 .. Len(q)
        BY <1>1, <3>2
      <4>2. q[p + 1] < q[j] /\ ~(q[p + 1] < t)
        BY <1>1, <1>2, <3>2, <4>1
      <4> QED
        BY <1>1, <1>3, <2>1, <4>1, <4>2
    <3> QED
      BY <1>1, <3>1, <3>2
  <2>3. p + 1 \in 1 .. Len(q) /\ q[p + 1] = x
    BY <2>1, <2>2
  <2>4. ASSUME NEW i \in 1 .. Len(q)
        PROVE  (i <= p + 1 => q[i] < x + 1) /\ (q[i] < x + 1 => i <= p + 1)
    <3>1. q[i] \in Nat
      BY <1>1
    <3>2. CASE i < p + 1
      <4>1. q[i] < q[p + 1]
        BY <1>1, <2>3, <3>2
      <4> QED
        BY <1>1, <2>3, <3>1, <3>2, <4>1
    <3>3. CASE i = p + 1
      BY <1>1, <2>3, <3>3
    <3>4. CASE p + 1 < i
      <4>1. q[p + 1] < q[i]
        BY <1>1, <2>3, <3>4
      <4> QED
        BY <1>1, <2>3, <3>1, <3>4, <4>1
    <3> QED
      BY <1>1, <3>2, <3>3, <3>4
  <2>5. p < Len(q) /\ p + 1 \in 0 .. Len(q)
    BY <1>1, <2>3
  <2> QED
    BY <2>3, <2>4, <2>5 DEF Below
<1>5. ASSUME x \notin S PROVE Below(q, p, x + 1)
  <2>1. ASSUME NEW i \in 1 .. Len(q)
        PROVE  (i <= p => q[i] < x + 1) /\ (q[i] < x + 1 => i <= p)
    <3>1. q[i] \in Nat /\ q[i] # x
      BY <1>1, <1>5
    <3> QED
      BY <1>2, <1>3, <3>1
  <2> QED
    BY <2>1 DEF Below
<1> QED
  BY <1>4, <1>5

\* There are p numbers below t.
LEMMA Counted ==
    ASSUME NEW S \in SUBSET Nat, NEW q, Listing(q, S), NEW t, NEW p, Below(q, p, t)
    PROVE  IsFiniteSet({y \in S : y < t}) /\ Cardinality({y \in S : y < t}) = p
<1> DEFINE T == {y \in S : y < t}
           f == [j \in 1 .. p |-> q[j]]
<1>1. p \in Nat /\ \A j \in 1 .. p : j \in 1 .. Len(q)
  BY DEF Below, Listing
<1>2. \A j \in 1 .. p : f[j] \in T
  BY <1>1 DEF Below, Listing
<1>3. f \in [1 .. p -> T]
  BY <1>2
<1>4. \A i, j \in 1 .. p : i # j => f[i] # f[j]
  <2> SUFFICES ASSUME NEW i \in 1 .. p, NEW j \in 1 .. p, i < j PROVE f[i] # f[j]
    BY <1>1
  <2>1. q[i] < q[j] /\ q[i] \in S /\ q[j] \in S
    BY <1>1 DEF Listing
  <2>2. f[i] = q[i] /\ f[j] = q[j]
    OBVIOUS
  <2>3. q[i] \in Nat /\ q[j] \in Nat
    BY <2>1
  <2> HIDE DEF f
  <2> QED
    BY <2>1, <2>2, <2>3
<1>5. \A y \in T : \E j \in 1 .. p : f[j] = y
  <2> SUFFICES ASSUME NEW y \in S, y < t PROVE \E j \in 1 .. p : f[j] = y
    OBVIOUS
  <2>1. PICK j \in 1 .. Len(q) : q[j] = y
    BY DEF Listing
  <2>2. j <= p
    BY <2>1 DEF Below
  <2>3. j \in 1 .. p
    BY <1>1, <2>1, <2>2
  <2> QED
    BY <2>1, <2>3
<1>6. ExistsBijection(1 .. p, T)
  <2> HIDE DEF f, T
  <2>1. f \in Bijection(1 .. p, T)
    BY <1>3, <1>4, <1>5 DEF Bijection, Injection, Surjection, IsInjective
  <2> QED
    BY <2>1 DEF ExistsBijection
<1>7. IsFiniteSet(1 .. p) /\ Cardinality(1 .. p) = p
  BY <1>1, FS_Interval
<1> QED
  BY <1>6, <1>7, FS_Bijection

\* Of two lists that were read up to the same number the first is ahead by no more
\* numbers than it has alone.
LEMMA NotAhead ==
    ASSUME NEW A \in SUBSET Nat, NEW B \in SUBSET Nat, NEW a, NEW b, Listing(a, A),
           Listing(b, B), NEW t, NEW i, NEW w, Below(a, i, t), Below(b, w, t),
           IsFiniteSet(B \ A), NEW n \in Nat, Cardinality(B \ A) <= n
    PROVE  w <= i + n
<1> DEFINE At == {y \in A : y < t}
           Bt == {y \in B : y < t}
           Both == At \cup (B \ A)
<1>1. IsFiniteSet(At) /\ Cardinality(At) = i
  BY Counted
<1>2. IsFiniteSet(Bt) /\ Cardinality(Bt) = w
  BY Counted
<1>3. Bt \subseteq Both
  OBVIOUS
<1> HIDE DEF At, Bt
<1>4. /\ IsFiniteSet(Both)
      /\ Cardinality(Both) = Cardinality(At) + Cardinality(B \ A) - Cardinality(At \cap (B \ A))
  BY <1>1, FS_Union
<1>5. IsFiniteSet(At \cap (B \ A)) /\ Cardinality(At \cap (B \ A)) \in Nat
  BY <1>1, FS_Subset, FS_CardinalityType
<1>6. Cardinality(Bt) <= Cardinality(Both)
  BY <1>3, <1>4, FS_Subset
<1>7. i \in Nat /\ w \in Nat /\ Cardinality(B \ A) \in Nat /\ Cardinality(Both) \in Nat
  BY <1>1, <1>2, <1>4, FS_CardinalityType
<1> HIDE DEF Both
<1>8. Cardinality(Both) <= i + n
  BY <1>1, <1>4, <1>5, <1>7 DEF Both
<1> QED
  BY <1>2, <1>6, <1>7, <1>8

-----------------------------------------------------------------------------
(* What the client parses.                                                 *)

Numbers(delta) == Sorted(DOMAIN delta.changed \cup delta.removed)

Start(old) ==
    [ring |-> parseEntities, next |-> cl.parseEntitiesNum, i |-> 0,
     oldnum |-> OldNumber(parseEntities, old, 0), k |-> 1]

Steps(f, old, delta, n) ==
    /\ f[0] = Start(old)
    /\ \A i \in 1 .. n : f[i] = CL_DeltaEntity(f[i - 1], old, delta, Numbers(delta))

\* The entities are parsed one after the other.
LEMMA ParsedInSteps ==
    ASSUME NEW old, NEW delta, NEW n \in Nat, n = old.num + Len(Numbers(delta))
    PROVE  \E f : Steps(f, old, delta, n) /\ CL_ParsePacketEntities(old, delta) = f[n]
<1> DEFINE Step(s) == CL_DeltaEntity(s, old, delta, Numbers(delta))
           Value(f, i) == IF i = 0 THEN Start(old) ELSE Step(f[i - 1])
           Good(f, m) == DOMAIN f = 0 .. m /\ \A i \in 0 .. m : f[i] = Value(f, i)
           S == {m \in 0 .. n : \E f : Good(f, m)}
<1> HIDE DEF Step
<1>1. 0 \in S
  <2> DEFINE f == [i \in 0 .. 0 |-> Start(old)]
  <2>1. Good(f, 0)
    OBVIOUS
  <2> HIDE DEF Good
  <2> QED
    BY <2>1
<1>2. ASSUME NEW m \in 1 .. n, m - 1 \in S PROVE m \in S
  <2>1. PICK f : Good(f, m - 1)
    BY <1>2
  <2> DEFINE g == [i \in 0 .. m |-> IF i = m THEN Step(f[m - 1]) ELSE f[i]]
  <2>2. ASSUME NEW i \in 0 .. m PROVE g[i] = Value(g, i)
    <3>1. CASE i = m
      <4>1. m # 0 /\ m - 1 \in 0 .. m /\ m - 1 # m /\ g[m - 1] = f[m - 1]
        OBVIOUS
      <4> QED
        BY <3>1, <4>1
    <3>2. CASE i # m
      <4>1. i \in 0 .. m - 1 /\ g[i] = f[i] /\ f[i] = Value(f, i)
        BY <2>1, <3>2
      <4>2. i # 0 => g[i - 1] = f[i - 1]
        BY <3>2
      <4> HIDE DEF g
      <4> QED
        BY <4>1, <4>2
    <3> QED
      BY <3>1, <3>2
  <2>3. DOMAIN g = 0 .. m
    OBVIOUS
  <2> HIDE DEF g
  <2>4. Good(g, m)
    BY <2>2, <2>3
  <2> HIDE DEF Good
  <2> QED
    BY <2>4
<1>3. n \in S
  <2> HIDE DEF S
  <2>1. 0 .. n \subseteq S
    BY <1>1, <1>2, Stepwise
  <2> QED
    BY <2>1
<1>4. PICK f : Good(f, n)
  BY <1>3
<1> DEFINE Fun(g) == [i \in 0 .. n |-> IF i = 0 THEN Start(old) ELSE Step(g[i - 1])]
           fun == [i \in 0 .. n |-> f[i]]
<1>5. fun = Fun(fun)
  <2>1. ASSUME NEW i \in 0 .. n PROVE fun[i] = Fun(fun)[i]
    <3>1. f[i] = Value(f, i)
      BY <1>4
    <3>2. i # 0 => fun[i - 1] = f[i - 1]
      OBVIOUS
    <3> QED
      BY <3>1, <3>2
  <2> HIDE DEF fun
  <2>2. DOMAIN fun = 0 .. n /\ fun = [i \in 0 .. n |-> fun[i]]
    BY DEF fun
  <2> QED
    BY <2>1, <2>2
<1> DEFINE parsed == CHOOSE g : g = Fun(g)
<1>6. parsed = Fun(parsed)
  <2> HIDE DEF fun, Fun
  <2> QED
    BY <1>5
<1>7. CL_ParsePacketEntities(old, delta) = parsed[n]
  BY DEF CL_ParsePacketEntities, Numbers, Start, Step
<1> HIDE DEF parsed
<1>8. parsed[0] = Start(old) /\ \A i \in 1 .. n : parsed[i] = Step(parsed[i - 1])
  <2>1. \A i \in 0 .. n : parsed[i] = IF i = 0 THEN Start(old) ELSE Step(parsed[i - 1])
    BY <1>6
  <2> QED
    BY <2>1
<1>9. Steps(parsed, old, delta, n)
  BY <1>8 DEF Steps, Step
<1> QED
  BY <1>7, <1>9

\* Only places from the first new one on are written, the last a number is given
\* that the next snapshot may take again.
Touched(s, ring, first) ==
    /\ s.next \in Nat /\ first <= s.next
    /\ Places(s.ring, MAX_PARSE_ENTITIES)
    /\ Spared(s.ring, ring, MAX_PARSE_ENTITIES, first, s.next - first + 1)

LEMMA TouchedStep ==
    ASSUME NEW s, NEW ring, NEW first \in Nat, Touched(s, ring, first),
           NEW old, NEW delta, NEW numbers
    PROVE  Touched(CL_DeltaEntity(s, old, delta, numbers), ring, first)
<1> DEFINE r == CL_DeltaEntity(s, old, delta, numbers)
           at == s.next % MAX_PARSE_ENTITIES
<1>1. \/ r = s
      \/ \E e : /\ r.ring = [s.ring EXCEPT ![at] = e]
                /\ r.next = s.next \/ r.next = s.next + 1
  BY DEF CL_DeltaEntity
<1> HIDE DEF r
<1>2. CASE r = s
  BY <1>2 DEF r
<1>3. ASSUME NEW e, r.ring = [s.ring EXCEPT ![at] = e],
             r.next = s.next \/ r.next = s.next + 1
      PROVE  Touched(r, ring, first)
  <2>1. s.next \in Nat /\ first <= s.next /\ MAX_PARSE_ENTITIES \in Nat \ {0}
    BY SnapshotAssumption DEF Touched
  <2>2. r.next \in Nat /\ first <= r.next /\ s.next <= r.next
    BY <1>3, <2>1
  <2>3. Places(r.ring, MAX_PARSE_ENTITIES)
    BY <1>3 DEF Touched, Places
  <2>4. ASSUME NEW i \in Int, i < first, first + (r.next - first + 1) - i <= MAX_PARSE_ENTITIES
        PROVE  r.ring[i % MAX_PARSE_ENTITIES] = ring[i % MAX_PARSE_ENTITIES]
    <3>1. /\ i < s.next /\ s.next - i < MAX_PARSE_ENTITIES
          /\ first + (s.next - first + 1) - i <= MAX_PARSE_ENTITIES
      BY <2>1, <2>2, <2>4
    <3>2. i % MAX_PARSE_ENTITIES # at
      BY <2>1, <3>1, PlacesDiffer
    <3>3. s.ring[i % MAX_PARSE_ENTITIES] = ring[i % MAX_PARSE_ENTITIES]
      <4>1. Spared(s.ring, ring, MAX_PARSE_ENTITIES, first, s.next - first + 1)
        BY DEF Touched
      <4> QED
        BY ONLY <2>4, <3>1, <4>1 DEF Spared
    <3>4. i % MAX_PARSE_ENTITIES \in DOMAIN s.ring
      BY <2>1, PlaceInRing DEF Touched, Places
    <3> HIDE DEF at
    <3> QED
      BY <1>3, <3>2, <3>3, <3>4
  <2>5. Spared(r.ring, ring, MAX_PARSE_ENTITIES, first, r.next - first + 1)
    BY <2>4 DEF Spared
  <2> QED
    BY <2>2, <2>3, <2>5 DEF Touched
<1> QED
  BY <1>1, <1>2, <1>3 DEF r

LEMMA ParsedTouches ==
    ASSUME NEW old, NEW delta, NEW n \in Nat, n = old.num + Len(Numbers(delta)),
           cl.parseEntitiesNum \in Nat, Places(parseEntities, MAX_PARSE_ENTITIES)
    PROVE  Touched(CL_ParsePacketEntities(old, delta), parseEntities, cl.parseEntitiesNum)
<1>1. PICK f : Steps(f, old, delta, n) /\ CL_ParsePacketEntities(old, delta) = f[n]
  BY ParsedInSteps
<1> DEFINE S == {i \in 0 .. n : Touched(f[i], parseEntities, cl.parseEntitiesNum)}
<1>2. 0 \in S
  <2>1. /\ f[0].next = cl.parseEntitiesNum /\ f[0].ring = parseEntities
    BY <1>1 DEF Steps, Start
  <2> QED
    BY <2>1 DEF Touched, Spared
<1>3. ASSUME NEW i \in 1 .. n, i - 1 \in S PROVE i \in S
  <2>1. f[i] = CL_DeltaEntity(f[i - 1], old, delta, Numbers(delta))
    BY <1>1 DEF Steps
  <2>2. Touched(f[i - 1], parseEntities, cl.parseEntitiesNum)
    BY <1>3
  <2>3. Touched(f[i], parseEntities, cl.parseEntitiesNum)
    BY <2>1, <2>2, TouchedStep
  <2> QED
    BY <2>3
<1>4. n \in S
  <2> HIDE DEF S
  <2>1. 0 .. n \subseteq S
    BY <1>2, <1>3, Stepwise
  <2> QED
    BY <2>1
<1> QED
  BY <1>1, <1>4

-----------------------------------------------------------------------------
(* A delta is merged with the list it was made from: both are read in the  *)
(* order of their numbers, and so the new list is written.                 *)

\* from is what the old list, and to what the new one has.
Delta(e) == Emitted(e.from, e.to)
OldList(e) == Sorted(DOMAIN e.from)
NewList(e) == Sorted(DOMAIN e.to)
DeltaList(e) == Numbers(Delta(e))

Comparable(e) ==
    DOMAIN e.from \in SUBSET (0 .. 1022) /\ DOMAIN e.to \in SUBSET (0 .. 1022)

\* i of the old list and k - 1 of the delta are read, w of the new list written.
Merged(e, i, k, w, t) ==
    /\ t \in Nat /\ t <= 1023 /\ k \in Nat
    /\ Below(OldList(e), i, t)
    /\ Below(DeltaList(e), k - 1, t)
    /\ Below(NewList(e), w, t)

InOrderOf(e) ==
    /\ Listing(OldList(e), DOMAIN e.from) /\ Listing(NewList(e), DOMAIN e.to)
    /\ Listing(DeltaList(e), DOMAIN Delta(e).changed \cup Delta(e).removed)
    /\ DOMAIN Delta(e).changed \cup Delta(e).removed \in SUBSET (0 .. 1022)

LEMMA Listings ==
    ASSUME NEW e, Comparable(e)
    PROVE  InOrderOf(e)
<1>1. \A S \in SUBSET (0 .. 1022) : Listing(Sorted(S), S)
  BY SmallSets, SortedIs
<1>2. DOMAIN Delta(e).changed \cup Delta(e).removed \in SUBSET (0 .. 1022)
  <2>1. DOMAIN Delta(e).changed \subseteq DOMAIN e.to /\ Delta(e).removed \subseteq DOMAIN e.from
    BY DEF Delta, Emitted
  <2> QED
    BY <2>1 DEF Comparable
<1>3. Listing(OldList(e), DOMAIN e.from)
  BY <1>1 DEF Comparable, OldList
<1>4. Listing(NewList(e), DOMAIN e.to)
  BY <1>1 DEF Comparable, NewList
<1>5. Listing(DeltaList(e), DOMAIN Delta(e).changed \cup Delta(e).removed)
  BY <1>1, <1>2 DEF DeltaList, Numbers
<1> QED
  BY <1>2, <1>3, <1>4, <1>5 DEF InOrderOf

\* x is the next number of the old list, y that of the delta.
NextMerged(e, i, k, w, x, y) ==
    \/ /\ x = NoNumber /\ y = NoNumber
       /\ i = Len(OldList(e)) /\ k - 1 = Len(DeltaList(e)) /\ w = Len(NewList(e))
    \/ /\ x < y /\ i < Len(OldList(e)) /\ w < Len(NewList(e))
       /\ OldList(e)[i + 1] = x /\ NewList(e)[w + 1] = x
       /\ e.from[x] = e.to[x]
       /\ Merged(e, i + 1, k, w + 1, x + 1)
    \/ /\ x = y /\ i < Len(OldList(e)) /\ y \in Delta(e).removed /\ y <= 1022
       /\ Merged(e, i + 1, k + 1, w, x + 1)
    \/ /\ y <= x /\ (x = y => i < Len(OldList(e))) /\ w < Len(NewList(e)) /\ y <= 1022
       /\ NewList(e)[w + 1] = y
       /\ y \notin Delta(e).removed /\ Delta(e).changed[y] = e.to[y]
       /\ Merged(e, IF x = y THEN i + 1 ELSE i, k + 1, w + 1, y + 1)

LEMMA MergeStep ==
    ASSUME NEW e, Comparable(e), NEW i, NEW k, NEW w, NEW t, Merged(e, i, k, w, t),
           NEW x, NEW y, x = NumberAt(OldList(e), i + 1), y = NumberAt(DeltaList(e), k)
    PROVE  NextMerged(e, i, k, w, x, y)
<1> DEFINE A == DOMAIN e.from
           B == DOMAIN e.to
           a == OldList(e)
           b == NewList(e)
           d == DeltaList(e)
           Chg == DOMAIN Delta(e).changed
           Rem == Delta(e).removed
           D == Chg \cup Rem
<1>1. /\ A \in SUBSET (0 .. 1022) /\ B \in SUBSET (0 .. 1022) /\ D \in SUBSET (0 .. 1022)
      /\ Listing(a, A) /\ Listing(b, B) /\ Listing(d, D)
  <2>1. A \in SUBSET (0 .. 1022) /\ B \in SUBSET (0 .. 1022)
    BY DEF Comparable
  <2>2. /\ Listing(a, A) /\ Listing(b, B) /\ Listing(d, D)
        /\ D \in SUBSET (0 .. 1022)
    <3>1. InOrderOf(e)
      BY Listings
    <3> QED
      BY <3>1 DEF InOrderOf
  <2> QED
    BY <2>1, <2>2
<1>2. /\ \A z : z \in Chg => z \in B /\ Delta(e).changed[z] = e.to[z]
      /\ \A z : z \in B /\ (z \in A => e.from[z] # e.to[z]) => z \in Chg
      /\ \A z : z \in Chg /\ z \in A => e.from[z] # e.to[z]
      /\ Rem = A \ B
  <2>1. /\ Delta(e).changed = [n \in {z \in B : z \notin A \/ e.from[z] # e.to[z]} |-> e.to[n]]
        /\ Rem = A \ B
    BY DEF Delta, Emitted
  <2>2. Chg = {z \in B : z \notin A \/ e.from[z] # e.to[z]}
    BY <2>1
  <2> QED
    BY <2>1, <2>2
<1>3. /\ t \in Nat /\ t <= 1023 /\ k \in Nat
      /\ Below(a, i, t) /\ Below(d, k - 1, t) /\ Below(b, w, t)
  BY DEF Merged
<1> HIDE DEF A, B, a, b, d, Chg, Rem, D
<1>t. /\ Len(a) \in Nat /\ Len(b) \in Nat /\ Len(d) \in Nat
      /\ i \in Nat /\ w \in Nat /\ (k - 1) \in Nat
      /\ i <= Len(a) /\ w <= Len(b) /\ k - 1 <= Len(d)
      /\ k = (k - 1) + 1
  BY <1>1, <1>3 DEF Listing, Below
<1>4. /\ x \in Nat /\ t <= x /\ NoneBetween(A, t, x)
      /\ i < Len(a) => x \in A
      /\ i >= Len(a) => x = NoNumber
      /\ x \in A => i < Len(a) /\ x = a[i + 1]
  <2>1. x = NumberAt(a, i + 1)
    BY DEF a
  <2> QED
    BY <1>1, <1>3, <2>1, NextNumber
<1>5. /\ y \in Nat /\ t <= y /\ NoneBetween(D, t, y)
      /\ k - 1 < Len(d) => y \in D
      /\ k - 1 >= Len(d) => y = NoNumber
      /\ y \in D => k - 1 < Len(d) /\ y = d[k]
  <2> DEFINE p == k - 1
  <2>1. y = NumberAt(d, p + 1) /\ Below(d, p, t) /\ k = p + 1
    BY <1>3 DEF d
  <2> HIDE DEF p
  <2>2. /\ y \in Nat /\ t <= y /\ NoneBetween(D, t, y)
        /\ p < Len(d) => y \in D
        /\ p >= Len(d) => y = NoNumber
        /\ y \in D => p < Len(d) /\ y = d[p + 1]
    BY <1>1, <1>3, <2>1, NextNumber
  <2> QED
    BY <2>1, <2>2 DEF p
<1>6. NoNumber \notin A /\ NoNumber \notin B /\ NoNumber \notin D /\ NoNumber = 99999
  BY <1>1 DEF NoNumber
<1>7. \A z \in B : z \in A \/ z \in D
  BY <1>2 DEF D
<1>8. ASSUME NEW z \in Nat, z <= x, z <= y
      PROVE  NoneBetween(A, t, z) /\ NoneBetween(D, t, z) /\ NoneBetween(B, t, z)
  <2>1. NoneBetween(A, t, z) /\ NoneBetween(D, t, z)
    <3>1. \A u \in A : u \in Nat
      BY <1>1
    <3>2. \A u \in D : u \in Nat
      BY <1>1
    <3> QED
      BY <1>4, <1>5, <1>8, <3>1, <3>2 DEF NoneBetween
  <2> QED
    BY <1>7, <2>1 DEF NoneBetween
<1>9. CASE x = NoNumber /\ y = NoNumber
  <2>1. i = Len(a) /\ k - 1 = Len(d)
    BY <1>4, <1>5, <1>6, <1>9, <1>t
  <2>2. w = Len(b)
    <3>1. NoneBetween(B, t, NoNumber) /\ NoNumber \in Nat
      BY <1>4, <1>8, <1>9
    <3>2. SUFFICES ASSUME w < Len(b) PROVE FALSE
      BY <1>t
    <3>3. w + 1 \in 1 .. Len(b)
      BY <1>t, <3>2
    <3>4. b[w + 1] \in B
      BY <1>1, <3>3 DEF Listing
    <3> DEFINE u == b[w + 1]
    <3>5. u \in 0 .. 1022
      <4>1. B \in SUBSET (0 .. 1022)
        BY <1>1
      <4>2. u \in B
        BY <3>4
      <4> HIDE DEF u
      <4> QED
        BY ONLY <4>1, <4>2
    <3>6. b[w + 1] < t
      BY <3>1, <3>4, <3>5, <1>6 DEF NoneBetween
    <3>7. w + 1 <= w
      BY <1>3, <3>3, <3>6 DEF Below
    <3> QED
      BY <1>t, <3>7
  <2> QED
    BY <1>9, <2>1, <2>2 DEF NextMerged, a, b, d
<1>10. CASE x < y
  <2>1. x \in A /\ i < Len(a) /\ x = a[i + 1]
    <3>1. x # NoNumber
      <4>1. y = NoNumber \/ y \in D
        BY <1>5, <1>t
      <4>2. y \in D => y \in 0 .. 1022
        BY <1>1
      <4>3. y <= 99999
        BY <4>1, <4>2, <1>6
      <4> QED
        BY <1>4, <1>5, <1>6, <1>10, <4>3
    <3> QED
      BY <1>4, <1>t, <3>1
  <2>2. x \notin D
    BY <1>3, <1>4, <1>5, <1>10 DEF NoneBetween
  <2>3. x \in B /\ e.from[x] = e.to[x]
    BY <1>2, <2>1, <2>2 DEF D
  <2>4. NoneBetween(A, t, x) /\ NoneBetween(D, t, x) /\ NoneBetween(B, t, x)
    BY <1>4, <1>5, <1>8, <1>10
  <2>5. A \in SUBSET Nat /\ B \in SUBSET Nat /\ D \in SUBSET Nat
    BY <1>1
  <2>6. Below(a, i + 1, x + 1)
    BY <1>1, <1>3, <1>4, <2>1, <2>4, <2>5, Advance
  <2>7. w < Len(b) /\ b[w + 1] = x /\ Below(b, w + 1, x + 1)
    BY <1>1, <1>3, <1>4, <2>3, <2>4, <2>5, Advance
  <2>8. Below(d, k - 1, x + 1)
    <3> DEFINE p == k - 1
    <3>1. Below(d, p, t)
      BY <1>3
    <3> HIDE DEF p
    <3>2. Below(d, p, x + 1)
      BY <1>1, <1>3, <1>4, <2>2, <2>4, <2>5, <3>1, Advance
    <3> QED
      BY <3>2 DEF p
  <2>9. x + 1 \in Nat /\ x + 1 <= 1023
    BY <1>1, <1>4, <2>1
  <2>10. Merged(e, i + 1, k, w + 1, x + 1)
    BY <1>3, <2>6, <2>7, <2>8, <2>9 DEF Merged, a, b, d
  <2> QED
    BY <1>10, <2>1, <2>3, <2>7, <2>10 DEF NextMerged, a, b
<1>11. CASE y <= x /\ y # NoNumber
  <2>1. y \in D /\ y <= 1022 /\ k - 1 < Len(d)
    <3>1. y \in D
      BY <1>5, <1>t, <1>11
    <3> QED
      BY <1>1, <1>5, <3>1
  <2>4. NoneBetween(A, t, y) /\ NoneBetween(D, t, y) /\ NoneBetween(B, t, y)
    BY <1>4, <1>5, <1>8, <1>11
  <2>5. A \in SUBSET Nat /\ B \in SUBSET Nat /\ D \in SUBSET Nat
    BY <1>1
  <2>6. x = y => y \in A
    BY <1>4, <1>6, <1>11, <1>t
  <2>7. x # y => y \notin A
    BY <1>3, <1>4, <1>5, <1>11 DEF NoneBetween
  <2>8. Below(a, IF x = y THEN i + 1 ELSE i, y + 1)
    <3>1. y \in A => Below(a, i + 1, y + 1)
      BY <1>1, <1>3, <1>5, <2>4, <2>5, Advance
    <3>2. y \notin A => Below(a, i, y + 1)
      BY <1>1, <1>3, <1>5, <2>4, <2>5, Advance
    <3> QED
      BY <2>6, <2>7, <3>1, <3>2
  <2>9. Below(d, k, y + 1)
    <3> DEFINE p == k - 1
    <3>1. Below(d, p, t) /\ k = p + 1
      BY <1>3
    <3> HIDE DEF p
    <3>2. Below(d, p + 1, y + 1)
      BY <1>1, <1>3, <1>5, <2>1, <2>4, <2>5, <3>1, Advance
    <3> QED
      BY <3>1, <3>2
  <2>10. y + 1 \in Nat /\ y + 1 <= 1023 /\ k + 1 \in Nat /\ (k + 1) - 1 = k
    BY <1>3, <1>5, <2>1
  <2>11. CASE y \in Rem
    <3>1. y \in A /\ y \notin B /\ x = y
      BY <1>2, <2>7, <2>11
    <3>2. Below(b, w, y + 1)
      BY <1>1, <1>3, <1>5, <2>4, <2>5, <3>1, Advance
    <3>3. i < Len(a)
      BY <1>4, <3>1
    <3>4. Merged(e, i + 1, k + 1, w, x + 1)
      BY <2>8, <2>9, <2>10, <3>1, <3>2 DEF Merged, a, b, d
    <3> QED
      BY <2>1, <2>11, <3>1, <3>3, <3>4 DEF NextMerged, a, b, Rem
  <2>12. CASE y \notin Rem
    <3>1. y \in B /\ Delta(e).changed[y] = e.to[y]
      BY <1>2, <2>1, <2>12 DEF D
    <3>2. w < Len(b) /\ b[w + 1] = y /\ Below(b, w + 1, y + 1)
      BY <1>1, <1>3, <1>5, <2>4, <2>5, <3>1, Advance
    <3>3. x = y => i < Len(a)
      BY <1>4, <2>6
    <3>4. Merged(e, IF x = y THEN i + 1 ELSE i, k + 1, w + 1, y + 1)
      BY <2>8, <2>9, <2>10, <3>2 DEF Merged, a, b, d
    <3> QED
      BY <1>11, <2>1, <2>12, <3>1, <3>2, <3>3, <3>4 DEF NextMerged, a, b, Rem
  <2> QED
    BY <2>11, <2>12
<1>12. y = NoNumber => x < y \/ x = NoNumber
  <2>1. x = NoNumber \/ x \in A
    BY <1>4, <1>t
  <2> QED
    BY <2>1, <1>1, <1>6
<1> QED
  BY <1>4, <1>5, <1>9, <1>10, <1>11, <1>12

-----------------------------------------------------------------------------
(* The old list and the new one are in the same buffer.                    *)

Item(q, world, j) == [number |-> q[j], state |-> world[q[j]]]

\* What is not read yet of the old list is still there.
Unread(e, ring, i) ==
    \A j \in 1 .. Len(OldList(e)) :
        i < j => ring[(e.old.first + j - 1) % MAX_PARSE_ENTITIES] = Item(OldList(e), e.from, j)

\* What was written of the new list is there, unless it has gone round.
Written(e, ring, w) ==
    w < MAX_PARSE_ENTITIES =>
        \A j \in 1 .. w :
            ring[(e.first + j - 1) % MAX_PARSE_ENTITIES] = Item(NewList(e), e.to, j)

\* The margin is for the entities that are new.
Room(e) ==
    /\ e.first \in Nat /\ e.old.first \in Nat /\ e.old.num = Len(OldList(e))
    /\ e.old.first + e.old.num <= e.first
    /\ \/ e.old.num = 0
       \/ /\ e.first - e.old.first <= MAX_PARSE_ENTITIES - Margin
          /\ Cardinality(DOMAIN e.to \ DOMAIN e.from) <= Margin

Ahead(e, i, w) == e.old.num = 0 \/ w <= i + Margin

LEMMA RoomAhead ==
    ASSUME NEW e, Comparable(e), Room(e), NEW i, NEW k, NEW w, NEW t, Merged(e, i, k, w, t)
    PROVE  Ahead(e, i, w)
<1> DEFINE A == DOMAIN e.from
           B == DOMAIN e.to
<1>1. A \in SUBSET (0 .. 1022) /\ B \in SUBSET (0 .. 1022)
  BY DEF Comparable
<1>2. Listing(OldList(e), A) /\ Listing(NewList(e), B)
  <2>1. InOrderOf(e)
    BY Listings
  <2> QED
    BY <2>1 DEF InOrderOf
<1>3. Below(OldList(e), i, t) /\ Below(NewList(e), w, t)
  BY DEF Merged
<1>4. e.old.num = 0 \/ Cardinality(B \ A) <= Margin
  BY DEF Room
<1> HIDE DEF A, B
<1>5. IsFiniteSet(B \ A)
  <2>1. B \ A \in SUBSET (0 .. 1022)
    BY <1>1
  <2> QED
    BY <2>1, SmallSets
<1>6. A \in SUBSET Nat /\ B \in SUBSET Nat /\ Margin \in Nat
  BY <1>1, SnapshotAssumption
<1>7. Cardinality(B \ A) <= Margin => w <= i + Margin
  BY <1>2, <1>3, <1>5, <1>6, NotAhead
<1> QED
  BY <1>4, <1>7 DEF Ahead

\* An entity is written behind what is read next.
LEMMA PutUnread ==
    ASSUME NEW e, Room(e), NEW ring, NEW i0 \in Nat, NEW i \in Nat, i0 <= i,
           Unread(e, ring, i0), NEW w \in Nat, e.old.num = 0 \/ w < i + Margin, NEW v
    PROVE  Unread(e, [ring EXCEPT ![(e.first + w) % MAX_PARSE_ENTITIES] = v], i)
<1> DEFINE M == MAX_PARSE_ENTITIES
           n == e.first + w
<1>1. /\ e.first \in Nat /\ e.old.first \in Nat /\ e.old.num = Len(OldList(e))
      /\ e.old.first + e.old.num <= e.first
      /\ e.old.num # 0 => e.first - e.old.first <= M - Margin
  BY DEF Room
<1>2. M \in Nat \ {0} /\ Margin \in Nat
  BY SnapshotAssumption
<1> HIDE DEF M
<1>3. SUFFICES ASSUME NEW j \in 1 .. Len(OldList(e)), i < j
               PROVE  [ring EXCEPT ![n % M] = v][(e.old.first + j - 1) % M]
                        = Item(OldList(e), e.from, j)
  BY DEF Unread, M
<1> DEFINE p == e.old.first + j - 1
<1>4. j \in Nat /\ j >= 1 /\ Len(OldList(e)) \in Int /\ j <= e.old.num /\ e.old.num # 0
  <2>1. Len(OldList(e)) \in Int
    <3>1. CASE Len(OldList(e)) \in Int
      BY <3>1
    <3>2. CASE e.old.num = 0
      BY <3>2, <1>1
    <3> QED
      BY <3>1, <3>2, <1>1
  <2> QED
    BY <2>1, <1>1
<1>5. p \in Int /\ n \in Int /\ p < n /\ n - p < M
  <2>1. /\ e.first \in Nat /\ e.old.first \in Nat /\ e.old.num \in Int /\ j \in Nat
        /\ e.old.first + e.old.num <= e.first /\ j <= e.old.num /\ i < j
        /\ e.first - e.old.first <= M - Margin
    BY <1>1, <1>3, <1>4
  <2>2. w < i + Margin
    BY <1>4
  <2>3. p \in Int /\ n \in Int
    BY ONLY <2>1, w \in Nat
  <2>4. p < n
    BY ONLY <2>1, w \in Nat
  <2>5. n - p < M
    BY ONLY <1>2, <2>1, <2>2, w \in Nat, i \in Nat
  <2> QED
    BY <2>3, <2>4, <2>5
<1> HIDE DEF p, n
<1>6. p % M # n % M
  BY <1>2, <1>5, PlacesDiffer
<1>7. ring[p % M] = Item(OldList(e), e.from, j)
  BY <1>3 DEF Unread, p, M
<1> QED
  BY <1>6, <1>7 DEF p

LEMMA PutWritten ==
    ASSUME NEW e, e.first \in Nat, NEW ring, Places(ring, MAX_PARSE_ENTITIES),
           NEW w \in Nat, Written(e, ring, w), NEW v,
           NEW after, after = [ring EXCEPT ![(e.first + w) % MAX_PARSE_ENTITIES] = v]
    PROVE  /\ Written(e, after, w)
           /\ v = Item(NewList(e), e.to, w + 1) => Written(e, after, w + 1)
<1> DEFINE M == MAX_PARSE_ENTITIES
           n == e.first + w
<1>1. M \in Nat \ {0} /\ after = [ring EXCEPT ![n % M] = v]
  BY SnapshotAssumption
<1>2. ASSUME w < M, NEW j \in 1 .. w
      PROVE  after[(e.first + j - 1) % M] = Item(NewList(e), e.to, j)
  <2> DEFINE p == e.first + j - 1
  <2>1. p \in Int /\ n \in Int /\ p < n /\ n - p < M
    BY <1>1, <1>2
  <2>2. ring[p % M] = Item(NewList(e), e.to, j)
    BY <1>2 DEF Written
  <2> HIDE DEF p, n, M
  <2>3. p % M # n % M
    BY <1>1, <2>1, PlacesDiffer
  <2>4. after[p % M] = ring[p % M]
    BY <1>1, <2>3
  <2> QED
    BY <2>2, <2>4 DEF p
<1>3. Written(e, after, w)
  BY <1>2 DEF Written
<1>4. ASSUME v = Item(NewList(e), e.to, w + 1) PROVE Written(e, after, w + 1)
  <2> SUFFICES ASSUME w + 1 < M, NEW j \in 1 .. w + 1
               PROVE  after[(e.first + j - 1) % M] = Item(NewList(e), e.to, j)
    BY DEF Written
  <2>1. CASE j \in 1 .. w
    BY <1>1, <1>2, <2>1
  <2>2. CASE j = w + 1
    <3>1. e.first + j - 1 = n /\ n \in Int
      BY <2>2
    <3>2. n % M \in DOMAIN ring
      BY <1>1, <3>1, PlaceInRing DEF Places
    <3> HIDE DEF n, M
    <3>3. after[n % M] = v
      BY <1>1, <3>2
    <3> QED
      BY <1>4, <2>2, <3>1, <3>3
  <2> QED
    BY <2>1, <2>2
<1> QED
  BY <1>3, <1>4

\* s is what the client has after some steps.
InRing(e, s, t) ==
    /\ s.next \in Nat /\ e.first <= s.next /\ Places(s.ring, MAX_PARSE_ENTITIES)
    /\ Merged(e, s.i, s.k, s.next - e.first, t)
    /\ s.oldnum = NumberAt(OldList(e), s.i + 1)
    /\ Unread(e, s.ring, s.i)
    /\ Written(e, s.ring, s.next - e.first)

Finished(e, s) ==
    /\ s.i = Len(OldList(e)) /\ s.k - 1 = Len(DeltaList(e))
    /\ s.next - e.first = Len(NewList(e))

LEMMA OldNumberIs ==
    ASSUME NEW e, Room(e), NEW ring, NEW i, i \in Nat, Unread(e, ring, i),
           i <= Len(OldList(e)), Len(OldList(e)) \in Nat
    PROVE  OldNumber(ring, e.old, i) = NumberAt(OldList(e), i + 1)
<1>1. e.old.num = Len(OldList(e)) /\ e.old.first \in Nat
  BY DEF Room
<1>2. CASE i = Len(OldList(e))
  BY <1>1, <1>2 DEF OldNumber, NumberAt
<1>3. CASE i < Len(OldList(e))
  <2>1. i + 1 \in 1 .. Len(OldList(e)) /\ i < i + 1 /\ e.old.first + (i + 1) - 1 = e.old.first + i
    BY <1>1, <1>3
  <2>2. ring[(e.old.first + (i + 1) - 1) % MAX_PARSE_ENTITIES] = Item(OldList(e), e.from, i + 1)
    BY <2>1 DEF Unread
  <2>3. ring[OldPlace(e.old, i)] = Item(OldList(e), e.from, i + 1)
    BY <2>1, <2>2 DEF OldPlace
  <2>4. ring[OldPlace(e.old, i)].number = OldList(e)[i + 1]
    BY <2>3 DEF Item
  <2> QED
    BY <1>1, <1>3, <2>1, <2>4 DEF OldNumber, NumberAt
<1> QED
  BY <1>2, <1>3

\* What an entity that is written does.
LEMMA PutStep ==
    ASSUME NEW e, Comparable(e), Room(e), NEW s, NEW t, InRing(e, s, t), NEW v,
           NEW r, NEW i, NEW k, NEW w, NEW u,
           r = [ring |-> [s.ring EXCEPT ![s.next % MAX_PARSE_ENTITIES] = v],
                i |-> i, oldnum |-> IF i = s.i THEN s.oldnum
                                    ELSE OldNumber([s.ring EXCEPT ![s.next % MAX_PARSE_ENTITIES] = v],
                                                   e.old, i),
                next |-> e.first + w, k |-> k],
           Merged(e, i, k, w, u), s.i <= i,
           \/ w = s.next - e.first /\ i = s.i + 1
           \/ /\ w = s.next - e.first + 1
              /\ v = Item(NewList(e), e.to, w)
    PROVE  InRing(e, r, u)
<1> DEFINE w0 == s.next - e.first
           ring == [s.ring EXCEPT ![s.next % MAX_PARSE_ENTITIES] = v]
<1>1. /\ s.next \in Nat /\ e.first <= s.next /\ Places(s.ring, MAX_PARSE_ENTITIES)
      /\ Merged(e, s.i, s.k, w0, t)
      /\ s.oldnum = NumberAt(OldList(e), s.i + 1)
      /\ Unread(e, s.ring, s.i) /\ Written(e, s.ring, w0)
  BY DEF InRing
<1>2. e.first \in Nat /\ e.old.num = Len(OldList(e)) /\ Margin \in Nat
  BY SnapshotAssumption DEF Room
<1>3. w0 \in Nat /\ s.next = e.first + w0
  BY <1>1, <1>2
<1>4. Ahead(e, s.i, w0) /\ Ahead(e, i, w)
  BY <1>1, RoomAhead
<1>5. /\ Len(OldList(e)) \in Nat
      /\ s.i \in Nat /\ i \in Nat /\ i <= Len(OldList(e)) /\ w \in Nat
      /\ k \in Nat /\ u \in Nat
  <2>1. InOrderOf(e)
    BY Listings
  <2>2. Len(OldList(e)) \in Nat /\ Len(NewList(e)) \in Nat
    BY <2>1 DEF InOrderOf, Listing
  <2>3. /\ s.i \in 0 .. Len(OldList(e)) /\ i \in 0 .. Len(OldList(e))
        /\ w \in 0 .. Len(NewList(e)) /\ k \in Nat /\ u \in Nat
    BY <1>1 DEF Merged, Below
  <2> QED
    BY <2>2, <2>3
<1> HIDE DEF w0
<1>6. e.old.num = 0 \/ w0 < i + Margin
  <2>1. (w = w0 /\ i = s.i + 1) \/ w = w0 + 1
    BY DEF w0
  <2> QED
    BY <1>2, <1>3, <1>4, <1>5, <2>1 DEF Ahead
<1>7. ring = [s.ring EXCEPT ![(e.first + w0) % MAX_PARSE_ENTITIES] = v]
  BY <1>3
<1> HIDE DEF ring
<1>8. Unread(e, ring, i)
  BY <1>1, <1>3, <1>5, <1>6, <1>7, PutUnread
<1>9. Written(e, ring, w)
  <2>1. /\ Written(e, ring, w0)
        /\ v = Item(NewList(e), e.to, w0 + 1) => Written(e, ring, w0 + 1)
    BY <1>1, <1>2, <1>3, <1>7, PutWritten
  <2> QED
    BY <2>1 DEF w0
<1>10. r.ring = ring /\ r.i = i /\ r.k = k /\ r.next = e.first + w
       /\ r.oldnum = IF i = s.i THEN s.oldnum ELSE OldNumber(ring, e.old, i)
  BY DEF ring
<1>11. r.oldnum = NumberAt(OldList(e), i + 1)
  <2>1. OldNumber(ring, e.old, i) = NumberAt(OldList(e), i + 1)
    BY <1>5, <1>8, OldNumberIs
  <2> QED
    BY <1>1, <1>10, <2>1
<1>12. Places(ring, MAX_PARSE_ENTITIES)
  BY <1>1 DEF Places, ring
<1>13. e.first + w \in Nat /\ e.first <= e.first + w /\ (e.first + w) - e.first = w
  BY <1>2, <1>5
<1> QED
  BY <1>8, <1>9, <1>10, <1>11, <1>12, <1>13 DEF InRing

\* Each step of the client reads the next number of the two lists.
LEMMA DeltaEntityStep ==
    ASSUME NEW e, Comparable(e), Room(e), NEW s, NEW t, InRing(e, s, t),
           NEW r, r = CL_DeltaEntity(s, e.old, Delta(e), DeltaList(e))
    PROVE  \/ r = s /\ Finished(e, s)
           \/ (\E u : InRing(e, r, u)) /\ r.i + r.k >= s.i + s.k + 1
<1> DEFINE x == s.oldnum
           y == NumberAt(DeltaList(e), s.k)
           w == s.next - e.first
           Put(v, i, k, n) ==
             [ring |-> [s.ring EXCEPT ![s.next % MAX_PARSE_ENTITIES] = v],
              i |-> i, oldnum |-> IF i = s.i THEN s.oldnum
                                  ELSE OldNumber([s.ring EXCEPT ![s.next % MAX_PARSE_ENTITIES] = v],
                                                 e.old, i),
              next |-> e.first + n, k |-> k]
           old == s.ring[OldPlace(e.old, s.i)]
           new == [number |-> y, state |-> Delta(e).changed[y]]
           entity == IF x < y THEN old ELSE IF y \in Delta(e).removed THEN Gone ELSE new
           ii == IF x <= y THEN s.i + 1 ELSE s.i
           kk == IF y <= x THEN s.k + 1 ELSE s.k
<1>1. r = IF {x, y} = {NoNumber} THEN s
          ELSE [ring |-> [s.ring EXCEPT ![s.next % MAX_PARSE_ENTITIES] = entity],
                i |-> ii, oldnum |-> IF ii = s.i THEN s.oldnum
                                     ELSE OldNumber([s.ring EXCEPT ![s.next % MAX_PARSE_ENTITIES] = entity],
                                                    e.old, ii),
                next |-> IF entity = Gone THEN s.next ELSE s.next + 1, k |-> kk]
  BY DEF CL_DeltaEntity, NumberAt
<1>2. /\ s.next \in Nat /\ e.first <= s.next
      /\ Merged(e, s.i, s.k, w, t) /\ x = NumberAt(OldList(e), s.i + 1)
      /\ Unread(e, s.ring, s.i)
  BY DEF InRing
<1>3. e.first \in Nat /\ w \in Nat /\ e.first + w = s.next /\ e.first + (w + 1) = s.next + 1
      /\ e.old.first \in Nat
  BY <1>2 DEF Room
<1>4. NextMerged(e, s.i, s.k, w, x, y)
  <2> HIDE DEF w
  <2> QED
    BY <1>2, MergeStep
<1>5. /\ s.i \in Nat /\ s.k \in Nat /\ x \in Nat /\ y \in Nat
      /\ \A j \in 1 .. Len(OldList(e)) : OldList(e)[j] <= 1022
      /\ Len(OldList(e)) \in Nat
  <2>1. InOrderOf(e)
    BY Listings
  <2>2. /\ Listing(OldList(e), DOMAIN e.from) /\ DOMAIN e.from \in SUBSET (0 .. 1022)
        /\ Listing(DeltaList(e), DOMAIN Delta(e).changed \cup Delta(e).removed)
    BY <2>1 DEF InOrderOf, Comparable
  <2>3. /\ s.i \in 0 .. Len(OldList(e)) /\ s.k - 1 \in 0 .. Len(DeltaList(e))
        /\ s.k \in Nat
    BY <1>2 DEF Merged, Below
  <2>4. /\ Len(OldList(e)) \in Nat /\ Len(DeltaList(e)) \in Nat
        /\ \A j \in 1 .. Len(OldList(e)) : OldList(e)[j] \in Nat /\ OldList(e)[j] \in DOMAIN e.from
        /\ \A j \in 1 .. Len(DeltaList(e)) : DeltaList(e)[j] \in Nat
    <3>1. Len(OldList(e)) \in Nat /\ Len(DeltaList(e)) \in Nat
      BY <2>2 DEF Listing
    <3>2. \A j \in 1 .. Len(OldList(e)) : OldList(e)[j] \in DOMAIN e.from
      BY <2>2 DEF Listing
    <3>3. \A j \in 1 .. Len(OldList(e)) : OldList(e)[j] \in Nat
      BY <2>2 DEF Listing
    <3>4. \A j \in 1 .. Len(DeltaList(e)) : DeltaList(e)[j] \in Nat
      BY <2>2 DEF Listing
    <3> QED
      BY ONLY <3>1, <3>2, <3>3, <3>4
  <2>5. \A j \in 1 .. Len(OldList(e)) : OldList(e)[j] <= 1022
    <3>1. \A z \in DOMAIN e.from : z <= 1022
      BY <2>2
    <3> QED
      BY <2>4, <3>1
  <2>6. NoNumber \in Nat
    BY DEF NoNumber
  <2>7. x \in Nat
    <3>1. s.i + 1 <= Len(OldList(e)) => s.i + 1 \in 1 .. Len(OldList(e))
      BY <2>3, <2>4
    <3> QED
      BY <1>2, <2>4, <2>6, <3>1 DEF NumberAt
  <2>8. y \in Nat
    <3>1. s.k <= Len(DeltaList(e)) => s.k \in 1 .. Len(DeltaList(e))
      BY <2>3, <2>4
    <3> HIDE DEF x
    <3> QED
      BY <2>4, <2>6, <3>1 DEF NumberAt
  <2>9. s.i \in Nat
    BY <2>3, <2>4
  <2> QED
    BY <2>3, <2>4, <2>5, <2>7, <2>8, <2>9
<1>6. ASSUME NEW v, NEW i, NEW k, NEW n, NEW u, r = Put(v, i, k, n),
             Merged(e, i, k, n, u), s.i <= i, i + k >= s.i + s.k + 1,
             (n = w /\ i = s.i + 1) \/ (n = w + 1 /\ v = Item(NewList(e), e.to, n))
      PROVE  (\E z : InRing(e, r, z)) /\ r.i + r.k >= s.i + s.k + 1
  <2>1. InRing(e, r, u)
    <3> HIDE DEF Item
    <3>1. \/ n = s.next - e.first /\ i = s.i + 1
          \/ n = s.next - e.first + 1 /\ v = Item(NewList(e), e.to, n)
      BY <1>6
    <3> QED
      BY <1>6, <3>1, PutStep
  <2>2. r.i = i /\ r.k = k
    BY <1>6
  <2> QED
    BY <1>6, <2>1, <2>2
<1> HIDE DEF x, y, w
<1>7. CASE /\ x = NoNumber /\ y = NoNumber
           /\ s.i = Len(OldList(e)) /\ s.k - 1 = Len(DeltaList(e)) /\ w = Len(NewList(e))
  <2>1. {x, y} = {NoNumber}
    BY <1>7
  <2>2. r = s
    BY <1>1, <2>1
  <2> QED
    BY <1>7, <2>2 DEF Finished, w
<1>8. CASE /\ x < y /\ s.i < Len(OldList(e)) /\ w < Len(NewList(e))
           /\ OldList(e)[s.i + 1] = x /\ NewList(e)[w + 1] = x
           /\ e.from[x] = e.to[x]
           /\ Merged(e, s.i + 1, s.k, w + 1, x + 1)
  <2>1. s.i + 1 \in 1 .. Len(OldList(e)) /\ s.i < s.i + 1
        /\ e.old.first + (s.i + 1) - 1 = e.old.first + s.i
    <3>1. s.i < Len(OldList(e))
      BY <1>8
    <3> QED
      BY ONLY <1>3, <1>5, <3>1
  <2>2. old = Item(OldList(e), e.from, s.i + 1)
    <3>1. s.ring[(e.old.first + (s.i + 1) - 1) % MAX_PARSE_ENTITIES] = Item(OldList(e), e.from, s.i + 1)
      BY <1>2, <2>1 DEF Unread
    <3> QED
      BY <2>1, <3>1 DEF OldPlace
  <2>3. old = Item(NewList(e), e.to, w + 1) /\ old.number = x
    <3>1. Item(OldList(e), e.from, s.i + 1) = [number |-> x, state |-> e.from[x]]
      BY <1>8 DEF Item
    <3>2. Item(NewList(e), e.to, w + 1) = [number |-> x, state |-> e.to[x]]
      BY <1>8 DEF Item
    <3> HIDE DEF old
    <3> QED
      BY <1>8, <2>2, <3>1, <3>2
  <2>4. x <= 1022 /\ old # Gone
    <3>1. x <= 1022
      BY <1>5, <1>8, <2>1
    <3>2. Gone.number = 1023
      BY DEF Gone
    <3> HIDE DEF old
    <3> QED
      BY <1>5, <2>3, <3>1, <3>2
  <2>5. /\ {x, y} # {NoNumber} /\ entity = old /\ ii = s.i + 1 /\ kk = s.k
    <3>1. x < y /\ x \in Int /\ y \in Int
      BY <1>5, <1>8
    <3>2. x # y /\ x <= y /\ ~(y <= x)
      BY ONLY <3>1
    <3> HIDE DEF old, new
    <3> QED
      BY ONLY <3>1, <3>2
  <2> HIDE DEF old, entity, ii, kk
  <2>6. r = Put(old, s.i + 1, s.k, w + 1)
    BY <1>1, <1>3, <2>4, <2>5
  <2> HIDE DEF Put
  <2>7. /\ s.i <= s.i + 1 /\ s.i + 1 + s.k >= s.i + s.k + 1
        /\ old = Item(NewList(e), e.to, w + 1)
    BY <1>5, <2>3
  <2>8. Merged(e, s.i + 1, s.k, w + 1, x + 1)
    BY <1>8
  <2> HIDE DEF Item
  <2> QED
    BY <1>6, <2>6, <2>7, <2>8
<1>9. CASE /\ x = y /\ s.i < Len(OldList(e)) /\ y \in Delta(e).removed /\ y <= 1022
           /\ Merged(e, s.i + 1, s.k + 1, w, x + 1)
  <2>1. {x, y} # {NoNumber} /\ entity = Gone /\ ii = s.i + 1 /\ kk = s.k + 1
    <3>1. y # NoNumber
      BY <1>5, <1>9 DEF NoNumber
    <3> HIDE DEF old, new
    <3>2. entity = Gone /\ ii = s.i + 1 /\ kk = s.k + 1
      BY <1>5, <1>9
    <3> QED
      BY <3>1, <3>2
  <2> HIDE DEF old, new, entity, ii, kk
  <2>2. r = Put(Gone, s.i + 1, s.k + 1, w)
    BY <1>1, <1>3, <2>1
  <2> HIDE DEF Put
  <2> QED
    BY <1>5, <1>6, <1>9, <2>2
<1>10. CASE /\ y <= x /\ (x = y => s.i < Len(OldList(e))) /\ w < Len(NewList(e)) /\ y <= 1022
            /\ NewList(e)[w + 1] = y
            /\ y \notin Delta(e).removed /\ Delta(e).changed[y] = e.to[y]
            /\ Merged(e, IF x = y THEN s.i + 1 ELSE s.i, s.k + 1, w + 1, y + 1)
  <2>1. new = Item(NewList(e), e.to, w + 1) /\ new # Gone
    <3>1. new = Item(NewList(e), e.to, w + 1)
      BY <1>10 DEF Item
    <3>2. new.number = y /\ Gone.number = 1023
      BY DEF Gone
    <3> HIDE DEF new
    <3> QED
      BY <1>5, <1>10, <3>1, <3>2
  <2>2. {x, y} # {NoNumber} /\ entity = new /\ kk = s.k + 1
        /\ ii = IF x = y THEN s.i + 1 ELSE s.i
    <3>1. y # NoNumber
      BY <1>5, <1>10 DEF NoNumber
    <3> HIDE DEF old, new
    <3>2. entity = new /\ kk = s.k + 1 /\ ii = IF x = y THEN s.i + 1 ELSE s.i
      BY <1>5, <1>10
    <3> QED
      BY <3>1, <3>2
  <2> HIDE DEF old, new, entity, kk
  <2>3. Merged(e, ii, s.k + 1, w + 1, y + 1) /\ s.i <= ii /\ ii + (s.k + 1) >= s.i + s.k + 1
    BY <1>5, <1>10, <2>2
  <2> HIDE DEF ii
  <2>4. r = Put(new, ii, s.k + 1, w + 1)
    BY <1>1, <1>3, <2>1, <2>2
  <2> HIDE DEF Put
  <2> QED
    BY <1>6, <2>1, <2>3, <2>4
<1> QED
  BY <1>4, <1>7, <1>8, <1>9, <1>10 DEF NextMerged

\* A client whose snapshot is the one the delta was made from has the new one
\* when it has parsed the entities.
LEMMA ParsedList ==
    ASSUME NEW e, Comparable(e), Room(e), e.first = cl.parseEntitiesNum,
           Places(parseEntities, MAX_PARSE_ENTITIES), Unread(e, parseEntities, 0)
    PROVE  LET s == CL_ParsePacketEntities(e.old, Delta(e))
           IN  /\ s.next = e.first + Len(NewList(e))
               /\ Written(e, s.ring, Len(NewList(e)))
<1> DEFINE n == e.old.num + Len(DeltaList(e))
<1>1. /\ e.first \in Nat /\ e.old.num = Len(OldList(e))
      /\ Len(OldList(e)) \in Nat /\ Len(DeltaList(e)) \in Nat /\ Len(NewList(e)) \in Nat
  <2>1. InOrderOf(e)
    BY Listings
  <2>2. Len(OldList(e)) \in Nat
    BY <2>1 DEF InOrderOf, Listing
  <2>3. Len(DeltaList(e)) \in Nat
    BY <2>1 DEF InOrderOf, Listing
  <2>4. Len(NewList(e)) \in Nat
    BY <2>1 DEF InOrderOf, Listing
  <2> QED
    BY <2>2, <2>3, <2>4 DEF Room
<1>2. n \in Nat /\ n = e.old.num + Len(Numbers(Delta(e)))
  BY <1>1 DEF DeltaList
<1> HIDE DEF n
<1>3. PICK f : Steps(f, e.old, Delta(e), n) /\ CL_ParsePacketEntities(e.old, Delta(e)) = f[n]
  BY <1>2, ParsedInSteps
<1> DEFINE Far(s, j) == Finished(e, s) \/ s.i + s.k >= j + 1
           S == {j \in 0 .. n : \E t : InRing(e, f[j], t) /\ Far(f[j], j)}
<1>4. \A s, t : InRing(e, s, t) =>
        /\ s.i \in Nat /\ s.i <= Len(OldList(e)) /\ s.k \in Nat
        /\ s.k - 1 <= Len(DeltaList(e))
  <2> SUFFICES ASSUME NEW s, NEW t, InRing(e, s, t)
               PROVE  /\ s.i \in Nat /\ s.i <= Len(OldList(e)) /\ s.k \in Nat
                      /\ s.k - 1 <= Len(DeltaList(e))
    OBVIOUS
  <2>1. /\ s.i \in 0 .. Len(OldList(e)) /\ s.k - 1 \in 0 .. Len(DeltaList(e))
        /\ s.k \in Nat
    BY DEF InRing, Merged, Below
  <2> QED
    BY <1>1, <2>1
<1>5. 0 \in S
  <2>1. /\ f[0].next = e.first /\ f[0].ring = parseEntities /\ f[0].i = 0 /\ f[0].k = 1
        /\ f[0].oldnum = OldNumber(parseEntities, e.old, 0)
    BY <1>3 DEF Steps, Start
  <2>2. f[0].oldnum = NumberAt(OldList(e), 0 + 1)
    <3>1. OldNumber(parseEntities, e.old, 0) = NumberAt(OldList(e), 0 + 1)
      BY <1>1, OldNumberIs
    <3> QED
      BY <2>1, <3>1
  <2>3. \A q, T : Listing(q, T) => Below(q, 0, 0)
    <3> SUFFICES ASSUME NEW q, NEW T, Listing(q, T) PROVE Below(q, 0, 0)
      OBVIOUS
    <3>1. Len(q) \in Nat /\ \A j \in 1 .. Len(q) : q[j] \in Nat
      BY DEF Listing
    <3> QED
      BY <3>1 DEF Below
  <2>4. Merged(e, 0, 1, 0, 0)
    <3>1. InOrderOf(e)
      BY Listings
    <3>2. Below(OldList(e), 0, 0) /\ Below(DeltaList(e), 0, 0) /\ Below(NewList(e), 0, 0)
      BY <2>3, <3>1 DEF InOrderOf
    <3>3. Below(DeltaList(e), 1 - 1, 0)
      BY <3>2
    <3> QED
      BY <3>2, <3>3 DEF Merged
  <2>5. InRing(e, f[0], 0)
    <3>1. f[0].next - e.first = 0
      BY <1>1, <2>1
    <3>2. Written(e, f[0].ring, 0)
      BY DEF Written
    <3> QED
      BY <1>1, <2>1, <2>2, <2>4, <3>1, <3>2 DEF InRing
  <2>6. Far(f[0], 0)
    BY <2>1
  <2> QED
    BY <1>2, <2>5, <2>6
<1>6. ASSUME NEW j \in 1 .. n, j - 1 \in S PROVE j \in S
  <2>1. PICK t : InRing(e, f[j - 1], t) /\ Far(f[j - 1], j - 1)
    BY <1>6
  <2>2. f[j] = CL_DeltaEntity(f[j - 1], e.old, Delta(e), DeltaList(e))
    BY <1>3 DEF Steps, DeltaList
  <2> DEFINE s == f[j - 1]
             r == f[j]
  <2>3. \/ r = s /\ Finished(e, s)
        \/ (\E u : InRing(e, r, u)) /\ r.i + r.k >= s.i + s.k + 1
    <3> HIDE DEF r, s
    <3>1. InRing(e, s, t) /\ r = CL_DeltaEntity(s, e.old, Delta(e), DeltaList(e))
      BY <2>1, <2>2 DEF r, s
    <3> QED
      BY <3>1, DeltaEntityStep
  <2> HIDE DEF Far
  <2>4. CASE r = s /\ Finished(e, s)
    BY <2>1, <2>4 DEF Far
  <2>5. CASE (\E u : InRing(e, r, u)) /\ r.i + r.k >= s.i + s.k + 1
    <3>1. PICK u : InRing(e, r, u)
      BY <2>5
    <3> HIDE DEF r, s
    <3>2. r.i \in Nat /\ r.k \in Nat /\ s.i \in Nat /\ s.k \in Nat
      BY <1>4, <2>1, <3>1 DEF s
    <3>3. s.i + s.k >= j
      <4>1. CASE Finished(e, s)
        <5>1. s.i = Len(OldList(e)) /\ s.k - 1 = Len(DeltaList(e))
          BY <4>1 DEF Finished
        <5>2. s.i + s.k = n + 1
          <6>1. n = Len(OldList(e)) + Len(DeltaList(e))
            BY <1>1 DEF n
          <6>2. \A x, y \in Int : x - 1 = y => x = y + 1
            OBVIOUS
          <6>3. s.k = Len(DeltaList(e)) + 1
            BY <1>1, <3>2, <5>1, <6>2
          <6> QED
            BY ONLY <1>1, <5>1, <6>1, <6>3
        <5> QED
          BY <1>2, <5>2
      <4>2. CASE s.i + s.k >= (j - 1) + 1
        BY <3>2, <4>2
      <4> QED
        BY <2>1, <4>1, <4>2 DEF Far, s
    <3>4. r.i + r.k >= j + 1
      BY <2>5, <3>2, <3>3
    <3>5. InRing(e, f[j], u) /\ Far(f[j], j)
      BY <3>1, <3>4 DEF Far, r
    <3> QED
      BY <3>5
  <2> QED
    BY <2>3, <2>4, <2>5
<1>7. n \in S
  <2> HIDE DEF S
  <2>1. 0 .. n \subseteq S
    BY <1>2, <1>5, <1>6, Stepwise
  <2> QED
    BY <1>2, <2>1
<1>8. PICK t : InRing(e, f[n], t) /\ Far(f[n], n)
  BY <1>7
<1> DEFINE s == f[n]
           r == CL_DeltaEntity(s, e.old, Delta(e), DeltaList(e))
<1>9. \/ r = s /\ Finished(e, s)
      \/ (\E u : InRing(e, r, u)) /\ r.i + r.k >= s.i + s.k + 1
  <2>1. InRing(e, s, t)
    BY <1>8
  <2> HIDE DEF s
  <2> QED
    BY <2>1, DeltaEntityStep
<1>10. Finished(e, s)
  <2> SUFFICES ASSUME ~Finished(e, s) PROVE FALSE
    OBVIOUS
  <2>1. s.i + s.k >= n + 1
    BY <1>8
  <2>2. PICK u : InRing(e, r, u)
    BY <1>9
  <2>3. r.i + r.k >= s.i + s.k + 1
    BY <1>9
  <2> HIDE DEF r, s
  <2>4. /\ r.i \in Nat /\ r.i <= Len(OldList(e)) /\ r.k \in Nat
        /\ r.k - 1 <= Len(DeltaList(e))
    BY <1>4, <2>2
  <2>5. s.i \in Nat /\ s.k \in Nat
    BY <1>4, <1>8 DEF s
  <2> QED
    BY <1>1, <2>1, <2>3, <2>4, <2>5 DEF n
<1> HIDE DEF s, r
<1>11. s.next \in Nat /\ s.next - e.first = Len(NewList(e)) /\ Written(e, s.ring, s.next - e.first)
  BY <1>8, <1>10 DEF InRing, Finished, s
<1>12. s.next = e.first + Len(NewList(e))
  BY <1>1, <1>11
<1> QED
  BY <1>3, <1>11, <1>12 DEF s

-----------------------------------------------------------------------------
(* What the server remembers.                                              *)

LEMMA MemoryIs ==
    /\ Memory.map = sv.map /\ Memory.next = sv.next
    /\ Memory.sequence = client.outgoingSequence /\ Memory.frames = frames
    /\ Memory.entities = snapshotEntities /\ Memory.clientMap = cl.map
BY DEF Memory

LEMMA MemoryAfter ==
    /\ Memory'.map = sv'.map /\ Memory'.next = sv'.next
    /\ Memory'.sequence = client'.outgoingSequence /\ Memory'.frames = frames'
    /\ Memory'.entities = snapshotEntities' /\ Memory'.clientMap = cl'.map
BY DEF Memory

\* What is in sight of the client when no frame is sent.
SameMemory(a, b) ==
    /\ b.map = a.map /\ b.next = a.next /\ b.frames = a.frames /\ b.entities = a.entities
    /\ b.clientMap = a.clientMap
    /\ a.sequence \in Int /\ b.sequence \in Int /\ a.sequence <= b.sequence

LEMMA RemembersSame ==
    ASSUME NEW a, NEW b, SameMemory(a, b), NEW n \in Nat, NEW truth, Remembers(n, truth, a)
    PROVE  Remembers(n, truth, b)
<1>1. PACKET_BACKUP \in Nat
  BY SnapshotAssumption
<1>2. b.sequence - n <= PACKET_BACKUP => a.sequence - n <= PACKET_BACKUP
  BY <1>1 DEF SameMemory
<1> QED
  BY <1>2 DEF Remembers, SameMemory

LEMMA RemembersOther ==
    ASSUME NEW b, b.clientMap # b.map, NEW n, NEW truth
    PROVE  Remembers(n, truth, b)
BY DEF Remembers

\* A frame is sent: others are the entities of the clients before.
Framed(a, b, world, others) ==
    LET frame == [first |-> a.next + others, num |-> Cardinality(DOMAIN world)]
    IN  /\ b.map = a.map /\ b.clientMap = a.clientMap
        /\ b.sequence = a.sequence + 1
        /\ b.frames = [a.frames EXCEPT ![Frame(a.sequence)] = frame]
        /\ b.entities = Stored(a.entities, numSnapshotEntities, a.next,
                               [i \in 1 .. others |-> NoEntity] \o Ordered(world))
        /\ b.next = frame.first + frame.num

MemoryOK(a) ==
    /\ a.next \in Nat /\ a.sequence \in Nat
    /\ DOMAIN a.frames = 0 .. PACKET_BACKUP - 1
    /\ Places(a.entities, numSnapshotEntities)

\* The entities of the clients before and of this one.
LEMMA FramedLists ==
    ASSUME NEW world \in Worlds, NEW others \in Nat
    PROVE  LET p == [i \in 1 .. others |-> NoEntity]
               q == Ordered(world)
           IN  \E S : /\ p \in Seq(S) /\ q \in Seq(S)
                      /\ Len(p) = others /\ Len(q) = Cardinality(DOMAIN world)
                      /\ Cardinality(DOMAIN world) \in Nat
                      /\ Length(p \o q, others + Cardinality(DOMAIN world))
<1> DEFINE p == [i \in 1 .. others |-> NoEntity]
           q == Ordered(world)
           s == Sorted(DOMAIN world)
           S == {NoEntity} \cup {q[k] : k \in 1 .. Len(s)}
           c == Cardinality(DOMAIN world)
<1>1. ListOf(q, s, world)
  BY OrderedIs
<1> HIDE DEF q, s
<1>2. /\ q = [k \in 1 .. Len(s) |-> [number |-> s[k], state |-> world[s[k]]]]
      /\ Listing(s, DOMAIN world)
  BY <1>1 DEF ListOf
<1>3. Len(s) \in Nat /\ Len(s) = c
  BY <1>2 DEF Listing
<1> HIDE DEF c
<1>4. q \in Seq(S) /\ Len(q) = c
  <2>1. DOMAIN q = 1 .. Len(s) /\ q = [k \in 1 .. Len(s) |-> q[k]]
    BY <1>2
  <2>2. q \in [1 .. Len(s) -> S]
    BY <2>1
  <2> HIDE DEF S
  <2> QED
    BY <1>3, <2>2
<1>5. p \in Seq(S) /\ Len(p) = others
  <2>1. p \in [1 .. others -> S]
    OBVIOUS
  <2> HIDE DEF p, S
  <2>2. DOMAIN p = 1 .. others
    BY <2>1
  <2> QED
    BY <2>1, <2>2
<1> HIDE DEF p, S
<1>6. p \o q \in Seq(S) /\ Len(p \o q) = others + c
  BY <1>3, <1>4, <1>5
<1>7. Length(p \o q, others + c)
  BY <1>6 DEF Length
<1> QED
  BY <1>3, <1>4, <1>5, <1>7 DEF p, q, c

LEMMA RemembersNew ==
    ASSUME NEW a, MemoryOK(a), NEW world \in Worlds, NEW others \in Nat, NEW b,
           Framed(a, b, world, others)
    PROVE  Remembers(a.sequence, world, b)
<1> DEFINE p == [i \in 1 .. others |-> NoEntity]
           q == Ordered(world)
           c == Cardinality(DOMAIN world)
           f == [first |-> a.next + others, num |-> c]
<1>1. PICK S : /\ p \in Seq(S) /\ q \in Seq(S)
               /\ Len(p) = others /\ Len(q) = c /\ c \in Nat
  BY FramedLists
<1>2. /\ b.frames = [a.frames EXCEPT ![Frame(a.sequence)] = f]
      /\ b.entities = Stored(a.entities, numSnapshotEntities, a.next, p \o q)
      /\ b.next = f.first + f.num
  BY DEF Framed
<1>3. /\ a.next \in Nat /\ a.sequence \in Nat /\ Frame(a.sequence) \in DOMAIN a.frames
      /\ Places(a.entities, numSnapshotEntities)
  BY FrameInRing DEF MemoryOK
<1>4. numSnapshotEntities \in Nat \ {0}
  BY SnapshotAssumption
<1>5. f.first = a.next + others /\ f.num = c
  OBVIOUS
<1> HIDE DEF p, q, c, f
<1>6. b.frames[Frame(a.sequence)] = f
  BY <1>2, <1>3
<1>7. f.first \in Nat /\ f.num \in Nat /\ f.first + f.num <= b.next
  BY <1>1, <1>2, <1>3, <1>5
<1>8. ASSUME f.first > b.next - numSnapshotEntities
      PROVE  Listed(b.entities, numSnapshotEntities, f.first, f.num) = q
  <2>1. Len(q) < numSnapshotEntities
    BY <1>1, <1>2, <1>4, <1>5, <1>7, <1>8
  <2>2. Listed(Stored(a.entities, numSnapshotEntities, a.next, p \o q), numSnapshotEntities,
               a.next + Len(p), Len(q)) = q
    BY <1>1, <1>3, <1>4, <2>1, ListedAt
  <2> QED
    BY <1>1, <1>2, <1>5, <2>2
<1> QED
  BY <1>6, <1>7, <1>8 DEF Remembers, q

\* A list that is not too old after the frame is the one it was before.
LEMMA FramedBefore ==
    ASSUME NEW a, MemoryOK(a), NEW world \in Worlds, NEW others \in Nat, NEW b,
           Framed(a, b, world, others), NEW first \in Nat, NEW num \in Nat,
           first + num <= a.next
    PROVE  /\ b.next \in Nat /\ a.next <= b.next
           /\ first > b.next - numSnapshotEntities =>
                Listed(b.entities, numSnapshotEntities, first, num)
                  = Listed(a.entities, numSnapshotEntities, first, num)
<1> DEFINE p == [i \in 1 .. others |-> NoEntity]
           q == Ordered(world)
           c == Cardinality(DOMAIN world)
           list == p \o q
<1>1. Length(list, others + c) /\ c \in Nat
  BY FramedLists
<1>2. /\ b.entities = Stored(a.entities, numSnapshotEntities, a.next, list)
      /\ b.next = a.next + others + c
  BY DEF Framed
<1>3. a.next \in Nat /\ Places(a.entities, numSnapshotEntities)
  BY DEF MemoryOK
<1>4. numSnapshotEntities \in Nat \ {0}
  BY SnapshotAssumption
<1> HIDE DEF list, c
<1> DEFINE len == others + c
<1>5. len \in Nat /\ b.next = a.next + len
  BY <1>1, <1>2, <1>3
<1>6. Length(list, len)
  BY <1>1
<1> HIDE DEF len
<1>7. b.next \in Nat /\ a.next <= b.next
  BY <1>3, <1>5
<1>8. ASSUME first > b.next - numSnapshotEntities
      PROVE  Listed(b.entities, numSnapshotEntities, first, num)
               = Listed(a.entities, numSnapshotEntities, first, num)
  <2>1. first > a.next + len - numSnapshotEntities
    BY <1>3, <1>4, <1>5, <1>8
  <2> QED
    BY <1>2, <1>3, <1>4, <1>5, <1>6, <2>1, ListedBefore
<1> QED
  BY <1>7, <1>8

LEMMA RemembersOld ==
    ASSUME NEW a, MemoryOK(a), NEW world \in Worlds, NEW others \in Nat, NEW b,
           Framed(a, b, world, others), NEW n \in Nat, n < a.sequence, NEW truth,
           Remembers(n, truth, a)
    PROVE  Remembers(n, truth, b)
<1>1. PACKET_BACKUP \in Nat \ {0} /\ numSnapshotEntities \in Nat
  BY SnapshotAssumption
<1>2. /\ a.next \in Nat /\ a.sequence \in Nat /\ DOMAIN a.frames = 0 .. PACKET_BACKUP - 1
  BY DEF MemoryOK
<1>3. SUFFICES ASSUME b.clientMap = b.map, b.sequence - n <= PACKET_BACKUP
               PROVE  LET f == b.frames[Frame(n)]
                      IN  /\ f.first \in Nat /\ f.num \in Nat /\ f.first + f.num <= b.next
                          /\ f.first > b.next - numSnapshotEntities =>
                               Listed(b.entities, numSnapshotEntities, f.first, f.num)
                                 = Ordered(truth)
  BY DEF Remembers
<1>4. a.clientMap = a.map /\ b.sequence = a.sequence + 1
  BY <1>3 DEF Framed
<1>5. a.sequence - n < PACKET_BACKUP
  BY <1>1, <1>2, <1>3, <1>4
<1> DEFINE f == a.frames[Frame(n)]
<1>6. b.frames[Frame(n)] = f
  <2>1. Frame(n) # Frame(a.sequence)
    BY <1>1, <1>2, <1>5, FramesDiffer
  <2>2. \E x : b.frames = [a.frames EXCEPT ![Frame(a.sequence)] = x]
    BY DEF Framed
  <2> QED
    BY <2>1, <2>2, <1>2, FrameInRing
<1>7. /\ f.first \in Nat /\ f.num \in Nat /\ f.first + f.num <= a.next
      /\ f.first > a.next - numSnapshotEntities =>
           Listed(a.entities, numSnapshotEntities, f.first, f.num) = Ordered(truth)
  BY <1>1, <1>2, <1>4, <1>5 DEF Remembers
<1> HIDE DEF f
<1>8. /\ b.next \in Nat /\ a.next <= b.next
      /\ f.first > b.next - numSnapshotEntities =>
           Listed(b.entities, numSnapshotEntities, f.first, f.num)
             = Listed(a.entities, numSnapshotEntities, f.first, f.num)
  BY <1>7, FramedBefore
<1>9. f.first + f.num <= b.next
  BY <1>2, <1>7, <1>8
<1>10. f.first > b.next - numSnapshotEntities => f.first > a.next - numSnapshotEntities
  BY <1>1, <1>2, <1>7, <1>8
<1> QED
  BY <1>6, <1>7, <1>8, <1>9, <1>10

-----------------------------------------------------------------------------
(* The client's snapshots.                                                 *)

\* A number in the ring of numbers, and those that have the same place.
LEMMA SamePlace ==
    ASSUME NEW size \in Nat \ {0}, NEW n \in Int, NEW x \in 0 .. size - 1, NEW d \in Int,
           n = x + size * d
    PROVE  n % size = x
<1> DEFINE a == n \div size
           r == n % size
<1>1. n = size * a + r /\ a \in Int /\ r \in 0 .. size - 1
  OBVIOUS
<1> HIDE DEF a, r
<1>2. x - r = size * (a - d) /\ a - d \in Int
  <2>1. size * a \in Int /\ size * d \in Int /\ size * (a - d) = size * a - size * d
    BY <1>1
  <2> QED
    BY <1>1, <2>1
<1>3. CASE a - d <= -1
  <2>1. size * (a - d) <= -size
    BY <1>2, <1>3
  <2> QED
    BY <1>1, <1>2, <2>1
<1>4. CASE a - d >= 1
  <2>1. size * (a - d) >= size
    BY <1>2, <1>4
  <2> QED
    BY <1>1, <1>2, <2>1
<1>5. CASE a - d = 0
  <2>1. size * (a - d) = 0
    BY <1>5
  <2> QED
    BY <1>1, <1>2, <2>1 DEF r
<1> QED
  BY <1>2, <1>3, <1>4, <1>5

LEMMA NextRound ==
    ASSUME NEW size \in Nat \ {0}, NEW n \in Int
    PROVE  (n + size) % size = n % size
<1> DEFINE a == n \div size
           r == n % size
<1>1. n = size * a + r /\ a \in Int /\ r \in 0 .. size - 1
  OBVIOUS
<1> HIDE DEF a, r
<1>2. n + size = r + size * (a + 1) /\ a + 1 \in Int /\ n + size \in Int
  <2>1. size * a \in Int /\ size * (a + 1) = size * a + size
    BY <1>1
  <2> QED
    BY <1>1, <2>1
<1>3. (n + size) % size = r
  BY <1>1, <1>2, SamePlace
<1> QED
  BY <1>3 DEF r

\* As many numbers as there are places take all of them.
LEMMA EachPlace ==
    ASSUME NEW size \in Nat \ {0}, NEW num \in Int, NEW x \in 0 .. size - 1
    PROVE  \E n \in num - (size - 1) .. num : n % size = x
<1> DEFINE a == (num - x) \div size
           r == (num - x) % size
           n == num - r
<1>1. num - x = size * a + r /\ a \in Int /\ r \in 0 .. size - 1
  OBVIOUS
<1> HIDE DEF a, r
<1>2. n = x + size * a /\ n \in num - (size - 1) .. num /\ n \in Int
  <2>1. size * a \in Int
    BY <1>1
  <2> QED
    BY <1>1, <2>1
<1> HIDE DEF n
<1>3. n % size = x
  BY <1>1, <1>2, SamePlace
<1> QED
  BY <1>2, <1>3

\* A snapshot a ring older than the new one is replaced, or in the gap before it.
LEMMA GapTaken ==
    ASSUME NEW num \in Nat, NEW last \in Nat, last = cl.snap.messageNum, last < num,
           NEW n \in Nat, n <= last, last - n < PACKET_BACKUP, num - n >= PACKET_BACKUP
    PROVE  Frame(n) = Frame(num) \/ Frame(n) \in Skipped(num)
<1>1. PACKET_BACKUP \in Nat \ {0}
  BY SnapshotAssumption
<1>2. SUFFICES ASSUME Frame(n) # Frame(num) PROVE Frame(n) \in Skipped(num)
  OBVIOUS
<1>3. CASE num - (last + 1) >= PACKET_BACKUP
  <2>1. PICK m \in num - (PACKET_BACKUP - 1) .. num : m % PACKET_BACKUP = Frame(n)
    <3>1. \A i \in Int, x \in 0 .. PACKET_BACKUP - 1 :
            \E m \in i - (PACKET_BACKUP - 1) .. i : m % PACKET_BACKUP = x
      BY <1>1, EachPlace
    <3>2. Frame(n) \in 0 .. PACKET_BACKUP - 1 /\ num \in Int
      BY FrameInRing
    <3> QED
      BY <3>1, <3>2
  <2>2. m \in num - (PACKET_BACKUP - 1) .. num - 1
    BY <1>1, <1>2, <2>1 DEF Frame
  <2>3. Frame(m) = Frame(n)
    BY <2>1 DEF Frame
  <2> QED
    BY <1>3, <2>2, <2>3 DEF Skipped
<1>4. CASE ~(num - (last + 1) >= PACKET_BACKUP)
  <2> DEFINE m == n + PACKET_BACKUP
  <2>1. m % PACKET_BACKUP = n % PACKET_BACKUP
    <3>1. \A i \in Int : (i + PACKET_BACKUP) % PACKET_BACKUP = i % PACKET_BACKUP
      BY <1>1, NextRound
    <3>2. n \in Int
      OBVIOUS
    <3> QED
      BY <3>1, <3>2
  <2>2. Frame(m) = Frame(n)
    BY <2>1 DEF Frame
  <2>3. m \in Nat /\ m # num
    BY <1>1, <1>2, <2>2
  <2>4. m \in last + 1 .. num - 1
    BY <1>1, <2>3
  <2> HIDE DEF m
  <2> QED
    BY <1>4, <2>2, <2>4 DEF Skipped
<1> QED
  BY <1>3, <1>4

\* What was parsed has touched only the first of a list that is too old by then.
LEMMA InBufferTouched ==
    ASSUME NEW s, s.first \in Nat, s.num \in Nat, NEW ring, NEW first \in Nat,
           InBuffer(s, ring, first), NEW p, Touched(p, ring, first)
    PROVE  InBuffer(s, p.ring, p.next)
<1> DEFINE M == MAX_PARSE_ENTITIES
<1>1. M \in Nat \ {0}
  BY SnapshotAssumption
<1>2. /\ p.next \in Nat /\ first <= p.next
      /\ Spared(p.ring, ring, M, first, p.next - first + 1)
      /\ s.first + s.num <= first
      /\ s.first > first - M => Listed(ring, M, s.first, s.num) = Ordered(s.truth)
  BY DEF Touched, InBuffer
<1> HIDE DEF M
<1>3. ASSUME s.first > p.next - M
      PROVE  Listed(p.ring, M, s.first, s.num) = Ordered(s.truth)
  <2>1. s.first > first - M
    BY <1>1, <1>2, <1>3
  <2>2. ASSUME NEW k \in 1 .. s.num
        PROVE  p.ring[(s.first + k - 1) % M] = ring[(s.first + k - 1) % M]
    <3> DEFINE i == s.first + k - 1
    <3>1. i \in Int /\ i < first /\ first + (p.next - first + 1) - i <= M
      BY <1>1, <1>2, <1>3
    <3> HIDE DEF i
    <3>2. p.ring[i % M] = ring[i % M]
      BY ONLY <1>2, <3>1 DEF Spared
    <3> QED
      BY <3>2 DEF i
  <2>3. Listed(p.ring, M, s.first, s.num) = Listed(ring, M, s.first, s.num)
    BY <2>2 DEF Listed
  <2> QED
    BY <1>2, <2>1, <2>3
<1>4. s.first + s.num <= p.next
  BY <1>2
<1> QED
  BY <1>3, <1>4 DEF InBuffer, M

LEMMA KeptIs ==
    ASSUME NEW snap, NEW x \in DOMAIN snapshots
    PROVE  \/ x = Frame(snap.messageNum) /\ Kept(snap)[x] = snap
           \/ /\ x # Frame(snap.messageNum) /\ x \in Skipped(snap.messageNum)
              /\ Kept(snap)[x] = [snapshots[x] EXCEPT !.valid = FALSE]
           \/ /\ x # Frame(snap.messageNum) /\ x \notin Skipped(snap.messageNum)
              /\ Kept(snap)[x] = snapshots[x]
BY DEF Kept

\* The snapshots that the new one does not replace.
LEMMA StandsKept ==
    ASSUME NEW snap, NEW num \in Nat, num = snap.messageNum, NEW last \in Nat,
           last = cl.snap.messageNum, last < num, NEW x \in DOMAIN snapshots,
           NEW ring, NEW first \in Nat, NEW mem,
           Stands(snapshots[x], x, last, ring, first, mem),
           NEW p, Touched(p, ring, first), x # Frame(num)
    PROVE  Stands(Kept(snap)[x], x, num, p.ring, p.next, mem)
<1> DEFINE s == snapshots[x]
           f == [s EXCEPT !.valid = FALSE]
<1>1. /\ s = [valid |-> s.valid, messageNum |-> s.messageNum, first |-> s.first,
              num |-> s.num, truth |-> s.truth, map |-> s.map]
      /\ s.first \in Nat /\ s.num \in Nat
  BY DEF Stands
<1>2. f = [s EXCEPT !.valid = FALSE]
  OBVIOUS
<1> HIDE DEF s, f
<1>3. f = [valid |-> FALSE, messageNum |-> s.messageNum, first |-> s.first,
           num |-> s.num, truth |-> s.truth, map |-> s.map]
  BY <1>1, <1>2
<1>4. CASE x \in Skipped(num) /\ Kept(snap)[x] = [s EXCEPT !.valid = FALSE]
  <2>1. Kept(snap)[x] = f
    BY <1>2, <1>4
  <2> QED
    BY <1>1, <1>3, <2>1 DEF Stands
<1>5. CASE x \notin Skipped(num) /\ Kept(snap)[x] = s
  <2> SUFFICES ASSUME s.valid
               PROVE  /\ InPlace(s, x, num)
                      /\ s.truth \in Worlds
                      /\ InBuffer(s, p.ring, p.next)
                      /\ Remembers(s.messageNum, s.truth, mem)
    BY <1>1, <1>5 DEF Stands
  <2>1. /\ InPlace(s, x, last)
        /\ s.truth \in Worlds
        /\ InBuffer(s, ring, first)
        /\ Remembers(s.messageNum, s.truth, mem)
    BY DEF Stands, s
  <2>2. InBuffer(s, p.ring, p.next)
    BY <1>1, <2>1, InBufferTouched
  <2>3. /\ s.messageNum \in Nat /\ Frame(s.messageNum) = x
        /\ s.messageNum <= last /\ last - s.messageNum < PACKET_BACKUP
    BY <2>1 DEF InPlace
  <2>4. num - s.messageNum < PACKET_BACKUP
    <3> SUFFICES ASSUME ~(num - s.messageNum < PACKET_BACKUP) PROVE FALSE
      OBVIOUS
    <3>1. num - s.messageNum >= PACKET_BACKUP
      BY <2>3, SnapshotAssumption
    <3>2. x = Frame(num) \/ x \in Skipped(num)
      BY <2>3, <3>1, GapTaken
    <3> QED
      BY <1>5, <3>2
  <2>5. InPlace(s, x, num)
    BY <2>3, <2>4 DEF InPlace
  <2> QED
    BY <2>1, <2>2, <2>5
<1> QED
  BY <1>4, <1>5, KeptIs DEF s

-----------------------------------------------------------------------------
(* The client parses a snapshot.                                           *)

\* No more entities are new at once than the margin of the client's buffer, which is
\* what it is for; nothing in the code enforces it.
FewNew ==
    /\ Margin # 0
    /\ \A v, w \in Views : Cardinality(DOMAIN v.world \ DOMAIN w.world) <= Margin

Source(m) == IF m.delta = 0 THEN NoSnap ELSE snapshots[Frame(m.num - m.delta)]

Judged(m) == IF m.delta = 0 THEN "valid" ELSE Verdict(Source(m), m.num - m.delta)

Parsed(m) == CL_ParsePacketEntities(Source(m), m.entities)

NewSnap(m) ==
    [valid |-> TRUE, messageNum |-> m.num, first |-> cl.parseEntitiesNum,
     num |-> Parsed(m).next - cl.parseEntitiesNum, truth |-> m.truth, map |-> m.map]

LEMMA ParsedSnapshotIs ==
    ASSUME IInv, NEW k \in DOMAIN toClient, CL_ParseSnapshot(toClient[k])
    PROVE  LET m == toClient[k]
           IN  /\ m.type = "snapshot"
               /\ cl'.parseEntitiesNum = Parsed(m).next /\ parseEntities' = Parsed(m).ring
               /\ cl'.map = cl.map
               /\ \/ Judged(m) = "valid" /\ cl'.snap = NewSnap(m) /\ snapshots' = Kept(cl'.snap)
                  \/ cl'.snap = cl.snap /\ snapshots' = snapshots
<1> DEFINE m == toClient[k]
<1>1. cl = [serverId |-> cl.serverId, map |-> cl.map, snap |-> cl.snap,
            parseEntitiesNum |-> cl.parseEntitiesNum, sequence |-> cl.sequence]
  BY DEF IInv, Shapes
<1>2. /\ m.type = "snapshot"
      /\ parseEntities' = Parsed(m).ring
      /\ cl' = [cl EXCEPT !.sequence = m.num, !.parseEntitiesNum = Parsed(m).next,
                          !.serverId = m.id,
                          !.snap = IF Judged(m) = "valid" THEN NewSnap(m) ELSE cl.snap]
      /\ snapshots' = IF Judged(m) = "valid" THEN Kept(NewSnap(m)) ELSE snapshots
  BY DEF CL_ParseSnapshot, Parsed, Source, Judged, NewSnap
<1> HIDE DEF m
<1>3. /\ cl'.parseEntitiesNum = Parsed(m).next /\ cl'.map = cl.map
      /\ cl'.snap = IF Judged(m) = "valid" THEN NewSnap(m) ELSE cl.snap
  BY <1>1, <1>2
<1> QED
  BY <1>2, <1>3 DEF m

\* The delta is merged with the list it was made from.
Prepared(m, e) ==
    /\ e.old = Source(m) /\ e.to = m.truth /\ e.first = cl.parseEntitiesNum
    /\ m.entities = Delta(e) /\ m.truth \in Worlds
    /\ Comparable(e) /\ e.old.num \in Nat
    /\ Judged(m) = "valid" => Room(e) /\ Unread(e, parseEntities, 0)

LEMMA SourceFull ==
    ASSUME SnapInv, NEW m, m.type = "snapshot", m.delta = 0,
           Built(m, cl.snap.messageNum, snapshots, Memory)
    PROVE  \E e : Prepared(m, e)
<1> DEFINE e == [old |-> NoSnap, from |-> <<>>, to |-> m.truth, first |-> cl.parseEntitiesNum]
<1>1. /\ e.old = NoSnap /\ e.from = <<>> /\ e.to = m.truth /\ e.first = cl.parseEntitiesNum
  OBVIOUS
<1> HIDE DEF e
<1>2. m.truth \in Worlds /\ m.entities = Emitted(<<>>, m.truth)
  BY DEF Built
<1>3. Source(m) = NoSnap /\ NoSnap.num = 0 /\ NoSnap.first = 0
  BY DEF Source, NoSnap
<1>4. DOMAIN e.from = {}
  BY <1>1
<1>5. Comparable(e)
  <2>1. DOMAIN m.truth \subseteq 0 .. 1022
    <3>1. m.truth \in Worlds
      BY <1>2
    <3> QED
      BY <3>1, WorldFacts
  <2>2. e.to = m.truth
    BY <1>1
  <2> QED
    BY <1>4, <2>1, <2>2 DEF Comparable
<1>6. Len(OldList(e)) = 0
  <2>1. InOrderOf(e)
    BY <1>5, Listings
  <2> QED
    BY <2>1, <1>4, FS_EmptySet DEF InOrderOf, Listing
<1>7. Room(e)
  BY <1>1, <1>3, <1>6 DEF Room, SnapInv, Sizes
<1>8. Unread(e, parseEntities, 0)
  BY <1>6 DEF Unread
<1>9. m.entities = Delta(e)
  BY <1>1, <1>2 DEF Delta
<1> QED
  BY <1>1, <1>2, <1>3, <1>5, <1>7, <1>8, <1>9 DEF Prepared

LEMMA SourceDelta ==
    ASSUME FewNew, IInv, DeltaInv, SnapInv, NEW m, m.type = "snapshot", m.delta # 0,
           OnItsWay(m, sv, client, cl, snapshots),
           Built(m, cl.snap.messageNum, snapshots, Memory)
    PROVE  \E e : Prepared(m, e)
<1> DEFINE n == m.num - m.delta
           old == snapshots[Frame(n)]
           e == [old |-> old, from |-> old.truth, to |-> m.truth, first |-> cl.parseEntitiesNum]
           M == MAX_PARSE_ENTITIES
<1>1. /\ e.old = old /\ e.from = old.truth /\ e.to = m.truth /\ e.first = cl.parseEntitiesNum
  OBVIOUS
<1> HIDE DEF e
<1>2. /\ Held(cl.snap.messageNum, snapshots, n)
      /\ cl.snap.messageNum \in Nat /\ cl.snap.messageNum < m.num
      /\ m.num \in Nat /\ m.delta \in Nat /\ m.delta < PACKET_BACKUP
  BY DEF OnItsWay, DeltaInv, Numbered
<1>3. PACKET_BACKUP \in Nat /\ M \in Nat \ {0} /\ Margin \in Nat \ {0}
  BY SnapshotAssumption DEF FewNew
<1>4. cl.snap.messageNum - n < PACKET_BACKUP
  BY <1>2, <1>3
<1>5. old.valid /\ n \in Nat
  BY <1>2, <1>4 DEF Held
<1>6. m.truth \in Worlds /\ m.entities = Emitted(old.truth, m.truth)
  BY <1>4 DEF Built
<1> HIDE DEF n
<1>7. Stands(old, Frame(n), cl.snap.messageNum, parseEntities, cl.parseEntitiesNum, Memory)
  BY <1>5, FrameInRing DEF SnapInv
<1> HIDE DEF old
<1>8. /\ old.first \in Nat /\ old.num \in Nat /\ old.truth \in Worlds
      /\ old.first + old.num <= cl.parseEntitiesNum
      /\ old.first > cl.parseEntitiesNum - M =>
           Listed(parseEntities, M, old.first, old.num) = Ordered(old.truth)
  BY <1>5, <1>7 DEF Stands, InBuffer
<1>9. Comparable(e)
  <2>1. DOMAIN m.truth \subseteq 0 .. 1022 /\ DOMAIN old.truth \subseteq 0 .. 1022
    <3> DEFINE v == m.truth
               w == old.truth
    <3>1. v \in Worlds /\ w \in Worlds
      BY <1>6, <1>8
    <3> HIDE DEF v, w
    <3>2. DOMAIN v \subseteq 0 .. 1022
      BY <3>1, WorldFacts
    <3>3. DOMAIN w \subseteq 0 .. 1022
      BY <3>1, WorldFacts
    <3> QED
      BY <3>2, <3>3 DEF v, w
  <2> QED
    BY <1>1, <2>1 DEF Comparable
<1>10. ASSUME Judged(m) = "valid" PROVE Room(e) /\ Unread(e, parseEntities, 0)
  <2>1. cl.parseEntitiesNum - old.first <= M - Margin
    <3>1. Verdict(old, n) = "valid"
      BY <1>10 DEF Judged, Source, old, n
    <3>2. ~(cl.parseEntitiesNum - old.first > M - Margin)
      BY <3>1 DEF Verdict
    <3>3. cl.parseEntitiesNum \in Nat
      BY DEF SnapInv, Sizes
    <3> HIDE DEF M
    <3> QED
      BY <1>3, <1>8, <3>2, <3>3
  <2>2. Listed(parseEntities, M, old.first, old.num) = Ordered(old.truth)
    <3>1. cl.parseEntitiesNum \in Nat
      BY DEF SnapInv, Sizes
    <3> HIDE DEF M
    <3>2. old.first > cl.parseEntitiesNum - M
      BY <1>3, <1>8, <2>1, <3>1
    <3> QED
      BY <1>8, <3>2
  <2>3. ListOf(Ordered(old.truth), OldList(e), old.truth)
    BY <1>1, <1>8, OrderedIs DEF OldList
  <2>4. /\ Ordered(old.truth) = [j \in 1 .. Len(OldList(e)) |->
                                   [number |-> OldList(e)[j], state |-> old.truth[OldList(e)[j]]]]
        /\ Len(OldList(e)) \in Nat
    BY <2>3 DEF ListOf, Listing
  <2>5. /\ DOMAIN Listed(parseEntities, M, old.first, old.num) = 1 .. old.num
        /\ \A j \in 1 .. old.num :
             Listed(parseEntities, M, old.first, old.num)[j] = parseEntities[(old.first + j - 1) % M]
    BY DEF Listed
  <2>6. old.num = Len(OldList(e))
    <3>1. 1 .. old.num = 1 .. Len(OldList(e))
      BY <2>2, <2>4, <2>5
    <3> QED
      BY <1>8, <2>4, <3>1
  <2>7. Unread(e, parseEntities, 0)
    <3> SUFFICES ASSUME NEW j \in 1 .. Len(OldList(e))
                 PROVE  parseEntities[(old.first + j - 1) % M] = Item(OldList(e), old.truth, j)
      BY <1>1 DEF Unread
    <3>1. Ordered(old.truth)[j] = Item(OldList(e), old.truth, j)
      BY <2>4 DEF Item
    <3>2. Ordered(old.truth)[j] = parseEntities[(old.first + j - 1) % M]
      BY <2>2, <2>5, <2>6
    <3> QED
      BY <3>1, <3>2
  <2>8. Cardinality(DOMAIN m.truth \ DOMAIN old.truth) <= Margin
    BY <1>6, <1>8 DEF FewNew, Worlds
  <2>9. Room(e)
    <3>1. cl.parseEntitiesNum \in Nat
      BY DEF SnapInv, Sizes
    <3> QED
      BY <1>1, <1>8, <2>1, <2>6, <2>8, <3>1 DEF Room
  <2> QED
    BY <2>7, <2>9
<1>11. Source(m) = old /\ m.entities = Delta(e)
  BY <1>1, <1>6 DEF Source, Delta, old, n
<1> QED
  BY <1>1, <1>6, <1>8, <1>9, <1>10, <1>11 DEF Prepared

\* What was parsed, and the entities of the snapshot when its delta could be used.
LEMMA ParsedIsRight ==
    ASSUME SnapInv, NEW m, NEW e, Prepared(m, e)
    PROVE  /\ Touched(Parsed(m), parseEntities, cl.parseEntitiesNum)
           /\ Judged(m) = "valid" => InBuffer(NewSnap(m), Parsed(m).ring, Parsed(m).next)
           /\ NewSnap(m).num \in Nat
<1> DEFINE M == MAX_PARSE_ENTITIES
           s == Parsed(m)
           first == cl.parseEntitiesNum
           q == NewList(e)
<1>1. /\ e.old = Source(m) /\ e.to = m.truth /\ e.first = first
      /\ m.entities = Delta(e) /\ m.truth \in Worlds
      /\ Comparable(e) /\ e.old.num \in Nat
      /\ Judged(m) = "valid" => Room(e) /\ Unread(e, parseEntities, 0)
  BY DEF Prepared
<1>2. s = CL_ParsePacketEntities(e.old, Delta(e))
  BY <1>1 DEF Parsed
<1>3. first \in Nat /\ Places(parseEntities, M) /\ M \in Nat \ {0}
  BY SnapshotAssumption DEF SnapInv, Sizes
<1>4. Len(DeltaList(e)) \in Nat /\ Len(q) \in Nat
  <2>1. InOrderOf(e)
    BY <1>1, Listings
  <2>2. Len(DeltaList(e)) \in Nat
    BY <2>1 DEF InOrderOf, Listing
  <2>3. Len(NewList(e)) \in Nat
    BY <2>1 DEF InOrderOf, Listing
  <2> QED
    BY <2>2, <2>3
<1>5. Touched(s, parseEntities, first)
  <2> DEFINE n == e.old.num + Len(Numbers(Delta(e)))
  <2>1. n \in Nat
    BY <1>1, <1>4 DEF DeltaList
  <2> HIDE DEF s, M, first
  <2>2. n = e.old.num + Len(Numbers(Delta(e)))
    OBVIOUS
  <2> HIDE DEF n
  <2>3. Touched(CL_ParsePacketEntities(e.old, Delta(e)), parseEntities, cl.parseEntitiesNum)
    BY <1>3, <2>1, <2>2, ParsedTouches DEF M, first
  <2> QED
    BY <1>2, <2>3 DEF first
<1>6. s.next \in Nat /\ first <= s.next
  BY <1>5 DEF Touched
<1>7. NewSnap(m).first = first /\ NewSnap(m).num = s.next - first /\ NewSnap(m).truth = m.truth
  BY DEF NewSnap
<1> HIDE DEF s, first, M
<1>8. ASSUME Judged(m) = "valid" PROVE InBuffer(NewSnap(m), s.ring, s.next)
  <2>1. s.next = e.first + Len(q) /\ Written(e, s.ring, Len(q))
    <3>1. Room(e) /\ Unread(e, parseEntities, 0)
      BY <1>1, <1>8
    <3>2. LET p == CL_ParsePacketEntities(e.old, Delta(e))
          IN  /\ p.next = e.first + Len(NewList(e))
              /\ Written(e, p.ring, Len(NewList(e)))
      BY <1>1, <1>3, <3>1, ParsedList DEF first, M
    <3> QED
      BY <1>2, <3>2
  <2>2. NewSnap(m).num = Len(q)
    <3> HIDE DEF q
    <3> QED
      BY <1>1, <1>3, <1>4, <1>6, <1>7, <2>1
  <2>3. ASSUME first > s.next - M
        PROVE  Listed(s.ring, M, first, Len(q)) = Ordered(m.truth)
    <3>1. Len(q) < M
      <4> HIDE DEF q
      <4> QED
        BY <1>1, <1>3, <1>4, <2>1, <2>3
    <3>2. \A j \in 1 .. Len(q) : s.ring[(first + j - 1) % M] = Item(q, m.truth, j)
      BY <1>1, <2>1, <3>1 DEF Written, M
    <3>3. ListOf(Ordered(m.truth), q, m.truth)
      BY <1>1, OrderedIs DEF NewList
    <3>4. Ordered(m.truth) = [j \in 1 .. Len(q) |-> [number |-> q[j], state |-> m.truth[q[j]]]]
      BY <3>3 DEF ListOf
    <3> HIDE DEF q
    <3>5. Listed(s.ring, M, first, Len(q)) = [j \in 1 .. Len(q) |-> Item(q, m.truth, j)]
      BY <3>2 DEF Listed
    <3> QED
      BY <3>4, <3>5 DEF Item
  <2>4. NewSnap(m).first + NewSnap(m).num <= s.next
    BY <1>3, <1>6, <1>7
  <2> QED
    BY <1>7, <2>2, <2>3, <2>4 DEF InBuffer, M
<1>9. NewSnap(m).num \in Nat
  BY <1>3, <1>6, <1>7
<1> QED
  BY <1>5, <1>8, <1>9 DEF s, first

-----------------------------------------------------------------------------
(* The server's steps keep what the client needs.                          *)

\* What is remembered before is remembered after.
Carries(a, b) ==
    \A n \in Nat : \A truth : n < a.sequence /\ Remembers(n, truth, a) => Remembers(n, truth, b)

LEMMA SameCarries ==
    ASSUME NEW a, NEW b, SameMemory(a, b) \/ b.clientMap # b.map
    PROVE  Carries(a, b)
BY RemembersSame, RemembersOther DEF Carries

LEMMA FramedCarries ==
    ASSUME NEW a, MemoryOK(a), NEW world \in Worlds, NEW others \in Nat, NEW b,
           Framed(a, b, world, others)
    PROVE  Carries(a, b)
BY RemembersOld DEF Carries

LEMMA Carried ==
    ASSUME IInv, DeltaInv, SnapInv, NEW b, Carries(Memory, b)
    PROVE  /\ \A i \in 1 .. Len(toClient) :
                Built(toClient[i], cl.snap.messageNum, snapshots, b)
           /\ \A x \in 0 .. PACKET_BACKUP - 1 :
                Stands(snapshots[x], x, cl.snap.messageNum, parseEntities,
                       cl.parseEntitiesNum, b)
<1>1. /\ Memory.sequence = client.outgoingSequence /\ client.outgoingSequence \in Nat
      /\ cl.snap.messageNum \in Nat /\ cl.snap.messageNum < client.outgoingSequence
  BY MemoryIs DEF DeltaInv, Numbered
<1>2. ASSUME NEW i \in 1 .. Len(toClient)
      PROVE  Built(toClient[i], cl.snap.messageNum, snapshots, b)
  <2> DEFINE m == toClient[i]
  <2>1. Built(m, cl.snap.messageNum, snapshots, Memory)
    BY DEF SnapInv
  <2>2. m.num \in Nat /\ m.num < client.outgoingSequence
    BY DEF DeltaInv, OnItsWay
  <2> HIDE DEF m
  <2>3. Remembers(m.num, m.truth, Memory) => Remembers(m.num, m.truth, b)
    BY <1>1, <2>2 DEF Carries
  <2> QED
    BY <2>1, <2>3 DEF Built, m
<1>3. ASSUME NEW x \in 0 .. PACKET_BACKUP - 1
      PROVE  Stands(snapshots[x], x, cl.snap.messageNum, parseEntities,
                    cl.parseEntitiesNum, b)
  <2> DEFINE s == snapshots[x]
  <2>1. Stands(s, x, cl.snap.messageNum, parseEntities, cl.parseEntitiesNum, Memory)
    BY DEF SnapInv
  <2> HIDE DEF s
  <2>2. s.valid => s.messageNum \in Nat /\ s.messageNum <= cl.snap.messageNum
    BY <2>1 DEF Stands, InPlace
  <2>3. s.valid /\ Remembers(s.messageNum, s.truth, Memory) => Remembers(s.messageNum, s.truth, b)
    BY <1>1, <2>2 DEF Carries
  <2> QED
    BY <2>1, <2>3 DEF Stands, s
<1> QED
  BY <1>2, <1>3

\* Steps that send no snapshot and parse none.
LEMMA SnapSame ==
    ASSUME IInv, DeltaInv, SnapInv, Sizes',
           SameMemory(Memory, Memory') \/ Memory'.clientMap # Memory'.map,
           cl'.snap = cl.snap, cl'.parseEntitiesNum = cl.parseEntitiesNum,
           UNCHANGED <<snapshots, parseEntities>>,
           \A i \in 1 .. Len(toClient') :
              \/ toClient'[i].type # "snapshot"
              \/ \E a \in 1 .. Len(toClient) : toClient'[i] = toClient[a]
    PROVE  SnapInv'
<1>1. Carries(Memory, Memory')
  BY SameCarries
<1>2. /\ \A i \in 1 .. Len(toClient) :
           Built(toClient[i], cl.snap.messageNum, snapshots, Memory')
      /\ \A x \in 0 .. PACKET_BACKUP - 1 :
           Stands(snapshots[x], x, cl.snap.messageNum, parseEntities,
                  cl.parseEntitiesNum, Memory')
  BY <1>1, Carried
<1>3. \A i \in 1 .. Len(toClient') :
        Built(toClient'[i], cl'.snap.messageNum, snapshots', Memory')
  <2> SUFFICES ASSUME NEW i \in 1 .. Len(toClient')
               PROVE  Built(toClient'[i], cl'.snap.messageNum, snapshots', Memory')
    OBVIOUS
  <2>1. CASE toClient'[i].type # "snapshot"
    BY <2>1 DEF Built
  <2>2. CASE \E a \in 1 .. Len(toClient) : toClient'[i] = toClient[a]
    <3>1. PICK a \in 1 .. Len(toClient) : toClient'[i] = toClient[a]
      BY <2>2
    <3>2. Built(toClient[a], cl.snap.messageNum, snapshots, Memory')
      BY <1>2
    <3> QED
      BY <3>1, <3>2
  <2> QED
    BY <2>1, <2>2
<1>4. \A x \in 0 .. PACKET_BACKUP - 1 :
        Stands(snapshots'[x], x, cl'.snap.messageNum, parseEntities',
               cl'.parseEntitiesNum, Memory')
  BY <1>2
<1> QED
  BY <1>3, <1>4 DEF SnapInv

\* The message of a snapshot.
IsSnapshot(m, world, next, entities) ==
    LET source == DeltaSource(next)
        old == frames[Frame(source)]
    IN  /\ m.type = "snapshot" /\ m.num = client.outgoingSequence /\ m.truth = world
        /\ m.delta = IF source = 0 THEN 0 ELSE client.outgoingSequence - source
        /\ m.entities = Emitted(IF source = 0 THEN <<>>
                                ELSE World(Listed(entities, numSnapshotEntities,
                                                  old.first, old.num)),
                                world)

LEMMA SnapshotSent ==
    ASSUME IInv, NEW world, NEW others, SV_SendClientSnapshot(world, others)
    PROVE  /\ Framed(Memory, Memory', world, others)
           /\ \E m : /\ toClient' = Sent(toClient, m)
                     /\ \/ m.type = "nop"
                        \/ IsSnapshot(m, world, Memory'.next, Memory'.entities)
<1> DEFINE number == client.outgoingSequence
           frame == [first |-> sv.next + others, num |-> Cardinality(DOMAIN world)]
           ring == Stored(snapshotEntities, numSnapshotEntities, sv.next,
                          [i \in 1 .. others |-> NoEntity] \o Ordered(world))
           next == frame.first + frame.num
           source == DeltaSource(next)
           old == frames[Frame(source)]
           from == IF source = 0 THEN <<>>
                   ELSE World(Listed(ring, numSnapshotEntities, old.first, old.num))
           snap == [type |-> "snapshot", num |-> number, id |-> sv.serverId, map |-> sv.map,
                    delta |-> IF source = 0 THEN 0 ELSE number - source,
                    entities |-> Emitted(from, world), truth |-> world]
           nop == [type |-> "nop", num |-> number]
<1>1. /\ frames' = [frames EXCEPT ![Frame(number)] = frame]
      /\ snapshotEntities' = ring
      /\ sv' = [sv EXCEPT !.next = next]
      /\ client' = [client EXCEPT !.outgoingSequence = number + 1]
      /\ toClient' = Sent(toClient, IF Acknowledged THEN snap ELSE nop)
      /\ cl' = cl
  BY DEF SV_SendClientSnapshot
<1>2. /\ snap.type = "snapshot" /\ snap.num = number /\ snap.truth = world
      /\ snap.delta = IF source = 0 THEN 0 ELSE number - source
      /\ snap.entities = Emitted(from, world)
  OBVIOUS
<1>3. nop.type = "nop"
  OBVIOUS
<1> HIDE DEF snap, nop, ring, next, frame
<1>4. sv'.next = next /\ sv'.map = sv.map
  BY <1>1 DEF IInv, Shapes
<1>5. client'.outgoingSequence = number + 1
  BY <1>1 DEF IInv, Shapes
<1>6. Framed(Memory, Memory', world, others)
  BY <1>1, <1>4, <1>5, MemoryIs, MemoryAfter DEF Framed, frame, next, ring
<1>7. Memory'.next = next /\ Memory'.entities = ring
  BY <1>1, <1>4, MemoryAfter
<1>8. IsSnapshot(snap, world, next, ring)
  BY <1>2 DEF IsSnapshot
<1>9. \/ toClient' = Sent(toClient, snap)
      \/ toClient' = Sent(toClient, nop)
  BY <1>1
<1> QED
  BY <1>3, <1>6, <1>7, <1>8, <1>9

\* The server writes the changes of what the client has: the frame it makes the delta
\* from is remembered, and has not rolled off.
LEMMA SnapshotBuilt ==
    ASSUME IInv, DeltaInv, SnapInv, NEW world \in Worlds, NEW others \in Nat, NEW b,
           Framed(Memory, b, world, others), NEW m, IsSnapshot(m, world, b.next, b.entities)
    PROVE  Built(m, cl.snap.messageNum, snapshots, b)
<1> DEFINE source == DeltaSource(b.next)
           f == frames[Frame(source)]
           last == cl.snap.messageNum
           number == client.outgoingSequence
<1>1. /\ m.type = "snapshot" /\ m.num = number /\ m.truth = world
      /\ m.delta = IF source = 0 THEN 0 ELSE number - source
      /\ m.entities = Emitted(IF source = 0 THEN <<>>
                              ELSE World(Listed(b.entities, numSnapshotEntities,
                                                f.first, f.num)),
                              world)
  BY DEF IsSnapshot
<1>2. MemoryOK(Memory)
  BY MemoryIs DEF MemoryOK, SnapInv, Sizes, DeltaInv, Numbered
<1>3. Remembers(m.num, m.truth, b)
  BY <1>1, <1>2, MemoryIs, RemembersNew
<1>4. number \in Nat /\ last \in Nat
  BY DEF DeltaInv, Numbered
<1>5. ASSUME m.delta = 0 PROVE m.entities = Emitted(<<>>, m.truth)
  <2>1. source = 0
    <3> SUFFICES ASSUME source # 0 PROVE FALSE
      OBVIOUS
    <3>1. source \in Nat /\ source < number
      BY SourceHeld DEF Held
    <3> HIDE DEF source
    <3> QED
      BY <1>1, <1>4, <1>5, <3>1
  <2> QED
    BY <1>1, <2>1
<1>6. ASSUME m.delta # 0, last - (m.num - m.delta) < PACKET_BACKUP
      PROVE  m.entities = Emitted(snapshots[Frame(m.num - m.delta)].truth, m.truth)
  <2>1. source # 0 /\ m.delta = number - source
    BY <1>1, <1>6
  <2>2. /\ Held(last, snapshots, source) /\ cl.map = sv.map
        /\ source < number /\ number - source < PACKET_BACKUP /\ source \in Nat
    BY <2>1, SourceHeld DEF Held
  <2>a. ~(f.first <= b.next - numSnapshotEntities)
    <3>1. /\ source = client.deltaMessage
          /\ ~(frames[Frame(client.deltaMessage)].first <= b.next - numSnapshotEntities)
      BY <2>1 DEF DeltaSource
    <3> QED
      BY <3>1
  <2> HIDE DEF source, f
  <2>3. m.num - m.delta = source
    BY <1>1, <1>4, <2>1, <2>2
  <2> DEFINE s == snapshots[Frame(source)]
  <2>4. s.valid /\ s.messageNum = source
    BY <1>6, <2>2, <2>3 DEF Held
  <2>5. Stands(s, Frame(source), last, parseEntities, cl.parseEntitiesNum, Memory)
    BY <2>2, FrameInRing DEF SnapInv
  <2> HIDE DEF s
  <2>6. s.truth \in Worlds /\ Remembers(source, s.truth, Memory)
    BY <2>4, <2>5 DEF Stands
  <2>7. /\ f.first \in Nat /\ f.num \in Nat /\ f.first + f.num <= sv.next
        /\ f.first > sv.next - numSnapshotEntities =>
             Listed(snapshotEntities, numSnapshotEntities, f.first, f.num) = Ordered(s.truth)
    <3>1. PACKET_BACKUP \in Nat
      BY SnapshotAssumption
    <3>2. number - source <= PACKET_BACKUP
      BY <1>4, <2>2, <3>1
    <3> QED
      BY <2>2, <2>6, <3>2, MemoryIs DEF Remembers, f
  <2>8. /\ b.next \in Nat /\ sv.next <= b.next
        /\ f.first > b.next - numSnapshotEntities =>
             Listed(b.entities, numSnapshotEntities, f.first, f.num)
               = Listed(snapshotEntities, numSnapshotEntities, f.first, f.num)
    BY <1>2, <2>7, MemoryIs, FramedBefore
  <2>9. f.first > b.next - numSnapshotEntities /\ f.first > sv.next - numSnapshotEntities
    <3>1. numSnapshotEntities \in Nat /\ sv.next \in Nat
      BY SnapshotAssumption DEF SnapInv, Sizes
    <3> QED
      BY <2>7, <2>8, <2>a, <3>1
  <2>10. World(Listed(b.entities, numSnapshotEntities, f.first, f.num)) = s.truth
    BY <2>6, <2>7, <2>8, <2>9, WorldOrdered
  <2> QED
    BY <1>1, <2>1, <2>3, <2>10 DEF s
<1> QED
  BY <1>1, <1>3, <1>5, <1>6 DEF Built

LEMMA SnapSendStep ==
    ASSUME IInv, DeltaInv, SnapInv, NEW world \in Worlds, NEW others \in Nat,
           SV_SendClientSnapshot(world, others)
    PROVE  SnapInv'
<1>1. UNCHANGED <<cl, snapshots, parseEntities>>
  BY DEF SV_SendClientSnapshot
<1>2. Framed(Memory, Memory', world, others)
  BY SnapshotSent
<1>3. PICK m : /\ toClient' = Sent(toClient, m)
               /\ \/ m.type = "nop"
                  \/ IsSnapshot(m, world, Memory'.next, Memory'.entities)
  BY SnapshotSent
<1>4. MemoryOK(Memory)
  BY MemoryIs DEF MemoryOK, SnapInv, Sizes, DeltaInv, Numbered
<1>5. Carries(Memory, Memory')
  BY <1>2, <1>4, FramedCarries
<1>6. /\ \A i \in 1 .. Len(toClient) :
           Built(toClient[i], cl.snap.messageNum, snapshots, Memory')
      /\ \A x \in 0 .. PACKET_BACKUP - 1 :
           Stands(snapshots[x], x, cl.snap.messageNum, parseEntities,
                  cl.parseEntitiesNum, Memory')
  BY <1>5, Carried
<1>7. Built(m, cl.snap.messageNum, snapshots, Memory')
  <2>1. CASE m.type = "nop"
    BY <2>1 DEF Built
  <2>2. CASE IsSnapshot(m, world, Memory'.next, Memory'.entities)
    BY <1>2, <2>2, SnapshotBuilt
  <2> QED
    BY <1>3, <2>1, <2>2
<1>8. \A i \in 1 .. Len(toClient') :
        Built(toClient'[i], cl'.snap.messageNum, snapshots', Memory')
  <2>1. PICK S : toClient \in Seq(S)
    BY DEF IInv, Shapes
  <2>2. OneMore(toClient, m, toClient')
    BY <1>3, <2>1, SentEach
  <2> QED
    BY <1>1, <1>6, <1>7, <2>2 DEF OneMore
<1>9. Sizes'
  <2>1. Memory'.next \in Nat
    <3>1. Cardinality(DOMAIN world) \in Nat
      BY FramedLists
    <3>2. Memory.next \in Nat /\ Memory'.next = Memory.next + others + Cardinality(DOMAIN world)
      BY <1>2, <1>4 DEF Framed, MemoryOK
    <3> QED
      BY <3>1, <3>2
  <2>2. DOMAIN frames' = DOMAIN frames /\ DOMAIN snapshotEntities' = DOMAIN snapshotEntities
    BY DEF SV_SendClientSnapshot, Stored
  <2> QED
    BY <1>1, <2>1, <2>2, MemoryAfter DEF SnapInv, Sizes, Places
<1> QED
  BY <1>1, <1>6, <1>8, <1>9 DEF SnapInv

\* A new map is not the one the client has, and a restart changes neither.
LEMMA SnapLevelStep ==
    ASSUME IInv, DeltaInv, SnapInv, SV_SpawnServer \/ SV_Restart
    PROVE  SnapInv'
<1>1. /\ UNCHANGED <<cl, snapshots, parseEntities, toClient, frames>>
      /\ Sizes
  BY DEF SV_SpawnServer, SV_Restart, SnapInv
<1>2. ASSUME Sizes', SameMemory(Memory, Memory') \/ Memory'.clientMap # Memory'.map
      PROVE  SnapInv'
  BY <1>1, <1>2, SnapSame
<1>3. CASE SV_SpawnServer
  <2>1. /\ sv' = [serverId |-> sv.serverId + 1, restartedServerId |-> sv.serverId + 1,
                  map |-> sv.map + 1, next |-> 0]
        /\ snapshotEntities' = [n \in DOMAIN snapshotEntities |-> NoEntity]
    BY <1>3 DEF SV_SpawnServer
  <2>2. sv'.next = 0 /\ sv'.map = sv.map + 1
    BY <2>1
  <2>3. DOMAIN snapshotEntities' = DOMAIN snapshotEntities
    BY <2>1
  <2>4. sv.map \in Nat /\ cl.map \in Nat /\ cl.map <= sv.map
    BY DEF IInv, ServerOK
  <2>5. Memory'.clientMap # Memory'.map
    BY <1>1, <2>2, <2>4, MemoryAfter
  <2>6. Sizes'
    BY <1>1, <2>2, <2>3 DEF Sizes, Places
  <2> QED
    BY <1>2, <2>5, <2>6
<1>4. CASE SV_Restart
  <2>1. /\ sv' = [sv EXCEPT !.serverId = sv.serverId + 1, !.restartedServerId = sv.serverId]
        /\ client' = SV_ClientEnterWorld(client)
        /\ snapshotEntities' = snapshotEntities
    BY <1>4 DEF SV_Restart
  <2>2. sv'.next = sv.next /\ sv'.map = sv.map
    BY <2>1 DEF IInv, Shapes
  <2>3. client'.outgoingSequence = client.outgoingSequence
    BY <2>1 DEF IInv, Shapes, SV_ClientEnterWorld
  <2>4. client.outgoingSequence \in Nat
    BY DEF DeltaInv, Numbered
  <2>5. SameMemory(Memory, Memory')
    BY <1>1, <2>1, <2>2, <2>3, <2>4, MemoryIs, MemoryAfter DEF SameMemory
  <2>6. Sizes'
    BY <1>1, <2>1, <2>2 DEF Sizes, Places
  <2> QED
    BY <1>2, <2>5, <2>6
<1> QED
  BY <1>3, <1>4

LEMMA SnapWriteStep ==
    ASSUME IInv, DeltaInv, SnapInv,
           CL_WritePacket \/ UNCHANGED vars
    PROVE  SnapInv'
<1>1. UNCHANGED <<sv, client, frames, snapshotEntities, cl, snapshots, parseEntities, toClient>>
  BY DEF CL_WritePacket, vars
<1>2. Sizes'
  BY <1>1 DEF SnapInv, Sizes, Places
<1>3. client.outgoingSequence \in Nat
  BY DEF DeltaInv, Numbered
<1>4. SameMemory(Memory, Memory')
  BY <1>1, <1>3, MemoryIs, MemoryAfter DEF SameMemory
<1> QED
  BY <1>1, <1>2, <1>4, SnapSame

\* A gamestate is a message too, and takes the place of a frame.
LEMMA SnapExecuteStep ==
    ASSUME IInv, DeltaInv, SnapInv, NEW k \in DOMAIN toServer, SV_ExecuteClientMessage(k)
    PROVE  SnapInv'
<1> DEFINE p == toServer[k]
           c == [client EXCEPT !.serverIdAcknowledge = p.id]
<1>1. UNCHANGED <<sv, frames, snapshotEntities, cl, snapshots, parseEntities>>
  BY DEF SV_ExecuteClientMessage
<1>2. \/ client' = Moved(c, p) /\ UNCHANGED toClient
      \/ client' = c /\ UNCHANGED toClient
      \/ SV_SendClientGameState(c)
  BY DEF SV_ExecuteClientMessage
<1>3. c = [state |-> client.state, deltaMessage |-> client.deltaMessage,
           serverIdAcknowledge |-> p.id,
           gamestateMessageNum |-> client.gamestateMessageNum,
           outgoingSequence |-> client.outgoingSequence]
  <2>1. client = [state |-> client.state, deltaMessage |-> client.deltaMessage,
                  serverIdAcknowledge |-> client.serverIdAcknowledge,
                  gamestateMessageNum |-> client.gamestateMessageNum,
                  outgoingSequence |-> client.outgoingSequence]
    BY DEF IInv, Shapes
  <2> HIDE DEF p
  <2> QED
    BY <2>1
<1> HIDE DEF c, p
<1>4. client.outgoingSequence \in Nat
  BY DEF DeltaInv, Numbered
<1>5. /\ client'.outgoingSequence \in {client.outgoingSequence, client.outgoingSequence + 1}
      /\ \A i \in 1 .. Len(toClient') :
           \/ toClient'[i].type # "snapshot"
           \/ \E a \in 1 .. Len(toClient) : toClient'[i] = toClient[a]
  <2>1. CASE UNCHANGED toClient /\ (client' = c \/ client' = Moved(c, p))
    <3>1. c.outgoingSequence = client.outgoingSequence
      BY <1>3
    <3>2. client'.outgoingSequence = c.outgoingSequence
      BY <1>3, <2>1 DEF Moved, SV_ClientEnterWorld
    <3>3. \A i \in 1 .. Len(toClient') : \E a \in 1 .. Len(toClient) : toClient'[i] = toClient[a]
      BY <2>1
    <3> QED
      BY <3>1, <3>2, <3>3
  <2>2. CASE SV_SendClientGameState(c)
    <3> DEFINE g == [type |-> "gamestate", num |-> c.outgoingSequence,
                     id |-> sv.serverId, map |-> sv.map]
    <3>1. /\ client' = [c EXCEPT !.state = "PRIMED",
                                 !.gamestateMessageNum = c.outgoingSequence,
                                 !.outgoingSequence = c.outgoingSequence + 1]
          /\ toClient' = Sent(toClient, g)
      BY <2>2 DEF SV_SendClientGameState
    <3>2. client'.outgoingSequence = client.outgoingSequence + 1
      BY <1>3, <3>1
    <3>3. g.type # "snapshot"
      OBVIOUS
    <3>4. PICK S : toClient \in Seq(S)
      BY DEF IInv, Shapes
    <3> HIDE DEF g
    <3>5. OneMore(toClient, g, toClient')
      BY <3>1, <3>4, SentEach
    <3> QED
      BY <3>2, <3>3, <3>5 DEF OneMore
  <2> QED
    BY <1>2, <2>1, <2>2
<1>6. Sizes'
  BY <1>1 DEF SnapInv, Sizes, Places
<1>7. SameMemory(Memory, Memory')
  BY <1>1, <1>4, <1>5, MemoryIs, MemoryAfter DEF SameMemory
<1> QED
  BY <1>1, <1>5, <1>6, <1>7, SnapSame

\* A gamestate clears the client's snapshots.  The snapshots that follow it are full,
\* and of the same map; if the client has that map already, it is not the server's.
LEMMA SnapParseGamestate ==
    ASSUME IInv, DeltaInv, SnapInv, NEW k \in DOMAIN toClient, CL_ParseServerMessage(k),
           toClient[k].type = "gamestate"
    PROVE  SnapInv'
<1> DEFINE m == toClient[k]
<1>1. UNCHANGED <<sv, client, frames, snapshotEntities>>
      /\ toClient' = SubSeq(toClient, k + 1, Len(toClient))
  BY DEF CL_ParseServerMessage
<1>2. PICK S : toClient \in Seq(S)
  BY DEF IInv, Shapes
<1>3. k \in 1 .. Len(toClient)
  BY <1>2
<1>4. Left(toClient, k, toClient')
  BY <1>1, <1>2, <1>3, RestEach
<1>5. /\ cl' = Cleared(m.id, m.map, m.num)
      /\ snapshots' = [n \in DOMAIN snapshots |-> NoSnap]
      /\ parseEntities' = [n \in DOMAIN parseEntities |-> NoEntity]
  BY DEF CL_ParseServerMessage, CL_ParseGamestate, CL_ParseSnapshot, CL_ParseNop
<1>6. cl'.map = m.map /\ cl'.parseEntitiesNum = 0
  BY <1>5 DEF Cleared
<1>7. cl.map # sv.map
  BY <1>3, NotYet
<1>8. Sizes'
  <2>1. DOMAIN parseEntities' = DOMAIN parseEntities
    BY <1>5
  <2> QED
    BY <1>1, <1>6, <2>1 DEF SnapInv, Sizes, Places
<1>9. ASSUME NEW a \in 1 .. Len(toClient), k < a
      PROVE  Built(toClient[a], cl'.snap.messageNum, snapshots', Memory')
  <2> DEFINE n == toClient[a]
  <2>1. /\ Follows(m, n) /\ InOrder(m, n) /\ Right(n, sv, cl.map)
        /\ Built(n, cl.snap.messageNum, snapshots, Memory)
    BY <1>3, <1>9 DEF DeltaInv, IInv, Flight, SnapInv
  <2> HIDE DEF n
  <2>2. ASSUME n.type = "snapshot" PROVE n.delta = 0 /\ m.map = cl.map
    BY <2>1, <2>2 DEF Follows, InOrder, Right
  <2> HIDE DEF m
  <2>3. ASSUME n.type = "snapshot" PROVE Remembers(n.num, n.truth, Memory')
    BY <1>1, <1>6, <1>7, <2>2, <2>3, MemoryAfter, RemembersOther
  <2> QED
    BY <2>1, <2>2, <2>3 DEF Built, n
<1>10. \A i \in 1 .. Len(toClient') : Built(toClient'[i], cl'.snap.messageNum, snapshots', Memory')
  BY <1>4, <1>9 DEF Left
<1>11. ASSUME NEW x \in 0 .. PACKET_BACKUP - 1
       PROVE  Stands(snapshots'[x], x, cl'.snap.messageNum, parseEntities',
                     cl'.parseEntitiesNum, Memory')
  <2>1. snapshots'[x] = NoSnap
    BY <1>5 DEF DeltaInv, Numbered
  <2>2. Stands(NoSnap, x, cl'.snap.messageNum, parseEntities', cl'.parseEntitiesNum, Memory')
    BY DEF NoSnap, Stands
  <2> QED
    BY <2>1, <2>2
<1> QED
  BY <1>8, <1>10, <1>11 DEF SnapInv

\* Steps of the client that leave its snapshots, and those it cannot use.
LEMMA SnapParseOther ==
    ASSUME IInv, DeltaInv, SnapInv, NEW k \in DOMAIN toClient, CL_ParseServerMessage(k),
           cl'.map = cl.map, cl'.snap = cl.snap, snapshots' = snapshots,
           NEW p, Touched(p, parseEntities, cl.parseEntitiesNum),
           parseEntities' = p.ring, cl'.parseEntitiesNum = p.next
    PROVE  SnapInv'
<1>1. UNCHANGED <<sv, client, frames, snapshotEntities>>
      /\ toClient' = SubSeq(toClient, k + 1, Len(toClient))
  BY DEF CL_ParseServerMessage
<1>2. PICK S : toClient \in Seq(S)
  BY DEF IInv, Shapes
<1>3. k \in 1 .. Len(toClient)
  BY <1>2
<1>4. Left(toClient, k, toClient')
  BY <1>1, <1>2, <1>3, RestEach
<1>5. client.outgoingSequence \in Nat
  BY DEF DeltaInv, Numbered
<1>6. SameMemory(Memory, Memory')
  BY <1>1, <1>5, MemoryIs, MemoryAfter DEF SameMemory
<1>7. Carries(Memory, Memory')
  BY <1>6, SameCarries
<1>8. /\ \A i \in 1 .. Len(toClient) :
           Built(toClient[i], cl.snap.messageNum, snapshots, Memory')
      /\ \A x \in 0 .. PACKET_BACKUP - 1 :
           Stands(snapshots[x], x, cl.snap.messageNum, parseEntities,
                  cl.parseEntitiesNum, Memory')
  BY <1>7, Carried
<1>9. \A i \in 1 .. Len(toClient') : Built(toClient'[i], cl'.snap.messageNum, snapshots', Memory')
  BY <1>4, <1>8 DEF Left
<1>10. Sizes'
  BY <1>1 DEF SnapInv, Sizes, Places, Touched
<1>11. ASSUME NEW x \in 0 .. PACKET_BACKUP - 1
       PROVE  Stands(snapshots'[x], x, cl'.snap.messageNum, parseEntities',
                     cl'.parseEntitiesNum, Memory')
  <2> DEFINE s == snapshots[x]
  <2>1. Stands(s, x, cl.snap.messageNum, parseEntities, cl.parseEntitiesNum, Memory')
    BY <1>8
  <2>2. cl.parseEntitiesNum \in Nat
    BY DEF SnapInv, Sizes
  <2> HIDE DEF s
  <2>3. s.first \in Nat /\ s.num \in Nat
        /\ (s.valid => InBuffer(s, parseEntities, cl.parseEntitiesNum))
    BY <2>1 DEF Stands
  <2>4. s.valid => InBuffer(s, p.ring, p.next)
    BY <2>2, <2>3, InBufferTouched
  <2> QED
    BY <2>1, <2>4 DEF Stands, s
<1> QED
  BY <1>9, <1>10, <1>11 DEF SnapInv

\* A snapshot that is still in its place is the one it was.
LEMMA KeptSame ==
    ASSUME DeltaInv, SnapInv, NEW snap, snap.valid, snap.messageNum \in Nat,
           cl.snap.messageNum < snap.messageNum, NEW n, Held(cl.snap.messageNum, snapshots, n),
           snap.messageNum - n < PACKET_BACKUP
    PROVE  Kept(snap)[Frame(n)] = snapshots[Frame(n)]
<1> DEFINE x == Frame(n)
           s == snapshots[x]
<1>1. cl.snap.messageNum \in Nat /\ DOMAIN snapshots = 0 .. PACKET_BACKUP - 1
  BY DEF DeltaInv, Numbered
<1>2. n \in Nat /\ n < snap.messageNum
  BY <1>1 DEF Held
<1>3. x \in 0 .. PACKET_BACKUP - 1
  BY <1>2, FrameInRing
<1>4. Held(snap.messageNum, Kept(snap), n)
  BY KeptHolds
<1>5. Kept(snap)[x].valid /\ Kept(snap)[x].messageNum = n
  BY <1>4 DEF Held
<1>6. Stands(s, x, cl.snap.messageNum, parseEntities, cl.parseEntitiesNum, Memory)
  BY <1>3 DEF SnapInv
<1> HIDE DEF s
<1> DEFINE f == [s EXCEPT !.valid = FALSE]
<1>7. ~f.valid
  BY <1>6 DEF Stands
<1> DEFINE r == Kept(snap)[x]
<1>8. \/ x = Frame(snap.messageNum) /\ Kept(snap)[x] = snap
      \/ Kept(snap)[x] = f
      \/ Kept(snap)[x] = s
  BY <1>1, <1>3, KeptIs DEF s
<1> HIDE DEF f
<1>9. r.valid /\ r.messageNum = n /\ (r = snap \/ r = f \/ r = s)
  BY <1>5, <1>8
<1> HIDE DEF r
<1>10. r = s
  BY <1>2, <1>7, <1>9
<1> QED
  BY <1>10 DEF r, s

\* The new snapshot has the entities the server saw, and the others are still what
\* they were.
LEMMA SnapParseNew ==
    ASSUME IInv, DeltaInv, SnapInv, NEW k \in DOMAIN toClient, CL_ParseServerMessage(k),
           NEW m, m = toClient[k], m.type = "snapshot",
           cl'.parseEntitiesNum = Parsed(m).next, parseEntities' = Parsed(m).ring,
           cl'.map = cl.map, Judged(m) = "valid", cl'.snap = NewSnap(m),
           snapshots' = Kept(cl'.snap), NEW e, Prepared(m, e)
    PROVE  SnapInv'
<1> DEFINE last == cl.snap.messageNum
           new == NewSnap(m)
           p == Parsed(m)
<1>1. UNCHANGED <<sv, client, frames, snapshotEntities>>
      /\ toClient' = SubSeq(toClient, k + 1, Len(toClient))
  BY DEF CL_ParseServerMessage
<1>2. PICK S : toClient \in Seq(S)
  BY DEF IInv, Shapes
<1>3. k \in 1 .. Len(toClient)
  BY <1>2
<1>4. Left(toClient, k, toClient')
  BY <1>1, <1>2, <1>3, RestEach
<1>5. client.outgoingSequence \in Nat /\ last \in Nat
  BY DEF DeltaInv, Numbered
<1>6. SameMemory(Memory, Memory')
  BY <1>1, <1>5, MemoryIs, MemoryAfter DEF SameMemory
<1>7. /\ \A i \in 1 .. Len(toClient) : Built(toClient[i], last, snapshots, Memory')
      /\ \A x \in 0 .. PACKET_BACKUP - 1 :
           Stands(snapshots[x], x, last, parseEntities, cl.parseEntitiesNum, Memory')
  <2>1. Carries(Memory, Memory')
    BY <1>6, SameCarries
  <2> QED
    BY <2>1, Carried
<1>8. /\ OnItsWay(m, sv, client, cl, snapshots) /\ Built(m, last, snapshots, Memory')
      /\ m.num \in Nat /\ last < m.num
  BY <1>3, <1>5, <1>7 DEF DeltaInv, OnItsWay, Numbered
<1>9. /\ Touched(p, parseEntities, cl.parseEntitiesNum)
      /\ InBuffer(new, p.ring, p.next) /\ new.num \in Nat
  BY ParsedIsRight
<1>10. /\ new = [valid |-> TRUE, messageNum |-> m.num, first |-> cl.parseEntitiesNum,
                 num |-> new.num, truth |-> m.truth, map |-> m.map]
       /\ new.valid /\ new.messageNum = m.num /\ new.first = cl.parseEntitiesNum
       /\ new.truth = m.truth
  BY DEF NewSnap
<1>11. cl.parseEntitiesNum \in Nat /\ DOMAIN snapshots = 0 .. PACKET_BACKUP - 1
  BY DEF DeltaInv, Numbered, SnapInv, Sizes
<1>12. m.truth \in Worlds /\ Remembers(m.num, m.truth, Memory')
  BY <1>8 DEF Built
<1> HIDE DEF new, p, last
<1>13. Sizes'
  BY <1>1, <1>9 DEF SnapInv, Sizes, Places, Touched, p
<1>14. ASSUME NEW x \in 0 .. PACKET_BACKUP - 1
       PROVE  Stands(Kept(new)[x], x, m.num, p.ring, p.next, Memory')
  <2>1. CASE x = Frame(m.num)
    <3>1. Kept(new)[x] = new
      BY <1>10, <1>11, <2>1 DEF Kept
    <3>2. InPlace(new, x, m.num)
      BY <1>8, <1>10, <2>1, SnapshotAssumption DEF InPlace
    <3>3. Stands(new, x, m.num, p.ring, p.next, Memory')
      BY <1>9, <1>10, <1>11, <1>12, <3>2 DEF Stands
    <3> QED
      BY <3>1, <3>3
  <2>2. CASE x # Frame(m.num)
    <3>1. Stands(snapshots[x], x, last, parseEntities, cl.parseEntitiesNum, Memory')
      BY <1>7 DEF last
    <3> QED
      BY <1>5, <1>8, <1>9, <1>10, <1>11, <2>2, <3>1, StandsKept DEF last
  <2> QED
    BY <2>1, <2>2
<1>15. ASSUME NEW a \in 1 .. Len(toClient)
       PROVE  Built(toClient[a], m.num, Kept(new), Memory')
  <2> DEFINE n == toClient[a]
             source == n.num - n.delta
  <2>1. Built(n, last, snapshots, Memory') /\ OnItsWay(n, sv, client, cl, snapshots)
    BY <1>7 DEF DeltaInv, last
  <2> HIDE DEF n
  <2>2. ASSUME n.type = "snapshot", n.delta # 0, m.num - source < PACKET_BACKUP
        PROVE  n.entities = Emitted(Kept(new)[Frame(source)].truth, n.truth)
    <3>1. Held(last, snapshots, source)
      BY <2>1, <2>2 DEF OnItsWay, last
    <3>2. source \in Nat /\ PACKET_BACKUP \in Nat
      BY <3>1, SnapshotAssumption DEF Held
    <3> HIDE DEF source
    <3>3. last - source < PACKET_BACKUP
      BY <1>5, <1>8, <2>2, <3>2
    <3>4. Kept(new)[Frame(source)] = snapshots[Frame(source)]
      BY <1>8, <1>10, <2>2, <3>1, KeptSame DEF last
    <3> QED
      BY <2>1, <2>2, <3>3, <3>4 DEF Built, source
  <2> QED
    BY <2>1, <2>2 DEF Built, n
<1>16. cl'.snap = new /\ cl'.snap.messageNum = m.num /\ snapshots' = Kept(new)
       /\ parseEntities' = p.ring /\ cl'.parseEntitiesNum = p.next
  BY <1>10 DEF new, p
<1>17. \A i \in 1 .. Len(toClient') : Built(toClient'[i], cl'.snap.messageNum, snapshots', Memory')
  BY <1>4, <1>15, <1>16 DEF Left
<1>18. \A x \in 0 .. PACKET_BACKUP - 1 :
         Stands(snapshots'[x], x, cl'.snap.messageNum, parseEntities',
                cl'.parseEntitiesNum, Memory')
  BY <1>14, <1>16
<1> QED
  BY <1>13, <1>17, <1>18 DEF SnapInv

LEMMA SnapParseStep ==
    ASSUME FewNew, IInv, DeltaInv, SnapInv, NEW k \in DOMAIN toClient,
           CL_ParseServerMessage(k)
    PROVE  SnapInv'
<1> DEFINE m == toClient[k]
<1>1. PICK S : toClient \in Seq(S)
  BY DEF IInv, Shapes
<1>2. k \in 1 .. Len(toClient)
  BY <1>1
<1>3. CASE CL_ParseGamestate(m)
  BY <1>3, SnapParseGamestate DEF CL_ParseGamestate
<1>4. CASE CL_ParseNop(m)
  <2> DEFINE p == [ring |-> parseEntities, next |-> cl.parseEntitiesNum]
  <2>1. cl' = [cl EXCEPT !.sequence = m.num] /\ snapshots' = snapshots
        /\ parseEntities' = parseEntities
    BY <1>4 DEF CL_ParseNop
  <2>2. p.ring = parseEntities /\ p.next = cl.parseEntitiesNum
    OBVIOUS
  <2> HIDE DEF m, p
  <2>3. /\ cl'.map = cl.map /\ cl'.snap = cl.snap
        /\ cl'.parseEntitiesNum = cl.parseEntitiesNum
    BY <2>1 DEF IInv, Shapes
  <2>4. Touched(p, parseEntities, cl.parseEntitiesNum)
    BY <2>2 DEF Touched, Spared, SnapInv, Sizes
  <2> QED
    BY <2>1, <2>2, <2>3, <2>4, SnapParseOther
<1>5. CASE CL_ParseSnapshot(m)
  <2>1. /\ m.type = "snapshot"
        /\ cl'.parseEntitiesNum = Parsed(m).next /\ parseEntities' = Parsed(m).ring
        /\ cl'.map = cl.map
        /\ \/ Judged(m) = "valid" /\ cl'.snap = NewSnap(m) /\ snapshots' = Kept(cl'.snap)
           \/ cl'.snap = cl.snap /\ snapshots' = snapshots
    BY <1>5, ParsedSnapshotIs
  <2>2. /\ OnItsWay(m, sv, client, cl, snapshots)
        /\ Built(m, cl.snap.messageNum, snapshots, Memory)
    BY <1>2 DEF DeltaInv, SnapInv
  <2>3. m = toClient[k]
    OBVIOUS
  <2> HIDE DEF m
  <2>4. PICK e : Prepared(m, e)
    BY <2>1, <2>2, SourceFull, SourceDelta
  <2>5. Touched(Parsed(m), parseEntities, cl.parseEntitiesNum)
    BY <2>4, ParsedIsRight
  <2> QED
    BY <2>1, <2>3, <2>4, <2>5, SnapParseNew, SnapParseOther
<1> QED
  BY <1>3, <1>4, <1>5 DEF CL_ParseServerMessage

-----------------------------------------------------------------------------
LEMMA SnapInit == Init => SnapInv
<1> SUFFICES ASSUME Init PROVE SnapInv
  OBVIOUS
<1>1. /\ sv = [serverId |-> 1, restartedServerId |-> 1, map |-> 1, next |-> 0]
      /\ frames = [n \in 0 .. PACKET_BACKUP - 1 |-> NoFrame]
      /\ snapshotEntities = [n \in 0 .. numSnapshotEntities - 1 |-> NoEntity]
      /\ cl = Cleared(0, 0, 0)
      /\ snapshots = [n \in 0 .. PACKET_BACKUP - 1 |-> NoSnap]
      /\ parseEntities = [n \in 0 .. MAX_PARSE_ENTITIES - 1 |-> NoEntity]
      /\ toClient = <<>>
  BY DEF Init
<1>2. Sizes
  BY <1>1 DEF Sizes, Places, Cleared
<1>3. ASSUME NEW x \in 0 .. PACKET_BACKUP - 1
      PROVE  Stands(snapshots[x], x, cl.snap.messageNum, parseEntities,
                    cl.parseEntitiesNum, Memory)
  <2>1. Stands(NoSnap, x, cl.snap.messageNum, parseEntities, cl.parseEntitiesNum, Memory)
    BY DEF NoSnap, Stands
  <2> QED
    BY <1>1, <2>1
<1>4. 1 .. Len(toClient) = {}
  BY <1>1
<1> QED
  BY <1>2, <1>3, <1>4 DEF SnapInv

LEMMA SnapNext ==
    ASSUME FewNew
    PROVE  IInv /\ DeltaInv /\ SnapInv /\ [Next]_vars => SnapInv'
<1> SUFFICES ASSUME IInv, DeltaInv, SnapInv, [Next]_vars PROVE SnapInv'
  OBVIOUS
<1>1. CASE UNCHANGED vars \/ CL_WritePacket
  BY <1>1, SnapWriteStep
<1>2. ASSUME NEW v \in Views, SV_SendClientSnapshot(v.world, v.others) PROVE SnapInv'
  <2>1. v.others \in Nat
    BY SnapshotAssumption
  <2>2. v.world \in Worlds
    BY DEF Worlds
  <2> QED
    BY <1>2, <2>1, <2>2, SnapSendStep
<1>3. CASE SV_SpawnServer \/ SV_Restart
  BY <1>3, SnapLevelStep
<1>4. ASSUME NEW k \in DOMAIN toServer, SV_ExecuteClientMessage(k) PROVE SnapInv'
  BY <1>4, SnapExecuteStep
<1>5. ASSUME NEW k \in DOMAIN toClient, CL_ParseServerMessage(k) PROVE SnapInv'
  BY <1>5, SnapParseStep
<1> QED
  BY <1>1, <1>2, <1>3, <1>4, <1>5 DEF Next

LEMMA SnapInvSuffices == DeltaInv /\ SnapInv => SnapshotsIntact
<1> SUFFICES ASSUME DeltaInv, SnapInv, NEW n \in 1 .. MaxMessages, Gets(n)
             PROVE  /\ snapshots[Frame(n)].messageNum = n
                    /\ GetSnapshot(n) = snapshots[Frame(n)].truth
  BY DEF SnapshotsIntact
<1> DEFINE s == snapshots[Frame(n)]
           last == cl.snap.messageNum
<1>1. /\ n <= last /\ last - n < PACKET_BACKUP /\ s.valid
      /\ cl.parseEntitiesNum - s.first < MAX_PARSE_ENTITIES
  BY DEF Gets
<1>2. n \in Nat /\ last \in Nat /\ PACKET_BACKUP \in Nat /\ MAX_PARSE_ENTITIES \in Nat
      /\ cl.parseEntitiesNum \in Nat
  BY SnapshotAssumption DEF DeltaInv, Numbered, SnapInv, Sizes
<1>3. Stands(s, Frame(n), last, parseEntities, cl.parseEntitiesNum, Memory)
  BY <1>2, FrameInRing DEF SnapInv
<1> HIDE DEF s, last
<1>4. /\ s.messageNum \in Nat /\ Frame(s.messageNum) = Frame(n)
      /\ s.messageNum <= last /\ last - s.messageNum < PACKET_BACKUP
      /\ s.truth \in Worlds /\ s.first \in Nat /\ s.num \in Nat
      /\ InBuffer(s, parseEntities, cl.parseEntitiesNum)
  BY <1>1, <1>3 DEF Stands, InPlace
<1>5. s.messageNum = n
  <2>1. CASE n < s.messageNum
    <3>1. s.messageNum - n >= PACKET_BACKUP
      BY <1>2, <1>4, <2>1, FramesDiffer
    <3> QED
      BY <1>1, <1>2, <1>4, <3>1
  <2>2. CASE s.messageNum < n
    <3>1. n - s.messageNum >= PACKET_BACKUP
      BY <1>2, <1>4, <2>2, FramesDiffer
    <3> QED
      BY <1>1, <1>2, <1>4, <3>1
  <2> QED
    BY <1>2, <1>4, <2>1, <2>2
<1>6. Listed(parseEntities, MAX_PARSE_ENTITIES, s.first, s.num) = Ordered(s.truth)
  <2>1. s.first > cl.parseEntitiesNum - MAX_PARSE_ENTITIES
    BY <1>1, <1>2, <1>4
  <2> QED
    BY <1>4, <2>1 DEF InBuffer
<1>7. World(Listed(parseEntities, MAX_PARSE_ENTITIES, s.first, s.num)) = s.truth
  BY <1>4, <1>6, WorldOrdered
<1> QED
  BY <1>5, <1>7 DEF GetSnapshot, s

(***************************************************************************)
(* Whatever snapshot the client game is given is the one it asked for, and *)
(* has the entities the server saw (SnapshotsIntact): for every size of    *)
(* the three circular buffers, any number of messages, lost or not, of new *)
(* maps and of restarts, if no more entities are new at once than Margin.  *)
(***************************************************************************)
THEOREM SnapshotsAreIntact == ASSUME FewNew PROVE Spec => []SnapshotsIntact
<1>1. Init => IInv /\ DeltaInv /\ SnapInv
  BY InitInv, DeltaInit, SnapInit
<1>2. IInv /\ DeltaInv /\ SnapInv /\ [Next]_vars => IInv' /\ DeltaInv' /\ SnapInv'
  BY NextInv, DeltaNext, SnapNext
<1>3. DeltaInv /\ SnapInv => SnapshotsIntact
  BY SnapInvSuffices
<1> QED
  BY <1>1, <1>2, <1>3, PTL DEF Spec
=============================================================================
