---------------------------- MODULE PeerSession ----------------------------
(***************************************************************************)
(* Who is who between a server and its clients: peer ids and PeerEntities, *)
(* the handshake with its check of protocol hashes, connections that close *)
(* and come back under the same peer reference, and the source and target  *)
(* that handlers of commands and events see, through the endpoints that    *)
(* the compiler generates.                                                 *)
(*                                                                         *)
(* What snapshots say is the subject of Replication; here a snapshot only  *)
(* tells a client which entities enter and leave its view.                 *)
(***************************************************************************)
EXTENDS Naturals, Sequences, SequencesExt, FiniteSets

CONSTANTS
  Peer,          \* PeerRefs that the server's transport uses
  ServerHash, ClientHash,   \* the protocol hash of the server, those of clients by peer
  NoHash,        \* a protocol without a hash
  Watcher,       \* peers to which the program shows everything
  Channel,       \* the channel that the RPCs of each endpoint are defined with
  MaxSends,      \* bound: calls of the program that send
  MaxLives       \* bound: connections

Endpoint == {"World", "Peer", "Entity"}

ASSUME SessionAssumption ==
  /\ IsFiniteSet(Peer) /\ Watcher \subseteq Peer
  /\ Channel \in [Endpoint -> {"reliable", "unreliable"}]
  /\ MaxSends \in Nat /\ MaxLives \in Nat

WorldEntity == 0
Gameplay == 1      \* an entity of the program, there from the start

VARIABLES
  server,    \* the runtime's tables and the world's peers
  listed,    \* transport.peers()
  client,    \* the client world behind each reference, if there is one
  up, down,  \* packets on their way to the server, and to each client
  calls,     \* history: commands that handlers were called with
  received,  \* history: events that handlers were called with
  sends, lives

vars == <<server, listed, client, up, down, calls, received, sends, lives>>

PeerId == 1..Cardinality(Peer)

NoClient == [on |-> FALSE, hash |-> NoHash, started |-> FALSE,
             id |-> 0, entity |-> 0, has |-> {}]

Init ==
  /\ server = [ ids |-> [p \in Peer |-> 0], nextId |-> 1, seen |-> {},
                entityOf |-> [i \in PeerId |-> 0],
                status |-> [i \in PeerId |-> "none"],
                live |-> {}, next |-> Gameplay + 1,
                known |-> [p \in Peer |-> {}] ]
  /\ listed = {}
  /\ client = [p \in Peer |-> NoClient]
  /\ up = [p \in Peer |-> << >>] /\ down = [p \in Peer |-> << >>]
  /\ calls = {} /\ received = {}
  /\ sends = 0 /\ lives = 0

-----------------------------------------------------------------------------
(* Peers of the server.                                                    *)

IdOf(s, p) == s.ids[p]
EntityOf(s, p) == s.entityOf[IdOf(s, p)]

\* The orders in which a Set may be iterated: the place of each member.
Orders(S) ==
  {order \in [S -> 1..Cardinality(S)] : \A p, q \in S : order[p] = order[q] => p = q}

Alone(p) == [q \in {p} |-> 1]

\* The place of p among those of some of the peers that are iterated.
Rank(order, some, p) == Cardinality({q \in some : order[q] <= order[p]})

\* Mutant: all that one call meets for the first time get the same id.
IdsForAtOnce(s, order) ==
  LET new == {p \in DOMAIN order : IdOf(s, p) = 0}
  IN  [ s EXCEPT !.ids = [p \in Peer |-> IF p \in new THEN s.nextId ELSE @[p]],
                 !.nextId = IF new = {} THEN @ ELSE @ + 1 ]

\* PeerIds.idFor, for one after the other: ids are given out in order, and kept.
IdsFor(s, order) ==
  LET new == {p \in DOMAIN order : IdOf(s, p) = 0}
  IN  [ s EXCEPT !.ids = [ p \in Peer |-> IF p \in new
                             THEN s.nextId + Rank(order, new, p) - 1 ELSE @[p] ],
                 !.nextId = @ + Cardinality(new) ]

\* The entities of new, in the order of peers, and all those peers connected.
WithEntities(s, peers, order, new) ==
  [ s EXCEPT
      !.status = [i \in PeerId |-> IF \E p \in peers : IdOf(s, p) = i
                                   THEN "Connected" ELSE @[i]],
      !.entityOf = [i \in PeerId |->
                      IF \E p \in new : IdOf(s, p) = i
                      THEN s.next + Rank(order, new, CHOOSE p \in new : IdOf(s, p) = i) - 1
                      ELSE @[i]],
      !.live = @ \cup (s.next .. s.next + Cardinality(new) - 1),
      !.next = @ + Cardinality(new) ]

\* Mutant: who comes back gets a new entity.
EnsuredAfresh(s, order, peers) ==
  WithEntities(s, peers, order, {p \in peers : s.status[IdOf(s, p)] # "Connected"})

\* ensurePeerEntity for some of those that are iterated.
EnsureEntities(s, order, peers) ==
  WithEntities(s, peers, order, {p \in peers : EntityOf(s, p) = 0})

\* idFor and ensurePeerEntity, as packets and broadcasts call them.
Ensured(s, order) == EnsureEntities(IdsFor(s, order), order, DOMAIN order)

CurrentPeers == listed \cup server.seen

\* A peer sees the PeerEntity that it owns, and if it is a Watcher the rest.
IsVisible(s, p, e) ==
  \/ e = WorldEntity
  \/ e \in s.live /\ e = EntityOf(s, p)
  \/ p \in Watcher

Visible(s, p) == {e \in s.live \cup {Gameplay} : IsVisible(s, p, e)}

Matches(expected, given) == expected = NoHash \/ given = NoHash \/ expected = given

-----------------------------------------------------------------------------
(* Channels.  The reliable one keeps its order; an unreliable packet comes *)
(* at any time or never.  A connection that closes takes down what is on   *)
(* its way, but for packets that the server has queued.                    *)

Deliverable(queue, i) ==
  \/ queue[i].channel = "unreliable"
  \/ \A j \in 1..(i - 1) : queue[j].channel = "unreliable"

\* Adds the packets that are for somebody who is connected.
Sent(queues, packets) ==
  [p \in Peer |-> IF p \in listed THEN queues[p] \o packets[p] ELSE queues[p]]
Only(p, packets) == [q \in Peer |-> IF q = p THEN packets ELSE << >>]

Hello(p) == [channel |-> "reliable", type |-> "Control", hash |-> client[p].hash]
Assigned(s, p) ==
  [ channel |-> "reliable", type |-> "PeerAssigned", hash |-> ServerHash,
    id |-> IdOf(s, p), entity |-> EntityOf(s, p) ]
Snapshot(enter, leave) ==
  [channel |-> "reliable", type |-> "Snapshot", enter |-> enter, leave |-> leave]
Rpc(endpoint, source, target) ==
  [ channel |-> Channel[endpoint], type |-> "Rpc", endpoint |-> endpoint,
    source |-> source, target |-> target ]

Known(s, peers) ==
  [s EXCEPT !.known = [p \in Peer |-> IF p \in peers THEN Visible(s, p) ELSE @[p]]]

-----------------------------------------------------------------------------
(* The server.                                                             *)

\* validateEndpointCtx of a command's endpoint, in the server's world.
ValidCommand(s, endpoint, source, target) ==
  /\ source \in s.live
  /\ CASE endpoint = "World"  -> target = WorldEntity
       [] endpoint = "Peer"   -> target \in s.live
       [] endpoint = "Entity" -> target = Gameplay

\* Mutant: the answer is left out if the peer has been answered before.
AnswersOnce(s, p, hash) ==
  IF Matches(ServerHash, hash) /\ s.known[p] = {}
  THEN <<Assigned(s, p), Snapshot(Visible(s, p), {})>> ELSE << >>

\* Hello and FullSnapshotRequest are answered alike; another hash is refused.
Answer(s, p, hash) ==
  IF Matches(ServerHash, hash)
  THEN <<Assigned(s, p), Snapshot(Visible(s, p), {})>> ELSE << >>

\* onPacket of the server.  The PeerEntity is there before the packet is read.
ServerPacket(p, i) ==
  LET packet == up[p][i]
      s == Ensured([server EXCEPT !.seen = @ \cup {p}], Alone(p))
  IN  /\ Deliverable(up[p], i)
      /\ up' = [up EXCEPT ![p] = RemoveAt(@, i)]
      /\ \/ /\ packet.type = "Control"
            /\ LET answer == Answer(s, p, packet.hash)
               IN  /\ down' = Sent(down, Only(p, answer))
                   /\ server' = IF answer = << >> THEN s ELSE Known(s, {p})
            /\ UNCHANGED calls
         \/ /\ packet.type = "Rpc"
            /\ server' = s
            /\ calls' = IF ValidCommand(s, packet.endpoint, EntityOf(s, p), packet.target)
                        THEN calls \cup {[ peer |-> p, endpoint |-> packet.endpoint,
                                           source |-> EntityOf(s, p),
                                           target |-> packet.target ]}
                        ELSE calls
            /\ UNCHANGED down
      /\ UNCHANGED <<listed, client, received, sends, lives>>

\* update(): first who has gone, then what each peer is to learn.
Update ==
  \E order \in Orders(CurrentPeers) :
    LET gone == [ server EXCEPT !.status =
                    [ i \in PeerId |->
                        IF i \in {IdOf(server, p) : p \in server.seen \ listed}
                        THEN "Disconnected" ELSE @[i] ] ]
        s == IdsFor(gone, order)
        news == [ p \in Peer |->
                    IF p \in CurrentPeers /\ Visible(s, p) # s.known[p]
                    THEN <<Snapshot(Visible(s, p) \ s.known[p], s.known[p] \ Visible(s, p))>>
                    ELSE << >> ]
    IN  /\ server' = Known(s, CurrentPeers)
        /\ down' = Sent(down, news)
        /\ UNCHANGED <<listed, client, up, calls, received, sends, lives>>

\* start(), or sendFullSnapshot() of the program, to all peers.
SendFullSnapshots ==
  /\ sends < MaxSends /\ sends' = sends + 1
  /\ \E order \in Orders(CurrentPeers) :
       LET s == Ensured(server, order)
       IN  /\ server' = Known(s, CurrentPeers)
           /\ down' = Sent(down, [ p \in Peer |->
                        IF p \in CurrentPeers THEN <<Snapshot(Visible(s, p), {})>>
                        ELSE << >> ])
  /\ UNCHANGED <<listed, client, up, calls, received, lives>>

\* The source of an event of each endpoint, and its receivers.
Source(s, endpoint, p) ==
  CASE endpoint = "World"  -> WorldEntity
    [] endpoint = "Peer"   -> EntityOf(s, p)
    [] endpoint = "Entity" -> Gameplay

Sees(s, endpoint, p) == IsVisible(s, p, Source(s, endpoint, p))

\* Mutant: the packet is encoded once, for the first receiver.
EventsForFirst(s, endpoint, receivers) ==
  LET first == CHOOSE p \in receivers : TRUE
  IN  [ p \in Peer |-> IF p \in receivers
          THEN <<Rpc(endpoint, Source(s, endpoint, first), EntityOf(s, first))>>
          ELSE << >> ]

Events(s, endpoint, receivers) ==
  [ p \in Peer |-> IF p \in receivers
      THEN <<Rpc(endpoint, Source(s, endpoint, p), EntityOf(s, p))>> ELSE << >> ]

\* broadcast of an endpoint: broadcastEvent and broadcastPeerEvent.  Peers
\* that cannot see the entity of an event get an id, but no PeerEntity.
Broadcast(endpoint) ==
  /\ sends < MaxSends /\ sends' = sends + 1
  /\ \E order \in Orders(CurrentPeers) :
       LET t == IdsFor(server, order)
           s == EnsureEntities(t, order, {p \in CurrentPeers :
                             endpoint # "Entity" \/ Sees(t, endpoint, p)})
       IN  /\ server' = s
           /\ down' = Sent(down,
                        Events(s, endpoint, {p \in CurrentPeers : Sees(s, endpoint, p)}))
  /\ UNCHANGED <<listed, client, up, calls, received, lives>>

\* sendTo of an endpoint: no check of what the receivers can see.
SendTo(endpoint, targets) ==
  /\ sends < MaxSends /\ sends' = sends + 1
  /\ targets # {}
  /\ \A p \in targets : IdOf(server, p) # 0 /\ EntityOf(server, p) # 0
  /\ down' = Sent(down, Events(server, endpoint, targets))
  /\ UNCHANGED <<server, listed, client, up, calls, received, lives>>

\* The program removes the PeerEntity of a peer that has gone.
RemovePeerEntity(i) ==
  /\ server.status[i] = "Disconnected"
  /\ server.entityOf[i] \in server.live
  /\ server' = [server EXCEPT !.live = @ \ {server.entityOf[i]}]
  /\ UNCHANGED <<listed, client, up, down, calls, received, sends, lives>>

-----------------------------------------------------------------------------
(* Clients.                                                                *)

Connect(p, hash) ==
  /\ p \notin listed
  /\ lives < MaxLives /\ lives' = lives + 1
  /\ listed' = listed \cup {p}
  /\ client' = [client EXCEPT ![p] = [NoClient EXCEPT !.on = TRUE, !.hash = hash]]
  /\ UNCHANGED <<server, up, down, calls, received, sends>>

\* n packets have come as far as the queue of the server's world.
Disconnect(p, n) ==
  /\ p \in listed
  /\ listed' = listed \ {p}
  /\ client' = [client EXCEPT ![p] = NoClient]
  /\ up' = [up EXCEPT ![p] = SubSeq(@, 1, n)]
  /\ down' = [down EXCEPT ![p] = << >>]
  /\ UNCHANGED <<server, calls, received, sends, lives>>

\* The first tick of a client.
Start(p) ==
  /\ client[p].on /\ ~client[p].started
  /\ client' = [client EXCEPT ![p].started = TRUE]
  /\ up' = [up EXCEPT ![p] = Append(@, Hello(p))]
  /\ UNCHANGED <<server, listed, down, calls, received, sends, lives>>

RequestFullSnapshot(p) ==
  /\ client[p].on
  /\ sends < MaxSends /\ sends' = sends + 1
  /\ up' = [up EXCEPT ![p] = Append(@, Hello(p))]
  /\ UNCHANGED <<server, listed, client, down, calls, received, lives>>

\* send of a command's endpoint.  Before the assignment it throws.
SendCommand(p, endpoint) ==
  LET target == CASE endpoint = "World"  -> WorldEntity
                  [] endpoint = "Peer"   -> client[p].entity
                  [] endpoint = "Entity" -> Gameplay
  IN  /\ client[p].on /\ client[p].id # 0
      /\ endpoint = "Entity" => Gameplay \in client[p].has
      /\ sends < MaxSends /\ sends' = sends + 1
      /\ up' = [up EXCEPT ![p] = Append(@, Rpc(endpoint, client[p].entity, target))]
      /\ UNCHANGED <<server, listed, client, down, calls, received, lives>>

\* validateEndpointCtx of an event's endpoint, in the client's world.
ValidEvent(c, packet) ==
  /\ packet.target \in c.has \ {Gameplay}
  /\ CASE packet.endpoint = "World"  -> packet.source = WorldEntity
       [] packet.endpoint = "Peer"   -> packet.source \in c.has \ {Gameplay}
       [] packet.endpoint = "Entity" -> packet.source \in c.has \cap {Gameplay}

\* Mutant: the client trusts the server's check of the hashes.
AcceptAny(c, packet) == TRUE

\* The client's own check of the hash in a PeerAssigned.
Accept(c, packet) == Matches(c.hash, packet.hash)

ClientPacket(p, i) ==
  LET packet == down[p][i]
      c == client[p]
  IN  /\ Deliverable(down[p], i)
      /\ down' = [down EXCEPT ![p] = RemoveAt(@, i)]
      /\ \/ /\ packet.type = "PeerAssigned"
            /\ client' = IF Accept(c, packet)
                         THEN [client EXCEPT ![p].id = packet.id,
                                             ![p].entity = packet.entity]
                         ELSE client
            /\ UNCHANGED received
         \/ /\ packet.type = "Snapshot"
            /\ client' = [client EXCEPT ![p].has = (@ \ packet.leave) \cup packet.enter]
            /\ UNCHANGED received
         \/ /\ packet.type = "Rpc"
            /\ received' = IF ValidEvent(c, packet)
                           THEN received \cup {[ peer |-> p, endpoint |-> packet.endpoint,
                                                 source |-> packet.source,
                                                 target |-> packet.target,
                                                 mine |-> c.entity ]}
                           ELSE received
            /\ UNCHANGED client
      /\ UNCHANGED <<server, listed, up, calls, sends, lives>>

Lose(p, i) ==
  \/ /\ i \in DOMAIN up[p] /\ up[p][i].channel = "unreliable"
     /\ up' = [up EXCEPT ![p] = RemoveAt(@, i)]
     /\ UNCHANGED <<server, listed, client, down, calls, received, sends, lives>>
  \/ /\ i \in DOMAIN down[p] /\ down[p][i].channel = "unreliable"
     /\ down' = [down EXCEPT ![p] = RemoveAt(@, i)]
     /\ UNCHANGED <<server, listed, client, up, calls, received, sends, lives>>

-----------------------------------------------------------------------------
Next ==
  \/ \E p \in Peer :
       \/ \E i \in 1..Len(up[p]) : ServerPacket(p, i)
       \/ \E i \in 1..Len(down[p]) : ClientPacket(p, i)
       \/ \E i \in DOMAIN up[p] \cup DOMAIN down[p] : Lose(p, i)
       \/ \E h \in ClientHash[p] : Connect(p, h)
       \/ \E n \in 0..Len(up[p]) : Disconnect(p, n)
       \/ Start(p)
       \/ RequestFullSnapshot(p)
       \/ \E e \in Endpoint : SendCommand(p, e)
  \/ Update
  \/ SendFullSnapshots
  \/ \E e \in Endpoint : Broadcast(e)
  \/ \E e \in Endpoint, targets \in SUBSET Peer : SendTo(e, targets)
  \/ \E i \in PeerId : RemovePeerEntity(i)

Spec == Init /\ [][Next]_vars

\* Worlds tick, so that queues are emptied, and the reliable channel of a
\* connection delivers.  The first packet of a queue can always be handled.
TakenByServer(p) == up[p] # << >> /\ up' = [up EXCEPT ![p] = Tail(@)]
TakenByClient(p) == down[p] # << >> /\ down' = [down EXCEPT ![p] = Tail(@)]

Fairness ==
  \A p \in Peer :
    /\ WF_client(Start(p))
    /\ WF_up(TakenByServer(p))
    /\ WF_down(TakenByClient(p))

FairSpec == Spec /\ Fairness

-----------------------------------------------------------------------------
\* The state is well formed: ids, references and entities of peers are in
\* one-to-one correspondence, and a peer that was heard of has all three.
SessionTypeOK ==
  /\ server.ids \in [Peer -> 0..(server.nextId - 1)]
  /\ server.nextId \in 1..(Cardinality(Peer) + 1)
  /\ server.seen \cup listed \subseteq Peer
  /\ server.entityOf \in [PeerId -> 0..(server.next - 1)]
  /\ server.status \in [PeerId -> {"none", "Connected", "Disconnected"}]
  /\ server.live \subseteq ToSet(server.entityOf) \ {0}
  /\ \A p, q \in Peer :
       p # q /\ IdOf(server, p) = IdOf(server, q) => IdOf(server, p) = 0
  /\ \A i, j \in PeerId :
       i # j /\ server.entityOf[i] = server.entityOf[j] => server.entityOf[i] = 0
  /\ \A p \in server.seen : IdOf(server, p) # 0 /\ EntityOf(server, p) # 0
  /\ \A p \in Peer : client[p].on <=> p \in listed

\* What a client takes for its peer id and its PeerEntity is what the server
\* has for the client's connection, whichever connection the PeerAssigned was
\* meant for, and only a client of a matching protocol takes any
\* (assertProtocolHashMatch, PeerAssigned in createSyncClient.onPacket).
AssignedMatchesServer ==
  \A p \in Peer :
    client[p].id # 0 =>
      /\ client[p].id = IdOf(server, p)
      /\ client[p].entity = EntityOf(server, p)
      /\ Matches(ServerHash, client[p].hash)

\* A handler of a command sees the PeerEntity of the connection as source, and
\* a peer command has it as target too, whatever connections of the same
\* reference came between (docs/rpc-entity-model.md, Context Types).
CommandsFromSender ==
  \A c \in calls :
    /\ c.source = EntityOf(server, c.peer)
    /\ c.endpoint = "Peer" => c.target = c.source

\* A handler of an event sees the receiver's PeerEntity as target, and as
\* source of a peer event; if the client was assigned one, it is this one.
EventsToReceiver ==
  \A e \in received :
    /\ e.target = EntityOf(server, e.peer)
    /\ e.endpoint = "Peer" => e.source = e.target
    /\ e.mine \in {0, e.target}

\* A client of a matching protocol that stays connected learns who it is and
\* sees its PeerEntity, unless the program removed it.
Joins ==
  \A p \in Peer :
    (p \in listed /\ Matches(ServerHash, client[p].hash)) ~>
      \/ p \notin listed
      \/ /\ client[p].id # 0
         /\ client[p].entity \in server.live => client[p].entity \in client[p].has

\* docs/rpc-entity-model.md: "Each connected peer has one replicated
\* `PeerEntity`."
ConnectedHasEntity ==
  \A i \in PeerId :
    server.status[i] = "Connected" => server.entityOf[i] \in server.live

=============================================================================
