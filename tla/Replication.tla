---------------------------- MODULE Replication ----------------------------
(***************************************************************************)
(* One server world, the server runtime (createSyncServer) that replicates *)
(* it, the transport, and one client world per peer.                       *)
(*                                                                         *)
(* The server sends full snapshots on request and, once per tick, what is  *)
(* dirty, filtered by what each peer may see and is known to have.  All    *)
(* peers share ONE dirty graph; what a peer has is the server's own        *)
(* bookkeeping, never confirmed by the client.                             *)
(*                                                                         *)
(* Packets are handled while a tick drains the transport and edits are     *)
(* made by handlers and systems before the update that ends the tick, so   *)
(* any interleaving of HandlePacket, SendFullSnapshot, Edit and Update is  *)
(* a run of the code.  Peers are numbered in the order in which the        *)
(* transport lists them.                                                   *)
(***************************************************************************)
EXTENDS Snapshot, FiniteSets

CONSTANTS PeerState,       \* the built-in component of a PeerEntity
          PeerPrefab,      \* components of the Peer prefab
          StatusField,     \* the status field of PeerState
          Connected,       \* its values
          Disconnected,
          DefaultVisible,  \* is the default visibility "all"?
          MayHide,         \* does the program call setVisible/clearVisible?
          ListsPeers,      \* does the transport implement peers()?
          Ordered,         \* does the transport carry both channels in one
                           \* ordered stream?
          FullMidTick,     \* may a full snapshot for one peer be sent while
                           \* changes to what others know are unsent?
          MaxEdits,        \* bound on the edits of the world
          MaxInFlight,     \* bound on the packets on their way to a peer
          MaxClosed        \* bound on closed connections

ASSUME ReplicationAssumption ==
  /\ PeerPrefab \subseteq Component
  /\ PeerState \in PeerPrefab \ LocalComponent
  /\ StatusField \in Field
  /\ {Connected, Disconnected} \subseteq Value
  /\ {DefaultVisible, MayHide, ListsPeers, Ordered, FullMidTick} \subseteq BOOLEAN
  /\ {MaxEdits, MaxInFlight, MaxClosed} \subseteq Nat

VARIABLES active,           \* connected peers
          seen,             \* peers that ever sent a packet
          peerEntity,       \* peerEntity[p]: its PeerEntity, or Absent
          override,         \* override[p][e]: visibility set by the program
          knownEntities,    \* knownEntities[p]: entities p is taken to have
          knownComponents,  \* knownComponents[p]: keys p is taken to have
          inOrder,          \* inOrder[p]: packets on their way, first sent first
          loose,            \* loose[p]: unreliable packets on their way
          replica,          \* replica[p]: the world of p's client
          synced,           \* peers whose connection began with no knowledge
                            \* of them, or had a full snapshot sent since
          edits,            \* edits made
          closed            \* connections closed

serverVars == <<active, seen, peerEntity, override, knownEntities, knownComponents>>
netVars == <<inOrder, loose, replica, synced>>
vars == <<worldVars, serverVars, netVars, edits, closed>>

-----------------------------------------------------------------------------
\* Visibility.

Override == {"shown", "hidden", "none"}

\* WorldEntity and what the peer owns are visible whatever was set.
IsVisible(p, e, owners) ==
  \/ e = WorldEntity
  \/ owners[e] = p
  \/ override[p][e] = "shown"
  \/ override[p][e] = "none" /\ DefaultVisible

Visible(p, e) == IsVisible(p, e, owner)

\* May one encoded update packet serve all peers?
CanReusePeerSnapshots ==
  DefaultVisible /\ \A p \in Peer, e \in Entity : override[p][e] = "none"

SetVisible(p, e, o) ==
  /\ MayHide
  /\ e \in Entity \ {WorldEntity}
  /\ e < nextId
  /\ override[p][e] # o
  /\ override' = [override EXCEPT ![p][e] = o]
  /\ UNCHANGED <<worldVars, active, seen, peerEntity, knownEntities,
                 knownComponents>>

-----------------------------------------------------------------------------
\* PeerEntities.

\* What peers() of the world's queued transport returns: nothing at all when
\* the transport under it has no peers().
Listed == IF ListsPeers THEN active ELSE {}

\* currentPeers
Targets == Listed \cup seen

\* PeerEntities of P that can show status s and do not yet.
StatusChanges(P, s) ==
  {peerEntity[p] : p \in {q \in P :
      /\ peerEntity[q] # Absent
      /\ storage[peerEntity[q]][PeerState] # Absent
      /\ storage[peerEntity[q]][PeerState][StatusField] # s}}

StoreWithStatus(P, s) ==
  [e \in Entity |->
     IF e \in StatusChanges(P, s)
     THEN [storage[e] EXCEPT ![PeerState][StatusField] = s]
     ELSE storage[e]]

\* Mutant: the status is stored without a mark.
DirtyWithoutStatus(P, s) == dirty

DirtyWithStatus(P, s) ==
  MarkUpdated(dirty, {<<e, PeerState, StatusField>> :
                        e \in StatusChanges(P, s) \cap replicated})

\* ensurePeerEntity: spawn the Peer prefab, owned by the peer, on its first
\* packet; later packets show it connected.  Sets every variable of the world
\* but the dirty graph.
EnsurePeerEntity(p) ==
  IF peerEntity[p] # Absent
  THEN /\ storage' = StoreWithStatus({p}, Connected)
       /\ UNCHANGED <<entities, replicated, owner, nextId, detached, peerEntity>>
  ELSE /\ nextId \in Entity
       /\ nextId' = nextId + 1
       /\ entities' = entities \cup {nextId}
       /\ storage' = [storage EXCEPT ![nextId] =
                        [c \in Component |->
                           IF c \in PeerPrefab THEN [f \in Field |-> Connected]
                           ELSE Absent]]
       /\ replicated' = IF PeerPrefab \subseteq LocalComponent
                        THEN replicated ELSE replicated \cup {nextId}
       /\ owner' = [owner EXCEPT ![nextId] = p]
       /\ peerEntity' = [peerEntity EXCEPT ![p] = nextId]
       /\ UNCHANGED detached

\* The dirty graph it leaves.
DirtyWithPeerEntity(p) ==
  IF peerEntity[p] # Absent
  THEN DirtyWithStatus({p}, Connected)
  ELSE MarkNetworkChanged(
         MarkComponentsAdded(MarkCreated(dirty, nextId), nextId,
                             PeerPrefab \ LocalComponent),
         nextId)

-----------------------------------------------------------------------------
\* The transport.

\* q with packet x sent to p, unless the connection is closed.
Sent(q, p, x) == IF p \in active THEN [q EXCEPT ![p] = Append(@, x)] ELSE q

HasRoom(p) == Len(inOrder[p]) < MaxInFlight /\ Cardinality(loose[p]) < MaxInFlight

Connect(p) ==
  /\ p \notin active
  /\ \A q \in Peer : q < p => q \in Targets
  /\ active' = active \cup {p}
  /\ synced' = IF knownEntities[p] = {} THEN synced \cup {p} ELSE synced
  /\ UNCHANGED <<worldVars, seen, peerEntity, override, knownEntities,
                 knownComponents, inOrder, loose, replica, edits, closed>>

\* The connection is lost with all its packets, and the client with it; who
\* connects later under this reference starts with an empty world.
Disconnect(p) ==
  /\ p \in active
  /\ closed < MaxClosed
  /\ closed' = closed + 1
  /\ active' = active \ {p}
  /\ inOrder' = [inOrder EXCEPT ![p] = <<>>]
  /\ loose' = [loose EXCEPT ![p] = {}]
  /\ replica' = [replica EXCEPT ![p] = EmptyReplica]
  /\ synced' = synced \ {p}
  /\ UNCHANGED <<worldVars, seen, peerEntity, override, knownEntities,
                 knownComponents, edits>>

\* The client applies the next packet of the ordered stream.
Deliver(p) ==
  /\ inOrder[p] # <<>>
  /\ replica' = [replica EXCEPT ![p] = Apply(@, Head(inOrder[p]))]
  /\ inOrder' = [inOrder EXCEPT ![p] = Tail(@)]
  /\ UNCHANGED <<worldVars, serverVars, loose, synced, edits, closed>>

\* An unreliable packet arrives, in any order, or is lost.
DeliverLoose(p) ==
  \E x \in loose[p] :
    /\ replica' = [replica EXCEPT ![p] = Apply(@, x)]
    /\ loose' = [loose EXCEPT ![p] = @ \ {x}]
    /\ UNCHANGED <<worldVars, serverVars, inOrder, synced, edits, closed>>

LoseLoose(p) ==
  \E x \in loose[p] :
    /\ loose' = [loose EXCEPT ![p] = @ \ {x}]
    /\ UNCHANGED <<worldVars, serverVars, inOrder, replica, synced, edits, closed>>

-----------------------------------------------------------------------------
\* Full snapshots.

\* buildFullOpsForPeer: everything the peer may see, and what it is taken to
\* have but no longer may see or no longer exists.  Local entities and local
\* components are not filtered out.
FullOps(p, ents, store, repl, owners) ==
  LET created   == {e \in ents : IsVisible(p, e, owners)}
      added     == {k \in RecordsIn(store) : IsVisible(p, k[1], owners)}
      destroyed == knownEntities[p] \ created
  IN  [ created   |-> created,
        network   |-> {e \in repl \cap created : owners[e] # Server},
        added     |-> added,
        updated   |-> {},
        removed   |-> {k \in knownComponents[p] \ added : k[1] \notin destroyed},
        destroyed |-> destroyed ]

\* No change to what another peer is known to have is waiting to be sent.
NothingUnsentToOthers(p) ==
  \A q \in Peer \ {p} :
    /\ knownEntities[q] \cap (dirty.network \cup dirty.destroyed) = {}
    /\ knownComponents[q] \cap dirty.removed = {}

\* sendFullSnapshot(peer): what p is known to have is replaced, and what was
\* written is cleared from the graph all peers share.
SendFullSnapshot(p) ==
  LET ops == FullOps(p, entities', storage', replicated', owner')
  IN  /\ HasRoom(p)
      /\ FullMidTick \/ NothingUnsentToOthers(p)
      /\ EnsurePeerEntity(p)
      /\ dirty' = ClearWritten(DirtyWithPeerEntity(p), ops)
      /\ knownEntities' = [knownEntities EXCEPT ![p] =
                             ops.created \cup {k[1] : k \in ops.added}]
      /\ knownComponents' = [knownComponents EXCEPT ![p] = ops.added]
      /\ inOrder' = Sent(inOrder, p, Encode(ops, storage', owner'))
      /\ synced' = synced \cup (active \cap {p})
      /\ UNCHANGED <<active, override, loose, replica, edits, closed>>

\* A Hello or FullSnapshotRequest packet.
HandleHello(p) ==
  /\ p \in active
  /\ seen' = seen \cup {p}
  /\ SendFullSnapshot(p)

\* Any other packet: what its handlers do to the world are edits.
HandlePacket(p) ==
  /\ p \in active
  /\ seen' = seen \cup {p}
  /\ EnsurePeerEntity(p)
  /\ dirty' = DirtyWithPeerEntity(p)
  /\ UNCHANGED <<active, override, knownEntities, knownComponents, netVars,
                 edits, closed>>

\* The server asks for it: start(), or sendFullSnapshot(peer).
ResendFullSnapshot(p) == p \in Targets /\ SendFullSnapshot(p) /\ UNCHANGED seen

-----------------------------------------------------------------------------
\* The update that ends a tick.

Sees(p, e) == Visible(p, e) /\ e \notin dirty.destroyed

\* What p may see and is not taken to have, and the reverse.
Entering(p) == {e \in entities : Sees(p, e)} \ knownEntities[p]

\* Mutant: hiding an entity does not take it away.
LeavingDestroyed(p) == knownEntities[p] \cap dirty.destroyed

Leaving(p) == {e \in knownEntities[p] : ~Sees(p, e)}

\* Mutant: an owner is sent with the creation only.
OwnersOfEntering(p) == {e \in Entering(p) : owner[e] # Server}

\* Entities whose owner p has to be told.
OwnerNews(p) ==
  {e \in Entering(p) : owner[e] # Server} \cup
  {e \in dirty.network \cap knownEntities[p] : Visible(p, e)}

\* buildStructuralOpsForPeer
StructuralOps(p) ==
  [ created   |-> Entering(p),
    network   |-> OwnerNews(p),
    added     |-> {k \in Records : Sees(p, k[1])} \ knownComponents[p],
    updated   |-> {},
    removed   |-> dirty.removed \cap knownComponents[p],
    destroyed |-> Leaving(p) ]

\* applyKnownOps
EntitiesAfter(p, ops) ==
  (knownEntities[p] \ ops.destroyed) \cup ops.created \cup {k[1] : k \in ops.added}

\* Mutant: a destroyed entity is taken to leave its components.
ComponentsKept(p, ops) == (knownComponents[p] \ ops.removed) \cup ops.added

ComponentsAfter(p, ops) ==
  ({k \in knownComponents[p] : k[1] \notin ops.destroyed} \ ops.removed) \cup ops.added

\* Mutant: the filter reads what p had before this update.
UpdateOpsOfBefore(p, known) ==
  [NothingDirty EXCEPT
     !.updated = {b \in dirty.updated : /\ Visible(p, b[1])
                                        /\ <<b[1], b[2]>> \in knownComponents[p]}]

\* buildUpdateOpsForPeer, when p is known to have the components in known
UpdateOps(p, known) ==
  [NothingDirty EXCEPT
     !.updated = {b \in dirty.updated : /\ Visible(p, b[1])
                                        /\ <<b[1], b[2]>> \in known}]

\* An update-only packet, encoded once, does for all peers.
CanShareUpdate ==
  /\ CanReusePeerSnapshots
  /\ Targets # {}
  /\ dirty.updated # {}
  /\ dirty = [NothingDirty EXCEPT !.updated = dirty.updated]
  /\ \A p \in Targets, b \in dirty.updated : <<b[1], b[2]>> \in knownComponents[p]

\* q and u after the packets x[p] of kind "structural" or "update" were sent
\* to the peers p in S.
SentAll(q, S, x) ==
  [p \in Peer |-> IF p \in S \cap active THEN q[p] \o x[p] ELSE q[p]]

\* Peers that markDisconnectedPeers takes to have left.
Gone == seen \ Listed

\* The store and the graph once peers that left are shown as disconnected.
StoreShowingGone == StoreWithStatus(Gone, Disconnected)

DirtyShowingGone == DirtyWithStatus(Gone, Disconnected)

\* loose after the packets x[p] were sent to the peers p in S on a channel
\* that keeps no order.
LooseAll(S, x) ==
  [p \in Peer |-> IF p \in S \cap active
                  THEN loose[p] \cup {x[p][i] : i \in DOMAIN x[p]}
                  ELSE loose[p]]

\* One shared packet, or an exception before anything is sent.
UpdateShared ==
  LET ops == [NothingDirty EXCEPT !.updated = dirty.updated]
      x   == [p \in Peer |-> <<Encode(ops, StoreShowingGone, owner)>>]
  IN  /\ IF Encodable(ops, StoreShowingGone)
         THEN /\ dirty' = ClearWritten(DirtyShowingGone, dirty)
              /\ inOrder' = IF Ordered THEN SentAll(inOrder, Targets, x) ELSE inOrder
              /\ loose' = IF Ordered THEN loose ELSE LooseAll(Targets, x)
         ELSE /\ dirty' = DirtyShowingGone
              /\ UNCHANGED <<inOrder, loose>>
      /\ UNCHANGED <<knownEntities, knownComponents>>

\* What p has after its structural packet, and the field deltas of that.
ComponentsNext(p) == ComponentsAfter(p, StructuralOps(p))

Deltas(p) == UpdateOps(p, ComponentsNext(p))

\* A delta without its record throws: the peers after that one get nothing.
DeltaEncodes(p) == Encodable(Deltas(p), StoreShowingGone)

Reached(p) == p \in Targets /\ \A q \in Targets : q < p => DeltaEncodes(q)

StructuralPackets(p) ==
  IF HasOps(StructuralOps(p))
  THEN <<Encode(StructuralOps(p), StoreShowingGone, owner)>> ELSE <<>>

DeltaPackets(p) ==
  IF DeltaEncodes(p) /\ HasOps(Deltas(p))
  THEN <<Encode(Deltas(p), StoreShowingGone, owner)>> ELSE <<>>

\* Peer by peer: first what changed in structure, then the field deltas of
\* what the peer now has.  After an exception the graph is not cleared.
UpdateEach ==
  LET reached == {p \in Peer : Reached(p)}
      deltas  == [p \in Peer |-> DeltaPackets(p)]
  IN  /\ knownEntities' = [p \in Peer |->
           IF p \in reached THEN EntitiesAfter(p, StructuralOps(p)) ELSE knownEntities[p]]
      /\ knownComponents' = [p \in Peer |->
           IF p \in reached THEN ComponentsNext(p) ELSE knownComponents[p]]
      /\ inOrder' = SentAll(inOrder, reached, [p \in Peer |->
           StructuralPackets(p) \o (IF Ordered THEN deltas[p] ELSE <<>>)])
      /\ loose' = IF Ordered THEN loose ELSE LooseAll(reached, deltas)
      /\ dirty' = IF \A p \in Targets : DeltaEncodes(p)
                  THEN ClearWritten(DirtyShowingGone, dirty)
                  ELSE DirtyShowingGone

\* update(): the graph is read first, then peers that left are shown as
\* disconnected, then packets are sent.
Update ==
  /\ \A p \in active : HasRoom(p)
  /\ storage' = StoreShowingGone
  /\ IF CanShareUpdate THEN UpdateShared ELSE UpdateEach
  /\ UNCHANGED <<entities, replicated, owner, nextId, detached, active, seen,
                 peerEntity, override, replica, synced, edits, closed>>

-----------------------------------------------------------------------------

Init ==
  /\ WorldInit
  /\ active = {}
  /\ seen = {}
  /\ peerEntity = [p \in Peer |-> Absent]
  /\ override = [p \in Peer |-> [e \in Entity |-> "none"]]
  /\ knownEntities = [p \in Peer |-> {}]
  /\ knownComponents = [p \in Peer |-> {}]
  /\ inOrder = [p \in Peer |-> <<>>]
  /\ loose = [p \in Peer |-> {}]
  /\ replica = [p \in Peer |-> EmptyReplica]
  /\ synced = {}
  /\ edits = 0
  /\ closed = 0

EditWorld ==
  /\ edits < MaxEdits
  /\ edits' = edits + 1
  /\ \/ Edit /\ UNCHANGED serverVars
     \/ \E p \in Peer, e \in Entity, o \in Override : SetVisible(p, e, o)
  /\ UNCHANGED <<netVars, closed>>

Next ==
  \/ EditWorld
  \/ Update
  \/ \E p \in Peer : \/ Connect(p)
                    \/ Disconnect(p)
                    \/ HandleHello(p)
                    \/ HandlePacket(p)
                    \/ ResendFullSnapshot(p)
                    \/ Deliver(p)
                    \/ DeliverLoose(p)
                    \/ LoseLoose(p)

Spec == Init /\ [][Next]_vars

\* The engine calls update every tick and the reliable channel delivers.
\* Strong fairness: what disables Update is only the bound on packets in
\* flight, which the code does not have.
FairSpec == Spec /\ SF_vars(Update) /\ \A p \in Peer : WF_vars(Deliver(p))

-----------------------------------------------------------------------------

\* The types of the server's bookkeeping, of packets and of client worlds.
ReplicationTypeOK ==
  /\ WorldTypeOK
  /\ active \subseteq Peer /\ seen \subseteq Peer /\ synced \subseteq Peer
  /\ peerEntity \in [Peer -> Entity \cup {Absent}]
  /\ override \in [Peer -> [Entity -> Override]]
  /\ knownEntities \in [Peer -> SUBSET Entity]
  /\ knownComponents \in [Peer -> SUBSET ComponentKey]
  /\ \A p \in Peer :
       /\ \A i \in 1..Len(inOrder[p]) : inOrder[p][i] \in Packet
       /\ loose[p] \subseteq Packet
       /\ replica[p].entities \subseteq Entity
       /\ replica[p].owner \in [Entity -> Peer \cup {Server}]

\* The world of p's client once the ordered stream has arrived.
Future(p) == Replayed(replica[p], inOrder[p])

\* What the server takes a peer to have is what its client will have when
\* the packets on their way have arrived, no matter which visibility changes,
\* destructions, full snapshots and lost updates came between.  Every later
\* filter of the runtime rests on this bookkeeping.
KnownMatchesReplica ==
  \A p \in synced :
    /\ Future(p).entities = knownEntities[p] \cup {WorldEntity}
    /\ RecordsIn(Future(p).storage) = knownComponents[p]

\* Whatever a peer has that no longer exists, some coming update still takes
\* away: it is marked, or no longer visible to that peer.
NoGhosts ==
  \A p \in synced :
    LET leaving == dirty.destroyed \cup {e \in Entity : ~Visible(p, e)}
    IN  /\ knownEntities[p] \ entities \subseteq leaving
        /\ \A k \in knownComponents[p] \ Records :
             k \in dirty.removed \/ k[1] \in leaving

\* A peer knows the owner of every replicated entity it has, unless the
\* change is still marked.
OwnersAgree ==
  \A p \in synced : \A e \in knownEntities[p] \cap replicated :
    e \in dirty.network \/ Future(p).owner[e] = owner[e]

\* In an ordered transport a peer has the current value of every field it
\* has, unless the field is still marked.
ValuesAgree ==
  \A p \in synced : \A k \in knownComponents[p] \cap Records, f \in Field :
    \/ <<k[1], k[2], f>> \in dirty.updated
    \/ /\ Future(p).storage[k[1]][k[2]] # Absent
       /\ Future(p).storage[k[1]][k[2]][f] = storage[k[1]][k[2]][f]

\* A removed component may still be written to, in the tick of its removal
\* and later: for a synced peer no delta is ever encoded whose record is gone,
\* so the exception that would end the update, and leave every mark for the
\* next one to fail on again, is not reached.  (A peer that leaves before its
\* first packet is no target while it is away.  If it comes back it may be
\* taken to have what was removed since, until it gets a full snapshot.)
DeltasEncodable ==
  \A p \in synced :
    Encodable(Deltas(p), storage)

\* Each update that goes from peer to peer leaves every peer with exactly
\* what it may see, whatever was shown, hidden, created or destroyed since the
\* last one, by whichever calls, and whatever full snapshots came between.
UpdateReconciles ==
  [][ Update /\ ~CanShareUpdate =>
      \A p \in synced :
        /\ knownEntities'[p] = {e \in entities : Visible(p, e)}
        /\ knownComponents'[p] = {k \in Records : Visible(p, k[1])} ]_vars

\* What p should have.
VisibleView(p) ==
  [ entities |-> {e \in entities : Visible(p, e)},
    storage  |-> [e \in Entity |-> IF Visible(p, e) THEN storage[e] ELSE NoRecords],
    owner    |-> [e \in Entity |-> IF Visible(p, e) THEN owner[e] ELSE Server] ]

\* When the program stops changing the world, every connected client ends up
\* with exactly what it may see, and stays there.
Converges == \A p \in Peer : <>[](p \in synced => replica[p] = VisibleView(p))

-----------------------------------------------------------------------------
\* What the documentation says of the runtime, and this code does not do.

\* Local state never enters the snapshot stream (README.md:227): no packet
\* carries a local component, or creates an entity without a replicated one.
LocalStateStaysLocal ==
  \A p \in Peer : \A i \in 1..Len(inOrder[p]) :
    LET x == inOrder[p][i]
    IN  /\ \A a \in x.add : a[2] \in ReplicatedComponent
        /\ \A e \in x.create \ {WorldEntity} :
             \E a \in x.add : a[1] = e /\ a[2] \in ReplicatedComponent

\* "Each connected peer has one replicated PeerEntity"
\* (docs/rpc-entity-model.md:95): where everything is visible, an update
\* leaves no peer without the PeerEntity of another.
PeersAreShown ==
  [][ Update /\ CanReusePeerSnapshots =>
        \A p, q \in synced :
          peerEntity[q] \in entities => peerEntity[q] \in knownEntities'[p] ]_vars

\* An update shows no peer as disconnected that is connected: the status is
\* changed "on disconnect" (docs/rpc-entity-model.md:99), and peers() is
\* optional in a transport (README.md:266).
ConnectedStaysConnected ==
  [][ Update =>
        \A p \in active :
          (peerEntity[p] # Absent /\ HasRecord(peerEntity[p], PeerState)) =>
            (storage[peerEntity[p]][PeerState][StatusField] = Connected =>
               storage'[peerEntity[p]][PeerState][StatusField] = Connected) ]_vars
=============================================================================
