------------------------- MODULE ReplicationProofs -------------------------
(***************************************************************************)
(* For all values of the constants: the server's bookkeeping of what its   *)
(* peers have, and the packets and client worlds it is about.              *)
(*                                                                         *)
(* BaseInv holds the types, and what the server's world, its marks, a      *)
(* closed connection and an unreliable packet always satisfy.  It assumes  *)
(* nothing of the program or the transport; what more is proved of the     *)
(* server rests on it.  KnowledgeInv adds that the bookkeeping is exact.   *)
(***************************************************************************)
EXTENDS Replication, SnapshotProofs, SequenceTheorems

\* What holds of a store and of the set of replicated entities.
StoreOK ==
  /\ entities \subseteq Entity
  /\ storage \in Stores
  /\ replicated \subseteq Entity
  /\ owner \in [Entity -> Peer \cup {Server}]
  /\ nextId \in Nat
  /\ detached \subseteq ComponentKey
  /\ \A k \in detached : k[2] \in ReplicatedComponent
  /\ NoLeftovers
  /\ ReplicatedIffComponent

\* Graph d marks what is in a store, and the world entity is never going.
MarksOK(d, store, repl) ==
  /\ d \in DirtyOps
  /\ \A k \in d.added : k[2] \in ReplicatedComponent /\ store[k[1]][k[2]] # Absent
  /\ \A k \in d.removed : k[2] \in ReplicatedComponent /\ store[k[1]][k[2]] = Absent
  /\ \A b \in d.updated : b[2] \in ReplicatedComponent
  /\ d.network \subseteq repl /\ WorldEntity \notin d.network
  /\ d.destroyed \cap (repl \cup d.created) = {}
  /\ WorldEntity \notin d.destroyed

WorldStays == WorldEntity \notin dirty.destroyed

ServerTypeOK ==
  /\ active \subseteq Peer /\ seen \subseteq Peer /\ synced \subseteq active
  /\ peerEntity \in [Peer -> Entity \cup {Absent}]
  /\ override \in [Peer -> [Entity -> Override]]
  /\ knownEntities \in [Peer -> SUBSET Entity]
  /\ knownComponents \in [Peer -> SUBSET ComponentKey]
  /\ inOrder \in [Peer -> Seq(Packet)]
  /\ loose \in [Peer -> SUBSET Packet]
  /\ replica \in [Peer -> Replicas]

\* A closed connection has no packets and no client; unreliable packets hold
\* field updates only; what is known of a component is known of its entity.
ChannelsOK ==
  /\ \A p \in Peer \ active :
       inOrder[p] = <<>> /\ loose[p] = {} /\ replica[p] = EmptyReplica
  /\ \A p \in Peer : \A x \in loose[p] : OnlyUpdates(x)
  /\ \A p \in Peer : \A k \in knownComponents[p] : k[1] \in knownEntities[p]

BaseInv ==
  /\ StoreOK
  /\ MarksOK(dirty, storage, replicated)
  /\ ServerTypeOK
  /\ ChannelsOK

-----------------------------------------------------------------------------
\* The world of a server.

LEMMA WorldInvSplit ==
  WorldInv /\ WorldStays <=> StoreOK /\ MarksOK(dirty, storage, replicated)
  BY DEF WorldInv, WorldTypeOK, MarksMatchStore, MarksAreReplicated, WorldStays,
         StoreOK, MarksOK, Stores, HasRecord, DirtyOps, ComponentKey

\* No edit marks the world entity as destroyed.
LEMMA EditKeepsWorld == ASSUME WorldInv, WorldStays, Edit PROVE WorldStays'
<1> USE DEF WorldStays, WorldInv, WorldTypeOK
<1>1. ASSUME NEW B \in Bundle, NEW v \in Value, Spawn(B, v) PROVE WorldStays'
  <2> PICK e \in Entity : e = nextId
    BY <1>1 DEF Spawn
  <2> DEFINE C == B \ LocalComponent
             d == MarkCreated(dirty, e)
  <2>1. d \in DirtyOps /\ d.destroyed = dirty.destroyed \ {e}
    BY MarkCreatedFacts
  <2>2. dirty' = MarkComponentsAdded(d, e, C) /\ C \in SUBSET Component
    BY <1>1, WorldAssumption DEF Spawn
  <2> HIDE DEF d, C
  <2>3. CASE C = {}
    BY <2>1, <2>2, <2>3 DEF MarkComponentsAdded
  <2>4. CASE C # {}
    <3>1. MarkComponentsAdded(d, e, C).destroyed \subseteq d.destroyed \ {e}
      BY <2>1, <2>2, <2>4, MarkComponentsAddedFacts
    <3>. QED  BY <2>1, <2>2, <3>1
  <2>. QED  BY <2>3, <2>4
<1>2. ASSUME NEW e \in Entity, NEW B \in Bundle, NEW v \in Value, Add(e, B, v)
      PROVE  WorldStays'
  <2> DEFINE C == {c \in B : ~HasRecord(e, c)} \ LocalComponent
  <2>1. dirty' = MarkComponentsAdded(dirty, e, C) /\ C \in SUBSET Component
    BY <1>2, WorldAssumption DEF Add
  <2> HIDE DEF C
  <2>2. CASE C = {}
    BY <2>1, <2>2 DEF MarkComponentsAdded
  <2>3. CASE C # {}
    <3>1. MarkComponentsAdded(dirty, e, C).destroyed \subseteq dirty.destroyed \ {e}
      BY <2>1, <2>3, MarkComponentsAddedFacts DEF MarksMatchStore
    <3>. QED  BY <2>1, <3>1
  <2>. QED  BY <2>2, <2>3
<1>3. ASSUME NEW e \in Entity, NEW B \in Bundle, Remove(e, B) PROVE WorldStays'
  <2> DEFINE gone   == {c \in B : HasRecord(e, c)}
             K      == KeysOf(e, gone \ LocalComponent)
             marked == MarkRemoved(dirty, K)
  <2>1. K \in SUBSET ComponentKey
    BY WorldAssumption DEF KeysOf, ComponentKey
  <2>2. dirty' = marked \/ (e # WorldEntity /\ dirty' = MarkDestroyed(marked, e))
    BY <1>3 DEF Remove
  <2> HIDE DEF K
  <2>3. marked \in DirtyOps /\ marked.destroyed = dirty.destroyed
    BY <2>1, MarkRemovedFacts
  <2> HIDE DEF marked
  <2>. QED  BY <2>2, <2>3, MarkDestroyedFacts
<1>4. ASSUME NEW e \in Entity, Destroy(e) PROVE WorldStays'
  BY <1>4, MarkDestroyedFacts DEF Destroy
<1>5. ASSUME NEW e \in Entity, NEW p \in Peer \cup {Server}, SetOwner(e, p)
      PROVE  WorldStays'
  BY <1>5, MarkNetworkChangedFacts DEF SetOwner
<1>6. ASSUME NEW e \in Entity, NEW c \in Component, NEW f \in Field, NEW v \in Value,
             Write(e, c, f, v)
      PROVE  WorldStays'
  <2>1. {<<e, c, f>>} \in SUBSET DirtyBit
    BY DEF DirtyBit
  <2>. QED  BY <1>6, <2>1, MarkUpdatedFacts DEF Write
<1>7. ASSUME NEW e \in Entity, NEW c \in Component, NEW f \in Field, StaleWrite(e, c, f)
      PROVE  WorldStays'
  <2>1. {<<e, c, f>>} \in SUBSET DirtyBit
    BY DEF DirtyBit
  <2>. QED  BY <1>7, <2>1, MarkUpdatedFacts DEF StaleWrite
<1> HIDE DEF WorldStays, WorldInv, WorldTypeOK
<1>. QED  BY <1>1, <1>2, <1>3, <1>4, <1>5, <1>6, <1>7 DEF Edit

LEMMA EditBase ==
  ASSUME StoreOK, MarksOK(dirty, storage, replicated), Edit
  PROVE  StoreOK' /\ MarksOK(dirty, storage, replicated)'
<1>1. WorldInv /\ WorldStays
  BY WorldInvSplit
<1>2. WorldInv'
  BY <1>1, EditInv
<1>3. WorldStays'
  BY <1>1, EditKeepsWorld
<1>4. (WorldInv /\ WorldStays <=> StoreOK /\ MarksOK(dirty, storage, replicated))'
  BY WorldInvSplit, PTL
<1>. QED  BY <1>2, <1>3, <1>4

\* Marks that are cleared leave marks that are right.
LEMMA ClearedMarksOK ==
  ASSUME NEW d, NEW store, NEW repl, MarksOK(d, store, repl), NEW ops
  PROVE  MarksOK(ClearWritten(d, ops), store, repl)
<1>1. d \in DirtyOps
  BY DEF MarksOK
<1>. QED  BY <1>1, ClearWrittenFacts DEF MarksOK

-----------------------------------------------------------------------------
\* PeerEntities.

\* A new status changes one field of records that are there.
LEMMA StatusStore ==
  ASSUME StoreOK, NEW P, NEW s \in Value
  PROVE  /\ StoreWithStatus(P, s) \in Stores
         /\ \A e \in Entity, c \in Component :
              StoreWithStatus(P, s)[e][c] = Absent <=> storage[e][c] = Absent
         /\ \A e \in Entity, c \in Component :
              ~(e \in StatusChanges(P, s) /\ c = PeerState)
                => StoreWithStatus(P, s)[e][c] = storage[e][c]
         /\ \A e \in Entity, c \in Component, f \in Field :
              f # StatusField /\ storage[e][c] # Absent
                => StoreWithStatus(P, s)[e][c][f] = storage[e][c][f]
<1> DEFINE st == StoreWithStatus(P, s)
<1>1. ASSUME NEW e \in Entity, e \in StatusChanges(P, s)
      PROVE  storage[e][PeerState] # Absent
  BY <1>1 DEF StatusChanges
<1>2. st = [e \in Entity |-> IF e \in StatusChanges(P, s)
                             THEN [storage[e] EXCEPT ![PeerState][StatusField] = s]
                             ELSE storage[e]]
  BY DEF StoreWithStatus
<1>3. storage \in Stores /\ PeerState \in Component /\ StatusField \in Field /\ Absent \notin Row
  BY ReplicationAssumption, WorldAssumption DEF StoreOK
<1> HIDE DEF st
<1>4. ASSUME NEW e \in Entity
      PROVE  /\ st[e] \in [Component -> Row \cup {Absent}]
             /\ \A c \in Component : st[e][c] = Absent <=> storage[e][c] = Absent
             /\ \A c \in Component : ~(e \in StatusChanges(P, s) /\ c = PeerState)
                                       => st[e][c] = storage[e][c]
             /\ \A c \in Component, f \in Field :
                  f # StatusField /\ storage[e][c] # Absent => st[e][c][f] = storage[e][c][f]
  <2>1. CASE e \notin StatusChanges(P, s)
    BY <1>2, <1>3, <2>1 DEF Stores
  <2>2. CASE e \in StatusChanges(P, s)
    <3> DEFINE old == storage[e][PeerState]
               new == [old EXCEPT ![StatusField] = s]
    <3>1. old \in Row
      BY <1>1, <1>3, <2>2 DEF Stores
    <3>2. new \in Row
      BY <1>3, <3>1 DEF Row
    <3>3. st[e] = [storage[e] EXCEPT ![PeerState] = new]
      BY <1>2, <2>2
    <3>4. storage[e] \in [Component -> Row \cup {Absent}]
      BY <1>3 DEF Stores
    <3>5. \A f \in Field : f # StatusField => new[f] = old[f]
      BY <1>3, <3>1 DEF Row
    <3>6. old # Absent
      BY <1>3, <3>1
    <3> HIDE DEF new
    <3>7. st[e] \in [Component -> Row \cup {Absent}] /\ st[e][PeerState] = new
      BY <1>3, <3>2, <3>3, <3>4
    <3>8. \A c \in Component : c # PeerState => st[e][c] = storage[e][c]
      BY <3>3, <3>4
    <3>. QED  BY <1>3, <2>2, <3>2, <3>5, <3>6, <3>7, <3>8
  <2>. QED  BY <2>1, <2>2
<1>5. st = [e \in Entity |-> st[e]]
  BY <1>2
<1>6. st \in Stores
  BY <1>4, <1>5 DEF Stores
<1>. QED  BY <1>4, <1>6 DEF st

\* It is marked unless the record is new.
LEMMA StatusMarks ==
  ASSUME StoreOK, MarksOK(dirty, storage, replicated), NEW P, NEW s \in Value
  PROVE  LET n == DirtyWithStatus(P, s)
         IN  /\ MarksOK(n, StoreWithStatus(P, s), replicated)
             /\ n.created = dirty.created /\ n.network = dirty.network
             /\ n.added = dirty.added /\ n.removed = dirty.removed
             /\ n.destroyed = dirty.destroyed /\ dirty.updated \subseteq n.updated
             /\ \A b \in n.updated \ dirty.updated :
                  /\ b[1] \in replicated /\ b[2] = PeerState
                  /\ storage[b[1]][b[2]] # Absent /\ <<b[1], b[2]>> \notin dirty.added
<1> DEFINE U == {<<e, PeerState, StatusField>> : e \in StatusChanges(P, s) \cap replicated}
           n == MarkUpdated(dirty, U)
<1>1. U \in SUBSET DirtyBit
  <2>1. replicated \subseteq Entity /\ PeerState \in Component /\ StatusField \in Field
    BY ReplicationAssumption DEF StoreOK
  <2>2. \A e \in replicated : <<e, PeerState, StatusField>> \in DirtyBit
    BY <2>1 DEF DirtyBit
  <2>. QED  BY <2>2
<1>2. /\ n \in DirtyOps
      /\ n.created = dirty.created
      /\ n.network = dirty.network
      /\ n.added = dirty.added
      /\ dirty.updated \subseteq n.updated
      /\ \A b \in n.updated : b \in dirty.updated \/ (b \in U /\ <<b[1], b[2]>> \notin dirty.added)
      /\ n.removed = dirty.removed
      /\ n.destroyed = dirty.destroyed
  <2>1. dirty \in DirtyOps
    BY DEF MarksOK
  <2> HIDE DEF U
  <2>. QED  BY <1>1, <2>1, MarkUpdatedFacts
<1>3. \A b \in U : /\ b[1] \in replicated /\ b[2] = PeerState /\ b[2] \in ReplicatedComponent
                   /\ storage[b[1]][b[2]] # Absent
  BY ReplicationAssumption, WorldAssumption DEF StatusChanges, ReplicatedComponent
<1>4. DirtyWithStatus(P, s) = n
  BY DEF DirtyWithStatus
<1> HIDE DEF n, U
<1>5. MarksOK(n, StoreWithStatus(P, s), replicated)
  <2>1. \A e \in Entity, c \in Component :
          StoreWithStatus(P, s)[e][c] = Absent <=> storage[e][c] = Absent
    BY StatusStore
  <2>2. /\ \A k \in dirty.added : k[1] \in Entity /\ k[2] \in Component
        /\ \A k \in dirty.removed : k[1] \in Entity /\ k[2] \in Component
    BY DEF MarksOK, DirtyOps, ComponentKey
  <2> DEFINE st == StoreWithStatus(P, s)
  <2>3. /\ \A k \in n.added : k[2] \in ReplicatedComponent /\ st[k[1]][k[2]] # Absent
        /\ \A k \in n.removed : k[2] \in ReplicatedComponent /\ st[k[1]][k[2]] = Absent
    <3> HIDE DEF st
    <3>. QED  BY <1>2, <2>1, <2>2 DEF MarksOK, st
  <2>4. \A b \in n.updated : b[2] \in ReplicatedComponent
    BY <1>2, <1>3 DEF MarksOK
  <2>5. /\ n.network \subseteq replicated /\ WorldEntity \notin n.network
        /\ n.destroyed \cap (replicated \cup n.created) = {}
        /\ WorldEntity \notin n.destroyed
    BY <1>2 DEF MarksOK
  <2>. QED  BY <1>2, <2>3, <2>4, <2>5 DEF MarksOK
<1>. QED  BY <1>2, <1>3, <1>4, <1>5

\* Statuses change no structure.
LEMMA StatusKeepsStore ==
  ASSUME StoreOK, NEW P, NEW s \in Value, storage' = StoreWithStatus(P, s),
         UNCHANGED <<entities, replicated, owner, nextId, detached>>
  PROVE  StoreOK'
<1>1. storage' \in Stores
  BY StatusStore
<1>2. \A e \in Entity, c \in Component : storage'[e][c] = Absent <=> storage[e][c] = Absent
  BY StatusStore
<1>3. \A e \in Entity \ entities : storage'[e] = NoRecords
  <2> TAKE e \in Entity \ entities
  <2>1. storage[e] = NoRecords
    BY DEF StoreOK, NoLeftovers
  <2>2. \A c \in Component : storage'[e][c] = Absent
    BY <1>2, <2>1 DEF NoRecords
  <2>. QED  BY <1>1, <2>2 DEF Stores, NoRecords
<1>4. NoLeftovers'
  BY <1>3 DEF StoreOK, NoLeftovers
<1>5. ReplicatedIffComponent'
  BY <1>2 DEF StoreOK, ReplicatedIffComponent, HasRecord, ReplicatedComponent
<1>. QED  BY <1>1, <1>4, <1>5 DEF StoreOK, ReplicatedComponent

\* The graph after the PeerEntity of p was spawned.
LEMMA NewPeerEntityMarks ==
  ASSUME StoreOK, MarksOK(dirty, storage, replicated), NEW p \in Peer,
         peerEntity[p] = Absent, nextId \in Entity
  PROVE  LET n == DirtyWithPeerEntity(p)
             K == KeysOf(nextId, PeerPrefab \ LocalComponent)
         IN  /\ n \in DirtyOps
             /\ n.created = dirty.created \cup {nextId}
             /\ n.network = dirty.network \cup {nextId}
             /\ n.added = dirty.added \cup K
             /\ n.updated = dirty.updated \ OfEntity(dirty.updated, nextId)
             /\ n.removed = dirty.removed \ K
             /\ n.destroyed = dirty.destroyed \ {nextId}
<1> DEFINE e == nextId
           C == PeerPrefab \ LocalComponent
           d == MarkCreated(dirty, e)
           m == MarkComponentsAdded(d, e, C)
<1>1. /\ C \in SUBSET Component /\ C # {} /\ KeysOf(e, C) \in SUBSET ComponentKey
  BY ReplicationAssumption DEF KeysOf, ComponentKey
<1>2. e \notin replicated /\ owner[e] = Server
  <2>1. e \notin entities
    BY DEF StoreOK, NoLeftovers
  <2>2. \A c \in Component : storage[e][c] = Absent
    BY <2>1 DEF StoreOK, NoLeftovers, NoRecords
  <2>3. e \notin replicated
    BY <2>2 DEF StoreOK, ReplicatedIffComponent, HasRecord, ReplicatedComponent
  <2>. QED  BY <2>1, <2>3 DEF StoreOK, NoLeftovers
<1>3. /\ d \in DirtyOps
      /\ d.created = dirty.created \cup {e} /\ d.network = dirty.network \ {e}
      /\ d.added = dirty.added /\ d.updated = dirty.updated \ OfEntity(dirty.updated, e)
      /\ d.removed = dirty.removed /\ d.destroyed = dirty.destroyed \ {e}
  BY DEF MarkCreated, DirtyOps, MarksOK, OfEntity
<1>4. MarkCreated(d, e) \in DirtyOps /\ MarkCreated(d, e).created = d.created \cup {e}
      /\ MarkCreated(d, e).network = d.network \ {e}
      /\ MarkCreated(d, e).added = d.added
      /\ MarkCreated(d, e).updated = d.updated \ OfEntity(d.updated, e)
      /\ MarkCreated(d, e).removed = d.removed
      /\ MarkCreated(d, e).destroyed = d.destroyed \ {e}
  BY <1>3 DEF MarkCreated, DirtyOps, OfEntity
<1>5. m = MarkAdded(MarkCreated(d, e), e, KeysOf(e, C))
  BY <1>1, <1>2 DEF MarkComponentsAdded, MarkEntityReplicated
<1>6. /\ m \in DirtyOps
      /\ m.created = d.created \cup {e} /\ m.network = d.network \ {e}
      /\ m.added = d.added \cup KeysOf(e, C)
      /\ m.updated = d.updated \ OfEntity(d.updated, e)
      /\ m.removed = d.removed \ KeysOf(e, C)
      /\ m.destroyed = d.destroyed \ {e}
  <2> DEFINE x == MarkCreated(d, e)
  <2>1. x \in DirtyOps /\ e \notin x.destroyed
    BY <1>4
  <2>2. m = MarkAdded(x, e, KeysOf(e, C))
    BY <1>5
  <2> HIDE DEF x, d, m, C
  <2>3. /\ m \in DirtyOps /\ m.created = x.created /\ m.network = x.network
        /\ m.added = x.added \cup KeysOf(e, C) /\ m.updated = x.updated
        /\ m.removed = x.removed \ KeysOf(e, C) /\ m.destroyed = x.destroyed
    BY <1>1, <2>1, <2>2, MarkAddedFacts
  <2>. QED  BY <1>4, <2>3 DEF x
<1>7. DirtyWithPeerEntity(p) = MarkNetworkChanged(m, e)
  BY DEF DirtyWithPeerEntity
<1>8. MarkNetworkChanged(m, e) = [m EXCEPT !.network = @ \cup {e}]
  BY <1>3, <1>6 DEF MarkNetworkChanged
<1> HIDE DEF m, d
<1>10. m.updated = dirty.updated \ OfEntity(dirty.updated, e)
  BY <1>3, <1>6 DEF OfEntity
<1>11. LET n == MarkNetworkChanged(m, e)
       IN  /\ n \in DirtyOps
           /\ n.created = m.created /\ n.network = m.network \cup {e}
           /\ n.added = m.added /\ n.updated = m.updated
           /\ n.removed = m.removed /\ n.destroyed = m.destroyed
  BY <1>6, <1>8 DEF DirtyOps
<1> DEFINE n == MarkNetworkChanged(m, e)
           K == KeysOf(e, C)
<1>12. /\ n \in DirtyOps
       /\ n.created = dirty.created \cup {e}
       /\ n.network = dirty.network \cup {e}
       /\ n.added = dirty.added \cup K
       /\ n.updated = dirty.updated \ OfEntity(dirty.updated, e)
       /\ n.removed = dirty.removed \ K
       /\ n.destroyed = dirty.destroyed \ {e}
  <2> HIDE DEF n, K
  <2>1. /\ n \in DirtyOps
        /\ n.created = m.created /\ n.network = m.network \cup {e}
        /\ n.added = m.added /\ n.updated = m.updated
        /\ n.removed = m.removed /\ n.destroyed = m.destroyed
    BY <1>11 DEF n
  <2>2. m.added = d.added \cup K /\ m.removed = d.removed \ K
    BY <1>6 DEF K
  <2>. QED  BY <1>3, <1>6, <1>10, <2>1, <2>2
<1>. QED  BY <1>7, <1>12

\* ensurePeerEntity keeps the store and the marks right.
LEMMA EnsureBase ==
  ASSUME StoreOK, MarksOK(dirty, storage, replicated),
         peerEntity \in [Peer -> Entity \cup {Absent}],
         NEW p \in Peer, EnsurePeerEntity(p)
  PROVE  /\ StoreOK'
         /\ MarksOK(DirtyWithPeerEntity(p), storage', replicated')
         /\ peerEntity' \in [Peer -> Entity \cup {Absent}]
<1>1. CASE peerEntity[p] # Absent
  <2>1. /\ storage' = StoreWithStatus({p}, Connected)
        /\ UNCHANGED <<entities, replicated, owner, nextId, detached, peerEntity>>
    BY <1>1 DEF EnsurePeerEntity
  <2>2. DirtyWithPeerEntity(p) = DirtyWithStatus({p}, Connected)
    BY <1>1 DEF DirtyWithPeerEntity
  <2>3. Connected \in Value
    BY ReplicationAssumption
  <2>4. MarksOK(DirtyWithStatus({p}, Connected), StoreWithStatus({p}, Connected), replicated)
    BY <2>3, StatusMarks
  <2>. QED  BY <2>1, <2>2, <2>3, <2>4, StatusKeepsStore
<1>2. CASE peerEntity[p] = Absent
  <2> DEFINE e   == nextId
             C   == PeerPrefab \ LocalComponent
             row == [f \in Field |-> Connected]
  <2>1. /\ e \in Entity
        /\ nextId' = e + 1
        /\ entities' = entities \cup {e}
        /\ storage' = [storage EXCEPT ![e] =
                         [c \in Component |-> IF c \in PeerPrefab THEN row ELSE Absent]]
        /\ replicated' = replicated \cup {e}
        /\ owner' = [owner EXCEPT ![e] = p]
        /\ peerEntity' = [peerEntity EXCEPT ![p] = e]
        /\ UNCHANGED detached
    BY <1>2, ReplicationAssumption DEF EnsurePeerEntity
  <2>2. row \in Row /\ Absent \notin Row /\ PeerPrefab \subseteq Component
    BY ReplicationAssumption, WorldAssumption DEF Row
  <2> HIDE DEF row
  <2>3. /\ e # WorldEntity /\ e \notin entities /\ e \in Nat
        /\ \A a \in entities : a < e
    BY DEF StoreOK, NoLeftovers
  <2>4. storage' \in Stores
    BY <2>1, <2>2 DEF StoreOK, Stores
  <2>5. \A a \in Entity, c \in Component :
          storage'[a][c] # Absent <=> storage[a][c] # Absent \/ (a = e /\ c \in PeerPrefab)
    <3>1. \A c \in Component : storage[e][c] = Absent
      BY <2>1, <2>3 DEF StoreOK, NoLeftovers, NoRecords
    <3>. QED  BY <2>1, <2>2, <3>1 DEF StoreOK, Stores
  <2>6. NoLeftovers'
    BY <2>1, <2>3 DEF StoreOK, NoLeftovers, Stores
  <2>7. PeerState \in ReplicatedComponent /\ PeerState \in PeerPrefab
    BY ReplicationAssumption DEF ReplicatedComponent
  <2>8. ReplicatedIffComponent'
    BY <2>1, <2>5, <2>7 DEF StoreOK, ReplicatedIffComponent, HasRecord, ReplicatedComponent
  <2>9. owner' \in [Entity -> Peer \cup {Server}] /\ peerEntity' \in [Peer -> Entity \cup {Absent}]
    BY <2>1 DEF StoreOK
  <2>10. StoreOK'
    BY <2>1, <2>3, <2>4, <2>6, <2>8, <2>9 DEF StoreOK, ReplicatedComponent
  <2> DEFINE n == DirtyWithPeerEntity(p)
             K == KeysOf(e, C)
  <2>11. /\ n \in DirtyOps
         /\ n.created = dirty.created \cup {e}
         /\ n.network = dirty.network \cup {e}
         /\ n.added = dirty.added \cup K
         /\ n.updated \subseteq dirty.updated
         /\ n.removed = dirty.removed \ K
         /\ n.destroyed = dirty.destroyed \ {e}
    BY <1>2, <2>1, NewPeerEntityMarks
  <2>12. \A k \in K : k[1] = e /\ k[2] \in PeerPrefab /\ k[2] \in ReplicatedComponent
    BY <2>2 DEF KeysOf, ReplicatedComponent
  <2>13. \A k \in dirty.removed : k \notin K => k[1] # e \/ k[2] \notin PeerPrefab
    <3>1. \A k \in dirty.removed : k \in ComponentKey /\ k[2] \notin LocalComponent
      BY DEF MarksOK, DirtyOps, ReplicatedComponent
    <3>. QED  BY <3>1 DEF KeysOf, ComponentKey
  <2> HIDE DEF n, K, C
  <2>14. MarksOK(n, storage', replicated')
    <3>1. /\ \A k \in dirty.added : k[1] \in Entity /\ k[2] \in Component
          /\ \A k \in dirty.removed : k[1] \in Entity /\ k[2] \in Component
      BY DEF MarksOK, DirtyOps, ComponentKey
    <3>2. \A k \in n.added : k[2] \in ReplicatedComponent /\ storage'[k[1]][k[2]] # Absent
      BY <2>1, <2>2, <2>5, <2>11, <2>12, <3>1 DEF MarksOK
    <3>3. \A k \in n.removed : k[2] \in ReplicatedComponent /\ storage'[k[1]][k[2]] = Absent
      BY <2>5, <2>11, <2>13, <3>1 DEF MarksOK
    <3>4. /\ \A b \in n.updated : b[2] \in ReplicatedComponent
          /\ n.network \subseteq replicated' /\ WorldEntity \notin n.network
          /\ n.destroyed \cap (replicated' \cup n.created) = {}
          /\ WorldEntity \notin n.destroyed
      BY <2>1, <2>3, <2>11 DEF MarksOK
    <3>. QED  BY <2>11, <3>2, <3>3, <3>4 DEF MarksOK
  <2>. QED  BY <2>9, <2>10, <2>14 DEF n
<1>. QED  BY <1>1, <1>2

-----------------------------------------------------------------------------
\* Packets.

\* What can be encoded is a packet.
LEMMA EncodeType ==
  ASSUME NEW ops \in DirtyOps, NEW store \in Stores,
         NEW owners \in [Entity -> Peer \cup {Server}], Encodable(ops, store)
  PROVE  /\ Encode(ops, store, owners) \in Packet
         /\ ops.created = {} /\ ops.network = {} /\ ops.added = {}
              /\ ops.removed = {} /\ ops.destroyed = {}
              => OnlyUpdates(Encode(ops, store, owners))
<1> DEFINE A == {<<k[1], k[2], store[k[1]][k[2]]>> : k \in ops.added}
           N == {<<e, owners[e]>> : e \in ops.network}
           U == {<<b[1], b[2], b[3], store[b[1]][b[2]][b[3]]>> : b \in ops.updated}
<1>1. A \in SUBSET AddOp
  <2>1. ASSUME NEW k \in ops.added
        PROVE  <<k[1], k[2], store[k[1]][k[2]]>> \in AddOp
    <3>1. k[1] \in Entity /\ k[2] \in Component /\ store[k[1]][k[2]] # Absent
      BY DEF DirtyOps, Encodable, RecordsIn, ComponentKey
    <3>. QED  BY <3>1 DEF Stores, AddOp
  <2>. QED  BY <2>1
<1>2. N \in SUBSET NetworkOp
  BY DEF NetworkOp, DirtyOps
<1>3. U \in SUBSET UpdateOp
  <2>1. ASSUME NEW b \in ops.updated
        PROVE  <<b[1], b[2], b[3], store[b[1]][b[2]][b[3]]>> \in UpdateOp
    <3>1. /\ b[1] \in Entity /\ b[2] \in Component /\ b[3] \in Field
      BY DEF DirtyOps, DirtyBit
    <3>2. store[b[1]][b[2]] # Absent
      BY <3>1 DEF Encodable, RecordsIn
    <3>3. store[b[1]][b[2]] \in [Field -> Value]
      BY <3>1, <3>2 DEF Stores, Row
    <3>. QED  BY <3>1, <3>3 DEF UpdateOp
  <2>. QED  BY <2>1
<1>4. /\ ops.created \in SUBSET Entity /\ ops.removed \in SUBSET ComponentKey
      /\ ops.destroyed \in SUBSET Entity
  BY DEF DirtyOps
<1>5. Encode(ops, store, owners) =
        [create |-> ops.created, add |-> A, network |-> N, update |-> U,
         remove |-> ops.removed, destroy |-> ops.destroyed]
  BY DEF Encode
<1>6. ops.added = {} => A = {}
  OBVIOUS
<1>7. ops.network = {} => N = {}
  OBVIOUS
<1> HIDE DEF A, N, U
<1>. QED  BY <1>1, <1>2, <1>3, <1>4, <1>5, <1>6, <1>7 DEF Packet, OnlyUpdates

\* A packet without field updates, where every component is replicated.
LEMMA StructureApplied ==
  ASSUME LocalComponent = {},
         NEW r \in Replicas, NEW ops \in DirtyOps, ops.updated = {}, NEW store \in Stores,
         NEW owners \in [Entity -> Peer \cup {Server}], Encodable(ops, store)
  PROVE  LET q == Apply(r, Encode(ops, store, owners))
         IN  /\ q = After(r, ops, store, owners)
             /\ q \in Replicas
             /\ q.entities = (r.entities \cup ops.created \cup {k[1] : k \in ops.added}
                                         \cup ops.network) \ ops.destroyed
             /\ \A e \in Entity, c \in Component :
                  q.storage[e][c] # Absent <=>
                    /\ r.storage[e][c] # Absent \/ <<e, c>> \in ops.added
                    /\ <<e, c>> \notin ops.removed
                    /\ e \notin ops.destroyed
             /\ \A e \in Entity :
                  q.owner[e] = IF e \in ops.destroyed THEN Server
                               ELSE IF e \in ops.network THEN owners[e]
                               ELSE r.owner[e]
<1> DEFINE q == Apply(r, Encode(ops, store, owners))
           z == After(r, ops, store, owners)
<1>1. Applicable(r, ops)
  BY DEF Applicable, ReplicatedComponent, DirtyOps, ComponentKey
<1>2. q = z /\ z \in Replicas
  BY <1>1, ApplyEncoded
<1>3. \A e \in Entity, c \in Component : z.storage[e][c] = RecordAfter(r, ops, store, e, c)
  BY DEF After
<1>4. Absent \notin Row
  BY WorldAssumption
<1>5. ASSUME NEW e \in Entity, NEW c \in Component
      PROVE  RecordAfter(r, ops, store, e, c) # Absent <=>
               /\ r.storage[e][c] # Absent \/ <<e, c>> \in ops.added
               /\ <<e, c>> \notin ops.removed
               /\ e \notin ops.destroyed
  <2>1. <<e, c>> \in ops.added => store[e][c] # Absent
    BY DEF Encodable, RecordsIn
  <2>2. r.storage[e][c] # Absent =>
          [f \in Field |-> IF <<e, c, f>> \in ops.updated THEN store[e][c][f]
                           ELSE r.storage[e][c][f]] # Absent
    <3> SUFFICES ASSUME r.storage[e][c] # Absent
                 PROVE  [f \in Field |-> IF <<e, c, f>> \in ops.updated THEN store[e][c][f]
                                         ELSE r.storage[e][c][f]] # Absent
      OBVIOUS
    <3>1. r.storage[e][c] \in [Field -> Value]
      BY DEF Replicas, Stores, Row
    <3>2. [f \in Field |-> IF <<e, c, f>> \in ops.updated THEN store[e][c][f]
                           ELSE r.storage[e][c][f]] \in Row
      BY <3>1 DEF Row
    <3>. QED  BY <1>4, <3>2
  <2>. QED  BY <2>1, <2>2 DEF RecordAfter
<1>6. /\ z.entities = (r.entities \cup ops.created \cup {k[1] : k \in ops.added}
                                  \cup ops.network) \ ops.destroyed
      /\ \A e \in Entity : z.owner[e] = IF e \in ops.destroyed THEN Server
                                        ELSE IF e \in ops.network THEN owners[e]
                                        ELSE r.owner[e]
  BY DEF After
<1> HIDE DEF z, q
<1>7. /\ q = z /\ q \in Replicas
      /\ q.entities = (r.entities \cup ops.created \cup {k[1] : k \in ops.added}
                                  \cup ops.network) \ ops.destroyed
      /\ \A e \in Entity, c \in Component :
           q.storage[e][c] # Absent <=>
             /\ r.storage[e][c] # Absent \/ <<e, c>> \in ops.added
             /\ <<e, c>> \notin ops.removed
             /\ e \notin ops.destroyed
      /\ \A e \in Entity :
           q.owner[e] = IF e \in ops.destroyed THEN Server
                        ELSE IF e \in ops.network THEN owners[e]
                        ELSE r.owner[e]
  BY <1>2, <1>3, <1>5, <1>6
<1>. QED  BY <1>7 DEF q, z

-----------------------------------------------------------------------------
\* The operations the runtime collects for a peer.

\* A full snapshot lists what is there, and what has to go.
LEMMA FullOpsFacts ==
  ASSUME NEW p \in Peer, NEW ents \in SUBSET Entity, NEW store \in Stores,
         NEW repl \in SUBSET Entity, NEW owners \in [Entity -> Peer \cup {Server}],
         WorldEntity \in ents, \A e \in Entity \ ents : store[e] = NoRecords,
         knownEntities[p] \in SUBSET Entity, knownComponents[p] \in SUBSET ComponentKey
  PROVE  LET ops == FullOps(p, ents, store, repl, owners)
         IN  /\ ops \in DirtyOps
             /\ Encodable(ops, store)
             /\ ops.created = {e \in ents : IsVisible(p, e, owners)}
             /\ ops.network = {e \in repl \cap ops.created : owners[e] # Server}
             /\ ops.added = {k \in RecordsIn(store) : IsVisible(p, k[1], owners)}
             /\ ops.updated = {}
             /\ ops.removed = {k \in knownComponents[p] \ ops.added : k[1] \notin ops.destroyed}
             /\ ops.destroyed = knownEntities[p] \ ops.created
             /\ WorldEntity \in ops.created
             /\ \A k \in ops.added : k[1] \in ops.created
<1> DEFINE ops       == FullOps(p, ents, store, repl, owners)
           created   == {e \in ents : IsVisible(p, e, owners)}
           added     == {k \in RecordsIn(store) : IsVisible(p, k[1], owners)}
           destroyed == knownEntities[p] \ created
           network   == {e \in repl \cap created : owners[e] # Server}
           removed   == {k \in knownComponents[p] \ added : k[1] \notin destroyed}
<1>1. ops = [created |-> created, network |-> network, added |-> added, updated |-> {},
             removed |-> removed, destroyed |-> destroyed]
  BY DEF FullOps
<1>2. /\ created \subseteq Entity /\ added \subseteq ComponentKey /\ added \subseteq RecordsIn(store)
      /\ destroyed \subseteq Entity /\ network \subseteq Entity /\ removed \subseteq ComponentKey
  BY DEF RecordsIn
<1>3. \A k \in added : k[1] \in created
  <2> TAKE k \in added
  <2>1. k \in ComponentKey /\ store[k[1]][k[2]] # Absent
    BY DEF RecordsIn
  <2>2. k[1] \in Entity /\ k[2] \in Component
    BY <2>1 DEF ComponentKey
  <2>3. k[1] \in ents
    BY <2>1, <2>2 DEF NoRecords
  <2>. QED  BY <2>3
<1>4. WorldEntity \in created
  BY DEF IsVisible
<1> HIDE DEF ops, created, added, destroyed, network, removed
<1>5. ops \in DirtyOps /\ Encodable(ops, store)
  BY <1>1, <1>2 DEF DirtyOps, Encodable
<1>6. /\ ops.created = created /\ ops.network = network /\ ops.added = added
      /\ ops.updated = {} /\ ops.removed = removed /\ ops.destroyed = destroyed
  BY <1>1
<1>. QED  BY <1>3, <1>4, <1>5, <1>6 DEF ops, created, added, destroyed, network, removed

\* The structural packet of an update.
LEMMA StructuralOpsFacts ==
  ASSUME StoreOK, MarksOK(dirty, storage, replicated), NEW p \in Peer,
         knownEntities[p] \in SUBSET Entity, knownComponents[p] \in SUBSET ComponentKey
  PROVE  LET ops == StructuralOps(p)
         IN  /\ ops \in DirtyOps
             /\ Encodable(ops, StoreShowingGone)
             /\ ops.created = Entering(p) /\ ops.network = OwnerNews(p)
             /\ ops.added = {k \in Records : Sees(p, k[1])} \ knownComponents[p]
             /\ ops.updated = {}
             /\ ops.removed = dirty.removed \cap knownComponents[p]
             /\ ops.destroyed = Leaving(p)
             /\ \A k \in ops.added : /\ k[1] \in knownEntities[p] \/ k[1] \in ops.created
                                     /\ k[1] \notin ops.destroyed /\ k \notin ops.removed
             /\ ops.network \subseteq ops.created \cup knownEntities[p]
             /\ ops.created \cap ops.destroyed = {}
             /\ WorldEntity \notin ops.destroyed
<1> DEFINE ops == StructuralOps(p)
<1>1. /\ ops.created = Entering(p) /\ ops.network = OwnerNews(p)
      /\ ops.added = {k \in Records : Sees(p, k[1])} \ knownComponents[p]
      /\ ops.updated = {}
      /\ ops.removed = dirty.removed \cap knownComponents[p]
      /\ ops.destroyed = Leaving(p)
  BY DEF StructuralOps
<1>2. ops \in DirtyOps
  <2>1. /\ Entering(p) \subseteq Entity /\ OwnerNews(p) \subseteq Entity /\ Leaving(p) \subseteq Entity
    BY DEF Entering, OwnerNews, Leaving, StoreOK
  <2>2. Records \subseteq ComponentKey
    BY DEF Records, RecordsIn
  <2>. QED  BY <2>1, <2>2 DEF StructuralOps, DirtyOps
<1>3. Disconnected \in Value
  BY ReplicationAssumption
<1>4. \A k \in ComponentKey : StoreShowingGone[k[1]][k[2]] = Absent <=> storage[k[1]][k[2]] = Absent
  <2>1. \A e \in Entity, c \in Component :
          StoreShowingGone[e][c] = Absent <=> storage[e][c] = Absent
    BY <1>3, StatusStore DEF StoreShowingGone
  <2>. QED  BY <2>1 DEF ComponentKey
<1>5. Encodable(ops, StoreShowingGone)
  BY <1>1, <1>4 DEF Encodable, Records, RecordsIn
<1>6. ASSUME NEW k \in ops.added
      PROVE  /\ k[1] \in knownEntities[p] \/ k[1] \in Entering(p)
             /\ k[1] \notin Leaving(p) /\ k \notin dirty.removed
  <2>1. k \in Records /\ Sees(p, k[1])
    BY <1>1
  <2>2. k \in ComponentKey /\ storage[k[1]][k[2]] # Absent
    BY <2>1 DEF Records, RecordsIn
  <2>3. k[1] \in Entity /\ k[2] \in Component
    BY <2>2 DEF ComponentKey
  <2>4. k[1] \in entities
    BY <2>2, <2>3 DEF StoreOK, NoLeftovers, NoRecords
  <2>. QED  BY <2>1, <2>2, <2>4 DEF Entering, Leaving, MarksOK
<1>7. OwnerNews(p) \subseteq Entering(p) \cup knownEntities[p]
  BY DEF OwnerNews
<1>8. Entering(p) \cap Leaving(p) = {} /\ WorldEntity \notin Leaving(p)
  BY DEF Entering, Leaving, Sees, Visible, IsVisible, MarksOK
<1> HIDE DEF ops
<1>9. /\ \A k \in ops.added : /\ k[1] \in knownEntities[p] \/ k[1] \in ops.created
                              /\ k[1] \notin ops.destroyed /\ k \notin ops.removed
      /\ ops.network \subseteq ops.created \cup knownEntities[p]
      /\ ops.created \cap ops.destroyed = {}
      /\ WorldEntity \notin ops.destroyed
  BY <1>1, <1>6, <1>7, <1>8
<1>. QED  BY <1>1, <1>2, <1>5, <1>9 DEF ops

\* The field deltas of an update.
LEMMA DeltasFacts ==
  ASSUME dirty \in DirtyOps, NEW p, NEW known
  PROVE  LET ops == UpdateOps(p, known)
         IN  /\ ops \in DirtyOps
             /\ ops.created = {} /\ ops.network = {} /\ ops.added = {}
             /\ ops.removed = {} /\ ops.destroyed = {}
             /\ ops.updated = {b \in dirty.updated : /\ Visible(p, b[1])
                                                     /\ <<b[1], b[2]>> \in known}
  BY DEF UpdateOps, NothingDirty, DirtyOps

-----------------------------------------------------------------------------
\* The packets of an update.
LEMMA UpdatePackets ==
  ASSUME BaseInv, NEW p \in Peer
  PROVE  /\ StructuralPackets(p) \in Seq(Packet)
         /\ DeltaPackets(p) \in Seq(Packet)
         /\ \A i \in DOMAIN DeltaPackets(p) : OnlyUpdates(DeltaPackets(p)[i])
<1>1. /\ StoreOK /\ MarksOK(dirty, storage, replicated) /\ dirty \in DirtyOps
      /\ knownEntities[p] \in SUBSET Entity /\ knownComponents[p] \in SUBSET ComponentKey
      /\ owner \in [Entity -> Peer \cup {Server}]
  BY DEF BaseInv, ServerTypeOK, MarksOK, StoreOK
<1>2. StoreShowingGone \in Stores
  BY <1>1, StatusStore, ReplicationAssumption DEF StoreShowingGone
<1>3. StructuralOps(p) \in DirtyOps /\ Encodable(StructuralOps(p), StoreShowingGone)
  BY <1>1, StructuralOpsFacts
<1>4. Encode(StructuralOps(p), StoreShowingGone, owner) \in Packet
  BY <1>1, <1>2, <1>3, EncodeType, Zenon
<1>5. StructuralPackets(p) \in Seq(Packet)
  BY <1>4 DEF StructuralPackets
<1>6. Deltas(p) \in DirtyOps /\ Deltas(p).created = {} /\ Deltas(p).network = {}
      /\ Deltas(p).added = {} /\ Deltas(p).removed = {} /\ Deltas(p).destroyed = {}
  BY <1>1, DeltasFacts DEF Deltas
<1>7. CASE DeltaEncodes(p) /\ HasOps(Deltas(p))
  <2> DEFINE x == Encode(Deltas(p), StoreShowingGone, owner)
  <2>1. Encodable(Deltas(p), StoreShowingGone)
    BY <1>7 DEF DeltaEncodes
  <2>2. x \in Packet /\ OnlyUpdates(x)
    BY <1>1, <1>2, <1>6, <2>1, EncodeType, Zenon
  <2>3. DeltaPackets(p) = <<x>>
    BY <1>7 DEF DeltaPackets
  <2> HIDE DEF x
  <2>. QED  BY <1>5, <2>2, <2>3
<1>8. CASE ~(DeltaEncodes(p) /\ HasOps(Deltas(p)))
  <2>1. DeltaPackets(p) = <<>>
    BY <1>8 DEF DeltaPackets
  <2>. QED  BY <1>5, <2>1
<1>. QED  BY <1>7, <1>8

LEMMA SentAllFacts ==
  ASSUME NEW q \in [Peer -> Seq(Packet)], NEW S, NEW x \in [Peer -> Seq(Packet)]
  PROVE  /\ SentAll(q, S, x) \in [Peer -> Seq(Packet)]
         /\ \A p \in Peer : SentAll(q, S, x)[p] = IF p \in S \cap active THEN q[p] \o x[p]
                                                  ELSE q[p]
  BY DEF SentAll

LEMMA LooseAllFacts ==
  ASSUME loose \in [Peer -> SUBSET Packet], NEW S, NEW x \in [Peer -> Seq(Packet)]
  PROVE  /\ LooseAll(S, x) \in [Peer -> SUBSET Packet]
         /\ \A p \in Peer \ active : LooseAll(S, x)[p] = loose[p]
         /\ \A p \in Peer : \A y \in LooseAll(S, x)[p] :
              y \in loose[p] \/ \E i \in DOMAIN x[p] : y = x[p][i]
<1>1. \A p \in Peer : \A i \in DOMAIN x[p] : x[p][i] \in Packet
  OBVIOUS
<1>. QED  BY <1>1 DEF LooseAll

\* Where the shared packet is sent it can be encoded, and holds field updates.
LEMMA SharedPacket ==
  ASSUME BaseInv, Encodable([NothingDirty EXCEPT !.updated = dirty.updated], StoreShowingGone)
  PROVE  LET x == Encode([NothingDirty EXCEPT !.updated = dirty.updated], StoreShowingGone, owner)
         IN  x \in Packet /\ OnlyUpdates(x)
<1> DEFINE ops == [NothingDirty EXCEPT !.updated = dirty.updated]
<1>1. /\ StoreOK /\ dirty \in DirtyOps /\ owner \in [Entity -> Peer \cup {Server}]
  BY DEF BaseInv, MarksOK, StoreOK
<1>2. StoreShowingGone \in Stores
  BY <1>1, StatusStore, ReplicationAssumption DEF StoreShowingGone
<1>3. ops \in DirtyOps /\ ops.created = {} /\ ops.network = {} /\ ops.added = {}
      /\ ops.removed = {} /\ ops.destroyed = {}
  BY <1>1 DEF NothingDirty, DirtyOps
<1> HIDE DEF ops
<1>4. Encodable(ops, StoreShowingGone)
  BY DEF ops
<1>5. Encode(ops, StoreShowingGone, owner) \in Packet
      /\ OnlyUpdates(Encode(ops, StoreShowingGone, owner))
  BY <1>1, <1>2, <1>3, <1>4, EncodeType, Zenon
<1>. QED  BY <1>5 DEF ops

LEMMA UpdateBase == ASSUME BaseInv, Update PROVE BaseInv'
<1>1. /\ StoreOK /\ MarksOK(dirty, storage, replicated) /\ ServerTypeOK /\ ChannelsOK
  BY DEF BaseInv
<1>2. /\ storage' = StoreShowingGone
      /\ UNCHANGED <<entities, replicated, owner, nextId, detached, active, seen,
                     peerEntity, override, replica, synced, edits, closed>>
      /\ (CanShareUpdate /\ UpdateShared) \/ (~CanShareUpdate /\ UpdateEach)
  BY DEF Update
<1>3. Disconnected \in Value
  BY ReplicationAssumption
<1>4. StoreOK'
  BY <1>1, <1>2, <1>3, StatusKeepsStore DEF StoreShowingGone
<1>5. MarksOK(DirtyShowingGone, storage', replicated')
  <2>1. MarksOK(DirtyShowingGone, StoreShowingGone, replicated)
    BY <1>1, <1>3, StatusMarks DEF DirtyShowingGone, StoreShowingGone
  <2>. QED  BY <1>2, <2>1
<1>6. dirty' = DirtyShowingGone \/ dirty' = ClearWritten(DirtyShowingGone, dirty)
  BY <1>2 DEF UpdateShared, UpdateEach
<1>7. MarksOK(dirty', storage', replicated')
  BY <1>5, <1>6, ClearedMarksOK
<1>8. CASE CanShareUpdate /\ UpdateShared
  <2> DEFINE ops == [NothingDirty EXCEPT !.updated = dirty.updated]
             y   == Encode(ops, StoreShowingGone, owner)
             x   == [p \in Peer |-> <<y>>]
  <2>1. UNCHANGED <<knownEntities, knownComponents>>
    BY <1>8 DEF UpdateShared
  <2>2. CASE ~Encodable(ops, StoreShowingGone)
    <3>1. UNCHANGED <<inOrder, loose>>
      BY <1>8, <2>2 DEF UpdateShared
    <3>. QED  BY <1>1, <1>2, <1>4, <1>7, <2>1, <3>1 DEF BaseInv, ServerTypeOK, ChannelsOK
  <2>3. CASE Encodable(ops, StoreShowingGone)
    <3>1. y \in Packet /\ OnlyUpdates(y)
      BY <2>3, SharedPacket
    <3>2. /\ inOrder' = IF Ordered THEN SentAll(inOrder, Targets, x) ELSE inOrder
          /\ loose' = IF Ordered THEN loose ELSE LooseAll(Targets, x)
      BY <1>8, <2>3 DEF UpdateShared
    <3> HIDE DEF y
    <3>3. /\ x \in [Peer -> Seq(Packet)]
          /\ \A p \in Peer : \A i \in DOMAIN x[p] : OnlyUpdates(x[p][i])
      BY <3>1
    <3> HIDE DEF x
    <3>4. /\ inOrder \in [Peer -> Seq(Packet)] /\ loose \in [Peer -> SUBSET Packet]
      BY <1>1 DEF ServerTypeOK
    <3>5. /\ SentAll(inOrder, Targets, x) \in [Peer -> Seq(Packet)]
          /\ \A p \in Peer \ active : SentAll(inOrder, Targets, x)[p] = inOrder[p]
      BY <3>3, <3>4, SentAllFacts
    <3>6. /\ LooseAll(Targets, x) \in [Peer -> SUBSET Packet]
          /\ \A p \in Peer \ active : LooseAll(Targets, x)[p] = loose[p]
          /\ \A p \in Peer : \A z \in LooseAll(Targets, x)[p] :
               z \in loose[p] \/ \E i \in DOMAIN x[p] : z = x[p][i]
      BY <3>3, <3>4, LooseAllFacts
    <3>7. ServerTypeOK'
      BY <1>1, <1>2, <2>1, <3>2, <3>5, <3>6 DEF ServerTypeOK
    <3>8. ChannelsOK'
      <4>1. \A p \in Peer \ active' : inOrder'[p] = <<>> /\ loose'[p] = {}
                                      /\ replica'[p] = EmptyReplica
        BY <1>1, <1>2, <3>2, <3>5, <3>6 DEF ChannelsOK
      <4>2. \A p \in Peer : \A z \in loose'[p] : OnlyUpdates(z)
        BY <1>1, <3>2, <3>3, <3>6 DEF ChannelsOK
      <4>. QED  BY <1>1, <2>1, <4>1, <4>2 DEF ChannelsOK
    <3>. QED  BY <1>2, <1>4, <1>7, <3>7, <3>8 DEF BaseInv
  <2>. QED  BY <2>2, <2>3
<1>9. CASE ~CanShareUpdate /\ UpdateEach
  <2> DEFINE reached == {p \in Peer : Reached(p)}
             deltas  == [p \in Peer |-> DeltaPackets(p)]
             x       == [p \in Peer |->
                           StructuralPackets(p) \o (IF Ordered THEN deltas[p] ELSE <<>>)]
  <2>1. /\ knownEntities' = [p \in Peer |->
             IF p \in reached THEN EntitiesAfter(p, StructuralOps(p)) ELSE knownEntities[p]]
        /\ knownComponents' = [p \in Peer |->
             IF p \in reached THEN ComponentsNext(p) ELSE knownComponents[p]]
        /\ inOrder' = SentAll(inOrder, reached, x)
        /\ loose' = IF Ordered THEN loose ELSE LooseAll(reached, deltas)
    BY <1>9 DEF UpdateEach
  <2>2. /\ \A p \in Peer : StructuralPackets(p) \in Seq(Packet) /\ DeltaPackets(p) \in Seq(Packet)
        /\ \A p \in Peer : \A i \in DOMAIN DeltaPackets(p) : OnlyUpdates(DeltaPackets(p)[i])
    BY UpdatePackets
  <2>3. /\ deltas \in [Peer -> Seq(Packet)]
        /\ \A p \in Peer : \A i \in DOMAIN deltas[p] : OnlyUpdates(deltas[p][i])
    BY <2>2
  <2>4. x \in [Peer -> Seq(Packet)]
    BY <2>2, <2>3
  <2> HIDE DEF deltas, x, reached
  <2>5. ASSUME NEW p \in Peer
        PROVE  /\ EntitiesAfter(p, StructuralOps(p)) \subseteq Entity
               /\ ComponentsNext(p) \subseteq ComponentKey
               /\ \A k \in ComponentsNext(p) : k[1] \in EntitiesAfter(p, StructuralOps(p))
    <3> DEFINE ops == StructuralOps(p)
    <3>1. /\ knownEntities[p] \in SUBSET Entity /\ knownComponents[p] \in SUBSET ComponentKey
          /\ \A k \in knownComponents[p] : k[1] \in knownEntities[p]
      BY <1>1 DEF ServerTypeOK, ChannelsOK
    <3>2. ops \in DirtyOps
      BY <1>1, <3>1, StructuralOpsFacts
    <3> HIDE DEF ops
    <3>3. ops.created \subseteq Entity /\ ops.added \subseteq ComponentKey
      BY <3>2 DEF DirtyOps
    <3>4. \A k \in ops.added : k[1] \in Entity /\ k[1] \in {a[1] : a \in ops.added}
      BY <3>3 DEF ComponentKey
    <3>5. EntitiesAfter(p, ops) \subseteq Entity
      BY <3>1, <3>3, <3>4 DEF EntitiesAfter
    <3>6. ComponentsAfter(p, ops) \subseteq ComponentKey
      BY <3>1, <3>3 DEF ComponentsAfter
    <3>7. \A k \in ComponentsAfter(p, ops) : k[1] \in EntitiesAfter(p, ops)
      BY <3>1, <3>4 DEF ComponentsAfter, EntitiesAfter
    <3>. QED  BY <3>5, <3>6, <3>7 DEF ops, ComponentsNext
  <2>6. /\ knownEntities' \in [Peer -> SUBSET Entity]
        /\ knownComponents' \in [Peer -> SUBSET ComponentKey]
        /\ \A p \in Peer : \A k \in knownComponents'[p] : k[1] \in knownEntities'[p]
    BY <1>1, <2>1, <2>5 DEF ServerTypeOK, ChannelsOK
  <2>7. inOrder' \in [Peer -> Seq(Packet)] /\ \A p \in Peer \ active : inOrder'[p] = inOrder[p]
    <3>1. inOrder \in [Peer -> Seq(Packet)]
      BY <1>1 DEF ServerTypeOK
    <3>2. /\ SentAll(inOrder, reached, x) \in [Peer -> Seq(Packet)]
          /\ \A p \in Peer \ active : SentAll(inOrder, reached, x)[p] = inOrder[p]
      BY <2>4, <3>1, SentAllFacts
    <3>. QED  BY <2>1, <3>2
  <2>8. /\ loose' \in [Peer -> SUBSET Packet]
        /\ \A p \in Peer \ active : loose'[p] = loose[p]
        /\ \A p \in Peer : \A z \in loose'[p] : OnlyUpdates(z)
    BY <1>1, <2>1, <2>3, LooseAllFacts DEF ServerTypeOK, ChannelsOK
  <2>9. ServerTypeOK'
    BY <1>1, <1>2, <2>6, <2>7, <2>8 DEF ServerTypeOK
  <2>10. ChannelsOK'
    BY <1>1, <1>2, <2>6, <2>7, <2>8 DEF ChannelsOK
  <2>. QED  BY <1>2, <1>4, <1>7, <2>9, <2>10 DEF BaseInv
<1>. QED  BY <1>2, <1>8, <1>9

-----------------------------------------------------------------------------
\* Every action keeps BaseInv.

LEMMA InitBase == Init => BaseInv
<1> SUFFICES ASSUME Init PROVE BaseInv
  OBVIOUS
<1>1. StoreOK /\ MarksOK(dirty, storage, replicated)
  <2>1. WorldInv
    BY WorldInitInv DEF Init
  <2>2. WorldStays
    BY DEF Init, WorldInit, WorldStays, NothingDirty
  <2>. QED  BY <2>1, <2>2, WorldInvSplit
<1>2. EmptyReplica \in Replicas
  BY WorldAssumption DEF EmptyReplica, Replicas, Stores, NoRecords
<1>3. ServerTypeOK
  BY <1>2 DEF Init, ServerTypeOK, Override
<1>4. ChannelsOK
  BY DEF Init, ChannelsOK
<1>. QED  BY <1>1, <1>3, <1>4 DEF BaseInv

LEMMA EditWorldBase == ASSUME BaseInv, EditWorld PROVE BaseInv'
<1>1. /\ StoreOK /\ MarksOK(dirty, storage, replicated) /\ ServerTypeOK /\ ChannelsOK
      /\ UNCHANGED netVars
  BY DEF BaseInv, EditWorld
<1>2. CASE Edit /\ UNCHANGED serverVars
  <2>1. StoreOK' /\ MarksOK(dirty, storage, replicated)'
    BY <1>1, <1>2, EditBase
  <2>2. ServerTypeOK' /\ ChannelsOK'
    BY <1>1, <1>2 DEF serverVars, netVars, ServerTypeOK, ChannelsOK
  <2>. QED  BY <2>1, <2>2 DEF BaseInv
<1>3. ASSUME NEW p \in Peer, NEW e \in Entity, NEW o \in Override, SetVisible(p, e, o)
      PROVE  BaseInv'
  <2>1. StoreOK' /\ MarksOK(dirty, storage, replicated)'
    BY <1>1, <1>3 DEF SetVisible, worldVars, StoreOK, NoLeftovers, ReplicatedIffComponent,
                      HasRecord, ReplicatedComponent
  <2>2. ServerTypeOK' /\ ChannelsOK'
    BY <1>1, <1>3 DEF SetVisible, netVars, ServerTypeOK, ChannelsOK
  <2>. QED  BY <2>1, <2>2 DEF BaseInv
<1>. QED  BY <1>2, <1>3 DEF EditWorld

LEMMA SameWorldBase ==
  ASSUME BaseInv, UNCHANGED worldVars
  PROVE  StoreOK' /\ MarksOK(dirty, storage, replicated)'
  BY DEF BaseInv, worldVars, StoreOK, NoLeftovers, ReplicatedIffComponent, HasRecord,
         ReplicatedComponent

LEMMA ConnectionBase ==
  ASSUME BaseInv, NEW p \in Peer, Connect(p) \/ Disconnect(p)
  PROVE  BaseInv'
<1>1. /\ ServerTypeOK /\ ChannelsOK
      /\ UNCHANGED <<worldVars, seen, peerEntity, override, knownEntities, knownComponents>>
  BY DEF BaseInv, Connect, Disconnect
<1>2. StoreOK' /\ MarksOK(dirty, storage, replicated)'
  BY <1>1, SameWorldBase
<1>3. CASE Connect(p)
  <2>1. ServerTypeOK' /\ ChannelsOK'
    BY <1>1, <1>3 DEF Connect, ServerTypeOK, ChannelsOK
  <2>. QED  BY <1>2, <2>1 DEF BaseInv
<1>4. CASE Disconnect(p)
  <2>1. EmptyReplica \in Replicas
    BY WorldAssumption DEF EmptyReplica, Replicas, Stores, NoRecords
  <2>2. ServerTypeOK'
    BY <1>1, <1>4, <2>1 DEF Disconnect, ServerTypeOK
  <2>3. ChannelsOK'
    BY <1>1, <1>4 DEF Disconnect, ServerTypeOK, ChannelsOK
  <2>. QED  BY <1>2, <2>2, <2>3 DEF BaseInv
<1>. QED  BY <1>3, <1>4

LEMMA DeliveryBase ==
  ASSUME BaseInv, NEW p \in Peer, Deliver(p) \/ DeliverLoose(p) \/ LoseLoose(p)
  PROVE  BaseInv'
<1>1. /\ ServerTypeOK /\ ChannelsOK /\ UNCHANGED <<worldVars, serverVars, synced>>
  BY DEF BaseInv, Deliver, DeliverLoose, LoseLoose
<1>2. StoreOK' /\ MarksOK(dirty, storage, replicated)'
  BY <1>1, SameWorldBase
<1>3. \A r \in Replicas, x \in Packet : Apply(r, x) \in Replicas
  BY ApplyShape, SameShapeFacts
<1>4. CASE Deliver(p)
  <2>1. /\ inOrder[p] \in Seq(Packet) /\ inOrder[p] # <<>> /\ replica[p] \in Replicas
        /\ p \in active
    BY <1>1, <1>4 DEF Deliver, ServerTypeOK, ChannelsOK
  <2>2. Head(inOrder[p]) \in Packet /\ Tail(inOrder[p]) \in Seq(Packet)
    BY <2>1
  <2>3. Apply(replica[p], Head(inOrder[p])) \in Replicas
    BY <1>3, <2>1, <2>2
  <2>4. ServerTypeOK' /\ ChannelsOK'
    BY <1>1, <1>4, <2>1, <2>2, <2>3 DEF Deliver, serverVars, ServerTypeOK, ChannelsOK
  <2>. QED  BY <1>2, <2>4 DEF BaseInv
<1>5. CASE DeliverLoose(p)
  <2>1. PICK x \in loose[p] :
          /\ replica' = [replica EXCEPT ![p] = Apply(@, x)]
          /\ loose' = [loose EXCEPT ![p] = @ \ {x}]
          /\ UNCHANGED <<worldVars, serverVars, inOrder, synced, edits, closed>>
    BY <1>5 DEF DeliverLoose
  <2>2. x \in Packet /\ p \in active /\ Apply(replica[p], x) \in Replicas
    BY <1>1, <1>3 DEF ServerTypeOK, ChannelsOK
  <2>3. ServerTypeOK' /\ ChannelsOK'
    BY <1>1, <2>1, <2>2 DEF serverVars, ServerTypeOK, ChannelsOK
  <2>. QED  BY <1>2, <2>3 DEF BaseInv
<1>6. CASE LoseLoose(p)
  <2>1. ServerTypeOK' /\ ChannelsOK'
    BY <1>1, <1>6 DEF LoseLoose, serverVars, ServerTypeOK, ChannelsOK
  <2>. QED  BY <1>2, <2>1 DEF BaseInv
<1>. QED  BY <1>4, <1>5, <1>6

LEMMA HandlePacketBase ==
  ASSUME BaseInv, NEW p \in Peer, HandlePacket(p)
  PROVE  BaseInv'
<1>1. /\ StoreOK /\ MarksOK(dirty, storage, replicated) /\ ServerTypeOK /\ ChannelsOK
      /\ peerEntity \in [Peer -> Entity \cup {Absent}]
      /\ p \in active /\ seen' = seen \cup {p} /\ EnsurePeerEntity(p)
      /\ dirty' = DirtyWithPeerEntity(p)
      /\ UNCHANGED <<active, override, knownEntities, knownComponents, netVars>>
  BY DEF BaseInv, ServerTypeOK, HandlePacket
<1>2. /\ StoreOK' /\ MarksOK(dirty', storage', replicated')
      /\ peerEntity' \in [Peer -> Entity \cup {Absent}]
  BY <1>1, EnsureBase
<1>3. ServerTypeOK' /\ ChannelsOK'
  BY <1>1, <1>2 DEF netVars, ServerTypeOK, ChannelsOK
<1>. QED  BY <1>2, <1>3 DEF BaseInv

\* What a full snapshot for p does.
LEMMA SendFullSnapshotFacts ==
  ASSUME BaseInv, NEW p \in Peer, SendFullSnapshot(p)
  PROVE  LET ops == FullOps(p, entities', storage', replicated', owner')
             x   == Encode(ops, storage', owner')
         IN  /\ ops \in DirtyOps /\ Encodable(ops, storage') /\ x \in Packet
             /\ StoreOK' /\ MarksOK(dirty', storage', replicated')
             /\ MarksOK(DirtyWithPeerEntity(p), storage', replicated')
             /\ ops.created = {e \in entities' : IsVisible(p, e, owner')}
             /\ ops.network = {e \in replicated' \cap ops.created : owner'[e] # Server}
             /\ ops.added = {k \in RecordsIn(storage') : IsVisible(p, k[1], owner')}
             /\ ops.updated = {}
             /\ ops.removed = {k \in knownComponents[p] \ ops.added : k[1] \notin ops.destroyed}
             /\ ops.destroyed = knownEntities[p] \ ops.created
             /\ WorldEntity \in ops.created
             /\ \A k \in ops.added : k[1] \in ops.created
             /\ dirty' = ClearWritten(DirtyWithPeerEntity(p), ops)
             /\ knownEntities' = [knownEntities EXCEPT ![p] = ops.created]
             /\ knownComponents' = [knownComponents EXCEPT ![p] = ops.added]
             /\ inOrder' = Sent(inOrder, p, x)
             /\ synced' = synced \cup (active \cap {p})
             /\ peerEntity' \in [Peer -> Entity \cup {Absent}]
             /\ UNCHANGED <<active, override, loose, replica, edits, closed>>
<1> DEFINE ops == FullOps(p, entities', storage', replicated', owner')
           x   == Encode(ops, storage', owner')
<1>1. /\ StoreOK /\ MarksOK(dirty, storage, replicated)
      /\ peerEntity \in [Peer -> Entity \cup {Absent}]
      /\ knownEntities[p] \in SUBSET Entity /\ knownComponents[p] \in SUBSET ComponentKey
      /\ EnsurePeerEntity(p)
  BY DEF BaseInv, ServerTypeOK, SendFullSnapshot
<1>2. /\ StoreOK' /\ MarksOK(DirtyWithPeerEntity(p), storage', replicated')
      /\ peerEntity' \in [Peer -> Entity \cup {Absent}]
  BY <1>1, EnsureBase
<1>3. /\ entities' \in SUBSET Entity /\ storage' \in Stores /\ replicated' \in SUBSET Entity
      /\ owner' \in [Entity -> Peer \cup {Server}]
      /\ WorldEntity \in entities' /\ \A e \in Entity \ entities' : storage'[e] = NoRecords
  BY <1>2 DEF StoreOK, NoLeftovers
<1>4. /\ ops \in DirtyOps
      /\ Encodable(ops, storage')
      /\ ops.created = {e \in entities' : IsVisible(p, e, owner')}
      /\ ops.network = {e \in replicated' \cap ops.created : owner'[e] # Server}
      /\ ops.added = {k \in RecordsIn(storage') : IsVisible(p, k[1], owner')}
      /\ ops.updated = {}
      /\ ops.removed = {k \in knownComponents[p] \ ops.added : k[1] \notin ops.destroyed}
      /\ ops.destroyed = knownEntities[p] \ ops.created
      /\ WorldEntity \in ops.created
      /\ \A k \in ops.added : k[1] \in ops.created
  BY <1>1, <1>3, FullOpsFacts
<1>5. /\ dirty' = ClearWritten(DirtyWithPeerEntity(p), ops)
      /\ knownEntities' = [knownEntities EXCEPT ![p] =
                             ops.created \cup {k[1] : k \in ops.added}]
      /\ knownComponents' = [knownComponents EXCEPT ![p] = ops.added]
      /\ inOrder' = Sent(inOrder, p, x)
      /\ synced' = synced \cup (active \cap {p})
      /\ UNCHANGED <<active, override, loose, replica, edits, closed>>
  BY DEF SendFullSnapshot
<1> HIDE DEF ops
<1>6. x \in Packet
  BY <1>3, <1>4, EncodeType, Zenon
<1>7. ops.created \cup {k[1] : k \in ops.added} = ops.created
  BY <1>4
<1>8. knownEntities' = [knownEntities EXCEPT ![p] = ops.created]
  BY <1>5, <1>7
<1>9. MarksOK(dirty', storage', replicated')
  BY <1>2, <1>5, ClearedMarksOK
<1>. QED  BY <1>2, <1>4, <1>5, <1>6, <1>8, <1>9 DEF ops, x

LEMMA SendFullSnapshotBase ==
  ASSUME BaseInv, NEW p \in Peer, HandleHello(p) \/ ResendFullSnapshot(p)
  PROVE  BaseInv'
<1> DEFINE ops == FullOps(p, entities', storage', replicated', owner')
           x   == Encode(ops, storage', owner')
<1>1. /\ ServerTypeOK /\ ChannelsOK /\ SendFullSnapshot(p)
      /\ seen' \subseteq Peer
  BY DEF BaseInv, ServerTypeOK, HandleHello, ResendFullSnapshot
<1>2. /\ ops \in DirtyOps /\ x \in Packet
      /\ StoreOK' /\ MarksOK(dirty', storage', replicated')
      /\ \A k \in ops.added : k[1] \in ops.created
      /\ knownEntities' = [knownEntities EXCEPT ![p] = ops.created]
      /\ knownComponents' = [knownComponents EXCEPT ![p] = ops.added]
      /\ inOrder' = Sent(inOrder, p, x)
      /\ synced' = synced \cup (active \cap {p})
      /\ peerEntity' \in [Peer -> Entity \cup {Absent}]
      /\ UNCHANGED <<active, override, loose, replica, edits, closed>>
  BY <1>1, SendFullSnapshotFacts
<1> HIDE DEF ops, x
<1>3. ops.created \subseteq Entity /\ ops.added \subseteq ComponentKey
  BY <1>2 DEF DirtyOps
<1>4. inOrder' \in [Peer -> Seq(Packet)] /\ \A q \in Peer \ active : inOrder'[q] = inOrder[q]
  BY <1>1, <1>2 DEF ServerTypeOK, Sent
<1>5. ServerTypeOK'
  BY <1>1, <1>2, <1>3, <1>4 DEF ServerTypeOK
<1>6. ChannelsOK'
  BY <1>1, <1>2, <1>4 DEF ServerTypeOK, ChannelsOK
<1>. QED  BY <1>2, <1>5, <1>6 DEF BaseInv

LEMMA BaseStep == BaseInv /\ [Next]_vars => BaseInv'
<1> SUFFICES ASSUME BaseInv, [Next]_vars PROVE BaseInv'
  OBVIOUS
<1>1. CASE UNCHANGED vars
  <2>1. StoreOK' /\ MarksOK(dirty, storage, replicated)'
    BY <1>1, SameWorldBase DEF vars
  <2>2. ServerTypeOK' /\ ChannelsOK'
    BY <1>1 DEF vars, serverVars, netVars, BaseInv, ServerTypeOK, ChannelsOK
  <2>. QED  BY <2>1, <2>2 DEF BaseInv
<1>. QED  BY <1>1, EditWorldBase, UpdateBase, ConnectionBase, SendFullSnapshotBase,
             HandlePacketBase, DeliveryBase DEF Next

\* The server's bookkeeping, the packets on their way and the client worlds
\* are well typed, the graph marks what is in the store, and an unreliable
\* packet holds field updates only, for any program, transport and bounds.
THEOREM BaseInvariant == Spec => []BaseInv
<1>. QED  BY InitBase, BaseStep, PTL DEF Spec

\* Every reachable state of a server and its clients is well typed.
THEOREM ReplicationTypeCorrect == Spec => []ReplicationTypeOK
<1>1. BaseInv => ReplicationTypeOK
  <2> SUFFICES ASSUME BaseInv PROVE ReplicationTypeOK
    OBVIOUS
  <2>1. WorldTypeOK
    BY DEF BaseInv, StoreOK, MarksOK, WorldTypeOK, Stores
  <2>2. \A p \in Peer : /\ \A i \in 1..Len(inOrder[p]) : inOrder[p][i] \in Packet
                        /\ loose[p] \subseteq Packet
                        /\ replica[p].entities \subseteq Entity
                        /\ replica[p].owner \in [Entity -> Peer \cup {Server}]
    BY DEF BaseInv, ServerTypeOK, Replicas
  <2>. QED  BY <2>1, <2>2 DEF BaseInv, ServerTypeOK, ReplicationTypeOK
<1>. QED  BY <1>1, BaseInvariant, PTL

-----------------------------------------------------------------------------
(* What the server takes its peers to have, and what they will have when   *)
(* the packets on their way have arrived (Future).  KnownBy bounds what    *)
(* ANY client can have by what it is taken to have; for synced peers it is *)
(* exact, which is KnownMatchesReplica.                                    *)
(*                                                                         *)
(* Every theorem from here on assumes that all components are replicated:  *)
(* a full snapshot lists local components as well, and a client ends the   *)
(* packet at the first one.                                                *)

\* Replica r has no more than E and K, or exactly them.
Bounded(r, E, K) ==
  r.entities \subseteq E \cup {WorldEntity} /\ RecordsIn(r.storage) \subseteq K

Exact(r, E, K) ==
  r.entities = E \cup {WorldEntity} /\ RecordsIn(r.storage) = K

\* No client will have what it is not taken to have, and synced ones will
\* have all of it.
KnownBy(p) ==
  /\ Bounded(Future(p), knownEntities[p], knownComponents[p])
  /\ p \in synced => Exact(Future(p), knownEntities[p], knownComponents[p])

KnowledgeInv == BaseInv /\ \A p \in Peer : KnownBy(p)

-----------------------------------------------------------------------------
\* What a packet does to what a replica has.

LEMMA ShapeHas ==
  ASSUME NEW r, NEW q, SameShape(r, q), NEW E, NEW K
  PROVE  /\ Bounded(r, E, K) => Bounded(q, E, K)
         /\ Exact(r, E, K) => Exact(q, E, K)
<1>1. RecordsIn(r.storage) = RecordsIn(q.storage) /\ r.entities = q.entities
  BY DEF SameShape, RecordsIn, ComponentKey
<1>. QED  BY <1>1 DEF Bounded, Exact

\* Whatever a peer has of what it is taken to have, a full snapshot leaves it
\* exactly with what it lists.
LEMMA FullApplied ==
  ASSUME LocalComponent = {}, NEW r \in Replicas, NEW ops \in DirtyOps,
         NEW store \in Stores, NEW owners \in [Entity -> Peer \cup {Server}],
         Encodable(ops, store), NEW E, NEW K, Bounded(r, E, K),
         ops.updated = {}, WorldEntity \in ops.created,
         ops.network \subseteq ops.created, \A k \in ops.added : k[1] \in ops.created,
         ops.destroyed = E \ ops.created,
         ops.removed = {k \in K \ ops.added : k[1] \notin ops.destroyed}
  PROVE  Exact(Apply(r, Encode(ops, store, owners)), ops.created, ops.added)
<1> DEFINE q == Apply(r, Encode(ops, store, owners))
<1>1. /\ q.entities = (r.entities \cup ops.created \cup {k[1] : k \in ops.added}
                                   \cup ops.network) \ ops.destroyed
      /\ \A e \in Entity, c \in Component :
           q.storage[e][c] # Absent <=>
             /\ r.storage[e][c] # Absent \/ <<e, c>> \in ops.added
             /\ <<e, c>> \notin ops.removed
             /\ e \notin ops.destroyed
  BY StructureApplied
<1> HIDE DEF q
<1>2. q.entities = ops.created \cup {WorldEntity}
  BY <1>1 DEF Bounded
<1>3. ASSUME NEW e \in Entity, NEW c \in Component
      PROVE  q.storage[e][c] # Absent <=> <<e, c>> \in ops.added
  <2>1. r.storage[e][c] # Absent => <<e, c>> \in K
    BY DEF Bounded, RecordsIn, ComponentKey
  <2>2. <<e, c>> \in ops.added => e \in ops.created
    OBVIOUS
  <2>3. <<e, c>> \in ops.removed <=>
          <<e, c>> \in K /\ <<e, c>> \notin ops.added /\ e \notin ops.destroyed
    OBVIOUS
  <2>. QED  BY <1>1, <2>1, <2>2, <2>3
<1>4. RecordsIn(q.storage) = ops.added
  BY <1>3 DEF RecordsIn, ComponentKey, DirtyOps
<1>. QED  BY <1>2, <1>4 DEF Exact, q

\* The structural packet of an update changes what a peer has as it changes
\* what the peer is taken to have.
LEMMA StructuralApplied ==
  ASSUME LocalComponent = {}, BaseInv, NEW p \in Peer, NEW r \in Replicas
  PROVE  LET q == Apply(r, Encode(StructuralOps(p), StoreShowingGone, owner))
             E == EntitiesAfter(p, StructuralOps(p))
         IN  /\ q \in Replicas
             /\ Bounded(r, knownEntities[p], knownComponents[p]) => Bounded(q, E, ComponentsNext(p))
             /\ Exact(r, knownEntities[p], knownComponents[p]) => Exact(q, E, ComponentsNext(p))
<1> DEFINE ops == StructuralOps(p)
           q   == Apply(r, Encode(ops, StoreShowingGone, owner))
           K   == knownComponents[p]
<1>1. /\ StoreOK /\ MarksOK(dirty, storage, replicated)
      /\ knownEntities[p] \in SUBSET Entity /\ K \in SUBSET ComponentKey
      /\ owner \in [Entity -> Peer \cup {Server}]
  BY DEF BaseInv, ServerTypeOK, StoreOK
<1>2. StoreShowingGone \in Stores
  BY <1>1, StatusStore, ReplicationAssumption DEF StoreShowingGone
<1>3. /\ ops \in DirtyOps /\ Encodable(ops, StoreShowingGone) /\ ops.updated = {}
      /\ \A k \in ops.added : /\ k[1] \in knownEntities[p] \/ k[1] \in ops.created
                              /\ k[1] \notin ops.destroyed /\ k \notin ops.removed
      /\ ops.network \subseteq ops.created \cup knownEntities[p]
      /\ ops.created \cap ops.destroyed = {}
      /\ WorldEntity \notin ops.destroyed
  BY <1>1, StructuralOpsFacts
<1> HIDE DEF ops
<1>4. /\ q \in Replicas
      /\ q.entities = (r.entities \cup ops.created \cup {k[1] : k \in ops.added}
                                   \cup ops.network) \ ops.destroyed
      /\ \A e \in Entity, c \in Component :
           q.storage[e][c] # Absent <=>
             /\ r.storage[e][c] # Absent \/ <<e, c>> \in ops.added
             /\ <<e, c>> \notin ops.removed
             /\ e \notin ops.destroyed
  BY <1>1, <1>2, <1>3, StructureApplied
<1> HIDE DEF q
<1> DEFINE keys == {k[1] : k \in ops.added}
<1>5. keys \cap ops.destroyed = {}
  BY <1>3
<1>6. EntitiesAfter(p, ops) = (knownEntities[p] \ ops.destroyed) \cup ops.created \cup keys
  BY DEF EntitiesAfter
<1>7. q.entities = (r.entities \ ops.destroyed) \cup ops.created \cup keys
                     \cup (ops.network \ ops.destroyed)
  BY <1>3, <1>4, <1>5
<1> HIDE DEF keys
<1>8. /\ r.entities \subseteq knownEntities[p] \cup {WorldEntity}
           => q.entities \subseteq EntitiesAfter(p, ops) \cup {WorldEntity}
      /\ r.entities = knownEntities[p] \cup {WorldEntity}
           => q.entities = EntitiesAfter(p, ops) \cup {WorldEntity}
  BY <1>3, <1>6, <1>7
<1>9. ASSUME NEW k \in ComponentKey
      PROVE  /\ k \in RecordsIn(q.storage) <=>
                  \/ k \in RecordsIn(r.storage) /\ k \notin ops.removed
                                                /\ k[1] \notin ops.destroyed
                  \/ k \in ops.added
             /\ k \in ComponentsAfter(p, ops) <=>
                  \/ k \in K /\ k \notin ops.removed /\ k[1] \notin ops.destroyed
                  \/ k \in ops.added
  <2>1. k[1] \in Entity /\ k[2] \in Component /\ k = <<k[1], k[2]>>
    BY DEF ComponentKey
  <2>2. q.storage[k[1]][k[2]] # Absent <=>
          /\ r.storage[k[1]][k[2]] # Absent \/ k \in ops.added
          /\ k \notin ops.removed
          /\ k[1] \notin ops.destroyed
    BY <1>4, <2>1
  <2>3. k \in ops.added => k[1] \notin ops.destroyed /\ k \notin ops.removed
    BY <1>3
  <2>4. /\ k \in RecordsIn(q.storage) <=> q.storage[k[1]][k[2]] # Absent
        /\ k \in RecordsIn(r.storage) <=> r.storage[k[1]][k[2]] # Absent
    BY DEF RecordsIn
  <2>. QED  BY <2>2, <2>3, <2>4 DEF ComponentsAfter
<1>10. /\ RecordsIn(q.storage) \subseteq ComponentKey /\ RecordsIn(r.storage) \subseteq ComponentKey
       /\ ComponentsAfter(p, ops) \subseteq ComponentKey
  BY <1>1, <1>3 DEF RecordsIn, ComponentsAfter, DirtyOps
<1>11. /\ RecordsIn(r.storage) \subseteq K => RecordsIn(q.storage) \subseteq ComponentsAfter(p, ops)
       /\ RecordsIn(r.storage) = K => RecordsIn(q.storage) = ComponentsAfter(p, ops)
  BY <1>9, <1>10
<1>. QED  BY <1>4, <1>8, <1>11 DEF Bounded, Exact, ComponentsNext, q, ops

-----------------------------------------------------------------------------
\* What a step does to the future of a client.

\* At most one packet is sent after what is on its way.
LEMMA ReplayedMore ==
  ASSUME NEW r, NEW s \in Seq(Packet), NEW t \in Seq(Packet), Len(t) \in {0, 1}
  PROVE  /\ s \o t \in Seq(Packet)
         /\ Replayed(r, s \o t) = IF t = <<>> THEN Replayed(r, s)
                                  ELSE Apply(Replayed(r, s), t[1])
<1>1. CASE t = <<>>
  <2>1. s \o t = s
    BY <1>1
  <2>. QED  BY <1>1, <2>1
<1>2. CASE t # <<>>
  <2>1. Len(t) = 1 /\ t[1] \in Packet
    BY <1>2
  <2>2. s \o t = Append(s, t[1])
    <3>1. t = <<t[1]>>
      BY <2>1
    <3>2. Append(s, t[1]) = s \o <<t[1]>>
      BY <2>1, AppendIsConcat
    <3>. QED  BY <3>1, <3>2
  <2>. QED  BY <1>2, <2>1, <2>2, ReplayedAppend
<1>. QED  BY <1>1, <1>2

\* A structural packet, then field deltas.
LEMMA ReplayedUpdate ==
  ASSUME NEW r \in Replicas, NEW s \in Seq(Packet), NEW a \in Seq(Packet),
         NEW d \in Seq(Packet), Len(a) \in {0, 1}, Len(d) \in {0, 1},
         \A i \in DOMAIN d : OnlyUpdates(d[i])
  PROVE  LET q == IF a = <<>> THEN Replayed(r, s) ELSE Apply(Replayed(r, s), a[1])
         IN  /\ SameShape(q, Replayed(r, s \o (a \o d)))
             /\ Replayed(r, s \o (a \o d)) = IF d = <<>> THEN q ELSE Apply(q, d[1])
<1> DEFINE q == IF a = <<>> THEN Replayed(r, s) ELSE Apply(Replayed(r, s), a[1])
<1>1. s \o a \in Seq(Packet) /\ Replayed(r, s \o a) = q
  BY ReplayedMore
<1>2. q \in Replicas
  BY <1>1, ReplayedShape, SameShapeFacts
<1>3. s \o (a \o d) = (s \o a) \o d
  BY ConcatAssociative
<1>4. Replayed(r, s \o (a \o d)) = IF d = <<>> THEN q ELSE Apply(q, d[1])
  <2> DEFINE w == s \o a
  <2>1. w \in Seq(Packet) /\ Replayed(r, w) = q /\ s \o (a \o d) = w \o d
    BY <1>1, <1>3
  <2> HIDE DEF w, q
  <2>2. Replayed(r, w \o d) = IF d = <<>> THEN Replayed(r, w) ELSE Apply(Replayed(r, w), d[1])
    BY <2>1, ReplayedMore
  <2>. QED  BY <2>1, <2>2
<1> HIDE DEF q
<1>5. SameShape(q, IF d = <<>> THEN q ELSE Apply(q, d[1]))
  <2>1. CASE d = <<>>
    BY <2>1, SameShapeFacts
  <2>2. CASE d # <<>>
    <3>1. d[1] \in Packet /\ OnlyUpdates(d[1])
      BY <2>2
    <3>. QED  BY <1>2, <2>2, <3>1, UpdatesKeepShape
  <2>. QED  BY <2>1, <2>2
<1>. QED  BY <1>4, <1>5 DEF q

\* Futures are replicas; without a connection there is nothing to come.
LEMMA FutureType ==
  ASSUME BaseInv, NEW p \in Peer
  PROVE  /\ Future(p) \in Replicas
         /\ p \notin active => Future(p) = EmptyReplica
<1>1. /\ replica[p] \in Replicas /\ inOrder[p] \in Seq(Packet)
      /\ p \notin active => inOrder[p] = <<>> /\ replica[p] = EmptyReplica
  BY DEF BaseInv, ServerTypeOK, ChannelsOK
<1>2. Future(p) \in Replicas
  BY <1>1, ReplayedShape, SameShapeFacts DEF Future
<1>. QED  BY <1>1, <1>2, ReplayedNothing DEF Future

\* An update that is shared changes no shape.
LEMMA SharedFuture ==
  ASSUME BaseInv, Update, CanShareUpdate, NEW p \in Peer
  PROVE  /\ SameShape(Future(p), Future(p)')
         /\ UNCHANGED <<knownEntities, knownComponents>>
         /\ Ordered =>
              LET ops == [NothingDirty EXCEPT !.updated = dirty.updated]
              IN  Future(p)' = IF /\ Encodable(ops, StoreShowingGone)
                                  /\ p \in Targets \cap active
                               THEN Apply(Future(p), Encode(ops, StoreShowingGone, owner))
                               ELSE Future(p)
<1> DEFINE ops == [NothingDirty EXCEPT !.updated = dirty.updated]
           y   == Encode(ops, StoreShowingGone, owner)
           x   == [q \in Peer |-> <<y>>]
<1>1. /\ replica[p] \in Replicas /\ inOrder \in [Peer -> Seq(Packet)]
      /\ replica' = replica /\ UpdateShared
  BY DEF BaseInv, ServerTypeOK, Update
<1>2. UNCHANGED <<knownEntities, knownComponents>>
  BY <1>1 DEF UpdateShared
<1> DEFINE sends == Ordered /\ Encodable(ops, StoreShowingGone) /\ p \in Targets \cap active
<1>3. CASE ~sends
  <2>1. inOrder'[p] = inOrder[p]
    <3>1. \/ inOrder' = inOrder
          \/ Ordered /\ Encodable(ops, StoreShowingGone) /\ inOrder' = SentAll(inOrder, Targets, x)
      BY <1>1 DEF UpdateShared
    <3> HIDE DEF x, ops
    <3>. QED  BY <1>1, <1>3, <3>1 DEF SentAll
  <2>2. Future(p)' = Future(p)
    BY <1>1, <2>1 DEF Future
  <2>3. Ordered => ~(Encodable(ops, StoreShowingGone) /\ p \in Targets \cap active)
    BY <1>3
  <2> HIDE DEF ops
  <2>. QED  BY <1>2, <2>2, <2>3, SameShapeFacts DEF ops
<1>4. CASE sends
  <2>1. Encodable(ops, StoreShowingGone) /\ inOrder' = SentAll(inOrder, Targets, x)
    BY <1>1, <1>4, ReplicationAssumption DEF UpdateShared
  <2>2. y \in Packet /\ OnlyUpdates(y)
    BY <2>1, SharedPacket
  <2> HIDE DEF y
  <2>3. x \in [Peer -> Seq(Packet)] /\ x[p] = <<y>>
    BY <2>2
  <2> HIDE DEF x
  <2>4. inOrder'[p] = inOrder[p] \o <<y>>
    <3>1. SentAll(inOrder, Targets, x)[p] = IF p \in Targets \cap active
                                            THEN inOrder[p] \o x[p] ELSE inOrder[p]
      BY <1>1, <2>3, Zenon DEF SentAll
    <3>. QED  BY <1>4, <2>1, <2>3, <3>1
  <2>5. inOrder[p] \o <<y>> = inOrder[p] \o (<<>> \o <<y>>) /\ <<y>> \in Seq(Packet)
        /\ <<>> \in Seq(Packet)
    BY <1>1, <2>2
  <2>6. /\ SameShape(Future(p), Replayed(replica[p], inOrder[p] \o (<<>> \o <<y>>)))
        /\ Replayed(replica[p], inOrder[p] \o (<<>> \o <<y>>)) = Apply(Future(p), y)
    <3>1. inOrder[p] \in Seq(Packet)
      BY <1>1
    <3>2. /\ Len(<<>>) \in {0, 1} /\ Len(<<y>>) \in {0, 1}
          /\ \A i \in DOMAIN <<y>> : OnlyUpdates(<<y>>[i])
      BY <2>2
    <3>. QED  BY <1>1, <2>5, <3>1, <3>2, ReplayedUpdate DEF Future
  <2>7. SameShape(Future(p), Future(p)') /\ Future(p)' = Apply(Future(p), y)
    BY <1>1, <2>4, <2>5, <2>6 DEF Future
  <2> HIDE DEF ops
  <2>. QED  BY <1>2, <1>4, <2>7 DEF ops, y
<1> HIDE DEF sends
<1>. QED  BY <1>3, <1>4

\* One that goes from peer to peer brings the structural packet first.
LEMMA EachFuture ==
  ASSUME BaseInv, Update, ~CanShareUpdate, NEW p \in Peer
  PROVE  LET q == IF HasOps(StructuralOps(p))
                  THEN Apply(Future(p), Encode(StructuralOps(p), StoreShowingGone, owner))
                  ELSE Future(p)
         IN  /\ ~(Reached(p) /\ p \in active) => Future(p)' = Future(p)
             /\ Reached(p) /\ p \in active => SameShape(q, Future(p)')
             /\ Ordered /\ Reached(p) /\ p \in active =>
                  Future(p)' = IF DeltaEncodes(p) /\ HasOps(Deltas(p))
                               THEN Apply(q, Encode(Deltas(p), StoreShowingGone, owner))
                               ELSE q
             /\ knownEntities'[p] = IF Reached(p) THEN EntitiesAfter(p, StructuralOps(p))
                                    ELSE knownEntities[p]
             /\ knownComponents'[p] = IF Reached(p) THEN ComponentsNext(p)
                                      ELSE knownComponents[p]
<1> DEFINE reached == {z \in Peer : Reached(z)}
           deltas  == [z \in Peer |-> DeltaPackets(z)]
           x       == [z \in Peer |->
                         StructuralPackets(z) \o (IF Ordered THEN deltas[z] ELSE <<>>)]
           q       == IF HasOps(StructuralOps(p))
                      THEN Apply(Future(p), Encode(StructuralOps(p), StoreShowingGone, owner))
                      ELSE Future(p)
<1>1. /\ replica[p] \in Replicas /\ inOrder \in [Peer -> Seq(Packet)]
      /\ replica' = replica /\ UpdateEach
  BY DEF BaseInv, ServerTypeOK, Update
<1>2. /\ knownEntities' = [z \in Peer |->
           IF z \in reached THEN EntitiesAfter(z, StructuralOps(z)) ELSE knownEntities[z]]
      /\ knownComponents' = [z \in Peer |->
           IF z \in reached THEN ComponentsNext(z) ELSE knownComponents[z]]
      /\ inOrder' = SentAll(inOrder, reached, x)
  BY <1>1 DEF UpdateEach
<1>3. /\ knownEntities'[p] = IF Reached(p) THEN EntitiesAfter(p, StructuralOps(p))
                             ELSE knownEntities[p]
      /\ knownComponents'[p] = IF Reached(p) THEN ComponentsNext(p) ELSE knownComponents[p]
  BY <1>2
<1>4. \A z \in Peer : /\ StructuralPackets(z) \in Seq(Packet) /\ DeltaPackets(z) \in Seq(Packet)
                      /\ \A i \in DOMAIN DeltaPackets(z) : OnlyUpdates(DeltaPackets(z)[i])
  BY UpdatePackets
<1> DEFINE a == StructuralPackets(p)
           d == IF Ordered THEN DeltaPackets(p) ELSE <<>>
<1>5. x \in [Peer -> Seq(Packet)] /\ x[p] = a \o d
  BY <1>4
<1>6. inOrder'[p] = IF p \in reached \cap active THEN inOrder[p] \o (a \o d) ELSE inOrder[p]
  <2> HIDE DEF x, a, d, reached
  <2>1. SentAll(inOrder, reached, x)[p] = IF p \in reached \cap active
                                          THEN inOrder[p] \o x[p] ELSE inOrder[p]
    BY <1>1, <1>5, Zenon DEF SentAll
  <2>. QED  BY <1>2, <1>5, <2>1
<1>7. ASSUME Reached(p), p \in active
      PROVE  /\ SameShape(q, Future(p)')
             /\ Ordered =>
                  Future(p)' = IF DeltaEncodes(p) /\ HasOps(Deltas(p))
                               THEN Apply(q, Encode(Deltas(p), StoreShowingGone, owner))
                               ELSE q
  <2>1. inOrder'[p] = inOrder[p] \o (a \o d)
    BY <1>6, <1>7
  <2>2. /\ Len(a) \in {0, 1}
        /\ a = <<>> <=> ~HasOps(StructuralOps(p))
        /\ a # <<>> => a[1] = Encode(StructuralOps(p), StoreShowingGone, owner)
    BY DEF StructuralPackets
  <2>3. Len(DeltaPackets(p)) \in {0, 1}
    BY DEF DeltaPackets
  <2>4. Len(d) \in {0, 1} /\ d \in Seq(Packet) /\ \A i \in DOMAIN d : OnlyUpdates(d[i])
    BY <1>4, <2>3
  <2>5. a \in Seq(Packet)
    BY <1>4
  <2>6. q = IF a = <<>> THEN Future(p) ELSE Apply(Future(p), a[1])
    BY <2>2
  <2> DEFINE y == Encode(Deltas(p), StoreShowingGone, owner)
  <2>7. Ordered => /\ d = <<>> <=> ~(DeltaEncodes(p) /\ HasOps(Deltas(p)))
                   /\ d # <<>> => d[1] = y
    BY DEF DeltaPackets
  <2> HIDE DEF a, d, q, y
  <2>8. /\ SameShape(q, Replayed(replica[p], inOrder[p] \o (a \o d)))
        /\ Replayed(replica[p], inOrder[p] \o (a \o d)) = IF d = <<>> THEN q ELSE Apply(q, d[1])
    BY <1>1, <2>2, <2>4, <2>5, <2>6, ReplayedUpdate DEF Future
  <2>9. /\ SameShape(q, Future(p)')
        /\ Future(p)' = IF d = <<>> THEN q ELSE Apply(q, d[1])
    BY <1>1, <2>1, <2>8 DEF Future
  <2>. QED  BY <2>7, <2>9 DEF y
<1>8. ~(Reached(p) /\ p \in active) => Future(p)' = Future(p)
  BY <1>1, <1>6 DEF Future
<1> HIDE DEF q
<1>. QED  BY <1>3, <1>7, <1>8 DEF q

-----------------------------------------------------------------------------
\* Every action keeps KnowledgeInv.

LEMMA EmptyHas == Bounded(EmptyReplica, {}, {}) /\ Exact(EmptyReplica, {}, {})
  BY DEF Bounded, Exact, EmptyReplica, RecordsIn, ComponentKey, NoRecords

LEMMA InitKnowledge == Init => KnowledgeInv
<1> SUFFICES ASSUME Init PROVE KnowledgeInv
  OBVIOUS
<1>1. \A p \in Peer : Future(p) = EmptyReplica
  BY ReplayedNothing DEF Init, Future
<1>. QED  BY <1>1, EmptyHas, InitBase DEF Init, KnowledgeInv, KnownBy

\* A client that did not get anything new, with the same knowledge of it.
LEMMA SameKnowledge ==
  ASSUME NEW p \in Peer, KnownBy(p), SameShape(Future(p), Future(p)'),
         UNCHANGED <<knownEntities, knownComponents>>,
         p \in synced' => p \in synced
  PROVE  KnownBy(p)'
<1>1. /\ Bounded(Future(p)', knownEntities[p], knownComponents[p])
      /\ p \in synced => Exact(Future(p)', knownEntities[p], knownComponents[p])
  BY ShapeHas DEF KnownBy
<1>. QED  BY <1>1 DEF KnownBy

LEMMA SameFuture ==
  ASSUME NEW p \in Peer, inOrder'[p] = inOrder[p], replica'[p] = replica[p]
  PROVE  Future(p)' = Future(p) /\ SameShape(Future(p), Future(p)')
  BY SameShapeFacts DEF Future

LEMMA UpdateKnowledge ==
  ASSUME LocalComponent = {}, KnowledgeInv, Update, NEW p \in Peer
  PROVE  KnownBy(p)'
<1>1. BaseInv /\ KnownBy(p) /\ synced' = synced
  BY DEF KnowledgeInv, Update
<1>2. CASE CanShareUpdate
  BY <1>1, <1>2, SharedFuture, SameKnowledge
<1>3. CASE ~CanShareUpdate
  <2> DEFINE q == IF HasOps(StructuralOps(p))
                  THEN Apply(Future(p), Encode(StructuralOps(p), StoreShowingGone, owner))
                  ELSE Future(p)
             E == EntitiesAfter(p, StructuralOps(p))
             K == ComponentsNext(p)
  <2>1. /\ ~(Reached(p) /\ p \in active) => Future(p)' = Future(p)
        /\ Reached(p) /\ p \in active => SameShape(q, Future(p)')
        /\ knownEntities'[p] = IF Reached(p) THEN E ELSE knownEntities[p]
        /\ knownComponents'[p] = IF Reached(p) THEN K ELSE knownComponents[p]
    BY <1>1, <1>3, EachFuture
  <2>2. Future(p) \in Replicas /\ (p \notin active => Future(p) = EmptyReplica)
    BY <1>1, FutureType
  <2>3. /\ Bounded(Future(p), knownEntities[p], knownComponents[p])
        /\ p \in synced => Exact(Future(p), knownEntities[p], knownComponents[p])
        /\ synced \subseteq active
    BY <1>1 DEF KnownBy, BaseInv, ServerTypeOK
  <2>4. Bounded(q, E, K) /\ (p \in synced => Exact(q, E, K))
    <3>1. CASE HasOps(StructuralOps(p))
      BY <1>1, <2>2, <2>3, <3>1, StructuralApplied
    <3>2. CASE ~HasOps(StructuralOps(p))
      <4>1. StructuralOps(p) = NothingDirty
        BY <3>2 DEF HasOps
      <4>2. E = knownEntities[p] /\ K = knownComponents[p]
        BY <4>1 DEF EntitiesAfter, ComponentsAfter, ComponentsNext, NothingDirty
      <4>. QED  BY <2>3, <3>2, <4>2
    <3>. QED  BY <3>1, <3>2
  <2> HIDE DEF q, E, K
  <2>5. CASE Reached(p) /\ p \in active
    <3>1. /\ Bounded(Future(p)', E, K)
          /\ p \in synced => Exact(Future(p)', E, K)
      BY <2>1, <2>4, <2>5, ShapeHas
    <3>. QED  BY <1>1, <2>1, <2>5, <3>1 DEF KnownBy
  <2>6. CASE ~Reached(p)
    BY <1>1, <2>1, <2>3, <2>6 DEF KnownBy
  <2>7. CASE p \notin active
    <3>1. Bounded(EmptyReplica, knownEntities'[p], knownComponents'[p])
      BY EmptyHas DEF Bounded
    <3>. QED  BY <1>1, <2>1, <2>2, <2>3, <2>7, <3>1 DEF KnownBy
  <2>. QED  BY <2>5, <2>6, <2>7
<1>. QED  BY <1>2, <1>3

LEMMA ConnectionKnowledge ==
  ASSUME KnowledgeInv, NEW z \in Peer, Connect(z) \/ Disconnect(z), NEW p \in Peer
  PROVE  KnownBy(p)'
<1>1. /\ BaseInv /\ KnownBy(p) /\ synced \subseteq active
      /\ inOrder \in [Peer -> Seq(Packet)] /\ replica \in [Peer -> Replicas]
      /\ \A k \in knownComponents[p] : k[1] \in knownEntities[p]
      /\ UNCHANGED <<knownEntities, knownComponents>>
  BY DEF KnowledgeInv, BaseInv, ServerTypeOK, ChannelsOK, Connect, Disconnect
<1>2. CASE Connect(z)
  <2>1. /\ p \in synced' => p \in synced \/ (p = z /\ knownEntities[p] = {})
        /\ z \notin active /\ inOrder'[p] = inOrder[p] /\ replica'[p] = replica[p]
    BY <1>2 DEF Connect
  <2>2. CASE p \in synced' => p \in synced
    BY <1>1, <2>1, <2>2, SameFuture, SameKnowledge
  <2>3. CASE p = z /\ knownEntities[p] = {}
    <3>1. Future(p) = EmptyReplica /\ Future(p)' = Future(p) /\ knownComponents[p] = {}
      BY <1>1, <2>1, <2>3, FutureType, SameFuture
    <3>. QED  BY <1>1, <2>3, <3>1, EmptyHas DEF KnownBy
  <2>. QED  BY <2>1, <2>2, <2>3
<1>3. CASE Disconnect(z) /\ p # z
  <2>1. /\ p \in synced' => p \in synced
        /\ inOrder'[p] = inOrder[p] /\ replica'[p] = replica[p]
    BY <1>1, <1>3 DEF Disconnect
  <2>. QED  BY <1>1, <2>1, SameFuture, SameKnowledge
<1>4. CASE Disconnect(z) /\ p = z
  <2>1. p \notin synced' /\ inOrder'[p] = <<>> /\ replica'[p] = EmptyReplica
    BY <1>1, <1>4 DEF Disconnect
  <2>2. Future(p)' = EmptyReplica
    BY <2>1, ReplayedNothing DEF Future
  <2>3. Bounded(EmptyReplica, knownEntities'[p], knownComponents'[p])
    BY EmptyHas DEF Bounded
  <2>. QED  BY <2>1, <2>2, <2>3 DEF KnownBy
<1>. QED  BY <1>2, <1>3, <1>4

\* A packet that arrives in its turn is no news; one that arrives out of its
\* turn holds values only.
LEMMA DeliveryFuture ==
  ASSUME BaseInv, NEW z \in Peer, Deliver(z) \/ DeliverLoose(z) \/ LoseLoose(z),
         NEW p \in Peer
  PROVE  SameShape(Future(p), Future(p)')
<1>1. /\ inOrder \in [Peer -> Seq(Packet)] /\ replica \in [Peer -> Replicas]
      /\ loose \in [Peer -> SUBSET Packet] /\ \A x \in loose[p] : OnlyUpdates(x)
  BY DEF BaseInv, ServerTypeOK, ChannelsOK
<1>2. CASE inOrder'[p] = inOrder[p] /\ replica'[p] = replica[p]
  BY <1>2, SameFuture
<1>3. CASE Deliver(z) /\ p = z
  <2>1. /\ inOrder[p] # <<>> /\ replica'[p] = Apply(replica[p], Head(inOrder[p]))
        /\ inOrder'[p] = Tail(inOrder[p])
    BY <1>1, <1>3 DEF Deliver
  <2>2. Future(p)' = Future(p)
    BY <1>1, <2>1, ReplayedTail DEF Future
  <2>. QED  BY <2>2, SameShapeFacts
<1>4. CASE DeliverLoose(z) /\ p = z
  <2>1. PICK x \in loose[p] : replica'[p] = Apply(replica[p], x) /\ inOrder'[p] = inOrder[p]
    BY <1>1, <1>4 DEF DeliverLoose
  <2>2. x \in Packet /\ OnlyUpdates(x)
    BY <1>1, <2>1
  <2>3. SameShape(replica[p], Apply(replica[p], x)) /\ Apply(replica[p], x) \in Replicas
    BY <1>1, <2>2, UpdatesKeepShape, ApplyShape, SameShapeFacts
  <2>4. SameShape(Replayed(replica[p], inOrder[p]),
                  Replayed(Apply(replica[p], x), inOrder[p]))
    BY <1>1, <2>3, ReplayedShape
  <2>. QED  BY <2>1, <2>4 DEF Future
<1>5. \/ inOrder'[p] = inOrder[p] /\ replica'[p] = replica[p]
      \/ (Deliver(z) \/ DeliverLoose(z)) /\ p = z
  BY <1>1 DEF Deliver, DeliverLoose, LoseLoose
<1>. QED  BY <1>2, <1>3, <1>4, <1>5

\* A full snapshot makes what its peer has, and is taken to have, the same.
LEMMA SnapshotKnowledge ==
  ASSUME LocalComponent = {}, KnowledgeInv, NEW z \in Peer,
         HandleHello(z) \/ ResendFullSnapshot(z), NEW p \in Peer
  PROVE  KnownBy(p)'
<1> DEFINE ops == FullOps(z, entities', storage', replicated', owner')
           x   == Encode(ops, storage', owner')
<1>1. /\ BaseInv /\ KnownBy(p) /\ SendFullSnapshot(z)
      /\ knownEntities \in [Peer -> SUBSET Entity]
      /\ knownComponents \in [Peer -> SUBSET ComponentKey]
      /\ inOrder \in [Peer -> Seq(Packet)] /\ replica \in [Peer -> Replicas]
      /\ synced \subseteq active
  BY DEF KnowledgeInv, BaseInv, ServerTypeOK, HandleHello, ResendFullSnapshot
<1>2. /\ ops \in DirtyOps /\ Encodable(ops, storage') /\ x \in Packet /\ StoreOK'
      /\ ops.network \subseteq ops.created /\ ops.updated = {}
      /\ ops.removed = {k \in knownComponents[z] \ ops.added : k[1] \notin ops.destroyed}
      /\ ops.destroyed = knownEntities[z] \ ops.created
      /\ WorldEntity \in ops.created
      /\ \A k \in ops.added : k[1] \in ops.created
      /\ knownEntities' = [knownEntities EXCEPT ![z] = ops.created]
      /\ knownComponents' = [knownComponents EXCEPT ![z] = ops.added]
      /\ inOrder' = Sent(inOrder, z, x)
      /\ synced' = synced \cup (active \cap {z})
      /\ replica' = replica
  BY <1>1, SendFullSnapshotFacts
<1>3. CASE p # z
  <2>1. /\ knownEntities'[p] = knownEntities[p] /\ knownComponents'[p] = knownComponents[p]
        /\ p \in synced' => p \in synced
        /\ inOrder'[p] = inOrder[p] /\ replica'[p] = replica[p]
    BY <1>1, <1>2, <1>3 DEF Sent
  <2>2. Future(p)' = Future(p)
    BY <2>1, SameFuture
  <2>. QED  BY <1>1, <2>1, <2>2 DEF KnownBy
<1>4. CASE p = z /\ z \notin active
  <2>1. /\ p \notin synced' /\ inOrder'[p] = inOrder[p] /\ replica'[p] = replica[p]
    BY <1>1, <1>2, <1>4 DEF Sent
  <2>2. Future(p)' = EmptyReplica
    BY <1>1, <1>4, <2>1, SameFuture, FutureType
  <2>3. Bounded(EmptyReplica, knownEntities'[p], knownComponents'[p])
    BY EmptyHas DEF Bounded
  <2>. QED  BY <2>1, <2>2, <2>3 DEF KnownBy
<1>5. CASE p = z /\ z \in active
  <2>1. inOrder'[p] = Append(inOrder[p], x)
    BY <1>1, <1>2, <1>5 DEF Sent
  <2>2. Future(p)' = Apply(Future(p), x)
    BY <1>1, <1>2, <2>1, ReplayedAppend DEF Future
  <2>3. storage' \in Stores /\ owner' \in [Entity -> Peer \cup {Server}] /\ Future(p) \in Replicas
    BY <1>1, <1>2, FutureType DEF StoreOK
  <2>4. Bounded(Future(p), knownEntities[z], knownComponents[z])
    BY <1>1, <1>5 DEF KnownBy
  <2>5. knownEntities'[p] = ops.created /\ knownComponents'[p] = ops.added
    BY <1>1, <1>2, <1>5
  <2> HIDE DEF ops
  <2>6. Exact(Apply(Future(p), x), ops.created, ops.added)
    BY <1>2, <2>3, <2>4, FullApplied
  <2> HIDE DEF x
  <2>7. Exact(Future(p)', knownEntities'[p], knownComponents'[p])
    BY <2>2, <2>5, <2>6
  <2>8. Bounded(Future(p)', knownEntities'[p], knownComponents'[p])
    BY <2>7 DEF Exact, Bounded
  <2>. QED  BY <2>7, <2>8 DEF KnownBy
<1>. QED  BY <1>3, <1>4, <1>5

LEMMA KnowledgeStep ==
  ASSUME LocalComponent = {}, KnowledgeInv, [Next]_vars
  PROVE  KnowledgeInv'
<1>1. BaseInv /\ BaseInv'
  BY BaseStep DEF KnowledgeInv
<1>2. ASSUME NEW p \in Peer PROVE KnownBy(p)'
  <2>1. KnownBy(p)
    BY DEF KnowledgeInv
  <2>2. CASE UNCHANGED <<knownEntities, knownComponents, synced>> /\
             SameShape(Future(p), Future(p)')
    BY <2>1, <2>2, SameKnowledge
  <2>3. CASE EditWorld
    <3>1. UNCHANGED <<knownEntities, knownComponents, synced, inOrder, replica>>
      BY <2>3 DEF EditWorld, serverVars, netVars, SetVisible
    <3>. QED  BY <2>2, <3>1, SameFuture
  <2>4. ASSUME NEW z \in Peer, Deliver(z) \/ DeliverLoose(z) \/ LoseLoose(z)
        PROVE  KnownBy(p)'
    <3>1. UNCHANGED <<knownEntities, knownComponents, synced>>
      BY <2>4 DEF Deliver, DeliverLoose, LoseLoose, serverVars
    <3>. QED  BY <1>1, <2>2, <2>4, <3>1, DeliveryFuture
  <2>5. ASSUME NEW z \in Peer, HandlePacket(z) PROVE KnownBy(p)'
    <3>1. UNCHANGED <<knownEntities, knownComponents, synced, inOrder, replica>>
      BY <2>5 DEF HandlePacket, netVars
    <3>. QED  BY <2>2, <3>1, SameFuture
  <2>6. CASE UNCHANGED vars
    <3>1. UNCHANGED <<knownEntities, knownComponents, synced, inOrder, replica>>
      BY <2>6 DEF vars, serverVars, netVars
    <3>. QED  BY <2>2, <3>1, SameFuture
  <2>. QED  BY <2>3, <2>4, <2>5, <2>6, UpdateKnowledge, ConnectionKnowledge,
               SnapshotKnowledge DEF Next
<1>. QED  BY <1>1, <1>2 DEF KnowledgeInv

\* What the server takes a peer to have is exactly what its client will have
\* once the packets on their way have arrived, for any number of peers, any
\* program, any visibility, and any channel order, whatever full snapshots,
\* closed connections and lost updates come between.
THEOREM KnownIsExact == LocalComponent = {} => (Spec => []KnownMatchesReplica)
<1> SUFFICES ASSUME LocalComponent = {} PROVE Spec => []KnownMatchesReplica
  OBVIOUS
<1>1. KnowledgeInv => KnownMatchesReplica
  BY DEF KnowledgeInv, BaseInv, ServerTypeOK, KnownBy, Exact, KnownMatchesReplica
<1>2. KnowledgeInv /\ [Next]_vars => KnowledgeInv'
  BY KnowledgeStep
<1>. QED  BY <1>1, <1>2, InitKnowledge, PTL DEF Spec
=============================================================================
