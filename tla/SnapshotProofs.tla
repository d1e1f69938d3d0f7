--------------------------- MODULE SnapshotProofs ---------------------------
(***************************************************************************)
(* For all values of the constants: a world and its dirty graph, and what  *)
(* packets do to a replica.                                                *)
(*                                                                         *)
(* The world.  The store, the set of replicated entities and the dirty     *)
(* graph stay consistent, whatever calls are made; the theorems are those  *)
(* of the modules that send the marks.  WorldInv is the inductive          *)
(* invariant: to what World states it adds what the removal of the world   *)
(* entity's last component rests on, and that no mark names a local        *)
(* component.                                                              *)
(*                                                                         *)
(* Replicas.  What a packet does, in terms of the operations it was        *)
(* encoded from, and what a replica becomes when the packets of a sequence *)
(* have arrived: packets appended to the sequence apply last, the first    *)
(* one may be applied before the rest, and an update on the unreliable     *)
(* channel changes no more than values, wherever it falls.  Replayed is a  *)
(* recursive function; each fact about it is proved from the least index   *)
(* at which it would fail.                                                 *)
(***************************************************************************)
EXTENDS Snapshot, WellFoundedInduction, TLAPS

-----------------------------------------------------------------------------
\* The world and its marks.

MarksAreReplicated ==
  /\ \A k \in dirty.removed : k[2] \in ReplicatedComponent
  /\ \A b \in dirty.updated : b[2] \in ReplicatedComponent
  /\ \A k \in detached : k[2] \in ReplicatedComponent
  /\ WorldEntity \notin dirty.network

WorldInv ==
  /\ WorldTypeOK
  /\ NoLeftovers
  /\ ReplicatedIffComponent
  /\ MarksMatchStore
  /\ MarksAreReplicated

-----------------------------------------------------------------------------
\* What each method of the graph does to it, as far as WorldInv tells.

\* A creation touches the marks of its entity only.
LEMMA MarkCreatedFacts ==
  ASSUME NEW d \in DirtyOps, NEW e \in Entity
  PROVE  /\ MarkCreated(d, e) \in DirtyOps
         /\ MarkCreated(d, e).created = d.created \cup {e}
         /\ MarkCreated(d, e).network = d.network \ {e}
         /\ MarkCreated(d, e).added = d.added
         /\ MarkCreated(d, e).updated \subseteq d.updated
         /\ MarkCreated(d, e).removed = d.removed
         /\ MarkCreated(d, e).destroyed = d.destroyed \ {e}
  BY DEF MarkCreated, DirtyOps, OfEntity

\* An addition is marked unless the entity is being destroyed.
LEMMA MarkAddedFacts ==
  ASSUME NEW d \in DirtyOps, NEW e \in Entity, NEW K \in SUBSET ComponentKey,
         e \notin d.destroyed
  PROVE  /\ MarkAdded(d, e, K) \in DirtyOps
         /\ MarkAdded(d, e, K).created = d.created
         /\ MarkAdded(d, e, K).network = d.network
         /\ MarkAdded(d, e, K).added = d.added \cup K
         /\ MarkAdded(d, e, K).updated = d.updated
         /\ MarkAdded(d, e, K).removed = d.removed \ K
         /\ MarkAdded(d, e, K).destroyed = d.destroyed
  BY DEF MarkAdded, DirtyOps

\* An owner change touches the network marks only.
LEMMA MarkNetworkChangedFacts ==
  ASSUME NEW d \in DirtyOps, NEW e \in Entity
  PROVE  /\ MarkNetworkChanged(d, e) \in DirtyOps
         /\ MarkNetworkChanged(d, e).created = d.created
         /\ MarkNetworkChanged(d, e).network \subseteq d.network \cup {e}
         /\ MarkNetworkChanged(d, e).added = d.added
         /\ MarkNetworkChanged(d, e).updated = d.updated
         /\ MarkNetworkChanged(d, e).removed = d.removed
         /\ MarkNetworkChanged(d, e).destroyed = d.destroyed
  BY DEF MarkNetworkChanged, DirtyOps

\* A write touches the field marks only, and none that an addition covers.
LEMMA MarkUpdatedFacts ==
  ASSUME NEW d \in DirtyOps, NEW U \in SUBSET DirtyBit
  PROVE  /\ MarkUpdated(d, U) \in DirtyOps
         /\ MarkUpdated(d, U).created = d.created
         /\ MarkUpdated(d, U).network = d.network
         /\ MarkUpdated(d, U).added = d.added
         /\ d.updated \subseteq MarkUpdated(d, U).updated
         /\ \A b \in MarkUpdated(d, U).updated :
              b \in d.updated \/ (b \in U /\ <<b[1], b[2]>> \notin d.added)
         /\ MarkUpdated(d, U).removed = d.removed
         /\ MarkUpdated(d, U).destroyed = d.destroyed
  BY DEF MarkUpdated, DirtyOps

\* A removal is marked unless it cancels an addition; field marks of what it
\* removes go.
LEMMA MarkRemovedFacts ==
  ASSUME NEW d \in DirtyOps, NEW K \in SUBSET ComponentKey
  PROVE  /\ MarkRemoved(d, K) \in DirtyOps
         /\ MarkRemoved(d, K).created = d.created
         /\ MarkRemoved(d, K).network = d.network
         /\ MarkRemoved(d, K).added = d.added \ K
         /\ MarkRemoved(d, K).updated = d.updated \ OfKeys(d.updated, K \ d.added)
         /\ MarkRemoved(d, K).removed = d.removed \cup (K \ d.added)
         /\ MarkRemoved(d, K).destroyed = d.destroyed
  BY DEF MarkRemoved, DirtyOps

\* A destruction clears every other mark of its entity.
LEMMA MarkDestroyedFacts ==
  ASSUME NEW d \in DirtyOps, NEW e \in Entity
  PROVE  /\ MarkDestroyed(d, e) \in DirtyOps
         /\ MarkDestroyed(d, e).created = d.created \ {e}
         /\ MarkDestroyed(d, e).network = d.network \ {e}
         /\ MarkDestroyed(d, e).added = d.added \ OfEntity(d.added, e)
         /\ MarkDestroyed(d, e).updated = d.updated \ OfEntity(d.updated, e)
         /\ MarkDestroyed(d, e).removed = d.removed \ OfEntity(d.removed, e)
         /\ MarkDestroyed(d, e).destroyed \subseteq d.destroyed \cup {e}
  BY DEF MarkDestroyed, DirtyOps

\* What was not collected stays, and nothing is added.
LEMMA ClearWrittenFacts ==
  ASSUME NEW d \in DirtyOps, NEW ops
  PROVE  /\ ClearWritten(d, ops) \in DirtyOps
         /\ ClearWritten(d, ops).created \subseteq d.created
         /\ ClearWritten(d, ops).network \subseteq d.network
         /\ ClearWritten(d, ops).added \subseteq d.added
         /\ ClearWritten(d, ops).updated \subseteq d.updated
         /\ ClearWritten(d, ops).removed \subseteq d.removed
         /\ ClearWritten(d, ops).destroyed \subseteq d.destroyed
  BY DEF ClearWritten, DirtyOps

\* Additions to an entity that is not being destroyed: its creation may be
\* marked with them, and its owner if it has one.
LEMMA MarkComponentsAddedFacts ==
  ASSUME NEW d \in DirtyOps, NEW e \in Entity, NEW C \in SUBSET Component,
         C # {}, e \in replicated => e \notin d.destroyed
  PROVE  LET n == MarkComponentsAdded(d, e, C)
         IN  /\ n \in DirtyOps
             /\ n.created \subseteq d.created \cup {e}
             /\ n.network \subseteq d.network \cup {e}
             /\ owner[e] = Server => n.network \subseteq d.network
             /\ n.added = d.added \cup KeysOf(e, C)
             /\ n.updated \subseteq d.updated
             /\ n.removed = d.removed \ KeysOf(e, C)
             /\ n.destroyed \subseteq d.destroyed \ {e}
<1> DEFINE m == MarkEntityReplicated(d, e)
<1>1. /\ m \in DirtyOps
      /\ m.created \subseteq d.created \cup {e}
      /\ m.network \subseteq d.network \cup {e}
      /\ owner[e] = Server => m.network \subseteq d.network
      /\ m.added = d.added
      /\ m.updated \subseteq d.updated
      /\ m.removed = d.removed
      /\ m.destroyed \subseteq d.destroyed \ {e}
  <2>1. CASE e \in replicated
    BY <2>1 DEF MarkEntityReplicated
  <2>2. CASE e \notin replicated /\ owner[e] = Server
    BY <2>2, MarkCreatedFacts DEF MarkEntityReplicated
  <2>3. CASE e \notin replicated /\ owner[e] # Server
    <3> DEFINE c == MarkCreated(d, e)
    <3>1. /\ c \in DirtyOps
          /\ c.created = d.created \cup {e}
          /\ c.network = d.network \ {e}
          /\ c.added = d.added
          /\ c.updated \subseteq d.updated
          /\ c.removed = d.removed
          /\ c.destroyed = d.destroyed \ {e}
      BY MarkCreatedFacts
    <3>2. m = MarkNetworkChanged(c, e)
      BY <2>3 DEF MarkEntityReplicated
    <3> HIDE DEF c, m
    <3>. QED  BY <2>3, <3>1, <3>2, MarkNetworkChangedFacts
  <2>. QED  BY <2>1, <2>2, <2>3
<1>2. KeysOf(e, C) \in SUBSET ComponentKey
  BY DEF KeysOf, ComponentKey
<1>3. MarkComponentsAdded(d, e, C) = MarkAdded(m, e, KeysOf(e, C))
  BY DEF MarkComponentsAdded
<1> HIDE DEF m
<1>. QED  BY <1>1, <1>2, <1>3, MarkAddedFacts

-----------------------------------------------------------------------------
\* WorldInv holds at first.
LEMMA WorldInitInv == WorldInit => WorldInv
<1> SUFFICES ASSUME WorldInit PROVE WorldInv
  OBVIOUS
<1> USE WorldAssumption DEF WorldInit
<1>1. \A e \in Entity, c \in Component : ~HasRecord(e, c)
  BY DEF HasRecord, NoRecords
<1>2. WorldTypeOK
  BY DEF WorldTypeOK, NoRecords, NothingDirty, DirtyOps, WorldEntity
<1>3. NoLeftovers
  BY DEF NoLeftovers, WorldEntity
<1>4. ReplicatedIffComponent
  BY <1>1 DEF ReplicatedIffComponent, ReplicatedComponent
<1>5. MarksMatchStore /\ MarksAreReplicated
  BY DEF MarksMatchStore, MarksAreReplicated, NothingDirty
<1>. QED  BY <1>2, <1>3, <1>4, <1>5 DEF WorldInv

\* A write changes one field of a record, and the field marks.
LEMMA WriteInv ==
  ASSUME WorldInv, NEW e \in Entity, NEW c \in Component, NEW f \in Field,
         NEW v \in Value, Write(e, c, f, v)
  PROVE  WorldInv'
<1> DEFINE U == {<<e, c, f>>}
<1>1. U \in SUBSET DirtyBit
  BY DEF DirtyBit
<1>2. /\ dirty' \in DirtyOps
      /\ dirty'.created = dirty.created
      /\ dirty'.network = dirty.network
      /\ dirty'.added = dirty.added
      /\ \A b \in dirty'.updated : b[2] \in ReplicatedComponent
      /\ dirty'.removed = dirty.removed
      /\ dirty'.destroyed = dirty.destroyed
  <2>1. dirty \in DirtyOps /\ \A b \in dirty.updated : b[2] \in ReplicatedComponent
    BY DEF WorldInv, WorldTypeOK, MarksAreReplicated
  <2>2. CASE c \in ReplicatedComponent /\ e \in replicated
    <3>1. dirty' = MarkUpdated(dirty, U)
      BY <2>2 DEF Write
    <3>2. \A b \in U : b[2] \in ReplicatedComponent
      BY <2>2
    <3> HIDE DEF U
    <3>. QED  BY <1>1, <2>1, <3>1, <3>2, MarkUpdatedFacts
  <2>3. CASE ~(c \in ReplicatedComponent /\ e \in replicated)
    BY <2>1, <2>3 DEF Write
  <2>. QED  BY <2>2, <2>3
<1>3. /\ storage[e][c] \in Row
      /\ storage' = [storage EXCEPT ![e][c][f] = v]
  BY DEF WorldInv, WorldTypeOK, Write, HasRecord
<1>4. storage' \in [Entity -> [Component -> Row \cup {Absent}]]
  BY <1>3 DEF WorldInv, WorldTypeOK, Row
<1>5. \A a \in Entity, b \in Component : HasRecord(a, b)' <=> HasRecord(a, b)
  BY <1>3, WorldAssumption DEF HasRecord, WorldInv, WorldTypeOK, Row
<1>6. e \in entities
  BY DEF WorldInv, NoLeftovers, Write, HasRecord, NoRecords
<1>. QED
  <2>1. WorldTypeOK'
    BY <1>2, <1>4 DEF WorldTypeOK, WorldInv, Write
  <2>2. NoLeftovers'
    BY <1>3, <1>6 DEF NoLeftovers, WorldInv, WorldTypeOK, Write
  <2>3. ReplicatedIffComponent'
    BY <1>5 DEF ReplicatedIffComponent, ReplicatedComponent, WorldInv, Write
  <2>4. MarksMatchStore'
    BY <1>2, <1>5 DEF MarksMatchStore, WorldInv, WorldTypeOK, DirtyOps, ComponentKey, Write
  <2>5. MarksAreReplicated'
    BY <1>2 DEF MarksAreReplicated, WorldInv, Write
  <2>. QED  BY <2>1, <2>2, <2>3, <2>4, <2>5 DEF WorldInv

\* A stale write changes field marks only.
LEMMA StaleWriteInv ==
  ASSUME WorldInv, NEW e \in Entity, NEW c \in Component, NEW f \in Field,
         StaleWrite(e, c, f)
  PROVE  WorldInv'
<1> DEFINE U == {<<e, c, f>>}
<1>1. U \in SUBSET DirtyBit
  BY DEF DirtyBit
<1>2. \A b \in U : b[2] \in ReplicatedComponent
  BY DEF StaleWrite, WorldInv, MarksAreReplicated
<1>3. dirty' = MarkUpdated(dirty, U)
  BY DEF StaleWrite
<1> HIDE DEF U
<1>4. /\ dirty' \in DirtyOps
      /\ dirty'.created = dirty.created
      /\ dirty'.network = dirty.network
      /\ dirty'.added = dirty.added
      /\ \A b \in dirty'.updated : b[2] \in ReplicatedComponent
      /\ dirty'.removed = dirty.removed
      /\ dirty'.destroyed = dirty.destroyed
  BY <1>1, <1>2, <1>3, MarkUpdatedFacts DEF WorldInv, WorldTypeOK, MarksAreReplicated
<1>. QED
  BY <1>4 DEF StaleWrite, WorldInv, WorldTypeOK, NoLeftovers, ReplicatedIffComponent,
              MarksMatchStore, MarksAreReplicated, HasRecord, ReplicatedComponent

\* A change of owner marks an entity that is replicated.
LEMMA SetOwnerInv ==
  ASSUME WorldInv, NEW e \in Entity, NEW p \in Peer \cup {Server}, SetOwner(e, p)
  PROVE  WorldInv'
<1>1. /\ dirty' \in DirtyOps
      /\ dirty'.created = dirty.created
      /\ dirty'.network \subseteq dirty.network \cup ({e} \cap replicated)
      /\ dirty'.added = dirty.added
      /\ dirty'.updated = dirty.updated
      /\ dirty'.removed = dirty.removed
      /\ dirty'.destroyed = dirty.destroyed
  BY MarkNetworkChangedFacts DEF SetOwner, WorldInv, WorldTypeOK
<1>2. WorldTypeOK'
  BY <1>1 DEF SetOwner, WorldInv, WorldTypeOK
<1>3. NoLeftovers'
  BY DEF SetOwner, WorldInv, WorldTypeOK, NoLeftovers
<1>4. ReplicatedIffComponent' /\ MarksMatchStore' /\ MarksAreReplicated'
  BY <1>1 DEF SetOwner, WorldInv, ReplicatedIffComponent, MarksMatchStore,
              MarksAreReplicated, HasRecord, ReplicatedComponent
<1>. QED  BY <1>2, <1>3, <1>4 DEF WorldInv

\* A destruction empties the entity's row and leaves none of its marks but
\* the destruction.
LEMMA DestroyInv ==
  ASSUME WorldInv, NEW e \in Entity, Destroy(e)
  PROVE  WorldInv'
<1> USE DEF WorldInv, WorldTypeOK
<1>1. \A a \in Entity, c \in Component :
        HasRecord(a, c)' <=> HasRecord(a, c) /\ a # e
  BY DEF Destroy, HasRecord, NoRecords
<1>2. /\ dirty' \in DirtyOps
      /\ dirty'.created \subseteq dirty.created
      /\ e \in replicated => e \notin dirty'.created
      /\ dirty'.network \subseteq dirty.network
      /\ e \in replicated => e \notin dirty'.network
      /\ dirty'.added \subseteq dirty.added
      /\ e \in replicated => \A k \in dirty'.added : k[1] # e
      /\ dirty'.updated \subseteq dirty.updated
      /\ dirty'.removed \subseteq dirty.removed
      /\ dirty'.destroyed \subseteq dirty.destroyed \cup ({e} \cap replicated)
  BY MarkDestroyedFacts DEF Destroy, OfEntity
<1>3. WorldTypeOK'
  <2>1. storage' \in [Entity -> [Component -> Row \cup {Absent}]]
    BY DEF Destroy, NoRecords
  <2>. QED  BY <1>2, <2>1 DEF Destroy
<1>4. NoLeftovers'
  BY DEF Destroy, NoLeftovers
<1>5. ReplicatedIffComponent'
  BY <1>1 DEF Destroy, ReplicatedIffComponent, ReplicatedComponent
<1>6. MarksMatchStore'
  <2>1. \A k \in dirty'.added : k[2] \in ReplicatedComponent /\ HasRecord(k[1], k[2])'
    <3> SUFFICES ASSUME NEW k \in dirty'.added
                 PROVE  k[2] \in ReplicatedComponent /\ HasRecord(k[1], k[2])'
      OBVIOUS
    <3>1. k[1] \in Entity /\ k[2] \in Component
      BY <1>2 DEF DirtyOps, ComponentKey
    <3>2. k[2] \in ReplicatedComponent /\ HasRecord(k[1], k[2])
      BY <1>2 DEF MarksMatchStore
    <3>3. k[1] # e
      BY <1>2, <3>2 DEF ReplicatedIffComponent
    <3>. QED  BY <1>1, <3>1, <3>2, <3>3
  <2>2. \A k \in dirty'.removed : ~HasRecord(k[1], k[2])'
    BY <1>1, <1>2 DEF MarksMatchStore, DirtyOps, ComponentKey
  <2>3. /\ dirty'.network \subseteq replicated'
        /\ dirty'.destroyed \cap (replicated' \cup dirty'.created) = {}
    BY <1>2 DEF MarksMatchStore, Destroy
  <2>. QED  BY <2>1, <2>2, <2>3 DEF MarksMatchStore, ReplicatedComponent
<1>7. MarksAreReplicated'
  BY <1>2 DEF MarksAreReplicated, Destroy, OfEntity
<1>. QED  BY <1>3, <1>4, <1>5, <1>6, <1>7

\* Additions bring their keys into the store and into the graph, and take the
\* same keys from what is to be removed.
LEMMA AdditionsMatchStore ==
  ASSUME WorldInv, NEW e \in Entity, NEW new \in SUBSET Component,
         NEW C, C = new \cap ReplicatedComponent,
         \A a \in Entity, c \in Component :
            HasRecord(a, c)' <=> HasRecord(a, c) \/ (a = e /\ c \in new),
         replicated' = IF C = {} THEN replicated ELSE replicated \cup {e},
         dirty' \in DirtyOps,
         dirty'.created \subseteq dirty.created \cup {e},
         dirty'.network \subseteq dirty.network \cup (IF C = {} THEN {} ELSE {e}),
         dirty'.added = dirty.added \cup KeysOf(e, C),
         dirty'.removed = dirty.removed \ KeysOf(e, C),
         dirty'.destroyed \subseteq dirty.destroyed,
         e \in dirty'.destroyed => C = {} /\ dirty'.created \subseteq dirty.created
  PROVE  MarksMatchStore'
<1> USE DEF WorldInv, WorldTypeOK
<1>1. \A k \in dirty'.added : k[2] \in ReplicatedComponent /\ HasRecord(k[1], k[2])'
  <2> SUFFICES ASSUME NEW k \in dirty'.added
               PROVE  k[2] \in ReplicatedComponent /\ HasRecord(k[1], k[2])'
    OBVIOUS
  <2>1. k[1] \in Entity /\ k[2] \in Component
    BY DEF DirtyOps, ComponentKey
  <2>2. CASE k \in dirty.added
    BY <2>1, <2>2 DEF MarksMatchStore
  <2>3. CASE k \in KeysOf(e, C)
    BY <2>1, <2>3 DEF KeysOf
  <2>. QED  BY <2>2, <2>3
<1>2. \A k \in dirty'.removed : ~HasRecord(k[1], k[2])'
  <2> SUFFICES ASSUME NEW k \in dirty'.removed
               PROVE  ~HasRecord(k[1], k[2])'
    OBVIOUS
  <2>1. /\ k \in ComponentKey /\ k = <<k[1], k[2]>>
        /\ k \in dirty.removed /\ k \notin KeysOf(e, C)
    BY DEF DirtyOps, ComponentKey
  <2>2. k[2] \in ReplicatedComponent /\ ~HasRecord(k[1], k[2])
    BY <2>1 DEF MarksMatchStore, MarksAreReplicated
  <2>3. ~(k[1] = e /\ k[2] \in new)
    BY <2>1, <2>2 DEF KeysOf
  <2>. QED  BY <2>1, <2>2, <2>3 DEF ComponentKey
<1>3. dirty'.network \subseteq replicated'
  BY DEF MarksMatchStore
<1>4. dirty'.destroyed \cap (replicated' \cup dirty'.created) = {}
  BY DEF MarksMatchStore
<1>. QED  BY <1>1, <1>2, <1>3, <1>4 DEF MarksMatchStore, ReplicatedComponent

\* Adding to an entity that exists.
LEMMA AddInv ==
  ASSUME WorldInv, NEW e \in Entity, NEW B \in Bundle, NEW v \in Value,
         Add(e, B, v)
  PROVE  WorldInv'
<1> USE WorldAssumption DEF WorldInv, WorldTypeOK
<1> DEFINE new == {c \in B : ~HasRecord(e, c)}
           C   == new \ LocalComponent
<1>1. /\ new \in SUBSET Component
      /\ C = new \cap ReplicatedComponent
      /\ e \in entities
  BY DEF Add, ReplicatedComponent
<1>2. /\ storage' = [storage EXCEPT ![e] =
                       [c \in Component |->
                          IF c \in new THEN [f \in Field |-> v] ELSE @[c]]]
      /\ replicated' = IF C = {} THEN replicated ELSE replicated \cup {e}
      /\ dirty' = MarkComponentsAdded(dirty, e, C)
      /\ UNCHANGED <<entities, owner, nextId, detached>>
  BY DEF Add
<1> HIDE DEF new
<1>3. \A a \in Entity, c \in Component :
        HasRecord(a, c)' <=> HasRecord(a, c) \/ (a = e /\ c \in new)
  BY <1>1, <1>2 DEF HasRecord, Row
<1>4. /\ dirty' \in DirtyOps
      /\ dirty'.created \subseteq dirty.created \cup {e}
      /\ dirty'.network \subseteq dirty.network \cup (IF C = {} THEN {} ELSE {e})
      /\ owner[e] = Server => dirty'.network \subseteq dirty.network
      /\ dirty'.added = dirty.added \cup KeysOf(e, C)
      /\ dirty'.updated \subseteq dirty.updated
      /\ dirty'.removed = dirty.removed \ KeysOf(e, C)
      /\ dirty'.destroyed \subseteq dirty.destroyed
      /\ e \in dirty'.destroyed => C = {} /\ dirty'.created \subseteq dirty.created
  <2>1. CASE C = {}
    BY <1>2, <2>1 DEF MarkComponentsAdded, KeysOf
  <2>2. CASE C # {}
    <3>1. e \in replicated => e \notin dirty.destroyed
      BY DEF MarksMatchStore
    <3>2. C \in SUBSET Component
      BY <1>1
    <3>3. dirty \in DirtyOps
      OBVIOUS
    <3> HIDE DEF C, WorldInv, WorldTypeOK
    <3>. QED  BY <1>2, <2>2, <3>1, <3>2, <3>3, MarkComponentsAddedFacts
  <2>. QED  BY <2>1, <2>2
<1> HIDE DEF C
<1>5. WorldTypeOK'
  <2>1. [f \in Field |-> v] \in Row
    BY DEF Row
  <2>2. storage' \in [Entity -> [Component -> Row \cup {Absent}]]
    BY <1>2, <2>1
  <2>. QED  BY <1>2, <1>4, <2>2
<1>6. NoLeftovers'
  BY <1>1, <1>2 DEF NoLeftovers
<1>7. ReplicatedIffComponent'
  BY <1>1, <1>2, <1>3 DEF ReplicatedIffComponent, ReplicatedComponent
<1>8. MarksMatchStore'
  <2>1. WorldInv
    OBVIOUS
  <2>2. replicated' = IF C = {} THEN replicated ELSE replicated \cup {e}
    BY <1>2
  <2>. QED  BY ONLY e \in Entity, <1>1, <1>3, <1>4, <2>1, <2>2, AdditionsMatchStore
<1>9. MarksAreReplicated'
  BY <1>2, <1>4 DEF MarksAreReplicated, NoLeftovers, ReplicatedComponent
<1>. QED  BY <1>5, <1>6, <1>7, <1>8, <1>9

\* Adding to an entity that gets its id in the same call: nothing knew the id.
LEMMA SpawnInv ==
  ASSUME WorldInv, NEW B \in Bundle, NEW v \in Value, Spawn(B, v)
  PROVE  WorldInv'
<1> USE WorldAssumption DEF WorldInv, WorldTypeOK
<1> PICK e \in Entity : e = nextId
  BY DEF Spawn
<1> DEFINE C == B \ LocalComponent
           d == MarkCreated(dirty, e)
<1>1. /\ B \in SUBSET Component
      /\ C = B \cap ReplicatedComponent
      /\ e \notin entities
      /\ e # WorldEntity
  BY DEF Spawn, NoLeftovers, ReplicatedComponent
<1>2. /\ storage' = [storage EXCEPT ![e] =
                       [c \in Component |->
                          IF c \in B THEN [f \in Field |-> v] ELSE Absent]]
      /\ replicated' = IF C = {} THEN replicated ELSE replicated \cup {e}
      /\ dirty' = MarkComponentsAdded(d, e, C)
      /\ nextId' = e + 1
      /\ entities' = entities \cup {e}
      /\ UNCHANGED <<owner, detached>>
  BY DEF Spawn
<1>3. \A c \in Component : ~HasRecord(e, c)
  BY <1>1 DEF NoLeftovers, HasRecord, NoRecords
<1>4. e \notin replicated /\ owner[e] = Server
  BY <1>1, <1>3 DEF ReplicatedIffComponent, ReplicatedComponent, NoLeftovers
<1>5. \A a \in Entity, c \in Component :
        HasRecord(a, c)' <=> HasRecord(a, c) \/ (a = e /\ c \in B)
  BY <1>1, <1>2, <1>3 DEF HasRecord, Row
<1>6. /\ d \in DirtyOps
      /\ d.created = dirty.created \cup {e}
      /\ d.network = dirty.network \ {e}
      /\ d.added = dirty.added
      /\ d.updated \subseteq dirty.updated
      /\ d.removed = dirty.removed
      /\ d.destroyed = dirty.destroyed \ {e}
  BY <1>1, MarkCreatedFacts
<1> HIDE DEF d
<1>7. /\ dirty' \in DirtyOps
      /\ dirty'.created \subseteq dirty.created \cup {e}
      /\ dirty'.network \subseteq dirty.network
      /\ dirty'.added = dirty.added \cup KeysOf(e, C)
      /\ dirty'.updated \subseteq dirty.updated
      /\ dirty'.removed = dirty.removed \ KeysOf(e, C)
      /\ dirty'.destroyed \subseteq dirty.destroyed \ {e}
  <2>1. CASE C = {}
    BY <1>2, <1>6, <2>1 DEF MarkComponentsAdded, KeysOf
  <2>2. CASE C # {}
    <3>1. C \in SUBSET Component
      BY <1>1
    <3> DEFINE n == MarkComponentsAdded(d, e, C)
    <3> HIDE DEF C, WorldInv, WorldTypeOK
    <3>2. d \in DirtyOps
      BY <1>6
    <3>3. /\ n \in DirtyOps
          /\ n.created \subseteq d.created \cup {e}
          /\ n.network \subseteq d.network
          /\ n.added = d.added \cup KeysOf(e, C)
          /\ n.updated \subseteq d.updated
          /\ n.removed = d.removed \ KeysOf(e, C)
          /\ n.destroyed \subseteq d.destroyed \ {e}
      BY <1>4, <2>2, <3>1, <3>2, MarkComponentsAddedFacts
    <3>4. dirty' = n
      BY <1>2
    <3> HIDE DEF n
    <3>. QED  BY <1>6, <3>3, <3>4
  <2>. QED  BY <2>1, <2>2
<1> HIDE DEF C
<1>8. WorldTypeOK'
  <2>1. [f \in Field |-> v] \in Row
    BY DEF Row
  <2>2. storage' \in [Entity -> [Component -> Row \cup {Absent}]]
    BY <1>1, <1>2, <2>1
  <2>3. nextId' \in Nat
    BY <1>2
  <2>4. entities' \subseteq Entity /\ replicated' \subseteq Entity
    BY <1>2
  <2>. QED  BY <1>2, <1>7, <2>2, <2>3, <2>4
<1>9. NoLeftovers'
  BY <1>1, <1>2 DEF NoLeftovers
<1>10. ReplicatedIffComponent'
  BY <1>1, <1>2, <1>5 DEF ReplicatedIffComponent, ReplicatedComponent
<1>11. MarksMatchStore'
  <2>1. /\ dirty'.network \subseteq dirty.network \cup (IF C = {} THEN {} ELSE {e})
        /\ dirty'.destroyed \subseteq dirty.destroyed
        /\ e \notin dirty'.destroyed
    BY <1>7
  <2>2. WorldInv
    OBVIOUS
  <2>3. replicated' = IF C = {} THEN replicated ELSE replicated \cup {e}
    BY <1>2
  <2>. QED  BY ONLY e \in Entity, <1>1, <1>5, <1>7, <2>1, <2>2, <2>3, AdditionsMatchStore
<1>12. MarksAreReplicated'
  BY <1>2, <1>7 DEF MarksAreReplicated
<1>. QED  BY <1>8, <1>9, <1>10, <1>11, <1>12

\* A removal takes its keys from the store; with the last replicated component
\* the entity leaves the replicated set and its marks shrink to a destruction.
LEMMA RemoveInv ==
  ASSUME WorldInv, NEW e \in Entity, NEW B \in Bundle, Remove(e, B)
  PROVE  WorldInv'
<1> USE WorldAssumption DEF WorldInv, WorldTypeOK
<1> DEFINE gone    == {c \in B : HasRecord(e, c)}
           K       == KeysOf(e, gone \ LocalComponent)
           marked  == MarkRemoved(dirty, K)
           isLocal == e \in replicated /\ ReplicatedBut(e, gone) = {}
           leaves  == isLocal /\ e # WorldEntity
<1>1. /\ gone \in SUBSET Component
      /\ \A c \in gone : HasRecord(e, c)
      /\ gone # {}
  BY DEF Remove
<1>2. /\ storage' = [storage EXCEPT ![e] =
                       [c \in Component |-> IF c \in gone THEN Absent ELSE @[c]]]
      /\ replicated' = IF isLocal THEN replicated \ {e} ELSE replicated
      /\ dirty' = IF leaves THEN MarkDestroyed(marked, e) ELSE marked
      /\ detached' \subseteq detached \cup K
      /\ UNCHANGED <<entities, owner, nextId>>
  BY DEF Remove
<1>3. isLocal <=> /\ e \in replicated
                  /\ \A c \in ReplicatedComponent : HasRecord(e, c) => c \in gone
  BY DEF ReplicatedBut
<1> HIDE DEF gone, isLocal
<1>4. \A a \in Entity, c \in Component :
        HasRecord(a, c)' <=> HasRecord(a, c) /\ ~(a = e /\ c \in gone)
  BY <1>1, <1>2 DEF HasRecord
<1>5. /\ K \in SUBSET ComponentKey
      /\ \A k \in K : k[1] = e /\ k[2] \in gone /\ k[2] \in ReplicatedComponent
      /\ \A k \in ComponentKey :
           k[1] = e /\ k[2] \in gone /\ k[2] \in ReplicatedComponent => k \in K
  BY <1>1 DEF KeysOf, ComponentKey, ReplicatedComponent
<1> HIDE DEF K
<1>6. /\ marked \in DirtyOps
      /\ marked.created = dirty.created
      /\ marked.network = dirty.network
      /\ marked.added = dirty.added \ K
      /\ marked.updated \subseteq dirty.updated
      /\ marked.removed \subseteq dirty.removed \cup K
      /\ marked.destroyed = dirty.destroyed
  <2>1. dirty \in DirtyOps /\ K \in SUBSET ComponentKey
    BY <1>5
  <2>2. /\ marked \in DirtyOps
        /\ marked.created = dirty.created
        /\ marked.network = dirty.network
        /\ marked.added = dirty.added \ K
        /\ marked.updated = dirty.updated \ OfKeys(dirty.updated, K \ dirty.added)
        /\ marked.removed = dirty.removed \cup (K \ dirty.added)
        /\ marked.destroyed = dirty.destroyed
    BY ONLY <2>1, MarkRemovedFacts
  <2>. QED  BY <2>2
<1> HIDE DEF marked
<1>7. /\ dirty' \in DirtyOps
      /\ dirty'.created \subseteq dirty.created
      /\ dirty'.network \subseteq dirty.network
      /\ leaves => e \notin dirty'.created /\ e \notin dirty'.network
      /\ dirty'.added \subseteq dirty.added \ K
      /\ dirty'.updated \subseteq dirty.updated
      /\ dirty'.removed \subseteq dirty.removed \cup K
      /\ dirty'.destroyed \subseteq dirty.destroyed \cup {e}
      /\ ~leaves => dirty'.destroyed = dirty.destroyed
  <2>1. CASE leaves
    BY <1>2, <1>6, <2>1, MarkDestroyedFacts
  <2>2. CASE ~leaves
    BY <1>2, <1>6, <2>2
  <2>. QED  BY <2>1, <2>2
<1>8. WorldTypeOK'
  <2>1. storage' \in [Entity -> [Component -> Row \cup {Absent}]]
    BY <1>2
  <2>. QED  BY <1>2, <1>5, <1>7, <2>1
<1>9. NoLeftovers'
  <2>1. e \in entities
    BY <1>1 DEF NoLeftovers, HasRecord, NoRecords
  <2>. QED  BY <1>2, <2>1 DEF NoLeftovers
<1>10. ReplicatedIffComponent'
  BY <1>2, <1>3, <1>4 DEF ReplicatedIffComponent, ReplicatedComponent
<1>11. MarksMatchStore'
  <2>1. \A k \in dirty'.added : k[2] \in ReplicatedComponent /\ HasRecord(k[1], k[2])'
    <3> SUFFICES ASSUME NEW k \in dirty'.added
                 PROVE  k[2] \in ReplicatedComponent /\ HasRecord(k[1], k[2])'
      OBVIOUS
    <3>1. k \in ComponentKey /\ k[1] \in Entity /\ k[2] \in Component
      BY <1>7 DEF DirtyOps, ComponentKey
    <3>2. k \notin K /\ k[2] \in ReplicatedComponent /\ HasRecord(k[1], k[2])
      BY <1>7 DEF MarksMatchStore
    <3>. QED  BY <1>4, <1>5, <3>1, <3>2
  <2>2. \A k \in dirty'.removed : ~HasRecord(k[1], k[2])'
    <3> SUFFICES ASSUME NEW k \in dirty'.removed
                 PROVE  ~HasRecord(k[1], k[2])'
      OBVIOUS
    <3>1. k[1] \in Entity /\ k[2] \in Component
      BY <1>7 DEF DirtyOps, ComponentKey
    <3>2. CASE k \in dirty.removed
      BY <1>4, <3>1, <3>2 DEF MarksMatchStore
    <3>3. CASE k \in K
      BY <1>4, <1>5, <3>1, <3>3
    <3>. QED  BY <1>7, <3>2, <3>3
  <2>3. dirty'.network \subseteq replicated'
    BY <1>2, <1>7 DEF MarksMatchStore, MarksAreReplicated
  <2>4. dirty'.destroyed \cap (replicated' \cup dirty'.created) = {}
    BY <1>2, <1>7 DEF MarksMatchStore
  <2>. QED  BY <2>1, <2>2, <2>3, <2>4 DEF MarksMatchStore, ReplicatedComponent
<1>12. MarksAreReplicated'
  BY <1>2, <1>5, <1>7 DEF MarksAreReplicated
<1>. QED  BY <1>8, <1>9, <1>10, <1>11, <1>12

\* Every call of the program preserves the invariant.
LEMMA EditInv == WorldInv /\ Edit => WorldInv'
<1> SUFFICES ASSUME WorldInv, Edit PROVE WorldInv'
  OBVIOUS
<1>1. ASSUME NEW B \in Bundle, NEW v \in Value, Spawn(B, v) PROVE WorldInv'
  BY <1>1, SpawnInv
<1>2. ASSUME NEW e \in Entity, NEW B \in Bundle, NEW v \in Value, Add(e, B, v)
      PROVE  WorldInv'
  BY <1>2, AddInv
<1>3. ASSUME NEW e \in Entity, NEW B \in Bundle, Remove(e, B) PROVE WorldInv'
  BY <1>3, RemoveInv
<1>4. ASSUME NEW e \in Entity, Destroy(e) PROVE WorldInv'
  BY <1>4, DestroyInv
<1>5. ASSUME NEW e \in Entity, NEW p \in Peer \cup {Server}, SetOwner(e, p)
      PROVE  WorldInv'
  BY <1>5, SetOwnerInv
<1>6. ASSUME NEW e \in Entity, NEW c \in Component, NEW f \in Field, NEW v \in Value,
             Write(e, c, f, v)
      PROVE  WorldInv'
  BY <1>6, WriteInv
<1>7. ASSUME NEW e \in Entity, NEW c \in Component, NEW f \in Field,
             StaleWrite(e, c, f)
      PROVE  WorldInv'
  BY <1>7, StaleWriteInv
<1>. QED  BY <1>1, <1>2, <1>3, <1>4, <1>5, <1>6, <1>7 DEF Edit

-----------------------------------------------------------------------------
\* When no removed instance is written to, deltas always have their records.

DeltaInv ==
  /\ WorldInv
  /\ UpdatesHaveRecords


\* The obligation of one step: marks that stay keep their record and stay
\* apart from additions, and so do new ones.
LEMMA UpdatesKeepRecords ==
  ASSUME UpdatesHaveRecords, dirty \in DirtyOps,
         \A b \in dirty'.updated :
            \/ /\ b \in dirty.updated
               /\ HasRecord(b[1], b[2]) => HasRecord(b[1], b[2])'
               /\ HasRecord(b[1], b[2]) /\ <<b[1], b[2]>> \notin dirty.added
                    => <<b[1], b[2]>> \notin dirty'.added
            \/ HasRecord(b[1], b[2])' /\ <<b[1], b[2]>> \notin dirty'.added
  PROVE  UpdatesHaveRecords'
  BY DEF UpdatesHaveRecords

\* A new entity has no marks.
LEMMA SpawnDelta ==
  ASSUME DeltaInv, NEW B \in Bundle, NEW v \in Value, Spawn(B, v)
  PROVE  UpdatesHaveRecords'
<1> USE WorldAssumption DEF DeltaInv, WorldInv, WorldTypeOK
<1> PICK e \in Entity : e = nextId
  BY DEF Spawn
<1> DEFINE C == B \ LocalComponent
           d == MarkCreated(dirty, e)
<1>1. /\ B \in SUBSET Component
      /\ e \notin entities
      /\ dirty' = MarkComponentsAdded(d, e, C)
  BY DEF Spawn, NoLeftovers
<1>2. \A c \in Component : ~HasRecord(e, c)
  BY <1>1 DEF NoLeftovers, HasRecord, NoRecords
<1>3. \A a \in Entity, c \in Component : HasRecord(a, c) => HasRecord(a, c)'
  BY <1>2 DEF Spawn, HasRecord
<1>4. /\ d \in DirtyOps
      /\ d.added = dirty.added
      /\ d.updated \subseteq dirty.updated
      /\ d.destroyed = dirty.destroyed \ {e}
  BY MarkCreatedFacts
<1> HIDE DEF d
<1>5. /\ dirty'.updated \subseteq dirty.updated
      /\ dirty'.added \subseteq dirty.added \cup KeysOf(e, C)
  <2>1. CASE C = {}
    BY <1>1, <1>4, <2>1 DEF MarkComponentsAdded
  <2>2. CASE C # {}
    <3>1. /\ C \in SUBSET Component
          /\ e \notin d.destroyed
      BY <1>1, <1>4
    <3> DEFINE n == MarkComponentsAdded(d, e, C)
    <3>2. n.updated \subseteq d.updated /\ n.added = d.added \cup KeysOf(e, C)
      BY ONLY e \in Entity, <1>4, <2>2, <3>1, MarkComponentsAddedFacts
    <3>. QED  BY <1>1, <1>4, <3>2
  <2>. QED  BY <2>1, <2>2
<1>6. \A b \in dirty'.updated :
        /\ b \in dirty.updated /\ b[1] \in Entity /\ b[2] \in Component
        /\ HasRecord(b[1], b[2]) => <<b[1], b[2]>> \notin KeysOf(e, C)
  BY <1>2, <1>5 DEF DirtyOps, DirtyBit, KeysOf
<1>. QED  BY <1>3, <1>5, <1>6, UpdatesKeepRecords

\* What is added had no record, so no mark.
LEMMA AddDelta ==
  ASSUME DeltaInv, NEW e \in Entity, NEW B \in Bundle, NEW v \in Value,
         Add(e, B, v)
  PROVE  UpdatesHaveRecords'
<1> USE WorldAssumption DEF DeltaInv, WorldInv, WorldTypeOK
<1> DEFINE new == {c \in B : ~HasRecord(e, c)}
           C   == new \ LocalComponent
<1>1. /\ C \in SUBSET Component
      /\ dirty' = MarkComponentsAdded(dirty, e, C)
      /\ dirty \in DirtyOps
      /\ e \in replicated => e \notin dirty.destroyed
  BY DEF Add, MarksMatchStore
<1>2. \A a \in Entity, c \in Component : HasRecord(a, c) => HasRecord(a, c)'
  BY DEF Add, HasRecord
<1>3. \A k \in KeysOf(e, C) : ~HasRecord(k[1], k[2])
  BY DEF KeysOf
<1> HIDE DEF C
<1>4. /\ dirty'.updated \subseteq dirty.updated
      /\ dirty'.added \subseteq dirty.added \cup KeysOf(e, C)
  <2>1. CASE C = {}
    BY <1>1, <2>1 DEF MarkComponentsAdded
  <2>2. CASE C # {}
    BY ONLY e \in Entity, <1>1, <2>2, MarkComponentsAddedFacts
  <2>. QED  BY <2>1, <2>2
<1>5. \A b \in dirty'.updated :
        /\ b \in dirty.updated /\ b[1] \in Entity /\ b[2] \in Component
        /\ HasRecord(b[1], b[2]) => <<b[1], b[2]>> \notin KeysOf(e, C)
  BY <1>3, <1>4 DEF DirtyOps, DirtyBit
<1>. QED  BY <1>2, <1>4, <1>5, UpdatesKeepRecords

\* The marks of what is removed go, unless there were none because the
\* addition was unsent.
LEMMA RemoveDelta ==
  ASSUME DeltaInv, NEW e \in Entity, NEW B \in Bundle, Remove(e, B)
  PROVE  UpdatesHaveRecords'
<1> USE WorldAssumption DEF DeltaInv, WorldInv, WorldTypeOK
<1> DEFINE gone    == {c \in B : HasRecord(e, c)}
           K       == KeysOf(e, gone \ LocalComponent)
           marked  == MarkRemoved(dirty, K)
<1>1. \A a \in Entity, c \in Component :
        HasRecord(a, c) /\ ~(a = e /\ c \in gone) => HasRecord(a, c)'
  BY DEF Remove, HasRecord
<1>2. /\ K \in SUBSET ComponentKey
      /\ \A c \in gone \cap ReplicatedComponent : <<e, c>> \in K
      /\ dirty \in DirtyOps
  BY DEF KeysOf, ComponentKey, ReplicatedComponent
<1>3. dirty' = marked \/ dirty' = MarkDestroyed(marked, e)
  BY DEF Remove
<1> HIDE DEF K, gone
<1>4. /\ marked \in DirtyOps
      /\ marked.added = dirty.added \ K
      /\ marked.updated = dirty.updated \ OfKeys(dirty.updated, K \ dirty.added)
  BY ONLY <1>2, MarkRemovedFacts
<1> HIDE DEF marked
<1>5. /\ dirty'.added \subseteq dirty.added
      /\ dirty'.updated \subseteq dirty.updated \ OfKeys(dirty.updated, K \ dirty.added)
  <2>1. /\ MarkDestroyed(marked, e).added = marked.added \ OfEntity(marked.added, e)
        /\ MarkDestroyed(marked, e).updated = marked.updated \ OfEntity(marked.updated, e)
    BY <1>4, MarkDestroyedFacts
  <2>. QED  BY <1>3, <1>4, <2>1
<1>6. \A b \in dirty'.updated :
        /\ b \in dirty.updated /\ b[1] \in Entity
        /\ b[2] \in Component /\ b[2] \in ReplicatedComponent
        /\ <<b[1], b[2]>> \notin K \ dirty.added
        /\ <<b[1], b[2]>> \notin dirty.added
  <2> SUFFICES ASSUME NEW b \in dirty'.updated
               PROVE  /\ b \in dirty.updated /\ b[1] \in Entity
                      /\ b[2] \in Component /\ b[2] \in ReplicatedComponent
                      /\ <<b[1], b[2]>> \notin K \ dirty.added
                      /\ <<b[1], b[2]>> \notin dirty.added
    OBVIOUS
  <2>1. b \in dirty.updated /\ b \notin OfKeys(dirty.updated, K \ dirty.added)
    BY <1>5
  <2>2. b \in DirtyBit
    BY <2>1 DEF DirtyOps
  <2>3. b[2] \in ReplicatedComponent /\ <<b[1], b[2]>> \notin dirty.added
    BY <2>1 DEF MarksAreReplicated, UpdatesHaveRecords
  <2>4. b[1] \in Entity /\ b[2] \in Component
    BY <2>2 DEF DirtyBit
  <2>. QED  BY <2>1, <2>3, <2>4 DEF OfKeys
<1>7. \A b \in dirty'.updated : ~(b[1] = e /\ b[2] \in gone)
  BY <1>2, <1>6
<1>. QED  BY <1>1, <1>5, <1>6, <1>7, UpdatesKeepRecords

\* The marks of a destroyed entity go; one that was not replicated had none.
LEMMA DestroyDelta ==
  ASSUME DeltaInv, NEW e \in Entity, Destroy(e)
  PROVE  UpdatesHaveRecords'
<1> USE DEF DeltaInv, WorldInv, WorldTypeOK
<1>1. \A a \in Entity, c \in Component : HasRecord(a, c) /\ a # e => HasRecord(a, c)'
  BY DEF Destroy, HasRecord
<1>2. \A b \in dirty.updated :
        /\ b[1] \in Entity /\ b[2] \in Component
        /\ b[1] = e => e \in replicated
  BY DEF DirtyOps, DirtyBit, UpdatesHaveRecords, MarksAreReplicated, ReplicatedIffComponent
<1>3. /\ dirty'.added \subseteq dirty.added
      /\ dirty'.updated \subseteq dirty.updated
      /\ e \in replicated => \A b \in dirty'.updated : b[1] # e
  BY MarkDestroyedFacts DEF Destroy, OfEntity
<1>. QED  BY <1>1, <1>2, <1>3, UpdatesKeepRecords

\* A write marks a field of a record that is there.
LEMMA WriteDelta ==
  ASSUME DeltaInv, NEW e \in Entity, NEW c \in Component, NEW f \in Field,
         NEW v \in Value, Write(e, c, f, v)
  PROVE  UpdatesHaveRecords'
<1> USE DEF DeltaInv, WorldInv, WorldTypeOK
<1> DEFINE U == {<<e, c, f>>}
<1>1. \A a \in Entity, b \in Component : HasRecord(a, b) => HasRecord(a, b)'
  <2>1. storage[e][c] \in Row /\ storage' = [storage EXCEPT ![e][c][f] = v]
    BY DEF Write, HasRecord
  <2>. QED  BY <2>1, WorldAssumption DEF HasRecord, Row
<1>2. /\ U \in SUBSET DirtyBit
      /\ \A b \in U : HasRecord(b[1], b[2])
  BY DEF DirtyBit, Write
<1>3. dirty' = dirty \/ dirty' = MarkUpdated(dirty, U)
  BY DEF Write
<1> HIDE DEF U
<1>4. /\ dirty'.added = dirty.added
      /\ \A b \in dirty'.updated :
           b \in dirty.updated \/ (b \in U /\ <<b[1], b[2]>> \notin dirty.added)
  BY <1>2, <1>3, MarkUpdatedFacts
<1>5. \A b \in dirty.updated \cup U : b[1] \in Entity /\ b[2] \in Component
  BY <1>2 DEF DirtyOps, DirtyBit
<1>. QED  BY <1>1, <1>2, <1>4, <1>5, UpdatesKeepRecords

\* Hence every call of a program without stale writes keeps DeltaInv.
LEMMA EditDelta ==
  ASSUME StaleWrites = FALSE, DeltaInv, Edit
  PROVE  DeltaInv'
<1>1. WorldInv'
  BY EditInv DEF DeltaInv
<1>2. UpdatesHaveRecords'
  <2>1. ASSUME NEW B \in Bundle, NEW v \in Value, Spawn(B, v)
        PROVE  UpdatesHaveRecords'
    BY <2>1, SpawnDelta
  <2>2. ASSUME NEW e \in Entity, NEW B \in Bundle, NEW v \in Value, Add(e, B, v)
        PROVE  UpdatesHaveRecords'
    BY <2>2, AddDelta
  <2>3. ASSUME NEW e \in Entity, NEW B \in Bundle, Remove(e, B)
        PROVE  UpdatesHaveRecords'
    BY <2>3, RemoveDelta
  <2>4. ASSUME NEW e \in Entity, Destroy(e) PROVE UpdatesHaveRecords'
    BY <2>4, DestroyDelta
  <2>5. ASSUME NEW e \in Entity, NEW p \in Peer \cup {Server}, SetOwner(e, p)
        PROVE  UpdatesHaveRecords'
    <3>1. dirty'.updated = dirty.updated /\ dirty'.added = dirty.added
      BY <2>5, MarkNetworkChangedFacts DEF SetOwner, DeltaInv, WorldInv, WorldTypeOK
    <3>. QED  BY <2>5, <3>1 DEF SetOwner, DeltaInv, UpdatesHaveRecords, HasRecord
  <2>6. ASSUME NEW e \in Entity, NEW c \in Component, NEW f \in Field, NEW v \in Value,
               Write(e, c, f, v)
        PROVE  UpdatesHaveRecords'
    BY <2>6, WriteDelta
  <2>. QED
    BY <2>1, <2>2, <2>3, <2>4, <2>5, <2>6 DEF Edit, StaleWrite
<1>. QED  BY <1>1, <1>2 DEF DeltaInv

-----------------------------------------------------------------------------
\* Replicas.

Stores == [Entity -> [Component -> Row \cup {Absent}]]

Replicas == [ entities : SUBSET Entity,
              storage  : Stores,
              owner    : [Entity -> Peer \cup {Server}] ]

-----------------------------------------------------------------------------
\* The parts of a replica that an operation changes, and those it leaves.
LEMMA ReplicaParts ==
  ASSUME NEW r \in Replicas, NEW en, NEW st, NEW ow
  PROVE  /\ [r EXCEPT !.entities = en]
              = [entities |-> en, storage |-> r.storage, owner |-> r.owner]
         /\ [r EXCEPT !.storage = st]
              = [entities |-> r.entities, storage |-> st, owner |-> r.owner]
         /\ [r EXCEPT !.entities = en, !.storage = st]
              = [entities |-> en, storage |-> st, owner |-> r.owner]
         /\ [r EXCEPT !.entities = en, !.owner = ow]
              = [entities |-> en, storage |-> r.storage, owner |-> ow]
         /\ [r EXCEPT !.entities = en, !.storage = st, !.owner = ow]
              = [entities |-> en, storage |-> st, owner |-> ow]
<1> DEFINE x == [r EXCEPT !.entities = en, !.storage = st]
           y == [r EXCEPT !.entities = en, !.owner = ow]
           z == [r EXCEPT !.entities = en, !.storage = st, !.owner = ow]
<1> USE DEF Replicas
<1>1. /\ x.entities = en /\ x.storage = st /\ x.owner = r.owner
      /\ x \in [entities : {en}, storage : {st}, owner : {r.owner}]
  OBVIOUS
<1>2. /\ y.entities = en /\ y.storage = r.storage /\ y.owner = ow
      /\ y \in [entities : {en}, storage : {r.storage}, owner : {ow}]
  OBVIOUS
<1>3. /\ z.entities = en /\ z.storage = st /\ z.owner = ow
      /\ z \in [entities : {en}, storage : {st}, owner : {ow}]
  OBVIOUS
<1> HIDE DEF x, y, z
<1>4. x = [entities |-> en, storage |-> st, owner |-> r.owner]
  BY <1>1
<1>5. y = [entities |-> en, storage |-> r.storage, owner |-> ow]
  BY <1>2
<1>6. z = [entities |-> en, storage |-> st, owner |-> ow]
  BY <1>3
<1>7. /\ [r EXCEPT !.entities = en]
           = [entities |-> en, storage |-> r.storage, owner |-> r.owner]
      /\ [r EXCEPT !.storage = st]
           = [entities |-> r.entities, storage |-> st, owner |-> r.owner]
  OBVIOUS
<1> QED  BY <1>4, <1>5, <1>6, <1>7 DEF x, y, z

\* With no operation that throws, nothing is cut off.
LEMMA UpToNothing == \A S : UpTo(S, {}) = S
  BY DEF UpTo

\* Added records take the place of those that are there.
LEMMA ApplyAddEncoded ==
  ASSUME NEW r \in Replicas, NEW store \in Stores, NEW K \in SUBSET ComponentKey
  PROVE  ApplyAdd(r, {<<k[1], k[2], store[k[1]][k[2]]>> : k \in K}) =
           [ entities |-> r.entities \cup {k[1] : k \in K},
             storage  |-> [e \in Entity |-> [c \in Component |->
                             IF <<e, c>> \in K THEN store[e][c] ELSE r.storage[e][c]]],
             owner    |-> r.owner ]
<1> DEFINE A  == {<<k[1], k[2], store[k[1]][k[2]]>> : k \in K}
           en == r.entities \cup {a[1] : a \in A}
           st == [e \in Entity |-> [c \in Component |->
                    IF \E a \in A : a[1] = e /\ a[2] = c
                    THEN (CHOOSE a \in A : a[1] = e /\ a[2] = c)[3]
                    ELSE r.storage[e][c]]]
<1>1. ASSUME NEW a \in A
      PROVE  \E k \in K : a = <<k[1], k[2], store[k[1]][k[2]]>>
  OBVIOUS
<1>2. ASSUME NEW k \in K
      PROVE  \E a \in A : a[1] = k[1] /\ a[2] = k[2]
  <2>1. <<k[1], k[2], store[k[1]][k[2]]>> \in A
    OBVIOUS
  <2> QED  BY <2>1
<1>3. ASSUME NEW a \in A
      PROVE  <<a[1], a[2]>> \in K /\ a[3] = store[a[1]][a[2]]
  BY <1>1 DEF ComponentKey
<1>4. en = r.entities \cup {k[1] : k \in K}
  <2> HIDE DEF A
  <2>1. ASSUME NEW a \in A PROVE a[1] \in {k[1] : k \in K}
    <3>1. <<a[1], a[2]>> \in K /\ <<a[1], a[2]>>[1] = a[1]
      BY <1>3
    <3> QED  BY <3>1
  <2>2. {k[1] : k \in K} \subseteq {a[1] : a \in A}
    BY <1>2
  <2> QED  BY <2>1, <2>2
<1>5. ASSUME NEW e \in Entity, NEW c \in Component
      PROVE  (IF \E a \in A : a[1] = e /\ a[2] = c
              THEN (CHOOSE a \in A : a[1] = e /\ a[2] = c)[3]
              ELSE r.storage[e][c])
             = IF <<e, c>> \in K THEN store[e][c] ELSE r.storage[e][c]
  <2> HIDE DEF A
  <2>1. CASE <<e, c>> \in K
    <3>1. \E a \in A : a[1] = e /\ a[2] = c
      BY <1>2, <2>1
    <3> QED  BY <1>3, <2>1, <3>1
  <2>2. CASE <<e, c>> \notin K
    BY <1>3, <2>2
  <2> QED  BY <2>1, <2>2
<1>6. st = [e \in Entity |-> [c \in Component |->
              IF <<e, c>> \in K THEN store[e][c] ELSE r.storage[e][c]]]
  <2> HIDE DEF A
  <2> QED  BY <1>5
<1>7. ApplyAdd(r, A) = [r EXCEPT !.entities = en, !.storage = st]
  BY Zenon DEF ApplyAdd
<1> HIDE DEF A, en, st
<1>8. ApplyAdd(r, A) = [entities |-> en, storage |-> st, owner |-> r.owner]
  BY <1>7, ReplicaParts
<1> QED  BY <1>4, <1>6, <1>8 DEF A

\* Owners that are sent replace those that are known.
LEMMA ApplyNetworkEncoded ==
  ASSUME NEW r \in Replicas, NEW owners, NEW N \in SUBSET Entity
  PROVE  ApplyNetwork(r, {<<e, owners[e]>> : e \in N}) =
           [ entities |-> r.entities \cup N,
             storage  |-> r.storage,
             owner    |-> [e \in Entity |-> IF e \in N THEN owners[e] ELSE r.owner[e]] ]
<1> DEFINE A  == {<<e, owners[e]>> : e \in N}
           en == r.entities \cup {a[1] : a \in A}
           ow == [e \in Entity |-> IF \E a \in A : a[1] = e
                                   THEN (CHOOSE a \in A : a[1] = e)[2]
                                   ELSE r.owner[e]]
<1>1. ASSUME NEW a \in A
      PROVE  a[1] \in N /\ a[2] = owners[a[1]]
  OBVIOUS
<1>2. ASSUME NEW e \in N
      PROVE  \E a \in A : a[1] = e
  <2>1. <<e, owners[e]>> \in A
    OBVIOUS
  <2> QED  BY <2>1
<1>3. ASSUME NEW e \in Entity
      PROVE  (IF \E a \in A : a[1] = e THEN (CHOOSE a \in A : a[1] = e)[2] ELSE r.owner[e])
             = IF e \in N THEN owners[e] ELSE r.owner[e]
  <2> HIDE DEF A
  <2>1. CASE e \in N
    <3>1. \E a \in A : a[1] = e
      BY <1>2, <2>1
    <3> QED  BY <1>1, <2>1, <3>1
  <2>2. CASE e \notin N
    BY <1>1, <2>2
  <2> QED  BY <2>1, <2>2
<1>4. en = r.entities \cup N
  <2> HIDE DEF A
  <2> QED  BY <1>1, <1>2
<1>5. ow = [e \in Entity |-> IF e \in N THEN owners[e] ELSE r.owner[e]]
  <2> HIDE DEF A
  <2> QED  BY <1>3
<1>6. ApplyNetwork(r, A) = [r EXCEPT !.entities = en, !.owner = ow]
  BY Zenon DEF ApplyNetwork
<1> HIDE DEF A, en, ow
<1>7. ApplyNetwork(r, A) = [entities |-> en, storage |-> r.storage, owner |-> ow]
  BY <1>6, ReplicaParts
<1> QED  BY <1>4, <1>5, <1>7 DEF A

\* Field values that are sent replace those of the records that are there.
LEMMA ApplyUpdateEncoded ==
  ASSUME NEW r \in Replicas, NEW store \in Stores, NEW U \in SUBSET DirtyBit
  PROVE  ApplyUpdate(r, {<<b[1], b[2], b[3], store[b[1]][b[2]][b[3]]>> : b \in U}) =
           [ entities |-> r.entities,
             storage  |-> [e \in Entity |-> [c \in Component |->
                             IF r.storage[e][c] = Absent THEN Absent
                             ELSE [f \in Field |-> IF <<e, c, f>> \in U
                                                   THEN store[e][c][f]
                                                   ELSE r.storage[e][c][f]]]],
             owner    |-> r.owner ]
<1> DEFINE A  == {<<b[1], b[2], b[3], store[b[1]][b[2]][b[3]]>> : b \in U}
           st == [e \in Entity |-> [c \in Component |->
                    IF r.storage[e][c] = Absent THEN Absent
                    ELSE [f \in Field |->
                            IF \E u \in A : u[1] = e /\ u[2] = c /\ u[3] = f
                            THEN (CHOOSE u \in A : u[1] = e /\ u[2] = c /\ u[3] = f)[4]
                            ELSE r.storage[e][c][f]]]]
<1>1. ASSUME NEW u \in A
      PROVE  <<u[1], u[2], u[3]>> \in U /\ u[4] = store[u[1]][u[2]][u[3]]
  BY DEF DirtyBit
<1>2. ASSUME NEW b \in U
      PROVE  \E u \in A : u[1] = b[1] /\ u[2] = b[2] /\ u[3] = b[3]
  <2>1. <<b[1], b[2], b[3], store[b[1]][b[2]][b[3]]>> \in A
    OBVIOUS
  <2> QED  BY <2>1
<1>3. ASSUME NEW e \in Entity, NEW c \in Component, NEW f \in Field
      PROVE  (IF \E u \in A : u[1] = e /\ u[2] = c /\ u[3] = f
              THEN (CHOOSE u \in A : u[1] = e /\ u[2] = c /\ u[3] = f)[4]
              ELSE r.storage[e][c][f])
             = IF <<e, c, f>> \in U THEN store[e][c][f] ELSE r.storage[e][c][f]
  <2> HIDE DEF A
  <2>1. CASE <<e, c, f>> \in U
    <3>1. \E u \in A : u[1] = e /\ u[2] = c /\ u[3] = f
      BY <1>2, <2>1
    <3> QED  BY <1>1, <2>1, <3>1
  <2>2. CASE <<e, c, f>> \notin U
    BY <1>1, <2>2
  <2> QED  BY <2>1, <2>2
<1>4. st = [e \in Entity |-> [c \in Component |->
              IF r.storage[e][c] = Absent THEN Absent
              ELSE [f \in Field |-> IF <<e, c, f>> \in U
                                    THEN store[e][c][f]
                                    ELSE r.storage[e][c][f]]]]
  <2> HIDE DEF A
  <2> QED  BY <1>3
<1>5. ApplyUpdate(r, A) = [r EXCEPT !.storage = st]
  BY Zenon DEF ApplyUpdate
<1> HIDE DEF A, st
<1>6. ApplyUpdate(r, A) = [entities |-> r.entities, storage |-> st, owner |-> r.owner]
  BY <1>5, ReplicaParts
<1> QED  BY <1>4, <1>6 DEF A

\* Packets keep a replica a replica.
LEMMA ApplyTypes ==
  ASSUME NEW r \in Replicas, NEW R, NEW D
  PROVE  /\ ApplyRemove(r, R) =
              [ entities |-> r.entities,
                storage  |-> [e \in Entity |-> [c \in Component |->
                                IF <<e, c>> \in R THEN Absent ELSE r.storage[e][c]]],
                owner    |-> r.owner ]
         /\ ApplyRemove(r, R) \in Replicas
         /\ ApplyDestroy(r, D) =
              [ entities |-> r.entities \ D,
                storage  |-> [e \in Entity |-> IF e \in D THEN NoRecords ELSE r.storage[e]],
                owner    |-> [e \in Entity |-> IF e \in D THEN Server ELSE r.owner[e]] ]
<1> DEFINE st == [e \in Entity |-> [c \in Component |->
                    IF <<e, c>> \in R THEN Absent ELSE r.storage[e][c]]]
           en == r.entities \ D
           sd == [e \in Entity |-> IF e \in D THEN NoRecords ELSE r.storage[e]]
           ow == [e \in Entity |-> IF e \in D THEN Server ELSE r.owner[e]]
<1>1. ApplyRemove(r, R) = [r EXCEPT !.storage = st]
  BY Zenon DEF ApplyRemove
<1>2. ApplyDestroy(r, D) = [r EXCEPT !.entities = en, !.storage = sd, !.owner = ow]
  BY Zenon DEF ApplyDestroy
<1>3. st \in Stores
  BY DEF Replicas, Stores
<1> HIDE DEF st, en, sd, ow
<1>4. ApplyRemove(r, R) = [entities |-> r.entities, storage |-> st, owner |-> r.owner]
  BY <1>1, ReplicaParts
<1>5. ApplyDestroy(r, D) = [entities |-> en, storage |-> sd, owner |-> ow]
  BY <1>2, ReplicaParts
<1>6. ApplyRemove(r, R) \in Replicas
  BY <1>3, <1>4 DEF Replicas
<1> QED  BY <1>4, <1>5, <1>6 DEF st, en, sd, ow

-----------------------------------------------------------------------------
\* The record of k that a replica has after a packet.
RecordAfter(r, ops, store, e, c) ==
  IF e \in ops.destroyed \/ <<e, c>> \in ops.removed THEN Absent
  ELSE IF <<e, c>> \in ops.added THEN store[e][c]
  ELSE IF r.storage[e][c] = Absent THEN Absent
  ELSE [f \in Field |-> IF <<e, c, f>> \in ops.updated
                        THEN store[e][c][f]
                        ELSE r.storage[e][c][f]]

\* The replica after a packet none of whose operations throws.
After(r, ops, store, owners) ==
  [ entities |-> (r.entities \cup ops.created \cup {k[1] : k \in ops.added}
                             \cup ops.network) \ ops.destroyed,
    storage  |-> [e \in Entity |-> [c \in Component |->
                    RecordAfter(r, ops, store, e, c)]],
    owner    |-> [e \in Entity |-> IF e \in ops.destroyed THEN Server
                                   ELSE IF e \in ops.network THEN owners[e]
                                   ELSE r.owner[e]] ]

\* No operation names a local component, and every update finds its record.
Applicable(r, ops) ==
  /\ \A k \in ops.added \cup ops.removed : k[2] \in ReplicatedComponent
  /\ \A b \in ops.updated :
       /\ b[2] \in ReplicatedComponent
       /\ <<b[1], b[2]>> \in ops.added \/ r.storage[b[1]][b[2]] # Absent

\* What encodes without an exception and applies without one comes out as
\* the operations say.
LEMMA ApplyEncoded ==
  ASSUME NEW r \in Replicas, NEW ops \in DirtyOps, NEW store \in Stores,
         NEW owners \in [Entity -> Peer \cup {Server}],
         Encodable(ops, store), Applicable(r, ops)
  PROVE  /\ Apply(r, Encode(ops, store, owners)) = After(r, ops, store, owners)
         /\ After(r, ops, store, owners) \in Replicas
<1> DEFINE p       == Encode(ops, store, owners)
           created == ApplyCreate(r, p.create)
           placed  == ApplyAdd(created, p.add)
           owned   == ApplyNetwork(placed, p.network)
           updated == ApplyUpdate(owned, p.update)
           removed == ApplyRemove(updated, p.remove)
<1>1. /\ ops.created \subseteq Entity /\ ops.network \subseteq Entity
      /\ ops.added \in SUBSET ComponentKey /\ ops.updated \in SUBSET DirtyBit
      /\ ops.removed \in SUBSET ComponentKey /\ ops.destroyed \subseteq Entity
  BY DEF DirtyOps
<1>2. /\ p.create = ops.created
      /\ p.add = {<<k[1], k[2], store[k[1]][k[2]]>> : k \in ops.added}
      /\ p.network = {<<e, owners[e]>> : e \in ops.network}
      /\ p.update = {<<b[1], b[2], b[3], store[b[1]][b[2]][b[3]]>> : b \in ops.updated}
      /\ p.remove = ops.removed
      /\ p.destroy = ops.destroyed
  BY DEF Encode
<1> HIDE DEF p
<1> DEFINE entities1 == r.entities \cup ops.created
           entities2 == entities1 \cup {k[1] : k \in ops.added}
           records2(e, c) == IF <<e, c>> \in ops.added THEN store[e][c] ELSE r.storage[e][c]
           storage2 == [e \in Entity |-> [c \in Component |-> records2(e, c)]]
           entities3 == entities2 \cup ops.network
           owner3    == [e \in Entity |-> IF e \in ops.network THEN owners[e] ELSE r.owner[e]]
<1>3. {k[1] : k \in ops.added} \subseteq Entity
  BY <1>1 DEF ComponentKey
<1>4. created = [entities |-> entities1, storage |-> r.storage, owner |-> r.owner]
      /\ created \in Replicas
  <2>1. created = [r EXCEPT !.entities = entities1]
    BY <1>2 DEF ApplyCreate
  <2>2. created = [entities |-> entities1, storage |-> r.storage, owner |-> r.owner]
    BY <2>1, ReplicaParts
  <2> HIDE DEF created
  <2> QED  BY <1>1, <2>2 DEF Replicas
<1> HIDE DEF created
<1>5. placed = [entities |-> entities2, storage |-> storage2, owner |-> r.owner]
      /\ placed \in Replicas
  <2>1. placed = [entities |-> entities2, storage |-> storage2, owner |-> r.owner]
    <3>1. /\ created.entities = entities1 /\ created.storage = r.storage
          /\ created.owner = r.owner
      BY <1>4
    <3>2. ApplyAdd(created, {<<k[1], k[2], store[k[1]][k[2]]>> : k \in ops.added}) =
            [ entities |-> created.entities \cup {k[1] : k \in ops.added},
              storage  |-> [e \in Entity |-> [c \in Component |->
                              IF <<e, c>> \in ops.added THEN store[e][c]
                              ELSE created.storage[e][c]]],
              owner    |-> created.owner ]
      BY <1>1, <1>4, ApplyAddEncoded, Zenon
    <3> HIDE DEF entities1
    <3> QED  BY <1>2, <3>1, <3>2, Zenon
  <2>2. storage2 \in Stores
    BY DEF Stores, Replicas
  <2>3. entities2 \in SUBSET Entity
    BY <1>1, <1>3 DEF Replicas
  <2> HIDE DEF placed, entities2, storage2
  <2> QED  BY <2>1, <2>2, <2>3 DEF Replicas
<1> HIDE DEF placed, entities1
<1>6. owned = [entities |-> entities3, storage |-> storage2, owner |-> owner3]
      /\ owned \in Replicas
  <2>1. owned = [entities |-> entities3, storage |-> storage2, owner |-> owner3]
    <3>1. placed.entities = entities2 /\ placed.storage = storage2 /\ placed.owner = r.owner
      BY <1>5
    <3>2. ApplyNetwork(placed, {<<e, owners[e]>> : e \in ops.network}) =
            [ entities |-> placed.entities \cup ops.network,
              storage  |-> placed.storage,
              owner    |-> [e \in Entity |-> IF e \in ops.network THEN owners[e]
                                              ELSE placed.owner[e]] ]
      <4>1. ops.network \in SUBSET Entity
        BY <1>1
      <4>2. placed \in Replicas
        BY <1>5
      <4> QED  BY <4>1, <4>2, ApplyNetworkEncoded
    <3> HIDE DEF entities2, storage2
    <3> QED  BY <1>2, <3>1, <3>2, Zenon
  <2>2. owner3 \in [Entity -> Peer \cup {Server}]
    BY DEF Replicas
  <2>3. entities3 \in SUBSET Entity /\ storage2 \in Stores
    BY <1>1, <1>3, <1>5 DEF Replicas
  <2> HIDE DEF owned, entities3, owner3, storage2
  <2> QED  BY <2>1, <2>2, <2>3 DEF Replicas
<1> HIDE DEF owned
<1> DEFINE records4(e, c) == IF records2(e, c) = Absent THEN Absent
                             ELSE [f \in Field |-> IF <<e, c, f>> \in ops.updated
                                                   THEN store[e][c][f]
                                                   ELSE records2(e, c)[f]]
           storage4 == [e \in Entity |-> [c \in Component |-> records4(e, c)]]
<1>7. updated = [entities |-> entities3, storage |-> storage4, owner |-> owner3]
      /\ updated \in Replicas
  <2>1. /\ owned.entities = entities3 /\ owned.storage = storage2
        /\ owned.owner = owner3
    BY <1>6
  <2>2. \A e \in Entity, c \in Component : storage2[e][c] = records2(e, c)
    OBVIOUS
  <2>3. updated = [entities |-> entities3,
                   storage  |-> [e \in Entity |-> [c \in Component |->
                             IF owned.storage[e][c] = Absent THEN Absent
                             ELSE [f \in Field |-> IF <<e, c, f>> \in ops.updated
                                                   THEN store[e][c][f]
                                                   ELSE owned.storage[e][c][f]]]],
                   owner    |-> owner3]
    <3>1. ApplyUpdate(owned, {<<b[1], b[2], b[3], store[b[1]][b[2]][b[3]]>>
                                : b \in ops.updated}) =
            [ entities |-> owned.entities,
              storage  |-> [e \in Entity |-> [c \in Component |->
                             IF owned.storage[e][c] = Absent THEN Absent
                             ELSE [f \in Field |-> IF <<e, c, f>> \in ops.updated
                                                   THEN store[e][c][f]
                                                   ELSE owned.storage[e][c][f]]]],
              owner    |-> owned.owner ]
      BY <1>1, <1>6, ApplyUpdateEncoded, Zenon
    <3> HIDE DEF entities3, owner3
    <3> QED  BY <1>2, <2>1, <3>1, Zenon
  <2>4. storage4 \in Stores
    <3> SUFFICES ASSUME NEW e \in Entity, NEW c \in Component
                 PROVE  records4(e, c) \in Row \cup {Absent}
      BY DEF Stores
    <3>1. records2(e, c) \in Row \cup {Absent}
      BY DEF Stores, Replicas
    <3> HIDE DEF records2
    <3>2. ASSUME NEW f \in Field, <<e, c, f>> \in ops.updated PROVE store[e][c][f] \in Value
      <4>1. <<e, c>> \in RecordsIn(store)
        BY <3>2 DEF Encodable
      <4>2. store[e][c] \in Row
        BY <4>1 DEF RecordsIn, Stores
      <4> QED  BY <4>2 DEF Row
    <3> QED  BY <3>1, <3>2 DEF Row
  <2> HIDE DEF updated, entities3, owner3, records2, storage2
  <2>5. updated = [entities |-> entities3, storage |-> storage4, owner |-> owner3]
    BY <2>1, <2>2, <2>3
  <2>6. entities3 \in SUBSET Entity /\ owner3 \in [Entity -> Peer \cup {Server}]
    BY <1>6 DEF Replicas
  <2> HIDE DEF storage4
  <2> QED  BY <2>4, <2>5, <2>6 DEF Replicas
<1> HIDE DEF updated
<1>8. /\ ApplyDestroy(removed, p.destroy) = After(r, ops, store, owners)
      /\ After(r, ops, store, owners) \in Replicas
  <2> DEFINE storage5 == [e \in Entity |-> [c \in Component |->
                            IF <<e, c>> \in ops.removed THEN Absent ELSE records4(e, c)]]
  <2>1. updated.entities = entities3 /\ updated.storage = storage4 /\ updated.owner = owner3
    BY <1>7
  <2>2. \A e \in Entity, c \in Component : storage4[e][c] = records4(e, c)
    OBVIOUS
  <2> HIDE DEF storage4, records4, entities3, owner3
  <2>3. removed = [entities |-> entities3, storage |-> storage5, owner |-> owner3]
        /\ removed \in Replicas
    <3>1. /\ removed = [ entities |-> updated.entities,
                         storage  |-> [e \in Entity |-> [c \in Component |->
                             IF <<e, c>> \in ops.removed THEN Absent
                             ELSE updated.storage[e][c]]],
                         owner    |-> updated.owner ]
          /\ removed \in Replicas
      <4>1. updated \in Replicas
        BY <1>7
      <4>2. removed = ApplyRemove(updated, ops.removed)
        BY <1>2
      <4> QED  BY <4>1, <4>2, ApplyTypes, Zenon
    <3>2. [e \in Entity |-> [c \in Component |->
             IF <<e, c>> \in ops.removed THEN Absent ELSE updated.storage[e][c]]] = storage5
      BY <2>1, <2>2
    <3> HIDE DEF removed, storage5
    <3> QED  BY <2>1, <3>1, <3>2
  <2> HIDE DEF removed
  <2>4. /\ removed.entities = entities3 /\ removed.storage = storage5
        /\ removed.owner = owner3
    BY <2>3
  <2> DEFINE storage6 == [e \in Entity |->
                            IF e \in ops.destroyed THEN NoRecords ELSE storage5[e]]
             owner6   == [e \in Entity |->
                            IF e \in ops.destroyed THEN Server ELSE owner3[e]]
  <2>5. ApplyDestroy(removed, p.destroy) =
          [entities |-> entities3 \ ops.destroyed, storage |-> storage6, owner |-> owner6]
    <3>1. ApplyDestroy(removed, ops.destroyed) =
            [ entities |-> removed.entities \ ops.destroyed,
              storage  |-> [e \in Entity |->
                              IF e \in ops.destroyed THEN NoRecords ELSE removed.storage[e]],
              owner    |-> [e \in Entity |->
                              IF e \in ops.destroyed THEN Server ELSE removed.owner[e]] ]
      BY <2>3, ApplyTypes, Zenon
    <3> HIDE DEF storage5
    <3> QED  BY <1>2, <2>4, <3>1, Zenon
  <2>6. storage6 = [e \in Entity |-> [c \in Component |-> RecordAfter(r, ops, store, e, c)]]
    <3>1. ASSUME NEW e \in Entity, NEW c \in Component
          PROVE  (IF e \in ops.destroyed THEN Absent
                  ELSE IF <<e, c>> \in ops.removed THEN Absent ELSE records4(e, c))
                 = RecordAfter(r, ops, store, e, c)
      <4>1. CASE e \in ops.destroyed \/ <<e, c>> \in ops.removed
        BY <4>1 DEF RecordAfter
      <4>2. CASE /\ ~(e \in ops.destroyed \/ <<e, c>> \in ops.removed)
                 /\ <<e, c>> \in ops.added
        <5>1. records2(e, c) = store[e][c] /\ store[e][c] \in Row
          <6>1. <<e, c>> \in RecordsIn(store)
            BY <4>2 DEF Encodable
          <6> QED  BY <4>2, <6>1 DEF RecordsIn, Stores
        <5> HIDE DEF records2
        <5>2. records4(e, c) = store[e][c]
          BY <5>1, WorldAssumption DEF records4, Row
        <5> QED  BY <4>2, <5>2 DEF RecordAfter
      <4>3. CASE /\ ~(e \in ops.destroyed \/ <<e, c>> \in ops.removed)
                 /\ <<e, c>> \notin ops.added
        BY <4>3 DEF RecordAfter, records4
      <4> QED  BY <4>1, <4>2, <4>3
    <3>2. ASSUME NEW e \in Entity
          PROVE  storage6[e] = [c \in Component |-> RecordAfter(r, ops, store, e, c)]
      <4>1. CASE e \in ops.destroyed
        BY <3>1, <4>1 DEF NoRecords
      <4>2. CASE e \notin ops.destroyed
        BY <3>1, <4>2
      <4> QED  BY <4>1, <4>2
    <3> QED  BY <3>2
  <2>7. owner6 = [e \in Entity |-> IF e \in ops.destroyed THEN Server
                                   ELSE IF e \in ops.network THEN owners[e]
                                   ELSE r.owner[e]]
    BY DEF owner3
  <2>8. entities3 \ ops.destroyed =
          (r.entities \cup ops.created \cup {k[1] : k \in ops.added}
                      \cup ops.network) \ ops.destroyed
    BY DEF entities3, entities1
  <2>9. ApplyDestroy(removed, p.destroy) = After(r, ops, store, owners)
    <3> HIDE DEF storage6, owner6
    <3> QED  BY <2>5, <2>6, <2>7, <2>8 DEF After
  <2>10. After(r, ops, store, owners) \in Replicas
    <3>1. storage6 \in Stores
      BY <2>3, <2>4 DEF Replicas, Stores, NoRecords
    <3>2. owner6 \in [Entity -> Peer \cup {Server}]
      BY <2>3, <2>4 DEF Replicas
    <3>3. entities3 \ ops.destroyed \in SUBSET Entity
      BY <2>3, <2>4 DEF Replicas
    <3> HIDE DEF storage6, owner6
    <3> QED  BY <2>5, <2>9, <3>1, <3>2, <3>3 DEF Replicas
  <2> QED  BY <2>9, <2>10
<1>9. {a \in p.add : a[2] \in LocalComponent} = {}
  BY <1>1, <1>2 DEF Applicable, ReplicatedComponent, ComponentKey
<1>10. {u \in p.update : owned.storage[u[1]][u[2]] = Absent \/ u[2] \in LocalComponent} = {}
  <2> SUFFICES ASSUME NEW b \in ops.updated
               PROVE  /\ owned.storage[b[1]][b[2]] # Absent
                      /\ b[2] \notin LocalComponent
    BY <1>2
  <2>1. b[1] \in Entity /\ b[2] \in Component
    BY <1>1 DEF DirtyBit
  <2>2. owned.storage[b[1]][b[2]] = records2(b[1], b[2])
    BY <1>6, <2>1
  <2>3. store[b[1]][b[2]] # Absent
    BY DEF Encodable, RecordsIn
  <2> QED  BY <2>2, <2>3 DEF Applicable, ReplicatedComponent
<1>11. {k \in p.remove : k[2] \in LocalComponent} = {}
  BY <1>2 DEF Applicable, ReplicatedComponent
<1>12. Apply(r, p) = ApplyDestroy(removed, p.destroy)
  <2>1. UpTo(p.add, {}) = p.add /\ UpTo(p.update, {}) = p.update /\ UpTo(p.remove, {}) = p.remove
    BY UpToNothing
  <2> QED  BY <1>9, <1>10, <1>11, <2>1, Zenon DEF Apply, created, placed, owned, updated
<1> QED  BY <1>8, <1>12 DEF p

-----------------------------------------------------------------------------
\* Sequences of packets.

LEMMA LeastNat ==
  ASSUME NEW T \in SUBSET Nat, T # {}
  PROVE  \E x \in T : \A y \in T : x <= y
<1>1. PICK x \in T : \A y \in T : ~ (<<y, x>> \in OpToRel(<, Nat))
  BY WFMin, NatLessThanWellFounded, Zenon
<1>2. \A y \in T : ~ (y < x)
  BY <1>1 DEF OpToRel
<1>. QED  BY <1>2

\* w holds the replicas on the way from r through the first n packets of s.
Replays(w, r, s, n) ==
  w = [i \in 0..n |-> IF i = 0 THEN r ELSE Apply(w[i - 1], s[i])]

LEMMA ReplaysStep ==
  ASSUME NEW w, NEW r, NEW s, NEW n \in Nat, Replays(w, r, s, n)
  PROVE  /\ w[0] = r
         /\ \A i \in 0..n : i # 0 => w[i] = Apply(w[i - 1], s[i])
<1>1. w = [i \in 0..n |-> IF i = 0 THEN r ELSE Apply(w[i - 1], s[i])]
  BY Zenon DEF Replays
<1>2. \A i \in 0..n : w[i] = IF i = 0 THEN r ELSE Apply(w[i - 1], s[i])
  BY ONLY <1>1, Zenon
<1>3. 0 \in 0..n
  OBVIOUS
<1>. QED  BY <1>2, <1>3, Zenon

LEMMA ReplaysExists ==
  ASSUME NEW r, NEW s, NEW n \in Nat
  PROVE  \E w : Replays(w, r, s, n)
<1> DEFINE T == {m \in Nat : ~ \E w : Replays(w, r, s, m)}
<1>1. SUFFICES T = {}
  OBVIOUS
<1>2. SUFFICES ASSUME T # {} PROVE FALSE
  OBVIOUS
<1>3. PICK m \in T : \A y \in T : m <= y
  <2>1. T \in SUBSET Nat
    OBVIOUS
  <2> HIDE DEF T
  <2>. QED  BY <1>2, <2>1, LeastNat, Zenon
<1>4. m # 0
  <2> SUFFICES ASSUME m = 0 PROVE FALSE
    OBVIOUS
  <2> DEFINE w == [i \in 0..0 |-> r]
  <2>1. w = [i \in 0..0 |-> IF i = 0 THEN r ELSE Apply(w[i - 1], s[i])]
    <3>1. \A i \in 0..0 : (IF i = 0 THEN r ELSE Apply(w[i - 1], s[i])) = r
      OBVIOUS
    <3>. QED  BY <3>1, Zenon
  <2>2. Replays(w, r, s, 0)
    BY <2>1, Zenon DEF Replays
  <2>. QED  BY <2>2
<1>5. m - 1 \in Nat /\ m - 1 \notin T
  BY <1>3, <1>4
<1>6. PICK g : Replays(g, r, s, m - 1)
  BY <1>5
<1> DEFINE w == [i \in 0..m |-> IF i = m THEN Apply(g[m - 1], s[m]) ELSE g[i]]
<1>7. \A i \in 0..m : w[i] = IF i = 0 THEN r ELSE Apply(w[i - 1], s[i])
  <2> SUFFICES ASSUME NEW i \in 0..m
               PROVE  w[i] = IF i = 0 THEN r ELSE Apply(w[i - 1], s[i])
    OBVIOUS
  <2>1. g[0] = r /\ \A j \in 0..(m - 1) : j # 0 => g[j] = Apply(g[j - 1], s[j])
    BY <1>5, <1>6, ReplaysStep
  <2>2. CASE i = 0
    BY <1>4, <2>1, <2>2
  <2>3. CASE i # 0 /\ i # m
    <3>1. i \in 0..(m - 1) /\ i - 1 \in 0..m /\ i - 1 # m
      BY <2>3
    <3>2. w[i] = g[i] /\ w[i - 1] = g[i - 1]
      BY <2>3, <3>1
    <3>. QED  BY <2>1, <2>3, <3>1, <3>2
  <2>4. CASE i = m
    <3>1. m - 1 \in 0..m /\ m - 1 # m
      BY <1>4
    <3>2. w[i] = Apply(g[m - 1], s[m]) /\ w[m - 1] = g[m - 1]
      BY <2>4, <3>1
    <3>. QED  BY <1>4, <2>4, <3>2
  <2>. QED  BY <2>2, <2>3, <2>4
<1>8. Replays(w, r, s, m)
  <2>1. w = [i \in 0..m |-> w[i]]
    OBVIOUS
  <2> HIDE DEF w
  <2>2. w = [i \in 0..m |-> IF i = 0 THEN r ELSE Apply(w[i - 1], s[i])]
    BY <1>7, <2>1
  <2>. QED  BY <2>2, Zenon DEF Replays
<1>. QED  BY <1>8

\* Replays of sequences that agree on their first packets agree.
LEMMA ReplaysAgree ==
  ASSUME NEW r, NEW s, NEW t, NEW w, NEW v, NEW m \in Nat, NEW n \in Nat,
         m <= n, Replays(w, r, s, m), Replays(v, r, t, n),
         \A i \in 1..m : s[i] = t[i]
  PROVE  \A i \in 0..m : w[i] = v[i]
<1> DEFINE T == {i \in 0..m : w[i] # v[i]}
<1>1. SUFFICES ASSUME T # {} PROVE FALSE
  OBVIOUS
<1>2. PICK k \in T : \A y \in T : k <= y
  <2>1. T \in SUBSET Nat
    OBVIOUS
  <2> HIDE DEF T
  <2>. QED  BY <1>1, <2>1, LeastNat, Zenon
<1>3. /\ w[0] = r /\ v[0] = r
      /\ \A i \in 0..m : i # 0 => w[i] = Apply(w[i - 1], s[i])
      /\ \A i \in 0..n : i # 0 => v[i] = Apply(v[i - 1], t[i])
  BY ReplaysStep
<1>4. k # 0 /\ k \in 0..n
  BY <1>3
<1>5. k - 1 \in 0..m /\ k - 1 \notin T
  BY <1>2, <1>4
<1>6. w[k - 1] = v[k - 1] /\ s[k] = t[k]
  BY <1>4, <1>5
<1>. QED  BY <1>3, <1>4, <1>6

LEMMA ReplayedIs ==
  ASSUME NEW r, NEW s, Len(s) \in Nat
  PROVE  \E w : Replays(w, r, s, Len(s)) /\ Replayed(r, s) = w[Len(s)]
<1> DEFINE w == CHOOSE w : Replays(w, r, s, Len(s))
<1>1. Replays(w, r, s, Len(s))
  BY ReplaysExists, Zenon
<1>2. Replayed(r, s) = w[Len(s)]
  BY Zenon DEF Replayed, Replays
<1>. QED  BY <1>1, <1>2

-----------------------------------------------------------------------------

LEMMA ReplayedNothing == \A r : Replayed(r, <<>>) = r
<1> TAKE r
<1>1. Len(<<>>) = 0
  OBVIOUS
<1>2. PICK w : Replays(w, r, <<>>, 0) /\ Replayed(r, <<>>) = w[0]
  BY <1>1, ReplayedIs
<1>. QED  BY <1>2, ReplaysStep

\* A packet sent after the others is applied after them.
LEMMA ReplayedAppend ==
  ASSUME NEW r, NEW s \in Seq(Packet), NEW x \in Packet
  PROVE  Replayed(r, Append(s, x)) = Apply(Replayed(r, s), x)
<1> DEFINE n == Len(s)
           t == Append(s, x)
<1>1. /\ n \in Nat /\ Len(t) = n + 1 /\ t[n + 1] = x
      /\ \A i \in 1..n : s[i] = t[i]
  OBVIOUS
<1>2. PICK w : Replays(w, r, s, n) /\ Replayed(r, s) = w[n]
  BY <1>1, ReplayedIs, Zenon
<1>3. n + 1 \in Nat /\ n <= n + 1 /\ n + 1 \in 0..(n + 1) /\ n + 1 # 0 /\ (n + 1) - 1 = n
      /\ n \in 0..n
  BY <1>1
<1>4. PICK v : Replays(v, r, t, n + 1) /\ Replayed(r, t) = v[n + 1]
  BY <1>1, <1>3, ReplayedIs, Zenon
<1> HIDE DEF n, t
<1>5. w[n] = v[n]
  <2>1. \A i \in 0..n : w[i] = v[i]
    <3>1. \A k \in Nat : n <= k /\ Replays(v, r, t, k) => \A i \in 0..n : w[i] = v[i]
      <4> TAKE k \in Nat
      <4>1. n \in Nat /\ Replays(w, r, s, n) /\ \A i \in 1..n : s[i] = t[i]
        BY <1>1, <1>2
      <4>. QED  BY <4>1, ReplaysAgree
    <3>. QED  BY <1>3, <1>4, <3>1
  <2>. QED  BY <1>3, <2>1
<1>6. v[n + 1] = Apply(v[n], x)
  BY <1>1, <1>3, <1>4, ReplaysStep
<1>. QED  BY <1>2, <1>4, <1>5, <1>6 DEF t

\* The first packet may be applied before the rest.
LEMMA ReplayedTail ==
  ASSUME NEW r, NEW s \in Seq(Packet), s # <<>>
  PROVE  Replayed(Apply(r, Head(s)), Tail(s)) = Replayed(r, s)
<1> DEFINE n == Len(s)
           t == Tail(s)
           q == Apply(r, Head(s))
<1>1. /\ n \in Nat /\ n # 0 /\ Len(t) = n - 1 /\ n - 1 \in Nat /\ Head(s) = s[1]
      /\ \A i \in 1..(n - 1) : t[i] = s[i + 1]
  OBVIOUS
<1>2. PICK w : Replays(w, r, s, n) /\ Replayed(r, s) = w[n]
  BY <1>1, ReplayedIs, Zenon
<1>3. PICK v : Replays(v, q, t, n - 1) /\ Replayed(q, t) = v[n - 1]
  <2>1. \E v : Replays(v, q, t, Len(t)) /\ Replayed(q, t) = v[Len(t)]
    BY <1>1, ReplayedIs
  <2> HIDE DEF n, t, q
  <2>. QED  BY <1>1, <2>1
<1> HIDE DEF n, t, q
<1>4. /\ w[0] = r /\ v[0] = q
      /\ \A i \in 0..n : i # 0 => w[i] = Apply(w[i - 1], s[i])
      /\ \A i \in 0..(n - 1) : i # 0 => v[i] = Apply(v[i - 1], t[i])
  BY <1>1, <1>2, <1>3, ReplaysStep
<1> DEFINE T == {i \in 0..(n - 1) : v[i] # w[i + 1]}
<1>5. ASSUME T # {} PROVE FALSE
  <2>1. PICK k \in T : \A y \in T : k <= y
    <3>1. T \in SUBSET Nat
      BY <1>1
    <3> HIDE DEF T
    <3>. QED  BY <1>5, <3>1, LeastNat, Zenon
  <2>2. w[1] = q
    <3>1. 1 \in 0..n /\ 1 # 0 /\ 1 - 1 = 0
      BY <1>1
    <3>. QED  BY <1>1, <1>4, <3>1 DEF q
  <2>3. k # 0
    BY <1>4, <2>2
  <2>4. /\ k \in 1..(n - 1) /\ k - 1 \in 0..(n - 1) /\ k - 1 \notin T /\ (k - 1) + 1 = k
        /\ k + 1 \in 0..n /\ k + 1 # 0 /\ (k + 1) - 1 = k
    BY <1>1, <2>1, <2>3
  <2>5. v[k - 1] = w[k] /\ t[k] = s[k + 1]
    BY <1>1, <2>4
  <2>6. v[k] = Apply(w[k], s[k + 1]) /\ w[k + 1] = Apply(w[k], s[k + 1])
    BY <1>4, <2>3, <2>4, <2>5
  <2>. QED  BY <2>6
<1>6. v[n - 1] = w[n]
  <2>1. n - 1 \in 0..(n - 1) /\ (n - 1) + 1 = n
    BY <1>1
  <2>. QED  BY <1>5, <2>1
<1>. QED  BY <1>2, <1>3, <1>6 DEF t, q

-----------------------------------------------------------------------------
\* Replicas that differ in values only.
SameShape(r, q) ==
  /\ r.entities = q.entities
  /\ \A e \in Entity, c \in Component : r.storage[e][c] = Absent <=> q.storage[e][c] = Absent
  /\ r.owner = q.owner

\* Each operation keeps replicas replicas and shapes equal.
LEMMA AddShape ==
  ASSUME NEW A \in SUBSET AddOp
  PROVE  /\ \A r \in Replicas : ApplyAdd(r, A) \in Replicas
         /\ \A r, q \in Replicas :
              SameShape(r, q) => SameShape(ApplyAdd(r, A), ApplyAdd(q, A))
<1> DEFINE hit(e, c) == \E a \in A : a[1] = e /\ a[2] = c
           row(e, c) == (CHOOSE a \in A : a[1] = e /\ a[2] = c)[3]
           en(r) == r.entities \cup {a[1] : a \in A}
           st(r) == [e \in Entity |-> [c \in Component |->
                       IF hit(e, c) THEN row(e, c) ELSE r.storage[e][c]]]
<1>1. \A e, c : hit(e, c) => row(e, c) \in Row
  <2> SUFFICES ASSUME NEW e, NEW c, hit(e, c) PROVE row(e, c) \in Row
    OBVIOUS
  <2> DEFINE a == CHOOSE a \in A : a[1] = e /\ a[2] = c
  <2>1. a \in A
    BY Zenon
  <2>. QED  BY <2>1 DEF AddOp
<1>2. \A r \in Replicas : ApplyAdd(r, A) = [entities |-> en(r), storage |-> st(r),
                                            owner |-> r.owner]
  <2> TAKE r \in Replicas
  <2>1. ApplyAdd(r, A) = [r EXCEPT !.entities = en(r), !.storage = st(r)]
    BY Zenon DEF ApplyAdd
  <2> HIDE DEF en, st
  <2>. QED  BY <2>1, ReplicaParts
<1>3. {a[1] : a \in A} \subseteq Entity
  BY DEF AddOp
<1>4. \A r \in Replicas : ApplyAdd(r, A) \in Replicas
  <2> HIDE DEF hit, row
  <2>. QED  BY <1>1, <1>2, <1>3 DEF Replicas, Stores
<1>5. Absent \notin Row
  BY WorldAssumption
<1>6. ASSUME NEW r \in Replicas, NEW q \in Replicas, SameShape(r, q)
      PROVE  SameShape(ApplyAdd(r, A), ApplyAdd(q, A))
  <2>1. /\ ApplyAdd(r, A) = [entities |-> en(r), storage |-> st(r), owner |-> r.owner]
        /\ ApplyAdd(q, A) = [entities |-> en(q), storage |-> st(q), owner |-> q.owner]
    BY <1>2, Zenon
  <2> HIDE DEF hit, row
  <2>2. ASSUME NEW e \in Entity, NEW c \in Component
        PROVE  st(r)[e][c] = Absent <=> st(q)[e][c] = Absent
    BY <1>1, <1>5, <1>6 DEF SameShape
  <2>3. en(r) = en(q) /\ r.owner = q.owner
    BY <1>6 DEF SameShape
  <2> HIDE DEF en, st
  <2>. QED  BY <2>1, <2>2, <2>3 DEF SameShape
<1>. QED  BY <1>4, <1>6

LEMMA NetworkShape ==
  ASSUME NEW N \in SUBSET NetworkOp
  PROVE  /\ \A r \in Replicas : ApplyNetwork(r, N) \in Replicas
         /\ \A r, q \in Replicas :
              SameShape(r, q) => SameShape(ApplyNetwork(r, N), ApplyNetwork(q, N))
<1> DEFINE hit(e) == \E n \in N : n[1] = e
           who(e) == (CHOOSE n \in N : n[1] = e)[2]
           en(r) == r.entities \cup {n[1] : n \in N}
           ow(r) == [e \in Entity |-> IF hit(e) THEN who(e) ELSE r.owner[e]]
<1>1. \A e : hit(e) => who(e) \in Peer \cup {Server}
  <2> SUFFICES ASSUME NEW e, hit(e) PROVE who(e) \in Peer \cup {Server}
    OBVIOUS
  <2> DEFINE n == CHOOSE n \in N : n[1] = e
  <2>1. n \in N
    BY Zenon
  <2>. QED  BY <2>1 DEF NetworkOp
<1>2. \A r \in Replicas : ApplyNetwork(r, N) = [entities |-> en(r), storage |-> r.storage,
                                                owner |-> ow(r)]
  <2> TAKE r \in Replicas
  <2>1. ApplyNetwork(r, N) = [r EXCEPT !.entities = en(r), !.owner = ow(r)]
    BY Zenon DEF ApplyNetwork
  <2> HIDE DEF en, ow
  <2>. QED  BY <2>1, ReplicaParts
<1>3. {n[1] : n \in N} \subseteq Entity
  BY DEF NetworkOp
<1>4. \A r \in Replicas : ApplyNetwork(r, N) \in Replicas
  <2> HIDE DEF hit, who
  <2>. QED  BY <1>1, <1>2, <1>3 DEF Replicas
<1>5. ASSUME NEW r \in Replicas, NEW q \in Replicas, SameShape(r, q)
      PROVE  SameShape(ApplyNetwork(r, N), ApplyNetwork(q, N))
  <2>1. /\ ApplyNetwork(r, N) = [entities |-> en(r), storage |-> r.storage, owner |-> ow(r)]
        /\ ApplyNetwork(q, N) = [entities |-> en(q), storage |-> q.storage, owner |-> ow(q)]
    BY <1>2, Zenon
  <2>2. en(r) = en(q) /\ ow(r) = ow(q)
    BY <1>5 DEF SameShape
  <2> HIDE DEF en, ow
  <2>. QED  BY <1>5, <2>1, <2>2 DEF SameShape
<1>. QED  BY <1>4, <1>5

\* An update changes values only.
LEMMA UpdateShape ==
  ASSUME NEW U \in SUBSET UpdateOp
  PROVE  \A r \in Replicas : /\ ApplyUpdate(r, U) \in Replicas
                             /\ SameShape(r, ApplyUpdate(r, U))
<1> DEFINE hit(e, c, f) == \E u \in U : u[1] = e /\ u[2] = c /\ u[3] = f
           val(e, c, f) == (CHOOSE u \in U : u[1] = e /\ u[2] = c /\ u[3] = f)[4]
           rec(r, e, c) == IF r.storage[e][c] = Absent THEN Absent
                           ELSE [f \in Field |-> IF hit(e, c, f) THEN val(e, c, f)
                                                 ELSE r.storage[e][c][f]]
           st(r) == [e \in Entity |-> [c \in Component |-> rec(r, e, c)]]
<1>1. \A e, c, f : hit(e, c, f) => val(e, c, f) \in Value
  <2> SUFFICES ASSUME NEW e, NEW c, NEW f, hit(e, c, f) PROVE val(e, c, f) \in Value
    OBVIOUS
  <2> DEFINE u == CHOOSE u \in U : u[1] = e /\ u[2] = c /\ u[3] = f
  <2>1. u \in U
    BY Zenon
  <2>. QED  BY <2>1 DEF UpdateOp
<1>2. \A r \in Replicas : ApplyUpdate(r, U) = [entities |-> r.entities, storage |-> st(r),
                                               owner |-> r.owner]
  <2> TAKE r \in Replicas
  <2>1. ApplyUpdate(r, U) = [r EXCEPT !.storage = st(r)]
    BY Zenon DEF ApplyUpdate
  <2> HIDE DEF st
  <2>. QED  BY <2>1, ReplicaParts
<1>3. ASSUME NEW r \in Replicas, NEW e \in Entity, NEW c \in Component
      PROVE  /\ r.storage[e][c] = Absent => rec(r, e, c) = Absent
             /\ r.storage[e][c] # Absent => rec(r, e, c) \in Row
  <2> HIDE DEF hit, val
  <2>1. r.storage[e][c] \in Row \cup {Absent}
    BY DEF Replicas, Stores
  <2>. QED  BY <1>1, <2>1 DEF Row
<1> HIDE DEF rec
<1>4. Absent \notin Row
  BY WorldAssumption
<1>5. \A r \in Replicas : st(r) \in Stores
  BY <1>3 DEF Stores
<1>6. ASSUME NEW r \in Replicas PROVE SameShape(r, ApplyUpdate(r, U))
  BY <1>2, <1>3, <1>4 DEF SameShape
<1>7. ASSUME NEW r \in Replicas PROVE ApplyUpdate(r, U) \in Replicas
  <2>1. ApplyUpdate(r, U) = [entities |-> r.entities, storage |-> st(r), owner |-> r.owner]
    BY <1>2, Zenon
  <2>2. st(r) \in Stores
    BY <1>5
  <2> HIDE DEF st
  <2>. QED  BY <2>1, <2>2 DEF Replicas
<1>. QED  BY <1>6, <1>7

LEMMA OtherShapes ==
  /\ \A r \in Replicas, C \in SUBSET Entity : ApplyCreate(r, C) \in Replicas
  /\ \A r, q \in Replicas, C \in SUBSET Entity :
       SameShape(r, q) => SameShape(ApplyCreate(r, C), ApplyCreate(q, C))
  /\ \A r, q \in Replicas, K \in SUBSET ComponentKey :
       SameShape(r, q) => SameShape(ApplyRemove(r, K), ApplyRemove(q, K))
  /\ \A r, q \in Replicas, D \in SUBSET Entity :
       SameShape(r, q) => SameShape(ApplyDestroy(r, D), ApplyDestroy(q, D))
<1>1. \A r \in Replicas, C \in SUBSET Entity :
        ApplyCreate(r, C) = [entities |-> r.entities \cup C, storage |-> r.storage,
                             owner |-> r.owner]
  BY ReplicaParts DEF ApplyCreate
<1>2. \A r \in Replicas, C \in SUBSET Entity : ApplyCreate(r, C) \in Replicas
  BY <1>1 DEF Replicas
<1>3. ASSUME NEW r \in Replicas, NEW q \in Replicas, NEW C \in SUBSET Entity, SameShape(r, q)
      PROVE  SameShape(ApplyCreate(r, C), ApplyCreate(q, C))
  <2>1. /\ ApplyCreate(r, C) = [entities |-> r.entities \cup C, storage |-> r.storage,
                                owner |-> r.owner]
        /\ ApplyCreate(q, C) = [entities |-> q.entities \cup C, storage |-> q.storage,
                                owner |-> q.owner]
    BY <1>1, Zenon
  <2>. QED  BY <1>3, <2>1 DEF SameShape
<1>4. ASSUME NEW r \in Replicas, NEW q \in Replicas, NEW K \in SUBSET ComponentKey,
             SameShape(r, q)
      PROVE  SameShape(ApplyRemove(r, K), ApplyRemove(q, K))
  <2> DEFINE st(z) == [e \in Entity |-> [c \in Component |->
                         IF <<e, c>> \in K THEN Absent ELSE z.storage[e][c]]]
  <2>1. /\ ApplyRemove(r, K) = [entities |-> r.entities, storage |-> st(r), owner |-> r.owner]
        /\ ApplyRemove(q, K) = [entities |-> q.entities, storage |-> st(q), owner |-> q.owner]
    BY ApplyTypes, Zenon
  <2>. QED  BY <1>4, <2>1 DEF SameShape
<1>5. ASSUME NEW r \in Replicas, NEW q \in Replicas, NEW D \in SUBSET Entity,
             SameShape(r, q)
      PROVE  SameShape(ApplyDestroy(r, D), ApplyDestroy(q, D))
  <2> DEFINE st(z) == [e \in Entity |-> IF e \in D THEN NoRecords ELSE z.storage[e]]
             ow(z) == [e \in Entity |-> IF e \in D THEN Server ELSE z.owner[e]]
  <2>1. /\ ApplyDestroy(r, D) = [entities |-> r.entities \ D, storage |-> st(r), owner |-> ow(r)]
        /\ ApplyDestroy(q, D) = [entities |-> q.entities \ D, storage |-> st(q), owner |-> ow(q)]
    BY ApplyTypes, Zenon
  <2>. QED  BY <1>5, <2>1 DEF SameShape
<1>. QED  BY <1>2, <1>3, <1>4, <1>5

LEMMA SameShapeFacts ==
  /\ \A r : SameShape(r, r)
  /\ \A r, q : SameShape(r, q) => SameShape(q, r)
  /\ \A r, q, z : SameShape(r, q) /\ SameShape(q, z) => SameShape(r, z)
  BY DEF SameShape

\* A packet, also one that ends early, makes a replica of a replica, and
\* equal shapes of equal shapes.
LEMMA ApplyShape ==
  ASSUME NEW r \in Replicas, NEW q \in Replicas, NEW x \in Packet, SameShape(r, q)
  PROVE  Apply(r, x) \in Replicas /\ SameShape(Apply(r, x), Apply(q, x))
<1> DEFINE unknown    == {a \in x.add : a[2] \in LocalComponent}
           placed(z)  == ApplyAdd(ApplyCreate(z, x.create), UpTo(x.add, unknown))
           owned(z)   == ApplyNetwork(placed(z), x.network)
           orphan(z)  == {u \in x.update : \/ owned(z).storage[u[1]][u[2]] = Absent
                                           \/ u[2] \in LocalComponent}
           updated(z) == ApplyUpdate(owned(z), UpTo(x.update, orphan(z)))
           stuck      == {k \in x.remove : k[2] \in LocalComponent}
           removed(z) == ApplyRemove(updated(z), UpTo(x.remove, stuck))
           last(z)    == ApplyDestroy(removed(z), x.destroy)
<1>1. \A z : Apply(z, x) = IF unknown # {} THEN placed(z)
                          ELSE IF orphan(z) # {} THEN updated(z)
                          ELSE IF stuck # {} THEN removed(z)
                          ELSE last(z)
  BY Zenon DEF Apply
<1>2. /\ x.create \in SUBSET Entity /\ UpTo(x.add, unknown) \in SUBSET AddOp
      /\ x.network \in SUBSET NetworkOp /\ x.update \in SUBSET UpdateOp
      /\ UpTo(x.update, orphan(r)) \in SUBSET UpdateOp
      /\ UpTo(x.update, orphan(q)) \in SUBSET UpdateOp
      /\ UpTo(x.remove, stuck) \in SUBSET ComponentKey /\ x.destroy \in SUBSET Entity
  BY DEF Packet, UpTo
<1>3. /\ placed(r) \in Replicas /\ placed(q) \in Replicas
      /\ SameShape(placed(r), placed(q))
  <2>1. /\ ApplyCreate(r, x.create) \in Replicas /\ ApplyCreate(q, x.create) \in Replicas
        /\ SameShape(ApplyCreate(r, x.create), ApplyCreate(q, x.create))
    BY <1>2, OtherShapes, Zenon
  <2>. QED  BY <1>2, <2>1, AddShape, Zenon
<1> HIDE DEF placed
<1>4. /\ owned(r) \in Replicas /\ owned(q) \in Replicas /\ SameShape(owned(r), owned(q))
  BY <1>2, <1>3, NetworkShape, Zenon
<1> HIDE DEF owned
<1>5. orphan(r) = orphan(q)
  <2>1. \A u \in x.update : u[1] \in Entity /\ u[2] \in Component
    BY <1>2 DEF UpdateOp
  <2>. QED  BY <1>4, <2>1 DEF SameShape
<1>6. /\ updated(r) \in Replicas /\ updated(q) \in Replicas
      /\ SameShape(updated(r), updated(q))
  <2>1. /\ updated(r) \in Replicas /\ SameShape(owned(r), updated(r))
        /\ updated(q) \in Replicas /\ SameShape(owned(q), updated(q))
    BY <1>2, <1>4, UpdateShape, Zenon
  <2>. QED  BY <1>4, <2>1, SameShapeFacts, Zenon
<1> HIDE DEF updated
<1>7. /\ removed(r) \in Replicas /\ removed(q) \in Replicas
      /\ SameShape(removed(r), removed(q))
  BY <1>2, <1>6, OtherShapes, ApplyTypes, Zenon
<1> HIDE DEF removed
<1>8. last(r) \in Replicas /\ SameShape(last(r), last(q))
  <2>1. SameShape(last(r), last(q))
    BY <1>2, <1>7, OtherShapes, Zenon
  <2> DEFINE z  == removed(r)
             st == [e \in Entity |-> IF e \in x.destroy THEN NoRecords ELSE z.storage[e]]
             ow == [e \in Entity |-> IF e \in x.destroy THEN Server ELSE z.owner[e]]
  <2>2. last(r) = [entities |-> z.entities \ x.destroy, storage |-> st, owner |-> ow]
    BY <1>7, ApplyTypes, Zenon
  <2>3. st \in Stores /\ ow \in [Entity -> Peer \cup {Server}]
    BY <1>7 DEF Replicas, Stores, NoRecords
  <2> HIDE DEF st, ow
  <2>4. last(r) \in Replicas
    BY <1>7, <2>2, <2>3 DEF Replicas
  <2>. QED  BY <2>1, <2>4
<1> HIDE DEF last, unknown, stuck, orphan
<1>9. CASE unknown # {}
  <2>1. Apply(r, x) = placed(r) /\ Apply(q, x) = placed(q)
    BY <1>1, <1>9
  <2>. QED  BY <1>3, <2>1
<1>10. CASE unknown = {} /\ orphan(r) # {}
  <2>1. Apply(r, x) = updated(r) /\ Apply(q, x) = updated(q)
    BY <1>1, <1>5, <1>10
  <2>. QED  BY <1>6, <2>1
<1>11. CASE unknown = {} /\ orphan(r) = {} /\ stuck # {}
  <2>1. Apply(r, x) = removed(r) /\ Apply(q, x) = removed(q)
    BY <1>1, <1>5, <1>11
  <2>. QED  BY <1>7, <2>1
<1>12. CASE unknown = {} /\ orphan(r) = {} /\ stuck = {}
  <2>1. Apply(r, x) = last(r) /\ Apply(q, x) = last(q)
    BY <1>1, <1>5, <1>12
  <2>. QED  BY <1>8, <2>1
<1>. QED  BY <1>9, <1>10, <1>11, <1>12

\* A packet with nothing but field updates.
OnlyUpdates(x) ==
  x.create = {} /\ x.add = {} /\ x.network = {} /\ x.remove = {} /\ x.destroy = {}

\* Such a packet changes no shape, whether all its records are there or not.
LEMMA UpdatesKeepShape ==
  ASSUME NEW r \in Replicas, NEW x \in Packet, OnlyUpdates(x)
  PROVE  SameShape(r, Apply(r, x))
<1> DEFINE unknown == {a \in x.add : a[2] \in LocalComponent}
           placed  == ApplyAdd(ApplyCreate(r, x.create), UpTo(x.add, unknown))
           owned   == ApplyNetwork(placed, x.network)
           orphan  == {u \in x.update : \/ owned.storage[u[1]][u[2]] = Absent
                                        \/ u[2] \in LocalComponent}
           updated == ApplyUpdate(owned, UpTo(x.update, orphan))
           stuck   == {k \in x.remove : k[2] \in LocalComponent}
           removed == ApplyRemove(updated, UpTo(x.remove, stuck))
<1>1. Apply(r, x) = IF unknown # {} THEN placed
                    ELSE IF orphan # {} THEN updated
                    ELSE IF stuck # {} THEN removed
                    ELSE ApplyDestroy(removed, x.destroy)
  BY Zenon DEF Apply
<1>2. unknown = {} /\ stuck = {} /\ UpTo(x.add, unknown) = {} /\ UpTo(x.remove, stuck) = {}
  BY DEF OnlyUpdates, UpTo
<1>3. placed \in Replicas /\ SameShape(r, placed)
  <2>1. ApplyCreate(r, x.create) = r
    <3>1. ApplyCreate(r, x.create)
            = [entities |-> r.entities \cup {}, storage |-> r.storage, owner |-> r.owner]
      BY ReplicaParts DEF ApplyCreate, OnlyUpdates
    <3>. QED  BY <3>1 DEF Replicas
  <2>2. \A A : A = {} => ApplyAdd(r, A) \in Replicas /\ SameShape(r, ApplyAdd(r, A))
    <3> TAKE A
    <3> HAVE A = {}
    <3>1. A \in SUBSET AddOp
      OBVIOUS
    <3> DEFINE en == r.entities \cup {a[1] : a \in A}
               st == [e \in Entity |-> [c \in Component |->
                     IF \E a \in A : a[1] = e /\ a[2] = c
                     THEN (CHOOSE a \in A : a[1] = e /\ a[2] = c)[3]
                     ELSE r.storage[e][c]]]
    <3>2. ApplyAdd(r, A) = [r EXCEPT !.entities = en, !.storage = st]
      BY Zenon DEF ApplyAdd
    <3>3. en = r.entities
      OBVIOUS
    <3>4. \A e \in Entity, c \in Component : st[e][c] = r.storage[e][c]
      OBVIOUS
    <3> HIDE DEF en, st
    <3>5. ApplyAdd(r, A) = [entities |-> en, storage |-> st, owner |-> r.owner]
      BY <3>2, ReplicaParts
    <3>6. SameShape(r, ApplyAdd(r, A))
      BY <3>3, <3>4, <3>5 DEF SameShape
    <3>. QED  BY <3>1, <3>6, AddShape, Zenon
  <2>. QED  BY <1>2, <2>1, <2>2
<1> HIDE DEF placed
<1>4. owned \in Replicas /\ SameShape(placed, owned)
  <2>1. x.network = {}
    BY DEF OnlyUpdates
  <2> DEFINE N  == x.network
             en == placed.entities \cup {n[1] : n \in N}
             ow == [e \in Entity |-> IF \E n \in N : n[1] = e
                                     THEN (CHOOSE n \in N : n[1] = e)[2]
                                     ELSE placed.owner[e]]
  <2>2. owned = [placed EXCEPT !.entities = en, !.owner = ow]
    BY Zenon DEF ApplyNetwork
  <2>3. en = placed.entities /\ \A e \in Entity : ow[e] = placed.owner[e]
    BY <2>1
  <2>4. ow = placed.owner
    BY <1>3, <2>3 DEF Replicas
  <2> HIDE DEF en, ow
  <2>5. owned = [entities |-> en, storage |-> placed.storage, owner |-> ow]
    BY <1>3, <2>2, ReplicaParts
  <2>. QED  BY <1>3, <2>3, <2>4, <2>5 DEF SameShape, Replicas
<1> HIDE DEF owned
<1>5. updated \in Replicas /\ SameShape(owned, updated)
  <2>1. UpTo(x.update, orphan) \in SUBSET UpdateOp
    BY DEF Packet, UpTo
  <2>. QED  BY <1>4, <2>1, UpdateShape, Zenon
<1> HIDE DEF updated
<1>6. removed \in Replicas /\ SameShape(updated, removed)
  <2> DEFINE K  == UpTo(x.remove, stuck)
             st == [e \in Entity |-> [c \in Component |->
                      IF <<e, c>> \in K THEN Absent ELSE updated.storage[e][c]]]
  <2>1. removed = [entities |-> updated.entities, storage |-> st, owner |-> updated.owner]
    BY <1>5, ApplyTypes, Zenon
  <2>2. removed \in Replicas
    BY <1>5, ApplyTypes, Zenon
  <2>3. \A e \in Entity, c \in Component : st[e][c] = updated.storage[e][c]
    BY <1>2
  <2> HIDE DEF st, removed
  <2>. QED  BY <2>1, <2>2, <2>3 DEF SameShape
<1> HIDE DEF removed
<1>7. SameShape(removed, ApplyDestroy(removed, x.destroy))
  <2> DEFINE D  == x.destroy
             st == [e \in Entity |-> IF e \in D THEN NoRecords ELSE removed.storage[e]]
             ow == [e \in Entity |-> IF e \in D THEN Server ELSE removed.owner[e]]
  <2>1. D = {}
    BY DEF OnlyUpdates
  <2>2. ApplyDestroy(removed, D)
          = [entities |-> removed.entities \ D, storage |-> st, owner |-> ow]
    BY <1>6, ApplyTypes, Zenon
  <2>3. ow = removed.owner /\ removed.entities \ D = removed.entities
    BY <1>6, <2>1 DEF Replicas
  <2>4. \A e \in Entity : st[e] = removed.storage[e]
    BY <2>1
  <2> HIDE DEF st, ow, D
  <2>5. SameShape(removed, ApplyDestroy(removed, D))
    BY <2>2, <2>3, <2>4 DEF SameShape
  <2>. QED  BY <2>5 DEF D
<1>8. SameShape(r, updated) /\ SameShape(r, removed)
  BY <1>3, <1>4, <1>5, <1>6, SameShapeFacts, Zenon
<1>. QED  BY <1>1, <1>2, <1>3, <1>7, <1>8, SameShapeFacts, Zenon

\* Equal shapes stay equal through any sequence of packets.
LEMMA ReplayedShape ==
  ASSUME NEW r \in Replicas, NEW q \in Replicas, NEW s \in Seq(Packet), SameShape(r, q)
  PROVE  Replayed(r, s) \in Replicas /\ SameShape(Replayed(r, s), Replayed(q, s))
<1> DEFINE n == Len(s)
<1>1. n \in Nat /\ \A i \in 1..n : s[i] \in Packet
  OBVIOUS
<1>2. PICK w : Replays(w, r, s, n) /\ Replayed(r, s) = w[n]
  BY <1>1, ReplayedIs, Zenon
<1>3. PICK v : Replays(v, q, s, n) /\ Replayed(q, s) = v[n]
  BY <1>1, ReplayedIs, Zenon
<1> HIDE DEF n
<1>4. /\ w[0] = r /\ v[0] = q
      /\ \A i \in 0..n : i # 0 => w[i] = Apply(w[i - 1], s[i])
      /\ \A i \in 0..n : i # 0 => v[i] = Apply(v[i - 1], s[i])
  BY <1>1, <1>2, <1>3, ReplaysStep
<1> DEFINE T == {i \in 0..n : ~ (/\ w[i] \in Replicas /\ v[i] \in Replicas
                                 /\ SameShape(w[i], v[i]))}
<1>5. ASSUME T # {} PROVE FALSE
  <2>1. PICK k \in T : \A y \in T : k <= y
    <3>1. T \in SUBSET Nat
      OBVIOUS
    <3> HIDE DEF T
    <3>. QED  BY <1>5, <3>1, LeastNat, Zenon
  <2>2. k # 0
    BY <1>4
  <2>3. k \in 1..n /\ k - 1 \in 0..n /\ k - 1 \notin T
    BY <1>1, <2>1, <2>2
  <2>4. /\ w[k - 1] \in Replicas /\ v[k - 1] \in Replicas /\ SameShape(w[k - 1], v[k - 1])
        /\ SameShape(v[k - 1], w[k - 1]) /\ s[k] \in Packet
    <3>1. w[k - 1] \in Replicas /\ v[k - 1] \in Replicas /\ SameShape(w[k - 1], v[k - 1])
      BY <2>3
    <3>. QED  BY <1>1, <2>3, <3>1, SameShapeFacts
  <2>5. w[k] = Apply(w[k - 1], s[k]) /\ v[k] = Apply(v[k - 1], s[k])
    BY <1>4, <2>2, <2>3
  <2>6. /\ Apply(w[k - 1], s[k]) \in Replicas /\ Apply(v[k - 1], s[k]) \in Replicas
        /\ SameShape(Apply(w[k - 1], s[k]), Apply(v[k - 1], s[k]))
    BY <2>4, ApplyShape, Zenon
  <2>. QED  BY <2>5, <2>6
<1>6. n \in 0..n
  BY <1>1
<1>. QED  BY <1>2, <1>3, <1>5, <1>6
=============================================================================
