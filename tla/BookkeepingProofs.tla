------------------------- MODULE BookkeepingProofs -------------------------
(***************************************************************************)
(* For all values of the constants: the marks that all peers share against *)
(* the bookkeeping of each of them.                                        *)
(*                                                                         *)
(* The invariant is Settled: of what a peer is taken to have, nothing is   *)
(* marked as new, and what no longer exists is marked as going.  It is     *)
(* what makes a destruction that cancels an unsent creation harmless: no   *)
(* peer has been told of that creation.  A full snapshot for one peer      *)
(* clears marks for all of them, a program that puts back a component      *)
(* whose removal is unsent turns a removal into a creation, and an         *)
(* exception in the update leaves the marks of what was sent: each of the  *)
(* three breaks it, so the theorems exclude them by name.                  *)
(*                                                                         *)
(* On it rest the owners and the values that peers have of what they are   *)
(* taken to have: either may be behind the server's only where a mark,     *)
(* still to be sent, says so.                                              *)
(***************************************************************************)
EXTENDS ReplicationProofs

\* What the program and its server have to keep from doing, see above.
Orderly ==
  /\ LocalComponent = {} /\ LocalEntities = FALSE
  /\ ReAddUnsent = FALSE
  /\ FullMidTick = FALSE
  /\ StaleWrites = FALSE \/ MaxClosed = 0

\* Entities E and components K that a peer is taken to have, against graph d
\* and a world.
Settled(E, K, d, ents, store, next) ==
  /\ \A e \in E : e < next
  /\ \A k \in K : k[1] \in E
  /\ E \cap d.created \subseteq {WorldEntity}
  /\ K \cap d.added = {}
  /\ E \ ents \subseteq d.destroyed
  /\ \A k \in K \ RecordsIn(store) : k \in d.removed \/ k[1] \in d.destroyed

\* Every entity but the world entity is replicated.
WorldReplicated == entities \ {WorldEntity} \subseteq replicated

-----------------------------------------------------------------------------
\* What an edit does, marks included, where all is replicated.  Graph d is
\* what it leaves.

\* Components C are added to e, an old entity or the next one.
Grows(e, C, d) ==
  /\ C \subseteq Component /\ C # {}
  /\ e \in entities \/ e = nextId
  /\ entities' = entities \cup {e} /\ replicated' = replicated \cup {e}
  /\ nextId' \in Nat /\ nextId <= nextId' /\ e < nextId'
  /\ \A a \in Entity, c \in Component :
       ~(a = e /\ c \in C) => storage'[a][c] = storage[a][c]
  /\ \A c \in C : storage[e][c] = Absent /\ storage'[e][c] # Absent
  /\ e \in entities => e \notin dirty.destroyed /\ KeysOf(e, C) \cap dirty.removed = {}
  /\ \A a \in Entity : a # nextId => owner'[a] = owner[a]
  /\ d.created = IF e \in replicated THEN dirty.created ELSE dirty.created \cup {e}
  /\ d.added = dirty.added \cup KeysOf(e, C)
  /\ d.removed = dirty.removed \ KeysOf(e, C)
  /\ d.destroyed = dirty.destroyed \ {e}
  /\ d.updated \subseteq dirty.updated
  /\ \A b \in dirty.updated \ d.updated : b[1] = e /\ e \notin replicated
  /\ dirty.network \subseteq d.network

\* Components C are removed from e.
Shrinks(e, C, d) ==
  /\ C \subseteq Component
  /\ \A c \in C : storage[e][c] # Absent
  /\ UNCHANGED <<entities, owner, nextId>>
  /\ replicated' = replicated \/ (e = WorldEntity /\ replicated' = replicated \ {e})
  /\ \A a \in Entity, c \in Component :
       storage'[a][c] = IF a = e /\ c \in C THEN Absent ELSE storage[a][c]
  /\ d.created = dirty.created /\ d.network = dirty.network
  /\ d.added = dirty.added \ KeysOf(e, C)
  /\ d.removed = dirty.removed \cup (KeysOf(e, C) \ dirty.added)
  /\ d.destroyed = dirty.destroyed
  /\ d.updated \subseteq dirty.updated
  /\ \A b \in dirty.updated \ d.updated : <<b[1], b[2]>> \in KeysOf(e, C)

\* Entity e is destroyed.
Vanishes(e, d) ==
  /\ e # WorldEntity /\ e \in entities
  /\ entities' = entities \ {e} /\ replicated' = replicated \ {e} /\ nextId' = nextId
  /\ storage' = [storage EXCEPT ![e] = NoRecords]
  /\ owner' = [owner EXCEPT ![e] = Server]
  /\ d.created = dirty.created \ {e}
  /\ d.network = dirty.network \ {e}
  /\ d.added = dirty.added \ OfEntity(dirty.added, e)
  /\ d.removed = dirty.removed \ OfEntity(dirty.removed, e)
  /\ d.destroyed = IF e \in dirty.created THEN dirty.destroyed \ {e}
                   ELSE dirty.destroyed \cup {e}
  /\ d.updated = dirty.updated \ OfEntity(dirty.updated, e)

\* Graph d marks the field, or its record as one to be written in full.
Marked(d, e, c, f) ==
  <<e, c, f>> \in d.updated \/ e \in d.created \cup d.destroyed \/ <<e, c>> \in d.added

\* No entity and no record comes or goes; the marks of fields and owners that
\* are there stay, and new owners and values are marked.
Stays(d) ==
  /\ UNCHANGED <<entities, replicated, nextId>>
  /\ \A a \in entities : owner'[a] = owner[a] \/ a \in d.network
  /\ \A a \in Entity, c \in Component, f \in Field :
       storage[a][c] # Absent /\ storage'[a][c][f] # storage[a][c][f] => Marked(d, a, c, f)
  /\ \A a \in Entity, c \in Component : storage'[a][c] = Absent <=> storage[a][c] = Absent
  /\ d.created = dirty.created /\ d.added = dirty.added
  /\ d.removed = dirty.removed /\ d.destroyed = dirty.destroyed
  /\ dirty.updated \subseteq d.updated /\ dirty.network \subseteq d.network

-----------------------------------------------------------------------------
\* Edits are of these four kinds.

LEMMA ComponentsAddedExactly ==
  ASSUME NEW d \in DirtyOps, NEW e \in Entity, NEW C \in SUBSET Component, C # {},
         owner[e] = Server \/ e \in replicated, e \notin d.destroyed
  PROVE  LET n == MarkComponentsAdded(d, e, C)
         IN  /\ n.created = IF e \in replicated THEN d.created ELSE d.created \cup {e}
             /\ n.network = IF e \in replicated THEN d.network ELSE d.network \ {e}
             /\ n.added = d.added \cup KeysOf(e, C)
             /\ n.removed = d.removed \ KeysOf(e, C)
             /\ n.destroyed = d.destroyed
             /\ n.updated = IF e \in replicated THEN d.updated
                            ELSE d.updated \ OfEntity(d.updated, e)
<1> DEFINE x == MarkEntityReplicated(d, e)
           y == MarkCreated(d, e)
<1>0. /\ y \in DirtyOps /\ y.created = d.created \cup {e} /\ y.network = d.network \ {e}
      /\ y.added = d.added /\ y.removed = d.removed /\ y.destroyed = d.destroyed \ {e}
      /\ y.updated = d.updated \ OfEntity(d.updated, e)
  BY DEF MarkCreated, DirtyOps, OfEntity
<1>1. x = IF e \in replicated THEN d ELSE y
  BY DEF MarkEntityReplicated
<1> HIDE DEF x, y
<1>2. /\ x \in DirtyOps
      /\ x.created = IF e \in replicated THEN d.created ELSE d.created \cup {e}
      /\ x.network = IF e \in replicated THEN d.network ELSE d.network \ {e}
      /\ x.added = d.added /\ x.removed = d.removed /\ x.destroyed = d.destroyed
      /\ x.updated = IF e \in replicated THEN d.updated
                     ELSE d.updated \ OfEntity(d.updated, e)
  BY <1>0, <1>1
<1>3. KeysOf(e, C) \in SUBSET ComponentKey
  BY DEF KeysOf, ComponentKey
<1>4. MarkComponentsAdded(d, e, C) = MarkAdded(x, e, KeysOf(e, C))
  BY DEF MarkComponentsAdded, x
<1>. QED  BY <1>2, <1>3, <1>4, MarkAddedFacts


LEMMA AddGrows ==
  ASSUME StoreOK, MarksOK(dirty, storage, replicated), WorldReplicated,
         LocalComponent = {}, ReAddUnsent = FALSE,
         NEW e \in Entity, NEW B \in Bundle, NEW v \in Value, Add(e, B, v)
  PROVE  \E C \in SUBSET Component : Grows(e, C, dirty')
<1> DEFINE C   == {c \in B : ~HasRecord(e, c)}
           row == [f \in Field |-> v]
<1>1. /\ B \subseteq Component /\ Absent \notin Row /\ row \in Row
  BY WorldAssumption DEF Row
<1>2. C \subseteq Component /\ C \ LocalComponent = C /\ C # {}
  BY <1>1 DEF Add
<1> HIDE DEF row
<1>3. /\ e \in entities /\ e \notin dirty.destroyed /\ KeysOf(e, C) \cap dirty.removed = {}
      /\ storage' = [storage EXCEPT ![e] =
                       [c \in Component |-> IF c \in C THEN row ELSE @[c]]]
      /\ replicated' = replicated \cup {e}
      /\ dirty' = MarkComponentsAdded(dirty, e, C)
      /\ UNCHANGED <<entities, owner, nextId>>
  BY <1>2 DEF Add, row
<1>4. \A c \in C : storage[e][c] = Absent
  BY DEF HasRecord
<1> HIDE DEF C
<1>5. /\ \A a \in Entity, c \in Component :
           ~(a = e /\ c \in C) => storage'[a][c] = storage[a][c]
      /\ \A c \in C : storage[e][c] = Absent /\ storage'[e][c] # Absent
  BY <1>1, <1>2, <1>3, <1>4 DEF StoreOK, Stores
<1>6. /\ owner[e] = Server \/ e \in replicated
      /\ e \notin replicated => e = WorldEntity
      /\ e < nextId /\ nextId \in Nat /\ dirty \in DirtyOps
      /\ dirty.network \subseteq replicated
  BY <1>3 DEF StoreOK, NoLeftovers, MarksOK, WorldReplicated
<1> DEFINE n == dirty'
<1>7. /\ n.created = IF e \in replicated THEN dirty.created ELSE dirty.created \cup {e}
      /\ n.network = IF e \in replicated THEN dirty.network ELSE dirty.network \ {e}
      /\ n.added = dirty.added \cup KeysOf(e, C)
      /\ n.removed = dirty.removed \ KeysOf(e, C)
      /\ n.destroyed = dirty.destroyed
      /\ n.updated = IF e \in replicated THEN dirty.updated
                     ELSE dirty.updated \ OfEntity(dirty.updated, e)
  BY <1>2, <1>3, <1>6, ComponentsAddedExactly
<1> HIDE DEF n
<1>8. dirty.network \subseteq n.network /\ n.destroyed = dirty.destroyed \ {e}
      /\ n.updated \subseteq dirty.updated
      /\ \A b \in dirty.updated \ n.updated : b[1] = e /\ e \notin replicated
  BY <1>3, <1>6, <1>7 DEF OfEntity
<1>9. entities' = entities \cup {e} /\ nextId' \in Nat /\ nextId <= nextId' /\ e < nextId'
  BY <1>3, <1>6
<1>10. Grows(e, C, n)
  BY <1>2, <1>3, <1>5, <1>7, <1>8, <1>9 DEF Grows
<1>. QED  BY <1>2, <1>10 DEF n

LEMMA SpawnGrows ==
  ASSUME StoreOK, MarksOK(dirty, storage, replicated),
         LocalComponent = {}, LocalEntities = FALSE,
         NEW B \in Bundle, NEW v \in Value, Spawn(B, v)
  PROVE  nextId \in Entity /\ Grows(nextId, B, dirty')
<1> DEFINE e   == nextId
           row == [f \in Field |-> v]
           d   == MarkCreated(dirty, e)
<1>1. /\ B \subseteq Component /\ Absent \notin Row /\ row \in Row
      /\ B \ LocalComponent = B
  BY WorldAssumption DEF Row
<1> HIDE DEF row
<1>2. /\ e \in Entity /\ B # {} /\ nextId' = e + 1 /\ entities' = entities \cup {e}
      /\ storage' = [storage EXCEPT ![e] =
                       [c \in Component |-> IF c \in B THEN row ELSE Absent]]
      /\ replicated' = replicated \cup {e}
      /\ dirty' = MarkComponentsAdded(d, e, B)
      /\ owner' = owner
  BY <1>1 DEF Spawn, row
<1>3. /\ e \in Nat /\ e \notin entities /\ e \notin replicated /\ owner[e] = Server
      /\ \A c \in Component : storage[e][c] = Absent
  <2>1. e \in Nat /\ e \notin entities
    BY DEF StoreOK, NoLeftovers
  <2>2. storage[e] = NoRecords /\ owner[e] = Server
    BY <1>2, <2>1 DEF StoreOK, NoLeftovers
  <2>3. \A c \in Component : storage[e][c] = Absent
    BY <2>2 DEF NoRecords
  <2>4. e \notin replicated
    BY <1>2, <2>3 DEF StoreOK, ReplicatedIffComponent, HasRecord, ReplicatedComponent
  <2>. QED  BY <2>1, <2>2, <2>3, <2>4
<1>4. /\ \A a \in Entity, c \in Component :
           ~(a = e /\ c \in B) => storage'[a][c] = storage[a][c]
      /\ \A c \in B : storage[e][c] = Absent /\ storage'[e][c] # Absent
  BY <1>1, <1>2, <1>3 DEF StoreOK, Stores
<1>5. /\ d \in DirtyOps /\ d.created = dirty.created \cup {e} /\ d.network = dirty.network \ {e}
      /\ d.added = dirty.added /\ d.removed = dirty.removed
      /\ d.destroyed = dirty.destroyed \ {e}
      /\ d.updated = dirty.updated \ OfEntity(dirty.updated, e)
  BY <1>2 DEF MarkCreated, DirtyOps, OfEntity, MarksOK
<1> HIDE DEF d
<1> DEFINE n == dirty'
<1>6. /\ n.created = d.created \cup {e} /\ n.network = d.network \ {e}
      /\ n.added = d.added \cup KeysOf(e, B) /\ n.removed = d.removed \ KeysOf(e, B)
      /\ n.destroyed = d.destroyed /\ n.updated = d.updated \ OfEntity(d.updated, e)
  <2>1. B \in SUBSET Component /\ e \notin d.destroyed /\ e \in Entity /\ B # {}
        /\ d \in DirtyOps /\ (owner[e] = Server \/ e \in replicated)
    BY <1>1, <1>2, <1>3, <1>5
  <2> DEFINE m == MarkComponentsAdded(d, e, B)
  <2>2. /\ m.created = IF e \in replicated THEN d.created ELSE d.created \cup {e}
        /\ m.network = IF e \in replicated THEN d.network ELSE d.network \ {e}
        /\ m.added = d.added \cup KeysOf(e, B)
        /\ m.removed = d.removed \ KeysOf(e, B)
        /\ m.destroyed = d.destroyed
        /\ m.updated = IF e \in replicated THEN d.updated
                       ELSE d.updated \ OfEntity(d.updated, e)
    BY <2>1, ComponentsAddedExactly, Zenon
  <2>3. n = m
    BY <1>2
  <2> HIDE DEF m, n
  <2>. QED  BY <1>3, <2>2, <2>3
<1> HIDE DEF n
<1>7. /\ n.created = dirty.created \cup {e}
      /\ n.added = dirty.added \cup KeysOf(e, B) /\ n.removed = dirty.removed \ KeysOf(e, B)
      /\ n.destroyed = dirty.destroyed \ {e}
      /\ dirty.network \subseteq n.network
      /\ n.updated \subseteq dirty.updated
      /\ \A b \in dirty.updated \ n.updated : b[1] = e
  BY <1>3, <1>5, <1>6 DEF OfEntity, MarksOK
<1>8. nextId' \in Nat /\ nextId <= nextId' /\ e < nextId'
  BY <1>2, <1>3
<1>9. Grows(e, B, n)
  BY <1>1, <1>2, <1>3, <1>4, <1>7, <1>8 DEF Grows
<1>. QED  BY <1>2, <1>9 DEF n

LEMMA RemoveShrinks ==
  ASSUME StoreOK, MarksOK(dirty, storage, replicated),
         LocalComponent = {}, LocalEntities = FALSE,
         NEW e \in Entity, NEW B \in Bundle, Remove(e, B)
  PROVE  \E C \in SUBSET Component : Shrinks(e, C, dirty')
<1> DEFINE C == {c \in B : HasRecord(e, c)}
           K == KeysOf(e, C)
           n == MarkRemoved(dirty, K)
           isLocal == e \in replicated /\ ReplicatedBut(e, C) = {}
<1>1. B \subseteq Component
  BY WorldAssumption
<1>2. C \in SUBSET Component /\ C \ LocalComponent = C /\ K \in SUBSET ComponentKey
  BY <1>1 DEF KeysOf, ComponentKey
<1>3. /\ storage' = [storage EXCEPT ![e] =
                       [c \in Component |-> IF c \in C THEN Absent ELSE @[c]]]
      /\ isLocal => e = WorldEntity
      /\ replicated' = IF isLocal THEN replicated \ {e} ELSE replicated
      /\ dirty' = n
      /\ UNCHANGED <<entities, owner, nextId>>
  BY <1>2 DEF Remove
<1>4. \A c \in C : storage[e][c] # Absent
  BY DEF HasRecord
<1>5. dirty \in DirtyOps
  BY DEF MarksOK
<1> HIDE DEF C, K, isLocal
<1>6. /\ n.created = dirty.created /\ n.network = dirty.network
      /\ n.added = dirty.added \ K
      /\ n.updated = dirty.updated \ OfKeys(dirty.updated, K \ dirty.added)
      /\ n.removed = dirty.removed \cup (K \ dirty.added)
      /\ n.destroyed = dirty.destroyed
  BY <1>2, <1>5, MarkRemovedFacts
<1> HIDE DEF n
<1>7. /\ n.updated \subseteq dirty.updated
      /\ \A b \in dirty.updated \ n.updated : <<b[1], b[2]>> \in K
  BY <1>6 DEF OfKeys
<1>8. \A a \in Entity, c \in Component :
        storage'[a][c] = IF a = e /\ c \in C THEN Absent ELSE storage[a][c]
  BY <1>3 DEF StoreOK, Stores
<1>9. Shrinks(e, C, n)
  BY <1>2, <1>3, <1>4, <1>6, <1>7, <1>8 DEF Shrinks, K
<1>. QED  BY <1>2, <1>3, <1>9

LEMMA DestroyVanishes ==
  ASSUME StoreOK, MarksOK(dirty, storage, replicated), WorldReplicated,
         NEW e \in Entity, Destroy(e)
  PROVE  Vanishes(e, dirty')
<1> DEFINE n == MarkDestroyed(dirty, e)
<1>1. dirty' = n /\ dirty \in DirtyOps
  BY DEF Destroy, WorldReplicated, MarksOK
<1>2. /\ n.created = dirty.created \ {e}
      /\ n.network = dirty.network \ {e}
      /\ n.added = dirty.added \ OfEntity(dirty.added, e)
      /\ n.removed = dirty.removed \ OfEntity(dirty.removed, e)
      /\ n.destroyed = IF e \in dirty.created THEN dirty.destroyed \ {e}
                       ELSE dirty.destroyed \cup {e}
      /\ n.updated = dirty.updated \ OfEntity(dirty.updated, e)
  BY <1>1 DEF MarkDestroyed, DirtyOps
<1> HIDE DEF n
<1>. QED  BY <1>1, <1>2 DEF Destroy, Vanishes

\* A write is marked.
LEMMA WriteMarked ==
  ASSUME StoreOK, LocalComponent = {}, NEW e \in Entity, NEW c \in Component, NEW f \in Field,
         NEW v \in Value, Write(e, c, f, v)
  PROVE  /\ dirty' = MarkUpdated(dirty, {<<e, c, f>>})
         /\ \A a \in Entity, x \in Component, g \in Field :
              storage[a][x] # Absent /\ storage'[a][x][g] # storage[a][x][g]
                => a = e /\ x = c /\ g = f
<1>1. /\ HasRecord(e, c) /\ storage' = [storage EXCEPT ![e][c][f] = v]
      /\ dirty' = IF c \in ReplicatedComponent /\ e \in replicated
                  THEN MarkUpdated(dirty, {<<e, c, f>>})
                  ELSE dirty
  BY DEF Write
<1>2. c \in ReplicatedComponent
  BY DEF ReplicatedComponent
<1>3. e \in replicated
  BY <1>1, <1>2 DEF StoreOK, ReplicatedIffComponent
<1>4. storage[e][c] \in Row
  BY <1>1 DEF HasRecord, StoreOK, Stores
<1>5. storage'[e][c] = [storage[e][c] EXCEPT ![f] = v]
  BY <1>1 DEF StoreOK, Stores
<1>6. \A a \in Entity, x \in Component : ~(a = e /\ x = c) => storage'[a][x] = storage[a][x]
  BY <1>1 DEF StoreOK, Stores
<1>7. \A g \in Field : g # f => storage'[e][c][g] = storage[e][c][g]
  BY <1>4, <1>5 DEF Row
<1>. QED  BY <1>1, <1>2, <1>3, <1>6, <1>7

\* So is a new status.
LEMMA StatusMarked ==
  ASSUME StoreOK, LocalComponent = {}, NEW P, NEW s \in Value,
         NEW e \in Entity, NEW c \in Component, NEW f \in Field,
         storage[e][c] # Absent, StoreWithStatus(P, s)[e][c][f] # storage[e][c][f]
  PROVE  Marked(DirtyWithStatus(P, s), e, c, f)
<1>1. e \in StatusChanges(P, s) /\ c = PeerState /\ f = StatusField
  BY StatusStore
<1>2. e \in replicated
  BY <1>1 DEF StoreOK, ReplicatedIffComponent, ReplicatedComponent, HasRecord
<1> DEFINE U == {<<a, PeerState, StatusField>> : a \in StatusChanges(P, s) \cap replicated}
           n == MarkUpdated(dirty, U)
<1>3. <<e, c, f>> \in U
  BY <1>1, <1>2
<1>4. n = DirtyWithStatus(P, s)
  BY DEF DirtyWithStatus
<1> HIDE DEF U
<1>5. \/ <<e, c, f>> \in n.updated \/ e \in dirty.created \cup dirty.destroyed
      \/ <<e, c>> \in dirty.added
  BY <1>3 DEF MarkUpdated
<1>6. n.created = dirty.created /\ n.destroyed = dirty.destroyed /\ n.added = dirty.added
  BY DEF MarkUpdated
<1>. QED  BY <1>4, <1>5, <1>6 DEF Marked

LEMMA ValueStays ==
  ASSUME StoreOK, MarksOK(dirty, storage, replicated), WorldReplicated, LocalComponent = {},
         NEW e \in Entity, NEW c \in Component, NEW f \in Field,
         \/ \E v \in Value : Write(e, c, f, v)
         \/ StaleWrite(e, c, f)
         \/ \E p \in Peer \cup {Server} : SetOwner(e, p)
  PROVE  Stays(dirty')
<1>1. dirty \in DirtyOps /\ {<<e, c, f>>} \in SUBSET DirtyBit
  BY DEF MarksOK, DirtyBit
<1>2. ASSUME NEW v \in Value, Write(e, c, f, v) PROVE Stays(dirty')
  <2>1. /\ UNCHANGED <<entities, replicated, owner, nextId>>
        /\ storage[e][c] # Absent
        /\ storage' = [storage EXCEPT ![e][c][f] = v]
        /\ dirty' = dirty \/ dirty' = MarkUpdated(dirty, {<<e, c, f>>})
    BY <1>2 DEF Write, HasRecord
  <2>2. \A a \in Entity, x \in Component : storage'[a][x] = Absent <=> storage[a][x] = Absent
    <3>1. storage[e][c] \in Row /\ Absent \notin Row
      BY <2>1, WorldAssumption DEF StoreOK, Stores
    <3>2. [storage[e][c] EXCEPT ![f] = v] \in Row
      BY <3>1 DEF Row
    <3>3. storage'[e][c] = [storage[e][c] EXCEPT ![f] = v]
      BY <2>1 DEF StoreOK, Stores
    <3>4. \A a \in Entity, x \in Component : ~(a = e /\ x = c) => storage'[a][x] = storage[a][x]
      BY <2>1 DEF StoreOK, Stores
    <3>. QED  BY <2>1, <3>1, <3>2, <3>3, <3>4
  <2>3. /\ dirty' = MarkUpdated(dirty, {<<e, c, f>>})
        /\ \A a \in Entity, x \in Component, g \in Field :
             storage[a][x] # Absent /\ storage'[a][x][g] # storage[a][x][g]
               => a = e /\ x = c /\ g = f
    BY <1>2, WriteMarked
  <2>4. Marked(dirty', e, c, f)
    <3>1. dirty' \in DirtyOps /\ dirty \in DirtyOps
      BY <1>1, <2>3, MarkUpdatedFacts
    <3>. QED  BY <2>3 DEF MarkUpdated, Marked
  <2>. QED  BY <1>1, <2>1, <2>2, <2>3, <2>4, MarkUpdatedFacts DEF Stays
<1>3. ASSUME StaleWrite(e, c, f) PROVE Stays(dirty')
  BY <1>1, <1>3, MarkUpdatedFacts DEF StaleWrite, Stays
<1>4. ASSUME NEW p \in Peer \cup {Server}, SetOwner(e, p) PROVE Stays(dirty')
  <2>1. /\ UNCHANGED <<entities, replicated, nextId, storage>>
        /\ e \in replicated /\ e \notin dirty.destroyed
        /\ owner' = [owner EXCEPT ![e] = p]
        /\ dirty' = MarkNetworkChanged(dirty, e)
    BY <1>4 DEF SetOwner, WorldReplicated, MarksOK
  <2>2. MarkNetworkChanged(dirty, e).network = dirty.network \cup {e}
    BY <1>1, <2>1 DEF MarkNetworkChanged, DirtyOps
  <2>3. /\ MarkNetworkChanged(dirty, e).created = dirty.created
        /\ MarkNetworkChanged(dirty, e).added = dirty.added
        /\ MarkNetworkChanged(dirty, e).updated = dirty.updated
        /\ MarkNetworkChanged(dirty, e).removed = dirty.removed
        /\ MarkNetworkChanged(dirty, e).destroyed = dirty.destroyed
    BY <1>1, MarkNetworkChangedFacts
  <2>4. \A a \in entities : owner'[a] = owner[a] \/ a = e
    BY <2>1 DEF StoreOK
  <2>. QED  BY <2>1, <2>2, <2>3, <2>4 DEF Stays
<1>. QED  BY <1>2, <1>3, <1>4

\* One step of the world that leaves graph d.
Changes(d) ==
  \/ \E e \in Entity, C \in SUBSET Component : Grows(e, C, d) \/ Shrinks(e, C, d)
  \/ \E e \in Entity : Vanishes(e, d)
  \/ Stays(d)

LEMMA EditChanges ==
  ASSUME BaseInv, WorldReplicated, LocalComponent = {}, LocalEntities = FALSE,
         ReAddUnsent = FALSE, Edit
  PROVE  Changes(dirty')
<1>1. StoreOK /\ MarksOK(dirty, storage, replicated)
  BY DEF BaseInv
<1>2. ASSUME NEW B \in Bundle, NEW v \in Value, Spawn(B, v) PROVE Changes(dirty')
  <2>1. B \in SUBSET Component
    BY WorldAssumption
  <2>. QED  BY <1>1, <1>2, <2>1, SpawnGrows DEF Changes
<1>3. ASSUME NEW e \in Entity, NEW B \in Bundle, NEW v \in Value, Add(e, B, v)
      PROVE  Changes(dirty')
  BY <1>1, <1>3, AddGrows DEF Changes
<1>4. ASSUME NEW e \in Entity, NEW B \in Bundle, Remove(e, B) PROVE Changes(dirty')
  BY <1>1, <1>4, RemoveShrinks DEF Changes
<1>5. ASSUME NEW e \in Entity, Destroy(e) PROVE Changes(dirty')
  BY <1>1, <1>5, DestroyVanishes DEF Changes
<1>6. ASSUME NEW e \in Entity, NEW c \in Component, NEW f \in Field,
             \/ \E v \in Value : Write(e, c, f, v)
             \/ StaleWrite(e, c, f)
             \/ \E p \in Peer \cup {Server} : SetOwner(e, p)
      PROVE  Changes(dirty')
  BY <1>1, <1>6, ValueStays DEF Changes
<1>7. Component # {} /\ Field # {}
  BY ReplicationAssumption
<1>. QED  BY <1>2, <1>3, <1>4, <1>5, <1>6, <1>7 DEF Edit

\* ensurePeerEntity adds the next entity, or changes a value.
LEMMA EnsureChanges ==
  ASSUME BaseInv, LocalComponent = {}, NEW p \in Peer, EnsurePeerEntity(p)
  PROVE  LET d == DirtyWithPeerEntity(p)
         IN  /\ Stays(d) \/ (nextId \in Entity /\ Grows(nextId, PeerPrefab, d))
             /\ Changes(d)
             /\ d.removed \subseteq dirty.removed /\ d.destroyed \subseteq dirty.destroyed
<1>1. StoreOK /\ MarksOK(dirty, storage, replicated) /\ peerEntity \in [Peer -> Entity \cup {Absent}]
  BY DEF BaseInv, ServerTypeOK
<1>2. CASE peerEntity[p] # Absent
  <2>1. /\ storage' = StoreWithStatus({p}, Connected)
        /\ UNCHANGED <<entities, replicated, owner, nextId>>
        /\ DirtyWithPeerEntity(p) = DirtyWithStatus({p}, Connected)
    BY <1>2 DEF EnsurePeerEntity, DirtyWithPeerEntity
  <2>2. Connected \in Value
    BY ReplicationAssumption
  <2>3. Stays(DirtyWithPeerEntity(p))
    BY <1>1, <2>1, <2>2, StatusStore, StatusMarks, StatusMarked DEF Stays
  <2>. QED  BY <2>3 DEF Changes, Stays
<1>3. CASE peerEntity[p] = Absent
  <2> DEFINE e   == nextId
             C   == PeerPrefab
             n   == DirtyWithPeerEntity(p)
             row == [f \in Field |-> Connected]
  <2>1. /\ e \in Entity /\ nextId' = e + 1 /\ entities' = entities \cup {e}
        /\ storage' = [storage EXCEPT ![e] =
                         [c \in Component |-> IF c \in C THEN row ELSE Absent]]
        /\ replicated' = replicated \cup {e}
        /\ owner' = [owner EXCEPT ![e] = p]
    BY <1>3, ReplicationAssumption DEF EnsurePeerEntity
  <2>2. /\ C \subseteq Component /\ C # {} /\ C \ LocalComponent = C
        /\ Absent \notin Row /\ row \in Row
    BY ReplicationAssumption, WorldAssumption DEF Row
  <2> HIDE DEF row
  <2>3. /\ n.created = dirty.created \cup {e}
        /\ n.network = dirty.network \cup {e}
        /\ n.added = dirty.added \cup KeysOf(e, C)
        /\ n.updated = dirty.updated \ OfEntity(dirty.updated, e)
        /\ n.removed = dirty.removed \ KeysOf(e, C)
        /\ n.destroyed = dirty.destroyed \ {e}
    BY <1>1, <1>3, <2>1, <2>2, NewPeerEntityMarks
  <2> HIDE DEF n
  <2>4. /\ e \in Nat /\ e \notin entities /\ \A c \in Component : storage[e][c] = Absent
        /\ e \notin replicated
    <3>1. e \in Nat /\ e \notin entities
      BY <1>1 DEF StoreOK, NoLeftovers
    <3>2. storage[e] = NoRecords
      BY <1>1, <2>1, <3>1 DEF StoreOK, NoLeftovers
    <3>3. \A c \in Component : storage[e][c] = Absent
      BY <3>2 DEF NoRecords
    <3>4. e \notin replicated
      BY <1>1, <2>1, <3>3 DEF StoreOK, ReplicatedIffComponent, HasRecord, ReplicatedComponent
    <3>. QED  BY <3>1, <3>3, <3>4
  <2>5. /\ \A a \in Entity, c \in Component :
             ~(a = e /\ c \in C) => storage'[a][c] = storage[a][c]
        /\ \A c \in C : storage[e][c] = Absent /\ storage'[e][c] # Absent
    BY <1>1, <2>1, <2>2, <2>4 DEF StoreOK, Stores
  <2>6. /\ \A a \in Entity : a # e => owner'[a] = owner[a]
        /\ nextId' \in Nat /\ nextId <= nextId' /\ e < nextId'
    BY <1>1, <2>1, <2>4 DEF StoreOK
  <2>7. /\ n.updated \subseteq dirty.updated
        /\ \A b \in dirty.updated \ n.updated : b[1] = e
        /\ dirty.network \subseteq n.network
    BY <2>3 DEF OfEntity
  <2>8. Grows(e, C, n)
    BY <2>1, <2>2, <2>3, <2>4, <2>5, <2>6, <2>7 DEF Grows
  <2>. QED  BY <2>1, <2>2, <2>3, <2>8 DEF Changes, n
<1>. QED  BY <1>2, <1>3

LEMMA UpdateStays ==
  ASSUME BaseInv, LocalComponent = {}, Update PROVE Stays(DirtyShowingGone)
<1>1. /\ StoreOK /\ MarksOK(dirty, storage, replicated) /\ storage' = StoreWithStatus(Gone, Disconnected)
      /\ UNCHANGED <<entities, replicated, owner, nextId>>
  BY DEF BaseInv, Update, StoreShowingGone
<1>2. Disconnected \in Value
  BY ReplicationAssumption
<1>. QED  BY <1>1, <1>2, StatusStore, StatusMarks, StatusMarked DEF Stays, DirtyShowingGone

-----------------------------------------------------------------------------
\* Such a step keeps the marks settled.

LEMMA ChangesKeepReplicated ==
  ASSUME StoreOK, WorldReplicated, NEW d, Changes(d)
  PROVE  WorldReplicated'
<1>1. ASSUME NEW e \in Entity, NEW C, Grows(e, C, d) PROVE WorldReplicated'
  BY <1>1 DEF Grows, WorldReplicated
<1>2. ASSUME NEW e \in Entity, NEW C, Shrinks(e, C, d) PROVE WorldReplicated'
  BY <1>2 DEF Shrinks, WorldReplicated
<1>3. ASSUME NEW e \in Entity, Vanishes(e, d) PROVE WorldReplicated'
  BY <1>3 DEF Vanishes, WorldReplicated
<1>4. CASE Stays(d)
  BY <1>4 DEF Stays, WorldReplicated
<1>. QED  BY <1>1, <1>2, <1>3, <1>4 DEF Changes

LEMMA GrowsSettled ==
  ASSUME StoreOK, MarksOK(dirty, storage, replicated), WorldReplicated,
         NEW E \in SUBSET Entity, NEW K \in SUBSET ComponentKey,
         Settled(E, K, dirty, entities, storage, nextId),
         NEW e \in Entity, NEW C, NEW d, Grows(e, C, d)
  PROVE  Settled(E, K, d, entities', storage', nextId')
<1>1. /\ nextId \in Nat /\ Entity \subseteq Nat
      /\ \A a \in E : a < nextId
  BY WorldAssumption DEF StoreOK, Settled
<1>2. e \in E => e \in entities \/ e # nextId
  BY <1>1
<1>3. e \in E => e \in entities /\ e \notin dirty.destroyed
  BY <1>2 DEF Grows
<1>4. \A a \in E : a < nextId'
  BY <1>1 DEF Grows
<1>5. E \cap d.created \subseteq {WorldEntity}
  BY <1>3 DEF Grows, Settled, WorldReplicated
<1>6. \A k \in K : k[1] \in Entity /\ k[2] \in Component /\ k = <<k[1], k[2]>>
  BY DEF ComponentKey
<1>7. \A k \in KeysOf(e, C) : k[1] = e /\ k[2] \in C /\ k = <<k[1], k[2]>>
  BY DEF KeysOf
<1>8. K \cap KeysOf(e, C) = {}
  <2> SUFFICES ASSUME NEW k \in K, k \in KeysOf(e, C) PROVE FALSE
    OBVIOUS
  <2>1. k[1] = e /\ e \in E /\ k[2] \in C
    BY <1>7 DEF Settled
  <2>2. storage[k[1]][k[2]] = Absent
    BY <2>1 DEF Grows
  <2>3. k \notin RecordsIn(storage)
    BY <2>2 DEF RecordsIn
  <2>4. k \in dirty.removed
    BY <1>3, <2>1, <2>3 DEF Settled
  <2>5. k \notin dirty.removed
    BY <1>3, <2>1 DEF Grows
  <2>. QED  BY <2>4, <2>5
<1>9. K \cap d.added = {}
  BY <1>8 DEF Grows, Settled
<1>10. E \ entities' \subseteq d.destroyed
  BY DEF Grows, Settled
<1>11. ASSUME NEW k \in K \ RecordsIn(storage')
       PROVE  k \in d.removed \/ k[1] \in d.destroyed
  <2>1. k \in ComponentKey /\ storage'[k[1]][k[2]] = Absent
    BY <1>11 DEF RecordsIn
  <2>2. ~(k[1] = e /\ k[2] \in C)
    BY <2>1 DEF Grows
  <2>3. storage[k[1]][k[2]] = Absent
    BY <1>6, <2>1, <2>2 DEF Grows
  <2>4. k \notin RecordsIn(storage)
    BY <2>3 DEF RecordsIn
  <2>5. k \in dirty.removed \/ k[1] \in dirty.destroyed
    BY <2>4 DEF Settled
  <2>6. k[1] = e => e \notin dirty.destroyed
    BY <1>3 DEF Settled
  <2>. QED  BY <1>8, <2>5, <2>6 DEF Grows
<1>. QED  BY <1>4, <1>5, <1>9, <1>10, <1>11 DEF Settled

LEMMA ShrinksSettled ==
  ASSUME NEW E \in SUBSET Entity, NEW K \in SUBSET ComponentKey,
         Settled(E, K, dirty, entities, storage, nextId),
         NEW e \in Entity, NEW C, NEW d, Shrinks(e, C, d)
  PROVE  Settled(E, K, d, entities', storage', nextId')
<1>1. /\ \A a \in E : a < nextId'
      /\ E \cap d.created \subseteq {WorldEntity} /\ K \cap d.added = {}
      /\ E \ entities' \subseteq d.destroyed /\ \A k \in K : k[1] \in E
  BY DEF Shrinks, Settled
<1>2. ASSUME NEW k \in K \ RecordsIn(storage')
      PROVE  k \in d.removed \/ k[1] \in d.destroyed
  <2>1. /\ k \in ComponentKey /\ storage'[k[1]][k[2]] = Absent
        /\ k[1] \in Entity /\ k[2] \in Component /\ k = <<k[1], k[2]>>
    BY <1>2 DEF RecordsIn, ComponentKey
  <2>2. CASE k[1] = e /\ k[2] \in C
    <3>1. k \in KeysOf(e, C)
      BY <2>1, <2>2 DEF KeysOf
    <3>2. k \notin dirty.added
      BY DEF Settled
    <3>. QED  BY <3>1, <3>2 DEF Shrinks
  <2>3. CASE ~(k[1] = e /\ k[2] \in C)
    <3>1. storage[k[1]][k[2]] = Absent
      BY <2>1, <2>3 DEF Shrinks
    <3>2. k \notin RecordsIn(storage)
      BY <3>1 DEF RecordsIn
    <3>. QED  BY <3>2 DEF Shrinks, Settled
  <2>. QED  BY <2>2, <2>3
<1>. QED  BY <1>1, <1>2 DEF Settled

LEMMA VanishesSettled ==
  ASSUME StoreOK, NEW E \in SUBSET Entity, NEW K \in SUBSET ComponentKey,
         Settled(E, K, dirty, entities, storage, nextId),
         NEW e \in Entity, NEW d, Vanishes(e, d)
  PROVE  Settled(E, K, d, entities', storage', nextId')
<1>1. e \in E => e \notin dirty.created
  BY DEF Settled, Vanishes
<1>2. /\ \A a \in E : a < nextId'
      /\ E \cap d.created \subseteq {WorldEntity} /\ K \cap d.added = {}
      /\ \A k \in K : k[1] \in E
  BY DEF Vanishes, Settled
<1>3. E \ entities' \subseteq d.destroyed
  BY <1>1 DEF Vanishes, Settled
<1>4. ASSUME NEW k \in K \ RecordsIn(storage')
      PROVE  k \in d.removed \/ k[1] \in d.destroyed
  <2>1. /\ k \in ComponentKey /\ storage'[k[1]][k[2]] = Absent /\ k[1] \in E
        /\ k[1] \in Entity /\ k[2] \in Component
    BY <1>4 DEF RecordsIn, ComponentKey, Settled
  <2>2. CASE k[1] = e
    BY <1>1, <2>1, <2>2 DEF Vanishes
  <2>3. CASE k[1] # e
    <3>1. storage[k[1]][k[2]] = Absent
      BY <2>1, <2>3 DEF Vanishes, StoreOK, Stores
    <3>2. k \notin RecordsIn(storage)
      BY <3>1 DEF RecordsIn
    <3>3. k \in dirty.removed \/ k[1] \in dirty.destroyed
      BY <3>2 DEF Settled
    <3>. QED  BY <2>3, <3>3 DEF Vanishes, OfEntity
  <2>. QED  BY <2>2, <2>3
<1>. QED  BY <1>2, <1>3, <1>4 DEF Settled

LEMMA StaysSettled ==
  ASSUME NEW E \in SUBSET Entity, NEW K \in SUBSET ComponentKey,
         Settled(E, K, dirty, entities, storage, nextId), NEW d, Stays(d)
  PROVE  Settled(E, K, d, entities', storage', nextId')
<1>1. RecordsIn(storage') = RecordsIn(storage)
  BY DEF Stays, RecordsIn, ComponentKey
<1>. QED  BY <1>1 DEF Stays, Settled

LEMMA ChangesKeepSettled ==
  ASSUME BaseInv, WorldReplicated, NEW E \in SUBSET Entity, NEW K \in SUBSET ComponentKey,
         Settled(E, K, dirty, entities, storage, nextId), NEW d, Changes(d)
  PROVE  Settled(E, K, d, entities', storage', nextId')
<1>1. StoreOK /\ MarksOK(dirty, storage, replicated)
  BY DEF BaseInv
<1>. QED  BY <1>1, GrowsSettled, ShrinksSettled, VanishesSettled, StaysSettled DEF Changes

\* Marks of a graph may be cleared that are not about E and K.
LEMMA ClearSettled ==
  ASSUME NEW E, NEW K, NEW d \in DirtyOps, NEW ents, NEW store, NEW next, NEW ops,
         Settled(E, K, d, ents, store, next),
         E \cap d.destroyed = {}, K \cap d.removed = {}
  PROVE  Settled(E, K, ClearWritten(d, ops), ents, store, next)
<1>1. /\ ClearWritten(d, ops).created \subseteq d.created
      /\ ClearWritten(d, ops).added \subseteq d.added
  BY ClearWrittenFacts
<1>2. E \subseteq ents /\ \A k \in K : k \in RecordsIn(store)
  BY DEF Settled
<1>. QED  BY <1>1, <1>2 DEF Settled

\* What is there, and not marked as new, is settled.
LEMMA PresentSettled ==
  ASSUME NEW E, NEW K, NEW d, NEW ents, NEW store, NEW next,
         E \subseteq ents, K \subseteq RecordsIn(store), \A k \in K : k[1] \in E,
         \A e \in ents : e < next,
         E \cap d.created \subseteq {WorldEntity}, K \cap d.added = {}
  PROVE  Settled(E, K, d, ents, store, next)
  BY DEF Settled

-----------------------------------------------------------------------------
\* No update throws: no field of a removed record is ever marked, or no
\* connection was ever closed and every peer is synced.
NeverThrows ==
  \/ StaleWrites = FALSE /\ UpdatesHaveRecords
  \/ /\ MaxClosed = 0 /\ closed = 0
     /\ active \subseteq synced /\ seen \subseteq active
     /\ \A p \in Peer \ active : knownEntities[p] = {}

SettledFor(p) ==
  /\ Settled(knownEntities[p], knownComponents[p], dirty, entities, storage, nextId)
  /\ knownEntities[p] # {} => p \in Targets

SettledInv ==
  /\ BaseInv
  /\ WorldReplicated
  /\ \A p \in Peer : \A e \in knownEntities[p] : e < nextId
  /\ \A p \in synced : SettledFor(p)
  /\ NeverThrows

\* The next update leaves a synced peer with what it may see.
LEMMA NextIsVisible ==
  ASSUME BaseInv, WorldReplicated, NEW p \in Peer,
         Settled(knownEntities[p], knownComponents[p], dirty, entities, storage, nextId)
  PROVE  /\ EntitiesAfter(p, StructuralOps(p)) = {e \in entities : Visible(p, e)}
         /\ ComponentsNext(p) = {k \in Records : Visible(p, k[1])}
<1> DEFINE E   == knownEntities[p]
           K   == knownComponents[p]
           ops == StructuralOps(p)
<1>1. /\ StoreOK /\ MarksOK(dirty, storage, replicated)
      /\ E \in SUBSET Entity /\ K \in SUBSET ComponentKey
  BY DEF BaseInv, ServerTypeOK
<1>2. /\ ops.created = Entering(p)
      /\ ops.added = {k \in Records : Sees(p, k[1])} \ K
      /\ ops.removed = dirty.removed \cap K
      /\ ops.destroyed = Leaving(p)
  BY DEF StructuralOps
<1> HIDE DEF ops
<1>3. \A e \in entities : e \notin dirty.destroyed
  BY <1>1 DEF MarksOK, WorldReplicated
<1>4. \A k \in Records : k \in ComponentKey /\ k[1] \in entities /\ k \notin dirty.removed
  <2> TAKE k \in Records
  <2>1. k \in ComponentKey /\ storage[k[1]][k[2]] # Absent
    BY DEF Records, RecordsIn
  <2>2. k[1] \in Entity /\ k[2] \in Component
    BY <2>1 DEF ComponentKey
  <2>3. k[1] \in entities
    BY <1>1, <2>1, <2>2 DEF StoreOK, NoLeftovers, NoRecords
  <2>. QED  BY <1>1, <2>1, <2>3 DEF MarksOK
<1>5. \A e \in entities : Sees(p, e) <=> Visible(p, e)
  BY <1>3 DEF Sees
<1>6. \A e \in E : Sees(p, e) => e \in entities
  BY DEF Settled, Sees
<1>7. \A k \in K : Sees(p, k[1]) /\ k \notin dirty.removed => k \in Records
  BY DEF Settled, Sees, Records
<1>8. \A k \in K : k[1] \in E
  BY DEF Settled
<1>9. EntitiesAfter(p, ops) = {e \in entities : Visible(p, e)}
  <2>1. \A k \in ops.added : k[1] \in entities /\ Visible(p, k[1])
    BY <1>2, <1>4, <1>5
  <2>2. \A e : e \in EntitiesAfter(p, ops) => e \in entities /\ Visible(p, e)
    BY <1>2, <1>5, <1>6, <2>1 DEF EntitiesAfter, Entering, Leaving
  <2>3. \A e \in entities : Visible(p, e) => e \in EntitiesAfter(p, ops)
    BY <1>2, <1>5 DEF EntitiesAfter, Entering, Leaving
  <2>. QED  BY <2>2, <2>3
<1>10. ComponentsAfter(p, ops) = {k \in Records : Visible(p, k[1])}
  <2>1. \A k : k \in ComponentsAfter(p, ops) => k \in Records /\ Visible(p, k[1])
    <3> SUFFICES ASSUME NEW k, k \in ComponentsAfter(p, ops)
                 PROVE  k \in Records /\ Visible(p, k[1])
      OBVIOUS
    <3>1. CASE k \in ops.added
      BY <1>2, <1>4, <1>5, <3>1
    <3>2. CASE k \notin ops.added
      <4>1. k \in K /\ k[1] \notin Leaving(p) /\ k \notin dirty.removed
        BY <1>2, <3>2 DEF ComponentsAfter
      <4>2. Sees(p, k[1])
        BY <1>8, <4>1 DEF Leaving
      <4>. QED  BY <1>7, <4>1, <4>2 DEF Sees
    <3>. QED  BY <3>1, <3>2
  <2>2. \A k \in Records : Visible(p, k[1]) => k \in ComponentsAfter(p, ops)
    <3> SUFFICES ASSUME NEW k \in Records, Visible(p, k[1])
                 PROVE  k \in ComponentsAfter(p, ops)
      OBVIOUS
    <3>1. Sees(p, k[1]) /\ k \notin dirty.removed
      BY <1>4, <1>5
    <3>2. k[1] \notin Leaving(p)
      BY <3>1 DEF Leaving
    <3>. QED  BY <1>2, <3>1, <3>2 DEF ComponentsAfter
  <2>. QED  BY <2>1, <2>2
<1>. QED  BY <1>9, <1>10 DEF ops, ComponentsNext

\* The records of what a status was changed in are there.
LEMMA SameRecords ==
  ASSUME BaseInv
  PROVE  RecordsIn(StoreShowingGone) = Records
<1>1. StoreOK /\ Disconnected \in Value
  BY ReplicationAssumption DEF BaseInv
<1>2. \A e \in Entity, c \in Component :
        StoreShowingGone[e][c] = Absent <=> storage[e][c] = Absent
  BY <1>1, StatusStore DEF StoreShowingGone
<1>. QED  BY <1>2 DEF Records, RecordsIn, ComponentKey

LEMMA DeltasAreSafe ==
  ASSUME BaseInv, WorldReplicated, NEW p \in Peer,
         \/ Settled(knownEntities[p], knownComponents[p], dirty, entities, storage, nextId)
         \/ UpdatesHaveRecords
  PROVE  DeltaEncodes(p) /\ Encodable(Deltas(p), storage)
<1>1. dirty \in DirtyOps /\ RecordsIn(StoreShowingGone) = Records
  BY SameRecords DEF BaseInv, MarksOK
<1>2. /\ Deltas(p).added = {}
      /\ Deltas(p).updated = {b \in dirty.updated : /\ Visible(p, b[1])
                                                    /\ <<b[1], b[2]>> \in ComponentsNext(p)}
  BY <1>1, DeltasFacts DEF Deltas
<1>3. \A b \in Deltas(p).updated : <<b[1], b[2]>> \in Records
  <2>1. CASE UpdatesHaveRecords
    <3>1. \A b \in dirty.updated : <<b[1], b[2]>> \in ComponentKey
      BY <1>1 DEF DirtyOps, DirtyBit, ComponentKey
    <3>2. \A b \in dirty.updated : storage[b[1]][b[2]] # Absent
      BY <2>1 DEF UpdatesHaveRecords, HasRecord
    <3>. QED  BY <1>2, <3>1, <3>2 DEF Records, RecordsIn
  <2>2. CASE ~UpdatesHaveRecords
    BY <1>2, <2>2, NextIsVisible
  <2>. QED  BY <2>1, <2>2
<1>. QED  BY <1>1, <1>2, <1>3 DEF DeltaEncodes, Encodable, Records

LEMMA AllEncode ==
  ASSUME SettledInv
  PROVE  /\ \A p \in Targets : p \in Peer /\ DeltaEncodes(p)
         /\ \A p \in Peer : Reached(p) <=> p \in Targets
<1>1. /\ BaseInv /\ WorldReplicated
      /\ \A p \in synced : SettledFor(p)
      /\ active \subseteq Peer /\ seen \subseteq Peer
  BY DEF SettledInv, BaseInv, ServerTypeOK
<1>2. Targets \subseteq active \cup seen
  BY DEF Targets, Listed
<1>3. ASSUME NEW p \in Targets PROVE p \in Peer /\ DeltaEncodes(p)
  <2>1. p \in Peer
    BY <1>1, <1>2
  <2>2. CASE UpdatesHaveRecords
    BY <1>1, <2>1, <2>2, DeltasAreSafe
  <2>3. CASE ~UpdatesHaveRecords
    <3>1. p \in synced
      BY <1>2, <2>3 DEF SettledInv, NeverThrows
    <3>. QED  BY <1>1, <2>1, <3>1, DeltasAreSafe DEF SettledFor
  <2>. QED  BY <2>1, <2>2, <2>3
<1>. QED  BY <1>3 DEF Reached

-----------------------------------------------------------------------------
\* Fields that were marked in records keep them.

LEMMA UpdatesHaveRecordsAfter ==
  ASSUME NEW d, d \in DirtyOps,
         d.added \subseteq dirty.added \cup {k \in ComponentKey : ~HasRecord(k[1], k[2])},
         \A b \in d.updated : b \in dirty.updated \/
           (HasRecord(b[1], b[2]) /\ <<b[1], b[2]>> \notin dirty.added),
         dirty \in DirtyOps, UpdatesHaveRecords,
         \A e \in Entity, c \in Component : HasRecord(e, c) => HasRecord(e, c)',
         dirty'.updated \subseteq d.updated, dirty'.added \subseteq d.added
  PROVE  UpdatesHaveRecords'
<1> SUFFICES ASSUME NEW b \in dirty'.updated
             PROVE  HasRecord(b[1], b[2])' /\ <<b[1], b[2]>> \notin dirty'.added
  BY DEF UpdatesHaveRecords
<1>1. b \in d.updated /\ b[1] \in Entity /\ b[2] \in Component
  BY DEF DirtyOps, DirtyBit
<1>2. HasRecord(b[1], b[2]) /\ <<b[1], b[2]>> \notin dirty.added
  BY <1>1 DEF UpdatesHaveRecords
<1>3. <<b[1], b[2]>> \notin d.added
  <2> SUFFICES ASSUME <<b[1], b[2]>> \in d.added PROVE FALSE
    OBVIOUS
  <2>1. PICK k \in ComponentKey : k = <<b[1], b[2]>> /\ ~HasRecord(k[1], k[2])
    BY <1>2
  <2>2. k[1] = b[1] /\ k[2] = b[2]
    BY <2>1
  <2>. QED  BY <1>2, <2>1, <2>2
<1>. QED  BY <1>1, <1>2, <1>3

LEMMA EnsureUpdatesHaveRecords ==
  ASSUME BaseInv, LocalComponent = {}, NEW p \in Peer, EnsurePeerEntity(p),
         UpdatesHaveRecords,
         dirty'.updated \subseteq DirtyWithPeerEntity(p).updated,
         dirty'.added \subseteq DirtyWithPeerEntity(p).added
  PROVE  UpdatesHaveRecords'
<1> DEFINE d == DirtyWithPeerEntity(p)
<1>1. /\ StoreOK /\ MarksOK(dirty, storage, replicated) /\ dirty \in DirtyOps
      /\ peerEntity \in [Peer -> Entity \cup {Absent}]
  BY DEF BaseInv, MarksOK, ServerTypeOK
<1>2. d \in DirtyOps
  BY <1>1, EnsureBase DEF MarksOK
<1>3. CASE peerEntity[p] = Absent
  <2>1. nextId \in Entity /\ (Grows(nextId, PeerPrefab, d) \/ Stays(d))
    BY <1>3, EnsureChanges DEF EnsurePeerEntity
  <2>2. entities' # entities
    BY <1>1, <1>3 DEF EnsurePeerEntity, StoreOK, NoLeftovers
  <2>3. Grows(nextId, PeerPrefab, d)
    BY <2>1, <2>2 DEF Stays
  <2> HIDE DEF d
  <2>4. /\ d.added = dirty.added \cup KeysOf(nextId, PeerPrefab)
        /\ d.updated \subseteq dirty.updated
        /\ \A c \in PeerPrefab : storage[nextId][c] = Absent /\ storage'[nextId][c] # Absent
        /\ \A a \in Entity, c \in Component :
             ~(a = nextId /\ c \in PeerPrefab) => storage'[a][c] = storage[a][c]
        /\ PeerPrefab \subseteq Component
    BY <2>3 DEF Grows
  <2>5. \A k \in KeysOf(nextId, PeerPrefab) : k \in ComponentKey /\ ~HasRecord(k[1], k[2])
    BY <2>1, <2>4 DEF KeysOf, ComponentKey, HasRecord
  <2>6. \A e \in Entity, c \in Component : HasRecord(e, c) => HasRecord(e, c)'
    BY <2>4 DEF HasRecord
  <2>7. dirty'.updated \subseteq d.updated /\ dirty'.added \subseteq d.added
    BY DEF d
  <2>8. d.added \subseteq dirty.added \cup {k \in ComponentKey : ~HasRecord(k[1], k[2])}
    BY <2>4, <2>5
  <2>. QED  BY <1>1, <1>2, <2>4, <2>6, <2>7, <2>8, UpdatesHaveRecordsAfter
<1>4. CASE peerEntity[p] # Absent
  <2>1. storage' = StoreWithStatus({p}, Connected) /\ d = DirtyWithStatus({p}, Connected)
        /\ Connected \in Value
    BY <1>4, ReplicationAssumption DEF EnsurePeerEntity, DirtyWithPeerEntity
  <2>2. dirty'.updated \subseteq d.updated /\ dirty'.added \subseteq d.added
    OBVIOUS
  <2> HIDE DEF d
  <2>3. /\ d.added = dirty.added
        /\ \A b \in d.updated \ dirty.updated :
             storage[b[1]][b[2]] # Absent /\ <<b[1], b[2]>> \notin dirty.added
    BY <1>1, <2>1, StatusMarks
  <2>4. \A e \in Entity, c \in Component : HasRecord(e, c) => HasRecord(e, c)'
    BY <1>1, <2>1, StatusStore DEF HasRecord
  <2>. QED  BY <1>1, <1>2, <2>2, <2>3, <2>4, UpdatesHaveRecordsAfter DEF HasRecord
<1>. QED  BY <1>3, <1>4

LEMMA UpdateUpdatesHaveRecords ==
  ASSUME BaseInv, Update, UpdatesHaveRecords
  PROVE  UpdatesHaveRecords'
<1> DEFINE d == DirtyShowingGone
<1>1. /\ StoreOK /\ MarksOK(dirty, storage, replicated) /\ dirty \in DirtyOps
      /\ storage' = StoreWithStatus(Gone, Disconnected)
      /\ dirty' = d \/ dirty' = ClearWritten(d, dirty)
      /\ Disconnected \in Value
  BY ReplicationAssumption DEF BaseInv, MarksOK, Update, StoreShowingGone, UpdateShared, UpdateEach
<1>2. /\ d.added = dirty.added /\ d \in DirtyOps
      /\ \A b \in d.updated \ dirty.updated :
           storage[b[1]][b[2]] # Absent /\ <<b[1], b[2]>> \notin dirty.added
  BY <1>1, StatusMarks DEF DirtyShowingGone, MarksOK
<1>3. \A e \in Entity, c \in Component : HasRecord(e, c) => HasRecord(e, c)'
  BY <1>1, StatusStore DEF HasRecord
<1> HIDE DEF d
<1>4. dirty'.updated \subseteq d.updated /\ dirty'.added \subseteq d.added
  BY <1>1, <1>2, ClearWrittenFacts
<1>. QED  BY <1>1, <1>2, <1>3, <1>4, UpdatesHaveRecordsAfter DEF HasRecord

-----------------------------------------------------------------------------
\* Every action keeps SettledInv.

LEMMA InitSettled ==
  ASSUME Orderly, Init PROVE SettledInv
<1>1. BaseInv
  BY InitBase
<1>2. WorldReplicated /\ UpdatesHaveRecords
  BY DEF Init, WorldInit, WorldReplicated, UpdatesHaveRecords, NothingDirty
<1>3. NeverThrows
  BY <1>2 DEF Orderly, Init, NeverThrows
<1>. QED  BY <1>1, <1>2, <1>3 DEF Init, SettledInv

\* A step of the world with what it marks, and nothing cleared.
LEMMA WorldSettled ==
  ASSUME SettledInv, Changes(dirty'),
         UNCHANGED <<knownEntities, knownComponents, synced, active>>, seen \subseteq seen'
  PROVE  /\ WorldReplicated'
         /\ \A p \in Peer : \A e \in knownEntities'[p] : e < nextId'
         /\ \A p \in synced' : SettledFor(p)'
<1>1. /\ BaseInv /\ StoreOK /\ WorldReplicated /\ synced \subseteq Peer
      /\ knownEntities \in [Peer -> SUBSET Entity]
      /\ knownComponents \in [Peer -> SUBSET ComponentKey]
  BY DEF SettledInv, BaseInv, ServerTypeOK
<1>2. WorldReplicated'
  BY <1>1, ChangesKeepReplicated
<1>3. \A p \in Peer : \A e \in knownEntities[p] : e < nextId /\ e \in Nat
  BY <1>1, WorldAssumption DEF SettledInv
<1>4. nextId \in Nat /\ nextId' \in Nat /\ nextId <= nextId'
  <2>1. nextId' = nextId \/ (nextId' \in Nat /\ nextId <= nextId')
    BY DEF Changes, Grows, Shrinks, Vanishes, Stays
  <2>2. nextId \in Nat
    BY <1>1 DEF StoreOK
  <2>. QED  BY <2>1, <2>2
<1>5. ASSUME NEW p \in synced PROVE SettledFor(p)'
  <2>1. /\ Settled(knownEntities[p], knownComponents[p], dirty, entities, storage, nextId)
        /\ knownEntities[p] # {} => p \in Targets
    BY DEF SettledInv, SettledFor
  <2>2. Settled(knownEntities[p], knownComponents[p], dirty', entities', storage', nextId')
    BY <1>1, <2>1, ChangesKeepSettled
  <2>. QED  BY <2>1, <2>2 DEF SettledFor, Targets, Listed
<1>6. \A p \in Peer : \A e \in knownEntities'[p] : e < nextId'
  BY <1>3, <1>4
<1>. QED  BY <1>2, <1>5, <1>6

LEMMA EditSettled ==
  ASSUME Orderly, SettledInv, EditWorld PROVE SettledInv'
<1>1. /\ BaseInv /\ BaseInv' /\ WorldReplicated
      /\ UNCHANGED <<knownEntities, knownComponents, synced, active, seen, closed>>
  BY EditWorldBase DEF SettledInv, EditWorld, serverVars, netVars, SetVisible
<1>2. Changes(dirty')
  <2>1. CASE Edit
    BY <1>1, <2>1, EditChanges DEF Orderly
  <2>2. CASE UNCHANGED worldVars
    <3>1. Stays(dirty')
      BY <2>2 DEF worldVars, Stays
    <3>. QED  BY <3>1 DEF Changes
  <2>. QED  BY <2>1, <2>2 DEF EditWorld, SetVisible
<1>3. /\ WorldReplicated'
      /\ \A p \in Peer : \A e \in knownEntities'[p] : e < nextId'
      /\ \A p \in synced' : SettledFor(p)'
  BY <1>1, <1>2, WorldSettled
<1>4. NeverThrows'
  <2>1. CASE StaleWrites = FALSE /\ UpdatesHaveRecords
    <3>1. CASE Edit
      <4>1. WorldInv
        BY <1>1, WorldInvSplit DEF BaseInv
      <4>2. UpdatesHaveRecords'
        BY <2>1, <3>1, <4>1, EditDelta DEF DeltaInv
      <4>. QED  BY <2>1, <4>2 DEF NeverThrows
    <3>2. CASE UNCHANGED worldVars
      BY <2>1, <3>2 DEF NeverThrows, UpdatesHaveRecords, HasRecord, worldVars
    <3>. QED  BY <3>1, <3>2 DEF EditWorld, SetVisible
  <2>2. CASE ~(StaleWrites = FALSE /\ UpdatesHaveRecords)
    BY <1>1, <2>2 DEF SettledInv, NeverThrows
  <2>. QED  BY <2>1, <2>2
<1>. QED  BY <1>1, <1>3, <1>4 DEF SettledInv

LEMMA PacketSettled ==
  ASSUME Orderly, SettledInv, NEW z \in Peer, HandlePacket(z) PROVE SettledInv'
<1>1. /\ BaseInv /\ BaseInv' /\ LocalComponent = {}
      /\ z \in active /\ seen' = seen \cup {z} /\ EnsurePeerEntity(z)
      /\ dirty' = DirtyWithPeerEntity(z)
      /\ UNCHANGED <<knownEntities, knownComponents, synced, active, closed>>
  BY HandlePacketBase DEF SettledInv, HandlePacket, netVars, Orderly
<1>2. Changes(dirty')
  BY <1>1, EnsureChanges
<1>3. /\ WorldReplicated'
      /\ \A p \in Peer : \A e \in knownEntities'[p] : e < nextId'
      /\ \A p \in synced' : SettledFor(p)'
  BY <1>1, <1>2, WorldSettled
<1>4. UpdatesHaveRecords => UpdatesHaveRecords'
  BY <1>1, EnsureUpdatesHaveRecords
<1>5. NeverThrows'
  BY <1>1, <1>4 DEF SettledInv, NeverThrows
<1>. QED  BY <1>1, <1>3, <1>5 DEF SettledInv

\* Connections and arrivals leave the marks alone.
LEMMA ConnectionSettled ==
  ASSUME SettledInv, NEW z \in Peer, Connect(z) \/ Disconnect(z)
  PROVE  SettledInv'
<1>1. /\ BaseInv /\ BaseInv' /\ synced \subseteq active
      /\ UNCHANGED <<worldVars, seen, knownEntities, knownComponents>>
  BY ConnectionBase DEF SettledInv, BaseInv, ServerTypeOK, Connect, Disconnect
<1>2. /\ WorldReplicated' /\ \A p \in Peer : \A e \in knownEntities'[p] : e < nextId'
  BY <1>1 DEF SettledInv, WorldReplicated, worldVars
<1>3. ASSUME NEW p \in synced, p \in Targets' \/ p \notin Targets PROVE SettledFor(p)'
  <2>1. SettledFor(p)
    BY DEF SettledInv
  <2>. QED  BY <1>1, <1>3, <2>1 DEF SettledFor, worldVars
<1>4. UpdatesHaveRecords => UpdatesHaveRecords'
  BY <1>1 DEF UpdatesHaveRecords, HasRecord, worldVars
<1>5. CASE Connect(z)
  <2>1. /\ z \notin active /\ active' = active \cup {z} /\ closed' = closed
        /\ synced' = IF knownEntities[z] = {} THEN synced \cup {z} ELSE synced
    BY <1>5 DEF Connect
  <2>2. ASSUME NEW p \in synced PROVE SettledFor(p)'
    BY <1>1, <1>3, <2>1 DEF Targets, Listed
  <2>3. knownEntities[z] = {} => SettledFor(z)'
    <3> SUFFICES ASSUME knownEntities[z] = {} PROVE SettledFor(z)'
      OBVIOUS
    <3>1. knownComponents[z] = {}
      BY <1>1 DEF BaseInv, ChannelsOK
    <3>2. Settled({}, {}, dirty', entities', storage', nextId')
      BY DEF Settled
    <3>. QED  BY <1>1, <3>1, <3>2 DEF SettledFor
  <2>4. \A p \in synced' : SettledFor(p)'
    BY <2>1, <2>2, <2>3
  <2>5. NeverThrows'
    BY <1>1, <1>4, <2>1 DEF SettledInv, NeverThrows
  <2>. QED  BY <1>1, <1>2, <2>4, <2>5 DEF SettledInv
<1>6. CASE Disconnect(z)
  <2>1. /\ active' = active \ {z} /\ synced' = synced \ {z} /\ closed < MaxClosed
    BY <1>6 DEF Disconnect
  <2>2. \A p \in synced' : SettledFor(p)'
    BY <1>1, <1>3, <2>1 DEF Targets, Listed
  <2>3. ~(MaxClosed = 0 /\ closed = 0)
    BY <2>1
  <2>4. NeverThrows'
    BY <1>4, <2>3 DEF SettledInv, NeverThrows
  <2>. QED  BY <1>1, <1>2, <2>2, <2>4 DEF SettledInv
<1>. QED  BY <1>5, <1>6

LEMMA QuietSettled ==
  ASSUME SettledInv, BaseInv',
         UNCHANGED <<worldVars, active, seen, knownEntities, knownComponents, synced, closed>>
  PROVE  SettledInv'
  BY DEF SettledInv, worldVars, WorldReplicated, SettledFor, Targets, Listed, NeverThrows,
         UpdatesHaveRecords, HasRecord

\* A full snapshot for one peer: that peer starts from what is there, and
\* nothing that others are taken to have was waiting to be sent.
LEMMA SnapshotSettled ==
  ASSUME Orderly, SettledInv, NEW z \in Peer, HandleHello(z) \/ ResendFullSnapshot(z)
  PROVE  SettledInv'
<1> DEFINE ops == FullOps(z, entities', storage', replicated', owner')
           d   == DirtyWithPeerEntity(z)
<1>1. /\ BaseInv /\ BaseInv' /\ WorldReplicated /\ LocalComponent = {}
      /\ SendFullSnapshot(z) /\ EnsurePeerEntity(z) /\ NothingUnsentToOthers(z)
      /\ z \in Targets' /\ seen \subseteq seen' /\ seen' \subseteq seen \cup (active \cap {z}) \cup seen
      /\ synced \subseteq Peer /\ StoreOK /\ WorldEntity \notin dirty.destroyed
      /\ knownEntities \in [Peer -> SUBSET Entity]
      /\ knownComponents \in [Peer -> SUBSET ComponentKey]
  BY SendFullSnapshotBase
     DEF SettledInv, BaseInv, ServerTypeOK, MarksOK, Orderly, HandleHello, ResendFullSnapshot,
         SendFullSnapshot, Targets, Listed
<1>2. /\ d \in DirtyOps /\ StoreOK'
      /\ ops.created = {e \in entities' : IsVisible(z, e, owner')}
      /\ ops.added = {k \in RecordsIn(storage') : IsVisible(z, k[1], owner')}
      /\ \A k \in ops.added : k[1] \in ops.created
      /\ dirty' = ClearWritten(d, ops)
      /\ knownEntities' = [knownEntities EXCEPT ![z] = ops.created]
      /\ knownComponents' = [knownComponents EXCEPT ![z] = ops.added]
      /\ synced' = synced \cup (active \cap {z})
      /\ UNCHANGED <<active, closed>>
  BY <1>1, SendFullSnapshotFacts DEF MarksOK
<1>3. /\ Changes(d) /\ d.removed \subseteq dirty.removed /\ d.destroyed \subseteq dirty.destroyed
  BY <1>1, EnsureChanges
<1>4. \A e \in entities' : e < nextId'
  BY <1>2 DEF StoreOK, NoLeftovers
<1> HIDE DEF ops, d
<1>5. nextId \in Nat /\ nextId' \in Nat /\ nextId <= nextId'
  <2>1. nextId' = nextId \/ (nextId' \in Nat /\ nextId <= nextId')
    BY <1>3 DEF Changes, Grows, Shrinks, Vanishes, Stays
  <2>. QED  BY <1>1, <2>1 DEF StoreOK
<1>6. ASSUME NEW p \in Peer, NEW e \in knownEntities'[p] PROVE e < nextId'
  <2>1. CASE p = z
    BY <1>1, <1>2, <1>4, <2>1
  <2>2. CASE p # z
    <3>1. e \in knownEntities[p] /\ e \in Entity
      BY <1>1, <1>2, <2>2
    <3>2. e < nextId /\ e \in Nat
      BY <3>1, WorldAssumption DEF SettledInv
    <3>. QED  BY <1>5, <3>2
  <2>. QED  BY <2>1, <2>2
<1>7. /\ ClearWritten(d, ops).created = d.created \ ops.created
      /\ ClearWritten(d, ops).added = d.added \ ops.added
  BY DEF ClearWritten
<1>8. SettledFor(z)'
  <2>1. ops.created \subseteq entities' /\ ops.added \subseteq RecordsIn(storage')
    BY <1>2
  <2>2. Settled(ops.created, ops.added, dirty', entities', storage', nextId')
    BY <1>2, <1>4, <1>7, <2>1, PresentSettled
  <2>. QED  BY <1>1, <1>2, <2>2 DEF SettledFor
<1>9. ASSUME NEW p \in synced, p # z PROVE SettledFor(p)'
  <2>1. /\ Settled(knownEntities[p], knownComponents[p], dirty, entities, storage, nextId)
        /\ knownEntities[p] # {} => p \in Targets
    BY DEF SettledInv, SettledFor
  <2>2. Settled(knownEntities[p], knownComponents[p], d, entities', storage', nextId')
    BY <1>1, <1>3, <2>1, ChangesKeepSettled
  <2>3. knownEntities[p] \cap d.destroyed = {} /\ knownComponents[p] \cap d.removed = {}
    BY <1>1, <1>3, <1>9 DEF NothingUnsentToOthers
  <2>4. Settled(knownEntities[p], knownComponents[p], dirty', entities', storage', nextId')
    BY <1>2, <2>2, <2>3, ClearSettled
  <2>5. p \in Targets => p \in Targets'
    BY <1>1, <1>2 DEF Targets, Listed
  <2>6. knownEntities'[p] = knownEntities[p] /\ knownComponents'[p] = knownComponents[p]
    BY <1>1, <1>2, <1>9
  <2>. QED  BY <2>1, <2>4, <2>5, <2>6 DEF SettledFor
<1>10. \A p \in synced' : SettledFor(p)'
  BY <1>2, <1>8, <1>9
<1>11. WorldReplicated'
  BY <1>1, <1>3, ChangesKeepReplicated
<1>12. NeverThrows'
  <2>1. CASE StaleWrites = FALSE /\ UpdatesHaveRecords
    <3>1. dirty'.updated \subseteq d.updated /\ dirty'.added \subseteq d.added
      BY <1>2, ClearWrittenFacts
    <3>2. UpdatesHaveRecords'
      BY <1>1, <2>1, <3>1, EnsureUpdatesHaveRecords DEF d
    <3>. QED  BY <2>1, <3>2 DEF NeverThrows
  <2>2. CASE ~(StaleWrites = FALSE /\ UpdatesHaveRecords)
    <3>1. /\ MaxClosed = 0 /\ closed = 0 /\ active \subseteq synced /\ seen \subseteq active
          /\ \A p \in Peer \ active : knownEntities[p] = {}
      BY <2>2 DEF SettledInv, NeverThrows
    <3>2. seen' \subseteq active
      BY <1>1, <3>1
    <3>3. z \in active
      BY <1>1, <1>2, <3>2 DEF Targets, Listed
    <3>. QED  BY <1>1, <1>2, <3>1, <3>2, <3>3 DEF NeverThrows
  <2>. QED  BY <2>1, <2>2
<1>. QED  BY <1>1, <1>6, <1>10, <1>11, <1>12 DEF SettledInv

\* An update leaves every peer it reaches with what that peer may see, and
\* clears every mark it started with.
LEMMA UpdateSettled ==
  ASSUME LocalComponent = {}, SettledInv, Update PROVE SettledInv'
<1> DEFINE d == DirtyShowingGone
<1>1. /\ BaseInv /\ BaseInv' /\ WorldReplicated
      /\ StoreOK /\ StoreOK' /\ dirty \in DirtyOps /\ synced \subseteq Peer
      /\ knownEntities \in [Peer -> SUBSET Entity]
      /\ knownComponents \in [Peer -> SUBSET ComponentKey]
      /\ UNCHANGED <<entities, replicated, nextId, active, seen, synced, closed>>
      /\ (CanShareUpdate /\ UpdateShared) \/ (~CanShareUpdate /\ UpdateEach)
  BY UpdateBase DEF SettledInv, BaseInv, MarksOK, ServerTypeOK, Update
<1>2. Stays(d) /\ Changes(d) /\ d \in DirtyOps
  <2>1. MarksOK(d, StoreShowingGone, replicated)
    BY <1>1, StatusMarks, ReplicationAssumption DEF BaseInv, DirtyShowingGone, StoreShowingGone
  <2>. QED  BY <1>1, <2>1, UpdateStays DEF Changes, MarksOK
<1>3. RecordsIn(storage') = Records
  BY <1>2 DEF Stays, Records, RecordsIn, ComponentKey
<1>4. WorldReplicated' /\ Targets' = Targets
  BY <1>1 DEF WorldReplicated, Targets, Listed
<1>5. /\ d.created = dirty.created /\ d.added = dirty.added
      /\ d.removed = dirty.removed /\ d.destroyed = dirty.destroyed
  BY <1>2 DEF Stays
<1> HIDE DEF d
<1>6. CASE CanShareUpdate /\ UpdateShared
  <2>1. /\ UNCHANGED <<knownEntities, knownComponents>>
        /\ dirty' = d \/ dirty' = ClearWritten(d, dirty)
        /\ dirty.removed = {} /\ dirty.destroyed = {}
    BY <1>6 DEF UpdateShared, CanShareUpdate, NothingDirty, d
  <2>2. ASSUME NEW p \in synced PROVE SettledFor(p)'
    <3>1. /\ Settled(knownEntities[p], knownComponents[p], dirty, entities, storage, nextId)
          /\ knownEntities[p] # {} => p \in Targets
      BY DEF SettledInv, SettledFor
    <3>2. Settled(knownEntities[p], knownComponents[p], d, entities', storage', nextId')
      BY <1>1, <1>2, <3>1, ChangesKeepSettled
    <3>3. knownEntities[p] \cap d.destroyed = {} /\ knownComponents[p] \cap d.removed = {}
      BY <1>5, <2>1
    <3>4. Settled(knownEntities[p], knownComponents[p], dirty', entities', storage', nextId')
      BY <1>2, <2>1, <3>2, <3>3, ClearSettled
    <3>. QED  BY <1>4, <2>1, <3>1, <3>4 DEF SettledFor
  <2>3. UpdatesHaveRecords => UpdatesHaveRecords'
    BY <1>1, UpdateUpdatesHaveRecords
  <2>4. NeverThrows'
    BY <1>1, <2>1, <2>3 DEF SettledInv, NeverThrows
  <2>5. \A p \in Peer : \A e \in knownEntities'[p] : e < nextId'
    BY <1>1, <2>1 DEF SettledInv
  <2>. QED  BY <1>1, <1>4, <2>2, <2>4, <2>5 DEF SettledInv
<1>7. CASE ~CanShareUpdate /\ UpdateEach
  <2>1. /\ \A p \in Targets : p \in Peer /\ DeltaEncodes(p)
        /\ \A p \in Peer : Reached(p) <=> p \in Targets
    BY AllEncode
  <2>2. \A p \in Peer :
          /\ knownEntities'[p] = IF p \in Targets THEN EntitiesAfter(p, StructuralOps(p))
                                 ELSE knownEntities[p]
          /\ knownComponents'[p] = IF p \in Targets THEN ComponentsNext(p)
                                   ELSE knownComponents[p]
    BY <1>7, <2>1 DEF UpdateEach
  <2>3. dirty' = ClearWritten(d, dirty)
    BY <1>7, <2>1 DEF UpdateEach, d
  <2>4. dirty'.created = {} /\ dirty'.added = {}
    BY <1>5, <2>3 DEF ClearWritten
  <2>5. \A e \in entities : e < nextId
    BY <1>1 DEF StoreOK, NoLeftovers
  <2>6. ASSUME NEW p \in synced PROVE SettledFor(p)'
    <3>1. /\ Settled(knownEntities[p], knownComponents[p], dirty, entities, storage, nextId)
          /\ knownEntities[p] # {} => p \in Targets
          /\ \A k \in knownComponents'[p] : k[1] \in knownEntities'[p]
      BY <1>1 DEF SettledInv, SettledFor, BaseInv, ChannelsOK
    <3>2. CASE p \in Targets
      <4>1. /\ knownEntities'[p] = {e \in entities : Visible(p, e)}
            /\ knownComponents'[p] = {k \in Records : Visible(p, k[1])}
        BY <1>1, <2>2, <3>1, <3>2, NextIsVisible
      <4>2. Settled(knownEntities'[p], knownComponents'[p], dirty', entities', storage', nextId')
        <5>1. knownEntities'[p] \subseteq entities' /\ knownComponents'[p] \subseteq RecordsIn(storage')
          BY <1>1, <1>3, <4>1
        <5>. QED  BY <1>1, <2>4, <2>5, <3>1, <5>1, PresentSettled
      <4>. QED  BY <1>4, <3>2, <4>2 DEF SettledFor
    <3>3. CASE p \notin Targets
      <4>1. knownEntities'[p] = {} /\ knownComponents'[p] = {}
        BY <1>1, <2>2, <3>1, <3>3
      <4>2. Settled({}, {}, dirty', entities', storage', nextId')
        BY DEF Settled
      <4>. QED  BY <4>1, <4>2 DEF SettledFor
    <3>. QED  BY <3>2, <3>3
  <2>7. ASSUME NEW p \in Peer, NEW e \in knownEntities'[p] PROVE e < nextId'
    <3>1. \A k \in Records : k[1] \in entities
      <4> TAKE k \in Records
      <4>1. k[1] \in Entity /\ k[2] \in Component /\ storage[k[1]][k[2]] # Absent
        BY DEF Records, RecordsIn, ComponentKey
      <4>. QED  BY <1>1, <4>1 DEF StoreOK, NoLeftovers, NoRecords
    <3>2. StructuralOps(p).created = Entering(p) /\ StructuralOps(p).added \subseteq Records
      BY DEF StructuralOps
    <3>3. e \in knownEntities[p] \/ e \in EntitiesAfter(p, StructuralOps(p))
      BY <2>2
    <3>4. ASSUME e \in EntitiesAfter(p, StructuralOps(p))
          PROVE  e \in knownEntities[p] \/ e \in entities
      <4>1. \/ e \in knownEntities[p] \/ e \in Entering(p)
            \/ \E k \in StructuralOps(p).added : e = k[1]
        BY <3>2, <3>4 DEF EntitiesAfter
      <4>. QED  BY <3>1, <3>2, <4>1 DEF Entering
    <3>. QED  BY <1>1, <2>5, <3>3, <3>4 DEF SettledInv
  <2>8. UpdatesHaveRecords => UpdatesHaveRecords'
    BY <1>1, UpdateUpdatesHaveRecords
  <2>9. NeverThrows'
    <3>1. CASE StaleWrites = FALSE /\ UpdatesHaveRecords
      BY <2>8, <3>1 DEF NeverThrows
    <3>2. CASE ~(StaleWrites = FALSE /\ UpdatesHaveRecords)
      <4>1. /\ MaxClosed = 0 /\ closed = 0 /\ active \subseteq synced /\ seen \subseteq active
            /\ \A p \in Peer \ active : knownEntities[p] = {}
        BY <3>2 DEF SettledInv, NeverThrows
      <4>2. \A p \in Peer \ active : knownEntities'[p] = {}
        BY <2>2, <4>1 DEF Targets, Listed
      <4>. QED  BY <1>1, <4>1, <4>2 DEF NeverThrows
    <3>. QED  BY <3>1, <3>2
  <2>. QED  BY <1>1, <1>4, <2>6, <2>7, <2>9 DEF SettledInv
<1>. QED  BY <1>1, <1>6, <1>7

LEMMA SettledStep ==
  ASSUME Orderly, SettledInv, [Next]_vars PROVE SettledInv'
<1>1. BaseInv /\ BaseInv'
  BY BaseStep DEF SettledInv
<1>2. CASE UNCHANGED vars
  BY <1>1, <1>2, QuietSettled DEF vars, serverVars, netVars
<1>3. ASSUME NEW z \in Peer, Deliver(z) \/ DeliverLoose(z) \/ LoseLoose(z)
      PROVE  SettledInv'
  BY <1>1, <1>3, QuietSettled DEF Deliver, DeliverLoose, LoseLoose, serverVars
<1>. QED  BY <1>2, <1>3, EditSettled, PacketSettled, ConnectionSettled, SnapshotSettled,
             UpdateSettled DEF Next, Orderly

\* Of what a synced peer is taken to have nothing is marked as new, and what
\* no longer exists is marked as going; no update throws.
THEOREM MarksAreSettled == Orderly => (Spec => []SettledInv)
<1> SUFFICES ASSUME Orderly PROVE Spec => []SettledInv
  OBVIOUS
<1>1. Init => SettledInv
  BY InitSettled
<1>2. SettledInv /\ [Next]_vars => SettledInv'
  BY SettledStep
<1>. QED  BY <1>1, <1>2, PTL DEF Spec

\* Whatever a peer has that no longer exists, an update will take away: it is
\* marked, whatever other peers were sent, destroyed or hidden before.
THEOREM NoGhostStays == Orderly => (Spec => []NoGhosts)
<1> SUFFICES ASSUME Orderly PROVE Spec => []NoGhosts
  OBVIOUS
<1>1. SettledInv => NoGhosts
  BY DEF SettledInv, SettledFor, Settled, NoGhosts, Records, BaseInv, ServerTypeOK
<1>. QED  BY <1>1, MarksAreSettled, PTL

\* No update of a synced peer reads a record that is gone, whatever was
\* written to removed components.
THEOREM DeltasAlwaysEncodable == Orderly => (Spec => []DeltasEncodable)
<1> SUFFICES ASSUME Orderly PROVE Spec => []DeltasEncodable
  OBVIOUS
<1>1. ASSUME SettledInv, NEW p \in synced PROVE Encodable(Deltas(p), storage)
  <2>1. p \in Peer /\ BaseInv /\ WorldReplicated /\ SettledFor(p)
    BY <1>1 DEF SettledInv, BaseInv, ServerTypeOK
  <2>. QED  BY <2>1, DeltasAreSafe DEF SettledFor
<1>2. SettledInv => DeltasEncodable
  BY <1>1 DEF DeltasEncodable
<1>. QED  BY <1>2, MarksAreSettled, PTL

\* An update that goes from peer to peer leaves each of them with exactly
\* what it may see, if the transport lists its peers.
THEOREM UpdatesReconcile ==
  Orderly /\ ListsPeers = TRUE => (Spec => UpdateReconciles)
<1> SUFFICES ASSUME Orderly, ListsPeers = TRUE PROVE Spec => UpdateReconciles
  OBVIOUS
<1>1. ASSUME SettledInv, Update, ~CanShareUpdate, NEW p \in synced
      PROVE  /\ knownEntities'[p] = {e \in entities : Visible(p, e)}
             /\ knownComponents'[p] = {k \in Records : Visible(p, k[1])}
  <2>1. /\ p \in Peer /\ p \in Targets /\ BaseInv /\ WorldReplicated /\ SettledFor(p)
    BY <1>1 DEF SettledInv, BaseInv, ServerTypeOK, Targets, Listed
  <2>2. Reached(p)
    BY <1>1, <2>1, AllEncode
  <2>3. /\ knownEntities'[p] = EntitiesAfter(p, StructuralOps(p))
        /\ knownComponents'[p] = ComponentsNext(p)
    BY <1>1, <2>1, <2>2, EachFuture
  <2>. QED  BY <2>1, <2>3, NextIsVisible DEF SettledFor
<1>2. SettledInv /\ [Next]_vars =>
        [Update /\ ~CanShareUpdate =>
           \A p \in synced :
             /\ knownEntities'[p] = {e \in entities : Visible(p, e)}
             /\ knownComponents'[p] = {k \in Records : Visible(p, k[1])}]_vars
  BY <1>1
<1>. QED  BY <1>2, MarksAreSettled, PTL DEF Spec, UpdateReconciles

-----------------------------------------------------------------------------
\* Owners and values.
\*
\* An owner is sent when it is not the server, with a creation, and when it was
\* changed; that a client has no owner for what it does not have is what makes
\* the first of the two enough.
\*
\* A write is not marked if its record or its entity is marked as new.  That no
\* peer already has what is new is Settled, but for the world entity, which all
\* have from the start: WorldIsNew.

\* The owners replica F has, against those of entities ents; a peer that is
\* not synced may also have none.
OwnersOf(F, isSynced, net, ents, owners) ==
  /\ \A e \in Entity \ F.entities : F.owner[e] = Server
  /\ \A e \in F.entities \cap ents :
       e \in net \/ F.owner[e] = owners[e] \/ (~isSynced /\ F.owner[e] = Server)

OwnedFor(p) ==
  /\ p \notin Targets => SameShape(EmptyReplica, Future(p))
  /\ OwnersOf(Future(p), p \in synced, dirty.network, entities, owner)

OwnedInv == SettledInv /\ KnowledgeInv /\ \A p \in Peer : OwnedFor(p)

-----------------------------------------------------------------------------
\* What keeps owners right.

LEMMA SameOwned ==
  ASSUME NEW F, NEW G, SameShape(F, G), NEW s, NEW net, NEW ents, NEW owners,
         OwnersOf(F, s, net, ents, owners)
  PROVE  OwnersOf(G, s, net, ents, owners)
  BY DEF SameShape, OwnersOf

LEMMA EmptyOwned ==
  ASSUME NEW F, SameShape(EmptyReplica, F), NEW s, NEW net, NEW ents, NEW owners,
         owners[WorldEntity] = Server
  PROVE  OwnersOf(F, s, net, ents, owners)
<1>1. F.entities = {WorldEntity} /\ \A e \in Entity : F.owner[e] = Server
  BY DEF SameShape, EmptyReplica
<1>. QED  BY <1>1, WorldAssumption DEF OwnersOf

\* No client will have an entity whose id is still to be given.
LEMMA FutureIsOld ==
  ASSUME SettledInv, KnowledgeInv, NEW p \in Peer
  PROVE  /\ Future(p) \in Replicas
         /\ Future(p).entities \subseteq knownEntities[p] \cup {WorldEntity}
         /\ \A e \in Future(p).entities : e < nextId
<1>1. BaseInv /\ KnownBy(p) /\ \A e \in knownEntities[p] : e < nextId
  BY DEF SettledInv, KnowledgeInv
<1>2. WorldEntity < nextId
  BY <1>1 DEF BaseInv, StoreOK, NoLeftovers
<1>3. Future(p).entities \subseteq knownEntities[p] \cup {WorldEntity}
  BY <1>1 DEF KnownBy, Bounded
<1>. QED  BY <1>1, <1>2, <1>3, FutureType

\* A step of the world marks every owner it changes.
LEMMA ChangesOwned ==
  ASSUME BaseInv, NEW F \in Replicas, \A e \in F.entities : e < nextId,
         NEW s, OwnersOf(F, s, dirty.network, entities, owner), NEW d, Changes(d)
  PROVE  OwnersOf(F, s, d.network, entities', owner')
<1>1. nextId \in Nat /\ Entity \subseteq Nat /\ owner \in [Entity -> Peer \cup {Server}]
  BY WorldAssumption DEF BaseInv, StoreOK
<1>2. nextId \notin F.entities
  BY <1>1
<1>3. \A e \in F.entities \cap entities' :
        /\ e \in entities
        /\ e \in dirty.network => e \in d.network
        /\ owner'[e] = owner[e] \/ e \in d.network
  <2> SUFFICES ASSUME NEW e \in F.entities \cap entities'
               PROVE  /\ e \in entities
                      /\ e \in dirty.network => e \in d.network
                      /\ owner'[e] = owner[e] \/ e \in d.network
    OBVIOUS
  <2>1. e \in Entity /\ e # nextId
    BY <1>2 DEF Replicas
  <2>2. ASSUME NEW a \in Entity, NEW C, Grows(a, C, d)
        PROVE  /\ e \in entities
               /\ e \in dirty.network => e \in d.network
               /\ owner'[e] = owner[e]
    BY <2>1, <2>2 DEF Grows
  <2>3. ASSUME NEW a \in Entity, NEW C, Shrinks(a, C, d)
        PROVE  /\ e \in entities
               /\ e \in dirty.network => e \in d.network
               /\ owner'[e] = owner[e]
    BY <2>3 DEF Shrinks
  <2>4. ASSUME NEW a \in Entity, Vanishes(a, d)
        PROVE  /\ e \in entities
               /\ e \in dirty.network => e \in d.network
               /\ owner'[e] = owner[e]
    BY <1>1, <2>1, <2>4 DEF Vanishes
  <2>5. CASE Stays(d)
    BY <2>5 DEF Stays
  <2>. QED  BY <2>2, <2>3, <2>4, <2>5 DEF Changes
<1>. QED  BY <1>3 DEF OwnersOf

-----------------------------------------------------------------------------
\* Every action keeps owners right.

LEMMA InitOwned == ASSUME Orderly, Init PROVE OwnedInv
<1>1. SettledInv /\ KnowledgeInv /\ owner[WorldEntity] = Server
  BY InitSettled, InitKnowledge DEF SettledInv, BaseInv, StoreOK, NoLeftovers
<1>2. \A p \in Peer : Future(p) = EmptyReplica
  BY ReplayedNothing DEF Init, Future
<1>. QED  BY <1>1, <1>2, EmptyOwned, SameShapeFacts DEF OwnedInv, OwnedFor

\* A step of the world with what it marks, nothing sent and nothing cleared.
LEMMA WorldOwned ==
  ASSUME OwnedInv, Changes(dirty'), NEW p \in Peer,
         UNCHANGED <<synced, active, inOrder, replica>>, seen \subseteq seen'
  PROVE  OwnedFor(p)'
<1>1. /\ Future(p)' = Future(p) /\ Future(p) \in Replicas
      /\ \A e \in Future(p).entities : e < nextId
      /\ BaseInv /\ OwnedFor(p)
  BY SameFuture, FutureIsOld DEF OwnedInv, SettledInv
<1>2. OwnersOf(Future(p), p \in synced, dirty'.network, entities', owner')
  BY <1>1, ChangesOwned DEF OwnedFor
<1>. QED  BY <1>1, <1>2 DEF OwnedFor, Targets, Listed

\* Connections and arrivals.
LEMMA ConnectionOwned ==
  ASSUME OwnedInv, NEW z \in Peer, Connect(z) \/ Disconnect(z), NEW p \in Peer
  PROVE  OwnedFor(p)'
<1>1. /\ BaseInv /\ OwnedFor(p) /\ owner[WorldEntity] = Server
      /\ inOrder \in [Peer -> Seq(Packet)] /\ replica \in [Peer -> Replicas]
      /\ UNCHANGED worldVars
  BY DEF OwnedInv, SettledInv, BaseInv, ServerTypeOK, StoreOK, NoLeftovers, Connect, Disconnect
<1>3. CASE p # z
  <2>1. /\ inOrder'[p] = inOrder[p] /\ replica'[p] = replica[p]
        /\ p \in synced' <=> p \in synced
        /\ p \in Targets' <=> p \in Targets
    BY <1>1, <1>3 DEF Connect, Disconnect, Targets, Listed
  <2>2. Future(p)' = Future(p)
    BY <2>1, SameFuture
  <2>. QED  BY <1>1, <2>1, <2>2 DEF OwnedFor, worldVars
<1>4. CASE p = z
  <2>1. Future(p)' = EmptyReplica
    <3>1. CASE Connect(z)
      <4>1. p \notin active /\ inOrder'[p] = inOrder[p] /\ replica'[p] = replica[p]
        BY <1>4, <3>1 DEF Connect
      <4>. QED  BY <1>1, <4>1, FutureType, SameFuture
    <3>2. CASE Disconnect(z)
      <4>1. inOrder'[p] = <<>> /\ replica'[p] = EmptyReplica
        BY <1>1, <1>4, <3>2 DEF Disconnect
      <4>. QED  BY <4>1, ReplayedNothing DEF Future
    <3>. QED  BY <3>1, <3>2
  <2>2. SameShape(EmptyReplica, Future(p)')
    BY <2>1, SameShapeFacts
  <2>3. OwnersOf(Future(p)', p \in synced', dirty'.network, entities, owner)
    BY <1>1, <2>2, EmptyOwned
  <2>. QED  BY <1>1, <2>2, <2>3 DEF OwnedFor, worldVars
<1>. QED  BY <1>3, <1>4

LEMMA QuietOwned ==
  ASSUME OwnedInv, NEW p \in Peer, SameShape(Future(p), Future(p)'),
         UNCHANGED <<worldVars, active, seen, synced>>
  PROVE  OwnedFor(p)'
<1>1. OwnedFor(p)
  BY DEF OwnedInv
<1>2. OwnersOf(Future(p)', p \in synced, dirty.network, entities, owner)
  BY <1>1, SameOwned DEF OwnedFor
<1>3. p \notin Targets => SameShape(EmptyReplica, Future(p)')
  BY <1>1, SameShapeFacts DEF OwnedFor
<1>. QED  BY <1>2, <1>3 DEF OwnedFor, worldVars, Targets, Listed

\* A full snapshot lists the owners that are not the server; a change to the
\* server is still marked.
LEMMA SnapshotOwned ==
  ASSUME Orderly, OwnedInv, NEW z \in Peer, HandleHello(z) \/ ResendFullSnapshot(z),
         NEW p \in Peer
  PROVE  OwnedFor(p)'
<1> DEFINE ops == FullOps(z, entities', storage', replicated', owner')
           x   == Encode(ops, storage', owner')
           d   == DirtyWithPeerEntity(z)
           F   == Future(p)
<1>1. /\ BaseInv /\ StoreOK /\ WorldReplicated /\ LocalComponent = {}
      /\ MarksOK(dirty, storage, replicated)
      /\ SendFullSnapshot(z) /\ EnsurePeerEntity(z) /\ NothingUnsentToOthers(z)
      /\ z \in Targets' /\ seen \subseteq seen'
      /\ synced \subseteq active /\ OwnedFor(p) /\ KnownBy(p)
      /\ inOrder \in [Peer -> Seq(Packet)] /\ replica \in [Peer -> Replicas]
      /\ knownEntities \in [Peer -> SUBSET Entity]
      /\ knownComponents \in [Peer -> SUBSET ComponentKey]
  BY DEF OwnedInv, SettledInv, KnowledgeInv, BaseInv, ServerTypeOK, Orderly, HandleHello,
         ResendFullSnapshot, SendFullSnapshot, Targets, Listed
<1>2. /\ ops \in DirtyOps /\ Encodable(ops, storage') /\ x \in Packet /\ StoreOK'
      /\ ops.created = {e \in entities' : IsVisible(z, e, owner')}
      /\ ops.network = {e \in replicated' \cap ops.created : owner'[e] # Server}
      /\ ops.updated = {}
      /\ ops.destroyed = knownEntities[z] \ ops.created
      /\ ops.removed = {k \in knownComponents[z] \ ops.added : k[1] \notin ops.destroyed}
      /\ WorldEntity \in ops.created
      /\ \A k \in ops.added : k[1] \in ops.created
      /\ dirty' = ClearWritten(d, ops)
      /\ inOrder' = Sent(inOrder, z, x)
      /\ synced' = synced \cup (active \cap {z})
      /\ UNCHANGED <<active, replica>>
  BY <1>1, SendFullSnapshotFacts
<1>3. Changes(d)
  BY <1>1, EnsureChanges
<1>4. /\ F \in Replicas /\ F.entities \subseteq knownEntities[p] \cup {WorldEntity}
      /\ \A e \in F.entities : e < nextId
  BY FutureIsOld DEF OwnedInv
<1>5. dirty'.network = d.network \ ops.network
  BY <1>2 DEF ClearWritten
<1>6. /\ storage' \in Stores /\ owner' \in [Entity -> Peer \cup {Server}]
      /\ owner'[WorldEntity] = Server /\ entities' \subseteq Entity
  BY <1>2 DEF StoreOK, NoLeftovers
<1>7. WorldReplicated'
  BY <1>1, <1>3, ChangesKeepReplicated
<1> HIDE DEF ops, d, x
<1>8. OwnersOf(F, p \in synced, d.network, entities', owner')
  BY <1>1, <1>3, <1>4, ChangesOwned DEF OwnedFor
<1>9. p \notin Targets' => p \notin Targets
  BY <1>1, <1>2 DEF Targets, Listed
<1> HIDE DEF F
<1>10. CASE p # z
  <2>1. Future(p)' = F /\ (p \in synced' <=> p \in synced)
    BY <1>1, <1>2, <1>10, SameFuture DEF Sent, F
  <2>2. \A e \in F.entities \cap entities' :
          F.owner[e] = owner'[e] \/ (p \notin synced /\ F.owner[e] = Server)
    <3> SUFFICES ASSUME NEW e \in F.entities \cap entities'
                 PROVE  F.owner[e] = owner'[e] \/ (p \notin synced /\ F.owner[e] = Server)
      OBVIOUS
    <3>1. e \notin dirty.network
      BY <1>1, <1>4, <1>10 DEF NothingUnsentToOthers, MarksOK
    <3>2. e # nextId /\ e < nextId /\ e \in Nat /\ e \in Entity
      BY <1>1, <1>4, WorldAssumption DEF Replicas, StoreOK
    <3>3. e \in entities /\ owner'[e] = owner[e]
      BY <1>1, <3>2 DEF EnsurePeerEntity, StoreOK
    <3>. QED  BY <1>1, <3>1, <3>3 DEF OwnedFor, OwnersOf, F
  <2>3. OwnersOf(F, p \in synced, dirty'.network, entities', owner')
    BY <1>8, <2>2 DEF OwnersOf
  <2>. QED  BY <1>1, <1>9, <2>1, <2>3 DEF OwnedFor, F
<1>11. CASE p = z /\ z \notin active
  <2>1. Future(p)' = F /\ F = EmptyReplica
    BY <1>1, <1>2, <1>11, SameFuture, FutureType DEF Sent, F
  <2>2. OwnersOf(EmptyReplica, p \in synced', dirty'.network, entities', owner')
    BY <1>6, SameShapeFacts, EmptyOwned
  <2>. QED  BY <2>1, <2>2, SameShapeFacts DEF OwnedFor
<1>12. CASE p = z /\ z \in active
  <2> DEFINE q == Apply(F, x)
  <2>1. Future(p)' = q
    <3>1. inOrder'[p] = Append(inOrder[p], x)
      BY <1>1, <1>2, <1>12 DEF Sent
    <3>. QED  BY <1>1, <1>2, <3>1, ReplayedAppend DEF Future, F
  <2>2. /\ Exact(q, ops.created, ops.added)
        /\ \A e \in Entity :
             q.owner[e] = IF e \in ops.destroyed THEN Server
                          ELSE IF e \in ops.network THEN owner'[e]
                          ELSE F.owner[e]
    <3>1. Bounded(F, knownEntities[z], knownComponents[z])
      BY <1>1, <1>12 DEF KnownBy, F
    <3>2. Exact(q, ops.created, ops.added)
      BY <1>1, <1>2, <1>4, <1>6, <3>1, FullApplied DEF x
    <3>3. \A e \in Entity :
             q.owner[e] = IF e \in ops.destroyed THEN Server
                          ELSE IF e \in ops.network THEN owner'[e]
                          ELSE F.owner[e]
      <4>1. LocalComponent = {} /\ F \in Replicas /\ ops \in DirtyOps /\ ops.updated = {} /\ storage' \in Stores
            /\ owner' \in [Entity -> Peer \cup {Server}] /\ Encodable(ops, storage')
        BY <1>1, <1>2, <1>4, <1>6
      <4>2. \A e \in Entity :
              Apply(F, Encode(ops, storage', owner')).owner[e] =
                IF e \in ops.destroyed THEN Server
                ELSE IF e \in ops.network THEN owner'[e]
                ELSE F.owner[e]
        BY ONLY <4>1, StructureApplied
      <4>. QED  BY <4>2 DEF x, q
    <3>. QED  BY <3>2, <3>3
  <2> HIDE DEF q
  <2>3. q.entities = ops.created
    BY <1>2, <2>2 DEF Exact
  <2>4. ASSUME NEW e \in Entity \ q.entities PROVE q.owner[e] = Server
    <3>1. e \notin ops.created /\ e \notin ops.network
      BY <1>2, <2>3
    <3>2. CASE e \in ops.destroyed
      BY <2>2, <3>2
    <3>3. CASE e \notin ops.destroyed
      <4>1. e \notin F.entities
        BY <1>2, <1>4, <1>12, <3>1, <3>3
      <4>. QED  BY <1>8, <2>2, <3>1, <3>3, <4>1 DEF OwnersOf
    <3>. QED  BY <3>2, <3>3
  <2>5. ASSUME NEW e \in q.entities \cap entities'
        PROVE  e \in dirty'.network \/ q.owner[e] = owner'[e]
    <3>1. e \in ops.created /\ e \notin ops.destroyed /\ e \in Entity
      BY <1>2, <1>6, <2>3
    <3>2. CASE owner'[e] # Server
      <4>1. e \in ops.network
        BY <1>2, <1>6, <1>7, <3>1, <3>2 DEF WorldReplicated
      <4>. QED  BY <2>2, <3>1, <4>1
    <3>3. CASE owner'[e] = Server
      <4>1. e \notin ops.network /\ q.owner[e] = F.owner[e]
        BY <1>2, <2>2, <3>1, <3>3
      <4>2. e \in F.entities => e \in d.network \/ F.owner[e] = owner'[e]
        BY <1>8, <3>3 DEF OwnersOf
      <4>3. e \notin F.entities => F.owner[e] = Server
        BY <1>8, <3>1 DEF OwnersOf
      <4>. QED  BY <1>5, <3>3, <4>1, <4>2, <4>3
    <3>. QED  BY <3>2, <3>3
  <2>6. OwnersOf(q, p \in synced', dirty'.network, entities', owner')
    BY <2>4, <2>5 DEF OwnersOf
  <2>. QED  BY <1>1, <1>12, <2>1, <2>6 DEF OwnedFor
<1>. QED  BY <1>10, <1>11, <1>12

\* A structural packet brings the owners that are behind.
LEMMA StructuralOwned ==
  ASSUME LocalComponent = {}, BaseInv, WorldReplicated, NEW p \in Peer, NEW F \in Replicas,
         NEW s, s => Exact(F, knownEntities[p], knownComponents[p]),
         Bounded(F, knownEntities[p], knownComponents[p]),
         OwnersOf(F, s, dirty.network, entities, owner)
  PROVE  OwnersOf(Apply(F, Encode(StructuralOps(p), StoreShowingGone, owner)),
                  s, {}, entities, owner)
<1> DEFINE ops == StructuralOps(p)
           E   == knownEntities[p]
           q   == Apply(F, Encode(ops, StoreShowingGone, owner))
<1>1. /\ StoreOK /\ MarksOK(dirty, storage, replicated)
      /\ E \in SUBSET Entity /\ knownComponents[p] \in SUBSET ComponentKey
      /\ owner \in [Entity -> Peer \cup {Server}] /\ entities \subseteq Entity
      /\ WorldEntity \in entities /\ owner[WorldEntity] = Server
  BY DEF BaseInv, ServerTypeOK, StoreOK, NoLeftovers
<1>2. /\ ops \in DirtyOps /\ Encodable(ops, StoreShowingGone) /\ ops.updated = {}
      /\ ops.created = Entering(p) /\ ops.network = OwnerNews(p) /\ ops.destroyed = Leaving(p)
      /\ \A k \in ops.added : k[1] \in E \/ k[1] \in ops.created
      /\ WorldEntity \notin ops.destroyed
  BY <1>1, StructuralOpsFacts
<1>3. StoreShowingGone \in Stores
  BY <1>1, StatusStore, ReplicationAssumption DEF StoreShowingGone
<1> HIDE DEF ops
<1>4. /\ q.entities = (F.entities \cup ops.created \cup {k[1] : k \in ops.added}
                                  \cup ops.network) \ ops.destroyed
      /\ \A e \in Entity : q.owner[e] = IF e \in ops.destroyed THEN Server
                                        ELSE IF e \in ops.network THEN owner[e]
                                        ELSE F.owner[e]
  <2>1. /\ LocalComponent = {} /\ F \in Replicas /\ ops \in DirtyOps /\ ops.updated = {}
        /\ StoreShowingGone \in Stores /\ owner \in [Entity -> Peer \cup {Server}]
        /\ Encodable(ops, StoreShowingGone)
    BY <1>1, <1>2, <1>3
  <2>. QED  BY ONLY <2>1, StructureApplied
<1> HIDE DEF q
<1>5. ASSUME NEW e \in Entity \ q.entities PROVE q.owner[e] = Server
  <2>1. CASE e \in ops.destroyed
    BY <1>4, <2>1
  <2>2. CASE e \notin ops.destroyed
    <3>1. e \notin F.entities /\ e \notin ops.network
      BY <1>4, <2>2
    <3>. QED  BY <1>4, <2>2, <3>1 DEF OwnersOf
  <2>. QED  BY <2>1, <2>2
<1>6. ASSUME NEW e \in q.entities \cap entities
      PROVE  q.owner[e] = owner[e] \/ (~s /\ q.owner[e] = Server)
  <2>1. e \in Entity /\ e \notin ops.destroyed
    BY <1>1, <1>4
  <2>2. CASE e \in ops.network
    BY <1>4, <2>1, <2>2
  <2>3. CASE e \notin ops.network
    <3>1. q.owner[e] = F.owner[e] /\ e \notin Leaving(p) /\ e \notin OwnerNews(p)
      BY <1>2, <1>4, <2>1, <2>3
    <3>2. CASE e \in F.entities
      <4>1. e \notin dirty.network
        <5> SUFFICES ASSUME e \in dirty.network PROVE FALSE
          OBVIOUS
        <5>1. e \in E
          BY <1>1, <3>2 DEF Bounded, MarksOK
        <5>2. Visible(p, e)
          BY <3>1, <5>1 DEF Leaving, Sees
        <5>. QED  BY <3>1, <5>1, <5>2 DEF OwnerNews
      <4>. QED  BY <3>1, <3>2, <4>1 DEF OwnersOf
    <3>3. CASE e \notin F.entities
      <4>1. q.owner[e] = Server
        BY <2>1, <3>1, <3>3 DEF OwnersOf
      <4>2. CASE e \in ops.created
        <5>1. owner[e] = Server
          BY <1>2, <3>1, <4>2 DEF OwnerNews
        <5>. QED  BY <4>1, <5>1
      <4>3. CASE e \notin ops.created
        <5>1. e \in {k[1] : k \in ops.added}
          BY <1>4, <2>3, <3>3, <4>3
        <5>2. e \in E
          BY <1>2, <4>3, <5>1
        <5>3. ~s
          BY <3>3, <5>2 DEF Exact
        <5>. QED  BY <4>1, <5>3
      <4>. QED  BY <4>2, <4>3
    <3>. QED  BY <3>2, <3>3
  <2>. QED  BY <2>2, <2>3
<1>. QED  BY <1>5, <1>6 DEF OwnersOf, q, ops

LEMMA UpdateOwned ==
  ASSUME Orderly, OwnedInv, Update, NEW p \in Peer PROVE OwnedFor(p)'
<1>1. /\ BaseInv /\ WorldReplicated /\ SettledInv /\ OwnedFor(p) /\ KnownBy(p)
      /\ LocalComponent = {} /\ owner[WorldEntity] = Server
      /\ UNCHANGED <<entities, owner, active, seen, synced>>
  BY DEF OwnedInv, SettledInv, KnowledgeInv, BaseInv, StoreOK, NoLeftovers, Orderly, Update
<1>2. Targets' = Targets /\ synced \subseteq active
  BY <1>1 DEF Targets, Listed, BaseInv, ServerTypeOK
<1> DEFINE F == Future(p)
<1>3. CASE CanShareUpdate
  <2>1. SameShape(F, F')
    BY <1>1, <1>3, SharedFuture
  <2>2. dirty.network = {}
    BY <1>3 DEF CanShareUpdate, NothingDirty
  <2>3. OwnersOf(F', p \in synced, dirty.network, entities, owner)
    BY <1>1, <2>1, SameOwned DEF OwnedFor
  <2>4. OwnersOf(F', p \in synced, dirty'.network, entities, owner)
    BY <2>2, <2>3 DEF OwnersOf
  <2>5. p \notin Targets => SameShape(EmptyReplica, F')
    BY <1>1, <2>1, SameShapeFacts DEF OwnedFor
  <2>. QED  BY <1>1, <1>2, <2>4, <2>5 DEF OwnedFor
<1>4. CASE ~CanShareUpdate
  <2> DEFINE q == IF HasOps(StructuralOps(p))
                  THEN Apply(F, Encode(StructuralOps(p), StoreShowingGone, owner))
                  ELSE F
  <2>1. /\ ~(Reached(p) /\ p \in active) => F' = F
        /\ Reached(p) /\ p \in active => SameShape(q, F')
    BY <1>1, <1>4, EachFuture
  <2>2. Reached(p) <=> p \in Targets
    BY <1>1, AllEncode
  <2>3. F \in Replicas /\ (p \notin active => F = EmptyReplica)
    BY <1>1, FutureType
  <2>4. OwnersOf(q, p \in synced, {}, entities, owner)
    <3>1. /\ p \in synced => Exact(F, knownEntities[p], knownComponents[p])
          /\ Bounded(F, knownEntities[p], knownComponents[p])
          /\ OwnersOf(F, p \in synced, dirty.network, entities, owner)
      BY <1>1 DEF KnownBy, OwnedFor
    <3> HIDE DEF F
    <3>2. CASE HasOps(StructuralOps(p))
      BY <1>1, <2>3, <3>1, <3>2, StructuralOwned
    <3>3. CASE ~HasOps(StructuralOps(p))
      <4>1. OwnerNews(p) = {} /\ Leaving(p) = {}
        BY <3>3 DEF HasOps, StructuralOps, NothingDirty
      <4>2. dirty.network \cap F.entities = {}
        BY <1>1, <3>1, <4>1 DEF Bounded, OwnerNews, Leaving, Sees, BaseInv, MarksOK
      <4>. QED  BY <3>1, <3>3, <4>2 DEF OwnersOf
    <3>. QED  BY <3>2, <3>3
  <2> HIDE DEF q
  <2>5. CASE Reached(p) /\ p \in active
    <3>1. OwnersOf(F', p \in synced, {}, entities, owner)
      BY <2>1, <2>4, <2>5, SameOwned
    <3>2. OwnersOf(F', p \in synced, dirty'.network, entities, owner)
      BY <3>1 DEF OwnersOf
    <3>. QED  BY <1>1, <1>2, <2>2, <2>5, <3>2 DEF OwnedFor
  <2>6. CASE ~(Reached(p) /\ p \in active)
    <3>1. F' = F /\ SameShape(EmptyReplica, F)
      BY <1>1, <2>1, <2>2, <2>3, <2>6, SameShapeFacts DEF OwnedFor
    <3>2. OwnersOf(F, p \in synced, dirty'.network, entities, owner)
      BY <1>1, <3>1, EmptyOwned
    <3>. QED  BY <1>1, <3>1, <3>2 DEF OwnedFor
  <2>. QED  BY <2>5, <2>6
<1>. QED  BY <1>3, <1>4

LEMMA OwnedStep ==
  ASSUME Orderly, OwnedInv, [Next]_vars PROVE OwnedInv'
<1>1. /\ SettledInv /\ KnowledgeInv /\ SettledInv' /\ KnowledgeInv' /\ BaseInv
  BY SettledStep, KnowledgeStep DEF OwnedInv, Orderly, SettledInv
<1>2. ASSUME NEW p \in Peer PROVE OwnedFor(p)'
  <2>1. CASE UNCHANGED vars
    <3>1. UNCHANGED <<worldVars, active, seen, synced, inOrder, replica>>
      BY <2>1 DEF vars, serverVars, netVars
    <3>. QED  BY <3>1, SameFuture, QuietOwned
  <2>2. ASSUME NEW z \in Peer, Deliver(z) \/ DeliverLoose(z) \/ LoseLoose(z)
        PROVE  OwnedFor(p)'
    <3>1. UNCHANGED <<worldVars, active, seen, synced>>
      BY <2>2 DEF Deliver, DeliverLoose, LoseLoose, serverVars
    <3>. QED  BY <1>1, <2>2, <3>1, DeliveryFuture, QuietOwned
  <2>3. CASE EditWorld
    <3>1. /\ UNCHANGED <<synced, active, seen, inOrder, replica>>
          /\ Edit \/ UNCHANGED worldVars
      BY <2>3 DEF EditWorld, serverVars, netVars, SetVisible
    <3>2. Changes(dirty')
      <4>1. CASE Edit
        BY <1>1, <4>1, EditChanges DEF Orderly, SettledInv
      <4>2. CASE UNCHANGED worldVars
        BY <4>2 DEF worldVars, Stays, Changes
      <4>. QED  BY <3>1, <4>1, <4>2
    <3>. QED  BY <3>1, <3>2, WorldOwned
  <2>4. ASSUME NEW z \in Peer, HandlePacket(z) PROVE OwnedFor(p)'
    <3>1. /\ UNCHANGED <<synced, active, inOrder, replica>> /\ seen \subseteq seen'
          /\ EnsurePeerEntity(z) /\ dirty' = DirtyWithPeerEntity(z)
      BY <2>4 DEF HandlePacket, netVars
    <3>2. Changes(dirty')
      BY <1>1, <3>1, EnsureChanges DEF Orderly
    <3>. QED  BY <3>1, <3>2, WorldOwned
  <2>. QED  BY <2>1, <2>2, <2>3, <2>4, ConnectionOwned, SnapshotOwned, UpdateOwned DEF Next
<1>. QED  BY <1>1, <1>2 DEF OwnedInv

\* Peers know who owns what they have, or a mark says that they do not yet:
\* whatever was owned, cleared, hidden, shown, created and destroyed between
\* any full snapshots and updates.
THEOREM OwnersAreKnown == Orderly => (Spec => []OwnersAgree)
<1> SUFFICES ASSUME Orderly PROVE Spec => []OwnersAgree
  OBVIOUS
<1>1. ASSUME OwnedInv, NEW p \in synced, NEW e \in knownEntities[p] \cap replicated
      PROVE  e \in dirty.network \/ Future(p).owner[e] = owner[e]
  <2>1. /\ p \in Peer /\ KnownBy(p) /\ OwnedFor(p) /\ StoreOK /\ replicated \subseteq Entity
    BY <1>1 DEF OwnedInv, KnowledgeInv, BaseInv, ServerTypeOK, StoreOK
  <2>2. e \in Future(p).entities
    BY <2>1 DEF KnownBy, Exact
  <2>3. e \in entities
    BY <2>1 DEF StoreOK, ReplicatedIffComponent, NoLeftovers, HasRecord, NoRecords,
                ReplicatedComponent
  <2>. QED  BY <2>1, <2>2, <2>3 DEF OwnedFor, OwnersOf
<1>2. OwnedInv => OwnersAgree
  BY <1>1 DEF OwnersAgree
<1>3. Init => OwnedInv
  BY InitOwned
<1>4. OwnedInv /\ [Next]_vars => OwnedInv'
  BY OwnedStep
<1>. QED  BY <1>2, <1>3, <1>4, PTL DEF Spec

-----------------------------------------------------------------------------
\* Values, on a transport that keeps all packets in order.

\* The values of replica F, against those of a store.
ValuesOf(F, updated, store) ==
  \A e \in Entity, c \in Component, f \in Field :
    F.storage[e][c] # Absent /\ store[e][c] # Absent =>
      <<e, c, f>> \in updated \/ F.storage[e][c][f] = store[e][c][f]

\* The world entity is known to all before it is created: while its creation
\* is marked, so is every record of it.
WorldIsNew(d, store) ==
  WorldEntity \in d.created =>
    \A c \in Component : store[WorldEntity][c] # Absent => <<WorldEntity, c>> \in d.added

ValuedInv ==
  /\ SettledInv
  /\ KnowledgeInv
  /\ WorldIsNew(dirty, storage)
  /\ \A p \in Peer : loose[p] = {}
  /\ \A p \in synced : ValuesOf(Future(p), dirty.updated, storage)

\* Without a local component, an entity has records only if it is replicated.
LEMMA RecordsAreReplicated ==
  ASSUME StoreOK, LocalComponent = {}, NEW e \in Entity, NEW c \in Component,
         storage[e][c] # Absent
  PROVE  e \in replicated
  BY DEF StoreOK, ReplicatedIffComponent, ReplicatedComponent, HasRecord

LEMMA ChangesKeepWorldNew ==
  ASSUME StoreOK, LocalComponent = {}, WorldIsNew(dirty, storage), NEW d, Changes(d)
  PROVE  WorldIsNew(d, storage')
<1> SUFFICES ASSUME WorldEntity \in d.created, NEW c \in Component,
                    storage'[WorldEntity][c] # Absent
             PROVE  <<WorldEntity, c>> \in d.added
  BY DEF WorldIsNew
<1>1. WorldEntity \in Entity
  BY WorldAssumption
<1>2. ASSUME NEW e \in Entity, NEW C, Grows(e, C, d) PROVE <<WorldEntity, c>> \in d.added
  <2>1. CASE WorldEntity = e /\ c \in C
    BY <1>2, <2>1 DEF Grows, KeysOf
  <2>2. CASE ~(WorldEntity = e /\ c \in C)
    <3>1. storage[WorldEntity][c] # Absent
      BY <1>1, <1>2, <2>2 DEF Grows
    <3>2. WorldEntity \in replicated
      BY <1>1, <3>1, RecordsAreReplicated
    <3>3. WorldEntity \in dirty.created
      BY <1>2, <3>2 DEF Grows
    <3>. QED  BY <1>2, <3>1, <3>3 DEF Grows, WorldIsNew
  <2>. QED  BY <2>1, <2>2
<1>3. ASSUME NEW e \in Entity, NEW C, Shrinks(e, C, d) PROVE <<WorldEntity, c>> \in d.added
  <2>1. ~(WorldEntity = e /\ c \in C) /\ storage[WorldEntity][c] # Absent
    BY <1>1, <1>3 DEF Shrinks
  <2>. QED  BY <1>3, <2>1 DEF Shrinks, WorldIsNew, KeysOf
<1>4. ASSUME NEW e \in Entity, Vanishes(e, d) PROVE <<WorldEntity, c>> \in d.added
  <2>1. WorldEntity # e /\ storage'[WorldEntity] = storage[WorldEntity]
    BY <1>1, <1>4 DEF Vanishes, StoreOK, Stores
  <2>. QED  BY <1>4, <2>1 DEF Vanishes, WorldIsNew, OfEntity
<1>5. CASE Stays(d)
  BY <1>1, <1>5 DEF Stays, WorldIsNew
<1>. QED  BY <1>2, <1>3, <1>4, <1>5 DEF Changes

\* A value that changes in a record some synced peer has is marked.
LEMMA ChangeIsMarked ==
  ASSUME SettledInv, WorldIsNew(dirty, storage), NEW p \in synced, NEW d, Stays(d),
         NEW e \in Entity, NEW c \in Component, NEW f \in Field,
         <<e, c>> \in knownComponents[p], storage[e][c] # Absent,
         storage'[e][c][f] # storage[e][c][f]
  PROVE  <<e, c, f>> \in d.updated
<1>1. /\ Marked(d, e, c, f) /\ d.created = dirty.created /\ d.added = dirty.added
      /\ d.destroyed = dirty.destroyed
  BY DEF Stays
<1>2. Settled(knownEntities[p], knownComponents[p], dirty, entities, storage, nextId)
  BY DEF SettledInv, SettledFor
<1>3. <<e, c>> \notin dirty.added /\ e \in knownEntities[p]
  BY <1>2 DEF Settled
<1>4. e \notin dirty.created
  BY <1>2, <1>3 DEF Settled, WorldIsNew
<1>5. e \in entities
  BY DEF SettledInv, BaseInv, StoreOK, NoLeftovers, NoRecords
<1>6. e \notin dirty.destroyed
  BY <1>5 DEF SettledInv, WorldReplicated, BaseInv, MarksOK
<1>. QED  BY <1>1, <1>3, <1>4, <1>6 DEF Marked

\* Field by field.
LEMMA ChangesValued ==
  ASSUME LocalComponent = {}, SettledInv, WorldIsNew(dirty, storage), NEW p \in synced,
         NEW F, F.entities = knownEntities[p] \cup {WorldEntity},
         RecordsIn(F.storage) = knownComponents[p],
         ValuesOf(F, dirty.updated, storage), NEW d, Changes(d)
  PROVE  ValuesOf(F, d.updated, storage')
<1> SUFFICES ASSUME NEW e \in Entity, NEW c \in Component, NEW f \in Field,
                    F.storage[e][c] # Absent, storage'[e][c] # Absent
             PROVE  <<e, c, f>> \in d.updated \/ F.storage[e][c][f] = storage'[e][c][f]
  BY DEF ValuesOf
<1>1. /\ BaseInv /\ StoreOK /\ WorldReplicated
      /\ Settled(knownEntities[p], knownComponents[p], dirty, entities, storage, nextId)
      /\ knownEntities[p] \in SUBSET Entity /\ p \in Peer
  BY DEF SettledInv, SettledFor, BaseInv, ServerTypeOK
<1>2. <<e, c>> \in knownComponents[p] /\ <<e, c>> \in ComponentKey
  BY DEF RecordsIn, ComponentKey
<1>3. e \in knownEntities[p] /\ e < nextId /\ <<e, c>> \notin dirty.added
  BY <1>1, <1>2 DEF Settled
<1>4. e # nextId
  BY <1>1, <1>3, WorldAssumption DEF StoreOK
<1>5. storage[e][c] # Absent =>
        <<e, c, f>> \in dirty.updated \/ F.storage[e][c][f] = storage[e][c][f]
  BY DEF ValuesOf
<1>6. ASSUME NEW a \in Entity, NEW C, Grows(a, C, d)
      PROVE  <<e, c, f>> \in d.updated \/ F.storage[e][c][f] = storage'[e][c][f]
  <2>1. ~(e = a /\ c \in C)
    <3> SUFFICES ASSUME e = a, c \in C PROVE FALSE
      OBVIOUS
    <3>1. a \in entities /\ storage[a][c] = Absent /\ <<a, c>> \notin dirty.removed
          /\ a \notin dirty.destroyed
      BY <1>4, <1>6 DEF Grows, KeysOf
    <3>2. <<e, c>> \notin RecordsIn(storage)
      BY <3>1 DEF RecordsIn
    <3>. QED  BY <1>1, <1>2, <3>1, <3>2 DEF Settled
  <2>2. storage'[e][c] = storage[e][c]
    BY <1>6, <2>1 DEF Grows
  <2>3. <<e, c, f>> \in dirty.updated => <<e, c, f>> \in d.updated
    <3>1. e \in replicated
      BY <1>1, <2>2, RecordsAreReplicated
    <3>. QED  BY <1>6, <3>1 DEF Grows
  <2>. QED  BY <1>5, <2>2, <2>3
<1>7. ASSUME NEW a \in Entity, NEW C, Shrinks(a, C, d)
      PROVE  <<e, c, f>> \in d.updated \/ F.storage[e][c][f] = storage'[e][c][f]
  <2>1. ~(e = a /\ c \in C) /\ storage'[e][c] = storage[e][c]
    BY <1>7 DEF Shrinks
  <2>2. <<e, c, f>> \in dirty.updated => <<e, c, f>> \in d.updated
    <3> DEFINE b == <<e, c, f>>
    <3>1. <<b[1], b[2]>> \notin KeysOf(a, C)
      BY <2>1 DEF KeysOf
    <3> HIDE DEF b
    <3>2. b \in dirty.updated => b \in d.updated
      BY <1>7, <3>1 DEF Shrinks
    <3>. QED  BY <3>2 DEF b
  <2>. QED  BY <1>5, <2>1, <2>2
<1>8. ASSUME NEW a \in Entity, Vanishes(a, d)
      PROVE  <<e, c, f>> \in d.updated \/ F.storage[e][c][f] = storage'[e][c][f]
  <2>1. e # a /\ storage'[e][c] = storage[e][c]
    BY <1>1, <1>8 DEF Vanishes, StoreOK, Stores, NoRecords
  <2>2. <<e, c, f>> \in dirty.updated => <<e, c, f>> \in d.updated
    BY <1>8, <2>1 DEF Vanishes, OfEntity
  <2>. QED  BY <1>5, <2>1, <2>2
<1>9. CASE Stays(d)
  <2>1. storage[e][c] # Absent /\ dirty.updated \subseteq d.updated
    BY <1>9 DEF Stays
  <2>2. storage'[e][c][f] # storage[e][c][f] => <<e, c, f>> \in d.updated
    BY <1>2, <1>9, <2>1, ChangeIsMarked
  <2>. QED  BY <1>5, <2>1, <2>2
<1>. QED  BY <1>6, <1>7, <1>8, <1>9 DEF Changes

-----------------------------------------------------------------------------
\* What packets do to values.

\* Added records have the values of the store, all others keep theirs.
LEMMA AddedFields ==
  ASSUME LocalComponent = {},
         NEW r \in Replicas, NEW ops \in DirtyOps, ops.updated = {}, NEW store \in Stores,
         NEW owners \in [Entity -> Peer \cup {Server}], Encodable(ops, store),
         NEW e \in Entity, NEW c \in Component,
         Apply(r, Encode(ops, store, owners)).storage[e][c] # Absent
  PROVE  LET q == Apply(r, Encode(ops, store, owners))
         IN  \/ <<e, c>> \in ops.added /\ q.storage[e][c] = store[e][c]
             \/ /\ r.storage[e][c] # Absent
                /\ \A f \in Field : q.storage[e][c][f] = r.storage[e][c][f]
<1> DEFINE q == Apply(r, Encode(ops, store, owners))
<1>1. q = After(r, ops, store, owners)
  BY StructureApplied
<1>2. q.storage[e][c] = RecordAfter(r, ops, store, e, c)
  BY <1>1 DEF After
<1>3. RecordAfter(r, ops, store, e, c) # Absent
  BY <1>2
<1> HIDE DEF q
<1>4. CASE <<e, c>> \in ops.added
  <2>1. RecordAfter(r, ops, store, e, c) = store[e][c]
    BY <1>3, <1>4 DEF RecordAfter
  <2>. QED  BY <1>2, <1>4, <2>1 DEF q
<1>5. CASE <<e, c>> \notin ops.added
  <2>1. /\ r.storage[e][c] # Absent
        /\ RecordAfter(r, ops, store, e, c) = [f \in Field |-> r.storage[e][c][f]]
    BY <1>3, <1>5 DEF RecordAfter
  <2>. QED  BY <1>2, <2>1 DEF q
<1>. QED  BY <1>4, <1>5

\* A packet of field updates, when every record is there.
LEMMA UpdatedFields ==
  ASSUME LocalComponent = {},
         NEW r \in Replicas, NEW ops \in DirtyOps, ops.added = {}, ops.removed = {},
         NEW store \in Stores, NEW owners \in [Entity -> Peer \cup {Server}],
         Encodable(ops, store),
         \A b \in ops.updated : <<b[1], b[2]>> \in RecordsIn(r.storage),
         NEW e \in Entity, NEW c \in Component,
         Apply(r, Encode(ops, store, owners)).storage[e][c] # Absent
  PROVE  LET q == Apply(r, Encode(ops, store, owners))
         IN  /\ r.storage[e][c] # Absent
             /\ \A f \in Field : q.storage[e][c][f] = IF <<e, c, f>> \in ops.updated
                                                      THEN store[e][c][f]
                                                      ELSE r.storage[e][c][f]
<1> DEFINE q == Apply(r, Encode(ops, store, owners))
<1>1. Applicable(r, ops)
  BY DEF Applicable, ReplicatedComponent, DirtyOps, DirtyBit, RecordsIn, ComponentKey
<1>2. q = After(r, ops, store, owners)
  BY <1>1, ApplyEncoded
<1>3. q.storage[e][c] = RecordAfter(r, ops, store, e, c)
  BY <1>2 DEF After
<1>4. RecordAfter(r, ops, store, e, c) # Absent
  BY <1>3
<1> HIDE DEF q
<1>5. /\ r.storage[e][c] # Absent
      /\ RecordAfter(r, ops, store, e, c)
           = [f \in Field |-> IF <<e, c, f>> \in ops.updated THEN store[e][c][f]
                              ELSE r.storage[e][c][f]]
  BY <1>4 DEF RecordAfter
<1>. QED  BY <1>3, <1>5 DEF q

\* What an update leaves: values it sent, and values of before whose fields
\* were not marked.
LEMMA UpdateLeavesValued ==
  ASSUME SettledInv, WorldIsNew(dirty, storage), NEW p \in synced,
         NEW F, RecordsIn(F.storage) = knownComponents[p],
         ValuesOf(F, dirty.updated, storage), NEW d, Stays(d), NEW G,
         \A e \in Entity, c \in Component, f \in Field :
           G.storage[e][c] # Absent =>
             \/ G.storage[e][c][f] = storage'[e][c][f]
             \/ /\ <<e, c, f>> \notin dirty.updated
                /\ F.storage[e][c] # Absent /\ G.storage[e][c][f] = F.storage[e][c][f]
  PROVE  ValuesOf(G, d.updated \ dirty.updated, storage')
<1> SUFFICES ASSUME NEW e \in Entity, NEW c \in Component, NEW f \in Field,
                    G.storage[e][c] # Absent, storage'[e][c] # Absent,
                    G.storage[e][c][f] # storage'[e][c][f]
             PROVE  <<e, c, f>> \in d.updated \ dirty.updated
  BY DEF ValuesOf
<1>1. /\ <<e, c, f>> \notin dirty.updated
      /\ F.storage[e][c] # Absent /\ G.storage[e][c][f] = F.storage[e][c][f]
  OBVIOUS
<1>2. storage[e][c] # Absent
  BY DEF Stays
<1>3. F.storage[e][c][f] = storage[e][c][f]
  BY <1>1, <1>2 DEF ValuesOf
<1>4. <<e, c>> \in knownComponents[p]
  BY <1>1 DEF RecordsIn, ComponentKey
<1>5. <<e, c, f>> \in d.updated
  BY <1>1, <1>2, <1>3, <1>4, ChangeIsMarked
<1>. QED  BY <1>1, <1>5

-----------------------------------------------------------------------------
\* Every action keeps values right.

\* A replica without records has no value to be wrong.
LEMMA NothingValued ==
  ASSUME NEW F, RecordsIn(F.storage) = {}, NEW updated, NEW store
  PROVE  ValuesOf(F, updated, store)
<1>1. ASSUME NEW e \in Entity, NEW c \in Component, F.storage[e][c] # Absent PROVE FALSE
  <2>1. <<e, c>> \in RecordsIn(F.storage)
    BY <1>1 DEF RecordsIn, ComponentKey
  <2>. QED  BY <2>1
<1>. QED  BY <1>1 DEF ValuesOf

\* What is known of a synced peer, of its future and of the graph.
LEMMA ValuedFacts ==
  ASSUME ValuedInv, NEW p \in synced
  PROVE  /\ p \in Peer /\ p \in active /\ BaseInv /\ StoreOK /\ dirty \in DirtyOps
         /\ SettledFor(p) /\ Future(p) \in Replicas
         /\ Future(p).entities = knownEntities[p] \cup {WorldEntity}
         /\ RecordsIn(Future(p).storage) = knownComponents[p]
         /\ knownEntities[p] = {} => RecordsIn(Future(p).storage) = {}
         /\ ValuesOf(Future(p), dirty.updated, storage)
<1>1. p \in Peer /\ p \in active /\ BaseInv /\ SettledFor(p) /\ KnownBy(p)
  BY DEF ValuedInv, SettledInv, BaseInv, ServerTypeOK, KnowledgeInv
<1>2. Exact(Future(p), knownEntities[p], knownComponents[p])
  BY <1>1 DEF KnownBy
<1>3. \A k \in knownComponents[p] : k[1] \in knownEntities[p]
  BY <1>1 DEF SettledFor, Settled
<1>. QED  BY <1>1, <1>2, <1>3, FutureType DEF Exact, BaseInv, MarksOK, ValuedInv

LEMMA InitValued == ASSUME Orderly, Init PROVE ValuedInv
<1>1. SettledInv /\ KnowledgeInv
  BY InitSettled, InitKnowledge
<1>2. WorldIsNew(dirty, storage) /\ synced = {} /\ \A p \in Peer : loose[p] = {}
  BY DEF Init, WorldInit, WorldIsNew, NothingDirty
<1>. QED  BY <1>1, <1>2 DEF ValuedInv

\* A step of the world with what it marks.
LEMMA WorldValued ==
  ASSUME Orderly, ValuedInv, Changes(dirty'), UNCHANGED <<synced, inOrder, replica>>
  PROVE  /\ WorldIsNew(dirty, storage)'
         /\ \A p \in synced' : ValuesOf(Future(p), dirty.updated, storage)'
<1>1. /\ LocalComponent = {} /\ SettledInv /\ StoreOK /\ WorldIsNew(dirty, storage)
      /\ synced' = synced
  BY DEF Orderly, ValuedInv, SettledInv, BaseInv
<1>2. WorldIsNew(dirty', storage')
  BY <1>1, ChangesKeepWorldNew
<1>3. ASSUME NEW p \in synced PROVE ValuesOf(Future(p), dirty'.updated, storage')
  BY <1>1, ValuedFacts, ChangesValued
<1>4. \A p \in synced : Future(p)' = Future(p)
  BY ValuedFacts, SameFuture
<1>. QED  BY <1>1, <1>2, <1>3, <1>4 DEF WorldIsNew, ValuesOf

LEMMA ConnectionValued ==
  ASSUME ValuedInv, NEW z \in Peer, Connect(z) \/ Disconnect(z)
  PROVE  \A p \in synced' : ValuesOf(Future(p), dirty.updated, storage)'
<1>1. /\ BaseInv /\ UNCHANGED worldVars
      /\ inOrder \in [Peer -> Seq(Packet)] /\ replica \in [Peer -> Replicas]
  BY DEF ValuedInv, SettledInv, BaseInv, ServerTypeOK, Connect, Disconnect
<1> SUFFICES ASSUME NEW p \in synced' PROVE ValuesOf(Future(p)', dirty.updated, storage)
  BY <1>1 DEF worldVars, ValuesOf
<1>2. CASE p \in synced
  <2>1. p \in active /\ p \in Peer /\ ValuesOf(Future(p), dirty.updated, storage)
    BY <1>2, ValuedFacts
  <2>2. inOrder'[p] = inOrder[p] /\ replica'[p] = replica[p]
    BY <1>1, <2>1 DEF Connect, Disconnect
  <2>. QED  BY <2>1, <2>2, SameFuture
<1>3. CASE p \notin synced
  <2>1. /\ p = z /\ z \notin active /\ inOrder'[z] = inOrder[z] /\ replica'[z] = replica[z]
    BY <1>3 DEF Connect, Disconnect
  <2>2. Future(p)' = EmptyReplica
    BY <1>1, <2>1, SameFuture, FutureType
  <2>3. RecordsIn(EmptyReplica.storage) = {}
    BY DEF EmptyReplica, NoRecords, RecordsIn, ComponentKey
  <2>. QED  BY <2>2, <2>3, NothingValued
<1>. QED  BY <1>2, <1>3

\* A packet that arrives in order makes no difference to the future.
LEMMA DeliveryValued ==
  ASSUME ValuedInv, NEW z \in Peer, Deliver(z)
  PROVE  \A p \in synced' : ValuesOf(Future(p), dirty.updated, storage)'
<1>1. /\ inOrder \in [Peer -> Seq(Packet)] /\ replica \in [Peer -> Replicas]
      /\ UNCHANGED <<worldVars, synced>> /\ inOrder[z] # <<>>
      /\ replica' = [replica EXCEPT ![z] = Apply(@, Head(inOrder[z]))]
      /\ inOrder' = [inOrder EXCEPT ![z] = Tail(@)]
  BY DEF ValuedInv, SettledInv, BaseInv, ServerTypeOK, Deliver
<1>2. ASSUME NEW p \in synced PROVE Future(p)' = Future(p)
  <2>1. p \in Peer
    BY ValuedFacts
  <2>2. CASE p # z
    BY <1>1, <2>1, <2>2, SameFuture
  <2>3. CASE p = z
    <3>1. replica'[p] = Apply(replica[p], Head(inOrder[p])) /\ inOrder'[p] = Tail(inOrder[p])
      BY <1>1, <2>3
    <3>2. inOrder[p] \in Seq(Packet) /\ inOrder[p] # <<>>
      BY <1>1, <2>3
    <3>3. Replayed(replica'[p], inOrder'[p]) = Replayed(replica[p], inOrder[p])
      BY <3>1, <3>2, ReplayedTail
    <3>. QED  BY <3>3 DEF Future
  <2>. QED  BY <2>2, <2>3
<1>3. \A p \in synced : ValuesOf(Future(p), dirty.updated, storage)
  BY ValuedFacts
<1>. QED  BY <1>1, <1>2, <1>3 DEF worldVars, ValuesOf

\* A full snapshot brings current values and leaves those of other peers
\* marked.
LEMMA SnapshotValued ==
  ASSUME Orderly, ValuedInv, NEW z \in Peer, HandleHello(z) \/ ResendFullSnapshot(z)
  PROVE  /\ WorldIsNew(dirty, storage)'
         /\ \A p \in synced' : ValuesOf(Future(p), dirty.updated, storage)'
<1> DEFINE ops == FullOps(z, entities', storage', replicated', owner')
           x   == Encode(ops, storage', owner')
           d   == DirtyWithPeerEntity(z)
<1>1. /\ BaseInv /\ StoreOK /\ SettledInv /\ LocalComponent = {} /\ synced \subseteq active
      /\ SendFullSnapshot(z) /\ EnsurePeerEntity(z) /\ KnownBy(z)
      /\ inOrder \in [Peer -> Seq(Packet)] /\ replica \in [Peer -> Replicas]
      /\ WorldIsNew(dirty, storage)
  BY DEF ValuedInv, SettledInv, KnowledgeInv, BaseInv, ServerTypeOK, Orderly, HandleHello,
         ResendFullSnapshot, SendFullSnapshot
<1>2. /\ ops \in DirtyOps /\ Encodable(ops, storage') /\ x \in Packet /\ StoreOK'
      /\ ops.updated = {} /\ WorldEntity \in ops.created
      /\ ops.network = {e \in replicated' \cap ops.created : owner'[e] # Server}
      /\ ops.destroyed = knownEntities[z] \ ops.created
      /\ ops.removed = {k \in knownComponents[z] \ ops.added : k[1] \notin ops.destroyed}
      /\ \A k \in ops.added : k[1] \in ops.created
      /\ dirty' = ClearWritten(d, ops)
      /\ inOrder' = Sent(inOrder, z, x)
      /\ synced' = synced \cup (active \cap {z})
      /\ UNCHANGED <<active, replica>>
  BY <1>1, SendFullSnapshotFacts
<1>3. Changes(d)
  BY <1>1, EnsureChanges
<1>4. storage' \in Stores /\ owner' \in [Entity -> Peer \cup {Server}]
  BY <1>2 DEF StoreOK
<1> HIDE DEF ops, d, x
<1>5. dirty'.updated = d.updated \ {} /\ WorldEntity \notin dirty'.created
  BY <1>2 DEF ClearWritten
<1>6. ASSUME NEW p \in synced, p # z PROVE ValuesOf(Future(p)', dirty'.updated, storage')
  <2>1. ValuesOf(Future(p), d.updated, storage')
    BY <1>1, <1>3, ValuedFacts, ChangesValued
  <2>2. Future(p)' = Future(p)
    BY <1>1, <1>2, <1>6, ValuedFacts, SameFuture DEF Sent
  <2>. QED  BY <1>5, <2>1, <2>2
<1>7. ASSUME z \in active PROVE ValuesOf(Future(z)', dirty'.updated, storage')
  <2> DEFINE F == Future(z)
             q == Apply(F, x)
  <2>1. F \in Replicas /\ Bounded(F, knownEntities[z], knownComponents[z])
    BY <1>1, FutureType DEF KnownBy
  <2>2. Future(z)' = q
    <3>1. inOrder'[z] = Append(inOrder[z], x)
      BY <1>1, <1>2, <1>7 DEF Sent
    <3>. QED  BY <1>1, <1>2, <3>1, ReplayedAppend DEF Future
  <2> HIDE DEF F
  <2>3. Exact(q, ops.created, ops.added)
    BY <1>1, <1>2, <1>4, <2>1, FullApplied DEF x
  <2>4. ASSUME NEW e \in Entity, NEW c \in Component, NEW f \in Field, q.storage[e][c] # Absent
        PROVE  q.storage[e][c][f] = storage'[e][c][f]
    <3>1. <<e, c>> \in ops.added
      BY <2>3, <2>4 DEF Exact, RecordsIn, ComponentKey
    <3>2. q = After(F, ops, storage', owner')
      BY <1>1, <1>2, <1>4, <2>1, StructureApplied DEF x
    <3>3. q.storage[e][c] = RecordAfter(F, ops, storage', e, c)
      BY <3>2 DEF After
    <3>. QED  BY <2>4, <3>1, <3>3 DEF RecordAfter
  <2> HIDE DEF q
  <2>5. ValuesOf(q, dirty'.updated, storage')
    BY <2>4 DEF ValuesOf
  <2>. QED  BY <2>2, <2>5
<1>8. WorldIsNew(dirty', storage')
  BY <1>5 DEF WorldIsNew
<1>9. \A p \in synced' : ValuesOf(Future(p)', dirty'.updated, storage')
  BY <1>1, <1>2, <1>6, <1>7
<1>. QED  BY <1>8, <1>9 DEF WorldIsNew, ValuesOf

LEMMA SharedValued ==
  ASSUME Orderly, Ordered = TRUE, ValuedInv, Update, CanShareUpdate, NEW p \in synced
  PROVE  ValuesOf(Future(p)', dirty'.updated, storage')
<1> DEFINE ops == [NothingDirty EXCEPT !.updated = dirty.updated]
           d   == DirtyShowingGone
           F   == Future(p)
           q   == Apply(F, Encode(ops, StoreShowingGone, owner))
<1>1. /\ LocalComponent = {} /\ SettledInv /\ WorldIsNew(dirty, storage) /\ StoreOK
      /\ BaseInv /\ storage' = StoreShowingGone /\ UpdateShared
      /\ owner \in [Entity -> Peer \cup {Server}]
  BY DEF Orderly, ValuedInv, SettledInv, BaseInv, StoreOK, Update
<1>2. /\ p \in Peer /\ p \in active /\ dirty \in DirtyOps /\ F \in Replicas
      /\ F.entities = knownEntities[p] \cup {WorldEntity}
      /\ RecordsIn(F.storage) = knownComponents[p]
      /\ knownEntities[p] = {} => RecordsIn(F.storage) = {}
      /\ ValuesOf(F, dirty.updated, storage)
      /\ knownEntities[p] # {} => p \in Targets
  BY ValuedFacts DEF SettledFor
<1>3. Stays(d)
  BY <1>1, UpdateStays
<1>4. /\ ops \in DirtyOps /\ ops.added = {} /\ ops.removed = {} /\ ops.updated = dirty.updated
  BY <1>2 DEF NothingDirty, DirtyOps
<1>5. F' = IF Encodable(ops, StoreShowingGone) /\ p \in Targets \cap active THEN q ELSE F
  BY <1>1, <1>2, SharedFuture
<1>6. Encodable(ops, StoreShowingGone) => dirty' = ClearWritten(d, dirty)
  BY <1>1 DEF UpdateShared
<1>7. ~Encodable(ops, StoreShowingGone) => dirty' = d
  BY <1>1 DEF UpdateShared
<1>8. StoreShowingGone \in Stores
  BY <1>1, StatusStore, ReplicationAssumption DEF StoreShowingGone
<1>9. p \in Targets => \A b \in dirty.updated : <<b[1], b[2]>> \in RecordsIn(F.storage)
  BY <1>2 DEF CanShareUpdate
<1> HIDE DEF ops, d, F
<1>10. CASE ~Encodable(ops, StoreShowingGone)
  <2>1. ValuesOf(F, d.updated, storage')
    BY <1>1, <1>2, <1>3, ChangesValued DEF Changes
  <2>. QED  BY <1>5, <1>7, <1>10, <2>1 DEF F
<1>11. CASE Encodable(ops, StoreShowingGone) /\ p \notin Targets
  BY <1>2, <1>5, <1>11, NothingValued DEF F
<1>12. CASE Encodable(ops, StoreShowingGone) /\ p \in Targets
  <2>1. F' = q /\ dirty'.updated = d.updated \ dirty.updated
    BY <1>2, <1>5, <1>6, <1>12 DEF ClearWritten
  <2>2. ASSUME NEW e \in Entity, NEW c \in Component, NEW f \in Field, q.storage[e][c] # Absent
        PROVE  \/ q.storage[e][c][f] = storage'[e][c][f]
               \/ /\ <<e, c, f>> \notin dirty.updated
                  /\ F.storage[e][c] # Absent /\ q.storage[e][c][f] = F.storage[e][c][f]
    <3>1. /\ F.storage[e][c] # Absent
          /\ q.storage[e][c][f] = IF <<e, c, f>> \in ops.updated
                                  THEN StoreShowingGone[e][c][f]
                                  ELSE F.storage[e][c][f]
      BY <1>1, <1>2, <1>4, <1>8, <1>9, <1>12, <2>2, UpdatedFields
    <3>. QED  BY <1>1, <1>4, <3>1
  <2> HIDE DEF q
  <2>3. ValuesOf(q, d.updated \ dirty.updated, storage')
    BY <1>1, <1>2, <1>3, <2>2, UpdateLeavesValued
  <2>. QED  BY <2>1, <2>3 DEF F
<1>. QED  BY <1>10, <1>11, <1>12

LEMMA EachValued ==
  ASSUME Orderly, Ordered = TRUE, ValuedInv, Update, ~CanShareUpdate, NEW p \in synced
  PROVE  ValuesOf(Future(p)', dirty'.updated, storage')
<1> DEFINE ops == StructuralOps(p)
           bits == Deltas(p)
           d   == DirtyShowingGone
           F   == Future(p)
           q   == IF HasOps(ops) THEN Apply(F, Encode(ops, StoreShowingGone, owner)) ELSE F
           g   == Apply(q, Encode(bits, StoreShowingGone, owner))
<1>1. /\ LocalComponent = {} /\ SettledInv /\ WorldIsNew(dirty, storage) /\ StoreOK
      /\ BaseInv /\ WorldReplicated /\ storage' = StoreShowingGone /\ UpdateEach
      /\ owner \in [Entity -> Peer \cup {Server}]
      /\ MarksOK(dirty, storage, replicated)
  BY DEF Orderly, ValuedInv, SettledInv, BaseInv, StoreOK, Update
<1>2. /\ p \in Peer /\ p \in active /\ dirty \in DirtyOps /\ F \in Replicas
      /\ F.entities = knownEntities[p] \cup {WorldEntity}
      /\ RecordsIn(F.storage) = knownComponents[p]
      /\ knownEntities[p] = {} => RecordsIn(F.storage) = {}
      /\ ValuesOf(F, dirty.updated, storage)
      /\ Settled(knownEntities[p], knownComponents[p], dirty, entities, storage, nextId)
      /\ knownEntities[p] # {} => p \in Targets
  BY ValuedFacts DEF SettledFor
<1>3. Stays(d)
  BY <1>1, UpdateStays
<1>4. /\ \A z \in Targets : DeltaEncodes(z)
      /\ Reached(p) <=> p \in Targets
  BY <1>1, <1>2, AllEncode
<1>5. dirty'.updated = d.updated \ dirty.updated
  BY <1>1, <1>4 DEF UpdateEach, ClearWritten
<1>6. /\ ~Reached(p) => F' = F
      /\ Reached(p) => F' = IF DeltaEncodes(p) /\ HasOps(bits) THEN g ELSE q
  BY <1>1, <1>2, EachFuture
<1>7. StoreShowingGone \in Stores
  BY <1>1, StatusStore, ReplicationAssumption DEF StoreShowingGone
<1>8. /\ ops \in DirtyOps /\ Encodable(ops, StoreShowingGone) /\ ops.updated = {}
      /\ ComponentsNext(p) =
           ({k \in knownComponents[p] : k[1] \notin ops.destroyed} \ ops.removed) \cup ops.added
  <2>1. knownEntities[p] \in SUBSET Entity /\ knownComponents[p] \in SUBSET ComponentKey
    BY <1>1, <1>2 DEF BaseInv, ServerTypeOK
  <2>. QED  BY <1>1, <1>2, <2>1, StructuralOpsFacts DEF ComponentsNext, ComponentsAfter
<1>9. RecordsIn(q.storage) = ComponentsNext(p) /\ q \in Replicas
  <2>1. CASE HasOps(ops)
    BY <1>1, <1>2, <2>1, StructuralApplied DEF Exact
  <2>2. CASE ~HasOps(ops)
    <3>1. ops.added = {} /\ ops.removed = {} /\ ops.destroyed = {}
      BY <2>2 DEF HasOps, NothingDirty
    <3>. QED  BY <1>2, <1>8, <2>2, <3>1
  <2>. QED  BY <2>1, <2>2
<1>10. ComponentsNext(p) = {k \in Records : Visible(p, k[1])}
  BY <1>1, <1>2, NextIsVisible
<1>11. /\ bits \in DirtyOps /\ bits.added = {} /\ bits.removed = {}
       /\ bits.updated = {b \in dirty.updated : /\ Visible(p, b[1])
                                                /\ <<b[1], b[2]>> \in ComponentsNext(p)}
  BY <1>2, DeltasFacts DEF Deltas
<1>12. /\ \A b \in bits.updated : <<b[1], b[2]>> \in RecordsIn(q.storage)
  BY <1>9, <1>11
<1>13. ASSUME NEW e \in Entity, NEW c \in Component, NEW f \in Field, q.storage[e][c] # Absent
       PROVE  \/ q.storage[e][c][f] = storage'[e][c][f]
              \/ F.storage[e][c] # Absent /\ q.storage[e][c][f] = F.storage[e][c][f]
  <2>1. CASE HasOps(ops)
    <3> DEFINE y == Apply(F, Encode(ops, StoreShowingGone, owner))
    <3>1. q = y /\ y.storage[e][c] # Absent
      BY <1>13, <2>1
    <3>2. /\ LocalComponent = {} /\ F \in Replicas /\ ops \in DirtyOps /\ ops.updated = {}
          /\ StoreShowingGone \in Stores /\ owner \in [Entity -> Peer \cup {Server}]
          /\ Encodable(ops, StoreShowingGone)
      BY <1>1, <1>2, <1>7, <1>8
    <3>3. \/ <<e, c>> \in ops.added /\ y.storage[e][c] = StoreShowingGone[e][c]
          \/ F.storage[e][c] # Absent /\ \A a \in Field : y.storage[e][c][a] = F.storage[e][c][a]
      BY ONLY <3>1, <3>2, AddedFields
    <3> HIDE DEF y, q
    <3>. QED  BY <1>1, <3>1, <3>3
  <2>2. CASE ~HasOps(ops)
    BY <1>13, <2>2
  <2>. QED  BY <2>1, <2>2
<1>14. ASSUME NEW e \in Entity, NEW c \in Component, NEW f \in Field, q.storage[e][c] # Absent
       PROVE  <<e, c, f>> \in bits.updated <=> <<e, c, f>> \in dirty.updated
  <2>1. <<e, c>> \in ComponentsNext(p)
    BY <1>9, <1>14 DEF RecordsIn, ComponentKey
  <2>2. Visible(p, e)
    BY <1>10, <2>1
  <2>. QED  BY <1>11, <2>1, <2>2
<1>15. DeltaEncodes(p) => Encodable(bits, StoreShowingGone)
  BY DEF DeltaEncodes
<1>16. ~HasOps(bits) => bits.updated = {}
  BY DEF HasOps, NothingDirty
<1> HIDE DEF ops, bits, d, F, q
<1>17. CASE p \notin Targets
  BY <1>2, <1>4, <1>6, <1>17, NothingValued DEF F
<1>18. CASE p \in Targets /\ HasOps(bits)
  <2>1. F' = g
    BY <1>4, <1>6, <1>18
  <2>2. ASSUME NEW e \in Entity, NEW c \in Component, NEW f \in Field, g.storage[e][c] # Absent
        PROVE  \/ g.storage[e][c][f] = storage'[e][c][f]
               \/ /\ <<e, c, f>> \notin dirty.updated
                  /\ F.storage[e][c] # Absent /\ g.storage[e][c][f] = F.storage[e][c][f]
    <3>1. Encodable(bits, StoreShowingGone)
      BY <1>4, <1>15, <1>18
    <3>2. /\ q.storage[e][c] # Absent
          /\ g.storage[e][c][f] = IF <<e, c, f>> \in bits.updated
                                  THEN StoreShowingGone[e][c][f]
                                  ELSE q.storage[e][c][f]
      BY <1>1, <1>7, <1>9, <1>11, <1>12, <2>2, <3>1, UpdatedFields
    <3>3. <<e, c, f>> \in bits.updated <=> <<e, c, f>> \in dirty.updated
      BY <1>14, <3>2
    <3>4. \/ q.storage[e][c][f] = storage'[e][c][f]
          \/ F.storage[e][c] # Absent /\ q.storage[e][c][f] = F.storage[e][c][f]
      BY <1>13, <3>2
    <3> HIDE DEF g
    <3>. QED  BY <1>1, <3>2, <3>3, <3>4
  <2> HIDE DEF g
  <2>3. ValuesOf(g, d.updated \ dirty.updated, storage')
    BY <1>1, <1>2, <1>3, <2>2, UpdateLeavesValued
  <2>. QED  BY <1>5, <2>1, <2>3 DEF F
<1>19. CASE p \in Targets /\ ~HasOps(bits)
  <2>1. F' = q
    BY <1>4, <1>6, <1>19
  <2>2. ASSUME NEW e \in Entity, NEW c \in Component, NEW f \in Field, q.storage[e][c] # Absent
        PROVE  \/ q.storage[e][c][f] = storage'[e][c][f]
               \/ /\ <<e, c, f>> \notin dirty.updated
                  /\ F.storage[e][c] # Absent /\ q.storage[e][c][f] = F.storage[e][c][f]
    BY <1>13, <1>14, <1>16, <1>19, <2>2
  <2>3. ValuesOf(q, d.updated \ dirty.updated, storage')
    BY <1>1, <1>2, <1>3, <2>2, UpdateLeavesValued
  <2>. QED  BY <1>5, <2>1, <2>3 DEF F
<1>. QED  BY <1>17, <1>18, <1>19

LEMMA UpdateValued ==
  ASSUME Orderly, Ordered = TRUE, ValuedInv, Update
  PROVE  /\ WorldIsNew(dirty, storage)'
         /\ \A p \in synced' : ValuesOf(Future(p), dirty.updated, storage)'
<1>1. synced' = synced /\ BaseInv /\ SettledInv /\ LocalComponent = {}
  BY DEF Update, ValuedInv, SettledInv, Orderly
<1>2. WorldIsNew(dirty', storage')
  <2>1. Stays(DirtyShowingGone)
    BY <1>1, UpdateStays
  <2>2. CASE CanShareUpdate
    <3>1. dirty.created = {}
      BY <2>2 DEF CanShareUpdate, NothingDirty
    <3>2. DirtyShowingGone.created = {}
      BY <2>1, <3>1 DEF Stays
    <3>3. dirty' = DirtyShowingGone \/ dirty' = ClearWritten(DirtyShowingGone, dirty)
      BY <2>2 DEF Update, UpdateShared
    <3>4. dirty'.created = {}
      BY <3>2, <3>3 DEF ClearWritten
    <3>. QED  BY <3>4 DEF WorldIsNew
  <2>3. CASE ~CanShareUpdate
    <3>1. \A p \in Targets : DeltaEncodes(p)
      BY <1>1, AllEncode
    <3>2. dirty' = ClearWritten(DirtyShowingGone, dirty)
      BY <2>3, <3>1 DEF Update, UpdateEach
    <3>3. DirtyShowingGone.created = dirty.created
      BY <2>1 DEF Stays
    <3>4. dirty'.created = {}
      BY <3>2, <3>3 DEF ClearWritten
    <3>. QED  BY <3>4 DEF WorldIsNew
  <2>. QED  BY <2>2, <2>3
<1>3. \A p \in synced : ValuesOf(Future(p)', dirty'.updated, storage')
  BY SharedValued, EachValued
<1>. QED  BY <1>1, <1>2, <1>3 DEF WorldIsNew, ValuesOf

\* Where both channels are one, no packet is ever unordered.
LEMMA NothingLoose ==
  ASSUME Ordered = TRUE, ValuedInv, [Next]_vars
  PROVE  (\A p \in Peer : loose[p] = {})'
<1>1. /\ loose \in [Peer -> SUBSET Packet] /\ \A p \in Peer : loose[p] = {}
  BY DEF ValuedInv, SettledInv, BaseInv, ServerTypeOK
<1>2. CASE UNCHANGED loose
  BY <1>1, <1>2
<1>3. ASSUME NEW z \in Peer, Disconnect(z) PROVE (\A p \in Peer : loose[p] = {})'
  BY <1>1, <1>3 DEF Disconnect
<1>4. CASE UNCHANGED vars
  BY <1>2, <1>4 DEF vars, netVars
<1>5. CASE Update
  BY <1>2, <1>5 DEF Update, UpdateShared, UpdateEach
<1>6. CASE EditWorld
  BY <1>2, <1>6 DEF EditWorld, netVars
<1>7. ASSUME NEW z \in Peer, HandleHello(z) \/ HandlePacket(z) \/ ResendFullSnapshot(z)
                             \/ Connect(z) \/ Deliver(z)
      PROVE  (\A p \in Peer : loose[p] = {})'
  BY <1>2, <1>7 DEF HandleHello, HandlePacket, ResendFullSnapshot, SendFullSnapshot, Connect,
                    Deliver, netVars
<1>8. ASSUME NEW z \in Peer, DeliverLoose(z) \/ LoseLoose(z)
      PROVE  (\A p \in Peer : loose[p] = {})'
  BY <1>1, <1>8 DEF DeliverLoose, LoseLoose
<1>. QED  BY <1>3, <1>4, <1>5, <1>6, <1>7, <1>8 DEF Next

LEMMA ValuedStep ==
  ASSUME Orderly, Ordered = TRUE, ValuedInv, [Next]_vars PROVE ValuedInv'
<1> DEFINE Valued == /\ WorldIsNew(dirty, storage)
                     /\ \A p \in synced : ValuesOf(Future(p), dirty.updated, storage)
<1>1. /\ SettledInv /\ KnowledgeInv /\ SettledInv' /\ KnowledgeInv' /\ BaseInv
      /\ WorldReplicated /\ LocalComponent = {} /\ Valued
  BY SettledStep, KnowledgeStep DEF ValuedInv, Orderly, SettledInv
<1>2. (\A p \in Peer : loose[p] = {})'
  BY NothingLoose
<1>3. Valued'
  <2>1. CASE UNCHANGED vars
    <3>1. UNCHANGED <<worldVars, synced, inOrder, replica>>
      BY <2>1 DEF vars, netVars
    <3>2. Changes(dirty')
      BY <3>1 DEF worldVars, Stays, Changes
    <3>. QED  BY <3>1, <3>2, WorldValued
  <2>2. CASE EditWorld
    <3>1. UNCHANGED <<synced, inOrder, replica>> /\ (Edit \/ UNCHANGED worldVars)
      BY <2>2 DEF EditWorld, netVars, SetVisible
    <3>2. Changes(dirty')
      <4>1. CASE Edit
        BY <1>1, <4>1, EditChanges DEF Orderly
      <4>2. CASE UNCHANGED worldVars
        BY <4>2 DEF worldVars, Stays, Changes
      <4>. QED  BY <3>1, <4>1, <4>2
    <3>. QED  BY <3>1, <3>2, WorldValued
  <2>3. ASSUME NEW z \in Peer, HandlePacket(z) PROVE Valued'
    <3>1. /\ UNCHANGED <<synced, inOrder, replica>>
          /\ EnsurePeerEntity(z) /\ dirty' = DirtyWithPeerEntity(z)
      BY <2>3 DEF HandlePacket, netVars
    <3>2. Changes(dirty')
      BY <1>1, <3>1, EnsureChanges
    <3>. QED  BY <3>1, <3>2, WorldValued
  <2>4. ASSUME NEW z \in Peer, Connect(z) \/ Disconnect(z) \/ Deliver(z) PROVE Valued'
    <3>1. UNCHANGED worldVars
      BY <2>4 DEF Connect, Disconnect, Deliver
    <3>2. WorldIsNew(dirty, storage)'
      BY <1>1, <3>1 DEF worldVars, WorldIsNew
    <3>. QED  BY <2>4, <3>2, ConnectionValued, DeliveryValued
  <2>5. ASSUME NEW z \in Peer, DeliverLoose(z) \/ LoseLoose(z) PROVE Valued'
    BY <2>5 DEF ValuedInv, DeliverLoose, LoseLoose
  <2>. QED  BY <2>1, <2>2, <2>3, <2>4, <2>5, SnapshotValued, UpdateValued DEF Next
<1>. QED  BY <1>1, <1>2, <1>3 DEF ValuedInv

\* On a transport that keeps all packets in order, a peer has the current
\* value of every field it has, or a mark says that it does not yet.
THEOREM ValuesAreCurrent ==
  Orderly /\ Ordered = TRUE => (Spec => []ValuesAgree)
<1> SUFFICES ASSUME Orderly, Ordered = TRUE PROVE Spec => []ValuesAgree
  OBVIOUS
<1>1. ASSUME ValuedInv, NEW p \in synced, NEW k \in knownComponents[p] \cap Records,
             NEW f \in Field
      PROVE  \/ <<k[1], k[2], f>> \in dirty.updated
             \/ /\ Future(p).storage[k[1]][k[2]] # Absent
                /\ Future(p).storage[k[1]][k[2]][f] = storage[k[1]][k[2]][f]
  <2>1. /\ k[1] \in Entity /\ k[2] \in Component /\ storage[k[1]][k[2]] # Absent
    BY <1>1 DEF Records, RecordsIn, ComponentKey
  <2>2. /\ RecordsIn(Future(p).storage) = knownComponents[p]
        /\ ValuesOf(Future(p), dirty.updated, storage)
    BY <1>1, ValuedFacts
  <2>3. Future(p).storage[k[1]][k[2]] # Absent
    BY <1>1, <2>2 DEF RecordsIn
  <2>. QED  BY <2>1, <2>2, <2>3 DEF ValuesOf
<1>2. ValuedInv => ValuesAgree
  BY <1>1 DEF ValuesAgree
<1>3. Init => ValuedInv
  BY InitValued
<1>4. ValuedInv /\ [Next]_vars => ValuedInv'
  BY ValuedStep
<1>. QED  BY <1>2, <1>3, <1>4, PTL DEF Spec
=============================================================================
