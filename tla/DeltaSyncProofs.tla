-------------------------- MODULE DeltaSyncProofs --------------------------
(***************************************************************************)
(* For all values of the constants: one delta brings the replica exactly   *)
(* to the state of the world, whatever happened since the last one, and    *)
(* deltas implement atomic transfers (Mirroring).                          *)
(*                                                                         *)
(* MirrorInv says, entity by entity, how far the replica may be from the   *)
(* world: no further than the marks say.                                   *)
(***************************************************************************)
EXTENDS DeltaSync, SnapshotProofs

-----------------------------------------------------------------------------
\* The store and the graph stay consistent when deltas are sent.

\* Clearing what a delta carried preserves it.
LEMMA EncodeDirtyInv == WorldInv /\ EncodeDirty => WorldInv'
<1> SUFFICES ASSUME WorldInv, EncodeDirty PROVE WorldInv'
  OBVIOUS
<1>1. /\ dirty' \in DirtyOps
      /\ dirty'.created \subseteq dirty.created
      /\ dirty'.network \subseteq dirty.network
      /\ dirty'.added \subseteq dirty.added
      /\ dirty'.updated \subseteq dirty.updated
      /\ dirty'.removed \subseteq dirty.removed
      /\ dirty'.destroyed \subseteq dirty.destroyed
  BY ClearWrittenFacts DEF EncodeDirty, WorldInv, WorldTypeOK
<1>2. UNCHANGED <<entities, storage, replicated, owner, nextId, detached>>
  BY DEF EncodeDirty
<1>3. WorldTypeOK' /\ NoLeftovers' /\ ReplicatedIffComponent'
  BY <1>1, <1>2 DEF WorldInv, WorldTypeOK, NoLeftovers, ReplicatedIffComponent,
                    HasRecord, ReplicatedComponent
<1>4. MarksMatchStore' /\ MarksAreReplicated'
  BY <1>1, <1>2 DEF WorldInv, MarksMatchStore, MarksAreReplicated,
                    HasRecord, ReplicatedComponent
<1>. QED  BY <1>3, <1>4 DEF WorldInv

\* Nothing else happens.
LEMMA StepInv == WorldInv /\ [Next]_vars => WorldInv'
<1> SUFFICES ASSUME WorldInv, [Next]_vars PROVE WorldInv'
  OBVIOUS
<1>1. CASE EncodeDirty
  BY <1>1, EncodeDirtyInv
<1>2. CASE Edit /\ UNCHANGED mirror
  BY <1>2, EditInv
<1>3. CASE UNCHANGED vars
  BY <1>3 DEF vars, worldVars, WorldInv, WorldTypeOK, NoLeftovers,
              ReplicatedIffComponent, MarksMatchStore, MarksAreReplicated,
              HasRecord, ReplicatedComponent
<1>. QED  BY <1>1, <1>2, <1>3 DEF Next

\* The inductive invariant holds in every behaviour: with re-additions, stale
\* writes and local entities or without, for any number of ids.
THEOREM WorldInvariant == Spec => []WorldInv
<1>1. Init => WorldInv
  BY WorldInitInv DEF Init
<1>. QED  BY <1>1, StepInv, PTL DEF Spec

\* Type correctness of the store, the ownership table and the dirty graph
\* (class WorldCore and class DirtyGraph).
THEOREM TypeCorrect == Spec => []WorldTypeOK
<1>1. WorldInv => WorldTypeOK
  BY DEF WorldInv
<1>. QED  BY <1>1, WorldInvariant, PTL

\* The set of replicated entities, updated by hand in spawn, add, remove and
\* destroy, is at all times what the records in the store say.
THEOREM ReplicatedIsExact == Spec => []ReplicatedIffComponent
<1>1. WorldInv => ReplicatedIffComponent
  BY DEF WorldInv
<1>. QED  BY <1>1, WorldInvariant, PTL

\* No order of calls leaves a mark that contradicts the store or another mark.
THEOREM MarksAreExact == Spec => []MarksMatchStore
<1>1. WorldInv => MarksMatchStore
  BY DEF WorldInv
<1>. QED  BY <1>1, WorldInvariant, PTL

-----------------------------------------------------------------------------
\* When no removed instance is written to, a delta can always be encoded.

\* Hence every step of a program without stale writes keeps DeltaInv.
LEMMA DeltaStep ==
  ASSUME StaleWrites = FALSE, DeltaInv, [Next]_vars
  PROVE  DeltaInv'
<1>1. CASE EncodeDirty
  <2>1. WorldInv'
    BY <1>1, EncodeDirtyInv DEF DeltaInv
  <2>2. dirty'.updated \subseteq dirty.updated /\ dirty'.added \subseteq dirty.added
    BY <1>1, ClearWrittenFacts DEF EncodeDirty, DeltaInv, WorldInv, WorldTypeOK
  <2>. QED  BY <1>1, <2>1, <2>2 DEF EncodeDirty, DeltaInv, UpdatesHaveRecords, HasRecord
<1>2. CASE Edit /\ UNCHANGED mirror
  BY <1>2, EditDelta
<1>3. CASE UNCHANGED vars
  <2>1. WorldInv'
    BY StepInv DEF DeltaInv
  <2>. QED  BY <1>3, <2>1 DEF vars, worldVars, DeltaInv, UpdatesHaveRecords, HasRecord
<1>. QED  BY <1>1, <1>2, <1>3 DEF Next

\* DeltaInv is an invariant of such a program.
LEMMA DeltaInvariant ==
  ASSUME StaleWrites = FALSE
  PROVE  Spec => []DeltaInv
<1>1. Init => DeltaInv
  <2>1. Init => WorldInv
    BY WorldInitInv DEF Init
  <2>2. Init => UpdatesHaveRecords
    BY DEF Init, WorldInit, NothingDirty, UpdatesHaveRecords
  <2>. QED  BY <2>1, <2>2 DEF DeltaInv
<1>2. DeltaInv /\ [Next]_vars => DeltaInv'
  BY DeltaStep
<1>. QED  BY <1>1, <1>2, PTL DEF Spec

\* A program that does not write to what it removed never makes encodeDirty
\* read a record that is gone.
THEOREM DeltasHaveRecords ==
  ASSUME StaleWrites = FALSE
  PROVE  Spec => []UpdatesHaveRecords
<1>1. DeltaInv => UpdatesHaveRecords
  BY DEF DeltaInv
<1>. QED  BY <1>1, DeltaInvariant, PTL

\* Then what is marked can always be encoded: the exception that would keep
\* every mark for the next snapshot to fail on again is not reached.
THEOREM EncodeDirtyNeverThrows ==
  ASSUME StaleWrites = FALSE
  PROVE  Spec => []DirtyEncodable
<1>1. DeltaInv => DirtyEncodable
  <2> SUFFICES ASSUME DeltaInv PROVE DirtyEncodable
    OBVIOUS
  <2>1. /\ dirty \in DirtyOps
        /\ \A k \in dirty.added : k \in ComponentKey /\ HasRecord(k[1], k[2])
        /\ \A b \in dirty.updated :
             <<b[1], b[2]>> \in ComponentKey /\ HasRecord(b[1], b[2])
    BY DEF DeltaInv, WorldInv, WorldTypeOK, DirtyOps, DirtyBit, ComponentKey,
           MarksMatchStore, UpdatesHaveRecords
  <2>2. /\ ReplicatedOps(dirty).added \subseteq dirty.added
        /\ ReplicatedOps(dirty).updated \subseteq dirty.updated
    BY <2>1 DEF ReplicatedOps, DirtyOps
  <2>. QED
    BY <2>1, <2>2 DEF DirtyEncodable, Encodable, RecordsIn, HasRecord
<1>. QED  BY <1>1, DeltaInvariant, PTL

-----------------------------------------------------------------------------
\* What the replica lacks.

\* What the replica does not have is empty, and its ids were all given out.
KnownSoFar(e) ==
  IF e \in mirror.entities
  THEN e < nextId
  ELSE /\ e # WorldEntity
       /\ mirror.storage[e] = NoRecords
       /\ mirror.owner[e] = Server

\* What is marked as new is not on the replica yet, and a new entity has all
\* its records marked as new.
MarkedAsNew(e) ==
  /\ e \in dirty.created => e = WorldEntity \/ e \notin mirror.entities
  /\ \A c \in Component : <<e, c>> \in dirty.added => mirror.storage[e][c] = Absent
  /\ e \in dirty.created =>
       \A c \in ReplicatedComponent : HasRecord(e, c) => <<e, c>> \in dirty.added
  /\ WorldEntity \notin dirty.destroyed

\* The replica has the entity if and only if the world has, but for the marks.
EntityMirrored(e) ==
  e # WorldEntity =>
    IF e \in replicated
    THEN e \in mirror.entities \/ e \in dirty.created
    ELSE e \notin mirror.entities \/ e \in dirty.destroyed

\* It has the record if and only if the world has, with the same values, but
\* for the marks.
RecordMirrored(e, c) ==
  IF c \notin ReplicatedComponent
  THEN mirror.storage[e][c] = Absent
  ELSE IF HasRecord(e, c)
  THEN \/ <<e, c>> \in dirty.added
       \/ /\ mirror.storage[e][c] # Absent
          /\ \A f \in Field : \/ <<e, c, f>> \in dirty.updated
                              \/ mirror.storage[e][c][f] = storage[e][c][f]
  ELSE \/ mirror.storage[e][c] = Absent
       \/ <<e, c>> \in dirty.removed
       \/ e \in dirty.destroyed

\* It has the owner of what is replicated, but for the marks.
OwnerMirrored(e) ==
  \/ e \in dirty.network
  \/ e \in dirty.destroyed
  \/ mirror.owner[e] = IF e \in replicated THEN owner[e] ELSE Server

Mirrored(e) ==
  /\ KnownSoFar(e)
  /\ MarkedAsNew(e)
  /\ EntityMirrored(e)
  /\ \A c \in Component : RecordMirrored(e, c)
  /\ OwnerMirrored(e)

MirrorInv ==
  /\ WorldInv
  /\ mirror \in Replicas
  /\ \A e \in Entity : Mirrored(e)

-----------------------------------------------------------------------------
\* With MirrorInv, what is marked is what the replica lacks.
LEMMA DeltaIsComplete == MirrorInv => DeltaComplete
<1> SUFFICES ASSUME MirrorInv, Encodable(ReplicatedOps(dirty), storage)
             PROVE  Apply(mirror, Encode(ReplicatedOps(dirty), storage, owner))
                      = ReplicatedView
  BY DEF DeltaComplete
<1> DEFINE ops == ReplicatedOps(dirty)
<1>1. /\ ops \in DirtyOps
      /\ ops.created = dirty.created \cap replicated
      /\ ops.network = dirty.network \cap replicated
      /\ ops.added = {k \in dirty.added : k[1] \in replicated /\ k[2] \in ReplicatedComponent}
      /\ ops.updated = {b \in dirty.updated : b[1] \in replicated /\ b[2] \in ReplicatedComponent}
      /\ ops.removed = {k \in dirty.removed : k[2] \in ReplicatedComponent}
      /\ ops.destroyed = dirty.destroyed
  BY DEF ReplicatedOps, MirrorInv, WorldInv, WorldTypeOK, DirtyOps
<1>2. /\ dirty \in DirtyOps /\ storage \in Stores
      /\ owner \in [Entity -> Peer \cup {Server}] /\ replicated \subseteq Entity
      /\ mirror \in Replicas
  BY DEF MirrorInv, WorldInv, WorldTypeOK, Stores
<1>3. Encodable(ops, storage)
  OBVIOUS
<1> HIDE DEF ops
<1>4. ASSUME NEW e \in Entity, NEW c \in Component
      PROVE  /\ HasRecord(e, c) /\ c \in ReplicatedComponent => e \in replicated
             /\ <<e, c>> \in dirty.added => c \in ReplicatedComponent /\ HasRecord(e, c)
             /\ <<e, c>> \in dirty.removed => ~HasRecord(e, c) /\ c \in ReplicatedComponent
             /\ e \in dirty.destroyed => e \notin replicated
             /\ e \in dirty.network => e \in replicated
  BY DEF MirrorInv, WorldInv, ReplicatedIffComponent, MarksMatchStore, MarksAreReplicated
<1>5. ASSUME NEW b \in ops.updated
      PROVE  /\ b[1] \in Entity /\ b[2] \in ReplicatedComponent
             /\ HasRecord(b[1], b[2])
  <2>1. b[1] \in Entity /\ b[2] \in Component
    BY <1>1, <1>2 DEF DirtyOps, DirtyBit
  <2> QED  BY <1>1, <1>3, <2>1 DEF Encodable, RecordsIn, HasRecord
<1>6. Applicable(mirror, ops)
  <2>1. \A k \in ops.added \cup ops.removed : k[2] \in ReplicatedComponent
    BY <1>1
  <2>2. ASSUME NEW b \in ops.updated
        PROVE  <<b[1], b[2]>> \in ops.added \/ mirror.storage[b[1]][b[2]] # Absent
    <3>1. RecordMirrored(b[1], b[2])
      BY <1>5 DEF MirrorInv, Mirrored, ReplicatedComponent
    <3>2. b[1] \in replicated
      BY <1>4, <1>5 DEF ReplicatedComponent
    <3> QED  BY <1>1, <1>5, <3>1, <3>2 DEF RecordMirrored
  <2> QED  BY <1>5, <2>1, <2>2 DEF Applicable
<1>7. Apply(mirror, Encode(ops, storage, owner)) = After(mirror, ops, storage, owner)
  BY <1>1, <1>2, <1>3, <1>6, ApplyEncoded
<1>8. ASSUME NEW e \in Entity, NEW c \in Component
      PROVE  RecordAfter(mirror, ops, storage, e, c) =
               IF c \in ReplicatedComponent THEN storage[e][c] ELSE Absent
  <2>1. RecordMirrored(e, c)
    BY DEF MirrorInv, Mirrored
  <2>2. /\ <<e, c>> \in ops.added <=> <<e, c>> \in dirty.added
        /\ <<e, c>> \in ops.removed <=> <<e, c>> \in dirty.removed
        /\ \A f \in Field : c \in ReplicatedComponent /\ HasRecord(e, c) =>
             (<<e, c, f>> \in ops.updated <=> <<e, c, f>> \in dirty.updated)
    BY <1>1, <1>4
  <2>3. /\ storage[e][c] \in Row \cup {Absent}
        /\ mirror.storage[e][c] \in Row \cup {Absent}
    BY <1>2 DEF Stores, Replicas
  <2>4. CASE c \notin ReplicatedComponent
    BY <1>1, <1>4, <2>1, <2>2, <2>4 DEF RecordMirrored, RecordAfter
  <2>5. CASE c \in ReplicatedComponent /\ ~HasRecord(e, c)
    BY <1>1, <1>4, <2>1, <2>2, <2>5 DEF RecordMirrored, RecordAfter, HasRecord
  <2>6. CASE c \in ReplicatedComponent /\ HasRecord(e, c) /\ <<e, c>> \in dirty.added
    BY <1>1, <1>4, <2>2, <2>6 DEF RecordAfter
  <2>7. CASE c \in ReplicatedComponent /\ HasRecord(e, c) /\ <<e, c>> \notin dirty.added
    <3>1. /\ mirror.storage[e][c] # Absent
          /\ \A f \in Field : \/ <<e, c, f>> \in dirty.updated
                              \/ mirror.storage[e][c][f] = storage[e][c][f]
      BY <2>1, <2>7 DEF RecordMirrored
    <3>2. RecordAfter(mirror, ops, storage, e, c) =
            [f \in Field |-> IF <<e, c, f>> \in ops.updated
                             THEN storage[e][c][f]
                             ELSE mirror.storage[e][c][f]]
      BY <1>1, <1>4, <2>2, <2>7, <3>1 DEF RecordAfter
    <3>3. storage[e][c] \in Row
      BY <2>3, <2>7 DEF HasRecord
    <3> QED  BY <2>2, <2>7, <3>1, <3>2, <3>3 DEF Row
  <2> QED  BY <2>4, <2>5, <2>6, <2>7
<1>9. (mirror.entities \cup ops.created \cup {k[1] : k \in ops.added}
                       \cup ops.network) \ ops.destroyed
        = replicated \cup {WorldEntity}
  <2>1. ASSUME NEW e \in Entity
        PROVE  /\ KnownSoFar(e) /\ MarkedAsNew(e) /\ EntityMirrored(e)
    BY DEF MirrorInv, Mirrored
  <2>2. \A k \in ops.added : k[1] \in replicated
    BY <1>1
  <2>3. ops.created \subseteq replicated /\ ops.network \subseteq replicated
    BY <1>1
  <2>4. mirror.entities \subseteq Entity /\ WorldEntity \in Entity
    BY <1>2, WorldAssumption DEF Replicas
  <2>5. ASSUME NEW e \in mirror.entities, e \notin dirty.destroyed
        PROVE  e \in replicated \cup {WorldEntity}
    BY <2>1, <2>4, <2>5 DEF EntityMirrored
  <2>6. ASSUME NEW e \in replicated
        PROVE  e \notin dirty.destroyed /\ (e \in mirror.entities \cup ops.created
                                            \/ e = WorldEntity)
    BY <1>1, <1>2, <2>1 DEF EntityMirrored, MirrorInv, WorldInv, MarksMatchStore
  <2>7. WorldEntity \in mirror.entities /\ WorldEntity \notin dirty.destroyed
    BY <2>1, <2>4 DEF KnownSoFar, MarkedAsNew
  <2>8. {k[1] : k \in ops.added} \subseteq replicated
    BY <2>2
  <2> QED  BY <1>1, <2>3, <2>5, <2>6, <2>7, <2>8
<1>10. ASSUME NEW e \in Entity
       PROVE  (IF e \in ops.destroyed THEN Server
               ELSE IF e \in ops.network THEN owner[e] ELSE mirror.owner[e])
              = IF e \in replicated THEN owner[e] ELSE Server
  BY <1>1, <1>2 DEF MirrorInv, Mirrored, OwnerMirrored, WorldInv, MarksMatchStore
<1> QED
  BY <1>7, <1>8, <1>9, <1>10 DEF After, ReplicatedView, ops

-----------------------------------------------------------------------------
\* A call changes one entity.  What holds of the others goes on holding.

\* Nothing of entity a changes, neither its state nor its marks.
Untouched(a) ==
  /\ storage'[a] = storage[a] /\ owner'[a] = owner[a]
  /\ a \in replicated' <=> a \in replicated
  /\ a \in dirty'.created <=> a \in dirty.created
  /\ a \in dirty'.network <=> a \in dirty.network
  /\ a \in dirty'.destroyed <=> a \in dirty.destroyed
  /\ \A c \in Component :
       /\ <<a, c>> \in dirty'.added <=> <<a, c>> \in dirty.added
       /\ <<a, c>> \in dirty'.removed <=> <<a, c>> \in dirty.removed
       /\ \A f \in Field : <<a, c, f>> \in dirty'.updated <=> <<a, c, f>> \in dirty.updated

LEMMA UntouchedMirrored ==
  ASSUME mirror' = mirror, nextId \in Nat, nextId' \in Nat, nextId <= nextId',
         NEW a \in Entity, Mirrored(a), Untouched(a),
         WorldEntity \notin dirty'.destroyed
  PROVE  Mirrored(a)'
<1> USE DEF Untouched
<1>1. KnownSoFar(a)'
  BY WorldAssumption DEF Mirrored, KnownSoFar
<1>2. MarkedAsNew(a)'
  BY DEF Mirrored, MarkedAsNew, HasRecord, ReplicatedComponent
<1>3. EntityMirrored(a)'
  BY DEF Mirrored, EntityMirrored
<1>4. \A c \in Component : RecordMirrored(a, c)'
  BY DEF Mirrored, RecordMirrored, HasRecord
<1>5. OwnerMirrored(a)'
  BY DEF Mirrored, OwnerMirrored
<1> QED  BY <1>1, <1>2, <1>3, <1>4, <1>5 DEF Mirrored

\* Field marks beyond those that are needed do no harm.
LEMMA MoreUpdatesMirrored ==
  ASSUME NEW a \in Entity, Mirrored(a), mirror' = mirror, dirty \in DirtyOps,
         UNCHANGED <<storage, replicated, owner, nextId>>,
         NEW U, dirty' = MarkUpdated(dirty, U)
  PROVE  Mirrored(a)'
<1>1. /\ dirty'.created = dirty.created /\ dirty'.network = dirty.network
      /\ dirty'.added = dirty.added /\ dirty'.removed = dirty.removed
      /\ dirty'.destroyed = dirty.destroyed
      /\ dirty.updated \subseteq dirty'.updated
  BY DEF MarkUpdated, DirtyOps
<1>2. KnownSoFar(a)' /\ EntityMirrored(a)' /\ OwnerMirrored(a)'
  BY <1>1 DEF Mirrored, KnownSoFar, EntityMirrored, OwnerMirrored
<1>3. MarkedAsNew(a)'
  BY <1>1 DEF Mirrored, MarkedAsNew, HasRecord
<1>4. \A c \in Component : RecordMirrored(a, c)'
  BY <1>1 DEF Mirrored, RecordMirrored, HasRecord
<1> QED  BY <1>2, <1>3, <1>4 DEF Mirrored

\* A write to a field is marked, unless the whole record is to be sent.
LEMMA WriteMirrored ==
  ASSUME MirrorInv, mirror' = mirror, NEW e \in Entity, NEW c \in Component,
         NEW f \in Field, NEW v \in Value, Write(e, c, f, v)
  PROVE  \A a \in Entity : Mirrored(a)'
<1> DEFINE U == {<<e, c, f>>}
<1>1. /\ storage \in Stores /\ dirty \in DirtyOps /\ nextId \in Nat
      /\ storage[e][c] \in Row /\ storage' = [storage EXCEPT ![e][c][f] = v]
      /\ UNCHANGED <<replicated, owner, nextId>>
  BY DEF MirrorInv, WorldInv, WorldTypeOK, Write, HasRecord, Stores
<1>2. /\ \A b \in Component : storage'[e][b] = IF b = c THEN [storage[e][c] EXCEPT ![f] = v]
                                               ELSE storage[e][b]
      /\ \A a \in Entity : a # e => storage'[a] = storage[a]
  BY <1>1 DEF Stores
<1>3. \A b \in Component : HasRecord(e, b)' <=> HasRecord(e, b)
  BY <1>1, <1>2, WorldAssumption DEF HasRecord, Row
<1>4. /\ dirty'.created = dirty.created /\ dirty'.network = dirty.network
      /\ dirty'.added = dirty.added /\ dirty'.removed = dirty.removed
      /\ dirty'.destroyed = dirty.destroyed
      /\ dirty.updated \subseteq dirty'.updated
      /\ dirty'.updated \subseteq dirty.updated \cup U
      /\ c \in ReplicatedComponent /\ <<e, c>> \notin dirty.added => <<e, c, f>> \in dirty'.updated
  <2>1. CASE c \in ReplicatedComponent /\ e \in replicated
    <3>1. dirty' = MarkUpdated(dirty, U)
      BY <2>1 DEF Write
    <3>2. <<e, c>> \notin dirty.added => e \notin dirty.created \cup dirty.destroyed
      BY <1>1, <2>1 DEF MirrorInv, Mirrored, MarkedAsNew, WorldInv, MarksMatchStore,
                        Write
    <3> QED  BY <1>1, <3>1, <3>2 DEF MarkUpdated, DirtyOps
  <2>2. CASE ~(c \in ReplicatedComponent /\ e \in replicated)
    <3>1. dirty' = dirty
      BY <2>2 DEF Write
    <3>2. c \notin ReplicatedComponent
      BY <2>2 DEF MirrorInv, WorldInv, ReplicatedIffComponent, Write
    <3> QED  BY <3>1, <3>2
  <2> QED  BY <2>1, <2>2
<1>5. ASSUME NEW a \in Entity, a # e PROVE Mirrored(a)'
  <2>1. Untouched(a)
    BY <1>1, <1>2, <1>4, <1>5 DEF Untouched
  <2>2. Mirrored(a) /\ WorldEntity \notin dirty'.destroyed
    BY <1>4 DEF MirrorInv, Mirrored, MarkedAsNew
  <2> QED  BY <1>1, <2>1, <2>2, UntouchedMirrored
<1>6. Mirrored(e)'
  <2>1. Mirrored(e)
    BY DEF MirrorInv
  <2>2. KnownSoFar(e)' /\ EntityMirrored(e)' /\ OwnerMirrored(e)'
    BY <1>1, <1>4, <2>1 DEF Mirrored, KnownSoFar, EntityMirrored, OwnerMirrored
  <2>3. MarkedAsNew(e)'
    BY <1>3, <1>4, <2>1 DEF Mirrored, MarkedAsNew, ReplicatedComponent
  <2>4. ASSUME NEW b \in Component PROVE RecordMirrored(e, b)'
    <3>1. RecordMirrored(e, b)
      BY <2>1 DEF Mirrored
    <3>2. CASE b # c
      BY <1>2, <1>3, <1>4, <3>1, <3>2 DEF RecordMirrored
    <3>3. CASE b = c
      <4>1. \A g \in Field : g # f => storage'[e][c][g] = storage[e][c][g]
        BY <1>1, <1>2 DEF Row
      <4>2. HasRecord(e, c)
        BY DEF Write
      <4> QED  BY <1>3, <1>4, <3>1, <3>3, <4>1, <4>2 DEF RecordMirrored
    <3> QED  BY <3>2, <3>3
  <2> QED  BY <2>2, <2>3, <2>4 DEF Mirrored
<1> QED  BY <1>5, <1>6

\* A change of owner is marked if the entity is replicated.
LEMMA SetOwnerMirrored ==
  ASSUME MirrorInv, mirror' = mirror, NEW e \in Entity, NEW p \in Peer \cup {Server},
         SetOwner(e, p)
  PROVE  \A a \in Entity : Mirrored(a)'
<1>1. /\ dirty \in DirtyOps /\ nextId \in Nat
      /\ UNCHANGED <<storage, replicated, nextId>>
      /\ \A a \in Entity : a # e => owner'[a] = owner[a]
      /\ \A a \in Entity : Mirrored(a)
  BY DEF MirrorInv, WorldInv, WorldTypeOK, SetOwner
<1>2. /\ dirty'.created = dirty.created /\ dirty'.added = dirty.added
      /\ dirty'.updated = dirty.updated /\ dirty'.removed = dirty.removed
      /\ dirty'.destroyed = dirty.destroyed
      /\ \A a \in Entity : a # e => (a \in dirty'.network <=> a \in dirty.network)
      /\ dirty.network \subseteq dirty'.network
      /\ e \in replicated => e \in dirty'.network
  <2>1. CASE e \in replicated
    <3>1. e \notin dirty.destroyed
      BY <2>1 DEF MirrorInv, WorldInv, MarksMatchStore
    <3> QED  BY <1>1, <2>1, <3>1 DEF SetOwner, MarkNetworkChanged, DirtyOps
  <2>2. CASE e \notin replicated
    BY <2>2 DEF SetOwner
  <2> QED  BY <2>1, <2>2
<1>3. ASSUME NEW a \in Entity, a # e PROVE Mirrored(a)'
  <2>1. Untouched(a)
    BY <1>1, <1>2, <1>3 DEF Untouched
  <2>2. WorldEntity \notin dirty'.destroyed
    BY <1>1, <1>2 DEF Mirrored, MarkedAsNew
  <2> QED  BY <1>1, <2>1, <2>2, UntouchedMirrored
<1>4. Mirrored(e)'
  <2>1. KnownSoFar(e)' /\ EntityMirrored(e)' /\ OwnerMirrored(e)'
    BY <1>1, <1>2 DEF Mirrored, KnownSoFar, EntityMirrored, OwnerMirrored
  <2>2. MarkedAsNew(e)'
    BY <1>1, <1>2 DEF Mirrored, MarkedAsNew, HasRecord
  <2>3. \A c \in Component : RecordMirrored(e, c)'
    BY <1>1, <1>2 DEF Mirrored, RecordMirrored, HasRecord
  <2> QED  BY <2>1, <2>2, <2>3 DEF Mirrored
<1> QED  BY <1>3, <1>4

\* A destruction is marked, unless the replica never had the entity.
LEMMA DestroyMirrored ==
  ASSUME MirrorInv, mirror' = mirror, NEW e \in Entity, Destroy(e)
  PROVE  \A a \in Entity : Mirrored(a)'
<1>1. /\ dirty \in DirtyOps /\ nextId \in Nat /\ e # WorldEntity
      /\ nextId' = nextId
      /\ storage \in Stores /\ storage' = [storage EXCEPT ![e] = NoRecords]
      /\ replicated' = replicated \ {e}
      /\ \A a \in Entity : a # e => owner'[a] = owner[a]
      /\ \A a \in Entity : Mirrored(a)
  BY DEF MirrorInv, WorldInv, WorldTypeOK, Destroy, Stores
<1>2. /\ \A a \in Entity : a # e => storage'[a] = storage[a]
      /\ \A c \in Component : ~HasRecord(e, c)'
  BY <1>1 DEF Stores, HasRecord, NoRecords
<1>3. /\ \A a \in Entity : a # e =>
           /\ a \in dirty'.created <=> a \in dirty.created
           /\ a \in dirty'.network <=> a \in dirty.network
           /\ a \in dirty'.destroyed <=> a \in dirty.destroyed
           /\ \A c \in Component :
                /\ <<a, c>> \in dirty'.added <=> <<a, c>> \in dirty.added
                /\ <<a, c>> \in dirty'.removed <=> <<a, c>> \in dirty.removed
                /\ \A f \in Field :
                     <<a, c, f>> \in dirty'.updated <=> <<a, c, f>> \in dirty.updated
      /\ dirty'.created \subseteq dirty.created /\ dirty'.added \subseteq dirty.added
      /\ e \in replicated => e \in dirty.created \/ e \in dirty'.destroyed
      /\ e \notin replicated => dirty' = dirty
  <2>1. CASE e \in replicated
    <3>1. dirty' = MarkDestroyed(dirty, e)
      BY <2>1 DEF Destroy
    <3>2. /\ dirty'.created = dirty.created \ {e}
          /\ dirty'.network = dirty.network \ {e}
          /\ dirty'.added = dirty.added \ OfEntity(dirty.added, e)
          /\ dirty'.updated = dirty.updated \ OfEntity(dirty.updated, e)
          /\ dirty'.removed = dirty.removed \ OfEntity(dirty.removed, e)
          /\ dirty'.destroyed = IF e \in dirty.created THEN dirty.destroyed \ {e}
                                ELSE dirty.destroyed \cup {e}
      BY <1>1, <3>1 DEF MarkDestroyed, DirtyOps
    <3> QED  BY <2>1, <3>2 DEF OfEntity
  <2>2. CASE e \notin replicated
    BY <2>2 DEF Destroy
  <2> QED  BY <2>1, <2>2
<1>4. WorldEntity \notin dirty'.destroyed
  BY <1>1, <1>3, WorldAssumption DEF Mirrored, MarkedAsNew
<1>5. ASSUME NEW a \in Entity, a # e PROVE Mirrored(a)'
  <2>1. Untouched(a)
    BY <1>1, <1>2, <1>3, <1>5 DEF Untouched
  <2> QED  BY <1>1, <1>4, <2>1, UntouchedMirrored
<1>6. Mirrored(e)'
  <2>1. KnownSoFar(e)'
    BY <1>1 DEF Mirrored, KnownSoFar
  <2>2. MarkedAsNew(e)'
    BY <1>1, <1>2, <1>3, <1>4 DEF Mirrored, MarkedAsNew, ReplicatedComponent
  <2>3. EntityMirrored(e)'
    BY <1>1, <1>3 DEF Mirrored, EntityMirrored, MarkedAsNew
  <2>4. e \in replicated => e \in dirty'.destroyed \/ e \notin mirror.entities
    BY <1>1, <1>3 DEF Mirrored, MarkedAsNew
  <2>5. ASSUME NEW c \in Component PROVE RecordMirrored(e, c)'
    <3>1. e \notin mirror.entities => mirror.storage[e][c] = Absent
      BY <1>1 DEF Mirrored, KnownSoFar, NoRecords
    <3>2. e \notin replicated /\ c \in ReplicatedComponent => ~HasRecord(e, c)
      BY DEF MirrorInv, WorldInv, ReplicatedIffComponent
    <3> QED  BY <1>1, <1>2, <1>3, <2>4, <3>1, <3>2 DEF Mirrored, RecordMirrored
  <2>6. OwnerMirrored(e)'
    BY <1>1, <1>3, <2>4 DEF Mirrored, OwnerMirrored, KnownSoFar
  <2> QED  BY <2>1, <2>2, <2>3, <2>5, <2>6 DEF Mirrored
<1> QED  BY <1>5, <1>6

\* The write through the instance of a removed record marks too much, if
\* anything.
LEMMA StaleWriteMirrored ==
  ASSUME MirrorInv, mirror' = mirror, NEW e \in Entity, NEW c \in Component,
         NEW f \in Field, StaleWrite(e, c, f)
  PROVE  \A a \in Entity : Mirrored(a)'
<1>1. /\ dirty' = MarkUpdated(dirty, {<<e, c, f>>})
      /\ UNCHANGED <<storage, replicated, owner, nextId>>
  BY DEF StaleWrite
<1>2. dirty \in DirtyOps /\ \A a \in Entity : Mirrored(a)
  BY DEF MirrorInv, WorldInv, WorldTypeOK
<1> QED  BY <1>1, <1>2, MoreUpdatesMirrored

\* What the marks are after additions, exactly.
LEMMA AdditionMarks ==
  ASSUME NEW d \in DirtyOps, NEW e \in Entity, NEW C \in SUBSET Component, C # {},
         e \in replicated => e \notin d.destroyed
  PROVE  /\ MarkComponentsAdded(d, e, C).created =
              IF e \in replicated THEN d.created ELSE d.created \cup {e}
         /\ MarkComponentsAdded(d, e, C).network =
              IF e \in replicated THEN d.network
              ELSE IF owner[e] # Server THEN d.network \cup {e} ELSE d.network \ {e}
         /\ MarkComponentsAdded(d, e, C).added = d.added \cup KeysOf(e, C)
         /\ MarkComponentsAdded(d, e, C).updated =
              IF e \in replicated THEN d.updated ELSE d.updated \ OfEntity(d.updated, e)
         /\ MarkComponentsAdded(d, e, C).removed = d.removed \ KeysOf(e, C)
         /\ MarkComponentsAdded(d, e, C).destroyed =
              IF e \in replicated THEN d.destroyed ELSE d.destroyed \ {e}
<1> DEFINE m == MarkEntityReplicated(d, e)
           c == MarkCreated(d, e)
           K == KeysOf(e, C)
<1>1. /\ c \in DirtyOps
      /\ c.created = d.created \cup {e} /\ c.network = d.network \ {e}
      /\ c.added = d.added /\ c.updated = d.updated \ OfEntity(d.updated, e)
      /\ c.removed = d.removed /\ c.destroyed = d.destroyed \ {e}
  BY DEF MarkCreated, DirtyOps
<1>2. /\ m \in DirtyOps
      /\ m.created = IF e \in replicated THEN d.created ELSE d.created \cup {e}
      /\ m.network = IF e \in replicated THEN d.network
                     ELSE IF owner[e] # Server THEN d.network \cup {e}
                     ELSE d.network \ {e}
      /\ m.added = d.added
      /\ m.updated = IF e \in replicated THEN d.updated
                     ELSE d.updated \ OfEntity(d.updated, e)
      /\ m.removed = d.removed
      /\ m.destroyed = IF e \in replicated THEN d.destroyed ELSE d.destroyed \ {e}
      /\ e \notin m.destroyed
  <2>1. CASE e \in replicated
    BY <2>1 DEF MarkEntityReplicated
  <2>2. CASE e \notin replicated /\ owner[e] = Server
    <3>1. m = c
      BY <2>2 DEF MarkEntityReplicated
    <3> HIDE DEF m, c
    <3> QED  BY <1>1, <2>2, <3>1
  <2>3. CASE e \notin replicated /\ owner[e] # Server
    <3>1. m = MarkNetworkChanged(c, e)
      BY <2>3 DEF MarkEntityReplicated
    <3> HIDE DEF m, c
    <3> QED  BY <1>1, <2>3, <3>1 DEF MarkNetworkChanged, DirtyOps
  <2> QED  BY <2>1, <2>2, <2>3
<1>3. MarkComponentsAdded(d, e, C) = MarkAdded(m, e, K) /\ K \in SUBSET ComponentKey
  BY DEF MarkComponentsAdded, KeysOf, ComponentKey
<1> HIDE DEF m, K
<1>4. /\ MarkAdded(m, e, K).created = m.created
      /\ MarkAdded(m, e, K).network = m.network
      /\ MarkAdded(m, e, K).added = m.added \cup K
      /\ MarkAdded(m, e, K).updated = m.updated
      /\ MarkAdded(m, e, K).removed = m.removed \ K
      /\ MarkAdded(m, e, K).destroyed = m.destroyed
  BY <1>2, <1>3, MarkAddedFacts
<1> QED  BY <1>2, <1>3, <1>4 DEF K

\* Additions are marked to be sent in full.  That a component may not come
\* back before its removal was sent keeps what is marked as new off the
\* replica.
LEMMA AddMirrored ==
  ASSUME ReAddUnsent = FALSE, MirrorInv, mirror' = mirror, NEW e \in Entity,
         NEW B \in Bundle, NEW v \in Value, Add(e, B, v)
  PROVE  \A a \in Entity : Mirrored(a)'
<1> DEFINE new == {c \in B : ~HasRecord(e, c)}
           C   == new \ LocalComponent
<1>1. /\ dirty \in DirtyOps /\ nextId \in Nat /\ storage \in Stores
      /\ \A a \in Entity : Mirrored(a)
      /\ new \in SUBSET Component /\ C = new \cap ReplicatedComponent
  BY WorldAssumption DEF MirrorInv, WorldInv, WorldTypeOK, Stores, ReplicatedComponent
<1>2. /\ storage' = [storage EXCEPT ![e] =
                       [c \in Component |->
                          IF c \in new THEN [f \in Field |-> v] ELSE @[c]]]
      /\ replicated' = IF C = {} THEN replicated ELSE replicated \cup {e}
      /\ dirty' = MarkComponentsAdded(dirty, e, C)
      /\ UNCHANGED <<owner, nextId>>
      /\ e \notin dirty.destroyed /\ KeysOf(e, C) \cap dirty.removed = {}
  BY DEF Add
<1>3. \A c \in new : ~HasRecord(e, c)
  OBVIOUS
<1>4. \A c \in Component : <<e, c>> \in dirty.added =>
        c \in ReplicatedComponent /\ HasRecord(e, c)
  BY DEF MirrorInv, WorldInv, MarksMatchStore
<1>5. /\ e \in replicated <=> \E c \in ReplicatedComponent : HasRecord(e, c)
      /\ e = WorldEntity => owner[e] = Server /\ e \notin dirty.network
      /\ \A c \in Component : <<e, c>> \in dirty.removed => ~HasRecord(e, c)
  BY DEF MirrorInv, WorldInv, ReplicatedIffComponent, NoLeftovers, MarksAreReplicated,
         MarksMatchStore
<1>6. C = {} => dirty' = dirty
  BY <1>2 DEF MarkComponentsAdded
<1>7. ASSUME C # {}
      PROVE
      /\ dirty'.created = IF e \in replicated THEN dirty.created ELSE dirty.created \cup {e}
      /\ dirty'.network = IF e \in replicated THEN dirty.network
                          ELSE IF owner[e] # Server THEN dirty.network \cup {e}
                          ELSE dirty.network \ {e}
      /\ dirty'.added = dirty.added \cup KeysOf(e, C)
      /\ dirty'.updated = IF e \in replicated THEN dirty.updated
                          ELSE dirty.updated \ OfEntity(dirty.updated, e)
      /\ dirty'.removed = dirty.removed \ KeysOf(e, C)
      /\ dirty'.destroyed = dirty.destroyed
  <2>1. /\ C \in SUBSET Component /\ dirty \in DirtyOps
        /\ dirty' = MarkComponentsAdded(dirty, e, C)
        /\ e \notin dirty.destroyed
    BY <1>1, <1>2
  <2>2. dirty.destroyed \ {e} = dirty.destroyed
    BY <2>1
  <2> HIDE DEF C
  <2>3. /\ MarkComponentsAdded(dirty, e, C).created =
             IF e \in replicated THEN dirty.created ELSE dirty.created \cup {e}
        /\ MarkComponentsAdded(dirty, e, C).network =
             IF e \in replicated THEN dirty.network
             ELSE IF owner[e] # Server THEN dirty.network \cup {e} ELSE dirty.network \ {e}
        /\ MarkComponentsAdded(dirty, e, C).added = dirty.added \cup KeysOf(e, C)
        /\ MarkComponentsAdded(dirty, e, C).updated =
             IF e \in replicated THEN dirty.updated
             ELSE dirty.updated \ OfEntity(dirty.updated, e)
        /\ MarkComponentsAdded(dirty, e, C).removed = dirty.removed \ KeysOf(e, C)
        /\ MarkComponentsAdded(dirty, e, C).destroyed =
             IF e \in replicated THEN dirty.destroyed ELSE dirty.destroyed \ {e}
    BY <1>7, <2>1, AdditionMarks, Zenon
  <2> QED  BY <2>1, <2>2, <2>3
<1> HIDE DEF new, C
<1>8. /\ \A a \in Entity : a # e => storage'[a] = storage[a]
      /\ \A c \in Component : storage'[e][c] = IF c \in new THEN [f \in Field |-> v]
                                               ELSE storage[e][c]
  BY <1>1, <1>2 DEF Stores
<1>9. \A c \in Component : HasRecord(e, c)' <=> HasRecord(e, c) \/ c \in new
  BY <1>8, WorldAssumption DEF HasRecord, Row
<1>10. WorldEntity \notin dirty'.destroyed
  BY <1>1, <1>6, <1>7 DEF Mirrored, MarkedAsNew
<1>11. ASSUME NEW a \in Entity, a # e PROVE Mirrored(a)'
  <2>1. Untouched(a)
    BY <1>2, <1>6, <1>7, <1>8, <1>11 DEF Untouched, KeysOf, OfEntity
  <2> QED  BY <1>1, <1>2, <1>10, <2>1, UntouchedMirrored
<1>12. Mirrored(e)'
  <2>1. KnownSoFar(e)'
    BY <1>1, <1>2 DEF Mirrored, KnownSoFar
  <2>2. CASE C = {}
    <3>1. MarkedAsNew(e)' /\ EntityMirrored(e)' /\ OwnerMirrored(e)'
      BY <1>1, <1>2, <1>6, <1>9, <2>2
         DEF Mirrored, MarkedAsNew, EntityMirrored, OwnerMirrored, ReplicatedComponent
    <3>2. \A c \in Component : RecordMirrored(e, c)'
      BY <1>1, <1>6, <1>8, <1>9, <2>2 DEF Mirrored, RecordMirrored
    <3> QED  BY <2>1, <3>1, <3>2 DEF Mirrored
  <2>3. CASE C # {}
    <3>1. ASSUME NEW c \in Component
          PROVE  /\ <<e, c>> \in dirty'.added <=> <<e, c>> \in dirty.added \/ c \in C
                 /\ <<e, c>> \in dirty'.removed <=> <<e, c>> \in dirty.removed /\ c \notin C
                 /\ c \in C => <<e, c>> \notin dirty.removed
      BY <1>2, <1>7, <2>3 DEF KeysOf
    <3>2. e \notin replicated => e = WorldEntity \/ e \notin mirror.entities
      BY <1>1, <1>2 DEF Mirrored, EntityMirrored
    <3>3. ASSUME NEW c \in C PROVE mirror.storage[e][c] = Absent
      <4>1. c \in Component /\ c \in new /\ c \in ReplicatedComponent
        BY <1>1
      <4> QED  BY <1>1, <1>2, <1>3, <3>1, <4>1 DEF Mirrored, RecordMirrored
    <3>4. MarkedAsNew(e)'
      <4>1. e \in dirty'.created => e = WorldEntity \/ e \notin mirror.entities
        BY <1>1, <1>7, <2>3, <3>2 DEF Mirrored, MarkedAsNew
      <4>2. \A c \in Component : <<e, c>> \in dirty'.added => mirror.storage[e][c] = Absent
        BY <1>1, <3>1, <3>3 DEF Mirrored, MarkedAsNew
      <4>3. ASSUME e \in dirty'.created, NEW c \in ReplicatedComponent, HasRecord(e, c)'
            PROVE  <<e, c>> \in dirty'.added
        <5>1. c \in Component /\ (c \in new => c \in C)
          BY <1>1 DEF ReplicatedComponent
        <5>2. CASE c \in new
          BY <3>1, <5>1, <5>2
        <5>3. CASE c \notin new
          BY <1>1, <1>5, <1>7, <1>9, <2>3, <3>1, <4>3, <5>1, <5>3 DEF Mirrored, MarkedAsNew
        <5> QED  BY <5>2, <5>3
      <4> QED  BY <1>10, <4>1, <4>2, <4>3 DEF MarkedAsNew, ReplicatedComponent
    <3>5. EntityMirrored(e)'
      BY <1>1, <1>2, <1>7, <2>3 DEF Mirrored, EntityMirrored
    <3>6. OwnerMirrored(e)'
      <4>1. e \notin mirror.entities => mirror.owner[e] = Server
        BY <1>1 DEF Mirrored, KnownSoFar
      <4>2. e \in replicated' /\ owner' = owner
        BY <1>2, <2>3
      <4>3. CASE e \in replicated
        BY <1>1, <1>7, <2>3, <4>2, <4>3 DEF Mirrored, OwnerMirrored
      <4>4. CASE e \notin replicated
        BY <1>1, <1>2, <1>5, <1>7, <2>3, <3>2, <4>1, <4>2, <4>4 DEF Mirrored, OwnerMirrored
      <4> QED  BY <4>3, <4>4
    <3>7. ASSUME NEW c \in Component PROVE RecordMirrored(e, c)'
      <4>1. RecordMirrored(e, c)
        BY <1>1 DEF Mirrored
      <4>2. CASE c \in new /\ c \in ReplicatedComponent
        <5>1. c \in C
          BY <1>1, <4>2
        <5> QED  BY <1>9, <3>1, <4>2, <5>1 DEF RecordMirrored
      <4>3. CASE c \notin ReplicatedComponent
        BY <4>1, <4>3 DEF RecordMirrored, ReplicatedComponent
      <4>4. CASE c \notin new /\ c \in ReplicatedComponent
        <5>1. c \notin C /\ storage'[e][c] = storage[e][c]
          BY <1>1, <1>8, <4>4
        <5>2. CASE HasRecord(e, c)
          <6>1. \A f \in Field : <<e, c, f>> \in dirty.updated => <<e, c, f>> \in dirty'.updated
            BY <1>5, <1>7, <2>3, <4>4, <5>2
          <6> QED  BY <1>9, <3>1, <4>1, <4>4, <5>1, <5>2, <6>1 DEF RecordMirrored
        <5>3. CASE ~HasRecord(e, c)
          BY <1>2, <1>9, <3>1, <4>1, <4>4, <5>1, <5>3 DEF RecordMirrored
        <5> QED  BY <5>2, <5>3
      <4> QED  BY <4>2, <4>3, <4>4
    <3> QED  BY <2>1, <3>4, <3>5, <3>6, <3>7 DEF Mirrored
  <2> QED  BY <2>2, <2>3
<1> QED  BY <1>11, <1>12

\* A new entity is marked as new with all its components.
LEMMA SpawnMirrored ==
  ASSUME MirrorInv, mirror' = mirror, NEW B \in Bundle, NEW v \in Value, Spawn(B, v)
  PROVE  \A a \in Entity : Mirrored(a)'
<1> PICK e \in Entity : e = nextId
  BY DEF Spawn
<1> DEFINE C == B \ LocalComponent
           d == MarkCreated(dirty, e)
<1>1. /\ dirty \in DirtyOps /\ nextId \in Nat /\ storage \in Stores
      /\ \A a \in Entity : Mirrored(a)
      /\ B \in SUBSET Component /\ C = B \cap ReplicatedComponent
      /\ \A k \in dirty.added : HasRecord(k[1], k[2])
      /\ replicated \subseteq Entity
  BY WorldAssumption DEF MirrorInv, WorldInv, WorldTypeOK, Stores, ReplicatedComponent,
                         MarksMatchStore
<1>2. /\ storage' = [storage EXCEPT ![e] =
                       [c \in Component |->
                          IF c \in B THEN [f \in Field |-> v] ELSE Absent]]
      /\ replicated' = IF C = {} THEN replicated ELSE replicated \cup {e}
      /\ dirty' = MarkComponentsAdded(d, e, C)
      /\ owner' = owner /\ nextId' = nextId + 1
  BY DEF Spawn
<1>3. /\ storage[e] = NoRecords /\ owner[e] = Server /\ e # WorldEntity
      /\ \A c \in Component : ~HasRecord(e, c)
      /\ e \notin replicated
  <2>1. e \notin entities
    BY <1>1 DEF MirrorInv, WorldInv, NoLeftovers
  <2>2. storage[e] = NoRecords /\ owner[e] = Server /\ e # WorldEntity
    BY <2>1 DEF MirrorInv, WorldInv, NoLeftovers
  <2>3. \A c \in Component : ~HasRecord(e, c)
    BY <2>2 DEF HasRecord, NoRecords
  <2> QED  BY <2>2, <2>3 DEF MirrorInv, WorldInv, ReplicatedIffComponent, ReplicatedComponent
<1>4. /\ e \notin mirror.entities /\ mirror.storage[e] = NoRecords
      /\ mirror.owner[e] = Server
  BY <1>1, <1>3 DEF Mirrored, KnownSoFar
<1>5. /\ d \in DirtyOps
      /\ d.created = dirty.created \cup {e} /\ d.network = dirty.network \ {e}
      /\ d.added = dirty.added /\ d.updated = dirty.updated \ OfEntity(dirty.updated, e)
      /\ d.removed = dirty.removed /\ d.destroyed = dirty.destroyed \ {e}
  BY <1>1 DEF MarkCreated, DirtyOps
<1> HIDE DEF C, d
<1>6. /\ dirty'.created = dirty.created \cup {e}
      /\ dirty'.network = dirty.network \ {e}
      /\ dirty'.added = dirty.added \cup KeysOf(e, C)
      /\ dirty'.updated = dirty.updated \ OfEntity(dirty.updated, e)
      /\ dirty'.removed = dirty.removed \ KeysOf(e, C)
      /\ dirty'.destroyed = dirty.destroyed \ {e}
  <2>1. CASE C = {}
    BY <1>2, <1>5, <2>1 DEF MarkComponentsAdded, KeysOf
  <2>2. CASE C # {}
    <3>1. /\ C \in SUBSET Component /\ e \notin replicated /\ owner[e] = Server
          /\ d \in DirtyOps /\ e \in Entity
          /\ dirty' = MarkComponentsAdded(d, e, C)
      BY <1>1, <1>2, <1>3, <1>5
    <3>2. /\ MarkComponentsAdded(d, e, C).created =
               IF e \in replicated THEN d.created ELSE d.created \cup {e}
          /\ MarkComponentsAdded(d, e, C).network =
               IF e \in replicated THEN d.network
               ELSE IF owner[e] # Server THEN d.network \cup {e} ELSE d.network \ {e}
          /\ MarkComponentsAdded(d, e, C).added = d.added \cup KeysOf(e, C)
          /\ MarkComponentsAdded(d, e, C).updated =
               IF e \in replicated THEN d.updated ELSE d.updated \ OfEntity(d.updated, e)
          /\ MarkComponentsAdded(d, e, C).removed = d.removed \ KeysOf(e, C)
          /\ MarkComponentsAdded(d, e, C).destroyed =
               IF e \in replicated THEN d.destroyed ELSE d.destroyed \ {e}
      BY ONLY <2>2, <3>1, AdditionMarks, Zenon
    <3>3. \A S : (S \cup {e}) \cup {e} = S \cup {e} /\ (S \ {e}) \ {e} = S \ {e}
      OBVIOUS
    <3>4. (dirty.updated \ OfEntity(dirty.updated, e))
            \ OfEntity(dirty.updated \ OfEntity(dirty.updated, e), e)
          = dirty.updated \ OfEntity(dirty.updated, e)
      BY DEF OfEntity
    <3> QED  BY <1>5, <3>1, <3>2, <3>3, <3>4
  <2> QED  BY <2>1, <2>2
<1>7. /\ \A a \in Entity : a # e => storage'[a] = storage[a]
      /\ \A c \in Component : storage'[e][c] = IF c \in B THEN [f \in Field |-> v]
                                               ELSE Absent
  BY <1>1, <1>2 DEF Stores
<1>8. \A c \in Component : HasRecord(e, c)' <=> c \in B
  BY <1>7, WorldAssumption DEF HasRecord, Row
<1>9. WorldEntity \notin dirty'.destroyed
  BY <1>1, <1>6 DEF Mirrored, MarkedAsNew
<1>10. ASSUME NEW a \in Entity, a # e PROVE Mirrored(a)'
  <2>1. Untouched(a)
    BY <1>2, <1>6, <1>7, <1>10 DEF Untouched, KeysOf, OfEntity
  <2>2. nextId' \in Nat /\ nextId <= nextId'
    BY <1>1, <1>2
  <2> QED  BY <1>1, <1>9, <2>1, <2>2, UntouchedMirrored
<1>11. Mirrored(e)'
  <2>1. KnownSoFar(e)'
    BY <1>3, <1>4 DEF KnownSoFar
  <2>2. \A c \in Component :
          /\ <<e, c>> \in dirty'.added <=> c \in C
          /\ mirror.storage[e][c] = Absent
    BY <1>1, <1>3, <1>4, <1>6 DEF KeysOf, NoRecords
  <2>3. MarkedAsNew(e)'
    BY <1>1, <1>4, <1>8, <1>9, <2>2 DEF MarkedAsNew, ReplicatedComponent
  <2>4. EntityMirrored(e)'
    BY <1>4, <1>6 DEF EntityMirrored
  <2>5. \A c \in Component : RecordMirrored(e, c)'
    BY <1>1, <1>8, <2>2 DEF RecordMirrored
  <2>6. OwnerMirrored(e)'
    BY <1>2, <1>3, <1>4 DEF OwnerMirrored
  <2> QED  BY <2>1, <2>3, <2>4, <2>5, <2>6 DEF Mirrored
<1> QED  BY <1>10, <1>11

\* A removal is marked, unless the replica never had the record.
LEMMA RemoveMirrored ==
  ASSUME MirrorInv, mirror' = mirror, NEW e \in Entity, NEW B \in Bundle, Remove(e, B)
  PROVE  \A a \in Entity : Mirrored(a)'
<1> DEFINE gone    == {c \in B : HasRecord(e, c)}
           K       == KeysOf(e, gone \ LocalComponent)
           written == K \ dirty.added
           marked  == MarkRemoved(dirty, K)
           isLocal == e \in replicated /\ ReplicatedBut(e, gone) = {}
<1>1. /\ dirty \in DirtyOps /\ nextId \in Nat /\ storage \in Stores
      /\ \A a \in Entity : Mirrored(a)
      /\ gone \in SUBSET Component /\ K \in SUBSET ComponentKey
      /\ \A k \in dirty.added : HasRecord(k[1], k[2]) /\ k[2] \in ReplicatedComponent
      /\ e = WorldEntity => owner[e] = Server
  BY WorldAssumption
     DEF MirrorInv, WorldInv, WorldTypeOK, Stores, MarksMatchStore, KeysOf, ComponentKey,
         NoLeftovers
<1>2. /\ storage' = [storage EXCEPT ![e] =
                       [c \in Component |-> IF c \in gone THEN Absent ELSE @[c]]]
      /\ replicated' = IF isLocal THEN replicated \ {e} ELSE replicated
      /\ dirty' = IF isLocal /\ e # WorldEntity THEN MarkDestroyed(marked, e) ELSE marked
      /\ owner' = owner /\ nextId' = nextId
  BY DEF Remove
<1>3. \A c \in Component : c \in gone => HasRecord(e, c)
  OBVIOUS
<1>4. /\ isLocal <=> /\ e \in replicated
                     /\ \A c \in ReplicatedComponent : HasRecord(e, c) => c \in gone
      /\ \A c \in Component : <<e, c>> \in K <=> c \in gone /\ c \in ReplicatedComponent
      /\ \A k \in K : k[1] = e
  BY DEF ReplicatedBut, KeysOf, ReplicatedComponent
<1>5. \A c \in ReplicatedComponent : HasRecord(e, c) => e \in replicated
  BY DEF MirrorInv, WorldInv, ReplicatedIffComponent
<1>6. /\ marked \in DirtyOps
      /\ marked.created = dirty.created /\ marked.network = dirty.network
      /\ marked.added = dirty.added \ K
      /\ marked.updated = dirty.updated \ OfKeys(dirty.updated, written)
      /\ marked.removed = dirty.removed \cup written
      /\ marked.destroyed = dirty.destroyed
  <2> HIDE DEF K
  <2> QED  BY <1>1, MarkRemovedFacts
<1> HIDE DEF gone, K, marked, isLocal
<1>7. /\ ~(isLocal /\ e # WorldEntity) => dirty' = marked
      /\ isLocal /\ e # WorldEntity =>
           /\ dirty'.created = dirty.created \ {e}
           /\ dirty'.network = dirty.network \ {e}
           /\ dirty'.added = marked.added \ OfEntity(marked.added, e)
           /\ dirty'.updated = marked.updated \ OfEntity(marked.updated, e)
           /\ dirty'.removed = marked.removed \ OfEntity(marked.removed, e)
           /\ dirty'.destroyed = IF e \in dirty.created THEN dirty.destroyed \ {e}
                                 ELSE dirty.destroyed \cup {e}
  <2>1. CASE isLocal /\ e # WorldEntity
    <3>1. dirty' = MarkDestroyed(marked, e)
      BY <1>2, <2>1
    <3> QED  BY <1>6, <2>1, <3>1 DEF MarkDestroyed, DirtyOps
  <2>2. CASE ~(isLocal /\ e # WorldEntity)
    BY <1>2, <2>2
  <2> QED  BY <2>1, <2>2
<1>8. /\ \A a \in Entity : a # e => storage'[a] = storage[a]
      /\ \A c \in Component : storage'[e][c] = IF c \in gone THEN Absent ELSE storage[e][c]
      /\ \A c \in Component : HasRecord(e, c)' <=> HasRecord(e, c) /\ c \notin gone
  BY <1>1, <1>2 DEF Stores, HasRecord
<1>9. WorldEntity \notin dirty'.destroyed
  BY <1>1, <1>6, <1>7 DEF Mirrored, MarkedAsNew
<1>10. ASSUME NEW a \in Entity, a # e PROVE Mirrored(a)'
  <2>1. \A c \in Component : <<a, c>> \notin K
    BY <1>4, <1>10
  <2>2. Untouched(a)
    <3>1. CASE isLocal /\ e # WorldEntity
      BY <1>2, <1>6, <1>7, <1>8, <1>10, <2>1, <3>1 DEF Untouched, OfEntity, OfKeys
    <3>2. CASE ~(isLocal /\ e # WorldEntity)
      BY <1>2, <1>6, <1>7, <1>8, <1>10, <2>1, <3>2 DEF Untouched, OfKeys
    <3> QED  BY <3>1, <3>2
  <2> QED  BY <1>1, <1>2, <1>9, <2>2, UntouchedMirrored
<1>11. Mirrored(e)'
  <2>1. KnownSoFar(e)'
    BY <1>1, <1>2 DEF Mirrored, KnownSoFar
  <2>2. /\ dirty'.created \subseteq dirty.created
        /\ \A c \in Component : <<e, c>> \in dirty'.added
             => <<e, c>> \in dirty.added /\ c \notin gone
        /\ isLocal /\ e # WorldEntity => e \notin dirty'.created
    BY <1>1, <1>4, <1>6, <1>7
  <2>3. MarkedAsNew(e)'
    <3>1. ASSUME e \in dirty'.created, NEW c \in ReplicatedComponent, HasRecord(e, c)'
          PROVE  <<e, c>> \in dirty'.added
      <4>1. <<e, c>> \in dirty.added /\ c \in Component /\ c \notin gone
        BY <1>1, <1>8, <2>2, <3>1 DEF Mirrored, MarkedAsNew, ReplicatedComponent
      <4>2. ~isLocal
        BY <1>4, <1>8, <3>1, <4>1
      <4> QED  BY <1>4, <1>6, <1>7, <4>1, <4>2
    <3> QED  BY <1>1, <1>9, <2>2, <3>1 DEF Mirrored, MarkedAsNew, ReplicatedComponent
  <2>4. isLocal /\ e # WorldEntity =>
          \/ e \in dirty'.destroyed
          \/ e \notin mirror.entities /\ mirror.storage[e] = NoRecords
             /\ mirror.owner[e] = Server
    BY <1>1, <1>7 DEF Mirrored, MarkedAsNew, KnownSoFar
  <2>5. EntityMirrored(e)'
    BY <1>1, <1>2, <1>6, <1>7, <2>4 DEF Mirrored, EntityMirrored
  <2>6. ASSUME NEW c \in Component PROVE RecordMirrored(e, c)'
    <3>1. RecordMirrored(e, c) /\ (<<e, c>> \in dirty.added => mirror.storage[e][c] = Absent)
      BY <1>1 DEF Mirrored, MarkedAsNew
    <3>2. CASE isLocal /\ e # WorldEntity
      <4>1. c \in ReplicatedComponent => ~HasRecord(e, c)'
        BY <1>4, <1>8, <3>2
      <4>2. e \notin dirty'.destroyed => mirror.storage[e][c] = Absent
        BY <2>4, <3>2 DEF NoRecords
      <4> QED  BY <3>1, <4>1, <4>2 DEF RecordMirrored
    <3>3. CASE ~(isLocal /\ e # WorldEntity)
      <4>1. /\ <<e, c>> \in dirty'.added <=> <<e, c>> \in dirty.added /\ <<e, c>> \notin K
            /\ <<e, c>> \in dirty'.removed <=> \/ <<e, c>> \in dirty.removed
                                               \/ <<e, c>> \in K /\ <<e, c>> \notin dirty.added
            /\ dirty'.destroyed = dirty.destroyed
            /\ \A f \in Field : <<e, c>> \notin K =>
                 (<<e, c, f>> \in dirty'.updated <=> <<e, c, f>> \in dirty.updated)
        BY <1>6, <1>7, <3>3 DEF OfKeys
      <4>2. CASE c \in gone
        BY <1>3, <1>4, <1>8, <3>1, <4>1, <4>2 DEF RecordMirrored
      <4>3. CASE c \notin gone
        BY <1>4, <1>8, <3>1, <4>1, <4>3 DEF RecordMirrored
      <4> QED  BY <4>2, <4>3
    <3> QED  BY <3>2, <3>3
  <2>7. OwnerMirrored(e)'
    <3>1. OwnerMirrored(e)
      BY <1>1 DEF Mirrored
    <3>2. CASE isLocal /\ e # WorldEntity
      BY <1>2, <2>4, <3>2 DEF OwnerMirrored
    <3>3. CASE ~(isLocal /\ e # WorldEntity)
      BY <1>1, <1>2, <1>6, <1>7, <3>1, <3>3 DEF OwnerMirrored
    <3> QED  BY <3>2, <3>3
  <2> QED  BY <2>1, <2>3, <2>5, <2>6, <2>7 DEF Mirrored
<1> QED  BY <1>10, <1>11

-----------------------------------------------------------------------------
\* The other direction: after a delta there is nothing left to send.
LEMMA EncodeDirtyMirrored ==
  ASSUME MirrorInv, EncodeDirty
  PROVE  /\ mirror' = ReplicatedView
         /\ dirty' = NothingDirty
         /\ UNCHANGED <<entities, storage, replicated, owner, nextId, detached>>
<1>1. /\ Encodable(ReplicatedOps(dirty), storage)
      /\ mirror' = Apply(mirror, Encode(ReplicatedOps(dirty), storage, owner))
      /\ dirty' = ClearWritten(dirty, dirty)
      /\ UNCHANGED <<entities, storage, replicated, owner, nextId, detached>>
  BY DEF EncodeDirty
<1>2. mirror' = ReplicatedView
  BY <1>1, DeltaIsComplete DEF DeltaComplete
<1>3. ClearWritten(dirty, dirty) = NothingDirty
  <2>1. \A S : S \ S = {}
    OBVIOUS
  <2> QED  BY <2>1 DEF ClearWritten, NothingDirty
<1> QED  BY <1>1, <1>2, <1>3

\* The view is a state that a replica can have.
LEMMA ViewIsReplica == MirrorInv => ReplicatedView \in Replicas
<1> SUFFICES ASSUME MirrorInv PROVE ReplicatedView \in Replicas
  OBVIOUS
<1>1. /\ storage \in Stores /\ replicated \subseteq Entity /\ WorldEntity \in Entity
      /\ owner \in [Entity -> Peer \cup {Server}]
  BY WorldAssumption DEF MirrorInv, WorldInv, WorldTypeOK, Stores
<1>2. [e \in Entity |-> [c \in Component |->
          IF c \in ReplicatedComponent THEN storage[e][c] ELSE Absent]] \in Stores
  BY <1>1 DEF Stores
<1>3. [e \in Entity |-> IF e \in replicated THEN owner[e] ELSE Server]
        \in [Entity -> Peer \cup {Server}]
  BY <1>1
<1> QED  BY <1>1, <1>2, <1>3 DEF ReplicatedView, Replicas, Stores

LEMMA InitMirrored == Init => MirrorInv
<1> SUFFICES ASSUME Init PROVE MirrorInv
  OBVIOUS
<1>1. WorldInv
  BY WorldInitInv DEF Init
<1>2. /\ mirror.entities = {WorldEntity}
      /\ mirror.storage = [e \in Entity |-> NoRecords]
      /\ mirror.owner = [e \in Entity |-> Server]
      /\ mirror \in Replicas
  BY WorldAssumption DEF Init, EmptyReplica, Replicas, Stores, NoRecords
<1>3. /\ storage = [e \in Entity |-> NoRecords] /\ replicated = {}
      /\ nextId = 1 /\ dirty = NothingDirty /\ WorldEntity = 0
  BY DEF Init, WorldInit, WorldEntity
<1>4. ASSUME NEW e \in Entity PROVE Mirrored(e)
  <2>1. KnownSoFar(e)
    BY <1>2, <1>3 DEF KnownSoFar
  <2>2. MarkedAsNew(e) /\ EntityMirrored(e)
    BY <1>2, <1>3 DEF MarkedAsNew, EntityMirrored, NothingDirty
  <2>3. \A c \in Component : RecordMirrored(e, c)
    BY <1>2, <1>3 DEF RecordMirrored, HasRecord, NoRecords
  <2>4. OwnerMirrored(e)
    BY <1>2, <1>3 DEF OwnerMirrored
  <2> QED  BY <2>1, <2>2, <2>3, <2>4 DEF Mirrored
<1> QED  BY <1>1, <1>2, <1>4 DEF MirrorInv

LEMMA MirrorStep ==
  ASSUME ReAddUnsent = FALSE
  PROVE  MirrorInv /\ [Next]_vars => MirrorInv'
<1> SUFFICES ASSUME MirrorInv, [Next]_vars PROVE MirrorInv'
  OBVIOUS
<1>1. WorldInv'
  BY StepInv DEF MirrorInv
<1>2. CASE EncodeDirty
  <2>1. /\ mirror' = ReplicatedView /\ dirty' = NothingDirty
        /\ UNCHANGED <<entities, storage, replicated, owner, nextId, detached>>
    BY <1>2, EncodeDirtyMirrored
  <2>2. mirror' \in Replicas
    BY <2>1, ViewIsReplica
  <2>3. /\ mirror'.entities = replicated \cup {WorldEntity}
        /\ \A e \in Entity, c \in Component : mirror'.storage[e][c] =
             IF c \in ReplicatedComponent THEN storage[e][c] ELSE Absent
        /\ \A e \in Entity : mirror'.owner[e] =
             IF e \in replicated THEN owner[e] ELSE Server
    BY <2>1 DEF ReplicatedView
  <2>4. ASSUME NEW e \in Entity PROVE Mirrored(e)'
    <3>1. e \in replicated <=> \E c \in ReplicatedComponent : HasRecord(e, c)
      BY DEF MirrorInv, WorldInv, ReplicatedIffComponent
    <3>2. KnownSoFar(e)'
      <4>1. CASE e \in replicated \cup {WorldEntity}
        <5>1. e \in entities
          <6>1. CASE e = WorldEntity
            BY <6>1 DEF MirrorInv, WorldInv, NoLeftovers
          <6>2. CASE e \in replicated
            <7>1. PICK c \in ReplicatedComponent : HasRecord(e, c)
              BY <3>1, <6>2
            <7> QED  BY <7>1 DEF MirrorInv, WorldInv, NoLeftovers, NoRecords, HasRecord,
                                 ReplicatedComponent
          <6> QED  BY <4>1, <6>1, <6>2
        <5>2. e < nextId
          BY <5>1 DEF MirrorInv, WorldInv, NoLeftovers
        <5> QED  BY <2>1, <2>3, <4>1, <5>2 DEF KnownSoFar
      <4>2. CASE e \notin replicated \cup {WorldEntity}
        <5>1. \A c \in Component : mirror'.storage[e][c] = Absent
          BY <2>3, <3>1, <4>2 DEF HasRecord
        <5>2. mirror'.storage[e] \in [Component -> Row \cup {Absent}]
          BY <2>2 DEF Replicas, Stores
        <5>3. mirror'.storage[e] = NoRecords
          BY <5>1, <5>2 DEF NoRecords
        <5> QED  BY <2>3, <4>2, <5>3 DEF KnownSoFar, NoRecords
      <4> QED  BY <4>1, <4>2
    <3>3. MarkedAsNew(e)'
      BY <2>1 DEF MarkedAsNew, NothingDirty
    <3>4. EntityMirrored(e)'
      BY <2>1, <2>3 DEF EntityMirrored
    <3>5. \A c \in Component : RecordMirrored(e, c)'
      BY <2>1, <2>3 DEF RecordMirrored, HasRecord, ReplicatedComponent
    <3>6. OwnerMirrored(e)'
      BY <2>1, <2>3 DEF OwnerMirrored
    <3> QED  BY <3>2, <3>3, <3>4, <3>5, <3>6 DEF Mirrored
  <2> QED  BY <1>1, <2>2, <2>4 DEF MirrorInv
<1>3. CASE Edit /\ UNCHANGED mirror
  <2>1. ASSUME NEW B \in Bundle, NEW v \in Value, Spawn(B, v)
        PROVE  \A a \in Entity : Mirrored(a)'
    BY <1>3, <2>1, SpawnMirrored
  <2>2. ASSUME NEW e \in Entity, NEW B \in Bundle, NEW v \in Value, Add(e, B, v)
        PROVE  \A a \in Entity : Mirrored(a)'
    BY <1>3, <2>2, AddMirrored
  <2>3. ASSUME NEW e \in Entity, NEW B \in Bundle, Remove(e, B)
        PROVE  \A a \in Entity : Mirrored(a)'
    BY <1>3, <2>3, RemoveMirrored
  <2>4. ASSUME NEW e \in Entity, Destroy(e)
        PROVE  \A a \in Entity : Mirrored(a)'
    BY <1>3, <2>4, DestroyMirrored
  <2>5. ASSUME NEW e \in Entity, NEW p \in Peer \cup {Server}, SetOwner(e, p)
        PROVE  \A a \in Entity : Mirrored(a)'
    BY <1>3, <2>5, SetOwnerMirrored
  <2>6. ASSUME NEW e \in Entity, NEW c \in Component, NEW f \in Field,
               NEW v \in Value, Write(e, c, f, v)
        PROVE  \A a \in Entity : Mirrored(a)'
    BY <1>3, <2>6, WriteMirrored
  <2>7. ASSUME NEW e \in Entity, NEW c \in Component, NEW f \in Field,
               StaleWrite(e, c, f)
        PROVE  \A a \in Entity : Mirrored(a)'
    BY <1>3, <2>7, StaleWriteMirrored
  <2>8. \A a \in Entity : Mirrored(a)'
    BY <1>3, <2>1, <2>2, <2>3, <2>4, <2>5, <2>6, <2>7 DEF Edit
  <2>9. mirror' \in Replicas
    BY <1>3 DEF MirrorInv
  <2> QED  BY <1>1, <2>8, <2>9 DEF MirrorInv
<1>4. CASE UNCHANGED vars
  <2>1. /\ mirror' = mirror /\ storage' = storage /\ replicated' = replicated
        /\ owner' = owner /\ nextId' = nextId /\ dirty' = dirty
    BY <1>4 DEF vars, worldVars
  <2>2. ASSUME NEW a \in Entity PROVE Mirrored(a)'
    <3>1. Mirrored(a)
      BY DEF MirrorInv
    <3> QED  BY <2>1, <3>1 DEF Mirrored, KnownSoFar, MarkedAsNew, EntityMirrored,
                               RecordMirrored, OwnerMirrored, HasRecord
  <2> QED  BY <1>1, <2>1, <2>2 DEF MirrorInv
<1> QED  BY <1>2, <1>3, <1>4 DEF Next

-----------------------------------------------------------------------------
\* How far the replica may be from the world is at all times what the marks
\* say.  Assumed is the one case in which the code loses a mark: a component
\* that comes back before its removal was sent.
THEOREM MirrorInvariant ==
  ASSUME ReAddUnsent = FALSE
  PROVE  Spec => []MirrorInv
<1>1. Init => MirrorInv
  BY InitMirrored
<1>2. MirrorInv /\ [Next]_vars => MirrorInv'
  BY MirrorStep
<1> QED  BY <1>1, <1>2, PTL DEF Spec

\* Whatever calls were made since the last delta, in whatever order, the next
\* one makes the replica equal to the replicated part of the world (the marks
\* of world.ts, DirtyGraph, encodeDirty and applySnapshot together).
THEOREM DeltasAreComplete ==
  ASSUME ReAddUnsent = FALSE
  PROVE  Spec => []DeltaComplete
<1>1. MirrorInv => DeltaComplete
  BY DeltaIsComplete
<1> QED  BY <1>1, MirrorInvariant, PTL

-----------------------------------------------------------------------------
\* The steps of the world and of its deltas are steps of Mirroring.

\* With nothing marked the next delta is empty, and yet it would be complete.
LEMMA NothingPending == MirrorInv /\ dirty = NothingDirty => mirror = ReplicatedView
<1> SUFFICES ASSUME MirrorInv, dirty = NothingDirty PROVE mirror = ReplicatedView
  OBVIOUS
<1>1. ASSUME NEW e \in Entity
      PROVE  /\ KnownSoFar(e) /\ EntityMirrored(e) /\ OwnerMirrored(e)
             /\ \A c \in Component : RecordMirrored(e, c)
  BY DEF MirrorInv, Mirrored
<1>2. /\ mirror \in Replicas /\ replicated \subseteq Entity /\ WorldEntity \in Entity
      /\ storage \in Stores
  BY WorldAssumption DEF MirrorInv, WorldInv, WorldTypeOK, Stores
<1>3. mirror.entities = replicated \cup {WorldEntity}
  <2>1. \A e \in Entity : e \in mirror.entities <=> e \in replicated \/ e = WorldEntity
    BY <1>1 DEF EntityMirrored, KnownSoFar, NothingDirty
  <2> QED  BY <1>2, <2>1 DEF Replicas
<1>4. ASSUME NEW e \in Entity, NEW c \in Component
      PROVE  mirror.storage[e][c] =
               IF c \in ReplicatedComponent THEN storage[e][c] ELSE Absent
  <2>1. /\ storage[e][c] \in Row \cup {Absent}
        /\ mirror.storage[e][c] \in Row \cup {Absent}
    BY <1>2 DEF Stores, Replicas
  <2>2. RecordMirrored(e, c)
    BY <1>1
  <2> QED  BY <2>1, <2>2 DEF RecordMirrored, HasRecord, NothingDirty, Row
<1>5. mirror.storage = [e \in Entity |-> [c \in Component |->
          IF c \in ReplicatedComponent THEN storage[e][c] ELSE Absent]]
  BY <1>2, <1>4 DEF Replicas, Stores
<1>6. mirror.owner = [e \in Entity |-> IF e \in replicated THEN owner[e] ELSE Server]
  <2>1. \A e \in Entity : mirror.owner[e] = IF e \in replicated THEN owner[e] ELSE Server
    BY <1>1 DEF OwnerMirrored, NothingDirty
  <2> QED  BY <1>2, <2>1 DEF Replicas
<1> QED  BY <1>2, <1>3, <1>5, <1>6, ReplicaParts DEF ReplicatedView, Replicas

LEMMA InitMirrors == Init => Promise!Init
<1> SUFFICES ASSUME Init PROVE Promise!Init
  OBVIOUS
<1>1. MirrorInv /\ dirty = NothingDirty
  BY InitMirrored DEF Init, WorldInit
<1>2. ReplicatedView \in Replicas /\ mirror = ReplicatedView
  BY <1>1, ViewIsReplica, NothingPending
<1> QED  BY <1>1, <1>2 DEF Promise!Init, Replicas, Stores

LEMMA StepMirrors ==
  ASSUME MirrorInv, MirrorInv', [Next]_vars
  PROVE  [Promise!Next]_(Promise!vars)
<1>1. CASE EncodeDirty
  <2>1. /\ mirror' = ReplicatedView /\ dirty' = NothingDirty /\ dirty # NothingDirty
        /\ UNCHANGED <<entities, storage, replicated, owner, nextId, detached>>
    BY <1>1, EncodeDirtyMirrored DEF EncodeDirty
  <2>2. ReplicatedView' = ReplicatedView
    BY <2>1 DEF ReplicatedView
  <2>3. Promise!Transfer
    BY <2>1, <2>2 DEF Promise!Transfer
  <2> QED  BY <2>3 DEF Promise!Next
<1>2. CASE Edit /\ UNCHANGED mirror
  <2>1. (MirrorInv => ReplicatedView \in Replicas)'
    BY ViewIsReplica, PTL
  <2>2. (MirrorInv /\ dirty = NothingDirty => mirror = ReplicatedView)'
    BY NothingPending, PTL
  <2>3. Promise!Change
    BY <1>2, <2>1, <2>2 DEF Promise!Change, Replicas, Stores
  <2> QED  BY <2>3 DEF Promise!Next
<1>3. CASE UNCHANGED vars
  <2>1. ReplicatedView' = ReplicatedView /\ mirror' = mirror /\ dirty' = dirty
    BY <1>3 DEF vars, worldVars, ReplicatedView
  <2> QED  BY <2>1 DEF Promise!vars
<1> QED  BY <1>1, <1>2, <1>3 DEF Next

\* What the deltas of the dirty graph promise to a replica is what an atomic
\* transfer of the whole state would: no program of calls can tell them apart.
THEOREM DeltaSyncImplementsMirroring ==
  ASSUME ReAddUnsent = FALSE
  PROVE  Spec => ImplementsMirroring
<1>1. Init => Promise!Init
  BY InitMirrors
<1>2. MirrorInv /\ MirrorInv' /\ [Next]_vars => [Promise!Next]_(Promise!vars)
  BY StepMirrors
<1>3. Spec => []MirrorInv
  BY MirrorInvariant
<1> QED  BY <1>1, <1>2, <1>3, PTL DEF Spec, ImplementsMirroring, Promise!Spec
=============================================================================
