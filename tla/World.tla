------------------------------- MODULE World -------------------------------
(***************************************************************************)
(* The entity/component store of one server world (class WorldCore): its   *)
(* entities, their component records, who owns them, which entities are    *)
(* replicated, and the dirty graph that every mutation marks.              *)
(*                                                                         *)
(* The module has one action per mutating method of the public API.  They  *)
(* are synchronous calls of one thread, so a call is one step.  Modules    *)
(* that send snapshots extend this one and clear the graph.                *)
(***************************************************************************)
EXTENDS Naturals, DirtyGraph

CONSTANTS LocalComponent,  \* components declared with replicated: false
          Value,           \* values of a field
          Peer,            \* ids of client peers
          Bundle,          \* component sets one add/remove/spawn call takes:
                           \* single components, prefabs, {} for spawn()
          Absent,          \* "no record"
          ReAddUnsent,     \* may a component come back before its removal
                           \* was sent?
          LocalEntities,   \* may there be entities without a replicated
                           \* component, other than the world entity?
          StaleWrites      \* may the program write through the instance of
                           \* a component it has removed?

WorldEntity == 0
Server == 0

ReplicatedComponent == Component \ LocalComponent

Row == [Field -> Value]

ASSUME WorldAssumption ==
  /\ Entity \subseteq Nat
  /\ WorldEntity \in Entity
  /\ Peer \subseteq Nat \ {Server}
  /\ LocalComponent \subseteq Component
  /\ Bundle \subseteq SUBSET Component
  /\ Absent \notin Row
  /\ ReAddUnsent \in BOOLEAN
  /\ LocalEntities \in BOOLEAN
  /\ StaleWrites \in BOOLEAN

VARIABLES entities,    \* ids that exist
          storage,     \* storage[e][c]: the record, or Absent
          replicated,  \* entities that hold a replicated component
          owner,       \* owner[e]: a peer, or Server
          nextId,      \* next id to allocate
          detached,    \* keys of removed records whose instance the program
                       \* may still hold
          dirty        \* the dirty graph

worldVars == <<entities, storage, replicated, owner, nextId, detached, dirty>>

NoRecords == [c \in Component |-> Absent]

HasRecord(e, c) == storage[e][c] # Absent

\* Keys of all records in a store (what _getRecords lists).
RecordsIn(store) == {k \in ComponentKey : store[k[1]][k[2]] # Absent}

Records == RecordsIn(storage)

\* The dirty keys or records of entity e's components in C.
KeysOf(e, C) == {e} \X C

\* Mutant: local components count as well.
RecordsBut(e, C) == {c \in Component \ C : HasRecord(e, c)}

\* The replicated components of e outside C.
ReplicatedBut(e, C) ==
  {c \in ReplicatedComponent \ C : HasRecord(e, c)}

-----------------------------------------------------------------------------

WorldInit ==
  /\ entities = {WorldEntity}
  /\ storage = [e \in Entity |-> NoRecords]
  /\ replicated = {}
  /\ owner = [e \in Entity |-> Server]
  /\ nextId = 1
  /\ detached = {}
  /\ dirty = NothingDirty

\* The first replicated component makes the entity replicated; its creation
\* and its owner then have to be sent.
MarkEntityReplicated(d, e) ==
  IF e \in replicated
  THEN d
  ELSE IF owner[e] # Server
       THEN MarkNetworkChanged(MarkCreated(d, e), e)
       ELSE MarkCreated(d, e)

\* The graph after replicated components C were added to e.
MarkComponentsAdded(d, e, C) ==
  IF C = {}
  THEN d
  ELSE MarkAdded(MarkEntityReplicated(d, e), e, KeysOf(e, C))

-----------------------------------------------------------------------------
\* entity(), spawn(component) and spawn(prefab): a fresh id with the records
\* of B, every field set to v.
Spawn(B, v) ==
  LET e == nextId
      C == B \ LocalComponent
  IN  /\ e \in Entity
      /\ LocalEntities \/ C # {}
      /\ nextId' = e + 1
      /\ entities' = entities \cup {e}
      /\ storage' = [storage EXCEPT ![e] =
                       [c \in Component |->
                          IF c \in B THEN [f \in Field |-> v] ELSE Absent]]
      /\ replicated' = IF C = {} THEN replicated ELSE replicated \cup {e}
      /\ dirty' = MarkComponentsAdded(MarkCreated(dirty, e), e, C)
      /\ UNCHANGED <<owner, detached>>

\* add(entity, component or prefab): components already there are kept.
Add(e, B, v) ==
  LET new == {c \in B : ~HasRecord(e, c)}
      C   == new \ LocalComponent
  IN  /\ e \in entities
      /\ new # {}
      /\ \/ ReAddUnsent
         \/ e \notin dirty.destroyed /\ KeysOf(e, C) \cap dirty.removed = {}
      /\ storage' = [storage EXCEPT ![e] =
                       [c \in Component |->
                          IF c \in new THEN [f \in Field |-> v] ELSE @[c]]]
      /\ replicated' = IF C = {} THEN replicated ELSE replicated \cup {e}
      /\ dirty' = MarkComponentsAdded(dirty, e, C)
      /\ UNCHANGED <<entities, owner, nextId, detached>>

\* remove(entity, component or prefab).  Without replicated components the
\* entity becomes local, which for the network is its destruction.
Remove(e, B) ==
  LET gone    == {c \in B : HasRecord(e, c)}
      marked  == MarkRemoved(dirty, KeysOf(e, gone \ LocalComponent))
      isLocal == e \in replicated /\ ReplicatedBut(e, gone) = {}
  IN  /\ gone # {}
      /\ LocalEntities \/ ~isLocal \/ e = WorldEntity
      /\ storage' = [storage EXCEPT ![e] =
                       [c \in Component |-> IF c \in gone THEN Absent ELSE @[c]]]
      /\ replicated' = IF isLocal THEN replicated \ {e} ELSE replicated
      /\ dirty' = IF isLocal /\ e # WorldEntity
                  THEN MarkDestroyed(marked, e)
                  ELSE marked
      /\ detached' = IF StaleWrites
                     THEN detached \cup KeysOf(e, gone \ LocalComponent)
                     ELSE detached
      /\ UNCHANGED <<entities, owner, nextId>>

\* Mutant: the owner of a destroyed entity is read without its default.
DestroyUnowns(e) ==
  /\ e \in entities \ {WorldEntity}
  /\ entities' = entities \ {e}
  /\ storage' = [storage EXCEPT ![e] = NoRecords]
  /\ replicated' = replicated \ {e}
  /\ owner' = [owner EXCEPT ![e] = Absent]
  /\ dirty' = IF e \in replicated THEN MarkDestroyed(dirty, e) ELSE dirty
  /\ detached' = detached \ OfEntity(detached, e)
  /\ UNCHANGED nextId

\* destroy(entity).  The id is never used again, so writes through the
\* instances of its records mark nothing from now on.
Destroy(e) ==
  /\ e \in entities \ {WorldEntity}
  /\ entities' = entities \ {e}
  /\ storage' = [storage EXCEPT ![e] = NoRecords]
  /\ replicated' = replicated \ {e}
  /\ owner' = [owner EXCEPT ![e] = Server]
  /\ dirty' = IF e \in replicated THEN MarkDestroyed(dirty, e) ELSE dirty
  /\ detached' = detached \ OfEntity(detached, e)
  /\ UNCHANGED nextId

\* setOwner(entity, peer); clearOwner(entity) is p = Server.
SetOwner(e, p) ==
  /\ e \in entities \ {WorldEntity}
  /\ owner' = [owner EXCEPT ![e] = p]
  /\ dirty' = IF e \in replicated THEN MarkNetworkChanged(dirty, e) ELSE dirty
  /\ UNCHANGED <<entities, storage, replicated, nextId, detached>>

\* instance.field.value = v through the instance in the store.  An equal
\* value changes nothing.
Write(e, c, f, v) ==
  /\ HasRecord(e, c)
  /\ storage[e][c][f] # v
  /\ storage' = [storage EXCEPT ![e][c][f] = v]
  /\ dirty' = IF c \in ReplicatedComponent /\ e \in replicated
              THEN MarkUpdated(dirty, {<<e, c, f>>})
              ELSE dirty
  /\ UNCHANGED <<entities, replicated, owner, nextId, detached>>

\* The same through the instance of a removed record: nothing in the store
\* changes, yet the field is marked as long as the entity is replicated.
StaleWrite(e, c, f) ==
  /\ StaleWrites
  /\ <<e, c>> \in detached
  /\ e \in replicated
  /\ dirty' = MarkUpdated(dirty, {<<e, c, f>>})
  /\ UNCHANGED <<entities, storage, replicated, owner, nextId, detached>>

Edit ==
  \/ \E B \in Bundle, v \in Value : Spawn(B, v)
  \/ \E e \in Entity, B \in Bundle, v \in Value : Add(e, B, v)
  \/ \E e \in Entity, B \in Bundle : Remove(e, B)
  \/ \E e \in Entity : Destroy(e)
  \/ \E e \in Entity, p \in Peer \cup {Server} : SetOwner(e, p)
  \/ \E e \in Entity, c \in Component, f \in Field, v \in Value : Write(e, c, f, v)
  \/ \E e \in Entity, c \in Component, f \in Field : StaleWrite(e, c, f)

-----------------------------------------------------------------------------

(***************************************************************************)
(* What the store and the dirty graph always agree on.                     *)
(***************************************************************************)

\* The types of the store, of the ownership table and of the dirty graph.
WorldTypeOK ==
  /\ entities \subseteq Entity
  /\ storage \in [Entity -> [Component -> Row \cup {Absent}]]
  /\ replicated \subseteq Entity
  /\ owner \in [Entity -> Peer \cup {Server}]
  /\ nextId \in Nat
  /\ detached \subseteq ComponentKey
  /\ dirty \in DirtyOps

\* Ids are handed out once: an id not allocated yet is nowhere, and a
\* destroyed entity leaves no record and no owner behind.
NoLeftovers ==
  /\ \A e \in entities : e < nextId
  /\ WorldEntity \in entities /\ owner[WorldEntity] = Server
  /\ \A e \in Entity \ entities : storage[e] = NoRecords /\ owner[e] = Server

\* The set of replicated entities, kept beside the store and updated by hand
\* in every method, is always the set that the store implies.
ReplicatedIffComponent ==
  \A e \in Entity :
    e \in replicated <=> \E c \in ReplicatedComponent : HasRecord(e, c)

\* Whatever the order of additions, removals and destructions since the last
\* snapshot: what is marked as coming is there to be encoded, what is marked
\* as going is not, nothing is marked as both, and an owner change belongs to
\* an entity that is replicated.
MarksMatchStore ==
  /\ \A k \in dirty.added : k[2] \in ReplicatedComponent /\ HasRecord(k[1], k[2])
  /\ \A k \in dirty.removed : ~HasRecord(k[1], k[2])
  /\ dirty.network \subseteq replicated
  /\ dirty.destroyed \cap (replicated \cup dirty.created) = {}

\* A field delta always has a record to be read from, and is never marked
\* beside an addition that is written in full.
UpdatesHaveRecords ==
  \A b \in dirty.updated :
    HasRecord(b[1], b[2]) /\ <<b[1], b[2]>> \notin dirty.added
=============================================================================
