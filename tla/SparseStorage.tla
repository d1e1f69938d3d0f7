--------------------------- MODULE SparseStorage ---------------------------
(***************************************************************************)
(* The component storage of a world (SparseSetComponentStorage): one dense *)
(* table per component with a sparse index from entities to rows, an index *)
(* of archetypes for wide queries, and a cache of the archetypes that each *)
(* query matches.  The storage is a record; its methods are operators that *)
(* return the storage after the call.                                      *)
(*                                                                         *)
(* One query may be running: its callback edits the storage while the      *)
(* iteration holds a position in a live array or set.                      *)
(***************************************************************************)
EXTENDS Naturals, Sequences, SequencesExt, FiniteSets, FiniteSetsExt

CONSTANTS Entity, Component, Value,
          Query,      \* queries of the program: component ids in their order
          Shape,      \* what the program sets up: sequences of <<entity, component, value>>
          MaxEdits    \* bound: calls that change the storage

\* A query names at least one component, and none twice: the world checks it.
ASSUME StorageAssumption ==
  /\ Component \subseteq Nat /\ IsFiniteSet(Component)
  /\ Query \subseteq Seq(Component) /\ \A Q \in Query : Q # << >> /\ IsInjective(Q)
  /\ Shape \subseteq Seq(Entity \X Component \X Value)
  /\ MaxEdits \in Nat

VARIABLES storage,    \* the storage
          cursor,     \* the query that is running or ran last
          edits,
          todo        \* records that the program is still to set up

vars == <<storage, cursor, edits, todo>>

Record(e, v) == [entityId |-> e, instance |-> v]

\* Signatures are sets of components; {} stands for "no bucket".
NoBucket == {}
Uncached == <<NoBucket>>

NoTable == [ denseEntities     |-> << >>,
             denseRecords      |-> << >>,
             sparseEntityToRow |-> [e \in Entity |-> 0] ]   \* 0: no row

EmptyStorage ==
  [ entities           |-> {},
    componentsByEntity |-> [e \in Entity |-> << >>],        \* insertion order
    tables             |-> [c \in Component |-> NoTable],
    bucketByEntity     |-> [e \in Entity |-> NoBucket],
    signatures         |-> << >>,                           \* insertion order
    buckets            |-> [s \in SUBSET Component |-> << >>],
    matchingBuckets    |-> [Q \in Query |-> Uncached] ]

Get(st, e, c) ==
  LET t == st.tables[c] IN t.denseRecords[t.sparseEntityToRow[e]]

Has(st, e, c) == st.tables[c].sparseEntityToRow[e] # 0
HasAll(st, e, Q) == \A i \in 1..Len(Q) : Has(st, e, Q[i])
ComponentSize(st, c) == Len(st.tables[c].denseEntities)

-----------------------------------------------------------------------------
(* The archetype index holds the entities with at least two components.    *)

SignatureWith(signature, c) == signature \cup {c}
SignatureWithout(signature, c) == signature \ {c}
SignatureContains(signature, Q) == ToSet(Q) \subseteq signature

\* A new signature invalidates what was cached for every query.
BucketFor(st, signature) ==
  IF Contains(st.signatures, signature) THEN st
  ELSE [st EXCEPT !.signatures = Append(@, signature),
                  !.matchingBuckets = [Q \in Query |-> Uncached]]

\* A bucket is kept when it becomes empty.
FromBucket(st, e) ==
  [st EXCEPT !.buckets[st.bucketByEntity[e]] = RemoveFirst(@, e),
             !.bucketByEntity[e] = NoBucket]

ToBucket(st, e, signature) ==
  [BucketFor(st, signature) EXCEPT
     !.bucketByEntity[e] = signature,
     !.buckets[signature] = Append(RemoveFirst(@, e), e)]

IndexAdd(st, e, c) ==
  LET previous == st.bucketByEntity[e]
      components == ToSet(st.componentsByEntity[e])
  IN  IF previous = NoBucket
      THEN IF Cardinality(components) < 2 THEN st ELSE ToBucket(st, e, components)
      ELSE IF c \in previous THEN st
      ELSE ToBucket(FromBucket(st, e), e, SignatureWith(previous, c))

IndexRemove(st, e, c) ==
  LET previous == st.bucketByEntity[e]
  IN  IF c \notin previous THEN st
      ELSE IF Cardinality(previous) = 2 THEN FromBucket(st, e)
      ELSE ToBucket(FromBucket(st, e), e, SignatureWithout(previous, c))

-----------------------------------------------------------------------------
(* The methods that change the storage.                                    *)

AddEntity(st, e) == [st EXCEPT !.entities = @ \cup {e}]

\* Mutant: a new row goes to the front.
WithRowFirst(t, e, r) ==
  [ denseEntities     |-> <<e>> \o t.denseEntities,
    denseRecords      |-> <<r>> \o t.denseRecords,
    sparseEntityToRow |-> [x \in Entity |-> IF x = e THEN 1
                                           ELSE IF t.sparseEntityToRow[x] = 0 THEN 0
                                           ELSE t.sparseEntityToRow[x] + 1] ]

WithRow(t, e, r) ==
  [ denseEntities     |-> Append(t.denseEntities, e),
    denseRecords      |-> Append(t.denseRecords, r),
    sparseEntityToRow |-> [t.sparseEntityToRow EXCEPT ![e] = Len(t.denseEntities) + 1] ]

SetRecord(st, e, c, v) ==
  IF Has(st, e, c)
  THEN [st EXCEPT !.tables[c].denseRecords[st.tables[c].sparseEntityToRow[e]] = Record(e, v)]
  ELSE IndexAdd([AddEntity(st, e) EXCEPT !.tables[c] = WithRow(@, e, Record(e, v)),
                                         !.componentsByEntity[e] = Append(@, c)],
                e, c)

\* Mutant: the record of the last row is not moved with its entity.
WithoutRowKeepsOrder(t, e) ==
  LET row == t.sparseEntityToRow[e]
      last == Last(t.denseEntities)
  IN  [ denseEntities     |-> Front([t.denseEntities EXCEPT ![row] = last]),
        denseRecords      |-> RemoveAt(t.denseRecords, row),
        sparseEntityToRow |-> [t.sparseEntityToRow EXCEPT ![last] = row, ![e] = 0] ]

\* The last row moves into the hole.
WithoutRow(t, e) ==
  LET row == t.sparseEntityToRow[e]
      last == Len(t.denseEntities)
  IN  [ denseEntities     |-> Front([t.denseEntities EXCEPT ![row] = t.denseEntities[last]]),
        denseRecords      |-> Front([t.denseRecords EXCEPT ![row] = t.denseRecords[last]]),
        sparseEntityToRow |->
          [t.sparseEntityToRow EXCEPT ![t.denseEntities[last]] = row, ![e] = 0] ]

RemoveComponent(st, e, c) ==
  IndexRemove([st EXCEPT !.tables[c] = WithoutRow(@, e),
                         !.componentsByEntity[e] = RemoveFirst(@, c)], e, c)

\* An entity loses all its records, one table after the other.
Bare(st, e) ==
  [st EXCEPT !.tables = [c \in Component |-> IF Contains(st.componentsByEntity[e], c)
                                             THEN WithoutRow(@[c], e) ELSE @[c]],
             !.entities = @ \ {e},
             !.componentsByEntity[e] = << >>]

\* Mutant: the index is not told.
DeleteEntityKeepsBucket(st, e) == Bare(st, e)

DeleteEntity(st, e) ==
  IF st.bucketByEntity[e] = NoBucket THEN Bare(st, e) ELSE FromBucket(Bare(st, e), e)

-----------------------------------------------------------------------------
(* Queries.                                                                *)

\* The buckets whose signature holds every component of Q, in the order of all
\* buckets; NoBucket, which is empty, stands for one that is passed over.
MatchingBuckets(st, Q) ==
  IF st.matchingBuckets[Q] # Uncached THEN st.matchingBuckets[Q]
  ELSE [i \in DOMAIN st.signatures |-> IF SignatureContains(st.signatures[i], Q)
                                       THEN st.signatures[i] ELSE NoBucket]

Cached(st, Q) == [st EXCEPT !.matchingBuckets[Q] = MatchingBuckets(st, Q)]

ArchetypeCount(st, Q) ==
  FoldLeft(LAMBDA n, s : n + Len(st.buckets[s]), 0, MatchingBuckets(st, Q))

CountRows(st, Q) ==
  IF Len(Q) = 1 THEN ComponentSize(st, Q[1]) ELSE ArchetypeCount(st, Q)

\* The first of Q's components with the fewest records.
SmallestComponent(st, Q) ==
  Q[Min({i \in 1..Len(Q) :
           \A j \in 1..Len(Q) : ComponentSize(st, Q[i]) <= ComponentSize(st, Q[j])})]

\* What an iteration walks over: a table, named by the set of its component
\* alone, or the buckets that match.
Sources(st, Q) ==
  LET smallest == SmallestComponent(st, Q)
  IN  IF Len(Q) > 2 /\ ArchetypeCount(st, Q) < ComponentSize(st, smallest)
      THEN MatchingBuckets(st, Q)
      ELSE <<{smallest}>>

IsTable(source) == Cardinality(source) = 1
TableOf(st, source) == st.tables[CHOOSE c \in source : TRUE]

EntitiesIn(st, source) ==
  IF IsTable(source) THEN TableOf(st, source).denseEntities ELSE st.buckets[source]

\* The row for the entity at position i.  Narrow queries take the record of the
\* table they walk over as it lies there.
RowAt(st, Q, source, i) ==
  LET dense == IsTable(source) /\ Len(Q) <= 2
      e == IF dense /\ Len(Q) = 1 THEN TableOf(st, source).denseRecords[i].entityId
           ELSE EntitiesIn(st, source)[i]
  IN  [ entity  |-> e,
        records |-> [k \in 1..Len(Q) |->
                       IF dense /\ Q[k] \in source
                       THEN TableOf(st, source).denseRecords[i]
                       ELSE Get(st, e, Q[k])] ]

NoRow == [entity |-> {}, records |-> << >>]

Idle == [ query |-> << >>, sources |-> << >>, source |-> 0, at |-> 0, row |-> NoRow,
          seen |-> [e \in Entity |-> 0], touched |-> {}, behind |-> 0 ]

Running == cursor.source # 0

\* Positions the iteration has not reached.
Ahead(st, cur) ==
  UNION { {<<k, i>> : i \in (IF k = cur.source THEN cur.at + 1 ELSE 1)
                            ..Len(EntitiesIn(st, cur.sources[k]))}
          : k \in cur.source..Len(cur.sources) }

Precedes(p, q) == p[1] < q[1] \/ (p[1] = q[1] /\ p[2] < q[2])

\* Mutant: the first entity that does not match ends the iteration.
RowsAheadToGap(st, cur) ==
  LET matches(p) == HasAll(st, EntitiesIn(st, cur.sources[p[1]])[p[2]], cur.query)
  IN  { p \in Ahead(st, cur) :
          matches(p) /\ \A q \in Ahead(st, cur) : Precedes(q, p) => matches(q) }

\* Those where a row will be visited: the entity has all components.
RowsAhead(st, cur) ==
  { p \in Ahead(st, cur) :
      HasAll(st, EntitiesIn(st, cur.sources[p[1]])[p[2]], cur.query) }

-----------------------------------------------------------------------------
\* each(), forEach(), map() or an iterator: the plan is made once, when the
\* iteration begins; planning a wide query fills the cache.
Start(Q) ==
  /\ ~Running
  /\ cursor' = [Idle EXCEPT !.query = Q, !.sources = Sources(storage, Q), !.source = 1]
  /\ storage' = IF Len(Q) > 2 THEN Cached(storage, Q) ELSE storage
  /\ UNCHANGED <<edits, todo>>

\* The next row is given to the callback, or the iteration ends.
Visit ==
  LET ahead == RowsAhead(storage, cursor)
      next == CHOOSE p \in ahead : \A q \in ahead : ~Precedes(q, p)
      row == RowAt(storage, cursor.query, cursor.sources[next[1]], next[2])
  IN  /\ Running
      /\ cursor' =
           IF ahead = {}
           THEN [cursor EXCEPT !.source = 0, !.at = 0, !.sources = << >>, !.row = NoRow]
           ELSE [cursor EXCEPT !.source = next[1], !.at = next[2], !.row = row,
                               !.seen[row.entity] = @ + 1]
      /\ UNCHANGED <<storage, edits, todo>>

\* The callback throws, or the program leaves the loop.
Leave ==
  /\ Running
  /\ cursor' = Idle
  /\ UNCHANGED <<storage, edits, todo>>

\* length
Length(Q) ==
  /\ storage' = IF Len(Q) > 1 THEN Cached(storage, Q) ELSE storage
  /\ UNCHANGED <<cursor, edits, todo>>

\* A position in a table is a number and stays; one in a set moves with the
\* elements before it.
AfterEdit(cur, before, after, e) ==
  LET source == cur.sources[cur.source]
      place == SelectInSeq(EntitiesIn(before, source), LAMBDA x : x = e)
      left == /\ place \in 1..cur.at
              /\ e \notin ToSet(EntitiesIn(after, source))
  IN  [ cur EXCEPT !.touched = @ \cup {e},
                   !.row = NoRow,
                   !.at = IF left /\ ~IsTable(source) THEN @ - 1 ELSE @,
                   !.behind = IF left /\ IsTable(source) THEN @ + 1 ELSE @ ]

\* Edits come from callbacks, or from outside of any iteration.
Edit(e, after) ==
  /\ Running => \E x \in Entity : cursor.seen[x] > 0
  /\ edits < MaxEdits
  /\ edits' = edits + 1
  /\ storage' = after
  /\ cursor' = IF Running THEN AfterEdit(cursor, storage, after, e) ELSE Idle
  /\ UNCHANGED todo

EditEntity(e) ==
  \/ e \notin storage.entities /\ Edit(e, AddEntity(storage, e))
  \/ e \in storage.entities /\ Edit(e, DeleteEntity(storage, e))

EditRecord(e, c) ==
  \/ Has(storage, e, c) /\ Edit(e, RemoveComponent(storage, e, c))
  \/ \E v \in Value : Edit(e, SetRecord(storage, e, c, v))

\* The program sets up what it starts with.
SetUp ==
  /\ todo # << >>
  /\ LET r == Head(todo)
     IN  storage' = SetRecord(storage, r[1], r[2], r[3])
  /\ todo' = Tail(todo)
  /\ UNCHANGED <<cursor, edits>>

Init ==
  /\ storage = EmptyStorage
  /\ cursor = Idle
  /\ edits = 0
  /\ todo \in Shape

Next ==
  \/ SetUp
  \/ /\ todo = << >>
     /\ \/ \E Q \in Query : Start(Q) \/ Length(Q)
        \/ Visit
        \/ Leave
        \/ \E e \in Entity : EditEntity(e) \/ \E c \in Component : EditRecord(e, c)

Spec == Init /\ [][Next]_vars

-----------------------------------------------------------------------------

\* Types; the sparse index is the inverse of the dense columns, which have the
\* records of their entities; an entity is in exactly one bucket, that of its
\* components, when it has two or more.
StorageTypeOK ==
  /\ storage.entities \subseteq Entity
  /\ edits \in 0..MaxEdits
  /\ \A c \in Component, e \in Entity :
       LET t == storage.tables[c]
           row == t.sparseEntityToRow[e]
       IN  /\ Len(t.denseRecords) = Len(t.denseEntities)
           /\ row \in 0..Len(t.denseEntities)
           /\ row # 0 => t.denseEntities[row] = e /\ t.denseRecords[row].entityId = e
           /\ row # 0 <=> Contains(storage.componentsByEntity[e], c)
           /\ row # 0 <=> Contains(t.denseEntities, e)
  /\ \A e \in Entity :
       LET components == ToSet(storage.componentsByEntity[e])
       IN  \A s \in SUBSET Component :
             /\ Contains(storage.buckets[s], e) <=> s = components /\ Cardinality(s) > 1
             /\ storage.bucketByEntity[e] =
                  (IF Cardinality(components) > 1 THEN components ELSE NoBucket)

\* The tables and the index behave as a map of records does: every call changes
\* the records of its own entity only, and in the same way.
Promise ==
  INSTANCE RecordMap WITH
    entities <- storage.entities,
    recordsByEntity <-
      [e \in Entity |->
         [i \in 1..Len(storage.componentsByEntity[e]) |->
            LET c == storage.componentsByEntity[e][i]
            IN  [component |-> c, record |-> Get(storage, e, c)]]]
ImplementsRecordMap == Promise!Spec

\* A callback is given the records its entity has now, although rows move and
\* narrow queries read the columns by position.
RowsAreCurrent ==
  cursor.row # NoRow =>
    /\ cursor.row.entity \in Promise!Matching(cursor.query)
    /\ cursor.row = Promise!QueryRow(cursor.row.entity, cursor.query)

\* Whatever callbacks do, an entity they leave alone is visited at most once.
UntouchedVisitedOnce == \A e \in Entity \ cursor.touched : cursor.seen[e] <= 1

\* When an iteration has ended, it has missed at most as many of the entities
\* that were left alone as records were removed from rows it had passed: none,
\* if it walked over buckets or the callbacks removed nothing.
MissesCounted ==
  ~Running /\ cursor.query # << >> =>
    Cardinality({e \in Promise!Matching(cursor.query) \ cursor.touched : cursor.seen[e] = 0})
      <= cursor.behind
=============================================================================
