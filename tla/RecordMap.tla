----------------------------- MODULE RecordMap -----------------------------
(***************************************************************************)
(* What a component storage promises: the storage of maps                  *)
(* (MapComponentStorage), with entities and, for each of them, its records *)
(* in the order in which they were set first.                              *)
(***************************************************************************)
EXTENDS Naturals, Sequences, SequencesExt, FiniteSets

CONSTANTS Entity, Component, Value

VARIABLES entities, recordsByEntity

vars == <<entities, recordsByEntity>>

Record(e, v) == [entityId |-> e, instance |-> v]

\* Position of the record of component c in the map of an entity, or 0.
Position(records, c) == SelectInSeq(records, LAMBDA r : r.component = c)

Get(e, c) == recordsByEntity[e][Position(recordsByEntity[e], c)].record

\* Entities that a query visits, its length, and the row for one of them.
Matching(Q) ==
  {e \in entities : \A k \in 1..Len(Q) : Position(recordsByEntity[e], Q[k]) # 0}

CountRows(Q) == Cardinality(Matching(Q))

QueryRow(e, Q) == [entity |-> e, records |-> [k \in 1..Len(Q) |-> Get(e, Q[k])]]

Init ==
  /\ entities = {}
  /\ recordsByEntity = [e \in Entity |-> << >>]

AddEntity(e) ==
  /\ entities' = entities \cup {e}
  /\ UNCHANGED recordsByEntity

DeleteEntity(e) ==
  /\ e \in entities
  /\ entities' = entities \ {e}
  /\ recordsByEntity' = [recordsByEntity EXCEPT ![e] = << >>]

\* A record that replaces another one keeps its place.
Set(e, c, v) ==
  LET i == Position(recordsByEntity[e], c)
      entry == [component |-> c, record |-> Record(e, v)]
  IN  /\ entities' = entities \cup {e}
      /\ recordsByEntity' =
           [recordsByEntity EXCEPT ![e] =
              IF i = 0 THEN Append(@, entry) ELSE [@ EXCEPT ![i] = entry]]

RemoveComponent(e, c) ==
  /\ Position(recordsByEntity[e], c) # 0
  /\ recordsByEntity' = [recordsByEntity EXCEPT ![e] = RemoveAt(@, Position(@, c))]
  /\ UNCHANGED entities

Next ==
  \E e \in Entity :
    \/ AddEntity(e) \/ DeleteEntity(e)
    \/ \E c \in Component : RemoveComponent(e, c) \/ \E v \in Value : Set(e, c, v)

Spec == Init /\ [][Next]_vars
=============================================================================
