--------------------------- MODULE StorageProofs ---------------------------
(***************************************************************************)
(* For all values of the constants: the dense tables, the sparse index and *)
(* the archetype index of a storage stay consistent and implement a map of *)
(* records; a query that is running gives its callback current records,    *)
(* visits what the callbacks leave alone at most once, and misses no more  *)
(* of it than was removed behind its back.                                 *)
(*                                                                         *)
(* StorageInv is about the storage alone.  WalkInv relates the position of *)
(* the iteration to the sequence it walks over: what was seen lies behind  *)
(* it, what was not seen and not counted lies ahead.                       *)
(***************************************************************************)
EXTENDS SparseStorage, Integers, SequenceTheorems, FiniteSetTheorems,
        WellFoundedInduction, TLAPS

-----------------------------------------------------------------------------
\* Sequences without repetitions.

Distinct(s) == \A i, j \in 1..Len(s) : s[i] = s[j] => i = j

LEMMA SmallestNat ==
  ASSUME NEW T \in SUBSET Nat, T # {}
  PROVE  \E x \in T : \A y \in T : x <= y
<1>1. PICK x \in T : \A y \in T : ~ (<<y, x>> \in OpToRel(<, Nat))
  BY WFMin, NatLessThanWellFounded, Zenon
<1>2. \A y \in T : ~ (y < x)
  BY <1>1 DEF OpToRel
<1>. QED  BY <1>2

\* The first place of an element.
Place(s, e) == SelectInSeq(s, LAMBDA x : x = e)

LEMMA PlaceFacts ==
  ASSUME NEW s, Len(s) \in Nat, NEW e
  PROVE  /\ Place(s, e) \in 0..Len(s)
         /\ Place(s, e) # 0 => s[Place(s, e)] = e
         /\ Place(s, e) = 0 => \A j \in 1..Len(s) : s[j] # e
<1> DEFINE i == Place(s, e)
           I == {j \in 1..Len(s) : s[j] = e}
<1>1. i = IF I # {} THEN CHOOSE j \in I : \A l \in I : j <= l ELSE 0
  BY Zenon DEF Place, SelectInSeq, Min
<1>2. I \in SUBSET Nat /\ I \subseteq 1..Len(s)
  OBVIOUS
<1>3. CASE I # {}
  <2>1. \E j \in I : \A l \in I : j <= l
    <3> HIDE DEF I
    <3>. QED  BY <1>2, <1>3, SmallestNat
  <2>2. i \in I
    <3> HIDE DEF I, i
    <3>. QED  BY <1>1, <1>3, <2>1, Zenon
  <2>. QED  BY <2>2
<1>4. CASE I = {}
  <2>1. i = 0
    BY <1>1, <1>4, Zenon
  <2>. QED  BY <1>4, <2>1
<1>. QED  BY <1>3, <1>4

\* A sequence without the element at place k.
LEMMA RemoveAtFacts ==
  ASSUME NEW S, NEW s \in Seq(S), NEW k \in 1..Len(s)
  PROVE  /\ RemoveAt(s, k) \in Seq(S)
         /\ Len(RemoveAt(s, k)) = Len(s) - 1
         /\ \A j \in 1..Len(s) - 1 :
              RemoveAt(s, k)[j] = IF j < k THEN s[j] ELSE s[j + 1]
<1> DEFINE front == SubSeq(s, 1, k - 1)
           back  == SubSeq(s, k + 1, Len(s))
<1>1. /\ front \in Seq(S) /\ Len(front) = k - 1
      /\ \A j \in 1..k - 1 : front[j] = s[j]
  BY SubSeqProperties
<1>2. /\ back \in Seq(S) /\ Len(back) = Len(s) - k
      /\ \A j \in 1..Len(s) - k : back[j] = s[j + k]
  BY SubSeqProperties
<1>3. /\ front \o back \in Seq(S)
      /\ Len(front \o back) = Len(s) - 1
      /\ \A j \in 1..Len(s) - 1 :
           (front \o back)[j] = IF j < k THEN s[j] ELSE s[j + 1]
  <2> HIDE DEF front, back
  <2>1. /\ front \o back \in Seq(S)
        /\ Len(front \o back) = Len(front) + Len(back)
        /\ \A j \in 1..Len(front) + Len(back) :
             (front \o back)[j] = IF j <= Len(front) THEN front[j] ELSE back[j - Len(front)]
    BY <1>1, <1>2, ConcatProperties
  <2> QED  BY <2>1, <1>1, <1>2
<1> QED  BY <1>3 DEF RemoveAt

\* Of an element that occurs once, the first occurrence is the only one.
LEMMA RemoveFirstFacts ==
  ASSUME NEW S, NEW s \in Seq(S), Distinct(s), NEW e
  PROVE  /\ ~Contains(s, e) => RemoveFirst(s, e) = s
         /\ \A k \in 1..Len(s) : s[k] = e => RemoveFirst(s, e) = RemoveAt(s, k)
<1> DEFINE place == Place(s, e)
<1>1. /\ place \in 0..Len(s) /\ (place # 0 => s[place] = e)
      /\ (place = 0 => \A j \in 1..Len(s) : s[j] # e)
  BY PlaceFacts
<1>2. RemoveFirst(s, e) = IF \E i \in 1..Len(s) : s[i] = e THEN RemoveAt(s, place) ELSE s
  BY Zenon DEF RemoveFirst, Place
<1> HIDE DEF place
<1>. QED  BY <1>1, <1>2 DEF Contains, Distinct

LEMMA RemoveFirstKeeps ==
  ASSUME NEW S, NEW s \in Seq(S), Distinct(s), NEW e
  PROVE  /\ RemoveFirst(s, e) \in Seq(S) /\ Distinct(RemoveFirst(s, e))
         /\ \A x : Contains(RemoveFirst(s, e), x) <=> Contains(s, x) /\ x # e
<1>1. CASE ~Contains(s, e)
  BY <1>1, RemoveFirstFacts DEF Contains
<1>2. ASSUME NEW k \in 1..Len(s), s[k] = e
      PROVE  /\ RemoveFirst(s, e) \in Seq(S) /\ Distinct(RemoveFirst(s, e))
             /\ \A x : Contains(RemoveFirst(s, e), x) <=> Contains(s, x) /\ x # e
  <2> DEFINE r == RemoveAt(s, k)
  <2>1. RemoveFirst(s, e) = r
    BY <1>2, RemoveFirstFacts
  <2>2. /\ r \in Seq(S) /\ Len(r) = Len(s) - 1 /\ Len(s) \in Nat
        /\ \A j \in 1..Len(s) - 1 : r[j] = IF j < k THEN s[j] ELSE s[j + 1]
    BY RemoveAtFacts
  <2> HIDE DEF r
  <2>3. Distinct(r)
    BY <2>2 DEF Distinct
  <2>4. ASSUME NEW x, Contains(r, x) PROVE Contains(s, x) /\ x # e
    BY <1>2, <2>2, <2>4 DEF Contains, Distinct
  <2>5. ASSUME NEW x, Contains(s, x), x # e PROVE Contains(r, x)
    <3>1. PICK j \in 1..Len(s) : s[j] = x
      BY <2>5 DEF Contains
    <3>2. CASE j < k
      BY <1>2, <2>2, <3>1, <3>2 DEF Contains
    <3>3. CASE j > k
      <4>1. j - 1 \in 1..Len(r) /\ r[j - 1] = x
        BY <1>2, <2>2, <3>1, <3>3
      <4>. QED  BY <4>1 DEF Contains
    <3>. QED  BY <1>2, <2>5, <3>1, <3>2, <3>3
  <2>. QED  BY <2>1, <2>2, <2>3, <2>4, <2>5
<1>. QED  BY <1>1, <1>2 DEF Contains

LEMMA AppendKeeps ==
  ASSUME NEW S, NEW s \in Seq(S), Distinct(s), NEW e \in S, ~Contains(s, e)
  PROVE  /\ Append(s, e) \in Seq(S) /\ Distinct(Append(s, e))
         /\ Len(Append(s, e)) = Len(s) + 1
         /\ \A i \in 1..Len(s) : Append(s, e)[i] = s[i]
         /\ Append(s, e)[Len(s) + 1] = e
         /\ \A x : Contains(Append(s, e), x) <=> Contains(s, x) \/ x = e
<1>1. /\ Append(s, e) \in Seq(S) /\ Len(Append(s, e)) = Len(s) + 1 /\ Len(s) \in Nat
      /\ \A i \in 1..Len(s) : Append(s, e)[i] = s[i]
      /\ Append(s, e)[Len(s) + 1] = e
  BY AppendProperties
<1> DEFINE a == Append(s, e)
<1> HIDE DEF a
<1>2. Distinct(a)
  BY <1>1 DEF Distinct, Contains, a
<1>3. ASSUME NEW x PROVE Contains(a, x) <=> Contains(s, x) \/ x = e
  <2>1. Contains(a, x) => Contains(s, x) \/ x = e
    BY <1>1 DEF Contains, a
  <2>2. Contains(s, x) => Contains(a, x)
    BY <1>1 DEF Contains, a
  <2>3. Contains(a, e)
    BY <1>1 DEF Contains, a
  <2>. QED  BY <2>1, <2>2, <2>3
<1>. QED  BY <1>1, <1>2, <1>3 DEF a

\* The last element takes the place of the one at k.
LastAt(s, k) == Front([s EXCEPT ![k] = s[Len(s)]])

LEMMA SwapFacts ==
  ASSUME NEW S, NEW s \in Seq(S), NEW k \in 1..Len(s)
  PROVE  /\ LastAt(s, k) \in Seq(S) /\ Len(LastAt(s, k)) = Len(s) - 1
         /\ \A j \in 1..Len(s) - 1 : LastAt(s, k)[j] = IF j = k THEN s[Len(s)] ELSE s[j]
<1> DEFINE t == [s EXCEPT ![k] = s[Len(s)]]
           r == LastAt(s, k)
<1>1. Len(s) \in Nat /\ Len(s) \in 1..Len(s) /\ s[Len(s)] \in S
  BY ElementOfSeq
<1>2. /\ t \in Seq(S) /\ Len(t) = Len(s)
      /\ \A j \in 1..Len(s) : t[j] = IF j = k THEN s[Len(s)] ELSE s[j]
  BY <1>1, ExceptSeq
<1> HIDE DEF t, r
<1>3. r = SubSeq(t, 1, Len(t) - 1)
  BY DEF Front, LastAt, t, r
<1>4. /\ SubSeq(t, 1, Len(t) - 1) \in Seq(S)
      /\ Len(SubSeq(t, 1, Len(t) - 1)) = Len(t) - 1
      /\ \A j \in 1..Len(t) - 1 : SubSeq(t, 1, Len(t) - 1)[j] = t[j]
  <2>1. \A j \in 1..Len(t) - 1 : t[j] \in S
    BY <1>1, <1>2, ElementOfSeq
  <2>. QED  BY <1>1, <1>2, <2>1, SubSeqProperties
<1>5. r \in Seq(S) /\ Len(r) = Len(s) - 1
  BY <1>2, <1>3, <1>4
<1>6. \A j \in 1..Len(t) - 1 : r[j] = t[j]
  BY <1>3, <1>4
<1>7. \A j \in 1..Len(s) - 1 : j \in 1..Len(s)
  BY <1>1
<1>. QED  BY <1>2, <1>5, <1>6, <1>7 DEF r

-----------------------------------------------------------------------------
\* Tables.

Records == [entityId : Entity, instance : Value]

Tables ==
  [ denseEntities : Seq(Entity), denseRecords : Seq(Records),
    sparseEntityToRow : [Entity -> Nat] ]

Row(t, e) == t.sparseEntityToRow[e]
RecordOf(t, e) == t.denseRecords[Row(t, e)]

\* The sparse index is the inverse of the column of entities.
TableOK(t) ==
  /\ t \in Tables
  /\ Len(t.denseRecords) = Len(t.denseEntities)
  /\ \A e \in Entity : Row(t, e) \in 0..Len(t.denseEntities)
  /\ \A e \in Entity : Row(t, e) # 0 => t.denseEntities[Row(t, e)] = e
  /\ \A i \in 1..Len(t.denseEntities) :
       Row(t, t.denseEntities[i]) = i /\ t.denseRecords[i].entityId = t.denseEntities[i]

LEMMA TableFacts ==
  ASSUME NEW t, TableOK(t)
  PROVE  /\ t.denseEntities \in Seq(Entity) /\ t.denseRecords \in Seq(Records)
         /\ t.sparseEntityToRow \in [Entity -> Nat]
         /\ Len(t.denseEntities) \in Nat /\ Distinct(t.denseEntities)
         /\ \A i \in 1..Len(t.denseEntities) :
              t.denseEntities[i] \in Entity /\ t.denseRecords[i] \in Records
         /\ \A e \in Entity : Row(t, e) # 0 => Row(t, e) \in 1..Len(t.denseEntities)
         /\ \A e \in Entity : Row(t, e) # 0 <=> Contains(t.denseEntities, e)
<1>1. /\ t.denseEntities \in Seq(Entity) /\ t.denseRecords \in Seq(Records)
      /\ t.sparseEntityToRow \in [Entity -> Nat]
      /\ Len(t.denseEntities) \in Nat /\ Len(t.denseRecords) = Len(t.denseEntities)
  BY DEF TableOK, Tables
<1>2. \A i \in 1..Len(t.denseEntities) :
        t.denseEntities[i] \in Entity /\ t.denseRecords[i] \in Records
  BY <1>1, ElementOfSeq
<1>3. Distinct(t.denseEntities)
  BY DEF TableOK, Distinct
<1>4. \A e \in Entity : Row(t, e) # 0 => Row(t, e) \in 1..Len(t.denseEntities)
  BY <1>1 DEF TableOK
<1>5. \A e \in Entity : Row(t, e) # 0 <=> Contains(t.denseEntities, e)
  BY <1>1, <1>4 DEF TableOK, Contains
<1>. QED  BY <1>1, <1>2, <1>3, <1>4, <1>5

LEMMA NoTableOK == TableOK(NoTable) /\ \A e \in Entity : Row(NoTable, e) = 0
<1>1. NoTable.denseEntities = << >> /\ NoTable.denseRecords = << >>
      /\ \A e \in Entity : Row(NoTable, e) = 0
  BY DEF NoTable, Row
<1>2. NoTable \in Tables
  BY DEF NoTable, Tables
<1>. QED  BY <1>1, <1>2 DEF TableOK

\* set, for an entity without a row: it goes to the end.
LEMMA WithRowFacts ==
  ASSUME NEW t, TableOK(t), NEW e \in Entity, Row(t, e) = 0, NEW r \in Records,
         r.entityId = e, NEW u, u = WithRow(t, e, r)
  PROVE  /\ TableOK(u)
         /\ u.denseEntities = Append(t.denseEntities, e)
         /\ \A x \in Entity \ {e} : Row(u, x) = Row(t, x)
         /\ \A x \in Entity \ {e} : Row(t, x) # 0 => RecordOf(u, x) = RecordOf(t, x)
         /\ Row(u, e) # 0 /\ RecordOf(u, e) = r
<1> DEFINE n == Len(t.denseEntities)
<1>1. /\ t.denseEntities \in Seq(Entity) /\ t.denseRecords \in Seq(Records)
      /\ t.sparseEntityToRow \in [Entity -> Nat] /\ n \in Nat /\ Len(t.denseRecords) = n
      /\ \A i \in 1..n : t.denseEntities[i] \in Entity
      /\ \A x \in Entity : Row(t, x) # 0 => Row(t, x) \in 1..n
  BY TableFacts DEF TableOK
<1>2. /\ u.denseEntities = Append(t.denseEntities, e)
      /\ u.denseRecords = Append(t.denseRecords, r)
      /\ u.sparseEntityToRow = [t.sparseEntityToRow EXCEPT ![e] = n + 1]
      /\ u = [ denseEntities |-> u.denseEntities, denseRecords |-> u.denseRecords,
               sparseEntityToRow |-> u.sparseEntityToRow ]
  BY DEF WithRow
<1>3. /\ u.denseEntities \in Seq(Entity) /\ Len(u.denseEntities) = n + 1
      /\ \A i \in 1..n : u.denseEntities[i] = t.denseEntities[i]
      /\ u.denseEntities[n + 1] = e
      /\ u.denseRecords \in Seq(Records) /\ Len(u.denseRecords) = n + 1
      /\ \A i \in 1..n : u.denseRecords[i] = t.denseRecords[i]
      /\ u.denseRecords[n + 1] = r
  BY <1>1, <1>2, AppendProperties
<1>4. /\ u.sparseEntityToRow \in [Entity -> Nat]
      /\ Row(u, e) = n + 1 /\ \A x \in Entity \ {e} : Row(u, x) = Row(t, x)
  BY <1>1, <1>2 DEF Row
<1>5. u \in Tables
  BY <1>2, <1>3, <1>4 DEF Tables
<1>6. \A x \in Entity : Row(u, x) \in 0..n + 1 /\ (Row(u, x) # 0 => u.denseEntities[Row(u, x)] = x)
  <2>1. \A x \in Entity \ {e} :
          Row(t, x) \in 0..n /\ (Row(t, x) # 0 => t.denseEntities[Row(t, x)] = x)
    BY DEF TableOK
  <2>2. Row(u, e) \in 0..n + 1 /\ u.denseEntities[Row(u, e)] = e
    BY <1>1, <1>3, <1>4
  <2>3. ASSUME NEW x \in Entity \ {e}
        PROVE  Row(u, x) \in 0..n + 1 /\ (Row(u, x) # 0 => u.denseEntities[Row(u, x)] = x)
    <3>1. Row(u, x) = Row(t, x) /\ x \in Entity
      BY <1>4
    <3>2. CASE Row(t, x) = 0
      BY <1>1, <3>1, <3>2
    <3>3. CASE Row(t, x) # 0
      <4>1. Row(t, x) \in 1..n /\ t.denseEntities[Row(t, x)] = x
        BY <1>1, <2>1, <3>1, <3>3
      <4>2. u.denseEntities[Row(t, x)] = t.denseEntities[Row(t, x)]
        BY <1>3, <4>1
      <4>. QED  BY <1>1, <3>1, <4>1, <4>2
    <3>. QED  BY <3>2, <3>3
  <2>. QED  BY <2>2, <2>3
<1>7. \A i \in 1..n + 1 :
        Row(u, u.denseEntities[i]) = i /\ u.denseRecords[i].entityId = u.denseEntities[i]
  <2> SUFFICES ASSUME NEW i \in 1..n + 1
               PROVE  /\ Row(u, u.denseEntities[i]) = i
                      /\ u.denseRecords[i].entityId = u.denseEntities[i]
    OBVIOUS
  <2>1. CASE i = n + 1
    BY <1>3, <1>4, <2>1
  <2>2. CASE i \in 1..n
    <3>1. /\ Row(t, t.denseEntities[i]) = i /\ t.denseEntities[i] \in Entity
          /\ t.denseRecords[i].entityId = t.denseEntities[i]
      BY <1>1, <2>2 DEF TableOK
    <3>2. t.denseEntities[i] # e
      BY <2>2, <3>1
    <3>. QED  BY <1>3, <1>4, <2>2, <3>1, <3>2
  <2>. QED  BY <1>1, <2>1, <2>2
<1>8. TableOK(u)
  BY <1>3, <1>5, <1>6, <1>7 DEF TableOK
<1>9. \A x \in Entity \ {e} : Row(t, x) # 0 => RecordOf(u, x) = RecordOf(t, x)
  BY <1>1, <1>3, <1>4 DEF RecordOf
<1>. QED  BY <1>1, <1>2, <1>3, <1>4, <1>8, <1>9 DEF RecordOf

\* set, for an entity that has a row.
LEMMA OtherRecordFacts ==
  ASSUME NEW t, TableOK(t), NEW e \in Entity, Row(t, e) # 0, NEW r \in Records,
         r.entityId = e, NEW u, u = [t EXCEPT !.denseRecords[Row(t, e)] = r]
  PROVE  /\ TableOK(u)
         /\ u.denseEntities = t.denseEntities
         /\ \A x \in Entity : Row(u, x) = Row(t, x)
         /\ \A x \in Entity \ {e} : Row(t, x) # 0 => RecordOf(u, x) = RecordOf(t, x)
         /\ RecordOf(u, e) = r
<1> DEFINE n == Len(t.denseEntities)
<1>1. /\ t \in Tables /\ t.denseRecords \in Seq(Records) /\ n \in Nat
      /\ Len(t.denseRecords) = n
      /\ Row(t, e) \in 1..n /\ t.denseEntities[Row(t, e)] = e
      /\ \A x \in Entity : Row(t, x) # 0 => Row(t, x) \in 1..n /\ t.denseEntities[Row(t, x)] = x
  BY TableFacts DEF TableOK
<1>2. /\ u.denseEntities = t.denseEntities
      /\ u.denseRecords = [t.denseRecords EXCEPT ![Row(t, e)] = r]
      /\ u.sparseEntityToRow = t.sparseEntityToRow
      /\ u = [ denseEntities |-> u.denseEntities, denseRecords |-> u.denseRecords,
               sparseEntityToRow |-> u.sparseEntityToRow ]
  BY <1>1 DEF Tables
<1>3. /\ u.denseRecords \in Seq(Records) /\ Len(u.denseRecords) = n
      /\ \A i \in 1..n : u.denseRecords[i] = IF i = Row(t, e) THEN r ELSE t.denseRecords[i]
  BY <1>1, <1>2, ExceptSeq
<1>4. u \in Tables
  BY <1>1, <1>2, <1>3 DEF Tables
<1>5. \A x \in Entity : Row(u, x) = Row(t, x)
  BY <1>2 DEF Row
<1>6. TableOK(u)
  <2>1. \A i \in 1..n : t.denseEntities[i] \in Entity
    BY TableFacts
  <2>2. \A i \in 1..n : u.denseRecords[i].entityId = u.denseEntities[i]
    BY <1>1, <1>2, <1>3 DEF TableOK
  <2>3. Len(u.denseEntities) = n /\ Len(u.denseRecords) = n
    BY <1>2, <1>3
  <2>4. \A x \in Entity : Row(u, x) \in 0..n /\ (Row(u, x) # 0 => u.denseEntities[Row(u, x)] = x)
    BY <1>1, <1>2, <1>5 DEF TableOK
  <2>5. \A i \in 1..n : Row(u, u.denseEntities[i]) = i
    BY <1>2, <1>5, <2>1 DEF TableOK
  <2>. QED  BY <1>4, <2>2, <2>3, <2>4, <2>5 DEF TableOK
<1>7. \A x \in Entity \ {e} : Row(t, x) # 0 => RecordOf(u, x) = RecordOf(t, x)
  BY <1>1, <1>3, <1>5 DEF RecordOf
<1>. QED  BY <1>1, <1>2, <1>3, <1>5, <1>6, <1>7 DEF RecordOf

\* removeRecord: the last row moves into the hole.
LEMMA WithoutRowFacts ==
  ASSUME NEW t, TableOK(t), NEW e \in Entity, Row(t, e) # 0, NEW u, u = WithoutRow(t, e)
  PROVE  /\ TableOK(u)
         /\ Row(t, e) \in 1..Len(t.denseEntities) /\ t.denseEntities[Row(t, e)] = e
         /\ u.denseEntities = LastAt(t.denseEntities, Row(t, e))
         /\ \A x \in Entity \ {e} : Row(u, x) # 0 <=> Row(t, x) # 0
         /\ \A x \in Entity \ {e} : Row(t, x) # 0 => RecordOf(u, x) = RecordOf(t, x)
         /\ Row(u, e) = 0
<1> DEFINE n == Len(t.denseEntities)
           k == Row(t, e)
           last == t.denseEntities[n]
<1>1. /\ t.denseEntities \in Seq(Entity) /\ t.denseRecords \in Seq(Records)
      /\ t.sparseEntityToRow \in [Entity -> Nat] /\ n \in Nat /\ Len(t.denseRecords) = n
      /\ \A i \in 1..n : t.denseEntities[i] \in Entity /\ Row(t, t.denseEntities[i]) = i
      /\ \A x \in Entity : Row(t, x) # 0 => Row(t, x) \in 1..n /\ t.denseEntities[Row(t, x)] = x
      /\ k \in 1..n /\ n \in 1..n /\ last \in Entity
  BY TableFacts DEF TableOK
<1>2. /\ u.denseEntities = LastAt(t.denseEntities, k)
      /\ u.denseRecords = LastAt(t.denseRecords, k)
      /\ u.sparseEntityToRow = [t.sparseEntityToRow EXCEPT ![last] = k, ![e] = 0]
      /\ u = [ denseEntities |-> u.denseEntities, denseRecords |-> u.denseRecords,
               sparseEntityToRow |-> u.sparseEntityToRow ]
  BY <1>1 DEF WithoutRow, Row, LastAt
<1>3. /\ u.denseEntities \in Seq(Entity) /\ Len(u.denseEntities) = n - 1
      /\ \A j \in 1..n - 1 : u.denseEntities[j] = IF j = k THEN last ELSE t.denseEntities[j]
  <2>1. /\ LastAt(t.denseEntities, k) \in Seq(Entity)
        /\ Len(LastAt(t.denseEntities, k)) = Len(t.denseEntities) - 1
        /\ \A j \in 1..Len(t.denseEntities) - 1 :
             LastAt(t.denseEntities, k)[j] =
               IF j = k THEN t.denseEntities[Len(t.denseEntities)] ELSE t.denseEntities[j]
    <3>1. k \in 1..Len(t.denseEntities) /\ t.denseEntities \in Seq(Entity)
      BY <1>1
    <3> DEFINE s == t.denseEntities
    <3> HIDE DEF k, n, last, s
    <3>2. s \in Seq(Entity) /\ k \in 1..Len(s)
      BY <3>1 DEF s
    <3>3. /\ LastAt(s, k) \in Seq(Entity) /\ Len(LastAt(s, k)) = Len(s) - 1
          /\ \A j \in 1..Len(s) - 1 : LastAt(s, k)[j] = IF j = k THEN s[Len(s)] ELSE s[j]
      BY <3>2, SwapFacts
    <3>. QED  BY <3>3 DEF s
  <2>. QED  BY <1>2, <2>1
<1>4. /\ u.denseRecords \in Seq(Records) /\ Len(u.denseRecords) = n - 1
      /\ \A j \in 1..n - 1 :
           u.denseRecords[j] = IF j = k THEN t.denseRecords[n] ELSE t.denseRecords[j]
  <2>1. k \in 1..Len(t.denseRecords)
    BY <1>1
  <2>2. /\ LastAt(t.denseRecords, k) \in Seq(Records)
        /\ Len(LastAt(t.denseRecords, k)) = Len(t.denseRecords) - 1
        /\ \A j \in 1..Len(t.denseRecords) - 1 :
             LastAt(t.denseRecords, k)[j] =
               IF j = k THEN t.denseRecords[Len(t.denseRecords)] ELSE t.denseRecords[j]
    <3> DEFINE s == t.denseRecords
    <3> HIDE DEF k, n, last, s
    <3>1. s \in Seq(Records) /\ k \in 1..Len(s)
      BY <1>1, <2>1 DEF s
    <3>2. /\ LastAt(s, k) \in Seq(Records) /\ Len(LastAt(s, k)) = Len(s) - 1
          /\ \A j \in 1..Len(s) - 1 : LastAt(s, k)[j] = IF j = k THEN s[Len(s)] ELSE s[j]
      BY <3>1, SwapFacts
    <3>. QED  BY <3>2 DEF s
  <2>. QED  BY <1>1, <1>2, <2>2
<1> HIDE DEF n, k, last
<1>5. /\ u.sparseEntityToRow \in [Entity -> Nat] /\ Row(u, e) = 0
      /\ \A x \in Entity \ {e} : Row(u, x) = IF x = last THEN k ELSE Row(t, x)
  <2>1. /\ k \in Nat /\ last \in Entity /\ DOMAIN t.sparseEntityToRow = Entity
        /\ \A x \in Entity : t.sparseEntityToRow[x] \in Nat
    BY <1>1
  <2>2. u.sparseEntityToRow = [ x \in Entity |-> IF x = e THEN 0 ELSE IF x = last THEN k
                                                ELSE t.sparseEntityToRow[x] ]
    BY <1>2, <2>1
  <2>. QED  BY <2>1, <2>2 DEF Row
<1>6. u \in Tables
  BY <1>2, <1>3, <1>4, <1>5 DEF Tables
<1>7. ASSUME NEW x \in Entity \ {e}
      PROVE  /\ Row(u, x) \in 0..n - 1 /\ (Row(u, x) # 0 <=> Row(t, x) # 0)
             /\ Row(u, x) # 0 => u.denseEntities[Row(u, x)] = x /\ RecordOf(u, x) = RecordOf(t, x)
  <2>0. Row(t, e) = k /\ t.denseEntities[k] = e /\ t.denseEntities[n] = last
        /\ Row(t, last) = n /\ Row(t, x) \in Nat
    BY <1>1 DEF k, last, Row
  <2>1. CASE x = last
    <3>1. k # n
      BY <2>0, <2>1
    <3>2. k \in 1..n - 1 /\ Row(u, x) = k
      BY <1>1, <1>5, <2>1, <3>1
    <3>3. u.denseEntities[k] = x /\ u.denseRecords[k] = t.denseRecords[n]
      BY <1>3, <1>4, <2>1, <3>2
    <3>4. Row(t, x) = n /\ n # 0 /\ k # 0
      BY <1>1, <2>0, <2>1
    <3>5. RecordOf(u, x) = RecordOf(t, x)
      BY <3>2, <3>3, <3>4 DEF RecordOf
    <3>. QED  BY <1>1, <3>2, <3>3, <3>4, <3>5
  <2>2. CASE x # last
    <3>1. Row(u, x) = Row(t, x)
      BY <1>5, <2>2
    <3>2. Row(t, x) # 0 => Row(t, x) \in 1..n - 1 /\ Row(t, x) # k
      BY <1>1, <2>0, <2>2
    <3>3. Row(t, x) # 0 => t.denseEntities[Row(t, x)] = x
      BY <1>1
    <3>4. CASE Row(t, x) = 0
      BY <1>1, <3>1, <3>4
    <3>5. CASE Row(t, x) # 0
      <4>1. u.denseEntities[Row(t, x)] = x /\ u.denseRecords[Row(t, x)] = t.denseRecords[Row(t, x)]
        BY <1>3, <1>4, <3>2, <3>3, <3>5
      <4>2. RecordOf(u, x) = RecordOf(t, x)
        BY <3>1, <4>1 DEF RecordOf
      <4>3. Row(t, x) \in 0..n - 1
        BY <1>1, <3>2, <3>5
      <4>. QED  BY <3>1, <3>5, <4>1, <4>2, <4>3
    <3>. QED  BY <3>4, <3>5
  <2>. QED  BY <2>1, <2>2
<1>8. ASSUME NEW i \in 1..n - 1
      PROVE  Row(u, u.denseEntities[i]) = i /\ u.denseRecords[i].entityId = u.denseEntities[i]
  <2>a. Row(t, e) = k /\ t.denseEntities[k] = e /\ t.denseEntities[n] = last /\ i \in 1..n
    BY <1>1 DEF k, last
  <2>b. \A j \in 1..n : t.denseRecords[j].entityId = t.denseEntities[j]
    BY DEF TableOK, n
  <2>0. Row(t, e) = k /\ t.denseEntities[k] = e /\ t.denseEntities[n] = last
        /\ i \in 1..n /\ Row(t, last) = n
        /\ t.denseRecords[i].entityId = t.denseEntities[i] /\ t.denseRecords[n].entityId = last
    BY <1>1, <2>a, <2>b
  <2>1. CASE i = k
    <3>1. last # e
      BY <1>1, <2>0, <2>1
    <3>2. u.denseEntities[i] = last /\ u.denseRecords[i] = t.denseRecords[n] /\ Row(u, last) = k
      BY <1>1, <1>3, <1>4, <1>5, <2>1, <3>1
    <3>. QED  BY <2>0, <2>1, <3>2
  <2>2. CASE i # k
    <3>1. /\ t.denseEntities[i] \in Entity /\ t.denseEntities[i] # e /\ t.denseEntities[i] # last
          /\ Row(t, t.denseEntities[i]) = i
      BY <1>1, <2>0, <2>2
    <3>2. u.denseEntities[i] = t.denseEntities[i] /\ u.denseRecords[i] = t.denseRecords[i]
      BY <1>3, <1>4, <2>2
    <3>. QED  BY <1>5, <2>0, <3>1, <3>2
  <2>. QED  BY <2>1, <2>2
<1>9. TableOK(u)
  BY <1>1, <1>3, <1>4, <1>5, <1>6, <1>7, <1>8 DEF TableOK
<1>. QED  BY <1>1, <1>2, <1>5, <1>7, <1>9 DEF n, k, last

-----------------------------------------------------------------------------
\* The storage, and its index of archetypes.

Storages ==
  [ entities : SUBSET Entity, componentsByEntity : [Entity -> Seq(Component)],
    tables : [Component -> Tables], bucketByEntity : [Entity -> SUBSET Component],
    signatures : Seq(SUBSET Component), buckets : [SUBSET Component -> Seq(Entity)],
    matchingBuckets : [Query -> Seq(SUBSET Component)] ]

Wide(s) == Cardinality(s) > 1

LEMMA WideFacts ==
  /\ ~Wide({}) /\ \A c : ~Wide({c})
  /\ \A s \in SUBSET Component :
       /\ IsFiniteSet(s) /\ Cardinality(s) \in Nat
       /\ \A c : c \notin s => Cardinality(s \cup {c}) = Cardinality(s) + 1
       /\ \A c : c \in s => Cardinality(s \ {c}) = Cardinality(s) - 1
<1>1. ~Wide({}) /\ \A c : ~Wide({c})
  BY FS_EmptySet, FS_Singleton DEF Wide
<1>2. ASSUME NEW s \in SUBSET Component PROVE IsFiniteSet(s) /\ Cardinality(s) \in Nat
  BY StorageAssumption, FS_Subset, FS_CardinalityType
<1>. QED  BY <1>1, <1>2, FS_AddElement, FS_RemoveElement

\* The signatures that match a query, each in its place.
Masked(signatures, Q) ==
  [i \in DOMAIN signatures |-> IF SignatureContains(signatures[i], Q)
                               THEN signatures[i] ELSE NoBucket]

\* An entity is in the bucket that it is assigned to and in no other; the
\* buckets of a query that are cached are those that match.
IndexOK(st) ==
  /\ Distinct(st.signatures)
  /\ \A i \in 1..Len(st.signatures) : Wide(st.signatures[i])
  /\ \A s \in SUBSET Component : Distinct(st.buckets[s])
  /\ \A s \in SUBSET Component, e \in Entity :
       Contains(st.buckets[s], e) <=> s # NoBucket /\ st.bucketByEntity[e] = s
  /\ \A e \in Entity :
       st.bucketByEntity[e] # NoBucket => Contains(st.signatures, st.bucketByEntity[e])
  /\ \A Q \in Query : st.matchingBuckets[Q] \in {Uncached, Masked(st.signatures, Q)}

SameRecords(st, u) ==
  /\ u.entities = st.entities
  /\ u.componentsByEntity = st.componentsByEntity
  /\ u.tables = st.tables

\* How a sequence changes when an entity joins or leaves.
Joined(before, after, e) == ~Contains(before, e) /\ after = Append(before, e)
ClosedUp(before, after, e) ==
  \E k \in 1..Len(before) : before[k] = e /\ after = RemoveAt(before, k)
Swapped(before, after, e) ==
  \E k \in 1..Len(before) : before[k] = e /\ after = LastAt(before, k)

BucketMoves(st, u, e) ==
  \A s \in SUBSET Component :
    \/ u.buckets[s] = st.buckets[s]
    \/ Joined(st.buckets[s], u.buckets[s], e)
    \/ ClosedUp(st.buckets[s], u.buckets[s], e)

\* A storage is the record of its parts.
LEMMA IndexTyped ==
  ASSUME NEW st \in Storages, NEW u,
         u = [ entities |-> u.entities, componentsByEntity |-> u.componentsByEntity,
               tables |-> u.tables, bucketByEntity |-> u.bucketByEntity,
               signatures |-> u.signatures, buckets |-> u.buckets,
               matchingBuckets |-> u.matchingBuckets ],
         SameRecords(st, u),
         u.bucketByEntity \in [Entity -> SUBSET Component],
         u.signatures \in Seq(SUBSET Component),
         u.buckets \in [SUBSET Component -> Seq(Entity)],
         u.matchingBuckets \in [Query -> Seq(SUBSET Component)]
  PROVE  u \in Storages
<1>1. /\ u.entities \in SUBSET Entity
      /\ u.componentsByEntity \in [Entity -> Seq(Component)]
      /\ u.tables \in [Component -> Tables]
  BY DEF Storages, SameRecords
<1>. QED  BY <1>1 DEF Storages

LEMMA FromBucketFacts ==
  ASSUME NEW st \in Storages, IndexOK(st), NEW e \in Entity,
         st.bucketByEntity[e] # NoBucket, NEW u, u = FromBucket(st, e)
  PROVE  /\ u \in Storages /\ IndexOK(u) /\ SameRecords(st, u)
         /\ u.bucketByEntity = [st.bucketByEntity EXCEPT ![e] = NoBucket]
         /\ \A s \in (SUBSET Component) \ {st.bucketByEntity[e]} : u.buckets[s] = st.buckets[s]
         /\ ClosedUp(st.buckets[st.bucketByEntity[e]], u.buckets[st.bucketByEntity[e]], e)
<1> DEFINE b == st.bucketByEntity[e]
           after == RemoveFirst(st.buckets[b], e)
<1>1. /\ b \in SUBSET Component /\ st.buckets[b] \in Seq(Entity) /\ Distinct(st.buckets[b])
      /\ Contains(st.buckets[b], e)
  BY DEF Storages, IndexOK
<1>2. /\ after \in Seq(Entity) /\ Distinct(after)
      /\ \A x : Contains(after, x) <=> Contains(st.buckets[b], x) /\ x # e
  <2> HIDE DEF b
  <2>. QED  BY <1>1, RemoveFirstKeeps
<1>3. ClosedUp(st.buckets[b], after, e)
  <2> HIDE DEF b
  <2>1. PICK k \in 1..Len(st.buckets[b]) : st.buckets[b][k] = e
    BY <1>1 DEF Contains
  <2>2. after = RemoveAt(st.buckets[b], k)
    BY <1>1, <2>1, RemoveFirstFacts
  <2> HIDE DEF after
  <2>. QED  BY <2>1, <2>2 DEF ClosedUp
<1> HIDE DEF after
<1>4. u = [st EXCEPT !.buckets[b] = after, !.bucketByEntity[e] = NoBucket]
  BY DEF FromBucket, after
<1> HIDE DEF b
<1>5. /\ u \in Storages /\ SameRecords(st, u)
      /\ u.signatures = st.signatures /\ u.matchingBuckets = st.matchingBuckets
      /\ u.bucketByEntity = [st.bucketByEntity EXCEPT ![e] = NoBucket]
      /\ u.buckets = [st.buckets EXCEPT ![b] = after]
  <2>1. NoBucket \in SUBSET Component
    BY DEF NoBucket
  <2>2. /\ SameRecords(st, u)
        /\ u.signatures = st.signatures /\ u.matchingBuckets = st.matchingBuckets
        /\ u.bucketByEntity = [st.bucketByEntity EXCEPT ![e] = NoBucket]
        /\ u.buckets = [st.buckets EXCEPT ![b] = after]
    BY <1>4 DEF Storages, SameRecords
  <2>3. u \in Storages
    <3>1. u.bucketByEntity \in [Entity -> SUBSET Component]
      BY <2>1, <2>2 DEF Storages
    <3>2. u.buckets \in [SUBSET Component -> Seq(Entity)]
      BY <1>1, <1>2, <2>2 DEF Storages
    <3>3. u = [ entities |-> u.entities, componentsByEntity |-> u.componentsByEntity,
                tables |-> u.tables, bucketByEntity |-> u.bucketByEntity,
                signatures |-> u.signatures, buckets |-> u.buckets,
                matchingBuckets |-> u.matchingBuckets ]
      BY <1>4 DEF Storages
    <3>4. u.signatures \in Seq(SUBSET Component)
          /\ u.matchingBuckets \in [Query -> Seq(SUBSET Component)]
      BY <2>2 DEF Storages
    <3>. QED  BY <2>2, <3>1, <3>2, <3>3, <3>4, IndexTyped
  <2>. QED  BY <2>2, <2>3
<1>6. /\ \A s \in SUBSET Component : u.buckets[s] = IF s = b THEN after ELSE st.buckets[s]
      /\ \A x \in Entity :
           u.bucketByEntity[x] = IF x = e THEN NoBucket ELSE st.bucketByEntity[x]
  BY <1>1, <1>5 DEF Storages
<1>7. \A s \in SUBSET Component : Distinct(u.buckets[s])
  BY <1>2, <1>6 DEF IndexOK
<1>8. ASSUME NEW s \in SUBSET Component, NEW x \in Entity
      PROVE  Contains(u.buckets[s], x) <=> s # NoBucket /\ u.bucketByEntity[x] = s
  <2>1. Contains(st.buckets[s], x) <=> s # NoBucket /\ st.bucketByEntity[x] = s
    BY DEF IndexOK
  <2>2. b = st.bucketByEntity[e] /\ b # NoBucket
    BY DEF b
  <2>3. CASE s = b
    BY <1>2, <1>6, <2>1, <2>2, <2>3
  <2>4. CASE s # b
    BY <1>6, <2>1, <2>2, <2>4
  <2>. QED  BY <2>3, <2>4
<1>9. IndexOK(u)
  BY <1>5, <1>6, <1>7, <1>8 DEF IndexOK
<1>10. ClosedUp(st.buckets[b], u.buckets[b], e) /\ b = st.bucketByEntity[e]
  BY <1>1, <1>3, <1>6 DEF b
<1>. QED  BY <1>5, <1>6, <1>9, <1>10

LEMMA BucketForFacts ==
  ASSUME NEW st \in Storages, IndexOK(st), NEW s \in SUBSET Component, Wide(s),
         NEW u, u = BucketFor(st, s)
  PROVE  /\ u \in Storages /\ IndexOK(u) /\ SameRecords(st, u)
         /\ u.bucketByEntity = st.bucketByEntity /\ u.buckets = st.buckets
         /\ Contains(u.signatures, s)
<1>1. CASE Contains(st.signatures, s)
  BY <1>1 DEF BucketFor, SameRecords
<1>2. CASE ~Contains(st.signatures, s)
  <2>1. u = [st EXCEPT !.signatures = Append(@, s),
                       !.matchingBuckets = [Q \in Query |-> Uncached]]
    BY <1>2 DEF BucketFor
  <2>2. st.signatures \in Seq(SUBSET Component)
    BY DEF Storages
  <2>3. Uncached \in Seq(SUBSET Component)
    BY DEF Uncached, NoBucket
  <2> DEFINE a == Append(st.signatures, s)
  <2>4. /\ a \in Seq(SUBSET Component) /\ Distinct(a) /\ Len(a) = Len(st.signatures) + 1
        /\ \A i \in 1..Len(st.signatures) : a[i] = st.signatures[i]
        /\ a[Len(st.signatures) + 1] = s
        /\ \A x : Contains(a, x) <=> Contains(st.signatures, x) \/ x = s
        /\ Len(st.signatures) \in Nat
    BY <1>2, <2>2, AppendKeeps DEF IndexOK
  <2>5. u.signatures = a
    BY <2>1 DEF Storages
  <2> HIDE DEF a
  <2>6. /\ SameRecords(st, u)
        /\ u.bucketByEntity = st.bucketByEntity /\ u.buckets = st.buckets
        /\ u.matchingBuckets = [Q \in Query |-> Uncached]
    BY <2>1 DEF Storages, SameRecords
  <2>9. u \in Storages
    <3>1. u = [ entities |-> u.entities, componentsByEntity |-> u.componentsByEntity,
                tables |-> u.tables, bucketByEntity |-> u.bucketByEntity,
                signatures |-> u.signatures, buckets |-> u.buckets,
                matchingBuckets |-> u.matchingBuckets ]
      BY <2>1 DEF Storages
    <3>2. /\ u.signatures \in Seq(SUBSET Component)
          /\ u.bucketByEntity \in [Entity -> SUBSET Component]
          /\ u.buckets \in [SUBSET Component -> Seq(Entity)]
      BY <2>4, <2>5, <2>6 DEF Storages
    <3>3. u.matchingBuckets \in [Query -> Seq(SUBSET Component)]
      BY <2>3, <2>6
    <3>. QED  BY <2>6, <3>1, <3>2, <3>3, IndexTyped
  <2>7. \A i \in 1..Len(a) : Wide(a[i])
    BY <2>4 DEF IndexOK
  <2>8. IndexOK(u)
    BY <2>4, <2>5, <2>6, <2>7 DEF IndexOK
  <2>. QED  BY <2>4, <2>5, <2>6, <2>8, <2>9
<1>. QED  BY <1>1, <1>2

LEMMA ToBucketFacts ==
  ASSUME NEW st \in Storages, IndexOK(st), NEW e \in Entity,
         st.bucketByEntity[e] = NoBucket, NEW s \in SUBSET Component, Wide(s),
         NEW u, u = ToBucket(st, e, s)
  PROVE  /\ u \in Storages /\ IndexOK(u) /\ SameRecords(st, u)
         /\ u.bucketByEntity = [st.bucketByEntity EXCEPT ![e] = s]
         /\ \A d \in (SUBSET Component) \ {s} : u.buckets[d] = st.buckets[d]
         /\ Joined(st.buckets[s], u.buckets[s], e)
<1> DEFINE w == BucketFor(st, s)
           after == Append(st.buckets[s], e)
<1>1. /\ w \in Storages /\ IndexOK(w) /\ SameRecords(st, w)
      /\ w.bucketByEntity = st.bucketByEntity /\ w.buckets = st.buckets
      /\ Contains(w.signatures, s)
  BY BucketForFacts
<1> HIDE DEF w
<1>2. s # NoBucket
  BY WideFacts DEF NoBucket
<1>3. st.buckets[s] \in Seq(Entity) /\ Distinct(st.buckets[s]) /\ ~Contains(st.buckets[s], e)
  BY <1>2 DEF Storages, IndexOK
<1>4. RemoveFirst(st.buckets[s], e) = st.buckets[s]
  BY <1>3, RemoveFirstFacts
<1>5. /\ after \in Seq(Entity) /\ Distinct(after)
      /\ \A x : Contains(after, x) <=> Contains(st.buckets[s], x) \/ x = e
  BY <1>3, AppendKeeps
<1>6. u = [w EXCEPT !.bucketByEntity[e] = s, !.buckets[s] = after]
  <2>1. u = [w EXCEPT !.bucketByEntity[e] = s,
                      !.buckets[s] = Append(RemoveFirst(w.buckets[s], e), e)]
    BY <1>1 DEF ToBucket, w
  <2>. QED  BY <1>1, <1>4, <2>1
<1> HIDE DEF after
<1>7. /\ u \in Storages /\ SameRecords(st, u)
      /\ u.signatures = w.signatures /\ u.matchingBuckets = w.matchingBuckets
      /\ u.bucketByEntity = [st.bucketByEntity EXCEPT ![e] = s]
      /\ u.buckets = [st.buckets EXCEPT ![s] = after]
  <2>1. /\ SameRecords(st, u)
        /\ u.signatures = w.signatures /\ u.matchingBuckets = w.matchingBuckets
        /\ u.bucketByEntity = [st.bucketByEntity EXCEPT ![e] = s]
        /\ u.buckets = [st.buckets EXCEPT ![s] = after]
    BY <1>1, <1>6 DEF Storages, SameRecords
  <2>2. u = [ entities |-> u.entities, componentsByEntity |-> u.componentsByEntity,
              tables |-> u.tables, bucketByEntity |-> u.bucketByEntity,
              signatures |-> u.signatures, buckets |-> u.buckets,
              matchingBuckets |-> u.matchingBuckets ]
    BY <1>1, <1>6 DEF Storages
  <2>3. /\ u.signatures \in Seq(SUBSET Component)
        /\ u.matchingBuckets \in [Query -> Seq(SUBSET Component)]
        /\ u.bucketByEntity \in [Entity -> SUBSET Component]
    BY <1>1, <2>1 DEF Storages
  <2>4. u.buckets \in [SUBSET Component -> Seq(Entity)]
    BY <1>5, <2>1 DEF Storages
  <2>. QED  BY <2>1, <2>2, <2>3, <2>4, IndexTyped
<1>8. /\ \A d \in SUBSET Component : u.buckets[d] = IF d = s THEN after ELSE st.buckets[d]
      /\ \A x \in Entity : u.bucketByEntity[x] = IF x = e THEN s ELSE st.bucketByEntity[x]
  BY <1>7 DEF Storages
<1>9. \A d \in SUBSET Component : Distinct(u.buckets[d])
  BY <1>5, <1>8 DEF IndexOK
<1>10. ASSUME NEW d \in SUBSET Component, NEW x \in Entity
       PROVE  Contains(u.buckets[d], x) <=> d # NoBucket /\ u.bucketByEntity[x] = d
  <2>1. Contains(st.buckets[d], x) <=> d # NoBucket /\ st.bucketByEntity[x] = d
    BY DEF IndexOK
  <2>2. CASE d = s
    BY <1>2, <1>5, <1>8, <2>1, <2>2
  <2>3. CASE d # s
    BY <1>8, <2>1, <2>3
  <2>. QED  BY <2>2, <2>3
<1>11. \A x \in Entity :
         u.bucketByEntity[x] # NoBucket => Contains(u.signatures, u.bucketByEntity[x])
  BY <1>1, <1>7, <1>8 DEF IndexOK
<1>12. IndexOK(u)
  BY <1>1, <1>7, <1>9, <1>10, <1>11 DEF IndexOK
<1>13. Joined(st.buckets[s], u.buckets[s], e)
  BY <1>3, <1>8 DEF Joined, after
<1>. QED  BY <1>7, <1>8, <1>12, <1>13

\* An entity moves from its bucket to that of another signature.
LEMMA RebucketFacts ==
  ASSUME NEW st \in Storages, IndexOK(st), NEW e \in Entity,
         st.bucketByEntity[e] # NoBucket,
         NEW s \in SUBSET Component, Wide(s), s # st.bucketByEntity[e],
         NEW u, u = ToBucket(FromBucket(st, e), e, s)
  PROVE  /\ u \in Storages /\ IndexOK(u) /\ SameRecords(st, u) /\ BucketMoves(st, u, e)
         /\ u.bucketByEntity = [st.bucketByEntity EXCEPT ![e] = s]
<1> DEFINE w == FromBucket(st, e)
           b == st.bucketByEntity[e]
<1>1. /\ w \in Storages /\ IndexOK(w) /\ SameRecords(st, w)
      /\ w.bucketByEntity = [st.bucketByEntity EXCEPT ![e] = NoBucket]
      /\ \A d \in (SUBSET Component) \ {b} : w.buckets[d] = st.buckets[d]
      /\ ClosedUp(st.buckets[b], w.buckets[b], e)
  BY FromBucketFacts
<1> HIDE DEF w
<1>2. w.bucketByEntity[e] = NoBucket /\ u = ToBucket(w, e, s)
  BY <1>1 DEF Storages, w
<1>3. /\ u \in Storages /\ IndexOK(u) /\ SameRecords(w, u)
      /\ u.bucketByEntity = [w.bucketByEntity EXCEPT ![e] = s]
      /\ \A d \in (SUBSET Component) \ {s} : u.buckets[d] = w.buckets[d]
      /\ Joined(w.buckets[s], u.buckets[s], e)
  BY <1>1, <1>2, ToBucketFacts
<1>4. SameRecords(st, u)
  BY <1>1, <1>3 DEF SameRecords
<1>5. u.bucketByEntity = [st.bucketByEntity EXCEPT ![e] = s]
  BY <1>1, <1>3 DEF Storages
<1>6. ASSUME NEW d \in SUBSET Component
      PROVE  \/ u.buckets[d] = st.buckets[d]
             \/ Joined(st.buckets[d], u.buckets[d], e)
             \/ ClosedUp(st.buckets[d], u.buckets[d], e)
  <2>1. CASE d = s
    BY <1>1, <1>3, <2>1
  <2>2. CASE d = b
    BY <1>1, <1>3, <2>2
  <2>3. CASE d # s /\ d # b
    BY <1>1, <1>3, <2>3
  <2>. QED  BY <2>1, <2>2, <2>3
<1>. QED  BY <1>3, <1>4, <1>5, <1>6 DEF BucketMoves

\* Where an entity belongs after a component came or went.
BucketWith(previous, c, components) ==
  IF previous # NoBucket THEN previous \cup {c}
  ELSE IF Wide(components) THEN components ELSE NoBucket

BucketWithout(previous, c) ==
  IF Wide(previous \ {c}) THEN previous \ {c} ELSE NoBucket

LEMMA IndexAddFacts ==
  ASSUME NEW st \in Storages, IndexOK(st), NEW e \in Entity, NEW c \in Component,
         c \notin st.bucketByEntity[e], NEW u, u = IndexAdd(st, e, c)
  PROVE  /\ u \in Storages /\ IndexOK(u) /\ SameRecords(st, u) /\ BucketMoves(st, u, e)
         /\ u.bucketByEntity =
              [st.bucketByEntity EXCEPT
                 ![e] = BucketWith(st.bucketByEntity[e], c, ToSet(st.componentsByEntity[e]))]
<1> DEFINE previous == st.bucketByEntity[e]
           components == ToSet(st.componentsByEntity[e])
<1>1. /\ previous \in SUBSET Component /\ components \in SUBSET Component
      /\ st.bucketByEntity \in [Entity -> SUBSET Component]
  <2>1. st.componentsByEntity[e] \in Seq(Component) /\ previous \in SUBSET Component
        /\ st.bucketByEntity \in [Entity -> SUBSET Component]
    BY DEF Storages
  <2>2. components \subseteq Component
    BY <2>1, ElementOfSeq, LenProperties DEF ToSet
  <2>. QED  BY <2>1, <2>2
<1>a. u = IF previous = NoBucket
          THEN IF Cardinality(components) < 2 THEN st ELSE ToBucket(st, e, components)
          ELSE ToBucket(FromBucket(st, e), e, previous \cup {c})
  BY DEF IndexAdd, SignatureWith
<1> DEFINE goal == BucketWith(previous, c, components)
<1>2. CASE previous = NoBucket /\ ~Wide(components)
  <2>1. u = st
    BY <1>1, <1>2, <1>a, WideFacts DEF Wide
  <2>2. goal = st.bucketByEntity[e]
    BY <1>2 DEF BucketWith
  <2>3. st.bucketByEntity = [st.bucketByEntity EXCEPT ![e] = goal]
    BY <1>1, <2>2
  <2>. QED  BY <2>1, <2>3 DEF SameRecords, BucketMoves
<1>3. CASE previous = NoBucket /\ Wide(components)
  <2>1. u = ToBucket(st, e, components)
    BY <1>1, <1>3, <1>a, WideFacts DEF Wide
  <2> HIDE DEF components, previous
  <2>2. previous = st.bucketByEntity[e]
    BY DEF previous
  <2>3. /\ u \in Storages /\ IndexOK(u) /\ SameRecords(st, u)
        /\ u.bucketByEntity = [st.bucketByEntity EXCEPT ![e] = components]
        /\ \A d \in (SUBSET Component) \ {components} : u.buckets[d] = st.buckets[d]
        /\ Joined(st.buckets[components], u.buckets[components], e)
    BY <1>1, <1>3, <2>1, <2>2, ToBucketFacts
  <2>4. BucketMoves(st, u, e)
    BY <2>3 DEF BucketMoves
  <2>5. goal = components
    BY <1>3 DEF BucketWith, previous
  <2>. QED  BY <2>3, <2>4, <2>5 DEF previous, components
<1>4. CASE previous # NoBucket
  <2>1. u = ToBucket(FromBucket(st, e), e, previous \cup {c})
    BY <1>4, <1>a
  <2>2. Wide(previous)
    BY <1>4 DEF IndexOK, Contains
  <2>3. /\ Wide(previous \cup {c}) /\ previous \cup {c} \in SUBSET Component
        /\ previous \cup {c} # previous
    BY <1>1, <2>2, WideFacts DEF Wide
  <2>4. goal = previous \cup {c}
    BY <1>4 DEF BucketWith
  <2>5. /\ u \in Storages /\ IndexOK(u) /\ SameRecords(st, u) /\ BucketMoves(st, u, e)
        /\ u.bucketByEntity = [st.bucketByEntity EXCEPT ![e] = previous \cup {c}]
    BY <1>4, <2>1, <2>3, RebucketFacts
  <2>. QED  BY <2>4, <2>5
<1>. QED  BY <1>2, <1>3, <1>4

LEMMA IndexRemoveFacts ==
  ASSUME NEW st \in Storages, IndexOK(st), NEW e \in Entity, NEW c \in Component,
         NEW u, u = IndexRemove(st, e, c)
  PROVE  /\ u \in Storages /\ IndexOK(u) /\ SameRecords(st, u) /\ BucketMoves(st, u, e)
         /\ u.bucketByEntity =
              [st.bucketByEntity EXCEPT ![e] = BucketWithout(st.bucketByEntity[e], c)]
<1> DEFINE previous == st.bucketByEntity[e]
           goal == BucketWithout(previous, c)
<1>1. /\ previous \in SUBSET Component
      /\ st.bucketByEntity \in [Entity -> SUBSET Component]
      /\ previous # NoBucket => Wide(previous)
  BY DEF Storages, IndexOK, Contains
<1>2. u = IF c \notin previous THEN st
          ELSE IF Cardinality(previous) = 2 THEN FromBucket(st, e)
          ELSE ToBucket(FromBucket(st, e), e, previous \ {c})
  BY DEF IndexRemove, SignatureWithout
<1>3. CASE c \notin previous
  <2>1. previous \ {c} = previous
    BY <1>3
  <2>2. goal = previous
    BY <1>1, <2>1 DEF BucketWithout
  <2>3. st.bucketByEntity = [st.bucketByEntity EXCEPT ![e] = goal]
    BY <1>1, <2>2
  <2>. QED  BY <1>2, <1>3, <2>3 DEF SameRecords, BucketMoves
<1>4. CASE c \in previous /\ Cardinality(previous) = 2
  <2>1. u = FromBucket(st, e) /\ previous # NoBucket
    BY <1>2, <1>4 DEF NoBucket
  <2>2. ~Wide(previous \ {c})
    BY <1>1, <1>4, WideFacts DEF Wide
  <2>3. goal = NoBucket
    BY <2>2 DEF BucketWithout
  <2>4. /\ u \in Storages /\ IndexOK(u) /\ SameRecords(st, u)
        /\ u.bucketByEntity = [st.bucketByEntity EXCEPT ![e] = NoBucket]
        /\ \A d \in (SUBSET Component) \ {previous} : u.buckets[d] = st.buckets[d]
        /\ ClosedUp(st.buckets[previous], u.buckets[previous], e)
    BY <2>1, FromBucketFacts
  <2>5. BucketMoves(st, u, e)
    <3> HIDE DEF previous
    <3>. QED  BY <2>4 DEF BucketMoves
  <2>. QED  BY <2>3, <2>4, <2>5
<1>5. CASE c \in previous /\ Cardinality(previous) # 2
  <2>1. u = ToBucket(FromBucket(st, e), e, previous \ {c}) /\ previous # NoBucket
    BY <1>2, <1>5 DEF NoBucket
  <2>2. /\ Wide(previous \ {c}) /\ previous \ {c} \in SUBSET Component
        /\ previous \ {c} # previous
    BY <1>1, <1>5, <2>1, WideFacts DEF Wide
  <2>3. goal = previous \ {c}
    BY <2>2 DEF BucketWithout
  <2>4. /\ u \in Storages /\ IndexOK(u) /\ SameRecords(st, u) /\ BucketMoves(st, u, e)
        /\ u.bucketByEntity = [st.bucketByEntity EXCEPT ![e] = previous \ {c}]
    <3> DEFINE less == previous \ {c}
    <3>1. /\ Wide(less) /\ less \in SUBSET Component /\ less # previous /\ previous # NoBucket
          /\ u = ToBucket(FromBucket(st, e), e, less)
      BY <2>1, <2>2
    <3> HIDE DEF less
    <3>2. /\ u \in Storages /\ IndexOK(u) /\ SameRecords(st, u) /\ BucketMoves(st, u, e)
          /\ u.bucketByEntity = [st.bucketByEntity EXCEPT ![e] = less]
      BY <3>1, RebucketFacts
    <3>. QED  BY <3>2 DEF less
  <2>. QED  BY <2>3, <2>4
<1>. QED  BY <1>3, <1>4, <1>5

-----------------------------------------------------------------------------
\* The methods of the storage.

\* A component has a record of an entity where both the table and the list of
\* the entity's components say so.
RecordsOK(st) ==
  /\ \A c \in Component : TableOK(st.tables[c])
  /\ \A e \in Entity : Distinct(st.componentsByEntity[e])
  /\ \A e \in Entity, c \in Component :
       Row(st.tables[c], e) # 0 <=> Contains(st.componentsByEntity[e], c)
  /\ \A e \in Entity : st.componentsByEntity[e] # << >> => e \in st.entities

\* The bucket of an entity is that of its components, if it has two or more.
BucketOf(components) == IF Wide(ToSet(components)) THEN ToSet(components) ELSE NoBucket

StorageOK(st) ==
  /\ st \in Storages
  /\ RecordsOK(st)
  /\ IndexOK(st)
  /\ \A e \in Entity : st.bucketByEntity[e] = BucketOf(st.componentsByEntity[e])

\* What a call about e does to the records of others, and to the tables.
OthersKeep(st, u, e) ==
  /\ u.entities \ {e} = st.entities \ {e}
  /\ \A x \in Entity \ {e} :
       /\ u.componentsByEntity[x] = st.componentsByEntity[x]
       /\ \A c \in Component :
            /\ Row(u.tables[c], x) # 0 <=> Row(st.tables[c], x) # 0
            /\ Row(st.tables[c], x) # 0
                 => RecordOf(u.tables[c], x) = RecordOf(st.tables[c], x)

TableMoves(st, u, e) ==
  \A c \in Component :
    \/ u.tables[c].denseEntities = st.tables[c].denseEntities
    \/ Joined(st.tables[c].denseEntities, u.tables[c].denseEntities, e)
    \/ Swapped(st.tables[c].denseEntities, u.tables[c].denseEntities, e)

LEMMA ToSetFacts ==
  ASSUME NEW S, NEW s \in Seq(S)
  PROVE  /\ ToSet(s) \subseteq S
         /\ \A x : x \in ToSet(s) <=> Contains(s, x)
BY ElementOfSeq, LenProperties DEF ToSet, Contains

\* Storages that differ in what is said of the entities and their records.
SameIndex(st, u) ==
  /\ u.bucketByEntity = st.bucketByEntity
  /\ u.signatures = st.signatures
  /\ u.buckets = st.buckets
  /\ u.matchingBuckets = st.matchingBuckets

LEMMA RecordsTyped ==
  ASSUME NEW st \in Storages, NEW u,
         u = [ entities |-> u.entities, componentsByEntity |-> u.componentsByEntity,
               tables |-> u.tables, bucketByEntity |-> u.bucketByEntity,
               signatures |-> u.signatures, buckets |-> u.buckets,
               matchingBuckets |-> u.matchingBuckets ],
         SameIndex(st, u),
         u.entities \in SUBSET Entity,
         u.componentsByEntity \in [Entity -> Seq(Component)],
         u.tables \in [Component -> Tables]
  PROVE  u \in Storages
<1>1. /\ u.bucketByEntity \in [Entity -> SUBSET Component]
      /\ u.signatures \in Seq(SUBSET Component)
      /\ u.buckets \in [SUBSET Component -> Seq(Entity)]
      /\ u.matchingBuckets \in [Query -> Seq(SUBSET Component)]
  BY DEF Storages, SameIndex
<1>. QED  BY <1>1 DEF Storages

LEMMA SameIndexOK ==
  ASSUME NEW st, IndexOK(st), NEW u, SameIndex(st, u)
  PROVE  IndexOK(u)
BY DEF IndexOK, SameIndex

\* Reindexing leaves the records as they are.
LEMMA SameRecordsOK ==
  ASSUME NEW st, RecordsOK(st), NEW u, SameRecords(st, u)
  PROVE  RecordsOK(u)
BY DEF RecordsOK, SameRecords

\* One table is replaced: the records that it has are those that are listed.
Edited(st, entities, c, t, e, listed) ==
  [st EXCEPT !.entities = entities, !.tables[c] = t, !.componentsByEntity[e] = listed]

LEMMA OneTable ==
  ASSUME NEW st \in Storages, RecordsOK(st), NEW e \in Entity, NEW c \in Component,
         NEW t, TableOK(t),
         \A x \in Entity \ {e} : Row(t, x) # 0 <=> Row(st.tables[c], x) # 0,
         \A x \in Entity \ {e} :
           Row(st.tables[c], x) # 0 => RecordOf(t, x) = RecordOf(st.tables[c], x),
         NEW listed \in Seq(Component), Distinct(listed),
         \A d \in Component :
           Contains(listed, d) <=> (IF d = c THEN Row(t, e) # 0
                                    ELSE Contains(st.componentsByEntity[e], d)),
         NEW entities \in SUBSET Entity, entities \ {e} = st.entities \ {e},
         listed # << >> => e \in entities,
         NEW u, u = Edited(st, entities, c, t, e, listed)
  PROVE  /\ u \in Storages /\ RecordsOK(u) /\ SameIndex(st, u) /\ OthersKeep(st, u, e)
         /\ u.entities = entities
         /\ u.componentsByEntity = [st.componentsByEntity EXCEPT ![e] = listed]
         /\ u.tables[c] = t
         /\ \A d \in Component \ {c} : u.tables[d] = st.tables[d]
<1>1. /\ SameIndex(st, u) /\ u.entities = entities
      /\ u.componentsByEntity = [st.componentsByEntity EXCEPT ![e] = listed]
      /\ u.tables = [st.tables EXCEPT ![c] = t]
  BY DEF Storages, SameIndex, Edited
<1>2. u = [ entities |-> u.entities, componentsByEntity |-> u.componentsByEntity,
            tables |-> u.tables, bucketByEntity |-> u.bucketByEntity,
            signatures |-> u.signatures, buckets |-> u.buckets,
            matchingBuckets |-> u.matchingBuckets ]
  BY DEF Storages, Edited
<1>3. t \in Tables
  BY DEF TableOK
<1>4. u.componentsByEntity \in [Entity -> Seq(Component)]
  BY <1>1 DEF Storages
<1>5. u.tables \in [Component -> Tables]
  BY <1>1, <1>3 DEF Storages
<1>6. u \in Storages
  BY <1>1, <1>2, <1>4, <1>5, RecordsTyped
<1>7. /\ \A d \in Component : u.tables[d] = IF d = c THEN t ELSE st.tables[d]
      /\ \A x \in Entity :
           u.componentsByEntity[x] = IF x = e THEN listed ELSE st.componentsByEntity[x]
  BY <1>1 DEF Storages
<1>8. \A d \in Component : TableOK(u.tables[d])
  BY <1>7 DEF RecordsOK
<1>9. ASSUME NEW x \in Entity, NEW d \in Component
      PROVE  Row(u.tables[d], x) # 0 <=> Contains(u.componentsByEntity[x], d)
  <2>1. Row(st.tables[d], x) # 0 <=> Contains(st.componentsByEntity[x], d)
    BY DEF RecordsOK
  <2>2. CASE x = e
    BY <1>7, <2>1, <2>2
  <2>3. CASE x # e
    BY <1>7, <2>1, <2>3
  <2>. QED  BY <2>2, <2>3
<1>10. \A x \in Entity : Distinct(u.componentsByEntity[x])
  BY <1>7 DEF RecordsOK
<1>11. \A x \in Entity : u.componentsByEntity[x] # << >> => x \in u.entities
  BY <1>1, <1>7 DEF RecordsOK
<1>12. RecordsOK(u)
  BY <1>8, <1>9, <1>10, <1>11 DEF RecordsOK
<1>13. OthersKeep(st, u, e)
  BY <1>1, <1>7 DEF OthersKeep
<1>. QED  BY <1>1, <1>6, <1>7, <1>12, <1>13

LEMMA AddEntityFacts ==
  ASSUME NEW st, StorageOK(st), NEW e \in Entity, NEW u, u = AddEntity(st, e)
  PROVE  /\ StorageOK(u) /\ OthersKeep(st, u, e) /\ TableMoves(st, u, e) /\ BucketMoves(st, u, e)
         /\ u.entities = st.entities \cup {e}
         /\ u.componentsByEntity = st.componentsByEntity /\ u.tables = st.tables
         /\ u.buckets = st.buckets
<1>1. /\ u.entities = st.entities \cup {e} /\ SameIndex(st, u)
      /\ u.componentsByEntity = st.componentsByEntity /\ u.tables = st.tables
  BY DEF StorageOK, Storages, AddEntity, SameIndex
<1>2. u = [ entities |-> u.entities, componentsByEntity |-> u.componentsByEntity,
            tables |-> u.tables, bucketByEntity |-> u.bucketByEntity,
            signatures |-> u.signatures, buckets |-> u.buckets,
            matchingBuckets |-> u.matchingBuckets ]
  BY DEF StorageOK, Storages, AddEntity
<1>3. /\ st \in Storages /\ u.entities \in SUBSET Entity
      /\ u.componentsByEntity \in [Entity -> Seq(Component)]
      /\ u.tables \in [Component -> Tables]
  BY <1>1 DEF StorageOK, Storages
<1>4. u \in Storages
  BY <1>1, <1>2, <1>3, RecordsTyped
<1>5. IndexOK(u)
  BY <1>1, SameIndexOK DEF StorageOK
<1>6. RecordsOK(u)
  BY <1>1 DEF StorageOK, RecordsOK
<1>7. StorageOK(u)
  BY <1>1, <1>4, <1>5, <1>6 DEF StorageOK, SameIndex
<1>. QED  BY <1>1, <1>7 DEF OthersKeep, TableMoves, BucketMoves, SameIndex

\* What a call changes about its own entity.
SetEffect(st, u, e, c, v) ==
  /\ u.entities = st.entities \cup {e}
  /\ u.componentsByEntity =
       IF Contains(st.componentsByEntity[e], c) THEN st.componentsByEntity
       ELSE [st.componentsByEntity EXCEPT ![e] = Append(st.componentsByEntity[e], c)]
  /\ RecordOf(u.tables[c], e) = Record(e, v)
  /\ \A d \in Component \ {c} : u.tables[d] = st.tables[d]

RemoveEffect(st, u, e, c) ==
  /\ u.entities = st.entities
  /\ u.componentsByEntity =
       [st.componentsByEntity EXCEPT ![e] = RemoveFirst(st.componentsByEntity[e], c)]
  /\ \A d \in Component \ {c} : u.tables[d] = st.tables[d]

LEMMA SetRecordFacts ==
  ASSUME NEW st, StorageOK(st), NEW e \in Entity, NEW c \in Component, NEW v \in Value,
         NEW u, u = SetRecord(st, e, c, v)
  PROVE  /\ StorageOK(u) /\ OthersKeep(st, u, e) /\ TableMoves(st, u, e) /\ BucketMoves(st, u, e)
         /\ SetEffect(st, u, e, c, v)
<1> DEFINE t == st.tables[c]
           listed == st.componentsByEntity[e]
           r == Record(e, v)
<1>1. /\ st \in Storages /\ RecordsOK(st) /\ IndexOK(st) /\ TableOK(t) /\ Distinct(listed)
      /\ listed \in Seq(Component)
      /\ \A d \in Component : Row(st.tables[d], e) # 0 <=> Contains(listed, d)
      /\ st.entities \subseteq Entity
      /\ listed # << >> => e \in st.entities
  BY DEF StorageOK, RecordsOK, Storages
<1>2. r \in Records /\ r.entityId = e
  BY DEF Record, Records
<1>3. CASE Has(st, e, c)
  <2> DEFINE w == [t EXCEPT !.denseRecords[Row(t, e)] = r]
  <2>1. Row(t, e) # 0 /\ Contains(listed, c)
    BY <1>1, <1>3 DEF Has, Row
  <2>2. /\ TableOK(w) /\ w.denseEntities = t.denseEntities
        /\ \A x \in Entity : Row(w, x) = Row(t, x)
        /\ \A x \in Entity \ {e} : Row(t, x) # 0 => RecordOf(w, x) = RecordOf(t, x)
        /\ RecordOf(w, e) = r
    <3> HIDE DEF t, r
    <3>. QED  BY <1>1, <1>2, <2>1, OtherRecordFacts
  <2>3. u = [st EXCEPT !.tables[c] = w]
    BY <1>3 DEF SetRecord, Row
  <2> HIDE DEF w
  <2>4. u = Edited(st, st.entities, c, w, e, listed)
    BY <1>1, <2>3 DEF Storages, Edited
  <2>5. e \in st.entities
    <3>1. listed # << >>
      BY <2>1 DEF Contains
    <3>. QED  BY <1>1, <3>1
  <2>6. \A d \in Component : Contains(listed, d)
                               <=> (IF d = c THEN Row(w, e) # 0 ELSE Contains(listed, d))
    BY <2>1, <2>2
  <2>7. /\ u \in Storages /\ RecordsOK(u) /\ SameIndex(st, u) /\ OthersKeep(st, u, e)
        /\ u.entities = st.entities
        /\ u.componentsByEntity = [st.componentsByEntity EXCEPT ![e] = listed]
        /\ u.tables[c] = w
        /\ \A d \in Component \ {c} : u.tables[d] = st.tables[d]
    BY <1>1, <2>2, <2>4, <2>5, <2>6, OneTable
  <2>8. u.componentsByEntity = st.componentsByEntity
    BY <1>1, <2>7 DEF Storages
  <2>9. StorageOK(u)
    BY <1>1, <2>7, <2>8, SameIndexOK DEF StorageOK, SameIndex
  <2>10. TableMoves(st, u, e) /\ BucketMoves(st, u, e)
    BY <2>2, <2>7 DEF TableMoves, BucketMoves, SameIndex
  <2>11. u.entities = st.entities \cup {e}
    BY <2>5, <2>7
  <2>. QED  BY <2>1, <2>2, <2>7, <2>8, <2>9, <2>10, <2>11 DEF SetEffect
<1>4. CASE ~Has(st, e, c)
  <2> DEFINE w == WithRow(t, e, r)
             longer == Append(listed, c)
             b == Edited(st, st.entities \cup {e}, c, w, e, longer)
  <2>1. Row(t, e) = 0 /\ ~Contains(listed, c)
    BY <1>1, <1>4 DEF Has, Row
  <2>2. /\ TableOK(w) /\ w.denseEntities = Append(t.denseEntities, e)
        /\ \A x \in Entity \ {e} : Row(w, x) = Row(t, x)
        /\ \A x \in Entity \ {e} : Row(t, x) # 0 => RecordOf(w, x) = RecordOf(t, x)
        /\ Row(w, e) # 0 /\ RecordOf(w, e) = r
    <3> HIDE DEF t, r
    <3>. QED  BY <1>1, <1>2, <2>1, WithRowFacts
  <2>3. /\ longer \in Seq(Component) /\ Distinct(longer)
        /\ \A x : Contains(longer, x) <=> Contains(listed, x) \/ x = c
    <3> HIDE DEF listed
    <3>. QED  BY <1>1, <2>1, AppendKeeps
  <2>4. u = IndexAdd(b, e, c)
    <3>1. [AddEntity(st, e) EXCEPT !.tables[c] = WithRow(@, e, Record(e, v)),
                                   !.componentsByEntity[e] = Append(@, c)] = b
      BY <1>1 DEF AddEntity, Storages, Edited
    <3>. QED  BY <1>4, <3>1 DEF SetRecord
  <2>5. \A d \in Component : Contains(longer, d)
                               <=> (IF d = c THEN Row(w, e) # 0 ELSE Contains(listed, d))
    BY <2>2, <2>3
  <2> HIDE DEF w, longer
  <2>6. /\ b \in Storages /\ RecordsOK(b) /\ SameIndex(st, b) /\ OthersKeep(st, b, e)
        /\ b.entities = st.entities \cup {e}
        /\ b.componentsByEntity = [st.componentsByEntity EXCEPT ![e] = longer]
        /\ b.tables[c] = w
        /\ \A d \in Component \ {c} : b.tables[d] = st.tables[d]
    <3>1. \A x \in Entity \ {e} : Row(w, x) # 0 <=> Row(st.tables[c], x) # 0
      BY <2>2
    <3> DEFINE more == st.entities \cup {e}
    <3>2. more \in SUBSET Entity /\ more \ {e} = st.entities \ {e} /\ e \in more
      BY <1>1
    <3>3. \A x \in Entity \ {e} :
            Row(st.tables[c], x) # 0 => RecordOf(w, x) = RecordOf(st.tables[c], x)
      BY <2>2
    <3>4. b = Edited(st, more, c, w, e, longer)
      OBVIOUS
    <3>5. /\ st \in Storages /\ RecordsOK(st) /\ TableOK(w)
          /\ longer \in Seq(Component) /\ Distinct(longer)
          /\ \A d \in Component :
               Contains(longer, d) <=> (IF d = c THEN Row(w, e) # 0
                                        ELSE Contains(st.componentsByEntity[e], d))
      BY <1>1, <2>2, <2>3, <2>5
    <3> HIDE DEF b, more, t, listed, r
    <3>6. /\ b \in Storages /\ RecordsOK(b) /\ SameIndex(st, b) /\ OthersKeep(st, b, e)
          /\ b.entities = more
          /\ b.componentsByEntity = [st.componentsByEntity EXCEPT ![e] = longer]
          /\ b.tables[c] = w
          /\ \A d \in Component \ {c} : b.tables[d] = st.tables[d]
      BY <3>1, <3>2, <3>3, <3>4, <3>5, OneTable
    <3>. QED  BY <3>6 DEF more
  <2> HIDE DEF b
  <2>7. IndexOK(b)
    BY <1>1, <2>6, SameIndexOK
  <2>8. st.bucketByEntity[e] = BucketOf(listed) /\ b.bucketByEntity = st.bucketByEntity
        /\ b.buckets = st.buckets
    BY <2>6 DEF StorageOK, SameIndex
  <2>9. ToSet(longer) = ToSet(listed) \cup {c} /\ ToSet(listed) \in SUBSET Component
        /\ c \notin ToSet(listed)
    <3> HIDE DEF listed
    <3>. QED  BY <1>1, <2>1, <2>3, ToSetFacts
  <2>10. c \notin b.bucketByEntity[e]
    BY <2>8, <2>9 DEF BucketOf, NoBucket
  <2>11. /\ u \in Storages /\ IndexOK(u) /\ SameRecords(b, u) /\ BucketMoves(b, u, e)
         /\ u.bucketByEntity =
              [b.bucketByEntity EXCEPT
                 ![e] = BucketWith(b.bucketByEntity[e], c, ToSet(b.componentsByEntity[e]))]
    <3> HIDE DEF listed
    <3>1. b \in Storages
      BY <2>6
    <3> HIDE DEF t, r
    <3>. QED  BY <2>4, <2>7, <2>10, <3>1, IndexAddFacts
  <2>12. b.componentsByEntity[e] = longer
         /\ \A x \in Entity \ {e} : b.componentsByEntity[x] = st.componentsByEntity[x]
    BY <1>1, <2>6 DEF Storages
  <2>13. RecordsOK(u)
    BY <2>6, <2>11, SameRecordsOK
  <2>14. \A x \in Entity : u.bucketByEntity[x] = BucketOf(u.componentsByEntity[x])
    <3>1. \A x \in Entity \ {e} : u.bucketByEntity[x] = BucketOf(u.componentsByEntity[x])
      BY <1>1, <2>8, <2>11, <2>12 DEF StorageOK, SameRecords, Storages
    <3>2. u.bucketByEntity[e] = IF BucketOf(listed) # NoBucket THEN BucketOf(listed) \cup {c}
                                ELSE BucketOf(longer)
      BY <1>1, <2>8, <2>11, <2>12 DEF Storages, BucketOf, BucketWith
    <3>3. BucketOf(listed) # NoBucket => BucketOf(listed) \cup {c} = BucketOf(longer)
      BY <2>9, WideFacts DEF BucketOf, Wide
    <3>. QED  BY <2>11, <2>12, <3>1, <3>2, <3>3 DEF SameRecords
  <2>15. StorageOK(u)
    BY <2>11, <2>13, <2>14 DEF StorageOK
  <2>16. Joined(t.denseEntities, w.denseEntities, e)
    BY <1>1, <2>1, <2>2, TableFacts DEF Joined
  <2>17. /\ u.entities = b.entities /\ u.componentsByEntity = b.componentsByEntity
         /\ u.tables = b.tables
    BY <2>11 DEF SameRecords
  <2>18. TableMoves(st, u, e)
    BY <2>6, <2>16, <2>17 DEF TableMoves
  <2>19. BucketMoves(st, u, e) /\ OthersKeep(st, u, e)
    BY <2>6, <2>8, <2>11, <2>17 DEF BucketMoves, OthersKeep
  <2>20. SetEffect(st, u, e, c, v)
    BY <2>1, <2>2, <2>6, <2>17 DEF longer, SetEffect
  <2>. QED  BY <2>15, <2>18, <2>19, <2>20
<1>. QED  BY <1>3, <1>4

LEMMA RemoveComponentFacts ==
  ASSUME NEW st, StorageOK(st), NEW e \in Entity, NEW c \in Component, Has(st, e, c),
         NEW u, u = RemoveComponent(st, e, c)
  PROVE  /\ StorageOK(u) /\ OthersKeep(st, u, e) /\ TableMoves(st, u, e) /\ BucketMoves(st, u, e)
         /\ RemoveEffect(st, u, e, c)
<1> DEFINE t == st.tables[c]
           listed == st.componentsByEntity[e]
           w == WithoutRow(t, e)
           shorter == RemoveFirst(listed, c)
           b == Edited(st, st.entities, c, w, e, shorter)
<1>1. /\ st \in Storages /\ RecordsOK(st) /\ IndexOK(st) /\ TableOK(t) /\ Distinct(listed)
      /\ listed \in Seq(Component)
      /\ \A d \in Component : Row(st.tables[d], e) # 0 <=> Contains(listed, d)
      /\ st.entities \in SUBSET Entity
      /\ listed # << >> => e \in st.entities
  BY DEF StorageOK, RecordsOK, Storages
<1>2. Row(t, e) # 0 /\ Contains(listed, c) /\ e \in st.entities
  BY <1>1 DEF Has, Row, Contains
<1>3. /\ TableOK(w) /\ Row(t, e) \in 1..Len(t.denseEntities) /\ t.denseEntities[Row(t, e)] = e
      /\ w.denseEntities = LastAt(t.denseEntities, Row(t, e))
      /\ \A x \in Entity \ {e} : Row(w, x) # 0 <=> Row(t, x) # 0
      /\ \A x \in Entity \ {e} : Row(t, x) # 0 => RecordOf(w, x) = RecordOf(t, x)
      /\ Row(w, e) = 0
  <2> HIDE DEF t
  <2>. QED  BY <1>1, <1>2, WithoutRowFacts
<1>4. /\ shorter \in Seq(Component) /\ Distinct(shorter)
      /\ \A x : Contains(shorter, x) <=> Contains(listed, x) /\ x # c
  <2> HIDE DEF listed
  <2>. QED  BY <1>1, RemoveFirstKeeps
<1>5. u = IndexRemove(b, e, c)
  <2>1. [st EXCEPT !.tables[c] = WithoutRow(@, e),
                   !.componentsByEntity[e] = RemoveFirst(@, c)] = b
    BY <1>1 DEF Storages, Edited
  <2>. QED  BY <2>1 DEF RemoveComponent
<1>6. \A d \in Component : Contains(shorter, d)
                             <=> (IF d = c THEN Row(w, e) # 0 ELSE Contains(listed, d))
  BY <1>3, <1>4
<1> HIDE DEF w, shorter
<1>7. /\ b \in Storages /\ RecordsOK(b) /\ SameIndex(st, b) /\ OthersKeep(st, b, e)
      /\ b.entities = st.entities
      /\ b.componentsByEntity = [st.componentsByEntity EXCEPT ![e] = shorter]
      /\ b.tables[c] = w
      /\ \A d \in Component \ {c} : b.tables[d] = st.tables[d]
  <2>1. \A x \in Entity \ {e} : Row(w, x) # 0 <=> Row(st.tables[c], x) # 0
    BY <1>3
  <2>2. \A x \in Entity \ {e} :
          Row(st.tables[c], x) # 0 => RecordOf(w, x) = RecordOf(st.tables[c], x)
    BY <1>3
  <2>3. b = Edited(st, st.entities, c, w, e, shorter)
    OBVIOUS
  <2> HIDE DEF b
  <2>. QED  BY <1>1, <1>2, <1>3, <1>4, <1>6, <2>1, <2>2, <2>3, OneTable
<1> HIDE DEF b
<1>8. IndexOK(b)
  BY <1>1, <1>7, SameIndexOK
<1>9. st.bucketByEntity[e] = BucketOf(listed) /\ b.bucketByEntity = st.bucketByEntity
      /\ b.buckets = st.buckets
  BY <1>7 DEF StorageOK, SameIndex
<1>10. ToSet(shorter) = ToSet(listed) \ {c} /\ ToSet(listed) \in SUBSET Component
       /\ c \in ToSet(listed)
  <2> HIDE DEF listed
  <2>. QED  BY <1>1, <1>2, <1>4, ToSetFacts
<1>11. /\ u \in Storages /\ IndexOK(u) /\ SameRecords(b, u) /\ BucketMoves(b, u, e)
       /\ u.bucketByEntity =
            [b.bucketByEntity EXCEPT ![e] = BucketWithout(b.bucketByEntity[e], c)]
  BY <1>5, <1>7, <1>8, IndexRemoveFacts
<1>12. b.componentsByEntity[e] = shorter
       /\ \A x \in Entity \ {e} : b.componentsByEntity[x] = st.componentsByEntity[x]
  BY <1>1, <1>7 DEF Storages
<1>13. RecordsOK(u)
  BY <1>7, <1>11, SameRecordsOK
<1>14. \A x \in Entity : u.bucketByEntity[x] = BucketOf(u.componentsByEntity[x])
  <2>1. \A x \in Entity \ {e} : u.bucketByEntity[x] = BucketOf(u.componentsByEntity[x])
    BY <1>1, <1>9, <1>11, <1>12 DEF StorageOK, SameRecords, Storages
  <2>2. u.bucketByEntity[e] = IF Wide(BucketOf(listed) \ {c}) THEN BucketOf(listed) \ {c}
                              ELSE NoBucket
    BY <1>1, <1>9, <1>11 DEF Storages, BucketWithout
  <2>3. ASSUME Wide(ToSet(listed)) PROVE u.bucketByEntity[e] = BucketOf(shorter)
    BY <1>10, <2>2, <2>3 DEF BucketOf
  <2>4. ASSUME ~Wide(ToSet(listed)) PROVE u.bucketByEntity[e] = BucketOf(shorter)
    <3>1. ~Wide(ToSet(listed) \ {c})
      BY <1>10, <2>4, WideFacts DEF Wide
    <3>2. NoBucket \ {c} = NoBucket /\ ~Wide(NoBucket)
      BY WideFacts DEF NoBucket
    <3>. QED  BY <1>10, <2>2, <2>4, <3>1, <3>2 DEF BucketOf
  <2>5. u.componentsByEntity[e] = shorter
    BY <1>11, <1>12 DEF SameRecords
  <2>. QED  BY <2>1, <2>3, <2>4, <2>5
<1>15. StorageOK(u)
  BY <1>11, <1>13, <1>14 DEF StorageOK
<1>16. Swapped(t.denseEntities, w.denseEntities, e)
  BY <1>3 DEF Swapped
<1>17. /\ u.entities = b.entities /\ u.componentsByEntity = b.componentsByEntity
       /\ u.tables = b.tables
  BY <1>11 DEF SameRecords
<1>18. TableMoves(st, u, e)
  BY <1>7, <1>16, <1>17 DEF TableMoves
<1>19. BucketMoves(st, u, e) /\ OthersKeep(st, u, e)
  BY <1>7, <1>9, <1>11, <1>17 DEF BucketMoves, OthersKeep
<1>20. RemoveEffect(st, u, e, c)
  BY <1>7, <1>17 DEF shorter, RemoveEffect
<1>. QED  BY <1>15, <1>18, <1>19, <1>20

LEMMA BareFacts ==
  ASSUME NEW st, StorageOK(st), NEW e \in Entity, NEW u, u = Bare(st, e)
  PROVE  /\ u \in Storages /\ RecordsOK(u) /\ SameIndex(st, u)
         /\ OthersKeep(st, u, e) /\ TableMoves(st, u, e)
         /\ u.entities = st.entities \ {e}
         /\ u.componentsByEntity = [st.componentsByEntity EXCEPT ![e] = << >>]
<1> DEFINE listed == st.componentsByEntity[e]
<1>1. /\ st \in Storages /\ RecordsOK(st)
      /\ \A c \in Component : TableOK(st.tables[c])
      /\ \A c \in Component : Row(st.tables[c], e) # 0 <=> Contains(listed, c)
      /\ st.entities \in SUBSET Entity
      /\ st.componentsByEntity \in [Entity -> Seq(Component)]
  BY DEF StorageOK, RecordsOK, Storages
<1>2. /\ SameIndex(st, u) /\ u.entities = st.entities \ {e}
      /\ u.componentsByEntity = [st.componentsByEntity EXCEPT ![e] = << >>]
      /\ u.tables = [c \in Component |-> IF Contains(listed, c) THEN WithoutRow(st.tables[c], e)
                                         ELSE st.tables[c]]
  BY <1>1 DEF Bare, SameIndex, Storages
<1>3. u = [ entities |-> u.entities, componentsByEntity |-> u.componentsByEntity,
            tables |-> u.tables, bucketByEntity |-> u.bucketByEntity,
            signatures |-> u.signatures, buckets |-> u.buckets,
            matchingBuckets |-> u.matchingBuckets ]
  BY <1>1 DEF Bare, Storages
<1> HIDE DEF listed
<1>4. ASSUME NEW c \in Component
      PROVE  /\ TableOK(u.tables[c]) /\ Row(u.tables[c], e) = 0
             /\ \A x \in Entity \ {e} : Row(u.tables[c], x) # 0 <=> Row(st.tables[c], x) # 0
             /\ \A x \in Entity \ {e} :
                  Row(st.tables[c], x) # 0 => RecordOf(u.tables[c], x) = RecordOf(st.tables[c], x)
             /\ \/ u.tables[c].denseEntities = st.tables[c].denseEntities
                \/ Swapped(st.tables[c].denseEntities, u.tables[c].denseEntities, e)
  <2> DEFINE t == st.tables[c]
             w == u.tables[c]
  <2>1. CASE Contains(listed, c)
    <3>1. w = WithoutRow(t, e) /\ TableOK(t) /\ Row(t, e) # 0
      BY <1>1, <1>2, <2>1
    <3> HIDE DEF t, w
    <3>2. /\ TableOK(w) /\ Row(t, e) \in 1..Len(t.denseEntities) /\ t.denseEntities[Row(t, e)] = e
          /\ w.denseEntities = LastAt(t.denseEntities, Row(t, e))
          /\ \A x \in Entity \ {e} : Row(w, x) # 0 <=> Row(t, x) # 0
          /\ \A x \in Entity \ {e} : Row(t, x) # 0 => RecordOf(w, x) = RecordOf(t, x)
          /\ Row(w, e) = 0
      BY <3>1, WithoutRowFacts
    <3>3. Swapped(t.denseEntities, w.denseEntities, e)
      BY <3>2 DEF Swapped
    <3>. QED  BY <3>2, <3>3 DEF t, w
  <2>2. CASE ~Contains(listed, c)
    <3>1. w = t /\ TableOK(t) /\ Row(t, e) = 0
      BY <1>1, <1>2, <2>2 DEF TableOK
    <3>. QED  BY <3>1
  <2>. QED  BY <2>1, <2>2
<1>5. /\ u.componentsByEntity[e] = << >>
      /\ \A x \in Entity \ {e} : u.componentsByEntity[x] = st.componentsByEntity[x]
  BY <1>1, <1>2
<1>6. u \in Storages
  <2>1. u.tables \in [Component -> Tables]
    <3>1. \A c \in Component : u.tables[c] \in Tables
      BY <1>4 DEF TableOK
    <3>2. u.tables = [c \in Component |-> u.tables[c]]
      BY <1>2
    <3>. QED  BY <3>1, <3>2
  <2>2. u.componentsByEntity \in [Entity -> Seq(Component)]
    BY <1>1, <1>2
  <2>3. u.entities \in SUBSET Entity
    BY <1>1, <1>2
  <2>. QED  BY <1>1, <1>2, <1>3, <2>1, <2>2, <2>3, RecordsTyped
<1>7. RecordsOK(u)
  <2>1. \A x \in Entity : Distinct(u.componentsByEntity[x])
    BY <1>1, <1>5 DEF RecordsOK, Distinct
  <2>2. ASSUME NEW x \in Entity, NEW c \in Component
        PROVE  Row(u.tables[c], x) # 0 <=> Contains(u.componentsByEntity[x], c)
    <3>1. CASE x = e
      BY <1>4, <1>5, <3>1 DEF Contains
    <3>2. CASE x # e
      BY <1>1, <1>4, <1>5, <3>2 DEF RecordsOK
    <3>. QED  BY <3>1, <3>2
  <2>3. \A x \in Entity : u.componentsByEntity[x] # << >> => x \in u.entities
    BY <1>1, <1>2, <1>5 DEF RecordsOK
  <2>. QED  BY <1>4, <2>1, <2>2, <2>3 DEF RecordsOK
<1>8. OthersKeep(st, u, e) /\ TableMoves(st, u, e)
  BY <1>2, <1>4, <1>5 DEF OthersKeep, TableMoves
<1>. QED  BY <1>2, <1>6, <1>7, <1>8

LEMMA DeleteEntityFacts ==
  ASSUME NEW st, StorageOK(st), NEW e \in Entity, NEW u, u = DeleteEntity(st, e)
  PROVE  /\ StorageOK(u) /\ OthersKeep(st, u, e) /\ TableMoves(st, u, e) /\ BucketMoves(st, u, e)
         /\ u.entities = st.entities \ {e}
         /\ u.componentsByEntity = [st.componentsByEntity EXCEPT ![e] = << >>]
<1> DEFINE b == Bare(st, e)
<1>1. /\ b \in Storages /\ RecordsOK(b) /\ SameIndex(st, b)
      /\ OthersKeep(st, b, e) /\ TableMoves(st, b, e)
      /\ b.entities = st.entities \ {e}
      /\ b.componentsByEntity = [st.componentsByEntity EXCEPT ![e] = << >>]
  BY BareFacts
<1>2. u = IF b.bucketByEntity[e] = NoBucket THEN b ELSE FromBucket(b, e)
  BY <1>1 DEF DeleteEntity, SameIndex
<1> HIDE DEF b
<1>3. IndexOK(b) /\ b.bucketByEntity = st.bucketByEntity /\ b.buckets = st.buckets
  BY <1>1, SameIndexOK DEF StorageOK, SameIndex
<1>4. /\ u \in Storages /\ IndexOK(u) /\ SameRecords(b, u) /\ BucketMoves(b, u, e)
      /\ u.bucketByEntity[e] = NoBucket
      /\ \A x \in Entity \ {e} : u.bucketByEntity[x] = st.bucketByEntity[x]
  <2>1. CASE b.bucketByEntity[e] = NoBucket
    BY <1>1, <1>2, <1>3, <2>1 DEF SameRecords, BucketMoves
  <2>2. CASE b.bucketByEntity[e] # NoBucket
    <3>1. /\ u \in Storages /\ IndexOK(u) /\ SameRecords(b, u)
          /\ u.bucketByEntity = [b.bucketByEntity EXCEPT ![e] = NoBucket]
          /\ \A s \in (SUBSET Component) \ {b.bucketByEntity[e]} : u.buckets[s] = b.buckets[s]
          /\ ClosedUp(b.buckets[b.bucketByEntity[e]], u.buckets[b.bucketByEntity[e]], e)
      BY <1>1, <1>2, <1>3, <2>2, FromBucketFacts
    <3>2. BucketMoves(b, u, e)
      BY <3>1 DEF BucketMoves
    <3>3. b.bucketByEntity \in [Entity -> SUBSET Component]
      BY <1>1 DEF Storages
    <3>. QED  BY <1>3, <3>1, <3>2, <3>3
  <2>. QED  BY <2>1, <2>2
<1>5. /\ u.entities = b.entities /\ u.componentsByEntity = b.componentsByEntity
      /\ u.tables = b.tables
  BY <1>4 DEF SameRecords
<1>6. /\ u.componentsByEntity[e] = << >>
      /\ \A x \in Entity \ {e} : u.componentsByEntity[x] = st.componentsByEntity[x]
  BY <1>1, <1>5 DEF StorageOK, Storages
<1>7. BucketOf(<< >>) = NoBucket
  <2>1. ToSet(<< >>) = {}
    BY DEF ToSet
  <2>. QED  BY <2>1, WideFacts DEF BucketOf
<1>8. StorageOK(u)
  BY <1>1, <1>4, <1>6, <1>7, SameRecordsOK DEF StorageOK
<1>9. OthersKeep(st, u, e) /\ TableMoves(st, u, e) /\ BucketMoves(st, u, e)
  BY <1>1, <1>3, <1>4, <1>5 DEF OthersKeep, TableMoves, BucketMoves
<1>. QED  BY <1>1, <1>5, <1>8, <1>9

-----------------------------------------------------------------------------
\* Planning a query fills the cache with the buckets that match.

LEMMA MatchingBucketsFacts ==
  ASSUME NEW st, StorageOK(st), NEW Q \in Query
  PROVE  /\ MatchingBuckets(st, Q) = Masked(st.signatures, Q)
         /\ MatchingBuckets(st, Q) \in Seq(SUBSET Component)
         /\ Len(MatchingBuckets(st, Q)) = Len(st.signatures)
         /\ \A i \in 1..Len(st.signatures) :
              MatchingBuckets(st, Q)[i] = IF SignatureContains(st.signatures[i], Q)
                                          THEN st.signatures[i] ELSE NoBucket
<1>1. MatchingBuckets(st, Q) = Masked(st.signatures, Q)
  BY DEF MatchingBuckets, Masked, StorageOK, IndexOK
<1>2. st.signatures \in Seq(SUBSET Component)
  BY DEF StorageOK, Storages
<1> DEFINE g == st.signatures
<1> HIDE DEF g
<1>3. g \in Seq(SUBSET Component)
  BY <1>2 DEF g
<1>4. /\ Masked(g, Q) \in Seq(SUBSET Component) /\ Len(Masked(g, Q)) = Len(g)
      /\ \A i \in 1..Len(g) :
           Masked(g, Q)[i] = IF SignatureContains(g[i], Q) THEN g[i] ELSE NoBucket
  <2>1. DOMAIN g = 1..Len(g) /\ Len(g) \in Nat /\ \A i \in 1..Len(g) : g[i] \in SUBSET Component
    BY <1>3, ElementOfSeq, LenProperties
  <2>2. Masked(g, Q) \in [1..Len(g) -> SUBSET Component]
    BY <2>1 DEF Masked, NoBucket
  <2>3. Masked(g, Q) \in Seq(SUBSET Component) /\ Len(Masked(g, Q)) = Len(g)
    BY <2>1, <2>2
  <2>. QED  BY <2>1, <2>3 DEF Masked
<1>. QED  BY <1>1, <1>4 DEF g

LEMMA CachedFacts ==
  ASSUME NEW st, StorageOK(st), NEW Q \in Query, NEW u, u = Cached(st, Q)
  PROVE  /\ StorageOK(u) /\ SameRecords(st, u)
         /\ u.buckets = st.buckets /\ u.signatures = st.signatures
<1> DEFINE m == MatchingBuckets(st, Q)
<1>1. m = Masked(st.signatures, Q) /\ m \in Seq(SUBSET Component)
  BY MatchingBucketsFacts
<1>2. u = [st EXCEPT !.matchingBuckets[Q] = m]
  BY DEF Cached
<1> HIDE DEF m
<1>3. /\ SameRecords(st, u) /\ u.buckets = st.buckets /\ u.signatures = st.signatures
      /\ u.bucketByEntity = st.bucketByEntity
      /\ u.matchingBuckets = [st.matchingBuckets EXCEPT ![Q] = m]
  BY <1>2 DEF StorageOK, Storages, SameRecords
<1>4. u = [ entities |-> u.entities, componentsByEntity |-> u.componentsByEntity,
            tables |-> u.tables, bucketByEntity |-> u.bucketByEntity,
            signatures |-> u.signatures, buckets |-> u.buckets,
            matchingBuckets |-> u.matchingBuckets ]
  BY <1>2 DEF StorageOK, Storages
<1>5. st \in Storages /\ st.matchingBuckets \in [Query -> Seq(SUBSET Component)]
  BY DEF StorageOK, Storages
<1>6. u.matchingBuckets \in [Query -> Seq(SUBSET Component)]
  BY <1>1, <1>3, <1>5
<1>7. u \in Storages
  <2>1. /\ u.bucketByEntity \in [Entity -> SUBSET Component]
        /\ u.signatures \in Seq(SUBSET Component)
        /\ u.buckets \in [SUBSET Component -> Seq(Entity)]
    BY <1>3, <1>5 DEF Storages
  <2>. QED  BY <1>3, <1>4, <1>5, <1>6, <2>1, IndexTyped
<1>8. IndexOK(u)
  <2>1. \A P \in Query : u.matchingBuckets[P] \in {Uncached, Masked(u.signatures, P)}
    BY <1>1, <1>3, <1>5 DEF StorageOK, IndexOK
  <2>. QED  BY <1>3, <2>1 DEF StorageOK, IndexOK
<1>9. StorageOK(u)
  BY <1>3, <1>7, <1>8, SameRecordsOK DEF StorageOK, SameRecords
<1>. QED  BY <1>3, <1>9

LEMMA EmptyStorageOK == StorageOK(EmptyStorage)
<1> DEFINE st == EmptyStorage
<1>1. /\ st.entities = {} /\ st.signatures = << >>
      /\ st.componentsByEntity = [e \in Entity |-> << >>]
      /\ st.tables = [c \in Component |-> NoTable]
      /\ st.bucketByEntity = [e \in Entity |-> NoBucket]
      /\ st.buckets = [s \in SUBSET Component |-> << >>]
      /\ st.matchingBuckets = [Q \in Query |-> Uncached]
  BY DEF EmptyStorage
<1>2. st \in Storages
  <2>1. NoTable \in Tables /\ NoBucket \in SUBSET Component /\ Uncached \in Seq(SUBSET Component)
    BY NoTableOK DEF TableOK, NoBucket, Uncached
  <2>. QED  BY <2>1 DEF EmptyStorage, Storages
<1>3. RecordsOK(st)
  BY <1>1, NoTableOK DEF RecordsOK, Distinct, Contains
<1>4. IndexOK(st)
  BY <1>1 DEF IndexOK, Distinct, Contains
<1>5. BucketOf(<< >>) = NoBucket
  <2>1. ToSet(<< >>) = {}
    BY DEF ToSet
  <2>. QED  BY <2>1, WideFacts DEF BucketOf
<1>. QED  BY <1>1, <1>2, <1>3, <1>4, <1>5 DEF StorageOK

-----------------------------------------------------------------------------
\* Every call leaves the storage consistent.

StorageInv ==
  /\ StorageOK(storage)
  /\ edits \in 0..MaxEdits
  /\ todo \in Seq(Entity \X Component \X Value)

LEMMA StorageInvInit == Init => StorageInv
BY StorageAssumption, EmptyStorageOK DEF Init, StorageInv

LEMMA SetUpStep ==
  ASSUME StorageInv, SetUp
  PROVE  \E e \in Entity, c \in Component, v \in Value :
           storage' = SetRecord(storage, e, c, v)
<1>1. todo \in Seq(Entity \X Component \X Value) /\ todo # << >>
  BY DEF StorageInv, SetUp
<1>2. Head(todo) \in Entity \X Component \X Value
  BY <1>1, HeadTailProperties
<1>. QED  BY <1>2 DEF SetUp

\* The calls that change what is stored, each about one entity.
Call(st, u, e) ==
  \/ e \notin st.entities /\ u = AddEntity(st, e)
  \/ e \in st.entities /\ u = DeleteEntity(st, e)
  \/ \E c \in Component :
       \/ Has(st, e, c) /\ u = RemoveComponent(st, e, c)
       \/ \E v \in Value : u = SetRecord(st, e, c, v)

LEMMA CallFacts ==
  ASSUME NEW st, StorageOK(st), NEW e \in Entity, NEW u, Call(st, u, e)
  PROVE  /\ StorageOK(u) /\ OthersKeep(st, u, e)
         /\ TableMoves(st, u, e) /\ BucketMoves(st, u, e)
<1>1. CASE u = AddEntity(st, e)
  BY <1>1, AddEntityFacts
<1>2. CASE u = DeleteEntity(st, e)
  BY <1>2, DeleteEntityFacts, Zenon
<1>3. ASSUME NEW c \in Component, Has(st, e, c), u = RemoveComponent(st, e, c)
      PROVE  /\ StorageOK(u) /\ OthersKeep(st, u, e)
             /\ TableMoves(st, u, e) /\ BucketMoves(st, u, e)
  <2>1. StorageOK(u)
    BY <1>3, RemoveComponentFacts, Zenon
  <2>2. OthersKeep(st, u, e)
    BY <1>3, RemoveComponentFacts, Zenon
  <2>3. TableMoves(st, u, e)
    BY <1>3, RemoveComponentFacts, Zenon
  <2>4. BucketMoves(st, u, e)
    BY <1>3, RemoveComponentFacts, Zenon
  <2>. QED  BY <2>1, <2>2, <2>3, <2>4
<1>4. ASSUME NEW c \in Component, NEW v \in Value, u = SetRecord(st, e, c, v)
      PROVE  /\ StorageOK(u) /\ OthersKeep(st, u, e)
             /\ TableMoves(st, u, e) /\ BucketMoves(st, u, e)
  <2>1. StorageOK(u)
    BY <1>4, SetRecordFacts, Zenon
  <2>2. OthersKeep(st, u, e)
    BY <1>4, SetRecordFacts, Zenon
  <2>3. TableMoves(st, u, e)
    BY <1>4, SetRecordFacts, Zenon
  <2>4. BucketMoves(st, u, e)
    BY <1>4, SetRecordFacts, Zenon
  <2>. QED  BY <2>1, <2>2, <2>3, <2>4
<1>. QED  BY <1>1, <1>2, <1>3, <1>4 DEF Call

LEMMA EditSteps ==
  ASSUME NEW e \in Entity,
         EditEntity(e) \/ \E c \in Component : EditRecord(e, c)
  PROVE  /\ Call(storage, storage', e)
         /\ Running => \E x \in Entity : cursor.seen[x] > 0
         /\ edits < MaxEdits /\ edits' = edits + 1 /\ UNCHANGED todo
         /\ cursor' = IF Running THEN AfterEdit(cursor, storage, storage', e) ELSE Idle
BY DEF EditEntity, EditRecord, Edit, Call

LEMMA StorageInvNext ==
  ASSUME StorageInv, [Next]_vars
  PROVE  StorageInv'
<1>1. StorageOK(storage) /\ edits \in 0..MaxEdits /\ MaxEdits \in Nat
      /\ todo \in Seq(Entity \X Component \X Value)
  BY StorageAssumption DEF StorageInv
<1>2. CASE SetUp
  <2>1. StorageOK(storage')
    BY <1>1, <1>2, SetUpStep, SetRecordFacts
  <2>2. todo' \in Seq(Entity \X Component \X Value)
    BY <1>1, <1>2, HeadTailProperties DEF SetUp
  <2>. QED  BY <1>1, <1>2, <2>1, <2>2 DEF SetUp, StorageInv
<1>3. ASSUME NEW Q \in Query, Start(Q) \/ Length(Q) PROVE StorageInv'
  <2>1. UNCHANGED <<edits, todo>> /\ storage' \in {storage, Cached(storage, Q)}
    BY <1>3 DEF Start, Length
  <2>2. StorageOK(storage')
    BY <1>1, <2>1, CachedFacts
  <2>. QED  BY <1>1, <2>1, <2>2 DEF StorageInv
<1>4. CASE Visit \/ Leave
  BY <1>1, <1>4 DEF Visit, Leave, StorageInv
<1>5. ASSUME NEW e \in Entity, EditEntity(e) \/ \E c \in Component : EditRecord(e, c)
      PROVE  StorageInv'
  <2>1. Call(storage, storage', e) /\ edits < MaxEdits /\ edits' = edits + 1 /\ UNCHANGED todo
    BY <1>5, EditSteps
  <2>2. StorageOK(storage')
    BY <1>1, <2>1, CallFacts
  <2>. QED  BY <1>1, <2>1, <2>2 DEF StorageInv
<1>6. CASE UNCHANGED vars
  BY <1>1, <1>6 DEF vars, StorageInv
<1>. QED  BY <1>2, <1>3, <1>4, <1>5, <1>6 DEF Next

\* For every program and every order of calls, in callbacks of a running query
\* or outside of it: the dense tables, the sparse index, the lists of components
\* and the archetype index with its cache fit together.
THEOREM StorageInvariant == Spec => []StorageInv
<1>1. Init => StorageInv
  BY StorageInvInit
<1>2. StorageInv /\ [Next]_vars => StorageInv'
  BY StorageInvNext
<1>. QED  BY <1>1, <1>2, PTL DEF Spec

LEMMA StorageTypes ==
  ASSUME StorageInv
  PROVE  StorageTypeOK
<1>1. /\ storage \in Storages /\ RecordsOK(storage) /\ IndexOK(storage)
      /\ storage.entities \subseteq Entity
  BY DEF StorageInv, StorageOK, Storages
<1>2. ASSUME NEW c \in Component, NEW e \in Entity
      PROVE  LET t == storage.tables[c]
                 row == t.sparseEntityToRow[e]
             IN  /\ Len(t.denseRecords) = Len(t.denseEntities)
                 /\ row \in 0..Len(t.denseEntities)
                 /\ row # 0 => t.denseEntities[row] = e /\ t.denseRecords[row].entityId = e
                 /\ row # 0 <=> Contains(storage.componentsByEntity[e], c)
                 /\ row # 0 <=> Contains(t.denseEntities, e)
  <2> DEFINE t == storage.tables[c]
  <2>1. TableOK(t)
    BY <1>1 DEF RecordsOK
  <2>2. Row(t, e) # 0 <=> Contains(storage.componentsByEntity[e], c)
    BY <1>1 DEF RecordsOK
  <2> HIDE DEF t
  <2>3. /\ Len(t.denseRecords) = Len(t.denseEntities)
        /\ Row(t, e) \in 0..Len(t.denseEntities)
        /\ Row(t, e) # 0 <=> Contains(t.denseEntities, e)
        /\ Row(t, e) # 0 => Row(t, e) \in 1..Len(t.denseEntities)
        /\ Row(t, e) # 0 => t.denseEntities[Row(t, e)] = e
    BY <2>1, TableFacts DEF TableOK
  <2>4. Row(t, e) # 0 => t.denseRecords[Row(t, e)].entityId = e
    BY <2>1, <2>3 DEF TableOK
  <2>. QED  BY <2>2, <2>3, <2>4 DEF Row, t
<1>3. ASSUME NEW e \in Entity, NEW s \in SUBSET Component
      PROVE  LET components == ToSet(storage.componentsByEntity[e])
             IN  /\ Contains(storage.buckets[s], e) <=> s = components /\ Cardinality(s) > 1
                 /\ storage.bucketByEntity[e] =
                      (IF Cardinality(components) > 1 THEN components ELSE NoBucket)
  <2> DEFINE components == ToSet(storage.componentsByEntity[e])
  <2>1. storage.bucketByEntity[e] = IF Wide(components) THEN components ELSE NoBucket
    BY DEF StorageInv, StorageOK, BucketOf
  <2>2. Contains(storage.buckets[s], e) <=> s # NoBucket /\ storage.bucketByEntity[e] = s
    BY <1>1 DEF IndexOK
  <2>3. ~Wide(NoBucket)
    BY WideFacts DEF NoBucket
  <2>. QED  BY <2>1, <2>2, <2>3 DEF Wide
<1>. QED  BY <1>1, <1>2, <1>3, Zenon DEF StorageTypeOK, StorageInv

\* The sparse index is the inverse of the dense columns, which have the records
\* of their entities, and an entity is in the bucket of its components.
THEOREM StorageTypeCorrect == Spec => []StorageTypeOK
<1>1. StorageInv => StorageTypeOK
  BY StorageTypes
<1>. QED  BY <1>1, StorageInvariant, PTL

-----------------------------------------------------------------------------
\* The storage implements the map of records.

\* The records of an entity, in the order in which they were set first.
Listing(st, e) ==
  [i \in 1..Len(st.componentsByEntity[e]) |->
     [component |-> st.componentsByEntity[e][i],
      record |-> RecordOf(st.tables[st.componentsByEntity[e][i]], e)]]

\* The place of a component among them.
Spot(records, c) == SelectInSeq(records, LAMBDA r : r.component = c)

LEMMA SpotFacts ==
  ASSUME NEW s, Len(s) \in Nat, NEW c
  PROVE  /\ Spot(s, c) \in 0..Len(s)
         /\ Spot(s, c) # 0 => s[Spot(s, c)].component = c
         /\ Spot(s, c) = 0 => \A j \in 1..Len(s) : s[j].component # c
<1> DEFINE i == Spot(s, c)
           I == {j \in 1..Len(s) : s[j].component = c}
<1>1. i = IF I # {} THEN CHOOSE j \in I : \A l \in I : j <= l ELSE 0
  BY Zenon DEF Spot, SelectInSeq, Min
<1>2. I \in SUBSET Nat /\ I \subseteq 1..Len(s)
  OBVIOUS
<1>3. CASE I # {}
  <2>1. \E j \in I : \A l \in I : j <= l
    <3> HIDE DEF I
    <3>. QED  BY <1>2, <1>3, SmallestNat
  <2>2. i \in I
    <3> HIDE DEF I, i
    <3>. QED  BY <1>1, <1>3, <2>1, Zenon
  <2>. QED  BY <2>2
<1>4. CASE I = {}
  <2>1. i = 0
    BY <1>1, <1>4, Zenon
  <2>. QED  BY <1>4, <2>1
<1>. QED  BY <1>3, <1>4

LEMMA FunctionIsSeq ==
  ASSUME NEW S, NEW n \in Nat, NEW f \in [1..n -> S]
  PROVE  f \in Seq(S) /\ Len(f) = n
OBVIOUS

LEMMA ListingFacts ==
  ASSUME NEW st, StorageOK(st), NEW e \in Entity
  PROVE  /\ Listing(st, e) \in Seq([component : Component, record : Records])
         /\ Len(Listing(st, e)) = Len(st.componentsByEntity[e])
         /\ Len(st.componentsByEntity[e]) \in Nat
         /\ \A i \in 1..Len(st.componentsByEntity[e]) :
              LET c == st.componentsByEntity[e][i]
              IN  /\ c \in Component /\ Row(st.tables[c], e) # 0
                  /\ Listing(st, e)[i] = [component |-> c, record |-> RecordOf(st.tables[c], e)]
<1> DEFINE listed == st.componentsByEntity[e]
<1>1. /\ listed \in Seq(Component) /\ Len(listed) \in Nat
      /\ \A i \in 1..Len(listed) : listed[i] \in Component
  <2>1. listed \in Seq(Component)
    BY DEF StorageOK, Storages
  <2> HIDE DEF listed
  <2>. QED  BY <2>1, ElementOfSeq
<1>2. \A i \in 1..Len(listed) : Row(st.tables[listed[i]], e) # 0
  BY <1>1 DEF StorageOK, RecordsOK, Contains
<1>3. ASSUME NEW i \in 1..Len(listed) PROVE RecordOf(st.tables[listed[i]], e) \in Records
  <2> DEFINE t == st.tables[listed[i]]
  <2>1. TableOK(t) /\ Row(t, e) # 0
    BY <1>1, <1>2 DEF StorageOK, RecordsOK
  <2> HIDE DEF t
  <2>. QED  BY <2>1, TableFacts DEF RecordOf, t
<1>4. Listing(st, e) = [i \in 1..Len(listed) |-> [component |-> listed[i],
                                       record |-> RecordOf(st.tables[listed[i]], e)]]
  BY DEF Listing
<1> HIDE DEF listed
<1>5. Listing(st, e) \in [1..Len(listed) -> [component : Component, record : Records]]
  BY <1>1, <1>3, <1>4
<1>6. Listing(st, e) \in Seq([component : Component, record : Records])
      /\ Len(Listing(st, e)) = Len(listed)
  <2> DEFINE S == [component : Component, record : Records]
  <2> HIDE DEF S
  <2>1. Listing(st, e) \in [1..Len(listed) -> S]
    BY <1>5 DEF S
  <2>2. Listing(st, e) \in Seq(S) /\ Len(Listing(st, e)) = Len(listed)
    BY <1>1, <2>1, FunctionIsSeq
  <2>. QED  BY <2>2 DEF S
<1>. QED  BY <1>1, <1>2, <1>4, <1>6 DEF listed

\* The place of a component is the same among the records.
LEMMA SpotOfListed ==
  ASSUME NEW st, StorageOK(st), NEW e \in Entity, NEW c \in Component
  PROVE  /\ Spot(Listing(st, e), c) \in 0..Len(st.componentsByEntity[e])
         /\ Spot(Listing(st, e), c) # 0 <=> Row(st.tables[c], e) # 0
         /\ \A i \in 1..Len(st.componentsByEntity[e]) :
              st.componentsByEntity[e][i] = c <=> i = Spot(Listing(st, e), c)
<1> DEFINE listed == st.componentsByEntity[e]
           l == Listing(st, e)
<1>1. /\ Len(l) = Len(listed) /\ Len(listed) \in Nat
      /\ \A i \in 1..Len(listed) :
           l[i] = [component |-> listed[i], record |-> RecordOf(st.tables[listed[i]], e)]
  BY ListingFacts
<1>2. Distinct(listed) /\ (Row(st.tables[c], e) # 0 <=> Contains(listed, c))
  BY DEF StorageOK, RecordsOK
<1> HIDE DEF listed, l
<1>a. ASSUME NEW i \in 1..Len(listed) PROVE l[i].component = listed[i]
  <2>1. l[i] = [component |-> listed[i], record |-> RecordOf(st.tables[listed[i]], e)]
    BY <1>1
  <2>. QED  BY <2>1
<1>3. /\ Spot(l, c) \in 0..Len(l)
      /\ Spot(l, c) # 0 => l[Spot(l, c)].component = c
      /\ Spot(l, c) = 0 => \A j \in 1..Len(l) : l[j].component # c
  BY <1>1, SpotFacts
<1>4. /\ Spot(l, c) \in 0..Len(listed)
      /\ Spot(l, c) # 0 <=> Row(st.tables[c], e) # 0
      /\ \A i \in 1..Len(listed) : listed[i] = c <=> i = Spot(l, c)
  <2>1. CASE Spot(l, c) = 0
    BY <1>1, <1>a, <1>2, <1>3, <2>1 DEF Contains
  <2>2. CASE Spot(l, c) # 0
    BY <1>1, <1>a, <1>2, <1>3, <2>2 DEF Contains, Distinct
  <2>. QED  BY <2>1, <2>2
<1>. QED  BY <1>4 DEF listed, l

LEMMA ListingsOfOthers ==
  ASSUME NEW st, StorageOK(st), NEW u, StorageOK(u), NEW e \in Entity, OthersKeep(st, u, e),
         NEW x \in Entity \ {e}
  PROVE  Listing(u, x) = Listing(st, x)
<1> DEFINE listed == st.componentsByEntity[x]
<1>1. u.componentsByEntity[x] = listed
  BY DEF OthersKeep
<1>2. \A i \in 1..Len(listed) : listed[i] \in Component /\ Row(st.tables[listed[i]], x) # 0
  BY ListingFacts
<1>3. \A i \in 1..Len(listed) :
        RecordOf(u.tables[listed[i]], x) = RecordOf(st.tables[listed[i]], x)
  BY <1>2 DEF OthersKeep
<1>. QED  BY <1>1, <1>3 DEF Listing

Entry(e, c, v) == [component |-> c, record |-> Record(e, v)]

LEMMA SetRecordListing ==
  ASSUME NEW st, StorageOK(st), NEW e \in Entity, NEW c \in Component, NEW v \in Value,
         NEW u, u = SetRecord(st, e, c, v)
  PROVE  Listing(u, e) =
           IF Spot(Listing(st, e), c) = 0 THEN Append(Listing(st, e), Entry(e, c, v))
           ELSE [Listing(st, e) EXCEPT ![Spot(Listing(st, e), c)] = Entry(e, c, v)]
<1> DEFINE listed == st.componentsByEntity[e]
           l == Listing(st, e)
           i == Spot(l, c)
           n == Len(listed)
<1>1. StorageOK(u)
  BY SetRecordFacts, Zenon
<1>e. SetEffect(st, u, e, c, v)
  BY SetRecordFacts, Zenon
<1>2. u.componentsByEntity = IF Contains(listed, c) THEN st.componentsByEntity
                             ELSE [st.componentsByEntity EXCEPT ![e] = Append(listed, c)]
  BY <1>e DEF SetEffect
<1>3. RecordOf(u.tables[c], e) = Record(e, v)
  BY <1>e DEF SetEffect
<1>4. \A d \in Component \ {c} : u.tables[d] = st.tables[d]
  BY <1>e DEF SetEffect
<1>5. /\ l \in Seq([component : Component, record : Records]) /\ Len(l) = n /\ n \in Nat
      /\ \A j \in 1..n : /\ listed[j] \in Component
                         /\ l[j] = [component |-> listed[j],
                                    record |-> RecordOf(st.tables[listed[j]], e)]
  BY ListingFacts
<1>6. /\ i \in 0..n /\ (i # 0 <=> Contains(listed, c))
      /\ \A j \in 1..n : listed[j] = c <=> j = i
  BY SpotOfListed DEF StorageOK, RecordsOK
<1>7. st.componentsByEntity \in [Entity -> Seq(Component)]
  BY DEF StorageOK, Storages
<1>8. Listing(u, e) = [j \in 1..Len(u.componentsByEntity[e]) |->
                         [component |-> u.componentsByEntity[e][j],
                          record |-> RecordOf(u.tables[u.componentsByEntity[e][j]], e)]]
  BY DEF Listing
<1>9. listed \in Seq(Component)
  BY <1>7
<1> HIDE DEF listed, l, i, n
<1>10. CASE i # 0
  <2>1. u.componentsByEntity[e] = listed
    BY <1>2, <1>6, <1>10 DEF listed
  <2> DEFINE r == [l EXCEPT ![i] = Entry(e, c, v)]
  <2>2. Listing(u, e) = [j \in 1..n |-> [component |-> listed[j],
                                         record |-> RecordOf(u.tables[listed[j]], e)]]
    BY <1>8, <2>1 DEF n
  <2>3. \A j \in 1..n : [component |-> listed[j], record |-> RecordOf(u.tables[listed[j]], e)]
                          = IF j = i THEN Entry(e, c, v) ELSE l[j]
    BY <1>3, <1>4, <1>5, <1>6 DEF Entry
  <2>4. r = [j \in 1..n |-> IF j = i THEN Entry(e, c, v) ELSE l[j]]
    <3>1. DOMAIN l = 1..n
      BY <1>5, LenProperties
    <3>. QED  BY <3>1
  <2>. QED  BY <1>10, <2>2, <2>3, <2>4 DEF l, i
<1>11. CASE i = 0
  <2> DEFINE longer == Append(listed, c)
             r == Append(l, Entry(e, c, v))
  <2>1. u.componentsByEntity[e] = longer
    BY <1>2, <1>6, <1>7, <1>11 DEF listed
  <2>2. /\ longer \in Seq(Component) /\ Len(longer) = n + 1
        /\ \A j \in 1..n : longer[j] = listed[j]
        /\ longer[n + 1] = c
    BY <1>9, AppendProperties DEF n
  <2>3. Entry(e, c, v) \in [component : Component, record : Records]
    BY DEF Entry, Record, Records
  <2>4. /\ r \in Seq([component : Component, record : Records]) /\ Len(r) = n + 1
        /\ \A j \in 1..n : r[j] = l[j]
        /\ r[n + 1] = Entry(e, c, v)
    BY <1>5, <2>3, AppendProperties
  <2> HIDE DEF longer, r
  <2>5. Listing(u, e) = [j \in 1..n + 1 |-> [component |-> longer[j],
                                             record |-> RecordOf(u.tables[longer[j]], e)]]
    BY <1>8, <2>1, <2>2
  <2>6. ASSUME NEW j \in 1..n + 1
        PROVE  [component |-> longer[j], record |-> RecordOf(u.tables[longer[j]], e)] = r[j]
    <3>1. CASE j = n + 1
      BY <1>3, <2>2, <2>4, <3>1 DEF Entry
    <3>2. CASE j \in 1..n
      BY <1>4, <1>5, <1>6, <1>11, <2>2, <2>4, <3>2
    <3>. QED  BY <1>5, <3>1, <3>2
  <2>7. r = [j \in 1..n + 1 |-> r[j]]
    BY <1>5, <2>4
  <2>8. Listing(u, e) = r
    BY <2>5, <2>6, <2>7
  <2>. QED  BY <1>11, <2>8 DEF r, l, i
<1>. QED  BY <1>10, <1>11

LEMMA RemoveComponentListing ==
  ASSUME NEW st, StorageOK(st), NEW e \in Entity, NEW c \in Component, Has(st, e, c),
         NEW u, u = RemoveComponent(st, e, c)
  PROVE  /\ Spot(Listing(st, e), c) # 0
         /\ Listing(u, e) = RemoveAt(Listing(st, e), Spot(Listing(st, e), c))
<1> DEFINE listed == st.componentsByEntity[e]
           l == Listing(st, e)
           i == Spot(l, c)
           n == Len(listed)
<1>1. StorageOK(u)
  BY RemoveComponentFacts, Zenon
<1>e. RemoveEffect(st, u, e, c)
  BY RemoveComponentFacts, Zenon
<1>2. u.componentsByEntity = [st.componentsByEntity EXCEPT ![e] = RemoveFirst(listed, c)]
  BY <1>e DEF RemoveEffect
<1>3. \A d \in Component \ {c} : u.tables[d] = st.tables[d]
  BY <1>e DEF RemoveEffect
<1>4. /\ l \in Seq([component : Component, record : Records]) /\ Len(l) = n /\ n \in Nat
      /\ \A j \in 1..n : /\ listed[j] \in Component
                         /\ l[j] = [component |-> listed[j],
                                    record |-> RecordOf(st.tables[listed[j]], e)]
  BY ListingFacts
<1>5. /\ i \in 1..n
      /\ \A j \in 1..n : listed[j] = c <=> j = i
  <2>1. Row(st.tables[c], e) # 0
    BY DEF Has, Row
  <2> HIDE DEF i, n
  <2>. QED  BY <1>4, <2>1, SpotOfListed DEF i, n
<1>6. listed \in Seq(Component) /\ Distinct(listed)
      /\ st.componentsByEntity \in [Entity -> Seq(Component)]
  BY DEF StorageOK, Storages, RecordsOK
<1>7. Listing(u, e) = [j \in 1..Len(u.componentsByEntity[e]) |->
                         [component |-> u.componentsByEntity[e][j],
                          record |-> RecordOf(u.tables[u.componentsByEntity[e][j]], e)]]
  BY DEF Listing
<1> HIDE DEF listed, l, i, n
<1> DEFINE shorter == RemoveAt(listed, i)
           r == RemoveAt(l, i)
<1>8. u.componentsByEntity[e] = shorter
  <2>1. i \in 1..Len(listed) /\ listed[i] = c
    BY <1>5 DEF n
  <2>2. RemoveFirst(listed, c) = shorter
    BY <1>6, <2>1, RemoveFirstFacts
  <2>. QED  BY <1>2, <1>6, <2>2
<1>9. /\ shorter \in Seq(Component) /\ Len(shorter) = n - 1
      /\ \A j \in 1..n - 1 : shorter[j] = IF j < i THEN listed[j] ELSE listed[j + 1]
  BY <1>5, <1>6, RemoveAtFacts DEF n
<1>10. /\ r \in Seq([component : Component, record : Records]) /\ Len(r) = n - 1
       /\ \A j \in 1..n - 1 : r[j] = IF j < i THEN l[j] ELSE l[j + 1]
  <2> i \in 1..Len(l)
    BY <1>4, <1>5
  <2>1. /\ r \in Seq([component : Component, record : Records]) /\ Len(r) = Len(l) - 1
        /\ \A j \in 1..Len(l) - 1 : r[j] = IF j < i THEN l[j] ELSE l[j + 1]
    BY <1>4, RemoveAtFacts
  <2>. QED  BY <1>4, <2>1
<1> HIDE DEF shorter, r
<1>11. Listing(u, e) = [j \in 1..n - 1 |-> [component |-> shorter[j],
                                            record |-> RecordOf(u.tables[shorter[j]], e)]]
  BY <1>7, <1>8, <1>9
<1>12. ASSUME NEW j \in 1..n - 1
       PROVE  [component |-> shorter[j], record |-> RecordOf(u.tables[shorter[j]], e)] = r[j]
  <2>1. PICK m \in 1..n : m # i /\ shorter[j] = listed[m] /\ r[j] = l[m]
    <3>1. CASE j < i
      BY <1>4, <1>5, <1>9, <1>10, <3>1
    <3>2. CASE ~(j < i)
      <4>1. j + 1 \in 1..n /\ j + 1 # i /\ shorter[j] = listed[j + 1] /\ r[j] = l[j + 1]
        BY <1>4, <1>5, <1>9, <1>10, <3>2
      <4>. QED  BY <4>1
    <3>. QED  BY <3>1, <3>2
  <2>. QED  BY <1>3, <1>4, <1>5, <2>1
<1>13. r = [j \in 1..n - 1 |-> r[j]]
  BY <1>4, <1>10
<1>14. Listing(u, e) = r
  BY <1>11, <1>12, <1>13
<1>15. i # 0
  BY <1>5
<1>. QED  BY <1>14, <1>15 DEF r, l, i

Listings(st) == [e \in Entity |-> Listing(st, e)]

\* What stands for the records of the promised map is that.
LEMMA PromiseRecords ==
  ASSUME NEW st
  PROVE  [e \in Entity |->
            [i \in 1..Len(st.componentsByEntity[e]) |->
               LET c == st.componentsByEntity[e][i]
               IN  [component |-> c, record |-> Get(st, e, c)]]] = Listings(st)
BY DEF Listings, Listing, Get, RecordOf, Row

LEMMA PromisePosition ==
  ASSUME NEW s, NEW c
  PROVE  Promise!Position(s, c) = Spot(s, c)
BY DEF Promise!Position, Promise!SelectInSeq, Promise!Min, Spot, SelectInSeq, Min

LEMMA PromiseRemoveAt ==
  ASSUME NEW s, NEW i
  PROVE  Promise!RemoveAt(s, i) = RemoveAt(s, i)
BY DEF Promise!RemoveAt, RemoveAt

LEMMA PromiseInit == Init => Promise!Init
<1> SUFFICES ASSUME Init PROVE Promise!Init
  OBVIOUS
<1>1. storage = EmptyStorage
  BY DEF Init
<1>2. storage.entities = {} /\ \A e \in Entity : storage.componentsByEntity[e] = << >>
  BY <1>1 DEF EmptyStorage
<1>3. Listings(storage) = [e \in Entity |-> << >>]
  BY <1>2 DEF Listings, Listing
<1>. QED  BY <1>2, <1>3, PromiseRecords DEF Promise!Init

\* The listings after a call differ for its entity only.
LEMMA ListingsExcept ==
  ASSUME NEW st, StorageOK(st), NEW u, StorageOK(u), NEW e \in Entity, OthersKeep(st, u, e)
  PROVE  Listings(u) = [Listings(st) EXCEPT ![e] = Listing(u, e)]
<1>1. \A x \in Entity \ {e} : Listing(u, x) = Listing(st, x)
  BY ListingsOfOthers
<1>. QED  BY <1>1 DEF Listings

LEMMA PromiseSet ==
  ASSUME StorageOK(storage), NEW e \in Entity, NEW c \in Component, NEW v \in Value,
         storage' = SetRecord(storage, e, c, v)
  PROVE  Promise!Set(e, c, v)
<1>1. PICK st, u : st = storage /\ u = storage'
  OBVIOUS
<1>2. StorageOK(st) /\ u = SetRecord(st, e, c, v)
  BY <1>1
<1>3. StorageOK(u) /\ OthersKeep(st, u, e) /\ SetEffect(st, u, e, c, v)
  <2>1. StorageOK(u)
    BY <1>2, SetRecordFacts, Zenon
  <2>2. OthersKeep(st, u, e)
    BY <1>2, SetRecordFacts, Zenon
  <2>3. SetEffect(st, u, e, c, v)
    BY <1>2, SetRecordFacts, Zenon
  <2>. QED  BY <2>1, <2>2, <2>3
<1>4. Listings(u) = [Listings(st) EXCEPT ![e] = Listing(u, e)]
  BY <1>2, <1>3, ListingsExcept
<1>5. Listing(u, e) =
        IF Spot(Listing(st, e), c) = 0 THEN Append(Listing(st, e), Entry(e, c, v))
        ELSE [Listing(st, e) EXCEPT ![Spot(Listing(st, e), c)] = Entry(e, c, v)]
  BY <1>2, SetRecordListing
<1>6. Listings(st)[e] = Listing(st, e)
  BY DEF Listings
<1>7. storage'.entities = storage.entities \cup {e}
  BY <1>1, <1>3 DEF SetEffect
<1>8. Listings(storage') = [Listings(storage) EXCEPT ![e] =
         IF Spot(Listings(storage)[e], c) = 0 THEN Append(Listings(storage)[e], Entry(e, c, v))
         ELSE [Listings(storage)[e] EXCEPT ![Spot(Listings(storage)[e], c)] = Entry(e, c, v)]]
  BY <1>1, <1>4, <1>5, <1>6
<1>9. Promise!Set(e, c, v)
         <=> /\ storage'.entities = storage.entities \cup {e}
             /\ Listings(storage') = [Listings(storage) EXCEPT ![e] =
                  IF Spot(Listings(storage)[e], c) = 0
                  THEN Append(Listings(storage)[e], Entry(e, c, v))
                  ELSE [Listings(storage)[e] EXCEPT ![Spot(Listings(storage)[e], c)] = Entry(e, c, v)]]
  <2> DEFINE R == [x \in Entity |->
                     [i \in 1..Len(storage.componentsByEntity[x]) |->
                        LET d == storage.componentsByEntity[x][i]
                        IN  [component |-> d, record |-> Get(storage, x, d)]]]
  <2>1. R = Listings(storage) /\ R' = Listings(storage')
    BY PromiseRecords
  <2>2. Promise!Set(e, c, v)
           <=> /\ storage'.entities = storage.entities \cup {e}
               /\ R' = [R EXCEPT ![e] =
                    IF Spot(R[e], c) = 0 THEN Append(R[e], Entry(e, c, v))
                    ELSE [R[e] EXCEPT ![Spot(R[e], c)] = Entry(e, c, v)]]
    BY PromisePosition, Zenon DEF Promise!Set, Promise!Record, Entry, Record
  <2> HIDE DEF R
  <2>. QED  BY <2>1, <2>2
<1>. QED  BY <1>7, <1>8, <1>9

LEMMA PromiseRemove ==
  ASSUME StorageOK(storage), NEW e \in Entity, NEW c \in Component, Has(storage, e, c),
         storage' = RemoveComponent(storage, e, c)
  PROVE  Promise!RemoveComponent(e, c)
<1>1. PICK st, u : st = storage /\ u = storage'
  OBVIOUS
<1>2. StorageOK(st) /\ Has(st, e, c) /\ u = RemoveComponent(st, e, c)
  BY <1>1
<1>3. StorageOK(u) /\ OthersKeep(st, u, e) /\ RemoveEffect(st, u, e, c)
  <2>1. StorageOK(u)
    BY <1>2, RemoveComponentFacts, Zenon
  <2>2. OthersKeep(st, u, e)
    BY <1>2, RemoveComponentFacts, Zenon
  <2>3. RemoveEffect(st, u, e, c)
    BY <1>2, RemoveComponentFacts, Zenon
  <2>. QED  BY <2>1, <2>2, <2>3
<1>4. Listings(u) = [Listings(st) EXCEPT ![e] = Listing(u, e)]
  BY <1>2, <1>3, ListingsExcept
<1>5. /\ Spot(Listing(st, e), c) # 0
      /\ Listing(u, e) = RemoveAt(Listing(st, e), Spot(Listing(st, e), c))
  BY <1>2, RemoveComponentListing
<1>6. Listings(st)[e] = Listing(st, e)
  BY DEF Listings
<1>7. storage'.entities = storage.entities
  BY <1>1, <1>3 DEF RemoveEffect
<1>8. /\ Spot(Listings(storage)[e], c) # 0
      /\ Listings(storage') = [Listings(storage) EXCEPT ![e] =
           RemoveAt(Listings(storage)[e], Spot(Listings(storage)[e], c))]
  BY <1>1, <1>4, <1>5, <1>6
<1> DEFINE R == [x \in Entity |->
                   [i \in 1..Len(storage.componentsByEntity[x]) |->
                      LET d == storage.componentsByEntity[x][i]
                      IN  [component |-> d, record |-> Get(storage, x, d)]]]
<1>9. R = Listings(storage) /\ R' = Listings(storage')
  BY PromiseRecords
<1>10. Promise!RemoveComponent(e, c)
         <=> /\ Spot(R[e], c) # 0
             /\ R' = [R EXCEPT ![e] = RemoveAt(R[e], Spot(R[e], c))]
             /\ storage'.entities = storage.entities
  BY PromisePosition, PromiseRemoveAt, Zenon DEF Promise!RemoveComponent
<1> HIDE DEF R
<1>. QED  BY <1>7, <1>8, <1>9, <1>10

LEMMA PromiseDelete ==
  ASSUME StorageOK(storage), NEW e \in Entity, e \in storage.entities,
         storage' = DeleteEntity(storage, e)
  PROVE  Promise!DeleteEntity(e)
<1>1. PICK st, u : st = storage /\ u = storage'
  OBVIOUS
<1>2. StorageOK(st) /\ u = DeleteEntity(st, e)
  BY <1>1
<1>3. StorageOK(u) /\ OthersKeep(st, u, e) /\ u.entities = st.entities \ {e}
      /\ u.componentsByEntity = [st.componentsByEntity EXCEPT ![e] = << >>]
  BY <1>2, DeleteEntityFacts
<1>4. Listings(u) = [Listings(st) EXCEPT ![e] = Listing(u, e)]
  BY <1>2, <1>3, ListingsExcept
<1>5. Listing(u, e) = << >>
  <2>1. u.componentsByEntity[e] = << >>
    BY <1>2, <1>3 DEF StorageOK, Storages
  <2>. QED  BY <2>1 DEF Listing
<1>6. /\ storage'.entities = storage.entities \ {e}
      /\ Listings(storage') = [Listings(storage) EXCEPT ![e] = << >>]
  BY <1>1, <1>3, <1>4, <1>5
<1> DEFINE R == [x \in Entity |->
                   [i \in 1..Len(storage.componentsByEntity[x]) |->
                      LET d == storage.componentsByEntity[x][i]
                      IN  [component |-> d, record |-> Get(storage, x, d)]]]
<1>7. R = Listings(storage) /\ R' = Listings(storage')
  BY PromiseRecords
<1>8. Promise!DeleteEntity(e)
        <=> /\ e \in storage.entities
            /\ storage'.entities = storage.entities \ {e}
            /\ R' = [R EXCEPT ![e] = << >>]
  BY Zenon DEF Promise!DeleteEntity
<1> HIDE DEF R
<1>. QED  BY <1>6, <1>7, <1>8

\* A step that keeps the entities and the listings keeps the promised map.
LEMMA PromiseKeeps ==
  ASSUME storage'.entities = storage.entities, Listings(storage') = Listings(storage)
  PROVE  UNCHANGED Promise!vars
<1> DEFINE R == [x \in Entity |->
                   [i \in 1..Len(storage.componentsByEntity[x]) |->
                      LET d == storage.componentsByEntity[x][i]
                      IN  [component |-> d, record |-> Get(storage, x, d)]]]
<1>1. R = Listings(storage) /\ R' = Listings(storage')
  BY PromiseRecords
<1>2. UNCHANGED Promise!vars <=> storage'.entities = storage.entities /\ R' = R
  BY Zenon DEF Promise!vars
<1> HIDE DEF R
<1>. QED  BY <1>1, <1>2

LEMMA PromiseAdd ==
  ASSUME StorageOK(storage), NEW e \in Entity, storage' = AddEntity(storage, e)
  PROVE  Promise!AddEntity(e)
<1>1. /\ storage'.entities = storage.entities \cup {e}
      /\ storage'.componentsByEntity = storage.componentsByEntity
      /\ storage'.tables = storage.tables
  BY AddEntityFacts
<1>2. Listings(storage') = Listings(storage)
  BY <1>1 DEF Listings, Listing
<1> DEFINE R == [x \in Entity |->
                   [i \in 1..Len(storage.componentsByEntity[x]) |->
                      LET d == storage.componentsByEntity[x][i]
                      IN  [component |-> d, record |-> Get(storage, x, d)]]]
<1>3. R = Listings(storage) /\ R' = Listings(storage')
  BY PromiseRecords
<1>4. Promise!AddEntity(e) <=> storage'.entities = storage.entities \cup {e} /\ R' = R
  BY Zenon DEF Promise!AddEntity
<1> HIDE DEF R
<1>. QED  BY <1>1, <1>2, <1>3, <1>4

LEMMA PromiseNext ==
  ASSUME StorageInv, [Next]_vars
  PROVE  [Promise!Next]_(Promise!vars)
<1>1. StorageOK(storage)
  BY DEF StorageInv
<1>2. CASE SetUp
  BY <1>1, <1>2, SetUpStep, PromiseSet DEF Promise!Next
<1>3. ASSUME NEW Q \in Query, Start(Q) \/ Length(Q) PROVE UNCHANGED Promise!vars
  <2>1. storage' \in {storage, Cached(storage, Q)}
    BY <1>3 DEF Start, Length
  <2>2. SameRecords(storage, storage')
    BY <1>1, <2>1, CachedFacts DEF SameRecords
  <2>. QED  BY <2>2, PromiseKeeps DEF SameRecords, Listings, Listing
<1>4. CASE Visit \/ Leave
  BY <1>4, PromiseKeeps DEF Visit, Leave
<1>5. ASSUME NEW e \in Entity, EditEntity(e) \/ \E c \in Component : EditRecord(e, c)
      PROVE  Promise!Next
  <2>1. Call(storage, storage', e)
    BY <1>5, EditSteps
  <2>2. CASE storage' = AddEntity(storage, e)
    BY <1>1, <2>2, PromiseAdd DEF Promise!Next
  <2>3. CASE e \in storage.entities /\ storage' = DeleteEntity(storage, e)
    BY <1>1, <2>3, PromiseDelete DEF Promise!Next
  <2>4. ASSUME NEW c \in Component, Has(storage, e, c), storage' = RemoveComponent(storage, e, c)
        PROVE  Promise!Next
    BY <1>1, <2>4, PromiseRemove DEF Promise!Next
  <2>5. ASSUME NEW c \in Component, NEW v \in Value, storage' = SetRecord(storage, e, c, v)
        PROVE  Promise!Next
    BY <1>1, <2>5, PromiseSet DEF Promise!Next
  <2>. QED  BY <2>1, <2>2, <2>3, <2>4, <2>5 DEF Call
<1>6. CASE UNCHANGED vars
  BY <1>6, PromiseKeeps DEF vars
<1>. QED  BY <1>2, <1>3, <1>4, <1>5, <1>6 DEF Next

\* Whatever rows and buckets do, the storage behaves as a map of records: every
\* call changes the records of its own entity, in the same way, and a query none.
THEOREM StorageImplementsRecordMap == Spec => ImplementsRecordMap
<1>1. Init => Promise!Init
  BY PromiseInit
<1>2. StorageInv /\ [Next]_vars => [Promise!Next]_(Promise!vars)
  BY PromiseNext
<1>. QED  BY <1>1, <1>2, StorageInvariant, PTL DEF Spec, ImplementsRecordMap, Promise!Spec

-----------------------------------------------------------------------------
\* A running query.

\* It walks over one table, or over buckets, of which no two are the same.
SourcesOK(sources) ==
  /\ sources \in Seq(SUBSET Component)
  /\ \/ \E c \in Component : sources = <<{c}>>
     \/ /\ \A k \in 1..Len(sources) : sources[k] # NoBucket => Wide(sources[k])
        /\ \A k, l \in 1..Len(sources) :
             sources[k] # NoBucket /\ sources[k] = sources[l] => k = l

Cursors(row) ==
  [ query : Query \cup {<< >>}, sources : Seq(SUBSET Component), source : Nat, at : Nat,
    row : {row}, seen : [Entity -> Nat], touched : SUBSET Entity, behind : Nat ]

CursorOK(cur) ==
  /\ cur \in Cursors(cur.row)
  /\ cur.source # 0 => cur.query \in Query /\ SourcesOK(cur.sources)
  /\ cur.source # 0 /\ (\E e \in Entity : cur.seen[e] > 0) => cur.source <= Len(cur.sources)
  /\ cur.source = 0 => cur.row = NoRow

\* The entities that match, and the row of one of them.
MatchingIn(st, Q) == {e \in st.entities : HasAll(st, e, Q)}

CurrentRow(st, e, Q) ==
  [entity |-> e, records |-> [k \in 1..Len(Q) |-> RecordOf(st.tables[Q[k]], e)]]

RowCurrent(st, cur) ==
  cur.row # NoRow =>
    /\ cur.row.entity \in MatchingIn(st, cur.query)
    /\ cur.row = CurrentRow(st, cur.row.entity, cur.query)

\* The entities at positions that the iteration has not reached.
Upcoming(st, cur) ==
  {e \in Entity : \E p \in Ahead(st, cur) : EntitiesIn(st, cur.sources[p[1]])[p[2]] = e}

\* Those left alone that match and were not seen.
Unseen(st, cur) == {e \in MatchingIn(st, cur.query) \ cur.touched : cur.seen[e] = 0}

\* What was seen does not come again; what was not seen is still to come, but for
\* as many entities as were moved behind the position.
WalkOK(st, cur) ==
  /\ \A e \in Entity \ cur.touched :
       /\ cur.seen[e] <= 1
       /\ cur.source # 0 /\ cur.seen[e] = 1 => e \notin Upcoming(st, cur)
  /\ cur.query # << >> =>
       LET missed == IF cur.source = 0 THEN Unseen(st, cur)
                     ELSE Unseen(st, cur) \ Upcoming(st, cur)
       IN  IsFiniteSet(missed) /\ Cardinality(missed) <= cur.behind

WalkInv ==
  /\ StorageInv
  /\ todo # << >> => cursor = Idle
  /\ CursorOK(cursor)
  /\ RowCurrent(storage, cursor)
  /\ WalkOK(storage, cursor)

LEMMA QueryFacts ==
  ASSUME NEW Q \in Query
  PROVE  /\ Q \in Seq(Component) /\ Len(Q) \in Nat \ {0}
         /\ \A k \in 1..Len(Q) : Q[k] \in Component
         /\ \A k, l \in 1..Len(Q) : Q[k] = Q[l] => k = l
         /\ ToSet(Q) \subseteq Component
<1>1. Q \in Seq(Component) /\ Q # << >> /\ IsInjective(Q)
  BY StorageAssumption
<1>2. Len(Q) \in Nat \ {0} /\ DOMAIN Q = 1..Len(Q)
  BY <1>1, EmptySeq, LenProperties
<1>3. \A k \in 1..Len(Q) : Q[k] \in Component
  BY <1>1, ElementOfSeq
<1>4. \A k, l \in 1..Len(Q) : Q[k] = Q[l] => k = l
  BY <1>1, <1>2 DEF IsInjective
<1>5. ToSet(Q) \subseteq Component
  BY <1>1, ToSetFacts
<1>. QED  BY <1>1, <1>2, <1>3, <1>4, <1>5

LEMMA HasFacts ==
  ASSUME NEW st, StorageOK(st), NEW e \in Entity, NEW c \in Component
  PROVE  /\ Has(st, e, c) <=> Row(st.tables[c], e) # 0
         /\ Has(st, e, c) => e \in st.entities
<1>1. Has(st, e, c) <=> Row(st.tables[c], e) # 0
  BY DEF Has, Row
<1>2. ASSUME Row(st.tables[c], e) # 0 PROVE e \in st.entities
  <2>1. Contains(st.componentsByEntity[e], c)
    BY <1>2 DEF StorageOK, RecordsOK
  <2>2. st.componentsByEntity[e] # << >>
    BY <2>1 DEF Contains
  <2>. QED  BY <2>2 DEF StorageOK, RecordsOK
<1>. QED  BY <1>1, <1>2

\* The promised map says the same of what matches, and of its rows.
LEMMA PromiseMatching ==
  ASSUME StorageOK(storage), NEW Q \in Query
  PROVE  /\ Promise!Matching(Q) = MatchingIn(storage, Q)
         /\ \A e \in MatchingIn(storage, Q) :
              Promise!QueryRow(e, Q) = CurrentRow(storage, e, Q)
<1> DEFINE R == [x \in Entity |->
                   [i \in 1..Len(storage.componentsByEntity[x]) |->
                      LET d == storage.componentsByEntity[x][i]
                      IN  [component |-> d, record |-> Get(storage, x, d)]]]
<1>1. R = Listings(storage)
  BY PromiseRecords
<1>2. Promise!Matching(Q) =
        {e \in storage.entities : \A k \in 1..Len(Q) : Spot(R[e], Q[k]) # 0}
  BY PromisePosition, Zenon DEF Promise!Matching
<1>3. \A e : Promise!QueryRow(e, Q) =
        [entity |-> e,
         records |-> [k \in 1..Len(Q) |-> R[e][Spot(R[e], Q[k])].record]]
  <2>1. \A e, c : Promise!Get(e, c) = R[e][Spot(R[e], c)].record
    BY PromisePosition, Zenon DEF Promise!Get
  <2>2. \A e : Promise!QueryRow(e, Q) =
          [entity |-> e, records |-> [k \in 1..Len(Q) |-> Promise!Get(e, Q[k])]]
    BY Zenon DEF Promise!QueryRow
  <2> HIDE DEF R
  <2>. QED  BY <2>1, <2>2
<1> HIDE DEF R
<1>4. \A e \in Entity : R[e] = Listing(storage, e)
  BY <1>1 DEF Listings
<1>5. storage.entities \subseteq Entity
  BY DEF StorageOK, Storages
<1>6. ASSUME NEW e \in Entity, NEW c \in Component
      PROVE  Spot(R[e], c) # 0 <=> Has(storage, e, c)
  BY <1>4, SpotOfListed, HasFacts
<1>7. Promise!Matching(Q) = MatchingIn(storage, Q)
  BY <1>2, <1>5, <1>6, QueryFacts DEF MatchingIn, HasAll
<1>8. ASSUME NEW e \in MatchingIn(storage, Q), NEW k \in 1..Len(Q)
      PROVE  R[e][Spot(R[e], Q[k])].record = RecordOf(storage.tables[Q[k]], e)
  <2> DEFINE c == Q[k]
             i == Spot(R[e], c)
  <2>1. e \in Entity /\ c \in Component /\ Has(storage, e, c)
    BY <1>5, QueryFacts DEF MatchingIn, HasAll
  <2> HIDE DEF c
  <2>2. i \in 0..Len(storage.componentsByEntity[e]) /\ i # 0
    BY <1>4, <1>6, <2>1, SpotOfListed
  <2>3. i \in 1..Len(storage.componentsByEntity[e])
    BY <2>1, <2>2, ListingFacts
  <2>4. storage.componentsByEntity[e][i] = c
    BY <1>4, <2>1, <2>3, SpotOfListed
  <2> HIDE DEF i
  <2>5. Listing(storage, e)[i] = [component |-> c, record |-> RecordOf(storage.tables[c], e)]
    BY <2>1, <2>3, <2>4, ListingFacts
  <2>6. R[e][i].record = RecordOf(storage.tables[c], e)
    BY <1>4, <2>1, <2>5
  <2>. QED  BY <2>6 DEF i, c
<1>9. \A e \in MatchingIn(storage, Q) : Promise!QueryRow(e, Q) = CurrentRow(storage, e, Q)
  BY <1>3, <1>8 DEF CurrentRow
<1>. QED  BY <1>7, <1>9

\* What an iteration walks over.
LEMMA SourceFacts ==
  ASSUME NEW st, StorageOK(st), NEW s \in SUBSET Component
  PROVE  /\ \A c \in Component :
              s = {c} => /\ IsTable(s) /\ TableOf(st, s) = st.tables[c]
                         /\ EntitiesIn(st, s) = st.tables[c].denseEntities
         /\ s = NoBucket \/ Wide(s) => ~IsTable(s) /\ EntitiesIn(st, s) = st.buckets[s]
         /\ IsTable(s) => \E c \in Component : s = {c}
         /\ EntitiesIn(st, s) \in Seq(Entity) /\ Distinct(EntitiesIn(st, s))
<1>1. /\ \A c : IsTable({c})
      /\ IsTable(s) <=> \E c : s = {c}
      /\ s = NoBucket \/ Wide(s) => ~IsTable(s)
  BY WideFacts, FS_Singleton, FS_EmptySet DEF IsTable, Wide, NoBucket
<1>2. \A c : (CHOOSE x \in {c} : TRUE) = c
  OBVIOUS
<1>3. \A c \in Component :
        s = {c} => /\ TableOf(st, s) = st.tables[c]
                   /\ EntitiesIn(st, s) = st.tables[c].denseEntities
  BY <1>1, <1>2 DEF TableOf, EntitiesIn
<1>4. ~IsTable(s) => EntitiesIn(st, s) = st.buckets[s]
  BY DEF EntitiesIn
<1>5. IsTable(s) => \E c \in Component : s = {c}
  BY <1>1
<1>6. \A c \in Component : /\ st.tables[c].denseEntities \in Seq(Entity)
                           /\ Distinct(st.tables[c].denseEntities)
  BY TableFacts DEF StorageOK, RecordsOK
<1>7. st.buckets[s] \in Seq(Entity) /\ Distinct(st.buckets[s])
  BY DEF StorageOK, Storages, IndexOK
<1>. QED  BY <1>1, <1>3, <1>4, <1>5, <1>6, <1>7

LEMMA OnePlace ==
  ASSUME NEW st, StorageOK(st), NEW sources, SourcesOK(sources),
         NEW k \in 1..Len(sources), NEW l \in 1..Len(sources),
         NEW i \in 1..Len(EntitiesIn(st, sources[k])),
         NEW j \in 1..Len(EntitiesIn(st, sources[l])),
         EntitiesIn(st, sources[k])[i] = EntitiesIn(st, sources[l])[j]
  PROVE  k = l /\ i = j
<1>1. sources \in Seq(SUBSET Component)
  BY DEF SourcesOK
<1>2. sources[k] \in SUBSET Component /\ sources[l] \in SUBSET Component
  BY <1>1, ElementOfSeq
<1>3. CASE \E c \in Component : sources = <<{c}>>
  <2>1. k = l
    BY <1>3
  <2>2. Distinct(EntitiesIn(st, sources[k]))
    BY <1>2, SourceFacts
  <2>. QED  BY <2>1, <2>2 DEF Distinct
<1>4. CASE /\ \A m \in 1..Len(sources) : sources[m] # NoBucket => Wide(sources[m])
           /\ \A m, n \in 1..Len(sources) :
                sources[m] # NoBucket /\ sources[m] = sources[n] => m = n
  <2>1. /\ EntitiesIn(st, sources[k]) = st.buckets[sources[k]]
        /\ EntitiesIn(st, sources[l]) = st.buckets[sources[l]]
        /\ EntitiesIn(st, sources[k]) \in Seq(Entity)
        /\ Distinct(EntitiesIn(st, sources[k]))
    BY <1>2, <1>4, SourceFacts
  <2>2. PICK e \in Entity : e = EntitiesIn(st, sources[k])[i]
    BY <2>1, ElementOfSeq
  <2>3. Contains(st.buckets[sources[k]], e) /\ Contains(st.buckets[sources[l]], e)
    BY <2>1, <2>2 DEF Contains
  <2>4. sources[k] # NoBucket /\ sources[k] = sources[l]
    BY <1>2, <2>3 DEF StorageOK, IndexOK
  <2>5. k = l
    BY <1>4, <2>4
  <2>. QED  BY <2>1, <2>5 DEF Distinct
<1>. QED  BY <1>3, <1>4 DEF SourcesOK

\* The position i of the source k was not reached.
Comes(st, cur, k, i) ==
  /\ k \in cur.source..Len(cur.sources)
  /\ i \in 1..Len(EntitiesIn(st, cur.sources[k]))
  /\ k = cur.source => i > cur.at

LEMMA AheadFacts ==
  ASSUME NEW st, StorageOK(st), NEW cur, CursorOK(cur), cur.source # 0
  PROVE  /\ \A k, i : <<k, i>> \in Ahead(st, cur) <=> Comes(st, cur, k, i)
         /\ \A p \in Ahead(st, cur) : p = <<p[1], p[2]>> /\ Comes(st, cur, p[1], p[2])
         /\ \A k, i : Comes(st, cur, k, i) =>
              /\ k \in 1..Len(cur.sources) /\ k \in Nat /\ i \in Nat
              /\ cur.sources[k] \in SUBSET Component
              /\ EntitiesIn(st, cur.sources[k])[i] \in Entity
<1>1. /\ cur.source \in Nat \ {0} /\ cur.at \in Nat /\ cur.sources \in Seq(SUBSET Component)
  BY DEF CursorOK, Cursors
<1>2. Len(cur.sources) \in Nat
        /\ \A k \in 1..Len(cur.sources) : cur.sources[k] \in SUBSET Component
  BY <1>1, ElementOfSeq
<1>3. \A k \in 1..Len(cur.sources) : /\ EntitiesIn(st, cur.sources[k]) \in Seq(Entity)
                                     /\ Len(EntitiesIn(st, cur.sources[k])) \in Nat
  BY <1>2, SourceFacts, LenProperties
<1> DEFINE T(k) == {<<k, i>> : i \in (IF k = cur.source THEN cur.at + 1 ELSE 1)
                                     ..Len(EntitiesIn(st, cur.sources[k]))}
<1>4. Ahead(st, cur) = UNION {T(k) : k \in cur.source..Len(cur.sources)}
  BY DEF Ahead
<1>5. ASSUME NEW k \in cur.source..Len(cur.sources)
      PROVE  /\ k \in 1..Len(cur.sources)
             /\ \A i : i \in (IF k = cur.source THEN cur.at + 1 ELSE 1)
                              ..Len(EntitiesIn(st, cur.sources[k])) <=> Comes(st, cur, k, i)
  <2>1. k \in 1..Len(cur.sources)
    BY <1>1, <1>2
  <2>2. Len(EntitiesIn(st, cur.sources[k])) \in Nat
    BY <1>3, <2>1
  <2>. QED  BY <1>1, <2>1, <2>2 DEF Comes
<1>6. \A p \in Ahead(st, cur) : p = <<p[1], p[2]>> /\ Comes(st, cur, p[1], p[2])
  <2> SUFFICES ASSUME NEW p \in Ahead(st, cur)
               PROVE  p = <<p[1], p[2]>> /\ Comes(st, cur, p[1], p[2])
    OBVIOUS
  <2>1. PICK k \in cur.source..Len(cur.sources) : p \in T(k)
    BY <1>4
  <2>2. PICK i \in (IF k = cur.source THEN cur.at + 1 ELSE 1)
                   ..Len(EntitiesIn(st, cur.sources[k])) : p = <<k, i>>
    BY <2>1
  <2>. QED  BY <1>5, <2>2
<1>7. ASSUME NEW k, NEW i, Comes(st, cur, k, i) PROVE <<k, i>> \in Ahead(st, cur)
  <2>1. k \in cur.source..Len(cur.sources)
    BY <1>7 DEF Comes
  <2>2. <<k, i>> \in T(k)
    BY <1>5, <1>7, <2>1
  <2>. QED  BY <1>4, <2>1, <2>2
<1>8. \A k, i : <<k, i>> \in Ahead(st, cur) => Comes(st, cur, k, i)
  BY <1>6
<1>9. ASSUME NEW k, NEW i, Comes(st, cur, k, i)
      PROVE  /\ k \in 1..Len(cur.sources) /\ k \in Nat /\ i \in Nat
             /\ cur.sources[k] \in SUBSET Component
             /\ EntitiesIn(st, cur.sources[k])[i] \in Entity
  <2>1. k \in 1..Len(cur.sources) /\ i \in 1..Len(EntitiesIn(st, cur.sources[k]))
    BY <1>1, <1>2, <1>9 DEF Comes
  <2>2. cur.sources[k] \in SUBSET Component /\ EntitiesIn(st, cur.sources[k]) \in Seq(Entity)
    BY <1>2, <1>3, <2>1
  <2>3. EntitiesIn(st, cur.sources[k])[i] \in Entity
    BY <2>1, <2>2, ElementOfSeq
  <2>. QED  BY <1>2, <1>3, <2>1, <2>2, <2>3
<1>. QED  BY <1>6, <1>7, <1>8, <1>9

\* Of the positions ahead, one comes first.
LEMMA FirstPosition ==
  ASSUME NEW P \in SUBSET (Nat \X Nat), P # {}
  PROVE  \E p \in P : \A q \in P : ~Precedes(q, p)
<1> DEFINE K == {p[1] : p \in P}
<1>1. K \in SUBSET Nat /\ K # {}
  OBVIOUS
<1>2. PICK k \in K : \A l \in K : k <= l
  <2> HIDE DEF K
  <2>. QED  BY <1>1, SmallestNat
<1> DEFINE I == {p[2] : p \in {q \in P : q[1] = k}}
<1>3. I \in SUBSET Nat /\ I # {}
  OBVIOUS
<1>4. PICK i \in I : \A j \in I : i <= j
  <2> HIDE DEF I
  <2>. QED  BY <1>3, SmallestNat
<1>5. PICK p \in P : p[1] = k /\ p[2] = i
  BY <1>4
<1>6. ASSUME NEW q \in P PROVE ~Precedes(q, p)
  <2>1. q[1] \in K /\ k <= q[1] /\ k \in Nat /\ q[1] \in Nat /\ q[2] \in Nat /\ i \in Nat
    BY <1>2, <1>3, <1>4
  <2>2. q[1] = k => i <= q[2]
    BY <1>4
  <2>. QED  BY <1>5, <2>1, <2>2 DEF Precedes
<1>. QED  BY <1>6

\* The row for a place where the entity matches is made of its current records.
LEMMA RowAtFacts ==
  ASSUME NEW st, StorageOK(st), NEW Q \in Query, NEW s \in SUBSET Component,
         NEW i \in 1..Len(EntitiesIn(st, s)), NEW e, e = EntitiesIn(st, s)[i],
         HasAll(st, e, Q)
  PROVE  e \in MatchingIn(st, Q) /\ RowAt(st, Q, s, i) = CurrentRow(st, e, Q)
<1>1. e \in Entity
  BY SourceFacts, ElementOfSeq
<1>2. \A k \in 1..Len(Q) : Q[k] \in Component /\ Has(st, e, Q[k])
  BY QueryFacts DEF HasAll
<1>3. e \in MatchingIn(st, Q)
  <2>1. 1 \in 1..Len(Q)
    BY QueryFacts
  <2>. QED  BY <1>1, <1>2, <2>1, HasFacts DEF MatchingIn
<1> DEFINE dense == IsTable(s) /\ Len(Q) <= 2
<1>4. ASSUME IsTable(s)
      PROVE  /\ TableOf(st, s).denseRecords[i].entityId = e
             /\ \A c \in s : TableOf(st, s).denseRecords[i] = RecordOf(st.tables[c], e)
  <2>1. PICK c \in Component : s = {c}
    BY <1>4, SourceFacts
  <2>2. TableOf(st, s) = st.tables[c] /\ EntitiesIn(st, s) = st.tables[c].denseEntities
    BY <2>1, SourceFacts
  <2>3. TableOK(st.tables[c])
    BY DEF StorageOK, RecordsOK
  <2>4. st.tables[c].denseRecords[i].entityId = e /\ Row(st.tables[c], e) = i
    BY <2>2, <2>3 DEF TableOK
  <2>. QED  BY <2>1, <2>2, <2>4 DEF RecordOf
<1>5. \A c : Get(st, e, c) = RecordOf(st.tables[c], e)
  BY DEF Get, RecordOf, Row
<1>6. ASSUME NEW k \in 1..Len(Q)
      PROVE  (IF dense /\ Q[k] \in s THEN TableOf(st, s).denseRecords[i] ELSE Get(st, e, Q[k]))
               = RecordOf(st.tables[Q[k]], e)
  BY <1>4, <1>5
<1>7. (IF dense /\ Len(Q) = 1 THEN TableOf(st, s).denseRecords[i].entityId
       ELSE EntitiesIn(st, s)[i]) = e
  BY <1>4
<1>8. RowAt(st, Q, s, i) =
        [entity |-> e,
         records |-> [k \in 1..Len(Q) |->
                        IF dense /\ Q[k] \in s THEN TableOf(st, s).denseRecords[i]
                        ELSE Get(st, e, Q[k])]]
  BY <1>7 DEF RowAt
<1> HIDE DEF dense
<1>9. RowAt(st, Q, s, i) = CurrentRow(st, e, Q)
  BY <1>6, <1>8 DEF CurrentRow
<1>. QED  BY <1>3, <1>9

LEMMA SmallestComponentFacts ==
  ASSUME NEW st, StorageOK(st), NEW Q \in Query
  PROVE  \E k \in 1..Len(Q) : SmallestComponent(st, Q) = Q[k]
<1> DEFINE size(i) == ComponentSize(st, Q[i])
           Sizes == {size(i) : i \in 1..Len(Q)}
           I == {i \in 1..Len(Q) : \A j \in 1..Len(Q) : size(i) <= size(j)}
<1>1. Len(Q) \in Nat \ {0} /\ \A i \in 1..Len(Q) : size(i) \in Nat
  BY QueryFacts, TableFacts DEF ComponentSize, StorageOK, RecordsOK
<1>2. I # {}
  <2>1. Sizes \in SUBSET Nat /\ Sizes # {}
    BY <1>1
  <2>2. PICK n \in Sizes : \A m \in Sizes : n <= m
    <3> HIDE DEF Sizes
    <3>. QED  BY <2>1, SmallestNat
  <2>. QED  BY <2>2
<1>3. I \in SUBSET Nat /\ I \subseteq 1..Len(Q)
  <2> HIDE DEF size
  <2>. QED  OBVIOUS
<1>4. SmallestComponent(st, Q) = Q[CHOOSE i \in I : \A j \in I : i <= j]
  BY Zenon DEF SmallestComponent, Min
<1> HIDE DEF I
<1>5. \E i \in I : \A j \in I : i <= j
  BY <1>2, <1>3, SmallestNat
<1>6. (CHOOSE i \in I : \A j \in I : i <= j) \in I
  BY <1>5, Zenon
<1>. QED  BY <1>3, <1>4, <1>6

\* The plan of a query: every entity that matches has a place in it.
LEMMA SourcesFacts ==
  ASSUME NEW st, StorageOK(st), NEW Q \in Query
  PROVE  /\ SourcesOK(Sources(st, Q))
         /\ \A e \in MatchingIn(st, Q) :
              \E k \in 1..Len(Sources(st, Q)) :
                \E i \in 1..Len(EntitiesIn(st, Sources(st, Q)[k])) :
                  EntitiesIn(st, Sources(st, Q)[k])[i] = e
<1> DEFINE smallest == SmallestComponent(st, Q)
           S == Sources(st, Q)
<1>1. PICK m \in 1..Len(Q) : smallest = Q[m]
  BY SmallestComponentFacts
<1>2. smallest \in Component
  BY <1>1, QueryFacts
<1>3. ASSUME NEW e \in MatchingIn(st, Q), NEW k \in 1..Len(Q)
      PROVE  e \in Entity /\ Q[k] \in Component /\ Row(st.tables[Q[k]], e) # 0
  <2>1. e \in Entity /\ Has(st, e, Q[k]) /\ Q[k] \in Component
    BY QueryFacts DEF MatchingIn, HasAll, StorageOK, Storages
  <2>. QED  BY <2>1, HasFacts
<1>4. CASE S = <<{smallest}>>
  <2>1. SourcesOK(S)
    BY <1>2, <1>4 DEF SourcesOK
  <2>2. ASSUME NEW e \in MatchingIn(st, Q)
        PROVE  \E k \in 1..Len(S) : \E i \in 1..Len(EntitiesIn(st, S[k])) :
                 EntitiesIn(st, S[k])[i] = e
    <3>1. 1 \in 1..Len(S) /\ S[1] = {smallest}
      BY <1>4
    <3>2. EntitiesIn(st, S[1]) = st.tables[smallest].denseEntities
      BY <1>2, <3>1, SourceFacts
    <3>3. TableOK(st.tables[smallest]) /\ e \in Entity /\ Row(st.tables[smallest], e) # 0
      BY <1>1, <1>2, <1>3 DEF StorageOK, RecordsOK
    <3>4. Contains(EntitiesIn(st, S[1]), e)
      BY <3>2, <3>3, TableFacts
    <3>. QED  BY <3>1, <3>4 DEF Contains
  <2>. QED  BY <2>1, <2>2
<1>5. CASE Len(Q) > 2 /\ S = MatchingBuckets(st, Q)
  <2>1. /\ S \in Seq(SUBSET Component) /\ Len(S) = Len(st.signatures)
        /\ \A i \in 1..Len(st.signatures) :
             S[i] = IF SignatureContains(st.signatures[i], Q) THEN st.signatures[i] ELSE NoBucket
    BY <1>5, MatchingBucketsFacts
  <2> HIDE DEF S
  <2>2. SourcesOK(S)
    <3>1. \A k \in 1..Len(S) : S[k] # NoBucket => Wide(S[k]) /\ S[k] = st.signatures[k]
      BY <2>1 DEF StorageOK, IndexOK
    <3>. QED  BY <2>1, <3>1 DEF SourcesOK, StorageOK, IndexOK, Distinct
  <2>3. ASSUME NEW e \in MatchingIn(st, Q)
        PROVE  \E k \in 1..Len(S) : \E i \in 1..Len(EntitiesIn(st, S[k])) :
                 EntitiesIn(st, S[k])[i] = e
    <3> DEFINE s == ToSet(st.componentsByEntity[e])
    <3>1. e \in Entity
      BY DEF MatchingIn, StorageOK, Storages
    <3>2. s \in SUBSET Component /\ \A c : c \in s <=> Contains(st.componentsByEntity[e], c)
      BY <3>1, ToSetFacts DEF StorageOK, Storages
    <3> HIDE DEF s
    <3>3. \A k \in 1..Len(Q) : Q[k] \in s
      BY <1>3, <3>1, <3>2 DEF StorageOK, RecordsOK
    <3>4. SignatureContains(s, Q)
      BY <3>3, QueryFacts DEF SignatureContains, ToSet
    <3>5. Wide(s)
      <4>1. Q[1] \in s /\ Q[2] \in s /\ Q[1] # Q[2]
        BY <1>5, <3>3, QueryFacts
      <4>2. /\ Cardinality(s) \in Nat
            /\ Cardinality(s \ {Q[1]}) = Cardinality(s) - 1
            /\ Cardinality((s \ {Q[1]}) \ {Q[2]}) = Cardinality(s \ {Q[1]}) - 1
            /\ Cardinality((s \ {Q[1]}) \ {Q[2]}) \in Nat
        <5>1. s \ {Q[1]} \in SUBSET Component /\ (s \ {Q[1]}) \ {Q[2]} \in SUBSET Component
              /\ Q[2] \in s \ {Q[1]}
          BY <3>2, <4>1
        <5>. QED  BY <3>2, <4>1, <5>1, WideFacts
      <4>. QED  BY <4>2 DEF Wide
    <3>6. st.bucketByEntity[e] = s /\ s # NoBucket
      BY <3>1, <3>5, WideFacts DEF StorageOK, BucketOf, NoBucket, s
    <3>7. PICK k \in 1..Len(st.signatures) : st.signatures[k] = s
      BY <3>1, <3>6 DEF StorageOK, IndexOK, Contains
    <3>8. k \in 1..Len(S) /\ S[k] = s
      BY <2>1, <3>4, <3>7
    <3>9. Contains(EntitiesIn(st, S[k]), e)
      <4>1. EntitiesIn(st, s) = st.buckets[s]
        BY <3>2, <3>5, SourceFacts
      <4>. QED  BY <3>1, <3>2, <3>6, <3>8, <4>1 DEF StorageOK, IndexOK
    <3>. QED  BY <3>8, <3>9 DEF Contains
  <2>. QED  BY <2>2, <2>3 DEF S
<1>. QED  BY <1>4, <1>5 DEF Sources

\* Nothing about a walk changes with the cache.
LEMMA SameWalk ==
  ASSUME NEW st, NEW u, SameRecords(st, u), u.buckets = st.buckets
  PROVE  /\ \A s : EntitiesIn(u, s) = EntitiesIn(st, s)
         /\ \A cur : Upcoming(u, cur) = Upcoming(st, cur)
         /\ \A Q : MatchingIn(u, Q) = MatchingIn(st, Q)
         /\ \A cur : WalkOK(st, cur) => WalkOK(u, cur)
         /\ \A cur : RowCurrent(st, cur) => RowCurrent(u, cur)
<1>1. u.tables = st.tables /\ u.entities = st.entities
  BY DEF SameRecords
<1>2. \A s : EntitiesIn(u, s) = EntitiesIn(st, s)
  BY <1>1 DEF EntitiesIn, TableOf
<1>3. \A cur : Ahead(u, cur) = Ahead(st, cur)
  BY <1>2 DEF Ahead
<1>4. \A cur : Upcoming(u, cur) = Upcoming(st, cur)
  BY <1>2, <1>3 DEF Upcoming
<1>5. \A Q : MatchingIn(u, Q) = MatchingIn(st, Q)
  BY <1>1 DEF MatchingIn, HasAll, Has
<1>6. \A cur : Unseen(u, cur) = Unseen(st, cur)
  BY <1>5 DEF Unseen
<1>7. \A cur : WalkOK(st, cur) => WalkOK(u, cur)
  BY <1>4, <1>6, Zenon DEF WalkOK
<1>8. \A e, Q : CurrentRow(u, e, Q) = CurrentRow(st, e, Q)
  BY <1>1 DEF CurrentRow
<1>9. \A cur : RowCurrent(st, cur) => RowCurrent(u, cur)
  BY <1>5, <1>8 DEF RowCurrent
<1>. QED  BY <1>2, <1>4, <1>5, <1>7, <1>9

LEMMA WalkIdle ==
  ASSUME NEW st
  PROVE  CursorOK(Idle) /\ RowCurrent(st, Idle) /\ WalkOK(st, Idle)
<1>1. /\ Idle.query = << >> /\ Idle.source = 0 /\ Idle.row = NoRow
      /\ \A e \in Entity : Idle.seen[e] = 0
  BY DEF Idle
<1>2. CursorOK(Idle)
  <2>1. Idle \in Cursors(NoRow)
    BY DEF Idle, Cursors
  <2>. QED  BY <1>1, <2>1 DEF CursorOK
<1>. QED  BY <1>1, <1>2 DEF RowCurrent, WalkOK

\* A walk that begins has everything ahead of it.
LEMMA WalkStart ==
  ASSUME NEW st, StorageOK(st), NEW Q \in Query, NEW d,
         d = [Idle EXCEPT !.query = Q, !.sources = Sources(st, Q), !.source = 1]
  PROVE  CursorOK(d) /\ RowCurrent(st, d) /\ WalkOK(st, d)
<1>1. /\ d.query = Q /\ d.sources = Sources(st, Q) /\ d.source = 1 /\ d.at = 0
      /\ d.row = NoRow /\ d.seen = [e \in Entity |-> 0] /\ d.touched = {} /\ d.behind = 0
      /\ d = [ query |-> d.query, sources |-> d.sources, source |-> d.source, at |-> d.at,
               row |-> d.row, seen |-> d.seen, touched |-> d.touched, behind |-> d.behind ]
  BY DEF Idle
<1>2. SourcesOK(d.sources) /\ d.sources \in Seq(SUBSET Component)
  BY <1>1, SourcesFacts DEF SourcesOK
<1>3. CursorOK(d)
  <2>1. d \in Cursors(NoRow)
    <3>1. d.seen \in [Entity -> Nat]
      BY <1>1
    <3>2. /\ d.query \in Query \cup {<< >>} /\ d.sources \in Seq(SUBSET Component)
          /\ d.source \in Nat /\ d.at \in Nat /\ d.row \in {NoRow}
          /\ d.touched \in SUBSET Entity /\ d.behind \in Nat
      BY <1>1, <1>2
    <3>. QED  BY <1>1, <3>1, <3>2 DEF Cursors
  <2>. QED  BY <1>1, <1>2, <2>1 DEF CursorOK
<1>4. RowCurrent(st, d)
  BY <1>1 DEF RowCurrent
<1>5. ASSUME NEW e \in MatchingIn(st, Q) PROVE e \in Upcoming(st, d)
  <2>1. PICK k \in 1..Len(d.sources) :
          \E i \in 1..Len(EntitiesIn(st, d.sources[k])) : EntitiesIn(st, d.sources[k])[i] = e
    BY <1>1, SourcesFacts
  <2>2. PICK i \in 1..Len(EntitiesIn(st, d.sources[k])) : EntitiesIn(st, d.sources[k])[i] = e
    BY <2>1
  <2>3. Comes(st, d, k, i)
    <3>1. k \in 1..Len(d.sources) /\ d.sources[k] \in SUBSET Component
      BY <1>2, ElementOfSeq
    <3>2. i > 0
      BY <3>1, SourceFacts, LenProperties
    <3>. QED  BY <1>1, <2>2, <3>2 DEF Comes
  <2>4. <<k, i>> \in Ahead(st, d)
    BY <1>1, <1>3, <2>3, AheadFacts
  <2>5. e \in Entity
    BY DEF MatchingIn, StorageOK, Storages
  <2>. QED  BY <2>2, <2>4, <2>5 DEF Upcoming
<1>6. Unseen(st, d) \ Upcoming(st, d) = {}
  BY <1>1, <1>5 DEF Unseen
<1>7. WalkOK(st, d)
  <2>1. \A e \in Entity : d.seen[e] = 0
    BY <1>1
  <2>2. /\ IsFiniteSet(Unseen(st, d) \ Upcoming(st, d))
        /\ Cardinality(Unseen(st, d) \ Upcoming(st, d)) <= d.behind
    BY <1>1, <1>6, FS_EmptySet
  <2>. QED  BY <1>1, <2>1, <2>2 DEF WalkOK
<1>. QED  BY <1>3, <1>4, <1>7

\* A walk that stops misses nothing more: what is left ahead does not match.
LEMMA WalkEnd ==
  ASSUME NEW st, StorageOK(st), NEW cur, CursorOK(cur), cur.source # 0, WalkOK(st, cur),
         RowsAhead(st, cur) = {}, NEW d,
         d = [cur EXCEPT !.source = 0, !.at = 0, !.sources = << >>, !.row = NoRow]
  PROVE  CursorOK(d) /\ RowCurrent(st, d) /\ WalkOK(st, d)
<1>1. cur \in Cursors(cur.row) /\ cur.query \in Query
  BY DEF CursorOK
<1>2. /\ d.query = cur.query /\ d.source = 0 /\ d.row = NoRow /\ d.seen = cur.seen
      /\ d.touched = cur.touched /\ d.behind = cur.behind
  BY <1>1 DEF Cursors
<1>3. CursorOK(d)
  <2>1. d \in Cursors(NoRow)
    <3>1. << >> \in Seq(SUBSET Component) /\ 0 \in Nat /\ NoRow \in {NoRow}
      OBVIOUS
    <3>. QED  BY <1>1, <3>1 DEF Cursors
  <2>. QED  BY <1>2, <2>1 DEF CursorOK
<1>4. Unseen(st, d) = Unseen(st, cur)
  BY <1>2 DEF Unseen
<1>5. ASSUME NEW e \in Unseen(st, cur), e \in Upcoming(st, cur) PROVE FALSE
  <2>1. PICK p \in Ahead(st, cur) : EntitiesIn(st, cur.sources[p[1]])[p[2]] = e
    BY <1>5 DEF Upcoming
  <2>2. p \in RowsAhead(st, cur)
    BY <2>1 DEF RowsAhead, Unseen, MatchingIn
  <2>. QED  BY <2>2
<1>6. Unseen(st, cur) = Unseen(st, cur) \ Upcoming(st, cur)
  BY <1>5
<1>7. cur.query # << >>
  BY <1>1, QueryFacts
<1>8. IsFiniteSet(Unseen(st, cur)) /\ Cardinality(Unseen(st, cur)) <= cur.behind
  BY <1>6, <1>7 DEF WalkOK
<1>9. WalkOK(st, d)
  BY <1>2, <1>4, <1>8 DEF WalkOK
<1>. QED  BY <1>2, <1>3, <1>9 DEF RowCurrent

Moved(cur, p, row) ==
  [cur EXCEPT !.source = p[1], !.at = p[2], !.row = row, !.seen[row.entity] = @ + 1]

\* The next row: its entity is no longer ahead, and what was passed over does
\* not match.
LEMMA WalkVisit ==
  ASSUME NEW st, StorageOK(st), NEW cur, CursorOK(cur), cur.source # 0, WalkOK(st, cur),
         NEW p \in RowsAhead(st, cur), \A q \in RowsAhead(st, cur) : ~Precedes(q, p),
         NEW row, row = RowAt(st, cur.query, cur.sources[p[1]], p[2]), NEW d,
         d = Moved(cur, p, row)
  PROVE  CursorOK(d) /\ RowCurrent(st, d) /\ WalkOK(st, d)
<1> DEFINE e == EntitiesIn(st, cur.sources[p[1]])[p[2]]
<1>1. /\ cur \in Cursors(cur.row) /\ cur.query \in Query /\ SourcesOK(cur.sources)
      /\ cur.seen \in [Entity -> Nat] /\ cur.source \in Nat /\ cur.at \in Nat
  BY DEF CursorOK, Cursors
<1>2. /\ p \in Ahead(st, cur) /\ HasAll(st, e, cur.query)
      /\ Comes(st, cur, p[1], p[2])
      /\ p[1] \in 1..Len(cur.sources) /\ p[1] \in Nat /\ p[2] \in Nat
      /\ cur.sources[p[1]] \in SUBSET Component /\ e \in Entity
      /\ p[2] \in 1..Len(EntitiesIn(st, cur.sources[p[1]]))
  <2>1. p \in Ahead(st, cur) /\ HasAll(st, e, cur.query)
    BY DEF RowsAhead
  <2>2. Comes(st, cur, p[1], p[2])
    BY <2>1, AheadFacts
  <2>3. /\ p[1] \in 1..Len(cur.sources) /\ p[1] \in Nat /\ p[2] \in Nat
        /\ cur.sources[p[1]] \in SUBSET Component /\ e \in Entity
    BY <2>2, AheadFacts
  <2>. QED  BY <2>1, <2>2, <2>3 DEF Comes
<1>3. e \in MatchingIn(st, cur.query) /\ row = CurrentRow(st, e, cur.query) /\ row.entity = e
  <2>1. e \in MatchingIn(st, cur.query) /\ row = CurrentRow(st, e, cur.query)
    BY <1>1, <1>2, RowAtFacts
  <2>. QED  BY <2>1 DEF CurrentRow
<1>4. /\ d.query = cur.query /\ d.sources = cur.sources /\ d.source = p[1] /\ d.at = p[2]
      /\ d.row = row /\ d.touched = cur.touched /\ d.behind = cur.behind
      /\ d.seen = [cur.seen EXCEPT ![e] = @ + 1]
      /\ d = [ query |-> d.query, sources |-> d.sources, source |-> d.source, at |-> d.at,
               row |-> d.row, seen |-> d.seen, touched |-> d.touched, behind |-> d.behind ]
  BY <1>1, <1>3 DEF Cursors, Moved
<1> HIDE DEF e
<1>5. d.seen \in [Entity -> Nat] /\ d.seen[e] = cur.seen[e] + 1
      /\ \A x \in Entity \ {e} : d.seen[x] = cur.seen[x]
  BY <1>1, <1>2, <1>4
<1>6. CursorOK(d)
  <2>1. d \in Cursors(d.row)
    BY <1>1, <1>2, <1>4, <1>5 DEF Cursors
  <2>2. d.source # 0 /\ d.source <= Len(d.sources)
    BY <1>2, <1>4
  <2>3. d.query \in Query /\ SourcesOK(d.sources)
    BY <1>1, <1>4
  <2>. QED  BY <2>1, <2>2, <2>3 DEF CursorOK
<1>7. RowCurrent(st, d)
  BY <1>3, <1>4 DEF RowCurrent
<1>8. ASSUME NEW k, NEW i, Comes(st, d, k, i) PROVE Comes(st, cur, k, i)
  BY <1>1, <1>2, <1>4, <1>6, <1>8, AheadFacts DEF Comes
<1>9. Upcoming(st, d) \subseteq Upcoming(st, cur)
  <2> SUFFICES ASSUME NEW x \in Upcoming(st, d) PROVE x \in Upcoming(st, cur)
    OBVIOUS
  <2>1. PICK q \in Ahead(st, d) : EntitiesIn(st, d.sources[q[1]])[q[2]] = x
    BY DEF Upcoming
  <2>2. q = <<q[1], q[2]>> /\ Comes(st, d, q[1], q[2])
    BY <1>2, <1>4, <1>6, <2>1, AheadFacts
  <2>3. q \in Ahead(st, cur)
    BY <1>8, <2>2, AheadFacts
  <2>. QED  BY <1>4, <2>1, <2>3 DEF Upcoming
<1>10. e \notin Upcoming(st, d)
  <2> SUFFICES ASSUME e \in Upcoming(st, d) PROVE FALSE
    OBVIOUS
  <2>1. PICK q \in Ahead(st, d) : EntitiesIn(st, d.sources[q[1]])[q[2]] = e
    BY DEF Upcoming
  <2>2. Comes(st, d, q[1], q[2]) /\ Comes(st, cur, q[1], q[2])
    <3>1. d.source # 0
      BY <1>2, <1>4
    <3>2. Comes(st, d, q[1], q[2])
      BY <1>6, <2>1, <3>1, AheadFacts
    <3>. QED  BY <1>8, <3>2
  <2>3. q[1] \in 1..Len(cur.sources) /\ q[2] \in 1..Len(EntitiesIn(st, cur.sources[q[1]]))
    BY <2>2, AheadFacts DEF Comes
  <2>4. q[1] = p[1] /\ q[2] = p[2]
    <3>1. EntitiesIn(st, cur.sources[q[1]])[q[2]] = EntitiesIn(st, cur.sources[p[1]])[p[2]]
      BY <1>4, <2>1 DEF e
    <3>2. \A k, l \in 1..Len(cur.sources) :
            \A i \in 1..Len(EntitiesIn(st, cur.sources[k])),
               j \in 1..Len(EntitiesIn(st, cur.sources[l])) :
              EntitiesIn(st, cur.sources[k])[i] = EntitiesIn(st, cur.sources[l])[j]
                => k = l /\ i = j
      BY <1>1, OnePlace
    <3> DEFINE k == q[1]
               i == q[2]
               l == p[1]
               j == p[2]
    <3>3. /\ k \in 1..Len(cur.sources) /\ i \in 1..Len(EntitiesIn(st, cur.sources[k]))
          /\ l \in 1..Len(cur.sources) /\ j \in 1..Len(EntitiesIn(st, cur.sources[l]))
          /\ EntitiesIn(st, cur.sources[k])[i] = EntitiesIn(st, cur.sources[l])[j]
      BY <1>2, <2>3, <3>1
    <3> HIDE DEF k, i, l, j
    <3>4. k = l /\ i = j
      BY <3>2, <3>3
    <3>. QED  BY <3>4 DEF k, i, l, j
  <2>. QED  BY <1>2, <1>4, <2>2, <2>4 DEF Comes
<1>11. e \in Upcoming(st, cur)
  BY <1>2 DEF Upcoming, e
<1>12. ASSUME NEW x \in Unseen(st, d), x \notin Upcoming(st, d)
       PROVE  x \in Unseen(st, cur) \ Upcoming(st, cur)
  <2>1. x \in MatchingIn(st, cur.query) \ cur.touched /\ d.seen[x] = 0
    BY <1>4 DEF Unseen
  <2>2. x \in Entity
    BY <2>1 DEF MatchingIn, StorageOK, Storages
  <2>3. x # e
    BY <1>1, <1>2, <1>5, <2>1
  <2>4. x \in Unseen(st, cur)
    BY <1>5, <2>1, <2>2, <2>3 DEF Unseen
  <2>5. ASSUME NEW q \in Ahead(st, cur), EntitiesIn(st, cur.sources[q[1]])[q[2]] = x
        PROVE  FALSE
    <3>1. q \in RowsAhead(st, cur)
      BY <2>1, <2>5 DEF RowsAhead, MatchingIn
    <3>2. ~Precedes(q, p)
      BY <3>1
    <3>3. q = <<q[1], q[2]>> /\ Comes(st, cur, q[1], q[2]) /\ q[1] \in Nat /\ q[2] \in Nat
      BY AheadFacts
    <3>4. ~(q[1] = p[1] /\ q[2] = p[2])
      BY <2>3, <2>5 DEF e
    <3>5. Comes(st, d, q[1], q[2])
      <4>1. /\ q[1] \in cur.source..Len(cur.sources)
            /\ q[2] \in 1..Len(EntitiesIn(st, cur.sources[q[1]]))
        BY <3>3 DEF Comes
      <4>2. q[1] >= p[1] /\ (q[1] = p[1] => q[2] > p[2])
        BY <1>2, <3>2, <3>3, <3>4 DEF Precedes
      <4>. QED  BY <1>1, <1>2, <1>4, <3>3, <4>1, <4>2 DEF Comes
    <3>6. q \in Ahead(st, d)
      <4>1. d.source # 0
        BY <1>2, <1>4
      <4>2. <<q[1], q[2]>> \in Ahead(st, d)
        BY <1>6, <3>5, <4>1, AheadFacts
      <4>. QED  BY <3>3, <4>2
    <3>. QED  BY <1>4, <1>12, <2>2, <2>5, <3>6 DEF Upcoming
  <2>. QED  BY <2>4, <2>5 DEF Upcoming
<1>13. WalkOK(st, d)
  <2>1. ASSUME NEW x \in Entity \ d.touched
        PROVE  d.seen[x] <= 1 /\ (d.seen[x] = 1 => x \notin Upcoming(st, d))
    <3>1. /\ cur.seen[x] \in Nat /\ cur.seen[x] <= 1
          /\ cur.seen[x] = 1 => x \notin Upcoming(st, cur)
      BY <1>1, <1>4 DEF WalkOK
    <3>2. CASE x = e
      BY <1>5, <1>10, <1>11, <3>1, <3>2
    <3>3. CASE x # e
      BY <1>5, <1>9, <3>1, <3>3
    <3>. QED  BY <3>2, <3>3
  <2> DEFINE M == Unseen(st, cur) \ Upcoming(st, cur)
             N == Unseen(st, d) \ Upcoming(st, d)
  <2>2. N \subseteq M
    BY <1>12
  <2>3. IsFiniteSet(M) /\ Cardinality(M) <= cur.behind /\ cur.behind \in Nat
    <3>1. cur.query # << >>
      BY <1>1, QueryFacts
    <3>. QED  BY <1>1, <3>1 DEF WalkOK, Cursors
  <2> HIDE DEF M, N
  <2>4. IsFiniteSet(N) /\ Cardinality(N) <= cur.behind
    <3>1. IsFiniteSet(N) /\ Cardinality(N) <= Cardinality(M)
      BY <2>2, <2>3, FS_Subset
    <3>2. Cardinality(N) \in Nat /\ Cardinality(M) \in Nat
      BY <2>3, <3>1, FS_CardinalityType
    <3>. QED  BY <2>3, <3>1, <3>2
  <2>5. d.source # 0
    BY <1>2, <1>4
  <2>6. IsFiniteSet(Unseen(st, d) \ Upcoming(st, d))
        /\ Cardinality(Unseen(st, d) \ Upcoming(st, d)) <= d.behind
    BY <1>4, <2>4 DEF N
  <2>. QED  BY <2>1, <2>5, <2>6 DEF WalkOK
<1>. QED  BY <1>6, <1>7, <1>13

\* What is still to come of a sequence, and what becomes of it when an entity
\* joins or leaves.
Coming(s, at) == {s[i] : i \in at + 1..Len(s)}
Left(before, after, e, at) == Place(before, e) \in 1..at /\ e \notin ToSet(after)
Kept(before, after, e, lost) ==
  /\ after \ {e} \subseteq before
  /\ before \ {e} \subseteq after \cup lost

LEMMA StaysOrJoins ==
  ASSUME NEW S, NEW s \in Seq(S), NEW t \in Seq(S), NEW e \in S, NEW at \in Nat,
         t = s \/ Joined(s, t, e)
  PROVE  ~Left(s, t, e, at) /\ Kept(Coming(s, at), Coming(t, at), e, {})
<1>1. CASE t = s
  <2>1. ~Left(s, t, e, at)
    <3>1. Len(s) \in Nat
      BY LenProperties
    <3>2. Place(s, e) \in 1..at => Place(s, e) \in 1..Len(s) /\ s[Place(s, e)] = e
      BY <3>1, PlaceFacts
    <3>3. Place(s, e) \in 1..at => e \in ToSet(s)
      BY <3>2, ToSetFacts DEF Contains
    <3>. QED  BY <1>1, <3>3 DEF Left
  <2>. QED  BY <1>1, <2>1 DEF Kept
<1>2. CASE ~Contains(s, e) /\ t = Append(s, e)
  <2>1. /\ Len(s) \in Nat /\ Len(t) = Len(s) + 1
        /\ \A i \in 1..Len(s) : t[i] = s[i]
        /\ t[Len(s) + 1] = e
    BY <1>2, AppendProperties
  <2>2. ~Left(s, t, e, at)
    <3>1. Contains(t, e)
      BY <2>1 DEF Contains
    <3>. QED  BY <3>1, ToSetFacts DEF Left
  <2>3. Coming(t, at) \ {e} \subseteq Coming(s, at)
    BY <2>1 DEF Coming
  <2>4. Coming(s, at) \subseteq Coming(t, at)
    BY <2>1 DEF Coming
  <2>. QED  BY <2>2, <2>3, <2>4 DEF Kept
<1>. QED  BY <1>1, <1>2 DEF Joined

\* In a set, the position moves with the elements before it.
LEMMA ClosesUp ==
  ASSUME NEW S, NEW s \in Seq(S), Distinct(s), NEW t \in Seq(S), NEW e \in S, NEW at \in Nat,
         ClosedUp(s, t, e), NEW to, to = IF Left(s, t, e, at) THEN at - 1 ELSE at
  PROVE  to \in Nat /\ Kept(Coming(s, at), Coming(t, to), e, {})
<1>1. PICK k \in 1..Len(s) : s[k] = e /\ t = RemoveAt(s, k)
  BY DEF ClosedUp
<1>2. /\ Len(s) \in Nat /\ Len(t) = Len(s) - 1
      /\ \A j \in 1..Len(s) - 1 : t[j] = IF j < k THEN s[j] ELSE s[j + 1]
  BY <1>1, RemoveAtFacts, LenProperties
<1>3. Place(s, e) = k
  BY <1>1, <1>2, PlaceFacts DEF Distinct
<1>4. \A j \in 1..Len(t) : t[j] # e
  BY <1>1, <1>2 DEF Distinct
<1>5. e \notin ToSet(t)
  BY <1>4, ToSetFacts DEF Contains
<1>6. to = (IF k <= at THEN at - 1 ELSE at) /\ to \in Nat
  BY <1>2, <1>3, <1>5 DEF Left
<1>7. ASSUME NEW x \in Coming(t, to) PROVE x \in Coming(s, at)
  <2>1. PICK j \in to + 1..Len(t) : x = t[j]
    BY DEF Coming
  <2>2. CASE j < k
    <3>1. j \in at + 1..Len(s) /\ x = s[j]
      BY <1>2, <1>6, <2>1, <2>2
    <3>. QED  BY <3>1 DEF Coming
  <2>3. CASE ~(j < k)
    <3>1. j + 1 \in at + 1..Len(s) /\ x = s[j + 1]
      BY <1>2, <1>6, <2>1, <2>3
    <3>. QED  BY <3>1 DEF Coming
  <2>. QED  BY <2>2, <2>3
<1>8. ASSUME NEW x \in Coming(s, at), x # e PROVE x \in Coming(t, to)
  <2>1. PICK j \in at + 1..Len(s) : x = s[j]
    BY DEF Coming
  <2>2. CASE j < k
    <3>1. j \in to + 1..Len(t) /\ x = t[j]
      BY <1>2, <1>6, <2>1, <2>2
    <3>. QED  BY <3>1 DEF Coming
  <2>3. CASE j > k
    <3>1. j - 1 \in to + 1..Len(t) /\ x = t[j - 1]
      BY <1>2, <1>6, <2>1, <2>3
    <3>. QED  BY <3>1 DEF Coming
  <2>. QED  BY <1>1, <1>8, <2>1, <2>2, <2>3
<1>. QED  BY <1>6, <1>7, <1>8 DEF Kept

\* In a table it stays, and the last row may be moved behind it.
LEMMA Swaps ==
  ASSUME NEW S, NEW s \in Seq(S), Distinct(s), NEW t \in Seq(S), NEW e \in S, NEW at \in Nat,
         Swapped(s, t, e)
  PROVE  Kept(Coming(s, at), Coming(t, at), e,
              IF Left(s, t, e, at) THEN {s[Len(s)]} ELSE {})
<1>1. PICK k \in 1..Len(s) : s[k] = e /\ t = LastAt(s, k)
  BY DEF Swapped
<1>2. /\ Len(s) \in Nat /\ Len(t) = Len(s) - 1
      /\ \A j \in 1..Len(s) - 1 : t[j] = IF j = k THEN s[Len(s)] ELSE s[j]
  BY <1>1, SwapFacts, LenProperties
<1>3. Place(s, e) = k
  BY <1>1, <1>2, PlaceFacts DEF Distinct
<1>4. \A j \in 1..Len(t) : t[j] # e
  BY <1>1, <1>2 DEF Distinct
<1>5. e \notin ToSet(t)
  BY <1>4, ToSetFacts DEF Contains
<1>6. Left(s, t, e, at) <=> k <= at
  BY <1>2, <1>3, <1>5 DEF Left
<1>7. ASSUME NEW x \in Coming(t, at) PROVE x \in Coming(s, at)
  <2>1. PICK j \in at + 1..Len(t) : x = t[j]
    BY DEF Coming
  <2>2. PICK i \in at + 1..Len(s) : x = s[i]
    BY <1>2, <2>1
  <2>. QED  BY <2>2 DEF Coming
<1>8. ASSUME NEW x \in Coming(s, at), x # e
      PROVE  x \in Coming(t, at) \/ (k <= at /\ x = s[Len(s)])
  <2>1. PICK j \in at + 1..Len(s) : x = s[j]
    BY DEF Coming
  <2>2. j # k
    BY <1>1, <1>8, <2>1
  <2>3. CASE j < Len(s)
    <3>1. j \in at + 1..Len(t) /\ x = t[j]
      BY <1>2, <2>1, <2>2, <2>3
    <3>. QED  BY <3>1 DEF Coming
  <2>4. CASE j = Len(s) /\ ~(k <= at)
    <3>1. k \in at + 1..Len(t) /\ x = t[k]
      BY <1>2, <2>1, <2>2, <2>4
    <3>. QED  BY <3>1 DEF Coming
  <2>. QED  BY <1>2, <2>1, <2>3, <2>4
<1>. QED  BY <1>6, <1>7, <1>8 DEF Kept

\* Upcoming, source by source.
Before(cur, k) == IF k = cur.source THEN cur.at ELSE 0

LEMMA UpcomingFacts ==
  ASSUME NEW st, StorageOK(st), NEW cur, CursorOK(cur), cur.source # 0
  PROVE  \A e : e \in Upcoming(st, cur) <=>
           \E k \in cur.source..Len(cur.sources) :
             e \in Coming(EntitiesIn(st, cur.sources[k]), Before(cur, k))
<1>1. cur.source \in Nat \ {0} /\ cur.at \in Nat /\ cur.sources \in Seq(SUBSET Component)
  BY DEF CursorOK, Cursors
<1>2. \A k \in cur.source..Len(cur.sources) :
        k \in 1..Len(cur.sources) /\ Len(EntitiesIn(st, cur.sources[k])) \in Nat
  <2>1. \A k \in cur.source..Len(cur.sources) : k \in 1..Len(cur.sources)
    BY <1>1, LenProperties
  <2>. QED  BY <1>1, <2>1, ElementOfSeq, SourceFacts, LenProperties
<1>3. ASSUME NEW e \in Upcoming(st, cur)
      PROVE  \E k \in cur.source..Len(cur.sources) :
               e \in Coming(EntitiesIn(st, cur.sources[k]), Before(cur, k))
  <2>1. PICK p \in Ahead(st, cur) : EntitiesIn(st, cur.sources[p[1]])[p[2]] = e
    BY DEF Upcoming
  <2> DEFINE k == p[1]
             i == p[2]
  <2>2. Comes(st, cur, k, i)
    BY <2>1, AheadFacts
  <2> HIDE DEF k, i
  <2>3. k \in cur.source..Len(cur.sources) /\ i \in Before(cur, k) + 1..Len(EntitiesIn(st, cur.sources[k]))
    BY <1>1, <1>2, <2>2 DEF Comes, Before
  <2>. QED  BY <2>1, <2>3 DEF Coming, k, i
<1>4. ASSUME NEW k \in cur.source..Len(cur.sources),
             NEW e \in Coming(EntitiesIn(st, cur.sources[k]), Before(cur, k))
      PROVE  e \in Upcoming(st, cur)
  <2>1. PICK i \in Before(cur, k) + 1..Len(EntitiesIn(st, cur.sources[k])) :
               e = EntitiesIn(st, cur.sources[k])[i]
    BY DEF Coming
  <2>2. Comes(st, cur, k, i)
    BY <1>1, <1>2, <2>1 DEF Comes, Before
  <2>3. <<k, i>> \in Ahead(st, cur) /\ e \in Entity
    BY <2>1, <2>2, AheadFacts
  <2>. QED  BY <2>1, <2>3 DEF Upcoming
<1>. QED  BY <1>3, <1>4

\* A call takes its entity from a place that the walk has passed.
Passed(st, u, cur, e) ==
  LET s == cur.sources[cur.source]
  IN  Left(EntitiesIn(st, s), EntitiesIn(u, s), e, cur.at)

\* A call changes what is to come by its entity, and by the last row of a table
\* when that moves to a place that was passed.
LEMMA UpcomingKeeps ==
  ASSUME NEW st, StorageOK(st), NEW e \in Entity, NEW u, StorageOK(u),
         TableMoves(st, u, e), BucketMoves(st, u, e),
         NEW cur, CursorOK(cur), cur.source # 0, cur.source <= Len(cur.sources),
         NEW s, s = cur.sources[cur.source],
         NEW d, CursorOK(d), d.source = cur.source, d.sources = cur.sources,
         d.at = IF Passed(st, u, cur, e) /\ ~IsTable(s) THEN cur.at - 1 ELSE cur.at
  PROVE  \E lost : /\ lost = {} \/ (Passed(st, u, cur, e) /\ IsTable(s) /\ \E y : lost = {y})
                   /\ Kept(Upcoming(st, cur), Upcoming(u, d), e, lost)
<1> DEFINE left == Passed(st, u, cur, e)
<1>a. left <=> Left(EntitiesIn(st, s), EntitiesIn(u, s), e, cur.at)
  BY DEF Passed
<1> HIDE DEF left
<1>b. d.at = IF left /\ ~IsTable(s) THEN cur.at - 1 ELSE cur.at
  BY DEF left
<1>1. /\ cur.source \in Nat \ {0} /\ cur.at \in Nat /\ cur.sources \in Seq(SUBSET Component)
      /\ d.at \in Nat /\ SourcesOK(cur.sources)
  BY DEF CursorOK, Cursors
<1>2. s \in SUBSET Component /\ cur.source \in 1..Len(cur.sources)
  <2>1. cur.source \in 1..Len(cur.sources)
    BY <1>1, LenProperties
  <2>. QED  BY <1>1, <2>1, ElementOfSeq
<1> DEFINE ahead(k) == Coming(EntitiesIn(st, cur.sources[k]), Before(cur, k))
           then(k) == Coming(EntitiesIn(u, cur.sources[k]), Before(d, k))
<1>3. \A x : x \in Upcoming(st, cur) <=> \E k \in cur.source..Len(cur.sources) : x \in ahead(k)
  BY UpcomingFacts
<1>4. \A x : x \in Upcoming(u, d) <=> \E k \in cur.source..Len(cur.sources) : x \in then(k)
  BY UpcomingFacts
<1>5. ASSUME NEW c \in Component, cur.sources = <<{c}>>
      PROVE  \E lost : /\ lost = {} \/ (left /\ IsTable(s) /\ \E y : lost = {y})
                       /\ Kept(Upcoming(st, cur), Upcoming(u, d), e, lost)
  <2>1. cur.source = 1 /\ s = {c} /\ Len(cur.sources) = 1
    BY <1>2, <1>5
  <2> DEFINE before == st.tables[c].denseEntities
             after  == u.tables[c].denseEntities
  <2>2. /\ IsTable(s) /\ EntitiesIn(st, s) = before /\ EntitiesIn(u, s) = after
        /\ before \in Seq(Entity) /\ Distinct(before) /\ after \in Seq(Entity)
    <3>1. /\ IsTable(s) /\ EntitiesIn(st, s) = before
          /\ before \in Seq(Entity) /\ Distinct(before)
      <4>1. IsTable(s) /\ EntitiesIn(st, s) = before
        BY <1>2, <2>1, SourceFacts
      <4>2. EntitiesIn(st, s) \in Seq(Entity) /\ Distinct(EntitiesIn(st, s))
        BY <1>2, SourceFacts
      <4>. QED  BY <4>1, <4>2
    <3>2. EntitiesIn(u, s) = after /\ after \in Seq(Entity)
      BY <1>2, <2>1, SourceFacts
    <3>. QED  BY <3>1, <3>2
  <2>3. after = before \/ Joined(before, after, e) \/ Swapped(before, after, e)
    BY DEF TableMoves
  <2>4. (left <=> Left(before, after, e, cur.at)) /\ d.at = cur.at
    BY <1>a, <1>b, <2>2
  <2>5. \A x : x \in Upcoming(st, cur) <=> x \in Coming(before, cur.at)
    <3>1. ahead(1) = Coming(before, cur.at)
      BY <2>1, <2>2 DEF Before
    <3> HIDE DEF ahead
    <3>. QED  BY <1>3, <2>1, <3>1
  <2>6. \A x : x \in Upcoming(u, d) <=> x \in Coming(after, cur.at)
    <3>1. then(1) = Coming(after, cur.at)
      BY <2>1, <2>2, <2>4 DEF Before
    <3> HIDE DEF then
    <3>. QED  BY <1>4, <2>1, <3>1
  <2> HIDE DEF before, after
  <2>7. CASE after = before \/ Joined(before, after, e)
    <3>1. Kept(Coming(before, cur.at), Coming(after, cur.at), e, {})
      BY <1>1, <2>2, <2>7, StaysOrJoins
    <3>2. Kept(Upcoming(st, cur), Upcoming(u, d), e, {})
      BY <2>5, <2>6, <3>1 DEF Kept
    <3>. QED  BY <3>2
  <2>8. CASE Swapped(before, after, e)
    <3> DEFINE lost == IF left THEN {before[Len(before)]} ELSE {}
    <3>1. Kept(Coming(before, cur.at), Coming(after, cur.at), e, lost)
      <4>1. Kept(Coming(before, cur.at), Coming(after, cur.at), e,
                 IF Left(before, after, e, cur.at) THEN {before[Len(before)]} ELSE {})
        BY <1>1, <2>2, <2>8, Swaps
      <4>. QED  BY <2>4, <4>1
    <3>2. lost = {} \/ (left /\ IsTable(s) /\ \E y : lost = {y})
      BY <2>2
    <3> HIDE DEF lost
    <3>3. Kept(Upcoming(st, cur), Upcoming(u, d), e, lost)
      BY <2>5, <2>6, <3>1 DEF Kept
    <3>. QED  BY <3>2, <3>3
  <2>. QED  BY <2>3, <2>7, <2>8
<1>6. ASSUME \A k \in 1..Len(cur.sources) : cur.sources[k] # NoBucket => Wide(cur.sources[k])
      PROVE  Kept(Upcoming(st, cur), Upcoming(u, d), e, {})
  <2>1. ASSUME NEW k \in cur.source..Len(cur.sources) PROVE Kept(ahead(k), then(k), e, {})
    <3> DEFINE b == cur.sources[k]
               before == EntitiesIn(st, b)
               after == EntitiesIn(u, b)
               at == Before(cur, k)
               to == Before(d, k)
    <3>1. k \in 1..Len(cur.sources) /\ b \in SUBSET Component
      BY <1>1, <1>2, ElementOfSeq
    <3>2. /\ before = st.buckets[b] /\ after = u.buckets[b] /\ ~IsTable(b)
          /\ before \in Seq(Entity) /\ Distinct(before) /\ after \in Seq(Entity)
      BY <1>6, <3>1, SourceFacts
    <3>3. after = before \/ Joined(before, after, e) \/ ClosedUp(before, after, e)
      BY <3>1, <3>2 DEF BucketMoves
    <3>4. to = (IF Left(before, after, e, at) THEN at - 1 ELSE at) /\ at \in Nat
      <4>1. CASE k = cur.source
        BY <1>a, <1>1, <1>b, <3>2, <4>1 DEF Before
      <4>2. CASE k # cur.source
        <5>1. at = 0 /\ to = 0
          BY <4>2 DEF Before
        <5>2. ~(Place(before, e) \in 1..0)
          OBVIOUS
        <5>. QED  BY <5>1, <5>2 DEF Left
      <4>. QED  BY <4>1, <4>2
    <3> HIDE DEF b, before, after, at, to
    <3>5. Kept(Coming(before, at), Coming(after, to), e, {})
      <4>1. CASE after = before \/ Joined(before, after, e)
        <5>1. ~Left(before, after, e, at) /\ Kept(Coming(before, at), Coming(after, at), e, {})
          BY <3>2, <3>4, <4>1, StaysOrJoins
        <5>. QED  BY <3>4, <5>1
      <4>2. CASE ClosedUp(before, after, e)
        BY <3>2, <3>4, <4>2, ClosesUp
      <4>. QED  BY <3>3, <4>1, <4>2
    <3>. QED  BY <3>5 DEF b, before, after, at, to
  <2> HIDE DEF ahead, then
  <2>. QED  BY <1>3, <1>4, <2>1 DEF Kept
<1>7. CASE \E c \in Component : cur.sources = <<{c}>>
  BY <1>5, <1>7 DEF left
<1>8. CASE \A k \in 1..Len(cur.sources) : cur.sources[k] # NoBucket => Wide(cur.sources[k])
  BY <1>6, <1>8
<1>. QED  BY <1>1, <1>7, <1>8 DEF SourcesOK

LEMMA MatchingKeeps ==
  ASSUME NEW st, StorageOK(st), NEW e \in Entity, NEW u, StorageOK(u), OthersKeep(st, u, e),
         NEW Q \in Query, NEW x, x # e
  PROVE  x \in MatchingIn(u, Q) <=> x \in MatchingIn(st, Q)
<1>1. x \in u.entities <=> x \in st.entities
  BY DEF OthersKeep
<1>2. ASSUME x \in st.entities PROVE HasAll(u, x, Q) <=> HasAll(st, x, Q)
  <2>1. x \in Entity \ {e}
    BY <1>2 DEF StorageOK, Storages
  <2>2. ASSUME NEW c \in Component PROVE Has(u, x, c) <=> Has(st, x, c)
    BY <2>1 DEF OthersKeep, Has, Row
  <2>. QED  BY <2>2, QueryFacts DEF HasAll
<1>. QED  BY <1>1, <1>2 DEF MatchingIn

LEMMA WalkEdit ==
  ASSUME NEW st, StorageOK(st), NEW e \in Entity, NEW u, Call(st, u, e),
         NEW cur, CursorOK(cur), cur.source # 0, WalkOK(st, cur),
         \E x \in Entity : cur.seen[x] > 0,
         NEW d, d = AfterEdit(cur, st, u, e)
  PROVE  CursorOK(d) /\ RowCurrent(u, d) /\ WalkOK(u, d)
<1> DEFINE s == cur.sources[cur.source]
           left == Passed(st, u, cur, e)
<1>1. /\ StorageOK(u) /\ OthersKeep(st, u, e) /\ TableMoves(st, u, e) /\ BucketMoves(st, u, e)
  BY CallFacts
<1>2. /\ cur \in Cursors(cur.row) /\ cur.query \in Query /\ SourcesOK(cur.sources)
      /\ cur.source <= Len(cur.sources) /\ cur.at \in Nat /\ cur.behind \in Nat
      /\ cur.touched \in SUBSET Entity /\ cur.seen \in [Entity -> Nat]
  BY DEF CursorOK, Cursors
<1>3. d = [ cur EXCEPT !.touched = @ \cup {e}, !.row = NoRow,
                       !.at = IF left /\ ~IsTable(s) THEN @ - 1 ELSE @,
                       !.behind = IF left /\ IsTable(s) THEN @ + 1 ELSE @ ]
  BY Zenon DEF AfterEdit, Passed, Left, Place
<1>4. left => cur.at - 1 \in Nat
  <2>1. left => cur.at >= 1
    BY <1>2 DEF Passed, Left
  <2>. QED  BY <1>2, <2>1
<1> HIDE DEF left
<1>5. /\ d.query = cur.query /\ d.sources = cur.sources /\ d.source = cur.source
      /\ d.seen = cur.seen /\ d.touched = cur.touched \cup {e} /\ d.row = NoRow
      /\ d.at = (IF left /\ ~IsTable(s) THEN cur.at - 1 ELSE cur.at)
      /\ d.behind = (IF left /\ IsTable(s) THEN cur.behind + 1 ELSE cur.behind)
      /\ d = [ query |-> d.query, sources |-> d.sources, source |-> d.source, at |-> d.at,
               row |-> d.row, seen |-> d.seen, touched |-> d.touched, behind |-> d.behind ]
  BY <1>2, <1>3 DEF Cursors
<1>6. d.at \in Nat /\ d.behind \in Nat /\ d.touched \in SUBSET Entity
  BY <1>2, <1>4, <1>5
<1>7. CursorOK(d)
  <2>1. d \in Cursors(d.row)
    BY <1>2, <1>5, <1>6 DEF Cursors
  <2>. QED  BY <1>2, <1>5, <2>1 DEF CursorOK
<1>8. RowCurrent(u, d)
  BY <1>5 DEF RowCurrent
<1>9. PICK lost : /\ lost = {} \/ (left /\ IsTable(s) /\ \E y : lost = {y})
                  /\ Kept(Upcoming(st, cur), Upcoming(u, d), e, lost)
  <2>1. PICK q : q = cur.sources[cur.source]
    OBVIOUS
  <2>2. d.at = IF Passed(st, u, cur, e) /\ ~IsTable(q) THEN cur.at - 1 ELSE cur.at
    BY <1>5, <2>1 DEF left
  <2>3. \E lost : /\ lost = {} \/ (Passed(st, u, cur, e) /\ IsTable(q) /\ \E y : lost = {y})
                  /\ Kept(Upcoming(st, cur), Upcoming(u, d), e, lost)
    BY <1>1, <1>2, <1>5, <1>7, <2>1, <2>2, UpcomingKeeps
  <2>. QED  BY <2>1, <2>3 DEF left
<1> DEFINE M == Unseen(st, cur) \ Upcoming(st, cur)
           N == Unseen(u, d) \ Upcoming(u, d)
<1>10. N \subseteq M \cup lost
  <2> SUFFICES ASSUME NEW x \in N PROVE x \in M \cup lost
    OBVIOUS
  <2>1. x \in MatchingIn(u, cur.query) /\ x \notin cur.touched /\ x # e /\ cur.seen[x] = 0
    BY <1>5 DEF Unseen
  <2>2. x \in Unseen(st, cur)
    BY <1>1, <1>2, <2>1, MatchingKeeps DEF Unseen
  <2>3. x \in Upcoming(st, cur) => x \in lost
    BY <1>9, <2>1 DEF Kept
  <2>. QED  BY <2>2, <2>3
<1>11. IsFiniteSet(M) /\ Cardinality(M) <= cur.behind /\ Cardinality(M) \in Nat
  <2>1. cur.query # << >>
    BY <1>2, QueryFacts
  <2>. QED  BY <2>1, FS_CardinalityType DEF WalkOK
<1> HIDE DEF M, N
<1>12. IsFiniteSet(N) /\ Cardinality(N) <= d.behind
  <2>1. CASE lost = {}
    <3>1. N \subseteq M
      BY <1>10, <2>1
    <3>2. IsFiniteSet(N) /\ Cardinality(N) <= Cardinality(M)
      BY <1>11, <3>1, FS_Subset
    <3>3. Cardinality(N) \in Nat
      BY <3>2, FS_CardinalityType
    <3>. QED  BY <1>2, <1>5, <1>11, <3>2, <3>3
  <2>2. ASSUME NEW y, left /\ IsTable(s), lost = {y}
        PROVE  IsFiniteSet(N) /\ Cardinality(N) <= d.behind
    <3>1. /\ IsFiniteSet(M \cup {y}) /\ Cardinality(M \cup {y}) <= Cardinality(M) + 1
      <4>1. y \in M => M \cup {y} = M
        OBVIOUS
      <4>2. y \notin M => Cardinality(M \cup {y}) = Cardinality(M) + 1
        BY <1>11, FS_AddElement
      <4>3. IsFiniteSet(M \cup {y})
        BY <1>11, FS_AddElement
      <4>. QED  BY <1>11, <4>1, <4>2, <4>3
    <3>2. IsFiniteSet(N) /\ Cardinality(N) <= Cardinality(M \cup {y})
      BY <1>10, <2>2, <3>1, FS_Subset
    <3>3. Cardinality(N) \in Nat /\ Cardinality(M \cup {y}) \in Nat
      BY <3>1, <3>2, FS_CardinalityType
    <3>. QED  BY <1>2, <1>5, <1>11, <2>2, <3>1, <3>2, <3>3
  <2>. QED  BY <1>9, <2>1, <2>2
<1>13. \A x \in Entity \ d.touched :
         d.seen[x] <= 1 /\ (d.seen[x] = 1 => x \notin Upcoming(u, d))
  <2> SUFFICES ASSUME NEW x \in Entity \ d.touched
               PROVE  d.seen[x] <= 1 /\ (d.seen[x] = 1 => x \notin Upcoming(u, d))
    OBVIOUS
  <2>1. /\ x \in Entity \ cur.touched /\ x # e
    BY <1>5
  <2>2. cur.seen[x] <= 1 /\ (cur.seen[x] = 1 => x \notin Upcoming(st, cur))
    BY <2>1 DEF WalkOK
  <2>. QED  BY <1>5, <1>9, <2>1, <2>2 DEF Kept
<1>14. WalkOK(u, d)
  <2>1. IsFiniteSet(Unseen(u, d) \ Upcoming(u, d))
        /\ Cardinality(Unseen(u, d) \ Upcoming(u, d)) <= d.behind
    BY <1>12 DEF N
  <2>. QED  BY <1>5, <1>13, <2>1 DEF WalkOK
<1>. QED  BY <1>7, <1>8, <1>14

LEMMA VisitStep ==
  ASSUME StorageOK(storage), CursorOK(cursor), WalkOK(storage, cursor), Visit
  PROVE  CursorOK(cursor') /\ RowCurrent(storage, cursor') /\ WalkOK(storage, cursor')
<1> DEFINE ahead == RowsAhead(storage, cursor)
           next == CHOOSE p \in ahead : \A q \in ahead : ~Precedes(q, p)
           row == RowAt(storage, cursor.query, cursor.sources[next[1]], next[2])
<1>1. cursor.source # 0
  BY DEF Visit, Running
<1>2. CASE ahead = {}
  <2>1. cursor' = [cursor EXCEPT !.source = 0, !.at = 0, !.sources = << >>, !.row = NoRow]
    BY <1>2 DEF Visit
  <2>. QED  BY <1>1, <1>2, <2>1, WalkEnd, Zenon
<1>3. CASE ahead # {}
  <2>1. ahead \in SUBSET (Nat \X Nat)
    <3> SUFFICES ASSUME NEW p \in ahead PROVE p \in Nat \X Nat
      OBVIOUS
    <3>1. p \in Ahead(storage, cursor)
      BY DEF RowsAhead
    <3>2. p = <<p[1], p[2]>> /\ p[1] \in Nat /\ p[2] \in Nat
      BY <1>1, <3>1, AheadFacts
    <3>. QED  BY <3>2
  <2>2. \E p \in ahead : \A q \in ahead : ~Precedes(q, p)
    <3> HIDE DEF ahead
    <3>. QED  BY <1>3, <2>1, FirstPosition
  <2>3. next \in ahead /\ \A q \in ahead : ~Precedes(q, next)
    <3> HIDE DEF ahead
    <3>. QED  BY <2>2, Zenon
  <2>4. cursor' = [cursor EXCEPT !.source = next[1], !.at = next[2], !.row = row,
                                 !.seen[row.entity] = @ + 1]
    BY <1>3 DEF Visit
  <2>5. PICK p, r : p = next /\ r = row
    OBVIOUS
  <2> HIDE DEF next, row
  <2>6. /\ p \in RowsAhead(storage, cursor) /\ \A q \in RowsAhead(storage, cursor) : ~Precedes(q, p)
        /\ r = RowAt(storage, cursor.query, cursor.sources[p[1]], p[2])
        /\ cursor' = Moved(cursor, p, r)
    BY <2>3, <2>4, <2>5 DEF row, Moved
  <2>. QED  BY <1>1, <2>6, WalkVisit
<1>. QED  BY <1>2, <1>3

LEMMA WalkInvNext ==
  ASSUME WalkInv, [Next]_vars
  PROVE  WalkInv'
<1>1. /\ StorageInv /\ StorageOK(storage) /\ StorageInv'
      /\ CursorOK(cursor) /\ RowCurrent(storage, cursor) /\ WalkOK(storage, cursor)
  BY StorageInvNext DEF WalkInv, StorageInv
<1>2. SUFFICES /\ todo' # << >> => cursor' = Idle
               /\ CursorOK(cursor') /\ RowCurrent(storage', cursor') /\ WalkOK(storage', cursor')
  BY <1>1 DEF WalkInv, CursorOK, RowCurrent, WalkOK
<1>3. CASE SetUp
  <2>1. cursor' = Idle
    BY <1>3 DEF SetUp, WalkInv
  <2>. QED  BY <2>1, WalkIdle
<1>4. ASSUME todo = << >>, NEW Q \in Query, Start(Q) \/ Length(Q)
      PROVE  /\ todo' = << >>
             /\ CursorOK(cursor') /\ RowCurrent(storage', cursor') /\ WalkOK(storage', cursor')
  <2>1. todo' = << >> /\ storage' \in {storage, Cached(storage, Q)}
    BY <1>4 DEF Start, Length
  <2>2. SameRecords(storage, storage') /\ storage'.buckets = storage.buckets
    BY <1>1, <2>1, CachedFacts DEF SameRecords
  <2>3. CursorOK(cursor') /\ RowCurrent(storage, cursor') /\ WalkOK(storage, cursor')
    <3>1. CASE Start(Q)
      BY <1>1, <3>1, WalkStart, Zenon DEF Start
    <3>2. CASE Length(Q)
      BY <1>1, <3>2 DEF Length
    <3>. QED  BY <1>4, <3>1, <3>2
  <2>4. PICK u, d : u = storage' /\ d = cursor'
    OBVIOUS
  <2>5. RowCurrent(u, d) /\ WalkOK(u, d)
    <3>1. /\ SameRecords(storage, u) /\ u.buckets = storage.buckets
          /\ RowCurrent(storage, d) /\ WalkOK(storage, d)
      BY <2>2, <2>3, <2>4
    <3>. QED  BY <3>1, SameWalk, Zenon
  <2>. QED  BY <2>1, <2>3, <2>4, <2>5
<1>5. CASE todo = << >> /\ Visit
  <2>1. storage' = storage /\ todo' = todo
    BY <1>5 DEF Visit
  <2>2. CursorOK(cursor') /\ RowCurrent(storage, cursor') /\ WalkOK(storage, cursor')
    BY <1>1, <1>5, VisitStep
  <2>. QED  BY <1>5, <2>1, <2>2
<1>6. CASE todo = << >> /\ Leave
  BY <1>6, WalkIdle DEF Leave
<1>7. ASSUME todo = << >>, NEW e \in Entity, EditEntity(e) \/ \E c \in Component : EditRecord(e, c)
      PROVE  /\ todo' = << >>
             /\ CursorOK(cursor') /\ RowCurrent(storage', cursor') /\ WalkOK(storage', cursor')
  <2>1. /\ Call(storage, storage', e) /\ UNCHANGED todo
        /\ Running => \E x \in Entity : cursor.seen[x] > 0
        /\ cursor' = IF Running THEN AfterEdit(cursor, storage, storage', e) ELSE Idle
    BY <1>7, EditSteps
  <2>2. CASE ~Running
    BY <1>7, <2>1, <2>2, WalkIdle
  <2>3. CASE Running
    <3>1. PICK st, u, cur, d : st = storage /\ u = storage' /\ cur = cursor /\ d = cursor'
      OBVIOUS
    <3>2. /\ StorageOK(st) /\ Call(st, u, e) /\ CursorOK(cur) /\ cur.source # 0 /\ WalkOK(st, cur)
          /\ \E x \in Entity : cur.seen[x] > 0
          /\ d = AfterEdit(cur, st, u, e)
      BY <1>1, <2>1, <2>3, <3>1 DEF Running
    <3>3. CursorOK(d) /\ RowCurrent(u, d) /\ WalkOK(u, d)
      BY <3>2, WalkEdit
    <3>. QED  BY <1>7, <2>1, <3>1, <3>3
  <2>. QED  BY <2>2, <2>3
<1>8. CASE UNCHANGED vars
  BY <1>1, <1>8 DEF vars, WalkInv
<1>. QED  BY <1>3, <1>4, <1>5, <1>6, <1>7, <1>8 DEF Next

\* For every program, and whatever its callbacks add, remove or delete while a
\* query runs: the position of the iteration fits the sequence that is walked over.
THEOREM WalkInvariant == Spec => []WalkInv
<1>1. Init => WalkInv
  <2> SUFFICES ASSUME Init PROVE WalkInv
    OBVIOUS
  <2>1. StorageInv /\ cursor = Idle
    BY StorageInvInit DEF Init
  <2>. QED  BY <2>1, WalkIdle DEF WalkInv
<1>2. WalkInv /\ [Next]_vars => WalkInv'
  BY WalkInvNext
<1>. QED  BY <1>1, <1>2, PTL DEF Spec

\* A callback never gets a record that its entity no longer has, or the record of
\* another entity, although rows move and narrow queries read by position.
THEOREM CallbacksGetCurrentRows == Spec => []RowsAreCurrent
<1>1. WalkInv => RowsAreCurrent
  <2> SUFFICES ASSUME WalkInv, cursor.row # NoRow
               PROVE  /\ cursor.row.entity \in Promise!Matching(cursor.query)
                      /\ cursor.row = Promise!QueryRow(cursor.row.entity, cursor.query)
    BY DEF RowsAreCurrent
  <2>1. StorageOK(storage) /\ cursor.query \in Query
    BY DEF WalkInv, StorageInv, CursorOK
  <2>2. /\ cursor.row.entity \in MatchingIn(storage, cursor.query)
        /\ cursor.row = CurrentRow(storage, cursor.row.entity, cursor.query)
    BY DEF WalkInv, RowCurrent
  <2>. QED  BY <2>1, <2>2, PromiseMatching
<1>. QED  BY <1>1, WalkInvariant, PTL

\* An entity that the callbacks leave alone is visited at most once, although
\* removals move other entities through tables and buckets.
THEOREM UntouchedOnce == Spec => []UntouchedVisitedOnce
<1>1. WalkInv => UntouchedVisitedOnce
  BY DEF WalkInv, WalkOK, UntouchedVisitedOnce
<1>. QED  BY <1>1, WalkInvariant, PTL

\* A query misses no more of them than records were removed behind its position
\* in a table: with no removals, or over buckets, none.
THEOREM MissesBounded == Spec => []MissesCounted
<1>1. WalkInv => MissesCounted
  <2> SUFFICES ASSUME WalkInv, ~Running, cursor.query # << >>
               PROVE  Cardinality({e \in Promise!Matching(cursor.query) \ cursor.touched :
                                     cursor.seen[e] = 0}) <= cursor.behind
    BY DEF MissesCounted
  <2>1. StorageOK(storage) /\ cursor.query \in Query /\ cursor.source = 0
    BY DEF WalkInv, StorageInv, CursorOK, Cursors, Running
  <2>2. Cardinality(Unseen(storage, cursor)) <= cursor.behind
    BY <2>1 DEF WalkInv, WalkOK
  <2>3. Promise!Matching(cursor.query) = MatchingIn(storage, cursor.query)
    BY <2>1, PromiseMatching
  <2>. QED  BY <2>2, <2>3 DEF Unseen
<1>. QED  BY <1>1, WalkInvariant, PTL

=============================================================================
