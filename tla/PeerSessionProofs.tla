------------------------- MODULE PeerSessionProofs -------------------------
(***************************************************************************)
(* For all values of the constants: nobody is taken for somebody else.     *)
(*                                                                         *)
(* A peer that was heard of keeps its id and its PeerEntity for good: what *)
(* a step does to the server's tables Keeps them.  So whatever is on its   *)
(* way stays true, even if it was sent over an earlier connection of the   *)
(* same reference: SessionInv says of every packet, of every client and of *)
(* every call of a handler which ids it carries.                           *)
(***************************************************************************)
EXTENDS PeerSession, Integers, SequenceTheorems, FiniteSetTheorems, TLAPS

HasId(s) == {p \in Peer : IdOf(s, p) # 0}

Server ==
  [ ids : [Peer -> Nat], nextId : Nat, seen : SUBSET Peer,
    entityOf : [PeerId -> Nat],
    status : [PeerId -> {"none", "Connected", "Disconnected"}],
    live : SUBSET Nat, next : Nat, known : [Peer -> SUBSET Nat] ]

\* The tables of the server: ids are given out in order, entities as well, to
\* peers that have an id.
TablesOK(s) ==
  /\ s \in Server
  /\ s.nextId = Cardinality(HasId(s)) + 1
  /\ \A p \in Peer : IdOf(s, p) < s.nextId
  /\ \A p, q \in HasId(s) : IdOf(s, p) = IdOf(s, q) => p = q
  /\ s.next > Gameplay
  /\ \A i \in PeerId : s.entityOf[i] < s.next
  /\ \A i \in PeerId : s.entityOf[i] # 0 => s.entityOf[i] > Gameplay /\ i < s.nextId
  /\ \A i, j \in PeerId :
       s.entityOf[i] # 0 /\ s.entityOf[i] = s.entityOf[j] => i = j
  /\ \A e \in s.live : e # 0 /\ \E i \in PeerId : s.entityOf[i] = e

\* The peers that have a PeerEntity.
Named(s) == {p \in HasId(s) : EntityOf(s, p) # 0}

\* t has all the ids and entities of s.
Keeps(t, s) ==
  /\ \A p \in HasId(s) : IdOf(t, p) = IdOf(s, p)
  /\ \A i \in PeerId : s.entityOf[i] # 0 => t.entityOf[i] = s.entityOf[i]

Hash == {NoHash} \cup UNION {ClientHash[p] : p \in Peer}

\* What may be on its way to the server from p, and to p.
Controls == [channel : {"reliable"}, type : {"Control"}, hash : Hash]
Snapshots ==
  [channel : {"reliable"}, type : {"Snapshot"}, enter : SUBSET Nat, leave : SUBSET Nat]
Rpcs ==
  [ channel : {"reliable", "unreliable"}, type : {"Rpc"}, endpoint : Endpoint,
    source : Nat, target : Nat ]

Upward(s, p) ==
  Controls \cup
  {r \in Rpcs : r.endpoint = "Peer" => p \in Named(s) /\ r.target = EntityOf(s, p)}

Downward(s, p) ==
  Snapshots \cup
  {Assigned(s, q) : q \in {p} \cap Named(s)} \cup
  {r \in Rpcs : /\ p \in Named(s) /\ r.target = EntityOf(s, p)
                /\ r.endpoint = "Peer" => r.source = r.target}

Clients ==
  [ on : BOOLEAN, hash : Hash, started : BOOLEAN, id : Nat, entity : Nat, has : SUBSET Nat ]

\* What client c of p takes itself for.
ClientOK(s, p, c) ==
  /\ c.id = 0 => c.entity = 0
  /\ c.id # 0 => /\ p \in Named(s)
                 /\ c.id = IdOf(s, p) /\ c.entity = EntityOf(s, p)
                 /\ Matches(ServerHash, c.hash)

CallOK(s, c) ==
  /\ c.peer \in Named(s)
  /\ c.source = EntityOf(s, c.peer)
  /\ c.endpoint = "Peer" => c.target = c.source

EventOK(s, e) ==
  /\ e.peer \in Named(s)
  /\ e.target = EntityOf(s, e.peer)
  /\ e.endpoint = "Peer" => e.source = e.target
  /\ e.mine \in {0, e.target}

ServerInv ==
  /\ TablesOK(server)
  /\ listed \subseteq Peer
  /\ server.seen \subseteq Named(server)

ClientsInv ==
  /\ client \in [Peer -> Clients]
  /\ \A p \in Peer : client[p].on <=> p \in listed
  /\ \A p \in Peer : ClientOK(server, p, client[p])

QueuesInv ==
  /\ DOMAIN up = Peer
  /\ \A p \in Peer : up[p] \in Seq(Upward(server, p))
  /\ DOMAIN down = Peer
  /\ \A p \in Peer : down[p] \in Seq(Downward(server, p))

HistoryInv ==
  /\ \A c \in calls : CallOK(server, c)
  /\ \A e \in received : EventOK(server, e)

SessionInv == ServerInv /\ ClientsInv /\ QueuesInv /\ HistoryInv

-----------------------------------------------------------------------------
\* Ids and entities are given out in the order of an iteration.

\* The places among some of those that are iterated are 1, 2, and so on.
LEMMA RankFacts ==
  ASSUME NEW S \in SUBSET Peer, NEW order \in Orders(S), NEW some \in SUBSET S
  PROVE  /\ Cardinality(some) \in Nat
         /\ \A p \in some : Rank(order, some, p) \in 1..Cardinality(some)
         /\ \A p, q \in some : Rank(order, some, p) = Rank(order, some, q) => p = q
<1> DEFINE upTo(p) == {q \in some : order[q] <= order[p]}
<1>1. IsFiniteSet(some) /\ Cardinality(some) \in Nat
  BY SessionAssumption, FS_Subset, FS_CardinalityType
<1>2. /\ \A p \in some : order[p] \in Nat
      /\ \A p, q \in some : order[p] = order[q] => p = q
  BY DEF Orders
<1>3. ASSUME NEW p \in some
      PROVE  /\ IsFiniteSet(upTo(p)) /\ Rank(order, some, p) = Cardinality(upTo(p))
             /\ Rank(order, some, p) \in 1..Cardinality(some)
  <2>1. upTo(p) \in SUBSET some /\ p \in upTo(p)
    BY <1>2
  <2>2. /\ IsFiniteSet(upTo(p)) /\ Cardinality(upTo(p)) <= Cardinality(some)
        /\ Cardinality(upTo(p)) \in Nat
    BY <1>1, <2>1, FS_Subset, FS_CardinalityType
  <2>3. Cardinality(upTo(p)) # 0
    BY <2>1, <2>2, FS_EmptySet
  <2>. QED  BY <1>1, <2>2, <2>3 DEF Rank
<1>4. ASSUME NEW p \in some, NEW q \in some, order[p] < order[q]
      PROVE  Rank(order, some, p) # Rank(order, some, q)
  <2>1. upTo(p) \in SUBSET upTo(q) /\ q \in upTo(q) /\ q \notin upTo(p)
    BY <1>2, <1>4
  <2>2. upTo(p) # upTo(q)
    BY <2>1
  <2>. QED  BY <1>3, <2>1, <2>2, FS_Subset
<1>5. ASSUME NEW p \in some, NEW q \in some, p # q
      PROVE  Rank(order, some, p) # Rank(order, some, q)
  <2>1. order[p] < order[q] \/ order[q] < order[p]
    BY <1>2, <1>5
  <2>. QED  BY <1>4, <2>1
<1>. QED  BY <1>1, <1>3, <1>5

\* All of those places are taken.
LEMMA RanksCover ==
  ASSUME NEW S \in SUBSET Peer, NEW order \in Orders(S), NEW some \in SUBSET S,
         NEW k \in 1..Cardinality(some)
  PROVE  \E p \in some : Rank(order, some, p) = k
<1> DEFINE f == [p \in some |-> Rank(order, some, p)]
<1>1. /\ Cardinality(some) \in Nat
      /\ \A p \in some : Rank(order, some, p) \in 1..Cardinality(some)
      /\ \A p, q \in some : Rank(order, some, p) = Rank(order, some, q) => p = q
  BY RankFacts
<1>2. f \in Injection(some, 1..Cardinality(some))
  BY <1>1 DEF Injection, IsInjective
<1>3. /\ IsFiniteSet(1..Cardinality(some))
      /\ Cardinality(1..Cardinality(some)) = Cardinality(some)
  BY <1>1, FS_Interval
<1>4. f \in Surjection(some, 1..Cardinality(some))
  BY <1>2, <1>3, FS_Injection
<1>. QED  BY <1>4 DEF Surjection

\* Who has an id has one of the PeerIds.
LEMMA IdFacts ==
  ASSUME NEW s, TablesOK(s)
  PROVE  /\ IsFiniteSet(HasId(s)) /\ Cardinality(HasId(s)) <= Cardinality(Peer)
         /\ Cardinality(Peer) \in Nat /\ s.nextId \in 1..(Cardinality(Peer) + 1)
         /\ \A p \in HasId(s) : IdOf(s, p) \in PeerId
<1>1. /\ IsFiniteSet(HasId(s)) /\ Cardinality(HasId(s)) <= Cardinality(Peer)
      /\ Cardinality(Peer) \in Nat /\ Cardinality(HasId(s)) \in Nat
  <2>1. HasId(s) \in SUBSET Peer
    BY DEF HasId
  <2>. QED  BY <2>1, SessionAssumption, FS_Subset, FS_CardinalityType
<1>2. \A p \in Peer : IdOf(s, p) \in Nat
  BY DEF TablesOK, Server, IdOf
<1>. QED  BY <1>1, <1>2 DEF TablesOK, HasId, PeerId

\* idFor gives an id to all it is called with, and leaves those there are.
LEMMA IdsForFacts ==
  ASSUME NEW s, TablesOK(s), NEW S \in SUBSET Peer, NEW order \in Orders(S),
         NEW t, t = IdsFor(s, order)
  PROVE  /\ TablesOK(t) /\ Keeps(t, s)
         /\ S \subseteq HasId(t)
         /\ t.seen = s.seen /\ t.live = s.live /\ t.known = s.known
         /\ t.entityOf = s.entityOf
<1> DEFINE new == {p \in S : IdOf(s, p) = 0}
<1>1. DOMAIN order = S /\ new \in SUBSET S
  BY DEF Orders
<1>2. /\ s \in Server
      /\ \A p \in Peer : s.ids[p] \in Nat
      /\ s.nextId \in Nat /\ s.nextId > 0
  BY IdFacts DEF TablesOK, Server
<1>3. /\ Cardinality(new) \in Nat
      /\ \A p \in new : Rank(order, new, p) \in 1..Cardinality(new)
      /\ \A p, q \in new : Rank(order, new, p) = Rank(order, new, q) => p = q
  <2> HIDE DEF new
  <2>. QED  BY <1>1, RankFacts
<1>4. /\ t.ids = [ p \in Peer |-> IF p \in new THEN s.nextId + Rank(order, new, p) - 1
                                  ELSE s.ids[p] ]
      /\ t.nextId = s.nextId + Cardinality(new)
      /\ t.seen = s.seen /\ t.live = s.live /\ t.known = s.known
      /\ t.entityOf = s.entityOf /\ t.next = s.next /\ t.status = s.status
  BY <1>1, <1>2 DEF IdsFor, Server
<1>5. t \in Server
  <2> HIDE DEF new
  <2>1. t.nextId \in Nat
    BY <1>2, <1>3, <1>4
  <2>2. ASSUME NEW p \in Peer
        PROVE  (IF p \in new THEN s.nextId + Rank(order, new, p) - 1 ELSE s.ids[p]) \in Nat
    BY <1>2, <1>3
  <2>3. t.ids \in [Peer -> Nat]
    BY <1>4, <2>2
  <2>4. t = [ ids |-> t.ids, nextId |-> t.nextId, seen |-> s.seen, entityOf |-> s.entityOf,
              status |-> s.status, live |-> s.live, next |-> s.next, known |-> s.known ]
    BY <1>1, <1>2, <1>4 DEF IdsFor, Server, new
  <2>. QED  BY <1>2, <2>1, <2>3, <2>4 DEF Server
<1>6. /\ HasId(t) = HasId(s) \cup new /\ HasId(s) \cap new = {}
      /\ \A p \in HasId(s) : t.ids[p] = s.ids[p]
      /\ \A p \in new : t.ids[p] = s.nextId + Rank(order, new, p) - 1
  BY <1>1, <1>2, <1>3, <1>4 DEF HasId, IdOf
<1>7. t.nextId = Cardinality(HasId(t)) + 1
  <2>1. IsFiniteSet(new) /\ IsFiniteSet(HasId(s)) /\ Cardinality(HasId(s)) \in Nat
    BY <1>1, IdFacts, SessionAssumption, FS_Subset, FS_CardinalityType
  <2>2. Cardinality({}) = 0
    BY FS_EmptySet
  <2>3. Cardinality(HasId(t)) = Cardinality(HasId(s)) + Cardinality(new)
    <3> HIDE DEF new
    <3>1. Cardinality(HasId(s) \cup new)
            = Cardinality(HasId(s)) + Cardinality(new) - Cardinality(HasId(s) \cap new)
      BY <2>1, FS_Union
    <3>2. /\ Cardinality(HasId(t)) = Cardinality(HasId(s) \cup new)
          /\ Cardinality(HasId(s) \cap new) = 0
      BY <1>6, <2>2
    <3>. QED  BY <1>3, <2>1, <3>1, <3>2
  <2>. QED  BY <1>3, <1>4, <2>1, <2>3 DEF TablesOK
<1>8. \A p \in Peer : IdOf(t, p) < t.nextId
  BY <1>2, <1>3, <1>4, <1>6 DEF TablesOK, IdOf
<1>9. \A p, q \in HasId(t) : IdOf(t, p) = IdOf(t, q) => p = q
  <2>1. \A p \in HasId(s) : t.ids[p] < s.nextId /\ t.ids[p] = s.ids[p]
    BY <1>6 DEF TablesOK, HasId, IdOf
  <2>2. \A p \in new : t.ids[p] >= s.nextId
    BY <1>2, <1>3, <1>6
  <2>3. \A p, q \in new : t.ids[p] = t.ids[q] => p = q
    BY <1>2, <1>3, <1>6
  <2>4. \A p, q \in HasId(s) : s.ids[p] = s.ids[q] => p = q
    BY DEF TablesOK, IdOf
  <2>5. \A p \in HasId(t) : t.ids[p] \in Nat
    BY <1>5 DEF Server, HasId
  <2>. QED  BY <1>2, <1>6, <2>1, <2>2, <2>3, <2>4, <2>5 DEF IdOf
<1>10. TablesOK(t)
  <2>1. \A i \in PeerId : i < s.nextId => i < t.nextId
    BY <1>2, <1>3, <1>4, IdFacts DEF PeerId
  <2>. QED  BY <1>4, <1>5, <1>7, <1>8, <1>9, <2>1 DEF TablesOK
<1>11. S \subseteq HasId(t)
  BY <1>6 DEF HasId
<1>. QED  BY <1>4, <1>6, <1>10, <1>11 DEF Keeps, IdOf

\* ensurePeerEntity gives an entity to those that have none.
LEMMA EnsureEntitiesFacts ==
  ASSUME NEW s, TablesOK(s), NEW S \in SUBSET Peer, NEW order \in Orders(S),
         NEW peers \in SUBSET S, peers \subseteq HasId(s),
         NEW t, t = EnsureEntities(s, order, peers)
  PROVE  /\ TablesOK(t) /\ Keeps(t, s)
         /\ peers \subseteq Named(t)
         /\ t.ids = s.ids /\ t.seen = s.seen /\ t.known = s.known
<1> DEFINE new == {p \in peers : EntityOf(s, p) = 0}
           isNew(i) == \E p \in new : IdOf(s, p) = i
           of(i) == CHOOSE p \in new : IdOf(s, p) = i
           n == Cardinality(new)
           rank(p) == Rank(order, new, p)
<1>1. /\ s \in Server /\ s.next \in Nat /\ s.next > Gameplay
      /\ s.entityOf \in [PeerId -> Nat] /\ s.live \subseteq Nat
      /\ \A p \in HasId(s) : IdOf(s, p) \in PeerId /\ IdOf(s, p) < s.nextId
      /\ \A p, q \in HasId(s) : IdOf(s, p) = IdOf(s, q) => p = q
  BY IdFacts DEF TablesOK, Server, HasId
<1>2. /\ n \in Nat
      /\ \A p \in new : rank(p) \in 1..n
      /\ \A p, q \in new : rank(p) = rank(q) => p = q
      /\ \A k \in 1..n : \E p \in new : rank(p) = k
  <2> HIDE DEF new
  <2>1. new \in SUBSET S
    BY DEF new
  <2>2. \A k \in 1..n : \E p \in new : rank(p) = k
    BY <2>1, RanksCover
  <2>. QED  BY <2>1, <2>2, RankFacts
<1>3. /\ t.status = [i \in PeerId |-> IF \E p \in peers : IdOf(s, p) = i
                                      THEN "Connected" ELSE s.status[i]]
      /\ t.entityOf = [i \in PeerId |-> IF isNew(i) THEN s.next + rank(of(i)) - 1
                                        ELSE s.entityOf[i]]
      /\ t.live = s.live \cup (s.next .. s.next + n - 1)
      /\ t.next = s.next + n
      /\ t.ids = s.ids /\ t.nextId = s.nextId /\ t.seen = s.seen /\ t.known = s.known
  BY <1>1 DEF EnsureEntities, WithEntities, Server
<1>4. /\ \A p \in new : IdOf(s, p) \in PeerId /\ isNew(IdOf(s, p)) /\ of(IdOf(s, p)) = p
      /\ \A i \in PeerId : isNew(i) => of(i) \in new /\ IdOf(s, of(i)) = i
  <2>1. \A p \in new : IdOf(s, p) \in PeerId /\ isNew(IdOf(s, p))
    BY <1>1
  <2>2. \A i \in PeerId : isNew(i) => of(i) \in new /\ IdOf(s, of(i)) = i
    OBVIOUS
  <2>3. new \subseteq HasId(s)
    OBVIOUS
  <2>. QED  BY <1>1, <2>1, <2>2, <2>3
<1>5. /\ \A p \in new : t.entityOf[IdOf(s, p)] = s.next + rank(p) - 1
      /\ \A i \in PeerId : ~isNew(i) => t.entityOf[i] = s.entityOf[i]
      /\ \A i \in PeerId : isNew(i) => s.entityOf[i] = 0
  <2> HIDE DEF rank
  <2>1. \A p \in new : t.entityOf[IdOf(s, p)] = s.next + rank(p) - 1
    BY <1>3, <1>4
  <2>2. \A i \in PeerId : ~isNew(i) => t.entityOf[i] = s.entityOf[i]
    BY <1>3
  <2>3. \A i \in PeerId : isNew(i) => s.entityOf[i] = 0
    BY DEF EntityOf
  <2>. QED  BY <2>1, <2>2, <2>3
<1>6. \A i \in PeerId :
        \/ isNew(i) /\ t.entityOf[i] \in s.next .. (s.next + n - 1) /\ of(i) \in new
           /\ t.entityOf[i] = s.next + rank(of(i)) - 1 /\ i = IdOf(s, of(i))
        \/ ~isNew(i) /\ t.entityOf[i] = s.entityOf[i]
  <2> HIDE DEF new, n, rank
  <2>. QED  BY <1>1, <1>2, <1>4, <1>5
<1> HIDE DEF new, isNew, of, n, rank
<1> USE DEF Gameplay
<1>7. t \in Server
  <2>1. t.entityOf \in [PeerId -> Nat]
    <3>1. \A i \in PeerId : t.entityOf[i] \in Nat
      BY <1>1, <1>2, <1>6
    <3>. QED  BY <1>3, <3>1
  <2>2. t.status \in [PeerId -> {"none", "Connected", "Disconnected"}]
    BY <1>1, <1>3 DEF Server
  <2>3. t.live \subseteq Nat /\ t.next \in Nat
    BY <1>1, <1>2, <1>3
  <2>4. t = [ ids |-> s.ids, nextId |-> s.nextId, seen |-> s.seen, entityOf |-> t.entityOf,
              status |-> t.status, live |-> t.live, next |-> t.next, known |-> s.known ]
    BY <1>1, <1>3 DEF EnsureEntities, WithEntities, Server
  <2>. QED  BY <1>1, <2>1, <2>2, <2>3, <2>4 DEF Server
<1>8. Keeps(t, s) /\ HasId(t) = HasId(s)
  BY <1>3, <1>5 DEF Keeps, IdOf, HasId
<1>9. peers \subseteq Named(t)
  <2> SUFFICES ASSUME NEW p \in peers PROVE p \in Named(t)
    OBVIOUS
  <2>1. p \in HasId(s) /\ IdOf(t, p) = IdOf(s, p) /\ IdOf(s, p) \in PeerId
    BY <1>1, <1>3 DEF IdOf
  <2>2. CASE p \in new
    BY <1>1, <1>2, <1>4, <1>6, <1>8, <2>1, <2>2 DEF Named, EntityOf
  <2>3. CASE p \notin new
    BY <1>8, <2>1, <2>3 DEF Named, EntityOf, new, Keeps
  <2>. QED  BY <2>2, <2>3
<1>10. \A i \in PeerId : t.entityOf[i] < t.next
  BY <1>1, <1>2, <1>3, <1>6 DEF TablesOK
<1>11. \A i \in PeerId : t.entityOf[i] # 0 => t.entityOf[i] > Gameplay /\ i < t.nextId
  <2>1. new \subseteq HasId(s)
    BY DEF new
  <2>2. \A i \in PeerId : s.entityOf[i] # 0 => s.entityOf[i] > Gameplay /\ i < s.nextId
    BY DEF TablesOK
  <2>. QED  BY <1>1, <1>2, <1>3, <1>6, <2>1, <2>2
<1>12. \A i, j \in PeerId :
         t.entityOf[i] # 0 /\ t.entityOf[i] = t.entityOf[j] => i = j
  <2> SUFFICES ASSUME NEW i \in PeerId, NEW j \in PeerId,
                      t.entityOf[i] # 0, t.entityOf[i] = t.entityOf[j]
               PROVE  i = j
    OBVIOUS
  <2>1. s.entityOf[i] < s.next /\ s.entityOf[j] < s.next
        /\ (s.entityOf[i] # 0 /\ s.entityOf[i] = s.entityOf[j] => i = j)
    BY DEF TablesOK
  <2>2. CASE isNew(i) /\ isNew(j)
    BY <1>1, <1>2, <1>6, <2>2
  <2>3. CASE ~(isNew(i) /\ isNew(j))
    BY <1>1, <1>2, <1>6, <2>1, <2>3
  <2>. QED  BY <2>2, <2>3
<1>13. \A e \in t.live : e # 0 /\ \E i \in PeerId : t.entityOf[i] = e
  <2> SUFFICES ASSUME NEW e \in t.live PROVE e # 0 /\ \E i \in PeerId : t.entityOf[i] = e
    OBVIOUS
  <2>1. CASE e \in s.live
    BY <1>8, <2>1 DEF TablesOK, Keeps
  <2>2. CASE e \in s.next .. s.next + n - 1
    <3>1. e - s.next + 1 \in 1..n
      BY <2>2, <1>1, <1>2
    <3>2. PICK p \in new : rank(p) = e - s.next + 1
      BY <3>1, <1>2
    <3>3. t.entityOf[IdOf(s, p)] = e /\ IdOf(s, p) \in PeerId
      BY <1>1, <1>4, <1>5, <2>2, <3>2
    <3>. QED  BY <1>1, <2>2, <3>3
  <2>. QED  BY <1>3, <2>1, <2>2
<1>14. TablesOK(t)
  BY <1>1, <1>3, <1>7, <1>8, <1>10, <1>11, <1>12, <1>13, <1>2 DEF TablesOK, IdOf
<1>. QED  BY <1>3, <1>8, <1>9, <1>14

\* Both of them, one after the other.
LEMMA EnsuredFacts ==
  ASSUME NEW s, TablesOK(s), NEW S \in SUBSET Peer, NEW order \in Orders(S)
  PROVE  /\ TablesOK(Ensured(s, order)) /\ Keeps(Ensured(s, order), s)
         /\ S \subseteq Named(Ensured(s, order))
         /\ Ensured(s, order).seen = s.seen /\ Ensured(s, order).known = s.known
<1> DEFINE t == IdsFor(s, order)
           u == EnsureEntities(t, order, S)
<1>1. DOMAIN order = S
  BY DEF Orders
<1>2. /\ TablesOK(t) /\ Keeps(t, s) /\ S \subseteq HasId(t)
      /\ t.seen = s.seen /\ t.known = s.known /\ t.entityOf = s.entityOf
  <2> HIDE DEF t
  <2>1. t = IdsFor(s, order)
    BY DEF t
  <2>. QED  BY <2>1, IdsForFacts
<1>3. /\ TablesOK(u) /\ Keeps(u, t) /\ S \subseteq Named(u)
      /\ u.ids = t.ids /\ u.seen = t.seen /\ u.known = t.known
  <2> HIDE DEF t, u
  <2>1. u = EnsureEntities(t, order, S) /\ S \in SUBSET S
    BY DEF u
  <2>. QED  BY <1>2, <2>1, EnsureEntitiesFacts
<1>4. Keeps(u, s)
  <2> HIDE DEF t, u
  <2>. QED  BY <1>2, <1>3 DEF Keeps, IdOf
<1>. QED  BY <1>1, <1>2, <1>3, <1>4 DEF Ensured

\* The order of one.
LEMMA AloneIsOrder ==
  ASSUME NEW p \in Peer
  PROVE  Alone(p) \in Orders({p})
<1>1. Cardinality({p}) = 1
  BY FS_Singleton
<1>. QED  BY <1>1 DEF Alone, Orders

-----------------------------------------------------------------------------
\* What stays true while the tables keep what they have.

LEMMA StillNamed ==
  ASSUME NEW s, NEW t, TablesOK(s), TablesOK(t), Keeps(t, s), NEW p \in Named(s)
  PROVE  p \in Named(t) /\ IdOf(t, p) = IdOf(s, p) /\ EntityOf(t, p) = EntityOf(s, p)
<1>1. p \in HasId(s) /\ IdOf(s, p) \in PeerId
  BY IdFacts DEF Named
<1>2. IdOf(t, p) = IdOf(s, p) /\ p \in HasId(t)
  BY <1>1 DEF Keeps, HasId
<1>. QED  BY <1>1, <1>2 DEF Keeps, Named, EntityOf

LEMMA StillGood ==
  ASSUME NEW s, NEW t, TablesOK(s), TablesOK(t), Keeps(t, s), NEW p \in Peer
  PROVE  /\ Seq(Upward(s, p)) \subseteq Seq(Upward(t, p))
         /\ Seq(Downward(s, p)) \subseteq Seq(Downward(t, p))
<1>1. p \in Named(s) =>
        p \in Named(t) /\ IdOf(t, p) = IdOf(s, p) /\ EntityOf(t, p) = EntityOf(s, p)
  BY StillNamed
<1>2. Upward(s, p) \subseteq Upward(t, p)
  BY <1>1 DEF Upward
<1>3. Downward(s, p) \subseteq Downward(t, p)
  <2>1. {Assigned(s, q) : q \in {p} \cap Named(s)}
          \subseteq {Assigned(t, q) : q \in {p} \cap Named(t)}
    BY <1>1 DEF Assigned
  <2>. QED  BY <1>1, <2>1 DEF Downward
<1>. QED  BY <1>2, <1>3, SeqMonotonic

LEMMA StillTheClient ==
  ASSUME NEW s, NEW t, TablesOK(s), TablesOK(t), Keeps(t, s),
         NEW p \in Peer, NEW c, ClientOK(s, p, c)
  PROVE  ClientOK(t, p, c)
  BY StillNamed DEF ClientOK

LEMMA StillHappened ==
  ASSUME NEW s, NEW t, TablesOK(s), TablesOK(t), Keeps(t, s)
  PROVE  /\ \A c : CallOK(s, c) => CallOK(t, c)
         /\ \A e : EventOK(s, e) => EventOK(t, e)
<1>1. ASSUME NEW c, CallOK(s, c) PROVE CallOK(t, c)
  BY <1>1, StillNamed DEF CallOK
<1>2. ASSUME NEW e, EventOK(s, e) PROVE EventOK(t, e)
  BY <1>2, StillNamed DEF EventOK
<1>. QED  BY <1>1, <1>2

\* What a step of the server leaves to be shown: the queues and the histories
\* that it does not touch are as good as before.
LEMMA KeepingStep ==
  ASSUME SessionInv, TablesOK(server'), Keeps(server', server), listed' = listed,
         server'.seen \subseteq Named(server'), UNCHANGED client
  PROVE  /\ ServerInv' /\ ClientsInv'
         /\ \A p \in Peer : up[p] \in Seq(Upward(server', p))
         /\ \A p \in Peer : down[p] \in Seq(Downward(server', p))
         /\ \A c \in calls : CallOK(server', c)
         /\ \A e \in received : EventOK(server', e)
<1>1. TablesOK(server)
  BY DEF SessionInv, ServerInv
<1>2. ServerInv'
  BY DEF SessionInv, ServerInv
<1>3. ClientsInv'
  BY <1>1, StillTheClient DEF SessionInv, ClientsInv
<1>4. /\ \A p \in Peer : up[p] \in Seq(Upward(server', p))
      /\ \A p \in Peer : down[p] \in Seq(Downward(server', p))
  BY <1>1, StillGood DEF SessionInv, QueuesInv
<1>5. /\ \A c \in calls : CallOK(server', c)
      /\ \A e \in received : EventOK(server', e)
  BY <1>1, StillHappened DEF SessionInv, HistoryInv
<1>. QED  BY <1>2, <1>3, <1>4, <1>5

-----------------------------------------------------------------------------
\* Packets.

\* A queue without the packet at place i.
LEMMA RemoveAtFacts ==
  ASSUME NEW S, NEW s \in Seq(S), NEW i \in 1..Len(s)
  PROVE  s[i] \in S /\ RemoveAt(s, i) \in Seq(S)
<1>1. s[i] \in S
  BY ElementOfSeq
<1>2. SubSeq(s, 1, i - 1) \in Seq(S) /\ SubSeq(s, i + 1, Len(s)) \in Seq(S)
  <2>1. Len(s) \in Nat
    BY LenProperties
  <2>. QED  BY <2>1, SubSeqProperties
<1>. QED  BY <1>1, <1>2, ConcatProperties DEF RemoveAt

\* What is sent to those who are connected is added to what is on its way.
LEMMA SentFacts ==
  ASSUME NEW queues, NEW packets, NEW Good,
         \A p \in Peer : queues[p] \in Seq(Good[p]) /\ packets[p] \in Seq(Good[p])
  PROVE  /\ DOMAIN Sent(queues, packets) = Peer
         /\ \A p \in Peer : Sent(queues, packets)[p] \in Seq(Good[p])
<1>1. \A p \in Peer : queues[p] \o packets[p] \in Seq(Good[p])
  BY ConcatProperties
<1>. QED  BY <1>1 DEF Sent

LEMMA AssignedIsGood ==
  ASSUME NEW s, NEW p \in Named(s)
  PROVE  Assigned(s, p) \in Downward(s, p)
  BY DEF Downward

LEMMA SnapshotIsGood ==
  ASSUME NEW s, NEW p, NEW enter \in SUBSET Nat, NEW leave \in SUBSET Nat
  PROVE  Snapshot(enter, leave) \in Downward(s, p)
  BY DEF Snapshot, Snapshots, Downward

LEMMA RpcIsTyped ==
  ASSUME NEW e \in Endpoint, NEW source \in Nat, NEW target \in Nat
  PROVE  /\ Rpc(e, source, target) \in Rpcs
         /\ Rpc(e, source, target).endpoint = e
         /\ Rpc(e, source, target).source = source
         /\ Rpc(e, source, target).target = target
  BY SessionAssumption DEF Rpc, Rpcs

LEMMA EntityIsTyped ==
  ASSUME NEW s, TablesOK(s), NEW p \in HasId(s)
  PROVE  EntityOf(s, p) \in Nat
  BY IdFacts DEF TablesOK, Server, EntityOf

\* The entities that a peer sees; what it is taken to see is typed as well.
LEMMA VisibleIsTyped ==
  ASSUME NEW s, TablesOK(s), NEW p \in Peer
  PROVE  Visible(s, p) \in SUBSET Nat /\ s.known[p] \in SUBSET Nat
  BY DEF TablesOK, Server, Visible, Gameplay

LEMMA KnownFacts ==
  ASSUME NEW s, TablesOK(s), NEW peers \in SUBSET Peer, NEW t, t = Known(s, peers)
  PROVE  /\ TablesOK(t) /\ Keeps(t, s) /\ Named(t) = Named(s) /\ t.seen = s.seen
         /\ \A p \in Peer : Downward(t, p) = Downward(s, p)
<1>1. /\ t.ids = s.ids /\ t.nextId = s.nextId /\ t.seen = s.seen
      /\ t.entityOf = s.entityOf /\ t.status = s.status /\ t.live = s.live
      /\ t.next = s.next
      /\ t = [s EXCEPT !.known =
                [p \in Peer |-> IF p \in peers THEN Visible(s, p) ELSE s.known[p]]]
  BY DEF Known, TablesOK, Server
<1>2. [p \in Peer |-> IF p \in peers THEN Visible(s, p) ELSE s.known[p]]
        \in [Peer -> SUBSET Nat]
  BY VisibleIsTyped
<1>3. t \in Server
  BY <1>1, <1>2 DEF TablesOK, Server
<1>4. /\ HasId(t) = HasId(s) /\ \A p : IdOf(t, p) = IdOf(s, p)
      /\ \A p : EntityOf(t, p) = EntityOf(s, p)
  BY <1>1 DEF HasId, IdOf, EntityOf
<1>5. TablesOK(t)
  BY <1>1, <1>3, <1>4 DEF TablesOK
<1>6. Named(t) = Named(s) /\ Keeps(t, s)
  BY <1>1, <1>4 DEF Named, Keeps
<1>7. \A p \in Peer : Downward(t, p) = Downward(s, p)
  BY <1>4, <1>6 DEF Downward, Assigned
<1>. QED  BY <1>1, <1>5, <1>6, <1>7

\* What the server sends is added to queues that are as good as before.
LEMMA SendingStep ==
  ASSUME NEW s, NEW packets, \A p \in Peer : down[p] \in Seq(Downward(s, p)),
         \A p \in Peer : packets[p] \in Seq(Downward(s, p))
  PROVE  /\ DOMAIN Sent(down, packets) = Peer
         /\ \A p \in Peer : Sent(down, packets)[p] \in Seq(Downward(s, p))
<1> DEFINE good == [p \in Peer |-> Downward(s, p)]
<1>1. \A p \in Peer : down[p] \in Seq(good[p]) /\ packets[p] \in Seq(good[p])
  OBVIOUS
<1>2. /\ DOMAIN Sent(down, packets) = Peer
      /\ \A p \in Peer : Sent(down, packets)[p] \in Seq(good[p])
  <2> HIDE DEF good
  <2>. QED  BY <1>1, SentFacts
<1>. QED  BY <1>2

-----------------------------------------------------------------------------
\* Each step preserves SessionInv.  First those of the server.

LEMMA ServerPacketInv ==
  ASSUME SessionInv, NEW p \in Peer, NEW i \in 1..Len(up[p]), ServerPacket(p, i)
  PROVE  SessionInv'
<1> DEFINE packet == up[p][i]
           s0 == [server EXCEPT !.seen = @ \cup {p}]
           s == Ensured(s0, Alone(p))
           answer == Answer(s, p, packet.hash)
<1>1. TablesOK(server) /\ server.seen \subseteq Named(server)
  BY DEF SessionInv, ServerInv
<1>2. /\ TablesOK(s0) /\ Keeps(s0, server) /\ Named(s0) = Named(server)
      /\ s0.seen = server.seen \cup {p}
  BY <1>1 DEF TablesOK, Server, Keeps, Named, HasId, IdOf, EntityOf
<1>3. /\ TablesOK(s) /\ Keeps(s, s0) /\ p \in Named(s) /\ s.seen = s0.seen
  <2> HIDE DEF s0
  <2>1. {p} \in SUBSET Peer
    OBVIOUS
  <2>. QED  BY <1>2, <2>1, AloneIsOrder, EnsuredFacts
<1>4. Keeps(s, server) /\ s.seen \subseteq Named(s)
  <2> HIDE DEF s, s0
  <2>1. Keeps(s, server)
    BY <1>2, <1>3 DEF Keeps, IdOf, HasId
  <2>2. Named(server) \subseteq Named(s)
    BY <1>1, <1>3, <2>1, StillNamed
  <2>. QED  BY <1>1, <1>2, <1>3, <2>1, <2>2
<1>5. /\ up' = [up EXCEPT ![p] = RemoveAt(@, i)]
      /\ listed' = listed /\ UNCHANGED <<client, received>>
      /\ \/ /\ packet.type = "Control"
            /\ down' = Sent(down, Only(p, answer))
            /\ server' = IF answer = << >> THEN s ELSE Known(s, {p})
            /\ UNCHANGED calls
         \/ /\ packet.type = "Rpc"
            /\ server' = s
            /\ \/ calls' = calls
               \/ calls' = calls \cup {[ peer |-> p, endpoint |-> packet.endpoint,
                                         source |-> EntityOf(s, p),
                                         target |-> packet.target ]}
            /\ UNCHANGED down
  BY DEF ServerPacket
<1> HIDE DEF s0, s, packet, answer
<1>6. /\ TablesOK(server') /\ Keeps(server', server) /\ server'.seen \subseteq Named(server')
      /\ \A q \in Peer : Downward(server', q) = Downward(s, q)
      /\ p \in Named(server')
  <2>1. CASE server' = s
    BY <1>3, <1>4, <2>1
  <2>2. CASE server' = Known(s, {p})
    <3>1. /\ TablesOK(server') /\ Keeps(server', s) /\ Named(server') = Named(s)
          /\ server'.seen = s.seen
          /\ \A q \in Peer : Downward(server', q) = Downward(s, q)
      BY <1>3, <2>2, KnownFacts
    <3>2. Keeps(server', server)
      BY <1>4, <3>1 DEF Keeps, IdOf, HasId
    <3>. QED  BY <1>3, <1>4, <3>1, <3>2
  <2>. QED  BY <1>5, <2>1, <2>2
<1>7. /\ ServerInv' /\ ClientsInv'
      /\ \A q \in Peer : up[q] \in Seq(Upward(server', q))
      /\ \A q \in Peer : down[q] \in Seq(Downward(server', q))
      /\ \A c \in calls : CallOK(server', c)
      /\ \A e \in received : EventOK(server', e)
  BY <1>5, <1>6, KeepingStep
<1>8. packet \in Upward(server', p)
  BY <1>7, RemoveAtFacts DEF packet
<1>9. DOMAIN up' = Peer /\ \A q \in Peer : up'[q] \in Seq(Upward(server', q))
  <2>1. RemoveAt(up[p], i) \in Seq(Upward(server', p))
    BY <1>7, RemoveAtFacts
  <2>. QED  BY <1>5, <1>7, <2>1 DEF SessionInv, QueuesInv
<1>10. DOMAIN down' = Peer /\ \A q \in Peer : down'[q] \in Seq(Downward(server', q))
  <2>1. CASE down' = down
    BY <1>7, <2>1 DEF SessionInv, QueuesInv
  <2>2. CASE down' = Sent(down, Only(p, answer))
    <3>1. Snapshot(Visible(s, p), {}) \in Downward(s, p) /\ Assigned(s, p) \in Downward(s, p)
      BY <1>3, VisibleIsTyped, SnapshotIsGood, AssignedIsGood
    <3>2. answer \in Seq(Downward(s, p))
      BY <3>1 DEF answer, Answer
    <3>3. \A q \in Peer : Only(p, answer)[q] \in Seq(Downward(server', q))
      BY <1>6, <3>2 DEF Only
    <3>. QED  BY <1>7, <2>2, <3>3, SendingStep
  <2>. QED  BY <1>5, <2>1, <2>2
<1>11. HistoryInv'
  <2>1. ASSUME packet.type = "Rpc", server' = s,
               NEW c, c = [ peer |-> p, endpoint |-> packet.endpoint,
                            source |-> EntityOf(s, p), target |-> packet.target ]
        PROVE  CallOK(server', c)
    <3>1. packet.endpoint = "Peer" => packet.target = EntityOf(s, p)
      BY <1>8, <2>1 DEF Upward, Controls
    <3>. QED  BY <1>3, <2>1, <3>1 DEF CallOK
  <2>. QED  BY <1>5, <1>7, <2>1 DEF HistoryInv
<1>. QED  BY <1>7, <1>9, <1>10, <1>11 DEF SessionInv, QueuesInv

\* Peers are only marked as disconnected.
LEMMA StatusFacts ==
  ASSUME NEW s, TablesOK(s), NEW who,
         NEW t, t = [s EXCEPT !.status =
                       [i \in PeerId |-> IF i \in who THEN "Disconnected" ELSE @[i]]]
  PROVE  TablesOK(t) /\ Keeps(t, s) /\ Named(t) = Named(s) /\ t.seen = s.seen
<1>1. /\ t.ids = s.ids /\ t.nextId = s.nextId /\ t.seen = s.seen
      /\ t.entityOf = s.entityOf /\ t.live = s.live /\ t.known = s.known
      /\ t.next = s.next
      /\ t.status = [i \in PeerId |-> IF i \in who THEN "Disconnected" ELSE s.status[i]]
  BY DEF TablesOK, Server
<1>2. t.status \in [PeerId -> {"none", "Connected", "Disconnected"}]
  BY <1>1 DEF TablesOK, Server
<1>3. t \in Server
  <2>1. t = [s EXCEPT !.status = t.status]
    BY <1>1
  <2>. QED  BY <1>2, <2>1 DEF TablesOK, Server
<1>4. HasId(t) = HasId(s) /\ \A p : IdOf(t, p) = IdOf(s, p) /\ EntityOf(t, p) = EntityOf(s, p)
  BY <1>1 DEF HasId, IdOf, EntityOf
<1>. QED  BY <1>1, <1>3, <1>4 DEF TablesOK, Keeps, Named

\* What an iteration over all current peers does to the tables, and what it
\* sends: the rest is KeepingStep.
LEMMA IterationInv ==
  ASSUME SessionInv, NEW s, TablesOK(s), Keeps(s, server), server' = Known(s, CurrentPeers),
         s.seen = server.seen, NEW packets, down' = Sent(down, packets),
         \A p \in Peer : packets[p] \in Seq(Downward(s, p)),
         UNCHANGED <<listed, client, up, calls, received>>
  PROVE  SessionInv'
<1>1. TablesOK(server) /\ server.seen \subseteq Named(server) /\ CurrentPeers \in SUBSET Peer
  BY DEF SessionInv, ServerInv, CurrentPeers, Named, HasId
<1>2. /\ TablesOK(server') /\ Keeps(server', s) /\ Named(server') = Named(s)
      /\ server'.seen = s.seen
      /\ \A p \in Peer : Downward(server', p) = Downward(s, p)
  BY <1>1, KnownFacts
<1>3. Keeps(server', server)
  BY <1>2 DEF Keeps, IdOf, HasId
<1>4. server'.seen \subseteq Named(server')
  BY <1>1, <1>2, <1>3, StillNamed
<1>5. /\ ServerInv' /\ ClientsInv'
      /\ \A p \in Peer : up[p] \in Seq(Upward(server', p))
      /\ \A p \in Peer : down[p] \in Seq(Downward(server', p))
      /\ \A c \in calls : CallOK(server', c)
      /\ \A e \in received : EventOK(server', e)
  BY <1>2, <1>3, <1>4, KeepingStep
<1>6. DOMAIN down' = Peer /\ \A p \in Peer : down'[p] \in Seq(Downward(server', p))
  BY <1>2, <1>5, SendingStep
<1>. QED  BY <1>5, <1>6 DEF SessionInv, QueuesInv, HistoryInv

LEMMA UpdateInv == SessionInv /\ Update => SessionInv'
<1> SUFFICES ASSUME SessionInv, Update PROVE SessionInv'
  OBVIOUS
<1> DEFINE who == {IdOf(server, p) : p \in server.seen \ listed}
           gone == [ server EXCEPT !.status =
                       [i \in PeerId |-> IF i \in who THEN "Disconnected" ELSE @[i]] ]
           given(order) == IdsFor(gone, order)
           news(s) == [ p \in Peer |->
                      IF p \in CurrentPeers /\ Visible(s, p) # s.known[p]
                      THEN <<Snapshot(Visible(s, p) \ s.known[p], s.known[p] \ Visible(s, p))>>
                      ELSE << >> ]
<1>1. PICK order \in Orders(CurrentPeers) :
        /\ server' = Known(given(order), CurrentPeers)
        /\ down' = Sent(down, news(given(order)))
        /\ UNCHANGED <<listed, client, up, calls, received>>
  BY DEF Update
<1>2. /\ TablesOK(server) /\ CurrentPeers \in SUBSET Peer
  BY DEF SessionInv, ServerInv, CurrentPeers, Named, HasId
<1>3. TablesOK(gone) /\ Keeps(gone, server) /\ gone.seen = server.seen
  <2> HIDE DEF who
  <2>. QED  BY <1>2, StatusFacts
<1> HIDE DEF gone, who
<1> DEFINE s == given(order)
<1>4. TablesOK(s) /\ Keeps(s, gone) /\ s.seen = gone.seen
  <2> HIDE DEF s
  <2>1. s = IdsFor(gone, order)
    BY DEF s
  <2>. QED  BY <1>2, <1>3, <2>1, IdsForFacts
<1> HIDE DEF given, s
<1>5. Keeps(s, server)
  BY <1>3, <1>4 DEF Keeps, IdOf, HasId
<1>6. \A p \in Peer : news(s)[p] \in Seq(Downward(s, p))
  <2> SUFFICES ASSUME NEW p \in Peer PROVE news(s)[p] \in Seq(Downward(s, p))
    OBVIOUS
  <2>1. Visible(s, p) \in SUBSET Nat /\ s.known[p] \in SUBSET Nat
    BY <1>4, VisibleIsTyped
  <2>2. /\ Visible(s, p) \ s.known[p] \in SUBSET Nat
        /\ s.known[p] \ Visible(s, p) \in SUBSET Nat
    BY <2>1
  <2>3. Snapshot(Visible(s, p) \ s.known[p], s.known[p] \ Visible(s, p)) \in Downward(s, p)
    BY <2>2, SnapshotIsGood
  <2>. QED  BY <2>3
<1>7. server' = Known(s, CurrentPeers) /\ down' = Sent(down, news(s))
  BY <1>1 DEF s
<1> HIDE DEF news
<1>. QED  BY <1>1, <1>3, <1>4, <1>5, <1>6, <1>7, IterationInv

LEMMA SendFullSnapshotsInv == SessionInv /\ SendFullSnapshots => SessionInv'
<1> SUFFICES ASSUME SessionInv, SendFullSnapshots PROVE SessionInv'
  OBVIOUS
<1> DEFINE full(s) == [p \in Peer |-> IF p \in CurrentPeers
                         THEN <<Snapshot(Visible(s, p), {})>> ELSE << >>]
<1>1. PICK order \in Orders(CurrentPeers) :
        /\ server' = Known(Ensured(server, order), CurrentPeers)
        /\ down' = Sent(down, full(Ensured(server, order)))
        /\ UNCHANGED <<listed, client, up, calls, received>>
  BY DEF SendFullSnapshots
<1>2. /\ TablesOK(server) /\ CurrentPeers \in SUBSET Peer
  BY DEF SessionInv, ServerInv, CurrentPeers, Named, HasId
<1> DEFINE s == Ensured(server, order)
<1>3. TablesOK(s) /\ Keeps(s, server) /\ s.seen = server.seen
  BY <1>2, EnsuredFacts
<1> HIDE DEF s
<1>4. \A p \in Peer : full(s)[p] \in Seq(Downward(s, p))
  BY <1>3, VisibleIsTyped, SnapshotIsGood
<1>5. server' = Known(s, CurrentPeers) /\ down' = Sent(down, full(s))
  BY <1>1 DEF s
<1> HIDE DEF full
<1>. QED  BY <1>1, <1>3, <1>4, <1>5, IterationInv

\* Whoever has an entity can be sent an event.
LEMMA EventsAreGood ==
  ASSUME NEW s, TablesOK(s), NEW e \in Endpoint, NEW receivers, receivers \subseteq Named(s)
  PROVE  \A p \in Peer : Events(s, e, receivers)[p] \in Seq(Downward(s, p))
<1> SUFFICES ASSUME NEW p \in Peer
             PROVE  Events(s, e, receivers)[p] \in Seq(Downward(s, p))
  OBVIOUS
<1>1. CASE p \notin receivers
  BY <1>1 DEF Events
<1>2. CASE p \in receivers
  <2>1. EntityOf(s, p) \in Nat /\ p \in Named(s)
    BY <1>2, EntityIsTyped DEF Named
  <2>2. Source(s, e, p) \in Nat /\ (e = "Peer" => Source(s, e, p) = EntityOf(s, p))
    BY <2>1 DEF Source, Endpoint, WorldEntity, Gameplay
  <2>3. Rpc(e, Source(s, e, p), EntityOf(s, p)) \in Downward(s, p)
    BY <2>1, <2>2, RpcIsTyped DEF Downward
  <2>. QED  BY <1>2, <2>3 DEF Events
<1>. QED  BY <1>1, <1>2

\* The program's entity is nobody's PeerEntity.
LEMMA WhoSeesGameplay ==
  ASSUME NEW s, TablesOK(s), NEW p \in Peer
  PROVE  Sees(s, "Entity", p) <=> p \in Watcher
<1>1. Gameplay \notin s.live
  BY DEF TablesOK, Gameplay
<1>. QED  BY <1>1 DEF Sees, Source, IsVisible, Gameplay, WorldEntity

LEMMA BroadcastInv ==
  ASSUME SessionInv, NEW e \in Endpoint, Broadcast(e)
  PROVE  SessionInv'
<1> DEFINE given(order) == IdsFor(server, order)
           some(t) == {p \in CurrentPeers : e # "Entity" \/ Sees(t, e, p)}
           receivers(u) == {p \in CurrentPeers : Sees(u, e, p)}
<1>1. PICK order \in Orders(CurrentPeers) :
        /\ server' = EnsureEntities(given(order), order, some(given(order)))
        /\ down' = Sent(down, Events(server', e, receivers(server')))
        /\ UNCHANGED <<listed, client, up, calls, received>>
  BY DEF Broadcast
<1> DEFINE t == given(order)
<1>2. /\ TablesOK(server) /\ CurrentPeers \in SUBSET Peer /\ server.seen \subseteq Named(server)
  BY DEF SessionInv, ServerInv, CurrentPeers, Named, HasId
<1>3. /\ TablesOK(t) /\ Keeps(t, server) /\ CurrentPeers \subseteq HasId(t)
      /\ t.seen = server.seen
  <2> HIDE DEF t
  <2>1. t = IdsFor(server, order)
    BY DEF t
  <2>. QED  BY <1>2, <2>1, IdsForFacts
<1>4. server' = EnsureEntities(t, order, some(t))
  BY <1>1
<1> HIDE DEF t, given
<1>5. /\ TablesOK(server') /\ Keeps(server', t) /\ some(t) \subseteq Named(server')
      /\ server'.seen = t.seen
  <2> DEFINE peers == some(t)
  <2>1. peers \in SUBSET CurrentPeers
    OBVIOUS
  <2> HIDE DEF peers
  <2>2. server' = EnsureEntities(t, order, peers)
    BY <1>4 DEF peers
  <2>3. /\ TablesOK(server') /\ Keeps(server', t) /\ peers \subseteq Named(server')
        /\ server'.seen = t.seen
    <3>1. peers \subseteq HasId(t)
      BY <1>3, <2>1
    <3>. QED  BY <1>2, <1>3, <2>1, <2>2, <3>1, EnsureEntitiesFacts
  <2>. QED  BY <2>3 DEF peers
<1>6. Keeps(server', server) /\ server'.seen \subseteq Named(server')
  <2>1. Keeps(server', server)
    BY <1>3, <1>5 DEF Keeps, IdOf, HasId
  <2>. QED  BY <1>2, <1>3, <1>5, <2>1, StillNamed
<1>7. receivers(server') \subseteq Named(server')
  <2>1. CASE e # "Entity"
    BY <1>5, <2>1
  <2>2. CASE e = "Entity"
    BY <1>2, <1>3, <1>5, <2>2, WhoSeesGameplay
  <2>. QED  BY <2>1, <2>2
<1> HIDE DEF some, receivers
<1>8. /\ ServerInv' /\ ClientsInv'
      /\ \A p \in Peer : up[p] \in Seq(Upward(server', p))
      /\ \A p \in Peer : down[p] \in Seq(Downward(server', p))
      /\ \A c \in calls : CallOK(server', c)
      /\ \A r \in received : EventOK(server', r)
  BY <1>1, <1>5, <1>6, KeepingStep
<1>9. DOMAIN down' = Peer /\ \A p \in Peer : down'[p] \in Seq(Downward(server', p))
  <2> DEFINE events == Events(server', e, receivers(server'))
  <2>1. \A p \in Peer : events[p] \in Seq(Downward(server', p))
    BY <1>5, <1>7, EventsAreGood
  <2>2. down' = Sent(down, events)
    BY <1>1
  <2> HIDE DEF events
  <2>. QED  BY <1>8, <2>1, <2>2, SendingStep
<1>. QED  BY <1>1, <1>8, <1>9 DEF SessionInv, QueuesInv, HistoryInv

LEMMA SendToInv ==
  ASSUME SessionInv, NEW e \in Endpoint, NEW targets \in SUBSET Peer, SendTo(e, targets)
  PROVE  SessionInv'
<1> DEFINE events == Events(server, e, targets)
<1>1. /\ targets \subseteq Named(server) /\ down' = Sent(down, events)
      /\ UNCHANGED <<server, listed, client, up, calls, received>>
  BY DEF SendTo, Named, HasId
<1>2. \A p \in Peer : events[p] \in Seq(Downward(server, p))
  BY <1>1, EventsAreGood DEF SessionInv, ServerInv
<1> HIDE DEF events
<1>3. \A p \in Peer : down[p] \in Seq(Downward(server, p))
  BY DEF SessionInv, QueuesInv
<1>4. DOMAIN down' = Peer /\ \A p \in Peer : down'[p] \in Seq(Downward(server, p))
  BY <1>1, <1>2, <1>3, SendingStep
<1>. QED  BY <1>1, <1>4 DEF SessionInv, ServerInv, ClientsInv, QueuesInv, HistoryInv, CurrentPeers

LEMMA RemovePeerEntityInv ==
  ASSUME SessionInv, NEW i \in PeerId, RemovePeerEntity(i)
  PROVE  SessionInv'
<1>1. /\ server' = [server EXCEPT !.live = @ \ {server.entityOf[i]}]
      /\ UNCHANGED <<listed, client, up, down, calls, received>>
  BY DEF RemovePeerEntity
<1>2. TablesOK(server) /\ server.seen \subseteq Named(server)
  BY DEF SessionInv, ServerInv
<1>3. /\ TablesOK(server') /\ Keeps(server', server) /\ Named(server') = Named(server)
      /\ server'.seen = server.seen
  BY <1>1, <1>2 DEF TablesOK, Server, Keeps, Named, HasId, IdOf, EntityOf
<1>4. /\ ServerInv' /\ ClientsInv'
      /\ \A p \in Peer : up[p] \in Seq(Upward(server', p))
      /\ \A p \in Peer : down[p] \in Seq(Downward(server', p))
      /\ \A c \in calls : CallOK(server', c)
      /\ \A r \in received : EventOK(server', r)
  BY <1>1, <1>2, <1>3, KeepingStep
<1>. QED  BY <1>1, <1>4 DEF SessionInv, QueuesInv, HistoryInv

-----------------------------------------------------------------------------
\* Then those of clients and of the transport: they leave the tables alone.

\* What is left to show of a step that leaves the server and all that was
\* handled as they are.
LEMMA ClientStep ==
  ASSUME SessionInv, UNCHANGED <<server, calls>>,
         listed' \subseteq Peer, client' \in [Peer -> Clients],
         \A p \in Peer : client'[p].on <=> p \in listed',
         \A p \in Peer : ClientOK(server, p, client'[p]),
         \A e \in received' : EventOK(server, e),
         DOMAIN up' = Peer, \A p \in Peer : up'[p] \in Seq(Upward(server, p)),
         DOMAIN down' = Peer, \A p \in Peer : down'[p] \in Seq(Downward(server, p))
  PROVE  SessionInv'
  BY DEF SessionInv, ServerInv, ClientsInv, QueuesInv, HistoryInv

\* What the invariant says, for those steps.
LEMMA ClientFacts ==
  ASSUME SessionInv
  PROVE  /\ TablesOK(server) /\ listed \subseteq Peer
         /\ client \in [Peer -> Clients]
         /\ \A p \in Peer : client[p].on <=> p \in listed
         /\ \A p \in Peer : ClientOK(server, p, client[p])
         /\ \A e \in received : EventOK(server, e)
         /\ DOMAIN up = Peer /\ \A p \in Peer : up[p] \in Seq(Upward(server, p))
         /\ DOMAIN down = Peer /\ \A p \in Peer : down[p] \in Seq(Downward(server, p))
  BY DEF SessionInv, ServerInv, ClientsInv, QueuesInv, HistoryInv

LEMMA NoClientIsOK ==
  /\ NoClient \in Clients /\ ~NoClient.on /\ NoClient.id = 0 /\ NoClient.entity = 0
  /\ NoClient.hash = NoHash
  BY DEF NoClient, Clients, Hash

LEMMA ConnectInv ==
  ASSUME SessionInv, NEW p \in Peer, NEW h \in ClientHash[p], Connect(p, h)
  PROVE  SessionInv'
<1> DEFINE c == [NoClient EXCEPT !.on = TRUE, !.hash = h]
<1>1. /\ listed' = listed \cup {p} /\ client' = [client EXCEPT ![p] = c]
      /\ UNCHANGED <<server, up, down, calls, received>>
  BY DEF Connect
<1>2. c \in Clients /\ c.on /\ c.id = 0 /\ c.entity = 0
  BY DEF NoClient, Clients, Hash
<1>3. ClientOK(server, p, c)
  BY <1>2 DEF ClientOK
<1> HIDE DEF c
<1>. QED  BY <1>1, <1>2, <1>3, ClientFacts, ClientStep

LEMMA DisconnectInv ==
  ASSUME SessionInv, NEW p \in Peer, NEW n \in 0..Len(up[p]), Disconnect(p, n)
  PROVE  SessionInv'
<1>1. /\ listed' = listed \ {p} /\ client' = [client EXCEPT ![p] = NoClient]
      /\ up' = [up EXCEPT ![p] = SubSeq(@, 1, n)]
      /\ down' = [down EXCEPT ![p] = << >>]
      /\ UNCHANGED <<server, calls, received>>
  BY DEF Disconnect
<1>2. ClientOK(server, p, NoClient)
  BY NoClientIsOK DEF ClientOK
<1>3. SubSeq(up[p], 1, n) \in Seq(Upward(server, p))
  <2>1. up[p] \in Seq(Upward(server, p)) /\ Len(up[p]) \in Nat
    BY ClientFacts, LenProperties
  <2>. QED  BY <2>1, SubSeqProperties
<1>4. << >> \in Seq(Downward(server, p))
  BY EmptySeq
<1>5. /\ DOMAIN up' = Peer /\ \A q \in Peer : up'[q] \in Seq(Upward(server, q))
      /\ DOMAIN down' = Peer /\ \A q \in Peer : down'[q] \in Seq(Downward(server, q))
  BY <1>1, <1>3, <1>4, ClientFacts
<1>6. /\ client' \in [Peer -> Clients]
      /\ \A q \in Peer : client'[q].on <=> q \in listed'
      /\ \A q \in Peer : ClientOK(server, q, client'[q])
  BY <1>1, <1>2, ClientFacts, NoClientIsOK
<1>. QED  BY <1>1, <1>5, <1>6, ClientFacts, ClientStep

\* A client adds a packet to what is on its way.
LEMMA SubmitInv ==
  ASSUME SessionInv, NEW p \in Peer, NEW packet \in Upward(server, p),
         up' = [up EXCEPT ![p] = Append(@, packet)],
         NEW c \in Clients, c.on = client[p].on, ClientOK(server, p, c),
         client' = [client EXCEPT ![p] = c],
         UNCHANGED <<server, listed, down, calls, received>>
  PROVE  SessionInv'
<1>1. Append(up[p], packet) \in Seq(Upward(server, p))
  BY ClientFacts, AppendProperties
<1>2. DOMAIN up' = Peer /\ \A q \in Peer : up'[q] \in Seq(Upward(server, q))
  BY <1>1, ClientFacts
<1>3. /\ client' \in [Peer -> Clients]
      /\ \A q \in Peer : client'[q].on <=> q \in listed'
      /\ \A q \in Peer : ClientOK(server, q, client'[q])
  BY ClientFacts
<1>. QED  BY <1>2, <1>3, ClientFacts, ClientStep

LEMMA HelloInv ==
  ASSUME SessionInv, NEW p \in Peer, Start(p) \/ RequestFullSnapshot(p)
  PROVE  SessionInv'
<1> DEFINE c == [client[p] EXCEPT !.started = TRUE]
<1>1. client[p] \in Clients /\ ClientOK(server, p, client[p])
  BY ClientFacts
<1>2. Hello(p) \in Upward(server, p)
  BY <1>1 DEF Hello, Upward, Controls, Clients
<1>3. c \in Clients /\ c.on = client[p].on /\ ClientOK(server, p, c)
  BY <1>1 DEF Clients, ClientOK
<1>4. CASE Start(p)
  <2>1. client' = [client EXCEPT ![p] = c]
    BY <1>4 DEF Start
  <2> HIDE DEF c
  <2>. QED  BY <1>2, <1>3, <1>4, <2>1, SubmitInv DEF Start
<1>5. CASE RequestFullSnapshot(p)
  <2>1. client' = [client EXCEPT ![p] = client[p]]
    BY <1>5, ClientFacts DEF RequestFullSnapshot
  <2>. QED  BY <1>1, <1>2, <1>5, <2>1, SubmitInv DEF RequestFullSnapshot
<1>. QED  BY <1>4, <1>5

LEMMA SendCommandInv ==
  ASSUME SessionInv, NEW p \in Peer, NEW e \in Endpoint, SendCommand(p, e)
  PROVE  SessionInv'
<1> DEFINE target == CASE e = "World"  -> WorldEntity
                       [] e = "Peer"   -> client[p].entity
                       [] e = "Entity" -> Gameplay
           packet == Rpc(e, client[p].entity, target)
<1>1. /\ client[p].id # 0
      /\ up' = [up EXCEPT ![p] = Append(@, packet)]
      /\ UNCHANGED <<server, listed, client, down, calls, received>>
  BY DEF SendCommand
<1>2. client[p] \in Clients /\ ClientOK(server, p, client[p])
  BY ClientFacts
<1>3. /\ p \in Named(server) /\ client[p].entity = EntityOf(server, p)
      /\ client[p].entity \in Nat
  BY <1>1, <1>2 DEF ClientOK, Clients
<1>4. target \in Nat /\ (e = "Peer" => target = EntityOf(server, p))
  BY <1>3 DEF Endpoint, WorldEntity, Gameplay
<1> HIDE DEF target
<1>5. packet \in Upward(server, p)
  BY <1>3, <1>4, RpcIsTyped DEF Upward
<1>6. client' = [client EXCEPT ![p] = client[p]]
  BY <1>1, ClientFacts
<1> HIDE DEF packet
<1>. QED  BY <1>1, <1>2, <1>5, <1>6, SubmitInv

LEMMA ClientPacketInv ==
  ASSUME SessionInv, NEW p \in Peer, NEW i \in 1..Len(down[p]), ClientPacket(p, i)
  PROVE  SessionInv'
<1> DEFINE packet == down[p][i]
           c == client[p]
           event == [ peer |-> p, endpoint |-> packet.endpoint, source |-> packet.source,
                      target |-> packet.target, mine |-> c.entity ]
<1>1. /\ down' = [down EXCEPT ![p] = RemoveAt(@, i)]
      /\ UNCHANGED <<server, listed, up, calls>>
      /\ \/ /\ packet.type = "PeerAssigned"
            /\ client' = IF Accept(c, packet)
                         THEN [client EXCEPT ![p].id = packet.id,
                                             ![p].entity = packet.entity]
                         ELSE client
            /\ UNCHANGED received
         \/ /\ packet.type = "Snapshot"
            /\ client' = [client EXCEPT ![p].has = (@ \ packet.leave) \cup packet.enter]
            /\ UNCHANGED received
         \/ /\ packet.type = "Rpc"
            /\ received' = received \/ received' = received \cup {event}
            /\ UNCHANGED client
  BY DEF ClientPacket
<1>2. /\ c \in Clients /\ ClientOK(server, p, c) /\ (c.on <=> p \in listed)
      /\ down[p] \in Seq(Downward(server, p)) /\ TablesOK(server)
  BY ClientFacts
<1>3. packet \in Downward(server, p) /\ RemoveAt(down[p], i) \in Seq(Downward(server, p))
  BY <1>2, RemoveAtFacts
<1> HIDE DEF packet
<1>4. DOMAIN down' = Peer /\ \A q \in Peer : down'[q] \in Seq(Downward(server, q))
  BY <1>1, <1>3, ClientFacts
<1>5. CASE client' = client /\ received' = received
  BY <1>1, <1>4, <1>5, ClientFacts, ClientStep
<1>6. ASSUME NEW d \in Clients, d.on = c.on, ClientOK(server, p, d),
             client' = [client EXCEPT ![p] = d], received' = received
      PROVE  SessionInv'
  <2>1. /\ client' \in [Peer -> Clients]
        /\ \A q \in Peer : client'[q].on <=> q \in listed'
        /\ \A q \in Peer : ClientOK(server, q, client'[q])
    BY <1>1, <1>6, ClientFacts
  <2>. QED  BY <1>1, <1>4, <1>6, <2>1, ClientFacts, ClientStep
<1>7. CASE /\ packet.type = "PeerAssigned" /\ Accept(c, packet) /\ received' = received
           /\ client' = [client EXCEPT ![p].id = packet.id, ![p].entity = packet.entity]
  <2> DEFINE d == [c EXCEPT !.id = packet.id, !.entity = packet.entity]
  <2>1. p \in Named(server) /\ packet = Assigned(server, p)
    BY <1>3, <1>7 DEF Downward, Snapshots, Rpcs
  <2>2. /\ packet.id = IdOf(server, p) /\ packet.entity = EntityOf(server, p)
        /\ packet.hash = ServerHash
        /\ packet.id \in Nat /\ packet.id # 0 /\ packet.entity \in Nat
    BY <1>2, <2>1, EntityIsTyped DEF Assigned, Named, HasId, TablesOK, Server, IdOf
  <2>3. /\ d \in Clients /\ d.on = c.on /\ d.hash = c.hash
        /\ d.id = packet.id /\ d.entity = packet.entity
    BY <1>2, <2>2 DEF Clients
  <2>4. Matches(ServerHash, c.hash)
    BY <1>7, <2>2 DEF Accept, Matches
  <2>5. ClientOK(server, p, d)
    BY <2>1, <2>2, <2>3, <2>4 DEF ClientOK
  <2>6. client' = [client EXCEPT ![p] = d]
    BY <1>7, ClientFacts
  <2> HIDE DEF d
  <2>. QED  BY <1>6, <1>7, <2>3, <2>5, <2>6
<1>8. CASE /\ packet.type = "Snapshot" /\ received' = received
           /\ client' = [client EXCEPT ![p].has = (@ \ packet.leave) \cup packet.enter]
  <2> DEFINE d == [c EXCEPT !.has = (@ \ packet.leave) \cup packet.enter]
  <2>1. packet \in Snapshots
    BY <1>3, <1>8 DEF Downward, Rpcs, Assigned
  <2>2. /\ d \in Clients /\ d.on = c.on /\ d.hash = c.hash
        /\ d.id = c.id /\ d.entity = c.entity
    BY <1>2, <2>1 DEF Clients, Snapshots
  <2>3. ClientOK(server, p, d)
    BY <1>2, <2>2 DEF ClientOK
  <2>4. client' = [client EXCEPT ![p] = d]
    BY <1>8, ClientFacts
  <2> HIDE DEF d
  <2>. QED  BY <1>6, <1>8, <2>2, <2>3, <2>4
<1>9. CASE packet.type = "Rpc" /\ received' = received \cup {event} /\ client' = client
  <2>1. /\ packet \in Rpcs /\ p \in Named(server) /\ packet.target = EntityOf(server, p)
        /\ packet.endpoint = "Peer" => packet.source = packet.target
    BY <1>3, <1>9 DEF Downward, Snapshots, Assigned
  <2>2. c.entity \in {0, packet.target}
    BY <1>2, <2>1 DEF ClientOK
  <2>3. EventOK(server, event)
    BY <2>1, <2>2 DEF EventOK
  <2> HIDE DEF event
  <2>4. \A e \in received' : EventOK(server, e)
    BY <1>9, <2>3, ClientFacts
  <2>. QED  BY <1>1, <1>4, <1>9, <2>4, ClientFacts, ClientStep
<1>. QED  BY <1>1, <1>5, <1>7, <1>8, <1>9

LEMMA LoseInv ==
  ASSUME SessionInv, NEW p \in Peer, NEW i \in DOMAIN up[p] \cup DOMAIN down[p], Lose(p, i)
  PROVE  SessionInv'
<1>1. \A S : \A s \in Seq(S) : DOMAIN s = 1..Len(s)
  BY LenProperties
<1>2. up[p] \in Seq(Upward(server, p)) /\ down[p] \in Seq(Downward(server, p))
  BY ClientFacts
<1>3. CASE /\ i \in DOMAIN up[p] /\ up' = [up EXCEPT ![p] = RemoveAt(@, i)]
           /\ UNCHANGED <<server, listed, client, down, calls, received>>
  <2>1. RemoveAt(up[p], i) \in Seq(Upward(server, p))
    BY <1>1, <1>2, <1>3, RemoveAtFacts
  <2>2. DOMAIN up' = Peer /\ \A q \in Peer : up'[q] \in Seq(Upward(server, q))
    BY <1>3, <2>1, ClientFacts
  <2>. QED  BY <1>3, <2>2, ClientFacts, ClientStep
<1>4. CASE /\ i \in DOMAIN down[p] /\ down' = [down EXCEPT ![p] = RemoveAt(@, i)]
           /\ UNCHANGED <<server, listed, client, up, calls, received>>
  <2>1. RemoveAt(down[p], i) \in Seq(Downward(server, p))
    BY <1>1, <1>2, <1>4, RemoveAtFacts
  <2>2. DOMAIN down' = Peer /\ \A q \in Peer : down'[q] \in Seq(Downward(server, q))
    BY <1>4, <2>1, ClientFacts
  <2>. QED  BY <1>4, <2>2, ClientFacts, ClientStep
<1>. QED  BY <1>3, <1>4 DEF Lose

-----------------------------------------------------------------------------
LEMMA InitSession == Init => SessionInv
<1> SUFFICES ASSUME Init PROVE SessionInv
  OBVIOUS
<1>1. /\ server \in Server /\ server.nextId = 1 /\ server.seen = {} /\ server.live = {}
      /\ server.next = Gameplay + 1
      /\ \A p \in Peer : IdOf(server, p) = 0
      /\ \A i \in PeerId : server.entityOf[i] = 0
  BY DEF Init, Server, IdOf, Gameplay
<1>2. HasId(server) = {} /\ Named(server) = {}
  BY <1>1 DEF HasId, Named
<1>3. Cardinality({}) = 0
  BY FS_EmptySet
<1>4. TablesOK(server)
  BY <1>1, <1>2, <1>3 DEF TablesOK, Gameplay
<1>5. ServerInv
  BY <1>1, <1>4 DEF Init, ServerInv
<1>6. ClientsInv
  BY NoClientIsOK DEF Init, ClientsInv, ClientOK
<1>7. QueuesInv /\ HistoryInv
  BY DEF Init, QueuesInv, HistoryInv
<1>. QED  BY <1>5, <1>6, <1>7 DEF SessionInv

LEMMA SessionStep == SessionInv /\ [Next]_vars => SessionInv'
<1> SUFFICES ASSUME SessionInv, [Next]_vars PROVE SessionInv'
  OBVIOUS
<1>1. ASSUME NEW p \in Peer, NEW i \in 1..Len(up[p]), ServerPacket(p, i) PROVE SessionInv'
  BY <1>1, ServerPacketInv
<1>2. ASSUME NEW p \in Peer, NEW i \in 1..Len(down[p]), ClientPacket(p, i) PROVE SessionInv'
  BY <1>2, ClientPacketInv
<1>3. ASSUME NEW p \in Peer, NEW i \in DOMAIN up[p] \cup DOMAIN down[p], Lose(p, i)
      PROVE  SessionInv'
  BY <1>3, LoseInv
<1>4. ASSUME NEW p \in Peer, NEW h \in ClientHash[p], Connect(p, h) PROVE SessionInv'
  BY <1>4, ConnectInv
<1>5. ASSUME NEW p \in Peer, NEW n \in 0..Len(up[p]), Disconnect(p, n) PROVE SessionInv'
  BY <1>5, DisconnectInv
<1>6. ASSUME NEW p \in Peer, Start(p) \/ RequestFullSnapshot(p) PROVE SessionInv'
  BY <1>6, HelloInv
<1>7. ASSUME NEW p \in Peer, NEW e \in Endpoint, SendCommand(p, e) PROVE SessionInv'
  BY <1>7, SendCommandInv
<1>8. CASE Update
  BY <1>8, UpdateInv
<1>9. CASE SendFullSnapshots
  BY <1>9, SendFullSnapshotsInv
<1>10. ASSUME NEW e \in Endpoint, Broadcast(e) PROVE SessionInv'
  BY <1>10, BroadcastInv
<1>11. ASSUME NEW e \in Endpoint, NEW targets \in SUBSET Peer, SendTo(e, targets)
       PROVE  SessionInv'
  BY <1>11, SendToInv
<1>12. ASSUME NEW i \in PeerId, RemovePeerEntity(i) PROVE SessionInv'
  BY <1>12, RemovePeerEntityInv
<1>13. CASE UNCHANGED vars
  BY <1>13 DEF vars, SessionInv, ServerInv, ClientsInv, QueuesInv, HistoryInv
<1>. QED  BY <1>1, <1>2, <1>3, <1>4, <1>5, <1>6, <1>7, <1>8, <1>9, <1>10, <1>11, <1>12,
             <1>13 DEF Next

\* SessionInv is inductive: the tables only grow, and all that is on its way
\* or was handled carries the ids that the tables have (PeerIds, peerEntity).
THEOREM SessionInvariant == Spec => []SessionInv
  BY InitSession, SessionStep, PTL DEF Spec

\* Ids, references and entities of peers correspond one to one, whatever
\* connections come and go (PeerIds.idFor, ensurePeerEntity).
THEOREM SessionTypeCorrect == Spec => []SessionTypeOK
<1>1. SessionInv => SessionTypeOK
  <2> SUFFICES ASSUME SessionInv PROVE SessionTypeOK
    OBVIOUS
  <2>1. /\ TablesOK(server) /\ server.seen \subseteq Named(server) /\ listed \subseteq Peer
    BY DEF SessionInv, ServerInv
  <2>2. server.nextId \in 1..(Cardinality(Peer) + 1)
    BY <2>1, IdFacts
  <2>3. server.ids \in [Peer -> 0..(server.nextId - 1)]
    BY <2>1, <2>2 DEF TablesOK, Server, IdOf
  <2>4. server.entityOf \in [PeerId -> 0..(server.next - 1)]
    BY <2>1 DEF TablesOK, Server
  <2>5. server.live \subseteq ToSet(server.entityOf) \ {0}
    BY <2>1 DEF TablesOK, Server, ToSet
  <2>6. /\ server.seen \cup listed \subseteq Peer
        /\ server.status \in [PeerId -> {"none", "Connected", "Disconnected"}]
        /\ \A p \in server.seen : IdOf(server, p) # 0 /\ EntityOf(server, p) # 0
    BY <2>1 DEF TablesOK, Server, Named, HasId
  <2>7. /\ \A p, q \in Peer :
             p # q /\ IdOf(server, p) = IdOf(server, q) => IdOf(server, p) = 0
        /\ \A i, j \in PeerId :
             i # j /\ server.entityOf[i] = server.entityOf[j] => server.entityOf[i] = 0
    BY <2>1 DEF TablesOK, HasId
  <2>8. \A p \in Peer : client[p].on <=> p \in listed
    BY ClientFacts
  <2>. QED  BY <2>2, <2>3, <2>4, <2>5, <2>6, <2>7, <2>8 DEF SessionTypeOK
<1>. QED  BY <1>1, SessionInvariant, PTL

\* What a client takes for its id and its PeerEntity is what the server has
\* for its reference, also if the assignment was meant for an earlier
\* connection, and only with matching protocols (PeerAssigned in onPacket).
THEOREM AssignmentsMatch == Spec => []AssignedMatchesServer
<1>1. SessionInv => AssignedMatchesServer
  BY ClientFacts DEF AssignedMatchesServer, ClientOK
<1>. QED  BY <1>1, SessionInvariant, PTL

\* Handlers of commands see the sender's PeerEntity as source, and as target of
\* a peer command, even of one queued by a connection that has closed.
THEOREM CommandsAreFromSender == Spec => []CommandsFromSender
<1>1. SessionInv => CommandsFromSender
  BY DEF SessionInv, HistoryInv, CommandsFromSender, CallOK
<1>. QED  BY <1>1, SessionInvariant, PTL

\* Handlers of events see the receiver's PeerEntity as target, which is the one
\* the client was assigned, if it was (endpointEventBinding, sendEventTo).
THEOREM EventsAreForReceiver == Spec => []EventsToReceiver
<1>1. SessionInv => EventsToReceiver
  BY DEF SessionInv, HistoryInv, EventsToReceiver, EventOK
<1>. QED  BY <1>1, SessionInvariant, PTL

=============================================================================
