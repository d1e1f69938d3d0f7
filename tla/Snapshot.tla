------------------------------ MODULE Snapshot ------------------------------
(***************************************************************************)
(* Snapshot packets: how a list of operations is encoded from the current  *)
(* state of a world, and what a replica does with the packet.              *)
(*                                                                         *)
(* A packet is a record of six sets, written and applied in the order of   *)
(* its fields; within one kind of operation the order is by entity and     *)
(* component.  Nothing but that order, the values and the failures is kept *)
(* of the wire format.                                                     *)
(***************************************************************************)
EXTENDS World, Sequences

\* Component ids are numbers, so that operations have an order.
ASSUME SnapshotAssumption == Component \subseteq Nat

AddOp == Entity \X Component \X Row
NetworkOp == Entity \X (Peer \cup {Server})
UpdateOp == Entity \X Component \X Field \X Value

Packet == [ create  : SUBSET Entity,
            add     : SUBSET AddOp,
            network : SUBSET NetworkOp,
            update  : SUBSET UpdateOp,
            remove  : SUBSET ComponentKey,
            destroy : SUBSET Entity ]

\* What a replica keeps: the server's entities, records and owners.
EmptyReplica == [ entities |-> {WorldEntity},
                  storage  |-> [e \in Entity |-> NoRecords],
                  owner    |-> [e \in Entity |-> Server] ]

-----------------------------------------------------------------------------
\* Encoding.  Values and owners are read when the packet is written, so they
\* are current however old the mark is.

\* Every record that an operation reads must exist, or encoding throws.
Encodable(ops, store) ==
  /\ ops.added \subseteq RecordsIn(store)
  /\ \A b \in ops.updated : <<b[1], b[2]>> \in RecordsIn(store)

Encode(ops, store, owners) ==
  [ create  |-> ops.created,
    add     |-> {<<k[1], k[2], store[k[1]][k[2]]>> : k \in ops.added},
    network |-> {<<e, owners[e]>> : e \in ops.network},
    update  |-> {<<b[1], b[2], b[3], store[b[1]][b[2]][b[3]]>> : b \in ops.updated},
    remove  |-> ops.removed,
    destroy |-> ops.destroyed ]

HasOps(ops) == ops # NothingDirty

\* encodeDirty leaves out what is not replicated.
ReplicatedOps(ops) ==
  [ops EXCEPT
     !.created = @ \cap replicated,
     !.network = @ \cap replicated,
     !.added   = {k \in @ : k[1] \in replicated /\ k[2] \in ReplicatedComponent},
     !.updated = {b \in @ : b[1] \in replicated /\ b[2] \in ReplicatedComponent},
     !.removed = {k \in @ : k[2] \in ReplicatedComponent}]

-----------------------------------------------------------------------------
\* Applying a packet.  An operation that throws ends the packet: what came
\* before it stays applied, what comes after it is lost.

Before(x, y) == x[1] < y[1] \/ (x[1] = y[1] /\ x[2] < y[2])

\* The operations of S that come before every operation of Bad.
UpTo(S, Bad) == {x \in S : \A y \in Bad : Before(x, y)}

ApplyCreate(r, created) ==
  [r EXCEPT !.entities = @ \cup created]

\* An added record replaces the values of one already there, and creates the
\* entity if need be.
ApplyAdd(r, added) ==
  [r EXCEPT
     !.entities = @ \cup {a[1] : a \in added},
     !.storage  = [e \in Entity |-> [c \in Component |->
                     IF \E a \in added : a[1] = e /\ a[2] = c
                     THEN (CHOOSE a \in added : a[1] = e /\ a[2] = c)[3]
                     ELSE @[e][c]]]]

ApplyNetwork(r, network) ==
  [r EXCEPT
     !.entities = @ \cup {n[1] : n \in network},
     !.owner    = [e \in Entity |->
                     IF \E n \in network : n[1] = e
                     THEN (CHOOSE n \in network : n[1] = e)[2]
                     ELSE @[e]]]

ApplyUpdate(r, update) ==
  [r EXCEPT
     !.storage = [e \in Entity |-> [c \in Component |->
                    IF @[e][c] = Absent
                    THEN Absent
                    ELSE [f \in Field |->
                            IF \E u \in update : u[1] = e /\ u[2] = c /\ u[3] = f
                            THEN (CHOOSE u \in update :
                                    u[1] = e /\ u[2] = c /\ u[3] = f)[4]
                            ELSE @[e][c][f]]]]]

ApplyRemove(r, removed) ==
  [r EXCEPT !.storage = [e \in Entity |-> [c \in Component |->
                           IF <<e, c>> \in removed THEN Absent ELSE @[e][c]]]]

\* Mutant: the owner of a destroyed entity is read without its default.
ApplyDestroyUnowns(r, destroyed) ==
  [r EXCEPT !.entities = @ \ destroyed,
            !.storage  = [e \in Entity |->
                            IF e \in destroyed THEN NoRecords ELSE @[e]],
            !.owner    = [e \in Entity |->
                            IF e \in destroyed THEN Absent ELSE @[e]]]

ApplyDestroy(r, destroyed) ==
  [r EXCEPT !.entities = @ \ destroyed,
            !.storage  = [e \in Entity |->
                            IF e \in destroyed THEN NoRecords ELSE @[e]],
            !.owner    = [e \in Entity |->
                            IF e \in destroyed THEN Server ELSE @[e]]]

\* Replica r after packet p.  The schema of a local component is unknown to
\* the receiver; an update needs its record.
Apply(r, p) ==
  LET unknown == {a \in p.add : a[2] \in LocalComponent}
      placed  == ApplyAdd(ApplyCreate(r, p.create), UpTo(p.add, unknown))
      owned   == ApplyNetwork(placed, p.network)
      orphan  == {u \in p.update : \/ owned.storage[u[1]][u[2]] = Absent
                                   \/ u[2] \in LocalComponent}
      updated == ApplyUpdate(owned, UpTo(p.update, orphan))
      stuck   == {k \in p.remove : k[2] \in LocalComponent}
      removed == ApplyRemove(updated, UpTo(p.remove, stuck))
  IN  IF unknown # {} THEN placed
      ELSE IF orphan # {} THEN updated
      ELSE IF stuck # {} THEN removed
      ELSE ApplyDestroy(removed, p.destroy)

\* Replica r after the packets of s, the first one first.
Replayed(r, s) ==
  LET world[i \in 0..Len(s)] == IF i = 0 THEN r ELSE Apply(world[i - 1], s[i])
  IN  world[Len(s)]
=============================================================================
