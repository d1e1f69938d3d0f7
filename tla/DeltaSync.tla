----------------------------- MODULE DeltaSync -----------------------------
(***************************************************************************)
(* A world and one replica fed with its deltas: every snapshot is what     *)
(* encodeDirty writes, nothing is lost or reordered, and nobody else       *)
(* clears the dirty graph.  This is the contract of the graph itself,      *)
(* before peers, visibility and full snapshots come in (Replication).      *)
(***************************************************************************)
EXTENDS Snapshot

VARIABLE mirror   \* the replica

vars == <<worldVars, mirror>>

Init ==
  /\ WorldInit
  /\ mirror = EmptyReplica

\* encodeDirty: encode what is dirty and replicated, and on success clear
\* everything that was collected.  The replica applies the packet.
EncodeDirty ==
  LET ops == ReplicatedOps(dirty)
  IN  /\ dirty # NothingDirty
      /\ Encodable(ops, storage)
      /\ mirror' = Apply(mirror, Encode(ops, storage, owner))
      /\ dirty' = ClearWritten(dirty, dirty)
      /\ UNCHANGED <<entities, storage, replicated, owner, nextId, detached>>

Next ==
  \/ EncodeDirty
  \/ Edit /\ UNCHANGED mirror

Spec == Init /\ [][Next]_vars

-----------------------------------------------------------------------------

\* What a replica should hold: the replicated entities with their replicated
\* records and owners.  (The world entity is always there.)
ReplicatedView ==
  [ entities |-> replicated \cup {WorldEntity},
    storage  |-> [e \in Entity |-> [c \in Component |->
                    IF c \in ReplicatedComponent THEN storage[e][c] ELSE Absent]],
    owner    |-> [e \in Entity |-> IF e \in replicated THEN owner[e] ELSE Server] ]

\* The graph is a complete account of the change: one more delta would bring
\* the replica exactly to the state of the world.  A mark that is dropped, or
\* two marks that cancel out when they should not, leave a difference that
\* no later delta repairs.
DeltaComplete ==
  LET ops == ReplicatedOps(dirty)
  IN  Encodable(ops, storage) =>
        Apply(mirror, Encode(ops, storage, owner)) = ReplicatedView

\* A delta is an atomic transfer of the replicated view, and with nothing
\* marked there is nothing to transfer.
Promise == INSTANCE Mirroring WITH
             State   <- [ entities : SUBSET Entity,
                          storage  : [Entity -> [Component -> Row \cup {Absent}]],
                          owner    : [Entity -> Peer \cup {Server}] ],
             source  <- ReplicatedView,
             copy    <- mirror,
             pending <- dirty # NothingDirty

ImplementsMirroring == Promise!Spec

\* What is marked can always be encoded: encodeDirty never throws.
DirtyEncodable == Encodable(ReplicatedOps(dirty), storage)
=============================================================================
