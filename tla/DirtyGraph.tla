----------------------------- MODULE DirtyGraph -----------------------------
(***************************************************************************)
(* The dirty graph of one world: what changed since the last snapshot was  *)
(* written.  A graph is a record of six sets; each operator below is the   *)
(* state change of one method of class DirtyGraph.                         *)
(*                                                                         *)
(* A component key is <<entity, component>>; a dirty bit is                *)
(* <<entity, component, field>> (the code packs the bits of one key in a   *)
(* field mask).  MarkAdded, MarkUpdated and MarkRemoved take the SET of    *)
(* keys or bits that one call of the world touches: the code calls the     *)
(* method once for each and they do not interfere.                         *)
(*                                                                         *)
(* In this module and the others, a definition whose comment begins with   *)
(* "Mutant" is not part of the model: it is the definition that follows it *)
(* with a mistake, and a property is expected to notice it.                *)
(***************************************************************************)

CONSTANTS Entity,     \* entity ids
          Component,  \* component (schema) ids
          Field       \* field ids of a component

ComponentKey == Entity \X Component
DirtyBit == Entity \X Component \X Field

DirtyOps == [ created   : SUBSET Entity,
              network   : SUBSET Entity,
              added     : SUBSET ComponentKey,
              updated   : SUBSET DirtyBit,
              removed   : SUBSET ComponentKey,
              destroyed : SUBSET Entity ]

NothingDirty == [ created |-> {}, network |-> {}, added |-> {},
                  updated |-> {}, removed |-> {}, destroyed |-> {} ]

\* The keys or bits of S that belong to entity e.
OfEntity(S, e) == {x \in S : x[1] = e}

\* The bits of U whose component key is in K.
OfKeys(U, K) == {b \in U : <<b[1], b[2]>> \in K}

-----------------------------------------------------------------------------

MarkCreated(d, e) ==
  [d EXCEPT !.created   = @ \cup {e},
            !.network   = @ \ {e},
            !.updated   = @ \ OfEntity(@, e),
            !.destroyed = @ \ {e}]

\* K holds keys of entity e.
MarkAdded(d, e, K) ==
  IF e \in d.destroyed
  THEN d
  ELSE [d EXCEPT !.added = @ \cup K, !.removed = @ \ K]

\* A field delta is redundant for what is written in full anyway.
MarkUpdated(d, U) ==
  LET deltas == {b \in U : /\ b[1] \notin d.created \cup d.destroyed
                           /\ <<b[1], b[2]>> \notin d.added}
  IN  [d EXCEPT !.updated = @ \cup deltas]

\* Mutant: a creation is taken to carry the owner.
MarkNetworkChangedUnlessCreated(d, e) ==
  IF e \in d.destroyed \cup d.created
  THEN d
  ELSE [d EXCEPT !.network = @ \cup {e}]

MarkNetworkChanged(d, e) ==
  IF e \in d.destroyed
  THEN d
  ELSE [d EXCEPT !.network = @ \cup {e}]

\* Mutant: field deltas outlive the component.
MarkRemovedKeepsUpdates(d, K) ==
  [d EXCEPT !.added = @ \ K, !.removed = @ \cup (K \ d.added)]

\* Mutant: an unsent addition outlives the component.
MarkRemovedKeepsAdded(d, K) ==
  [d EXCEPT !.updated = @ \ OfKeys(@, K), !.removed = @ \cup (K \ d.added)]

\* An addition that was never written and the removal cancel out.
MarkRemoved(d, K) ==
  LET written == K \ d.added
  IN  [d EXCEPT !.added   = @ \ K,
                !.updated = @ \ OfKeys(@, written),
                !.removed = @ \cup written]

\* Mutant: an unsent component is taken for an unsent entity.
MarkDestroyedUnlessAdded(d, e) ==
  [d EXCEPT !.created   = @ \ {e},
            !.network   = @ \ {e},
            !.added     = @ \ OfEntity(@, e),
            !.updated   = @ \ OfEntity(@, e),
            !.removed   = @ \ OfEntity(@, e),
            !.destroyed = IF OfEntity(d.added, e) # {} THEN @ ELSE @ \cup {e}]

\* A creation that was never written and the destruction cancel out.
MarkDestroyed(d, e) ==
  [d EXCEPT !.created   = @ \ {e},
            !.network   = @ \ {e},
            !.added     = @ \ OfEntity(@, e),
            !.updated   = @ \ OfEntity(@, e),
            !.removed   = @ \ OfEntity(@, e),
            !.destroyed = IF e \in d.created THEN @ \ {e} ELSE @ \cup {e}]

\* Mutant: removals are not forgotten.
ClearWrittenButRemoved(d, ops) ==
  [ created   |-> d.created \ ops.created,
    network   |-> d.network \ ops.network,
    added     |-> d.added \ ops.added,
    updated   |-> d.updated \ ops.updated,
    removed   |-> d.removed,
    destroyed |-> d.destroyed \ ops.destroyed ]

\* Forget what ops says was encoded; marks made since stay.
ClearWritten(d, ops) ==
  [ created   |-> d.created \ ops.created,
    network   |-> d.network \ ops.network,
    added     |-> d.added \ ops.added,
    updated   |-> d.updated \ ops.updated,
    removed   |-> d.removed \ ops.removed,
    destroyed |-> d.destroyed \ ops.destroyed ]
=============================================================================
