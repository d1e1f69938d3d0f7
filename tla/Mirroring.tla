----------------------------- MODULE Mirroring -----------------------------
(***************************************************************************)
(* What incremental snapshots promise, without a dirty graph: a source     *)
(* that changes at will and a copy.  One transfer makes the copy equal to  *)
(* the source, however many changes came before it, and when nothing is    *)
(* pending there is nothing to transfer.                                   *)
(***************************************************************************)
CONSTANT State

VARIABLES source, copy,
          pending   \* is there something to transfer?

vars == <<source, copy, pending>>

Init ==
  /\ source \in State
  /\ copy = source
  /\ pending = FALSE

\* Changes may cancel out, but what is not pending must be equal.
Change ==
  /\ source' \in State
  /\ pending' \in BOOLEAN
  /\ ~pending' => source' = copy
  /\ UNCHANGED copy

Transfer ==
  /\ pending
  /\ copy' = source
  /\ pending' = FALSE
  /\ UNCHANGED source

Next == Change \/ Transfer

Spec == Init /\ [][Next]_vars
=============================================================================
