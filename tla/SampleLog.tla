----------------------------- MODULE SampleLog -----------------------------
(***************************************************************************)
(* What a command stream promises over a channel that loses, repeats and   *)
(* reorders packets: samples that were issued are appended to a log, each  *)
(* at most once and in the order of their sequence numbers.  Samples may   *)
(* be skipped.  A source that starts anew numbers from 1 again.            *)
(***************************************************************************)
EXTENDS Naturals, Sequences, SequencesExt

CONSTANT Key

VARIABLES issued,   \* per stream, the samples the source has issued
          log       \* per stream, the samples handed to the handlers

Init ==
  /\ issued = [k \in Key |-> {}]
  /\ log = [k \in Key |-> << >>]

Issue(k) ==
  /\ issued[k] \subseteq issued'[k]
  /\ \A other \in Key \ {k} : issued'[other] = issued[other]
  /\ UNCHANGED log

Handle(k) ==
  /\ IsStrictPrefix(log[k], log'[k])
  /\ ToSet(log'[k]) \subseteq issued[k]
  /\ \A i, j \in 1..Len(log'[k]) : i < j => log'[k][i].sequence < log'[k][j].sequence
  /\ \A other \in Key \ {k} : log'[other] = log[other]
  /\ UNCHANGED issued

Next == \E k \in Key : Issue(k) \/ Handle(k)

Spec == Init /\ [][Next]_<<issued, log>>
=============================================================================
