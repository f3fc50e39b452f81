---------------------------- MODULE PlanSequences ----------------------------
(***************************************************************************)
(* How the layers of the GitOps agent put plans together and take them     *)
(* apart: a planner loops over what a manifest or the state lists and      *)
(* appends what each item needs; an applier, a journal and the list of     *)
(* what is still pending keep some of a list, in its order.                *)
(***************************************************************************)
EXTENDS Integers, Sequences, SequencesExt

\* What F yields of each member of seq, one after the other.
Over(seq, F(_)) == FlattenSeq([i \in DOMAIN seq |-> F(seq[i])])

\* The members of seq at the positions in S.
Select(seq, S) == FlattenSeq([i \in DOMAIN seq |-> IF i \in S THEN <<seq[i]>> ELSE <<>>])
=============================================================================
