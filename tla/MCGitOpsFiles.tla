----------------------------- MODULE MCGitOpsFiles -----------------------------
(* Small instances of GitOpsFiles for TLC. *)
EXTENDS GitOpsFiles, TLC

CONSTANTS a, b, x, y, z

TwoPaths == {a, b}

TwoWay == {[dry |-> FALSE, capture |-> TRUE]}

Bound(edit, push, force, fault, stop, any) ==
  [e \in Events |-> CASE e = "edit" -> edit [] e = "push" -> push
                      [] e = "force" -> force [] e = "fault" -> fault
                      [] e = "stop" -> stop [] e = "any" -> any]

Symmetry == Permutations(TwoPaths) \cup Permutations(Contents)

OnePath == {a}
BothWays == [dry : {FALSE}, capture : BOOLEAN]

Mixed == Bound(2, 1, 1, 1, 1, 3)
EditsAndAPush == Bound(2, 1, 0, 0, 0, 3)
AnyTwo == Bound(1, 1, 0, 1, 1, 2)
=============================================================================
