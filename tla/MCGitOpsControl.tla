---------------------------- MODULE MCGitOpsControl ----------------------------
(* Small instances of GitOpsControl for TLC. *)
EXTENDS GitOpsControl

CONSTANTS left, right

Automatic == {[dry |-> FALSE, capture |-> FALSE]}
ApplyingOrDry == Automatic \cup {[dry |-> TRUE, capture |-> FALSE]}

\* At most any of the events named, each as often as said.
Bounded(any, bounds) ==
  [e \in Events |-> IF e = "any" THEN any
                    ELSE IF e \in DOMAIN bounds THEN bounds[e] ELSE 0]

\* Two deliveries, recorded and taken in every order, around a Roll Back.
TwoDeliveries == Bounded(3, [delivery |-> 2, rollback |-> 1])
\* Presses and the flag file, around a Roll Back, with everything that fails.
Presses == Bounded(2, [press |-> 2, rollback |-> 1, fault |-> 1, stop |-> 1, core |-> 1])
\* One delivery among presses and a stop.
OneDelivery == Bounded(2, [delivery |-> 1, press |-> 1, rollback |-> 1, stop |-> 1])

Mixed == {TwoDeliveries, Presses, OneDelivery}
OneRollback == {TwoDeliveries}
=============================================================================
