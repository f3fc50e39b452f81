--------------------------- MODULE MCSecretsEngine ---------------------------
(* Small instances of SecretsEngine for TLC.                               *)
EXTENDS SecretsEngine, TLC

CONSTANTS v1, v2, k, h, secrets, packageSecrets, light, mqtt, core_ssh

MCSymmetry == Permutations({v1, v2})

\* Two integrations on one file, no add-on: light can reload, mqtt needs a
\* restart of Core.
ProtocolUses == [d \in {light, mqtt} |-> [file |-> secrets, keys |-> {k}]]
ProtocolBudget ==
  [e \in Events |-> CASE e \in {"hand", "addon"} -> 0
                      [] e = "any" -> 2
                      [] OTHER -> 1]

\* The same for the liveness property, without symmetry.
SettlesBudget ==
  [e \in Events |-> IF e \in {"hand", "addon", "outside"} THEN 0 ELSE 1]

\* For the runs that look for one behaviour.
OnlyOne(kind) == [e \in Events |-> IF e \in {kind, "any"} THEN 1 ELSE 0]
OutsideBudget == OnlyOne("outside")
StopBudget == OnlyOne("stop")
QuietBudget == [e \in Events |-> 0]

\* Two files: secrets.yaml, which core_ssh reads through its options, and one
\* beside a package whose light integration reads it; h is written by hand.
FilesUses == [c \in {light, core_ssh} |->
                [file |-> IF c = light THEN packageSecrets ELSE secrets,
                 keys |-> {k}]]
FilesBudget ==
  [e \in Events |-> CASE e = "outside" -> 0
                      [] e = "any" -> 2
                      [] OTHER -> 1]
=============================================================================
