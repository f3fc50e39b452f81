------------------------------ MODULE GitOpsAgent ------------------------------
(***************************************************************************)
(* What the GitOps agent promises about its operations, without the        *)
(* goroutines, locks and files that keep the promise: it does one thing at *)
(* a time; on its own it only applies a plan that a check has just made    *)
(* from the remote; and once the owner has rolled back, it applies nothing *)
(* on its own until the owner resumes.  A stop of the process forgets a    *)
(* Roll Back only if it was not on record.  GitOpsControl implements this. *)
(***************************************************************************)

CONSTANTS
  Unattended,  \* what starts a check that may go on to apply: the timer, the webhook
  Nobody       \* no operation is under way

VARIABLES
  doing,     \* what the operation under way is at
  by,        \* what started it
  stands,    \* a Roll Back stands: nobody has resumed since
  recorded   \* whether that would survive a stop of the process

operation == <<doing, by>>
avars == <<doing, by, stands, recorded>>

Doing == {"nothing", "checking", "checked", "applying", "rolling back", "ending"}

Init == doing = "nothing" /\ by = Nobody /\ stands = FALSE /\ recorded \in BOOLEAN

Start(what, who) ==
  /\ doing = "nothing" /\ doing' = what
  /\ by' = who
  /\ UNCHANGED <<stands, recorded>>

GoOn(from, to) ==
  /\ doing = from /\ doing' = to
  /\ UNCHANGED <<by, stands, recorded>>

Check == \E who \in Unattended \cup {"check"} : Start("checking", who)

\* The remote answered, and whoever started the check may apply what it says;
\* any other check only shows it.
Checked == \/ by \in Unattended /\ GoOn("checking", "checked")
           \/ GoOn("checking", "ending")

ApplyUnattended == ~stands /\ GoOn("checked", "applying")

OwnerApplies == Start("applying", "apply")
OwnerRollsBack == Start("rolling back", "rollback")

\* The files are back: from here on the Roll Back stands.
Restored ==
  /\ doing = "rolling back" /\ stands' = TRUE
  /\ UNCHANGED <<operation, recorded>>

Finished == GoOn("applying", "ending") \/ GoOn("rolling back", "ending")

End ==
  /\ doing \in {"checked", "ending"} /\ doing' = "nothing"
  /\ by' = Nobody
  /\ UNCHANGED <<stands, recorded>>

Resume == stands' = FALSE /\ UNCHANGED <<operation, recorded>>

Record == recorded' \in BOOLEAN /\ UNCHANGED <<operation, stands>>

NewProcess ==
  /\ doing' = "nothing" /\ by' = Nobody
  /\ stands' = (stands /\ recorded)
  /\ UNCHANGED recorded

Next ==
  \/ Check \/ Checked \/ ApplyUnattended \/ OwnerApplies
  \/ OwnerRollsBack \/ Restored \/ Finished \/ End
  \/ Resume \/ Record \/ NewProcess

Spec == Init /\ [][Next]_avars
=============================================================================
