------------------------------ MODULE GitOpsFiles ------------------------------
(***************************************************************************)
(* The file layer of the GitOps agent (ha_gitops_agent/internal/recon with *)
(* differ, gitsync and applier): a cycle compares the tip of the tracked   *)
(* branch with the live configuration, captures the files that moved only  *)
(* live onto the branch, refuses the ones that moved on both sides, and    *)
(* applies the rest; Roll Back restores what the last apply overwrote.     *)
(*                                                                         *)
(* opLock admits one operation at a time, so the agent is one process,     *)
(* pc.  Everybody else interleaves with each of its steps: the owner and   *)
(* Home Assistant edit the live files, others push to the branch, requests *)
(* fail, and the process stops and starts again.  What starts a cycle, and *)
(* whether a pause keeps it from applying, is left open here.              *)
(***************************************************************************)
EXTENDS Naturals, Sequences

CONSTANTS
  Paths,       \* the files
  Contents,    \* what a file can say
  Gone,        \* the file is absent
  Large,       \* contents above maxCompareBytes
  Literal,     \* contents holding a literal secret, never pushed
  Options,     \* [dry : dry_run, capture : capture_live_changes]
  Starts,      \* "fresh" (never applied), "settled" (applied and in sync)
  Budget       \* how often each bounded event happens

\* The bounded events: an edit of a live file, a push to the branch, a push
\* that rewrites it, a failing write or request, a stop.  "any" bounds them
\* together.
Events == {"edit", "push", "force", "fault", "stop", "any"}

File == Contents \cup {Gone}

ASSUME ConstantsAssumption ==
  /\ Gone \notin Contents
  /\ Large \subseteq Contents
  /\ Literal \subseteq Contents
  /\ Options \subseteq [dry : BOOLEAN, capture : BOOLEAN]
  /\ Starts \subseteq {"fresh", "settled"}
  /\ Budget \in [Events -> Nat]

VARIABLES
  commit,     \* every commit ever pushed: its tree and its ancestors
  tip,        \* the tracked branch on the remote
  live,       \* the live files
  budget,     \* how many more of each event may happen
  disk,       \* state.json
  opts,       \* the options this process started with
  plan,       \* the published plan: r.lastSHA and r.pending
  held,       \* the plan the timer may not retry yet
  conflicts,  \* r.conflicts, the mirror of the conflict record
  point,      \* the stash Roll Back restores: r.lastStashDir
  pc,         \* where the operation holding opLock is
  op,         \* what that operation has in hand
  agreed      \* history: what the branch and the live file last both said

remote == <<commit, tip>>
memory == <<opts, plan, held, conflicts, point>>
vars == <<remote, live, budget, disk, memory, pc, op, agreed>>

-----------------------------------------------------------------------------
(* Data *)

Commits == 1..Len(commit)
Tree(c) == commit[c].tree
Ancestors(c) == commit[c].anc    \* c itself included

Trees == [Paths -> File]

\* For the files an apply touches, what they said before it; for the files a
\* plan changes, what they said when it was made.
Some == UNION {[S -> File] : S \in SUBSET Paths}
None == [p \in {} |-> Gone]

NoPlan == [sha |-> 0, seen |-> None]
Changes(plan_) == DOMAIN plan_.seen

\* state.json: the commits it names (0: none), and what it lists.
NewState == [good |-> 0, capture |-> 0, captured |-> {}, manifest |-> {},
             conflicted |-> {}, stash |-> None]

NoOp == [sha |-> 0, seen |-> None,                            \* planning
         apply |-> {}, capture |-> {}, conflict |-> {},       \* the routing
         onto |-> 0, retry |-> FALSE, staged |-> {},          \* a capture
         tree |-> [p \in Paths |-> Gone], pushed |-> 0,
         stash |-> None, written |-> {}]                      \* an apply

Spend(e) == /\ budget[e] > 0 /\ budget["any"] > 0
            /\ budget' = [budget EXCEPT ![e] = @ - 1, !["any"] = @ - 1]
Spent(e, happened) == IF happened THEN Spend(e) ELSE UNCHANGED budget

\* The branch says t and the machine l: where they say the same, they agree.
Agree(t, l) ==
  agreed' = [p \in Paths |-> IF t[p] = l[p] THEN {l[p]} ELSE agreed[p]]

\* The agent has made one side say of these files what the other said.
Transfer(files, t) ==
  agreed' = [p \in Paths |-> IF p \in files THEN {t[p]} ELSE agreed[p]]

\* A commit with this tree becomes the tip of the branch.
Advance(tree, parents) ==
  LET new == Len(commit) + 1
  IN /\ commit' = Append(commit, [tree |-> tree, anc |-> parents \cup {new}])
     /\ tip' = new

-----------------------------------------------------------------------------
(* Initial states *)

\* A fresh agent meets files nobody has put in the repository; a settled one
\* has applied the tip.
Init ==
  \E start \in Starts, t \in Trees, l \in Trees :
    /\ start = "settled" => l = t
    /\ commit = <<[tree |-> t, anc |-> {1}]>>
    /\ tip = 1
    /\ live = l
    /\ disk = IF start = "settled"
              THEN [NewState EXCEPT !.good = 1,
                                    !.manifest = {p \in Paths : t[p] # Gone}]
              ELSE NewState
    /\ agreed = [p \in Paths |-> IF t[p] = l[p] THEN {l[p]} ELSE {}]
    /\ opts \in Options
    /\ budget = Budget
    /\ plan = NoPlan /\ held = NoPlan /\ conflicts = {} /\ point = None
    /\ pc = "idle" /\ op = NoOp

-----------------------------------------------------------------------------
(* Everybody else *)

\* The owner or Home Assistant creates, edits or removes a live file.
LiveEdit ==
  /\ Spend("edit")
  /\ \E p \in Paths, c \in File : /\ c # live[p]
                                  /\ live' = [live EXCEPT ![p] = c]
  /\ Agree(Tree(tip), live')
  /\ UNCHANGED <<remote, disk, memory, pc, op>>

\* Somebody pushes a commit onto the branch.
Push ==
  /\ Spend("push")
  /\ \E t \in Trees \ {Tree(tip)} : /\ Advance(t, Ancestors(tip))
                                   /\ Agree(t, live)
  /\ UNCHANGED <<live, disk, memory, pc, op>>

\* Somebody rewrites the branch: its old commits are no longer ancestors.
ForcePush ==
  /\ Spend("force")
  /\ \E t \in Trees : /\ Advance(t, {})
                      /\ Agree(t, live)
  /\ UNCHANGED <<live, disk, memory, pc, op>>

-----------------------------------------------------------------------------
(* The plan of a cycle *)

\* A mutant of Drift: a file that left the repository stays.
DriftOfTracked(t, l, manifest) == {p \in Paths : t[p] # Gone /\ l[p] # t[p]}

\* What differ.Compute reports: a tracked file the machine does not say, and
\* a file the agent once wrote that is no longer tracked and still there.
Drift(t, l, manifest) ==
  {p \in Paths : \/ t[p] # Gone /\ l[p] # t[p]
                 \/ t[p] = Gone /\ l[p] # Gone /\ p \in manifest}

\* The timer, a webhook or the Check Now button: fetch, and check the tip out.
Fetch ==
  /\ pc = "idle"
  /\ pc' = "compute" /\ op' = [NoOp EXCEPT !.sha = tip]
  /\ UNCHANGED <<remote, live, budget, disk, memory, agreed>>

\* The remote does not answer: the plan is dropped.  (A short outage is
\* ridden out instead: everything stays as it is.)
CycleFails ==
  /\ pc = "compute"
  /\ Spend("fault")
  /\ plan' = NoPlan
  /\ pc' = "idle" /\ op' = NoOp
  /\ UNCHANGED <<remote, live, disk, opts, held, conflicts, point, agreed>>

Publish(sha, seen) == plan' = [sha |-> sha, seen |-> seen]

\* Nothing drifts, or capture is off: the conflict record is cleared and all
\* of the drift is the plan.
PlanAll(seen) ==
  /\ \E saved \in BOOLEAN :
       /\ Spent("fault", ~saved)
       /\ ~saved => disk.conflicted # {}
       /\ disk' = IF saved THEN [disk EXCEPT !.conflicted = {}] ELSE disk
  /\ conflicts' = disk'.conflicted
  /\ Publish(op.sha, seen)
  /\ pc' = "decide" /\ UNCHANGED op

\* Compare the checked-out commit with the live files.
Compute ==
  /\ pc = "compute"
  /\ LET drift == Drift(Tree(op.sha), live, disk.manifest)
         seen == [p \in drift |-> live[p]]
     IN IF opts.capture /\ drift # {}
        THEN /\ op' = [op EXCEPT !.seen = seen]
             /\ conflicts' = disk.conflicted
             /\ pc' = "classify"
             /\ UNCHANGED <<budget, disk, plan>>
        ELSE PlanAll(seen)
  /\ UNCHANGED <<remote, live, opts, held, point, agreed>>

(* Which side moved *)

Usable(base, sha) == base # 0 /\ base \in Ancestors(sha)

\* The merge base recorded for p, 0 if there is none: the capture commit for
\* what was captured, else the commit last applied.
BaseOf(p, sha) ==
  IF p \in disk.captured /\ Usable(disk.capture, sha) THEN disk.capture
  ELSE IF Usable(disk.good, sha) THEN disk.good ELSE 0

\* What classify is told about a drifting file.  The kind is what Compute
\* saw; the live file is read again.
Facts(p) ==
  LET base == BaseOf(p, op.sha)
      was == IF base = 0 THEN Gone ELSE Tree(base)[p]
  IN [kind |-> IF Tree(op.sha)[p] = Gone THEN "delete"
               ELSE IF op.seen[p] = Gone THEN "add" ELSE "update",
      baseKnown |-> base # 0,
      baseTracks |-> was # Gone,
      repoMoved |-> Tree(op.sha)[p] # was,
      liveIsBase |-> was # Gone /\ live[p] = was,
      liveGone |-> live[p] = Gone,
      agentWroteIt |-> p \in disk.manifest]

\* Only the live side moved.
ToCapture(f) ==
  /\ f.baseKnown /\ f.baseTracks /\ ~f.repoMoved
  /\ \/ f.kind = "update" /\ ~f.liveIsBase
     \/ f.kind = "add" /\ f.liveGone /\ f.agentWroteIt

\* A mutant of ToConflict: a file that left the repository is always removed.
ToConflictUnlessRemoved(f) ==
  /\ f.baseKnown
  /\ \/ f.kind = "add" /\ f.liveGone /\ f.baseTracks /\ f.agentWroteIt /\ f.repoMoved
     \/ f.kind = "update" /\ (f.baseTracks => f.repoMoved /\ ~f.liveIsBase)

\* Both sides moved.
ToConflict(f) ==
  /\ f.baseKnown
  /\ \/ f.kind = "delete" /\ ~f.liveIsBase
     \/ f.kind = "add" /\ f.liveGone /\ f.baseTracks /\ f.agentWroteIt /\ f.repoMoved
     \/ f.kind = "update" /\ (f.baseTracks => f.repoMoved /\ ~f.liveIsBase)

\* Neither side moved, or nobody can tell: the file changed while it was read.
ToDefer(f) ==
  /\ f.baseKnown
  /\ \/ f.kind = "add" /\ ~f.liveGone
     \/ f.kind = "update" /\ f.baseTracks /\ ~f.repoMoved /\ f.liveIsBase

\* A mutant of Standing: every cycle classifies afresh.
StandingForgotten(p) == FALSE

\* A file on the conflict record stays a conflict; one too large to compare
\* waits; what is no case above is applied.
Standing(p) == p \in disk.conflicted

Waits(p) == live[p] \in Large /\ BaseOf(p, op.sha) # 0

Route(drift, standing) ==
  LET fresh == {p \in drift \ standing : ~Waits(p)}
      captured == {p \in fresh : ToCapture(Facts(p))}
      both == {p \in fresh : ToConflict(Facts(p))}
      later == {p \in fresh : ToDefer(Facts(p))}
  IN op' = [op EXCEPT !.capture = captured,
                      !.conflict = both \cup standing,
                      !.apply = fresh \ (captured \cup both \cup later)]

Classify ==
  /\ pc = "classify"
  /\ LET drift == DOMAIN op.seen
     IN Route(drift, {p \in drift : Standing(p)})
  /\ pc' = IF op'.capture # {} THEN "fetch" ELSE "conclude"
  /\ UNCHANGED <<remote, live, budget, disk, memory, agreed>>

\* The base cannot be compared with the tip: everything not on record is
\* applied.
ClassifyBlindly ==
  /\ pc = "classify"
  /\ Spend("fault")
  /\ op' = [op EXCEPT !.conflict = {p \in DOMAIN op.seen : Standing(p)},
                      !.apply = {p \in DOMAIN op.seen : ~Standing(p)}]
  /\ pc' = "conclude"
  /\ UNCHANGED <<remote, live, disk, memory, agreed>>

-----------------------------------------------------------------------------
(* Capture *)

\* A mutant of Unmoved: only the fast-forward check of the push is left.
UnmovedUnchecked(files, from, to) == files

\* What the branch did not touch between two commits.
Unmoved(files, from, to) == {p \in files : Tree(from)[p] = Tree(to)[p]}

\* Fetch again and refuse the files that were pushed to since they were
\* classified (or, after a lost race, since the last attempt).
CaptureFetch ==
  /\ pc = "fetch"
  /\ LET keep == Unmoved(op.capture, IF op.retry THEN op.onto ELSE op.sha, tip)
     IN /\ op' = [op EXCEPT !.capture = keep, !.onto = tip]
        /\ pc' = IF keep # {} THEN "stage" ELSE "conclude"
  /\ UNCHANGED <<remote, live, budget, disk, memory, agreed>>

\* Read the live files again and commit them: a literal secret is held back,
\* an absent file becomes a removal.
Stage ==
  /\ pc = "stage"
  /\ LET staged == {p \in op.capture : /\ live[p] \notin Literal
                                       /\ live[p] # Gone \/ Tree(op.onto)[p] # Gone}
         tree == [p \in Paths |-> IF p \in staged THEN live[p] ELSE Tree(op.onto)[p]]
     IN /\ op' = [op EXCEPT !.staged = staged, !.tree = tree]
        /\ pc' = IF tree # Tree(op.onto) THEN "push" ELSE "conclude"
  /\ UNCHANGED <<remote, live, budget, disk, memory, agreed>>

FastForward == tip \in Ancestors(op.onto)

PushCapture ==
  /\ pc = "push"
  /\ FastForward
  /\ Advance(op.tree, Ancestors(op.onto))
  /\ op' = [op EXCEPT !.pushed = tip']
  /\ Transfer(op.staged, op.tree)
  /\ pc' = "conclude"
  /\ UNCHANGED <<live, budget, disk, memory>>

\* The answer to the push is lost: it is on the branch, and nobody knows.
PushAnswerLost ==
  /\ pc = "push"
  /\ FastForward
  /\ Spend("fault")
  /\ Advance(op.tree, Ancestors(op.onto))
  /\ Transfer(op.staged, op.tree)
  /\ pc' = "conclude"
  /\ UNCHANGED <<live, disk, memory, op>>

\* Somebody else pushed first: once more, or give up.
PushRejected ==
  /\ pc = "push"
  /\ ~FastForward
  /\ op' = [op EXCEPT !.retry = TRUE]
  /\ pc' = IF op.retry THEN "conclude" ELSE "fetch"
  /\ UNCHANGED <<remote, live, budget, disk, memory, agreed>>

CaptureFails ==
  /\ pc \in {"fetch", "stage", "push"}
  /\ Spend("fault")
  /\ pc' = "conclude"
  /\ UNCHANGED <<remote, live, disk, memory, op, agreed>>

\* A mutant of Captured: nothing says what the capture commit is the base of.
CapturedUnlisted(state) ==
  IF op.pushed = 0 THEN state ELSE [state EXCEPT !.capture = op.pushed]

\* What the phase leaves in state.json: the capture commit is the base of
\* everything captured so far.
Captured(state) ==
  IF op.pushed = 0 THEN state
  ELSE [state EXCEPT !.capture = op.pushed, !.captured = @ \cup op.staged]

Concluded(state) == [Captured(state) EXCEPT !.conflicted = op.conflict]

\* One save for the whole phase, whose failure is only logged; then the
\* residual plan is published.
Conclude ==
  /\ pc = "conclude"
  /\ \E saved \in BOOLEAN :
       /\ Spent("fault", ~saved)
       /\ ~saved => Concluded(disk) # disk
       /\ disk' = IF saved THEN Concluded(disk) ELSE disk
  /\ conflicts' = op.conflict
  /\ Publish(op.sha, [p \in op.apply |-> op.seen[p]])
  /\ pc' = "decide"
  /\ UNCHANGED <<remote, live, opts, held, point, op, agreed>>

(* Apply *)

\* The end of Check Now, and of a cycle that does not apply: dry_run, nothing
\* to apply, a plan on hold, a pause or a shutdown meanwhile.
EndCycle ==
  /\ pc = "decide"
  /\ pc' = "idle" /\ op' = NoOp
  /\ UNCHANGED <<remote, live, budget, disk, memory, agreed>>

StartApply ==
  /\ pc = "decide"
  /\ ~opts.dry
  /\ Changes(plan) # {} /\ plan # held
  /\ pc' = "stash" /\ op' = NoOp
  /\ UNCHANGED <<remote, live, budget, disk, memory, agreed>>

Pending == Changes(plan) \ conflicts

\* The Apply button, there when the plan shows something to apply.  It ignores
\* dry_run and a hold.
PressApply ==
  /\ pc = "idle"
  /\ Pending # {}
  /\ pc' = "stash" /\ op' = NoOp
  /\ UNCHANGED <<remote, live, budget, disk, memory, agreed>>

Stash ==
  /\ pc = "stash"
  /\ op' = [op EXCEPT !.stash = [p \in Pending |-> live[p]]]
  /\ pc' = IF Pending # {} THEN "write" ELSE "record"
  /\ UNCHANGED <<remote, live, budget, disk, memory, agreed>>

StashFails ==
  /\ pc = "stash"
  /\ Spend("fault")
  /\ held' = plan
  /\ pc' = "idle" /\ op' = NoOp
  /\ UNCHANGED <<remote, live, disk, opts, plan, conflicts, point, agreed>>

\* The repository's version of one file is written over the live one, or the
\* live one removed.
WriteFile ==
  /\ pc = "write"
  /\ \E p \in DOMAIN op.stash \ op.written :
       /\ live' = [live EXCEPT ![p] = Tree(plan.sha)[p]]
       /\ op' = [op EXCEPT !.written = @ \cup {p}]
       /\ Transfer({p}, live')
  /\ pc' = IF op'.written = DOMAIN op.stash THEN "check" ELSE "write"
  /\ UNCHANGED <<remote, budget, disk, memory>>

CheckConfig ==
  /\ pc = "check"
  /\ pc' = "record"
  /\ UNCHANGED <<remote, live, budget, disk, memory, op, agreed>>

\* A write fails, the check says no, or Core does not come back.
ApplyFails ==
  /\ pc \in {"write", "check"}
  /\ Spend("fault")
  /\ pc' = "undo"
  /\ UNCHANGED <<remote, live, disk, memory, op, agreed>>

\* Files of a stash are put back, except lost.
Restored(stash, lost) ==
  [p \in Paths |-> IF p \in DOMAIN stash \ lost THEN stash[p] ELSE live[p]]

\* The apply is undone and its plan held.  What could not be undone is left to
\* Roll Back; that this survives a restart takes a save, which may fail too.
Undo ==
  /\ pc = "undo"
  /\ \E lost \in SUBSET DOMAIN op.stash :
       /\ Spent("fault", lost # {})
       /\ live' = Restored(op.stash, lost)
       /\ point' = IF lost = {} THEN point ELSE op.stash
       /\ disk' \in {disk} \cup {[disk EXCEPT !.stash = op.stash] : p \in lost}
  /\ Agree(Tree(tip), live')
  /\ held' = plan
  /\ pc' = "idle" /\ op' = NoOp
  /\ UNCHANGED <<remote, opts, plan, conflicts>>

\* What an apply of files leaves in state.json: it is the base of everything,
\* it owns what it wrote, and the capture commit is no longer the base of that.
Applied(state, files) ==
  LET tree == Tree(plan.sha)
      kept == state.captured \ files
  IN [state EXCEPT
        !.good = plan.sha,
        !.manifest = (@ \ files) \cup {p \in files : tree[p] # Gone},
        !.captured = kept,
        !.capture = IF kept = {} THEN 0 ELSE @,
        !.stash = IF files = {} THEN @ ELSE op.stash]

Record ==
  /\ pc = "record"
  /\ disk' = Applied(disk, DOMAIN op.stash)
  /\ point' = IF op.stash = None THEN point ELSE op.stash
  /\ conflicts' = disk.conflicted
  /\ Publish(plan.sha, None)
  /\ held' = NoPlan
  /\ pc' = "idle" /\ op' = NoOp
  /\ UNCHANGED <<remote, live, budget, opts, agreed>>

\* The files are live and the record of it is not.
RecordFails ==
  /\ pc = "record"
  /\ Spend("fault")
  /\ point' = IF op.stash = None THEN point ELSE op.stash
  /\ pc' = "idle" /\ op' = NoOp
  /\ UNCHANGED <<remote, live, disk, opts, plan, held, conflicts, agreed>>

\* A hold lasts an hour, then twice as long, up to a day.
HoldExpires ==
  /\ pc = "idle"
  /\ held # NoPlan
  /\ held' = NoPlan
  /\ UNCHANGED <<remote, live, budget, disk, opts, plan, conflicts, point, pc, op, agreed>>

\* The Roll Back button: every file of the last apply, except lost, says again
\* what it said before.  Then there is nothing to roll back to; forgetting it
\* on disk may fail, unnoticed.
Rollback ==
  /\ pc = "idle"
  /\ point # None
  /\ \E lost \in SUBSET DOMAIN point, saved \in BOOLEAN :
       /\ Spent("fault", lost # {} \/ ~saved)
       /\ live' = Restored(point, lost)
       /\ point' = IF lost = {} THEN None ELSE point
       /\ disk' = IF lost = {} /\ saved THEN [disk EXCEPT !.stash = None] ELSE disk
  /\ Agree(Tree(tip), live')
  /\ conflicts' = disk.conflicted
  /\ UNCHANGED <<remote, opts, plan, held, pc, op>>

\* The process stops or is killed at any point, and starts again, perhaps with
\* other options.
Restart ==
  /\ Spend("stop")
  /\ opts' \in Options
  /\ plan' = NoPlan /\ held' = NoPlan
  /\ conflicts' = disk.conflicted
  /\ point' = disk.stash
  /\ pc' = "idle" /\ op' = NoOp
  /\ UNCHANGED <<remote, live, disk, agreed>>

-----------------------------------------------------------------------------
(* The specification *)

Cycle == \/ Fetch \/ CycleFails \/ Compute \/ Classify \/ ClassifyBlindly
         \/ CaptureFetch \/ Stage \/ PushCapture \/ PushAnswerLost \/ PushRejected
         \/ CaptureFails \/ Conclude \/ EndCycle \/ StartApply
Apply == \/ Stash \/ StashFails \/ WriteFile \/ CheckConfig \/ ApplyFails
         \/ Undo \/ Record \/ RecordFails
Owner == PressApply \/ Rollback
Others == LiveEdit \/ Push \/ ForcePush \/ Restart \/ HoldExpires

Next == Cycle \/ Apply \/ Owner \/ Others
Spec == Init /\ [][Next]_vars

\* The timer comes round, and every step of an operation has a timeout; not
\* every cycle is a check or ends in a pause; a hold expires.
Fairness == /\ WF_vars(Cycle \/ Apply)
            /\ SF_vars(StartApply)
            /\ SF_vars(HoldExpires)
FairSpec == Spec /\ Fairness

-----------------------------------------------------------------------------
(* Properties *)

\* Every variable has its type; state.json names a capture commit exactly when
\* it lists captured files.
TypeOK ==
  /\ commit \in Seq([tree : Trees, anc : SUBSET Commits])
  /\ tip \in Commits
  /\ live \in Trees
  /\ budget \in [Events -> Nat]
  /\ disk \in [good : 0..Len(commit), capture : 0..Len(commit),
               captured : SUBSET Paths, manifest : SUBSET Paths,
               conflicted : SUBSET Paths, stash : Some]
  /\ disk.captured # {} <=> disk.capture # 0
  /\ opts \in Options
  /\ plan \in [sha : 0..Len(commit), seen : Some]
  /\ held \in [sha : 0..Len(commit), seen : Some]
  /\ conflicts \subseteq Paths
  /\ point \in Some
  /\ pc \in {"idle", "compute", "classify", "fetch", "stage", "push", "conclude",
             "decide", "stash", "write", "check", "undo", "record"}
  /\ op \in [sha : 0..Len(commit), seen : Some, apply : SUBSET Paths, capture : SUBSET Paths,
             conflict : SUBSET Paths, onto : 0..Len(commit), retry : BOOLEAN,
             staged : SUBSET Paths, tree : Trees, pushed : 0..Len(commit),
             stash : Some, written : SUBSET Paths]
  /\ agreed \in [Paths -> SUBSET File]

\* The files whose content on the branch this step replaces by the live one.
CapturePushed == pc = "push" /\ pc' = "conclude" /\ tip' # tip
Replaced == {p \in Paths : Tree(tip)'[p] # Tree(tip)[p]}

\* A capture replaces a file on the branch only where the live edit was made
\* on top of what the branch says: never a newer commit of somebody else
\* ("capturing would silently revert that newer commit", gitsync/capture.go).
CaptureKeepsNewerCommits ==
  [][CapturePushed => \A p \in Replaced : Tree(tip)[p] \in agreed[p]]_vars

\* The base recorded for p is what both sides last agreed on.
Honest(p) ==
  LET base == BaseOf(p, op.sha) IN base # 0 /\ Tree(base)[p] \in agreed[p]

\* The same, as long as the recorded base is honest: no push, lost race or
\* retry between the check and the capture makes it revert a newer commit.
CaptureOverBase ==
  [][CapturePushed => \A p \in Replaced : Honest(p) => Tree(tip)[p] \in agreed[p]]_vars

\* With capture on and an honest base, a cycle never plans to overwrite a live
\* file that was edited since it last agreed with the branch - unless git
\* could not even compare the base.
EditIsNotPlannedOver ==
  [][pc = "classify" /\ budget' = budget =>
       \A p \in op'.apply : Honest(p) => live[p] \in agreed[p] \cup {Gone}]_vars

\* A later capture commit is a valid base for everything captured before it:
\* it says of each file what both sides agreed on ("still carries every path
\* it captured, so it is a valid base for all of them", recon/capture.go).
LaterCaptureIsABase ==
  [][CapturePushed => \A p \in disk.captured : Tree(tip)'[p] \in agreed'[p]]_vars

\* While a file is on the conflict record, no apply writes it and no capture
\* pushes it, whatever happens to the other files, the base and the process.
ConflictStands ==
  [][\A p \in disk.conflicted :
       /\ CapturePushed => p \notin Replaced
       /\ pc = "write" /\ op'.written # op.written => p \notin op'.written]_vars

\* Nothing is left for the agent to do about p: both sides say the same, or it
\* may not decide, and then the conflict record says so or the file is one it
\* cannot carry to the branch.
Settled(p) ==
  IF live[p] = Tree(tip)[p] THEN p \notin disk.conflicted
  ELSE \/ p \in disk.conflicted
       \/ live[p] \in Large \cup Literal
       \/ Tree(tip)[p] = Gone /\ p \notin disk.manifest

\* Once nobody edits, pushes or rolls back any more and nothing fails, the two
\* sides agree, or the conflict record names the files on which they do not,
\* and only those.
Settles == <>[][~Rollback]_vars => <>[](\A p \in Paths : Settled(p))

=============================================================================
