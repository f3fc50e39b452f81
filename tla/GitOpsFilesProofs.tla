--------------------------- MODULE GitOpsFilesProofs ---------------------------
(***************************************************************************)
(* What TLAPS proves about GitOpsFiles, for every value of its constants:  *)
(* every variable keeps its type, a file on the conflict record is left    *)
(* alone, and neither a capture nor a plan overwrites what was changed     *)
(* since both sides agreed, as long as the recorded base is honest.        *)
(***************************************************************************)
EXTENDS GitOpsFiles, SequenceTheorems, TLAPS

USE ConstantsAssumption DEF ConstantsAssumption

Planning == {"compute", "classify", "fetch", "stage", "push", "conclude"}
Applying == {"write", "check", "undo", "record"}

-----------------------------------------------------------------------------
(* The invariants *)

\* The branch is at the newest commit, and ancestors are older commits.
BranchOK ==
  /\ tip = Len(commit)
  /\ \A c \in Commits : c \in Ancestors(c) /\ Ancestors(c) \subseteq 1..c

\* What an operation has in hand at each of its steps.
ControlOK ==
  /\ plan.sha = 0 => Changes(plan) = {}
  /\ pc \in Planning => op.sha # 0
  /\ pc = "stage" \/ pc = "push" \/ op.retry => op.onto # 0
  /\ pc = "push" \/ op.pushed # 0 => op.staged # {}
  /\ op.pushed # 0 => pc \in {"conclude", "decide"}
  /\ op.apply \subseteq DOMAIN op.seen
  /\ pc \in {"compute", "classify"} => op.apply = {} /\ op.capture = {} /\ ~op.retry
  /\ pc \notin Applying => op.stash = None
  /\ DOMAIN op.stash \subseteq Pending
  /\ op.written \subseteq DOMAIN op.stash

\* Nothing in hand and nothing that Apply would write is on the conflict
\* record, even when the record could not be saved.
RecordOK ==
  /\ Pending \cap disk.conflicted = {}
  /\ pc \in {"fetch", "stage", "push", "conclude"} =>
       (op.apply \cup op.capture) \cap disk.conflicted = {}
  /\ pc = "push" => op.staged \cap disk.conflicted = {}

\* What is being captured has not moved on the branch since its base.
CaptureOK ==
  /\ pc \in {"fetch", "stage", "push"} =>
       \A p \in op.capture :
         /\ BaseOf(p, op.sha) # 0
         /\ Tree(BaseOf(p, op.sha))[p] = Tree(op.sha)[p]
         /\ pc # "fetch" \/ op.retry => Tree(op.onto)[p] = Tree(op.sha)[p]
  /\ pc = "push" =>
       /\ op.staged \subseteq op.capture
       /\ \A p \in Paths \ op.staged : op.tree[p] = Tree(op.onto)[p]

-----------------------------------------------------------------------------
(* The branch *)

\* A commit has a tree, which is a file for each path, and ancestors.
LEMMA CommitTypes ==
  ASSUME TypeOK, NEW c \in Commits
  PROVE  /\ Tree(c) \in Trees
         /\ \A p \in Paths : Tree(c)[p] \in File
         /\ Ancestors(c) \in SUBSET Commits
<1>1. commit[c] \in [tree : Trees, anc : SUBSET Commits]
  BY ElementOfSeq DEF TypeOK, Commits
<1>2. /\ Tree(c) \in Trees
      /\ Ancestors(c) \in SUBSET Commits
  BY <1>1 DEF Tree, Ancestors
<1> QED BY <1>2 DEF Trees

\* What Advance leaves of the commits there were.
LEMMA Advanced ==
  ASSUME TypeOK, BranchOK,
         NEW t \in Trees, NEW parents \in SUBSET Commits, Advance(t, parents)
  PROVE  /\ commit' \in Seq([tree : Trees, anc : SUBSET (1..Len(commit'))])
         /\ Len(commit') = Len(commit) + 1
         /\ tip' = Len(commit')
         /\ commit'[tip'].tree = t
         /\ \A c \in Commits : commit'[c] = commit[c]
         /\ BranchOK'
<1> DEFINE n == Len(commit) + 1
           new == [tree |-> t, anc |-> parents \cup {n}]
<1>1. /\ commit \in Seq([tree : Trees, anc : SUBSET (1..Len(commit))])
      /\ tip = Len(commit)
      /\ Len(commit) \in Nat
  BY DEF TypeOK, BranchOK, Commits
<1>2. commit' = Append(commit, new) /\ tip' = n
  BY DEF Advance
<1>3. /\ Len(commit') = n
      /\ commit'[n] = new
      /\ \A c \in Commits : commit'[c] = commit[c]
  BY <1>1, <1>2 DEF Commits
<1>4. new \in [tree : Trees, anc : SUBSET (1..n)] /\ parents \subseteq 1..n
  <2>1. parents \subseteq 1..n /\ n \in 1..n BY <1>1 DEF Commits
  <2> QED BY <2>1
<1>5. commit \in Seq([tree : Trees, anc : SUBSET (1..n)])
  <2>1. [tree : Trees, anc : SUBSET (1..Len(commit))] \subseteq [tree : Trees, anc : SUBSET (1..n)]
    BY <1>1
  <2> QED BY <1>1, <2>1, SeqMonotonic
<1>6. commit' \in Seq([tree : Trees, anc : SUBSET (1..n)])
  BY <1>2, <1>4, <1>5
<1>7. BranchOK'
  <2>1. ASSUME NEW c \in 1..n PROVE c \in commit'[c].anc /\ commit'[c].anc \subseteq 1..c
    <3>1. CASE c = n BY <1>3, <1>4, <3>1
    <3>2. CASE c # n
      <4>1. c \in Commits BY <1>1, <3>2 DEF Commits
      <4> QED BY <1>3, <4>1 DEF BranchOK, Ancestors
    <3> QED BY <3>1, <3>2
  <2> QED BY <1>2, <1>3, <2>1 DEF BranchOK, Commits, Ancestors
<1>8. commit'[n].tree = t BY <1>3
<1> HIDE DEF n, new
<1> QED BY <1>2, <1>3, <1>6, <1>7, <1>8 DEF n

CommitOK == commit \in Seq([tree : Trees, anc : SUBSET Commits]) /\ tip \in Commits

Grows == Len(commit) <= Len(commit') /\ \A c \in Commits : commit'[c] = commit[c]

\* Commits are only ever added, at the tip.
LEMMA BranchStep ==
  TypeOK /\ BranchOK /\ ControlOK /\ [Next]_vars => CommitOK' /\ BranchOK' /\ Grows
<1> SUFFICES ASSUME TypeOK, BranchOK, ControlOK, [Next]_vars
             PROVE  CommitOK' /\ BranchOK' /\ Grows
  OBVIOUS
<1>0. /\ commit \in Seq([tree : Trees, anc : SUBSET (1..Len(commit))])
      /\ tip = Len(commit) /\ Len(commit) \in Nat /\ tip \in Commits
  BY DEF TypeOK, BranchOK, Commits
<1>1. ASSUME NEW c \in Commits PROVE Ancestors(c) \in SUBSET Commits
  BY <1>1, CommitTypes
<1>2. ASSUME NEW t \in Trees, NEW parents \in SUBSET Commits, Advance(t, parents)
      PROVE  CommitOK' /\ BranchOK' /\ Grows
  <2>1. /\ commit' \in Seq([tree : Trees, anc : SUBSET (1..Len(commit'))])
        /\ Len(commit') = Len(commit) + 1
        /\ tip' = Len(commit')
        /\ \A c \in Commits : commit'[c] = commit[c]
        /\ BranchOK'
    BY <1>2, Advanced
  <2> QED BY <1>0, <2>1 DEF CommitOK, Grows, Commits
<1>3. CASE Push BY <1>0, <1>1, <1>2, <1>3 DEF Push
<1>4. CASE ForcePush BY <1>2, <1>4 DEF ForcePush
<1>5. CASE PushCapture \/ PushAnswerLost
  <2>1. Advance(op.tree, Ancestors(op.onto)) BY <1>5 DEF PushCapture, PushAnswerLost
  <2>2. op.tree \in Trees BY DEF TypeOK
  <2>3. op.onto \in Commits
    BY <1>0, <1>5 DEF PushCapture, PushAnswerLost, ControlOK, TypeOK, Commits
  <2> QED BY <1>1, <1>2, <2>1, <2>2, <2>3
<1>6. CASE UNCHANGED remote
  <2>1. commit' = commit /\ tip' = tip BY <1>6 DEF remote
  <2> QED BY <1>0, <2>1 DEF CommitOK, BranchOK, Grows, Commits, Ancestors
<1>7. CASE Cycle /\ ~PushCapture /\ ~PushAnswerLost
  <2>1. UNCHANGED remote
    BY <1>7 DEF Cycle, Fetch, CycleFails, Compute, Classify, ClassifyBlindly, CaptureFetch,
                Stage, PushRejected, CaptureFails, Conclude, EndCycle, StartApply
  <2> QED BY <1>6, <2>1
<1>8. CASE Apply
  <2>1. UNCHANGED remote
    BY <1>8 DEF Apply, Stash, StashFails, WriteFile, CheckConfig, ApplyFails, Undo,
                Record, RecordFails
  <2> QED BY <1>6, <2>1
<1>9. CASE Owner \/ LiveEdit \/ Restart \/ HoldExpires
  <2>1. UNCHANGED remote
    BY <1>9 DEF Owner, PressApply, Rollback, LiveEdit, Restart, HoldExpires
  <2> QED BY <1>6, <2>1
<1>10. CASE UNCHANGED vars BY <1>6, <1>10 DEF vars
<1> QED BY <1>3, <1>4, <1>5, <1>7, <1>8, <1>9, <1>10 DEF Next, Others

-----------------------------------------------------------------------------
(* Types *)

LEMMA SomeIntro == ASSUME NEW S \in SUBSET Paths, NEW f \in [S -> File] PROVE f \in Some
BY DEF Some

LEMMA SomeElim ==
  ASSUME NEW f \in Some
  PROVE  DOMAIN f \in SUBSET Paths /\ f \in [DOMAIN f -> File]
<1>1. PICK S \in SUBSET Paths : f \in [S -> File] BY DEF Some
<1> QED BY <1>1

LEMMA NoneFacts == None \in Some /\ DOMAIN None = {}
<1>1. None \in [{} -> File] /\ DOMAIN None = {} BY DEF None
<1> QED BY <1>1, SomeIntro

\* What names a commit, while there are n of them.
Plans(n) == [sha : 0..n, seen : Some]

Ops(n) == [sha : 0..n, seen : Some, apply : SUBSET Paths, capture : SUBSET Paths,
           conflict : SUBSET Paths, onto : 0..n, retry : BOOLEAN,
           staged : SUBSET Paths, tree : Trees, pushed : 0..n,
           stash : Some, written : SUBSET Paths]

States(n) == [good : 0..n, capture : 0..n, captured : SUBSET Paths, manifest : SUBSET Paths,
              conflicted : SUBSET Paths, stash : Some]

\* TypeOK but for the branch.
RestOK(n) ==
  /\ live \in Trees
  /\ budget \in [Events -> Nat]
  /\ disk \in States(n)
  /\ disk.captured # {} <=> disk.capture # 0
  /\ opts \in Options
  /\ plan \in Plans(n)
  /\ held \in Plans(n)
  /\ conflicts \in SUBSET Paths
  /\ point \in Some
  /\ pc \in Planning \cup Applying \cup {"idle", "decide", "stash"}
  /\ op \in Ops(n)
  /\ agreed \in [Paths -> SUBSET File]

LEMMA TypeParts == TypeOK <=> CommitOK /\ RestOK(Len(commit))
BY DEF TypeOK, CommitOK, RestOK, Plans, Ops, States, Planning, Applying

LEMMA NoOpType == ASSUME NEW n \in Nat PROVE NoPlan \in Plans(n) /\ NoOp \in Ops(n)
<1>1. [p \in Paths |-> Gone] \in Trees BY DEF Trees, File
<1> QED BY <1>1, NoneFacts DEF NoPlan, NoOp, Plans, Ops

\* More commits may be named by more.
LEMMA Widening ==
  ASSUME NEW n \in Nat, NEW m \in Nat, n <= m
  PROVE  Plans(n) \subseteq Plans(m) /\ Ops(n) \subseteq Ops(m) /\ States(n) \subseteq States(m)
<1>1. 0..n \subseteq 0..m OBVIOUS
<1>2. Plans(n) \subseteq Plans(m) BY <1>1 DEF Plans
<1>3. Ops(n) \subseteq Ops(m) BY <1>1 DEF Ops
<1>4. States(n) \subseteq States(m) BY <1>1 DEF States
<1> QED BY <1>2, <1>3, <1>4

LEMMA BudgetType ==
  ASSUME budget \in [Events -> Nat], NEW e \in Events, Spend(e)
  PROVE  budget' \in [Events -> Nat] /\ budget' # budget
BY DEF Spend, Events

LEMMA AgreeType ==
  ASSUME agreed \in [Paths -> SUBSET File], NEW t, NEW l \in Trees, Agree(t, l)
  PROVE  agreed' \in [Paths -> SUBSET File]
BY DEF Agree, Trees

LEMMA TransferType ==
  ASSUME agreed \in [Paths -> SUBSET File], NEW files, NEW t \in Trees, Transfer(files, t)
  PROVE  agreed' \in [Paths -> SUBSET File]
BY DEF Transfer, Trees

LEMMA RestoredType ==
  ASSUME live \in Trees, NEW s \in Some, NEW lost
  PROVE  Restored(s, lost) \in Trees
BY SomeElim DEF Restored, Trees

LEMMA InitType == Init => TypeOK /\ BranchOK
<1> SUFFICES ASSUME Init PROVE TypeOK /\ BranchOK OBVIOUS
<1>1. PICK start \in Starts, t \in Trees, l \in Trees :
        /\ start = "settled" => l = t
        /\ commit = <<[tree |-> t, anc |-> {1}]>>
        /\ tip = 1
        /\ live = l
        /\ disk = IF start = "settled"
                  THEN [NewState EXCEPT !.good = 1,
                                        !.manifest = {p \in Paths : t[p] # Gone}]
                  ELSE NewState
        /\ agreed = [p \in Paths |-> IF t[p] = l[p] THEN {l[p]} ELSE {}]
        /\ opts \in Options
        /\ budget = Budget
        /\ plan = NoPlan /\ held = NoPlan /\ conflicts = {} /\ point = None
        /\ pc = "idle" /\ op = NoOp
  BY Zenon DEF Init
<1>3. Len(commit) = 1 /\ commit[1] = [tree |-> t, anc |-> {1}] BY <1>1
<1>4. CommitOK
  <2>1. [tree |-> t, anc |-> {1}] \in [tree : Trees, anc : SUBSET (1..1)] BY <1>1
  <2>2. commit \in Seq([tree : Trees, anc : SUBSET (1..1)]) BY <1>1, <2>1
  <2> QED BY <1>1, <1>3, <2>2 DEF CommitOK, Commits
<1>5. BranchOK BY <1>1, <1>3 DEF BranchOK, Commits, Ancestors
<1>6. RestOK(1)
  <2>1. disk \in States(1) /\ (disk.captured # {} <=> disk.capture # 0)
    <3>1. NewState \in States(1) /\ NewState.captured = {} /\ NewState.capture = 0
      BY NoneFacts DEF NewState, States
    <3>2. CASE start = "settled"
      <4> DEFINE owned == {p \in Paths : t[p] # Gone}
      <4>1. owned \in SUBSET Paths OBVIOUS
      <4>2. disk = [NewState EXCEPT !.good = 1, !.manifest = owned] BY <1>1, <3>2
      <4> HIDE DEF owned
      <4>3. disk = [good |-> 1, capture |-> 0, captured |-> {}, manifest |-> owned,
                    conflicted |-> {}, stash |-> None]
        BY <4>2 DEF NewState
      <4> QED BY <4>1, <4>3, NoneFacts DEF States
    <3>3. CASE start # "settled" BY <1>1, <3>1, <3>3
    <3> QED BY <3>2, <3>3
  <2>2. agreed \in [Paths -> SUBSET File] BY <1>1 DEF Trees
  <2>3. plan \in Plans(1) /\ held \in Plans(1) /\ op \in Ops(1) BY <1>1, NoOpType
  <2> QED BY <1>1, <2>1, <2>2, <2>3, NoneFacts DEF RestOK
<1> QED BY <1>3, <1>4, <1>5, <1>6, TypeParts

\* A step that adds no commit.
LEMMA RestStep ==
  ASSUME NEW n \in Nat, n = Len(commit), CommitOK, RestOK(n), ControlOK, [Next]_vars,
         ~Push, ~ForcePush, ~PushCapture, ~PushAnswerLost
  PROVE  RestOK(n)'
<1> USE DEF RestOK, memory
<1>0. TypeOK BY TypeParts
<1>1. NoPlan \in Plans(n) /\ NoOp \in Ops(n) BY NoOpType
<1>2. tip \in 0..n BY DEF CommitOK, Commits
<1>3. ASSUME NEW e \in Events, NEW happened, Spent(e, happened)
      PROVE  budget' \in [Events -> Nat]
  BY <1>3, BudgetType DEF Spent
<1>4. {"edit", "push", "force", "fault", "stop"} \subseteq Events BY DEF Events
<1>5. CASE Fetch
  <2>1. op' \in Ops(n) BY <1>1, <1>2, <1>5 DEF Fetch, Ops
  <2> QED BY <1>5, <2>1 DEF Fetch, Planning
<1>6. CASE CycleFails
  BY <1>1, <1>4, <1>6, BudgetType DEF CycleFails
<1>7. CASE Compute
  <2> DEFINE drift == Drift(Tree(op.sha), live, disk.manifest)
             seen == [p \in drift |-> live[p]]
  <2>1. drift \in SUBSET Paths BY DEF Drift
  <2>2. seen \in Some
    <3>1. seen \in [drift -> File] BY <2>1 DEF Trees
    <3> QED BY <2>1, <3>1, SomeIntro
  <2>3. UNCHANGED <<live, opts, held, point, agreed>> BY <1>7 DEF Compute
  <2>4. CASE opts.capture /\ drift # {}
    <3>1. op' = [op EXCEPT !.seen = seen] /\ conflicts' = disk.conflicted /\ pc' = "classify"
          /\ UNCHANGED <<budget, disk, plan>>
      BY <1>7, <2>4 DEF Compute
    <3>2. op' \in Ops(n) BY <2>2, <3>1 DEF Ops
    <3>3. conflicts' \in SUBSET Paths BY <3>1 DEF States
    <3> QED BY <2>3, <3>1, <3>2, <3>3 DEF Planning
  <2>5. CASE ~(opts.capture /\ drift # {})
    <3>1. PlanAll(seen) BY <1>7, <2>5 DEF Compute
    <3>2. PICK saved \in BOOLEAN :
            /\ Spent("fault", ~saved)
            /\ disk' = IF saved THEN [disk EXCEPT !.conflicted = {}] ELSE disk
      BY <3>1 DEF PlanAll
    <3>3. disk' \in States(n) /\ (disk'.captured # {} <=> disk'.capture # 0)
      BY <3>2 DEF States
    <3>4. conflicts' \in SUBSET Paths BY <3>1, <3>3 DEF PlanAll, States
    <3>5. plan' \in Plans(n) BY <2>2, <3>1 DEF PlanAll, Publish, Plans, Ops
    <3>6. budget' \in [Events -> Nat] BY <1>3, <1>4, <3>2
    <3> QED BY <2>3, <3>1, <3>3, <3>4, <3>5, <3>6 DEF PlanAll
  <2> QED BY <2>4, <2>5
<1>8. CASE Classify
  <2>1. op' \in Ops(n)
    <3>1. DOMAIN op.seen \in SUBSET Paths BY SomeElim DEF Ops
    <3>2. PICK drift \in SUBSET Paths, standing \in SUBSET Paths : Route(drift, standing)
      BY <1>8, <3>1 DEF Classify
    <3> QED BY <3>2 DEF Route, Ops
  <2> QED BY <1>8, <2>1 DEF Classify, Planning
<1>9. CASE ClassifyBlindly
  <2>1. op' \in Ops(n) BY <1>9, SomeElim DEF ClassifyBlindly, Ops
  <2> QED BY <1>4, <1>9, <2>1, BudgetType DEF ClassifyBlindly, Planning
<1>10. CASE CaptureFetch
  <2>1. op' \in Ops(n)
    BY <1>2, <1>10 DEF CaptureFetch, Unmoved, Ops
  <2> QED BY <1>10, <2>1 DEF CaptureFetch, Planning
<1>11. CASE Stage
  <2>1. op' \in Ops(n)
    <3>1. PICK staged \in SUBSET Paths :
            op' = [op EXCEPT !.staged = staged,
                             !.tree = [p \in Paths |-> IF p \in staged THEN live[p]
                                                       ELSE Tree(op.onto)[p]]]
      BY <1>11 DEF Stage, Ops
    <3>2. op.onto \in Commits BY <1>11 DEF Stage, ControlOK, Ops, Commits
    <3>3. [p \in Paths |-> IF p \in staged THEN live[p] ELSE Tree(op.onto)[p]] \in Trees
      BY <1>0, <3>2, CommitTypes DEF Trees
    <3> QED BY <3>1, <3>3 DEF Ops
  <2> QED BY <1>11, <2>1 DEF Stage, Planning
<1>12. CASE PushRejected
  <2>1. op' \in Ops(n) BY <1>12 DEF PushRejected, Ops
  <2> QED BY <1>12, <2>1 DEF PushRejected, Planning
<1>13. CASE CaptureFails BY <1>4, <1>13, BudgetType DEF CaptureFails, Planning
<1>14. CASE Conclude
  <2>1. PICK saved \in BOOLEAN :
          /\ Spent("fault", ~saved)
          /\ disk' = IF saved THEN Concluded(disk) ELSE disk
    BY <1>14 DEF Conclude
  <2>2. disk' \in States(n) /\ (disk'.captured # {} <=> disk'.capture # 0)
    <3>1. CASE ~saved \/ op.pushed = 0 BY <2>1, <3>1 DEF Concluded, Captured, States, Ops
    <3>2. CASE saved /\ op.pushed # 0
      <4>1. disk' = [[disk EXCEPT !.capture = op.pushed, !.captured = @ \cup op.staged]
                       EXCEPT !.conflicted = op.conflict]
        BY <2>1, <3>2 DEF Concluded, Captured
      <4>2. op.staged # {} BY <3>2 DEF ControlOK
      <4> QED BY <3>2, <4>1, <4>2 DEF States, Ops
    <3> QED BY <2>1, <3>1, <3>2
  <2>3. conflicts' \in SUBSET Paths BY <1>14 DEF Conclude, Ops
  <2>4. plan' \in Plans(n)
    <3>1. op.apply \in SUBSET Paths /\ op.sha \in 0..n BY DEF Ops
    <3>2. \A p \in op.apply : op.seen[p] \in File
      BY SomeElim DEF ControlOK, Ops
    <3>3. [p \in op.apply |-> op.seen[p]] \in Some
      BY <3>1, <3>2, SomeIntro
    <3> QED BY <1>14, <3>1, <3>3 DEF Conclude, Publish, Plans
  <2>5. budget' \in [Events -> Nat] BY <1>3, <1>4, <2>1
  <2> QED BY <1>14, <2>2, <2>3, <2>4, <2>5 DEF Conclude
<1>15. CASE EndCycle \/ StartApply \/ PressApply
  BY <1>1, <1>15 DEF EndCycle, StartApply, PressApply
<1>16. CASE Stash
  <2>1. Pending \in SUBSET Paths BY SomeElim DEF Pending, Changes, Plans
  <2>2. [p \in Pending |-> live[p]] \in Some
    <3>1. [p \in Pending |-> live[p]] \in [Pending -> File] BY <2>1 DEF Trees
    <3> QED BY <2>1, <3>1, SomeIntro
  <2>3. op' \in Ops(n) BY <1>16, <2>2 DEF Stash, Ops
  <2> QED BY <1>16, <2>3 DEF Stash, Applying
<1>17. CASE StashFails BY <1>1, <1>4, <1>17, BudgetType DEF StashFails
<1>18. CASE WriteFile
  <2>1. PICK p \in DOMAIN op.stash \ op.written :
          /\ live' = [live EXCEPT ![p] = Tree(plan.sha)[p]]
          /\ op' = [op EXCEPT !.written = @ \cup {p}]
          /\ Transfer({p}, live')
    BY <1>18 DEF WriteFile
  <2>2. p \in Paths BY SomeElim DEF Ops
  <2>3. plan.sha \in Commits BY <2>1 DEF ControlOK, Pending, Plans, Commits
  <2>4. Tree(plan.sha)[p] \in File BY <1>0, <2>2, <2>3, CommitTypes
  <2>5. live' \in Trees BY <2>1, <2>2, <2>4 DEF Trees
  <2>6. op' \in Ops(n) BY <2>1, <2>2 DEF Ops
  <2>7. agreed' \in [Paths -> SUBSET File] BY <2>1, <2>5, TransferType
  <2> QED BY <1>18, <2>5, <2>6, <2>7 DEF WriteFile, Applying
<1>19. CASE CheckConfig BY <1>19 DEF CheckConfig, Applying
<1>20. CASE ApplyFails BY <1>4, <1>20, BudgetType DEF ApplyFails, Applying
<1>21. CASE Undo
  <2>1. PICK lost \in SUBSET DOMAIN op.stash :
          /\ Spent("fault", lost # {})
          /\ live' = Restored(op.stash, lost)
          /\ point' = IF lost = {} THEN point ELSE op.stash
          /\ disk' \in {disk} \cup {[disk EXCEPT !.stash = op.stash] : p \in lost}
    BY <1>21 DEF Undo
  <2>2. op.stash \in Some BY DEF Ops
  <2>3. disk' \in States(n) /\ (disk'.captured # {} <=> disk'.capture # 0)
    <3>1. disk' = disk \/ disk' = [disk EXCEPT !.stash = op.stash] BY <2>1
    <3> QED BY <2>2, <3>1 DEF States
  <2>4. live' \in Trees BY <2>1, <2>2, RestoredType
  <2>5. agreed' \in [Paths -> SUBSET File] BY <1>21, <2>4, AgreeType DEF Undo
  <2>6. budget' \in [Events -> Nat] BY <1>3, <1>4, <2>1
  <2> QED BY <1>1, <1>21, <2>1, <2>2, <2>3, <2>4, <2>5, <2>6 DEF Undo
<1>22. CASE Record
  <2>1. op.stash \in Some /\ DOMAIN op.stash \in SUBSET Paths BY SomeElim DEF Ops
  <2>2. disk' \in States(n) /\ (disk'.captured # {} <=> disk'.capture # 0)
    <3>1. disk' = Applied(disk, DOMAIN op.stash) BY <1>22 DEF Record
    <3> DEFINE files == DOMAIN op.stash
               kept == disk.captured \ files
               owned == (disk.manifest \ files) \cup {p \in files : Tree(plan.sha)[p] # Gone}
    <3>2. disk' = [disk EXCEPT !.good = plan.sha, !.manifest = owned, !.captured = kept,
                               !.capture = IF kept = {} THEN 0 ELSE @,
                               !.stash = IF files = {} THEN @ ELSE op.stash]
      BY <3>1 DEF Applied
    <3>3. kept \in SUBSET Paths /\ owned \in SUBSET Paths BY <2>1 DEF States
    <3>4. plan.sha \in 0..n BY DEF Plans
    <3>5. kept # {} => disk.capture # 0 OBVIOUS
    <3>6. disk.capture \in 0..n /\ disk.stash \in Some /\ 0 \in 0..n BY DEF States
    <3> HIDE DEF files, kept, owned
    <3>7. CASE kept = {} BY <2>1, <3>2, <3>3, <3>4, <3>6, <3>7 DEF States
    <3>8. CASE kept # {} BY <2>1, <3>2, <3>3, <3>4, <3>5, <3>6, <3>8 DEF States
    <3> QED BY <3>7, <3>8
  <2>3. conflicts' \in SUBSET Paths BY <1>22 DEF Record, States
  <2>4. plan' \in Plans(n) BY <1>22, NoneFacts DEF Record, Publish, Plans
  <2> QED BY <1>1, <1>22, <2>1, <2>2, <2>3, <2>4 DEF Record
<1>23. CASE RecordFails
  <2>1. op.stash \in Some BY DEF Ops
  <2> QED BY <1>1, <1>4, <1>23, <2>1, BudgetType DEF RecordFails
<1>24. CASE HoldExpires BY <1>1, <1>24 DEF HoldExpires
<1>25. CASE Rollback
  <2>1. PICK lost \in SUBSET DOMAIN point, saved \in BOOLEAN :
          /\ Spent("fault", lost # {} \/ ~saved)
          /\ live' = Restored(point, lost)
          /\ point' = IF lost = {} THEN None ELSE point
          /\ disk' = IF lost = {} /\ saved THEN [disk EXCEPT !.stash = None] ELSE disk
    BY <1>25 DEF Rollback
  <2>2. disk' \in States(n) /\ (disk'.captured # {} <=> disk'.capture # 0)
    BY <2>1, NoneFacts DEF States
  <2>3. live' \in Trees BY <2>1, RestoredType
  <2>4. agreed' \in [Paths -> SUBSET File] BY <1>25, <2>3, AgreeType DEF Rollback
  <2>5. budget' \in [Events -> Nat] BY <1>3, <1>4, <2>1
  <2>6. conflicts' \in SUBSET Paths BY <1>25 DEF Rollback, States
  <2> QED BY <1>25, <2>1, <2>2, <2>3, <2>4, <2>5, <2>6, NoneFacts DEF Rollback
<1>26. CASE LiveEdit
  <2>1. live' \in Trees BY <1>26 DEF LiveEdit, Trees
  <2>2. agreed' \in [Paths -> SUBSET File] BY <1>26, <2>1, AgreeType DEF LiveEdit
  <2> QED BY <1>4, <1>26, <2>1, <2>2, BudgetType DEF LiveEdit
<1>27. CASE Restart
  <2>1. conflicts' \in SUBSET Paths /\ point' \in Some BY <1>27 DEF Restart, States
  <2> QED BY <1>1, <1>4, <1>27, <2>1, BudgetType DEF Restart
<1>28. CASE UNCHANGED vars BY <1>28 DEF vars
<1> QED
  BY <1>5, <1>6, <1>7, <1>8, <1>9, <1>10, <1>11, <1>12, <1>13, <1>14, <1>15, <1>16,
     <1>17, <1>18, <1>19, <1>20, <1>21, <1>22, <1>23, <1>24, <1>25, <1>26, <1>27, <1>28
  DEF Next, Cycle, Apply, Owner, Others

\* A step that adds one.
LEMMA PushingStep ==
  ASSUME NEW n \in Nat, NEW m \in Nat, m = n + 1, RestOK(n), tip' = m,
         Push \/ ForcePush \/ PushCapture \/ PushAnswerLost
  PROVE  RestOK(m)'
<1> USE DEF RestOK, memory
<1>0. {"push", "force", "fault"} \subseteq Events BY DEF Events
<1>1. op \in Ops(m) /\ plan \in Plans(m) /\ held \in Plans(m) /\ disk \in States(m)
  BY Widening
<1>2. CASE Push BY <1>0, <1>1, <1>2, BudgetType, AgreeType DEF Push
<1>3. CASE ForcePush BY <1>0, <1>1, <1>3, BudgetType, AgreeType DEF ForcePush
<1>4. ASSUME NEW files, Transfer(files, op.tree) PROVE agreed' \in [Paths -> SUBSET File]
  BY <1>4, TransferType DEF Ops
<1>5. CASE PushCapture
  <2>1. op' \in Ops(m) BY <1>1, <1>5 DEF PushCapture, Ops
  <2> QED BY <1>1, <1>4, <1>5, <2>1 DEF PushCapture, Planning
<1>6. CASE PushAnswerLost
  BY <1>0, <1>1, <1>4, <1>6, BudgetType DEF PushAnswerLost, Planning
<1> QED BY <1>2, <1>3, <1>5, <1>6

LEMMA TypeStep ==
  TypeOK /\ BranchOK /\ ControlOK /\ [Next]_vars => TypeOK' /\ BranchOK' /\ Grows
<1> SUFFICES ASSUME TypeOK, BranchOK, ControlOK, [Next]_vars
             PROVE  TypeOK' /\ BranchOK' /\ Grows
  OBVIOUS
<1>1. CommitOK' /\ BranchOK' /\ Grows BY BranchStep
<1>2. PICK n \in Nat : n = Len(commit) BY LenProperties DEF TypeOK
<1>3. PICK m \in Nat : m = Len(commit') BY <1>1, LenProperties DEF CommitOK
<1>4. CommitOK /\ RestOK(n) BY <1>2, TypeParts
<1>5. RestOK(m)'
  <2>1. CASE Push \/ ForcePush \/ PushCapture \/ PushAnswerLost
    <3>1. tip' = Len(commit) + 1 /\ tip' = Len(commit')
      BY <1>1, <2>1 DEF Push, ForcePush, PushCapture, PushAnswerLost, Advance, BranchOK
    <3> QED BY <1>2, <1>3, <1>4, <2>1, <3>1, PushingStep
  <2>2. CASE ~Push /\ ~ForcePush /\ ~PushCapture /\ ~PushAnswerLost
    <3>1. RestOK(n)' BY <1>2, <1>4, <2>2, RestStep
    <3>2. n <= m BY <1>1, <1>2, <1>3 DEF Grows
    <3>3. Plans(n) \subseteq Plans(m) /\ Ops(n) \subseteq Ops(m) /\ States(n) \subseteq States(m)
      BY <3>2, Widening
    <3> QED BY <3>1, <3>3 DEF RestOK
  <2> QED BY <2>1, <2>2
<1>6. TypeOK'
  BY <1>1, <1>3, <1>5 DEF TypeOK, CommitOK, RestOK, Plans, Ops, States, Planning, Applying
<1> QED BY <1>1, <1>6

-----------------------------------------------------------------------------
(* What is in hand *)

LEMMA ControlStep ==
  TypeOK /\ TypeOK' /\ BranchOK /\ ControlOK /\ [Next]_vars => ControlOK'
<1> SUFFICES ASSUME TypeOK, TypeOK', BranchOK, ControlOK, [Next]_vars PROVE ControlOK' OBVIOUS
<1> USE DEF ControlOK, memory, Planning, Applying, Pending, Changes
<1>1. CASE LiveEdit \/ Push \/ ForcePush \/ HoldExpires
  BY <1>1 DEF LiveEdit, Push, ForcePush, HoldExpires
<1>2. NoPlan.sha = 0 /\ DOMAIN NoPlan.seen = {} BY NoneFacts DEF NoPlan
<1>3. /\ NoOp.retry = FALSE /\ NoOp.pushed = 0 /\ NoOp.apply = {} /\ NoOp.capture = {} /\ NoOp.stash = None
      /\ NoOp.written = {} /\ DOMAIN None = {}
  BY NoneFacts DEF NoOp
<1>4. CASE Fetch
  <2>1. op' = [NoOp EXCEPT !.sha = tip] /\ pc' = "compute" /\ plan' = plan /\ conflicts' = conflicts
    BY <1>4 DEF Fetch
  <2>2. op' = [sha |-> tip, seen |-> None, apply |-> {}, capture |-> {}, conflict |-> {},
               onto |-> 0, retry |-> FALSE, staged |-> {},
               tree |-> [p \in Paths |-> Gone], pushed |-> 0, stash |-> None, written |-> {}]
    BY <2>1 DEF NoOp
  <2>3. tip # 0 BY DEF TypeOK, Commits
  <2> QED BY <1>3, <2>1, <2>2, <2>3
<1>5. CASE CycleFails \/ Restart \/ Rollback
  BY <1>2, <1>3, <1>5 DEF CycleFails, Restart, Rollback
<1>6. CASE Compute
  <2> DEFINE drift == Drift(Tree(op.sha), live, disk.manifest)
             seen == [p \in drift |-> live[p]]
  <2>1. CASE opts.capture /\ drift # {}
    <3>1. /\ op' = [op EXCEPT !.seen = seen] /\ pc' = "classify"
          /\ conflicts' = disk.conflicted /\ plan' = plan
      BY <1>6, <2>1 DEF Compute
    <3> HIDE DEF seen
    <3>2. op.stash = None /\ op.apply = {} /\ op.capture = {} /\ ~op.retry BY <1>6 DEF Compute
    <3> QED BY <1>3, <1>6, <3>1, <3>2 DEF TypeOK, Compute
  <2>2. CASE ~(opts.capture /\ drift # {})
    <3>1. PlanAll(seen) BY <1>6, <2>2 DEF Compute
    <3>2. op' = op /\ pc' = "decide" /\ plan' = [sha |-> op.sha, seen |-> seen]
      BY <3>1 DEF PlanAll, Publish
    <3> QED BY <1>3, <1>6, <3>2 DEF Compute
  <2> QED BY <2>1, <2>2
<1>7. CASE Classify \/ ClassifyBlindly
  <2>1. /\ op'.apply \subseteq DOMAIN op.seen
        /\ op'.sha = op.sha /\ op'.seen = op.seen /\ op'.onto = op.onto /\ op'.retry = op.retry
        /\ op'.staged = op.staged /\ op'.pushed = op.pushed
        /\ op'.stash = op.stash /\ op'.written = op.written
    <3>1. CASE Classify BY <3>1 DEF Classify, Route, TypeOK
    <3>2. CASE ClassifyBlindly BY <3>2 DEF ClassifyBlindly, TypeOK
    <3> QED BY <1>7, <3>1, <3>2
  <2>2. pc = "classify" /\ pc' \in {"fetch", "conclude"} /\ plan' = plan /\ conflicts' = conflicts
    BY <1>7 DEF Classify, ClassifyBlindly
  <2> QED BY <1>3, <2>1, <2>2 DEF TypeOK
<1>8. CASE CaptureFetch
  <2>1. PICK c : op' = [op EXCEPT !.capture = c, !.onto = tip]
    BY <1>8 DEF CaptureFetch
  <2>2. tip # 0 BY DEF TypeOK, Commits
  <2>3. pc = "fetch" /\ pc' \in {"stage", "conclude"} /\ plan' = plan /\ conflicts' = conflicts
    BY <1>8 DEF CaptureFetch
  <2> QED BY <1>3, <2>1, <2>2, <2>3 DEF TypeOK
<1>9. CASE Stage
  <2> DEFINE staged == {p \in op.capture : /\ live[p] \notin Literal
                                           /\ live[p] # Gone \/ Tree(op.onto)[p] # Gone}
             tree == [p \in Paths |-> IF p \in staged THEN live[p] ELSE Tree(op.onto)[p]]
  <2>1. /\ pc = "stage" /\ op' = [op EXCEPT !.staged = staged, !.tree = tree]
        /\ pc' = IF tree # Tree(op.onto) THEN "push" ELSE "conclude"
        /\ plan' = plan /\ conflicts' = conflicts
    BY <1>9 DEF Stage
  <2>2. tree # Tree(op.onto) => staged # {}
    <3>1. op.onto \in Commits
      <4>1. op.onto \in 0..Len(commit) /\ op.onto # 0 BY <2>1 DEF TypeOK
      <4> QED BY <4>1, LenProperties DEF TypeOK, Commits
    <3>2. Tree(op.onto) \in Trees BY <3>1, CommitTypes
    <3>3. ASSUME staged = {} PROVE tree = Tree(op.onto)
      <4>1. tree = [p \in Paths |-> Tree(op.onto)[p]] BY <3>3
      <4> HIDE DEF tree
      <4> QED BY <3>2, <4>1 DEF Trees
    <3> QED BY <3>3
  <2>3. op.pushed = 0 BY <2>1
  <2> HIDE DEF staged, tree
  <2> QED BY <1>3, <2>1, <2>2, <2>3 DEF TypeOK
<1>10. CASE PushCapture \/ PushAnswerLost \/ PushRejected \/ CaptureFails
  <2>1. /\ pc' \in {"fetch", "conclude"} /\ pc \in {"fetch", "stage", "push"}
        /\ plan' = plan /\ conflicts' = conflicts
    BY <1>10 DEF PushCapture, PushAnswerLost, PushRejected, CaptureFails
  <2>2. /\ op'.sha = op.sha /\ op'.seen = op.seen /\ op'.apply = op.apply
        /\ op'.onto = op.onto /\ op'.staged = op.staged
        /\ op'.stash = op.stash /\ op'.written = op.written
        /\ op'.pushed = op.pushed \/ (pc = "push" /\ pc' = "conclude")
        /\ op'.retry = op.retry \/ pc = "push"
    <3>1. CASE PushCapture BY <3>1 DEF PushCapture, TypeOK
    <3>2. CASE PushRejected BY <3>2 DEF PushRejected, TypeOK
    <3>3. CASE PushAnswerLost \/ CaptureFails BY <3>3 DEF PushAnswerLost, CaptureFails
    <3> QED BY <1>10, <3>1, <3>2, <3>3
  <2> QED BY <1>3, <2>1, <2>2
<1>11. CASE Conclude
  <2>1. /\ pc = "conclude" /\ pc' = "decide" /\ op' = op
        /\ plan' = [sha |-> op.sha, seen |-> [p \in op.apply |-> op.seen[p]]]
    BY <1>11 DEF Conclude, Publish
  <2> QED BY <1>3, <2>1
<1>12. CASE EndCycle \/ StartApply \/ PressApply \/ StashFails \/ RecordFails
  BY <1>3, <1>12 DEF EndCycle, StartApply, PressApply, StashFails, RecordFails
<1>13. CASE Stash
  <2>1. /\ op' = [op EXCEPT !.stash = [p \in Pending |-> live[p]]]
        /\ pc' \in {"write", "record"} /\ pc = "stash" /\ plan' = plan /\ conflicts' = conflicts
    BY <1>13 DEF Stash
  <2>2. DOMAIN op'.stash = Pending BY <2>1 DEF TypeOK
  <2>3. op.written = {} BY <1>3, <2>1
  <2> QED BY <1>3, <2>1, <2>2, <2>3 DEF TypeOK
<1>14. CASE WriteFile
  <2>1. PICK p \in DOMAIN op.stash \ op.written : op' = [op EXCEPT !.written = @ \cup {p}]
    BY <1>14 DEF WriteFile
  <2>2. pc = "write" /\ pc' \in {"write", "check"} /\ plan' = plan /\ conflicts' = conflicts
    BY <1>14 DEF WriteFile
  <2> QED BY <2>1, <2>2 DEF TypeOK
<1>15. CASE CheckConfig \/ ApplyFails
  BY <1>15 DEF CheckConfig, ApplyFails
<1>16. CASE Undo BY <1>3, <1>16 DEF Undo
<1>17. CASE Record BY <1>3, <1>17 DEF Record, Publish
<1>18. CASE UNCHANGED vars BY <1>18 DEF vars
<1> QED
  BY <1>1, <1>4, <1>5, <1>6, <1>7, <1>8, <1>9, <1>10, <1>11, <1>12, <1>13, <1>14,
     <1>15, <1>16, <1>17, <1>18
  DEF Next, Cycle, Apply, Owner, Others

-----------------------------------------------------------------------------
(* The conflict record *)

LEMMA RecordStep ==
  TypeOK /\ ControlOK /\ RecordOK /\ CaptureOK /\ [Next]_vars => RecordOK'
<1> SUFFICES ASSUME TypeOK, ControlOK, RecordOK, CaptureOK, [Next]_vars PROVE RecordOK' OBVIOUS
<1> USE DEF RecordOK, memory, Pending, Changes
<1>1. CASE LiveEdit \/ Push \/ ForcePush \/ HoldExpires
  BY <1>1 DEF LiveEdit, Push, ForcePush, HoldExpires
<1>2. DOMAIN NoPlan.seen = {} /\ DOMAIN None = {} BY NoneFacts DEF NoPlan
<1>3. CASE CycleFails \/ Fetch \/ EndCycle \/ StartApply \/ PressApply \/ Stash
           \/ StashFails \/ WriteFile \/ CheckConfig \/ ApplyFails \/ RecordFails
  BY <1>2, <1>3
  DEF CycleFails, Fetch, EndCycle, StartApply, PressApply, Stash,
      StashFails, WriteFile, CheckConfig, ApplyFails, RecordFails
<1>4. CASE Compute
  <2> DEFINE seen == [p \in Drift(Tree(op.sha), live, disk.manifest) |-> live[p]]
  <2>1. CASE pc' = "classify" /\ conflicts' = disk.conflicted /\ disk' = disk
    BY <2>1
  <2>2. CASE PlanAll(seen) BY <2>2 DEF PlanAll
  <2> QED BY <1>4, <2>1, <2>2 DEF Compute
<1>5. CASE Classify
  <2>1. /\ op'.apply \subseteq DOMAIN op.seen \ disk.conflicted
        /\ op'.capture \subseteq DOMAIN op.seen \ disk.conflicted
    BY <1>5 DEF Classify, Route, Standing, TypeOK
  <2>2. pc' # "push" /\ disk' = disk /\ plan' = plan /\ conflicts' = conflicts
    BY <1>5 DEF Classify
  <2> QED BY <2>1, <2>2
<1>6. CASE ClassifyBlindly
  <2>1. /\ op'.apply \subseteq DOMAIN op.seen \ disk.conflicted /\ op'.capture = {}
        /\ pc' = "conclude" /\ disk' = disk /\ plan' = plan /\ conflicts' = conflicts
    BY <1>6 DEF ClassifyBlindly, Standing, ControlOK, TypeOK
  <2> QED BY <2>1
<1>7. CASE CaptureFetch
  <2>1. /\ op'.apply = op.apply /\ op'.capture \subseteq op.capture
        /\ pc = "fetch" /\ pc' # "push" /\ disk' = disk /\ plan' = plan /\ conflicts' = conflicts
    BY <1>7 DEF CaptureFetch, Unmoved, TypeOK
  <2> QED BY <2>1
<1>8. CASE Stage
  <2>1. /\ op'.apply = op.apply /\ op'.capture = op.capture /\ op'.staged \subseteq op.capture
        /\ pc = "stage" /\ disk' = disk /\ plan' = plan /\ conflicts' = conflicts
    BY <1>8 DEF Stage, TypeOK
  <2> QED BY <2>1
<1>9. CASE PushCapture \/ PushAnswerLost \/ PushRejected \/ CaptureFails
  <2>1. /\ op'.apply = op.apply /\ op'.capture = op.capture
        /\ pc \in {"fetch", "stage", "push"} /\ pc' # "push"
        /\ disk' = disk /\ plan' = plan /\ conflicts' = conflicts
    BY <1>9 DEF PushCapture, PushAnswerLost, PushRejected, CaptureFails, TypeOK
  <2> QED BY <2>1
<1>10. CASE Conclude
  <2>1. /\ conflicts' = op.conflict /\ DOMAIN plan'.seen = op.apply
        /\ pc = "conclude" /\ pc' = "decide"
        /\ disk' = Concluded(disk) \/ disk' = disk
    BY <1>10 DEF Conclude, Publish
  <2>2. Concluded(disk).conflicted = op.conflict
    BY DEF Concluded, Captured, TypeOK
  <2> QED BY <2>1, <2>2
<1>11. CASE Undo
  <2>1. disk'.conflicted = disk.conflicted /\ pc' = "idle" /\ plan' = plan /\ conflicts' = conflicts
    BY <1>11 DEF Undo, TypeOK
  <2> QED BY <2>1
<1>12. CASE Record BY <1>2, <1>12 DEF Record, Publish
<1>13. CASE Rollback
  <2>1. disk'.conflicted = disk.conflicted /\ conflicts' = disk.conflicted /\ pc' = "idle"
    BY <1>13 DEF Rollback, TypeOK
  <2> QED BY <2>1
<1>14. CASE Restart BY <1>2, <1>14 DEF Restart
<1>15. CASE UNCHANGED vars BY <1>15 DEF vars
<1> QED
  BY <1>1, <1>3, <1>4, <1>5, <1>6, <1>7, <1>8, <1>9, <1>10, <1>11, <1>12, <1>13, <1>14, <1>15
  DEF Next, Cycle, Apply, Owner, Others

-----------------------------------------------------------------------------
(* The base of a capture *)

\* A recorded base is a commit, and stays what it is while commits are added.
LEMMA BaseStays ==
  ASSUME TypeOK, Grows, op.sha \in Commits, op'.sha = op.sha, disk' = disk, NEW p
  PROVE  /\ BaseOf(p, op.sha)' = BaseOf(p, op.sha)
         /\ BaseOf(p, op.sha) \in Commits \cup {0}
<1>1. disk.capture \in Commits \cup {0} /\ disk.good \in Commits \cup {0}
  BY LenProperties DEF TypeOK, Commits
<1>2. Ancestors(op.sha)' = Ancestors(op.sha) BY DEF Grows, Ancestors
<1> QED BY <1>1, <1>2 DEF BaseOf, Usable

\* While the capture goes on with some of its files, nothing about them changes.
LEMMA StillCaptured ==
  ASSUME TypeOK, Grows, op.sha \in Commits, op'.sha = op.sha, disk' = disk,
         NEW p, BaseOf(p, op.sha) # 0, Tree(BaseOf(p, op.sha))[p] = Tree(op.sha)[p]
  PROVE  /\ BaseOf(p, op.sha)' # 0
         /\ Tree(BaseOf(p, op.sha))'[p] = Tree(op.sha)'[p]
<1>1. /\ BaseOf(p, op.sha)' = BaseOf(p, op.sha)
      /\ BaseOf(p, op.sha) \in Commits
  BY BaseStays
<1> QED BY <1>1 DEF Tree, Grows

LEMMA CaptureStep ==
  TypeOK /\ ControlOK /\ CaptureOK /\ Grows /\ [Next]_vars => CaptureOK'
<1> SUFFICES ASSUME TypeOK, ControlOK, CaptureOK, Grows, [Next]_vars PROVE CaptureOK' OBVIOUS
<1> USE DEF CaptureOK, memory
<1>1. /\ tip \in Commits
      /\ op.sha # 0 => op.sha \in Commits
      /\ op.onto # 0 => op.onto \in Commits
  BY LenProperties DEF TypeOK, Commits
<1>2. CASE op' = op /\ pc' = pc /\ disk' = disk
  <2>1. CASE pc \in {"fetch", "stage", "push"}
    <3>1. op.sha \in Commits BY <1>1, <2>1 DEF ControlOK, Planning
    <3>2. \A p \in op.capture : /\ BaseOf(p, op.sha)' # 0
                                /\ Tree(BaseOf(p, op.sha))'[p] = Tree(op.sha)'[p]
      BY <1>2, <2>1, <3>1, StillCaptured
    <3>3. pc # "fetch" \/ op.retry => Tree(op.onto)' = Tree(op.onto)
      BY <1>1, <1>2, <2>1 DEF ControlOK, Tree, Grows
    <3>4. Tree(op.sha)' = Tree(op.sha) BY <1>2, <3>1 DEF Tree, Grows
    <3> QED BY <1>2, <2>1, <3>2, <3>3, <3>4
  <2> QED BY <1>2, <2>1
<1>3. CASE LiveEdit \/ Push \/ ForcePush \/ HoldExpires
  BY <1>2, <1>3 DEF LiveEdit, Push, ForcePush, HoldExpires
<1>4. CASE Classify
  <2>1. /\ pc = "classify" /\ pc' \in {"fetch", "conclude"}
        /\ op'.sha = op.sha /\ op'.retry = op.retry /\ disk' = disk /\ commit' = commit
    BY <1>4 DEF Classify, Route, TypeOK, remote
  <2>2. op.sha \in Commits /\ ~op.retry BY <1>1, <2>1 DEF ControlOK, Planning
  <2>3. \A p \in op'.capture : ToCapture(Facts(p))
    BY <1>4 DEF Classify, Route, TypeOK
  <2>4. ASSUME NEW p \in op'.capture
        PROVE  BaseOf(p, op.sha) # 0 /\ Tree(BaseOf(p, op.sha))[p] = Tree(op.sha)[p]
    BY <2>3, <2>4 DEF ToCapture, Facts
  <2>5. \A p \in op'.capture :
          /\ BaseOf(p, op.sha)' # 0
          /\ Tree(BaseOf(p, op.sha))'[p] = Tree(op.sha)'[p]
    BY <2>1, <2>2, <2>4, StillCaptured
  <2> QED BY <2>1, <2>2, <2>5
<1>5. CASE CaptureFetch
  <2> DEFINE from == IF op.retry THEN op.onto ELSE op.sha
  <2>1. /\ pc = "fetch" /\ pc' \in {"stage", "conclude"}
        /\ op'.sha = op.sha /\ op'.onto = tip /\ disk' = disk /\ commit' = commit
        /\ op'.capture = Unmoved(op.capture, from, tip)
    BY <1>5 DEF CaptureFetch, TypeOK, remote
  <2>2. op.sha \in Commits BY <1>1, <2>1 DEF ControlOK, Planning
  <2>3. ASSUME NEW p \in op'.capture
        PROVE  p \in op.capture /\ Tree(tip)[p] = Tree(op.sha)[p]
    <3>1. p \in op.capture /\ Tree(from)[p] = Tree(tip)[p] BY <2>1 DEF Unmoved
    <3>2. CASE op.retry BY <2>1, <3>1, <3>2
    <3>3. CASE ~op.retry BY <3>1, <3>3
    <3> QED BY <3>1, <3>2, <3>3
  <2>4. \A p \in op'.capture :
          /\ BaseOf(p, op.sha)' # 0
          /\ Tree(BaseOf(p, op.sha))'[p] = Tree(op.sha)'[p]
    BY <2>1, <2>2, <2>3, StillCaptured
  <2>5. \A p \in op'.capture : Tree(op.onto)'[p] = Tree(op.sha)'[p]
    BY <2>1, <2>3 DEF Tree
  <2> QED BY <2>1, <2>4, <2>5
<1>6. CASE Stage
  <2>1. /\ pc = "stage" /\ pc' \in {"push", "conclude"}
        /\ op'.sha = op.sha /\ op'.onto = op.onto /\ op'.capture = op.capture
        /\ disk' = disk /\ commit' = commit
        /\ op'.staged \subseteq op.capture
        /\ \A p \in Paths \ op'.staged : op'.tree[p] = Tree(op.onto)[p]
    BY <1>6 DEF Stage, TypeOK, remote
  <2>2. op.sha \in Commits BY <1>1, <2>1 DEF ControlOK, Planning
  <2>3. \A p \in op'.capture :
          /\ BaseOf(p, op.sha)' # 0
          /\ Tree(BaseOf(p, op.sha))'[p] = Tree(op.sha)'[p]
    BY <2>1, <2>2, StillCaptured
  <2>4. \A p \in op'.capture : Tree(op.onto)'[p] = Tree(op.sha)'[p]
    BY <2>1 DEF Tree
  <2>5. Tree(op.onto)' = Tree(op.onto) BY <2>1 DEF Tree
  <2> QED BY <2>1, <2>3, <2>4, <2>5
<1>7. CASE PushRejected
  <2>1. /\ pc = "push" /\ pc' \in {"fetch", "conclude"}
        /\ op'.sha = op.sha /\ op'.onto = op.onto /\ op'.capture = op.capture
        /\ disk' = disk /\ commit' = commit
    BY <1>7 DEF PushRejected, TypeOK, remote
  <2>2. op.sha \in Commits BY <1>1, <2>1 DEF ControlOK, Planning
  <2>3. \A p \in op'.capture :
          /\ BaseOf(p, op.sha)' # 0
          /\ Tree(BaseOf(p, op.sha))'[p] = Tree(op.sha)'[p]
    BY <2>1, <2>2, StillCaptured
  <2>4. \A p \in op'.capture : Tree(op.onto)'[p] = Tree(op.sha)'[p]
    BY <2>1 DEF Tree
  <2> QED BY <2>1, <2>3, <2>4
<1>8. CASE pc' \notin {"fetch", "stage", "push"} BY <1>8
<1>9. CASE Cycle /\ ~Classify /\ ~CaptureFetch /\ ~Stage /\ ~PushRejected
  <2>1. pc' \notin {"fetch", "stage", "push"}
    BY <1>9 DEF Cycle, Fetch, CycleFails, Compute, PlanAll, ClassifyBlindly, PushCapture,
                PushAnswerLost, CaptureFails, Conclude, EndCycle, StartApply
  <2> QED BY <1>8, <2>1
<1>10. CASE Apply \/ Owner \/ Restart
  <2>1. pc' \notin {"fetch", "stage", "push"}
    BY <1>10 DEF Apply, Stash, StashFails, WriteFile, CheckConfig, ApplyFails, Undo, Record,
                 RecordFails, Owner, PressApply, Rollback, Restart
  <2> QED BY <1>8, <2>1
<1>11. CASE UNCHANGED vars BY <1>2, <1>11 DEF vars
<1> QED BY <1>3, <1>4, <1>5, <1>6, <1>7, <1>9, <1>10, <1>11 DEF Next, Others

-----------------------------------------------------------------------------
(* The theorems *)

FilesInv == TypeOK /\ BranchOK /\ ControlOK /\ RecordOK /\ CaptureOK

LEMMA Invariant == Spec => []FilesInv
<1>1. Init => FilesInv
  <2> SUFFICES ASSUME Init PROVE FilesInv OBVIOUS
  <2>1. TypeOK /\ BranchOK BY InitType
  <2>2. /\ pc = "idle" /\ op = NoOp /\ plan = NoPlan
        /\ DOMAIN NoPlan.seen = {} /\ NoPlan.sha = 0
    BY NoneFacts DEF Init, NoPlan
  <2>3. ControlOK
    BY <2>2, NoneFacts DEF ControlOK, NoOp, Pending, Changes, Planning, Applying
  <2>4. RecordOK /\ CaptureOK BY <2>2 DEF RecordOK, CaptureOK, Pending, Changes
  <2> QED BY <2>1, <2>3, <2>4 DEF FilesInv
<1>2. FilesInv /\ [Next]_vars => FilesInv'
  BY TypeStep, ControlStep, RecordStep, CaptureStep DEF FilesInv
<1> QED BY <1>1, <1>2, PTL DEF Spec

\* Every variable has its type at every step, and state.json names a capture
\* commit exactly when it lists captured files.
THEOREM TypeCorrect == Spec => []TypeOK
BY Invariant, PTL DEF FilesInv

\* What a push of captured edits does: it is on top of the tip it was staged
\* on, and replaces only staged files.
LEMMA PushFacts ==
  ASSUME FilesInv, [Next]_vars, CapturePushed
  PROVE  /\ op.onto = tip
         /\ Replaced \subseteq op.staged
         /\ op.staged \subseteq op.capture
<1>1. PushCapture \/ PushAnswerLost
  <2>1. pc = "push" /\ pc' = "conclude" /\ tip' # tip BY DEF CapturePushed
  <2>2. ~(LiveEdit \/ Push \/ ForcePush \/ Restart \/ HoldExpires \/ Owner)
    BY <2>1 DEF LiveEdit, Push, ForcePush, Restart, HoldExpires, Owner, PressApply, Rollback
  <2>3. ~Apply
    BY <2>1 DEF Apply, Stash, StashFails, WriteFile, CheckConfig, ApplyFails, Undo,
                Record, RecordFails
  <2>4. ~UNCHANGED vars BY <2>1 DEF vars
  <2>5. Cycle => PushCapture \/ PushAnswerLost
    BY <2>1 DEF Cycle, Fetch, CycleFails, Compute, Classify, ClassifyBlindly, CaptureFetch,
                Stage, PushRejected, CaptureFails, Conclude, EndCycle, StartApply, remote
  <2> QED BY <2>2, <2>3, <2>4, <2>5 DEF Next, Others
<1>2. /\ op.onto \in Commits /\ tip = Len(commit) /\ Len(commit) \in Nat
  BY <1>1, LenProperties DEF PushCapture, PushAnswerLost, FilesInv, TypeOK, ControlOK, BranchOK, Commits
<1>3. op.onto = tip
  <2>1. tip \in 1..op.onto
    BY <1>1, <1>2 DEF PushCapture, PushAnswerLost, FastForward, FilesInv, BranchOK
  <2> QED BY <1>2, <2>1 DEF Commits
<1>4. Tree(tip)' = op.tree
  <2>1. Advance(op.tree, Ancestors(op.onto)) BY <1>1 DEF PushCapture, PushAnswerLost
  <2>2. op.tree \in Trees /\ Ancestors(op.onto) \in SUBSET Commits
    BY <1>2, CommitTypes DEF FilesInv, TypeOK
  <2>3. commit'[tip'].tree = op.tree BY <2>1, <2>2, Advanced DEF FilesInv
  <2> QED BY <2>3 DEF Tree
<1>5. pc = "push" BY DEF CapturePushed
<1> QED BY <1>3, <1>4, <1>5 DEF Replaced, FilesInv, CaptureOK

\* As long as a file is on the conflict record on disk, no apply writes it and
\* no capture pushes it, at any step of any operation, through failing saves
\* and restarts (recon.go and capture.go, conflicts).
THEOREM RecordIsRespected == Spec => ConflictStands
<1>1. ASSUME FilesInv, [Next]_vars, NEW p \in disk.conflicted
      PROVE  /\ CapturePushed => p \notin Replaced
             /\ pc = "write" /\ op'.written # op.written => p \notin op'.written
  <2>1. ASSUME CapturePushed PROVE p \notin Replaced
    <3>1. op.staged \cap disk.conflicted = {}
      BY <1>1, <2>1 DEF CapturePushed, FilesInv, RecordOK
    <3> QED BY <1>1, <2>1, <3>1, PushFacts
  <2>2. ASSUME pc = "write", op'.written # op.written PROVE p \notin op'.written
    <3>1. p \notin DOMAIN op.stash
      BY <1>1 DEF FilesInv, ControlOK, RecordOK
    <3>2. op'.written \subseteq DOMAIN op.stash
      <4>1. CASE WriteFile BY <1>1, <4>1 DEF WriteFile, FilesInv, ControlOK, TypeOK
      <4>2. CASE op'.written = {} BY <4>2
      <4>3. Restart => op'.written = {} BY DEF Restart, NoOp
      <4>4. ~(UNCHANGED op) BY <2>2
      <4>5. ~(LiveEdit \/ Push \/ ForcePush \/ HoldExpires \/ Owner)
        BY <2>2, <4>4 DEF LiveEdit, Push, ForcePush, HoldExpires, Owner, PressApply, Rollback
      <4>6. ~Cycle
        BY <2>2 DEF Cycle, Fetch, CycleFails, Compute, Classify, ClassifyBlindly, CaptureFetch,
                    Stage, PushCapture, PushAnswerLost, PushRejected, CaptureFails, Conclude,
                    EndCycle, StartApply
      <4>7. Apply => WriteFile
        BY <2>2, <4>4 DEF Apply, Stash, StashFails, CheckConfig, ApplyFails, Undo,
                          Record, RecordFails
      <4> QED BY <1>1, <4>1, <4>2, <4>3, <4>4, <4>5, <4>6, <4>7 DEF Next, Others, vars
    <3> QED BY <3>1, <3>2
  <2> QED BY <2>1, <2>2
<1>2. FilesInv /\ [Next]_vars =>
        [\A p \in disk.conflicted :
           /\ CapturePushed => p \notin Replaced
           /\ pc = "write" /\ op'.written # op.written => p \notin op'.written]_vars
  BY <1>1
<1> QED BY <1>2, Invariant, PTL DEF Spec, ConflictStands

\* However the classification, other people's pushes, the retry after a lost
\* race and a lost answer interleave: the push of a capture replaces a file
\* only where the branch still says what it said at the base the file was
\* classified against; with an honest base, what both sides last agreed on.
THEOREM CapturesOverBase == Spec => CaptureOverBase
<1>1. ASSUME FilesInv, [Next]_vars, CapturePushed, NEW p \in Replaced, Honest(p)
      PROVE  Tree(tip)[p] \in agreed[p]
  <2>1. op.onto = tip /\ p \in op.capture BY <1>1, PushFacts
  <2>2. pc = "push" BY <1>1 DEF CapturePushed
  <2>3. /\ Tree(BaseOf(p, op.sha))[p] = Tree(op.sha)[p]
        /\ Tree(op.onto)[p] = Tree(op.sha)[p]
    BY <1>1, <2>1, <2>2 DEF FilesInv, CaptureOK
  <2> QED BY <1>1, <2>1, <2>3 DEF Honest
<1>2. FilesInv /\ [Next]_vars =>
        [CapturePushed => \A p \in Replaced : Honest(p) => Tree(tip)[p] \in agreed[p]]_vars
  BY <1>1
<1> QED BY <1>2, Invariant, PTL DEF Spec, CaptureOverBase

\* With capture on, a cycle whose comparison with the base worked leaves out
\* of its plan every file that was edited since both sides agreed, as long as
\* the base is honest: the verdicts of classify have no gap.
THEOREM PlansOverNoEdit == Spec => EditIsNotPlannedOver
<1>1. ASSUME FilesInv, [Next]_vars, pc = "classify", budget' = budget,
             NEW p \in op'.apply, Honest(p)
      PROVE  live[p] \in agreed[p] \cup {Gone}
  <2>1. CASE Classify
    <3>1. /\ ~ToCapture(Facts(p)) /\ ~ToConflict(Facts(p)) /\ ~ToDefer(Facts(p))
          /\ p \in DOMAIN op.seen
      BY <1>1, <2>1 DEF Classify, Route, FilesInv, TypeOK
    <3> DEFINE base == BaseOf(p, op.sha)
    <3>2. base # 0 /\ Tree(base)[p] \in agreed[p] BY <1>1 DEF Honest
    <3> HIDE DEF base
    <3>3. live[p] = Tree(base)[p] \/ live[p] = Gone
      BY <3>1, <3>2 DEF ToCapture, ToConflict, ToDefer, Facts, base
    <3> QED BY <3>2, <3>3
  <2>2. CASE op' = op BY <1>1, <2>2 DEF FilesInv, ControlOK
  <2>3. \A e \in {"edit", "push", "force", "fault", "stop"} : ~Spend(e)
    BY <1>1, BudgetType DEF FilesInv, TypeOK, Events
  <2>4. ~(ClassifyBlindly \/ LiveEdit \/ Push \/ ForcePush \/ Restart)
    BY <2>3 DEF ClassifyBlindly, LiveEdit, Push, ForcePush, Restart
  <2>5. Cycle => Classify
    BY <1>1, <2>4 DEF Cycle, Fetch, CycleFails, Compute, CaptureFetch, Stage, PushCapture,
                      PushAnswerLost, PushRejected, CaptureFails, Conclude, EndCycle, StartApply
  <2>6. ~Apply /\ ~Owner /\ ~HoldExpires
    BY <1>1 DEF Apply, Stash, StashFails, WriteFile, CheckConfig, ApplyFails, Undo, Record,
                RecordFails, Owner, PressApply, Rollback, HoldExpires
  <2> QED BY <1>1, <2>1, <2>2, <2>4, <2>5, <2>6 DEF Next, Others, vars
<1>2. FilesInv /\ [Next]_vars =>
        [pc = "classify" /\ budget' = budget =>
           \A p \in op'.apply : Honest(p) => live[p] \in agreed[p] \cup {Gone}]_vars
  BY <1>1
<1> QED BY <1>2, Invariant, PTL DEF Spec, EditIsNotPlannedOver

=============================================================================
