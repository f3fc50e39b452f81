------------------------------ MODULE GitOpsApply ------------------------------
(***************************************************************************)
(* One apply of the GitOps agent as a whole, and the Roll Back of it       *)
(* (ha_gitops_agent/internal/recon/recon.go, applyNow and Rollback): the   *)
(* file layer first, then the eight layers of the registries with what     *)
(* each waits for, the stash directory their journals share, the pointer   *)
(* that puts it under the Roll Back button, and the pruning of old ones.   *)
(*                                                                         *)
(* How a layer does its part is the subject of GitOpsFiles and of one      *)
(* module per layer; here a change is in effect or not, and a layer's part *)
(* of an apply succeeds, fails and is undone, or fails half way.  opLock   *)
(* admits one operation at a time, so the agent is one process, pc.        *)
(***************************************************************************)
EXTENDS Naturals, FiniteSets, Sequences

CONSTANTS
  Items,      \* the changes a repository may ask for, and the path guard permit
  LayerOf,    \* the layer of each: the file layer or one of Order
  Refused,    \* those whose declaration is an error, never applied
  Adopted,    \* those of HACS that are there already: no stash for them alone
  Manifests,  \* what the repository may declare, as sets of items
  PruneKeep,  \* how many old stash directories are kept
  MaxStashes, \* how many may be made
  MaxFaults   \* how often something fails, or the process is killed

Order == <<"registries", "devices", "entities", "dashboards", "addons", "hacs",
           "integrations", "subentries">>
Layers == {Order[n] : n \in 1..8}

ASSUME ConstantsAssumption ==
  /\ LayerOf \in [Items -> Layers \cup {"files"}]
  /\ Refused \subseteq {i \in Items : LayerOf[i] # "files"}
  /\ Adopted \subseteq {i \in Items : LayerOf[i] = "hacs"}
  /\ Manifests \subseteq SUBSET Items
  /\ PruneKeep \in Nat /\ MaxStashes \in Nat /\ MaxFaults \in Nat

VARIABLES
  world,    \* the changes in effect
  pending,  \* the plan: r.pending and r.pendingRegistry
  stash,    \* per stash directory that exists, the changes it can undo
  made,     \* how many stash directories were ever made; they are numbered
  point,    \* the directory under the Roll Back button: r.lastStashDir (0: none)
  disk,     \* the same in state.json
  pc,       \* where the operation holding opLock is
  at,       \* the layer whose turn it is
  todo,     \* what this apply is to do
  dir,      \* its stash directory (0: none yet)
  applied,  \* what its layers say they applied
  failed,   \* the layers that failed
  held,     \* the layers held back
  faults,   \* how much may still fail
  by,       \* history: in which directory's apply each change was made
  lost      \* history: changes whose journal could not be written

accumulated == <<applied, failed, held>>
local == <<at, todo, dir, accumulated>>
history == <<by, lost>>
vars == <<world, pending, stash, made, point, disk, pc, local, faults, history>>

-----------------------------------------------------------------------------
(* Data *)

Files == {i \in Items : LayerOf[i] = "files"}
In(layer) == {i \in Items : LayerOf[i] = layer}

\* What a layer waits for: it runs only if none of these failed or was held.
LayerDeps == [l \in Layers |->
  CASE l = "devices" -> {"registries"}
    [] l = "entities" -> {"registries", "devices"}
    [] l = "integrations" -> {"hacs"}
    [] l = "subentries" -> {"integrations"}
    [] OTHER -> {}]

\* These also wait for everything else.
WaitsOnAll == {"subentries"}

\* What these did before they failed stays and is reported applied; every other
\* layer undoes it.
Kept == {"hacs", "integrations", "subentries"}

\* These keep no journal.
NoJournal == {"hacs", "subentries"}

Fault == faults > 0 /\ faults' = faults - 1
NoFault == UNCHANGED faults

\* A directory that undoes the changes of S.
With(d, S) == [x \in DOMAIN stash \cup {d} |-> IF x = d THEN S ELSE stash[x]]

Newest(dirs) == {d \in dirs : Cardinality({e \in dirs : e > d}) < PruneKeep}

-----------------------------------------------------------------------------
(* Initial states: nothing was ever applied *)

Init ==
  /\ world = {} /\ pending = {}
  /\ stash = [d \in {} |-> {}] /\ made = 0 /\ point = 0 /\ disk = 0
  /\ pc = "idle" /\ at = 1 /\ todo = {} /\ dir = 0
  /\ applied = {} /\ failed = {} /\ held = {}
  /\ faults = MaxFaults
  /\ by = [i \in Items |-> 0] /\ lost = {}

-----------------------------------------------------------------------------
(* An apply *)

\* A cycle publishes what the repository asks for and is not so.
Check ==
  /\ pc = "idle"
  /\ \E manifest \in Manifests : pending' = manifest \ world
  /\ UNCHANGED <<world, stash, made, point, disk, pc, local, faults, history>>

StartApply ==
  /\ pc = "idle" /\ pending # {} /\ made < MaxStashes
  /\ pc' = "files" /\ todo' = pending
  /\ UNCHANGED <<world, pending, stash, made, point, disk, at, dir, accumulated,
                 faults, history>>

\* It ends, and what it kept track of is gone.
Return ==
  /\ pc' = "idle"
  /\ at' = 1 /\ todo' = {} /\ dir' = 0
  /\ applied' = {} /\ failed' = {} /\ held' = {}

\* S is in effect from now on, by this apply and its directory.  Of what was in
\* effect already the directory can only give back what was found.
Make(S, d) ==
  /\ world' = world \cup S
  /\ by' = [i \in Items |-> IF i \in S \ world THEN d ELSE by[i]]
  /\ lost' = lost \ (S \ world)

\* What the directory of the files holds.
ToStash == (todo \cap Files) \ world

\* The file layer: nothing to do, ...
NoFiles ==
  /\ pc = "files" /\ todo \cap Files = {}
  /\ pc' = "stash"
  /\ UNCHANGED <<world, pending, stash, made, point, disk, local, faults, history>>

\* ... or everything stashed, written and checked.  The button follows at once
\* in memory.
FilesApplied ==
  /\ pc = "files" /\ todo \cap Files # {}
  /\ made' = made + 1
  /\ dir' = made' /\ point' = made'
  /\ stash' = With(made', ToStash)
  /\ Make(todo \cap Files, made')
  /\ pc' = "stash"
  /\ UNCHANGED <<pending, disk, at, todo, accumulated, faults>>

\* A mutant of Pruned: the one under the button is not protected.
PrunedButDir(s, d, p) == [x \in Newest(DOMAIN s) \cup ({d} \cap DOMAIN s) |-> s[x]]

\* PruneStashDirs, on every way out of an apply: the newest are kept, and this
\* apply's own, and the one under the button.
Pruned(s, d, p) == [x \in Newest(DOMAIN s) \cup ({d, p} \cap DOMAIN s) |-> s[x]]

\* No stash, nothing written; a directory with half the copies may be left.
StashFails ==
  /\ pc = "files" /\ todo \cap Files # {}
  /\ Fault
  /\ \/ UNCHANGED made /\ stash' = Pruned(stash, 0, point)
     \/ made' = made + 1 /\ stash' = Pruned(With(made', {}), 0, point)
  /\ Return
  /\ UNCHANGED <<world, pending, point, disk, history>>

\* Written or not, it failed and was undone: the button stays where it was.
FilesUndone ==
  /\ pc = "files" /\ todo \cap Files # {}
  /\ Fault
  /\ made' = made + 1
  /\ stash' = Pruned(With(made', ToStash), made', point)
  /\ Return
  /\ UNCHANGED <<world, pending, point, disk, history>>

\* It failed and some of it could not be undone: Roll Back is the way to try
\* again, over a restart too if the pointer can be saved.
FilesLeft ==
  /\ pc = "files"
  /\ Fault
  /\ made' = made + 1
  /\ point' = made'
  /\ disk' \in {made', disk}
  /\ stash' = Pruned(With(made', ToStash), made', made')
  /\ \E S \in SUBSET (todo \cap Files) : S # {} /\ Make(S, made')
  /\ Return
  /\ UNCHANGED pending

\* Something the layers will do can be undone.
NeedsStashDir == \E i \in todo \ Files : i \notin Refused \cup Adopted

\* The layers share the directory of the files, or one made for them.
Allocate ==
  /\ pc = "stash"
  /\ IF dir = 0 /\ NeedsStashDir
     THEN \/ /\ NoFault
             /\ made' = made + 1
             /\ dir' = made'
             /\ stash' = With(made', {})
             /\ UNCHANGED failed
          \/ /\ Fault
             /\ failed' = {"stash"}
             /\ UNCHANGED <<made, dir, stash>>
     ELSE NoFault /\ UNCHANGED <<made, dir, stash, failed>>
  /\ pc' = "layers"
  /\ UNCHANGED <<world, pending, point, disk, at, todo, applied, held, history>>

NotOK == failed \cup held

HeldBack(layer) ==
  \/ layer \in WaitsOnAll /\ failed # {}
  \/ LayerDeps[layer] \cap NotOK # {}

Turn(layer) == pc = "layers" /\ at <= Len(Order) /\ layer = Order[at] /\ at' = at + 1

Unplanned(layer) == todo \cap In(layer) = {} \/ "stash" \in failed

\* registryApplyOutcome.run: nothing to do, or nowhere to note it, ...
Skip(layer) ==
  /\ Turn(layer) /\ Unplanned(layer)
  /\ UNCHANGED <<world, pending, stash, made, point, disk, pc, todo, dir,
                 accumulated, faults, history>>

\* ... held back, ...
Hold(layer) ==
  /\ Turn(layer) /\ ~Unplanned(layer) /\ HeldBack(layer)
  /\ held' = held \cup {layer}
  /\ UNCHANGED <<world, pending, stash, made, point, disk, pc, todo, dir, applied,
                 failed, faults, history>>

Runs(layer) == Turn(layer) /\ ~Unplanned(layer) /\ ~HeldBack(layer)

Journal(layer, S) ==
  stash' = IF layer \in NoJournal \/ dir = 0 THEN stash ELSE With(dir, stash[dir] \cup (S \ world))

\* ... or run, with success: all but the refused is in effect, ...
Succeeds(layer) ==
  LET S == (todo \cap In(layer)) \ Refused
  IN /\ Runs(layer) /\ NoFault
     /\ Make(S, dir)
     /\ applied' = applied \cup S
     /\ Journal(layer, S)
     /\ UNCHANGED <<pending, made, point, disk, pc, todo, dir, failed, held>>

\* ... or without: a kept layer leaves what it had done, any other undoes it, or
\* all but what resists.
Fails(layer) ==
  /\ Runs(layer) /\ Fault
  /\ failed' = failed \cup {layer}
  /\ \E S \in SUBSET ((todo \cap In(layer)) \ Refused) :
       /\ S # todo \cap In(layer)
       /\ Make(S, dir)
       /\ applied' = IF layer \in Kept THEN applied \cup S ELSE applied
       /\ Journal(layer, S)
  /\ UNCHANGED <<pending, made, point, disk, pc, todo, dir, held>>

\* The journal cannot be written after a change: what was done stays and is
\* reported applied, the last of it is in no journal.
JournalFails(layer) ==
  /\ Runs(layer) /\ Fault /\ layer \notin NoJournal
  /\ failed' = failed \cup {layer}
  /\ \E S \in SUBSET ((todo \cap In(layer)) \ Refused) : \E last \in S :
       /\ world' = world \cup S
       /\ by' = [i \in Items |-> IF i \in S \ world THEN dir ELSE by[i]]
       /\ lost' = (lost \ (S \ world)) \cup ({last} \ world)
       /\ applied' = applied \cup S
       /\ Journal(layer, S \ {last})
  /\ UNCHANGED <<pending, made, point, disk, pc, todo, dir, held>>

\* A mutant of StillPending: what was held back is taken for done.
PendingButHeld ==
  IF failed = {} THEN todo \cap Refused
                 ELSE {i \in (todo \ Files) \ applied : LayerOf[i] \notin held}

\* What the plan still has afterwards: the refused, and after a failure whatever
\* no layer reports applied.
StillPending == IF failed = {} THEN todo \cap Refused ELSE (todo \ Files) \ applied

\* The layers have had their turn: the button moves, the state is saved - or
\* not, and the plan stays as it is - and the old directories go.
Save ==
  /\ pc = "layers" /\ at > Len(Order)
  /\ point' = IF dir # 0 THEN dir ELSE point
  /\ \/ /\ NoFault
        /\ disk' = IF dir # 0 THEN dir ELSE disk
        /\ pending' = StillPending
     \/ Fault /\ UNCHANGED <<disk, pending>>
  /\ stash' = Pruned(stash, dir, point')
  /\ Return
  /\ UNCHANGED <<world, made, history>>

-----------------------------------------------------------------------------
(* Roll Back *)

PressRollBack ==
  /\ pc = "idle" /\ point # 0
  /\ pc' = "restore"
  /\ UNCHANGED <<world, pending, stash, made, point, disk, local, faults, history>>

\* The files first: every file of the stash, also of a second press.
Restore ==
  /\ pc = "restore" /\ point \in DOMAIN stash
  /\ NoFault
  /\ world' = world \ (stash[point] \cap Files)
  /\ pc' = "invert"
  /\ UNCHANGED <<pending, stash, made, point, disk, local, history>>

\* Some of them cannot be restored, or the directory cannot be read: nothing
\* else is tried.
RestoreFails ==
  /\ pc = "restore"
  /\ IF point \in DOMAIN stash THEN Fault ELSE NoFault
  /\ \E S \in SUBSET (IF point \in DOMAIN stash THEN stash[point] \cap Files ELSE {}) :
       world' = world \ S
  /\ pc' = "idle"
  /\ UNCHANGED <<pending, stash, made, point, disk, local, history>>

\* A mutant of Undone: what the add-ons' journal still holds is overlooked.
UndoneButAddons(left) == left \subseteq In("addons")

Undone(left) == left = {}

\* The journals of the registry layers, of the add-ons and of the integrations:
\* each is undone as far as it goes, whatever becomes of the others, and keeps
\* what it could not undo; then the state is saved.  If all that succeeds the
\* button is gone, over a restart too if the pointer can be saved.
Invert ==
  /\ pc = "invert"
  /\ \E left \in SUBSET (stash[point] \ Files), saved \in BOOLEAN :
       /\ IF left = {} /\ saved THEN NoFault ELSE Fault
       /\ world' = world \ ((stash[point] \ Files) \ left)
       /\ stash' = With(point, (stash[point] \cap Files) \cup left)
       /\ IF Undone(left) /\ saved
          THEN point' = 0 /\ disk' \in {0, disk}
          ELSE UNCHANGED <<point, disk>>
  /\ pc' = "idle"
  /\ UNCHANGED <<pending, made, local, history>>

-----------------------------------------------------------------------------
(* The process *)

\* It is killed, and the next one takes the pointer from state.json while the
\* directory is there.
Crash ==
  /\ Fault
  /\ point' = IF disk \in DOMAIN stash THEN disk ELSE 0
  /\ pending' = {}
  /\ Return
  /\ UNCHANGED <<world, stash, made, disk, history>>

-----------------------------------------------------------------------------
(* The specification *)

FileLayer == \/ NoFiles \/ FilesApplied \/ StashFails \/ FilesUndone \/ FilesLeft
Layer(l) == \/ Skip(l) \/ Hold(l) \/ Succeeds(l) \/ Fails(l) \/ JournalFails(l)
RollBack == PressRollBack \/ Restore \/ RestoreFails \/ Invert

Next ==
  \/ Check \/ StartApply \/ FileLayer \/ Allocate
  \/ \E l \in Layers : Layer(l)
  \/ Save \/ RollBack \/ Crash

Spec == Init /\ [][Next]_vars

-----------------------------------------------------------------------------
(* Properties *)

\* Every variable keeps the values the code can give it.
TypeOK ==
  /\ world \subseteq Items /\ pending \subseteq Items /\ todo \subseteq Items
  /\ made \in Nat /\ point \in 0..made /\ disk \in 0..made /\ dir \in 0..made
  /\ DOMAIN stash \subseteq 1..made /\ stash \in [DOMAIN stash -> SUBSET Items]
  /\ pc \in {"idle", "files", "stash", "layers", "restore", "invert"}
  /\ at \in 1..9
  /\ applied \subseteq Items /\ held \subseteq Layers
  /\ failed \subseteq Layers \cup {"stash"}
  /\ faults \in 0..MaxFaults
  /\ by \in [Items -> 0..made] /\ lost \subseteq Items

\* The directory under the Roll Back button is there: neither the pruning after
\* an apply, on whatever way out, nor a restart with an older state.json puts the
\* button over one that is gone.
ButtonHasItsStash == point # 0 => point \in DOMAIN stash

\* What must be in effect before a change of its layer is made.
Needs(i) == {k \in todo \ Refused : LayerOf[k] \in LayerDeps[LayerOf[i]]}

\* At the end of an apply whose state is saved, each thing it was to do is
\* either still in the plan, or it is in effect and so is everything its layer
\* builds on: nothing drops out between the layers, and nothing is taken for done
\* over a layer that was undone.
AppliedOrPending ==
  [][Save /\ UNCHANGED faults =>
       \A i \in todo : \/ i \in pending'
                       \/ i \in world' /\ (LayerOf[i] # "files" => Needs(i) \subseteq world')]_vars

\* When a Roll Back gives the button up, nothing the apply under it made is left,
\* save what no journal is kept of and what could not be written into one.
RollBackUndoes ==
  [][Invert /\ point' = 0 =>
       \A i \in world' : by[i] = point => LayerOf[i] \in NoJournal \/ i \in lost]_vars

\* What applyFileLayer says of files (recon.go:2411), asked of the layers: an
\* apply that leaves nothing to undo does not move the button.  It does.
UndoneKeepsTheButton == [][Save /\ point' # point => stash[dir] # {}]_vars
=============================================================================
