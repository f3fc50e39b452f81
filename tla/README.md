# A TLA+ model of hassio-addons

This directory specifies the two stateful programs of the repository, the
`onepassword_secrets` and `ha_gitops_agent` Home Assistant add-ons, in TLA+. TLC
model-checks the specifications on small instances, and TLAPS checks proofs of
what matters most for every instance. `PROJECT.json` is the machine-readable
index: which definition models which lines, which run checks which property,
which mutation of the code each property catches.

## 1. The system

### onepassword_secrets (`src/onepassword_secrets`)

Reads values from 1Password (through a Connect server) and keeps Home
Assistant's secrets files in step with them.

| component | state | operations |
| --- | --- | --- |
| sync engine, `internal/engine` | caches (items, scan, add-on options), the status, `runMu` | `SyncOnce` = fetch, scan, plan, `resumePending`, `write`, `refresh`, `publish`; `SyncNow`, `RestartCoreNow`, `Run` |
| durable state, `internal/state` | `state.json`: managed keys per file, `RestartPending`, `Pending`, `HeldBack`; `/data/previous`: plaintext copies of files about to be overwritten | `Load`, `Save` (atomic rename), `Restore` |
| render and scan, `internal/render`, `internal/refscan` | none | which keys of a file are set, kept, orphaned, removed; who refers to a key |
| discovery, `internal/discover` | none | vault items to keys, with conflicts |
| Connect, `internal/opconnect`, `internal/connectd` | two supervised processes, back-off | HTTP requests, restart on exit |
| web panel, options, HA client | none of their own | buttons, configuration, requests to Core and Supervisor |

The engine is the program's core: it overwrites files that Home Assistant
reads, makes a third party pick the change up, and undoes the change if that
party rejects it. It is sequential (one cycle at a time under `runMu`) but
every request it makes can fail or time out, it can be stopped or killed at any
of them, and the files, Core and the other add-ons change under its feet. What
makes it correct:

* a changed value reaches its consumers, or it is on record that it has not;
* a rejected change is undone completely, also by a later process, and is not
  tried again on every poll;
* nothing in the owner's files is lost on the way;
* it comes to rest.

### ha_gitops_agent (`src/ha_gitops_agent`)

Keeps a Home Assistant configuration in step with a git repository, both ways.

| component | state | operations |
| --- | --- | --- |
| reconciler, `internal/recon` | the published plan and its id, `opLock`, `checkLock`, pause flag and file, held plan with doubling delay, outage start, `lastCycleFailed`, `lastRollbackAt` | `Reconcile`, `Apply`, `ApplyReviewed`, `Rollback`, `Import`, `CommitBack`, `SyncNow` (webhook), `SetPaused`, add-on updates |
| applier, `internal/applier` | live files, a stash directory per apply with `manifest.json`, `state.json` | `Apply` = guard, stash, write, check, reload or restart, probe, roll back; `RollbackFrom`, `PruneStashDirs` |
| git synchronisation, `internal/gitsync` | the clone, the remote branch | fetch, checkout, commit and non-force push of captured live edits, with one retry |
| differ, ignore rules | none | which files differ from what was last applied, masked |
| registry layer, `internal/registries`, `regapply/apply.go`, `rollback.go` | manifest id to live id; the journal of an apply | plan, create, adopt, update, delete, forget floors, areas, labels, zones, persons, helpers; replay the journal backwards |
| device and entity layers, `internal/devices`, `entities` | per thing, the field values from before the agent | lay fields over, give them back |
| dashboard layer, `internal/dashboards` | id to live id | metadata, content and resources |
| add-on layer, `internal/addonopts`, `regapply/addonopts.go` | the options from before the agent | read, overlay, post, restart, revert |
| integration layers, `internal/hacs`, `flows`, `subentries` | id to live id, what was sent, remembered failures, domains waiting for a restart | download, drive flows, reconfigure |
| failure memory, history, webhook queue | small files | remember failures, append, accept and debounce |
| websocket client, web UI | connection, none | request/response, pages |

Hard here: one operation at a time but requested by a poll, a webhook, a panel
and a notification; a plan that goes stale between being shown and being
applied; a live edit racing an apply; a failed apply that must be undone and not
retried at once; a crash at any step of it.

### vector (`src/vector`)

A packaged third-party log shipper with a start script and a stateless text
pipeline. Not modelled: it keeps no state of its own to be wrong about.

## 2. The plan

Done, each with its MC module:

1. `SecretsEngine`, `SecretsEngineProofs`: the secrets add-on, section 3.
2. `GitOpsFiles`, `GitOpsFilesProofs`: the file layer of the GitOps agent,
   section 4.
3. `GitOpsControl`, `GitOpsControlProofs`: what starts and stops its operations;
   `GitOpsAgent`: what it promises about them, and the refinement, section 5.
4. `GitOpsRegistries`, `GitOpsCustomize`, `GitOpsDashboards`,
   `GitOpsAddonOptions`, `GitOpsIntegrations`: how the layers plan, apply and
   roll back, one module for each way of doing it; `GitOpsCustomizeProofs`,
   `GitOpsAddonOptionsProofs`, `GitOpsIntegrationsProofs`; `PlanSequences`,
   `PlanSequencesProofs`: how plans are put together, and what they hold; section 6.
5. `GitOpsApply`, `GitOpsApplyProofs`: one apply and its Roll Back over all
   layers, section 7.

The modules meet as follows. `GitOpsControl` decides when an operation runs and
knows nothing of what it does. `GitOpsApply` takes an apply apart into layers and
knows of a layer only that it succeeds, fails and is undone, or fails half way.
`GitOpsFiles` and the five layer modules fill in one layer each, with the calls it
makes and what the rest of the world does between them. A run over two of these
levels at once is out of TLC's reach; what the upper level takes for granted
of the lower is a property of the lower (`RolledBackRestores` of each layer is
what `Fails` and `Invert` of `GitOpsApply` say of a layer that reports success).

What could come next, most worthwhile first:

6. Proofs about registries and dashboards along the lines of those about the other
   layers (`RolledBackRestores`, `SettledMeansNoPlan`).
7. `SecretsTransaction`: the abstract promise of a change (all old, in flight,
   all new; undone or done), and its refinement by `SecretsEngine`.
8. `GitOpsImport`: import, commit-back and the base they leave, composed with
   `GitOpsFiles`.
9. `GitOpsAddonUpdates`: add-on updates (`checkLock` beside `opLock`, the version
   record) and the history.
10. `GitOpsHook`: authentication, replayed deliveries, lockout.
11. `ConnectSupervisor`: back-off and restart of the two Connect processes.
12. `Discovery`, `Ignore`: pure operators against a reference definition.

## 3. SecretsEngine

One module for `SyncOnce` and everything it calls that changes state. `pc` says
where the cycle is: the step it takes next is always one call that can be
observed, fail, or be separated from the next by a crash - a `Save`, a file
write, a request. What lies between two such calls is one action.

| variable | in the code |
| --- | --- |
| `vault`, `granted` | what `discover.Build` makes of the vaults; whether the token sees them |
| `file`, `prev` | the secrets files, per key; `/data/previous` |
| `disk`, `st` | `state.json`; `e.st` |
| `job` | the `fileJob`s of `plan`: current and rendered content, managed keys |
| `p`, `resumed` | the `PendingRefresh` being refreshed; whether it is an earlier process's |
| `work` | the loop variables of `write`, `rollback`, `refresh` |
| `cache` | `e.addonRefs`, `e.addons`, `e.addonsLoaded`, `publishedAt` |
| `core`, `sensor`, `running`, `addonUp` | Core, the pushed sensor, what each consumer last read, the running add-ons |
| `lost`, `refused`, `origin` | history for the properties; no action reads it to decide anything |

The path of a change: `StartCycle`, `BeginWrite` (pending saved), per file
`KeepPrevious` and `WriteFile`, `Remember` (second save), `CheckConfig`,
`Reload` per integration, `ReloadsDone`, then in mode `auto` `GuardRestart`,
`RestartCore`, `AwaitCore`, else the waiting list is saved; `SaveStage`,
`AwaitSupervisor`, `RestartAddon` per add-on, `Finish`, `Publish`. Leaving the
path: `RestoreFile` per file, `UndoState`, `HoldBack`, and after a failed
restart another one. A new process starts with `NewProcess` and takes a pending
change up with `Resume`.

Abstracted: a file is the value of each key and whether it carries the header;
a value is a model value; a signature is the set of (file, key, value) moved,
which is what the code's string of fingerprints identifies; which references
exist is the constant `Uses`. A consumer is taken to use only keys that
1Password may hold (`HandKeys` are the owner's own). Assumed: the option
`restart_addons` is on; ESPHome devices and unknown readers are only notified
about and left out, as are notifications, events and the activity log. A time
limit is a choice: a wait may end badly whenever the thing waited for has not
happened.

### What is checked

Bounds are in `MCSecretsEngine`: each kind of event (an edit in 1Password, a
hand edit, a failing write or request of ours, a stop or crash, a Core restart
from elsewhere, an add-on toggled) happens at most once and at most two happen
in all, at any step and in any order. Two events are enough for what the
hazards describe: a fault and then a crash, a crash and then an edit, an outside
restart and then a stop. What is not budgeted is unlimited: polls, answers of
Core that say no, waits that end badly, Sync now, the panel's restart.

| run | instance | shows |
| --- | --- | --- |
| `secrets_protocol` | one file, one key, two values; `light` reloads, `mqtt` needs a restart; all modes | `TypeOK`, `StaleIsRemembered`, `RollbackRestores`, `HeldBackNotRetried` |
| `secrets_files` | two files, a key of 1Password's and one of the owner's; `light` reads one file, the add-on `core_ssh` the other | `StaleAddonIsRemembered`, `NothingIsLost`, `UsedKeysStay` |
| `secrets_settles` | the first, under fairness, without symmetry | `Settles` |

Because of three divergences (section 9), `StaleIsRemembered` exempts `lost`: consumers whose refresh
was given up by a rollback, by a mistaken outside restart, by a failed add-on
restart. `lost` grows in exactly those actions.

### Fairness

`FairSpec` assumes `WF(Engine)`: the cycle runs in a goroutine, and every call
it makes has a timeout, so a step that stays possible is taken. It also assumes
`SF(StartCycle)`: the panel's restarts take `runMu` too, and Go's mutex hands
over to a waiter after a millisecond, so they cannot keep the poll out for ever.
Nothing is assumed of Core, of the vault or of the owner: Core need never come
back. `Settles` exempts the owner who presses Sync now for ever, since that
retries what is held back.

### What is proved

For every set of keys, files, integrations, add-ons, uses, modes and budgets
that satisfies `ConstantsAssumption` and `NoneAssumption` (TLC evaluates both on
every run). The first part of `SecretsEngineProofs`:

* `TypeCorrect`: `Spec => []TypeOK`. `TypeOK` alone is not inductive: a step
  that reads `job.new` needs `job` to be a plan. `ControlOK` adds, per value of
  `pc`, which of `job`, `p`, `st.pending` and `origin` are there.
* `StaleRemembered`: `Spec => []StaleIsRemembered`. The strengthening is
  `StaleInv`, with three parts. `Accounted(d)`: memory and disk both know of a
  stale integration, and each stage of the refresh knows where it still is.
  `PendingInHand`: the change being refreshed is the pending one, and it names
  the keys the plan moves. `PlanIsCurrent`: a file not yet written still holds
  the secrets the plan was made from, so that the keys that move in the file are
  those the plan says move. The decisive step is `WriteFile` (lemma
  `WriteReaches`): a write makes a consumer stale only through a key in the
  pending change.

Its second part is about what is lost and what comes back:

* `HeldBackStays`: by `HeldOK`: while the engine decides what to write, what it
  holds back in memory is what is on disk, so a stop before the save cannot
  bring a refused change back.
* `UsedKeysAreKept`: by `PlanOK`: of a plan that is in hand every used key stays
  in the new content, and the file still holds what the plan was made from.
* `StaleAddonRemembered`: by `AddonsOK`, which is `Accounted` for add-ons, with
  the list that `auto` restarts in the place of the reloads.
* `NothingLost`, `RollbackIsComplete`: by `LossInv`, a conjunction of parts that
  each say what one record is worth at each step: the copies in `/data/previous`
  (`CopiesOK`), the content as the change began (`RecordsOK`), the files being
  written (`WritingOK`) and being undone (`UndoingOK`), a plan's existence
  (`PlanExistsOK`) and that nothing is recorded when nothing is under way
  (`EmptyOK`). The crash is the case they are for: each must hold at every
  step with the memory gone, and let a process that finds only the disk go on.

TLC has checked the invariants on the instances of `secrets_protocol` and
`secrets_files`. Only `Settles` is left to TLC alone: liveness is outside the
prover's reach.

### Not modelled

Unreadable or refused target files, YAML anchors and duplicates, `restart_addons`
off, the value fingerprints kept per key, the activity log, notifications, the
event fired at the end, token expiry, the Connect server's own life cycle, and a Core
that only misses one check when it is told to restart: `restartAndWait` counts that as
going down, whereas `RestartCore` of the model goes on only when Core did.

## 4. GitOpsFiles

One cycle (`reconcileNow` and the capture at its tail), one apply and Roll Back,
for configuration files. `opLock` admits one operation at a time, so the agent
is one process whose place is `pc`; the owner, other committers, failing
requests and the end of the process interleave with each of its steps.

| variable | in the code |
| --- | --- |
| `commit`, `tip` | every commit ever pushed with its ancestors; the tracked branch |
| `live` | the files under `/homeassistant` |
| `disk` | `state.json`: `LastGoodSHA`, `LastCaptureSHA` and `LastCapturePaths`, `FileManifest`, `Conflicts`, the rollback pointer |
| `plan`, `held`, `conflicts`, `point` | `r.lastSHA` and `r.pending`; the held plan; the mirror of the record; `r.lastStashDir` |
| `pc`, `op` | which step of which operation is next, and what it has in hand |
| `opts` | `dry_run` and `capture_live_changes` of this process |
| `agreed` | history: what the branch and the live file last both said |

A cycle is `Fetch`, `Compute`, then with capture on `Classify` (or
`ClassifyBlindly`, when git cannot compare the base), `CaptureFetch`, `Stage`,
`PushCapture` with its retry after a lost race, `Captured` and `Conclude`;
`StartApply` goes on to an apply: `Stash`, `WriteFile` per file, `CheckConfig`,
`Applied` and `Record`, or `Undo`. `Rollback` restores the stash in one step.
The three-way decision is pure: `BaseOf` chooses the merge base, `Facts` is what
`classify` is told, and `ToCapture`, `ToConflict`, `ToDefer`, `Standing`,
`Waits` and `Route` are its verdicts.

Abstracted: a file is one content; `Large` and `Literal` mark contents over
`maxCompareBytes` and those a literal secret keeps off the branch. What starts a
cycle and whether a pause stops it before the apply is open here (`GitOpsControl`
decides it). Left out: the registry layers, which have modules of their own; import and
commit-back with their base; parking of conflicted copies, `ignore_keys`, SOPS
files, the path guard; the pruning of old stashes is in `GitOpsApply`. A short outage, which keeps the
old plan, is a stutter.

### What is checked

| run | instance | shows |
| --- | --- | --- |
| `gitops_files` | two files, two contents, capture on or off; any three of two live edits, a push, a rewrite of the branch, a fault, a restart | `CaptureOverBase`, `EditIsNotPlannedOver`, `ConflictStands` |
| `gitops_settles` | one file, a plain content, a large one, one with a secret; fresh or settled; any two events but a rewrite; fair | `Settles` |

Two files are what it takes for one to be applied, captured or recorded while the
other waits; three events are an edit and a push, which make a conflict, and
something that goes wrong then.

Because of two divergences (section 9), `CaptureOverBase` and
`EditIsNotPlannedOver` are stated for
files whose recorded base is `Honest`, that is, is what both sides last agreed
on: given that, no race with a push, no retry and no lost answer makes a capture
revert a commit or a plan overwrite an edit. How a base becomes dishonest is what
the two divergences show.

### Fairness

`FairSpec` assumes that an operation that can go on does (its calls have
timeouts), that a cycle ever starts again (the timer), and, strongly, that it may
go on to an apply and that a hold comes to its end: both are possible again and
again and each attempt is the timer's. Nothing is assumed of people. `Settles`
exempts a Roll Back pressed for ever, which undoes what was applied.

### What is proved

`GitOpsFilesProofs`, for every set of files, contents, literals and budgets under
the assumption of the module, by one inductive invariant, `FilesInv`: the types,
what the branch holds (`BranchOK`), what each step has in hand (`ControlOK`),
the conflict record (`RecordOK`) and the capture in hand (`CaptureOK`).

* `TypeCorrect`.
* `RecordIsRespected` (`ConflictStands`): no plan, no held plan and no capture in
  hand names a file of the record on disk. A plan is made after the record of
  its cycle is saved, and when that save fails there is no apply.
* `CapturesOverBase` (`CaptureOverBase`): a capture in hand of a file with an
  honest base was classified against a branch that said the base; a push that
  lost its race is classified again before it is retried.
* `PlansOverNoEdit` (`EditIsNotPlannedOver`): from the verdicts of `Classify` by
  cases; the invariant supplies that mirror, base and manifest are of one cycle.

Only `Settles` is model-checked alone.

## 5. GitOpsControl

The goroutines of the agent as processes of their own, meeting in `opLock`,
`pauseMu` and the webhook's slot. What a plan says is reduced to whether there is
one (`pending`), an apply to its outcomes, Roll Back to whether it restored.

| variable | in the code |
| --- | --- |
| `lock`, `op` | who holds `opLock`; which step of `reconcileNow`, `cycleLocked`, `applyNow` or `Rollback` is next, and what its `pushStatus` has read |
| `pending`, `point`, `rolledAt` | `r.pending` or registry operations; `r.lastStashDir`; `r.lastRollbackAt` |
| `hook` | `pendingTrigger`: the token in `ready`, the time `at` |
| `handler`, `worker` | a delivery's request between acceptance and the 202; the webhook's worker |
| `loop`, `countdown` | `RunLoop` and `tick`; `r.nextTickUTC` |
| `paused`, `file`, `dirty` | `r.paused`; `/data/paused`; `r.pauseFileDirty` |
| `pauseMu`, `press` | who holds `pauseMu`; who is in `SetPaused`, and where |
| `sensor` | the attribute `paused` of `sensor.gitops_agent_status` |
| `opts`, `stopping` | this process's options; the cancelled lifetime context |
| `budget`, `clock` | the bound on events; the times the code compares, as a count |
| `owed`, `undone` | history for the properties; no guard reads them |

The processes: a delivery is `Accept`, `Record`, `Wake`; the worker `Receive`,
`Take`, then `SyncNow` or `Drop` once it has the lock, `EndSpacing`; the timer
`Alarm`, `Tick`, and either `RetryNothing` or `RetryBegin`/`RetryWrite` and
`LoopSend` (paused), or `TryCycle` and `Rearm`; a press `Press`, `WriteFlag`,
`PressSend`. The operation holding the lock takes `Fetch`, `OpSend`,
`StartApply` or `Decline`, `Apply`, or `Restore`, `Stamp`, `PauseAfterRollback`
and `PauseDone`.

Merged or left out: what a `pushStatus` says is read in the step before it and
arrives in a step of its own, which is what lets two pushes overtake each other.
The pushes at the start of an apply and of a Roll Back are left out: the one at
the end says no less. The token a resume leaves in `wake` is not kept, since the
timer may fire at any moment anyway. A held plan is a `Decline`. Deliveries are
numbered in the order in which they are accepted. A press that changes nothing,
and a button refused because the lock is taken, change nothing. Import,
commit-back and add-on updates, which hold the lock too, are to come.

### What is checked

| run | instance | shows |
| --- | --- | --- |
| `gitops_control` | two pages; the budgets below | `TypeOK`, `PauseIsRecorded`, `KeepsThePromise`, `DeliveryIsServed`, `SensorSettles` |

`gitops_control` starts with one of three budgets: two deliveries and a Roll Back
(the slot, the token and the time between two requests and the worker); any two
of two presses, a Roll Back, a fault, a stop and a Core restart (the flag, its
file and the sensor); any two of a delivery, a press, a Roll Back and a stop
(all processes together). Two concurrent presses and the timer's retry are all
that can meet in the flag file; two deliveries are all that the slot can hold
apart. Timer ticks, Check Now, Apply, outcomes of plans and applies are
unlimited.

`KeepsThePromise` is the refinement. `GitOpsAgent` has no goroutines, locks or
files: what the operation under way is at, who started it, whether a Roll Back
stands, and whether that is on record. It says that there is one operation at a
time; that unattended (the timer, the webhook) only a plan is applied that a
check has just made from the remote; that once a Roll Back has restored the files
nothing is applied unattended until somebody resumes; and that a stop forgets a
Roll Back only if it was not on record. The mapping: `doing` is read off `op`,
`by` is the holder of `opLock`, `stands` is the history variable `undone`, and
`recorded` is the flag file. It is as good as that file: a Roll Back whose pause
could not be written, or that was killed before it, is not remembered by the next
process. (That a delivery older than the Roll Back may still start a cycle does
not matter here: it applies nothing. Section 9 has that.)

### Fairness

Every goroutine is scheduled (`WF` of the requests, the worker, the timer loop,
the presses and the operation; each call they make has a timeout), and a waiter
gets `opLock` in the end (`SF(Sync)`: Go's mutex hands over to a waiter after a
millisecond; the buttons and the timer only try it). A process told to stop ends.
Nobody has to deliver, press or stop. `DeliveryIsServed` and `SensorSettles`
rest on exactly this: the latter on the timer's ticks, which push while paused.

### What is proved

`GitOpsControlProofs`, for any number of deliveries and pages and any options and
budgets under `ConstantsAssumption`:

* `TypeCorrect`: `Spec => []TypeOK`. `TypeOK` is inductive: with the types it
  says that `opLock` is held exactly while an operation is under way and
  `pauseMu` exactly while somebody writes the flag file. The steps are grouped by
  process, one lemma each, and under each step the parts it can disturb.
* `PauseRecorded`: `Spec => []PauseIsRecorded`. The strengthening `RecordInv`
  says that whoever writes the file writes the flag as it is now: nobody can
  change the flag meanwhile, because the flag and the file are set under one
  lock. (A press that ignores `pauseMu` is the mutant.)
* `CountdownOff`: `Spec => []NoCountdownWhilePaused`, which is inductive.
* `RollbackKept`: `Spec => []RollbackStands`. The strengthening `RollbackInv`
  says what protects the restored files: the flag, or `dry_run`, or, between the
  restore and the flag, the lock that the Roll Back still holds.
* `Implements`: `Spec => KeepsThePromise`. Each step of the control is one of
  `GitOpsAgent` or leaves its variables alone (`StepRefines`, by process); that
  an unattended apply is one the promise allows is `RollbackInv`.

Only model-checked: `DeliveryIsServed` and `SensorSettles`, since liveness is out
of the prover's reach.

## 6. The layers

Five modules, one for each way a layer deals with Home Assistant. They share a
frame: `desired` is the manifest at the checked-out commit; `plan` is what a cycle
publishes; an apply executes one operation per step against what it fetched at
its beginning, appends to the journal (`executed`, on disk in `journals`) after
each, and saves its record only at the end; a failure undoes, newest first;
Roll Back replays the journal of the apply under the button. `Push`, `Edit` and
`Crash` interleave with every step. An unanswered call may or may not have
landed, and a failed connection ends the apply. Two stash directories are kept,
the newest and the one under the button. `before` and `origin` are history: what
an undo is to bring back, forgotten as soon as somebody else has changed it.

| module | own to it |
| --- | --- |
| `GitOpsRegistries` | objects have live ids given by Home Assistant, which are used again; items refer to each other within a plan; an item adopts an object of its name; a renamed id takes its object over; deleting a floor takes it off its areas |
| `GitOpsCustomize` | nothing is created: the first write of a field records what it found, the original; fields that an integration holds are left alone; two layers share one journal |
| `GitOpsDashboards` | metadata and content are two calls; a resource is matched by its path, whose query HACS rewrites; YAML mode refuses writes |
| `GitOpsAddonOptions` | read, overlay, post the whole, restart and wait; the revert when that fails; references to secrets; never the agent itself |
| `GitOpsIntegrations` | Home Assistant does not read data back, so what was sent is only on record; nothing is undone on failure; failures are remembered with the data that failed; code that is downloaded is loaded when somebody restarts Core; three layers that wait for each other |

Abstracted: a field is one value, a manifest one of a few; floors, areas and
helpers stand for all six registries; a flow of several forms is one step; a
connection is up or not. Errors that refuse a whole manifest (`Loaded`), and
those that leave one item out (the operation `error`), are kept apart as in the
code.

### What is checked

| run | instance | shows |
| --- | --- | --- |
| `gitops_registries` | two floors, two areas, a helper, two names; five manifests, one dangling, one malformed; empty or furnished with one change, and one of them with two | `RolledBackRestores`, `SettledMeansNoPlan`, `DeclaredObjectsSurvive` |
| `gitops_customize` | two devices, an entity; two entries that match by name; four manifests | `RolledBackRestores`, `SettledMeansNoPlan`, `RestoreGivesBack`, `IntegrationDecides` |
| `gitops_dashboards` | a dashboard, two resources, two paths; five manifests; three starts | `RolledBackRestores`, `SettledMeansNoPlan`, `OnlyOwnedIsDeleted`, `NoTwinResource` |
| `gitops_addons` | two add-ons and the agent, two options, a reference; four manifests | `RolledBackRestores`, `SettledMeansRunning`, `RestoreGivesBack`, `UndeclaredSurvive` |
| `gitops_integrations` | a repository, two integrations, a subentry, a reference, data a form refuses; five manifests; four starts, one of them with two changes; fair | `NoTwins`, `RolledBackRestores`, `InSyncIsTrue`, `DeclaredEntriesSurvive`, `Arrives` |

Bounds. Changes are commits and what people and integrations do (in integrations
also Retry); faults are calls that fail or whose answer is lost, failed writes and
crashes. Dashboards: one of each. Customisations and add-ons: two events, at most
one of them a fault. In registries and integrations a start comes with its number of
changes, and in the latter of Roll Backs, next to one fault. Registries: one change
from each of ten starts, and two from the empty registries with a floor plan
declared, from where an apply, an edit and a commit leave a plan that names ids which
are used again. Integrations: one change and one Roll Back, and two changes and no
Roll Back from the start where a flow had its own name for the subentry, so that an
item is dropped, let go of and declared again. Cycles, applies and, but for
integrations, Roll Backs are unlimited. One change and one fault is a plan that goes
stale, or meets a world it was not made for, and goes wrong half way; the manifests
are chosen so that one commit renames, moves, adopts and deletes at once.
`MCAllStarts` of both MC modules gives every start two changes (and one Roll Back):
the safety properties hold there too, in 8.9 million states of registries and 6.5
million of integrations, which is more than the runs' time allows.

What the properties exempt, each for something the code does:

* `RolledBackRestores`: the links of a floor that is made again (it has a new id,
  and the journal does not know who was on it); the content of a dashboard that
  had none; a credential, which is not journalled and skipped although Roll Back
  reports success (add-ons); HACS and subentries, which have no journal. An integration
  that was deleted is set up again from the data on record with its references
  resolved anew, so with the new secret if one was rotated since. In registries, the
  mapping when two keys have one id: a person deletes what an apply has just made, and a
  later create of the same plan gets its id. A recreation that Home Assistant
  refuses, as it does an area's null floor, is a Roll Back that reports failure. Nothing
  is claimed after an answer was lost, or for a layer whose journal could not be
  written.
* `SettledMeansNoPlan` and `DeclaredObjectsSurvive` of registries: an id in `freed`,
  one which the plan deletes and which was given up since the plan was made. This is the
  agent's doing: what is left of an undone apply stays pending with the ids from
  before, the undo recreates under new ids, a person's edit or a second apply lets a create
  have the old one, and the delete that is still in the plan takes it, with nothing in
  `executeOp` to check whose it is by then. `GitOpsStaleDelete.cfg` shows it (section 9).
* `RestoreGivesBack`: things an update of which was never recorded (`astray`: a
  crash, or a failed save, after the write, or a lost answer to the revert or to an
  inverse, which may have landed), and what somebody changed after the
  restore had read it. A restore that is carried out again, after a Roll Back
  made it pointless, has nothing on record to compare with.
* `UndeclaredSurvive`: what somebody changes between the read and the post is lost. The
  inverse of an add-on's entry reads and posts in one step of the model; what
  somebody changes in between is overwritten there too.
* `OnlyOwnedIsDeleted`: Roll Back of a forget gives the claim back, so that a
  dashboard somebody has made at that path since is deleted by the next plan that
  does not declare it; so is one deleted and made again before an apply.
* `NoTwins`: a person who asks for another try (Retry, or Apply on a plan that failed
  or was overtaken, also by a Roll Back); new data; a lost record; a lost answer to a
  Roll Back, which remembers no failures; a subentry the agent let go of that is
  declared again; one it took another for that somebody made while it was at it; a
  reconfigure flow that ends in a second subentry.
* `InSyncIsTrue`: what the agent cannot read back (`Opaque`).

Other things met while modelling, and kept in the model: pressing
Apply on a failed plan drives a flow again whose answer was lost; a half-done
rename leaves two ids on one entry; a subentry may be planned
under a parent that the same plan deletes, and fails once; an
integration whose domain is never loaded fails each apply with 404 and holds all
subentries back for ever (`Arrives` leaves it out); applying a partly failed plan
again sets the list of domains waiting for a restart back to the cycle's
(`recon.go:2004` and `2152`, against the comment there); the Roll Back of a
device ignores that its integration disables it now; the revert after a failed
restart posts the options read before the restart.

Left out of what is modelled: names compare exactly, while Home Assistant folds case
and blanks when it looks for a name that is taken; a repository that a
failed HACS download made known is not found by the next search (`Store` is fixed).

### Fairness

Only `GitOpsIntegrations` has liveness. `FairSpec` assumes that an apply that was
started goes on (its calls have timeouts), that somebody restarts Core when the
reminder asks for it, and, strongly, that the timer's cycle and its apply come
again: a failed plan is held for an hour, doubling up to a day, so the apply is
possible again and again but not always. `Arrives` is about behaviours in which no
call of the agent's failed (`faults = 0`; the count goes up) and in which the data
that is declared can be accepted.

### What is proved

For every set of things, fields, values, manifests and budgets that satisfies
`CustomizeAssumption`, `AddonOptionsAssumption`, and for the integration layers
`IntegrationsAssumption`, `ManifestsAssumption` and `StartsAssumption`, which say of
the instance what Home Assistant and the code say of the data: the orders list
everything and nothing else (those of customisations and integrations each thing and
item once, as sorted ids and the items of a file are), a manifest item holds values of
the right kind, and the markers (`Unrecorded`, `Gone`, `Absent`, `Keep`, `Ref`, ...)
are not values. The agent of `GitOpsIntegrations` may start with a record;
`StartsAssumption` says that it is one an agent at rest leaves: it names at most one item
for an object, and its hash is of what the object holds, if anybody knows.

**What is undone comes back.** `RollbackIsComplete` (`RolledBackRestores` of
`GitOpsCustomize` and `GitOpsAddonOptions`; of `GitOpsIntegrations` below). The argument follows one field of one thing
through the journal (`BringsBack`): the oldest entry that touches the field
holds the value to bring back, and entries are undone newest first, so that it
has the last word; a field no entry touches is as it was. The same goes for what
is recorded of the thing and the entries' snapshots. Lemma `OneMore` is an
operation that lands, `OneLess` an entry that is undone. Nothing need be known of
the plan, so the proof covers plans no manifest would give. In
`GitOpsCustomize` an apply has two layers, each to be undone alone when it fails and
both by Roll Back, and entries hold what was fetched before a layer: the
invariant says that this is still so of a field the earlier layer left alone
(`FetchedBefore`). In `GitOpsAddonOptions` an operation takes five steps, and between
them the add-on is not as the journal takes it to be: `Found` puts what was read in
the place of what was posted until the operation is recorded or reverted, and
what is compared is what Supervisor reports, not what is set (lemma `Overlaid`:
dropping a default or keeping it makes no difference there).
`UndeclaredStay` (`UndeclaredSurvive`) follows from the same invariant: what is
posted differs from what was read only where the operation says, as long as
nobody changed the add-on since.

**What a plan holds.** The planners loop over the manifest and append; in the
modules that is `FlattenSeq`, a recursive function over positions, and what it
holds for every input needs induction. The library's induction theorems take
an operator, which no installed prover can instantiate, so `PlanSequencesProofs`
derives induction over a set of numbers from `NatLessThanWellFounded`
(`LeastElement`, `Induction`) and from it what every later proof uses: the members
of a concatenation are the members of its parts (`Concatenated`), those of a
selection are the members at the chosen positions (`SelectMembers`).

`TypeCorrect` of both modules is the first use: `[]TypeOK`, plans, journals and
what is left pending included. Unlike the undoing, everything below rests on it.

**Customisations.** `GuardIsObeyed` (`IntegrationDecides`): an operation, its
journal entry and the entry's inverse all decide by what was fetched, or read,
whether `disabled` is the integration's (`GuardOK`). `Converges`
(`SettledMeansNoPlan`), by `SettleInv`: of each thing it can be said from what owns
it, what it is and what is recorded of it whether it *wants* an operation;
the plan holds one for each thing that wants one and is not in error (`PlanOK`,
lemma `PlanIsWhatIsWanted`); an apply does not change what the manifest items are
about nor what other things want, and an operation that landed leaves its thing
wanting nothing (`LandedWantsNothing`); so what wants something is still in the
list or in the later layer (`ApplyOK`), or in what stays pending (`SettledOK`). It
needs that a thing has one owner in a manifest that loads (`OneOwner`).
`GivesBackWhatWas` (`RestoreGivesBack`), by `GiveInv`, whose heart is that what is
recorded of a thing, the snapshots in the journals that Roll Back or a crash may
bring back, and the restores of a plan that may be older than all of them tell the
same (`Consistent`, in `StandingOK`), and the same as the history variable `theirs`
(`TheirsOK`). It is inductive only because a plan has one operation about a thing
(`PlanIsApart`): then an operation that lands is the first of its apply about its
thing, so what the layer fetched of it is what it is (`FetchedOK`), no restore of
the same plan is about it, and its entry is the only one (`DoneApart`). That is a
statement about pairs of positions of a plan, which is why `PlanSequencesProofs`
also has lemmas about the order in a concatenation and a selection (`EachInOrder`,
`SelectInOrder`), and why the orders must list nothing twice.

**Add-on options.** `Running` (`SettledMeansRunning`), by `RunInv`: of what is
declared of an add-on each option is set, or an operation that is left sets it
(`Provides`), from the plan through the record of what landed to what stays
pending; and an add-on that runs with other options than are set is in `lag`
or `astray`, or about to be restarted by the step under way (`BehindOK`).
`GivesBackWhatWas` (`RestoreGivesBack`), by `GiveInv`: what an option was before the
agent is told in several places, the record, the entries of the journals with
their snapshots, and the restores of a plan; any two of them that tell of the same
option tell the same (`Consistent`, in `StandingOK`), and the same as the history
variable does (`TheirsOK`). An operation adds to the record only (`OnlyAdded`), so
that entries kept from an earlier apply do not come to disagree with it.
The proof met a defect of the model, not of the code: the history variable
`lag` left out an add-on whose restart and whose revert both failed, so
that the property held there by luck of the bounds. `lag` and `theirs` now follow
every step that could make them differ.

**Integrations.** Home Assistant never says what an entry was set up with, so the
planners go by ids and hashes on record: `InSyncCorrect` (`InSyncIsTrue`) is as good
as the records are. `RecordsTellTruth` is the invariant, `TypeInv /\ Truth`, and the
effort of the proof: a record's hash is of what the object holds (`IntsTrue`,
`SubsTrue`), in memory, on the disk, and in what Roll Back may bring back from a journal.
That does not go through one step at a time, because an operation changes one object
and the record of one item, while another item may have the same object on record.
Where does that happen? When a manifest id is renamed, between the adoption by the
new id and the `forget` or `unmanage` of the old. An entry is adopted without
writing to it, so that what it was set up with is taken to be unknown from then on, to
both ids: two items on one entry imply `Unknown`. A subentry is written to when it
changes hands; the item it is taken from
has a wrong hash until its `unmanage`, which must therefore still be in the plan
(`Leaving`), or, of the record on the disk, until the save (`Behind`). Then a plan must
be of the right shape: adoptions before releases and layer by layer (`Planned`,
`InOrder`), an entry that is only forgotten adopted by an earlier operation
(`Released`), no subentry given to two items or taken from one that keeps it (`OneSub`).
These are facts about the planners' loop, which passes what is claimed from item to
item: `IntClaims` and `SubClaimed` are recursive functions over positions, of which
`Induction` proves that claims only grow. `FoundFresh` is for the subentry flow, whose
result is found by comparing lists.

`NoWaitingEntryDeleted` (`DeclaredEntriesSurvive`) takes the same loop from the other
end: an entry with the domain and title of a declared item that has none is claimed when the
loop ends, or contested, and is not deleted either way (`Spares`); `DeletesSpare`
carries this through the apply, whose earlier operations change titles and make
entries, for as long as `calm` says that nobody else did anything.

The proof corrected the property. `InSyncIsTrue` exempted items with a failure on
record, which is more than it needs. What it must exempt is less: a reconfigure whose answer is
lost leaves data in the subentry that the record does not know (`UpdateSub` makes it
`Opaque`). Put the manifest back to what it was and press Retry: the hash on record
agrees, the plan is silent, and the subentry holds what was sent, although the record
is called that of the data last applied (`subentries.go:8-10`).

`RollbackIsComplete` (`RolledBackRestores`) is of another kind than its namesakes above:
undoing a creation deletes an entry and undoing a deletion makes one under a new
id, so that there is no field to follow. What is followed is a balance
(`LeadsBack`): of each domain and title there were as many entries as there are now, less
those the journal made (`MadeAt`), plus those it removed (`GoneAt`); the journal has one
entry for an item, and each, undone, gives its item what it had. The invariant is
`Undoable`. While an apply runs (`RunOK`), the balance stays because an operation
still to come is about an item the journal does not name yet and about an
entry it did not make (`Ready`), which the planner sees to (`PlanFits`: a plan that nothing has
overtaken creates for items that have no live entry, and deletes the entry on record). Between
applies (`IdleOK`) it holds of the journal the Roll Back button names, until
a person, a crash or another apply comes in between; a Roll Back takes it off entry
by entry (`UndoOK`; an apply that fails is not undone in this layer); an apply without a stash
has nothing but repositories to adopt (`NoStashOK`). The proof made the property sharper:
it said that what is set up again holds what the old entry held, which a secret rotated
between apply and Roll Back refutes; it now says that it holds the data that was on record, its
references resolved anew, which is what the code does and holds without exception.

TLC checked every one of these invariants on the instances of the runs before
it was proved, that of the integrations exhaustively on its run's instance and by
simulation with larger budgets.

Only model-checked: what the runs of registries and dashboards check, for want of
proofs and not because the prover could not do it. `Arrives` is liveness. `NoTwins`
of the integrations is true within the bounds of the run, and simulation with more
changes shows that it is not without: a subentry that is let go of and declared
again is one the agent no longer knows it has made. That is no promise of the code;
it is left as a statement about one change.

## 7. GitOpsApply

`applyNow` and `Rollback` whole: the file layer, then the eight layers in order,
each skipped, held back, run with success, run and failed, or stopped because its
journal could not be written. Items are changes a repository may ask for; a
change is in effect or not.

| variable | in the code |
| --- | --- |
| `world` | which changes are in effect |
| `pending` | `r.pending` and `r.pendingRegistry` |
| `stash`, `made` | the stash directories and what each can undo; they are numbered as the clock names them |
| `point`, `disk` | `r.lastStashDir`; `LastStashDir` in `state.json` |
| `pc`, `at`, `todo`, `dir` | where the operation is; its layer, plan and directory |
| `applied`, `failed`, `held` | `registryApplyOutcome` |
| `by`, `lost` | history: which directory's apply made a change; changes whose journal could not be written |

An apply is `StartApply`, the files (`NoFiles`, `FilesApplied`, `StashFails`,
`FilesUndone`, `FilesLeft`), `Allocate` of a directory, then per layer `Skip`,
`Hold`, `Succeeds`, `Fails` or `JournalFails`, then `Save`. Every way out prunes.
A Roll Back is `PressRollBack`, `Restore` or `RestoreFails`, `Invert`.

Abstracted or left out: files the path guard refuses (they are skipped with a
note and leave the plan until the next check, so the instance has none); the
check and restart of Core after the files (their failure is `FilesUndone` or
`FilesLeft`); twins made by lost answers, which belong to the layers; that the
clock may go back, and the order of the directories with it; the pause after a
Roll Back, which is `GitOpsControl`'s.

### What is checked

`gitops_apply`: two files, two registry items of which one is refused, an entity,
an add-on, a repository that may be adopted, an integration and a subentry, so
that every dependency between layers is in some plan; three directories of which
one old one is kept, so that pruning meets a button on the oldest; two faults,
which is one to move the button and one to move it back.

* `ButtonHasItsStash`: the directory under the Roll Back button is there.
* `AppliedOrPending`: after an apply whose state is saved each thing it was to do
  is still in the plan, or is in effect with everything its layer builds on.
* `RollBackUndoes`: when Roll Back gives the button up, nothing the apply under
  it made is left, but for what has no journal or could not be written into one.

### What is proved

`GitOpsApplyProofs`, for every set of items, assignment to layers, number of
directories kept and number of faults under `ConstantsAssumption`:

* `TypeCorrect`, `ButtonWorks`: by `Inv`, which adds to the types and the property
  that the directory in use is there (`DirIsThere`): pruning at the end of an
  apply protects exactly that one and the one under the button, and needs both.
* `NothingDropsOut`: by `LayersInv`: a layer whose turn is over and that is
  neither failed nor held has done its part, and whatever is reported applied
  stands on what it needs. The decisive lemma is `NeedsAreMet`, which rests on
  dependencies coming first in `Order` (`DepsComeFirst`).
* `RollBackIsComplete`: by `StashInv`: a change in effect is in the directory of
  the apply that made it for as long as that is kept.

TLC checked all three invariants first.

## 8. Proved, checked, neither

| module | proved | only model-checked |
| --- | --- | --- |
| `SecretsEngine` | `TypeOK`, `StaleIsRemembered`, `StaleAddonIsRemembered`, `NothingIsLost`, `RollbackRestores`, `HeldBackNotRetried`, `UsedKeysStay` | `Settles` |
| `GitOpsFiles` | `TypeOK`, `ConflictStands`, `CaptureOverBase`, `EditIsNotPlannedOver` | `Settles` |
| `GitOpsControl` | `TypeOK`, `PauseIsRecorded`, `NoCountdownWhilePaused`, `RollbackStands`, `KeepsThePromise` | `DeliveryIsServed`, `SensorSettles` |
| `GitOpsApply` | `TypeOK`, `ButtonHasItsStash`, `AppliedOrPending`, `RollBackUndoes` | - |
| `GitOpsCustomize` | `TypeOK`, `RolledBackRestores`, `SettledMeansNoPlan`, `RestoreGivesBack`, `IntegrationDecides` | - |
| `GitOpsAddonOptions` | `TypeOK`, `RolledBackRestores`, `SettledMeansRunning`, `RestoreGivesBack`, `UndeclaredSurvive` | - |
| `GitOpsIntegrations` | `TypeOK`, `RolledBackRestores`, `InSyncIsTrue`, `DeclaredEntriesSurvive` | `NoTwins`, `Arrives` |
| `GitOpsRegistries`, `GitOpsDashboards` | - | everything |

Of the right column, liveness under fairness is beyond the prover; the rest is
not proved yet (section 6).
`NoCountdownWhilePaused` and `RollbackStands` have no run of
their own any more: the first is proved, the second is part of the refinement.
`TypeOK` of `GitOpsFiles`, `GitOpsApply`, `GitOpsCustomize`, `GitOpsAddonOptions` and
`GitOpsIntegrations`
is proved and in no run; that of the other layers is in no run, holds there, and can
be added to the `INVARIANTS` of their configurations.

## 9. Known divergences

Where the program does not do what its comments or documentation say, the model
follows the program, and a configuration of its own shows it. These are not
among the runs of `PROJECT.json`: `tlc -config X.cfg M` reports a violation for
each, with a counterexample.

| configuration, module | property | what happens |
| --- | --- | --- |
| `SecretsOutsideRestart.cfg`, `MCSecretsEngine` | `ClearedMeansApplied` | Core restarts, then a change is written and waits for a restart; the sensor is missing because of the first restart, so `publish` clears the waiting integrations (`build.go:411`; the comment at 404-406 says a missing sensor means the restart happened) |
| `SecretsInterrupted.cfg`, `MCSecretsEngine` | `InterruptedIsNotUndone` | the add-on is stopped during a refresh; the cancelled request reads as a failed check (`refresh.go:167`), so the change is rolled back and held back instead of being resumed (`cycle.go:551-553`) |
| `SecretsRejected.cfg`, `MCSecretsEngine` | `PreviousValuesAreBack` | an integration reloads the new value, a later step rejects the change, the file is restored, the integration is not reloaded; the status says "The previous values are back in place" (`cycle.go:175`) |
| `GitOpsDeferred.cfg`, `MCGitOpsFiles` | `CaptureKeepsNewerCommits` | a file deferred in one cycle loses its merge base to the apply of another (`capture.go:377`); the next cycle reads it as moved on the live side only and captures it over a commit of somebody else, although deferring is said to cost nothing (`capture.go:48-52`) |
| `GitOpsCaptureBase.cfg`, `MCGitOpsFiles` | `LaterCaptureIsABase` | a second capture's commit contains a change to a file captured earlier that was never applied, and becomes its merge base (`capture.go:490`, against 483-486) |
| `GitOpsOvertaken.cfg`, `MCGitOpsControl` | `OvertakenIsDropped` | the worker has the token but not yet the time when a second delivery is recorded; its time goes with the first take, its token stays (`hook.go:208`). If a Roll Back finishes meanwhile, the second turn carries the zero time, which skips the check for that, against `DOCS.md:2060-2061`. The cycle applies nothing, since the Roll Back has paused |
| `GitOpsAddonRestart.cfg`, `MCGitOpsAddonOptions` | `AppliedMeansRestarted` | a crash or a lost answer between the write of the options and the restart: the next apply finds no difference, records the options and does not restart the add-on (`addonopts.go:530`, against `DOCS.md:923-926`) |
| `GitOpsEmptyPoint.cfg`, `MCGitOpsApply` | `UndoneKeepsTheButton` | an apply whose layers all failed and were undone, leaving nothing to undo, moves the Roll Back button to its own empty directory (`recon.go:2224-2233`); the comment on `applyFileLayer` (2411-2416) says that an apply undone completely keeps the button, of files only |
| `GitOpsStaleDelete.cfg`, `MCGitOpsRegistries` | `DeclaredIsNeverDeleted` | an apply that failed and was undone leaves its plan pending, its deletes naming the ids from before (`recon.go:2326-2330` takes it for what the next reconcile plans); somebody has renamed the object meanwhile, so the undo recreates it under another id, applying again gives the old id to the object that is created first, and the delete that follows removes it (`regapply/apply.go:193-200`) |
| `GitOpsRecreate.cfg`, `MCGitOpsRegistries` | `UndisturbedUndoSucceeds` | an area on no floor is deleted; Roll Back resends the null floor (`rollback.go:332-334`), which the create schema refuses (`registries.go:881-883`), so the area is not restored although nothing went wrong, against `DOCS.md:2645-2652` |
| `GitOpsLostAnswer.cfg`, `MCGitOpsRegistries` | `RetryMakesNoTwin` | a helper's create lands and its answer is lost: the operation is not among those applied, stays in the plan, and applying again makes a second helper of that name; the comment on what stays pending (`recon.go:2303-2305`) says that this is what is prevented |
| `GitOpsCreatedAgain.cfg`, `MCGitOpsIntegrations` | `UnidentifiedIsCreatedAgain` | a subentry that was created but could not be told apart is not created again, although `regapply/subentries.go:437-439` and the error of 472-476 say that it is: the attempt is remembered with the data (`regapply/subentries.go:553` and `560`), and the planner holds the item back until it changes |

## 10. Not modelled

*1Password Secrets*: discovery (a pure function whose result is `vault`), the
Connect client and its supervisor, option parsing, pages, and what section 3
lists.

*GitOps agent*: import and commit-back; add-on updates and the version record;
the run history; the webhook's authentication and its limits; parking of
conflicted copies, `ignore_keys`, SOPS files, the path guard, diffs and masking;
persons and zones of YAML mode, labels and aliases as sets, entity option maps,
the text of a dashboard, option schemas and forms, redaction; `WaitIdle`'s polling
(the end of the process may come at any step once it is told to stop), panics
recovered by the loops, the event log; the websocket client, pages and sessions.

*Vector*: all of it.

What is missing from the first two is listed in the plan, except where it is
formatting, parsing or a thin client.
