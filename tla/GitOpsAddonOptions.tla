------------------------- MODULE GitOpsAddonOptions -------------------------
(***************************************************************************)
(* The add-on options layer of the GitOps agent: options of other add-ons  *)
(* declared in gitops/addons.yaml (internal/addonopts and its applier in   *)
(* internal/regapply).                                                     *)
(*                                                                         *)
(* Supervisor replaces an add-on's options as a whole and shows them       *)
(* merged with the add-on's defaults, so each write is read, overlay,      *)
(* post; an add-on reads its options when it starts, so a restart that may *)
(* take minutes belongs to the operation.  Between any two of these calls  *)
(* a person may change options too.  Nothing is installed or removed: an   *)
(* add-on that leaves the manifest gets its former options back.           *)
(***************************************************************************)
EXTENDS Integers, Sequences, FiniteSets, SequencesExt, PlanSequences

CONSTANTS
  Addons, AddonOrder, \* the slugs, and the order of the manifest
  Self,               \* the one the agent runs as
  Options, Values,
  Defaults,           \* what an add-on's own configuration sets
  Manifests,          \* what a commit may declare
  Starts,             \* installed add-ons and their options at the start
  Absent,             \* an option without a value
  Keep,               \* an option not declared
  Ref,                \* an option declared as secret://<name>
  Missing,            \* a secret that cannot be resolved
  Malformed,          \* an item that fails a check of its fields
  Undeclared,         \* a slug the manifest does not hold
  Unmanaged,          \* nothing recorded for a slug
  NoStep,             \* no operation under way
  MaxChanges,         \* bound on commits and other people's edits
  MaxFaults,          \* bound on failed calls, failed writes and crashes
  MaxEvents           \* bound on both together

Stored == [Options -> Values \cup {Absent}]
Installations == [Addons -> [installed : BOOLEAN, set : Stored, running : Stored]]
Recordable == [values : [Options -> Values \cup {Absent, Keep}], restart : BOOLEAN]

ASSUME AddonOptionsAssumption ==
  /\ Self \in Addons /\ Defaults \in [Addons -> Stored]
  /\ AddonOrder \in Seq(Addons) /\ \A a \in Addons : \E i \in DOMAIN AddonOrder : AddonOrder[i] = a
  /\ Starts \subseteq Installations
  /\ Absent \notin Values /\ Keep \notin Values \cup {Absent, Ref} /\ Ref \notin Values \cup {Absent}
  /\ Unmanaged \notin Recordable /\ NoStep \notin [current : Stored, merged : Stored]
  /\ \A m \in Manifests : \A a \in Addons :
       m[a] \in {Undeclared, Malformed} \/ m[a] \in [options : [Options -> Values \cup {Keep, Ref}], restart : BOOLEAN]

VARIABLES
  desired, \* the manifest at the checked-out commit
  secret,  \* what the references resolve to
  live,    \* Supervisor's add-ons: installed, options set, options started with
  saved,   \* state.json's addon_originals and addon_restart_on_change
  savedPointer, journals, \* state.json's LastStashDir; the two newest journals
  plan, pointer, \* the pending operations; the stash Roll Back would use
  phase, mode,
  managed, \* originals and restart_on_change as the apply mutates them
  todo, step, \* operations left; what the one under way read and merged
  stuck,   \* it landed, and neither its restart nor its revert did
  executed, pos, \* what landed; next to undo
  kept, lost, \* not undone: still journalled, and not
  outcome, cur,
  \* history, for the properties only
  before, origin, \* what an undo, and Roll Back, are to bring back, if known
  theirs,  \* what an option was when the agent took it over
  astray,  \* add-ons that may hold a write that nothing recorded
  lag,     \* add-ons that run without their options, and nobody said otherwise
  raced,   \* somebody changed that add-on since the operation read it
  calm,    \* what the plan was made for is there; no apply of it has failed
  settled  \* a whole plan landed and nothing changed since

VARIABLES changes, faults

disk == <<saved, savedPointer, journals>>
working == <<managed, todo, step, stuck, executed, kept, lost, pos, outcome, cur>>
history == <<before, origin, theirs, astray, lag, raced, calm, settled>>
bounds == <<changes, faults>>
vars == <<desired, secret, live, disk, plan, pointer, phase, mode, working, history, bounds>>

-----------------------------------------------------------------------------
(* Options                                                                  *)

Nothing == [k \in Options |-> Keep]
Named(params) == {k \in Options : params[k] # Keep}

\* What Supervisor reports: the defaults show through what is not set.
Merged(a, set) == [k \in Options |-> IF set[k] = Absent THEN Defaults[a][k] ELSE set[k]]
Current(a) == Merged(a, live[a].set)

\* History: add-ons whose running options are not the ones they have.
Behind == {a \in Addons : live[a].running # Current(a)}

\* A mutant of PersistedOnly: only what differs from the defaults, and no
\* store entry means there are none.
PersistedOnlyKnown(a, current, known) ==
  [k \in Options |-> IF ~known \/ current[k] = Defaults[a][k] THEN Absent ELSE current[k]]

\* Without the store's entry a default cannot be told from a value that was
\* set: all of them are sent back.
PersistedOnly(a, current, known) ==
  [k \in Options |-> IF known /\ current[k] = Defaults[a][k] THEN Absent ELSE current[k]]

\* The options that are recorded of an add-on.
Had(record) == IF record = Unmanaged THEN Nothing ELSE record.values

Overlay(base, params) == [k \in Options |-> IF params[k] = Keep THEN base[k] ELSE params[k]]
Changes(current, params) == \E k \in Named(params) : params[k] # current[k]
Prior(current, params) == [k \in Options |-> IF params[k] = Keep THEN Keep ELSE current[k]]

-----------------------------------------------------------------------------
(* Planning                                                                 *)

Loaded == \A a \in Addons : desired[a] # Malformed
Declared(a) == desired[a] # Undeclared
Refs(a) == {k \in Options : desired[a].options[k] = Ref}

\* A mutant of Resolved: a reference is passed on as it was declared.
ResolvedNot(a) == desired[a].options

Resolved(a) == [k \in Options |-> IF k \in Refs(a) THEN secret ELSE desired[a].options[k]]

Op(kind, a, params, refs, restart) ==
  [kind |-> kind, key |-> a, params |-> params, refs |-> refs, restart |-> restart]
Error(a) == Op("error", a, Nothing, {}, FALSE)

FirstRecording(a) == saved[a] = Unmanaged \/ \E k \in Named(Resolved(a)) : saved[a].values[k] = Keep

PlanAddon(a) ==
  CASE ~Declared(a) -> <<>>
    [] Declared(a) /\ (a = Self \/ ~live[a].installed \/ (secret = Missing /\ Refs(a) # {})) -> <<Error(a)>>
    [] OTHER -> IF Changes(Current(a), Resolved(a)) \/ FirstRecording(a)
                THEN <<Op("update", a, Resolved(a), Refs(a), desired[a].restart)>> ELSE <<>>

PlanRestore(a) ==
  CASE Declared(a) \/ saved[a] = Unmanaged -> <<>>
    [] ~Declared(a) /\ saved[a] # Unmanaged /\ (a = Self \/ ~live[a].installed) -> <<Error(a)>>
    [] OTHER -> <<Op("restore", a, saved[a].values, {}, FALSE)>>

Plan == Over(AddonOrder, PlanAddon) \o Over(AddonOrder, PlanRestore)
Executable(ops) == Select(ops, {i \in DOMAIN ops : ops[i].kind # "error"})

-----------------------------------------------------------------------------
Idle == phase = "idle"
NothingManaged == [a \in Addons |-> Unmanaged]
NoBefore == [options |-> [a \in Addons |-> Nothing], managed |-> NothingManaged, known |-> FALSE]
Now(record) == [options |-> [a \in Addons |-> Current(a)], managed |-> record, known |-> TRUE]

Init ==
  /\ desired \in Manifests /\ secret \in Values /\ live \in Starts
  /\ saved = NothingManaged /\ savedPointer = 0 /\ pointer = 0 /\ journals = [d \in 1 .. 2 |-> <<>>]
  /\ plan = <<>> /\ phase = "idle" /\ mode = "apply"
  /\ managed = NothingManaged /\ todo = <<>> /\ step = NoStep /\ stuck = FALSE
  /\ executed = <<>> /\ kept = {} /\ lost = {} /\ pos = 0 /\ outcome = "ok" /\ cur = 1
  /\ before = NoBefore /\ origin = NoBefore /\ theirs = [a \in Addons |-> Nothing] /\ astray = {} /\ lag = Behind /\ raced = FALSE
  /\ calm = FALSE /\ settled = FALSE /\ changes = 0 /\ faults = 0

Clear ==
  /\ managed' = NothingManaged /\ todo' = <<>> /\ step' = NoStep /\ stuck' = FALSE /\ executed' = <<>> /\ kept' = {}
  /\ lost' = {} /\ pos' = 0 /\ outcome' = "ok" /\ cur' = 1 /\ mode' = "apply" /\ before' = NoBefore /\ raced' = FALSE

Change == changes < MaxChanges /\ changes + faults < MaxEvents /\ changes' = changes + 1
Fault == faults < MaxFaults /\ changes + faults < MaxEvents /\ faults' = faults + 1
NoFault == UNCHANGED faults

-----------------------------------------------------------------------------
(* What happens around the agent                                            *)

Push ==
  /\ Change /\ desired' \in Manifests \ {desired} /\ settled' = FALSE /\ calm' = FALSE
  /\ UNCHANGED <<secret, live, disk, plan, pointer, phase, mode, working, before, origin, theirs, astray, lag, raced, faults>>

\* A person changes an option, and may restart the add-on for it; installs or
\* removes an add-on; rotates or deletes the secret.  An option the agent
\* manages is still the agent's.
Edit ==
  /\ Change /\ settled' = FALSE /\ calm' = FALSE /\ raced' = TRUE
  /\ \/ /\ \E a \in Addons \ {Self} :
             \/ /\ live[a].installed
                /\ \E k \in Options, v \in Values \cup {Absent} :
                     LET set == [live[a].set EXCEPT ![k] = v]
                     IN /\ set # live[a].set
                        /\ \/ live' = [live EXCEPT ![a].set = set]
                           \/ live' = [live EXCEPT ![a].set = set, ![a].running = Merged(a, set)]
                /\ UNCHANGED <<theirs, astray>>
             \/ LET blank == [k \in Options |-> Absent]
                IN /\ live' = [live EXCEPT ![a] = [installed |-> ~@.installed, set |-> blank, running |-> Merged(a, blank)]]
                   /\ astray' = astray \cup {a} /\ UNCHANGED theirs
        /\ UNCHANGED secret
     \/ /\ secret' \in (Values \cup {Missing}) \ {secret}
        /\ UNCHANGED <<live, theirs, astray>>
  /\ lag' = Behind'
  /\ before' = [before EXCEPT !.known = FALSE] /\ origin' = NoBefore
  /\ UNCHANGED <<desired, disk, plan, pointer, phase, mode, working, faults>>

\* What the apply wrote and state.json will not know of.
Unsaved == {a \in Addons : managed[a] # saved[a]} \cup (IF step = NoStep THEN {} ELSE {Head(todo).key})

Crash ==
  /\ Fault
  /\ plan' = <<>> /\ pointer' = savedPointer /\ phase' = "idle" /\ Clear
  /\ astray' = IF Idle THEN astray ELSE astray \cup Unsaved
  /\ origin' = IF Idle THEN origin ELSE NoBefore
  /\ settled' = FALSE
  /\ UNCHANGED <<desired, secret, live, disk, theirs, lag, calm, changes>>

-----------------------------------------------------------------------------
(* The agent                                                                *)

Reconcile ==
  /\ Idle
  /\ \/ Loaded /\ NoFault /\ plan' = Plan /\ calm' = TRUE
     \/ /\ IF Loaded THEN Fault ELSE NoFault
        /\ plan' = <<>> /\ UNCHANGED calm
  /\ UNCHANGED <<desired, secret, live, disk, pointer, phase, mode, working, before, origin, theirs, astray, lag, raced, settled, changes>>

StartApply ==
  /\ Idle /\ Executable(plan) # <<>>
  /\ mode' = "apply" /\ managed' = saved /\ todo' = Executable(plan) /\ step' = NoStep /\ stuck' = FALSE
  /\ cur' = IF pointer = 1 THEN 2 ELSE 1
  /\ journals' = [journals EXCEPT ![cur'] = <<>>]
  /\ executed' = <<>> /\ kept' = {} /\ lost' = {} /\ pos' = 0 /\ raced' = FALSE
  /\ \/ NoFault /\ outcome' = "ok" /\ phase' = "read"
     \/ Fault /\ outcome' = "failed" /\ phase' = "save"
  /\ before' = Now(saved) /\ origin' = Now(saved) /\ settled' = FALSE
  /\ UNCHANGED <<desired, secret, live, saved, savedPointer, plan, pointer, theirs, astray, lag, calm, changes>>

Fail == /\ outcome' = "rolledBack" /\ phase' = "undo" /\ pos' = Len(executed) /\ kept' = {} /\ lost' = {}
        /\ UNCHANGED <<executed, journals>>

\* The options are read as they are now, and merged with the operation's.
ReadOptions ==
  /\ phase = "read" /\ todo # <<>>
  /\ LET op == Head(todo)  a == op.key IN
       \/ /\ live[a].installed /\ NoFault
          /\ \E known \in BOOLEAN :
               step' = [current |-> Current(a), merged |-> Overlay(PersistedOnly(a, Current(a), known), op.params)]
          /\ phase' = "post" /\ raced' = FALSE
          /\ UNCHANGED <<outcome, pos, kept, lost, executed, journals>>
       \/ /\ IF live[a].installed THEN Fault ELSE NoFault
          /\ Fail /\ UNCHANGED <<step, raced>>
  /\ UNCHANGED <<desired, secret, live, saved, savedPointer, plan, pointer, mode, managed, todo, stuck, cur, before, origin,
                 theirs, astray, lag, calm, settled, changes>>

\* A mutant of Restarts: what was merged is compared, not what was read.
RestartsLate(op) == Changes(step.merged, op.params)
                  /\ IF op.kind = "restore" THEN managed[op.key] # Unmanaged /\ managed[op.key].restart ELSE op.restart

\* A restart follows only a change, a restore's when the last apply of the
\* add-on was declared to.
Restarts(op) == Changes(step.current, op.params)
                  /\ IF op.kind = "restore" THEN managed[op.key] # Unmanaged /\ managed[op.key].restart ELSE op.restart

\* History: an option is taken over by the first write of it.
TakenOver(op) ==
  [theirs EXCEPT ![op.key] =
     [k \in Options |-> IF op.kind = "update" /\ op.params[k] # Keep /\ Had(managed[op.key])[k] = Keep
                        THEN Current(op.key)[k] ELSE @[k]]]

PostOptions ==
  /\ phase = "post"
  /\ LET op == Head(todo)
         posted == [live EXCEPT ![op.key].set = step.merged]
     IN \/ /\ NoFault /\ (live[op.key].installed \/ step.merged = step.current)
           /\ live' = IF step.merged = step.current THEN live ELSE posted
           /\ lag' = IF op.kind = "update" /\ op.restart THEN lag ELSE Behind'
           /\ theirs' = TakenOver(op)
           /\ phase' = IF Restarts(op) THEN "restart" ELSE "record"
           /\ astray' = IF raced THEN astray \cup {op.key} ELSE astray
           /\ UNCHANGED <<outcome, pos, kept, lost, executed, journals, step, before>>
        \/ /\ IF live[op.key].installed THEN Fault ELSE NoFault
           /\ step.merged # step.current
           /\ \/ UNCHANGED <<live, astray, before>>
              \/ /\ live[op.key].installed /\ live' = posted /\ astray' = astray \cup {op.key}
                 /\ before' = [before EXCEPT !.known = FALSE]
           /\ Fail /\ step' = NoStep /\ UNCHANGED <<theirs, lag>>
  /\ UNCHANGED <<desired, secret, saved, savedPointer, plan, pointer, mode, managed, todo, stuck, cur, origin,
                 raced, calm, settled, changes>>

\* The restart is waited for; it may have happened when it is given up.
Restart ==
  /\ phase = "restart"
  /\ LET a == Head(todo).key
         restarted == [live EXCEPT ![a].running = Current(a)]
     IN \/ NoFault /\ live[a].installed /\ live' = restarted /\ lag' = lag \ {a} /\ phase' = "record"
        \/ /\ IF live[a].installed THEN Fault ELSE NoFault
           /\ live' \in {live} \cup (IF live[a].installed THEN {restarted} ELSE {})
           /\ phase' = "revert" /\ UNCHANGED lag
  /\ UNCHANGED <<desired, secret, disk, plan, pointer, mode, working, before, origin, theirs, astray, raced, calm,
                 settled, changes>>

\* History: the agent has again only what is recorded in values.
GivenBack(a, values) ==
  [theirs EXCEPT ![a] =
     [k \in Options |-> IF values[k] = Keep THEN Keep ELSE IF @[k] # Keep THEN @[k] ELSE values[k]]]

\* Then the former options go back, laid over what was read before the
\* restart.  What kept the restart from succeeding may keep this from it, or
\* only its answer: the operation is then recorded as one that landed.
Revert ==
  /\ phase = "revert" /\ NoFault /\ calm' = FALSE
  /\ LET op == Head(todo)  a == op.key
         reverted == Overlay(step.merged, Prior(step.current, op.params))
         back == [live EXCEPT ![a].set = reverted]
     IN \/ /\ live[a].installed
           /\ live' \in {back, [back EXCEPT ![a].running = Merged(a, reverted)]}
           /\ lag' = Behind' /\ theirs' = GivenBack(a, Had(managed[a]))
           /\ Fail /\ step' = NoStep /\ UNCHANGED stuck
           /\ UNCHANGED astray
        \/ /\ \/ UNCHANGED <<live, astray>>
              \/ live[a].installed /\ live' = back /\ astray' = astray \cup {a}
           /\ stuck' = TRUE /\ phase' = "record" /\ lag' = Behind'
           /\ UNCHANGED <<step, outcome, pos, kept, lost, executed, journals, theirs>>
  /\ UNCHANGED <<desired, secret, saved, savedPointer, plan, pointer, mode, managed, todo, cur, before, origin,
                 raced, settled, changes>>

\* A mutant of Recorded: a restore keeps what is recorded.
RecordedStill(op) ==
  LET had == Had(managed[op.key])
  IN [values |-> [k \in Options |-> IF had[k] # Keep \/ op.params[k] = Keep THEN had[k] ELSE step.current[k]],
      restart |-> op.restart]

\* A mutant of Recorded: the latest value found is the one kept.
RecordedLatest(op) ==
  IF op.kind = "restore" THEN Unmanaged
  ELSE [values |-> [k \in Options |-> IF op.params[k] # Keep THEN step.current[k]
                                      ELSE Had(managed[op.key])[k]],
        restart |-> op.restart]

Recorded(op) ==
  IF op.kind = "restore" THEN Unmanaged
  ELSE LET had == Had(managed[op.key])
       IN [values |-> [k \in Options |-> IF had[k] # Keep \/ op.params[k] = Keep THEN had[k] ELSE step.current[k]],
           restart |-> op.restart]

\* A reference takes the place of a prior value the agent wrote itself.
StashPrior(op) ==
  [k \in Options |-> IF k \in op.refs /\ Had(managed[op.key])[k] # Keep THEN Ref
                     ELSE Prior(step.current, op.params)[k]]

\* A mutant of Entry: the snapshot is taken after the recording.
EntryAfter(op) ==
  [kind |-> op.kind, key |-> op.key, prior |-> StashPrior(op), restart |-> Restarts(op), snapshot |-> Recorded(op)]

Entry(op) ==
  [kind |-> op.kind, key |-> op.key, prior |-> StashPrior(op), restart |-> Restarts(op), snapshot |-> managed[op.key]]

\* The operation landed: it is recorded and journalled.  One that is stuck
\* waits for the others to be undone.
Record ==
  /\ phase = "record"
  /\ LET op == Head(todo) IN
       /\ managed' = [managed EXCEPT ![op.key] = Recorded(op)]
       /\ executed' = Append(executed, Entry(op))
       /\ theirs' = IF op.kind = "restore" THEN [theirs EXCEPT ![op.key] = Nothing] ELSE theirs
  /\ step' = NoStep
  /\ IF stuck
     THEN /\ NoFault /\ outcome' = "failed" /\ phase' = "undo" /\ pos' = Len(executed) /\ kept' = {} /\ lost' = {}
          /\ UNCHANGED <<todo, journals>>
     ELSE /\ UNCHANGED <<pos, kept, lost>>
          /\ \/ /\ NoFault /\ todo' = Tail(todo) /\ phase' = "read"
                /\ journals' = [journals EXCEPT ![cur] = executed'] /\ UNCHANGED outcome
             \/ /\ Fault /\ outcome' = "unjournalled" /\ phase' = "save" /\ UNCHANGED <<todo, journals>>
  /\ UNCHANGED <<desired, secret, live, saved, savedPointer, plan, pointer, mode, stuck, cur, before, origin, astray,
                 lag, raced, calm, settled, changes>>

ApplyDone ==
  /\ phase = "read" /\ todo = <<>>
  /\ phase' = "save"
  /\ UNCHANGED <<desired, secret, live, disk, plan, pointer, mode, working, history, bounds>>

-----------------------------------------------------------------------------
(* Undoing, newest first                                                    *)

Left(S) == Select(executed, S)

\* A credential that was replaced is not to be had any more.
Given(e) == [k \in Options |-> IF e.prior[k] = Ref THEN Keep ELSE e.prior[k]]

\* The entry leaves the journal before its options are given back; a restart
\* follows as it did the operation, but nothing depends on it.  The post may
\* land and its answer be lost: the options are back, the record is not.  Read
\* and post are one step: what somebody changes in between is overwritten.
UndoOne ==
  /\ phase = "undo" /\ pos > 0
  /\ LET e == executed[pos]  a == e.key
         journal == [journals EXCEPT ![cur] = Left((1 .. (pos - 1)) \cup kept)]
     IN \/ /\ Fault /\ outcome' = "failed" /\ kept' = kept \cup {pos}
           /\ UNCHANGED <<live, managed, journals, lost, theirs, lag, astray>>
        \/ /\ live[a].installed /\ NoFault
           /\ \E known \in BOOLEAN :
                LET set == Overlay(PersistedOnly(a, Current(a), known), Given(e))
                    back == [live EXCEPT ![a].set = set]
                    restarted == [back EXCEPT ![a].running = Merged(a, set)]
                IN \/ live' = IF e.restart /\ Changes(Current(a), Given(e)) THEN restarted ELSE back
                   \/ e.restart /\ faults < MaxFaults /\ live' = back
           /\ managed' = [managed EXCEPT ![a] = e.snapshot] /\ theirs' = GivenBack(a, Had(e.snapshot)) /\ lag' = Behind'
           /\ journals' = journal /\ UNCHANGED <<outcome, kept, lost, astray>>
        \/ /\ IF live[a].installed THEN Fault ELSE NoFault
           /\ \/ UNCHANGED <<live, lag, astray>>
              \/ /\ live[a].installed
                 /\ \E known \in BOOLEAN :
                      live' = [live EXCEPT ![a].set = Overlay(PersistedOnly(a, Current(a), known), Given(e))]
                 /\ lag' = Behind' /\ astray' = astray \cup {a}
           /\ outcome' = "failed" /\ lost' = lost \cup {pos} /\ journals' = journal
           /\ UNCHANGED <<managed, kept, theirs>>
  /\ pos' = pos - 1
  /\ UNCHANGED <<desired, secret, saved, savedPointer, plan, pointer, phase, mode, todo, step, stuck, executed, cur,
                 before, origin, raced, calm, settled, changes>>

NotUndone == Left(kept \cup lost \cup {Len(executed)})

\* A stuck operation joins what could not be undone in the journal.
UndoDone ==
  /\ phase = "undo" /\ pos = 0
  /\ \/ NoFault /\ journals' = IF stuck THEN [journals EXCEPT ![cur] = NotUndone] ELSE journals
     \/ Fault /\ stuck /\ UNCHANGED journals
  /\ phase' = "save"
  /\ UNCHANGED <<desired, secret, live, saved, savedPointer, plan, pointer, mode, working, history, changes>>

\* A journal that cannot be read ends Roll Back where it starts.
StartRollback ==
  /\ Idle /\ pointer # 0
  /\ mode' = "rollback" /\ cur' = pointer /\ managed' = saved /\ stuck' = FALSE
  /\ executed' = journals[pointer] /\ kept' = {} /\ lost' = {} /\ todo' = <<>> /\ step' = NoStep
  /\ \/ NoFault /\ outcome' = "rolledBack" /\ phase' = "undo" /\ pos' = Len(executed')
     \/ Fault /\ outcome' = "failed" /\ phase' = "save" /\ pos' = 0
  /\ before' = origin /\ origin' = NoBefore /\ settled' = FALSE /\ calm' = FALSE
  /\ UNCHANGED <<desired, secret, live, disk, plan, pointer, theirs, astray, lag, raced, changes>>

Landed == IF outcome = "unjournalled" THEN ToSet(executed) ELSE IF stuck THEN ToSet(NotUndone) ELSE {}
StillPending ==
  Select(plan, {i \in DOMAIN plan :
    IF outcome = "ok" THEN plan[i].kind = "error"
    ELSE ~\E e \in Landed : e.kind = plan[i].kind /\ e.key = plan[i].key})

StateSave ==
  /\ phase = "save"
  /\ \/ /\ NoFault
        /\ saved' = managed
        /\ LET p == IF mode = "apply" THEN cur ELSE IF outcome = "rolledBack" THEN 0 ELSE pointer
           IN pointer' = p /\ savedPointer' = p
        /\ plan' = IF mode = "apply" THEN StillPending ELSE plan
        /\ settled' = (mode = "apply" /\ outcome = "ok" /\ calm)
        /\ origin' = IF mode = "apply" /\ outcome = "ok" /\ before.known THEN before ELSE NoBefore
        /\ calm' = (calm /\ outcome = "ok") /\ UNCHANGED astray
     \/ /\ Fault
        /\ settled' = FALSE /\ calm' = FALSE /\ origin' = NoBefore
        /\ astray' = astray \cup Unsaved
        /\ pointer' = IF mode = "apply" THEN cur ELSE pointer
        /\ UNCHANGED <<saved, savedPointer, plan>>
  /\ phase' = "idle" /\ Clear
  /\ UNCHANGED <<desired, secret, live, journals, theirs, lag, changes>>

Next ==
  \/ Push \/ Edit \/ Crash
  \/ Reconcile \/ StartApply \/ ReadOptions \/ PostOptions \/ Restart \/ Revert \/ Record \/ ApplyDone
  \/ UndoOne \/ UndoDone \/ StartRollback \/ StateSave

Spec == Init /\ [][Next]_vars
-----------------------------------------------------------------------------
Params == [Options -> Values \cup {Absent, Keep}]
Op_ == {op \in [kind : {"update", "restore", "error"}, key : Addons, params : Params, refs : SUBSET Options,
                 restart : BOOLEAN] : op.kind # "error" => op.key # Self}
Entry_ == [kind : {"update", "restore"}, key : Addons \ {Self}, prior : [Options -> Values \cup {Absent, Keep, Ref}],
           restart : BOOLEAN, snapshot : Recordable \cup {Unmanaged}]
InHand == phase \in {"post", "restart", "revert", "record"}

\* Every variable has its type; what is written to an add-on is a value, never
\* a reference to one; the agent never writes to itself; an operation has its
\* options in hand from the read until it is over.
TypeOK ==
  /\ desired \in Manifests /\ secret \in Values \cup {Missing}
  /\ live \in Installations
  /\ saved \in [Addons -> Recordable \cup {Unmanaged}] /\ managed \in [Addons -> Recordable \cup {Unmanaged}]
  /\ plan \in Seq(Op_) /\ todo \in Seq(Op_) /\ \A op \in ToSet(todo) : op.kind # "error"
  /\ IF InHand THEN todo # <<>> /\ step \in [current : Stored, merged : Stored] ELSE step = NoStep
  /\ phase \in {"idle", "read", "post", "restart", "revert", "record", "undo", "save"} /\ mode \in {"apply", "rollback"}
  /\ outcome \in {"ok", "failed", "rolledBack", "unjournalled"} /\ stuck \in BOOLEAN
  /\ executed \in Seq(Entry_) /\ journals \in [1 .. 2 -> Seq(Entry_)]
  /\ pos \in 0 .. Len(executed) /\ kept \cup lost \subseteq DOMAIN executed
  /\ cur \in 1 .. 2 /\ pointer \in 0 .. 2 /\ savedPointer \in 0 .. 2

\* What the agent gives back when an add-on leaves the manifest is what its
\* options were before the agent, absent ones among them, however many
\* manifests, drifts and undone applies lie in between, for every add-on that
\* was not reinstalled and none of whose writes went unrecorded.  (Apply may
\* send a restore once more that Roll Back made pointless: then nothing is
\* recorded to compare it with.)
RestoreGivesBack ==
  [][phase = "record" /\ Record /\ Head(todo).kind = "restore" =>
       LET op == Head(todo) IN
         op.key \in astray \/ raced
           \/ \A k \in Named(op.params) : theirs[op.key][k] \in {Keep, Current(op.key)[k]}]_vars

\* An option the operation does not name is as it was after every write,
\* whether it was set or is the add-on's default, but for one somebody changed
\* after the options were read: that change is lost.
UndeclaredSurvive ==
  [][(PostOptions \/ Revert \/ UndoOne) /\ (raced => phase = "undo") =>
       \A a \in Addons : \A k \in Options :
         Merged(a, live'[a].set)[k] # Current(a)[k] =>
           IF phase = "undo" THEN a = executed[pos].key /\ Given(executed[pos])[k] # Keep
           ELSE a = Head(todo).key /\ Head(todo).params[k] # Keep]_vars

\* An undo that reports success brought back the options and what is recorded
\* of them, but for a credential that replaced another.
RolledBackRestores ==
  phase = "save" /\ outcome = "rolledBack" /\ before.known =>
    /\ managed = before.managed
    /\ \A a \in Addons : \A k \in Options :
         Current(a)[k] = before.options[a][k] \/ \E e \in ToSet(executed) : e.key = a /\ e.prior[k] = Ref

\* After a whole plan landed the next cycle finds nothing to do.
SettledMeansNoPlan == settled => Executable(Plan) = <<>>

RunsDeclared(a) ==
  Declared(a) /\ live[a].installed /\ desired[a].restart /\ (secret = Missing => Refs(a) = {}) =>
    \A k \in Named(Resolved(a)) : live[a].running[k] = Resolved(a)[k]

\* After a whole plan landed an add-on declared to restart runs with what is
\* declared, unless an earlier write of it never came as far as its restart,
\* or its options were changed by somebody who did not restart it.
SettledMeansRunning == settled => \A a \in Addons \ (astray \cup lag \cup {Self}) : RunsDeclared(a)

\* DOCS.md: the add-on is restarted "before considering the change applied".
\* (It is not when a crash, or a lost answer, comes between the write and the
\* restart: the next apply finds the options as declared and only records them.)
AppliedMeansRestarted == settled => \A a \in Addons \ (lag \cup {Self}) : RunsDeclared(a)

=============================================================================
