-------------------------- MODULE GitOpsCustomize --------------------------
(***************************************************************************)
(* The device and entity layers of the GitOps agent: areas and disabled    *)
(* flags that gitops/devices.yaml and gitops/entities.yaml lay over things *)
(* their integrations own (internal/devices, internal/entities, and their  *)
(* appliers in internal/regapply).                                         *)
(*                                                                         *)
(* Nothing is created or deleted here.  The first update of a field        *)
(* records the value it found, its original; when the manifest no longer   *)
(* declares the thing, the recorded values are sent back and forgotten.    *)
(* Devices are applied before entities; both append to the journal of the  *)
(* apply, and either is undone by replaying its own part of it.            *)
(***************************************************************************)
EXTENDS Integers, Sequences, FiniteSets, SequencesExt, PlanSequences

CONSTANTS
  Devices, Entities, \* what the integrations provide
  Entries,           \* items of devices.yaml, each matching by name
  EntryOrder,        \* the entries as the manifest lists them
  ThingOrder,        \* devices and entities by id
  DeviceNames,       \* names an integration may give a device
  AreaKeys,          \* areas a manifest may refer to
  Manifests,         \* what a commit may declare
  Starts,            \* the things as people left them before the agent came
  None,              \* no area; not disabled
  Undeclared,        \* an item the manifest does not hold
  Malformed,         \* an item with a bad id, match or field
  Unrecorded,        \* a thing without recorded originals
  Gone,              \* a thing its integration does not provide
  MaxChanges, \* bound on commits and on what people and integrations do
  MaxFaults,  \* bound on failed calls, failed writes and crashes
  MaxEvents   \* bound on both together

Things == Devices \cup Entities
Fields == {"area", "disabled"}
FieldValues == AreaKeys \cup {None, "user", "integration"}
Partial(S) == UNION {[F -> S] : F \in SUBSET Fields}

\* What a manifest can lay over a thing, and what is recorded to be given back.
Settings == {p \in Partial(FieldValues) :
               /\ "area" \in DOMAIN p => p["area"] \in AreaKeys \cup {None}
               /\ "disabled" \in DOMAIN p => p["disabled"] \in {None, "user"}}

\* What fields a thing may be found with.
Findings == {p \in Partial(FieldValues) :
               /\ "area" \in DOMAIN p => p["area"] \in AreaKeys \cup {None}
               /\ "disabled" \in DOMAIN p => p["disabled"] \in {None, "user", "integration"}}

Registered == [area : AreaKeys \cup {None}, disabled : {None, "user", "integration"}, name : DeviceNames]

ASSUME CustomizeAssumption ==
  /\ Devices \cap Entities = {} /\ Entries \cap Entities = {}
  /\ \A t \in Things : \E i \in DOMAIN ThingOrder : ThingOrder[i] = t
  /\ \A e \in Entries : \E i \in DOMAIN EntryOrder : EntryOrder[i] = e
  /\ ThingOrder \in Seq(Things) /\ EntryOrder \in Seq(Entries)
  /\ \A i, j \in DOMAIN ThingOrder : i # j => ThingOrder[i] # ThingOrder[j]
  /\ \A i, j \in DOMAIN EntryOrder : i # j => EntryOrder[i] # EntryOrder[j]
  /\ IsFiniteSet(Things) /\ IsFiniteSet(Entries)
  /\ Unrecorded \notin Settings \cup Findings /\ None # "integration" /\ Gone \notin Registered
  /\ Starts \subseteq [Things -> Registered \cup {Gone}]
  /\ \A m \in Manifests : \A i \in Entries \cup Entities :
       m[i] \in {Undeclared, Malformed} \/ m[i].fields \in Settings

VARIABLES
  desired,   \* the manifest at the checked-out commit
  live,      \* the device and entity registries: thing -> fields and name, or Gone
  known,     \* areas a reference resolves to
  saved,     \* state.json's device_originals and entity_originals
  savedPointer, journals, \* state.json's LastStashDir; the two newest journals
  plan, pointer, \* the pending operations; the stash Roll Back would use
  phase, mode,   \* where the apply or roll back stands, and which it is
  originals, \* the recorded originals as the apply mutates them in memory
  fetched,   \* the registries as the layer fetched them
  todo, later, \* operations of this layer, and of the next
  prefix, executed, \* the journal of the earlier layer, and of this one
  kept, pos, \* entries whose removal from the journal failed; the next to undo
  conn, outcome, cur,
  \* history, for the properties only
  theirs,    \* each field as it was when the agent first laid a value over it
  astray,    \* things an update of which was not recorded
  before,    \* live and originals that the undo under way is to bring back
  origin,    \* the same, of the apply that Roll Back would undo
  touched,   \* things changed since the plan, other than by an apply of it
  raced,     \* things changed by others since the layer fetched
  settled,   \* the plan landed whole and nothing changed since
  changes, faults

disk == <<saved, savedPointer, journals>>
working == <<originals, fetched, todo, later, prefix, executed, kept, pos, conn, outcome, cur>>
history == <<theirs, astray, before, origin, touched, raced, settled>>
bounds == <<changes, faults>>
vars == <<desired, live, known, disk, plan, pointer, phase, mode, working, history, bounds>>

-----------------------------------------------------------------------------
(* Planning                                                                 *)

\* One problem in either file fails the cycle.
MatchesValid == \A e \in Entries : desired[e] # Malformed
FieldsValid == \A x \in Entities : desired[x] # Malformed
Loaded == MatchesValid /\ FieldsValid

Declared(i) == desired[i] # Undeclared
FieldsOf(i) == desired[i].fields
Declares(i) == Declared(i) /\ DOMAIN FieldsOf(i) # {}

Op(kind, key, id, params) == [kind |-> kind, key |-> key, id |-> id, params |-> params]
NoParams == [f \in {} |-> None]
Error(key) == <<Op("error", key, key, NoParams)>>

\* A field someone other than a user turned off is not the agent's to change.
DisabledByGuard(id, things) == things[id] # Gone /\ things[id].disabled = "integration"

Resolvable(fields) == "area" \in DOMAIN fields => fields["area"] \in known \cup {None}
FieldDiff(id, params) == \E f \in DOMAIN params : live[id][f] # params[f]

\* A mutant of FirstRecording: a field no longer declared is news too.
FirstRecordingAny(id, params) == saved[id] = Unrecorded \/ DOMAIN params # DOMAIN saved[id]

FirstRecording(id, params) == saved[id] = Unrecorded \/ DOMAIN params \ DOMAIN saved[id] # {}

PlanUpdate(key, id, guarded) ==
  CASE guarded \/ ~Resolvable(FieldsOf(key)) -> Error(key)
    [] OTHER ->
         IF FieldDiff(id, FieldsOf(key)) \/ FirstRecording(id, FieldsOf(key))
         THEN <<Op("update", key, id, FieldsOf(key))>> ELSE <<>>

MatchDevices(e) == {d \in Devices : live[d] # Gone /\ live[d].name = desired[e].match}
ClaimedBy(d) == {e \in Entries : Declared(e) /\ MatchDevices(e) = {d}}

\* Devices a declaring entry has, or cannot decide between: not given back.
Protected == UNION {MatchDevices(e) : e \in {x \in Entries : Declares(x)}}
Unmatched == {e \in Entries : Declares(e) /\ MatchDevices(e) = {}}

PlanEntry(e) ==
  LET ms == MatchDevices(e)
      d == CHOOSE x \in ms : TRUE
  IN CASE ~Declared(e) -> <<>>
       [] Declared(e) /\ (Cardinality(ms) # 1 \/ Cardinality(ClaimedBy(d)) > 1) -> Error(e)
       [] OTHER -> IF ~Declares(e) THEN <<>>
                   ELSE PlanUpdate(e, d, "disabled" \in DOMAIN FieldsOf(e) /\ DisabledByGuard(d, live))

Sanitized(recorded) ==
  [f \in {x \in DOMAIN recorded : x = "disabled" => recorded[x] # "integration"} |-> recorded[f]]

\* While an entry matches nothing any device may be the one it is about.
PlanDeviceRestore(d) ==
  LET params == Sanitized(saved[d])
  IN CASE saved[d] = Unrecorded \/ d \in Protected -> <<>>
       [] OTHER ->
            IF live[d] = Gone THEN <<Op("forget", d, d, NoParams)>>
            ELSE IF Unmatched # {} \/ ("disabled" \in DOMAIN params /\ DisabledByGuard(d, live))
            THEN Error(d) ELSE <<Op("restore", d, d, params)>>

PlanEntity(x) ==
  CASE ~Declared(x) -> <<>>
    [] Declared(x) /\ (live[x] = Gone \/ DisabledByGuard(x, live)) -> Error(x)
    [] OTHER -> IF Declares(x) THEN PlanUpdate(x, x, FALSE) ELSE <<>>

PlanEntityRestore(x) ==
  CASE saved[x] = Unrecorded \/ Declares(x) -> <<>>
    [] OTHER -> IF live[x] = Gone \/ DisabledByGuard(x, live) THEN Error(x)
                ELSE <<Op("restore", x, x, Sanitized(saved[x]))>>

Only(S) == Select(ThingOrder, {i \in DOMAIN ThingOrder : ThingOrder[i] \in S})
PlanDevices == Over(EntryOrder, PlanEntry) \o Over(Only(Devices), PlanDeviceRestore)
PlanEntities == Over(Only(Entities), PlanEntity) \o Over(Only(Entities), PlanEntityRestore)
Plan == PlanDevices \o PlanEntities

Executable(ops) == Select(ops, {i \in DOMAIN ops : ops[i].kind # "error"})
Layer(ops, S) == Select(ops, {i \in DOMAIN ops : ops[i].kind # "error" /\ ops[i].id \in S})
-----------------------------------------------------------------------------
Idle == phase = "idle"
NoThings == [t \in Things |-> Gone]
NoOriginals == [t \in Things |-> Unrecorded]
NoBefore == [live |-> NoThings, originals |-> NoOriginals, known |-> FALSE]
Now(recorded) == [live |-> live, originals |-> recorded, known |-> TRUE]
\* History: it cannot be told any more what an undo would bring back.
Unsure(b) == [b EXCEPT !.known = FALSE]

Init ==
  /\ desired \in Manifests /\ live \in Starts /\ known \in SUBSET AreaKeys
  /\ saved = NoOriginals /\ savedPointer = 0 /\ pointer = 0
  /\ journals = [d \in 1 .. 2 |-> <<>>] /\ plan = <<>>
  /\ phase = "idle" /\ mode = "apply"
  /\ originals = NoOriginals /\ fetched = NoThings /\ todo = <<>> /\ later = <<>>
  /\ prefix = <<>> /\ executed = <<>> /\ kept = {} /\ pos = 0 /\ conn = FALSE
  /\ outcome = "ok" /\ cur = 1
  /\ theirs = NoOriginals /\ astray = {} /\ before = NoBefore /\ origin = NoBefore
  /\ touched = {} /\ raced = {} /\ settled = FALSE
  /\ changes = 0 /\ faults = 0

Clear ==
  /\ originals' = NoOriginals /\ fetched' = NoThings /\ todo' = <<>> /\ later' = <<>>
  /\ prefix' = <<>> /\ executed' = <<>> /\ kept' = {} /\ pos' = 0 /\ conn' = FALSE
  /\ outcome' = "ok" /\ cur' = 1 /\ mode' = "apply" /\ before' = NoBefore

Change == changes < MaxChanges /\ changes + faults < MaxEvents /\ changes' = changes + 1
Fault == faults < MaxFaults /\ changes + faults < MaxEvents /\ faults' = faults + 1
NoFault == UNCHANGED faults

-----------------------------------------------------------------------------
(* What happens around the agent                                            *)

Push ==
  /\ Change /\ desired' \in Manifests \ {desired} /\ settled' = FALSE /\ touched' = Things
  /\ UNCHANGED <<live, known, disk, plan, pointer, phase, mode, working, theirs, astray, before, origin, raced, faults>>

\* A person sets a field, an integration turns a thing off, renames a device,
\* drops a thing or provides it again; an area is created or deleted.
Edit ==
  /\ Change /\ settled' = FALSE
  /\ \/ /\ \E t \in Things :
             /\ \/ /\ live[t] # Gone
                   /\ \/ \E a \in known \cup {None} : live' = [live EXCEPT ![t].area = a]
                      \/ \E v \in {None, "user", "integration"} : live' = [live EXCEPT ![t].disabled = v]
                      \/ t \in Devices /\ \E n \in DeviceNames : live' = [live EXCEPT ![t].name = n]
                      \/ live' = [live EXCEPT ![t] = Gone]
                \/ live[t] = Gone /\ \E s \in Starts : live' = [live EXCEPT ![t] = s[t]]
             /\ touched' = touched \cup {t} /\ raced' = raced \cup {t}
        /\ UNCHANGED known
     \/ \E a \in AreaKeys :
          \/ a \notin known /\ known' = known \cup {a} /\ touched' = Things /\ UNCHANGED <<live, raced>>
          \/ /\ a \in known /\ known' = known \ {a}
             /\ live' = [t \in Things |-> IF live[t] # Gone /\ live[t].area = a
                                          THEN [live[t] EXCEPT !.area = None] ELSE live[t]]
             /\ touched' = Things /\ raced' = Things
  /\ before' = Unsure(before) /\ origin' = Unsure(origin)
  /\ UNCHANGED <<desired, disk, plan, pointer, phase, mode, working, theirs, astray, faults>>

\* What the apply recorded so far, and has not saved, is lost with the process.
Unsaved == {t \in Things : originals[t] # saved[t]}
Crash ==
  /\ Fault
  /\ plan' = <<>> /\ pointer' = savedPointer /\ phase' = "idle" /\ Clear
  /\ astray' = IF Idle THEN astray ELSE astray \cup Unsaved
  /\ origin' = IF Idle THEN origin ELSE Unsure(origin)
  /\ settled' = FALSE
  /\ UNCHANGED <<desired, live, known, disk, theirs, touched, raced, changes>>

-----------------------------------------------------------------------------
(* The agent                                                                *)

\* A cycle publishes its plan; one that fails discards the plan there was.
Reconcile ==
  /\ Idle
  /\ plan' = IF Loaded THEN Plan ELSE <<>>
  /\ touched' = IF Loaded THEN {} ELSE touched
  /\ UNCHANGED <<desired, live, known, disk, pointer, phase, mode, working, theirs, astray, before, origin, raced, settled, bounds>>

SendsAnything(ops) == \E op \in ToSet(ops) : op.kind # "forget"

\* A layer connects and fetches its registry.  The second layer appends to
\* the journal of the first.
BeginLayer(ops, earlier) ==
  /\ prefix' = earlier /\ todo' = ops /\ executed' = <<>> /\ kept' = {} /\ pos' = 0 /\ raced' = {}
  /\ \/ NoFault /\ fetched' = live /\ conn' = SendsAnything(ops) /\ outcome' = "ok" /\ phase' = "exec"
     \/ /\ Fault /\ SendsAnything(ops)
        /\ fetched' = NoThings /\ conn' = FALSE /\ outcome' = "failed" /\ phase' = "save"

StartApply ==
  /\ Idle /\ Executable(plan) # <<>>
  /\ mode' = "apply" /\ originals' = saved
  /\ cur' = IF pointer = 1 THEN 2 ELSE 1
  /\ journals' = [journals EXCEPT ![cur'] = <<>>]
  /\ LET dops == Layer(plan, Devices)  eops == Layer(plan, Entities)
     IN IF dops # <<>> THEN BeginLayer(dops, <<>>) /\ later' = eops
                       ELSE BeginLayer(eops, <<>>) /\ later' = <<>>
  /\ before' = Now(saved) /\ origin' = Now(saved)
  /\ settled' = FALSE
  /\ UNCHANGED <<desired, live, known, saved, savedPointer, plan, pointer, theirs, astray, touched, changes>>

\* The devices landed: the entities follow.
NextLayer ==
  /\ phase = "exec" /\ todo = <<>> /\ later # <<>>
  /\ BeginLayer(later, prefix \o executed) /\ later' = <<>>
  /\ before' = Now(originals)
  /\ UNCHANGED <<desired, live, known, disk, plan, pointer, mode, originals, cur, theirs, astray, origin, touched, settled, changes>>

\* A mutant of ApplyGuard: only devices are looked at again.
ApplyGuardDevices(op) ==
  DisabledByGuard(op.id, fetched) /\ op.id \in Devices /\ "disabled" \in DOMAIN op.params

\* The whole entity is out of bounds when its integration or another entity
\* turned it off; a device only when the operation would turn it on or off.
ApplyGuard(op) ==
  DisabledByGuard(op.id, fetched) /\ (op.id \in Devices => "disabled" \in DOMAIN op.params)

Accepts(op) ==
  op.kind # "forget" =>
    /\ op.id \in Devices => fetched[op.id] # Gone
    /\ ~ApplyGuard(op)
    /\ live[op.id] # Gone

With(obj, params) == [f \in DOMAIN obj |-> IF f \in DOMAIN params THEN params[f] ELSE obj[f]]
Effect(op) == IF op.kind = "forget" THEN live ELSE [live EXCEPT ![op.id] = With(@, op.params)]

Fetched(id, f) == IF fetched[id] = Gone THEN None ELSE fetched[id][f]

\* A mutant of Clamped: whether it was off, not who turned it off.
ClampedFlag(f, v) == IF f = "disabled" THEN (IF v = "user" THEN "off" ELSE "on") ELSE v

Clamped(f, v) == IF f = "disabled" /\ v # "user" THEN None ELSE v
Recorded(id) == IF originals[id] = Unrecorded THEN NoParams ELSE originals[id]

\* A mutant of Originals: the latest value found is the one kept.
OriginalsLatest(op) ==
  [originals EXCEPT ![op.id] =
     IF op.kind # "update" THEN Unrecorded
     ELSE [f \in DOMAIN op.params |-> Clamped(f, Fetched(op.id, f))]]

\* The first value found in a field is the one kept.
Originals(op) ==
  [originals EXCEPT ![op.id] =
     IF op.kind # "update" THEN Unrecorded
     ELSE [f \in DOMAIN Recorded(op.id) \cup DOMAIN op.params |->
             IF f \in DOMAIN Recorded(op.id) THEN Recorded(op.id)[f] ELSE Clamped(f, Fetched(op.id, f))]]

\* A mutant of Entry: the snapshot is taken after the recording.
EntryAfter(op) ==
  [kind |-> op.kind, key |-> op.key, id |-> op.id, snapshot |-> Originals(op)[op.id],
   prior |-> [f \in DOMAIN op.params |-> Fetched(op.id, f)]]

Entry(op) ==
  [kind |-> op.kind, key |-> op.key, id |-> op.id, snapshot |-> originals[op.id],
   prior |-> [f \in DOMAIN op.params |-> Fetched(op.id, f)]]

\* History: what a field was when the agent took it over, while it has it.
TakenOver(op) ==
  [theirs EXCEPT ![op.id] =
     IF op.kind # "update" THEN Unrecorded
     ELSE LET had == IF @ = Unrecorded THEN NoParams ELSE @
          IN [f \in DOMAIN had \cup DOMAIN op.params |->
                IF f \in DOMAIN had THEN had[f] ELSE live[op.id][f]]]

\* One operation lands and is journalled.  When the journal cannot be written
\* the apply stops there and keeps what landed.
ExecuteOne ==
  /\ phase = "exec" /\ todo # <<>>
  /\ LET op == Head(todo) IN
       /\ Accepts(op)
       /\ live' = Effect(op) /\ originals' = Originals(op) /\ theirs' = TakenOver(op)
       /\ executed' = Append(executed, Entry(op))
       /\ astray' = IF op.id \in raced THEN astray \cup {op.id} ELSE astray
  /\ \/ /\ NoFault /\ todo' = Tail(todo)
        /\ journals' = [journals EXCEPT ![cur] = prefix \o executed']
        /\ UNCHANGED <<outcome, phase>>
     \/ /\ Fault /\ outcome' = "unjournalled" /\ phase' = "save" /\ UNCHANGED <<journals, todo>>
  /\ UNCHANGED <<desired, known, saved, savedPointer, plan, pointer, mode, fetched, later, prefix, kept, pos,
                 conn, cur, before, origin, touched, raced, settled, changes>>

\* Refused by the guard or by Home Assistant, or the answer was lost.
OpFails ==
  /\ phase = "exec" /\ todo # <<>>
  /\ LET op == Head(todo) IN
       \/ ~Accepts(op) /\ NoFault /\ UNCHANGED <<live, conn, astray, before>>
       \/ /\ op.kind # "forget" /\ Fault
          /\ \/ conn' \in BOOLEAN /\ UNCHANGED <<live, astray, before>>
             \/ /\ Accepts(op) /\ live' = Effect(op) /\ conn' = FALSE
                /\ astray' = astray \cup {op.id} /\ before' = Unsure(before)
  /\ outcome' = "rolledBack" /\ phase' = "undo" /\ pos' = Len(executed)
  /\ UNCHANGED <<desired, known, disk, plan, pointer, mode, originals, fetched, todo, later, prefix, executed,
                 kept, cur, theirs, origin, touched, raced, settled, changes>>

ApplyDone ==
  /\ phase = "exec" /\ todo = <<>> /\ later = <<>>
  /\ phase' = "save"
  /\ UNCHANGED <<desired, live, known, disk, plan, pointer, mode, working, history, bounds>>

-----------------------------------------------------------------------------
(* Undoing this layer's entries, newest first, or for Roll Back all of them *)

Left(S) == prefix \o Select(executed, (1 .. (pos - 1)) \cup S)

Inverted(e) == IF e.kind = "forget" THEN live ELSE [live EXCEPT ![e.id] = With(@, e.prior)]
Invertible(e) == e.kind = "forget" \/ live[e.id] # Gone

\* History: the agent gave the fields of the entry back, and has again what
\* it had before it.
GivenBack(e) ==
  [theirs EXCEPT ![e.id] =
     IF e.snapshot = Unrecorded THEN Unrecorded
     ELSE [f \in DOMAIN e.snapshot |-> IF @ # Unrecorded /\ f \in DOMAIN @ THEN @[f] ELSE e.snapshot[f]]]

\* The entry leaves the journal, then its inverse is sent, over a new
\* connection when the old one was lost.
UndoOne ==
  /\ phase = "undo" /\ pos > 0
  /\ LET e == executed[pos] IN
       \/ /\ Fault /\ kept' = kept \cup {pos} /\ outcome' = "failed"
          /\ UNCHANGED <<live, originals, journals, conn, phase, theirs, astray>>
       \/ /\ journals' = [journals EXCEPT ![cur] = Left(kept)] /\ UNCHANGED kept
          /\ \/ /\ Invertible(e) /\ NoFault /\ conn' = TRUE
                /\ live' = Inverted(e) /\ originals' = [originals EXCEPT ![e.id] = e.snapshot]
                /\ theirs' = GivenBack(e)
                /\ UNCHANGED <<outcome, phase, astray>>
             \/ /\ ~Invertible(e) /\ NoFault /\ conn' = TRUE /\ outcome' = "failed"
                /\ UNCHANGED <<live, originals, phase, theirs, astray>>
             \/ /\ e.kind # "forget" /\ Fault /\ outcome' = "failed" /\ conn' = FALSE
                /\ live' \in {live} \cup (IF Invertible(e) THEN {Inverted(e)} ELSE {})
                /\ astray' = IF live' = live THEN astray ELSE astray \cup {e.id}
                /\ UNCHANGED <<originals, phase, theirs>>
             \/ /\ ~conn /\ NoFault /\ outcome' = "failed" /\ phase' = "save"
                /\ UNCHANGED <<live, originals, conn, theirs, astray>>
  /\ pos' = pos - 1
  /\ UNCHANGED <<desired, known, saved, savedPointer, plan, pointer, mode, fetched, todo, later, prefix,
                 executed, cur, before, origin, touched, raced, settled, changes>>

UndoDone ==
  /\ phase = "undo" /\ pos = 0
  /\ phase' = "save"
  /\ UNCHANGED <<desired, live, known, disk, plan, pointer, mode, working, history, bounds>>

StartRollback ==
  /\ Idle /\ pointer # 0
  /\ mode' = "rollback" /\ cur' = pointer /\ originals' = saved
  /\ executed' = journals[pointer] /\ pos' = Len(executed')
  /\ prefix' = <<>> /\ kept' = {} /\ fetched' = NoThings /\ todo' = <<>> /\ later' = <<>>
  /\ \/ NoFault /\ conn' = TRUE /\ outcome' = "rolledBack" /\ phase' = "undo"
     \/ Fault /\ conn' = FALSE /\ outcome' = "failed" /\ phase' = "save"
  /\ before' = origin /\ origin' = NoBefore /\ settled' = FALSE /\ touched' = Things
  /\ UNCHANGED <<desired, live, known, disk, plan, pointer, theirs, astray, raced, changes>>

Landed == ToSet(prefix) \cup (IF outcome = "unjournalled" THEN ToSet(executed) ELSE {})
StillPending ==
  Select(plan, {i \in DOMAIN plan :
    IF outcome = "ok" THEN plan[i].kind = "error"
    ELSE ~\E e \in Landed : e.kind = plan[i].kind /\ e.key = plan[i].key})

\* One save records the originals of both layers and the stash directory.
StateSave ==
  /\ phase = "save"
  /\ \/ /\ NoFault
        /\ saved' = originals
        /\ LET p == IF mode = "apply" THEN cur ELSE IF outcome = "rolledBack" THEN 0 ELSE pointer
           IN pointer' = p /\ savedPointer' = p
        /\ plan' = IF mode = "apply" THEN StillPending ELSE plan
        /\ settled' = (mode = "apply" /\ outcome = "ok" /\ touched = {})
        /\ origin' = IF mode = "apply" /\ outcome = "ok" THEN origin ELSE NoBefore
        /\ UNCHANGED astray
     \/ /\ Fault
        /\ settled' = FALSE /\ origin' = NoBefore
        /\ astray' = astray \cup Unsaved
        /\ pointer' = IF mode = "apply" THEN cur ELSE pointer
        /\ UNCHANGED <<saved, savedPointer, plan>>
  /\ phase' = "idle" /\ Clear
  /\ UNCHANGED <<desired, live, known, journals, theirs, touched, raced, changes>>

Next ==
  \/ Push \/ Edit \/ Crash
  \/ Reconcile \/ StartApply \/ NextLayer \/ ExecuteOne \/ OpFails \/ ApplyDone
  \/ UndoOne \/ UndoDone \/ StartRollback \/ StateSave

Spec == Init /\ [][Next]_vars
-----------------------------------------------------------------------------
Op_ == {op \in [kind : {"update", "restore", "forget", "error"}, key : Entries \cup Things,
                 id : Entries \cup Things, params : Settings] : op.kind # "error" => op.id \in Things}
Entry_ == [kind : {"update", "restore", "forget"}, key : Entries \cup Things, id : Things,
           snapshot : Settings \cup {Unrecorded}, prior : Findings]

\* Every variable has its type; an operation is about a thing, and sets what
\* a manifest may set; nothing that failed to be planned is executed.
TypeOK ==
  /\ desired \in Manifests /\ known \subseteq AreaKeys
  /\ live \in [Things -> Registered \cup {Gone}] /\ fetched \in [Things -> Registered \cup {Gone}]
  /\ saved \in [Things -> Settings \cup {Unrecorded}] /\ originals \in [Things -> Settings \cup {Unrecorded}]
  /\ plan \in Seq(Op_) /\ todo \in Seq(Op_) /\ later \in Seq(Op_)
  /\ \A op \in ToSet(todo) \cup ToSet(later) : op.kind # "error"
  /\ prefix \in Seq(Entry_) /\ executed \in Seq(Entry_) /\ journals \in [1 .. 2 -> Seq(Entry_)]
  /\ phase \in {"idle", "exec", "undo", "save"} /\ mode \in {"apply", "rollback"}
  /\ outcome \in {"ok", "failed", "rolledBack", "unjournalled"}
  /\ pos \in 0 .. Len(executed) /\ kept \subseteq DOMAIN executed
  /\ cur \in 1 .. 2 /\ pointer \in 0 .. 2 /\ savedPointer \in 0 .. 2

\* What the agent gives back when a manifest item goes is what was there
\* before the agent, however many manifests, drifts and undone applies lie in
\* between, for every thing none of whose updates went unrecorded.  (Apply may
\* send a restore once more that Roll Back made pointless: then nothing is
\* recorded to compare it with.)
RestoreGivesBack ==
  [][ExecuteOne /\ Head(todo).kind = "restore" =>
       LET t == Head(todo).id IN
         theirs[t] = Unrecorded \/ t \in astray'
           \/ \A f \in DOMAIN theirs[t] : live'[t][f] = Clamped(f, theirs[t][f])]_vars

\* An apply never turns a thing back on, or off for itself, that its
\* integration had turned off before the layer looked, not even to undo.
IntegrationDecides ==
  [][(ExecuteOne \/ OpFails \/ UndoOne) /\ mode = "apply" =>
       \A t \in Things \ raced :
         live[t] # Gone /\ live[t].disabled = "integration" => live'[t].disabled = "integration"]_vars

\* An undo that reports success brought back the fields and the recorded
\* originals: of the layer that failed, or, for Roll Back, of both layers.
RolledBackRestores ==
  phase = "save" /\ outcome = "rolledBack" /\ before.known =>
    live = before.live /\ originals = before.originals

\* After a whole plan landed the next cycle finds nothing to do, whatever was
\* recorded, restored or forgotten on the way.
SettledMeansNoPlan == settled => Executable(Plan) = <<>>

=============================================================================
