------------------------- MODULE GitOpsRegistries -------------------------
(***************************************************************************)
(* The registry layer of the GitOps agent: floors, areas and helpers       *)
(* declared in gitops/registries.yaml and gitops/helpers.yaml              *)
(* (internal/registries, internal/regapply).                               *)
(*                                                                         *)
(* A cycle plans creates, adoptions, updates, deletes and forgets from the *)
(* manifest, the live registries and the recorded "key -> live id" mapping.*)
(* Apply executes the plan one call at a time, journalling each operation  *)
(* after it landed; a failing call undoes what the plan did so far, newest *)
(* first, shortening the journal before each inverse.  The mapping reaches *)
(* /data only with the StateSave at the end.  Roll Back replays the        *)
(* journal of the last saved apply.  People edit the registries, and the   *)
(* process stops, at any point in between.                                 *)
(***************************************************************************)
EXTENDS Integers, Sequences, FiniteSets, SequencesExt

CONSTANTS
  Floors, Areas, Helpers, \* the manifest keys of each registry type
  KeyOrder,               \* every key once: floors, then areas, then helpers
  Names,                  \* display names
  Manifests,              \* the manifests a commit may hold
  Starts,                 \* the registries as people left them before the agent came, the manifest it
                          \* finds, and how many commits and edits follow (a bound)
  None,                   \* no live id; a field declared null
  Keep,                   \* a field the manifest item does not declare
  Undeclared,             \* a key the manifest does not hold
  Malformed,              \* an item that fails one of the checks of its fields
  Gone,                   \* a live id nothing has
  MaxFaults   \* bound on failed calls, failed writes and crashes

Keys == Floors \cup Areas \cup Helpers

ASSUME KeysAssumption ==
  /\ Floors \cap Areas = {} /\ Floors \cap Helpers = {} /\ Areas \cap Helpers = {}
  /\ KeyOrder \in Seq(Keys) /\ Len(KeyOrder) = Cardinality(Keys)
  /\ \A k \in Keys : \E i \in DOMAIN KeyOrder : KeyOrder[i] = k

RTypeOf(k) == IF k \in Floors THEN "floor" ELSE IF k \in Areas THEN "area" ELSE "helper"

Slugs == 1 .. 2
Ids == [rtype : {"floor", "area", "helper"}, name : Names, n : Slugs]
Objects == [name : Names, floor : Ids \cup {None}]
Kinds == {"create", "update", "delete", "forget", "error"}

VARIABLES
  \* the repository
  desired,   \* the manifest at the checked-out commit
  \* Home Assistant
  live,      \* the live registries: id -> object, or Gone
  \* /data
  saved,     \* state.json's registry_managed
  savedPointer, \* state.json's LastStashDir
  journals,  \* registry_stash.json of the two newest stash directories
  \* the process
  plan,      \* the published pending operations
  pointer,   \* the stash directory Roll Back would use
  phase,     \* where the apply or the roll back stands
  mode,      \* "apply" or "rollback"
  managed,   \* registry_managed as the apply mutates it in memory
  fetched,   \* the live registries as the apply fetched them
  todo,      \* operations not executed yet
  resolvedIDs, \* ids the operations of this apply created or updated
  executed,  \* journal entries of the operations executed
  outstanding, \* the entries' positions still journalled
  pos,       \* the entry being inverted
  conn,      \* whether the websocket is up
  outcome,   \* of the apply or the roll back so far
  cur,       \* the stash directory in use
  \* history, for the properties only
  before,    \* live and managed that an undo is to bring back, if it can
  origin,    \* before, of the apply Roll Back would undo, while it can
  inverted,  \* positions whose inverse landed
  unseen,    \* a call landed whose answer was lost
  calm,      \* the registries are what the plan was made for, but for what an apply of it did
  planned,   \* the manifest the plan was computed from
  freed,     \* ids the plan deletes that were given up since it was made, for anything to get
  settled,   \* a whole plan landed and was recorded, and nothing changed since
  changes,   \* commits and edits still to come
  faults

disk == <<saved, savedPointer, journals>>
working == <<managed, fetched, todo, resolvedIDs, executed, outstanding, pos, conn, outcome, cur>>
history == <<before, origin, inverted, unseen, calm, planned, freed, settled>>
bounds == <<changes, faults>>
vars == <<desired, live, disk, plan, pointer, phase, mode, working, history, bounds>>

-----------------------------------------------------------------------------
(* Planning: registries.LoadManifests and registries.Plan                   *)

\* One problem in either file and the cycle fails, the whole manifest with it.
ItemsValid(S) == \A k \in S : desired[k] # Malformed
RefsDeclared == \A k \in Areas :
  desired[k] # Undeclared /\ desired[k].floor \in Floors => desired[desired[k].floor] # Undeclared
HelpersValid == ItemsValid(Helpers)
Loaded == ItemsValid(Floors \cup Areas) /\ RefsDeclared /\ HelpersValid

Declared(k) == desired[k] # Undeclared
Exists(id) == id # None /\ live[id] # Gone
LiveOf(t) == {id \in Ids : id.rtype = t /\ live[id] # Gone}

Op(kind, k, id, params) == [kind |-> kind, key |-> k, id |-> id, params |-> params]
NoParams == [name |-> None, floor |-> Keep]

\* An area's floor becomes the floor's live id when that is known, and a
\* reference resolved while applying when it is not.
ParamsForItem(k, resolved) ==
  [name |-> desired[k].name,
   floor |-> LET f == desired[k].floor
             IN IF f \notin Floors THEN f
                ELSE IF resolved[f] # None THEN resolved[f] ELSE [ref |-> f]]

\* A mutant of FieldDiff: a field the manifest leaves out is a difference.
FieldDiffStrict(params, id) ==
  params.name # live[id].name \/ params.floor # live[id].floor

FieldDiff(params, id) ==
  params.name # live[id].name \/ (params.floor # Keep /\ params.floor # live[id].floor)

NewPlan ==
  [ops |-> <<>>, resolved |-> [k \in Keys |-> None],
   claimed |-> {saved[k] : k \in {x \in Keys : Declared(x)}} \ {None},
   contested |-> {}, broken |-> {}]

Candidates(k, acc) ==
  {id \in LiveOf(RTypeOf(k)) : live[id].name = desired[k].name /\ id \notin acc.claimed}

\* The plan so far with one more declared key planned.
PlanItem(acc, k) ==
  LET params == ParamsForItem(k, acc.resolved)
      cands == Candidates(k, acc)
      Refuse == [acc EXCEPT !.ops = Append(@, Op("error", k, None, NoParams)),
                            !.broken = @ \cup {k}, !.contested = @ \cup cands]
      Create == [acc EXCEPT !.ops = Append(@, Op("create", k, None, params))]
      Follow(id) == [acc EXCEPT !.resolved[k] = id, !.claimed = @ \cup {id}]
      Update(id) == [Follow(id) EXCEPT !.ops = Append(@, Op("update", k, id, params))]
  IN CASE ~Declared(k) -> acc
       [] Declared(k) /\ desired[k].floor \in acc.broken -> Refuse
       [] OTHER ->
            CASE Exists(saved[k]) -> IF FieldDiff(params, saved[k]) THEN Update(saved[k])
                                                                   ELSE Follow(saved[k])
              [] saved[k] # None /\ ~Exists(saved[k]) -> Create
              [] saved[k] = None /\ Cardinality(cands) = 1 -> Update(CHOOSE id \in cands : TRUE)
              [] saved[k] = None /\ Cardinality(cands) > 1 -> Refuse
              [] saved[k] = None /\ cands = {} -> Create

PlanGroups == FoldLeft(PlanItem, NewPlan, KeyOrder)

\* A mutant of PlanDelete: a dropped key's object goes, whoever has it now.
PlanDeleteOwned(acc, k) ==
  IF Declared(k) \/ saved[k] = None THEN acc
  ELSE [acc EXCEPT !.ops = Append(@, Op(IF Exists(saved[k]) THEN "delete" ELSE "forget", k, saved[k], NoParams))]

\* A key the manifest dropped: its object is deleted unless it is gone, a
\* declared key has it now, or a declared key might be meant to have it.
PlanDelete(acc, k) ==
  LET id == saved[k]
      owned == \E x \in Keys : acc.resolved[x] = id
      Add(kind) == [acc EXCEPT !.ops = Append(@, Op(kind, k, id, NoParams))]
  IN CASE Declared(k) \/ id = None -> acc
       [] OTHER -> IF ~Exists(id) \/ owned THEN Add("forget")
                   ELSE IF id \in acc.contested THEN acc ELSE Add("delete")

\* Deletes run in reverse type order: an area goes before the floor it is on.
KeysOf(S) == SelectSeq(KeyOrder, LAMBDA k : k \in S)
Plan ==
  FoldLeft(PlanDelete, PlanGroups, KeysOf(Helpers) \o KeysOf(Areas) \o KeysOf(Floors)).ops

Executable(ops) == SelectSeq(ops, LAMBDA op : op.kind # "error")
DeletedBy(ops) == {op.id : op \in {o \in ToSet(ops) : o.kind = "delete"}}

-----------------------------------------------------------------------------
(* Home Assistant's registries                                              *)

Unique(t) == t \in {"floor", "area"}
NameTaken(t, name, id) == Unique(t) /\ \E x \in LiveOf(t) \ {id} : live[x].name = name
FreeIds(t, name) == {id \in Ids : id.rtype = t /\ id.name = name /\ live[id] = Gone}
NewId(t, name) == CHOOSE id \in FreeIds(t, name) : \A x \in FreeIds(t, name) : id.n <= x.n
CanCreate(t, name) == FreeIds(t, name) # {} /\ ~NameTaken(t, name, None)

Stored(v) == IF v = Keep THEN None ELSE v
WithUpdate(id, params) ==
  [live EXCEPT ![id] = [name |-> params.name,
                        floor |-> IF params.floor = Keep THEN @.floor ELSE params.floor]]
\* Deleting a floor takes it off the areas that were on it.
WithoutObject(id) ==
  [x \in Ids |-> IF x = id THEN Gone
                 ELSE IF live[x] # Gone /\ live[x].floor = id THEN [live[x] EXCEPT !.floor = None]
                 ELSE live[x]]
WithObject(id, obj) == [live EXCEPT ![id] = obj]

-----------------------------------------------------------------------------
Idle == phase = "idle"
NoWork ==
  /\ managed = [k \in Keys |-> None] /\ fetched = <<>>
  /\ todo = <<>> /\ resolvedIDs = [k \in Keys |-> None]
  /\ executed = <<>> /\ outstanding = {} /\ pos = 0 /\ conn = FALSE
  /\ outcome = "ok" /\ cur = 1

NoBefore == [live |-> <<>>, managed |-> <<>>, known |-> FALSE]

Init ==
  /\ \E s \in Starts : live = s.live /\ desired = s.desired /\ changes = s.changes
  /\ saved = [k \in Keys |-> None]
  /\ savedPointer = 0 /\ pointer = 0
  /\ journals = [d \in 1 .. 2 |-> <<>>]
  /\ plan = <<>> /\ phase = "idle" /\ mode = "apply"
  /\ NoWork
  /\ before = NoBefore /\ origin = NoBefore /\ inverted = {} /\ unseen = FALSE
  /\ calm = TRUE /\ planned = desired /\ freed = {} /\ settled = FALSE
  /\ faults = 0

Clear ==
  /\ managed' = [k \in Keys |-> None] /\ fetched' = <<>>
  /\ todo' = <<>> /\ resolvedIDs' = [k \in Keys |-> None]
  /\ executed' = <<>> /\ outstanding' = {} /\ pos' = 0 /\ conn' = FALSE
  /\ outcome' = "ok" /\ cur' = 1 /\ mode' = "apply"
  /\ before' = NoBefore /\ inverted' = {} /\ unseen' = FALSE

Fault == faults < MaxFaults /\ faults' = faults + 1
NoFault == UNCHANGED faults

-----------------------------------------------------------------------------
(* What happens around the agent                                            *)

\* A commit changes the manifest.
Push ==
  /\ changes > 0 /\ changes' = changes - 1
  /\ desired' \in Manifests \ {desired}
  /\ settled' = FALSE
  /\ UNCHANGED <<live, disk, plan, pointer, phase, mode, working, before, origin, inverted, unseen, calm, planned, freed, faults>>

\* A person makes, renames or deletes an object in the Home Assistant UI.
Edit ==
  /\ changes > 0 /\ changes' = changes - 1
  /\ \/ \E t \in {"floor", "area", "helper"}, name \in Names :
          /\ CanCreate(t, name)
          /\ live' = WithObject(NewId(t, name), [name |-> name, floor |-> None])
     \/ \E id \in Ids, name \in Names :
          /\ Exists(id) /\ name # live[id].name /\ ~NameTaken(id.rtype, name, id)
          /\ live' = [live EXCEPT ![id].name = name]
     \/ \E id \in Ids : Exists(id) /\ live' = WithoutObject(id)
  /\ calm' = FALSE /\ settled' = FALSE /\ origin' = NoBefore
  /\ freed' = freed \cup {id \in DeletedBy(plan) : live'[id] = Gone}
  /\ UNCHANGED <<desired, disk, plan, pointer, phase, mode, working, before, inverted, unseen, planned, faults>>

\* The process stops: what it had in memory is lost, an apply stays where
\* it was, and the journal it wrote stays behind without a pointer to it.
Crash ==
  /\ Fault
  /\ plan' = <<>> /\ pointer' = savedPointer /\ phase' = "idle" /\ freed' = {} /\ Clear
  /\ UNCHANGED <<desired, live, disk, origin, calm, planned, settled, changes>>

-----------------------------------------------------------------------------
(* The agent                                                                *)

\* A cycle fetches the registries and publishes the plan.  When it cannot,
\* it discards the one it published before.
Reconcile ==
  /\ Idle
  /\ \/ /\ Loaded /\ NoFault
        /\ plan' = Plan
        /\ calm' = TRUE /\ planned' = desired
     \/ /\ IF Loaded THEN Fault ELSE NoFault
        /\ plan' = <<>>
        /\ UNCHANGED <<calm, planned>>
  /\ freed' = {}
  /\ UNCHANGED <<desired, live, disk, pointer, phase, mode, working, before, origin, inverted, unseen, settled, changes>>

\* Apply allocates a stash directory, connects, fetches the registries for
\* the objects' prior values and starts an empty journal.  Any of these may
\* fail, and then nothing was executed.
StartApply ==
  /\ Idle /\ Executable(plan) # <<>>
  /\ mode' = "apply"
  /\ managed' = saved
  /\ todo' = Executable(plan)
  /\ cur' = IF pointer = 1 THEN 2 ELSE 1
  /\ resolvedIDs' = [k \in Keys |-> None]
  /\ executed' = <<>> /\ outstanding' = {} /\ pos' = 0
  /\ \/ /\ NoFault
        /\ fetched' = live /\ conn' = TRUE /\ outcome' = "ok" /\ phase' = "exec"
     \/ /\ Fault
        /\ fetched' = <<>> /\ conn' = FALSE
        /\ outcome' = "failed" /\ phase' = "save"
  /\ journals' = [journals EXCEPT ![cur'] = <<>>]
  /\ before' = [live |-> live, managed |-> saved, known |-> TRUE] /\ origin' = NoBefore
  /\ inverted' = {} /\ unseen' = FALSE /\ settled' = FALSE
  /\ UNCHANGED <<desired, live, saved, savedPointer, plan, pointer, calm, planned, freed, changes>>

\* References resolve against what this apply created, then the mapping.
ResolveRef(f) == IF resolvedIDs[f] # None THEN resolvedIDs[f] ELSE managed[f]
IsRef(v) == v \in {[ref |-> f] : f \in Floors}
Unresolved(op) == IsRef(op.params.floor) /\ ResolveRef(op.params.floor.ref) = None
Resolved(op) ==
  [op.params EXCEPT !.floor = IF IsRef(@) THEN ResolveRef(@.ref) ELSE @]

\* Whether Home Assistant would accept the call.  The id an operation names
\* was live when the plan was made and may be gone since.
Accepts(op) ==
  CASE op.kind = "create" -> ~Unresolved(op) /\ CanCreate(RTypeOf(op.key), op.params.name)
    [] op.kind = "update" -> /\ ~Unresolved(op) /\ fetched[op.id] # Gone /\ Exists(op.id)
                             /\ ~NameTaken(op.id.rtype, op.params.name, op.id)
    [] op.kind = "delete" -> Exists(op.id)
    [] op.kind = "forget" -> TRUE

Effect(op) ==
  CASE op.kind = "create" ->
         WithObject(NewId(RTypeOf(op.key), op.params.name),
                    [name |-> op.params.name, floor |-> Stored(Resolved(op).floor)])
    [] op.kind = "update" -> WithUpdate(op.id, Resolved(op))
    [] op.kind = "delete" -> WithoutObject(op.id)
    [] op.kind = "forget" -> live

LandedId(op) == IF op.kind = "create" THEN NewId(RTypeOf(op.key), op.params.name) ELSE op.id

Entry(op) ==
  [kind |-> op.kind, key |-> op.key, id |-> LandedId(op), params |-> Resolved(op),
   prior |-> IF op.kind \in {"update", "delete"} THEN fetched[op.id] ELSE Gone,
   adopted |-> op.kind = "update" /\ managed[op.key] = None]

\* One operation lands.
ExecuteOne ==
  /\ phase = "exec" /\ todo # <<>>
  /\ LET op == Head(todo) IN
       /\ Accepts(op)
       /\ live' = Effect(op)
       /\ executed' = Append(executed, Entry(op))
       /\ managed' = [managed EXCEPT ![op.key] =
                        IF op.kind \in {"create", "update"} THEN LandedId(op) ELSE None]
       /\ resolvedIDs' = [resolvedIDs EXCEPT ![op.key] =
                            IF op.kind \in {"create", "update"} THEN LandedId(op) ELSE @]
  /\ outstanding' = 1 .. Len(executed')
  /\ phase' = "journal"
  /\ UNCHANGED <<desired, disk, plan, pointer, mode, fetched, todo, pos, conn, outcome, cur, history, bounds>>

\* The journal is rewritten after the operation.  A failed write stops the
\* apply and undoes nothing: what landed stays, off the journal.
WriteJournal ==
  /\ phase = "journal"
  /\ \/ /\ NoFault
        /\ journals' = [journals EXCEPT ![cur] = executed]
        /\ todo' = Tail(todo)
        /\ phase' = "exec"
        /\ UNCHANGED outcome
     \/ /\ Fault
        /\ outcome' = "unjournalled" /\ phase' = "save"
        /\ UNCHANGED <<journals, todo>>
  /\ UNCHANGED <<desired, live, saved, savedPointer, plan, pointer, mode, managed, fetched, resolvedIDs,
                 executed, outstanding, pos, conn, cur, history, changes>>

\* An operation fails: refused, or its answer was lost, in which case it may
\* have landed and the connection is gone.  The undo starts with the newest.
OpFails ==
  /\ phase = "exec" /\ todo # <<>>
  /\ LET op == Head(todo) IN
       \/ /\ ~Accepts(op) /\ NoFault
          /\ conn' = TRUE /\ UNCHANGED <<live, unseen, freed>>
       \/ /\ op.kind # "forget" /\ Fault
          /\ \/ conn' \in BOOLEAN /\ UNCHANGED <<live, unseen, freed>>
             \/ /\ conn' = FALSE /\ Accepts(op) /\ live' = Effect(op) /\ unseen' = TRUE
                /\ freed' = freed \cup (DeletedBy(<<op>>) \cap DeletedBy(plan))
  /\ outcome' = "rolledBack" /\ phase' = "undo" /\ pos' = Len(executed)
  /\ UNCHANGED <<desired, disk, plan, pointer, mode, managed, fetched, todo, resolvedIDs, executed,
                 outstanding, cur, before, origin, inverted, calm, planned, settled, changes>>

ApplyDone ==
  /\ phase = "exec" /\ todo = <<>>
  /\ phase' = "save"
  /\ UNCHANGED <<desired, live, disk, plan, pointer, mode, working, history, bounds>>

-----------------------------------------------------------------------------
(* Undoing: inverseReplayAndPersist, for a failed apply and for Roll Back   *)

Remaining(S) == SelectSeq([i \in 1 .. Len(executed) |-> IF i \in S THEN executed[i] ELSE Gone],
                          LAMBDA e : e # Gone)

StillJournalled == outstanding \ {pos}

\* The entry leaves the journal before its inverse is sent; when that write
\* fails the entry is neither attempted nor dropped.
ShrinkJournal ==
  /\ phase = "undo" /\ pos > 0
  /\ \/ /\ NoFault
        /\ outstanding' = StillJournalled
        /\ journals' = [journals EXCEPT ![cur] = Remaining(outstanding')]
        /\ phase' = "invert"
        /\ UNCHANGED <<outcome, pos>>
     \/ /\ Fault
        /\ outcome' = "failed" /\ pos' = pos - 1
        /\ UNCHANGED <<outstanding, journals, phase>>
  /\ UNCHANGED <<desired, live, saved, savedPointer, plan, pointer, mode, managed, fetched, todo, resolvedIDs,
                 executed, conn, cur, history, changes>>

\* A lost connection is redialled; what took it may last, and then the rest
\* stays journalled.
Redial ==
  /\ phase = "invert" /\ ~conn
  /\ \/ NoFault /\ conn' = TRUE /\ UNCHANGED <<outcome, phase>>
     \/ NoFault /\ outcome' = "failed" /\ phase' = "save" /\ UNCHANGED conn
  /\ UNCHANGED <<desired, live, disk, plan, pointer, mode, managed, fetched, todo, resolvedIDs, executed,
                 outstanding, pos, cur, history, changes>>

PriorParams(e) ==
  IF e.prior = Gone THEN [name |-> None, floor |-> None]
  ELSE [name |-> e.prior.name, floor |-> IF e.params.floor = Keep THEN Keep ELSE e.prior.floor]

\* A recreation resends the object as it was, its nulls included; the create
\* schema takes none for an area's floor (an icon's null is refused likewise,
\* but icons are left out).
Recreatable(e) ==
  /\ CanCreate(e.id.rtype, e.prior.name)
  /\ e.id.rtype = "area" => e.prior.floor # None

InverseAccepted(e) ==
  CASE e.kind = "create" -> Exists(e.id)
    [] e.kind = "update" -> /\ e.prior # Gone /\ Exists(e.id)
                            /\ ~NameTaken(e.id.rtype, e.prior.name, e.id)
    [] e.kind = "delete" -> e.prior # Gone /\ Recreatable(e)
    [] e.kind = "forget" -> TRUE

InverseEffect(e) ==
  CASE e.kind = "create" -> WithoutObject(e.id)
    [] e.kind = "update" -> WithUpdate(e.id, PriorParams(e))
    [] e.kind = "delete" -> WithObject(NewId(e.id.rtype, e.prior.name), e.prior)
    [] e.kind = "forget" -> live

\* A mutant of MappingAfterInverse: an adopted object stays adopted.
MappingAfterInverseKeeping(e) ==
  CASE e.kind = "create" -> None
    [] e.kind = "update" -> managed[e.key]
    [] e.kind = "delete" -> NewId(e.id.rtype, e.prior.name)
    [] e.kind = "forget" -> e.id

MappingAfterInverse(e) ==
  CASE e.kind = "create" -> None
    [] e.kind = "update" -> IF e.adopted THEN None ELSE managed[e.key]
    [] e.kind = "delete" -> NewId(e.id.rtype, e.prior.name)
    [] e.kind = "forget" -> e.id

\* The inverse of one entry, on the wire.
InvertOne ==
  /\ phase = "invert" /\ conn
  /\ LET e == executed[pos] IN
       \/ /\ InverseAccepted(e) /\ NoFault
          /\ live' = InverseEffect(e)
          /\ managed' = [managed EXCEPT ![e.key] = MappingAfterInverse(e)]
          /\ inverted' = inverted \cup {pos}
          /\ UNCHANGED <<outcome, conn>>
       \/ /\ ~InverseAccepted(e) /\ NoFault
          /\ outcome' = "failed"
          /\ UNCHANGED <<live, managed, conn, inverted>>
       \/ /\ e.kind # "forget" /\ Fault
          /\ outcome' = "failed" /\ conn' = FALSE
          /\ \/ UNCHANGED <<live, inverted>>
             \/ /\ InverseAccepted(e) /\ live' = InverseEffect(e)
                /\ inverted' = inverted \cup {pos}
          /\ UNCHANGED managed
  /\ pos' = pos - 1 /\ phase' = "undo"
  /\ UNCHANGED <<desired, disk, plan, pointer, mode, fetched, todo, resolvedIDs, executed, outstanding, cur,
                 before, origin, unseen, calm, planned, freed, settled, changes>>

UndoDone ==
  /\ phase = "undo" /\ pos = 0
  /\ phase' = "save"
  /\ UNCHANGED <<desired, live, disk, plan, pointer, mode, working, history, bounds>>

\* Roll Back replays the journal state.json points at.
StartRollback ==
  /\ Idle /\ pointer # 0
  /\ mode' = "rollback" /\ cur' = pointer
  /\ managed' = saved
  /\ executed' = journals[pointer]
  /\ outstanding' = 1 .. Len(executed') /\ pos' = Len(executed')
  /\ fetched' = <<>> /\ todo' = <<>> /\ resolvedIDs' = [k \in Keys |-> None]
  /\ \/ NoFault /\ conn' = TRUE /\ outcome' = "rolledBack" /\ phase' = "undo"
     \/ Fault /\ conn' = FALSE /\ outcome' = "failed" /\ phase' = "save"
  /\ before' = origin /\ origin' = NoBefore
  /\ inverted' = {} /\ unseen' = FALSE /\ settled' = FALSE
  /\ UNCHANGED <<desired, live, disk, plan, pointer, calm, planned, freed, changes>>

-----------------------------------------------------------------------------
\* Nobody touched the registries and every answer arrived.
Quiet == calm /\ ~unseen

\* Ids this apply or roll back gave up: a create undone, a delete that stands
\* or that was undone under another id.
GivenUp ==
  {executed[i].id : i \in {j \in DOMAIN executed :
     \/ executed[j].kind = "create" /\ j \in inverted
     \/ executed[j].kind = "delete" /\ managed[executed[j].key] # executed[j].id}}

\* An object that a person deletes after an operation of the apply took it
\* leaves its id to a later create: two keys then have one object.
OneKeyPerObject == \A x, y \in Keys : managed[x] = managed[y] /\ managed[x] # None => x = y

StillPending ==
  CASE outcome = "ok" -> SelectSeq(plan, LAMBDA op : op.kind = "error")
    [] outcome = "unjournalled" ->
         SelectSeq(plan, LAMBDA op : ~\E e \in ToSet(executed) : e.kind = op.kind /\ e.key = op.key)
    [] OTHER -> plan

\* The end of an apply or a roll back: one StateSave records the mapping and
\* the stash directory.  When it fails, what landed stays unrecorded.
StateSave ==
  /\ phase = "save"
  /\ \/ /\ NoFault
        /\ saved' = managed
        /\ pointer' = IF mode = "apply" THEN cur
                      ELSE IF outcome = "rolledBack" THEN 0 ELSE pointer
        /\ savedPointer' = IF mode = "apply" THEN cur
                           ELSE IF outcome = "rolledBack" THEN 0 ELSE savedPointer
        /\ plan' = IF mode = "apply" THEN StillPending ELSE plan
        /\ settled' = (/\ mode = "apply" /\ outcome = "ok" /\ calm /\ planned = desired
                       /\ OneKeyPerObject
                       /\ DeletedBy(executed) \cap freed = {})
        /\ calm' = (Quiet /\ mode = "apply" /\ outcome # "failed")
        /\ origin' = IF mode = "apply" /\ outcome = "ok" /\ Quiet THEN before ELSE NoBefore
     \/ /\ Fault
        /\ settled' = FALSE /\ calm' = FALSE /\ origin' = NoBefore
        /\ pointer' = IF mode = "apply" THEN cur ELSE pointer
        /\ UNCHANGED <<saved, savedPointer, plan>>
  /\ freed' = (freed \cup GivenUp) \cap DeletedBy(plan')
  /\ phase' = "idle" /\ Clear
  /\ UNCHANGED <<desired, live, journals, planned, changes>>

AgentStep ==
  \/ ExecuteOne \/ WriteJournal \/ OpFails \/ ApplyDone
  \/ ShrinkJournal \/ Redial \/ InvertOne \/ UndoDone \/ StateSave

Next ==
  \/ Push \/ Edit \/ Crash
  \/ Reconcile \/ StartApply \/ StartRollback \/ AgentStep

Spec == Init /\ [][Next]_vars
-----------------------------------------------------------------------------
Op_ == [kind : Kinds, key : Keys, id : Ids \cup {None},
        params : [name : Names \cup {None}, floor : Ids \cup {None, Keep} \cup {[ref |-> f] : f \in Floors}]]

\* Every variable has its type, and an undo never points past its entries.
TypeOK ==
  /\ desired \in Manifests
  /\ live \in [Ids -> Objects \cup {Gone}]
  /\ saved \in [Keys -> Ids \cup {None}] /\ managed \in [Keys -> Ids \cup {None}]
  /\ pointer \in 0 .. 2 /\ savedPointer \in 0 .. 2 /\ cur \in 1 .. 2
  /\ plan \in Seq(Op_) /\ todo \in Seq(Op_)
  /\ phase \in {"idle", "exec", "journal", "undo", "invert", "save"}
  /\ mode \in {"apply", "rollback"}
  /\ outcome \in {"ok", "failed", "rolledBack", "unjournalled"}
  /\ pos \in 0 .. Len(executed) /\ outstanding \subseteq DOMAIN executed

\* What one object is to a reader: its type, its name and, where links are
\* looked at, its floor's name.
Looks(lv, id, links) ==
  <<id.rtype, lv[id].name,
    IF ~links \/ lv[id].floor = None \/ lv[lv[id].floor] = Gone THEN None ELSE lv[lv[id].floor].name>>
Present(lv) == {id \in Ids : lv[id] # Gone}
Census(lv, links, l) == Cardinality({id \in Present(lv) : Looks(lv, id, links) = l})
SameRegistries(lv, lw, links) ==
  \A l \in {Looks(lv, id, links) : id \in Present(lv)} \cup {Looks(lw, id, links) : id \in Present(lw)} :
    Census(lv, links, l) = Census(lw, links, l)
SameMapping(lv, mv, lw, mw, links) ==
  \A k \in Keys :
    \/ mv[k] \notin Present(lv) /\ mw[k] \notin Present(lw)
    \/ /\ mv[k] \in Present(lv) /\ mw[k] \in Present(lw)
       /\ Looks(lv, mv[k], links) = Looks(lw, mw[k], links)

\* A recreated floor has a new id, and the areas that were on it no floor:
\* Home Assistant took the link off when the floor was deleted, and neither
\* the journal nor the inverse knows of it.
FloorRecreated == \E e \in ToSet(executed) : e.kind = "delete" /\ e.key \in Floors

\* An apply or a Roll Back that says it undid everything left the same
\* objects, links and key-to-object mapping as before the apply, provided
\* nobody edited the registries meanwhile and no answer was lost: creates
\* deleted, deletes recreated under a new id that the mapping follows,
\* updates and adoptions reverted, forgotten keys remembered.  The mapping is
\* not compared when a recreated object was given the id that a forgotten key
\* still had, which Roll Back then gives back to that key as well.
RolledBackRestores ==
  phase = "save" /\ outcome = "rolledBack" /\ before.known /\ Quiet =>
    /\ SameRegistries(live, before.live, ~FloorRecreated)
    /\ OneKeyPerObject => SameMapping(live, managed, before.live, before.managed, ~FloorRecreated)

\* Once a whole plan landed and was recorded, the next cycle has nothing to
\* do for the same manifest: names taken over in turn, references resolved
\* while applying, fields left out and adopted objects all compare equal.
\* Not claimed when a delete took what had been given the id it named since
\* the plan was made, nor when two keys have one object.
SettledMeansNoPlan == settled => Executable(Plan) = <<>>

\* A delete does not take the object that a key of the planned manifest is
\* mapped to once it lands: a key renamed in the manifest hands its object
\* over, and the key it had is forgotten, not deleted.  The exception is an id
\* given up since the plan was made (somebody deleted the object, or the plan
\* was undone, or one applied before it, and what it had deleted came back
\* under another id): nothing stops a create from getting that id before the
\* delete comes.
DeclaredObjectsSurvive ==
  [][ExecuteOne /\ Head(todo).kind = "delete" /\ Head(todo).id \notin freed =>
       \A k \in Keys : planned[k] # Undeclared => managed'[k] # Head(todo).id]_vars

\* The same without the exception, which does not hold.  The comment on the
\* pending plan (recon.go:2326-2330) takes what is left of an undone apply for
\* what the next cycle would plan; its deletes name the ids from before.
DeclaredIsNeverDeleted ==
  [][ExecuteOne /\ Head(todo).kind = "delete" =>
       \A k \in Keys : planned[k] # Undeclared => managed'[k] # Head(todo).id]_vars

\* An undo that meets neither a fault nor somebody's edit brings everything
\* back.  DOCS.md:2643-2652 says so of a Roll Back; the code resends an area's
\* null floor, which Home Assistant refuses on a create.
UndisturbedUndoSucceeds ==
  mode = "rollback" /\ phase = "save" /\ before.known /\ Quiet /\ faults = 0 => outcome = "rolledBack"

\* Starting from empty registries that nobody edits there are never two
\* helpers of the same name, which does not hold.  What is left of a failed
\* plan is kept without what landed, because a retry would otherwise "create
\* duplicates" (recon.go:2303-2305); a create whose answer was lost is kept.
RetryMakesNoTwin ==
  \A x, y \in LiveOf("helper") : live[x].name = live[y].name => x = y

=============================================================================
