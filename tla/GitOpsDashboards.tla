-------------------------- MODULE GitOpsDashboards --------------------------
(***************************************************************************)
(* The dashboard layer of the GitOps agent: Lovelace dashboards and        *)
(* resources declared in gitops/dashboards.yaml (internal/dashboards and   *)
(* its applier in internal/regapply).                                      *)
(*                                                                         *)
(* A dashboard is metadata and content, written by two calls; its url_path *)
(* is its identity and its live id follows from it, so an id comes back    *)
(* with the next dashboard made at that path.  A resource has only a url:  *)
(* its path is the identity, several live resources may share one, and     *)
(* HACS rewrites the query behind it.  Only what the agent created or      *)
(* adopted is ever deleted.                                                *)
(***************************************************************************)
EXTENDS Integers, Sequences, FiniteSets, SequencesExt

CONSTANTS
  Dashes, Resources, \* ids of the manifest: a dashboard's is its url_path
  KeyOrder,          \* both, dashboards first
  ResIds,            \* live ids of resources, numbers here
  Titles, Contents, Paths, Tags, Types,
  Manifests,         \* what a commit may declare
  Starts,            \* live objects and recorded mapping the model starts with
  None,              \* no icon; no query; nothing saved yet; no live id
  Keep,              \* a field not declared, or not sent
  Undeclared,        \* an id the manifest does not hold
  Malformed,         \* an item that fails a check of its fields
  Unreadable,        \* the content of a config file that cannot be loaded
  Gone,              \* nothing has that live id
  MaxChanges,        \* bound on commits and other people's edits
  MaxFaults          \* bound on failed calls, failed writes and crashes

Keys == Dashes \cup Resources
Live == Dashes \cup ResIds

ASSUME DashboardsAssumption ==
  /\ Dashes \cap Resources = {} /\ Dashes \cap ResIds = {}
  /\ ResIds \subseteq Nat /\ KeyOrder \in Seq(Keys)
  /\ \A k \in Keys : \E i \in DOMAIN KeyOrder : KeyOrder[i] = k

VARIABLES
  desired, \* the manifest at the checked-out commit
  live,    \* Home Assistant's dashboards and resources
  resourceMode, \* where Lovelace keeps its resources: "storage" or "yaml"
  saved,   \* state.json's dashboard_managed
  savedPointer, journals, \* state.json's LastStashDir; the two newest journals
  plan, pointer, \* the pending operations; the stash Roll Back would use
  phase, mode,
  managed, \* dashboard_managed as the apply mutates it in memory
  fetched, \* the live objects as the layer fetched them
  todo, executed, outstanding, pos,
  conn, outcome, cur,
  \* history, for the properties only
  before, origin, \* what an undo, and Roll Back, are to bring back, if known
  covered, \* live objects the agent made, undid, or a manifest declared, in their life
  touched, \* live objects changed since the plan, other than as it says
  calm,    \* what the plan was made for is there; no apply of it has failed
  planned, \* the manifest it was made from
  settled, \* a whole plan landed and nothing changed since
  changes, faults

disk == <<saved, savedPointer, journals>>
working == <<managed, fetched, todo, executed, outstanding, pos, conn, outcome, cur>>
history == <<before, origin, covered, touched, calm, planned, settled>>
bounds == <<changes, faults>>
vars == <<desired, live, resourceMode, disk, plan, pointer, phase, mode, working, history, bounds>>

-----------------------------------------------------------------------------
(* Planning                                                                 *)

\* A problem in either list refuses the manifest, and the cycle; so do two
\* resources on one path.  A config file that cannot be loaded does not.
ItemsValid == \A d \in Dashes : desired[d] # Malformed
ResourcesValid ==
  /\ \A r \in Resources : desired[r] # Malformed
  /\ \A r, s \in Resources :
       r # s /\ desired[r] # Undeclared /\ desired[s] # Undeclared => desired[r].path # desired[s].path
Loaded == ItemsValid /\ ResourcesValid

Declared(k) == desired[k] # Undeclared
Exists(id) == id # None /\ live[id] # Gone

Op(kind, k, id, params) == [kind |-> kind, key |-> k, id |-> id, params |-> params]
NoParams == [meta |-> Keep, content |-> Keep, url |-> Keep, type |-> Keep]
Error(k) == Op("error", k, None, NoParams)

\* A mutant of MetadataDiff: an icon left out counts as none.
MetadataDiffWhole(md, obj) == md.title # obj.meta.title \/ (IF md.icon = Keep THEN None ELSE md.icon) # obj.meta.icon

\* What the manifest leaves out is not compared.
MetadataDiff(md, obj) == md.title # obj.meta.title \/ (md.icon # Keep /\ md.icon # obj.meta.icon)

\* Metadata and content are sent only when they differ; an adoption always
\* sends the metadata, so that something records the mapping.
PlanUpdate(d, adopt) ==
  LET params == [NoParams EXCEPT
        !.meta = IF adopt \/ MetadataDiff(desired[d].meta, live[d]) THEN desired[d].meta ELSE Keep,
        !.content = IF desired[d].content # live[d].content THEN desired[d].content ELSE Keep]
  IN IF params = NoParams THEN <<>> ELSE <<Op("update", d, d, params)>>

PlanCreate(d) == Op("create", d, None, [NoParams EXCEPT !.meta = desired[d].meta, !.content = desired[d].content])

PlanDash(d) ==
  CASE ~Declared(d) -> <<>>
    [] Declared(d) /\ desired[d].content = Unreadable -> <<Error(d)>>
    [] OTHER -> IF Exists(d) THEN PlanUpdate(d, saved[d] = None) ELSE <<PlanCreate(d)>>

\* A mutant of PlanDashDelete: a mapping whose dashboard is gone stays.
PlanDashDeleteOnly(d) ==
  IF Declared(d) \/ saved[d] = None \/ ~Exists(saved[d]) THEN <<>>
  ELSE <<Op("delete", d, saved[d], NoParams)>>

PlanDashDelete(d) ==
  IF Declared(d) \/ saved[d] = None THEN <<>>
  ELSE <<Op(IF Exists(saved[d]) THEN "delete" ELSE "forget", d, saved[d], NoParams)>>

\* A url declared without a query pins the path alone.
UrlMatches(item, obj) == item.path = obj.path /\ (item.tag # None => item.tag = obj.tag)

ResourceUpdate(r, id, adopt) ==
  LET obj == live[id]
      params == [NoParams EXCEPT
        !.type = IF obj.type # desired[r].type THEN desired[r].type ELSE Keep,
        !.url = IF UrlMatches(desired[r], obj) THEN Keep ELSE [path |-> desired[r].path, tag |-> desired[r].tag]]
  IN IF params = NoParams /\ ~adopt THEN <<>> ELSE <<Op("update", r, id, params)>>

ResourceCreate(r) ==
  Op("create", r, None, [NoParams EXCEPT !.type = desired[r].type,
                                         !.url = [path |-> desired[r].path, tag |-> desired[r].tag]])

ClaimedIds == {saved[r] : r \in {x \in Resources : Declared(x)}} \ {None}
Matches(r) == {id \in ResIds \ ClaimedIds : live[id] # Gone /\ live[id].path = desired[r].path}
NewPlan == [ops |-> <<>>, owned |-> {}, contested |-> {}]

\* A mutant of PlanResource: a managed resource that is gone is made anew.
PlanResourceAnew(acc, r) ==
  LET m == Matches(r)
      one == CHOOSE id \in m : TRUE
      Own(id, adopt) == [acc EXCEPT !.owned = @ \cup {id}, !.ops = @ \o ResourceUpdate(r, id, adopt)]
  IN CASE ~Declared(r) -> acc
       [] Declared(r) /\ Exists(saved[r]) -> Own(saved[r], FALSE)
       [] OTHER ->
            IF saved[r] = None /\ Cardinality(m) = 1 THEN Own(one, TRUE)
            ELSE IF Cardinality(m) > 1 THEN [acc EXCEPT !.ops = Append(@, Error(r)), !.contested = @ \cup m]
            ELSE [acc EXCEPT !.ops = Append(@, ResourceCreate(r))]

\* The managed resource, or else the only one on the path, which is adopted;
\* none is created while there is one.
PlanResource(acc, r) ==
  LET m == Matches(r)
      one == CHOOSE id \in m : TRUE
      Own(id, adopt) == [acc EXCEPT !.owned = @ \cup {id}, !.ops = @ \o ResourceUpdate(r, id, adopt)]
  IN CASE ~Declared(r) -> acc
       [] Declared(r) /\ Exists(saved[r]) -> Own(saved[r], FALSE)
       [] OTHER ->
            IF Cardinality(m) = 1 THEN Own(one, TRUE)
            ELSE IF Cardinality(m) > 1 THEN [acc EXCEPT !.ops = Append(@, Error(r)), !.contested = @ \cup m]
            ELSE [acc EXCEPT !.ops = Append(@, ResourceCreate(r))]

PlanResourceDelete(acc, r) ==
  LET id == saved[r]
      Add(kind) == [acc EXCEPT !.ops = Append(@, Op(kind, r, id, NoParams))]
  IN CASE Declared(r) \/ id = None -> acc
       [] OTHER -> IF ~Exists(id) \/ id \in acc.owned THEN Add("forget")
                   ELSE IF id \in acc.contested THEN acc ELSE Add("delete")

KeysOf(S) == SelectSeq(KeyOrder, LAMBDA k : k \in S)
Over(seq, F(_)) == FoldLeft(LAMBDA acc, k : acc \o F(k), <<>>, seq)
PlanDashboards == Over(KeysOf(Dashes), PlanDash) \o Over(KeysOf(Dashes), PlanDashDelete)

\* While resources are in configuration.yaml nothing is deleted or forgotten:
\* a managed id may come back with the mode.
ModeErrors == Over(KeysOf(Resources), LAMBDA r : IF Declared(r) THEN <<Error(r)>> ELSE <<>>)
PlanResources ==
  IF resourceMode # "storage" THEN ModeErrors
  ELSE FoldLeft(PlanResourceDelete, FoldLeft(PlanResource, NewPlan, KeysOf(Resources)), KeysOf(Resources)).ops

Plan == PlanDashboards \o PlanResources
Executable(ops) == SelectSeq(ops, LAMBDA op : op.kind # "error")

-----------------------------------------------------------------------------
(* Home Assistant                                                           *)

\* A resource gets an id nothing knows.
Mentioned ==
  {saved[k] : k \in Keys} \cup {managed[k] : k \in Keys} \cup {op.id : op \in ToSet(plan) \cup ToSet(todo)}
    \cup {e.id : e \in ToSet(executed) \cup ToSet(journals[1]) \cup ToSet(journals[2])}
FreeIds == {id \in ResIds : live[id] = Gone /\ id \notin Mentioned}
NewId(k) == IF k \in Dashes THEN k ELSE CHOOSE id \in FreeIds : \A x \in FreeIds : id <= x
CanCreate(k) == IF k \in Dashes THEN live[k] = Gone ELSE resourceMode = "storage" /\ FreeIds # {}
Reachable(id) == live[id] # Gone /\ (id \in ResIds => resourceMode = "storage")

WithMeta(obj, md) ==
  [obj EXCEPT !.meta = [title |-> md.title, icon |-> IF md.icon = Keep THEN obj.meta.icon ELSE md.icon]]
WithContent(obj, content) == [obj EXCEPT !.content = content]

\* A mutant of Stored: what was not sent is stored as a value.
StoredAsSent(v) == v

Stored(v) == IF v = Keep THEN None ELSE v

NewObject(k, params) ==
  IF k \in Dashes
  THEN [meta |-> [title |-> params.meta.title, icon |-> Stored(params.meta.icon)], content |-> None]
  ELSE [path |-> params.url.path, tag |-> params.url.tag, type |-> params.type]

WithFields(obj, params) ==
  [path |-> IF params.url = Keep THEN obj.path ELSE params.url.path,
   tag |-> IF params.url = Keep THEN obj.tag ELSE params.url.tag,
   type |-> IF params.type = Keep THEN obj.type ELSE params.type]
-----------------------------------------------------------------------------
Idle == phase = "idle"
NoLive == [id \in Live |-> Gone]
NoMapping == [k \in Keys |-> None]
NoBefore == [live |-> NoLive, managed |-> NoMapping, known |-> FALSE]

Init ==
  /\ desired \in Manifests
  /\ \E s \in Starts : live = s.live /\ saved = s.saved /\ covered = s.covered
  /\ resourceMode = "storage"
  /\ savedPointer = 0 /\ pointer = 0 /\ journals = [d \in 1 .. 2 |-> <<>>]
  /\ plan = <<>> /\ phase = "idle" /\ mode = "apply"
  /\ managed = NoMapping /\ fetched = NoLive /\ todo = <<>> /\ executed = <<>> /\ outstanding = {} /\ pos = 0
  /\ conn = FALSE /\ outcome = "ok" /\ cur = 1
  /\ before = NoBefore /\ origin = NoBefore /\ touched = {} /\ calm = TRUE /\ planned = desired
  /\ settled = FALSE /\ changes = 0 /\ faults = 0

Clear ==
  /\ managed' = NoMapping /\ fetched' = NoLive /\ todo' = <<>> /\ executed' = <<>> /\ outstanding' = {}
  /\ pos' = 0 /\ conn' = FALSE /\ outcome' = "ok" /\ cur' = 1 /\ mode' = "apply" /\ before' = NoBefore

Change == changes < MaxChanges /\ changes' = changes + 1
Fault == faults < MaxFaults /\ faults' = faults + 1
NoFault == UNCHANGED faults

-----------------------------------------------------------------------------
(* What happens around the agent                                            *)

Push ==
  /\ Change /\ desired' \in Manifests \ {desired} /\ settled' = FALSE
  /\ UNCHANGED <<live, resourceMode, disk, plan, pointer, phase, mode, working, before, origin, covered, touched, calm,
                 planned, faults>>

\* History: mappings no apply had the occasion to drop.  What is made where
\* they point cannot be told from what they were made for.
Unforgotten == IF settled THEN {} ELSE {saved[k] : k \in Keys} \cup {managed[k] : k \in Keys}

\* A person makes, edits or deletes a dashboard; a person or HACS adds a
\* resource, removes it, installs it anew, or updates its query; Lovelace is
\* switched between storage and configuration.yaml.
Edit ==
  /\ Change /\ settled' = FALSE /\ calm' = FALSE
  /\ \/ /\ \E id \in Live :
             /\ \/ /\ id \in Dashes /\ live[id] = Gone
                   /\ \E t \in Titles : live' = [live EXCEPT ![id] = NewObject(id, [meta |-> [title |-> t, icon |-> None]])]
                   /\ covered' = covered \cup ({id} \cap Unforgotten)
                \/ /\ id \in Dashes /\ live[id] # Gone
                   /\ \/ \E t \in Titles : live' = [live EXCEPT ![id].meta.title = t]
                      \/ \E c \in Contents : live' = [live EXCEPT ![id].content = c]
                   /\ UNCHANGED covered
                \/ /\ id \in ResIds /\ live[id] # Gone
                   /\ \/ \E t \in Tags : live' = [live EXCEPT ![id].tag = t]
                      \/ \E t \in Types : live' = [live EXCEPT ![id].type = t]
                   /\ UNCHANGED covered
                \/ /\ live[id] # Gone /\ live' = [live EXCEPT ![id] = Gone] /\ covered' = covered \ {id}
             /\ touched' = touched \cup {id}
        /\ UNCHANGED resourceMode
     \/ /\ FreeIds # {}
        /\ LET new == CHOOSE id \in FreeIds : \A x \in FreeIds : id <= x
           IN \/ \E p \in Paths, t \in Types :
                   /\ live' = [live EXCEPT ![new] = [path |-> p, tag |-> None, type |-> t]]
                   /\ touched' = touched \cup {new} /\ UNCHANGED covered
              \/ \E old \in ResIds :
                   /\ live[old] # Gone /\ live' = [live EXCEPT ![old] = Gone, ![new] = live[old]]
                   /\ touched' = touched \cup {old, new} /\ covered' = covered \ {old}
        /\ UNCHANGED resourceMode
     \/ resourceMode' \in {"storage", "yaml"} \ {resourceMode} /\ UNCHANGED <<live, covered, touched>>
  /\ before' = [before EXCEPT !.known = FALSE] /\ origin' = NoBefore
  /\ UNCHANGED <<desired, disk, plan, pointer, phase, mode, working, planned, faults>>

Crash ==
  /\ Fault
  /\ plan' = <<>> /\ pointer' = savedPointer /\ phase' = "idle" /\ Clear
  /\ origin' = IF Idle THEN origin ELSE NoBefore
  /\ settled' = FALSE
  /\ UNCHANGED <<desired, live, resourceMode, disk, covered, touched, calm, planned, changes>>

-----------------------------------------------------------------------------
(* The agent                                                                *)

\* History: what this cycle's manifest declares counts as declared from now on.
DeclaredIds ==
  {d \in Dashes : Declared(d)} \cup
  {id \in ResIds : live[id] # Gone /\ \E r \in Resources : Declared(r) /\ desired[r].path = live[id].path}

Reconcile ==
  /\ Idle
  /\ \/ /\ Loaded /\ NoFault
        /\ plan' = Plan /\ calm' = TRUE /\ planned' = desired /\ touched' = {}
        /\ covered' = covered \cup {id \in DeclaredIds : live[id] # Gone}
     \/ /\ IF Loaded THEN Fault ELSE NoFault
        /\ plan' = <<>> /\ UNCHANGED <<calm, planned, touched, covered>>
  /\ UNCHANGED <<desired, live, resourceMode, disk, pointer, phase, mode, working, before, origin, settled, changes>>

\* The layer connects, lists the dashboards, and the resources when an
\* operation is about one that exists.
\* (History: an adoption that could not be journalled leaves two keys with
\* one object; what is planned from there is no promise to be kept.)
OneKeyEach == \A k, l \in Keys : saved[k] # None /\ saved[k] = saved[l] => k = l
ListsResources(ops) == \E op \in ToSet(ops) : op.key \in Resources /\ op.kind \in {"update", "delete"}
StartApply ==
  /\ Idle /\ Executable(plan) # <<>>
  /\ mode' = "apply" /\ managed' = saved /\ todo' = Executable(plan)
  /\ cur' = IF pointer = 1 THEN 2 ELSE 1
  /\ journals' = [journals EXCEPT ![cur'] = <<>>]
  /\ executed' = <<>> /\ outstanding' = {} /\ pos' = 0
  /\ LET refused == ListsResources(todo') /\ resourceMode # "storage" IN
       \/ /\ NoFault /\ ~refused
          /\ fetched' = live /\ conn' = TRUE /\ outcome' = "ok" /\ phase' = "exec"
       \/ /\ IF refused THEN NoFault ELSE Fault
          /\ fetched' = NoLive /\ conn' = FALSE /\ outcome' = "failed" /\ phase' = "save"
  /\ before' = [live |-> live, managed |-> saved, known |-> calm /\ OneKeyEach] /\ origin' = NoBefore /\ settled' = FALSE
  /\ UNCHANGED <<desired, live, resourceMode, saved, savedPointer, plan, pointer, covered, touched, calm, planned, changes>>

\* An object that was gone when the layer looked needs no delete.
AlreadyAbsent(op) == op.kind = "delete" /\ fetched[op.id] = Gone
SendsNothing(op) == op.kind = "forget" \/ AlreadyAbsent(op) \/ (op.kind = "update" /\ op.params = NoParams)

Accepts(op) ==
  CASE SendsNothing(op) -> op.kind = "update" => fetched[op.id] # Gone
    [] ~SendsNothing(op) /\ op.kind = "create" -> CanCreate(op.key)
    [] OTHER -> /\ (op.params.content = Keep \/ op.params.meta # Keep => fetched[op.id] # Gone)
                /\ Reachable(op.id)

\* The first call: all of the operation, but for the content of a dashboard
\* whose metadata goes first.
TwoCalls(op) == op.params.meta # Keep /\ op.params.content # Keep
LandedId(op) == IF op.kind = "create" THEN NewId(op.key) ELSE op.id
Effect(op) ==
  CASE SendsNothing(op) -> live
    [] op.kind = "create" -> [live EXCEPT ![NewId(op.key)] = NewObject(op.key, op.params)]
    [] op.kind = "delete" /\ ~SendsNothing(op) -> [live EXCEPT ![op.id] = Gone]
    [] op.kind = "update" /\ ~SendsNothing(op) ->
         [live EXCEPT ![op.id] =
            IF op.key \in Resources THEN WithFields(@, op.params)
            ELSE IF op.params.meta # Keep THEN WithMeta(@, op.params.meta)
            ELSE WithContent(@, op.params.content)]

\* A mutant of Entry: the journal does not say what was adopted.
EntryOf(op, params) ==
  [kind |-> op.kind, key |-> op.key, id |-> LandedId(op), params |-> params,
   prior |-> IF op.kind \in {"update", "delete"} THEN fetched[op.id] ELSE Gone,
   adopted |-> FALSE]

Entry(op, params) ==
  [kind |-> op.kind, key |-> op.key, id |-> LandedId(op), params |-> params,
   prior |-> IF op.kind \in {"update", "delete"} THEN fetched[op.id] ELSE Gone,
   adopted |-> op.kind = "update" /\ managed[op.key] # op.id]

Mapped(op) == [managed EXCEPT ![op.key] = IF op.kind \in {"create", "update"} THEN LandedId(op) ELSE None]

\* Appending, or replacing the last entry, rewrites the journal.  When that
\* fails the apply stops; what landed stays landed and off the journal.
Journalled(entries) == /\ executed' = entries /\ outstanding' = 1 .. Len(entries)
                       /\ journals' = [journals EXCEPT ![cur] = entries]
JournalFails == /\ outcome' = "unjournalled" /\ phase' = "save"
                /\ UNCHANGED <<executed, outstanding, journals, todo>>

ExecuteOne ==
  /\ phase = "exec" /\ todo # <<>>
  /\ LET op == Head(todo)
         first == IF TwoCalls(op) THEN [op.params EXCEPT !.content = Keep] ELSE op.params
     IN /\ Accepts(op)
        /\ live' = Effect(op)
        /\ covered' = (covered \cup (IF op.kind \in {"create", "update"} THEN {LandedId(op)} ELSE {}))
                        \ (IF live'[LandedId(op)] = Gone THEN {op.id} ELSE {})
        /\ touched' = IF op.kind = "create" THEN touched \cup {LandedId(op)} ELSE touched
        /\ \/ /\ NoFault
              /\ managed' = Mapped(op)
              /\ IF AlreadyAbsent(op) THEN UNCHANGED <<executed, outstanding, journals>>
                                      ELSE Journalled(Append(executed, Entry(op, first)))
              /\ IF TwoCalls(op) THEN phase' = "content" /\ UNCHANGED todo
                                 ELSE todo' = Tail(todo) /\ UNCHANGED phase
              /\ UNCHANGED outcome
           \/ /\ Fault /\ ~AlreadyAbsent(op)
              /\ managed' = IF op.kind = "forget" THEN managed ELSE Mapped(op)
              /\ JournalFails
  /\ UNCHANGED <<desired, resourceMode, saved, savedPointer, plan, pointer, mode, fetched, pos, conn, cur, before, origin,
                 calm, planned, settled, changes>>

\* The second call.  An update's entry is then replaced by one that holds
\* the prior content too; a create needs none, its inverse is a delete.
SaveContent ==
  /\ phase = "content"
  /\ LET op == Head(todo)
         whole == [executed EXCEPT ![Len(executed)].params = op.params]
     IN /\ live[op.key] # Gone
        /\ live' = [live EXCEPT ![op.key] = WithContent(@, op.params.content)]
        /\ \/ /\ NoFault
              /\ IF op.kind = "update" THEN Journalled(whole) ELSE UNCHANGED <<executed, outstanding, journals>>
              /\ todo' = Tail(todo) /\ phase' = "exec" /\ UNCHANGED outcome
           \/ Fault /\ op.kind = "update" /\ JournalFails
  /\ UNCHANGED <<desired, resourceMode, saved, savedPointer, plan, pointer, mode, managed, fetched, pos, conn, cur,
                 before, origin, covered, touched, calm, planned, settled, changes>>

\* The call is refused, or fails, and may have landed all the same.
OpFails ==
  /\ phase \in {"exec", "content"} /\ todo # <<>>
  /\ LET op == Head(todo)
         accepted == IF phase = "exec" THEN Accepts(op) ELSE live[op.key] # Gone
     IN \/ /\ ~accepted /\ NoFault /\ UNCHANGED <<live, conn, covered, touched, before>>
        \/ /\ Fault /\ ~SendsNothing(op)
           /\ \/ conn' \in BOOLEAN /\ UNCHANGED <<live, covered, touched, before>>
              \/ /\ accepted /\ conn' = FALSE
                 /\ live' = IF phase = "exec" THEN Effect(op)
                            ELSE [live EXCEPT ![op.key] = WithContent(@, op.params.content)]
                 /\ touched' = touched \cup {LandedId(op)}
                 /\ covered' = IF live'[LandedId(op)] = Gone THEN covered \ {LandedId(op)}
                               ELSE covered \cup {LandedId(op)}
                 /\ before' = [before EXCEPT !.known = FALSE]
  /\ outcome' = "rolledBack" /\ phase' = "undo" /\ pos' = Len(executed)
  /\ UNCHANGED <<desired, resourceMode, disk, plan, pointer, mode, managed, fetched, todo, executed, outstanding, cur,
                 origin, calm, planned, settled, changes>>

ApplyDone ==
  /\ phase = "exec" /\ todo = <<>>
  /\ phase' = "save"
  /\ UNCHANGED <<desired, live, resourceMode, disk, plan, pointer, mode, working, history, bounds>>

-----------------------------------------------------------------------------
(* Undoing, newest first                                                    *)

Remaining(S) == LET at == SelectSeq([i \in 1 .. Len(executed) |-> i], LAMBDA i : i \in S)
                IN [j \in 1 .. Len(at) |-> executed[at[j]]]

RestoresContent(e) == e.params.content # Keep /\ e.prior.content # None
Calls(e) == /\ e.kind # "forget"
            /\ e.kind = "update" => IF e.key \in Dashes THEN e.params.meta # Keep \/ RestoresContent(e)
                                    ELSE e.params # NoParams
Invertible(e) ==
  CASE ~Calls(e) -> TRUE
    [] Calls(e) /\ e.kind = "delete" -> CanCreate(e.key)
    [] OTHER -> Reachable(e.id)

PriorMeta(e) == [title |-> e.prior.meta.title, icon |-> IF e.params.meta.icon = Keep THEN Keep ELSE e.prior.meta.icon]
PriorFields(e) ==
  [NoParams EXCEPT !.url = IF e.params.url = Keep THEN Keep ELSE [path |-> e.prior.path, tag |-> e.prior.tag],
                   !.type = IF e.params.type = Keep THEN Keep ELSE e.prior.type]

\* The inverse's first call, and its second: the content goes last.
FirstInverse(e) ==
  CASE ~Calls(e) -> live
    [] Calls(e) /\ e.kind = "create" -> [live EXCEPT ![e.id] = Gone]
    [] Calls(e) /\ e.kind = "delete" ->
         [live EXCEPT ![NewId(e.key)] = IF e.key \in Dashes THEN WithContent(e.prior, None) ELSE e.prior]
    [] Calls(e) /\ e.kind = "update" ->
         [live EXCEPT ![e.id] = IF e.key \in Resources THEN WithFields(@, PriorFields(e))
                                ELSE IF e.params.meta # Keep THEN WithMeta(@, PriorMeta(e)) ELSE @]
WholeInverse(e) ==
  IF e.key \in Dashes /\ (e.kind = "delete" \/ (e.kind = "update" /\ RestoresContent(e)))
  THEN [FirstInverse(e) EXCEPT ![e.key] = WithContent(@, e.prior.content)]
  ELSE FirstInverse(e)

MappingAfterInverse(e) ==
  CASE e.kind = "create" -> None
    [] e.kind = "update" -> IF e.adopted THEN None ELSE managed[e.key]
    [] e.kind = "delete" -> NewId(e.key)
    [] e.kind = "forget" -> e.id

\* What is there, and mapped, when a call of the inverse fails or its answer is
\* lost: a dashboard made again is mapped before its content is saved.
HalfInverses(e) ==
  LET mapped == [managed EXCEPT ![e.key] = MappingAfterInverse(e)]
      remade == e.key \in Dashes /\ e.kind = "delete" /\ e.prior.content # None
  IN {<<live, managed>>, <<FirstInverse(e), managed>>}
       \cup (IF remade THEN {FirstInverse(e), WholeInverse(e)} \X {mapped} ELSE {<<WholeInverse(e), managed>>})

Changed(w) == {id \in Live : live[id] # w[id]}

UndoOne ==
  /\ phase = "undo" /\ pos > 0
  /\ LET e == executed[pos] IN
       \/ /\ Fault /\ outcome' = "failed"
          /\ UNCHANGED <<live, managed, outstanding, journals, conn, phase>>
       \/ /\ outstanding' = outstanding \ {pos}
          /\ journals' = [journals EXCEPT ![cur] = Remaining(outstanding')]
          /\ \/ /\ Invertible(e) /\ NoFault /\ conn' = TRUE
                /\ live' = WholeInverse(e) /\ managed' = [managed EXCEPT ![e.key] = MappingAfterInverse(e)]
                /\ UNCHANGED <<outcome, phase>>
             \/ /\ ~Invertible(e) /\ NoFault /\ conn' = TRUE /\ outcome' = "failed"
                /\ UNCHANGED <<live, managed, phase>>
             \/ /\ Calls(e) /\ Fault /\ outcome' = "failed" /\ conn' = FALSE
                /\ \E half \in IF Invertible(e) THEN HalfInverses(e) ELSE {<<live, managed>>} :
                     live' = half[1] /\ managed' = half[2]
                /\ UNCHANGED phase
             \/ /\ ~conn /\ NoFault /\ outcome' = "failed" /\ phase' = "save"
                /\ UNCHANGED <<live, managed, conn>>
  /\ pos' = pos - 1
  /\ touched' = touched \cup Changed(live')
  /\ covered' = (covered \cup Changed(live') \cup {executed[pos].id}) \ {id \in Live : live'[id] = Gone}
  /\ UNCHANGED <<desired, resourceMode, saved, savedPointer, plan, pointer, mode, fetched, todo, executed, cur, before,
                 origin, calm, planned, settled, changes>>

UndoDone ==
  /\ phase = "undo" /\ pos = 0
  /\ phase' = "save"
  /\ UNCHANGED <<desired, live, resourceMode, disk, plan, pointer, mode, working, history, bounds>>

StartRollback ==
  /\ Idle /\ pointer # 0
  /\ mode' = "rollback" /\ cur' = pointer /\ managed' = saved
  /\ executed' = journals[pointer] /\ outstanding' = 1 .. Len(executed') /\ pos' = Len(executed')
  /\ fetched' = NoLive /\ todo' = <<>>
  /\ \/ NoFault /\ conn' = TRUE /\ outcome' = "rolledBack" /\ phase' = "undo"
     \/ Fault /\ conn' = FALSE /\ outcome' = "failed" /\ phase' = "save"
  /\ before' = origin /\ origin' = NoBefore /\ settled' = FALSE /\ calm' = FALSE
  /\ UNCHANGED <<desired, live, resourceMode, disk, plan, pointer, covered, touched, planned, changes>>

StillPending ==
  CASE outcome = "ok" -> SelectSeq(plan, LAMBDA op : op.kind = "error")
    [] outcome = "unjournalled" ->
         SelectSeq(plan, LAMBDA op : ~\E e \in ToSet(executed) : e.kind = op.kind /\ e.key = op.key)
    [] OTHER -> plan

StateSave ==
  /\ phase = "save"
  /\ \/ /\ NoFault
        /\ saved' = managed
        /\ LET p == IF mode = "apply" THEN cur ELSE IF outcome = "rolledBack" THEN 0 ELSE pointer
           IN pointer' = p /\ savedPointer' = p
        /\ plan' = IF mode = "apply" THEN StillPending ELSE plan
        /\ settled' = (mode = "apply" /\ outcome = "ok" /\ calm /\ planned = desired)
        /\ origin' = IF mode = "apply" /\ outcome = "ok" /\ before.known THEN before ELSE NoBefore
     \/ /\ Fault
        /\ settled' = FALSE /\ origin' = NoBefore
        /\ pointer' = IF mode = "apply" THEN cur ELSE pointer
        /\ UNCHANGED <<saved, savedPointer, plan>>
  /\ calm' = (calm /\ outcome = "ok" /\ faults' = faults)
  /\ phase' = "idle" /\ Clear
  /\ UNCHANGED <<desired, live, resourceMode, journals, covered, touched, planned, changes>>

Next ==
  \/ Push \/ Edit \/ Crash
  \/ Reconcile \/ StartApply \/ ExecuteOne \/ SaveContent \/ OpFails \/ ApplyDone
  \/ UndoOne \/ UndoDone \/ StartRollback \/ StateSave

Spec == Init /\ [][Next]_vars
-----------------------------------------------------------------------------
Icons == {None, "icon"}
DashObjects == [meta : [title : Titles, icon : Icons], content : Contents \cup {None}]
ResObjects == [path : Paths, tag : Tags, type : Types]
Op_ == [kind : {"create", "update", "delete", "forget", "error"}, key : Keys, id : Live \cup {None},
        params : [meta : [title : Titles, icon : Icons \cup {Keep}] \cup {Keep}, content : Contents \cup {Keep},
                  url : [path : Paths, tag : Tags] \cup {Keep}, type : Types \cup {Keep}]]

\* Every variable has its type, a live object that of its registry.
TypeOK ==
  /\ desired \in Manifests /\ resourceMode \in {"storage", "yaml"}
  /\ \A d \in Dashes : live[d] \in DashObjects \cup {Gone}
  /\ \A id \in ResIds : live[id] \in ResObjects \cup {Gone}
  /\ saved \in [Keys -> Live \cup {None}] /\ managed \in [Keys -> Live \cup {None}]
  /\ \A d \in Dashes : saved[d] \in {d, None} /\ managed[d] \in {d, None}
  /\ plan \in Seq(Op_) /\ todo \in Seq(Op_)
  /\ phase \in {"idle", "exec", "content", "undo", "save"} /\ mode \in {"apply", "rollback"}
  /\ outcome \in {"ok", "failed", "rolledBack", "unjournalled"}
  /\ pos \in 0 .. Len(executed) /\ outstanding \subseteq DOMAIN executed

\* What is compared of an undone object: not the id of a resource, and not
\* the content of a dashboard that had none, which cannot be taken back.
Objects(lv) == {id \in Live : lv[id] # Gone}
Census(lv, obj) == Cardinality({id \in Objects(lv) \cap ResIds : lv[id] = obj})
SameDash(d, lv, lw) ==
  lv[d] = lw[d] \/ (lv[d] # Gone /\ lw[d] # Gone /\ lw[d].content = None /\ lv[d].meta = lw[d].meta)
SameMapping(k, lv, mv, lw, mw) ==
  LET has == mv[k] \in Objects(lv)  had == mw[k] \in Objects(lw)
  IN has = had /\ (has => IF k \in Dashes THEN mv[k] = mw[k] ELSE lv[mv[k]] = lw[mw[k]])

\* An apply, or a Roll Back, that reports it undid everything left the
\* dashboards, the resources and the mapping as they were: dashboards made
\* again with their content, adopted objects let go, a resource's query and
\* a renamed key's object back where they were.
RolledBackRestores ==
  phase = "save" /\ outcome = "rolledBack" /\ before.known =>
    /\ \A d \in Dashes : SameDash(d, live, before.live)
    /\ \A obj \in ResObjects : Census(live, obj) = Census(before.live, obj)
    /\ \A k \in Keys : SameMapping(k, live, managed, before.live, before.managed)

\* After a whole plan landed the next cycle finds nothing to do: a query
\* HACS keeps behind a declared path, an icon left out, an adopted object
\* and an object another key had are not drift.
SettledMeansNoPlan == settled => Executable(Plan) = <<>>

\* A dashboard or resource that no manifest declared since it was made, and
\* the agent did not make, is never deleted: once an apply had the occasion
\* to forget it, the mapping of one that disappeared must not claim the next
\* at the same path.  (Rolling that apply back gives the claim back.)
OnlyOwnedIsDeleted ==
  [][ExecuteOne =>
       \A id \in Live : live[id] # Gone /\ live'[id] = Gone /\ id \notin touched => id \in covered]_vars

\* No resource is created while one on its path was there to be adopted:
\* the frontend would load the file twice.
NoTwinResource ==
  [][ExecuteOne =>
       \A new, old \in ResIds :
         live[new] = Gone /\ live'[new] # Gone /\ live[old] # Gone /\ live[old].path = live'[new].path
           => old \in touched]_vars

=============================================================================
