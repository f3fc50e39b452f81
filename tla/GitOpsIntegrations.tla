------------------------- MODULE GitOpsIntegrations -------------------------
(***************************************************************************)
(* The layers of the GitOps agent that deliver integrations: HACS          *)
(* repositories (gitops/hacs.yaml), config entries made by driving a       *)
(* config flow (gitops/integrations.yaml), and subentries under them       *)
(* (gitops/subentries.yaml); internal/hacs, flows and subentries with      *)
(* their appliers in internal/regapply, and the part of an apply that      *)
(* orders them.                                                            *)
(*                                                                         *)
(* Home Assistant does not read an entry's data back, so what was sent is  *)
(* known only from the record.  A failure stays with its item: nothing is  *)
(* undone, the layers after it wait, and the failure is remembered with    *)
(* the data that failed so that no later cycle drives the same flow again. *)
(* Code downloaded through HACS is loaded when somebody restarts Core; the *)
(* flow that comes too early is not remembered as a failure.               *)
(***************************************************************************)
EXTENDS Integers, Sequences, FiniteSets, SequencesExt, PlanSequences

CONSTANTS
  HacsIds, Ints, Subs, \* ids of the three manifests
  KeyOrder,            \* all of them, layer by layer
  EntryIds, SubIds,    \* live ids, numbers here
  Provides,            \* repository -> the domain of its code
  Store,               \* repositories HACS knows without being told
  Domains, Titles, Uids, SubTypes,
  Datas, Ref, Bad,     \* data of an item: a plain value, a reference to a secret, what a form refuses
  SecretValues,        \* what the reference may resolve to
  Manifests,
  Starts,              \* what there is to begin with, and how many commits, edits and Roll Backs follow (a bound)
  None, Undeclared, Malformed, Gone,
  Opaque,              \* data the agent did not send, or cannot know to be there
  MaxFaults            \* bound on failed or lost calls, failed writes and crashes

Repos == DOMAIN Provides
Keys == HacsIds \cup Ints \cup Subs
Ids == Repos \cup EntryIds \cup SubIds

\* What is declared, what it resolves to, and what there is.
HacsItems == [repo : Repos, data : Datas]
IntItems == [domain : Domains, title : Titles, data : Datas]
SubItems ==
  [domain : Domains, entryTitle : Titles \cup {None}, type : SubTypes, uid : Uids \cup {None}, title : Titles \cup {None},
   data : Datas, parent : EntryIds \cup {None}]
Sent == Datas \cup SecretValues
Entries == [domain : Domains, title : Titles, data : Sent \cup {Opaque}]
Subentries == [entry : EntryIds, type : SubTypes, uid : Uids \cup {None}, title : Titles, data : Sent \cup {Opaque}]

ASSUME IntegrationsAssumption ==
  /\ HacsIds \cap Ints = {} /\ HacsIds \cap Subs = {} /\ Ints \cap Subs = {}
  /\ Repos \cap (EntryIds \cup SubIds) = {} /\ EntryIds \cap SubIds = {}
  /\ EntryIds \subseteq Nat /\ SubIds \subseteq Nat /\ IsFiniteSet(EntryIds) /\ IsFiniteSet(SubIds)
  /\ KeyOrder \in Seq(Keys) /\ ToSet(KeyOrder) = Keys
  /\ \A m, n \in DOMAIN KeyOrder : m # n => KeyOrder[m] # KeyOrder[n]
  /\ Provides \in [Repos -> Domains] /\ Store \subseteq Repos /\ Ref \in Datas /\ Bad \in Datas
  /\ None \notin Ids \cup Sent \cup {Opaque} /\ Gone \notin Entries \cup Subentries

ASSUME ManifestsAssumption ==
  \A m \in Manifests :
    /\ \A h \in HacsIds : m[h] \in {Undeclared, Malformed} \cup HacsItems
    /\ \A i \in Ints : m[i] \in {Undeclared, Malformed} \cup IntItems
    /\ \A s \in Subs : m[s] \in {Undeclared, Malformed} \cup SubItems

\* The agent may start anew on what it left behind: an item has at most one
\* live object, no two the same one, and the hash on record tells the truth.
ASSUME StartsAssumption ==
  \A s \in Starts :
    /\ s.changes \in Nat /\ s.rollbacks \in Nat /\ s.desired \in Manifests /\ s.secret \in SecretValues \cup {None}
    /\ s.entries \in [EntryIds -> Entries \cup {Gone}] /\ s.subs \in [SubIds -> Subentries \cup {Gone}]
    /\ s.installed \subseteq Repos /\ s.loaded \subseteq Domains
    /\ s.managed \in [Keys -> Ids \cup {None}] /\ s.hash \in [Keys -> Sent \cup {None}]
    /\ s.data \in [Keys -> Datas \cup {None}]
    /\ \A h \in HacsIds : s.managed[h] \in Repos \cup {None}
    /\ \A i \in Ints : s.managed[i] \in EntryIds \cup {None}
    /\ \A u \in Subs : s.managed[u] \in SubIds \cup {None}
    /\ \A k, l \in Keys : s.managed[k] # None /\ s.managed[k] = s.managed[l] => k = l
    /\ \A k \in Keys : s.hash[k] # None => s.managed[k] # None
    /\ \A i \in Ints : LET e == s.managed[i] IN
         e # None /\ s.entries[e] # Gone => s.entries[e].data \in {s.hash[i], Opaque}
    /\ \A u \in Subs : LET x == s.managed[u] IN
         x # None /\ s.subs[x] # Gone => s.subs[x].data \in {s.hash[u], Opaque}

VARIABLES
  desired,   \* the three manifests at the checked-out commit
  entries,   \* config entries: domain, title, data
  subs,      \* subentries: parent entry, type, unique_id, title, data
  installed, \* repositories HACS has downloaded
  loaded,    \* domains whose code Core has imported
  secret,    \* what the reference resolves to, or None
  saved,     \* state.json's records of the three layers
  savedPointer, journals, \* state.json's LastStashDir; the two newest stashes
  plan, reminder, \* the pending operations; the cycle's list of domains to restart for
  pointer,   \* the stash Roll Back would use
  phase, mode,
  mem,       \* the records as the apply mutates them
  todo, applied, failed, \* operations left; identities that took effect; layers that failed
  fetched,   \* the entries as the integration layer listed them, or None
  executed, outstanding, pos, cur,
  seen,      \* the subentries before, and the one made by, the flow under way
  \* history, for the properties only
  owner,     \* for which item the agent set a live object up
  calm,      \* nothing has happened since the plan but what it says
  before, origin, \* what Roll Back is to bring back, if known
  changes, rollbacks, \* commits, edits and Roll Backs still to come
  faults

home == <<entries, subs, installed, loaded, secret>>
disk == <<saved, savedPointer, journals>>
working == <<mem, todo, applied, failed, fetched, executed, outstanding, pos, cur, seen>>
bounds == <<changes, rollbacks, faults>>
vars == <<desired, home, disk, plan, reminder, pointer, phase, mode, working, owner, calm, before, origin, bounds>>

-----------------------------------------------------------------------------
(* Planning                                                                 *)

Declared(k) == desired[k] # Undeclared
Loaded == \A k \in Keys : desired[k] # Malformed

\* References are resolved while planning, again when Roll Back needs them.
Resolve(d) == IF d = Ref THEN secret ELSE d

NoItem == [data |-> None]
Op(kind, k, id, item, value) == [kind |-> kind, key |-> k, id |-> id, item |-> item, value |-> value]
Error(k) == Op("error", k, None, NoItem, None)
KeysOf(S) == Select(KeyOrder, {n \in DOMAIN KeyOrder : KeyOrder[n] \in S})
HacsOrder == KeysOf(HacsIds)
IntOrder == KeysOf(Ints)
SubOrder == KeysOf(Subs)

\* A recorded failure holds an item back while its data is what failed.
Refused(att, k, value) == att[k] # None /\ att[k].hash = value
CreatedUnidentified(att, k) == att[k] # None /\ att[k].created

\* A mutant of InPlace: what is on record is not looked for.
OnRecord(h, r) == saved.managed[h] = r

InPlace(h, r) == saved.managed[h] = r /\ r \in installed

\* A repository is downloaded when it is missing, adopted when it is there,
\* and never taken for another one HACS knows: nothing is uninstalled.
PlanHacsItem(att, h) ==
  LET r == desired[h].repo IN
    CASE ~Declared(h) \/ InPlace(h, r) -> <<>>
      [] Declared(h) /\ ~InPlace(h, r) /\ saved.managed[h] \notin {None, r} /\ r \in installed \cup Store -> <<Error(h)>>
      [] OTHER -> IF r \in installed THEN <<Op("update", h, r, desired[h], None)>>
                  ELSE IF Refused(att, h, desired[h]) THEN <<Error(h)>>
                  ELSE <<Op("create", h, r, desired[h], desired[h])>>
PlanHacs(att) == Over(HacsOrder, LAMBDA h : PlanHacsItem(att, h))

LiveEntry(id) == id # None /\ entries[id] # Gone
Claimed0 == {saved.managed[i] : i \in {x \in Ints : Declared(x)}} \ {None}
Candidates(claimed, i) ==
  {e \in EntryIds \ claimed : LiveEntry(e) /\ entries[e].domain = desired[i].domain /\ entries[e].title = desired[i].title}

\* What an item's operation adopts.
Adopted(ops) == {op.id : op \in {o \in ToSet(ops) : o.kind = "update"}}

\* A live entry of the declared domain and title is adopted, several are an
\* error; only without one a flow is planned.  Data that changed is an error
\* too: there is no call to change an entry.
PlanInt(att, claimed, i) ==
  LET value == Resolve(desired[i].data)
      id == saved.managed[i]
      found == Candidates(claimed, i)
      one == CHOOSE e \in found : TRUE
  IN CASE ~Declared(i) -> <<>>
       [] Declared(i) /\ value = None -> <<Error(i)>>
       [] Declared(i) /\ value # None /\ LiveEntry(id) ->
            IF saved.hash[i] \notin {None, value} THEN <<Error(i)>> ELSE <<>>
       [] OTHER ->
            IF Cardinality(found) = 1 THEN <<Op("update", i, one, desired[i], value)>>
            ELSE IF found # {} \/ Refused(att, i, value) THEN <<Error(i)>>
            ELSE <<Op("create", i, None, desired[i], value)>>

\* The entries that are claimed before item n + 1 is planned: what one item
\* adopts no later one does.
IntClaims(att) ==
  LET claims[n \in 0 .. Len(IntOrder)] ==
        IF n = 0 THEN Claimed0 ELSE claims[n - 1] \cup Adopted(PlanInt(att, claims[n - 1], IntOrder[n]))
  IN claims

\* The entries an item without one of its own may turn out to be about.
Waiting(i) == Declared(i) /\ (Resolve(desired[i].data) = None \/ ~LiveEntry(saved.managed[i]))
Contested(claims) ==
  UNION {Candidates(claims[n - 1], IntOrder[n]) : n \in {m \in DOMAIN IntOrder : Waiting(IntOrder[m])}}

\* A mutant of PlanIntDelete: what a declared item may want is not spared.
PlanIntDeleteOwned(claimed, contested, i) ==
  LET id == saved.managed[i] IN
    CASE Declared(i) \/ ~LiveEntry(id) -> <<>>
      [] OTHER -> <<Op(IF id \in claimed THEN "forget" ELSE "delete", i, id, NoItem, None)>>

PlanIntDelete(claimed, contested, i) ==
  LET id == saved.managed[i] IN
    CASE Declared(i) \/ ~LiveEntry(id) \/ id \in contested \ claimed -> <<>>
      [] OTHER -> <<Op(IF id \in claimed THEN "forget" ELSE "delete", i, id, NoItem, None)>>

PlanInts(att) ==
  LET claims == IntClaims(att)
      claimed == claims[Len(IntOrder)]
      contested == Contested(claims)
  IN FlattenSeq([n \in DOMAIN IntOrder |-> PlanInt(att, claims[n - 1], IntOrder[n])])
       \o Over(IntOrder, LAMBDA i : PlanIntDelete(claimed, contested, i))

\* Only the subentries of domains the manifest names are listed.
SubDomains == {desired[s].domain : s \in {x \in Subs : Declared(x)}}
LiveSub(id) == id # None /\ subs[id] # Gone
Listed(id) == LiveSub(id) /\ entries[subs[id].entry].domain \in SubDomains
Parents(s) ==
  {e \in EntryIds : /\ LiveEntry(e) /\ entries[e].domain = desired[s].domain
                    /\ desired[s].entryTitle \in {None, entries[e].title}}
Under(e, type) == {x \in SubIds : LiveSub(x) /\ subs[x].entry = e /\ subs[x].type = type}

\* By unique_id first, then by title; a unique_id another item holds is not
\* looked for under its title.
SubClaims == {saved.managed[s] : s \in {x \in Subs : Declared(x)}} \ {None}
ByUid(e, s) == {x \in Under(e, desired[s].type) : desired[s].uid # None /\ subs[x].uid = desired[s].uid}
Matches(claimed, e, s) ==
  IF ByUid(e, s) # {} THEN ByUid(e, s) \ claimed
  ELSE {x \in Under(e, desired[s].type) \ claimed : desired[s].title # None /\ subs[x].title = desired[s].title}

PlanSub(att, claimed, s) ==
  LET value == Resolve(desired[s].data)
      id == saved.managed[s]
      parents == Parents(s)
      parent == CHOOSE e \in parents : TRUE
      found == Matches(claimed, parent, s)
      one == CHOOSE x \in found : TRUE
      To(x, e) == <<Op("update", s, x, [desired[s] EXCEPT !.parent = e], value)>>
  IN CASE ~Declared(s) -> <<>>
       [] Declared(s) /\ value = None -> <<Error(s)>>
       [] Declared(s) /\ value # None /\ id # None /\ Listed(id) ->
            IF subs[id].type # desired[s].type THEN <<Error(s)>>
            ELSE IF saved.hash[s] = value THEN <<>>
            ELSE IF Refused(att, s, value) THEN <<Error(s)>> ELSE To(id, subs[id].entry)
       [] OTHER ->
            IF Cardinality(parents) # 1 \/ (ByUid(parent, s) # {} /\ found = {}) \/ Cardinality(found) > 1
            THEN <<Error(s)>>
            ELSE IF found = {}
            THEN IF Refused(att, s, value) THEN <<Error(s)>>
                 ELSE <<Op("create", s, None, [desired[s] EXCEPT !.parent = parent], value)>>
            ELSE IF Refused(att, s, value) /\ ~CreatedUnidentified(att, s) THEN <<Error(s)>> ELSE To(one, parent)

SubClaimed(att) ==
  LET claims[n \in 0 .. Len(SubOrder)] ==
        IF n = 0 THEN SubClaims ELSE claims[n - 1] \cup Adopted(PlanSub(att, claims[n - 1], SubOrder[n]))
  IN claims

\* What is no longer declared is let go, and stays.
PlanSubDrop(s) ==
  IF Declared(s) \/ saved.managed[s] = None THEN <<>>
  ELSE <<Op("unmanage", s, saved.managed[s], NoItem, None)>>

PlanSubs(att) ==
  LET claims == SubClaimed(att)
  IN FlattenSeq([n \in DOMAIN SubOrder |-> PlanSub(att, claims[n - 1], SubOrder[n])]) \o Over(SubOrder, PlanSubDrop)

PlanWith(att) == PlanHacs(att) \o PlanInts(att) \o PlanSubs(att)
Plan == PlanWith(saved.attempts)
Executable(ops) == Select(ops, {n \in DOMAIN ops : ops[n].kind # "error"})

\* Core lists a domain as a component once an entry of it has been set up.
Components == {d \in loaded : \E e \in EntryIds : LiveEntry(e) /\ entries[e].domain = d}
Reminder ==
  IF (\A h \in HacsIds : ~Declared(h)) /\ saved.reminder = {} THEN None ELSE saved.reminder \ Components

-----------------------------------------------------------------------------
Idle == phase = "idle"
NoRecords ==
  [managed |-> [k \in Keys |-> None], hash |-> [k \in Keys |-> None], data |-> [k \in Keys |-> None],
   attempts |-> [k \in Keys |-> None], reminder |-> {}]
NoBefore == [entries |-> [e \in EntryIds |-> Gone], managed |-> [i \in Ints |-> None],
             data |-> [i \in Ints |-> None], known |-> FALSE]
Unowned == [x \in Ids |-> None]

Init ==
  /\ \E s \in Starts : /\ desired = s.desired /\ changes = s.changes /\ rollbacks = s.rollbacks
                       /\ entries = s.entries /\ subs = s.subs
                       /\ installed = s.installed /\ loaded = s.loaded /\ secret = s.secret
                       /\ saved = [NoRecords EXCEPT !.managed = s.managed, !.hash = s.hash, !.data = s.data]
                       /\ owner = [x \in Ids |-> IF \E k \in Keys : s.managed[k] = x
                                                 THEN CHOOSE k \in Keys : s.managed[k] = x ELSE None]
  /\ savedPointer = 0 /\ pointer = 0 /\ journals = [d \in 1 .. 2 |-> <<>>]
  /\ plan = <<>> /\ reminder = None /\ phase = "idle" /\ mode = "apply"
  /\ mem = NoRecords /\ todo = <<>> /\ applied = {} /\ failed = {} /\ fetched = None
  /\ executed = <<>> /\ outstanding = {} /\ pos = 0 /\ cur = 0 /\ seen = None
  /\ calm = TRUE /\ before = NoBefore /\ origin = NoBefore
  /\ faults = 0

Clear ==
  /\ mem' = NoRecords /\ todo' = <<>> /\ applied' = {} /\ failed' = {} /\ fetched' = None
  /\ executed' = <<>> /\ outstanding' = {} /\ pos' = 0 /\ cur' = 0 /\ seen' = None
  /\ mode' = "apply" /\ before' = NoBefore

Change == changes > 0 /\ changes' = changes - 1 /\ UNCHANGED <<rollbacks, faults>>
Fault == faults < MaxFaults /\ faults' = faults + 1 /\ UNCHANGED <<changes, rollbacks>>
NoFault == UNCHANGED bounds

\* Home Assistant gives ids no record holds.
Mentioned ==
  {saved.managed[k] : k \in Keys} \cup {mem.managed[k] : k \in Keys} \cup {op.id : op \in ToSet(plan) \cup ToSet(todo)}
    \cup {e.id : e \in ToSet(executed) \cup ToSet(journals[1]) \cup ToSet(journals[2])}
    \cup {op.item.parent : op \in {o \in ToSet(plan) \cup ToSet(todo) : o.key \in Subs /\ o.kind \in {"create", "update"}}}
NewEntry == CHOOSE e \in EntryIds : entries[e] = Gone /\ e \notin Mentioned
CanMakeEntry == \E e \in EntryIds : entries[e] = Gone /\ e \notin Mentioned
NewSub == CHOOSE x \in SubIds : subs[x] = Gone /\ x \notin Mentioned
CanMakeSub == \E x \in SubIds : subs[x] = Gone /\ x \notin Mentioned

Removed(e) == /\ entries' = [entries EXCEPT ![e] = Gone]
              /\ subs' = [x \in SubIds |-> IF subs[x] # Gone /\ subs[x].entry = e THEN Gone ELSE subs[x]]
OwnerOfLive(o) == [x \in Ids |-> IF (x \in EntryIds /\ entries'[x] = Gone) \/ (x \in SubIds /\ subs'[x] = Gone)
                                 THEN None ELSE o[x]]

\* History: what a flow driven with data that is no longer the item's made
\* is nobody's.
Made(op, x) ==
  [owner EXCEPT ![x] = IF Declared(op.key) /\ Resolve(desired[op.key].data) = op.value THEN op.key ELSE None]

\* History: what was made for an item that takes up another object, or lets
\* go of its own, is nobody's.
OwnerOnly(k, id) == [x \in Ids |-> IF owner[x] = k /\ x # id THEN None ELSE owner[x]]

\* History: an object whose making no record names any more is nobody's.
Recorded(o, sv) == [x \in Ids |-> IF o[x] # None /\ sv.managed[o[x]] = x THEN o[x] ELSE None]

-----------------------------------------------------------------------------
(* What happens around the agent                                            *)

Push ==
  /\ Change /\ desired' \in Manifests \ {desired} /\ calm' = FALSE
  /\ owner' = Recorded(owner, IF Idle THEN saved ELSE mem)
  /\ UNCHANGED <<home, disk, plan, reminder, pointer, phase, mode, working, before, origin>>

\* Somebody sets an integration up in the user interface, renames an entry
\* or deletes it; adds a subentry, changes or deletes it; rotates a secret;
\* removes a repository from HACS.
\* Entries and subentries made by hand hold data the agent does not know.
Edit ==
  /\ Change /\ calm' = FALSE
  /\ \/ /\ CanMakeEntry /\ \E d \in loaded, t \in Titles :
             entries' = [entries EXCEPT ![NewEntry] = [domain |-> d, title |-> t, data |-> Opaque]]
        /\ UNCHANGED <<subs, installed, secret>>
     \/ /\ \E e \in EntryIds : LiveEntry(e) /\
             \/ (\E t \in Titles \ {entries[e].title} : entries' = [entries EXCEPT ![e].title = t]) /\ UNCHANGED subs
             \/ Removed(e)
        /\ UNCHANGED <<installed, secret>>
     \/ /\ CanMakeSub /\ \E e \in EntryIds, ty \in SubTypes, u \in Uids \cup {None}, t \in Titles :
             LiveEntry(e) /\ subs' = [subs EXCEPT ![NewSub] =
                               [entry |-> e, type |-> ty, uid |-> u, title |-> t, data |-> Opaque]]
        /\ UNCHANGED <<entries, installed, secret>>
     \/ /\ \E x \in SubIds : LiveSub(x) /\ (subs' = [subs EXCEPT ![x].data = Opaque] \/ subs' = [subs EXCEPT ![x] = Gone])
        /\ UNCHANGED <<entries, installed, secret>>
     \/ secret' \in (SecretValues \cup {None}) \ {secret} /\ UNCHANGED <<entries, subs, installed>>
     \/ (\E r \in installed : installed' = installed \ {r}) /\ UNCHANGED <<entries, subs, secret>>
  /\ owner' = OwnerOfLive(IF secret' = secret THEN owner ELSE Recorded(owner, IF Idle THEN saved ELSE mem))
  /\ before' = [before EXCEPT !.known = FALSE] /\ origin' = NoBefore
  /\ UNCHANGED <<desired, loaded, disk, plan, reminder, pointer, phase, mode, working>>

\* Somebody restarts Core, which loads what HACS has downloaded.
Restart ==
  /\ \E r \in installed : Provides[r] \notin loaded
  /\ loaded' = loaded \cup {Provides[r] : r \in installed}
  /\ UNCHANGED <<desired, entries, subs, installed, secret, disk, plan, reminder, pointer, phase, mode, working, owner,
                 calm, before, origin, bounds>>

\* What was written since the last save is in no record after that.
Unrecorded(x) == \E k \in Keys : mem.managed[k] = x /\ <<mem.managed[k], mem.hash[k]>> # <<saved.managed[k], saved.hash[k]>>
Forgotten(o) == Recorded(o, saved)
Unsure ==
  /\ entries' = [e \in EntryIds |-> IF LiveEntry(e) /\ Unrecorded(e) THEN [entries[e] EXCEPT !.data = Opaque] ELSE entries[e]]
  /\ subs' = [x \in SubIds |-> IF LiveSub(x) /\ Unrecorded(x) THEN [subs[x] EXCEPT !.data = Opaque] ELSE subs[x]]

Crash ==
  /\ Fault
  /\ plan' = <<>> /\ reminder' = None /\ pointer' = savedPointer /\ phase' = "idle" /\ Clear
  /\ IF Idle THEN UNCHANGED <<entries, subs, owner, origin>>
             ELSE Unsure /\ owner' = Forgotten(owner) /\ origin' = NoBefore
  /\ calm' = FALSE
  /\ UNCHANGED <<desired, installed, loaded, secret, disk>>

-----------------------------------------------------------------------------
(* A cycle, a Retry and the start of an apply                               *)

\* A manifest that cannot be read leaves no plan.
Reconcile ==
  /\ Idle /\ NoFault
  /\ plan' = IF Loaded THEN Plan ELSE <<>>
  /\ reminder' = IF Loaded THEN Reminder ELSE None
  /\ calm' = Loaded
  /\ UNCHANGED <<desired, home, disk, pointer, phase, mode, working, owner, before, origin>>

\* Nor does a fetch that fails; HACS not being there only skips its layer,
\* and forgets the cycle's list.
FetchFails ==
  /\ Idle /\ Loaded /\ Fault
  /\ plan' \in {<<>>, PlanInts(saved.attempts) \o PlanSubs(saved.attempts)} /\ reminder' = None /\ calm' = FALSE
  /\ UNCHANGED <<desired, home, disk, pointer, phase, mode, working, owner, before, origin>>

\* Somebody asks for one more try: what an earlier one may have left behind
\* is theirs to look after.
Retry(k) ==
  /\ Idle /\ Change /\ saved.attempts[k] # None
  /\ saved' = [saved EXCEPT !.attempts[k] = None]
  /\ owner' = Recorded(owner, saved)
  /\ UNCHANGED <<desired, home, savedPointer, journals, plan, reminder, pointer, phase, mode, working, calm, before, origin>>

NeedsStash(ops) == \E op \in ToSet(Executable(ops)) : ~(op.key \in HacsIds /\ op.kind = "update")
OtherStash(p) == IF p = 1 THEN 2 ELSE 1

\* History: two ids hold one entry after a rename that stopped half way.
OneEach == \A i, j \in Ints : saved.managed[i] # None /\ saved.managed[i] = saved.managed[j] => i = j

\* Applying a plan once more that failed, or that a Roll Back or an edit
\* overtook, is a person's doing too.
Overtaken(o) == [x \in Ids |-> IF \E op \in ToSet(plan) : op.key = o[x] THEN None ELSE o[x]]
StartApply ==
  /\ Idle /\ Executable(plan) # <<>>
  /\ mode' = "apply" /\ phase' = "run" /\ applied' = {} /\ fetched' = None /\ executed' = <<>>
  /\ mem' = [saved EXCEPT !.reminder = IF reminder = None THEN @ ELSE reminder]
  /\ \/ /\ NoFault /\ todo' = Executable(plan) /\ failed' = {}
        /\ cur' = IF NeedsStash(plan) THEN OtherStash(pointer) ELSE 0
        /\ journals' = IF NeedsStash(plan) THEN [journals EXCEPT ![cur'] = <<>>] ELSE journals
     \/ /\ Fault /\ NeedsStash(plan) /\ todo' = <<>> /\ failed' = {"stash"} /\ cur' = 0 /\ UNCHANGED journals
  /\ before' = [entries |-> entries, managed |-> [i \in Ints |-> saved.managed[i]], data |-> [i \in Ints |-> saved.data[i]],
                known |-> calm /\ OneEach]
  /\ owner' = IF calm THEN owner ELSE Overtaken(owner)
  /\ UNCHANGED <<desired, home, saved, savedPointer, plan, reminder, pointer, outstanding, pos, seen, calm, origin>>

-----------------------------------------------------------------------------
(* An apply, one call at a time                                             *)

LayerOf(k) == IF k \in HacsIds THEN "hacs" ELSE IF k \in Ints THEN "integrations" ELSE "subentries"
Op1(keys, kinds) == phase = "run" /\ todo # <<>> /\ Head(todo).key \in keys /\ Head(todo).kind \in kinds
Record(k, id, hash, data) ==
  mem' = [mem EXCEPT !.managed[k] = id, !.hash[k] = hash, !.data[k] = data, !.attempts[k] = None]

\* A mutant of Forget: the hash stays.
ForgetEntryOnly(k) == mem' = [mem EXCEPT !.managed[k] = None, !.data[k] = None]

Forget(k) == mem' = [mem EXCEPT !.managed[k] = None, !.hash[k] = None, !.data[k] = None]

\* A mutant of Attempt: the declared data is remembered, not what was sent.
AttemptDeclared(op, created) ==
  mem' = [mem EXCEPT !.attempts[op.key] = [hash |-> IF op.key \in HacsIds THEN op.value ELSE op.item.data, created |-> created]]

Attempt(op, created) ==
  mem' = [mem EXCEPT !.attempts[op.key] = [hash |-> op.value, created |-> created]]

\* Integrations wait for HACS and subentries for everything; the items of
\* one layer do not wait for each other.
InLayer(ops, layer) == Select(ops, {n \in DOMAIN ops : LayerOf(ops[n].key) = layer})
Succeed == todo' = Tail(todo) /\ applied' = applied \cup {<<Head(todo).kind, Head(todo).key>>} /\ UNCHANGED failed
Fail ==
  LET layer == LayerOf(Head(todo).key) IN
    /\ failed' = failed \cup {layer} /\ UNCHANGED applied
    /\ todo' = InLayer(Tail(todo), layer)

\* (A repository that a failed download had made known stays out of Store.)
RunHacs ==
  /\ Op1(HacsIds, {"create", "update"})
  /\ LET op == Head(todo)
         record == [mem EXCEPT !.managed[op.key] = op.id, !.attempts[op.key] = None]
     IN IF op.kind = "update"
        THEN NoFault /\ mem' = record /\ Succeed /\ UNCHANGED installed
        ELSE \/ /\ NoFault /\ installed' = installed \cup {op.id} /\ Succeed
                /\ mem' = [record EXCEPT !.reminder = @ \cup {Provides[op.id]}]
             \/ \* a lost connection says nothing of the entry, HACS's answer does;
                \* the download may have landed before the reading back was refused
                /\ Fault /\ Fail
                /\ installed' \in {installed, installed \cup {op.id}}
                /\ UNCHANGED mem \/ Attempt(op, FALSE)
  /\ UNCHANGED <<desired, entries, subs, loaded, secret, disk, plan, reminder, pointer, phase, mode, fetched, executed,
                 outstanding, pos, cur, seen, owner, calm, before, origin>>

ListEntries ==
  /\ Op1(Ints, {"create", "update", "delete", "forget"}) /\ fetched = None
  /\ \/ NoFault /\ fetched' = entries /\ UNCHANGED <<todo, failed>>
     \/ Fault /\ todo' = <<>> /\ failed' = failed \cup {"integrations"} /\ UNCHANGED fetched
  /\ UNCHANGED <<desired, home, disk, plan, reminder, pointer, phase, mode, mem, applied, executed, outstanding, pos, cur,
                 seen, owner, calm, before, origin>>

\* What took effect is journalled; when that cannot be written the layer
\* stops, with what landed recorded and off the journal.
Entry(op, id, e) ==
  [kind |-> op.kind, key |-> op.key, id |-> id, domain |-> e.domain, title |-> e.title,
   data |-> IF op.kind \in {"create", "update"} THEN op.item.data ELSE mem.data[op.key], hash |-> mem.hash[op.key]]

\* A mutant of Journalled: only the last operation is kept.
JournalledAlone(entry) == executed' = <<entry>> /\ journals' = [journals EXCEPT ![cur] = executed']

Journalled(entry) == executed' = Append(executed, entry) /\ journals' = [journals EXCEPT ![cur] = executed']
Took(op) == applied' = applied \cup {<<op.kind, op.key>>}
Landed(op, entry) ==
  \/ NoFault /\ Journalled(entry) /\ Succeed /\ UNCHANGED before
  \/ /\ Fault /\ UNCHANGED <<executed, journals>> /\ Took(op) /\ failed' = failed \cup {"integrations"} /\ todo' = <<>>
     /\ before' = [before EXCEPT !.known = FALSE]

\* Home Assistant accepts a flow for code it has loaded, with data its forms
\* take; the flow names the entry as it likes and the agent renames it.  The
\* entry whose renaming fails is recorded all the same.
FlowAccepts(domain, value) == domain \in loaded /\ value # Bad
NewInt(item, title, data) == [entries EXCEPT ![NewEntry] = [domain |-> item.domain, title |-> title, data |-> data]]

CreateEntry ==
  /\ Op1(Ints, {"create"}) /\ fetched # None /\ CanMakeEntry
  /\ LET op == Head(todo)  entry == Entry(op, NewEntry, op.item) IN
       /\ FlowAccepts(op.item.domain, op.value)
       /\ Record(op.key, NewEntry, op.value, op.item.data)
       /\ owner' = [owner EXCEPT ![NewEntry] = op.key]
       /\ \/ entries' = NewInt(op.item, op.item.title, op.value) /\ Landed(op, entry)
          \/ /\ \E t \in Titles \ {op.item.title} : entries' = NewInt(op.item, t, op.value)
             /\ Fault /\ Journalled(entry) /\ Took(op) /\ UNCHANGED before /\ failed' = failed \cup {"integrations"}
             /\ todo' = InLayer(Tail(todo), "integrations")
  /\ UNCHANGED <<desired, subs, installed, loaded, secret, saved, savedPointer, plan, reminder, pointer, phase, mode,
                 fetched, outstanding, pos, cur, seen, calm, origin>>

\* A mutant of Remember: what came too early is held against the item.
RememberEarly(op) == Attempt(op, FALSE)

\* A failed flow is remembered with its data; one that came before the code
\* was loaded is not.
Remember(op) == IF op.item.domain \in loaded THEN Attempt(op, FALSE) ELSE UNCHANGED mem

\* An answer may be lost after the entry was made.
CreateFails ==
  /\ Op1(Ints, {"create"}) /\ fetched # None /\ Fail
  /\ LET op == Head(todo) IN
       \/ ~FlowAccepts(op.item.domain, op.value) /\ NoFault /\ Remember(op) /\ UNCHANGED <<entries, owner, before>>
       \/ /\ Fault /\ Attempt(op, FALSE)
          /\ \/ UNCHANGED <<entries, owner, before>>
             \/ /\ FlowAccepts(op.item.domain, op.value) /\ CanMakeEntry
                /\ \E t \in Titles : entries' = NewInt(op.item, t, Opaque)
                /\ owner' = Made(op, NewEntry) /\ before' = [before EXCEPT !.known = FALSE]
  /\ UNCHANGED <<desired, subs, installed, loaded, secret, disk, plan, reminder, pointer, phase, mode, fetched, executed,
                 outstanding, pos, cur, seen, calm, origin>>

\* Adopting writes nothing: what the entry was set up with stays unknown.
AdoptEntry ==
  /\ Op1(Ints, {"update"}) /\ fetched # None
  /\ LET op == Head(todo) IN
       /\ Record(op.key, op.id, op.value, op.item.data)
       /\ Landed(op, Entry(op, op.id, op.item))
       /\ entries' = IF LiveEntry(op.id) THEN [entries EXCEPT ![op.id].data = Opaque] ELSE entries
       /\ owner' = [x \in Ids |-> IF x = op.id \/ owner[x] = op.key THEN None ELSE owner[x]]
  /\ UNCHANGED <<desired, subs, installed, loaded, secret, saved, savedPointer, plan, reminder, pointer, phase, mode,
                 fetched, outstanding, pos, cur, seen, calm, origin>>

\* An entry the listing does not show is only forgotten, and its operation
\* counts as not done; one deleted since is already gone, which is fine.
DeleteEntry ==
  /\ Op1(Ints, {"delete"}) /\ fetched # None
  /\ LET op == Head(todo) IN
       \/ /\ fetched[op.id] = Gone /\ NoFault /\ Forget(op.key) /\ todo' = Tail(todo)
          /\ UNCHANGED <<entries, subs, applied, failed, executed, journals, before>>
       \/ /\ fetched[op.id] # Gone /\ Removed(op.id) /\ Forget(op.key)
          /\ Landed(op, Entry(op, op.id, fetched[op.id]))
       \/ /\ fetched[op.id] # Gone /\ Fault /\ Fail /\ UNCHANGED <<mem, executed, journals>>
          /\ \/ UNCHANGED <<entries, subs, before>>
             \/ Removed(op.id) /\ before' = [before EXCEPT !.known = FALSE]
  /\ owner' = OwnerOfLive(owner)
  /\ UNCHANGED <<desired, installed, loaded, secret, saved, savedPointer, plan, reminder, pointer, phase, mode, fetched,
                 outstanding, pos, cur, seen, calm, origin>>

ForgetEntry ==
  /\ Op1(Ints, {"forget"}) /\ fetched # None
  /\ LET op == Head(todo) IN
       /\ mem' = [mem EXCEPT !.managed[op.key] = None, !.hash[op.key] = None, !.data[op.key] = None, !.attempts[op.key] = None]
       /\ Landed(op, Entry(op, op.id, [domain |-> None, title |-> None]))
  /\ UNCHANGED <<desired, home, saved, savedPointer, plan, reminder, pointer, phase, mode, fetched, outstanding, pos, cur,
                 seen, owner, calm, origin>>

\* The subentries of the parent are listed, which fails without it; the flow
\* is driven; what it made it does not say.
CreateSub ==
  /\ Op1(Subs, {"create"}) /\ CanMakeSub
  /\ LET op == Head(todo)
         takes == LiveEntry(op.item.parent) /\ op.value # Bad
         refused == LiveEntry(op.item.parent) /\ op.value = Bad
         With(t, u, data) == [subs EXCEPT ![NewSub] = [entry |-> op.item.parent, type |-> op.item.type, uid |-> u, title |-> t, data |-> data]]
     IN \/ /\ takes /\ NoFault /\ phase' = "find" /\ seen' = {x \in SubIds : LiveSub(x)}
           /\ \E t \in Titles, u \in {None, op.item.uid} : subs' = With(t, u, op.value)
           /\ owner' = Made(op, NewSub)
           /\ UNCHANGED <<mem, todo, applied, failed>>
        \/ /\ ~takes /\ NoFault /\ Fail /\ UNCHANGED <<subs, phase, seen, owner>>
           /\ IF refused THEN Attempt(op, FALSE) ELSE UNCHANGED mem
        \/ /\ Fault /\ Fail /\ UNCHANGED <<phase, seen>>
           /\ \/ mem' = mem /\ UNCHANGED <<subs, owner>>
              \/ LiveEntry(op.item.parent) /\ Attempt(op, FALSE) /\ UNCHANGED <<subs, owner>>
              \/ /\ takes /\ Attempt(op, FALSE) /\ owner' = Made(op, NewSub)
                 /\ \E t \in Titles, u \in {None, op.item.uid} : subs' = With(t, u, Opaque)
  /\ UNCHANGED <<desired, entries, installed, loaded, secret, disk, plan, reminder, pointer, mode, fetched, executed,
                 outstanding, pos, cur, calm, before, origin>>

\* It is the one that was not there before: by unique_id, by title, or the
\* only one.
Discovered(item) ==
  LET added == Under(item.parent, item.type) \ seen
      uids == {x \in added : item.uid # None /\ subs[x].uid = item.uid}
      titles == {x \in added : item.title # None /\ subs[x].title = item.title}
      only(S) == IF Cardinality(S) = 1 THEN S ELSE {}
  IN IF only(uids) # {} THEN uids ELSE IF only(titles) # {} THEN titles ELSE only(added)

FindSub ==
  /\ phase = "find" /\ phase' = "run" /\ seen' = None
  /\ LET op == Head(todo)  found == Discovered(op.item)  one == CHOOSE x \in found : TRUE IN
       \/ /\ NoFault /\ found # {} /\ Record(op.key, one, op.value, None) /\ Succeed
          /\ owner' = OwnerOnly(op.key, one)
       \/ NoFault /\ found = {} /\ Attempt(op, TRUE) /\ Fail /\ UNCHANGED owner
       \/ Fault /\ Attempt(op, TRUE) /\ Fail /\ UNCHANGED owner
  /\ UNCHANGED <<desired, home, disk, plan, reminder, pointer, mode, fetched, executed, outstanding, pos, cur, calm,
                 before, origin>>

\* A known or an adopted one is reconfigured.  When the answer is lost the
\* agent does not know what the subentry holds; an integration may also end
\* the flow by making a second one, which is nobody's.
UpdateSub ==
  /\ Op1(Subs, {"update"})
  /\ LET op == Head(todo)
         takes == LiveSub(op.id) /\ op.value # Bad
         Holds(data) == subs' = [subs EXCEPT ![op.id].data = data]
         Doubled(t, u) == subs' = [subs EXCEPT ![NewSub] = [subs[op.id] EXCEPT !.uid = u, !.title = t, !.data = Opaque]]
     IN \/ /\ takes /\ NoFault /\ Holds(op.value) /\ Record(op.key, op.id, op.value, None) /\ Succeed
           /\ owner' = OwnerOnly(op.key, op.id)
        \/ ~takes /\ NoFault /\ Attempt(op, FALSE) /\ Fail /\ UNCHANGED <<subs, owner>>
        \/ /\ Fault /\ Attempt(op, FALSE) /\ Fail /\ UNCHANGED owner
           /\ \/ UNCHANGED subs
              \/ takes /\ Holds(Opaque)
              \/ takes /\ CanMakeSub /\ \E t \in Titles, u \in {None, op.item.uid} : Doubled(t, u)
  /\ UNCHANGED <<desired, entries, installed, loaded, secret, disk, plan, reminder, pointer, phase, mode, fetched, executed,
                 outstanding, pos, cur, seen, calm, before, origin>>

\* What is let go of stays, and is nobody's: the item may be declared again.
Unmanage ==
  /\ Op1(Subs, {"unmanage"}) /\ NoFault /\ Succeed
  /\ Record(Head(todo).key, None, None, None)
  /\ owner' = OwnerOnly(Head(todo).key, None)
  /\ UNCHANGED <<desired, home, disk, plan, reminder, pointer, phase, mode, fetched, executed, outstanding, pos, cur, seen,
                 calm, before, origin>>

-----------------------------------------------------------------------------
(* The end of an apply, and Roll Back                                       *)

StillPending ==
  Select(plan, {n \in DOMAIN plan : IF failed = {} THEN plan[n].kind = "error"
                                   ELSE <<plan[n].kind, plan[n].key>> \notin applied})

\* The pointer moves in memory even when the state cannot be saved; a Roll
\* Back that did not undo everything keeps it.
StateSave ==
  /\ (phase = "run" /\ todo = <<>>) \/ (phase = "undo" /\ pos = 0)
  /\ LET p == IF mode = "apply" THEN (IF cur = 0 THEN pointer ELSE cur) ELSE IF failed = {} THEN 0 ELSE pointer IN
       \/ /\ NoFault /\ saved' = mem /\ pointer' = p /\ savedPointer' = p
          /\ plan' = IF mode = "apply" THEN StillPending ELSE plan
          /\ origin' = IF mode = "apply" /\ cur = 0 THEN origin
                       ELSE IF mode = "apply" /\ before.known THEN before ELSE NoBefore
          /\ UNCHANGED <<entries, subs, owner>>
       \/ /\ Fault /\ pointer' = IF mode = "apply" THEN p ELSE pointer
          /\ Unsure /\ owner' = Forgotten(owner) /\ origin' = NoBefore
          /\ UNCHANGED <<saved, savedPointer, plan>>
  /\ calm' = (calm /\ failed = {} /\ faults' = faults)
  /\ phase' = "idle" /\ Clear
  /\ UNCHANGED <<desired, installed, loaded, secret, reminder, journals>>

Remaining(S) == Select(executed, S)

\* Only integrations are on the stash: what HACS downloaded and what was
\* done to subentries stays.  A journal that cannot be read ends it.
StartRollback ==
  /\ Idle /\ pointer # 0 /\ rollbacks > 0 /\ rollbacks' = rollbacks - 1
  /\ mode' = "rollback" /\ phase' = "undo" /\ cur' = pointer /\ mem' = saved
  /\ executed' = journals[pointer] /\ outstanding' = 1 .. Len(executed')
  /\ \/ faults' = faults /\ failed' = {} /\ pos' = Len(executed')
     \/ faults < MaxFaults /\ faults' = faults + 1 /\ failed' = {"integrations"} /\ pos' = 0
  /\ todo' = <<>> /\ applied' = {} /\ fetched' = None
  /\ before' = origin /\ origin' = NoBefore /\ calm' = FALSE
  /\ UNCHANGED <<desired, home, disk, plan, reminder, pointer, seen, owner, changes>>

\* The journal is shortened first.  A failed inverse is not tried again and
\* the others go on.
UndoOne ==
  /\ phase = "undo" /\ pos > 0 /\ pos' = pos - 1
  /\ LET e == executed[pos]
         value == Resolve(e.data)
         runs == value # None /\ FlowAccepts(e.domain, value)
         Missed == failed' = {"integrations"} /\ UNCHANGED <<entries, subs, mem, owner>>
         Remade(t, who) == /\ entries' = NewInt(e, t, value) /\ UNCHANGED subs
                           /\ owner' = [owner EXCEPT ![NewEntry] = who]
     IN \/ Fault /\ UNCHANGED <<outstanding, journals>> /\ Missed
        \/ /\ outstanding' = outstanding \ {pos} /\ journals' = [journals EXCEPT ![cur] = Remaining(outstanding')]
           /\ \/ /\ e.kind = "create"
                 /\ \/ NoFault /\ Removed(e.id) /\ Forget(e.key) /\ owner' = OwnerOfLive(owner) /\ UNCHANGED failed
                    \/ Fault /\ Missed
                    \/ /\ Fault /\ Removed(e.id) /\ owner' = OwnerOfLive(owner)
                       /\ failed' = {"integrations"} /\ UNCHANGED mem
              \/ e.kind = "update" /\ NoFault /\ Forget(e.key) /\ UNCHANGED <<entries, subs, owner, failed>>
              \/ /\ e.kind = "forget" /\ NoFault /\ UNCHANGED <<entries, subs, owner, failed>>
                 /\ mem' = [mem EXCEPT !.managed[e.key] = e.id, !.hash[e.key] = IF e.hash = None THEN @ ELSE e.hash,
                                       !.data[e.key] = IF e.data = None THEN @ ELSE e.data]
              \/ /\ e.kind = "delete" /\ CanMakeEntry
                 /\ \/ ~runs /\ NoFault /\ Missed
                    \/ Fault /\ Missed
                    \/ /\ runs
                       /\ mem' = [mem EXCEPT !.managed[e.key] = NewEntry, !.hash[e.key] = value, !.data[e.key] = e.data]
                       /\ \/ NoFault /\ Remade(e.title, e.key) /\ UNCHANGED failed
                          \/ Fault /\ (\E t \in Titles \ {e.title} : Remade(t, e.key)) /\ failed' = {"integrations"}
                    \/ runs /\ Fault /\ (\E t \in Titles : Remade(t, None)) /\ failed' = {"integrations"} /\ UNCHANGED mem
  /\ UNCHANGED <<desired, installed, loaded, secret, saved, savedPointer, plan, reminder, pointer, phase, mode, todo,
                 applied, fetched, executed, cur, seen, calm, before, origin>>

-----------------------------------------------------------------------------
Apply == \/ RunHacs \/ ListEntries \/ CreateEntry \/ CreateFails \/ AdoptEntry \/ DeleteEntry \/ ForgetEntry
         \/ CreateSub \/ FindSub \/ UpdateSub \/ Unmanage \/ StateSave \/ UndoOne

Next ==
  \/ Push \/ Edit \/ Restart \/ Crash
  \/ Reconcile \/ FetchFails \/ (\E k \in Keys : Retry(k)) \/ StartApply \/ Apply \/ StartRollback

Spec == Init /\ [][Next]_vars

\* An apply that was started ends; the timer plans and applies again and
\* again, holding a failed plan for a while only; and somebody restarts Core
\* when the reminder asks for it.
FairSpec == Spec /\ WF_vars(Apply) /\ WF_vars(Restart) /\ SF_vars(Reconcile) /\ SF_vars(StartApply)
-----------------------------------------------------------------------------
Ids0 == Ids \cup {None}
Kinds == {"create", "update", "delete", "forget", "unmanage", "error"}
HacsOps ==
  [kind : {"create"}, key : HacsIds, id : Repos, item : HacsItems, value : HacsItems]
    \cup [kind : {"update"}, key : HacsIds, id : Repos, item : HacsItems, value : {None}]
IntOps ==
  [kind : {"create"}, key : Ints, id : {None}, item : IntItems, value : Sent]
    \cup [kind : {"update"}, key : Ints, id : EntryIds, item : IntItems, value : Sent]
    \cup [kind : {"delete", "forget"}, key : Ints, id : EntryIds, item : {NoItem}, value : {None}]
SubOps ==
  [kind : {"create"}, key : Subs, id : {None}, item : {i \in SubItems : i.parent # None}, value : Sent]
    \cup [kind : {"update"}, key : Subs, id : SubIds, item : {i \in SubItems : i.parent # None}, value : Sent]
    \cup [kind : {"unmanage"}, key : Subs, id : SubIds, item : {NoItem}, value : {None}]
Errors == [kind : {"error"}, key : Keys, id : {None}, item : {NoItem}, value : {None}]
Executables == HacsOps \cup IntOps \cup SubOps
Journals ==
  [kind : {"create", "update", "delete"}, key : Ints, id : EntryIds, domain : Domains, title : Titles,
   data : Datas \cup {None}, hash : Sent \cup {None}]
    \cup [kind : {"forget"}, key : Ints, id : EntryIds, domain : {None}, title : {None}, data : Datas \cup {None},
          hash : Sent \cup {None}]

RecordOK(r) ==
  /\ r \in [managed : [Keys -> Ids0], hash : [Keys -> Sent \cup {None}], data : [Keys -> Datas \cup {None}],
             attempts : [Keys -> [hash : Sent \cup HacsItems, created : BOOLEAN] \cup {None}], reminder : SUBSET Domains]
  /\ \A h \in HacsIds : r.managed[h] \in Repos \cup {None}
  /\ \A i \in Ints : r.managed[i] \in EntryIds \cup {None}
  /\ \A s \in Subs : r.managed[s] \in SubIds \cup {None}
  /\ \A k \in Keys : r.hash[k] # None => r.managed[k] # None
Befores ==
  [entries : [EntryIds -> Entries \cup {Gone}], managed : [Ints -> EntryIds \cup {None}],
   data : [Ints -> Datas \cup {None}], known : BOOLEAN]

\* Every variable has its type; a hash is kept of what is managed only.
TypeOK ==
  /\ desired \in Manifests /\ secret \in SecretValues \cup {None}
  /\ entries \in [EntryIds -> Entries \cup {Gone}] /\ subs \in [SubIds -> Subentries \cup {Gone}]
  /\ installed \subseteq Repos /\ loaded \subseteq Domains
  /\ RecordOK(saved) /\ RecordOK(mem)
  /\ savedPointer \in 0 .. 2 /\ pointer \in 0 .. 2 /\ cur \in 0 .. 2
  /\ journals \in [1 .. 2 -> Seq(Journals)] /\ executed \in Seq(Journals)
  /\ plan \in Seq(Executables \cup Errors) /\ todo \in Seq(Executables)
  /\ reminder = None \/ reminder \subseteq Domains
  /\ phase \in {"idle", "run", "find", "undo"} /\ mode \in {"apply", "rollback"} /\ calm \in BOOLEAN
  /\ failed \subseteq {"stash", "hacs", "integrations", "subentries"} /\ applied \subseteq Kinds \X Keys
  /\ fetched = None \/ fetched \in [EntryIds -> Entries \cup {Gone}]
  /\ seen = None \/ seen \subseteq SubIds
  /\ pos \in 0 .. Len(executed) /\ outstanding \subseteq DOMAIN executed
  /\ owner \in [Ids -> Keys \cup {None}] /\ before \in Befores /\ origin \in Befores
  /\ changes \in Nat /\ rollbacks \in Nat /\ faults \in Nat

\* The agent never sets an integration or a subentry up a second time while
\* the one it set up for the same item is there: not after a lost answer,
\* not when the item it made could not be told apart, not after a Roll Back.
\* What may cause it: a person who asks for one more try (Retry, Apply on a
\* plan that failed or was overtaken), new data, a lost record, a lost answer
\* to a Roll Back, which remembers no failures, a subentry the agent let go of
\* that is declared again, one it took another for that somebody made while it
\* was at it, and a reconfigure flow of an integration that makes a second.
\* (An item of another domain has its subentry under another entry.)
NoTwins ==
  \A x, y \in Ids : /\ owner[x] # None /\ owner[x] = owner[y]
                    /\ x \in SubIds => subs[x].entry = subs[y].entry
                    => x = y

\* What the comment on discoverCreatedSubentry says ("a subentry missing from
\* managed is created again next cycle", regapply/subentries.go:437-439; the
\* error it reports says so to the user, 472-476).  It does not hold: the
\* failure memory of executeSubentryOp holds the item back.
UnidentifiedIsCreatedAgain ==
  Idle /\ Loaded => \A s \in Subs :
    Declared(s) /\ CreatedUnidentified(saved.attempts, s) => \E op \in ToSet(Plan) : op.key = s /\ op.kind # "error"

\* A Roll Back that reports it undid everything leaves an entry of the same
\* domain and title for every one there was, and the same items managed.  What
\* was deleted is set up again from the data that was on record, its references
\* resolved anew; everything else holds what it held.
Census(en, d, t) == Cardinality({e \in EntryIds : en[e] # Gone /\ en[e].domain = d /\ en[e].title = t})
Live0(en, id) == id # None /\ en[id] # Gone
Alike(e, f) == e.domain = f.domain /\ e.title = f.title
Same(e, f) == Alike(e, f) /\ (e.data = f.data \/ Opaque \in {e.data, f.data})
SetUpAgain(e, f, data) == Alike(e, f) /\ e.data = Resolve(data)
RolledBackRestores ==
  mode = "rollback" /\ phase = "undo" /\ pos = 0 /\ failed = {} /\ before.known =>
    /\ \A d \in Domains, t \in Titles : Census(entries, d, t) = Census(before.entries, d, t)
    /\ \A i \in Ints : LET id == mem.managed[i]  was == before.managed[i] IN
         /\ Live0(entries, id) = Live0(before.entries, was)
         /\ Live0(entries, id) => IF id = was THEN Same(entries[id], before.entries[was])
                                  ELSE SetUpAgain(entries[id], before.entries[was], before.data[i])

\* What the plan says nothing of is in place: downloaded, or set up with the
\* data declared now as far as the agent can know.
Delivered(k) ==
  LET id == saved.managed[k]  value == Resolve(desired[k].data) IN
    CASE k \in HacsIds -> desired[k].repo \in installed
      [] k \in Ints -> LiveEntry(id) /\ entries[id].data \in {value, Opaque}
      [] k \in Subs -> LiveSub(id) /\ subs[id].data \in {value, Opaque}
Silent(k, ops) == \A op \in ToSet(ops) : op.key # k
InSyncIsTrue ==
  Idle /\ Loaded => \A k \in Keys : Declared(k) /\ Silent(k, Plan) => Delivered(k)

\* An apply deletes no entry that a declared item waits for: when an id is
\* renamed the old id lets go of the entry only, also when the new one
\* cannot adopt it yet.
DeclaredEntriesSurvive ==
  [][Apply /\ mode = "apply" /\ calm =>
       \A e \in EntryIds : LiveEntry(e) /\ entries'[e] = Gone =>
         ~\E i \in Ints : /\ Declared(i) /\ ~LiveEntry(saved.managed[i])
                          /\ desired[i].domain = entries[e].domain /\ desired[i].title = entries[e].title]_vars

\* Unless a call failed, every item that can be delivered is in the end:
\* downloaded, then set up once Core was restarted, then its subentry added;
\* no failure on record of what came too early stands in its way.  Only a
\* subentry may be held back: somebody added or removed one while the agent
\* was at it.
Acceptable(k) == desired[k].data # Bad /\ (k \in Ints => desired[k].domain \in loaded \cup {Provides[r] : r \in installed})
Standing(k) == \E op \in ToSet(PlanWith([x \in Keys |-> None])) : op.key = k /\ op.kind = "error"
HeldBack(k) == k \in Subs /\ saved.attempts[k] # None
Arrives ==
  <>[](faults = 0 /\ Loaded /\ (\A k \in Ints : Declared(k) => Acceptable(k)) =>
         \A k \in Keys : Declared(k) /\ Acceptable(k) => Delivered(k) \/ Standing(k) \/ HeldBack(k))
=============================================================================
