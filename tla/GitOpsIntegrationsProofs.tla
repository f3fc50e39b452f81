---------------------- MODULE GitOpsIntegrationsProofs ----------------------
(***************************************************************************)
(* Proofs about GitOpsIntegrations: what a plan says nothing of is in      *)
(* place, no entry that a declared item waits for is deleted, and a Roll   *)
(* Back that reports success restores. All look into the plan, which is    *)
(* made from the record, so all rest on one invariant, TypeInv and Truth   *)
(* (RecordsTellTruth).                                                     *)
(*                                                                         *)
(* What the first needs of the record is that the hash it keeps of an item *)
(* is of what the item's entry or subentry holds (IntsTrue, SubsTrue).     *)
(* That is not inductive alone: an operation changes one object and the    *)
(* record of one item. So two items may name one entry, in memory, on the  *)
(* disk or in a journal that Roll Back replays, only where nobody can tell *)
(* what it holds (IntsOK); a subentry may change hands within a plan, and  *)
(* then the item it is taken from is still to let go of it (OneSub,        *)
(* Leaving, Behind in SubsOK); and what a flow for a subentry finds is in  *)
(* no record yet (FoundFresh). A plan must keep its order for that,        *)
(* adoptions before what is let go of (PlansOK), which is a statement      *)
(* about pairs of positions of a plan and about which operation adopts     *)
(* what: the planners pass what is claimed from item to item (IntClaims,   *)
(* SubClaimed), and that the claims only grow along that loop is by        *)
(* Induction of PlanSequencesProofs.                                       *)
(*                                                                         *)
(* An entry a declared item waits for is one the planner counts as claimed *)
(* or contested, and it deletes neither; DeletesSpare keeps this of the    *)
(* plan for as long as nothing but the apply itself changes what there is. *)
(*                                                                         *)
(* That a Roll Back restores is said of the journal (LeadsBack): of each   *)
(* domain and title there were as many entries as there are now, less      *)
(* those the journal made (MadeAt), plus those it removed (GoneAt); and    *)
(* each entry, undone, gives its item what it had. This holds while an     *)
(* apply runs because its plan fitted what there was (PlanFits, FitsNow)   *)
(* and what is left of it still does (RunOK); between applies it holds of  *)
(* the journal the button names, until somebody interferes (IdleOK); and   *)
(* each step of the Roll Back takes one entry off it (UndoOK). An apply    *)
(* without a journal has nothing to undo (NoStashOK).                      *)
(***************************************************************************)
EXTENDS GitOpsIntegrations, PlanSequencesProofs, FiniteSetTheorems, TLAPS

\* Where the apply or the Roll Back stands says which variables hold something.
ControlOK ==
  /\ phase \in {"idle", "run", "find"} => pos = 0 /\ outstanding = {} /\ mode = "apply"
  /\ phase = "idle" => todo = <<>> /\ mem = NoRecords
  /\ phase = "undo" => todo = <<>> /\ cur \in 1 .. 2 /\ mode = "rollback"
  /\ phase = "find" => todo # <<>> /\ Head(todo).key \in Subs /\ Head(todo).kind = "create"

TypeInv == TypeOK /\ ControlOK

-----------------------------------------------------------------------------
(* Operations                                                               *)

Ops == Executables \cup Errors

\* What an operation says depends on the layer and the kind.
LEMMA OpShape ==
  ASSUME NEW op \in Ops
  PROVE  /\ op.kind \in Kinds /\ op.key \in Keys /\ op.id \in Ids0
         /\ op.kind = "error" <=> op \in Errors
         /\ op \in Executables /\ op.key \in HacsIds =>
              /\ op.kind \in {"create", "update"} /\ op.id \in Repos
              /\ op.kind = "create" => op.value \in HacsItems
         /\ op \in Executables /\ op.key \in Ints =>
              /\ op.kind \in {"create", "update", "delete", "forget"}
              /\ op.kind \in {"create", "update"} => op.item \in IntItems /\ op.value \in Sent
              /\ op.kind \in {"update", "delete", "forget"} => op.id \in EntryIds
         /\ op \in Executables /\ op.key \in Subs =>
              /\ op.kind \in {"create", "update", "unmanage"}
              /\ op.kind \in {"create", "update"} => op.item \in SubItems /\ op.item.parent \in EntryIds /\ op.value \in Sent
              /\ op.kind \in {"update", "unmanage"} => op.id \in SubIds
<1> USE IntegrationsAssumption DEF Keys, Ids, Ids0, Kinds
<1>1. CASE op \in HacsOps
  BY <1>1 DEF HacsOps, Errors, Executables
<1>2. CASE op \in IntOps
  BY <1>2 DEF IntOps, Errors, Executables
<1>3. CASE op \in SubOps
  <2>1. \A i \in SubItems : i.parent # None => i.parent \in EntryIds BY DEF SubItems
  <2> QED BY <1>3, <2>1 DEF SubOps, Errors, Executables
<1>4. CASE op \in Errors
  <2>1. op.kind = "error" /\ op.key \in Keys /\ op.id = None BY <1>4 DEF Errors
  <2>2. op \notin Executables BY <2>1 DEF Executables, HacsOps, IntOps, SubOps
  <2> QED BY <1>4, <2>1, <2>2
<1> QED BY <1>1, <1>2, <1>3, <1>4 DEF Ops, Executables

\* The fields of what is declared.
LEMMA ItemShape ==
  /\ \A i \in IntItems : i.domain \in Domains /\ i.title \in Titles /\ i.data \in Datas
  /\ \A i \in SubItems : i.domain \in Domains /\ i.type \in SubTypes /\ i.uid \in Uids \cup {None} /\ i.data \in Datas
  /\ \A i \in HacsItems : i.repo \in Repos /\ i.data \in Datas
BY DEF IntItems, SubItems, HacsItems

LEMMA EntryShape ==
  /\ \A e \in Entries : e.domain \in Domains /\ e.title \in Titles /\ e.data \in Sent \cup {Opaque}
  /\ \A d \in Domains, t \in Titles, v \in Sent \cup {Opaque} : [domain |-> d, title |-> t, data |-> v] \in Entries
  /\ \A e \in Entries, t \in Titles : [e EXCEPT !.title = t] \in Entries
  /\ \A e \in Entries, v \in Sent \cup {Opaque} : [e EXCEPT !.data = v] \in Entries
BY DEF Entries

LEMMA SubentryShape ==
  /\ \A x \in Subentries : x.entry \in EntryIds /\ x.type \in SubTypes /\ x.title \in Titles /\ x.data \in Sent \cup {Opaque}
  /\ \A e \in EntryIds, ty \in SubTypes, u \in Uids \cup {None}, t \in Titles, v \in Sent \cup {Opaque} :
       [entry |-> e, type |-> ty, uid |-> u, title |-> t, data |-> v] \in Subentries
  /\ \A x \in Subentries, v \in Sent \cup {Opaque} : [x EXCEPT !.data = v] \in Subentries
BY DEF Subentries

LEMMA JournalShape ==
  ASSUME NEW e \in Journals
  PROVE  /\ e.kind \in {"create", "update", "delete", "forget"} /\ e.key \in Ints /\ e.id \in EntryIds
         /\ e.data \in Datas \cup {None} /\ e.hash \in Sent \cup {None}
         /\ e.kind # "forget" => e.domain \in Domains /\ e.title \in Titles
BY DEF Journals

-----------------------------------------------------------------------------
(* Types                                                                    *)

\* What of the records changes at an item.
IdsOf(k) == IF k \in HacsIds THEN Repos ELSE IF k \in Ints THEN EntryIds ELSE SubIds

LEMMA RecordFields ==
  ASSUME NEW r, RecordOK(r)
  PROVE  /\ r.managed \in [Keys -> Ids0] /\ r.hash \in [Keys -> Sent \cup {None}] /\ r.data \in [Keys -> Datas \cup {None}]
         /\ r.attempts \in [Keys -> [hash : Sent \cup HacsItems, created : BOOLEAN] \cup {None}] /\ r.reminder \subseteq Domains
         /\ \A k \in Keys : r.managed[k] \in IdsOf(k) \cup {None} /\ (r.hash[k] # None => r.managed[k] # None)
BY IntegrationsAssumption DEF RecordOK, IdsOf, Keys

LEMMA RecordTyped ==
  ASSUME NEW m \in [Keys -> Ids0], NEW h \in [Keys -> Sent \cup {None}], NEW d \in [Keys -> Datas \cup {None}],
         NEW a \in [Keys -> [hash : Sent \cup HacsItems, created : BOOLEAN] \cup {None}], NEW rem \in SUBSET Domains,
         \A k \in Keys : m[k] \in IdsOf(k) \cup {None} /\ (h[k] # None => m[k] # None)
  PROVE  RecordOK([managed |-> m, hash |-> h, data |-> d, attempts |-> a, reminder |-> rem])
<1> DEFINE r == [managed |-> m, hash |-> h, data |-> d, attempts |-> a, reminder |-> rem]
<1>1. r \in [managed : [Keys -> Ids0], hash : [Keys -> Sent \cup {None}], data : [Keys -> Datas \cup {None}],
             attempts : [Keys -> [hash : Sent \cup HacsItems, created : BOOLEAN] \cup {None}], reminder : SUBSET Domains]
  OBVIOUS
<1>2. r.managed = m /\ r.hash = h OBVIOUS
<1> HIDE DEF r
<1>3. RecordOK(r) BY <1>1, <1>2, IntegrationsAssumption DEF RecordOK, IdsOf, Keys
<1> QED BY <1>3 DEF r

-----------------------------------------------------------------------------
(* Planners                                                                 *)

\* A layer's loop visits each of its items once.
LEMMA OrderFacts ==
  ASSUME NEW S \in SUBSET Keys
  PROVE  Visited(KeysOf(S), S) /\ Distinct(KeysOf(S))
<1>1. /\ KeyOrder \in Seq(Keys) /\ ToSet(KeyOrder) = Keys /\ DOMAIN KeyOrder = 1 .. Len(KeyOrder)
      /\ Distinct(KeyOrder)
  BY IntegrationsAssumption DEF Distinct
<1>2. KeysOf(S) \in Seq(Keys) /\ ToSet(KeysOf(S)) = S
  <2> DEFINE at == {n \in DOMAIN KeyOrder : KeyOrder[n] \in S}
  <2>1. /\ Select(KeyOrder, at) \in Seq(Keys)
        /\ ToSet(Select(KeyOrder, at)) = {KeyOrder[n] : n \in at \cap DOMAIN KeyOrder}
    BY <1>1, SelectMembers
  <2>2. {KeyOrder[n] : n \in at \cap DOMAIN KeyOrder} = S BY <1>1 DEF ToSet
  <2> QED BY <2>1, <2>2 DEF KeysOf
<1>3. Distinct(KeysOf(S)) BY ONLY <1>1, SelectDistinct DEF KeysOf
<1>4. {KeysOf(S)[n] : n \in 1 .. Len(KeysOf(S))} = S BY <1>2 DEF ToSet
<1>5. KeysOf(S) \in Seq(S)
  <2>1. DOMAIN KeysOf(S) = 1 .. Len(KeysOf(S)) /\ Len(KeysOf(S)) \in Nat BY <1>2
  <2>2. \A n \in 1 .. Len(KeysOf(S)) : KeysOf(S)[n] \in S BY <1>4
  <2> QED BY <1>2, <2>1, <2>2
<1> QED BY <1>3, <1>4, <1>5 DEF Visited

LEMMA ItemsTyped ==
  ASSUME TypeOK, Loaded
  PROVE  /\ \A h \in HacsIds : Declared(h) => desired[h] \in HacsItems
         /\ \A i \in Ints : Declared(i) => desired[i] \in IntItems
         /\ \A s \in Subs : Declared(s) => desired[s] \in SubItems
BY ManifestsAssumption DEF TypeOK, Loaded, Declared, Keys

LEMMA ResolveTyped ==
  ASSUME TypeOK, NEW d \in Datas \cup {None}
  PROVE  Resolve(d) \in Sent \cup {None} /\ (d # None /\ Resolve(d) # None => Resolve(d) \in Sent)
BY DEF TypeOK, Resolve, Sent

LEMMA SavedTyped ==
  ASSUME TypeOK
  PROVE  /\ \A h \in HacsIds : saved.managed[h] \in Repos \cup {None}
         /\ \A i \in Ints : saved.managed[i] \in EntryIds \cup {None}
         /\ \A s \in Subs : saved.managed[s] \in SubIds \cup {None}
         /\ \A e \in EntryIds : LiveEntry(e) => entries[e] \in Entries
         /\ \A x \in SubIds : LiveSub(x) => subs[x] \in Subentries
         /\ None \notin EntryIds /\ None \notin SubIds /\ None \notin Sent
BY IntegrationsAssumption DEF TypeOK, RecordOK, LiveEntry, LiveSub, Ids

\* What a planner yields for an item is about this item.
Of(k, kinds) == {op \in Ops : op.key = k /\ op.kind \in kinds}

LEMMA ErrorOf ==
  ASSUME NEW k \in Keys, NEW kinds
  PROVE  OneOf(<<Error(k)>>, Of(k, {"error"} \cup kinds))
<1>1. Error(k) \in Errors /\ Error(k).key = k /\ Error(k).kind = "error" BY DEF Error, Op, Errors
<1> QED BY <1>1 DEF OneOf, Of, Ops

LEMMA HacsPlanned ==
  ASSUME TypeOK, Loaded, NEW att, NEW h \in HacsIds
  PROVE  /\ OneOf(PlanHacsItem(att, h), Of(h, {"error", "create", "update"}))
         /\ Declared(h) /\ PlanHacsItem(att, h) = <<>> => InPlace(h, desired[h].repo)
<1>1. CASE ~Declared(h) \/ InPlace(h, desired[h].repo)
  BY <1>1 DEF PlanHacsItem, OneOf
<1>2. CASE Declared(h) /\ ~InPlace(h, desired[h].repo)
  <2>1. desired[h] \in HacsItems /\ desired[h].repo \in Repos BY <1>2, ItemsTyped, ItemShape
  <2>2. h \in Keys BY DEF Keys
  <2>3. OneOf(<<Error(h)>>, Of(h, {"error", "create", "update"})) BY <2>2, ErrorOf
  <2>4. OneOf(<<Op("update", h, desired[h].repo, desired[h], None)>>, Of(h, {"error", "create", "update"}))
    BY <2>1 DEF OneOf, Of, Ops, Executables, HacsOps, Op
  <2>5. OneOf(<<Op("create", h, desired[h].repo, desired[h], desired[h])>>, Of(h, {"error", "create", "update"}))
    BY <2>1 DEF OneOf, Of, Ops, Executables, HacsOps, Op
  <2>6. PlanHacsItem(att, h) \in {<<Error(h)>>, <<Op("update", h, desired[h].repo, desired[h], None)>>,
                                  <<Op("create", h, desired[h].repo, desired[h], desired[h])>>}
    BY <1>2 DEF PlanHacsItem
  <2> QED BY <2>3, <2>4, <2>5, <2>6
<1> QED BY <1>1, <1>2

LEMMA ClaimedTyped ==
  ASSUME TypeOK
  PROVE  /\ Claimed0 \in SUBSET EntryIds /\ \A i \in Ints : Declared(i) /\ saved.managed[i] # None => saved.managed[i] \in Claimed0
         /\ SubClaims \in SUBSET SubIds /\ \A s \in Subs : Declared(s) /\ saved.managed[s] # None => saved.managed[s] \in SubClaims
BY SavedTyped DEF Claimed0, SubClaims

\* A set of one thing has it.
LEMMA OneIsIn ==
  ASSUME NEW S, Cardinality(S) = 1
  PROVE  (CHOOSE e \in S : TRUE) \in S
<1>1. S # {} BY FS_EmptySet
<1> QED BY <1>1

LEMMA AdoptedOne ==
  /\ Adopted(<<>>) = {}
  /\ \A op : op.kind = "update" => Adopted(<<op>>) = {op.id}
  /\ \A op : op.kind # "update" => Adopted(<<op>>) = {}
<1>1. ToSet(<<>>) = {} /\ \A op : ToSet(<<op>>) = {op} BY OfOne
<1>2. Adopted(<<>>) = {} BY <1>1 DEF Adopted
<1>3. ASSUME NEW op PROVE /\ op.kind = "update" => Adopted(<<op>>) = {op.id}
                          /\ op.kind # "update" => Adopted(<<op>>) = {}
  <2>1. ToSet(<<op>>) = {op} BY <1>1
  <2> QED BY <2>1 DEF Adopted
<1> QED BY <1>2, <1>3

\* A flow is driven, or an entry adopted, for an item without a live one; a
\* live one is what is deleted or let go.
FitsNow(op) ==
  /\ op.kind \in {"create", "update"} => ~LiveEntry(saved.managed[op.key])
  /\ op.kind \in {"delete", "forget"} => op.id = saved.managed[op.key] /\ LiveEntry(op.id)

\* What an integration adopts is live, of its domain and title, and claimed
\* by nobody.
LEMMA IntPlanned ==
  ASSUME TypeOK, Loaded, NEW att, NEW claimed \in SUBSET EntryIds, NEW i \in Ints
  PROVE  /\ OneOf(PlanInt(att, claimed, i), Of(i, {"error", "create", "update"}))
         /\ Adopted(PlanInt(att, claimed, i)) \subseteq EntryIds \ claimed
         /\ Declared(i) /\ PlanInt(att, claimed, i) = <<>> =>
              LiveEntry(saved.managed[i]) /\ saved.hash[i] \in {None, Resolve(desired[i].data)}
         /\ \A op \in ToSet(PlanInt(att, claimed, i)) : FitsNow(op)
<1> DEFINE value == Resolve(desired[i].data)
           found == Candidates(claimed, i)
           one == CHOOSE e \in found : TRUE
           adopt == Op("update", i, one, desired[i], value)
           create == Op("create", i, None, desired[i], value)
<1>1. CASE ~Declared(i)
  <2>1. PlanInt(att, claimed, i) = <<>> BY <1>1 DEF PlanInt
  <2>2. Adopted(<<>>) = {} /\ ToSet(<<>>) = {} BY AdoptedOne, OfOne
  <2> QED BY <1>1, <2>1, <2>2 DEF OneOf
<1>2. CASE Declared(i)
  <2>1. desired[i] \in IntItems /\ value \in Sent \cup {None} BY <1>2, ItemsTyped, ItemShape, ResolveTyped
  <2>2. found \subseteq EntryIds \ claimed BY DEF Candidates
  <2>3. i \in Keys BY DEF Keys
  <2>4. \/ PlanInt(att, claimed, i) = <<Error(i)>>
        \/ /\ PlanInt(att, claimed, i) = <<>> /\ LiveEntry(saved.managed[i]) /\ saved.hash[i] \in {None, value}
        \/ PlanInt(att, claimed, i) = <<adopt>> /\ Cardinality(found) = 1 /\ value # None /\ ~LiveEntry(saved.managed[i])
        \/ PlanInt(att, claimed, i) = <<create>> /\ value # None /\ ~LiveEntry(saved.managed[i])
    BY <1>2 DEF PlanInt
  <2>5. Error(i).kind = "error" /\ Adopted(<<Error(i)>>) = {} BY AdoptedOne DEF Error, Op
  <2>6. Adopted(<<>>) = {} BY AdoptedOne
  <2>7. Adopted(<<create>>) = {} BY AdoptedOne DEF Op
  <2>8. Adopted(<<adopt>>) = {one} BY AdoptedOne DEF Op
  <2> HIDE DEF found, value
  <2>9. value # None => create \in Of(i, {"error", "create", "update"})
    BY <2>1 DEF Of, Ops, Executables, IntOps, Op
  <2>10. value # None /\ one \in EntryIds => adopt \in Of(i, {"error", "create", "update"})
    BY <2>1 DEF Of, Ops, Executables, IntOps, Op
  <2>11. Cardinality(found) = 1 => one \in found BY OneIsIn
  <2>18. /\ FitsNow(Error(i)) /\ (~LiveEntry(saved.managed[i]) => FitsNow(adopt) /\ FitsNow(create))
         /\ ToSet(<<>>) = {} /\ \A x : ToSet(<<x>>) = {x}
    BY OfOne DEF FitsNow, Op, Error
  <2> HIDE DEF adopt, create, one
  <2>12. OneOf(<<Error(i)>>, Of(i, {"error", "create", "update"})) BY <2>3, ErrorOf
  <2>13. \A x : <<x>> # <<>> OBVIOUS
  <2>14. CASE PlanInt(att, claimed, i) = <<adopt>> /\ Cardinality(found) = 1 /\ value # None /\ ~LiveEntry(saved.managed[i])
    BY <2>14, <2>2, <2>8, <2>10, <2>11, <2>13, <2>18 DEF OneOf
  <2>15. CASE PlanInt(att, claimed, i) = <<create>> /\ value # None /\ ~LiveEntry(saved.managed[i])
    BY <2>15, <2>7, <2>9, <2>13, <2>18 DEF OneOf
  <2>16. CASE PlanInt(att, claimed, i) = <<Error(i)>>
    BY <2>16, <2>5, <2>12, <2>13, <2>18
  <2>17. CASE /\ PlanInt(att, claimed, i) = <<>> /\ LiveEntry(saved.managed[i]) /\ saved.hash[i] \in {None, value}
    BY <2>17, <2>6, <2>18 DEF OneOf, value
  <2> QED BY <2>4, <2>14, <2>15, <2>16, <2>17
<1> QED BY <1>1, <1>2

LEMMA SubPlanned ==
  ASSUME TypeOK, Loaded, NEW att, NEW claimed \in SUBSET SubIds, NEW s \in Subs
  PROVE  /\ OneOf(PlanSub(att, claimed, s), Of(s, {"error", "create", "update"}))
         /\ Adopted(PlanSub(att, claimed, s)) \subseteq SubIds
         /\ \A x \in Adopted(PlanSub(att, claimed, s)) : Declared(s) /\ (x \notin claimed \/ x = saved.managed[s])
<1> DEFINE value == Resolve(desired[s].data)
           id == saved.managed[s]
           parents == Parents(s)
           parent == CHOOSE e \in parents : TRUE
           found == Matches(claimed, parent, s)
           one == CHOOSE x \in found : TRUE
           renew == Op("update", s, id, [desired[s] EXCEPT !.parent = subs[id].entry], value)
           adopt == Op("update", s, one, [desired[s] EXCEPT !.parent = parent], value)
           create == Op("create", s, None, [desired[s] EXCEPT !.parent = parent], value)
           Kind3 == {"error", "create", "update"}
<1>1. CASE ~Declared(s)
  <2>1. PlanSub(att, claimed, s) = <<>> BY <1>1 DEF PlanSub
  <2>2. Adopted(<<>>) = {} BY AdoptedOne
  <2> QED BY <1>1, <2>1, <2>2 DEF OneOf
<1>2. CASE Declared(s)
  <2>1. desired[s] \in SubItems /\ value \in Sent \cup {None} BY <1>2, ItemsTyped, ItemShape, ResolveTyped
  <2>2. found \subseteq SubIds \ claimed BY DEF Matches, ByUid, Under
  <2>3. parents \subseteq EntryIds BY DEF Parents
  <2>4. s \in Keys BY DEF Keys
  <2>5. id # None /\ Listed(id) => id \in SubIds /\ subs[id] \in Subentries /\ subs[id].entry \in EntryIds
    BY SavedTyped, SubentryShape DEF Listed
  <2>6. \/ PlanSub(att, claimed, s) = <<Error(s)>>
        \/ PlanSub(att, claimed, s) = <<>> /\ id # None /\ Listed(id) /\ saved.hash[s] = value
        \/ PlanSub(att, claimed, s) = <<renew>> /\ id # None /\ Listed(id) /\ value # None
        \/ PlanSub(att, claimed, s) = <<adopt>> /\ Cardinality(parents) = 1 /\ found # {} /\ value # None
        \/ PlanSub(att, claimed, s) = <<create>> /\ Cardinality(parents) = 1 /\ value # None
    BY <1>2 DEF PlanSub
  <2>7. \A e \in EntryIds : [desired[s] EXCEPT !.parent = e] \in {i \in SubItems : i.parent # None}
    BY <2>1, SavedTyped DEF SubItems
  <2>8. Adopted(<<Error(s)>>) = {} BY AdoptedOne DEF Error, Op
  <2>9. Adopted(<<>>) = {} BY AdoptedOne
  <2>10. Adopted(<<create>>) = {} BY AdoptedOne DEF Op
  <2>11. Adopted(<<adopt>>) = {one} BY AdoptedOne DEF Op
  <2>12. Adopted(<<renew>>) = {id} BY AdoptedOne DEF Op
  <2> HIDE DEF found, value, parents
  <2>13. Cardinality(parents) = 1 => parent \in EntryIds BY <2>3, OneIsIn
  <2>14. found # {} => one \in found OBVIOUS
  <2> HIDE DEF parent, one
  <2>15. value # None /\ parent \in EntryIds => create \in Of(s, Kind3)
    BY <2>1, <2>7 DEF Of, Ops, Executables, SubOps, Op
  <2>16. value # None /\ parent \in EntryIds /\ one \in SubIds => adopt \in Of(s, Kind3)
    BY <2>1, <2>7 DEF Of, Ops, Executables, SubOps, Op
  <2>17. value # None /\ id \in SubIds /\ subs[id].entry \in EntryIds => renew \in Of(s, Kind3)
    BY <2>1, <2>7 DEF Of, Ops, Executables, SubOps, Op
  <2> HIDE DEF adopt, create, renew
  <2>18. OneOf(<<Error(s)>>, Of(s, Kind3)) BY <2>4, ErrorOf
  <2>19. \A x : <<x>> # <<>> OBVIOUS
  <2>20. CASE PlanSub(att, claimed, s) = <<adopt>> /\ Cardinality(parents) = 1 /\ found # {} /\ value # None
    BY <1>2, <2>20, <2>2, <2>11, <2>13, <2>14, <2>16, <2>19 DEF OneOf
  <2>21. CASE PlanSub(att, claimed, s) = <<create>> /\ Cardinality(parents) = 1 /\ value # None
    BY <2>21, <2>10, <2>13, <2>15, <2>19 DEF OneOf
  <2>22. CASE PlanSub(att, claimed, s) = <<renew>> /\ id # None /\ Listed(id) /\ value # None
    BY <1>2, <2>22, <2>5, <2>12, <2>17, <2>19 DEF OneOf
  <2>23. CASE PlanSub(att, claimed, s) = <<Error(s)>>
    BY <2>23, <2>8, <2>18, <2>19
  <2>24. CASE PlanSub(att, claimed, s) = <<>> /\ id # None /\ Listed(id) /\ saved.hash[s] = value
    BY <2>24, <2>9 DEF OneOf
  <2> QED BY <2>6, <2>20, <2>21, <2>22, <2>23, <2>24
<1> QED BY <1>1, <1>2

LEMMA SubSilent ==
  ASSUME NEW att, NEW claimed, NEW s, Declared(s), PlanSub(att, claimed, s) = <<>>
  PROVE  LiveSub(saved.managed[s]) /\ saved.hash[s] = Resolve(desired[s].data)
BY DEF PlanSub, Listed

\* The loops of the two planners that hand the claims from item to item.
IntLoop(att, f) ==
  f = [n \in 0 .. Len(IntOrder) |-> IF n = 0 THEN Claimed0 ELSE f[n - 1] \cup Adopted(PlanInt(att, f[n - 1], IntOrder[n]))]
SubLoop(att, f) ==
  f = [n \in 0 .. Len(SubOrder) |-> IF n = 0 THEN SubClaims ELSE f[n - 1] \cup Adopted(PlanSub(att, f[n - 1], SubOrder[n]))]

LEMMA IntClaimsGrow ==
  ASSUME TypeOK, Loaded, NEW att
  PROVE  LET C == IntClaims(att)  N == Len(IntOrder) IN
           /\ N \in Nat /\ \A n \in 0 .. N : C[n] \in SUBSET EntryIds
           /\ C[0] = Claimed0 /\ \A n \in 1 .. N : C[n] = C[n - 1] \cup Adopted(PlanInt(att, C[n - 1], IntOrder[n]))
           /\ \A m, n \in 0 .. N : m <= n => C[m] \subseteq C[n]
<1> DEFINE N == Len(IntOrder)
           X == SUBSET EntryIds
           step == [p \in (1 .. N) \X X |-> p[2] \cup Adopted(PlanInt(att, p[2], IntOrder[p[1]]))]
           C == IntClaims(att)
<1>1. N \in Nat /\ \A n \in 1 .. N : IntOrder[n] \in Ints BY OrderFacts DEF IntOrder, Visited, Keys
<1>2. \A n \in 1 .. N, c \in X : c \cup Adopted(PlanInt(att, c, IntOrder[n])) \in X BY <1>1, IntPlanned
<1>3. step \in [(1 .. N) \X X -> X] /\ \A n \in 1 .. N, c \in X : step[<<n, c>>] = c \cup Adopted(PlanInt(att, c, IntOrder[n]))
  BY <1>2
<1>4. Claimed0 \in X BY ClaimedTyped
<1>0. N = Len(IntOrder) OBVIOUS
<1> HIDE DEF step, X, N
<1>5. PICK f : Carries(N, X, Claimed0, step, f)
  <2>1. N \in Nat BY <1>1
  <2>2. step \in [(1 .. N) \X X -> X] BY <1>3
  <2> QED BY ONLY <2>1, <2>2, <1>4, LoopExists, Zenon
<1>6. IntLoop(att, f)
  <2>0. f \in [0 .. N -> X] /\ f[0] = Claimed0 /\ \A n \in 1 .. N : f[n] = step[<<n, f[n - 1]>>] BY <1>5 DEF Carries
  <2>1. ASSUME NEW n \in 0 .. N
        PROVE  f[n] = IF n = 0 THEN Claimed0 ELSE f[n - 1] \cup Adopted(PlanInt(att, f[n - 1], IntOrder[n]))
    <3>1. CASE n = 0 BY <3>1, <2>0
    <3>2. CASE n # 0
      <4>1. n \in 1 .. N /\ n - 1 \in 0 .. N BY <1>1, <3>2
      <4>2. f[n - 1] \in X BY <2>0, <4>1
      <4> QED BY <3>2, <4>1, <4>2, <1>3, <2>0
    <3> QED BY <3>1, <3>2
  <2>2. f = [n \in 0 .. N |-> f[n]] BY <2>0
  <2> QED BY <1>0, <2>1, <2>2 DEF IntLoop
<1>7. C = CHOOSE g : IntLoop(att, g) BY DEF IntClaims, IntLoop
<1>8. IntLoop(att, C) BY <1>6, <1>7
<1> HIDE DEF C
<1>9. C[0] = Claimed0 /\ \A n \in 1 .. N : C[n] = C[n - 1] \cup Adopted(PlanInt(att, C[n - 1], IntOrder[n]))
  <2>1. \A n \in 0 .. N : C[n] = IF n = 0 THEN Claimed0 ELSE C[n - 1] \cup Adopted(PlanInt(att, C[n - 1], IntOrder[n]))
    BY <1>0, <1>8 DEF IntLoop
  <2>2. 0 \in 0 .. N /\ \A n \in 1 .. N : n \in 0 .. N /\ n # 0 BY <1>1
  <2> QED BY <2>1, <2>2
<1>10. \A n \in 1 .. N : C[n - 1] \in X => C[n] \in X BY <1>2, <1>9
<1>11. \A n \in 0 .. N : C[n] \in X BY ONLY <1>1, <1>4, <1>9, <1>10, LoopTyped
<1>12. \A n \in 1 .. N : C[n - 1] \subseteq C[n] BY <1>9
<1>13. \A m, n \in 0 .. N : m <= n => C[m] \subseteq C[n] BY ONLY <1>1, <1>12, LoopGrows
<1> QED BY <1>1, <1>9, <1>11, <1>13 DEF C, X, N

LEMMA SubClaimsGrow ==
  ASSUME TypeOK, Loaded, NEW att
  PROVE  LET C == SubClaimed(att)  N == Len(SubOrder) IN
           /\ N \in Nat /\ \A n \in 0 .. N : C[n] \in SUBSET SubIds
           /\ C[0] = SubClaims /\ \A n \in 1 .. N : C[n] = C[n - 1] \cup Adopted(PlanSub(att, C[n - 1], SubOrder[n]))
           /\ \A m, n \in 0 .. N : m <= n => C[m] \subseteq C[n]
<1> DEFINE N == Len(SubOrder)
           X == SUBSET SubIds
           step == [p \in (1 .. N) \X X |-> p[2] \cup Adopted(PlanSub(att, p[2], SubOrder[p[1]]))]
           C == SubClaimed(att)
<1>1. N \in Nat /\ \A n \in 1 .. N : SubOrder[n] \in Subs BY OrderFacts DEF SubOrder, Visited, Keys
<1>2. \A n \in 1 .. N, c \in X : c \cup Adopted(PlanSub(att, c, SubOrder[n])) \in X BY <1>1, SubPlanned
<1>3. step \in [(1 .. N) \X X -> X] /\ \A n \in 1 .. N, c \in X : step[<<n, c>>] = c \cup Adopted(PlanSub(att, c, SubOrder[n]))
  BY <1>2
<1>4. SubClaims \in X BY ClaimedTyped
<1>0. N = Len(SubOrder) OBVIOUS
<1> HIDE DEF step, X, N
<1>5. PICK f : Carries(N, X, SubClaims, step, f)
  <2>1. N \in Nat BY <1>1
  <2>2. step \in [(1 .. N) \X X -> X] BY <1>3
  <2> QED BY ONLY <2>1, <2>2, <1>4, LoopExists, Zenon
<1>6. SubLoop(att, f)
  <2>0. f \in [0 .. N -> X] /\ f[0] = SubClaims /\ \A n \in 1 .. N : f[n] = step[<<n, f[n - 1]>>] BY <1>5 DEF Carries
  <2>1. ASSUME NEW n \in 0 .. N
        PROVE  f[n] = IF n = 0 THEN SubClaims ELSE f[n - 1] \cup Adopted(PlanSub(att, f[n - 1], SubOrder[n]))
    <3>1. CASE n = 0 BY <3>1, <2>0
    <3>2. CASE n # 0
      <4>1. n \in 1 .. N /\ n - 1 \in 0 .. N BY <1>1, <3>2
      <4>2. f[n - 1] \in X BY <2>0, <4>1
      <4> QED BY <3>2, <4>1, <4>2, <1>3, <2>0
    <3> QED BY <3>1, <3>2
  <2>2. f = [n \in 0 .. N |-> f[n]] BY <2>0
  <2> QED BY <1>0, <2>1, <2>2 DEF SubLoop
<1>7. C = CHOOSE g : SubLoop(att, g) BY DEF SubClaimed, SubLoop
<1>8. SubLoop(att, C) BY <1>6, <1>7
<1> HIDE DEF C
<1>9. C[0] = SubClaims /\ \A n \in 1 .. N : C[n] = C[n - 1] \cup Adopted(PlanSub(att, C[n - 1], SubOrder[n]))
  <2>1. \A n \in 0 .. N : C[n] = IF n = 0 THEN SubClaims ELSE C[n - 1] \cup Adopted(PlanSub(att, C[n - 1], SubOrder[n]))
    BY <1>0, <1>8 DEF SubLoop
  <2>2. 0 \in 0 .. N /\ \A n \in 1 .. N : n \in 0 .. N /\ n # 0 BY <1>1
  <2> QED BY <2>1, <2>2
<1>10. \A n \in 1 .. N : C[n - 1] \in X => C[n] \in X BY <1>2, <1>9
<1>11. \A n \in 0 .. N : C[n] \in X BY ONLY <1>1, <1>4, <1>9, <1>10, LoopTyped
<1>12. \A n \in 1 .. N : C[n - 1] \subseteq C[n] BY <1>9
<1>13. \A m, n \in 0 .. N : m <= n => C[m] \subseteq C[n] BY ONLY <1>1, <1>12, LoopGrows
<1> QED BY <1>1, <1>9, <1>11, <1>13 DEF C, X, N

\* A plan has one operation for an item, layer by layer; entries are made and
\* adopted before any is let go.
Rank(op) ==
  IF op.key \in HacsIds THEN 1
  ELSE IF op.key \in Subs THEN 4
  ELSE IF op.kind \in {"delete", "forget"} THEN 3 ELSE 2
Planned == {pair \in Ops \X Ops : pair[1].key # pair[2].key /\ Rank(pair[1]) <= Rank(pair[2])}

\* Nobody can tell what is set up there.
Unknown(en, e) == Live0(en, e) => en[e].data = Opaque

\* An entry that is only let go has been adopted by another item, or will be.
Released(en, ops) ==
  \A f \in ToSet(ops) : f.kind = "forget" =>
    Unknown(en, f.id) \/ \E u \in ToSet(ops) : u.kind = "update" /\ u.key \in Ints /\ u.id = f.id

\* No two items are to get one subentry.
OneSub(ops, managed) ==
  \A u \in ToSet(ops) : u.kind = "update" /\ u.key \in Subs =>
    /\ \A s \in Subs \ {u.key} : managed[s] = u.id => \E d \in ToSet(ops) : d.kind = "unmanage" /\ d.key = s
    /\ \A v \in ToSet(ops) : v.kind = "update" /\ v.key \in Subs /\ v.id = u.id => v.key = u.key

\* Nothing is deleted that a declared item has or waits for.
Spares(op) ==
  \A i \in Ints : Declared(i) =>
    /\ saved.managed[i] # op.id
    /\ LiveEntry(saved.managed[i]) \/ ~LiveEntry(op.id) \/ desired[i].domain # entries[op.id].domain
         \/ desired[i].title # entries[op.id].title

Sound(ops) ==
  /\ ops \in Seq(Ops) /\ InOrder(ops, Planned) /\ Released(entries, ops) /\ OneSub(ops, saved.managed)
  /\ \A op \in ToSet(ops) : op.kind = "delete" => Spares(op)
  /\ \A op \in ToSet(ops) : op.key \in Ints => FitsNow(op)

\* Two records name one entry only when nobody can tell what is set up there,
\* and no two name one subentry.
Apart ==
  /\ \A i, j \in Ints : i # j /\ saved.managed[i] = saved.managed[j] /\ saved.managed[i] # None => Unknown(entries, saved.managed[i])
  /\ \A s, t \in Subs : s # t /\ saved.managed[s] = saved.managed[t] => saved.managed[s] = None

LEMMA OfTyped ==
  ASSUME NEW k, NEW kinds, NEW ops, OneOf(ops, Of(k, kinds))
  PROVE  OneOf(ops, Ops) /\ \A op \in ToSet(ops) : op \in Ops /\ op.key = k /\ op.kind \in kinds
<1>1. CASE ops = <<>> BY <1>1, OfOne DEF OneOf
<1>2. CASE ops # <<>>
  <2>1. PICK op \in Of(k, kinds) : ops = <<op>> BY <1>2 DEF OneOf
  <2>2. ToSet(<<op>>) = {op} BY OfOne
  <2>3. op \in Ops /\ op.key = k /\ op.kind \in kinds BY <2>1 DEF Of
  <2> QED BY <2>1, <2>2, <2>3 DEF OneOf
<1> QED BY <1>1, <1>2

\* What a loop of one layer yields, when all of it has one rank.
LoopYields(ops, G, K, kinds, rank) ==
  /\ ops \in Seq(Ops) /\ InOrder(ops, Planned)
  /\ \A op : op \in ToSet(ops) <=> \E k \in K : op \in ToSet(G[k])
  /\ \A op \in ToSet(ops) : op \in Ops /\ op.key \in K /\ op.kind \in kinds /\ Rank(op) = rank /\ op \in ToSet(G[op.key])

LEMMA LoopSound ==
  ASSUME NEW K \in SUBSET Keys, NEW seq, Visited(seq, K), Distinct(seq), NEW G, NEW kinds, NEW rank \in Nat,
         \A k \in K : OneOf(G[k], Of(k, kinds)),
         \A op \in Ops : op.key \in K /\ op.kind \in kinds => Rank(op) = rank
  PROVE  LoopYields(FlattenSeq(Each(seq, G)), G, K, kinds, rank)
<1>1. Yields(G, K, Ops) BY OfTyped DEF Yields
<1>2. \A k \in K : \A op \in ToSet(G[k]) : op \in Ops /\ op.key = k /\ op.kind \in kinds BY OfTyped
<1>3. FlattenSeq(Each(seq, G)) \in Seq(Ops) /\ ToSet(FlattenSeq(Each(seq, G))) = Collected(G, K)
  BY <1>1, Concatenated
<1>4. \A k, l \in K : k # l => \A x \in ToSet(G[k]), y \in ToSet(G[l]) : <<x, y>> \in Planned
  BY <1>2 DEF Planned
<1>5. InOrder(FlattenSeq(Each(seq, G)), Planned) BY <1>1, <1>4, EachInOrder
<1>6. \A op : op \in Collected(G, K) <=> \E k \in K : op \in ToSet(G[k]) BY DEF Collected
<1>7. \A op \in ToSet(FlattenSeq(Each(seq, G))) :
        op \in Ops /\ op.key \in K /\ op.kind \in kinds /\ Rank(op) = rank /\ op \in ToSet(G[op.key])
  BY <1>2, <1>3, <1>6
<1> QED BY <1>3, <1>5, <1>6, <1>7 DEF LoopYields

\* Plans one after the other.
LEMMA JoinInOrder ==
  ASSUME NEW s \in Seq(Ops), NEW t \in Seq(Ops), InOrder(s, Planned), InOrder(t, Planned),
         \A x \in ToSet(s), y \in ToSet(t) : x.key # y.key /\ Rank(x) <= Rank(y)
  PROVE  s \o t \in Seq(Ops) /\ InOrder(s \o t, Planned) /\ ToSet(s \o t) = ToSet(s) \cup ToSet(t)
<1>1. ToSet(s) \subseteq Ops /\ ToSet(t) \subseteq Ops BY ElementsTyped
<1>2. \A x \in ToSet(s), y \in ToSet(t) : <<x, y>> \in Planned BY <1>1 DEF Planned
<1>3. InOrder(s \o t, Planned) BY <1>2, ConcatInOrder
<1> QED BY <1>3, ConcatMembers

LEMMA HacsFacts ==
  ASSUME TypeOK, Loaded, NEW att
  PROVE  LET ops == PlanHacs(att) IN
           /\ ops \in Seq(Ops) /\ InOrder(ops, Planned)
           /\ \A op \in ToSet(ops) : op.key \in HacsIds /\ op.kind \in {"error", "create", "update"} /\ Rank(op) = 1
           /\ \A h \in HacsIds : Declared(h) /\ (\A op \in ToSet(ops) : op.key # h) => InPlace(h, desired[h].repo)
<1> DEFINE G == [h \in HacsIds |-> PlanHacsItem(att, h)]
           kinds == {"error", "create", "update"}
<1>1. Visited(HacsOrder, HacsIds) /\ Distinct(HacsOrder) BY OrderFacts DEF HacsOrder, Keys
<1>2. \A h \in HacsIds : G[h] = PlanHacsItem(att, h) OBVIOUS
<1>3. \A h \in HacsIds : OneOf(G[h], Of(h, kinds)) BY <1>2, HacsPlanned
<1>4. PlanHacs(att) = FlattenSeq(Each(HacsOrder, G))
  <2>1. DOMAIN HacsOrder = 1 .. Len(HacsOrder) /\ \A n \in DOMAIN HacsOrder : HacsOrder[n] \in HacsIds BY <1>1 DEF Visited
  <2>2. [n \in DOMAIN HacsOrder |-> PlanHacsItem(att, HacsOrder[n])] = Each(HacsOrder, G) BY <1>2, <2>1 DEF Each
  <2> QED BY <2>2 DEF PlanHacs, Over
<1>5. \A op \in Ops : op.key \in HacsIds /\ op.kind \in kinds => Rank(op) = 1 BY DEF Rank
<1>6. HacsIds \in SUBSET Keys BY DEF Keys
<1> HIDE DEF G, kinds
<1>7. /\ PlanHacs(att) \in Seq(Ops) /\ InOrder(PlanHacs(att), Planned)
      /\ \A op : op \in ToSet(PlanHacs(att)) <=> \E h \in HacsIds : op \in ToSet(G[h])
      /\ \A op \in ToSet(PlanHacs(att)) : op.key \in HacsIds /\ op.kind \in kinds /\ Rank(op) = 1
  <2>1. 1 \in Nat OBVIOUS
  <2>2. LoopYields(FlattenSeq(Each(HacsOrder, G)), G, HacsIds, kinds, 1) BY ONLY <2>1, <1>1, <1>3, <1>5, <1>6, LoopSound
  <2> QED BY ONLY <2>2, <1>4 DEF LoopYields
<1>8. ASSUME NEW h \in HacsIds, Declared(h), \A op \in ToSet(PlanHacs(att)) : op.key # h
      PROVE  InPlace(h, desired[h].repo)
  <2>1. ToSet(G[h]) = {} BY <1>3, <1>7, <1>8, OfTyped
  <2>2. G[h] = <<>> BY <1>3, <2>1, OfOne DEF OneOf
  <2> QED BY <1>2, <1>8, <2>2, HacsPlanned
<1> QED BY <1>7, <1>8 DEF kinds

\* Which operations an integration has: before the layer lets go of anything,
\* and then.
IntG(att, i) == PlanInt(att, IntClaims(att)[Place(IntOrder, i) - 1], i)
IntD(att, i) == PlanIntDelete(IntClaims(att)[Len(IntOrder)], Contested(IntClaims(att)), i)

LEMMA IntDropped ==
  ASSUME TypeOK, NEW claimed, NEW contested, NEW i \in Ints
  PROVE  LET ops == PlanIntDelete(claimed, contested, i) IN
           /\ OneOf(ops, Of(i, {"delete", "forget"})) /\ (Declared(i) => ops = <<>>)
           /\ \A op \in ToSet(ops) : /\ op.id = saved.managed[i] /\ LiveEntry(op.id)
                                     /\ op.kind = "forget" => op.id \in claimed
                                     /\ op.kind = "delete" => op.id \notin claimed /\ op.id \notin contested
<1> DEFINE ops == PlanIntDelete(claimed, contested, i)
           id == saved.managed[i]
           kind == IF id \in claimed THEN "forget" ELSE "delete"
<1>1. CASE Declared(i) \/ ~LiveEntry(id) \/ id \in contested \ claimed
  <2>1. ops = <<>> BY <1>1 DEF PlanIntDelete
  <2> QED BY <2>1, OfOne DEF OneOf
<1>2. CASE ~(Declared(i) \/ ~LiveEntry(id) \/ id \in contested \ claimed)
  <2>1. ops = <<Op(kind, i, id, NoItem, None)>> BY <1>2 DEF PlanIntDelete
  <2>2. id \in EntryIds BY <1>2, SavedTyped DEF LiveEntry
  <2>3. Op(kind, i, id, NoItem, None) \in Of(i, {"delete", "forget"})
    BY <2>2 DEF Op, Of, Ops, Executables, IntOps, Keys
  <2>4. ToSet(ops) = {Op(kind, i, id, NoItem, None)} BY <2>1, OfOne
  <2>5. Op(kind, i, id, NoItem, None).id = id /\ Op(kind, i, id, NoItem, None).kind = kind BY DEF Op
  <2> QED BY <1>2, <2>1, <2>3, <2>4, <2>5 DEF OneOf
<1> QED BY <1>1, <1>2

LEMMA IntsFacts ==
  ASSUME TypeOK, Loaded, Apart, NEW att
  PROVE  LET ops == PlanInts(att) IN
           /\ ops \in Seq(Ops) /\ InOrder(ops, Planned) /\ Released(entries, ops)
           /\ \A op \in ToSet(ops) : op.key \in Ints /\ Rank(op) \in {2, 3} /\ (op.kind = "delete" => Spares(op)) /\ FitsNow(op)
           /\ \A i \in Ints : Declared(i) /\ (\A op \in ToSet(ops) : op.key # i) =>
                LiveEntry(saved.managed[i]) /\ saved.hash[i] \in {None, Resolve(desired[i].data)}
<1> DEFINE N == Len(IntOrder)
           C == IntClaims(att)
           G == [i \in Ints |-> IntG(att, i)]
           D == [i \in Ints |-> IntD(att, i)]
           KG == {"error", "create", "update"}
           KD == {"delete", "forget"}
           first == FlattenSeq(Each(IntOrder, G))
           second == FlattenSeq(Each(IntOrder, D))
<1>1. Visited(IntOrder, Ints) /\ Distinct(IntOrder) BY OrderFacts DEF IntOrder, Keys
<1>2. /\ N \in Nat /\ \A n \in 0 .. N : C[n] \in SUBSET EntryIds
      /\ C[0] = Claimed0 /\ \A n \in 1 .. N : C[n] = C[n - 1] \cup Adopted(PlanInt(att, C[n - 1], IntOrder[n]))
      /\ \A m, n \in 0 .. N : m <= n => C[m] \subseteq C[n]
  BY IntClaimsGrow
<1>3. /\ \A i \in Ints : Place(IntOrder, i) \in 1 .. N /\ IntOrder[Place(IntOrder, i)] = i
      /\ \A n \in 1 .. N : IntOrder[n] \in Ints /\ Place(IntOrder, IntOrder[n]) = n
  BY <1>1, PlaceFacts
<1>4. /\ \A i \in Ints : G[i] = PlanInt(att, C[Place(IntOrder, i) - 1], i)
      /\ \A i \in Ints : D[i] = PlanIntDelete(C[N], Contested(C), i)
      /\ \A i \in Ints : Place(IntOrder, i) - 1 \in 0 .. N /\ C[Place(IntOrder, i) - 1] \in SUBSET EntryIds
  BY <1>2, <1>3 DEF IntG, IntD
<1>5. PlanInts(att) = first \o second
  <2>1. DOMAIN IntOrder = 1 .. N BY <1>1 DEF Visited
  <2>2. [n \in DOMAIN IntOrder |-> PlanInt(att, C[n - 1], IntOrder[n])] = Each(IntOrder, G) BY <1>3, <1>4, <2>1 DEF Each
  <2>3. [n \in DOMAIN IntOrder |-> PlanIntDelete(C[N], Contested(C), IntOrder[n])] = Each(IntOrder, D)
    BY <1>3, <1>4, <2>1 DEF Each
  <2> QED BY <2>2, <2>3 DEF PlanInts, Over
<1> HIDE DEF G, D, C, N
<1>6. \A i \in Ints : OneOf(G[i], Of(i, KG)) /\ OneOf(D[i], Of(i, KD)) /\ (Declared(i) => D[i] = <<>>)
                      /\ (~Declared(i) => G[i] = <<>>)
  <2>1. SUFFICES ASSUME NEW i \in Ints PROVE OneOf(G[i], Of(i, KG)) /\ OneOf(D[i], Of(i, KD)) /\ (Declared(i) => D[i] = <<>>)
                                             /\ (~Declared(i) => G[i] = <<>>)
    OBVIOUS
  <2>2. OneOf(G[i], Of(i, KG))
    <3>1. PICK c \in SUBSET EntryIds : G[i] = PlanInt(att, c, i) BY <1>4
    <3>2. OneOf(PlanInt(att, c, i), Of(i, KG)) BY IntPlanned
    <3> QED BY <3>1, <3>2
  <2>3. OneOf(D[i], Of(i, KD)) /\ (Declared(i) => D[i] = <<>>) BY <1>4, IntDropped
  <2>4. ~Declared(i) => G[i] = <<>> BY <1>4 DEF PlanInt
  <2> QED BY <2>2, <2>3, <2>4
<1>7. Ints \in SUBSET Keys /\ 2 \in Nat /\ 3 \in Nat BY DEF Keys
<1>8. LoopYields(first, G, Ints, KG, 2)
  <2>1. \A op \in Ops : op.key \in Ints /\ op.kind \in KG => Rank(op) = 2 BY IntegrationsAssumption DEF Rank
  <2>2. \A i \in Ints : OneOf(G[i], Of(i, KG)) BY <1>6
  <2> HIDE DEF KG
  <2> QED BY ONLY <1>1, <1>7, <2>1, <2>2, LoopSound
<1>9. LoopYields(second, D, Ints, KD, 3)
  <2>1. \A op \in Ops : op.key \in Ints /\ op.kind \in KD => Rank(op) = 3 BY IntegrationsAssumption DEF Rank
  <2>2. \A i \in Ints : OneOf(D[i], Of(i, KD)) BY <1>6
  <2> HIDE DEF KD
  <2> QED BY ONLY <1>1, <1>7, <2>1, <2>2, LoopSound
<1> HIDE DEF first, second
<1>10. ToSet(<<>>) = {} BY OfOne
<1>11. /\ first \o second \in Seq(Ops) /\ InOrder(first \o second, Planned)
       /\ ToSet(first \o second) = ToSet(first) \cup ToSet(second)
  <2>1. \A x \in ToSet(first), y \in ToSet(second) : x.key # y.key /\ Rank(x) <= Rank(y)
    BY <1>6, <1>8, <1>9, <1>10 DEF LoopYields
  <2> QED BY <1>8, <1>9, <2>1, JoinInOrder DEF LoopYields
<1>12. \A u \in ToSet(second) : /\ ~Declared(u.key) /\ u.id = saved.managed[u.key] /\ LiveEntry(u.id) /\ u.key \in Ints
                                /\ u.kind = "forget" => u.id \in C[N]
                                /\ u.kind = "delete" => u.id \notin C[N] /\ u.id \notin Contested(C)
  <2>1. SUFFICES ASSUME NEW u \in ToSet(second)
                 PROVE  /\ ~Declared(u.key) /\ u.id = saved.managed[u.key] /\ LiveEntry(u.id) /\ u.key \in Ints
                        /\ u.kind = "forget" => u.id \in C[N]
                        /\ u.kind = "delete" => u.id \notin C[N] /\ u.id \notin Contested(C)
    OBVIOUS
  <2>2. u.key \in Ints /\ u \in ToSet(D[u.key]) BY <1>9, <2>1 DEF LoopYields
  <2>3. D[u.key] = PlanIntDelete(C[N], Contested(C), u.key) BY <1>4, <2>2
  <2> QED BY <2>2, <2>3, <1>6, <1>10, IntDropped
\* What is claimed after the loop is declared items' or adopted in it.
<1>13. \A x \in C[N] : x \in Claimed0 \/ \E u \in ToSet(first) : u.kind = "update" /\ u.key \in Ints /\ u.id = x
  <2> DEFINE X == {S \in SUBSET EntryIds :
                     \A x \in S : x \in Claimed0 \/ \E u \in ToSet(first) : u.kind = "update" /\ u.key \in Ints /\ u.id = x}
  <2>1. C[0] \in X BY <1>2
  <2>2. ASSUME NEW n \in 1 .. N, C[n - 1] \in X PROVE C[n] \in X
    <3>1. n \in 0 .. N /\ C[n] \in SUBSET EntryIds /\ IntOrder[n] \in Ints BY <1>2, <1>3
    <3>2. C[n] = C[n - 1] \cup Adopted(G[IntOrder[n]]) BY <1>2, <1>3, <1>4, <2>2
    <3>3. ToSet(G[IntOrder[n]]) \subseteq ToSet(first) BY <1>8, <3>1 DEF LoopYields
    <3>4. \A x \in Adopted(G[IntOrder[n]]) : \E u \in ToSet(first) : u.kind = "update" /\ u.key \in Ints /\ u.id = x
      BY <1>8, <3>3 DEF Adopted, LoopYields
    <3> QED BY <2>2, <3>1, <3>2, <3>4
  <2> HIDE DEF X
  <2>3. \A n \in 0 .. N : C[n] \in X BY ONLY <1>2, <2>1, <2>2, LoopTyped
  <2> QED BY <1>2, <2>3 DEF X
<1>14. Released(entries, first \o second)
  <2>1. SUFFICES ASSUME NEW f \in ToSet(first \o second), f.kind = "forget"
                 PROVE  Unknown(entries, f.id) \/ \E u \in ToSet(first \o second) : u.kind = "update" /\ u.key \in Ints /\ u.id = f.id
    BY DEF Released
  <2>2. f \in ToSet(second) BY <1>8, <1>11, <2>1 DEF LoopYields
  <2>3. CASE f.id \in Claimed0
    <3>1. PICK j \in Ints : Declared(j) /\ saved.managed[j] = f.id /\ f.id # None BY <2>3 DEF Claimed0
    <3>2. f.key \in Ints /\ f.key # j /\ saved.managed[f.key] = f.id BY <1>12, <2>2, <3>1
    <3> QED BY <3>1, <3>2 DEF Apart
  <2>4. CASE \E u \in ToSet(first) : u.kind = "update" /\ u.key \in Ints /\ u.id = f.id BY <2>4, <1>11
  <2> QED BY <1>12, <1>13, <2>1, <2>2, <2>3, <2>4
<1>15. \A op \in ToSet(first \o second) : op.kind = "delete" => Spares(op)
  <2>1. SUFFICES ASSUME NEW op \in ToSet(first \o second), op.kind = "delete", NEW i \in Ints, Declared(i)
                 PROVE  /\ saved.managed[i] # op.id
                        /\ LiveEntry(saved.managed[i]) \/ ~LiveEntry(op.id) \/ desired[i].domain # entries[op.id].domain
                             \/ desired[i].title # entries[op.id].title
    BY DEF Spares
  <2>2. op \in ToSet(second) BY <1>8, <1>11, <2>1 DEF LoopYields
  <2>3. op.id \notin C[N] /\ op.id \notin Contested(C) /\ LiveEntry(op.id) /\ op.id \in EntryIds
    BY <1>12, <2>1, <2>2, SavedTyped DEF LiveEntry
  <2>4. 0 \in 0 .. N /\ N \in 0 .. N /\ C[0] \subseteq C[N] BY <1>2
  <2>5. saved.managed[i] # op.id BY <1>2, <2>1, <2>3, <2>4, ClaimedTyped DEF LiveEntry
  <2>6. CASE ~LiveEntry(saved.managed[i])
    <3> DEFINE n == Place(IntOrder, i)
    <3>0. DOMAIN IntOrder = 1 .. N BY <1>1 DEF Visited, N
    <3>1. n \in 1 .. N /\ IntOrder[n] = i /\ n \in DOMAIN IntOrder /\ n - 1 \in 0 .. N
      BY <1>2, <1>3, <3>0
    <3> HIDE DEF n
    <3>2. Waiting(IntOrder[n]) BY <2>1, <2>6, <3>1 DEF Waiting
    <3>3. Candidates(C[n - 1], IntOrder[n]) \subseteq Contested(C) BY <3>1, <3>2 DEF Contested
    <3>4. C[n - 1] \subseteq C[N] BY <1>2, <2>4, <3>1
    <3>5. op.id \notin Candidates(C[n - 1], i) /\ op.id \notin C[n - 1] BY <2>3, <3>1, <3>3, <3>4
    <3> QED BY <2>3, <2>5, <3>5 DEF Candidates
  <2> QED BY <2>5, <2>6
<1>16. ASSUME NEW i \in Ints, Declared(i), \A op \in ToSet(first \o second) : op.key # i
       PROVE  LiveEntry(saved.managed[i]) /\ saved.hash[i] \in {None, Resolve(desired[i].data)}
  <2>1. ToSet(G[i]) = {} BY <1>6, <1>8, <1>11, <1>16, OfTyped DEF LoopYields
  <2>2. G[i] = <<>> BY <1>6, <2>1, OfOne DEF OneOf
  <2>3. PICK c \in SUBSET EntryIds : G[i] = PlanInt(att, c, i) BY <1>4
  <2> QED BY <1>16, <2>2, <2>3, IntPlanned
<1>17. \A op \in ToSet(first \o second) : op.key \in Ints /\ Rank(op) \in {2, 3} BY <1>8, <1>9, <1>11 DEF LoopYields
<1>18. \A op \in ToSet(first \o second) : FitsNow(op)
  <2>1. ASSUME NEW op \in ToSet(first) PROVE FitsNow(op)
    <3>1. op.key \in Ints /\ op \in ToSet(G[op.key]) BY <1>8, <2>1 DEF LoopYields
    <3>2. PICK c \in SUBSET EntryIds : G[op.key] = PlanInt(att, c, op.key) BY <1>4, <3>1
    <3> QED BY <3>1, <3>2, IntPlanned
  <2>2. ASSUME NEW op \in ToSet(second) PROVE FitsNow(op)
    <3>1. op.kind \in {"delete", "forget"} BY <1>9, <2>2 DEF LoopYields
    <3>2. op.id = saved.managed[op.key] /\ LiveEntry(op.id) BY <1>12, <2>2
    <3> QED BY <3>1, <3>2 DEF FitsNow
  <2> QED BY <1>11, <2>1, <2>2
<1> QED BY <1>5, <1>11, <1>14, <1>15, <1>16, <1>17, <1>18

LEMMA SubsFacts ==
  ASSUME TypeOK, Loaded, Apart, NEW att
  PROVE  LET ops == PlanSubs(att) IN
           /\ ops \in Seq(Ops) /\ InOrder(ops, Planned) /\ OneSub(ops, saved.managed)
           /\ \A op \in ToSet(ops) : op.key \in Subs /\ Rank(op) = 4 /\ op.kind \in {"error", "create", "update", "unmanage"}
           /\ \A s \in Subs : Declared(s) /\ (\A op \in ToSet(ops) : op.key # s) =>
                LiveSub(saved.managed[s]) /\ saved.hash[s] = Resolve(desired[s].data)
<1> DEFINE N == Len(SubOrder)
           C == SubClaimed(att)
           G == [s \in Subs |-> PlanSub(att, C[Place(SubOrder, s) - 1], s)]
           D == [s \in Subs |-> PlanSubDrop(s)]
           KG == {"error", "create", "update"}
           KD == {"unmanage"}
           first == FlattenSeq(Each(SubOrder, G))
           second == FlattenSeq(Each(SubOrder, D))
<1>1. Visited(SubOrder, Subs) /\ Distinct(SubOrder) BY OrderFacts DEF SubOrder, Keys
<1>2. /\ N \in Nat /\ \A n \in 0 .. N : C[n] \in SUBSET SubIds
      /\ C[0] = SubClaims /\ \A n \in 1 .. N : C[n] = C[n - 1] \cup Adopted(PlanSub(att, C[n - 1], SubOrder[n]))
      /\ \A m, n \in 0 .. N : m <= n => C[m] \subseteq C[n]
  BY SubClaimsGrow
<1>3. /\ \A s \in Subs : Place(SubOrder, s) \in 1 .. N /\ SubOrder[Place(SubOrder, s)] = s
      /\ \A n \in 1 .. N : SubOrder[n] \in Subs /\ Place(SubOrder, SubOrder[n]) = n
  BY <1>1, PlaceFacts
<1>4. /\ \A s \in Subs : G[s] = PlanSub(att, C[Place(SubOrder, s) - 1], s) /\ D[s] = PlanSubDrop(s)
      /\ \A s \in Subs : Place(SubOrder, s) - 1 \in 0 .. N /\ C[Place(SubOrder, s) - 1] \in SUBSET SubIds
  BY <1>2, <1>3
<1>5. PlanSubs(att) = first \o second
  <2>1. DOMAIN SubOrder = 1 .. N BY <1>1 DEF Visited
  <2>2. [n \in DOMAIN SubOrder |-> PlanSub(att, C[n - 1], SubOrder[n])] = Each(SubOrder, G) BY <1>3, <1>4, <2>1 DEF Each
  <2>3. [n \in DOMAIN SubOrder |-> PlanSubDrop(SubOrder[n])] = Each(SubOrder, D) BY <1>3, <1>4, <2>1 DEF Each
  <2> QED BY <2>2, <2>3 DEF PlanSubs, Over
<1> HIDE DEF G, D, C, N
<1>6. \A s \in Subs : /\ OneOf(G[s], Of(s, KG)) /\ \A x \in Adopted(G[s]) :
                           Declared(s) /\ (x \notin C[Place(SubOrder, s) - 1] \/ x = saved.managed[s])
                      /\ Declared(s) /\ G[s] = <<>> => LiveSub(saved.managed[s]) /\ saved.hash[s] = Resolve(desired[s].data)
                      /\ ~Declared(s) => G[s] = <<>>
  <2>1. SUFFICES ASSUME NEW s \in Subs
                 PROVE  /\ OneOf(G[s], Of(s, KG)) /\ \A x \in Adopted(G[s]) :
                             Declared(s) /\ (x \notin C[Place(SubOrder, s) - 1] \/ x = saved.managed[s])
                        /\ Declared(s) /\ G[s] = <<>> => LiveSub(saved.managed[s]) /\ saved.hash[s] = Resolve(desired[s].data)
                        /\ ~Declared(s) => G[s] = <<>>
    OBVIOUS
  <2>2. PICK c \in SUBSET SubIds : c = C[Place(SubOrder, s) - 1] /\ G[s] = PlanSub(att, c, s) BY <1>4
  <2>3. OneOf(PlanSub(att, c, s), Of(s, KG)) BY SubPlanned
  <2>4. \A x \in Adopted(PlanSub(att, c, s)) : Declared(s) /\ (x \notin c \/ x = saved.managed[s]) BY SubPlanned
  <2>5. Declared(s) /\ PlanSub(att, c, s) = <<>> => LiveSub(saved.managed[s]) /\ saved.hash[s] = Resolve(desired[s].data)
    BY SubSilent
  <2>6. ~Declared(s) => PlanSub(att, c, s) = <<>> BY DEF PlanSub
  <2> QED BY <2>2, <2>3, <2>4, <2>5, <2>6
<1>7. ASSUME NEW s \in Subs
      PROVE  /\ OneOf(D[s], Of(s, KD)) /\ (Declared(s) => D[s] = <<>>)
             /\ ~Declared(s) /\ saved.managed[s] # None => \E d \in ToSet(D[s]) : d.kind = "unmanage" /\ d.key = s
  <2> DEFINE op == Op("unmanage", s, saved.managed[s], NoItem, None)
  <2>1. CASE Declared(s) \/ saved.managed[s] = None
    <3>1. D[s] = <<>> BY <2>1, <1>4 DEF PlanSubDrop
    <3> QED BY <2>1, <3>1 DEF OneOf
  <2>2. CASE ~(Declared(s) \/ saved.managed[s] = None)
    <3>1. D[s] = <<op>> BY <2>2, <1>4 DEF PlanSubDrop
    <3>2. saved.managed[s] \in SubIds BY <2>2, SavedTyped
    <3>3. op \in Of(s, KD) BY <3>2 DEF Op, Of, Ops, Executables, SubOps, Keys
    <3>4. ToSet(<<op>>) = {op} BY OfOne
    <3>5. op.kind = "unmanage" /\ op.key = s BY DEF Op
    <3> HIDE DEF op
    <3> QED BY <2>2, <3>1, <3>3, <3>4, <3>5 DEF OneOf
  <2> QED BY <2>1, <2>2
<1>8. Subs \in SUBSET Keys /\ 4 \in Nat BY DEF Keys
<1>9. LoopYields(first, G, Subs, KG, 4)
  <2>1. \A op \in Ops : op.key \in Subs /\ op.kind \in KG => Rank(op) = 4 BY IntegrationsAssumption DEF Rank
  <2>2. \A s \in Subs : OneOf(G[s], Of(s, KG)) BY <1>6
  <2> HIDE DEF KG
  <2> QED BY ONLY <1>1, <1>8, <2>1, <2>2, LoopSound
<1>10. LoopYields(second, D, Subs, KD, 4)
  <2>1. \A op \in Ops : op.key \in Subs /\ op.kind \in KD => Rank(op) = 4 BY IntegrationsAssumption DEF Rank
  <2>2. \A s \in Subs : OneOf(D[s], Of(s, KD)) BY <1>7
  <2> HIDE DEF KD
  <2> QED BY ONLY <1>1, <1>8, <2>1, <2>2, LoopSound
<1> HIDE DEF first, second
<1>11. ToSet(<<>>) = {} BY OfOne
<1>12. /\ first \o second \in Seq(Ops) /\ InOrder(first \o second, Planned)
       /\ ToSet(first \o second) = ToSet(first) \cup ToSet(second)
  <2>1. \A x \in ToSet(first), y \in ToSet(second) : x.key # y.key /\ Rank(x) <= Rank(y)
    BY <1>6, <1>7, <1>9, <1>10, <1>11 DEF LoopYields
  <2> QED BY <1>9, <1>10, <2>1, JoinInOrder DEF LoopYields
<1>13. \A u \in ToSet(first \o second) : u.kind = "update" /\ u.key \in Subs => u.id \in Adopted(G[u.key])
  BY <1>9, <1>10, <1>12 DEF Adopted, LoopYields
\* Nobody else's subentry is taken.
<1>14. \A s, t \in Subs : s # t /\ Declared(t) /\ saved.managed[t] # None => saved.managed[t] \notin Adopted(G[s])
  <2>1. SUFFICES ASSUME NEW s \in Subs, NEW t \in Subs, s # t, Declared(t), saved.managed[t] # None,
                        saved.managed[t] \in Adopted(G[s])
                 PROVE  FALSE
    OBVIOUS
  <2>2. saved.managed[t] \in SubClaims BY <2>1, ClaimedTyped
  <2>3. 0 \in 0 .. N /\ 0 <= Place(SubOrder, s) - 1 BY <1>2, <1>3, <1>4
  <2>4. saved.managed[t] \in C[Place(SubOrder, s) - 1] BY <1>2, <1>4, <2>2, <2>3
  <2>5. saved.managed[t] = saved.managed[s] BY <1>6, <2>1, <2>4
  <2> QED BY <2>1, <2>5 DEF Apart
<1>15. \A s, t \in Subs : Place(SubOrder, s) < Place(SubOrder, t) => Adopted(G[s]) \cap Adopted(G[t]) = {}
  <2>1. SUFFICES ASSUME NEW s \in Subs, NEW t \in Subs, Place(SubOrder, s) < Place(SubOrder, t),
                        NEW x \in Adopted(G[s]), x \in Adopted(G[t])
                 PROVE  FALSE
    OBVIOUS
  <2> DEFINE p == Place(SubOrder, s)
             q == Place(SubOrder, t)
  <2>2. p \in 1 .. N /\ q \in 1 .. N /\ SubOrder[p] = s /\ p \in 0 .. N /\ q - 1 \in 0 .. N /\ p <= q - 1 /\ s # t
    BY <1>2, <1>3, <2>1
  <2>3. C[p] = C[p - 1] \cup Adopted(G[s]) BY <1>2, <1>4, <2>2
  <2>4. x \in C[q - 1] BY <1>2, <2>1, <2>2, <2>3
  <2>5. x = saved.managed[t] /\ Declared(t) BY <1>6, <2>1, <2>4
  <2>6. x # None
    <3>1. C[p] \subseteq SubIds BY <1>2, <2>2
    <3> QED BY <2>1, <2>3, <3>1, SavedTyped
  <2> QED BY <1>14, <2>1, <2>2, <2>5, <2>6
<1>16. OneSub(first \o second, saved.managed)
  <2>1. SUFFICES ASSUME NEW u \in ToSet(first \o second), u.kind = "update", u.key \in Subs
                 PROVE  /\ \A s \in Subs \ {u.key} : saved.managed[s] = u.id =>
                             \E d \in ToSet(first \o second) : d.kind = "unmanage" /\ d.key = s
                        /\ \A v \in ToSet(first \o second) : v.kind = "update" /\ v.key \in Subs /\ v.id = u.id => v.key = u.key
    BY DEF OneSub
  <2>2. u.id \in Adopted(G[u.key]) BY <1>13, <2>1
  <2>3. ASSUME NEW s \in Subs \ {u.key}, saved.managed[s] = u.id
        PROVE  \E d \in ToSet(first \o second) : d.kind = "unmanage" /\ d.key = s
    <3>1. u.id # None
      <4>1. ToSet(first \o second) \subseteq Ops BY <1>12, ElementsTyped
      <4>2. u \in Executables BY <2>1, <4>1, OpShape DEF Ops
      <4> QED BY <2>1, <4>1, <4>2, OpShape, SavedTyped
    <3>2. ~Declared(s) BY <1>14, <2>1, <2>2, <2>3, <3>1
    <3>3. PICK d \in ToSet(D[s]) : d.kind = "unmanage" /\ d.key = s BY <1>7, <2>3, <3>1, <3>2
    <3> QED BY <1>10, <1>12, <2>3, <3>3 DEF LoopYields
  <2>4. ASSUME NEW v \in ToSet(first \o second), v.kind = "update", v.key \in Subs, v.id = u.id, v.key # u.key
        PROVE  FALSE
    <3>1. v.id \in Adopted(G[v.key]) BY <1>13, <2>4
    <3>2. Place(SubOrder, u.key) # Place(SubOrder, v.key) BY <1>3, <2>1, <2>4
    <3>3. Place(SubOrder, u.key) < Place(SubOrder, v.key) \/ Place(SubOrder, v.key) < Place(SubOrder, u.key)
      BY <1>2, <1>3, <2>1, <2>4, <3>2
    <3> QED BY <1>15, <2>1, <2>2, <2>4, <3>1, <3>3
  <2> QED BY <2>3, <2>4
<1>17. ASSUME NEW s \in Subs, Declared(s), \A op \in ToSet(first \o second) : op.key # s
       PROVE  LiveSub(saved.managed[s]) /\ saved.hash[s] = Resolve(desired[s].data)
  <2>1. ToSet(G[s]) = {} BY <1>6, <1>9, <1>12, <1>17, OfTyped DEF LoopYields
  <2>2. G[s] = <<>> BY <1>6, <2>1, OfOne DEF OneOf
  <2> QED BY <1>6, <1>17, <2>2
<1>18. \A op \in ToSet(first \o second) :
         op.key \in Subs /\ Rank(op) = 4 /\ op.kind \in {"error", "create", "update", "unmanage"}
  BY <1>9, <1>10, <1>12 DEF LoopYields
<1> QED BY <1>5, <1>12, <1>16, <1>17, <1>18

LEMMA EmptySound == Sound(<<>>)
<1>1. ToSet(<<>>) = {} BY OfOne
<1>2. InOrder(<<>>, Planned) BY DEF InOrder
<1> QED BY <1>1, <1>2 DEF Sound, Released, OneSub

\* A cycle's plan, and the one without HACS.
LEMMA PlanSound ==
  ASSUME TypeOK, Loaded, Apart
  PROVE  Sound(Plan) /\ Sound(PlanInts(saved.attempts) \o PlanSubs(saved.attempts))
<1> DEFINE a == PlanHacs(saved.attempts)
           b == PlanInts(saved.attempts)
           c == PlanSubs(saved.attempts)
<1>1. /\ a \in Seq(Ops) /\ InOrder(a, Planned)
      /\ \A op \in ToSet(a) : op.key \in HacsIds /\ op.kind \in {"error", "create", "update"} /\ Rank(op) = 1
  BY HacsFacts
<1>2. /\ b \in Seq(Ops) /\ InOrder(b, Planned) /\ Released(entries, b)
      /\ \A op \in ToSet(b) : op.key \in Ints /\ Rank(op) \in {2, 3} /\ (op.kind = "delete" => Spares(op)) /\ FitsNow(op)
  BY IntsFacts
<1>3. /\ c \in Seq(Ops) /\ InOrder(c, Planned) /\ OneSub(c, saved.managed)
      /\ \A op \in ToSet(c) : op.key \in Subs /\ Rank(op) = 4 /\ op.kind \in {"error", "create", "update", "unmanage"}
  BY SubsFacts
<1>4. Plan = (a \o b) \o c BY DEF Plan, PlanWith
<1> HIDE DEF a, b, c
<1>5. /\ a \o b \in Seq(Ops) /\ InOrder(a \o b, Planned) /\ ToSet(a \o b) = ToSet(a) \cup ToSet(b)
  <2>1. \A x \in ToSet(a), y \in ToSet(b) : x.key # y.key /\ Rank(x) <= Rank(y) BY <1>1, <1>2, IntegrationsAssumption
  <2> QED BY <1>1, <1>2, <2>1, JoinInOrder
<1>6. /\ (a \o b) \o c \in Seq(Ops) /\ InOrder((a \o b) \o c, Planned) /\ ToSet((a \o b) \o c) = ToSet(a \o b) \cup ToSet(c)
  <2>1. \A x \in ToSet(a \o b), y \in ToSet(c) : x.key # y.key /\ Rank(x) <= Rank(y)
    <3>1. SUFFICES ASSUME NEW x \in ToSet(a \o b), NEW y \in ToSet(c) PROVE x.key # y.key /\ Rank(x) <= Rank(y)
      OBVIOUS
    <3>2. Rank(x) \in {1, 2, 3} /\ x.key \notin Subs BY <1>1, <1>2, <1>5, <3>1, IntegrationsAssumption
    <3>3. Rank(y) = 4 /\ y.key \in Subs BY <1>3, <3>1
    <3> QED BY <3>2, <3>3
  <2> QED BY <1>3, <1>5, <2>1, JoinInOrder
<1>7. /\ b \o c \in Seq(Ops) /\ InOrder(b \o c, Planned) /\ ToSet(b \o c) = ToSet(b) \cup ToSet(c)
  <2>1. \A x \in ToSet(b), y \in ToSet(c) : x.key # y.key /\ Rank(x) <= Rank(y) BY <1>2, <1>3, IntegrationsAssumption
  <2> QED BY <1>2, <1>3, <2>1, JoinInOrder
<1>8. ASSUME NEW ops \in Seq(Ops), InOrder(ops, Planned), ToSet(b) \cup ToSet(c) \subseteq ToSet(ops),
             ToSet(ops) \subseteq ToSet(a) \cup ToSet(b) \cup ToSet(c)
      PROVE  Sound(ops)
  <2>1. Released(entries, ops) BY <1>1, <1>2, <1>3, <1>8 DEF Released
  <2>2. \A u \in ToSet(ops) : u.key \in Subs => u \in ToSet(c) BY <1>1, <1>2, <1>8, IntegrationsAssumption
  <2>3. OneSub(ops, saved.managed) BY <1>3, <1>8, <2>2 DEF OneSub
  <2>4. \A op \in ToSet(ops) : op.kind = "delete" => Spares(op) BY <1>1, <1>2, <1>3, <1>8
  <2>5. \A op \in ToSet(ops) : op.key \in Ints => FitsNow(op) BY <1>1, <1>2, <1>3, <1>8, IntegrationsAssumption
  <2> QED BY <1>8, <2>1, <2>3, <2>4, <2>5 DEF Sound
<1>9. Sound((a \o b) \o c) BY <1>5, <1>6, <1>8
<1>10. Sound(b \o c) BY <1>7, <1>8
<1> QED BY <1>4, <1>9, <1>10 DEF b, c

\* What the records say is there is what is there, as far as anybody knows.
SavedIsTrue ==
  /\ \A i \in Ints : LiveEntry(saved.managed[i]) => entries[saved.managed[i]].data \in {Opaque, saved.hash[i]}
  /\ \A s \in Subs : LiveSub(saved.managed[s]) => subs[saved.managed[s]].data \in {Opaque, saved.hash[s]}

LEMMA SilentIsDelivered ==
  ASSUME TypeOK, Loaded, Apart, SavedIsTrue, NEW k \in Keys, Declared(k), Silent(k, Plan)
  PROVE  Delivered(k)
<1> DEFINE a == PlanHacs(saved.attempts)
           b == PlanInts(saved.attempts)
           c == PlanSubs(saved.attempts)
<1>1. ToSet(Plan) = ToSet(a) \cup ToSet(b) \cup ToSet(c)
  <2>1. a \in Seq(Ops) /\ b \in Seq(Ops) /\ c \in Seq(Ops) BY HacsFacts, IntsFacts, SubsFacts
  <2>0. Plan = (a \o b) \o c BY DEF Plan, PlanWith
  <2> HIDE DEF a, b, c
  <2>2. a \o b \in Seq(Ops) /\ ToSet(a \o b) = ToSet(a) \cup ToSet(b) BY <2>1, ConcatMembers
  <2>3. ToSet((a \o b) \o c) = ToSet(a \o b) \cup ToSet(c)
    <3>1. a \o b \in Seq(Ops) BY <2>2
    <3>2. c \in Seq(Ops) BY <2>1
    <3> QED BY ONLY <3>1, <3>2, ConcatMembers
  <2> QED BY <2>0, <2>2, <2>3
<1>2. CASE k \in HacsIds
  <2>1. InPlace(k, desired[k].repo) BY <1>1, <1>2, HacsFacts DEF Silent
  <2>2. desired[k].repo \in installed BY <2>1 DEF InPlace
  <2>3. k \notin Ints /\ k \notin Subs BY <1>2, IntegrationsAssumption
  <2> QED BY <1>2, <2>2, <2>3, Zenon DEF Delivered
<1>3. CASE k \in Ints
  <2>1. LiveEntry(saved.managed[k]) /\ saved.hash[k] \in {None, Resolve(desired[k].data)}
    BY <1>1, <1>3, IntsFacts DEF Silent
  <2>2. saved.managed[k] \in EntryIds BY <1>3, <2>1, SavedTyped DEF LiveEntry
  <2>3. entries[saved.managed[k]].data # None
    BY <2>1, <2>2, SavedTyped, EntryShape, IntegrationsAssumption
  <2>4. entries[saved.managed[k]].data \in {Resolve(desired[k].data), Opaque} BY <1>3, <2>1, <2>3 DEF SavedIsTrue
  <2>5. k \notin HacsIds /\ k \notin Subs BY <1>3, IntegrationsAssumption
  <2> QED BY <1>3, <2>1, <2>4, <2>5, Zenon DEF Delivered
<1>4. CASE k \in Subs
  <2>1. LiveSub(saved.managed[k]) /\ saved.hash[k] = Resolve(desired[k].data) BY <1>1, <1>4, SubsFacts DEF Silent
  <2>2. subs[saved.managed[k]].data \in {Resolve(desired[k].data), Opaque} BY <1>4, <2>1 DEF SavedIsTrue
  <2>3. k \notin HacsIds /\ k \notin Ints BY <1>4, IntegrationsAssumption
  <2> QED BY <1>4, <2>1, <2>2, <2>3, Zenon DEF Delivered
<1> QED BY <1>2, <1>3, <1>4 DEF Keys

-----------------------------------------------------------------------------
(* What the records say, and what there is                                  *)

\* The record of an integration tells the truth; two of them name one entry
\* only when nobody can tell what is set up there.
IntsTrue(en, r) ==
  \A i \in Ints :
    /\ Live0(en, r.managed[i]) => en[r.managed[i]].data \in {Opaque, r.hash[i]}
    /\ \A j \in Ints \ {i} : r.managed[i] = r.managed[j] /\ r.managed[i] # None => Unknown(en, r.managed[i])

\* The same of a subentry, unless another item got it and this one is about
\* to let it go.
Leaving(ops) ==
  {s \in Subs : /\ \A op \in ToSet(ops) : op.key \in Subs
                /\ \E op \in ToSet(ops) : op.kind = "unmanage" /\ op.key = s}
SubsTrue(sb, r, leaving) ==
  \A s \in Subs :
    /\ Live0(sb, r.managed[s]) => sb[r.managed[s]].data \in {Opaque, r.hash[s]} \/ s \in leaving
    /\ \A t \in Subs \ {s} : r.managed[s] = r.managed[t] /\ r.managed[s] # None => s \in leaving \/ t \in leaving

\* What is saved falls behind what an apply has done.
Behind(sv, mm, ops) ==
  {s \in Subs : \E t \in Subs : /\ mm.managed[t] = sv.managed[s]
                                /\ <<mm.managed[t], mm.hash[t]>> # <<sv.managed[t], sv.hash[t]>>
                                /\ \A op \in ToSet(ops) : op.key # t}
SavedSubsTrue(sb, sv, behind) ==
  \A s \in Subs :
    /\ Live0(sb, sv.managed[s]) => sb[sv.managed[s]].data \in {Opaque, sv.hash[s]} \/ s \in behind
    /\ \A t \in Subs \ {s} : sv.managed[s] = sv.managed[t] => sv.managed[s] = None

\* What the journals say was let go of.
Journalled0 == ToSet(executed) \cup ToSet(journals[1]) \cup ToSet(journals[2])
ForgottenUnknown(en, es) == \A e \in es : e.kind = "forget" => Unknown(en, e.id)

\* What was done of the plan is not among the operations that are left.
AppliedOK(en) ==
  /\ ToSet(todo) \subseteq ToSet(plan)
  /\ \A op \in ToSet(todo) : <<op.kind, op.key>> \notin applied
  /\ \A op \in ToSet(plan) : <<op.kind, op.key>> \in applied =>
       /\ op.kind = "update" /\ op.key \in Ints => Unknown(en, op.id)
       /\ op.kind = "unmanage" => mem.managed[op.key] = None

\* What a flow for a subentry made is in no record yet.
FoundFresh ==
  phase = "find" => \A x \in SubIds \ seen : Live0(subs, x) => x \notin Mentioned /\ subs[x].data \in {Opaque, Head(todo).value}

\* While nothing but the apply has happened, what it deletes is nothing that
\* a declared item has or waits for.
DeletesSpare ==
  calm => mode = "apply" /\ \A op \in ToSet(plan) \cup ToSet(todo) : op.kind = "delete" => Spares(op)

PlansOK ==
  /\ InOrder(plan, Planned) /\ InOrder(todo, Planned) /\ Released(entries, plan) /\ Released(entries, todo)
  /\ OneSub(plan, saved.managed) /\ (phase # "idle" => OneSub(plan, mem.managed))
  /\ phase \in {"run", "find"} => OneSub(todo, mem.managed) /\ AppliedOK(entries)
IntsOK == IntsTrue(entries, saved) /\ IntsTrue(entries, mem) /\ ForgottenUnknown(entries, Journalled0)
SubsOK == SubsTrue(subs, mem, Leaving(todo)) /\ SavedSubsTrue(subs, saved, Behind(saved, mem, todo)) /\ FoundFresh
Truth == PlansOK /\ IntsOK /\ SubsOK /\ DeletesSpare

-----------------------------------------------------------------------------
(* What a step does to what is set up                                       *)

LEMMA MentionedHas ==
  /\ \A k \in Keys : saved.managed[k] \in Mentioned /\ mem.managed[k] \in Mentioned
  /\ \A op \in ToSet(plan) \cup ToSet(todo) : op.id \in Mentioned
  /\ \A e \in Journalled0 : e.id \in Mentioned
BY DEF Mentioned, Journalled0

LEMMA FreshIds ==
  /\ CanMakeEntry => NewEntry \in EntryIds /\ entries[NewEntry] = Gone /\ NewEntry \notin Mentioned
  /\ CanMakeSub => NewSub \in SubIds /\ subs[NewSub] = Gone /\ NewSub \notin Mentioned
BY DEF CanMakeEntry, NewEntry, CanMakeSub, NewSub

LEMMA WorldTyped ==
  ASSUME TypeOK
  PROVE  /\ entries \in [EntryIds -> Entries \cup {Gone}] /\ subs \in [SubIds -> Subentries \cup {Gone}]
         /\ Gone \notin Entries /\ Gone \notin Subentries /\ None \notin EntryIds /\ None \notin SubIds /\ None \notin Ids
         /\ \A e \in EntryIds : entries[e] # Gone => entries[e] \in Entries
         /\ \A x \in SubIds : subs[x] # Gone => subs[x] \in Subentries
BY IntegrationsAssumption DEF TypeOK, Ids

\* An entry, or a subentry, that is on record or part of a plan changes only
\* to what nobody can tell, or is gone.
Moved(en2) ==
  /\ en2 \in [EntryIds -> Entries \cup {Gone}]
  /\ \A e \in EntryIds : e \in Mentioned /\ en2[e] # Gone => entries[e] # Gone /\ en2[e].data \in {Opaque, entries[e].data}
SubsMoved(sb2) ==
  /\ sb2 \in [SubIds -> Subentries \cup {Gone}]
  /\ \A x \in SubIds : x \in Mentioned /\ sb2[x] # Gone => subs[x] # Gone /\ sb2[x].data \in {Opaque, subs[x].data}

LEMMA SameMoved == TypeOK => Moved(entries) /\ SubsMoved(subs)
BY WorldTyped DEF Moved, SubsMoved

LEMMA MadeMoved ==
  ASSUME TypeOK
  PROVE  /\ \A r \in Entries : CanMakeEntry => Moved([entries EXCEPT ![NewEntry] = r])
         /\ \A r \in Subentries : CanMakeSub => SubsMoved([subs EXCEPT ![NewSub] = r])
BY WorldTyped, FreshIds DEF Moved, SubsMoved

LEMMA EntryChangedMoved ==
  ASSUME TypeOK, NEW e \in EntryIds, LiveEntry(e)
  PROVE  /\ \A t \in Titles : Moved([entries EXCEPT ![e].title = t])
         /\ Moved([entries EXCEPT ![e].data = Opaque])
<1>1. entries[e] \in Entries BY WorldTyped DEF LiveEntry
<1>2. \A t \in Titles : [entries EXCEPT ![e].title = t] = [entries EXCEPT ![e] = [entries[e] EXCEPT !.title = t]]
  OBVIOUS
<1>3. \A t \in Titles : [entries[e] EXCEPT !.title = t] \in Entries /\ [entries[e] EXCEPT !.title = t].data = entries[e].data
  BY <1>1, EntryShape DEF Entries
<1>4. [entries EXCEPT ![e].data = Opaque] = [entries EXCEPT ![e] = [entries[e] EXCEPT !.data = Opaque]] OBVIOUS
<1>5. [entries[e] EXCEPT !.data = Opaque] \in Entries /\ [entries[e] EXCEPT !.data = Opaque].data = Opaque
  BY <1>1, EntryShape DEF Entries
<1>6. \A r \in Entries : r.data \in {Opaque, entries[e].data} => Moved([entries EXCEPT ![e] = r])
  BY <1>1, WorldTyped DEF Moved, LiveEntry
<1> QED BY <1>2, <1>3, <1>4, <1>5, <1>6

LEMMA SubChangedMoved ==
  ASSUME TypeOK, NEW x \in SubIds, LiveSub(x)
  PROVE  SubsMoved([subs EXCEPT ![x].data = Opaque]) /\ SubsMoved([subs EXCEPT ![x] = Gone])
<1>1. subs[x] \in Subentries BY WorldTyped DEF LiveSub
<1>2. [subs EXCEPT ![x].data = Opaque] = [subs EXCEPT ![x] = [subs[x] EXCEPT !.data = Opaque]] OBVIOUS
<1>3. [subs[x] EXCEPT !.data = Opaque] \in Subentries /\ [subs[x] EXCEPT !.data = Opaque].data = Opaque
  BY <1>1, SubentryShape DEF Subentries
<1>4. SubsMoved([subs EXCEPT ![x] = [subs[x] EXCEPT !.data = Opaque]])
  BY <1>1, <1>3, WorldTyped DEF SubsMoved, LiveSub
<1>5. SubsMoved([subs EXCEPT ![x] = Gone]) BY WorldTyped DEF SubsMoved
<1> QED BY <1>2, <1>4, <1>5

LEMMA RemovedMoved ==
  ASSUME TypeOK, NEW e \in EntryIds, Removed(e)
  PROVE  Moved(entries') /\ SubsMoved(subs')
BY WorldTyped DEF Removed, Moved, SubsMoved

LEMMA UnsureMoved ==
  ASSUME TypeOK, Unsure
  PROVE  Moved(entries') /\ SubsMoved(subs')
<1>1. \A e \in EntryIds : entries[e] # Gone => /\ [entries[e] EXCEPT !.data = Opaque] \in Entries
                                               /\ [entries[e] EXCEPT !.data = Opaque].data = Opaque
  BY WorldTyped, EntryShape DEF Entries
<1>2. \A x \in SubIds : subs[x] # Gone => /\ [subs[x] EXCEPT !.data = Opaque] \in Subentries
                                          /\ [subs[x] EXCEPT !.data = Opaque].data = Opaque
  BY WorldTyped, SubentryShape DEF Subentries
<1>3. Moved(entries') BY <1>1, WorldTyped DEF Unsure, Moved, LiveEntry
<1>4. SubsMoved(subs') BY <1>2, WorldTyped DEF Unsure, SubsMoved, LiveSub
<1> QED BY <1>3, <1>4

-----------------------------------------------------------------------------
(* The operations that are left                                             *)

\* A plan has one operation for an item.
LEMMA OnePerItem ==
  ASSUME NEW W, NEW ops \in Seq(W), InOrder(ops, Planned)
  PROVE  \A x, y \in ToSet(ops) : x.key = y.key => x = y
<1>1. SUFFICES ASSUME NEW x \in ToSet(ops), NEW y \in ToSet(ops), x.key = y.key, x # y PROVE FALSE
  OBVIOUS
<1>2. DOMAIN ops = 1 .. Len(ops) /\ Len(ops) \in Nat OBVIOUS
<1>3. PICK i \in DOMAIN ops, j \in DOMAIN ops : ops[i] = x /\ ops[j] = y BY DEF ToSet
<1>4. i < j \/ j < i BY <1>1, <1>2, <1>3
<1>5. <<x, y>> \in Planned \/ <<y, x>> \in Planned BY <1>3, <1>4 DEF InOrder
<1> QED BY <1>1, <1>5 DEF Planned

LEMMA HeadFacts ==
  ASSUME TypeOK, todo # <<>>
  PROVE  /\ Head(todo) \in Executables /\ Head(todo) \in Ops /\ Head(todo) \in ToSet(todo) /\ Tail(todo) \in Seq(Executables)
         /\ ToSet(Tail(todo)) \subseteq ToSet(todo) /\ ToSet(todo) = {Head(todo)} \cup ToSet(Tail(todo))
         /\ ToSet(todo) \subseteq Executables
<1>1. todo \in Seq(Executables) BY DEF TypeOK
<1> QED BY <1>1, ElementsTyped DEF Ops

LEMMA InLayerFacts ==
  ASSUME NEW ops \in Seq(Executables), NEW layer
  PROVE  /\ InLayer(ops, layer) \in Seq(Executables)
         /\ \A op : op \in ToSet(InLayer(ops, layer)) <=> op \in ToSet(ops) /\ LayerOf(op.key) = layer
         /\ InOrder(ops, Planned) => InOrder(InLayer(ops, layer), Planned)
<1> DEFINE at == {n \in DOMAIN ops : LayerOf(ops[n].key) = layer}
<1>1. InLayer(ops, layer) = Select(ops, at) BY DEF InLayer
<1>2. Select(ops, at) \in Seq(Executables) /\ ToSet(Select(ops, at)) = {ops[n] : n \in at \cap DOMAIN ops}
  BY SelectMembers
<1>3. InOrder(ops, Planned) => InOrder(Select(ops, at), Planned) BY SelectInOrder
<1>4. \A op : op \in {ops[n] : n \in at \cap DOMAIN ops} <=> op \in ToSet(ops) /\ LayerOf(op.key) = layer
  BY DEF ToSet
<1> QED BY <1>1, <1>2, <1>3, <1>4

\* What is left when the first operation is done, or has failed.
Rests == {Tail(todo), InLayer(Tail(todo), LayerOf(Head(todo).key))}

LEMMA RestFacts ==
  ASSUME TypeOK, todo # <<>>, NEW rest \in Rests
  PROVE  /\ rest \in Seq(Executables) /\ ToSet(rest) \subseteq ToSet(todo)
         /\ InOrder(todo, Planned) =>
              /\ InOrder(rest, Planned)
              /\ \A op \in ToSet(rest) : op.key # Head(todo).key /\ Rank(Head(todo)) <= Rank(op)
              /\ \A op \in ToSet(todo) : op.key # Head(todo).key => op \in ToSet(Tail(todo))
         /\ \A f \in ToSet(rest), op \in ToSet(Tail(todo)) : LayerOf(f.key) = LayerOf(op.key) => op \in ToSet(rest)
         /\ \A op \in ToSet(Tail(todo)) : LayerOf(Head(todo).key) = LayerOf(op.key) => op \in ToSet(rest)
<1>1. todo \in Seq(Executables) BY DEF TypeOK
<1>2. /\ Tail(todo) \in Seq(Executables) /\ ToSet(Tail(todo)) \subseteq ToSet(todo)
      /\ ToSet(todo) = {Head(todo)} \cup ToSet(Tail(todo))
  BY HeadFacts
<1>3. InOrder(todo, Planned) => InOrder(Tail(todo), Planned) /\ \A y \in ToSet(Tail(todo)) : <<Head(todo), y>> \in Planned
  BY <1>1, TailInOrder
<1>4. InOrder(todo, Planned) => \A y \in ToSet(Tail(todo)) : y.key # Head(todo).key /\ Rank(Head(todo)) <= Rank(y)
  BY <1>3 DEF Planned
<1>5. CASE rest = Tail(todo)
  BY <1>2, <1>3, <1>4, <1>5
<1>6. CASE rest = InLayer(Tail(todo), LayerOf(Head(todo).key))
  <2>1. /\ rest \in Seq(Executables) /\ (InOrder(Tail(todo), Planned) => InOrder(rest, Planned))
        /\ \A op : op \in ToSet(rest) <=> op \in ToSet(Tail(todo)) /\ LayerOf(op.key) = LayerOf(Head(todo).key)
    BY <1>2, <1>6, InLayerFacts
  <2> QED BY <1>2, <1>3, <1>4, <2>1
<1> QED BY <1>5, <1>6 DEF Rests

-----------------------------------------------------------------------------
(* Every step                                                               *)

\* A subentry that a plan's operation reconfigured.
Reconfigured ==
  /\ UpdateSub /\ LiveSub(Head(todo).id) /\ subs' = [subs EXCEPT ![Head(todo).id].data = Head(todo).value]
  /\ Record(Head(todo).key, Head(todo).id, Head(todo).value, None) /\ Succeed

LEMMA IntHead ==
  ASSUME TypeOK, NEW kinds, Op1(Ints, kinds)
  PROVE  /\ Head(todo) \in Executables /\ Head(todo).key \in Ints /\ Head(todo).kind \in kinds /\ Head(todo).key \in Keys
         /\ Head(todo).kind \in {"create", "update"} =>
              /\ Head(todo).item \in IntItems /\ Head(todo).value \in Sent /\ Head(todo).item.domain \in Domains
              /\ Head(todo).item.title \in Titles /\ Head(todo).item.data \in Datas
         /\ Head(todo).kind \in {"update", "delete", "forget"} => Head(todo).id \in EntryIds
<1>1. todo # <<>> /\ Head(todo).key \in Ints /\ Head(todo).kind \in kinds BY DEF Op1
<1>2. Head(todo) \in Executables /\ Head(todo) \in Ops BY <1>1, HeadFacts
<1> QED BY <1>1, <1>2, OpShape, ItemShape DEF Keys

LEMMA SubHead ==
  ASSUME TypeOK, NEW kinds, Op1(Subs, kinds)
  PROVE  /\ Head(todo) \in Executables /\ Head(todo).key \in Subs /\ Head(todo).kind \in kinds /\ Head(todo).key \in Keys
         /\ Head(todo).kind \in {"create", "update"} =>
              /\ Head(todo).item \in SubItems /\ Head(todo).value \in Sent /\ Head(todo).item.parent \in EntryIds
              /\ Head(todo).item.type \in SubTypes /\ Head(todo).item.uid \in Uids \cup {None}
         /\ Head(todo).kind \in {"update", "unmanage"} => Head(todo).id \in SubIds
<1>1. todo # <<>> /\ Head(todo).key \in Subs /\ Head(todo).kind \in kinds BY DEF Op1
<1>2. Head(todo) \in Executables /\ Head(todo) \in Ops BY <1>1, HeadFacts
<1> QED BY <1>1, <1>2, OpShape, ItemShape DEF Keys

LEMMA NewIntMoved ==
  ASSUME TypeOK, CanMakeEntry, NEW item, item.domain \in Domains, NEW t \in Titles, NEW v \in Sent \cup {Opaque}
  PROVE  Moved(NewInt(item, t, v))
<1>1. [domain |-> item.domain, title |-> t, data |-> v] \in Entries BY EntryShape
<1> QED BY <1>1, MadeMoved DEF NewInt

\* What people do in the user interface.
LEMMA EditMoved ==
  ASSUME TypeOK, Edit
  PROVE  Moved(entries') /\ SubsMoved(subs')
<1>1. CASE CanMakeEntry /\ (\E d \in loaded, t \in Titles :
             entries' = [entries EXCEPT ![NewEntry] = [domain |-> d, title |-> t, data |-> Opaque]]) /\ subs' = subs
  <2>1. PICK d \in loaded, t \in Titles : entries' = [entries EXCEPT ![NewEntry] = [domain |-> d, title |-> t, data |-> Opaque]]
    BY <1>1
  <2>2. [domain |-> d, title |-> t, data |-> Opaque] \in Entries BY EntryShape DEF TypeOK
  <2> QED BY SameMoved, <1>1, <2>1, <2>2, MadeMoved
<1>2. CASE \E e \in EntryIds : LiveEntry(e) /\
             ((\E t \in Titles \ {entries[e].title} : entries' = [entries EXCEPT ![e].title = t] /\ subs' = subs) \/ Removed(e))
  <2>1. PICK e \in EntryIds : LiveEntry(e) /\
          ((\E t \in Titles \ {entries[e].title} : entries' = [entries EXCEPT ![e].title = t] /\ subs' = subs) \/ Removed(e))
    BY <1>2
  <2> QED BY SameMoved, <2>1, EntryChangedMoved, RemovedMoved
<1>3. CASE CanMakeSub /\ (\E e \in EntryIds, ty \in SubTypes, u \in Uids \cup {None}, t \in Titles :
             LiveEntry(e) /\ subs' = [subs EXCEPT ![NewSub] =
                               [entry |-> e, type |-> ty, uid |-> u, title |-> t, data |-> Opaque]]) /\ entries' = entries
  <2>1. PICK e \in EntryIds, ty \in SubTypes, u \in Uids \cup {None}, t \in Titles :
          subs' = [subs EXCEPT ![NewSub] = [entry |-> e, type |-> ty, uid |-> u, title |-> t, data |-> Opaque]]
    BY <1>3
  <2>2. [entry |-> e, type |-> ty, uid |-> u, title |-> t, data |-> Opaque] \in Subentries BY SubentryShape
  <2> QED BY SameMoved, <1>3, <2>1, <2>2, MadeMoved
<1>4. CASE (\E x \in SubIds : LiveSub(x) /\ (subs' = [subs EXCEPT ![x].data = Opaque] \/ subs' = [subs EXCEPT ![x] = Gone]))
           /\ entries' = entries
  BY SameMoved, <1>4, SubChangedMoved
<1>5. CASE entries' = entries /\ subs' = subs BY SameMoved, <1>5
<1> QED BY <1>1, <1>2, <1>3, <1>4, <1>5, Zenon DEF Edit

LEMMA EntriesStep == TypeInv /\ [Next]_vars => Moved(entries') /\ (SubsMoved(subs') \/ Reconfigured)
<1>0. SUFFICES ASSUME TypeOK, ControlOK, [Next]_vars PROVE Moved(entries') /\ (SubsMoved(subs') \/ Reconfigured)
  BY DEF TypeInv
<1>1. entries' = entries => Moved(entries') BY <1>0, SameMoved
<1>2. subs' = subs => SubsMoved(subs') BY <1>0, SameMoved
<1>3. CASE Push \/ Restart \/ Reconcile \/ FetchFails \/ (\E k \in Keys : Retry(k)) \/ StartApply \/ StartRollback
           \/ RunHacs \/ ListEntries \/ ForgetEntry \/ FindSub \/ Unmanage \/ UNCHANGED vars
  <2>1. entries' = entries /\ subs' = subs
    BY <1>3, Zenon DEF Push, Restart, Reconcile, FetchFails, Retry, StartApply, StartRollback, RunHacs, ListEntries,
                       ForgetEntry, FindSub, Unmanage, vars, home
  <2> QED BY <1>1, <1>2, <2>1
<1>4. CASE Edit BY <1>0, <1>4, EditMoved
<1>5. CASE Crash \/ StateSave
  <2>1. (entries' = entries /\ subs' = subs) \/ Unsure BY <1>5, Zenon DEF Crash, StateSave
  <2> QED BY <1>0, <1>1, <1>2, <2>1, UnsureMoved
<1>6. CASE CreateEntry \/ CreateFails
  <2>1. Op1(Ints, {"create"}) /\ subs' = subs BY <1>6, Zenon DEF CreateEntry, CreateFails
  <2>2. /\ Head(todo).item.domain \in Domains /\ Head(todo).value \in Sent /\ Head(todo).item.title \in Titles
    BY <1>0, <2>1, IntHead
  <2>3. \/ entries' = entries
        \/ CanMakeEntry /\ \E t \in Titles, v \in {Head(todo).value, Opaque} : entries' = NewInt(Head(todo).item, t, v)
    BY <1>6, <2>2, Zenon DEF CreateEntry, CreateFails
  <2> QED BY <1>0, <1>1, <1>2, <2>1, <2>2, <2>3, NewIntMoved
<1>7. CASE AdoptEntry
  <2>1. Head(todo).id \in EntryIds BY <1>0, <1>7, IntHead DEF AdoptEntry
  <2> QED BY <1>0, <1>1, <1>2, <1>7, <2>1, EntryChangedMoved DEF AdoptEntry
<1>8. CASE DeleteEntry
  <2>1. Head(todo).id \in EntryIds BY <1>0, <1>8, IntHead DEF DeleteEntry
  <2>2. (entries' = entries /\ subs' = subs) \/ Removed(Head(todo).id) BY <1>8, Zenon DEF DeleteEntry
  <2> QED BY <1>0, <1>1, <1>2, <2>1, <2>2, RemovedMoved
<1>9. CASE CreateSub
  <2>1. CanMakeSub /\ Op1(Subs, {"create"}) /\ entries' = entries BY <1>9 DEF CreateSub
  <2>2. /\ Head(todo).item.parent \in EntryIds /\ Head(todo).value \in Sent /\ Head(todo).item.type \in SubTypes
        /\ Head(todo).item.uid \in Uids \cup {None}
    BY <1>0, <2>1, SubHead
  <2>3. \/ subs' = subs
        \/ \E t \in Titles, u \in {None, Head(todo).item.uid}, v \in {Head(todo).value, Opaque} :
             subs' = [subs EXCEPT ![NewSub] = [entry |-> Head(todo).item.parent, type |-> Head(todo).item.type, uid |-> u,
                                               title |-> t, data |-> v]]
    BY <1>9, Zenon DEF CreateSub
  <2>4. ASSUME NEW t \in Titles, NEW u \in {None, Head(todo).item.uid}, NEW v \in {Head(todo).value, Opaque}
        PROVE  [entry |-> Head(todo).item.parent, type |-> Head(todo).item.type, uid |-> u, title |-> t, data |-> v] \in Subentries
    BY <2>2, SubentryShape
  <2> QED BY <1>0, <1>1, <1>2, <2>1, <2>3, <2>4, MadeMoved
<1>10. CASE UpdateSub
  <2>1. Op1(Subs, {"update"}) /\ entries' = entries BY <1>10 DEF UpdateSub
  <2>2. Head(todo).id \in SubIds BY <1>0, <2>1, SubHead
  <2>3. \/ subs' = subs
        \/ LiveSub(Head(todo).id) /\ subs' = [subs EXCEPT ![Head(todo).id].data = Opaque]
        \/ /\ LiveSub(Head(todo).id) /\ CanMakeSub
           /\ \E t \in Titles, u \in {None, Head(todo).item.uid} :
                subs' = [subs EXCEPT ![NewSub] = [subs[Head(todo).id] EXCEPT !.uid = u, !.title = t, !.data = Opaque]]
        \/ Reconfigured
    BY <1>10, Zenon DEF UpdateSub, Reconfigured
  <2>4. CASE /\ LiveSub(Head(todo).id) /\ CanMakeSub
             /\ \E t \in Titles, u \in {None, Head(todo).item.uid} :
                  subs' = [subs EXCEPT ![NewSub] = [subs[Head(todo).id] EXCEPT !.uid = u, !.title = t, !.data = Opaque]]
    <3>1. PICK t \in Titles, u \in {None, Head(todo).item.uid} :
            subs' = [subs EXCEPT ![NewSub] = [subs[Head(todo).id] EXCEPT !.uid = u, !.title = t, !.data = Opaque]]
      BY <2>4
    <3>2. subs[Head(todo).id] \in Subentries BY <1>0, <2>2, <2>4, WorldTyped DEF LiveSub
    <3>3. u \in Uids \cup {None} BY <1>0, <2>1, SubHead
    <3>4. [subs[Head(todo).id] EXCEPT !.uid = u, !.title = t, !.data = Opaque] \in Subentries
      BY <3>2, <3>3 DEF Subentries
    <3> QED BY <1>0, <1>1, <2>1, <2>4, <3>1, <3>4, MadeMoved
  <2> QED BY <1>0, <1>1, <1>2, <2>1, <2>2, <2>3, <2>4, SubChangedMoved
<1>11. CASE UndoOne
  <2> DEFINE e == executed[pos]
  <2>1. e \in Journals
    <3>1. pos \in 1 .. Len(executed) /\ executed \in Seq(Journals) BY <1>0, <1>11 DEF UndoOne, TypeOK
    <3> QED BY <3>1
  <2>2. \/ entries' = entries /\ subs' = subs
        \/ e.kind = "create" /\ Removed(e.id)
        \/ /\ e.kind = "delete" /\ CanMakeEntry /\ Resolve(e.data) # None /\ subs' = subs
           /\ \E t \in Titles \cup {e.title} : entries' = NewInt(e, t, Resolve(e.data))
    BY <1>11, Zenon DEF UndoOne
  <2>3. e.id \in EntryIds /\ e.data \in Datas \cup {None} /\ (e.kind # "forget" => e.domain \in Domains /\ e.title \in Titles)
    BY <2>1, JournalShape
  <2> HIDE DEF e
  <2>4. CASE e.kind = "delete" /\ Resolve(e.data) # None
    <3>1. Resolve(e.data) \in Sent BY <1>0, <2>3, <2>4, ResolveTyped
    <3>2. e.domain \in Domains /\ Titles \cup {e.title} = Titles BY <2>3, <2>4
    <3> QED BY <1>0, <1>1, <1>2, <2>2, <2>4, <3>1, <3>2, NewIntMoved
  <2> QED BY <1>0, <1>1, <1>2, <2>2, <2>3, <2>4, RemovedMoved
<1> QED BY <1>0, <1>3, <1>4, <1>5, <1>6, <1>7, <1>8, <1>9, <1>10, <1>11, Zenon DEF Next, Apply

-----------------------------------------------------------------------------
(* What a step does to the records                                          *)

LEMMA FieldsTyped ==
  ASSUME NEW c, c = [x \in {"managed", "hash", "data", "attempts", "reminder"} |-> c[x]],
         c.managed \in [Keys -> Ids0], c.hash \in [Keys -> Sent \cup {None}], c.data \in [Keys -> Datas \cup {None}],
         c.attempts \in [Keys -> [hash : Sent \cup HacsItems, created : BOOLEAN] \cup {None}], c.reminder \in SUBSET Domains,
         \A k \in Keys : c.managed[k] \in IdsOf(k) \cup {None} /\ (c.hash[k] # None => c.managed[k] # None)
  PROVE  RecordOK(c)
<1>1. c = [managed |-> c.managed, hash |-> c.hash, data |-> c.data, attempts |-> c.attempts, reminder |-> c.reminder]
  OBVIOUS
<1> QED BY <1>1, RecordTyped

LEMMA RecordForm ==
  ASSUME NEW r, RecordOK(r)
  PROVE  /\ r \in [managed : [Keys -> Ids0], hash : [Keys -> Sent \cup {None}], data : [Keys -> Datas \cup {None}],
                   attempts : [Keys -> [hash : Sent \cup HacsItems, created : BOOLEAN] \cup {None}], reminder : SUBSET Domains]
         /\ \A k \in Keys : IdsOf(k) \cup {None} \subseteq Ids0
BY IntegrationsAssumption DEF RecordOK, IdsOf, Ids, Ids0, Keys

\* The records name the same objects, or another one for one item.
SameRecords(r2, r) == r2.managed = r.managed /\ r2.hash = r.hash
RecordsAt(r2, r, k, id, hash) == r2.managed = [r.managed EXCEPT ![k] = id] /\ r2.hash = [r.hash EXCEPT ![k] = hash]

\* The three fields of an item.
Changed3(r, k, id, hash, data) == [r EXCEPT !.managed[k] = id, !.hash[k] = hash, !.data[k] = data]

LEMMA Changed3Typed ==
  ASSUME NEW r, RecordOK(r), NEW k \in Keys, NEW id \in IdsOf(k) \cup {None}, NEW hash \in Sent \cup {None},
         NEW data \in Datas \cup {None}, hash # None => id # None
  PROVE  RecordOK(Changed3(r, k, id, hash, data)) /\ RecordsAt(Changed3(r, k, id, hash, data), r, k, id, hash)
<1> DEFINE c == Changed3(r, k, id, hash, data)
           m == [r.managed EXCEPT ![k] = id]
           h == [r.hash EXCEPT ![k] = hash]
           d == [r.data EXCEPT ![k] = data]
<1>1. r \in [managed : [Keys -> Ids0], hash : [Keys -> Sent \cup {None}], data : [Keys -> Datas \cup {None}],
             attempts : [Keys -> [hash : Sent \cup HacsItems, created : BOOLEAN] \cup {None}], reminder : SUBSET Domains]
  BY RecordForm
<1>2. c.managed = m /\ c.hash = h /\ c.data = d BY <1>1 DEF Changed3
<1>3. c.attempts = r.attempts /\ c.reminder = r.reminder BY <1>1 DEF Changed3
<1>4. c = [x \in {"managed", "hash", "data", "attempts", "reminder"} |-> c[x]] BY <1>1 DEF Changed3
<1>5. m \in [Keys -> Ids0] /\ h \in [Keys -> Sent \cup {None}] /\ d \in [Keys -> Datas \cup {None}]
  BY RecordForm, RecordFields
<1>6. \A l \in Keys : m[l] \in IdsOf(l) \cup {None} /\ (h[l] # None => m[l] # None) BY RecordFields
<1>7. r.attempts \in [Keys -> [hash : Sent \cup HacsItems, created : BOOLEAN] \cup {None}] /\ r.reminder \in SUBSET Domains
  BY RecordFields
<1> HIDE DEF c, m, h, d
<1>8. RecordOK(c) BY <1>2, <1>3, <1>4, <1>5, <1>6, <1>7, FieldsTyped
<1> QED BY <1>2, <1>8 DEF c, m, h, RecordsAt

\* The record with another id, hash, data and attempt of one item.
Changed(r, k, id, hash, data, attempt) ==
  [r EXCEPT !.managed[k] = id, !.hash[k] = hash, !.data[k] = data, !.attempts[k] = attempt]

LEMMA ChangedTyped ==
  ASSUME NEW r, RecordOK(r), NEW k \in Keys, NEW id \in IdsOf(k) \cup {None}, NEW hash \in Sent \cup {None},
         NEW data \in Datas \cup {None}, NEW attempt \in [hash : Sent \cup HacsItems, created : BOOLEAN] \cup {None},
         hash # None => id # None
  PROVE  RecordOK(Changed(r, k, id, hash, data, attempt)) /\ RecordsAt(Changed(r, k, id, hash, data, attempt), r, k, id, hash)
<1> DEFINE c == Changed(r, k, id, hash, data, attempt)
           m == [r.managed EXCEPT ![k] = id]
           h == [r.hash EXCEPT ![k] = hash]
           d == [r.data EXCEPT ![k] = data]
           a == [r.attempts EXCEPT ![k] = attempt]
<1>0. IdsOf(k) \subseteq Ids0 BY IntegrationsAssumption DEF IdsOf, Ids, Ids0, Keys
<1>1. r \in [managed : [Keys -> Ids0], hash : [Keys -> Sent \cup {None}], data : [Keys -> Datas \cup {None}],
             attempts : [Keys -> [hash : Sent \cup HacsItems, created : BOOLEAN] \cup {None}], reminder : SUBSET Domains]
  BY DEF RecordOK
<1>2. c.managed = m /\ c.hash = h /\ c.reminder = r.reminder BY <1>1 DEF Changed
<1>3. c.data = d /\ c.attempts = a BY <1>1 DEF Changed
<1>4. c = [x \in {"managed", "hash", "data", "attempts", "reminder"} |-> c[x]] BY <1>1 DEF Changed
<1>5. m \in [Keys -> Ids0] /\ h \in [Keys -> Sent \cup {None}] /\ d \in [Keys -> Datas \cup {None}]
  BY <1>0, RecordFields DEF Ids0
<1>6. \A l \in Keys : m[l] \in IdsOf(l) \cup {None} /\ (h[l] # None => m[l] # None) BY RecordFields
<1>7. a \in [Keys -> [hash : Sent \cup HacsItems, created : BOOLEAN] \cup {None}] BY RecordFields
<1>8. r.reminder \in SUBSET Domains BY RecordFields
<1> HIDE DEF c, m, h, d, a
<1>9. c = [managed |-> c.managed, hash |-> c.hash, data |-> c.data, attempts |-> c.attempts, reminder |-> c.reminder]
  BY <1>4
<1>10. RecordOK(c) BY <1>2, <1>3, <1>9, <1>5, <1>6, <1>7, <1>8, RecordTyped
<1> QED BY <1>2, <1>10 DEF c, m, h, RecordsAt

LEMMA AttemptTyped ==
  ASSUME NEW r, RecordOK(r), NEW k \in Keys, NEW a \in [hash : Sent \cup HacsItems, created : BOOLEAN] \cup {None}
  PROVE  RecordOK([r EXCEPT !.attempts[k] = a]) /\ SameRecords([r EXCEPT !.attempts[k] = a], r)
<1> DEFINE c == [r EXCEPT !.attempts[k] = a]
<1>1. r \in [managed : [Keys -> Ids0], hash : [Keys -> Sent \cup {None}], data : [Keys -> Datas \cup {None}],
             attempts : [Keys -> [hash : Sent \cup HacsItems, created : BOOLEAN] \cup {None}], reminder : SUBSET Domains]
  BY RecordForm
<1>2. c.managed = r.managed /\ c.hash = r.hash /\ c.data = r.data /\ c.reminder = r.reminder BY <1>1
<1>3. c.attempts = [r.attempts EXCEPT ![k] = a] BY <1>1
<1>4. c = [x \in {"managed", "hash", "data", "attempts", "reminder"} |-> c[x]] BY <1>1
<1>5. [r.attempts EXCEPT ![k] = a] \in [Keys -> [hash : Sent \cup HacsItems, created : BOOLEAN] \cup {None}]
  BY RecordFields
<1> HIDE DEF c
<1>6. RecordOK(c) BY <1>2, <1>3, <1>4, <1>5, RecordFields, FieldsTyped
<1> QED BY <1>2, <1>6 DEF c, SameRecords

LEMMA ReminderTyped ==
  ASSUME NEW r, RecordOK(r), NEW rem \in SUBSET Domains
  PROVE  RecordOK([r EXCEPT !.reminder = rem]) /\ SameRecords([r EXCEPT !.reminder = rem], r)
<1> DEFINE c == [r EXCEPT !.reminder = rem]
<1>1. r \in [managed : [Keys -> Ids0], hash : [Keys -> Sent \cup {None}], data : [Keys -> Datas \cup {None}],
             attempts : [Keys -> [hash : Sent \cup HacsItems, created : BOOLEAN] \cup {None}], reminder : SUBSET Domains]
  BY RecordForm
<1>2. c.managed = r.managed /\ c.hash = r.hash /\ c.data = r.data /\ c.attempts = r.attempts /\ c.reminder = rem BY <1>1
<1>3. c = [x \in {"managed", "hash", "data", "attempts", "reminder"} |-> c[x]] BY <1>1
<1> HIDE DEF c
<1>4. RecordOK(c) BY <1>2, <1>3, RecordFields, FieldsTyped
<1> QED BY <1>2, <1>4 DEF c, SameRecords

\* What RunHacs writes about a repository.
HacsRecord(r, k, id) == [r EXCEPT !.managed[k] = id, !.attempts[k] = None]

LEMMA HacsRecordTyped ==
  ASSUME NEW r, RecordOK(r), NEW k \in Keys, NEW id \in IdsOf(k)
  PROVE  RecordOK(HacsRecord(r, k, id)) /\ RecordsAt(HacsRecord(r, k, id), r, k, id, r.hash[k])
<1> DEFINE c == HacsRecord(r, k, id)
           m == [r.managed EXCEPT ![k] = id]
           a == [r.attempts EXCEPT ![k] = None]
<1>1. r \in [managed : [Keys -> Ids0], hash : [Keys -> Sent \cup {None}], data : [Keys -> Datas \cup {None}],
             attempts : [Keys -> [hash : Sent \cup HacsItems, created : BOOLEAN] \cup {None}], reminder : SUBSET Domains]
  BY RecordForm
<1>2. c.managed = m /\ c.hash = r.hash /\ c.data = r.data /\ c.attempts = a /\ c.reminder = r.reminder
  BY <1>1 DEF HacsRecord
<1>3. c = [x \in {"managed", "hash", "data", "attempts", "reminder"} |-> c[x]] BY <1>1 DEF HacsRecord
<1>4. m \in [Keys -> Ids0] BY RecordForm, RecordFields
<1>5. None \notin IdsOf(k) BY IntegrationsAssumption DEF IdsOf, Ids
<1>6. \A l \in Keys : m[l] \in IdsOf(l) \cup {None} /\ (r.hash[l] # None => m[l] # None) BY <1>5, RecordFields
<1>7. a \in [Keys -> [hash : Sent \cup HacsItems, created : BOOLEAN] \cup {None}] BY RecordFields
<1>8. r.hash = [r.hash EXCEPT ![k] = r.hash[k]] BY RecordFields
<1> HIDE DEF c, m, a
<1>9. RecordOK(c) BY <1>2, <1>3, <1>4, <1>6, <1>7, RecordFields, FieldsTyped
<1> QED BY <1>2, <1>8, <1>9 DEF c, m, RecordsAt

LEMMA NoRecordsTyped ==
  /\ RecordOK(NoRecords)
  /\ \A k \in Keys : NoRecords.managed[k] = None /\ NoRecords.hash[k] = None
<1> DEFINE n == [k \in Keys |-> None]
<1>1. NoRecords = [managed |-> n, hash |-> n, data |-> n, attempts |-> n, reminder |-> {}] BY DEF NoRecords
<1>2. n \in [Keys -> Ids0] /\ n \in [Keys -> Sent \cup {None}] /\ n \in [Keys -> Datas \cup {None}] BY DEF Ids0
<1>3. n \in [Keys -> [hash : Sent \cup HacsItems, created : BOOLEAN] \cup {None}] OBVIOUS
<1>4. \A k \in Keys : n[k] \in IdsOf(k) \cup {None} /\ (n[k] # None => n[k] # None) OBVIOUS
<1>5. {} \in SUBSET Domains OBVIOUS
<1>6. RecordOK([managed |-> n, hash |-> n, data |-> n, attempts |-> n, reminder |-> {}])
  <2> HIDE DEF n
  <2> QED BY <1>2, <1>3, <1>4, <1>5, RecordTyped
<1> QED BY <1>1, <1>6

-----------------------------------------------------------------------------
(* Every step keeps the types                                               *)

\* The steps of an apply that work on its first operation.
OneCall ==
  \/ RunHacs \/ ListEntries \/ CreateEntry \/ CreateFails \/ AdoptEntry \/ DeleteEntry \/ ForgetEntry
  \/ CreateSub \/ FindSub \/ UpdateSub \/ Unmanage

LEMMA ReconfiguredTyped ==
  ASSUME TypeInv, Reconfigured
  PROVE  /\ Head(todo).id \in SubIds /\ Head(todo).key \in Subs /\ Head(todo).kind = "update" /\ Head(todo).value \in Sent
         /\ subs' \in [SubIds -> Subentries \cup {Gone}] /\ subs'[Head(todo).id] # Gone
         /\ subs'[Head(todo).id].data = Head(todo).value
         /\ \A x \in SubIds : x # Head(todo).id => subs'[x] = subs[x]
<1>1. Op1(Subs, {"update"}) BY DEF Reconfigured, UpdateSub
<1>2. Head(todo).id \in SubIds /\ Head(todo).key \in Subs /\ Head(todo).kind = "update" /\ Head(todo).value \in Sent
  BY <1>1, SubHead DEF TypeInv
<1> DEFINE x == Head(todo).id
           v == Head(todo).value
<1>3. subs[x] \in Subentries BY <1>2, WorldTyped DEF Reconfigured, LiveSub, TypeInv
<1>4. subs' = [subs EXCEPT ![x] = [subs[x] EXCEPT !.data = v]] BY DEF Reconfigured
<1>5. [subs[x] EXCEPT !.data = v] \in Subentries /\ [subs[x] EXCEPT !.data = v].data = v
  BY <1>2, <1>3, SubentryShape DEF Subentries
<1>6. subs \in [SubIds -> Subentries \cup {Gone}] /\ Gone \notin Subentries BY WorldTyped DEF TypeInv
<1> QED BY <1>2, <1>4, <1>5, <1>6

LEMMA WorldStep ==
  TypeInv /\ [Next]_vars =>
    /\ desired' \in Manifests /\ secret' \in SecretValues \cup {None}
    /\ entries' \in [EntryIds -> Entries \cup {Gone}] /\ subs' \in [SubIds -> Subentries \cup {Gone}]
    /\ installed' \subseteq Repos /\ loaded' \subseteq Domains
<1>0. SUFFICES ASSUME TypeOK, ControlOK, [Next]_vars
               PROVE  /\ desired' \in Manifests /\ secret' \in SecretValues \cup {None}
                      /\ entries' \in [EntryIds -> Entries \cup {Gone}] /\ subs' \in [SubIds -> Subentries \cup {Gone}]
                      /\ installed' \subseteq Repos /\ loaded' \subseteq Domains
  BY DEF TypeInv
<1>1. entries' \in [EntryIds -> Entries \cup {Gone}] /\ subs' \in [SubIds -> Subentries \cup {Gone}]
  BY <1>0, EntriesStep, ReconfiguredTyped DEF TypeInv, Moved, SubsMoved
<1>2. /\ desired \in Manifests /\ secret \in SecretValues \cup {None} /\ installed \subseteq Repos /\ loaded \subseteq Domains
  BY <1>0 DEF TypeOK
<1>3. CASE Push
  <2>1. desired' \in Manifests /\ secret' = secret /\ installed' = installed /\ loaded' = loaded BY <1>3 DEF Push, home
  <2> QED BY <1>1, <1>2, <2>1
<1>4. CASE Edit
  <2>1. desired' = desired /\ loaded' = loaded /\ (secret' = secret \/ secret' \in SecretValues \cup {None})
    BY <1>4, Zenon DEF Edit, Removed
  <2>2. installed' = installed \/ \E r \in installed : installed' = installed \ {r} BY <1>4, Zenon DEF Edit, Removed
  <2> QED BY <1>1, <1>2, <2>1, <2>2
<1>5. CASE Restart
  <2>1. desired' = desired /\ secret' = secret /\ installed' = installed /\ loaded' = loaded \cup {Provides[r] : r \in installed}
    BY <1>5 DEF Restart
  <2>2. {Provides[r] : r \in installed} \subseteq Domains BY <1>2, IntegrationsAssumption
  <2> QED BY <1>1, <1>2, <2>1, <2>2
<1>6. CASE RunHacs
  <2>1. desired' = desired /\ secret' = secret /\ loaded' = loaded /\ installed' \in {installed, installed \cup {Head(todo).id}}
    BY <1>6, Zenon DEF RunHacs
  <2>2. Head(todo).id \in Repos
    <3>1. todo # <<>> /\ Head(todo).key \in HacsIds BY <1>6 DEF RunHacs, Op1
    <3> QED BY <1>0, <3>1, HeadFacts, OpShape
  <2> QED BY <1>1, <1>2, <2>1, <2>2
<1>7. CASE Crash \/ Reconcile \/ FetchFails \/ (\E k \in Keys : Retry(k)) \/ StartApply \/ StartRollback \/ ListEntries
           \/ CreateEntry \/ CreateFails \/ AdoptEntry \/ DeleteEntry \/ ForgetEntry \/ CreateSub \/ FindSub \/ UpdateSub
           \/ Unmanage \/ StateSave \/ UndoOne \/ UNCHANGED vars
  <2>1. desired' = desired /\ secret' = secret /\ installed' = installed /\ loaded' = loaded
    BY <1>7, Zenon DEF Crash, Reconcile, FetchFails, Retry, StartApply, StartRollback, ListEntries, CreateEntry, CreateFails,
                       AdoptEntry, DeleteEntry, ForgetEntry, CreateSub, FindSub, UpdateSub, Unmanage, StateSave, UndoOne,
                       vars, home
  <2> QED BY <1>1, <1>2, <2>1
<1> QED BY <1>0, <1>3, <1>4, <1>5, <1>6, <1>7, Zenon DEF Next, Apply

\* A call is about the first operation that is left.
LEMMA CallFacts ==
  ASSUME TypeInv, OneCall
  PROVE  /\ todo # <<>> /\ Head(todo) \in Executables /\ Head(todo).key \in Keys
         /\ phase \in {"run", "find"} /\ mode = "apply"
         /\ ToSet(Tail(todo)) \subseteq ToSet(todo)
<1>1. CASE FindSub
  <2>1. todo # <<>> /\ phase = "find" BY <1>1 DEF FindSub, TypeInv, ControlOK
  <2>2. Head(todo) \in Executables /\ Head(todo) \in Ops /\ ToSet(Tail(todo)) \subseteq ToSet(todo) BY <2>1, HeadFacts DEF TypeInv
  <2> QED BY <2>1, <2>2, OpShape DEF TypeInv, ControlOK
<1>2. CASE ~FindSub
  <2>1. phase = "run" /\ todo # <<>>
    BY <1>2, Zenon DEF OneCall, RunHacs, ListEntries, CreateEntry, CreateFails, AdoptEntry, DeleteEntry, ForgetEntry, CreateSub,
                       UpdateSub, Unmanage, Op1
  <2>2. Head(todo) \in Executables /\ Head(todo) \in Ops /\ ToSet(Tail(todo)) \subseteq ToSet(todo) BY <2>1, HeadFacts DEF TypeInv
  <2> QED BY <2>1, <2>2, OpShape DEF TypeInv, ControlOK
<1> QED BY <1>1, <1>2

-----------------------------------------------------------------------------
(* One call of an apply                                                     *)

\* What a call may write about its item.
Writes(id, hash) ==
  LET op == Head(todo) IN
    /\ RecordsAt(mem', mem, op.key, id, hash)
    /\ op.key \in Ints => id = None \/ (id \notin Mentioned /\ entries'[id].data = hash) \/ Unknown(entries', id)
    /\ op.key \in Subs =>
         id = None \/ (id \notin Mentioned /\ subs'[id].data \in {Opaque, hash}) \/ (Reconfigured /\ id = op.id /\ hash = op.value)

\* The operation is still to be done; it and those after it are given up; or
\* it is over, done or not.
Waits == todo' = todo /\ applied' = applied /\ SameRecords(mem', mem)
GivesUp == todo' = <<>> /\ applied' = applied /\ SameRecords(mem', mem) /\ Head(todo).key \in Ints
Turns ==
  LET op == Head(todo) IN
    /\ todo' \in Rests \/ (todo' = <<>> /\ op.key \in Ints)
    /\ applied' \in {applied, applied \cup {<<op.kind, op.key>>}}
    /\ op.kind = "update" /\ op.key \in Ints => Unknown(entries', op.id)
    /\ op.kind = "unmanage" => mem'.managed[op.key] = None
    /\ SameRecords(mem', mem) \/ \E id, hash : Writes(id, hash)
Called == Waits \/ GivesUp \/ Turns

LEMMA FailRests ==
  ASSUME Fail
  PROVE  todo' \in Rests /\ applied' = applied
BY DEF Fail, Rests

LEMMA SucceedRests ==
  ASSUME Succeed
  PROVE  todo' \in Rests /\ applied' = applied \cup {<<Head(todo).kind, Head(todo).key>>}
BY DEF Succeed, Rests

LEMMA LandedRests ==
  ASSUME NEW entry, Landed(Head(todo), entry)
  PROVE  /\ todo' \in Rests \/ todo' = <<>>
         /\ applied' = applied \cup {<<Head(todo).kind, Head(todo).key>>}
BY SucceedRests, Zenon DEF Landed, Took

LEMMA RecordWrites ==
  ASSUME TypeInv, NEW k \in Keys, NEW id \in IdsOf(k) \cup {None}, NEW hash \in Sent \cup {None},
         NEW data \in Datas \cup {None}, Record(k, id, hash, data), hash # None => id # None
  PROVE  RecordOK(mem') /\ RecordsAt(mem', mem, k, id, hash)
<1>1. mem' = Changed(mem, k, id, hash, data, None) BY DEF Record, Changed
<1>2. RecordOK(mem) BY DEF TypeInv, TypeOK
<1> QED BY <1>1, <1>2, ChangedTyped

LEMMA AttemptWrites ==
  ASSUME TypeInv, NEW op \in Executables, op.value \in Sent \cup HacsItems, NEW b \in BOOLEAN, Attempt(op, b)
  PROVE  RecordOK(mem') /\ SameRecords(mem', mem)
<1>1. op.value \in Sent \cup HacsItems /\ op.key \in Keys BY OpShape DEF Ops
<1>2. [hash |-> op.value, created |-> b] \in [hash : Sent \cup HacsItems, created : BOOLEAN] \cup {None} BY <1>1
<1>3. mem' = [mem EXCEPT !.attempts[op.key] = [hash |-> op.value, created |-> b]] BY DEF Attempt
<1>4. RecordOK(mem) BY DEF TypeInv, TypeOK
<1> QED BY <1>1, <1>2, <1>3, <1>4, AttemptTyped

LEMMA SameWrites == TypeInv /\ mem' = mem => RecordOK(mem') /\ SameRecords(mem', mem)
BY DEF TypeInv, TypeOK, SameRecords

LEMMA ForgetWrites ==
  ASSUME TypeInv, NEW k \in Keys, Forget(k)
  PROVE  RecordOK(mem') /\ RecordsAt(mem', mem, k, None, None)
<1>1. mem' = Changed3(mem, k, None, None, None) BY DEF Forget, Changed3
<1>2. RecordOK(mem) BY DEF TypeInv, TypeOK
<1> QED BY <1>1, <1>2, Changed3Typed

LEMMA RunHacsCalled == TypeInv /\ RunHacs => RecordOK(mem') /\ Called
<1>0. SUFFICES ASSUME TypeInv, RunHacs PROVE RecordOK(mem') /\ Called OBVIOUS
<1> DEFINE op == Head(todo)
           rec == HacsRecord(mem, op.key, op.id)
<1>1. todo # <<>> /\ op.key \in HacsIds /\ op.kind \in {"create", "update"} BY <1>0 DEF RunHacs, Op1
<1>2. op \in Executables /\ op \in Ops BY <1>0, <1>1, HeadFacts DEF TypeInv
<1>3. op.id \in Repos /\ op.key \in Keys /\ (op.kind = "create" => op.value \in HacsItems) BY <1>1, <1>2, OpShape
<1>4. op.key \notin Ints /\ op.key \notin Subs /\ op.id \in IdsOf(op.key) BY <1>1, <1>3, IntegrationsAssumption DEF IdsOf
<1>5. RecordOK(rec) /\ RecordsAt(rec, mem, op.key, op.id, mem.hash[op.key])
  BY <1>0, <1>3, <1>4, HacsRecordTyped DEF TypeInv, TypeOK
<1>6. \/ mem' = rec /\ Succeed
      \/ mem' = [rec EXCEPT !.reminder = rec.reminder \cup {Provides[op.id]}] /\ Succeed
      \/ mem' = mem /\ Fail
      \/ Attempt(op, FALSE) /\ op.kind = "create" /\ Fail
  <2>1. rec.reminder = mem.reminder
    <3>1. mem \in [managed : [Keys -> Ids0], hash : [Keys -> Sent \cup {None}], data : [Keys -> Datas \cup {None}],
             attempts : [Keys -> [hash : Sent \cup HacsItems, created : BOOLEAN] \cup {None}], reminder : SUBSET Domains]
      BY <1>0, RecordForm DEF TypeInv, TypeOK
    <3> QED BY <3>1 DEF HacsRecord
  <2> QED BY <1>0, <1>1, <2>1 DEF RunHacs, HacsRecord
<1> HIDE DEF op, rec
<1>7. RecordOK(mem') /\ (SameRecords(mem', mem) \/ RecordsAt(mem', mem, op.key, op.id, mem.hash[op.key]))
  <2>1. CASE mem' = rec BY <1>5, <2>1
  <2>2. CASE mem' = [rec EXCEPT !.reminder = rec.reminder \cup {Provides[op.id]}]
    <3>1. rec.reminder \cup {Provides[op.id]} \in SUBSET Domains BY <1>3, <1>5, RecordFields, IntegrationsAssumption
    <3>2. RecordOK(mem') /\ SameRecords(mem', rec) BY <1>5, <2>2, <3>1, ReminderTyped
    <3> QED BY <1>5, <3>2 DEF SameRecords, RecordsAt
  <2>3. CASE mem' = mem BY <1>0, <2>3, SameWrites
  <2>4. CASE Attempt(op, FALSE) /\ op.kind = "create"
    <3>1. op.value \in Sent \cup HacsItems BY <1>3, <2>4
    <3> QED BY <1>0, <1>2, <2>4, <3>1, AttemptWrites
  <2> QED BY <1>6, <2>1, <2>2, <2>3, <2>4
<1>8. todo' \in Rests /\ applied' \in {applied, applied \cup {<<op.kind, op.key>>}}
  BY <1>6, FailRests, SucceedRests DEF op
<1>9. RecordsAt(mem', mem, op.key, op.id, mem.hash[op.key]) => Writes(op.id, mem.hash[op.key]) BY <1>4 DEF Writes, op
<1>10. op.kind # "unmanage" BY <1>1
<1> QED BY <1>4, <1>7, <1>8, <1>9, <1>10 DEF Called, Turns, op

LEMMA ListEntriesCalled == TypeInv /\ ListEntries => RecordOK(mem') /\ Called
<1>0. SUFFICES ASSUME TypeInv, ListEntries PROVE RecordOK(mem') /\ Called OBVIOUS
<1>1. mem' = mem /\ applied' = applied /\ (todo' = todo \/ todo' = <<>>) /\ Head(todo).key \in Ints
  BY <1>0, Zenon DEF ListEntries, Op1
<1>2. RecordOK(mem') /\ SameRecords(mem', mem) BY <1>0, <1>1, SameWrites
<1> QED BY <1>1, <1>2 DEF Called, Waits, GivesUp

\* What the first operation is, when it is about an integration.
LEMMA IntCall ==
  ASSUME TypeInv, NEW kinds, Op1(Ints, kinds)
  PROVE  LET op == Head(todo) IN
           /\ op \in Executables /\ op.key \in Ints /\ op.key \in Keys /\ op.key \notin Subs /\ op.kind \in kinds
           /\ op.kind # "unmanage" /\ IdsOf(op.key) = EntryIds
           /\ op.kind \in {"create", "update"} => op.value \in Sent /\ op.item.data \in Datas /\ op.value # None
           /\ op.kind \in {"update", "delete", "forget"} => op.id \in EntryIds
<1>1. todo # <<>> BY DEF Op1
<1>2. Head(todo) \in Executables /\ Head(todo) \in Ops BY <1>1, HeadFacts DEF TypeInv
<1>3. None \notin Sent BY IntegrationsAssumption
<1>4. Head(todo).key \in Ints /\ Head(todo).kind \in kinds BY DEF Op1
<1>5. Head(todo).key \notin Subs /\ Head(todo).key \notin HacsIds BY <1>4, IntegrationsAssumption
<1> QED BY <1>2, <1>3, <1>4, <1>5, OpShape, ItemShape DEF Keys, IdsOf

LEMMA CreateEntryCalled == TypeInv /\ CreateEntry => RecordOK(mem') /\ Called
<1>0. SUFFICES ASSUME TypeInv, CreateEntry PROVE RecordOK(mem') /\ Called OBVIOUS
<1> DEFINE op == Head(todo)
<1>1. Op1(Ints, {"create"}) /\ CanMakeEntry /\ Record(op.key, NewEntry, op.value, op.item.data) BY <1>0 DEF CreateEntry
<1>2. /\ op \in Executables /\ op.key \in Ints /\ op.key \in Keys /\ op.key \notin Subs /\ op.kind = "create"
      /\ IdsOf(op.key) = EntryIds /\ op.value \in Sent /\ op.item.data \in Datas
  BY <1>0, <1>1, IntCall
<1>3. NewEntry \in EntryIds /\ NewEntry \notin Mentioned /\ NewEntry # None
  BY <1>1, FreshIds, IntegrationsAssumption DEF Ids
<1>4. \E t : entries' = NewInt(op.item, t, op.value)
  <2>1. \/ entries' = NewInt(op.item, op.item.title, op.value)
        \/ \E t \in Titles \ {op.item.title} : entries' = NewInt(op.item, t, op.value)
    BY <1>0, Zenon DEF CreateEntry
  <2> QED BY <2>1, Zenon
<1>5. entries'[NewEntry].data = op.value BY <1>0, <1>3, <1>4, WorldTyped DEF NewInt, TypeInv
<1>6. /\ todo' \in Rests \/ todo' = <<>>
      /\ applied' = applied \cup {<<op.kind, op.key>>}
  <2>1. \/ Landed(op, Entry(op, NewEntry, op.item))
        \/ Took(op) /\ todo' = InLayer(Tail(todo), "integrations")
    BY <1>0, Zenon DEF CreateEntry
  <2>2. LayerOf(op.key) = "integrations" BY <1>2, IntegrationsAssumption DEF LayerOf
  <2> QED BY <2>1, <2>2, LandedRests DEF Took, Rests
<1> HIDE DEF op
<1>7. RecordOK(mem') /\ RecordsAt(mem', mem, op.key, NewEntry, op.value) BY <1>0, <1>1, <1>2, <1>3, RecordWrites
<1>8. Writes(NewEntry, op.value) BY <1>2, <1>3, <1>5, <1>7 DEF Writes, op
<1> QED BY <1>2, <1>6, <1>7, <1>8 DEF Called, Turns, op

LEMMA CreateFailsCalled == TypeInv /\ CreateFails => RecordOK(mem') /\ Called
<1>0. SUFFICES ASSUME TypeInv, CreateFails PROVE RecordOK(mem') /\ Called OBVIOUS
<1>1. Op1(Ints, {"create"}) /\ Fail /\ (mem' = mem \/ Attempt(Head(todo), FALSE))
  BY <1>0, Zenon DEF CreateFails, Remember
<1>2. Head(todo) \in Executables /\ Head(todo).key \in Ints /\ Head(todo).kind = "create" /\ Head(todo).value \in Sent
  BY <1>0, <1>1, IntCall
<1>3. RecordOK(mem') /\ SameRecords(mem', mem) BY <1>0, <1>1, <1>2, SameWrites, AttemptWrites
<1>4. todo' \in Rests /\ applied' = applied BY <1>1, FailRests
<1> QED BY <1>2, <1>3, <1>4 DEF Called, Turns

LEMMA AdoptEntryCalled == TypeInv /\ AdoptEntry => RecordOK(mem') /\ Called
<1>0. SUFFICES ASSUME TypeInv, AdoptEntry PROVE RecordOK(mem') /\ Called OBVIOUS
<1> DEFINE op == Head(todo)
<1>1. /\ Op1(Ints, {"update"}) /\ Record(op.key, op.id, op.value, op.item.data) /\ Landed(op, Entry(op, op.id, op.item))
      /\ entries' = IF LiveEntry(op.id) THEN [entries EXCEPT ![op.id].data = Opaque] ELSE entries
  BY <1>0 DEF AdoptEntry
<1>2. /\ op \in Executables /\ op.key \in Ints /\ op.key \in Keys /\ op.key \notin Subs /\ op.kind = "update"
      /\ IdsOf(op.key) = EntryIds /\ op.value \in Sent /\ op.item.data \in Datas /\ op.id \in EntryIds
  BY <1>0, <1>1, IntCall
<1>3. op.id # None BY <1>2, IntegrationsAssumption DEF Ids
<1>4. (todo' \in Rests \/ todo' = <<>>) /\ applied' = applied \cup {<<op.kind, op.key>>} BY <1>1, LandedRests
<1>5. Unknown(entries', op.id)
  <2>1. entries \in [EntryIds -> Entries \cup {Gone}] BY <1>0, WorldTyped DEF TypeInv
  <2>2. CASE LiveEntry(op.id)
    <3>1. entries[op.id] \in Entries BY <1>2, <2>1, <2>2 DEF LiveEntry
    <3>2. [entries[op.id] EXCEPT !.data = Opaque].data = Opaque BY <3>1 DEF Entries
    <3>3. entries' = [entries EXCEPT ![op.id] = [entries[op.id] EXCEPT !.data = Opaque]] BY <1>1, <2>2
    <3> QED BY <1>2, <2>1, <3>2, <3>3 DEF Unknown
  <2>3. CASE ~LiveEntry(op.id) BY <1>1, <1>3, <2>3 DEF Unknown, Live0, LiveEntry
  <2> QED BY <2>2, <2>3
<1> HIDE DEF op
<1>6. RecordOK(mem') /\ RecordsAt(mem', mem, op.key, op.id, op.value) BY <1>0, <1>1, <1>2, <1>3, RecordWrites
<1>7. Writes(op.id, op.value) BY <1>2, <1>5, <1>6 DEF Writes, op
<1> QED BY <1>2, <1>4, <1>5, <1>6, <1>7 DEF Called, Turns, op

LEMMA DeleteEntryCalled == TypeInv /\ DeleteEntry => RecordOK(mem') /\ Called
<1>0. SUFFICES ASSUME TypeInv, DeleteEntry PROVE RecordOK(mem') /\ Called OBVIOUS
<1> DEFINE op == Head(todo)
<1>1. Op1(Ints, {"delete"}) BY <1>0 DEF DeleteEntry
<1>2. op.key \in Ints /\ op.key \in Keys /\ op.key \notin Subs /\ op.kind = "delete" BY <1>0, <1>1, IntCall
<1>3. \/ Forget(op.key) /\ todo' = Tail(todo) /\ applied' = applied
      \/ Forget(op.key) /\ \E entry : Landed(op, entry)
      \/ mem' = mem /\ Fail
  BY <1>0, Zenon DEF DeleteEntry
<1>4. (todo' \in Rests \/ todo' = <<>>) /\ applied' \in {applied, applied \cup {<<op.kind, op.key>>}}
  BY <1>3, LandedRests, FailRests DEF Rests
<1> HIDE DEF op
<1>5. RecordOK(mem') /\ (SameRecords(mem', mem) \/ RecordsAt(mem', mem, op.key, None, None))
  BY <1>0, <1>2, <1>3, ForgetWrites, SameWrites
<1>6. RecordsAt(mem', mem, op.key, None, None) => Writes(None, None) BY <1>2 DEF Writes, op
<1> QED BY <1>2, <1>4, <1>5, <1>6 DEF Called, Turns, op

LEMMA ForgetEntryCalled == TypeInv /\ ForgetEntry => RecordOK(mem') /\ Called
<1>0. SUFFICES ASSUME TypeInv, ForgetEntry PROVE RecordOK(mem') /\ Called OBVIOUS
<1> DEFINE op == Head(todo)
<1>1. /\ Op1(Ints, {"forget"}) /\ Record(op.key, None, None, None) /\ \E entry : Landed(op, entry)
  BY <1>0 DEF ForgetEntry, Record
<1>2. op.key \in Ints /\ op.key \in Keys /\ op.key \notin Subs /\ op.kind = "forget" BY <1>0, <1>1, IntCall
<1>3. (todo' \in Rests \/ todo' = <<>>) /\ applied' = applied \cup {<<op.kind, op.key>>} BY <1>1, LandedRests
<1> HIDE DEF op
<1>4. RecordOK(mem') /\ RecordsAt(mem', mem, op.key, None, None) BY <1>0, <1>1, <1>2, RecordWrites
<1>5. Writes(None, None) BY <1>2, <1>4 DEF Writes, op
<1> QED BY <1>2, <1>3, <1>4, <1>5 DEF Called, Turns, op

\* What the first operation is, when it is about a subentry.
LEMMA SubCall ==
  ASSUME TypeInv, todo # <<>>, Head(todo).key \in Subs
  PROVE  LET op == Head(todo) IN
           /\ op \in Executables /\ op.key \in Keys /\ op.key \notin Ints /\ IdsOf(op.key) = SubIds
           /\ op.kind \in {"create", "update"} => op.value \in Sent
           /\ op.kind \in {"update", "unmanage"} => op.id \in SubIds
<1>1. Head(todo) \in Executables /\ Head(todo) \in Ops BY HeadFacts DEF TypeInv
<1>2. Head(todo).key \notin Ints /\ Head(todo).key \notin HacsIds BY IntegrationsAssumption
<1> QED BY <1>1, <1>2, OpShape DEF Keys, IdsOf

LEMMA CreateSubCalled == TypeInv /\ CreateSub => RecordOK(mem') /\ Called
<1>0. SUFFICES ASSUME TypeInv, CreateSub PROVE RecordOK(mem') /\ Called OBVIOUS
<1>1. /\ todo # <<>> /\ Head(todo).key \in Subs /\ Head(todo).kind = "create" BY <1>0 DEF CreateSub, Op1
<1>2. \/ mem' = mem /\ todo' = todo /\ applied' = applied
      \/ (mem' = mem \/ Attempt(Head(todo), FALSE)) /\ Fail
  BY <1>0, Zenon DEF CreateSub
<1>3. Head(todo) \in Executables /\ Head(todo).value \in Sent /\ Head(todo).key \notin Ints BY <1>0, <1>1, SubCall
<1>4. RecordOK(mem') /\ SameRecords(mem', mem) BY <1>0, <1>2, <1>3, SameWrites, AttemptWrites
<1>5. Fail => todo' \in Rests /\ applied' = applied BY FailRests
<1> QED BY <1>1, <1>2, <1>3, <1>4, <1>5 DEF Called, Turns, Waits

LEMMA DiscoveredIsNew == \A item : Discovered(item) \subseteq {x \in SubIds \ seen : LiveSub(x)}
<1>1. SUFFICES ASSUME NEW item, NEW x \in Discovered(item) PROVE x \in Under(item.parent, item.type) \ seen
  BY DEF Under
<1> QED BY DEF Discovered

LEMMA FindSubCalled == TypeInv /\ FoundFresh /\ FindSub => RecordOK(mem') /\ Called
<1>0. SUFFICES ASSUME TypeInv, FoundFresh, FindSub PROVE RecordOK(mem') /\ Called OBVIOUS
<1> DEFINE op == Head(todo)
           one == CHOOSE x \in Discovered(op.item) : TRUE
<1>1. todo # <<>> /\ op.key \in Subs /\ op.kind = "create" /\ phase = "find" BY <1>0 DEF FindSub, TypeInv, ControlOK
<1>2. op \in Executables /\ op.value \in Sent /\ op.key \notin Ints /\ op.key \in Keys /\ IdsOf(op.key) = SubIds
  BY <1>0, <1>1, SubCall
<1>3. \/ Discovered(op.item) # {} /\ Record(op.key, one, op.value, None) /\ Succeed
      \/ Attempt(op, TRUE) /\ Fail
  BY <1>0, Zenon DEF FindSub
<1>4. subs' = subs BY <1>0 DEF FindSub, home
<1>5. Discovered(op.item) # {} => one \in SubIds /\ one \notin Mentioned /\ subs[one].data \in {Opaque, op.value} /\ one # None
  <2>1. SUFFICES ASSUME Discovered(op.item) # {}
                 PROVE  one \in SubIds /\ one \notin Mentioned /\ subs[one].data \in {Opaque, op.value} /\ one # None
    OBVIOUS
  <2>2. one \in Discovered(op.item) BY <2>1
  <2>3. one \in SubIds \ seen /\ LiveSub(one) BY <2>2, DiscoveredIsNew
  <2> QED BY <1>0, <1>1, <2>3 DEF FoundFresh, LiveSub, Live0
<1>6. todo' \in Rests /\ applied' \in {applied, applied \cup {<<op.kind, op.key>>}} BY <1>3, FailRests, SucceedRests
<1> HIDE DEF op, one
<1>7. RecordOK(mem') /\ (SameRecords(mem', mem) \/ (Discovered(op.item) # {} /\ RecordsAt(mem', mem, op.key, one, op.value)))
  BY <1>0, <1>2, <1>3, <1>5, AttemptWrites, RecordWrites
<1>8. Discovered(op.item) # {} /\ RecordsAt(mem', mem, op.key, one, op.value) => Writes(one, op.value)
  BY <1>2, <1>4, <1>5 DEF Writes, op
<1> QED BY <1>1, <1>2, <1>6, <1>7, <1>8 DEF Called, Turns, op

LEMMA UpdateSubCalled == TypeInv /\ UpdateSub => RecordOK(mem') /\ Called
<1>0. SUFFICES ASSUME TypeInv, UpdateSub PROVE RecordOK(mem') /\ Called OBVIOUS
<1> DEFINE op == Head(todo)
<1>1. todo # <<>> /\ op.key \in Subs /\ op.kind = "update" BY <1>0 DEF UpdateSub, Op1
<1>2. /\ op \in Executables /\ op.value \in Sent /\ op.id \in SubIds /\ op.key \notin Ints /\ op.key \in Keys
      /\ IdsOf(op.key) = SubIds /\ op.id # None
  <2>1. None \notin SubIds BY IntegrationsAssumption DEF Ids
  <2> QED BY <1>0, <1>1, <2>1, SubCall
<1>3. \/ Reconfigured /\ Record(op.key, op.id, op.value, None) /\ Succeed
      \/ Attempt(op, FALSE) /\ Fail
  BY <1>0, Zenon DEF UpdateSub, Reconfigured
<1>4. todo' \in Rests /\ applied' \in {applied, applied \cup {<<op.kind, op.key>>}} BY <1>3, FailRests, SucceedRests
<1> HIDE DEF op
<1>5. RecordOK(mem') /\ (SameRecords(mem', mem) \/ (Reconfigured /\ RecordsAt(mem', mem, op.key, op.id, op.value)))
  BY <1>0, <1>2, <1>3, AttemptWrites, RecordWrites
<1>6. Reconfigured /\ RecordsAt(mem', mem, op.key, op.id, op.value) => Writes(op.id, op.value) BY <1>2 DEF Writes, op
<1> QED BY <1>1, <1>2, <1>4, <1>5, <1>6 DEF Called, Turns, op

LEMMA UnmanageCalled == TypeInv /\ Unmanage => RecordOK(mem') /\ Called
<1>0. SUFFICES ASSUME TypeInv, Unmanage PROVE RecordOK(mem') /\ Called OBVIOUS
<1> DEFINE op == Head(todo)
<1>1. todo # <<>> /\ op.key \in Subs /\ op.kind = "unmanage" /\ Record(op.key, None, None, None) /\ Succeed
  BY <1>0 DEF Unmanage, Op1
<1>2. op.key \in Keys /\ op.key \notin Ints BY <1>0, <1>1, SubCall
<1>3. todo' \in Rests /\ applied' = applied \cup {<<op.kind, op.key>>} BY <1>1, SucceedRests
<1> HIDE DEF op
<1>4. RecordOK(mem') /\ RecordsAt(mem', mem, op.key, None, None) BY <1>0, <1>1, <1>2, RecordWrites
<1>5. Writes(None, None) BY <1>2, <1>4 DEF Writes, op
<1>6. mem'.managed[op.key] = None
  <2>1. mem.managed \in [Keys -> Ids0] BY <1>0, RecordFields DEF TypeInv, TypeOK
  <2> QED BY <1>2, <1>4, <2>1 DEF RecordsAt
<1> QED BY <1>1, <1>2, <1>3, <1>4, <1>5, <1>6 DEF Called, Turns, op

LEMMA CallView == TypeInv /\ FoundFresh /\ OneCall => RecordOK(mem') /\ Called
BY RunHacsCalled, ListEntriesCalled, CreateEntryCalled, CreateFailsCalled, AdoptEntryCalled, DeleteEntryCalled,
   ForgetEntryCalled, CreateSubCalled, FindSubCalled, UpdateSubCalled, UnmanageCalled, Zenon DEF OneCall

-----------------------------------------------------------------------------
(* One step of a Roll Back                                                  *)

Undone(id, hash) ==
  LET k == executed[pos].key IN
    /\ RecordsAt(mem', mem, k, id, hash)
    /\ id = None \/ (id \notin Mentioned /\ entries'[id].data = hash) \/ Unknown(entries', id)

LEMMA JournalAt ==
  ASSUME TypeInv, pos > 0
  PROVE  LET e == executed[pos] IN
           /\ e \in Journals /\ e \in Journalled0 /\ e.key \in Ints /\ e.key \in Keys /\ e.id \in EntryIds /\ e.id # None
           /\ e.data \in Datas \cup {None} /\ e.hash \in Sent \cup {None} /\ IdsOf(e.key) = EntryIds
<1>1. pos \in 1 .. Len(executed) /\ executed \in Seq(Journals) BY DEF TypeInv, TypeOK
<1>2. executed[pos] \in Journals /\ executed[pos] \in ToSet(executed) BY <1>1 DEF ToSet
<1>3. executed[pos].key \in Ints => executed[pos].key \notin HacsIds BY IntegrationsAssumption
<1>4. None \notin EntryIds BY IntegrationsAssumption DEF Ids
<1> QED BY <1>2, <1>3, <1>4, JournalShape DEF Journalled0, Keys, IdsOf

LEMMA UndoView ==
  TypeInv /\ ForgottenUnknown(entries, Journalled0) /\ UndoOne =>
    RecordOK(mem') /\ (SameRecords(mem', mem) \/ \E id, hash : Undone(id, hash))
<1>0. SUFFICES ASSUME TypeInv, ForgottenUnknown(entries, Journalled0), UndoOne
               PROVE  RecordOK(mem') /\ (SameRecords(mem', mem) \/ \E id, hash : Undone(id, hash))
  OBVIOUS
<1> DEFINE e == executed[pos]
           value == Resolve(e.data)
           oldHash == IF e.hash = None THEN mem.hash[e.key] ELSE e.hash
           oldData == IF e.data = None THEN mem.data[e.key] ELSE e.data
<1>1. pos > 0 BY <1>0 DEF UndoOne
<1>2. /\ e \in Journals /\ e \in Journalled0 /\ e.key \in Ints /\ e.key \in Keys /\ e.id \in EntryIds /\ e.id # None
      /\ e.data \in Datas \cup {None} /\ e.hash \in Sent \cup {None} /\ IdsOf(e.key) = EntryIds
  BY <1>0, <1>1, JournalAt
<1>3. RecordOK(mem) BY <1>0 DEF TypeInv, TypeOK
<1>4. \/ mem' = mem
      \/ Forget(e.key)
      \/ e.kind = "forget" /\ entries' = entries /\ mem' = Changed3(mem, e.key, e.id, oldHash, oldData)
      \/ /\ CanMakeEntry /\ value # None /\ (\E t : entries' = NewInt(e, t, value))
         /\ mem' = Changed3(mem, e.key, NewEntry, value, e.data)
  <2>1. CASE e.kind = "delete"
    <3>1. \/ mem' = mem
          \/ /\ CanMakeEntry /\ value # None /\ mem' = Changed3(mem, e.key, NewEntry, value, e.data)
             /\ \/ entries' = NewInt(e, e.title, value)
                \/ \E t \in Titles \ {e.title} : entries' = NewInt(e, t, value)
      BY <1>0, <2>1 DEF UndoOne, Changed3
    <3> QED BY <3>1, Zenon
  <2>2. CASE e.kind = "forget"
    BY <1>0, <2>2 DEF UndoOne, Changed3
  <2>3. CASE e.kind \notin {"delete", "forget"}
    BY <1>0, <2>3 DEF UndoOne
  <2> QED BY <2>1, <2>2, <2>3
<1>5. oldHash \in Sent \cup {None} /\ oldData \in Datas \cup {None} BY <1>2, <1>3, RecordFields
<1>6. value # None => value \in Sent BY <1>0, <1>2, ResolveTyped DEF TypeInv
<1>7. CanMakeEntry => NewEntry \in EntryIds /\ NewEntry \notin Mentioned /\ NewEntry # None
  BY FreshIds, IntegrationsAssumption DEF Ids
<1>8. e.kind = "forget" => Unknown(entries, e.id) BY <1>0, <1>2 DEF ForgottenUnknown
<1>9. \A id, hash : Undone(id, hash) <=>
        /\ RecordsAt(mem', mem, e.key, id, hash)
        /\ id = None \/ (id \notin Mentioned /\ entries'[id].data = hash) \/ Unknown(entries', id)
  BY DEF Undone
<1>10. CanMakeEntry /\ (\E t : entries' = NewInt(e, t, value)) => entries'[NewEntry].data = value
  BY <1>0, <1>7, WorldTyped DEF NewInt, TypeInv
<1> HIDE DEF e, value, oldHash, oldData
<1>11. CASE mem' = mem BY <1>0, <1>11, SameWrites
<1>12. CASE Forget(e.key)
  <2>1. RecordOK(mem') /\ RecordsAt(mem', mem, e.key, None, None) BY <1>0, <1>2, <1>12, ForgetWrites
  <2> QED BY <1>9, <2>1
<1>13. CASE e.kind = "forget" /\ entries' = entries /\ mem' = Changed3(mem, e.key, e.id, oldHash, oldData)
  <2>1. RecordOK(mem') /\ RecordsAt(mem', mem, e.key, e.id, oldHash) BY <1>2, <1>3, <1>5, <1>13, Changed3Typed
  <2>2. Unknown(entries', e.id) BY <1>8, <1>13
  <2> QED BY <1>9, <2>1, <2>2
<1>14. CASE /\ CanMakeEntry /\ value # None /\ (\E t : entries' = NewInt(e, t, value))
            /\ mem' = Changed3(mem, e.key, NewEntry, value, e.data)
  <2>1. RecordOK(mem') /\ RecordsAt(mem', mem, e.key, NewEntry, value) BY <1>2, <1>3, <1>6, <1>7, <1>14, Changed3Typed
  <2> QED BY <1>7, <1>9, <1>10, <1>14, <2>1
<1> QED BY <1>4, <1>11, <1>12, <1>13, <1>14

-----------------------------------------------------------------------------
(* Every step keeps the types, continued                                    *)

LEMMA RecordsStep == TypeInv /\ Truth /\ [Next]_vars => RecordOK(saved') /\ RecordOK(mem')
<1>0. SUFFICES ASSUME TypeInv, Truth, [Next]_vars PROVE RecordOK(saved') /\ RecordOK(mem') OBVIOUS
<1>1. RecordOK(saved) /\ RecordOK(mem) BY <1>0 DEF TypeInv, TypeOK
<1>2. CASE OneCall
  <2>1. RecordOK(mem') BY <1>0, <1>2, CallView DEF Truth, SubsOK, IntsOK
  <2>2. saved' = saved
    BY <1>2, Zenon DEF OneCall, RunHacs, ListEntries, CreateEntry, CreateFails, AdoptEntry, DeleteEntry, ForgetEntry, CreateSub,
                       FindSub, UpdateSub, Unmanage, disk
  <2> QED BY <1>1, <2>1, <2>2
<1>3. CASE UndoOne
  <2>1. RecordOK(mem') BY <1>0, <1>3, UndoView DEF Truth, SubsOK, IntsOK
  <2>2. saved' = saved BY <1>3 DEF UndoOne
  <2> QED BY <1>1, <2>1, <2>2
<1>4. CASE Crash \/ StateSave
  <2>1. mem' = NoRecords /\ (saved' = saved \/ saved' = mem) BY <1>4, Zenon DEF Crash, StateSave, Clear, disk
  <2> QED BY <1>1, <2>1, NoRecordsTyped
<1>5. CASE \E k \in Keys : Retry(k)
  <2>1. PICK k \in Keys : Retry(k) BY <1>5
  <2>2. mem' = mem /\ saved' = [saved EXCEPT !.attempts[k] = None] BY <2>1 DEF Retry, working
  <2>3. None \in [hash : Sent \cup HacsItems, created : BOOLEAN] \cup {None} OBVIOUS
  <2> QED BY <1>1, <2>2, <2>3, AttemptTyped
<1>6. CASE StartApply
  <2> DEFINE rem == IF reminder = None THEN saved.reminder ELSE reminder
  <2>1. saved' = saved /\ mem' = [saved EXCEPT !.reminder = rem] BY <1>6 DEF StartApply
  <2>2. rem \in SUBSET Domains BY <1>0, <1>1, RecordFields DEF TypeInv, TypeOK
  <2> HIDE DEF rem
  <2> QED BY <1>1, <2>1, <2>2, ReminderTyped
<1>7. CASE StartRollback
  <2>1. saved' = saved /\ mem' = saved BY <1>7 DEF StartRollback, disk
  <2> QED BY <1>1, <2>1
<1>8. CASE Push \/ Edit \/ Restart \/ Reconcile \/ FetchFails \/ UNCHANGED vars
  <2>1. saved' = saved /\ mem' = mem BY <1>8, Zenon DEF Push, Edit, Restart, Reconcile, FetchFails, vars, disk, working
  <2> QED BY <1>1, <2>1
<1> QED BY <1>0, <1>2, <1>3, <1>4, <1>5, <1>6, <1>7, <1>8, Zenon DEF Next, Apply, OneCall

\* What is left of the plan and of what can be done of it.
LEMMA ExecutableTyped ==
  ASSUME NEW ops \in Seq(Ops)
  PROVE  /\ Executable(ops) \in Seq(Executables) /\ ToSet(Executable(ops)) = {op \in ToSet(ops) : op.kind # "error"}
         /\ InOrder(ops, Planned) => InOrder(Executable(ops), Planned)
<1> DEFINE at == {n \in DOMAIN ops : ops[n].kind # "error"}
           left == Executable(ops)
<1>1. left = Select(ops, at) BY DEF Executable
<1>2. Select(ops, at) \in Seq(Ops) /\ ToSet(Select(ops, at)) = {ops[n] : n \in at \cap DOMAIN ops} BY SelectMembers
<1>3. InOrder(ops, Planned) => InOrder(Select(ops, at), Planned) BY SelectInOrder
<1>4. {ops[n] : n \in at \cap DOMAIN ops} = {op \in ToSet(ops) : op.kind # "error"} BY DEF ToSet
<1> HIDE DEF at
<1>5. left \in Seq(Ops) /\ ToSet(left) = {op \in ToSet(ops) : op.kind # "error"} BY <1>1, <1>2, <1>4
<1>6. ToSet(left) \subseteq Executables
  <2>1. ToSet(ops) \subseteq Ops BY ElementsTyped
  <2> QED BY <1>5, <2>1, OpShape DEF Ops
<1> HIDE DEF left
<1>7. left \in Seq(Executables)
  <2>1. DOMAIN left = 1 .. Len(left) /\ Len(left) \in Nat BY <1>5
  <2>2. \A n \in 1 .. Len(left) : left[n] \in Executables BY <1>6, <2>1 DEF ToSet
  <2> QED BY <1>5, <2>1, <2>2
<1> QED BY <1>1, <1>3, <1>5, <1>7 DEF left

LEMMA StillPendingTyped ==
  ASSUME TypeOK
  PROVE  /\ StillPending \in Seq(Ops) /\ ToSet(StillPending) \subseteq ToSet(plan)
         /\ InOrder(plan, Planned) => InOrder(StillPending, Planned)
         /\ failed = {} => \A op \in ToSet(StillPending) : op.kind = "error"
         /\ failed # {} => \A op : op \in ToSet(StillPending) <=> op \in ToSet(plan) /\ <<op.kind, op.key>> \notin applied
<1> DEFINE at == {n \in DOMAIN plan : IF failed = {} THEN plan[n].kind = "error"
                                     ELSE <<plan[n].kind, plan[n].key>> \notin applied}
<1>1. plan \in Seq(Ops) BY DEF TypeOK, Ops
<1>2. StillPending = Select(plan, at) BY DEF StillPending
<1>3. Select(plan, at) \in Seq(Ops) /\ ToSet(Select(plan, at)) = {plan[n] : n \in at \cap DOMAIN plan} BY <1>1, SelectMembers
<1>4. InOrder(plan, Planned) => InOrder(Select(plan, at), Planned) BY <1>1, SelectInOrder
<1>5. {plan[n] : n \in at \cap DOMAIN plan} \subseteq ToSet(plan) BY DEF ToSet
<1>6. failed = {} => \A op \in {plan[n] : n \in at \cap DOMAIN plan} : op.kind = "error" OBVIOUS
<1>7. failed # {} => \A op : op \in {plan[n] : n \in at \cap DOMAIN plan} <=> op \in ToSet(plan) /\ <<op.kind, op.key>> \notin applied
  BY DEF ToSet
<1> HIDE DEF at
<1> QED BY <1>2, <1>3, <1>4, <1>5, <1>6, <1>7

LEMMA ApartHolds == Truth => Apart
BY DEF Truth, IntsOK, SubsOK, IntsTrue, SavedSubsTrue, Apart

LEMMA EmptyTyped == <<>> \in Seq(Ops) /\ <<>> \in Seq(Executables) /\ <<>> \in Seq(Journals) /\ ToSet(<<>>) = {} /\ InOrder(<<>>, Planned)
BY OfOne, EmptySound DEF Sound

LEMMA OpsStep == TypeInv /\ Truth /\ [Next]_vars => plan' \in Seq(Ops) /\ todo' \in Seq(Executables)
<1>0. SUFFICES ASSUME TypeInv, Truth, [Next]_vars PROVE plan' \in Seq(Ops) /\ todo' \in Seq(Executables) OBVIOUS
<1>1. plan \in Seq(Ops) /\ todo \in Seq(Executables) BY <1>0 DEF TypeInv, TypeOK, Ops
<1>2. CASE OneCall
  <2>1. plan' = plan
    BY <1>2, Zenon DEF OneCall, RunHacs, ListEntries, CreateEntry, CreateFails, AdoptEntry, DeleteEntry, ForgetEntry, CreateSub,
                       FindSub, UpdateSub, Unmanage
  <2>2. Called /\ todo # <<>> BY <1>0, <1>2, CallView, CallFacts DEF Truth, SubsOK
  <2>3. todo' = todo \/ todo' = <<>> \/ todo' \in Rests BY <2>2 DEF Called, Waits, GivesUp, Turns
  <2>4. todo' \in Rests => todo' \in Seq(Executables) BY <1>0, <2>2, RestFacts DEF TypeInv
  <2> QED BY <1>1, <2>1, <2>3, <2>4, EmptyTyped
<1>3. CASE Crash
  <2>1. plan' = <<>> /\ todo' = <<>> BY <1>3 DEF Crash, Clear
  <2> QED BY <2>1, EmptyTyped
<1>4. CASE StateSave
  <2>1. (plan' = plan \/ plan' = StillPending) /\ todo' = <<>> BY <1>4, Zenon DEF StateSave, Clear
  <2> QED BY <1>0, <1>1, <2>1, StillPendingTyped, EmptyTyped DEF TypeInv
<1>5. CASE Reconcile \/ FetchFails
  <2>1. /\ todo' = todo
        /\ plan' = <<>> \/ (Loaded /\ plan' \in {Plan, PlanInts(saved.attempts) \o PlanSubs(saved.attempts)})
    BY <1>5 DEF Reconcile, FetchFails, working
  <2>2. Loaded => Sound(Plan) /\ Sound(PlanInts(saved.attempts) \o PlanSubs(saved.attempts))
    BY <1>0, ApartHolds, PlanSound DEF TypeInv
  <2> QED BY <1>1, <2>1, <2>2, EmptyTyped DEF Sound
<1>6. CASE StartApply
  <2>1. plan' = plan /\ (todo' = Executable(plan) \/ todo' = <<>>) BY <1>6, Zenon DEF StartApply
  <2> QED BY <1>1, <2>1, ExecutableTyped, EmptyTyped
<1>7. CASE StartRollback
  <2>1. plan' = plan /\ todo' = <<>> BY <1>7 DEF StartRollback
  <2> QED BY <1>1, <2>1, EmptyTyped
<1>8. CASE Push \/ Edit \/ Restart \/ (\E k \in Keys : Retry(k)) \/ UndoOne \/ UNCHANGED vars
  <2>1. plan' = plan /\ todo' = todo BY <1>8, Zenon DEF Push, Edit, Restart, Retry, UndoOne, vars, working
  <2> QED BY <1>1, <2>1
<1> QED BY <1>0, <1>2, <1>3, <1>4, <1>5, <1>6, <1>7, <1>8, Zenon DEF Next, Apply, OneCall

-----------------------------------------------------------------------------
(* The journals                                                             *)

\* What an apply adds to its journal.
Adds(entry) ==
  /\ executed' \in Seq(Journals) /\ journals' \in [1 .. 2 -> Seq(Journals)]
  /\ \A e \in Journalled0' : e \in Journalled0 \/ e = entry

LEMMA JournalledAdds ==
  ASSUME TypeInv, NEW entry \in Journals, Journalled(entry)
  PROVE  Adds(entry)
<1>1. executed \in Seq(Journals) /\ journals \in [1 .. 2 -> Seq(Journals)] BY DEF TypeInv, TypeOK
<1>2. executed' = Append(executed, entry) /\ journals' = [journals EXCEPT ![cur] = executed'] BY DEF Journalled
<1>3. executed' \in Seq(Journals) BY <1>1, <1>2
<1>4. ToSet(executed') = ToSet(executed) \cup {entry} BY <1>1, <1>2, AppendMembers
<1>5. journals' \in [1 .. 2 -> Seq(Journals)] BY <1>1, <1>2, <1>3
<1>6. \A d \in 1 .. 2 : journals'[d] \in {journals[d], executed'} BY <1>1, <1>2
<1>7. Journalled0' = ToSet(executed') \cup ToSet(journals'[1]) \cup ToSet(journals'[2]) BY DEF Journalled0
<1>8. ToSet(journals'[1]) \in {ToSet(journals[1]), ToSet(executed')} /\ ToSet(journals'[2]) \in {ToSet(journals[2]), ToSet(executed')}
  BY <1>6
<1> QED BY <1>3, <1>4, <1>5, <1>7, <1>8 DEF Adds, Journalled0

LEMMA SameAdds == TypeInv /\ executed' = executed /\ journals' = journals => \A entry : Adds(entry)
BY DEF TypeInv, TypeOK, Adds, Journalled0

LEMMA LandedAdds ==
  ASSUME TypeInv, NEW entry \in Journals, Landed(Head(todo), entry)
  PROVE  Adds(entry)
<1>1. Journalled(entry) \/ (executed' = executed /\ journals' = journals) BY Zenon DEF Landed
<1> QED BY <1>1, JournalledAdds, SameAdds

LEMMA EntryJournalled ==
  ASSUME TypeInv, NEW op, op.key \in Ints, NEW id \in EntryIds, NEW e,
         op.kind \in {"create", "update"} => op.item.data \in Datas,
         \/ op.kind \in {"create", "update", "delete"} /\ e.domain \in Domains /\ e.title \in Titles
         \/ op.kind = "forget" /\ e.domain = None /\ e.title = None
  PROVE  Entry(op, id, e) \in Journals /\ Entry(op, id, e).kind = op.kind /\ Entry(op, id, e).id = id
<1>1. op.key \in Keys BY DEF Keys
<1>2. mem.data[op.key] \in Datas \cup {None} /\ mem.hash[op.key] \in Sent \cup {None}
  BY <1>1, RecordFields DEF TypeInv, TypeOK
<1> DEFINE data == IF op.kind \in {"create", "update"} THEN op.item.data ELSE mem.data[op.key]
<1>3. data \in Datas \cup {None} BY <1>2
<1>4. Entry(op, id, e) = [kind |-> op.kind, key |-> op.key, id |-> id, domain |-> e.domain, title |-> e.title,
                          data |-> data, hash |-> mem.hash[op.key]]
  BY DEF Entry
<1> HIDE DEF data
<1> QED BY <1>2, <1>3, <1>4 DEF Journals

LEMMA CallJournals ==
  ASSUME TypeInv, OneCall
  PROVE  \E entry : Adds(entry) /\ (entry.kind = "forget" => ForgetEntry /\ entry.id = Head(todo).id)
<1> DEFINE op == Head(todo)
           none == [kind |-> "none"]
<1>1. CASE RunHacs \/ ListEntries \/ CreateFails \/ CreateSub \/ FindSub \/ UpdateSub \/ Unmanage
  <2>1. executed' = executed /\ journals' = journals
    BY <1>1, Zenon DEF RunHacs, ListEntries, CreateFails, CreateSub, FindSub, UpdateSub, Unmanage, disk
  <2>2. Adds(none) BY <2>1, SameAdds
  <2>3. none.kind # "forget" OBVIOUS
  <2> QED BY <2>2, <2>3
<1>2. CASE CreateEntry
  <2>1. Op1(Ints, {"create"}) /\ CanMakeEntry BY <1>2 DEF CreateEntry
  <2>2. op.key \in Ints /\ op.kind = "create" /\ op.item \in IntItems BY <2>1, IntHead DEF TypeInv
  <2>3. NewEntry \in EntryIds BY <2>1, FreshIds
  <2> DEFINE entry == Entry(op, NewEntry, op.item)
  <2>4. entry \in Journals /\ entry.kind = "create" BY <2>2, <2>3, EntryJournalled, ItemShape
  <2>5. Landed(op, entry) \/ Journalled(entry) BY <1>2, Zenon DEF CreateEntry
  <2> HIDE DEF entry
  <2>6. Adds(entry) BY <2>4, <2>5, LandedAdds, JournalledAdds
  <2> QED BY <2>4, <2>6
<1>3. CASE AdoptEntry
  <2> DEFINE entry == Entry(op, op.id, op.item)
  <2>1. Op1(Ints, {"update"}) /\ Landed(op, entry) BY <1>3 DEF AdoptEntry
  <2>2. op.key \in Ints /\ op.kind = "update" /\ op.item \in IntItems /\ op.id \in EntryIds BY <2>1, IntHead DEF TypeInv
  <2>3. entry \in Journals /\ entry.kind = "update" BY <2>2, EntryJournalled, ItemShape
  <2> HIDE DEF entry
  <2>4. Adds(entry) BY <2>1, <2>3, LandedAdds
  <2> QED BY <2>3, <2>4
<1>4. CASE DeleteEntry
  <2> DEFINE entry == Entry(op, op.id, fetched[op.id])
  <2>1. /\ Op1(Ints, {"delete"}) /\ fetched # None
        /\ (fetched[op.id] # Gone /\ Landed(op, entry)) \/ (executed' = executed /\ journals' = journals)
    BY <1>4, Zenon DEF DeleteEntry
  <2>2. op.key \in Ints /\ op.kind = "delete" /\ op.id \in EntryIds BY <2>1, IntHead DEF TypeInv
  <2>3. fetched[op.id] # Gone => entry \in Journals /\ entry.kind = "delete"
    <3>1. fetched[op.id] # Gone => fetched[op.id] \in Entries BY <2>1, <2>2 DEF TypeInv, TypeOK
    <3> QED BY <2>2, <3>1, EntryJournalled, EntryShape
  <2>4. [kind |-> "none"].kind # "forget" OBVIOUS
  <2> HIDE DEF entry
  <2>5. CASE fetched[op.id] # Gone /\ Landed(op, entry)
    <3>1. Adds(entry) BY <2>3, <2>5, LandedAdds
    <3> QED BY <2>3, <2>5, <3>1
  <2>6. CASE executed' = executed /\ journals' = journals
    <3>1. Adds(none) BY <2>6, SameAdds
    <3> QED BY <2>4, <3>1
  <2> QED BY <2>1, <2>5, <2>6
<1>5. CASE ForgetEntry
  <2> DEFINE e == [domain |-> None, title |-> None]
             entry == Entry(op, op.id, e)
  <2>1. Op1(Ints, {"forget"}) /\ Landed(op, entry) BY <1>5 DEF ForgetEntry
  <2>2. op.key \in Ints /\ op.kind = "forget" /\ op.id \in EntryIds BY <2>1, IntHead DEF TypeInv
  <2>3. entry \in Journals /\ entry.id = op.id
    <3>1. e.domain = None /\ e.title = None OBVIOUS
    <3> HIDE DEF e
    <3> QED BY <2>2, <3>1, EntryJournalled
  <2> HIDE DEF entry
  <2>4. Adds(entry) BY <2>1, <2>3, LandedAdds
  <2> QED BY <1>5, <2>3, <2>4
<1> QED BY <1>1, <1>2, <1>3, <1>4, <1>5 DEF OneCall

LEMMA SelectedJournal ==
  ASSUME NEW s \in Seq(Journals), NEW S
  PROVE  Select(s, S) \in Seq(Journals) /\ ToSet(Select(s, S)) \subseteq ToSet(s)
<1>1. Select(s, S) \in Seq(Journals) /\ ToSet(Select(s, S)) = {s[i] : i \in S \cap DOMAIN s} BY SelectMembers
<1> QED BY <1>1 DEF ToSet

\* The journals and where they are read.
JournalsOK ==
  /\ savedPointer \in 0 .. 2 /\ pointer \in 0 .. 2 /\ cur \in 0 .. 2
  /\ journals \in [1 .. 2 -> Seq(Journals)] /\ executed \in Seq(Journals)
  /\ pos \in 0 .. Len(executed) /\ outstanding \subseteq DOMAIN executed

LEMMA JournalsStep == TypeInv /\ [Next]_vars => JournalsOK' /\ (OneCall \/ Journalled0' \subseteq Journalled0)
<1>0. SUFFICES ASSUME TypeInv, [Next]_vars PROVE JournalsOK' /\ (OneCall \/ Journalled0' \subseteq Journalled0) OBVIOUS
<1>1. JournalsOK BY <1>0 DEF TypeInv, TypeOK, JournalsOK
<1>2. Len(<<>>) = 0 /\ DOMAIN <<>> = {} OBVIOUS
<1>3. CASE OneCall
  <2>1. executed' \in Seq(Journals) /\ journals' \in [1 .. 2 -> Seq(Journals)] BY <1>0, <1>3, CallJournals DEF Adds
  <2>2. /\ savedPointer' = savedPointer /\ pointer' = pointer /\ cur' = cur /\ pos' = pos /\ outstanding' = outstanding
    BY <1>3, Zenon DEF OneCall, RunHacs, ListEntries, CreateEntry, CreateFails, AdoptEntry, DeleteEntry, ForgetEntry, CreateSub,
                       FindSub, UpdateSub, Unmanage, disk
  <2>3. pos = 0 /\ outstanding = {} BY <1>0, <1>3, CallFacts DEF TypeInv, ControlOK
  <2> QED BY <1>1, <1>3, <2>1, <2>2, <2>3 DEF JournalsOK
<1>4. CASE Crash
  <2>1. /\ executed' = <<>> /\ pos' = 0 /\ outstanding' = {} /\ cur' = 0 /\ journals' = journals
        /\ savedPointer' = savedPointer /\ pointer' = savedPointer
    BY <1>4 DEF Crash, Clear, disk
  <2> QED BY <1>1, <1>2, <2>1, EmptyTyped DEF JournalsOK, Journalled0
<1>5. CASE StateSave
  <2>1. /\ executed' = <<>> /\ pos' = 0 /\ outstanding' = {} /\ cur' = 0 /\ journals' = journals
        /\ savedPointer' \in {savedPointer, pointer, cur, 0} /\ pointer' \in {pointer, cur, 0}
    BY <1>5 DEF StateSave, Clear
  <2> QED BY <1>1, <1>2, <2>1, EmptyTyped DEF JournalsOK, Journalled0
<1>6. CASE StartApply
  <2>1. /\ executed' = <<>> /\ pos' = pos /\ outstanding' = outstanding /\ savedPointer' = savedPointer /\ pointer' = pointer
        /\ cur' \in {0, OtherStash(pointer)} /\ (journals' = journals \/ journals' = [journals EXCEPT ![cur'] = <<>>])
    BY <1>6 DEF StartApply
  <2>2. pos = 0 /\ outstanding = {} BY <1>0, <1>6 DEF StartApply, Idle, TypeInv, ControlOK
  <2>3. cur' \in 0 .. 2 BY <2>1 DEF OtherStash
  <2>4. journals' \in [1 .. 2 -> Seq(Journals)] /\ \A d \in 1 .. 2 : ToSet(journals'[d]) \subseteq ToSet(journals[d])
    BY <1>1, <2>1, EmptyTyped DEF JournalsOK
  <2> QED BY <1>1, <1>2, <2>1, <2>2, <2>3, <2>4, EmptyTyped DEF JournalsOK, Journalled0
<1>7. CASE StartRollback
  <2>1. /\ executed' = journals[pointer] /\ outstanding' = 1 .. Len(executed') /\ pos' \in {0, Len(executed')} /\ cur' = pointer
        /\ savedPointer' = savedPointer /\ pointer' = pointer /\ journals' = journals /\ pointer # 0
    BY <1>7 DEF StartRollback, disk
  <2>2. pointer \in 1 .. 2 BY <1>1, <2>1 DEF JournalsOK
  <2>3. executed' \in Seq(Journals) BY <1>1, <2>1, <2>2 DEF JournalsOK
  <2>4. DOMAIN executed' = 1 .. Len(executed') /\ Len(executed') \in Nat BY <2>3
  <2>5. ToSet(executed') \subseteq Journalled0 BY <2>1, <2>2 DEF Journalled0
  <2> QED BY <1>1, <2>1, <2>3, <2>4, <2>5 DEF JournalsOK, Journalled0
<1>8. CASE UndoOne
  <2>1. /\ executed' = executed /\ pos > 0 /\ pos' = pos - 1 /\ savedPointer' = savedPointer /\ pointer' = pointer /\ cur' = cur
        /\ \/ outstanding' = outstanding /\ journals' = journals
           \/ outstanding' = outstanding \ {pos} /\ journals' = [journals EXCEPT ![cur] = Remaining(outstanding')]
    BY <1>8, Zenon DEF UndoOne
  <2>2. Remaining(outstanding') \in Seq(Journals) /\ ToSet(Remaining(outstanding')) \subseteq ToSet(executed)
    <3>1. executed \in Seq(Journals) BY <1>1 DEF JournalsOK
    <3> QED BY <3>1, SelectedJournal DEF Remaining
  <2>3. /\ journals' \in [1 .. 2 -> Seq(Journals)]
        /\ \A d \in 1 .. 2 : ToSet(journals'[d]) \subseteq ToSet(journals[d]) \cup ToSet(executed)
    BY <1>1, <2>1, <2>2 DEF JournalsOK
  <2>4. pos' \in 0 .. Len(executed) /\ outstanding' \subseteq DOMAIN executed BY <1>1, <2>1 DEF JournalsOK
  <2> QED BY <1>1, <2>1, <2>3, <2>4 DEF JournalsOK, Journalled0
<1>9. CASE Push \/ Edit \/ Restart \/ Reconcile \/ FetchFails \/ (\E k \in Keys : Retry(k)) \/ UNCHANGED vars
  <2>1. /\ executed' = executed /\ pos' = pos /\ outstanding' = outstanding /\ cur' = cur /\ journals' = journals
        /\ savedPointer' = savedPointer /\ pointer' = pointer
    BY <1>9, Zenon DEF Push, Edit, Restart, Reconcile, FetchFails, Retry, vars, disk, working
  <2> QED BY <1>1, <2>1 DEF JournalsOK, Journalled0
<1> QED BY <1>0, <1>3, <1>4, <1>5, <1>6, <1>7, <1>8, <1>9, Zenon DEF Next, Apply, OneCall

-----------------------------------------------------------------------------
(* Where the apply stands                                                   *)

PhasesOK ==
  /\ reminder = None \/ reminder \subseteq Domains
  /\ phase \in {"idle", "run", "find", "undo"} /\ mode \in {"apply", "rollback"} /\ calm \in BOOLEAN
  /\ failed \subseteq {"stash", "hacs", "integrations", "subentries"} /\ applied \subseteq Kinds \X Keys
  /\ fetched = None \/ fetched \in [EntryIds -> Entries \cup {Gone}]
  /\ seen = None \/ seen \subseteq SubIds

LEMMA CallPhases == TypeInv /\ Truth /\ OneCall => PhasesOK' /\ ControlOK'
<1>0. SUFFICES ASSUME TypeInv, Truth, OneCall PROVE PhasesOK' /\ ControlOK' OBVIOUS
<1>1. PhasesOK /\ ControlOK BY <1>0 DEF TypeInv, TypeOK, PhasesOK
<1>2. /\ todo # <<>> /\ Head(todo) \in Executables /\ Head(todo).key \in Keys /\ Head(todo).kind \in Kinds
      /\ phase \in {"run", "find"} /\ mode = "apply"
  BY <1>0, CallFacts, OpShape DEF Ops
<1>3. Called BY <1>0, CallView DEF Truth, SubsOK
<1>4. /\ reminder' = reminder /\ mode' = mode /\ calm' = calm /\ pos' = pos /\ outstanding' = outstanding
  BY <1>0, Zenon DEF OneCall, RunHacs, ListEntries, CreateEntry, CreateFails, AdoptEntry, DeleteEntry, ForgetEntry, CreateSub,
                     FindSub, UpdateSub, Unmanage
<1>5. fetched' = fetched \/ fetched' = entries
  BY <1>0, Zenon DEF OneCall, RunHacs, ListEntries, CreateEntry, CreateFails, AdoptEntry, DeleteEntry, ForgetEntry, CreateSub,
                     FindSub, UpdateSub, Unmanage
<1>6. \A k : LayerOf(k) \in {"hacs", "integrations", "subentries"} BY DEF LayerOf
<1>7. failed' \in {failed, failed \cup {"integrations"}, failed \cup {LayerOf(Head(todo).key)}}
  BY <1>0, Zenon DEF OneCall, RunHacs, ListEntries, CreateEntry, CreateFails, AdoptEntry, DeleteEntry, ForgetEntry, CreateSub,
                     FindSub, UpdateSub, Unmanage, Fail, Succeed, Landed
<1>8. applied' \subseteq Kinds \X Keys
  <2>1. applied' \in {applied, applied \cup {<<Head(todo).kind, Head(todo).key>>}} BY <1>3 DEF Called, Waits, GivesUp, Turns
  <2> QED BY <1>1, <1>2, <2>1 DEF PhasesOK
<1>9. \/ phase' = phase /\ seen' = seen /\ phase = "run"
      \/ phase' = "find" /\ seen' = {x \in SubIds : LiveSub(x)} /\ todo' = todo /\ Op1(Subs, {"create"})
      \/ phase' = "run" /\ seen' = None
  BY <1>0, Zenon DEF OneCall, RunHacs, ListEntries, CreateEntry, CreateFails, AdoptEntry, DeleteEntry, ForgetEntry, CreateSub,
                     FindSub, UpdateSub, Unmanage, Op1
<1>11. entries \in [EntryIds -> Entries \cup {Gone}] BY <1>0, WorldTyped DEF TypeInv
<1>12. PhasesOK' BY <1>1, <1>4, <1>5, <1>6, <1>7, <1>8, <1>9, <1>11 DEF PhasesOK
<1>13. ControlOK' BY <1>1, <1>2, <1>4, <1>9 DEF ControlOK, Op1
<1> QED BY <1>12, <1>13

LEMMA PhasesStep == TypeInv /\ Truth /\ [Next]_vars => PhasesOK' /\ ControlOK'
<1>0. SUFFICES ASSUME TypeInv, Truth, [Next]_vars PROVE PhasesOK' /\ ControlOK' OBVIOUS
<1>1. PhasesOK /\ ControlOK BY <1>0 DEF TypeInv, TypeOK, PhasesOK
<1>2. CASE OneCall BY <1>0, <1>2, CallPhases
<1>3. CASE Crash \/ StateSave
  <2>1. /\ mem' = NoRecords /\ todo' = <<>> /\ applied' = {} /\ failed' = {} /\ fetched' = None /\ outstanding' = {} /\ pos' = 0
        /\ seen' = None /\ mode' = "apply" /\ phase' = "idle" /\ (reminder' = reminder \/ reminder' = None)
    BY <1>3, Zenon DEF Crash, StateSave, Clear
  <2>2. calm' \in BOOLEAN BY <1>1, <1>3 DEF Crash, StateSave, PhasesOK
  <2> QED BY <1>1, <2>1, <2>2 DEF PhasesOK, ControlOK
<1>4. CASE Reconcile \/ FetchFails
  <2>1. /\ phase' = phase /\ mode' = mode /\ failed' = failed /\ applied' = applied /\ fetched' = fetched /\ seen' = seen
        /\ pos' = pos /\ outstanding' = outstanding /\ todo' = todo /\ mem' = mem /\ cur' = cur
        /\ reminder' \in {Reminder, None}
    BY <1>4, Zenon DEF Reconcile, FetchFails, working
  <2>2. calm' \in BOOLEAN BY <1>4 DEF Reconcile, FetchFails, Loaded
  <2>3. Reminder = None \/ Reminder \subseteq Domains
    <3>1. saved.reminder \subseteq Domains BY <1>0, RecordFields DEF TypeInv, TypeOK
    <3> QED BY <3>1 DEF Reminder
  <2> QED BY <1>1, <2>1, <2>2, <2>3 DEF PhasesOK, ControlOK
<1>5. CASE StartApply
  <2>1. /\ mode' = "apply" /\ phase' = "run" /\ applied' = {} /\ fetched' = None /\ failed' \in {{}, {"stash"}}
        /\ pos' = pos /\ outstanding' = outstanding /\ seen' = seen /\ calm' = calm /\ reminder' = reminder
    BY <1>5, Zenon DEF StartApply
  <2>2. phase = "idle" BY <1>5 DEF StartApply, Idle
  <2> QED BY <1>1, <2>1, <2>2 DEF PhasesOK, ControlOK
<1>6. CASE StartRollback
  <2>1. /\ mode' = "rollback" /\ phase' = "undo" /\ applied' = {} /\ fetched' = None /\ failed' \in {{}, {"integrations"}}
        /\ todo' = <<>> /\ cur' = pointer /\ pointer # 0 /\ seen' = seen /\ calm' = FALSE /\ reminder' = reminder
    BY <1>6, Zenon DEF StartRollback
  <2>2. cur' \in 1 .. 2 BY <1>0, <2>1 DEF TypeInv, TypeOK
  <2> QED BY <1>1, <2>1, <2>2 DEF PhasesOK, ControlOK
<1>7. CASE UndoOne
  <2>1. /\ phase' = phase /\ phase = "undo" /\ mode' = mode /\ applied' = applied /\ fetched' = fetched /\ seen' = seen
        /\ todo' = todo /\ cur' = cur /\ calm' = calm /\ reminder' = reminder /\ failed' \in {failed, {"integrations"}}
    BY <1>7, Zenon DEF UndoOne
  <2> QED BY <1>1, <2>1 DEF PhasesOK, ControlOK
<1>8. CASE Push \/ Edit
  <2>1. /\ phase' = phase /\ mode' = mode /\ failed' = failed /\ applied' = applied /\ fetched' = fetched /\ seen' = seen
        /\ pos' = pos /\ outstanding' = outstanding /\ todo' = todo /\ mem' = mem /\ cur' = cur /\ reminder' = reminder
        /\ calm' = FALSE
    BY <1>8, Zenon DEF Push, Edit, working
  <2> QED BY <1>1, <2>1 DEF PhasesOK, ControlOK
<1>9. CASE Restart \/ (\E k \in Keys : Retry(k)) \/ UNCHANGED vars
  <2>1. /\ phase' = phase /\ mode' = mode /\ failed' = failed /\ applied' = applied /\ fetched' = fetched /\ seen' = seen
        /\ pos' = pos /\ outstanding' = outstanding /\ todo' = todo /\ mem' = mem /\ cur' = cur /\ reminder' = reminder
        /\ calm' = calm
    BY <1>9, Zenon DEF Restart, Retry, vars, working
  <2> QED BY <1>1, <2>1 DEF PhasesOK, ControlOK
<1> QED BY <1>0, <1>2, <1>3, <1>4, <1>5, <1>6, <1>7, <1>8, <1>9, Zenon DEF Next, Apply, OneCall

-----------------------------------------------------------------------------
(* The history                                                              *)

Owners == [Ids -> Keys \cup {None}]

LEMMA OwnersTyped ==
  ASSUME NEW o \in Owners
  PROVE  /\ \A sv : Recorded(o, sv) \in Owners
         /\ OwnerOfLive(o) \in Owners /\ Overtaken(o) \in Owners /\ Forgotten(o) \in Owners
BY DEF Owners, Recorded, OwnerOfLive, Overtaken, Forgotten

LEMMA OwnerStep == TypeInv /\ Truth /\ [Next]_vars => owner' \in Owners
<1>0. SUFFICES ASSUME TypeInv, Truth, [Next]_vars PROVE owner' \in Owners OBVIOUS
<1>1. owner \in Owners BY <1>0 DEF TypeInv, TypeOK, Owners
<1>2. \A op, x : op.key \in Keys => Made(op, x) \in Owners BY <1>1 DEF Made, Owners
<1>3. CASE Push \/ Crash \/ StateSave \/ (\E k \in Keys : Retry(k)) \/ StartApply
  <2>1. owner' \in {owner, Forgotten(owner), Overtaken(owner), Recorded(owner, saved), Recorded(owner, mem)}
    BY <1>3 DEF Push, Crash, StateSave, Retry, StartApply
  <2> QED BY <1>1, <2>1, OwnersTyped
<1>4. CASE Edit
  <2> DEFINE o == IF secret' = secret THEN owner ELSE Recorded(owner, IF Idle THEN saved ELSE mem)
  <2>1. owner' = OwnerOfLive(o) BY <1>4 DEF Edit
  <2>2. o \in Owners BY <1>1, OwnersTyped
  <2> QED BY <2>1, <2>2, OwnersTyped
<1>5. CASE OneCall
  <2>1. Head(todo).key \in Keys BY <1>0, <1>5, CallFacts
  <2>2. \/ owner' = owner
        \/ owner' = [owner EXCEPT ![NewEntry] = Head(todo).key]
        \/ owner' \in {Made(Head(todo), NewEntry), Made(Head(todo), NewSub)}
        \/ owner' = OwnerOfLive(owner)
        \/ owner' = [x \in Ids |-> IF x = Head(todo).id \/ owner[x] = Head(todo).key THEN None ELSE owner[x]]
        \/ \E id : owner' = OwnerOnly(Head(todo).key, id)
    <3>1. CASE RunHacs \/ ListEntries \/ ForgetEntry \/ FindSub \/ UpdateSub \/ Unmanage
      BY <3>1, Zenon DEF RunHacs, ListEntries, ForgetEntry, FindSub, UpdateSub, Unmanage
    <3>2. CASE CreateEntry \/ CreateFails \/ DeleteEntry \/ AdoptEntry BY <3>2 DEF CreateEntry, CreateFails, DeleteEntry, AdoptEntry
    <3>3. CASE CreateSub BY <3>3 DEF CreateSub
    <3> QED BY <1>5, <3>1, <3>2, <3>3 DEF OneCall
  <2>3. [x \in Ids |-> IF x = Head(todo).id \/ owner[x] = Head(todo).key THEN None ELSE owner[x]] \in Owners BY <1>1 DEF Owners
  <2>4. [owner EXCEPT ![NewEntry] = Head(todo).key] \in Owners BY <1>1, <2>1 DEF Owners
  <2>5. OwnerOfLive(owner) \in Owners BY <1>1, OwnersTyped
  <2>6. \A id : OwnerOnly(Head(todo).key, id) \in Owners BY <1>1 DEF OwnerOnly, Owners
  <2> QED BY <1>1, <1>2, <2>1, <2>2, <2>3, <2>4, <2>5, <2>6
<1>6. CASE UndoOne
  <2>1. owner' \in {owner, OwnerOfLive(owner), [owner EXCEPT ![NewEntry] = executed[pos].key], [owner EXCEPT ![NewEntry] = None]}
    BY <1>6 DEF UndoOne
  <2>2. executed[pos].key \in Keys BY <1>0, <1>6, JournalAt DEF UndoOne
  <2>3. [owner EXCEPT ![NewEntry] = executed[pos].key] \in Owners /\ [owner EXCEPT ![NewEntry] = None] \in Owners
    BY <1>1, <2>2 DEF Owners
  <2>4. OwnerOfLive(owner) \in Owners BY <1>1, OwnersTyped
  <2> QED BY <1>1, <2>1, <2>3, <2>4
<1>7. CASE Restart \/ Reconcile \/ FetchFails \/ StartRollback \/ UNCHANGED vars
  <2>1. owner' = owner BY <1>7, Zenon DEF Restart, Reconcile, FetchFails, StartRollback, vars
  <2> QED BY <1>1, <2>1
<1> QED BY <1>0, <1>3, <1>4, <1>5, <1>6, <1>7, Zenon DEF Next, Apply, OneCall

\* What StartApply puts down.
Now ==
  [entries |-> entries, managed |-> [i \in Ints |-> saved.managed[i]], data |-> [i \in Ints |-> saved.data[i]],
   known |-> calm /\ OneEach]

LEMMA BeforesTyped ==
  /\ NoBefore \in Befores
  /\ \A b \in Befores : [b EXCEPT !.known = FALSE] \in Befores
  /\ TypeOK => Now \in Befores
<1>1. NoBefore \in Befores BY DEF NoBefore, Befores
<1>2. \A b \in Befores : [b EXCEPT !.known = FALSE] \in Befores BY DEF Befores
<1>3. ASSUME TypeOK
      PROVE  Now \in Befores
  <2>1. entries \in [EntryIds -> Entries \cup {Gone}] /\ [i \in Ints |-> saved.managed[i]] \in [Ints -> EntryIds \cup {None}]
    BY <1>3, WorldTyped, SavedTyped
  <2>2. [i \in Ints |-> saved.data[i]] \in [Ints -> Datas \cup {None}]
    <3>1. RecordOK(saved) BY <1>3 DEF TypeOK
    <3> QED BY <3>1, RecordFields DEF Keys
  <2>3. (calm /\ OneEach) \in BOOLEAN OBVIOUS
  <2> QED BY <2>1, <2>2, <2>3 DEF Befores, Now
<1> QED BY <1>1, <1>2, <1>3

LEMMA BeforesStep == TypeInv /\ [Next]_vars => before' \in Befores /\ origin' \in Befores
<1>0. SUFFICES ASSUME TypeInv, [Next]_vars PROVE before' \in Befores /\ origin' \in Befores OBVIOUS
<1>1. before \in Befores /\ origin \in Befores BY <1>0 DEF TypeInv, TypeOK
<1>2. CASE Edit
  <2>1. before' = [before EXCEPT !.known = FALSE] /\ origin' = NoBefore BY <1>2 DEF Edit
  <2> QED BY <1>1, <2>1, BeforesTyped
<1>3. CASE Crash \/ StateSave
  <2>1. before' = NoBefore /\ origin' \in {origin, before, NoBefore} BY <1>3 DEF Crash, StateSave, Clear
  <2> QED BY <1>1, <2>1, BeforesTyped
<1>4. CASE StartApply
  <2>1. before' = Now /\ origin' = origin BY <1>4 DEF StartApply, Now
  <2> QED BY <1>0, <1>1, <2>1, BeforesTyped DEF TypeInv
<1>5. CASE StartRollback
  <2>1. before' = origin /\ origin' = NoBefore BY <1>5 DEF StartRollback
  <2> QED BY <1>1, <2>1, BeforesTyped
<1>6. CASE OneCall
  <2>1. origin' = origin /\ (before' = before \/ before' = [before EXCEPT !.known = FALSE])
    BY <1>6, Zenon DEF OneCall, RunHacs, ListEntries, CreateEntry, CreateFails, AdoptEntry, DeleteEntry, ForgetEntry, CreateSub,
                       FindSub, UpdateSub, Unmanage, Landed
  <2> QED BY <1>1, <2>1, BeforesTyped
<1>7. CASE Push \/ Restart \/ Reconcile \/ FetchFails \/ (\E k \in Keys : Retry(k)) \/ UndoOne \/ UNCHANGED vars
  <2>1. before' = before /\ origin' = origin BY <1>7, Zenon DEF Push, Restart, Reconcile, FetchFails, Retry, UndoOne, vars
  <2> QED BY <1>1, <2>1
<1> QED BY <1>0, <1>2, <1>3, <1>4, <1>5, <1>6, <1>7, Zenon DEF Next, Apply, OneCall

LEMMA BoundsStep == TypeInv /\ [Next]_vars => changes' \in Nat /\ rollbacks' \in Nat /\ faults' \in Nat
<1>0. SUFFICES ASSUME TypeInv, [Next]_vars PROVE changes' \in Nat /\ rollbacks' \in Nat /\ faults' \in Nat OBVIOUS
<1>1. changes \in Nat /\ rollbacks \in Nat /\ faults \in Nat BY <1>0 DEF TypeInv, TypeOK
<1>2. Change \/ Fault \/ UNCHANGED bounds => changes' \in Nat /\ rollbacks' \in Nat /\ faults' \in Nat
  BY <1>1 DEF Change, Fault, bounds
<1>3. CASE StartRollback
  <2>1. rollbacks > 0 /\ rollbacks' = rollbacks - 1 /\ (faults' = faults \/ faults' = faults + 1) /\ changes' = changes
    BY <1>3, Zenon DEF StartRollback
  <2> QED BY <1>1, <2>1
<1>4. CASE ~StartRollback
  <2>1. Change \/ Fault \/ UNCHANGED bounds
    <3>1. CASE Push \/ Edit \/ Restart \/ Crash \/ Reconcile \/ FetchFails \/ (\E k \in Keys : Retry(k)) \/ UNCHANGED vars
      BY <3>1, Zenon DEF Push, Edit, Restart, Crash, Reconcile, FetchFails, Retry, NoFault, vars
    <3>2. CASE StartApply \/ StateSave \/ UndoOne BY <3>2, Zenon DEF StartApply, StateSave, UndoOne, NoFault
    <3>3. CASE OneCall
      BY <3>3, Zenon DEF OneCall, RunHacs, ListEntries, CreateEntry, CreateFails, AdoptEntry, DeleteEntry, ForgetEntry, CreateSub,
                         FindSub, UpdateSub, Unmanage, Landed, NoFault
    <3> QED BY <1>0, <1>4, <3>1, <3>2, <3>3, Zenon DEF Next, Apply, OneCall
  <2> QED BY <1>2, <2>1
<1> QED BY <1>3, <1>4

LEMMA TypeStep == TypeInv /\ Truth /\ [Next]_vars => TypeInv'
<1>0. SUFFICES ASSUME TypeInv, Truth, [Next]_vars PROVE TypeInv' OBVIOUS
<1>1. RecordOK(saved)' /\ RecordOK(mem)'
  <2>1. RecordOK(saved') /\ RecordOK(mem') BY <1>0, RecordsStep
  <2> QED BY <2>1 DEF RecordOK
<1>2. ControlOK' /\ PhasesOK' BY <1>0, PhasesStep
<1>3. JournalsOK' BY <1>0, JournalsStep
<1>4. plan' \in Seq(Executables \cup Errors) /\ todo' \in Seq(Executables) BY <1>0, OpsStep DEF Ops
<1>5. owner' \in [Ids -> Keys \cup {None}] BY <1>0, OwnerStep DEF Owners
<1>6. TypeOK'
  BY <1>0, <1>1, <1>2, <1>3, <1>4, <1>5, WorldStep, BeforesStep, BoundsStep, Zenon DEF TypeOK, PhasesOK, JournalsOK
<1> QED BY <1>2, <1>6 DEF TypeInv

-----------------------------------------------------------------------------
(* What stays true when a step leaves the plans and the records alone       *)

LEMMA MovedKeeps ==
  ASSUME TypeOK, NEW en2, Moved(en2)
  PROVE  /\ \A id \in EntryIds : id \in Mentioned /\ Unknown(entries, id) => Unknown(en2, id)
         /\ \A r : (\A i \in Ints : r.managed[i] \in Mentioned \cap (EntryIds \cup {None})) /\ IntsTrue(entries, r) => IntsTrue(en2, r)
         /\ ForgottenUnknown(entries, Journalled0) => ForgottenUnknown(en2, Journalled0)
         /\ \A ops : (\A op \in ToSet(ops) : op \in Ops /\ op.id \in Mentioned) /\ Released(entries, ops) => Released(en2, ops)
<1>1. \A id \in EntryIds : id \in Mentioned /\ Unknown(entries, id) => Unknown(en2, id)
  BY DEF Moved, Unknown, Live0
<1>2. ASSUME NEW r, \A i \in Ints : r.managed[i] \in Mentioned \cap (EntryIds \cup {None}), IntsTrue(entries, r)
      PROVE  IntsTrue(en2, r)
  <2>1. SUFFICES ASSUME NEW i \in Ints
                 PROVE  /\ Live0(en2, r.managed[i]) => en2[r.managed[i]].data \in {Opaque, r.hash[i]}
                        /\ \A j \in Ints \ {i} : r.managed[i] = r.managed[j] /\ r.managed[i] # None => Unknown(en2, r.managed[i])
    BY DEF IntsTrue
  <2>2. r.managed[i] \in Mentioned \cap (EntryIds \cup {None}) BY <1>2
  <2>3. /\ Live0(entries, r.managed[i]) => entries[r.managed[i]].data \in {Opaque, r.hash[i]}
        /\ \A j \in Ints \ {i} : r.managed[i] = r.managed[j] /\ r.managed[i] # None => Unknown(entries, r.managed[i])
    BY <1>2 DEF IntsTrue
  <2>4. Live0(en2, r.managed[i]) => en2[r.managed[i]].data \in {Opaque, r.hash[i]} BY <2>2, <2>3 DEF Moved, Live0
  <2> QED BY <1>1, <2>2, <2>3, <2>4
<1>3. ForgottenUnknown(entries, Journalled0) => ForgottenUnknown(en2, Journalled0)
  <2>1. \A e \in Journalled0 : e.id \in EntryIds /\ e.id \in Mentioned
    <3>1. \A e \in Journalled0 : e \in Journals BY ElementsTyped DEF TypeOK, Journalled0
    <3> QED BY <3>1, JournalShape, MentionedHas
  <2> QED BY <1>1, <2>1 DEF ForgottenUnknown
<1>4. ASSUME NEW ops, \A op \in ToSet(ops) : op \in Ops /\ op.id \in Mentioned, Released(entries, ops)
      PROVE  Released(en2, ops)
  <2>1. SUFFICES ASSUME NEW f \in ToSet(ops), f.kind = "forget"
                 PROVE  Unknown(en2, f.id) \/ \E u \in ToSet(ops) : u.kind = "update" /\ u.key \in Ints /\ u.id = f.id
    BY DEF Released
  <2>2. f.id \in EntryIds
    <3>1. f \in IntOps BY <1>4, <2>1 DEF Ops, Executables, HacsOps, SubOps, Errors
    <3> QED BY <2>1, <3>1 DEF IntOps
  <2> QED BY <1>1, <1>4, <2>1, <2>2 DEF Released
<1> QED BY <1>1, <1>2, <1>3, <1>4

LEMMA SubsMovedKeeps ==
  ASSUME TypeOK, NEW sb2, SubsMoved(sb2)
  PROVE  /\ \A r, leaving : (\A s \in Subs : r.managed[s] \in Mentioned \cap (SubIds \cup {None})) /\ SubsTrue(subs, r, leaving)
              => SubsTrue(sb2, r, leaving)
         /\ \A r, behind : (\A s \in Subs : r.managed[s] \in Mentioned \cap (SubIds \cup {None})) /\ SavedSubsTrue(subs, r, behind)
              => SavedSubsTrue(sb2, r, behind)
<1>1. ASSUME NEW r, \A s \in Subs : r.managed[s] \in Mentioned \cap (SubIds \cup {None}), NEW s \in Subs, NEW S,
             Live0(subs, r.managed[s]) => subs[r.managed[s]].data \in {Opaque, r.hash[s]} \/ s \in S
      PROVE  Live0(sb2, r.managed[s]) => sb2[r.managed[s]].data \in {Opaque, r.hash[s]} \/ s \in S
  BY <1>1 DEF SubsMoved, Live0
<1> QED BY <1>1 DEF SubsTrue, SavedSubsTrue

\* What the records name.
LEMMA RecordsMentioned ==
  ASSUME TypeOK
  PROVE  /\ \A i \in Ints : /\ saved.managed[i] \in Mentioned \cap (EntryIds \cup {None})
                            /\ mem.managed[i] \in Mentioned \cap (EntryIds \cup {None})
         /\ \A s \in Subs : /\ saved.managed[s] \in Mentioned \cap (SubIds \cup {None})
                            /\ mem.managed[s] \in Mentioned \cap (SubIds \cup {None})
         /\ \A op \in ToSet(plan) \cup ToSet(todo) : op \in Ops /\ op.id \in Mentioned
<1>1. ToSet(plan) \subseteq Ops /\ ToSet(todo) \subseteq Executables BY ElementsTyped DEF TypeOK, Ops
<1> QED BY <1>1, MentionedHas DEF TypeOK, RecordOK, Keys, Ops

\* What is said of a record depends on the ids and hashes only.
LEMMA SameTrue ==
  ASSUME NEW r, NEW r2, SameRecords(r2, r)
  PROVE  /\ \A en : IntsTrue(en, r2) <=> IntsTrue(en, r)
         /\ \A sb, S : (SubsTrue(sb, r2, S) <=> SubsTrue(sb, r, S)) /\ (SavedSubsTrue(sb, r2, S) <=> SavedSubsTrue(sb, r, S))
         /\ \A ops : OneSub(ops, r2.managed) <=> OneSub(ops, r.managed)
BY DEF SameRecords, IntsTrue, SubsTrue, SavedSubsTrue

LEMMA SameBehind ==
  ASSUME NEW sv, NEW sv2, SameRecords(sv2, sv), NEW m, NEW m2, SameRecords(m2, m)
  PROVE  \A ops : Behind(sv2, m2, ops) = Behind(sv, m, ops)
BY DEF SameRecords, Behind

\* Nobody is at an operation.
Quiet ==
  /\ Moved(entries') /\ SubsMoved(subs') /\ SameRecords(saved', saved) /\ SameRecords(mem', mem)
  /\ plan' = plan /\ todo' = todo /\ applied' = applied /\ phase' = phase /\ executed' = executed /\ journals' = journals
  /\ calm' => calm /\ mode' = mode /\ desired' = desired /\ entries' = entries

LEMMA QuietTrue ==
  ASSUME TypeInv, Truth, Quiet, FoundFresh'
  PROVE  Truth'
<1>0. TypeOK /\ PlansOK /\ IntsOK /\ SubsOK /\ DeletesSpare BY DEF TypeInv, Truth
<1>1. PlansOK'
  <2>1. \A op \in ToSet(plan) \cup ToSet(todo) : op \in Ops /\ op.id \in Mentioned BY <1>0, RecordsMentioned
  <2>2. Released(entries', plan) /\ Released(entries', todo) BY <1>0, <2>1, MovedKeeps DEF Quiet, PlansOK
  <2>3. (\A ops : OneSub(ops, saved'.managed) <=> OneSub(ops, saved.managed)) /\ (\A ops : OneSub(ops, mem'.managed) <=> OneSub(ops, mem.managed))
    BY SameTrue DEF Quiet
  <2>4. AppliedOK(entries) => AppliedOK(entries)'
    <3>1. SUFFICES ASSUME AppliedOK(entries), NEW op \in ToSet(plan), <<op.kind, op.key>> \in applied
                   PROVE  /\ op.kind = "update" /\ op.key \in Ints => Unknown(entries', op.id)
                          /\ op.kind = "unmanage" => mem'.managed[op.key] = None
      BY DEF AppliedOK, Quiet
    <3>2. op.kind = "update" /\ op.key \in Ints => op.id \in EntryIds
      <4>1. op \in Ops BY <2>1
      <4>2. op \in Executables \/ op.kind # "update" BY <4>1, OpShape DEF Ops
      <4> QED BY <4>1, <4>2, OpShape
    <3>3. op.id \in Mentioned BY <2>1
    <3>4. op.kind = "unmanage" => mem'.managed[op.key] = None BY <3>1 DEF AppliedOK, Quiet, SameRecords
    <3> QED BY <1>0, <3>1, <3>2, <3>3, <3>4, MovedKeeps DEF AppliedOK, Quiet
  <2>5. /\ InOrder(plan, Planned) /\ InOrder(todo, Planned) /\ OneSub(plan, saved.managed) /\ (phase # "idle" => OneSub(plan, mem.managed))
        /\ phase \in {"run", "find"} => OneSub(todo, mem.managed) /\ AppliedOK(entries)
    BY <1>0 DEF PlansOK
  <2> QED BY <2>2, <2>3, <2>4, <2>5, Zenon DEF PlansOK, Quiet
<1>2. IntsOK'
  <2>1. IntsTrue(entries', saved) /\ IntsTrue(entries', mem) /\ ForgottenUnknown(entries', Journalled0)
    BY <1>0, RecordsMentioned, MovedKeeps DEF Quiet, IntsOK
  <2>2. IntsTrue(entries', saved') /\ IntsTrue(entries', mem') BY <2>1, SameTrue DEF Quiet
  <2>3. Journalled0' = Journalled0 BY DEF Journalled0, Quiet
  <2> QED BY <2>1, <2>2, <2>3, Zenon DEF IntsOK
<1>3. SubsOK'
  <2>1. SubsTrue(subs', mem, Leaving(todo)) /\ SavedSubsTrue(subs', saved, Behind(saved, mem, todo))
    BY <1>0, RecordsMentioned, SubsMovedKeeps DEF Quiet, SubsOK
  <2>2. Behind(saved', mem', todo) = Behind(saved, mem, todo) BY SameBehind DEF Quiet
  <2>3. SubsTrue(subs', mem', Leaving(todo)) /\ SavedSubsTrue(subs', saved', Behind(saved, mem, todo))
    BY <2>1, SameTrue DEF Quiet
  <2>4. todo' = todo BY DEF Quiet
  <2> QED BY <2>2, <2>3, <2>4, Zenon DEF SubsOK
<1>4. DeletesSpare'
  <2>1. SUFFICES ASSUME calm', NEW op \in ToSet(plan) \cup ToSet(todo), op.kind = "delete"
                 PROVE  mode' = "apply" /\ Spares(op)'
    BY <1>0 DEF DeletesSpare, Quiet
  <2>2. mode = "apply" /\ Spares(op) BY <1>0, <2>1 DEF DeletesSpare, Quiet
  <2>3. saved'.managed = saved.managed /\ desired' = desired /\ entries' = entries /\ mode' = mode
    BY <2>1 DEF Quiet, SameRecords
  <2> QED BY <2>2, <2>3 DEF Spares, Declared, LiveEntry
<1> QED BY <1>1, <1>2, <1>3, <1>4, Zenon DEF Truth

LEMMA EditSubs ==
  ASSUME TypeOK, Edit
  PROVE  \A x \in SubIds : Live0(subs', x) => \/ Live0(subs, x) /\ subs'[x].data \in {Opaque, subs[x].data}
                                              \/ x \notin Mentioned /\ subs'[x].data = Opaque
<1>1. subs \in [SubIds -> Subentries \cup {Gone}] /\ \A x \in SubIds : subs[x] # Gone => subs[x] \in Subentries BY WorldTyped
<1>2. \/ subs' = subs
      \/ \E e \in EntryIds : Removed(e)
      \/ CanMakeSub /\ \E e \in EntryIds, ty \in SubTypes, u \in Uids \cup {None}, t \in Titles :
           subs' = [subs EXCEPT ![NewSub] = [entry |-> e, type |-> ty, uid |-> u, title |-> t, data |-> Opaque]]
      \/ \E x \in SubIds : LiveSub(x) /\ (subs' = [subs EXCEPT ![x].data = Opaque] \/ subs' = [subs EXCEPT ![x] = Gone])
  BY Zenon DEF Edit
<1>3. CASE subs' = subs BY <1>3
<1>4. CASE \E e \in EntryIds : Removed(e) BY <1>1, <1>4 DEF Removed, Live0
<1>5. CASE CanMakeSub /\ \E e \in EntryIds, ty \in SubTypes, u \in Uids \cup {None}, t \in Titles :
             subs' = [subs EXCEPT ![NewSub] = [entry |-> e, type |-> ty, uid |-> u, title |-> t, data |-> Opaque]]
  BY <1>1, <1>5, FreshIds DEF Live0
<1>6. CASE \E x \in SubIds : LiveSub(x) /\ (subs' = [subs EXCEPT ![x].data = Opaque] \/ subs' = [subs EXCEPT ![x] = Gone])
  <2>1. PICK y \in SubIds : LiveSub(y) /\ (subs' = [subs EXCEPT ![y].data = Opaque] \/ subs' = [subs EXCEPT ![y] = Gone]) BY <1>6
  <2>2. subs[y] \in Subentries BY <1>1, <2>1 DEF LiveSub
  <2>3. [subs[y] EXCEPT !.data = Opaque].data = Opaque BY <2>2 DEF Subentries
  <2>4. [subs EXCEPT ![y].data = Opaque] = [subs EXCEPT ![y] = [subs[y] EXCEPT !.data = Opaque]] OBVIOUS
  <2>5. PICK r : subs' = [subs EXCEPT ![y] = r] /\ (r = Gone \/ r.data = Opaque) BY <2>1, <2>3, <2>4
  <2> QED BY <1>1, <2>1, <2>5 DEF Live0, LiveSub
<1> QED BY <1>2, <1>3, <1>4, <1>5, <1>6

LEMMA AsideTrue ==
  TypeInv /\ Truth /\ (Push \/ Edit \/ Restart \/ (\E k \in Keys : Retry(k)) \/ UNCHANGED vars) => Truth'
<1>0. SUFFICES ASSUME TypeInv, Truth, Push \/ Edit \/ Restart \/ (\E k \in Keys : Retry(k)) \/ UNCHANGED vars PROVE Truth'
  OBVIOUS
<1>1. FoundFresh /\ TypeOK BY <1>0 DEF Truth, SubsOK, TypeInv
<1>2. /\ plan' = plan /\ todo' = todo /\ applied' = applied /\ phase' = phase /\ executed' = executed /\ journals' = journals
      /\ mode' = mode /\ mem' = mem /\ seen' = seen
  BY <1>0, Zenon DEF Push, Edit, Restart, Retry, vars, working, disk
<1>3. SameRecords(mem', mem) BY <1>2 DEF SameRecords
<1>4. CASE \E k \in Keys : Retry(k)
  <2>1. PICK k \in Keys : Retry(k) BY <1>4
  <2>2. phase = "idle" /\ saved' = [saved EXCEPT !.attempts[k] = None] BY <2>1 DEF Retry, Idle
  <2>3. desired' = desired /\ calm' = calm /\ entries' = entries /\ subs' = subs BY <2>1 DEF Retry, home
  <2>4. SameRecords(saved', saved)
    <3>1. RecordOK(saved) /\ None \in [hash : Sent \cup HacsItems, created : BOOLEAN] \cup {None} BY <1>1 DEF TypeOK
    <3> QED BY <2>2, <3>1, AttemptTyped
  <2>5. Quiet BY <1>1, <1>2, <1>3, <2>3, <2>4, SameMoved DEF Quiet
  <2>6. FoundFresh' BY <1>2, <2>2 DEF FoundFresh
  <2> QED BY <1>0, <2>5, <2>6, QuietTrue
<1>5. CASE Push \/ Edit \/ Restart \/ UNCHANGED vars
  <2>1. saved' = saved BY <1>5, Zenon DEF Push, Edit, Restart, vars, disk
  <2>2. SameRecords(saved', saved) BY <2>1 DEF SameRecords
  <2>3. (calm' = FALSE) \/ (calm' = calm /\ desired' = desired /\ entries' = entries)
    BY <1>5, Zenon DEF Push, Edit, Restart, vars, home
  <2>4. Edit \/ (entries' = entries /\ subs' = subs) BY <1>5, Zenon DEF Push, Restart, vars, home
  <2>5. Moved(entries') /\ SubsMoved(subs') BY <1>1, <2>4, EditMoved, SameMoved
  <2>6. Mentioned' = Mentioned BY <1>2, <2>1 DEF Mentioned
  <2>7. Quiet BY <1>2, <1>3, <2>2, <2>3, <2>5 DEF Quiet
  <2>8. FoundFresh'
    <3>1. \A x \in SubIds : Live0(subs', x) => \/ Live0(subs, x) /\ subs'[x].data \in {Opaque, subs[x].data}
                                               \/ x \notin Mentioned /\ subs'[x].data = Opaque
      BY <1>1, <2>4, EditSubs
    <3> QED BY <1>1, <1>2, <2>6, <3>1 DEF FoundFresh
  <2> QED BY <1>0, <2>7, <2>8, QuietTrue
<1> QED BY <1>0, <1>4, <1>5

-----------------------------------------------------------------------------
(* What a call leaves true                                                  *)

LEMMA CallFrame ==
  ASSUME TypeInv, OneCall
  PROVE  /\ desired' = desired /\ saved' = saved /\ plan' = plan /\ mode' = mode /\ calm' = calm
         /\ Moved(entries') /\ (SubsMoved(subs') \/ Reconfigured)
<1>1. desired' = desired /\ saved' = saved /\ plan' = plan /\ mode' = mode /\ calm' = calm
  BY Zenon DEF OneCall, RunHacs, ListEntries, CreateEntry, CreateFails, AdoptEntry, DeleteEntry, ForgetEntry, CreateSub,
               FindSub, UpdateSub, Unmanage, disk
<1>2. Next BY Zenon DEF OneCall, Next, Apply
<1> QED BY <1>1, <1>2, EntriesStep

\* What is known of the first operation and of those after it.
LEMMA CallPlan ==
  ASSUME TypeInv, Truth, OneCall
  PROVE  LET op == Head(todo) IN
           /\ op \in ToSet(todo) /\ op \in ToSet(plan) /\ ToSet(todo) \subseteq ToSet(plan) /\ <<op.kind, op.key>> \notin applied
           /\ op.id \in Mentioned
           /\ \A x, y \in ToSet(plan) : x.key = y.key => x = y
           /\ \A rest \in Rests :
                /\ rest \in Seq(Executables) /\ ToSet(rest) \subseteq ToSet(todo) /\ InOrder(rest, Planned)
                /\ \A x \in ToSet(rest) : x.key # op.key
                /\ \A f \in ToSet(rest) \cup {op}, x \in ToSet(todo) :
                     LayerOf(f.key) = LayerOf(x.key) /\ x.key # op.key => x \in ToSet(rest)
<1>1. todo # <<>> /\ phase \in {"run", "find"} BY CallFacts
<1>2. Head(todo) \in ToSet(todo) BY <1>1, HeadFacts DEF TypeInv
<1>3. AppliedOK(entries) /\ InOrder(plan, Planned) /\ InOrder(todo, Planned) BY <1>1 DEF Truth, PlansOK
<1>4. /\ ToSet(todo) \subseteq ToSet(plan) /\ \A x \in ToSet(todo) : <<x.kind, x.key>> \notin applied
  BY <1>3 DEF AppliedOK
<1>5. \A x, y \in ToSet(plan) : x.key = y.key => x = y
  <2>1. plan \in Seq(Executables \cup Errors) BY DEF TypeInv, TypeOK
  <2> QED BY <1>3, <2>1, OnePerItem
<1>6. ASSUME NEW rest \in Rests
      PROVE  /\ rest \in Seq(Executables) /\ ToSet(rest) \subseteq ToSet(todo) /\ InOrder(rest, Planned)
             /\ \A x \in ToSet(rest) : x.key # Head(todo).key
             /\ \A f \in ToSet(rest) \cup {Head(todo)}, x \in ToSet(todo) :
                  LayerOf(f.key) = LayerOf(x.key) /\ x.key # Head(todo).key => x \in ToSet(rest)
  <2>1. /\ rest \in Seq(Executables) /\ ToSet(rest) \subseteq ToSet(todo) /\ InOrder(rest, Planned)
        /\ \A x \in ToSet(rest) : x.key # Head(todo).key
        /\ \A x \in ToSet(todo) : x.key # Head(todo).key => x \in ToSet(Tail(todo))
        /\ \A f \in ToSet(rest), x \in ToSet(Tail(todo)) : LayerOf(f.key) = LayerOf(x.key) => x \in ToSet(rest)
        /\ \A x \in ToSet(Tail(todo)) : LayerOf(Head(todo).key) = LayerOf(x.key) => x \in ToSet(rest)
    BY <1>1, <1>3, <1>6, RestFacts DEF TypeInv
  <2> QED BY <2>1
<1> QED BY <1>2, <1>4, <1>5, <1>6, MentionedHas

\* The ids and the hashes of the records after it.
LEMMA CallRecords ==
  ASSUME TypeInv, Truth, OneCall
  PROVE  /\ RecordOK(mem')
         /\ \A k \in Keys : k # Head(todo).key => mem'.managed[k] = mem.managed[k] /\ mem'.hash[k] = mem.hash[k]
         /\ SameRecords(mem', mem) \/ Writes(mem'.managed[Head(todo).key], mem'.hash[Head(todo).key])
<1> DEFINE k == Head(todo).key
<1>1. RecordOK(mem') /\ Called BY CallView DEF Truth, SubsOK
<1>2. mem.managed \in [Keys -> Ids0] /\ mem.hash \in [Keys -> Sent \cup {None}] /\ k \in Keys
  BY RecordFields, CallFacts DEF TypeInv, TypeOK
<1>3. SameRecords(mem', mem) \/ \E id, hash : Writes(id, hash) BY <1>1, Zenon DEF Called, Waits, GivesUp, Turns
<1>4. CASE SameRecords(mem', mem) BY <1>1, <1>4 DEF SameRecords
<1>5. CASE \E id, hash : Writes(id, hash)
  <2>1. PICK id, hash : Writes(id, hash) BY <1>5
  <2>2. RecordsAt(mem', mem, k, id, hash) BY <2>1 DEF Writes
  <2>3. /\ mem'.managed[k] = id /\ mem'.hash[k] = hash
        /\ \A l \in Keys : l # k => mem'.managed[l] = mem.managed[l] /\ mem'.hash[l] = mem.hash[l]
    BY <1>2, <2>2 DEF RecordsAt
  <2>4. Writes(mem'.managed[k], mem'.hash[k]) BY <2>1, <2>3
  <2> QED BY <1>1, <2>3, <2>4
<1> QED BY <1>3, <1>4, <1>5

\* One record that changed: it names nothing, what was just made, or what
\* nobody can tell.
LEMMA OneWritten ==
  ASSUME TypeOK, NEW en, NEW r, IntsTrue(en, r), \A i \in Ints : r.managed[i] \in Mentioned, NEW r2, NEW k,
         \A j \in Ints : j # k => r2.managed[j] = r.managed[j] /\ r2.hash[j] = r.hash[j],
         \/ k \notin Ints \/ r2.managed[k] = None \/ Unknown(en, r2.managed[k])
         \/ r2.managed[k] \notin Mentioned /\ en[r2.managed[k]].data = r2.hash[k]
  PROVE  IntsTrue(en, r2)
<1>1. SUFFICES ASSUME NEW i \in Ints
               PROVE  /\ Live0(en, r2.managed[i]) => en[r2.managed[i]].data \in {Opaque, r2.hash[i]}
                      /\ \A j \in Ints \ {i} : r2.managed[i] = r2.managed[j] /\ r2.managed[i] # None
                           => Unknown(en, r2.managed[i])
  BY DEF IntsTrue
<1>2. None \notin EntryIds BY IntegrationsAssumption DEF Ids
<1>3. Live0(en, r2.managed[i]) => en[r2.managed[i]].data \in {Opaque, r2.hash[i]}
  <2>1. CASE i = k BY <1>2, <2>1 DEF Live0, Unknown
  <2>2. CASE i # k BY <2>2 DEF IntsTrue
  <2> QED BY <2>1, <2>2
<1>4. ASSUME NEW j \in Ints \ {i}, r2.managed[i] = r2.managed[j], r2.managed[i] # None PROVE Unknown(en, r2.managed[i])
  <2>1. CASE i # k /\ j # k BY <1>4, <2>1 DEF IntsTrue
  <2>2. CASE i = k BY <1>4, <2>2
  <2>3. CASE j = k BY <1>4, <2>3
  <2> QED BY <2>1, <2>2, <2>3
<1> QED BY <1>3, <1>4

LEMMA CallInts == TypeInv /\ Truth /\ OneCall => IntsOK'
<1>0. SUFFICES ASSUME TypeInv, Truth, OneCall PROVE IntsOK' OBVIOUS
<1> DEFINE k == Head(todo).key
<1>1. TypeOK /\ IntsTrue(entries, saved) /\ IntsTrue(entries, mem) /\ ForgottenUnknown(entries, Journalled0)
  BY <1>0 DEF TypeInv, Truth, IntsOK
<1>2. Moved(entries') /\ saved' = saved BY <1>0, CallFrame
<1>3. IntsTrue(entries', saved') /\ IntsTrue(entries', mem) /\ ForgottenUnknown(entries', Journalled0)
  BY <1>1, <1>2, RecordsMentioned, MovedKeeps
<1>4. IntsTrue(entries', mem')
  <2>1. CASE SameRecords(mem', mem) BY <1>3, <2>1, SameTrue
  <2>2. CASE ~SameRecords(mem', mem)
    <3>1. Writes(mem'.managed[k], mem'.hash[k]) BY <1>0, <2>2, CallRecords
    <3>2. \A l \in Keys : l # k => mem'.managed[l] = mem.managed[l] /\ mem'.hash[l] = mem.hash[l] BY <1>0, CallRecords
    <3>3. k \in Ints => \/ mem'.managed[k] = None
                        \/ mem'.managed[k] \notin Mentioned /\ entries'[mem'.managed[k]].data = mem'.hash[k]
                        \/ Unknown(entries', mem'.managed[k])
      BY <3>1 DEF Writes
    <3>4. \A i \in Ints : mem.managed[i] \in Mentioned BY <1>1, RecordsMentioned
    <3>5. \A j \in Ints : j # k => mem'.managed[j] = mem.managed[j] /\ mem'.hash[j] = mem.hash[j] BY <3>2 DEF Keys
    <3>6. TypeOK /\ IntsTrue(entries', mem) BY <1>1, <1>3
    <3>7. \/ k \notin Ints \/ mem'.managed[k] = None \/ Unknown(entries', mem'.managed[k])
          \/ mem'.managed[k] \notin Mentioned /\ entries'[mem'.managed[k]].data = mem'.hash[k]
      BY <3>3
    <3> HIDE DEF k
    <3> QED BY ONLY <3>4, <3>5, <3>6, <3>7, OneWritten
  <2> QED BY <2>1, <2>2
<1>5. ForgottenUnknown(entries', Journalled0')
  <2>1. SUFFICES ASSUME NEW e \in Journalled0', e.kind = "forget" PROVE Unknown(entries', e.id)
    BY DEF ForgottenUnknown
  <2>2. PICK entry : Adds(entry) /\ (entry.kind = "forget" => ForgetEntry /\ entry.id = Head(todo).id) BY <1>0, CallJournals
  <2>3. e \in Journalled0 \/ e = entry BY <2>1, <2>2 DEF Adds
  <2>4. CASE e \in Journalled0 BY <1>3, <2>1, <2>4 DEF ForgottenUnknown
  <2>5. CASE e = entry
    <3>1. ForgetEntry /\ e.id = Head(todo).id BY <2>1, <2>2, <2>5
    <3>2. Op1(Ints, {"forget"}) /\ entries' = entries BY <3>1 DEF ForgetEntry, home
    <3>3. k \in Ints /\ Head(todo).kind = "forget" BY <1>1, <3>2, IntHead
    <3>4. Head(todo) \in ToSet(todo) BY <1>0, CallPlan
    <3>5. ~\E u \in ToSet(todo) : u.kind = "update" /\ u.key \in Ints
      <4>1. SUFFICES ASSUME NEW u \in ToSet(todo), u.kind = "update", u.key \in Ints PROVE FALSE OBVIOUS
      <4>2. u # Head(todo) BY <3>3, <4>1
      <4>3. todo # <<>> /\ InOrder(todo, Planned) /\ todo \in Seq(Executables) BY <1>0, <1>1, CallFacts DEF Truth, PlansOK, TypeOK
      <4>4. u \in ToSet(Tail(todo)) BY <1>1, <4>1, <4>2, <4>3, HeadFacts
      <4>5. <<Head(todo), u>> \in Planned BY <4>3, <4>4, TailInOrder
      <4>6. Rank(Head(todo)) <= Rank(u) BY <4>5 DEF Planned
      <4>7. Rank(Head(todo)) = 3 /\ Rank(u) = 2 BY <3>3, <4>1, IntegrationsAssumption DEF Rank
      <4> QED BY <4>6, <4>7
    <3>6. Released(entries, todo) BY <1>0 DEF Truth, PlansOK
    <3> QED BY <3>1, <3>2, <3>3, <3>4, <3>5, <3>6 DEF Released
  <2> QED BY <2>3, <2>4, <2>5
<1> QED BY <1>3, <1>4, <1>5, Zenon DEF IntsOK

LEMMA ReconfiguredWrites ==
  ASSUME TypeInv, Reconfigured
  PROVE  /\ mem'.managed[Head(todo).key] = Head(todo).id /\ mem'.hash[Head(todo).key] = Head(todo).value
         /\ todo' = Tail(todo) /\ todo' \in Rests /\ OneCall
<1> DEFINE op == Head(todo)
<1>1. /\ todo # <<>> /\ op.key \in Subs /\ op.kind = "update" /\ Record(op.key, op.id, op.value, None) /\ todo' = Tail(todo)
  BY DEF Reconfigured, UpdateSub, Op1, Succeed
<1>2. op.key \in Keys /\ IdsOf(op.key) = SubIds /\ op.value \in Sent /\ op.id \in SubIds BY <1>1, SubCall
<1>3. op.id # None BY <1>2, IntegrationsAssumption DEF Ids
<1>4. mem.managed \in [Keys -> Ids0] /\ mem.hash \in [Keys -> Sent \cup {None}] BY RecordFields DEF TypeInv, TypeOK
<1> HIDE DEF op
<1>5. RecordsAt(mem', mem, op.key, op.id, op.value) BY <1>1, <1>2, <1>3, RecordWrites
<1>6. OneCall BY DEF Reconfigured, OneCall
<1> QED BY <1>1, <1>2, <1>4, <1>5, <1>6 DEF RecordsAt, Rests, op

\* What a call about a subentry does to the records that are about to let go.
LEMMA CallLeaving ==
  ASSUME TypeInv, Truth, OneCall
  PROVE  /\ \A s \in Leaving(todo) : s \in Leaving(todo') \/ mem'.managed[s] = None
         /\ Reconfigured => \A s \in Subs : mem.managed[s] = Head(todo).id => s = Head(todo).key \/ s \in Leaving(todo')
         /\ Head(todo).key \notin Subs => Leaving(todo) = {}
<1> DEFINE op == Head(todo)
<1>1. /\ op \in ToSet(todo) /\ op \in ToSet(plan) /\ ToSet(todo) \subseteq ToSet(plan)
      /\ \A x, y \in ToSet(plan) : x.key = y.key => x = y
      /\ \A rest \in Rests :
           /\ ToSet(rest) \subseteq ToSet(todo)
           /\ \A f \in ToSet(rest) \cup {op}, x \in ToSet(todo) : LayerOf(f.key) = LayerOf(x.key) /\ x.key # op.key => x \in ToSet(rest)
  BY CallPlan
<1>2. Called BY CallView DEF Truth, SubsOK
<1>3. op.key \notin Subs => Leaving(todo) = {} BY <1>1 DEF Leaving
<1>4. \A s \in Subs : LayerOf(s) = "subentries" BY IntegrationsAssumption DEF LayerOf
<1>5. ASSUME NEW rest \in Rests, op.key \in Subs, NEW s \in Leaving(todo), s # op.key PROVE s \in Leaving(rest)
  <2>1. \A x \in ToSet(todo) : x.key \in Subs BY <1>5 DEF Leaving
  <2>2. s \in Subs /\ \E d \in ToSet(todo) : d.kind = "unmanage" /\ d.key = s BY <1>5 DEF Leaving
  <2>3. PICK d \in ToSet(todo) : d.kind = "unmanage" /\ d.key = s BY <2>2
  <2>4. LayerOf(op.key) = LayerOf(d.key) BY <1>4, <1>5, <2>2, <2>3
  <2>5. d \in ToSet(rest) BY <1>1, <1>5, <2>3, <2>4
  <2>6. \A x \in ToSet(rest) : x.key \in Subs BY <1>1, <2>1
  <2> QED BY <2>2, <2>3, <2>5, <2>6 DEF Leaving
<1>6. ASSUME NEW s \in Leaving(todo) PROVE s \in Leaving(todo') \/ mem'.managed[s] = None
  <2>1. op.key \in Subs BY <1>3, <1>6
  <2>2. op.key \notin Ints BY <2>1, IntegrationsAssumption
  <2>3. CASE Waits BY <1>6, <2>3 DEF Waits
  <2>4. CASE Turns
    <3>1. todo' \in Rests /\ (op.kind = "unmanage" => mem'.managed[op.key] = None) BY <2>2, <2>4 DEF Turns
    <3>2. CASE s = op.key
      <4>1. PICK d \in ToSet(todo) : d.kind = "unmanage" /\ d.key = s BY <1>6 DEF Leaving
      <4>2. d = op BY <1>1, <3>2, <4>1
      <4> QED BY <3>1, <3>2, <4>1, <4>2
    <3>3. CASE s # op.key BY <1>5, <1>6, <2>1, <3>1, <3>3
    <3> QED BY <3>2, <3>3
  <2> QED BY <1>2, <2>2, <2>3, <2>4 DEF Called, GivesUp
<1>7. ASSUME Reconfigured, NEW s \in Subs, mem.managed[s] = op.id, s # op.key PROVE s \in Leaving(todo')
  <2>1. todo' \in Rests /\ op.key \in Subs /\ op.kind = "update" BY <1>7, ReconfiguredWrites, ReconfiguredTyped
  <2>2. phase \in {"run", "find"} BY CallFacts
  <2>3. OneSub(todo, mem.managed) BY <2>2 DEF Truth, PlansOK
  <2>4. \E d \in ToSet(todo) : d.kind = "unmanage" /\ d.key = s BY <1>1, <1>7, <2>1, <2>3 DEF OneSub
  <2>5. \A x \in ToSet(todo) : x.key \in Subs
    <3>1. SUFFICES ASSUME NEW x \in ToSet(todo), x # op PROVE x.key \in Subs BY <2>1
    <3>2. todo # <<>> /\ InOrder(todo, Planned) /\ todo \in Seq(Executables) BY CallFacts DEF Truth, PlansOK, TypeInv, TypeOK
    <3>3. x \in ToSet(Tail(todo)) BY <3>1, <3>2, HeadFacts DEF TypeInv
    <3>4. <<op, x>> \in Planned BY <3>2, <3>3, TailInOrder
    <3>5. Rank(op) <= Rank(x) BY <3>4 DEF Planned
    <3>6. Rank(op) = 4 BY <2>1, IntegrationsAssumption DEF Rank
    <3> QED BY <3>5, <3>6 DEF Rank
  <2>6. s \in Leaving(todo) BY <2>4, <2>5 DEF Leaving
  <2> QED BY <1>5, <1>7, <2>1, <2>6
<1> QED BY <1>3, <1>6, <1>7

LEMMA CallSubsTrue == TypeInv /\ Truth /\ OneCall => SubsTrue(subs', mem', Leaving(todo'))
<1>0. SUFFICES ASSUME TypeInv, Truth, OneCall PROVE SubsTrue(subs', mem', Leaving(todo')) OBVIOUS
<1> DEFINE op == Head(todo)
           k == op.key
<1>1. SubsTrue(subs, mem, Leaving(todo)) /\ TypeOK BY <1>0 DEF Truth, SubsOK, TypeInv
<1>2. \A s \in Subs : mem.managed[s] \in Mentioned \cap (SubIds \cup {None}) BY <1>1, RecordsMentioned
<1>3. /\ \A s \in Leaving(todo) : s \in Leaving(todo') \/ mem'.managed[s] = None
      /\ Reconfigured => \A s \in Subs : mem.managed[s] = op.id => s = k \/ s \in Leaving(todo')
  BY <1>0, CallLeaving
<1>4. /\ \A s \in Subs : s # k => mem'.managed[s] = mem.managed[s] /\ mem'.hash[s] = mem.hash[s]
      /\ SameRecords(mem', mem) \/ Writes(mem'.managed[k], mem'.hash[k])
  BY <1>0, CallRecords DEF Keys
<1>5. SubsMoved(subs') \/ Reconfigured BY <1>0, CallFrame
<1>6. Reconfigured => /\ op.id \in SubIds /\ k \in Subs /\ subs'[op.id].data = op.value
                      /\ \A x \in SubIds : x # op.id => subs'[x] = subs[x]
                      /\ mem'.managed[k] = op.id /\ mem'.hash[k] = op.value
  BY <1>0, ReconfiguredTyped, ReconfiguredWrites
<1>7. k \in Subs => \/ mem'.managed[k] = None
                    \/ mem'.managed[k] = mem.managed[k] /\ mem'.hash[k] = mem.hash[k]
                    \/ mem'.managed[k] \notin Mentioned /\ subs'[mem'.managed[k]].data \in {Opaque, mem'.hash[k]}
                    \/ Reconfigured
  BY <1>4 DEF Writes, SameRecords
<1> HIDE DEF op, k
\* an item whose record did not change
<1>8. ASSUME NEW s \in Subs, mem'.managed[s] = mem.managed[s], mem'.hash[s] = mem.hash[s], Live0(subs', mem'.managed[s])
      PROVE  subs'[mem'.managed[s]].data \in {Opaque, mem'.hash[s]} \/ s \in Leaving(todo')
  <2>1. mem.managed[s] \in SubIds /\ mem.managed[s] # None /\ mem.managed[s] \in Mentioned BY <1>2, <1>8 DEF Live0
  <2>2. CASE Reconfigured /\ mem.managed[s] = op.id BY <1>3, <1>6, <1>8, <2>2
  <2>3. CASE SubsMoved(subs') \/ (Reconfigured /\ mem.managed[s] # op.id)
    <3>1. Live0(subs, mem.managed[s]) /\ subs'[mem.managed[s]].data \in {Opaque, subs[mem.managed[s]].data}
      BY <1>6, <1>8, <2>1, <2>3 DEF SubsMoved, Live0
    <3>2. subs[mem.managed[s]].data \in {Opaque, mem.hash[s]} \/ s \in Leaving(todo) BY <1>1, <3>1 DEF SubsTrue
    <3> QED BY <1>3, <1>8, <2>1, <3>1, <3>2
  <2> QED BY <1>5, <2>2, <2>3
<1>9. ASSUME NEW s \in Subs, Live0(subs', mem'.managed[s])
      PROVE  subs'[mem'.managed[s]].data \in {Opaque, mem'.hash[s]} \/ s \in Leaving(todo')
  <2>1. CASE mem'.managed[s] = mem.managed[s] /\ mem'.hash[s] = mem.hash[s] BY <1>8, <1>9, <2>1
  <2>2. CASE ~(mem'.managed[s] = mem.managed[s] /\ mem'.hash[s] = mem.hash[s])
    <3>1. s = k BY <1>4, <2>2
    <3> QED BY <1>6, <1>7, <1>9, <2>2, <3>1 DEF Live0
  <2> QED BY <2>1, <2>2
<1>10. ASSUME NEW s \in Subs, NEW t \in Subs \ {s}, mem'.managed[s] = mem'.managed[t], mem'.managed[s] # None
       PROVE  s \in Leaving(todo') \/ t \in Leaving(todo')
  <2>1. CASE mem'.managed[s] = mem.managed[s] /\ mem'.managed[t] = mem.managed[t]
    <3>1. s \in Leaving(todo) \/ t \in Leaving(todo) BY <1>1, <1>10, <2>1 DEF SubsTrue
    <3> QED BY <1>3, <1>10, <3>1
  <2>2. CASE s = k /\ mem'.managed[s] # mem.managed[s]
    <3>1. mem'.managed[t] = mem.managed[t] BY <1>4, <1>10, <2>2
    <3> QED BY <1>2, <1>3, <1>6, <1>7, <1>10, <2>2, <3>1
  <2>3. CASE t = k /\ mem'.managed[t] # mem.managed[t]
    <3>1. mem'.managed[s] = mem.managed[s] BY <1>4, <1>10, <2>3
    <3> QED BY <1>2, <1>3, <1>6, <1>7, <1>10, <2>3, <3>1
  <2> QED BY <1>4, <2>1, <2>2, <2>3
<1> QED BY <1>9, <1>10 DEF SubsTrue

LEMMA CallSaved == TypeInv /\ Truth /\ OneCall => SavedSubsTrue(subs', saved', Behind(saved', mem', todo'))
<1>0. SUFFICES ASSUME TypeInv, Truth, OneCall PROVE SavedSubsTrue(subs', saved', Behind(saved', mem', todo')) OBVIOUS
<1> DEFINE op == Head(todo)
           k == op.key
<1>1. SavedSubsTrue(subs, saved, Behind(saved, mem, todo)) /\ TypeOK BY <1>0 DEF Truth, SubsOK, TypeInv
<1>2. saved' = saved /\ (SubsMoved(subs') \/ Reconfigured) BY <1>0, CallFrame
<1>3. \A s \in Subs : saved.managed[s] \in Mentioned \cap (SubIds \cup {None}) BY <1>1, RecordsMentioned
<1>4. \A s \in Subs : s # k => mem'.managed[s] = mem.managed[s] /\ mem'.hash[s] = mem.hash[s] BY <1>0, CallRecords DEF Keys
<1>5. op \in ToSet(todo) /\ (\A rest \in Rests : ToSet(rest) \subseteq ToSet(todo) /\ \A x \in ToSet(rest) : x.key # k)
  BY <1>0, CallPlan
<1>6. ToSet(todo') \subseteq ToSet(todo)
  <2>1. todo' = todo \/ todo' = <<>> \/ todo' \in Rests BY <1>0, CallView, Zenon DEF Truth, SubsOK, Called, Waits, GivesUp, Turns
  <2> QED BY <1>5, <2>1, EmptyTyped
<1>7. Reconfigured => /\ op.id \in SubIds /\ k \in Subs /\ subs'[op.id].data = op.value
                      /\ \A x \in SubIds : x # op.id => subs'[x] = subs[x]
                      /\ mem'.managed[k] = op.id /\ mem'.hash[k] = op.value /\ todo' \in Rests
  BY <1>0, ReconfiguredTyped, ReconfiguredWrites
<1> HIDE DEF op, k
<1>8. Behind(saved, mem, todo) \subseteq Behind(saved', mem', todo')
  <2>1. SUFFICES ASSUME NEW s \in Subs, NEW t \in Subs, mem.managed[t] = saved.managed[s],
                        <<mem.managed[t], mem.hash[t]>> # <<saved.managed[t], saved.hash[t]>>, \A x \in ToSet(todo) : x.key # t
                 PROVE  s \in Behind(saved', mem', todo')
    BY DEF Behind
  <2>2. t # k BY <1>5, <2>1 DEF k
  <2> QED BY <1>2, <1>4, <1>6, <2>1, <2>2 DEF Behind
<1>9. ASSUME NEW s \in Subs, Live0(subs', saved.managed[s])
      PROVE  subs'[saved.managed[s]].data \in {Opaque, saved.hash[s]} \/ s \in Behind(saved', mem', todo')
  <2>1. saved.managed[s] \in SubIds /\ saved.managed[s] # None /\ saved.managed[s] \in Mentioned BY <1>3, <1>9 DEF Live0
  <2>2. CASE Reconfigured /\ saved.managed[s] = op.id
    <3>1. mem'.managed[k] = saved.managed[s] /\ \A x \in ToSet(todo') : x.key # k BY <1>5, <1>7, <2>2
    <3>2. CASE <<mem'.managed[k], mem'.hash[k]>> # <<saved.managed[k], saved.hash[k]>>
      BY <1>2, <1>7, <2>2, <3>1, <3>2 DEF Behind
    <3>3. CASE <<mem'.managed[k], mem'.hash[k]>> = <<saved.managed[k], saved.hash[k]>>
      <4>1. saved.managed[k] = saved.managed[s] /\ saved.hash[k] = op.value BY <1>7, <2>2, <3>3
      <4>2. s = k BY <1>1, <1>7, <2>1, <2>2, <4>1 DEF SavedSubsTrue
      <4> QED BY <1>7, <2>2, <4>1, <4>2
    <3> QED BY <3>2, <3>3
  <2>3. CASE SubsMoved(subs') \/ (Reconfigured /\ saved.managed[s] # op.id)
    <3>1. Live0(subs, saved.managed[s]) /\ subs'[saved.managed[s]].data \in {Opaque, subs[saved.managed[s]].data}
      BY <1>7, <1>9, <2>1, <2>3 DEF SubsMoved, Live0
    <3>2. subs[saved.managed[s]].data \in {Opaque, saved.hash[s]} \/ s \in Behind(saved, mem, todo) BY <1>1, <3>1 DEF SavedSubsTrue
    <3> QED BY <1>8, <3>1, <3>2
  <2> QED BY <1>2, <2>2, <2>3
<1>10. \A s \in Subs : \A t \in Subs \ {s} : saved.managed[s] = saved.managed[t] => saved.managed[s] = None
  BY <1>1 DEF SavedSubsTrue
<1> QED BY <1>2, <1>9, <1>10 DEF SavedSubsTrue

LEMMA CallFresh == TypeInv /\ Truth /\ OneCall => FoundFresh'
<1>0. SUFFICES ASSUME TypeInv, Truth, OneCall, phase' = "find"
               PROVE  \A x \in SubIds \ seen' : Live0(subs', x) => x \notin Mentioned' /\ subs'[x].data \in {Opaque, Head(todo').value}
  BY DEF FoundFresh
<1> DEFINE op == Head(todo)
           With(t, u) == [subs EXCEPT ![NewSub] = [entry |-> op.item.parent, type |-> op.item.type, uid |-> u, title |-> t,
                                                   data |-> op.value]]
<1>1. CreateSub
  <2>1. phase' = "run" \/ CreateSub
    BY <1>0, Zenon DEF OneCall, RunHacs, ListEntries, CreateEntry, CreateFails, AdoptEntry, DeleteEntry, ForgetEntry,
                       FindSub, UpdateSub, Unmanage, Op1
  <2> QED BY <1>0, <2>1
<1>2. /\ CanMakeSub /\ seen' = {x \in SubIds : LiveSub(x)} /\ mem' = mem /\ todo' = todo
      /\ \E t \in Titles, u \in {None, op.item.uid} : subs' = With(t, u)
  <2>1. phase = "run" BY <1>1 DEF CreateSub, Op1
  <2> QED BY <1>0, <1>1, <2>1, Zenon DEF CreateSub
<1>3. saved' = saved /\ plan' = plan /\ executed' = executed /\ journals' = journals BY <1>1 DEF CreateSub, disk
<1>4. Mentioned' = Mentioned BY <1>2, <1>3 DEF Mentioned
<1>5. NewSub \in SubIds /\ NewSub \notin Mentioned BY <1>2, FreshIds
<1>6. subs \in [SubIds -> Subentries \cup {Gone}] BY <1>0, WorldTyped DEF TypeInv
<1>7. PICK t \in Titles, u \in {None, op.item.uid} : subs' = With(t, u) BY <1>2
<1>8. subs'[NewSub].data = op.value /\ \A x \in SubIds : x # NewSub => subs'[x] = subs[x] BY <1>5, <1>6, <1>7
<1>9. ASSUME NEW x \in SubIds \ seen', Live0(subs', x) PROVE x = NewSub
  BY <1>2, <1>8, <1>9 DEF Live0, LiveSub
<1> QED BY <1>2, <1>4, <1>5, <1>8, <1>9

LEMMA CallSubs == TypeInv /\ Truth /\ OneCall => SubsOK'
BY CallSubsTrue, CallSaved, CallFresh, Zenon DEF SubsOK

\* No update of a plan is to get what a call has just recorded.
LEMMA CallOneSub ==
  ASSUME TypeInv, Truth, OneCall
  PROVE  /\ OneSub(plan, mem'.managed)
         /\ OneSub(todo', mem'.managed)
<1> DEFINE op == Head(todo)
           k == op.key
<1>1. OneSub(plan, mem.managed) /\ OneSub(todo, mem.managed) BY CallFacts DEF Truth, PlansOK
<1>2. /\ \A s \in Subs : s # k => mem'.managed[s] = mem.managed[s]
      /\ SameRecords(mem', mem) \/ Writes(mem'.managed[k], mem'.hash[k])
  BY CallRecords DEF Keys
<1>3. k \in Subs => \/ mem'.managed[k] = None
                    \/ mem'.managed[k] = mem.managed[k]
                    \/ mem'.managed[k] \notin Mentioned
                    \/ Reconfigured /\ mem'.managed[k] = op.id
  BY <1>2 DEF Writes, SameRecords
<1>4. Reconfigured => op.kind = "update" /\ k \in Subs BY ReconfiguredTyped
<1>5. /\ op \in ToSet(todo) /\ op \in ToSet(plan) /\ ToSet(todo) \subseteq ToSet(plan)
      /\ \A x, y \in ToSet(plan) : x.key = y.key => x = y
      /\ \A rest \in Rests :
           /\ ToSet(rest) \subseteq ToSet(todo) /\ \A x \in ToSet(rest) : x.key # k
           /\ \A f \in ToSet(rest) \cup {op}, x \in ToSet(todo) : LayerOf(f.key) = LayerOf(x.key) /\ x.key # k => x \in ToSet(rest)
  BY CallPlan
<1>6. Called BY CallView DEF Truth, SubsOK
<1>7. \A u \in ToSet(plan) : u.kind = "update" /\ u.key \in Subs => u.id \in SubIds /\ u.id # None /\ u.id \in Mentioned
  <2>1. SUFFICES ASSUME NEW u \in ToSet(plan), u.kind = "update", u.key \in Subs PROVE u.id \in SubIds /\ u.id # None
    BY MentionedHas
  <2>2. u \in Ops BY RecordsMentioned DEF TypeInv
  <2>3. u \in Executables BY <2>1, <2>2, OpShape DEF Ops
  <2> QED BY <2>1, <2>2, <2>3, OpShape, IntegrationsAssumption DEF Ids
<1> HIDE DEF op, k
\* whose record names what an update is to get, but for its own item
<1>8. ASSUME NEW u \in ToSet(plan), u.kind = "update", u.key \in Subs, NEW s \in Subs \ {u.key}, mem'.managed[s] = u.id
      PROVE  mem.managed[s] = u.id
  <2>1. CASE s # k BY <1>2, <1>8, <2>1
  <2>2. CASE s = k
    <3>1. u.id # None /\ u.id \in Mentioned BY <1>7, <1>8
    <3>2. ~(Reconfigured /\ mem'.managed[k] = op.id)
      <4>1. SUFFICES ASSUME Reconfigured, u.id = op.id PROVE FALSE BY <1>8, <2>2
      <4>2. op.kind = "update" /\ op.key \in Subs /\ op \in ToSet(plan) BY <1>4, <1>5, <4>1 DEF k
      <4>3. op.key = u.key BY <1>1, <1>8, <4>1, <4>2 DEF OneSub
      <4> QED BY <1>8, <2>2, <4>3 DEF k
    <3> QED BY <1>3, <1>8, <2>2, <3>1, <3>2
  <2> QED BY <2>1, <2>2
<1>9. OneSub(plan, mem'.managed)
  <2>1. SUFFICES ASSUME NEW u \in ToSet(plan), u.kind = "update", u.key \in Subs
                 PROVE  /\ \A s \in Subs \ {u.key} : mem'.managed[s] = u.id => \E d \in ToSet(plan) : d.kind = "unmanage" /\ d.key = s
                        /\ \A v \in ToSet(plan) : v.kind = "update" /\ v.key \in Subs /\ v.id = u.id => v.key = u.key
    BY DEF OneSub
  <2> QED BY <1>1, <1>8, <2>1 DEF OneSub
<1>10. OneSub(todo', mem'.managed)
  <2>1. SUFFICES ASSUME NEW u \in ToSet(todo'), u.kind = "update", u.key \in Subs
                 PROVE  /\ \A s \in Subs \ {u.key} : mem'.managed[s] = u.id => \E d \in ToSet(todo') : d.kind = "unmanage" /\ d.key = s
                        /\ \A v \in ToSet(todo') : v.kind = "update" /\ v.key \in Subs /\ v.id = u.id => v.key = u.key
    BY DEF OneSub
  <2>2. ToSet(todo') \subseteq ToSet(todo)
    <3>1. todo' = todo \/ todo' = <<>> \/ todo' \in Rests BY <1>6, Zenon DEF Called, Waits, GivesUp, Turns
    <3> QED BY <1>5, <3>1, EmptyTyped
  <2>3. u \in ToSet(todo) /\ u \in ToSet(plan) BY <1>5, <2>1, <2>2
  <2>4. \A v \in ToSet(todo') : v.kind = "update" /\ v.key \in Subs /\ v.id = u.id => v.key = u.key
    BY <1>1, <2>1, <2>2, <2>3 DEF OneSub
  <2>5. ASSUME NEW s \in Subs \ {u.key}, mem'.managed[s] = u.id PROVE \E d \in ToSet(todo') : d.kind = "unmanage" /\ d.key = s
    <3>1. mem.managed[s] = u.id BY <1>8, <2>1, <2>3, <2>5
    <3>2. PICK d \in ToSet(todo) : d.kind = "unmanage" /\ d.key = s BY <1>1, <2>1, <2>3, <2>5, <3>1 DEF OneSub
    <3>3. CASE todo' = todo BY <3>2, <3>3
    <3>4. CASE todo' = <<>> BY <2>1, <3>4, EmptyTyped
    <3>5. CASE Turns /\ todo' \in Rests
      <4>1. d # op
        <5>1. SUFFICES ASSUME d = op PROVE FALSE OBVIOUS
        <5>2. mem'.managed[s] = None BY <3>2, <3>5, <5>1 DEF Turns, op
        <5> QED BY <1>7, <2>1, <2>3, <2>5, <5>2
      <4>2. d.key # k BY <1>5, <3>2, <4>1 DEF k
      <4>3. LayerOf(u.key) = LayerOf(d.key) BY <2>1, <3>2, IntegrationsAssumption DEF LayerOf
      <4>4. d \in ToSet(todo') BY <1>5, <2>1, <3>2, <3>5, <4>2, <4>3
      <4> QED BY <3>2, <4>4
    <3> QED BY <1>6, <3>3, <3>4, <3>5, Zenon DEF Called, Waits, GivesUp, Turns
  <2> QED BY <2>4, <2>5
<1> QED BY <1>9, <1>10

LEMMA CallReleased ==
  ASSUME TypeInv, Truth, OneCall
  PROVE  Released(entries', plan) /\ Released(entries', todo')
<1> DEFINE op == Head(todo)
           k == op.key
<1>1. Released(entries, plan) /\ Released(entries, todo) /\ TypeOK BY DEF Truth, PlansOK, TypeInv
<1>2. Moved(entries') BY CallFrame
<1>3. \A x \in ToSet(plan) \cup ToSet(todo) : x \in Ops /\ x.id \in Mentioned BY <1>1, RecordsMentioned
<1>4. Released(entries', plan) /\ Released(entries', todo) BY <1>1, <1>2, <1>3, MovedKeeps
<1>5. \A rest \in Rests :
        /\ ToSet(rest) \subseteq ToSet(todo)
        /\ \A f \in ToSet(rest) \cup {op}, x \in ToSet(todo) : LayerOf(f.key) = LayerOf(x.key) /\ x.key # k => x \in ToSet(rest)
  BY CallPlan
<1>6. Called BY CallView DEF Truth, SubsOK
<1>7. \A x, y \in ToSet(todo) : x.key = y.key => x = y BY CallPlan
<1>8. op \in ToSet(todo) BY CallPlan
<1>9. CASE todo' = todo BY <1>4, <1>9
<1>10. CASE todo' = <<>> BY <1>4, <1>10, EmptyTyped DEF Released
<1>11. CASE Turns /\ todo' \in Rests
  <2>1. SUFFICES ASSUME NEW f \in ToSet(todo'), f.kind = "forget"
                 PROVE  Unknown(entries', f.id) \/ \E u \in ToSet(todo') : u.kind = "update" /\ u.key \in Ints /\ u.id = f.id
    BY <1>4 DEF Released
  <2>2. f \in ToSet(todo) BY <1>5, <1>11, <2>1
  <2>3. SUFFICES ASSUME NEW u \in ToSet(todo), u.kind = "update", u.key \in Ints, u.id = f.id
                 PROVE  Unknown(entries', f.id) \/ u \in ToSet(todo')
    BY <1>4, <2>1, <2>2, <2>3 DEF Released
  <2>4. CASE u = op BY <1>11, <2>3, <2>4 DEF Turns
  <2>5. CASE u # op
    <3>1. u.key # k BY <1>7, <1>8, <2>3, <2>5
    <3>2. f.key \in Ints
      <4>1. f \in IntOps BY <1>3, <2>1, <2>2 DEF Ops, Executables, HacsOps, SubOps, Errors
      <4> QED BY <4>1 DEF IntOps
    <3>3. LayerOf(f.key) = LayerOf(u.key) BY <2>3, <3>2, IntegrationsAssumption DEF LayerOf
    <3> QED BY <1>5, <1>11, <2>1, <2>3, <3>1, <3>3
  <2> QED BY <2>4, <2>5
<1> QED BY <1>4, <1>6, <1>9, <1>10, <1>11, Zenon DEF Called, Waits, GivesUp, Turns

LEMMA CallApplied == TypeInv /\ Truth /\ OneCall => AppliedOK(entries)'
<1>0. SUFFICES ASSUME TypeInv, Truth, OneCall PROVE AppliedOK(entries)' OBVIOUS
<1> DEFINE op == Head(todo)
           k == op.key
<1>1. TypeOK /\ AppliedOK(entries) BY <1>0, CallFacts DEF TypeInv, Truth, PlansOK
<1>2. Moved(entries') /\ plan' = plan BY <1>0, CallFrame
<1>3. \A x \in ToSet(plan) \cup ToSet(todo) : x \in Ops /\ x.id \in Mentioned BY <1>1, RecordsMentioned
<1>4. /\ op \in ToSet(todo) /\ op \in ToSet(plan) /\ ToSet(todo) \subseteq ToSet(plan) /\ <<op.kind, op.key>> \notin applied
      /\ \A x, y \in ToSet(plan) : x.key = y.key => x = y
      /\ \A rest \in Rests : ToSet(rest) \subseteq ToSet(todo) /\ \A x \in ToSet(rest) : x.key # k
  BY <1>0, CallPlan
<1>5. \A l \in Keys : l # k => mem'.managed[l] = mem.managed[l] BY <1>0, CallRecords
<1>6. Called BY <1>0, CallView DEF Truth, SubsOK
<1>7. /\ ToSet(todo) \subseteq ToSet(plan) /\ \A x \in ToSet(todo) : <<x.kind, x.key>> \notin applied
      /\ \A x \in ToSet(plan) : <<x.kind, x.key>> \in applied =>
           /\ x.kind = "update" /\ x.key \in Ints => Unknown(entries, x.id)
           /\ x.kind = "unmanage" => mem.managed[x.key] = None
  BY <1>1 DEF AppliedOK
<1>8. \A x \in ToSet(plan) : x.kind = "update" /\ x.key \in Ints => x.id \in EntryIds
  <2>1. SUFFICES ASSUME NEW x \in ToSet(plan), x.kind = "update", x.key \in Ints PROVE x.id \in EntryIds OBVIOUS
  <2>2. x \in Ops BY <1>3
  <2>3. x \in Executables BY <2>1, <2>2, OpShape DEF Ops
  <2> QED BY <2>1, <2>2, <2>3, OpShape
<1>9. \A x \in ToSet(plan) : x.key \in Keys BY <1>3, OpShape
<1> HIDE DEF op, k
\* what was done before stays done
<1>10. ASSUME NEW x \in ToSet(plan), <<x.kind, x.key>> \in applied
       PROVE  /\ x.kind = "update" /\ x.key \in Ints => Unknown(entries', x.id)
              /\ x.kind = "unmanage" => mem'.managed[x.key] = None
  <2>1. x # op BY <1>4, <1>10
  <2>2. x.key # k BY <1>4, <2>1 DEF k
  <2>3. x.kind = "unmanage" => mem'.managed[x.key] = None BY <1>5, <1>7, <1>9, <1>10, <2>2
  <2>4. x.kind = "update" /\ x.key \in Ints => Unknown(entries', x.id) BY <1>1, <1>2, <1>3, <1>7, <1>8, <1>10, MovedKeeps
  <2> QED BY <2>3, <2>4
<1>11. /\ applied' \in {applied, applied \cup {<<op.kind, k>>}}
       /\ applied' # applied =>
            /\ op.kind = "update" /\ k \in Ints => Unknown(entries', op.id)
            /\ op.kind = "unmanage" => mem'.managed[k] = None
            /\ todo' \in Rests \/ todo' = <<>>
       /\ todo' \in Rests \/ todo' = <<>> \/ todo' = todo
  BY <1>6 DEF Called, Waits, GivesUp, Turns, op, k
<1>12. ASSUME NEW x \in ToSet(plan), <<x.kind, x.key>> \in applied'
       PROVE  /\ x.kind = "update" /\ x.key \in Ints => Unknown(entries', x.id)
              /\ x.kind = "unmanage" => mem'.managed[x.key] = None
  <2>1. CASE <<x.kind, x.key>> \in applied BY <1>10, <2>1
  <2>2. CASE <<x.kind, x.key>> \notin applied
    <3>1. applied' # applied /\ x.key = k BY <1>11, <1>12, <2>2
    <3>2. x = op BY <1>4, <3>1 DEF k
    <3> QED BY <1>11, <3>1, <3>2
  <2> QED BY <2>1, <2>2
<1>13. ToSet(todo') \subseteq ToSet(plan) /\ \A x \in ToSet(todo') : <<x.kind, x.key>> \notin applied'
  <2>1. CASE todo' = <<>> BY <2>1, EmptyTyped
  <2>2. CASE todo' = todo /\ todo' # <<>> /\ todo' \notin Rests BY <1>7, <1>11, <2>2
  <2>3. CASE todo' \in Rests
    <3>1. ToSet(todo') \subseteq ToSet(todo) /\ \A x \in ToSet(todo') : x.key # k BY <1>4, <2>3
    <3> QED BY <1>7, <1>11, <3>1
  <2> QED BY <1>11, <2>1, <2>2, <2>3
<1>14. SUFFICES /\ ToSet(todo') \subseteq ToSet(plan') /\ \A x \in ToSet(todo') : <<x.kind, x.key>> \notin applied'
                /\ \A x \in ToSet(plan') : <<x.kind, x.key>> \in applied' =>
                     /\ x.kind = "update" /\ x.key \in Ints => Unknown(entries', x.id)
                     /\ x.kind = "unmanage" => mem'.managed[x.key] = None
  BY DEF AppliedOK
<1> QED BY <1>2, <1>12, <1>13

LEMMA CallPlans == TypeInv /\ Truth /\ OneCall => PlansOK'
<1>0. SUFFICES ASSUME TypeInv, Truth, OneCall PROVE PlansOK' OBVIOUS
<1>1. saved' = saved /\ plan' = plan BY <1>0, CallFrame
<1>2. InOrder(plan, Planned) /\ InOrder(todo, Planned) /\ OneSub(plan, saved.managed) BY <1>0 DEF Truth, PlansOK
<1>3. InOrder(todo', Planned)
  <2>1. todo' = todo \/ todo' = <<>> \/ todo' \in Rests BY <1>0, CallView, Zenon DEF Truth, SubsOK, Called, Waits, GivesUp, Turns
  <2>2. \A rest \in Rests : InOrder(rest, Planned) BY <1>0, CallPlan
  <2> QED BY <1>2, <2>1, <2>2, EmptyTyped
<1>4. Released(entries', plan) /\ Released(entries', todo') BY <1>0, CallReleased
<1>5. OneSub(plan, mem'.managed) /\ OneSub(todo', mem'.managed) BY <1>0, CallOneSub
<1>6. AppliedOK(entries)' BY <1>0, CallApplied
<1>8. OneSub(plan', saved'.managed) /\ OneSub(plan', mem'.managed) BY <1>1, <1>2, <1>5
<1>9. InOrder(plan', Planned) /\ Released(entries', plan') BY <1>1, <1>2, <1>4
<1> QED BY <1>3, <1>4, <1>5, <1>6, <1>8, <1>9, Zenon DEF PlansOK

-----------------------------------------------------------------------------
(* What a call removes                                                      *)

\* A call leaves an entry its domain and title, and removes only the one its
\* operation deletes.
LEMMA CallEntries ==
  ASSUME TypeInv, OneCall
  PROVE  \A e \in EntryIds : entries[e] # Gone =>
           /\ entries'[e] # Gone => entries'[e].domain = entries[e].domain /\ entries'[e].title = entries[e].title
           /\ entries'[e] = Gone => DeleteEntry /\ e = Head(todo).id
<1> DEFINE op == Head(todo)
<1>1. entries \in [EntryIds -> Entries \cup {Gone}] /\ Gone \notin Entries BY WorldTyped DEF TypeInv
<1>2. CASE RunHacs \/ ListEntries \/ ForgetEntry \/ CreateSub \/ FindSub \/ UpdateSub \/ Unmanage
  <2>1. entries' = entries
    BY <1>2, Zenon DEF RunHacs, ListEntries, ForgetEntry, CreateSub, FindSub, UpdateSub, Unmanage, home
  <2> QED BY <2>1
<1>3. CASE CreateEntry \/ CreateFails
  <2>1. entries' = entries \/ (CanMakeEntry /\ \E t, v : entries' = NewInt(op.item, t, v))
    BY <1>3, Zenon DEF CreateEntry, CreateFails
  <2> QED BY <1>1, <2>1, FreshIds DEF NewInt
<1>4. CASE AdoptEntry
  <2>1. entries' = IF LiveEntry(op.id) THEN [entries EXCEPT ![op.id].data = Opaque] ELSE entries BY <1>4 DEF AdoptEntry
  <2>2. [entries EXCEPT ![op.id].data = Opaque] = [entries EXCEPT ![op.id] = [entries[op.id] EXCEPT !.data = Opaque]] OBVIOUS
  <2>3. \A r \in Entries : LET r2 == [r EXCEPT !.data = Opaque] IN r2 \in Entries /\ r2.domain = r.domain /\ r2.title = r.title
    BY EntryShape DEF Entries
  <2>4. op.id \in EntryIds BY <1>4, IntHead DEF AdoptEntry, TypeInv
  <2>5. CASE LiveEntry(op.id)
    <3>1. PICK r2 : r2 = [entries[op.id] EXCEPT !.data = Opaque] OBVIOUS
    <3>2. r2 \in Entries /\ r2.domain = entries[op.id].domain /\ r2.title = entries[op.id].title
      BY <1>1, <2>3, <2>4, <2>5, <3>1 DEF LiveEntry
    <3>3. entries' = [entries EXCEPT ![op.id] = r2] BY <2>1, <2>2, <2>5, <3>1
    <3> QED BY <1>1, <2>4, <3>2, <3>3
  <2> QED BY <2>1, <2>5
<1>5. CASE DeleteEntry
  <2>1. entries' = entries \/ Removed(op.id) BY <1>5, Zenon DEF DeleteEntry
  <2>2. entries' = entries \/ entries' = [entries EXCEPT ![op.id] = Gone] BY <2>1 DEF Removed
  <2> QED BY <1>1, <1>5, <2>2
<1> QED BY <1>2, <1>3, <1>4, <1>5 DEF OneCall

LEMMA CallSpares == TypeInv /\ Truth /\ OneCall => DeletesSpare'
<1>0. SUFFICES ASSUME TypeInv, Truth, OneCall, calm' PROVE DeletesSpare' BY DEF DeletesSpare
<1>1. /\ desired' = desired /\ saved' = saved /\ plan' = plan /\ mode' = mode /\ calm' = calm /\ Moved(entries') BY <1>0, CallFrame
<1>2. mode = "apply" /\ \A op \in ToSet(plan) : op.kind = "delete" => Spares(op) BY <1>0, <1>1 DEF Truth, DeletesSpare
<1>3. ToSet(todo') \subseteq ToSet(plan) BY <1>0, CallApplied, <1>1 DEF AppliedOK
<1>4. SUFFICES ASSUME NEW op \in ToSet(plan), op.kind = "delete", NEW i \in Ints, Declared(i)
               PROVE  /\ saved.managed[i] # op.id
                      /\ \/ LiveEntry(saved.managed[i])' \/ ~LiveEntry(op.id)'
                         \/ desired[i].domain # entries'[op.id].domain \/ desired[i].title # entries'[op.id].title
  BY <1>1, <1>2, <1>3 DEF DeletesSpare, Spares, Declared
<1>5. op.id \in EntryIds /\ op.id \in Mentioned
  <2>1. op \in Ops /\ op.id \in Mentioned BY <1>0, RecordsMentioned DEF TypeInv
  <2>2. op \in IntOps BY <1>4, <2>1 DEF Ops, Executables, HacsOps, SubOps, Errors
  <2> QED BY <1>4, <2>1, <2>2 DEF IntOps
<1>6. /\ saved.managed[i] # op.id
      /\ LiveEntry(saved.managed[i]) \/ ~LiveEntry(op.id) \/ desired[i].domain # entries[op.id].domain
           \/ desired[i].title # entries[op.id].title
  BY <1>2, <1>4 DEF Spares
<1>7. \A e \in EntryIds : entries[e] # Gone =>
        /\ entries'[e] # Gone => entries'[e].domain = entries[e].domain /\ entries'[e].title = entries[e].title
        /\ entries'[e] = Gone => DeleteEntry /\ e = Head(todo).id
  BY <1>0, CallEntries
<1>8. CASE LiveEntry(saved.managed[i])
  <2>1. saved.managed[i] \in EntryIds /\ saved.managed[i] \in Mentioned /\ entries[saved.managed[i]] # Gone
    BY <1>0, <1>8, RecordsMentioned DEF TypeInv, LiveEntry
  <2>2. ~(DeleteEntry /\ saved.managed[i] = Head(todo).id)
    <3>1. SUFFICES ASSUME DeleteEntry PROVE saved.managed[i] # Head(todo).id OBVIOUS
    <3>2. Head(todo).kind = "delete" BY <3>1 DEF DeleteEntry, Op1
    <3>3. Head(todo) \in ToSet(plan) BY <1>0, CallPlan
    <3> QED BY <1>2, <1>4, <3>2, <3>3 DEF Spares
  <2>3. entries'[saved.managed[i]] # Gone BY <1>7, <2>1, <2>2
  <2>4. LiveEntry(saved.managed[i])' BY <1>1, <1>8, <2>3 DEF LiveEntry
  <2> QED BY <1>6, <2>4
<1>9. CASE ~LiveEntry(op.id)
  <2>1. ~LiveEntry(op.id)' BY <1>1, <1>5, <1>9 DEF LiveEntry, Moved
  <2> QED BY <1>6, <2>1
<1>10. CASE ~LiveEntry(saved.managed[i]) /\ LiveEntry(op.id)
  BY <1>5, <1>6, <1>7, <1>10 DEF LiveEntry
<1> QED BY <1>8, <1>9, <1>10

\* A call keeps what is known true.
LEMMA CallTrue == TypeInv /\ Truth /\ OneCall => Truth'
BY CallPlans, CallInts, CallSubs, CallSpares, Zenon DEF Truth

-----------------------------------------------------------------------------
(* What a cycle, and the start of an apply or of a Roll Back, leave true    *)

\* Between applies nothing is left to do and nothing is recorded in memory.
LEMMA IdleFacts ==
  ASSUME TypeInv, Idle
  PROVE  /\ todo = <<>> /\ ToSet(todo) = {} /\ mem = NoRecords /\ mode = "apply" /\ pos = 0
         /\ \A k \in Keys : mem.managed[k] = None /\ mem.hash[k] = None
<1>1. todo = <<>> /\ mem = NoRecords /\ mode = "apply" /\ pos = 0 BY DEF TypeInv, ControlOK, Idle
<1>2. \A k \in Keys : mem.managed[k] = None /\ mem.hash[k] = None BY <1>1 DEF NoRecords
<1> QED BY <1>1, <1>2, EmptyTyped

\* What is said of the records and of what there is, in a step that leaves
\* them and the journals alone.
LEMMA SameWorldTrue ==
  ASSUME TypeInv, Truth, entries' = entries, subs' = subs, saved' = saved, mem' = mem, executed' = executed, journals' = journals,
         todo' = todo, phase' = phase, phase # "find"
  PROVE  IntsOK' /\ SubsOK'
<1>1. IntsOK /\ SubsOK BY DEF Truth
<1>2. Journalled0' = Journalled0 BY DEF Journalled0
<1>3. FoundFresh' BY DEF FoundFresh
<1> QED BY <1>1, <1>2, <1>3 DEF IntsOK, SubsOK

LEMMA CycleTrue == TypeInv /\ Truth /\ (Reconcile \/ FetchFails) => Truth'
<1>0. SUFFICES ASSUME TypeInv, Truth, Reconcile \/ FetchFails PROVE Truth' OBVIOUS
<1>1. /\ Idle /\ desired' = desired /\ entries' = entries /\ subs' = subs /\ saved' = saved /\ mem' = mem /\ executed' = executed
      /\ journals' = journals /\ todo' = todo /\ phase' = phase /\ mode' = mode
  BY <1>0, Zenon DEF Reconcile, FetchFails, home, disk, working
<1>2. todo = <<>> /\ ToSet(todo) = {} /\ mode = "apply" BY <1>0, <1>1, IdleFacts
<1>3. \/ plan' = <<>>
      \/ Loaded /\ plan' \in {Plan, PlanInts(saved.attempts) \o PlanSubs(saved.attempts)}
  BY <1>0 DEF Reconcile, FetchFails
<1>4. Sound(plan')
  <2>1. Loaded => Sound(Plan) /\ Sound(PlanInts(saved.attempts) \o PlanSubs(saved.attempts))
    BY <1>0, ApartHolds, PlanSound DEF TypeInv
  <2> QED BY <1>3, <2>1, EmptySound
<1>5. /\ InOrder(plan', Planned) /\ Released(entries, plan') /\ OneSub(plan', saved.managed)
      /\ \A op \in ToSet(plan') : op.kind = "delete" => Spares(op)
  BY <1>4 DEF Sound
<1>6. IntsOK' /\ SubsOK' BY <1>0, <1>1, SameWorldTrue DEF Idle
<1>7. PlansOK'
  <2>1. InOrder(todo, Planned) /\ Released(entries, todo) BY <1>0 DEF Truth, PlansOK
  <2>2. phase' = "idle" BY <1>1 DEF Idle
  <2>3. /\ InOrder(plan', Planned) /\ Released(entries', plan') /\ OneSub(plan', saved'.managed)
        /\ InOrder(todo', Planned) /\ Released(entries', todo')
    BY <1>1, <1>5, <2>1
  <2>4. ~(phase' # "idle") /\ ~(phase' \in {"run", "find"}) BY <2>2
  <2> QED BY <2>3, <2>4, Zenon DEF PlansOK
<1>8. DeletesSpare'
  <2>1. ToSet(todo') = {} /\ mode' = "apply" BY <1>1, <1>2
  <2>2. \A op \in ToSet(plan') : op.kind = "delete" => Spares(op)' BY <1>1, <1>5 DEF Spares, Declared, LiveEntry
  <2> QED BY <2>1, <2>2 DEF DeletesSpare
<1> QED BY <1>6, <1>7, <1>8, Zenon DEF Truth

\* Between applies the records of the subentries hold whatever is behind.
SavedTrueAlone(sb, sv) == \A S : SavedSubsTrue(sb, sv, S) /\ SubsTrue(sb, sv, S)

LEMMA NothingBehind ==
  ASSUME \A k \in Keys : mem.managed[k] = None, SavedSubsTrue(subs, saved, Behind(saved, mem, todo))
  PROVE  SavedTrueAlone(subs, saved)
<1>1. \A s \in Subs : Live0(subs, saved.managed[s]) => subs[saved.managed[s]].data \in {Opaque, saved.hash[s]}
  <2>1. SUFFICES ASSUME NEW s \in Subs, Live0(subs, saved.managed[s]), s \in Behind(saved, mem, todo) PROVE FALSE
    BY DEF SavedSubsTrue
  <2>2. saved.managed[s] = None BY <2>1 DEF Behind, Keys
  <2>3. None \notin SubIds BY IntegrationsAssumption DEF Ids
  <2> QED BY <2>1, <2>2, <2>3 DEF Live0
<1>2. \A s \in Subs : \A t \in Subs \ {s} : saved.managed[s] = saved.managed[t] => saved.managed[s] = None
  BY DEF SavedSubsTrue
<1> QED BY <1>1, <1>2 DEF SavedTrueAlone, SavedSubsTrue, SubsTrue

LEMMA StartApplyTrue == TypeInv /\ Truth /\ StartApply => Truth'
<1>0. SUFFICES ASSUME TypeInv, Truth, StartApply PROVE Truth' OBVIOUS
<1>1. /\ Idle /\ desired' = desired /\ entries' = entries /\ subs' = subs /\ saved' = saved /\ plan' = plan /\ calm' = calm
      /\ mode' = "apply" /\ phase' = "run" /\ applied' = {} /\ (todo' = Executable(plan) \/ todo' = <<>>)
  BY <1>0, Zenon DEF StartApply, home
<1>2. SameRecords(mem', saved)
  <2> DEFINE rem == IF reminder = None THEN saved.reminder ELSE reminder
  <2>1. mem' = [saved EXCEPT !.reminder = rem] BY <1>0 DEF StartApply
  <2>2. rem \in SUBSET Domains /\ RecordOK(saved) BY <1>0, RecordFields DEF TypeInv, TypeOK
  <2> HIDE DEF rem
  <2> QED BY <2>1, <2>2, ReminderTyped
<1>3. \A k \in Keys : mem.managed[k] = None BY <1>0, <1>1, IdleFacts
<1>4. /\ InOrder(plan, Planned) /\ Released(entries, plan) /\ OneSub(plan, saved.managed) /\ plan \in Seq(Ops)
  BY <1>0 DEF Truth, PlansOK, TypeInv, TypeOK, Ops
<1>5. /\ ToSet(todo') \subseteq {op \in ToSet(plan) : op.kind # "error"} /\ InOrder(todo', Planned)
      /\ todo' # <<>> => ToSet(todo') = {op \in ToSet(plan) : op.kind # "error"}
  BY <1>1, <1>4, ExecutableTyped, EmptyTyped
<1>6. Released(entries, todo') /\ OneSub(todo', saved.managed)
  <2>1. CASE todo' = <<>> BY <2>1, EmptyTyped DEF Released, OneSub
  <2>2. CASE todo' # <<>>
    <3>1. ToSet(todo') = {op \in ToSet(plan) : op.kind # "error"} BY <1>5, <2>2
    <3>2. Released(entries, todo')
      <4>1. SUFFICES ASSUME NEW f \in ToSet(todo'), f.kind = "forget"
                     PROVE  Unknown(entries, f.id) \/ \E u \in ToSet(todo') : u.kind = "update" /\ u.key \in Ints /\ u.id = f.id
        BY DEF Released
      <4> QED BY <1>4, <3>1, <4>1 DEF Released
    <3>3. OneSub(todo', saved.managed)
      <4>1. SUFFICES ASSUME NEW u \in ToSet(todo'), u.kind = "update", u.key \in Subs
                     PROVE  /\ \A s \in Subs \ {u.key} : saved.managed[s] = u.id => \E d \in ToSet(todo') : d.kind = "unmanage" /\ d.key = s
                            /\ \A v \in ToSet(todo') : v.kind = "update" /\ v.key \in Subs /\ v.id = u.id => v.key = u.key
        BY DEF OneSub
      <4> QED BY <1>4, <3>1, <4>1 DEF OneSub
    <3> QED BY <3>2, <3>3
  <2> QED BY <2>1, <2>2
<1>7. PlansOK'
  <2>1. OneSub(plan, mem'.managed) /\ OneSub(todo', mem'.managed) BY <1>2, <1>4, <1>6, SameTrue
  <2>2. AppliedOK(entries)'
    <3>1. \A x : x \notin applied' BY <1>1
    <3> QED BY <1>1, <1>5, <3>1 DEF AppliedOK
  <2>3. /\ InOrder(plan', Planned) /\ Released(entries', plan') /\ OneSub(plan', saved'.managed) /\ OneSub(plan', mem'.managed)
        /\ Released(entries', todo')
    BY <1>1, <1>4, <1>6, <2>1
  <2> QED BY <1>5, <2>1, <2>2, <2>3, Zenon DEF PlansOK
<1>8. IntsOK'
  <2>1. IntsTrue(entries, saved) /\ ForgottenUnknown(entries, Journalled0) BY <1>0 DEF Truth, IntsOK
  <2>2. IntsTrue(entries, mem') BY <1>2, <2>1, SameTrue
  <2>3. Next BY <1>0, Zenon DEF Next
  <2>4. OneCall \/ Journalled0' \subseteq Journalled0 BY <1>0, <2>3, JournalsStep
  <2>5. ~OneCall BY <1>0, <1>1, CallFacts DEF Idle
  <2>6. ForgottenUnknown(entries, Journalled0') BY <2>1, <2>4, <2>5 DEF ForgottenUnknown
  <2> QED BY <1>1, <2>1, <2>2, <2>6, Zenon DEF IntsOK
<1>9. SubsOK'
  <2>1. SavedSubsTrue(subs, saved, Behind(saved, mem, todo)) BY <1>0 DEF Truth, SubsOK
  <2>2. SavedTrueAlone(subs, saved) BY <1>3, <2>1, NothingBehind
  <2>3. SubsTrue(subs, mem', Leaving(todo')) BY <1>2, <2>2, SameTrue DEF SavedTrueAlone
  <2>4. SavedSubsTrue(subs, saved, Behind(saved, mem', todo')) BY <2>2 DEF SavedTrueAlone
  <2>6. SavedSubsTrue(subs', saved', Behind(saved', mem', todo')) /\ SubsTrue(subs', mem', Leaving(todo')) BY <1>1, <2>3, <2>4
  <2>7. FoundFresh' BY <1>1 DEF FoundFresh
  <2> QED BY <2>6, <2>7, Zenon DEF SubsOK
<1>10. DeletesSpare'
  <2>1. DeletesSpare BY <1>0 DEF Truth
  <2>2. \A op : Spares(op)' <=> Spares(op) BY <1>1 DEF Spares, Declared, LiveEntry
  <2> QED BY <1>1, <1>5, <2>1, <2>2 DEF DeletesSpare
<1> QED BY <1>7, <1>8, <1>9, <1>10, Zenon DEF Truth

LEMMA StartRollbackTrue == TypeInv /\ Truth /\ StartRollback => Truth'
<1>0. SUFFICES ASSUME TypeInv, Truth, StartRollback PROVE Truth' OBVIOUS
<1>1. /\ Idle /\ desired' = desired /\ entries' = entries /\ subs' = subs /\ saved' = saved /\ plan' = plan /\ calm' = FALSE
      /\ mem' = saved /\ phase' = "undo" /\ todo' = <<>>
  BY <1>0, Zenon DEF StartRollback, home, disk
<1>2. \A k \in Keys : mem.managed[k] = None BY <1>0, <1>1, IdleFacts
<1>3. InOrder(plan, Planned) /\ Released(entries, plan) /\ OneSub(plan, saved.managed) BY <1>0 DEF Truth, PlansOK
<1>4. PlansOK'
  <2>1. /\ InOrder(plan', Planned) /\ Released(entries', plan') /\ OneSub(plan', saved'.managed) /\ OneSub(plan', mem'.managed)
        /\ InOrder(todo', Planned)
    BY <1>1, <1>3, EmptyTyped
  <2>2. Released(entries', todo') BY <1>1, EmptyTyped DEF Released
  <2>3. ~(phase' \in {"run", "find"}) BY <1>1
  <2> QED BY <2>1, <2>2, <2>3, Zenon DEF PlansOK
<1>5. IntsOK'
  <2>1. IntsTrue(entries, saved) /\ ForgottenUnknown(entries, Journalled0) BY <1>0 DEF Truth, IntsOK
  <2>2. Next BY <1>0, Zenon DEF Next
  <2>3. OneCall \/ Journalled0' \subseteq Journalled0 BY <1>0, <2>2, JournalsStep
  <2>4. ~OneCall BY <1>0, <1>1, CallFacts DEF Idle
  <2>5. ForgottenUnknown(entries, Journalled0') BY <2>1, <2>3, <2>4 DEF ForgottenUnknown
  <2> QED BY <1>1, <2>1, <2>5, Zenon DEF IntsOK
<1>6. SubsOK'
  <2>1. SavedSubsTrue(subs, saved, Behind(saved, mem, todo)) BY <1>0 DEF Truth, SubsOK
  <2>2. SavedTrueAlone(subs, saved) BY <1>2, <2>1, NothingBehind
  <2>3. SavedSubsTrue(subs', saved', Behind(saved', mem', todo')) /\ SubsTrue(subs', mem', Leaving(todo'))
    BY <1>1, <2>2 DEF SavedTrueAlone
  <2>4. FoundFresh' BY <1>1 DEF FoundFresh
  <2> QED BY <2>3, <2>4, Zenon DEF SubsOK
<1>7. DeletesSpare' BY <1>1 DEF DeletesSpare
<1> QED BY <1>4, <1>5, <1>6, <1>7, Zenon DEF Truth

-----------------------------------------------------------------------------
(* What one step of a Roll Back leaves true                                 *)

\* What is said of subentries does not depend on the records of other items.
LEMMA SameSubs ==
  ASSUME NEW r, NEW r2, \A s \in Subs : r2.managed[s] = r.managed[s] /\ r2.hash[s] = r.hash[s]
  PROVE  /\ \A sb, S : SubsTrue(sb, r, S) => SubsTrue(sb, r2, S)
         /\ \A ops : OneSub(ops, r.managed) => OneSub(ops, r2.managed)
         /\ \A sv, ops : Behind(sv, r2, ops) = Behind(sv, r, ops)
<1>1. \A sb, S : SubsTrue(sb, r, S) => SubsTrue(sb, r2, S) BY DEF SubsTrue
<1>2. \A ops : OneSub(ops, r.managed) => OneSub(ops, r2.managed)
  <2>1. SUFFICES ASSUME NEW ops, OneSub(ops, r.managed), NEW u \in ToSet(ops), u.kind = "update", u.key \in Subs
                 PROVE  /\ \A s \in Subs \ {u.key} : r2.managed[s] = u.id => \E d \in ToSet(ops) : d.kind = "unmanage" /\ d.key = s
                        /\ \A v \in ToSet(ops) : v.kind = "update" /\ v.key \in Subs /\ v.id = u.id => v.key = u.key
    BY DEF OneSub
  <2> QED BY <2>1 DEF OneSub
<1>3. \A sv, ops : Behind(sv, r2, ops) = Behind(sv, r, ops) BY DEF Behind
<1> QED BY <1>1, <1>2, <1>3

LEMMA UndoTrue == TypeInv /\ Truth /\ UndoOne => Truth'
<1>0. SUFFICES ASSUME TypeInv, Truth, UndoOne PROVE Truth' OBVIOUS
<1> DEFINE k == executed[pos].key
<1>1. /\ phase = "undo" /\ phase' = phase /\ desired' = desired /\ saved' = saved /\ plan' = plan /\ todo' = todo /\ calm' = calm
      /\ pos > 0
  BY <1>0, Zenon DEF UndoOne
<1>2. todo = <<>> /\ mode = "rollback" BY <1>0, <1>1 DEF TypeInv, ControlOK
<1>3. TypeOK /\ PlansOK /\ IntsOK /\ SubsOK /\ DeletesSpare BY <1>0 DEF TypeInv, Truth
<1>4. Next BY <1>0, Zenon DEF Next, Apply
<1>5. Moved(entries') /\ SubsMoved(subs')
  <2>1. ~Reconfigured BY <1>1 DEF Reconfigured, UpdateSub, Op1
  <2> QED BY <1>0, <1>4, <2>1, EntriesStep
<1>6. Journalled0' \subseteq Journalled0
  <2>1. ~OneCall BY <1>0, <1>1, CallFacts
  <2> QED BY <1>0, <1>4, <2>1, JournalsStep
<1>7. k \in Ints /\ k \in Keys BY <1>0, <1>1, JournalAt
<1>8. /\ \A l \in Keys : l # k => mem'.managed[l] = mem.managed[l] /\ mem'.hash[l] = mem.hash[l]
      /\ SameRecords(mem', mem) \/ Undone(mem'.managed[k], mem'.hash[k])
  <2>1. SameRecords(mem', mem) \/ \E id, hash : Undone(id, hash) BY <1>0, <1>3, UndoView DEF IntsOK
  <2>2. CASE SameRecords(mem', mem) BY <2>2 DEF SameRecords
  <2>3. CASE \E id, hash : Undone(id, hash)
    <3>1. PICK id, hash : Undone(id, hash) BY <2>3
    <3>2. RecordsAt(mem', mem, k, id, hash) BY <3>1 DEF Undone
    <3>3. mem.managed \in [Keys -> Ids0] /\ mem.hash \in [Keys -> Sent \cup {None}] BY <1>3, RecordFields DEF TypeOK
    <3>4. /\ mem'.managed[k] = id /\ mem'.hash[k] = hash
          /\ \A l \in Keys : l # k => mem'.managed[l] = mem.managed[l] /\ mem'.hash[l] = mem.hash[l]
      BY <1>7, <3>2, <3>3 DEF RecordsAt
    <3> QED BY <3>1, <3>4
  <2> QED BY <2>1, <2>2, <2>3
<1>9. \A s \in Subs : mem'.managed[s] = mem.managed[s] /\ mem'.hash[s] = mem.hash[s]
  BY <1>7, <1>8, IntegrationsAssumption DEF Keys
<1>10. PlansOK'
  <2>1. \A op \in ToSet(plan) \cup ToSet(todo) : op \in Ops /\ op.id \in Mentioned BY <1>3, RecordsMentioned
  <2>2. Released(entries', plan) /\ Released(entries', todo) BY <1>3, <1>5, <2>1, MovedKeeps DEF PlansOK
  <2>3. OneSub(plan, mem.managed) /\ OneSub(plan, saved.managed) /\ InOrder(plan, Planned) /\ InOrder(todo, Planned)
    BY <1>1, <1>3 DEF PlansOK
  <2>4. OneSub(plan, mem'.managed) BY <1>9, <2>3, SameSubs
  <2>5. /\ InOrder(plan', Planned) /\ Released(entries', plan') /\ OneSub(plan', saved'.managed) /\ OneSub(plan', mem'.managed)
        /\ InOrder(todo', Planned) /\ Released(entries', todo')
    BY <1>1, <2>2, <2>3, <2>4
  <2>6. ~(phase' \in {"run", "find"}) BY <1>1
  <2> QED BY <2>5, <2>6, Zenon DEF PlansOK
<1>11. IntsOK'
  <2>1. IntsTrue(entries', saved) /\ IntsTrue(entries', mem) /\ ForgottenUnknown(entries', Journalled0)
    BY <1>3, <1>5, RecordsMentioned, MovedKeeps DEF IntsOK
  <2>2. IntsTrue(entries', mem')
    <3>1. CASE SameRecords(mem', mem) BY <2>1, <3>1, SameTrue
    <3>2. CASE Undone(mem'.managed[k], mem'.hash[k])
      <4>1. \/ k \notin Ints \/ mem'.managed[k] = None \/ Unknown(entries', mem'.managed[k])
            \/ mem'.managed[k] \notin Mentioned /\ entries'[mem'.managed[k]].data = mem'.hash[k]
        BY <3>2 DEF Undone
      <4>2. \A i \in Ints : mem.managed[i] \in Mentioned BY <1>3, RecordsMentioned
      <4>3. \A j \in Ints : j # k => mem'.managed[j] = mem.managed[j] /\ mem'.hash[j] = mem.hash[j] BY <1>8 DEF Keys
      <4>4. TypeOK /\ IntsTrue(entries', mem) BY <1>3, <2>1
      <4> HIDE DEF k
      <4> QED BY ONLY <4>1, <4>2, <4>3, <4>4, OneWritten
    <3> QED BY <1>8, <3>1, <3>2
  <2>3. ForgottenUnknown(entries', Journalled0') BY <1>6, <2>1 DEF ForgottenUnknown
  <2> QED BY <1>1, <2>1, <2>2, <2>3, Zenon DEF IntsOK
<1>12. SubsOK'
  <2>1. SubsTrue(subs', mem, Leaving(todo)) /\ SavedSubsTrue(subs', saved, Behind(saved, mem, todo))
    BY <1>3, <1>5, RecordsMentioned, SubsMovedKeeps DEF SubsOK
  <2>2. SubsTrue(subs', mem', Leaving(todo)) /\ Behind(saved, mem', todo) = Behind(saved, mem, todo) BY <1>9, <2>1, SameSubs
  <2>3. SubsTrue(subs', mem', Leaving(todo')) /\ SavedSubsTrue(subs', saved', Behind(saved', mem', todo')) BY <1>1, <2>1, <2>2
  <2>4. FoundFresh' BY <1>1 DEF FoundFresh
  <2> QED BY <2>3, <2>4, Zenon DEF SubsOK
<1>13. DeletesSpare' BY <1>1, <1>2, <1>3 DEF DeletesSpare
<1> QED BY <1>10, <1>11, <1>12, <1>13, Zenon DEF Truth

-----------------------------------------------------------------------------
(* What the end of an apply, or a crash, leaves true                        *)

\* Empty records say nothing.
LEMMA NothingTrue ==
  /\ \A en : IntsTrue(en, NoRecords)
  /\ \A sb, S : SubsTrue(sb, NoRecords, S)
<1>1. None \notin EntryIds /\ None \notin SubIds BY IntegrationsAssumption DEF Ids
<1>2. \A k \in Keys : NoRecords.managed[k] = None BY DEF NoRecords
<1>3. \A i \in Ints : NoRecords.managed[i] = None BY <1>2 DEF Keys
<1>4. \A s \in Subs : NoRecords.managed[s] = None BY <1>2 DEF Keys
<1> QED BY <1>1, <1>3, <1>4 DEF IntsTrue, SubsTrue, Live0

\* What was not saved is what nobody can tell any more.
LEMMA UnsureTrue ==
  ASSUME TypeInv, Truth, Unsure \/ (Idle /\ subs' = subs), SubsMoved(subs')
  PROVE  SavedTrueAlone(subs', saved)
<1>1. SavedSubsTrue(subs, saved, Behind(saved, mem, todo)) /\ TypeOK BY DEF Truth, SubsOK, TypeInv
<1>2. CASE Idle /\ subs' = subs
  <2>1. \A k \in Keys : mem.managed[k] = None BY <1>2, IdleFacts
  <2> QED BY <1>1, <1>2, <2>1, NothingBehind
<1>3. CASE Unsure
  <2>1. \A s \in Subs : saved.managed[s] \in Mentioned \cap (SubIds \cup {None}) BY <1>1, RecordsMentioned
  <2>2. ASSUME NEW s \in Subs, Live0(subs', saved.managed[s])
        PROVE  subs'[saved.managed[s]].data \in {Opaque, saved.hash[s]}
    <3> DEFINE x == saved.managed[s]
    <3>1. x \in SubIds /\ x # None /\ x \in Mentioned
      <4>1. None \notin SubIds BY IntegrationsAssumption DEF Ids
      <4> QED BY <2>1, <2>2, <4>1 DEF Live0
    <3>2. Live0(subs, x) /\ subs'[x].data \in {Opaque, subs[x].data} BY <2>2, <3>1 DEF SubsMoved, Live0
    <3>3. subs[x].data \in {Opaque, saved.hash[s]} \/ s \in Behind(saved, mem, todo) BY <1>1, <3>2 DEF SavedSubsTrue
    <3>4. CASE s \in Behind(saved, mem, todo)
      <4>1. \E t \in Subs : mem.managed[t] = x /\ <<mem.managed[t], mem.hash[t]>> # <<saved.managed[t], saved.hash[t]>>
        BY <3>4 DEF Behind
      <4>2. Unrecorded(x) BY <4>1 DEF Unrecorded, Keys
      <4>3. LiveSub(x) BY <3>1, <3>2 DEF LiveSub, Live0
      <4>4. subs'[x] = [subs[x] EXCEPT !.data = Opaque] BY <1>3, <3>1, <4>2, <4>3 DEF Unsure
      <4>5. subs[x] \in Subentries BY <1>1, <3>1, <4>3, WorldTyped DEF LiveSub
      <4>6. [subs[x] EXCEPT !.data = Opaque].data = Opaque BY <4>5 DEF Subentries
      <4> QED BY <4>4, <4>6
    <3> QED BY <3>2, <3>3, <3>4
  <2>3. \A s \in Subs : \A t \in Subs \ {s} : saved.managed[s] = saved.managed[t] => saved.managed[s] = None
    BY <1>1 DEF SavedSubsTrue
  <2> QED BY <2>2, <2>3 DEF SavedTrueAlone, SavedSubsTrue, SubsTrue
<1> QED BY <1>2, <1>3

\* An apply, or a Roll Back, that ends without its records.
LEMMA LostTrue ==
  ASSUME TypeInv, Truth, Moved(entries'), SubsMoved(subs'), Unsure \/ (Idle /\ subs' = subs), saved' = saved, plan' \in {plan, <<>>},
         todo' = <<>>, mem' = NoRecords, phase' = "idle", Journalled0' \subseteq Journalled0, calm' = FALSE
  PROVE  Truth'
<1>1. TypeOK /\ PlansOK /\ IntsOK BY DEF TypeInv, Truth
<1>2. PlansOK'
  <2>1. \A op \in ToSet(plan) : op \in Ops /\ op.id \in Mentioned BY <1>1, RecordsMentioned
  <2>2. Released(entries', plan) BY <1>1, <2>1, MovedKeeps DEF PlansOK
  <2>3. Released(entries', <<>>) /\ OneSub(<<>>, saved.managed) BY EmptyTyped DEF Released, OneSub
  <2>4. OneSub(plan, saved.managed) /\ InOrder(plan, Planned) BY <1>1 DEF PlansOK
  <2>5. /\ InOrder(plan', Planned) /\ Released(entries', plan') /\ OneSub(plan', saved'.managed)
        /\ InOrder(todo', Planned) /\ Released(entries', todo')
    BY <2>2, <2>3, <2>4, EmptyTyped
  <2>6. ~(phase' # "idle") /\ ~(phase' \in {"run", "find"}) OBVIOUS
  <2> QED BY <2>5, <2>6, Zenon DEF PlansOK
<1>3. IntsOK'
  <2>1. IntsTrue(entries', saved) /\ ForgottenUnknown(entries', Journalled0) BY <1>1, RecordsMentioned, MovedKeeps DEF IntsOK
  <2>2. IntsTrue(entries', mem') BY NothingTrue
  <2>3. ForgottenUnknown(entries', Journalled0') BY <2>1 DEF ForgottenUnknown
  <2> QED BY <2>1, <2>2, <2>3, Zenon DEF IntsOK
<1>4. SubsOK'
  <2>1. SavedTrueAlone(subs', saved) BY UnsureTrue
  <2>2. SavedSubsTrue(subs', saved', Behind(saved', mem', todo')) BY <2>1 DEF SavedTrueAlone
  <2>3. SubsTrue(subs', mem', Leaving(todo')) BY NothingTrue
  <2>4. FoundFresh' BY DEF FoundFresh
  <2> QED BY <2>2, <2>3, <2>4, Zenon DEF SubsOK
<1>5. DeletesSpare' BY DEF DeletesSpare
<1> QED BY <1>2, <1>3, <1>4, <1>5, Zenon DEF Truth

LEMMA CrashTrue == TypeInv /\ Truth /\ Crash => Truth'
<1>0. SUFFICES ASSUME TypeInv, Truth, Crash PROVE Truth' OBVIOUS
<1>1. /\ saved' = saved /\ journals' = journals /\ plan' = <<>> /\ todo' = <<>> /\ mem' = NoRecords /\ phase' = "idle"
      /\ executed' = <<>> /\ calm' = FALSE /\ (Unsure \/ (Idle /\ entries' = entries /\ subs' = subs))
  BY <1>0 DEF Crash, Clear, disk
<1>2. Moved(entries') /\ SubsMoved(subs') BY <1>0, <1>1, UnsureMoved, SameMoved DEF TypeInv
<1>3. Journalled0' \subseteq Journalled0 BY <1>1, EmptyTyped DEF Journalled0
<1> QED BY <1>0, <1>1, <1>2, <1>3, LostTrue

\* What is pending after an apply.
LEMMA PendingSound ==
  ASSUME TypeInv, Truth, phase = "run"
  PROVE  /\ InOrder(StillPending, Planned) /\ Released(entries, StillPending) /\ OneSub(StillPending, mem.managed)
         /\ failed = {} => \A op \in ToSet(StillPending) : op.kind = "error"
<1>1. /\ InOrder(plan, Planned) /\ Released(entries, plan) /\ OneSub(plan, mem.managed) /\ AppliedOK(entries) /\ TypeOK
  BY DEF Truth, PlansOK, TypeInv
<1>2. /\ ToSet(StillPending) \subseteq ToSet(plan) /\ InOrder(StillPending, Planned)
      /\ failed = {} => \A op \in ToSet(StillPending) : op.kind = "error"
      /\ failed # {} => \A op : op \in ToSet(StillPending) <=> op \in ToSet(plan) /\ <<op.kind, op.key>> \notin applied
  BY <1>1, StillPendingTyped
<1>3. \A x \in ToSet(plan) : <<x.kind, x.key>> \in applied =>
        /\ x.kind = "update" /\ x.key \in Ints => Unknown(entries, x.id)
        /\ x.kind = "unmanage" => mem.managed[x.key] = None
  BY <1>1 DEF AppliedOK
<1>4. Released(entries, StillPending)
  <2>1. SUFFICES ASSUME NEW f \in ToSet(StillPending), f.kind = "forget"
                 PROVE  Unknown(entries, f.id) \/ \E u \in ToSet(StillPending) : u.kind = "update" /\ u.key \in Ints /\ u.id = f.id
    BY DEF Released
  <2>2. failed # {} BY <1>2, <2>1
  <2>3. Unknown(entries, f.id) \/ \E u \in ToSet(plan) : u.kind = "update" /\ u.key \in Ints /\ u.id = f.id
    BY <1>1, <1>2, <2>1 DEF Released
  <2> QED BY <1>2, <1>3, <2>2, <2>3
<1>5. OneSub(StillPending, mem.managed)
  <2>1. SUFFICES ASSUME NEW u \in ToSet(StillPending), u.kind = "update", u.key \in Subs
                 PROVE  /\ \A s \in Subs \ {u.key} : mem.managed[s] = u.id =>
                             \E d \in ToSet(StillPending) : d.kind = "unmanage" /\ d.key = s
                        /\ \A v \in ToSet(StillPending) : v.kind = "update" /\ v.key \in Subs /\ v.id = u.id => v.key = u.key
    BY DEF OneSub
  <2>2. failed # {} /\ u \in ToSet(plan) BY <1>2, <2>1
  <2>3. u.id # None
    <3>1. u \in Ops BY <1>1, <2>2, RecordsMentioned
    <3>2. u \in Executables BY <2>1, <3>1, OpShape DEF Ops
    <3> QED BY <2>1, <3>1, <3>2, OpShape, IntegrationsAssumption DEF Ids
  <2>4. ASSUME NEW s \in Subs \ {u.key}, mem.managed[s] = u.id
        PROVE  \E d \in ToSet(StillPending) : d.kind = "unmanage" /\ d.key = s
    <3>1. PICK d \in ToSet(plan) : d.kind = "unmanage" /\ d.key = s BY <1>1, <2>1, <2>2, <2>4 DEF OneSub
    <3>2. <<d.kind, d.key>> \notin applied BY <1>3, <2>3, <2>4, <3>1
    <3> QED BY <1>2, <2>2, <3>1, <3>2
  <2>5. \A v \in ToSet(StillPending) : v.kind = "update" /\ v.key \in Subs /\ v.id = u.id => v.key = u.key
    BY <1>1, <1>2, <2>1, <2>2 DEF OneSub
  <2> QED BY <2>4, <2>5
<1> QED BY <1>2, <1>4, <1>5

LEMMA SaveTrue == TypeInv /\ Truth /\ StateSave => Truth'
<1>0. SUFFICES ASSUME TypeInv, Truth, StateSave PROVE Truth' OBVIOUS
<1>1. /\ desired' = desired /\ phase' = "idle" /\ todo' = <<>> /\ mem' = NoRecords /\ executed' = <<>> /\ journals' = journals
      /\ mode' = "apply" /\ calm' = (calm /\ failed = {} /\ faults' = faults)
      /\ (phase = "run" /\ todo = <<>>) \/ phase = "undo"
  BY <1>0 DEF StateSave, Clear
<1>2. todo = <<>> /\ phase \in {"run", "undo"} /\ (phase = "run" <=> mode = "apply") BY <1>0, <1>1 DEF TypeInv, ControlOK
<1>3. Journalled0' \subseteq Journalled0 BY <1>1, EmptyTyped DEF Journalled0
<1>4. \/ /\ saved' = mem /\ entries' = entries /\ subs' = subs /\ plan' = IF mode = "apply" THEN StillPending ELSE plan
      \/ /\ faults' = faults + 1 /\ Unsure /\ saved' = saved /\ plan' = plan
  BY <1>0, Zenon DEF StateSave, Fault
<1>5. CASE faults' = faults + 1 /\ Unsure /\ saved' = saved /\ plan' = plan
  <2>1. calm' = FALSE
    <3>1. faults \in Nat BY <1>0 DEF TypeInv, TypeOK
    <3>2. faults' # faults BY <1>5, <3>1
    <3> QED BY <1>1, <3>2
  <2>2. Moved(entries') /\ SubsMoved(subs') BY <1>0, <1>5, UnsureMoved DEF TypeInv
  <2> QED BY <1>0, <1>1, <1>3, <1>5, <2>1, <2>2, LostTrue
<1>6. CASE saved' = mem /\ entries' = entries /\ subs' = subs /\ plan' = IF mode = "apply" THEN StillPending ELSE plan
  <2>1. /\ InOrder(plan', Planned) /\ Released(entries, plan') /\ OneSub(plan', mem.managed)
        /\ mode = "apply" /\ failed = {} => \A op \in ToSet(plan') : op.kind = "error"
    <3>1. CASE mode = "apply" BY <1>0, <1>2, <1>6, <3>1, PendingSound
    <3>2. CASE mode # "apply" BY <1>0, <1>2, <1>6, <3>2 DEF Truth, PlansOK
    <3> QED BY <3>1, <3>2
  <2>2. PlansOK'
    <3>1. /\ InOrder(plan', Planned) /\ Released(entries', plan') /\ OneSub(plan', saved'.managed) /\ InOrder(todo', Planned)
      BY <1>1, <1>6, <2>1, EmptyTyped
    <3>2. Released(entries', todo') BY <1>1, EmptyTyped DEF Released
    <3>3. ~(phase' # "idle") /\ ~(phase' \in {"run", "find"}) BY <1>1
    <3> QED BY <3>1, <3>2, <3>3, Zenon DEF PlansOK
  <2>3. IntsOK'
    <3>1. IntsTrue(entries, mem) /\ ForgottenUnknown(entries, Journalled0) BY <1>0 DEF Truth, IntsOK
    <3>2. IntsTrue(entries', mem') BY <1>1, NothingTrue
    <3>3. ForgottenUnknown(entries', Journalled0') /\ IntsTrue(entries', saved') BY <1>3, <1>6, <3>1 DEF ForgottenUnknown
    <3> QED BY <3>2, <3>3, Zenon DEF IntsOK
  <2>4. SubsOK'
    <3>1. Leaving(todo) = {} BY <1>2, EmptyTyped DEF Leaving
    <3>2. SubsTrue(subs, mem, {}) BY <1>0, <3>1 DEF Truth, SubsOK
    <3>3. \A S : SavedSubsTrue(subs, mem, S) BY <3>2 DEF SubsTrue, SavedSubsTrue
    <3>4. SavedSubsTrue(subs', saved', Behind(saved', mem', todo')) BY <1>6, <3>3
    <3>5. SubsTrue(subs', mem', Leaving(todo')) BY <1>1, NothingTrue
    <3>6. FoundFresh' BY <1>1 DEF FoundFresh
    <3> QED BY <3>4, <3>5, <3>6, Zenon DEF SubsOK
  <2>5. DeletesSpare'
    <3>1. SUFFICES ASSUME calm' PROVE \A op \in ToSet(plan') \cup ToSet(todo') : op.kind # "delete"
      BY <1>1 DEF DeletesSpare
    <3>2. calm /\ failed = {} BY <1>1, <3>1
    <3>3. mode = "apply" BY <1>0, <3>2 DEF Truth, DeletesSpare
    <3> QED BY <1>1, <2>1, <3>2, <3>3, EmptyTyped
  <2> QED BY <2>2, <2>3, <2>4, <2>5, Zenon DEF Truth
<1> QED BY <1>4, <1>5, <1>6

\* Every step keeps what is known true.
LEMMA TruthStep == TypeInv /\ Truth /\ [Next]_vars => Truth'
BY AsideTrue, CycleTrue, StartApplyTrue, StartRollbackTrue, CallTrue, UndoTrue, CrashTrue, SaveTrue, Zenon DEF Next, Apply, OneCall

-----------------------------------------------------------------------------
(* The beginning                                                            *)

LEMMA InitTypes == Init => TypeInv
<1>0. SUFFICES ASSUME Init PROVE TypeInv OBVIOUS
<1>1. PICK s \in Starts :
        /\ desired = s.desired /\ changes = s.changes /\ rollbacks = s.rollbacks /\ entries = s.entries /\ subs = s.subs
        /\ installed = s.installed /\ loaded = s.loaded
        /\ secret = s.secret /\ saved = [NoRecords EXCEPT !.managed = s.managed, !.hash = s.hash, !.data = s.data]
        /\ owner = [x \in Ids |-> IF \E k \in Keys : s.managed[k] = x THEN CHOOSE k \in Keys : s.managed[k] = x ELSE None]
  BY <1>0 DEF Init
<1>2. /\ changes \in Nat /\ rollbacks \in Nat /\ desired \in Manifests /\ secret \in SecretValues \cup {None}
      /\ entries \in [EntryIds -> Entries \cup {Gone}] /\ subs \in [SubIds -> Subentries \cup {Gone}]
      /\ installed \subseteq Repos /\ loaded \subseteq Domains
      /\ s.managed \in [Keys -> Ids0] /\ s.hash \in [Keys -> Sent \cup {None}] /\ s.data \in [Keys -> Datas \cup {None}]
  BY <1>1, StartsAssumption DEF Ids0
<1>3. RecordOK(saved)
  <2> DEFINE n == [k \in Keys |-> None]
  <2>1. saved = [managed |-> s.managed, hash |-> s.hash, data |-> s.data, attempts |-> n, reminder |-> {}]
    BY <1>1 DEF NoRecords
  <2>2. n \in [Keys -> [hash : Sent \cup HacsItems, created : BOOLEAN] \cup {None}] OBVIOUS
  <2>3. \A k \in Keys : s.managed[k] \in IdsOf(k) \cup {None} /\ (s.hash[k] # None => s.managed[k] # None)
    BY <1>1, StartsAssumption DEF Keys, IdsOf
  <2>4. {} \in SUBSET Domains OBVIOUS
  <2> HIDE DEF n
  <2> QED BY <1>2, <2>1, <2>2, <2>3, <2>4, RecordTyped
<1>4. owner \in [Ids -> Keys \cup {None}]
  <2>1. \A x \in Ids : (IF \E k \in Keys : s.managed[k] = x THEN CHOOSE k \in Keys : s.managed[k] = x ELSE None) \in Keys \cup {None}
    OBVIOUS
  <2> QED BY <1>1, <2>1
<1>5. NoBefore \in Befores BY DEF NoBefore, Befores
<1>6. /\ savedPointer = 0 /\ pointer = 0 /\ journals = [d \in 1 .. 2 |-> <<>>]
      /\ plan = <<>> /\ reminder = None /\ phase = "idle" /\ mode = "apply"
      /\ mem = NoRecords /\ todo = <<>> /\ applied = {} /\ failed = {} /\ fetched = None
      /\ executed = <<>> /\ outstanding = {} /\ pos = 0 /\ cur = 0 /\ seen = None
      /\ calm = TRUE /\ before = NoBefore /\ origin = NoBefore
      /\ faults = 0
  BY <1>0 DEF Init
<1>7. plan \in Seq(Executables \cup Errors) /\ todo \in Seq(Executables) /\ executed \in Seq(Journals)
  BY <1>6, EmptyTyped DEF Ops
<1>8. journals \in [1 .. 2 -> Seq(Journals)] BY <1>6, EmptyTyped
<1>9. RecordOK(mem) BY <1>6, NoRecordsTyped
<1>10. pos \in 0 .. Len(executed) /\ outstanding \subseteq DOMAIN executed BY <1>6
<1>11. TypeOK BY <1>2, <1>3, <1>4, <1>5, <1>6, <1>7, <1>8, <1>9, <1>10 DEF TypeOK
<1>12. ControlOK BY <1>6 DEF ControlOK
<1> QED BY <1>11, <1>12 DEF TypeInv

LEMMA InitTrue == Init => Truth
<1>0. SUFFICES ASSUME Init PROVE Truth OBVIOUS
<1>1. TypeInv BY <1>0, InitTypes
<1>2. PICK s \in Starts : entries = s.entries /\ subs = s.subs /\ saved = [NoRecords EXCEPT !.managed = s.managed, !.hash = s.hash, !.data = s.data]
  BY <1>0 DEF Init
<1>3. saved.managed = s.managed /\ saved.hash = s.hash BY <1>2 DEF NoRecords
<1>4. /\ plan = <<>> /\ todo = <<>> /\ mem = NoRecords /\ phase = "idle" /\ mode = "apply" /\ executed = <<>>
      /\ journals[1] = <<>> /\ journals[2] = <<>>
  BY <1>0 DEF Init
<1>5. /\ \A k, l \in Keys : s.managed[k] # None /\ s.managed[k] = s.managed[l] => k = l
      /\ \A i \in Ints : s.managed[i] # None /\ s.entries[s.managed[i]] # Gone => s.entries[s.managed[i]].data \in {s.hash[i], Opaque}
      /\ \A u \in Subs : s.managed[u] # None /\ s.subs[s.managed[u]] # Gone => s.subs[s.managed[u]].data \in {s.hash[u], Opaque}
  BY StartsAssumption
<1>6. PlansOK
  <2>1. Released(entries, <<>>) /\ OneSub(<<>>, saved.managed) BY EmptyTyped DEF Released, OneSub
  <2> QED BY <1>4, <2>1, EmptyTyped DEF PlansOK
<1>7. IntsOK
  <2>1. IntsTrue(entries, saved) BY <1>2, <1>3, <1>5 DEF IntsTrue, Live0, Keys
  <2>2. Journalled0 = {} BY <1>4, EmptyTyped DEF Journalled0
  <2> QED BY <1>4, <2>1, <2>2, NothingTrue DEF IntsOK, ForgottenUnknown
<1>8. SubsOK
  <2>1. SavedSubsTrue(subs, saved, Behind(saved, mem, todo)) BY <1>2, <1>3, <1>5 DEF SavedSubsTrue, Live0, Keys
  <2>2. FoundFresh BY <1>4 DEF FoundFresh
  <2> QED BY <1>4, <2>1, <2>2, NothingTrue DEF SubsOK
<1>9. DeletesSpare BY <1>4, EmptyTyped DEF DeletesSpare
<1> QED BY <1>6, <1>7, <1>8, <1>9 DEF Truth

-----------------------------------------------------------------------------
(* The theorems                                                             *)

\* What is invariant: the types, where the apply stands, the order of a
\* plan's operations, and that the records, in memory and on the disk, tell
\* the truth about what the agent sent, except about a subentry that another
\* item has just got.
THEOREM RecordsTellTruth == Spec => [](TypeInv /\ Truth)
<1>1. Init => TypeInv /\ Truth BY InitTypes, InitTrue
<1>2. TypeInv /\ Truth /\ [Next]_vars => (TypeInv /\ Truth)' BY TypeStep, TruthStep
<1> QED BY <1>1, <1>2, PTL DEF Spec

\* Every variable of the three layers keeps its type: an operation carries an
\* id of its layer, a record names objects of its layer only and keeps a hash
\* of what it names only, and a journal has operations on integrations only.
THEOREM TypeCorrect == Spec => []TypeOK
<1>1. TypeInv => TypeOK BY DEF TypeInv
<1> QED BY <1>1, RecordsTellTruth, PTL

LEMMA InSyncOfTruth == TypeInv /\ Truth => InSyncIsTrue
<1>1. SUFFICES ASSUME TypeInv, Truth, Idle, Loaded, NEW k \in Keys, Declared(k), Silent(k, Plan) PROVE Delivered(k)
  BY DEF InSyncIsTrue
<1>2. TypeOK /\ Apart BY <1>1, ApartHolds DEF TypeInv
<1>3. SavedIsTrue
  <2>1. \A l \in Keys : mem.managed[l] = None BY <1>1, IdleFacts
  <2>2. SavedSubsTrue(subs, saved, Behind(saved, mem, todo)) /\ IntsTrue(entries, saved) BY <1>1 DEF Truth, SubsOK, IntsOK
  <2>3. SavedTrueAlone(subs, saved) BY <2>1, <2>2, NothingBehind
  <2>4. SubsTrue(subs, saved, {}) BY <2>3 DEF SavedTrueAlone
  <2> QED BY <2>2, <2>4 DEF SavedIsTrue, IntsTrue, SubsTrue, Live0, LiveEntry, LiveSub
<1> QED BY <1>1, <1>2, <1>3, SilentIsDelivered

\* What a cycle's plan says nothing of is in place: the repository is
\* downloaded, the entry or the subentry is live and holds what is declared
\* now, unless nobody can tell what it holds.  The planners go by the id and
\* the hash on record (hacs, flows and subentries Plan), so this is as good
\* as the records are: after failed and lost calls, crashes, saves that fail,
\* and a Roll Back too.
THEOREM InSyncCorrect == Spec => []InSyncIsTrue
BY RecordsTellTruth, InSyncOfTruth, PTL

LEMMA DeletesSpareStep ==
  ASSUME TypeInv, Truth, Apply, mode = "apply", calm, NEW e \in EntryIds, LiveEntry(e), entries'[e] = Gone
  PROVE  ~\E i \in Ints : /\ Declared(i) /\ ~LiveEntry(saved.managed[i])
                          /\ desired[i].domain = entries[e].domain /\ desired[i].title = entries[e].title
<1>1. OneCall
  <2>1. ~UndoOne BY DEF UndoOne, TypeInv, ControlOK
  <2>2. ~StateSave
    <3>1. SUFFICES ASSUME StateSave PROVE entries'[e] # Gone OBVIOUS
    <3>2. entries' = entries \/ Unsure BY <3>1, Zenon DEF StateSave
    <3>3. entries[e] \in Entries /\ Gone \notin Entries BY WorldTyped DEF TypeInv, LiveEntry
    <3>4. [entries[e] EXCEPT !.data = Opaque] \in Entries BY <3>3, EntryShape
    <3> QED BY <3>2, <3>3, <3>4 DEF Unsure
  <2> QED BY <2>1, <2>2, Zenon DEF Apply, OneCall
<1>2. DeleteEntry /\ e = Head(todo).id BY <1>1, CallEntries DEF LiveEntry
<1>3. Head(todo).kind = "delete" /\ Head(todo) \in ToSet(plan) BY <1>1, <1>2, CallPlan DEF DeleteEntry, Op1
<1>4. Spares(Head(todo)) BY <1>3 DEF Truth, DeletesSpare
<1> QED BY <1>2, <1>4 DEF Spares

\* While nothing but the apply has happened since the plan, no call of it
\* removes an entry that has the domain and title of a declared item without
\* an entry of its own: what a renamed item is about to adopt is only let go
\* of (flows.Plan, the claimed and the contested entries), also while its
\* reference does not resolve or its candidates are several.
THEOREM NoWaitingEntryDeleted == Spec => DeclaredEntriesSurvive
<1>1. TypeInv /\ Truth /\ [Next]_vars =>
        [Apply /\ mode = "apply" /\ calm =>
           \A e \in EntryIds : LiveEntry(e) /\ entries'[e] = Gone =>
             ~\E i \in Ints : /\ Declared(i) /\ ~LiveEntry(saved.managed[i])
                              /\ desired[i].domain = entries[e].domain /\ desired[i].title = entries[e].title]_vars
  BY DeletesSpareStep
<1> QED BY <1>1, RecordsTellTruth, PTL DEF Spec, DeclaredEntriesSurvive

-----------------------------------------------------------------------------
(* What the journal leads back to                                           *)

\* An item has what it had, or what was set up again for it.
As(en, r, b, i) ==
  LET id == r.managed[i]  was == b.managed[i] IN
    /\ Live0(en, id) = Live0(b.entries, was)
    /\ Live0(en, id) => IF id = was THEN Same(en[id], b.entries[was]) ELSE SetUpAgain(en[id], b.entries[was], b.data[i])

\* Undoing one operation gives its item back what it had.
Undoes(en, e, b) ==
  LET was == b.managed[e.key] IN
    /\ e.kind \in {"create", "update"} => ~Live0(b.entries, was)
    /\ e.kind = "delete" => e.id = was /\ Live0(b.entries, was) /\ Alike(e, b.entries[was]) /\ e.data = b.data[e.key]
    /\ e.kind = "forget" => e.id = was /\ Live0(b.entries, was) /\ Live0(en, was) /\ Same(en[was], b.entries[was])

\* The operations among the first n that made an entry of a domain and title
\* which is still there, or removed one.
MadeAt(en, s, n, d, t) ==
  {k \in 1 .. n : s[k].kind = "create" /\ en[s[k].id] # Gone /\ en[s[k].id].domain = d /\ en[s[k].id].title = t}
GoneAt(s, n, d, t) == {k \in 1 .. n : s[k].kind = "delete" /\ s[k].domain = d /\ s[k].title = t}
Counts(en, s, n, b) ==
  \A d \in Domains, t \in Titles :
    Census(en, d, t) + Cardinality(GoneAt(s, n, d, t)) = Census(b.entries, d, t) + Cardinality(MadeAt(en, s, n, d, t))

Untouched(s, n, i) == \A k \in 1 .. n : s[k].key # i
OnePerKey(s, n) == \A k, l \in 1 .. n : k # l => s[k].key # s[l].key

\* What was made belongs to nothing else.
OwnIds(r, s, n, b) ==
  \A k \in 1 .. n : s[k].kind = "create" =>
    /\ \A i \in Ints \ {s[k].key} : r.managed[i] # s[k].id /\ b.managed[i] # s[k].id
    /\ \A l \in 1 .. n : l # k => s[l].id # s[k].id

\* Undoing the first n operations of s, the last one first, leads back to b.
LeadsBack(en, r, s, n, b) ==
  /\ Counts(en, s, n, b) /\ OnePerKey(s, n) /\ OwnIds(r, s, n, b)
  /\ \A k \in 1 .. n : Undoes(en, s[k], b)
  /\ \A i \in Ints : Untouched(s, n, i) => As(en, r, b, i)

-----------------------------------------------------------------------------
(* Counting entries                                                         *)

World == [EntryIds -> Entries \cup {Gone}]

\* The entries of a domain and title.
Alive(en, d, t) == {e \in EntryIds : en[e] # Gone /\ en[e].domain = d /\ en[e].title = t}

LEMMA CensusTyped ==
  ASSUME NEW en, NEW d, NEW t
  PROVE  IsFiniteSet(Alive(en, d, t)) /\ Census(en, d, t) = Cardinality(Alive(en, d, t)) /\ Census(en, d, t) \in Nat
<1>1. Alive(en, d, t) \in SUBSET EntryIds BY DEF Alive
<1>2. IsFiniteSet(EntryIds) BY IntegrationsAssumption
<1>3. IsFiniteSet(Alive(en, d, t)) BY <1>1, <1>2, FS_Subset
<1>4. Cardinality(Alive(en, d, t)) \in Nat BY <1>3, FS_CardinalityType
<1>5. Census(en, d, t) = Cardinality(Alive(en, d, t)) BY DEF Census, Alive
<1> QED BY <1>3, <1>4, <1>5

\* One entry more.
LEMMA CensusAdds ==
  ASSUME NEW en \in World, NEW e \in EntryIds, en[e] = Gone, NEW x \in Entries, NEW d, NEW t
  PROVE  Census([en EXCEPT ![e] = x], d, t) =
           IF x.domain = d /\ x.title = t THEN Census(en, d, t) + 1 ELSE Census(en, d, t)
<1> DEFINE en2 == [en EXCEPT ![e] = x]
<1>1. Gone \notin Entries BY IntegrationsAssumption
<1>2. en2[e] = x /\ x # Gone /\ \A f \in EntryIds : f # e => en2[f] = en[f] BY <1>1 DEF World
<1>3. e \notin Alive(en, d, t) BY DEF Alive
<1> HIDE DEF en2
<1>4. Alive(en2, d, t) = IF x.domain = d /\ x.title = t THEN Alive(en, d, t) \cup {e} ELSE Alive(en, d, t)
  BY <1>2 DEF Alive
<1>5. IsFiniteSet(Alive(en, d, t)) BY CensusTyped
<1>6. Cardinality(Alive(en, d, t) \cup {e}) = Cardinality(Alive(en, d, t)) + 1 BY <1>3, <1>5, FS_AddElement
<1>7. Census(en2, d, t) = Cardinality(Alive(en2, d, t)) /\ Census(en, d, t) = Cardinality(Alive(en, d, t)) BY CensusTyped
<1>8. Census(en2, d, t) = IF x.domain = d /\ x.title = t THEN Census(en, d, t) + 1 ELSE Census(en, d, t)
  BY <1>4, <1>6, <1>7
<1> QED BY <1>8 DEF en2

LEMMA CensusSame ==
  ASSUME NEW en, NEW en2, NEW d, NEW t,
         \A e \in EntryIds : (en2[e] = Gone) = (en[e] = Gone) /\ (en[e] # Gone => Alike(en2[e], en[e]))
  PROVE  Census(en2, d, t) = Census(en, d, t)
<1>1. Alive(en2, d, t) = Alive(en, d, t) BY DEF Alive, Alike
<1> QED BY <1>1, CensusTyped

\* The operations, one more or one less.
LEMMA OneMorePosition ==
  ASSUME NEW n \in Nat \ {0}, NEW S \in SUBSET (1 .. n), NEW S0,
         S0 = {k \in 1 .. n - 1 : k \in S}
  PROVE  /\ Cardinality(S0) \in Nat
         /\ Cardinality(S) = IF n \in S THEN Cardinality(S0) + 1 ELSE Cardinality(S0)
<1>1. IsFiniteSet(1 .. n) BY FS_Interval
<1>2. IsFiniteSet(S) BY <1>1, FS_Subset
<1>3. S0 \in SUBSET S OBVIOUS
<1>4. IsFiniteSet(S0) BY <1>2, <1>3, FS_Subset
<1>5. n \notin S0 /\ S = IF n \in S THEN S0 \cup {n} ELSE S0
  <2>1. 1 .. n = (1 .. n - 1) \cup {n} OBVIOUS
  <2>2. n \notin 1 .. n - 1 OBVIOUS
  <2> QED BY <2>1, <2>2
<1>6. Cardinality(S0) \in Nat BY <1>4, FS_CardinalityType
<1>7. Cardinality(S0 \cup {n}) = Cardinality(S0) + 1 BY <1>4, <1>5, FS_AddElement
<1> QED BY <1>5, <1>6, <1>7

LEMMA GoneAtStep ==
  ASSUME NEW s, NEW n \in Nat \ {0}, NEW d, NEW t
  PROVE  /\ Cardinality(GoneAt(s, n - 1, d, t)) \in Nat
         /\ Cardinality(GoneAt(s, n, d, t)) =
              IF s[n].kind = "delete" /\ s[n].domain = d /\ s[n].title = t
              THEN Cardinality(GoneAt(s, n - 1, d, t)) + 1 ELSE Cardinality(GoneAt(s, n - 1, d, t))
<1>1. /\ GoneAt(s, n, d, t) \in SUBSET (1 .. n)
      /\ GoneAt(s, n - 1, d, t) = {k \in 1 .. n - 1 : k \in GoneAt(s, n, d, t)}
      /\ n \in GoneAt(s, n, d, t) <=> s[n].kind = "delete" /\ s[n].domain = d /\ s[n].title = t
  BY DEF GoneAt
<1> QED BY <1>1, OneMorePosition

LEMMA MadeAtStep ==
  ASSUME NEW en, NEW s, NEW n \in Nat \ {0}, NEW d, NEW t
  PROVE  /\ Cardinality(MadeAt(en, s, n - 1, d, t)) \in Nat
         /\ Cardinality(MadeAt(en, s, n, d, t)) =
              IF s[n].kind = "create" /\ en[s[n].id] # Gone /\ en[s[n].id].domain = d /\ en[s[n].id].title = t
              THEN Cardinality(MadeAt(en, s, n - 1, d, t)) + 1 ELSE Cardinality(MadeAt(en, s, n - 1, d, t))
<1>1. /\ MadeAt(en, s, n, d, t) \in SUBSET (1 .. n)
      /\ MadeAt(en, s, n - 1, d, t) = {k \in 1 .. n - 1 : k \in MadeAt(en, s, n, d, t)}
      /\ n \in MadeAt(en, s, n, d, t) <=>
           s[n].kind = "create" /\ en[s[n].id] # Gone /\ en[s[n].id].domain = d /\ en[s[n].id].title = t
  BY DEF MadeAt
<1> QED BY <1>1, OneMorePosition

LEMMA MadeAtOther ==
  ASSUME NEW en, NEW s, NEW n \in Nat \ {0}, NEW d, NEW t, s[n].kind = "create" => en[s[n].id] = Gone
  PROVE  MadeAt(en, s, n, d, t) = MadeAt(en, s, n - 1, d, t)
<1>1. 1 .. n = (1 .. n - 1) \cup {n} OBVIOUS
<1> QED BY <1>1 DEF MadeAt

LEMMA MadeAtSame ==
  ASSUME NEW en, NEW en2, NEW s, NEW n \in Nat, NEW d, NEW t,
         \A k \in 1 .. n : s[k].kind = "create" =>
           (en2[s[k].id] = Gone) = (en[s[k].id] = Gone) /\ (en[s[k].id] # Gone => Alike(en2[s[k].id], en[s[k].id]))
  PROVE  MadeAt(en2, s, n, d, t) = MadeAt(en, s, n, d, t)
BY DEF MadeAt, Alike

\* What an operation made is one entry more than there was before it.
LEMMA CreateCounts ==
  ASSUME NEW lo \in World, NEW s, NEW n \in Nat \ {0}, NEW b, NEW x \in Entries, s[n].kind = "create", s[n].id \in EntryIds,
         lo[s[n].id] = Gone,
         \A k \in 1 .. n - 1 : s[k].kind = "create" => s[k].id \in EntryIds /\ s[k].id # s[n].id
  PROVE  Counts([lo EXCEPT ![s[n].id] = x], s, n, b) = Counts(lo, s, n - 1, b)
<1> DEFINE hi == [lo EXCEPT ![s[n].id] = x]
<1>1. SUFFICES ASSUME NEW d \in Domains, NEW t \in Titles
      PROVE  (Census(hi, d, t) + Cardinality(GoneAt(s, n, d, t)) = Census(b.entries, d, t) + Cardinality(MadeAt(hi, s, n, d, t)))
             <=> (Census(lo, d, t) + Cardinality(GoneAt(s, n - 1, d, t)) = Census(b.entries, d, t) + Cardinality(MadeAt(lo, s, n - 1, d, t)))
  BY DEF Counts
<1>2. Gone \notin Entries BY IntegrationsAssumption
<1>3. hi[s[n].id] = x /\ x # Gone /\ \A f \in EntryIds : f # s[n].id => hi[f] = lo[f] BY <1>2 DEF World
<1>4. Census(hi, d, t) = IF x.domain = d /\ x.title = t THEN Census(lo, d, t) + 1 ELSE Census(lo, d, t) BY CensusAdds
<1> HIDE DEF hi
<1>5. MadeAt(hi, s, n - 1, d, t) = MadeAt(lo, s, n - 1, d, t)
  <2>1. \A k \in 1 .. n - 1 : s[k].kind = "create" => hi[s[k].id] = lo[s[k].id] BY <1>3
  <2> QED BY <2>1 DEF MadeAt
<1>6. Cardinality(MadeAt(hi, s, n, d, t)) = IF x.domain = d /\ x.title = t THEN Cardinality(MadeAt(lo, s, n - 1, d, t)) + 1
                                            ELSE Cardinality(MadeAt(lo, s, n - 1, d, t))
  BY <1>3, <1>5, MadeAtStep
<1>7. Cardinality(MadeAt(lo, s, n - 1, d, t)) \in Nat BY MadeAtStep
<1>8. /\ Cardinality(GoneAt(s, n - 1, d, t)) \in Nat
      /\ Cardinality(GoneAt(s, n, d, t)) = Cardinality(GoneAt(s, n - 1, d, t))
  BY GoneAtStep
<1>9. Census(lo, d, t) \in Nat /\ Census(b.entries, d, t) \in Nat BY CensusTyped
<1> QED BY <1>4, <1>6, <1>7, <1>8, <1>9

\* What an operation removed is one entry less.
LEMMA DeleteCounts ==
  ASSUME NEW hi \in World, NEW s, NEW n \in Nat \ {0}, NEW b, NEW e \in EntryIds, NEW x \in Entries, s[n].kind = "delete",
         Alike(x, s[n]), hi[e] = Gone,
         \A k \in 1 .. n - 1 : s[k].kind = "create" => s[k].id \in EntryIds /\ s[k].id # e
  PROVE  Counts(hi, s, n, b) = Counts([hi EXCEPT ![e] = x], s, n - 1, b)
<1> DEFINE lo == [hi EXCEPT ![e] = x]
<1>1. SUFFICES ASSUME NEW d \in Domains, NEW t \in Titles
      PROVE  (Census(hi, d, t) + Cardinality(GoneAt(s, n, d, t)) = Census(b.entries, d, t) + Cardinality(MadeAt(hi, s, n, d, t)))
             <=> (Census(lo, d, t) + Cardinality(GoneAt(s, n - 1, d, t)) = Census(b.entries, d, t) + Cardinality(MadeAt(lo, s, n - 1, d, t)))
  BY DEF Counts
<1>3. \A f \in EntryIds : f # e => lo[f] = hi[f] BY DEF World
<1>4. Census(lo, d, t) = IF x.domain = d /\ x.title = t THEN Census(hi, d, t) + 1 ELSE Census(hi, d, t) BY CensusAdds
<1> HIDE DEF lo
<1>5. MadeAt(hi, s, n - 1, d, t) = MadeAt(lo, s, n - 1, d, t)
  <2>1. \A k \in 1 .. n - 1 : s[k].kind = "create" => hi[s[k].id] = lo[s[k].id] BY <1>3
  <2> QED BY <2>1 DEF MadeAt
<1>6. Cardinality(MadeAt(hi, s, n, d, t)) = Cardinality(MadeAt(lo, s, n - 1, d, t))
  <2>1. s[n].kind = "create" => hi[s[n].id] = Gone OBVIOUS
  <2>2. MadeAt(hi, s, n, d, t) = MadeAt(hi, s, n - 1, d, t) BY ONLY <2>1, n \in Nat \ {0}, MadeAtOther
  <2> QED BY <1>5, <2>2
<1>7. Cardinality(MadeAt(lo, s, n - 1, d, t)) \in Nat BY MadeAtStep
<1>8. /\ Cardinality(GoneAt(s, n - 1, d, t)) \in Nat
      /\ Cardinality(GoneAt(s, n, d, t)) = IF x.domain = d /\ x.title = t THEN Cardinality(GoneAt(s, n - 1, d, t)) + 1
                                           ELSE Cardinality(GoneAt(s, n - 1, d, t))
  BY GoneAtStep DEF Alike
<1>9. Census(hi, d, t) \in Nat /\ Census(b.entries, d, t) \in Nat BY CensusTyped
<1> QED BY <1>4, <1>6, <1>7, <1>8, <1>9

\* The same entries by domain and title.
SameTitles(en2, en) ==
  \A e \in EntryIds : (en2[e] = Gone) = (en[e] = Gone) /\ (en[e] # Gone => Alike(en2[e], en[e]))

\* Entries is what the first n operations made.
MadeEntriesOnly(s, n) == \A k \in 1 .. n : s[k].kind = "create" => s[k].id \in EntryIds

\* Any other operation, and one whose entry is not there, counts for nothing.
LEMMA OtherCounts ==
  ASSUME NEW hi, NEW lo, NEW s, NEW n \in Nat \ {0}, NEW b, s[n].kind # "delete", s[n].kind = "create" => hi[s[n].id] = Gone,
         SameTitles(hi, lo), MadeEntriesOnly(s, n - 1)
  PROVE  Counts(hi, s, n, b) <=> Counts(lo, s, n - 1, b)
<1>1. ASSUME NEW d \in Domains, NEW t \in Titles
      PROVE  /\ Census(hi, d, t) = Census(lo, d, t)
             /\ Cardinality(GoneAt(s, n, d, t)) = Cardinality(GoneAt(s, n - 1, d, t))
             /\ Cardinality(MadeAt(hi, s, n, d, t)) = Cardinality(MadeAt(lo, s, n - 1, d, t))
  <2>1. Census(hi, d, t) = Census(lo, d, t) BY CensusSame DEF SameTitles
  <2>2. Cardinality(GoneAt(s, n, d, t)) = Cardinality(GoneAt(s, n - 1, d, t)) BY GoneAtStep
  <2>3. MadeAt(hi, s, n, d, t) = MadeAt(hi, s, n - 1, d, t)
    <3>1. s[n].kind = "create" => hi[s[n].id] = Gone OBVIOUS
    <3> QED BY ONLY <3>1, n \in Nat \ {0}, MadeAtOther
  <2>4. MadeAt(hi, s, n - 1, d, t) = MadeAt(lo, s, n - 1, d, t)
    <3>1. \A k \in 1 .. n - 1 : s[k].kind = "create" =>
            (hi[s[k].id] = Gone) = (lo[s[k].id] = Gone) /\ (lo[s[k].id] # Gone => Alike(hi[s[k].id], lo[s[k].id]))
      BY DEF SameTitles, MadeEntriesOnly
    <3>2. n - 1 \in Nat OBVIOUS
    <3> QED BY ONLY <3>1, <3>2, MadeAtSame
  <2> QED BY <2>1, <2>2, <2>3, <2>4
<1> QED BY <1>1 DEF Counts

LEMMA OtherUndone ==
  ASSUME NEW hi, NEW lo, NEW s, NEW n \in Nat \ {0}, NEW b, s[n].kind # "delete", s[n].kind = "create" => hi[s[n].id] = Gone,
         SameTitles(hi, lo), MadeEntriesOnly(s, n - 1), Counts(hi, s, n, b)
  PROVE  Counts(lo, s, n - 1, b)
<1>1. Counts(hi, s, n, b) <=> Counts(lo, s, n - 1, b)
  BY ONLY n \in Nat \ {0}, s[n].kind # "delete", s[n].kind = "create" => hi[s[n].id] = Gone,
      SameTitles(hi, lo), MadeEntriesOnly(s, n - 1), OtherCounts, Zenon
<1> QED BY ONLY <1>1, Counts(hi, s, n, b)

LEMMA OtherDone ==
  ASSUME NEW hi, NEW lo, NEW s, NEW n \in Nat \ {0}, NEW b, s[n].kind # "delete", s[n].kind = "create" => hi[s[n].id] = Gone,
         SameTitles(hi, lo), MadeEntriesOnly(s, n - 1), Counts(lo, s, n - 1, b)
  PROVE  Counts(hi, s, n, b)
<1>1. Counts(hi, s, n, b) <=> Counts(lo, s, n - 1, b)
  BY ONLY n \in Nat \ {0}, s[n].kind # "delete", s[n].kind = "create" => hi[s[n].id] = Gone,
      SameTitles(hi, lo), MadeEntriesOnly(s, n - 1), OtherCounts, Zenon
<1> QED BY ONLY <1>1, Counts(lo, s, n - 1, b)
-----------------------------------------------------------------------------
(* One operation more, or less                                              *)

LEMMA StillCounts ==
  ASSUME NEW en, NEW s, NEW s2, NEW n \in Nat, NEW b, Counts(en, s, n, b), \A k \in 1 .. n : s2[k] = s[k]
  PROVE  Counts(en, s2, n, b)
<1>1. \A d, t : MadeAt(en, s2, n, d, t) = MadeAt(en, s, n, d, t) /\ GoneAt(s2, n, d, t) = GoneAt(s, n, d, t)
  BY DEF MadeAt, GoneAt
<1> QED BY <1>1 DEF Counts

\* Only what is on record for integrations matters, and the first n operations.
LEMMA LeadsBackSame ==
  ASSUME NEW en, NEW r, NEW r2, NEW s, NEW s2, NEW n \in Nat, NEW b, LeadsBack(en, r, s, n, b),
         \A i \in Ints : r2.managed[i] = r.managed[i],
         \A k \in 1 .. n : s2[k] = s[k]
  PROVE  LeadsBack(en, r2, s2, n, b)
<1>1. Counts(en, s2, n, b) BY StillCounts DEF LeadsBack
<1>2. OnePerKey(s2, n) /\ OwnIds(r2, s2, n, b)
  <2>1. OnePerKey(s, n) /\ OwnIds(r, s, n, b) BY DEF LeadsBack
  <2> QED BY <2>1 DEF OnePerKey, OwnIds
<1>3. \A k \in 1 .. n : Undoes(en, s2[k], b) BY DEF LeadsBack
<1>4. ASSUME NEW i \in Ints, Untouched(s2, n, i) PROVE As(en, r2, b, i)
  <2>1. Untouched(s, n, i) BY <1>4 DEF Untouched
  <2>2. As(en, r, b, i) BY <2>1 DEF LeadsBack
  <2> QED BY <2>2 DEF As
<1> QED BY <1>1, <1>2, <1>3, <1>4 DEF LeadsBack

\* What happens to an entry may leave what it holds unknown.
Keeps(en2, en, id) == Live0(en, id) => en2[id] # Gone /\ Alike(en2[id], en[id]) /\ en2[id].data \in {Opaque, en[id].data}

LEMMA StillUndoes ==
  ASSUME NEW en, NEW en2, NEW e, NEW b, Undoes(en, e, b), e.kind = "forget" => Keeps(en2, en, b.managed[e.key])
  PROVE  Undoes(en2, e, b)
<1>1. CASE e.kind = "forget"
  <2> DEFINE was == b.managed[e.key]
  <2>1. Keeps(en2, en, was) BY <1>1
  <2>2. e.id = was /\ Live0(b.entries, was) /\ Live0(en, was) /\ Same(en[was], b.entries[was]) BY <1>1 DEF Undoes
  <2>3. Live0(en2, was) /\ Same(en2[was], b.entries[was]) BY <2>1, <2>2 DEF Keeps, Live0, Same, Alike
  <2> QED BY <1>1, <2>2, <2>3 DEF Undoes
<1>2. CASE e.kind # "forget" BY <1>2 DEF Undoes
<1> QED BY <1>1, <1>2

LEMMA StillAs ==
  ASSUME NEW en, NEW en2, NEW r, NEW r2, NEW b, NEW i \in Ints, As(en, r, b, i), r2.managed[i] = r.managed[i],
         r.managed[i] # None =>
           \/ en2[r.managed[i]] = en[r.managed[i]]
           \/ r.managed[i] = b.managed[i] /\ Keeps(en2, en, r.managed[i]) /\ Live0(en, r.managed[i])
  PROVE  As(en2, r2, b, i)
<1> DEFINE id == r.managed[i]
           was == b.managed[i]
<1>1. /\ Live0(en, id) = Live0(b.entries, was)
      /\ Live0(en, id) => IF id = was THEN Same(en[id], b.entries[was]) ELSE SetUpAgain(en[id], b.entries[was], b.data[i])
  BY DEF As
<1>2. CASE id = None BY <1>1, <1>2 DEF As, Live0
<1>3. CASE en2[id] = en[id]
  <2>1. Live0(en2, id) = Live0(en, id) BY <1>3 DEF Live0
  <2> QED BY <1>1, <1>3, <2>1 DEF As
<1>4. CASE id = was /\ Keeps(en2, en, id) /\ Live0(en, id)
  <2>1. Live0(en2, id) /\ Same(en2[id], b.entries[was]) BY <1>1, <1>4 DEF Keeps, Live0, Same, Alike
  <2> QED BY <1>1, <1>4, <2>1 DEF As
<1> QED BY <1>2, <1>3, <1>4

\* One operation more: what it may not touch.
Grows(en2, r2, en, r, s2, n, b) ==
  LET e == s2[n + 1] IN
    /\ Untouched(s2, n, e.key) /\ Undoes(en2, e, b)
    /\ \A i \in Ints \ {e.key} : r2.managed[i] = r.managed[i]
    /\ \A k \in 1 .. n : s2[k].kind = "create" => s2[k].id # r2.managed[e.key] /\ s2[k].id # e.id
    /\ e.kind = "create" =>
         /\ \A i \in Ints \ {e.key} : r2.managed[i] # e.id /\ b.managed[i] # e.id
         /\ \A k \in 1 .. n : s2[k].id # e.id
    /\ \A k \in 1 .. n : s2[k].kind = "forget" => Keeps(en2, en, b.managed[s2[k].key])
    /\ \A i \in Ints \ {e.key} : Untouched(s2, n, i) /\ r.managed[i] # None =>
         \/ en2[r.managed[i]] = en[r.managed[i]]
         \/ r.managed[i] = b.managed[i] /\ Keeps(en2, en, r.managed[i]) /\ Live0(en, r.managed[i])

LEMMA LeadsBackGrows ==
  ASSUME NEW en, NEW en2, NEW r, NEW r2, NEW s2, NEW n \in Nat, NEW b, LeadsBack(en, r, s2, n, b),
         Counts(en2, s2, n + 1, b), Grows(en2, r2, en, r, s2, n, b)
  PROVE  LeadsBack(en2, r2, s2, n + 1, b)
<1> DEFINE e == s2[n + 1]
<1>1. 1 .. n + 1 = (1 .. n) \cup {n + 1} /\ n + 1 \notin 1 .. n OBVIOUS
<1>2. OnePerKey(s2, n + 1)
  <2>1. OnePerKey(s2, n) /\ Untouched(s2, n, e.key) BY DEF LeadsBack, Grows
  <2> QED BY <1>1, <2>1 DEF OnePerKey, Untouched
<1>3. OwnIds(r2, s2, n + 1, b)
  <2>1. SUFFICES ASSUME NEW k \in 1 .. n + 1, s2[k].kind = "create"
        PROVE  /\ \A i \in Ints \ {s2[k].key} : r2.managed[i] # s2[k].id /\ b.managed[i] # s2[k].id
               /\ \A l \in 1 .. n + 1 : l # k => s2[l].id # s2[k].id
    BY DEF OwnIds
  <2>2. CASE k = n + 1
    <3>1. /\ \A i \in Ints \ {e.key} : r2.managed[i] # e.id /\ b.managed[i] # e.id
          /\ \A l \in 1 .. n : s2[l].id # e.id
      BY <2>1, <2>2 DEF Grows
    <3> QED BY <1>1, <2>2, <3>1
  <2>3. CASE k \in 1 .. n
    <3>1. /\ \A i \in Ints \ {s2[k].key} : r.managed[i] # s2[k].id /\ b.managed[i] # s2[k].id
          /\ \A l \in 1 .. n : l # k => s2[l].id # s2[k].id
      BY <2>1, <2>3 DEF LeadsBack, OwnIds
    <3>2. /\ \A i \in Ints \ {e.key} : r2.managed[i] = r.managed[i]
          /\ s2[k].id # r2.managed[e.key] /\ s2[k].id # e.id
      BY <2>1, <2>3 DEF Grows
    <3>3. \A i \in Ints \ {s2[k].key} : r2.managed[i] # s2[k].id BY <3>1, <3>2
    <3>4. \A l \in 1 .. n + 1 : l # k => s2[l].id # s2[k].id BY <1>1, <3>1, <3>2
    <3> QED BY <3>1, <3>3, <3>4
  <2> QED BY <1>1, <2>2, <2>3
<1>4. \A k \in 1 .. n + 1 : Undoes(en2, s2[k], b)
  <2>1. ASSUME NEW k \in 1 .. n PROVE Undoes(en2, s2[k], b)
    <3>1. Undoes(en, s2[k], b) BY DEF LeadsBack
    <3>2. s2[k].kind = "forget" => Keeps(en2, en, b.managed[s2[k].key]) BY DEF Grows
    <3> QED BY ONLY <3>1, <3>2, StillUndoes
  <2>2. Undoes(en2, e, b) BY DEF Grows
  <2> QED BY <1>1, <2>1, <2>2
<1>5. ASSUME NEW i \in Ints, Untouched(s2, n + 1, i) PROVE As(en2, r2, b, i)
  <2>1. Untouched(s2, n, i) /\ i # e.key BY <1>1, <1>5 DEF Untouched
  <2>2. As(en, r, b, i) BY <2>1 DEF LeadsBack
  <2>3. r2.managed[i] = r.managed[i] BY <2>1 DEF Grows
  <2>4. r.managed[i] # None =>
           \/ en2[r.managed[i]] = en[r.managed[i]]
           \/ r.managed[i] = b.managed[i] /\ Keeps(en2, en, r.managed[i]) /\ Live0(en, r.managed[i])
    BY <2>1 DEF Grows
  <2> QED BY ONLY <2>2, <2>3, <2>4, i \in Ints, StillAs
<1> QED BY <1>2, <1>3, <1>4, <1>5 DEF LeadsBack

\* One operation less.
Shrinks(en2, r2, en, r, s, n, b) ==
  LET e == s[n] IN
    /\ As(en2, r2, b, e.key)
    /\ \A i \in Ints \ {e.key} : r2.managed[i] = r.managed[i]
    /\ \A k \in 1 .. n - 1 : s[k].kind = "create" => s[k].id # r2.managed[e.key]
    /\ \A k \in 1 .. n - 1 : s[k].kind = "forget" => Keeps(en2, en, b.managed[s[k].key])
    /\ \A i \in Ints \ {e.key} : r.managed[i] # None => en2[r.managed[i]] = en[r.managed[i]]

LEMMA LeadsBackShrinks ==
  ASSUME NEW en, NEW en2, NEW r, NEW r2, NEW s, NEW n \in Nat \ {0}, NEW b, LeadsBack(en, r, s, n, b),
         Counts(en2, s, n - 1, b), Shrinks(en2, r2, en, r, s, n, b)
  PROVE  LeadsBack(en2, r2, s, n - 1, b)
<1> DEFINE e == s[n]
<1>1. 1 .. n = (1 .. n - 1) \cup {n} OBVIOUS
<1>2. OnePerKey(s, n - 1) BY <1>1 DEF LeadsBack, OnePerKey
<1>3. OwnIds(r2, s, n - 1, b)
  <2>1. SUFFICES ASSUME NEW k \in 1 .. n - 1, s[k].kind = "create"
        PROVE  /\ \A i \in Ints \ {s[k].key} : r2.managed[i] # s[k].id /\ b.managed[i] # s[k].id
               /\ \A l \in 1 .. n - 1 : l # k => s[l].id # s[k].id
    BY DEF OwnIds
  <2>2. /\ \A i \in Ints \ {s[k].key} : r.managed[i] # s[k].id /\ b.managed[i] # s[k].id
        /\ \A l \in 1 .. n : l # k => s[l].id # s[k].id
    BY <1>1, <2>1 DEF LeadsBack, OwnIds
  <2>3. (\A i \in Ints \ {e.key} : r2.managed[i] = r.managed[i]) /\ s[k].id # r2.managed[e.key] BY <2>1 DEF Shrinks
  <2> QED BY <1>1, <2>2, <2>3
<1>4. ASSUME NEW k \in 1 .. n - 1 PROVE Undoes(en2, s[k], b)
  <2>1. Undoes(en, s[k], b) BY <1>1 DEF LeadsBack
  <2>2. s[k].kind = "forget" => Keeps(en2, en, b.managed[s[k].key]) BY DEF Shrinks
  <2> QED BY ONLY <2>1, <2>2, StillUndoes
<1>5. ASSUME NEW i \in Ints, Untouched(s, n - 1, i) PROVE As(en2, r2, b, i)
  <2>1. CASE i = e.key BY <2>1 DEF Shrinks
  <2>2. CASE i # e.key
    <3>1. Untouched(s, n, i) BY <1>1, <1>5, <2>2 DEF Untouched
    <3>2. As(en, r, b, i) BY <3>1 DEF LeadsBack
    <3>3. r2.managed[i] = r.managed[i] /\ (r.managed[i] # None => en2[r.managed[i]] = en[r.managed[i]]) BY <2>2 DEF Shrinks
    <3> QED BY ONLY <3>2, <3>3, i \in Ints, StillAs
  <2> QED BY <2>1, <2>2
<1> QED BY <1>2, <1>3, <1>4, <1>5 DEF LeadsBack
-----------------------------------------------------------------------------
(* Roll Back                                                                *)

\* What is left to undo leads back to what was there.
UndoOK == phase = "undo" /\ before.known /\ failed = {} => LeadsBack(entries, mem, executed, pos, before)

LEMMA LeadsBackPrimed ==
  ASSUME secret' = secret, NEW en, NEW r, NEW s, NEW n, NEW b
  PROVE  LeadsBack(en, r, s, n, b)' = LeadsBack(en, r, s, n, b)
BY DEF LeadsBack, As, SetUpAgain, Resolve

\* The records of one item that changed.
LEMMA OneRecord ==
  ASSUME NEW r, RecordOK(r), NEW k \in Keys, NEW id, NEW hash, NEW data, NEW r2, r2 = Changed3(r, k, id, hash, data)
  PROVE  /\ r2.managed[k] = id /\ r2.data[k] = data
         /\ \A l \in Keys : l # k => r2.managed[l] = r.managed[l] /\ r2.data[l] = r.data[l]
<1>1. r \in [managed : [Keys -> Ids0], hash : [Keys -> Sent \cup {None}], data : [Keys -> Datas \cup {None}],
             attempts : [Keys -> [hash : Sent \cup HacsItems, created : BOOLEAN] \cup {None}], reminder : SUBSET Domains]
  BY RecordForm
<1>2. r2.managed = [r.managed EXCEPT ![k] = id] /\ r2.data = [r.data EXCEPT ![k] = data] BY <1>1 DEF Changed3
<1>3. r.managed \in [Keys -> Ids0] /\ r.data \in [Keys -> Datas \cup {None}] BY <1>1
<1> QED BY <1>2, <1>3

LEMMA RemovedEntries ==
  ASSUME TypeOK, NEW e \in EntryIds, Removed(e)
  PROVE  /\ entries' \in World /\ entries'[e] = Gone /\ \A f \in EntryIds : f # e => entries'[f] = entries[f]
         /\ entries = [entries' EXCEPT ![e] = entries[e]]
         /\ entries[e] = Gone => entries' = entries
<1>1. entries \in World /\ entries' = [entries EXCEPT ![e] = Gone] BY WorldTyped DEF World, Removed
<1> QED BY <1>1 DEF World

LEMMA MadeEntries ==
  ASSUME TypeOK, CanMakeEntry, NEW item, item.domain \in Domains, NEW t \in Titles, NEW v \in Sent \cup {Opaque}, NEW en2,
         en2 = NewInt(item, t, v)
  PROVE  /\ NewEntry \in EntryIds /\ entries[NewEntry] = Gone /\ NewEntry \notin Mentioned /\ NewEntry # None
         /\ en2[NewEntry] \in Entries /\ en2[NewEntry] # Gone
         /\ en2[NewEntry].domain = item.domain /\ en2[NewEntry].title = t /\ en2[NewEntry].data = v
         /\ en2 = [entries EXCEPT ![NewEntry] = en2[NewEntry]]
         /\ \A f \in EntryIds : f # NewEntry => en2[f] = entries[f]
<1>1. NewEntry \in EntryIds /\ entries[NewEntry] = Gone /\ NewEntry \notin Mentioned /\ NewEntry # None
  BY FreshIds, IntegrationsAssumption DEF Ids
<1>2. entries \in World /\ Gone \notin Entries BY WorldTyped DEF World
<1> DEFINE x == [domain |-> item.domain, title |-> t, data |-> v]
<1>3. x \in Entries /\ x.domain = item.domain /\ x.title = t /\ x.data = v BY DEF Entries
<1>4. en2 = [entries EXCEPT ![NewEntry] = x] BY DEF NewInt
<1> HIDE DEF x
<1>5. en2[NewEntry] = x BY <1>1, <1>2, <1>4 DEF World
<1>6. \A f \in EntryIds : f # NewEntry => en2[f] = entries[f] BY <1>1, <1>2, <1>4 DEF World
<1> QED BY <1>1, <1>2, <1>3, <1>4, <1>5, <1>6

\* What is known while the n first operations are still to be undone.
LEMMA UndoFacts ==
  ASSUME TypeInv, NEW n \in Nat, n <= Len(executed), NEW b, LeadsBack(entries, mem, executed, n, b)
  PROVE  /\ \A k \in 1 .. n : /\ executed[k] \in Journals /\ executed[k].key \in Ints /\ executed[k].id \in EntryIds
                              /\ executed[k].id # None /\ executed[k].id \in Mentioned /\ Undoes(entries, executed[k], b)
         /\ \A k, l \in 1 .. n : k # l => executed[k].key # executed[l].key
         /\ \A k, l \in 1 .. n : executed[k].kind = "create" /\ k # l => executed[l].id # executed[k].id
         /\ \A k \in 1 .. n, i \in Ints : executed[k].kind = "create" /\ i # executed[k].key =>
              mem.managed[i] # executed[k].id /\ b.managed[i] # executed[k].id
<1>1. executed \in Seq(Journals) /\ Len(executed) \in Nat BY DEF TypeInv, TypeOK
<1>2. ASSUME NEW k \in 1 .. n
      PROVE  /\ executed[k] \in Journals /\ executed[k].key \in Ints /\ executed[k].id \in EntryIds
             /\ executed[k].id # None /\ executed[k].id \in Mentioned /\ Undoes(entries, executed[k], b)
  <2>1. k \in 1 .. Len(executed) BY <1>1
  <2>2. executed[k] \in Journals /\ executed[k] \in ToSet(executed) BY <1>1, <2>1 DEF ToSet
  <2>3. executed[k].id \in Mentioned BY <2>2, MentionedHas DEF Journalled0
  <2>4. None \notin EntryIds BY IntegrationsAssumption DEF Ids
  <2> QED BY <2>2, <2>3, <2>4, JournalShape DEF LeadsBack
<1>3. OnePerKey(executed, n) /\ OwnIds(mem, executed, n, b) BY DEF LeadsBack
<1>4. \A k, l \in 1 .. n : k # l => executed[k].key # executed[l].key BY <1>3 DEF OnePerKey
<1>5. \A k, l \in 1 .. n : executed[k].kind = "create" /\ k # l => executed[l].id # executed[k].id BY <1>3 DEF OwnIds
<1>6. \A k \in 1 .. n, i \in Ints : executed[k].kind = "create" /\ i # executed[k].key =>
              mem.managed[i] # executed[k].id /\ b.managed[i] # executed[k].id
  BY <1>3 DEF OwnIds
<1> QED BY <1>2, <1>4, <1>5, <1>6

LEMMA UndoneLeadsBack == TypeInv /\ UndoOK /\ UndoOne => UndoOK'
<1>0. SUFFICES ASSUME TypeInv, UndoOK, UndoOne, before'.known, failed' = {}
               PROVE  LeadsBack(entries', mem', executed', pos', before')
  <2>1. UndoOne => secret' = secret BY DEF UndoOne
  <2> QED BY <2>1, LeadsBackPrimed DEF UndoOK, LeadsBack, As, SetUpAgain, Resolve
<1> DEFINE e == executed[pos]
           b == before
           value == Resolve(e.data)
<1>1. /\ phase = "undo" /\ pos > 0 /\ pos' = pos - 1 /\ executed' = executed /\ before' = before /\ failed' \in {failed, {"integrations"}}
  BY <1>0, Zenon DEF UndoOne
<1>2. LeadsBack(entries, mem, executed, pos, b) BY <1>0, <1>1 DEF UndoOK
<1>3. pos \in Nat \ {0} /\ pos <= Len(executed) /\ pos \in 1 .. pos /\ pos - 1 \in Nat
  <2>1. pos \in 0 .. Len(executed) BY <1>0 DEF TypeInv, TypeOK
  <2> QED BY <1>1, <2>1
<1>14. pos \in Nat \ {0} BY <1>3
<1>4. \/ e.kind = "create" /\ Removed(e.id) /\ Forget(e.key)
      \/ e.kind = "update" /\ entries' = entries /\ Forget(e.key)
      \/ /\ e.kind = "forget" /\ entries' = entries
         /\ mem' = Changed3(mem, e.key, e.id, IF e.hash = None THEN mem.hash[e.key] ELSE e.hash,
                            IF e.data = None THEN mem.data[e.key] ELSE e.data)
      \/ /\ e.kind = "delete" /\ CanMakeEntry /\ value # None /\ entries' = NewInt(e, e.title, value)
         /\ mem' = Changed3(mem, e.key, NewEntry, value, e.data)
  <2>1. failed' # {"integrations"} BY <1>0
  <2> QED BY <1>0, <2>1 DEF UndoOne, Changed3
<1>5. /\ \A k \in 1 .. pos : /\ executed[k] \in Journals /\ executed[k].key \in Ints /\ executed[k].id \in EntryIds
                             /\ executed[k].id # None /\ executed[k].id \in Mentioned /\ Undoes(entries, executed[k], b)
      /\ \A k, l \in 1 .. pos : k # l => executed[k].key # executed[l].key
      /\ \A k, l \in 1 .. pos : executed[k].kind = "create" /\ k # l => executed[l].id # executed[k].id
      /\ \A k \in 1 .. pos, i \in Ints : executed[k].kind = "create" /\ i # executed[k].key =>
           mem.managed[i] # executed[k].id /\ b.managed[i] # executed[k].id
  BY <1>0, <1>2, <1>3, UndoFacts
<1>6. e \in Journals /\ e.key \in Ints /\ e.key \in Keys /\ e.id \in EntryIds /\ e.id # None /\ Undoes(entries, e, b)
  BY <1>3, <1>5 DEF Keys
<1>7. RecordOK(mem) /\ TypeOK /\ entries \in World BY <1>0, WorldTyped DEF TypeInv, TypeOK, World
<1>8. \A k \in 1 .. pos - 1 : k \in 1 .. pos /\ k # pos BY <1>3
<1>9. Counts(entries, executed, pos, b) BY <1>2 DEF LeadsBack
<1>10. \A i \in Ints : i \in Keys /\ mem.managed[i] \in EntryIds \cup {None} /\ mem.managed[i] \in Mentioned
  BY <1>7, RecordFields, MentionedHas, IntegrationsAssumption DEF Keys, IdsOf
<1> HIDE DEF e, b, value
<1>11. CASE e.kind = "create" /\ Removed(e.id) /\ Forget(e.key)
  <2>1. /\ mem'.managed[e.key] = None
        /\ \A l \in Keys : l # e.key => mem'.managed[l] = mem.managed[l]
    <3>1. mem' = Changed3(mem, e.key, None, None, None) BY <1>11 DEF Forget, Changed3
    <3> QED BY <1>6, <1>7, <3>1, OneRecord
  <2>2. /\ entries' \in World /\ entries'[e.id] = Gone /\ \A f \in EntryIds : f # e.id => entries'[f] = entries[f]
        /\ entries = [entries' EXCEPT ![e.id] = entries[e.id]]
        /\ entries[e.id] = Gone => entries' = entries
    BY <1>6, <1>7, <1>11, RemovedEntries
  <2>3. Counts(entries', executed, pos - 1, b)
    <3>1. CASE entries[e.id] = Gone
      <4>1. executed[pos].kind # "delete" BY <1>11 DEF e
      <4>0. executed[pos].kind = "create" => entries[executed[pos].id] = Gone BY <3>1 DEF e
      <4>2. SameTitles(entries, entries') BY <2>2, <3>1 DEF SameTitles, Alike
      <4>3. MadeEntriesOnly(executed, pos - 1) BY <1>5, <1>8 DEF MadeEntriesOnly
      <4> QED BY ONLY <1>9, <1>14, <4>0, <4>1, <4>2, <4>3, OtherUndone
    <3>2. CASE entries[e.id] # Gone
      <4>1. entries[e.id] \in Entries BY <1>6, <1>7, <3>2 DEF World
      <4>2. executed[pos].kind = "create" BY <1>11 DEF e
      <4>5. executed[pos].id \in EntryIds BY <1>6 DEF e
      <4>6. entries'[executed[pos].id] = Gone BY <2>2 DEF e
      <4>7. entries' \in World BY <2>2
      <4>3. \A k \in 1 .. pos - 1 : executed[k].kind = "create" => executed[k].id \in EntryIds /\ executed[k].id # executed[pos].id
        BY <1>3, <1>5, <1>8
      <4>4. Counts([entries' EXCEPT ![executed[pos].id] = entries[e.id]], executed, pos, b) = Counts(entries', executed, pos - 1, b)
        BY ONLY <1>14, <4>1, <4>2, <4>3, <4>5, <4>6, <4>7, CreateCounts
      <4> QED BY <1>9, <2>2, <4>4 DEF e
    <3> QED BY <3>1, <3>2
  <2>4. Shrinks(entries', mem', entries, mem, executed, pos, b)
    <3>1. As(entries', mem', b, e.key)
      <4>1. ~Live0(b.entries, b.managed[e.key]) BY <1>6, <1>11 DEF Undoes
      <4> QED BY <2>1, <4>1 DEF As, Live0
    <3>2. \A i \in Ints \ {e.key} : mem'.managed[i] = mem.managed[i] BY <1>10, <2>1
    <3>3. \A k \in 1 .. pos - 1 : executed[k].kind = "create" => executed[k].id # mem'.managed[e.key] BY <1>5, <1>8, <2>1
    <3>4. ASSUME NEW k \in 1 .. pos - 1, executed[k].kind = "forget"
          PROVE  Keeps(entries', entries, b.managed[executed[k].key])
      <4>1. Undoes(entries, executed[k], b) /\ executed[k].id \in EntryIds /\ executed[k].id # e.id
        BY <1>3, <1>5, <1>8, <1>11 DEF e
      <4>2. b.managed[executed[k].key] = executed[k].id BY <3>4, <4>1 DEF Undoes
      <4>3. entries'[executed[k].id] = entries[executed[k].id] BY <2>2, <4>1
      <4> QED BY <4>2, <4>3 DEF Keeps, Alike, Live0
    <3>5. ASSUME NEW i \in Ints \ {e.key}, mem.managed[i] # None PROVE entries'[mem.managed[i]] = entries[mem.managed[i]]
      <4>1. mem.managed[i] # e.id BY <1>3, <1>5, <1>11 DEF e
      <4> QED BY <1>10, <2>2, <3>5, <4>1
    <3> QED BY <3>1, <3>2, <3>3, <3>4, <3>5 DEF Shrinks, e
  <2> QED BY <1>1, <1>2, <1>3, <2>3, <2>4, LeadsBackShrinks DEF b
<1>12. CASE entries' = entries /\ (e.kind = "update" \/ e.kind = "forget")
  <2>1. mem'.managed[e.key] = (IF e.kind = "update" THEN None ELSE e.id) /\ \A l \in Keys : l # e.key => mem'.managed[l] = mem.managed[l]
    <3>1. CASE e.kind = "update"
      <4>1. mem' = Changed3(mem, e.key, None, None, None) BY <1>4, <1>12, <3>1 DEF Forget, Changed3
      <4> QED BY <1>6, <1>7, <3>1, <4>1, OneRecord
    <3>2. CASE e.kind = "forget"
      <4> DEFINE hash == IF e.hash = None THEN mem.hash[e.key] ELSE e.hash
                 data == IF e.data = None THEN mem.data[e.key] ELSE e.data
      <4>1. mem' = Changed3(mem, e.key, e.id, hash, data) BY <1>4, <1>12, <3>2
      <4> HIDE DEF hash, data
      <4>2. mem'.managed[e.key] = e.id /\ \A l \in Keys : l # e.key => mem'.managed[l] = mem.managed[l]
        BY <1>6, <1>7, <4>1, OneRecord
      <4> QED BY <3>2, <4>2
    <3> QED BY <1>12, <3>1, <3>2
  <2>2. Counts(entries', executed, pos - 1, b)
    <3>1. executed[pos].kind # "delete" BY <1>12 DEF e
    <3>0. executed[pos].kind = "create" => entries[executed[pos].id] = Gone BY <1>12 DEF e
    <3>2. SameTitles(entries, entries') BY <1>12 DEF SameTitles, Alike
    <3>3. MadeEntriesOnly(executed, pos - 1) BY <1>5, <1>8 DEF MadeEntriesOnly
    <3> QED BY ONLY <1>9, <1>14, <3>0, <3>1, <3>2, <3>3, OtherUndone
  <2>3. Shrinks(entries', mem', entries, mem, executed, pos, b)
    <3>1. As(entries', mem', b, e.key)
      <4>1. CASE e.kind = "update"
        <5>1. ~Live0(b.entries, b.managed[e.key]) BY <1>6, <4>1 DEF Undoes
        <5> QED BY <2>1, <4>1, <5>1 DEF As, Live0
      <4>2. CASE e.kind = "forget"
        <5>1. e.id = b.managed[e.key] /\ Live0(b.entries, e.id) /\ Live0(entries, e.id) /\ Same(entries[e.id], b.entries[e.id])
          BY <1>6, <4>2 DEF Undoes
        <5>2. mem'.managed[e.key] = e.id BY <2>1, <4>2
        <5>3. Live0(entries', e.id) = Live0(b.entries, e.id) /\ Same(entries'[e.id], b.entries[e.id]) BY <1>12, <5>1 DEF Live0
        <5> QED BY <5>1, <5>2, <5>3 DEF As
      <4> QED BY <1>12, <4>1, <4>2
    <3>2. \A i \in Ints \ {e.key} : mem'.managed[i] = mem.managed[i] BY <1>10, <2>1
    <3>3. \A k \in 1 .. pos - 1 : executed[k].kind = "create" => executed[k].id # mem'.managed[e.key]
      BY <1>3, <1>5, <1>8, <2>1 DEF e
    <3>4. \A k \in 1 .. pos - 1 : executed[k].kind = "forget" => Keeps(entries', entries, b.managed[executed[k].key])
      BY <1>12 DEF Keeps, Alike, Live0
    <3>5. \A i \in Ints \ {e.key} : mem.managed[i] # None => entries'[mem.managed[i]] = entries[mem.managed[i]] BY <1>12
    <3> QED BY <3>1, <3>2, <3>3, <3>4, <3>5 DEF Shrinks, e
  <2> QED BY <1>1, <1>2, <1>3, <2>2, <2>3, LeadsBackShrinks DEF b
<1>13. CASE /\ e.kind = "delete" /\ CanMakeEntry /\ value # None /\ entries' = NewInt(e, e.title, value)
            /\ mem' = Changed3(mem, e.key, NewEntry, value, e.data)
  <2>1. mem'.managed[e.key] = NewEntry /\ \A l \in Keys : l # e.key => mem'.managed[l] = mem.managed[l]
    BY <1>6, <1>7, <1>13, OneRecord
  <2>2. e.domain \in Domains /\ e.title \in Titles /\ value \in Sent \cup {Opaque}
    <3>1. e.domain \in Domains /\ e.title \in Titles /\ e.data \in Datas \cup {None} BY <1>6, <1>13, JournalShape
    <3> QED BY <1>7, <1>13, <3>1, ResolveTyped DEF value
  <2>3. /\ NewEntry \in EntryIds /\ entries[NewEntry] = Gone /\ NewEntry \notin Mentioned /\ NewEntry # None
        /\ entries'[NewEntry] \in Entries /\ entries'[NewEntry] # Gone
        /\ entries'[NewEntry].domain = e.domain /\ entries'[NewEntry].title = e.title /\ entries'[NewEntry].data = value
        /\ entries' = [entries EXCEPT ![NewEntry] = entries'[NewEntry]]
        /\ \A f \in EntryIds : f # NewEntry => entries'[f] = entries[f]
    BY <1>7, <1>13, <2>2, MadeEntries
  <2>4. \A k \in 1 .. pos : executed[k].id # NewEntry BY <1>5, <2>3
  <2>5. Counts(entries', executed, pos - 1, b)
    <3>1. executed[pos].kind = "delete" BY <1>13 DEF e
    <3>4. Alike(entries'[NewEntry], executed[pos]) BY <2>3 DEF Alike, e
    <3>5. entries \in World BY <1>7
    <3>6. NewEntry \in EntryIds BY <2>3
    <3>7. entries'[NewEntry] \in Entries BY <2>3
    <3>8. entries[NewEntry] = Gone BY <2>3
    <3>2. \A k \in 1 .. pos - 1 : executed[k].kind = "create" => executed[k].id \in EntryIds /\ executed[k].id # NewEntry
      BY <1>5, <1>8, <2>4
    <3>3. Counts(entries, executed, pos, b) = Counts([entries EXCEPT ![NewEntry] = entries'[NewEntry]], executed, pos - 1, b)
      BY ONLY <1>14, <3>1, <3>2, <3>4, <3>5, <3>6, <3>7, <3>8, DeleteCounts
    <3> QED BY <1>9, <2>3, <3>3
  <2>6. Shrinks(entries', mem', entries, mem, executed, pos, b)
    <3>1. As(entries', mem', b, e.key)
      <4> DEFINE was == b.managed[e.key]
      <4>1. e.id = was /\ Live0(b.entries, was) /\ Alike(e, b.entries[was]) /\ e.data = b.data[e.key]
        BY <1>6, <1>13 DEF Undoes
      <4>2. NewEntry # was BY <1>3, <2>4, <4>1 DEF e
      <4>3. Live0(entries', NewEntry) BY <2>3 DEF Live0
      <4>4. SetUpAgain(entries'[NewEntry], b.entries[was], b.data[e.key]) BY <2>3, <4>1 DEF SetUpAgain, Alike, value
      <4> QED BY <2>1, <4>1, <4>2, <4>3, <4>4 DEF As
    <3>2. \A i \in Ints \ {e.key} : mem'.managed[i] = mem.managed[i] BY <1>10, <2>1
    <3>3. \A k \in 1 .. pos - 1 : executed[k].kind = "create" => executed[k].id # mem'.managed[e.key]
      BY <1>8, <2>1, <2>4
    <3>4. ASSUME NEW k \in 1 .. pos - 1, executed[k].kind = "forget"
          PROVE  Keeps(entries', entries, b.managed[executed[k].key])
      <4>1. Undoes(entries, executed[k], b) /\ executed[k].id \in EntryIds /\ executed[k].id # NewEntry BY <1>5, <1>8, <2>4
      <4>2. b.managed[executed[k].key] = executed[k].id BY <3>4, <4>1 DEF Undoes
      <4>3. entries'[executed[k].id] = entries[executed[k].id] BY <2>3, <4>1
      <4> QED BY <4>2, <4>3 DEF Keeps, Alike, Live0
    <3>5. ASSUME NEW i \in Ints \ {e.key}, mem.managed[i] # None PROVE entries'[mem.managed[i]] = entries[mem.managed[i]]
      <4>1. mem.managed[i] # NewEntry /\ mem.managed[i] \in EntryIds BY <1>10, <2>3, <3>5
      <4> QED BY <2>3, <4>1
    <3> QED BY <3>1, <3>2, <3>3, <3>4, <3>5 DEF Shrinks, e
  <2> QED BY <1>1, <1>2, <1>3, <2>5, <2>6, LeadsBackShrinks DEF b
<1> QED BY <1>4, <1>11, <1>12, <1>13

-----------------------------------------------------------------------------
(* While an apply runs                                                      *)

\* An operation of a plan fits what there was before it.
Fits(op, b) ==
  /\ op.kind \in {"create", "update"} => ~Live0(b.entries, b.managed[op.key])
  /\ op.kind \in {"delete", "forget"} => op.id = b.managed[op.key] /\ Live0(b.entries, op.id)

\* An entry there was is what it was, unless the apply has removed it.
Kept(en, s, n, b, e) ==
  b.entries[e] # Gone =>
    IF en[e] = Gone THEN \E k \in 1 .. n : s[k].kind = "delete" /\ s[k].id = e ELSE Same(en[e], b.entries[e])

\* An operation on an integration that is still to be done.
Ready(s, n, b, op) ==
  op.key \in Ints =>
    /\ Untouched(s, n, op.key) /\ Fits(op, b)
    /\ \A k \in 1 .. n : s[k].kind = "create" => s[k].id # op.id

Running == phase \in {"run", "find"}

\* What the journal, the records and the entries are to each other while an
\* apply of which all is known runs.
Progress(en, m, s, n, b) ==
  /\ LeadsBack(en, m, s, n, b)
  /\ \A i \in Ints : Untouched(s, n, i) => m.managed[i] = b.managed[i] /\ m.data[i] = b.data[i]
  /\ \A e \in EntryIds : Kept(en, s, n, b, e)
Settled ==
  /\ cur # 0 => journals[cur] = executed
  /\ \A i, j \in Ints : before.managed[i] # None /\ before.managed[i] = before.managed[j] => i = j
  /\ \A i \in Ints : saved.managed[i] = before.managed[i]
  /\ fetched = None => executed = <<>> /\ entries = before.entries
  /\ fetched # None => fetched = before.entries
RunOK ==
  Running /\ before.known =>
    /\ Progress(entries, mem, executed, Len(executed), before) /\ Settled
    /\ \A op \in ToSet(todo) : Ready(executed, Len(executed), before, op)

SameInts == \A i \in Ints : mem'.managed[i] = mem.managed[i] /\ mem'.data[i] = mem.data[i]

\* A call that journals nothing and leaves the entries alone.
LEMMA QuietRuns ==
  ASSUME TypeInv, RunOK, Running, before'.known => before' = before, secret' = secret, entries' = entries, executed' = executed,
         journals' = journals, cur' = cur, saved' = saved, SameInts, fetched' = fetched \/ (fetched = None /\ fetched' = entries),
         ToSet(todo') \subseteq ToSet(todo)
  PROVE  RunOK'
<1>0. SUFFICES ASSUME before'.known PROVE RunOK' BY DEF RunOK
<1>1. before' = before /\ before.known BY <1>0
<1>2. Progress(entries, mem, executed, Len(executed), before) /\ Settled
  BY <1>1 DEF RunOK
<1>3. \A op \in ToSet(todo) : Ready(executed, Len(executed), before, op)
  BY <1>1 DEF RunOK
<1>4. Len(executed) \in Nat BY DEF TypeInv, TypeOK
<1>5. LeadsBack(entries, mem', executed, Len(executed), before)
  <2>1. LeadsBack(entries, mem, executed, Len(executed), before) BY <1>2 DEF Progress
  <2>2. \A i \in Ints : mem'.managed[i] = mem.managed[i] BY DEF SameInts
  <2>3. \A k \in 1 .. Len(executed) : executed[k] = executed[k] OBVIOUS
  <2> QED BY ONLY <1>4, <2>1, <2>2, <2>3, LeadsBackSame
<1>6. Progress(entries, mem', executed, Len(executed), before) BY <1>2, <1>5 DEF Progress, SameInts
<1>7. Progress(entries', mem', executed', Len(executed'), before') BY <1>1, <1>6
<1>8. Progress(entries, mem, executed, Len(executed), before)'
  <2>1. LeadsBack(entries', mem', executed', Len(executed'), before') BY <1>7 DEF Progress
  <2>2. LeadsBack(entries, mem, executed, Len(executed), before)' BY <2>1, LeadsBackPrimed DEF LeadsBack, As, SetUpAgain, Resolve
  <2> QED BY <1>7, <2>2 DEF Progress
<1>9. Settled'
  <2>1. fetched' # None => fetched' = before'.entries BY <1>1, <1>2 DEF Settled
  <2>2. fetched' = None => executed' = <<>> /\ entries' = before'.entries BY <1>1, <1>2 DEF Settled
  <2> QED BY <1>1, <1>2, <2>1, <2>2 DEF Settled
<1>10. \A op \in ToSet(todo') : Ready(executed', Len(executed'), before', op) BY <1>1, <1>3
<1> QED BY <1>8, <1>9, <1>10 DEF RunOK, Ready, Fits

\* An operation that took effect and is on the journal.
Done(e) ==
  /\ executed' = Append(executed, e) /\ journals' = [journals EXCEPT ![cur] = executed']
  /\ before' = before /\ secret' = secret /\ cur' = cur /\ saved' = saved /\ fetched' = fetched /\ fetched # None
  /\ e.key \in Ints
  /\ \A i \in Ints \ {e.key} : mem'.managed[i] = mem.managed[i] /\ mem'.data[i] = mem.data[i]
  /\ ToSet(todo') \subseteq ToSet(todo)
  /\ \A op \in ToSet(todo') : op.key # e.key /\ (e.kind = "create" => op.id # e.id)

\* What it leaves of the entries there were.
Spared(e) ==
  \A f \in EntryIds : entries[f] # Gone =>
    IF entries'[f] = Gone THEN e.kind = "delete" /\ e.id = f
    ELSE Alike(entries'[f], entries[f]) /\ entries'[f].data \in {Opaque, entries[f].data}

LEMMA DoneRuns ==
  ASSUME TypeInv, RunOK, Running, before.known, NEW e, Done(e), Spared(e), Moved(entries'),
         Counts(entries', executed', Len(executed) + 1, before),
         Grows(entries', mem', entries, mem, executed', Len(executed), before)
  PROVE  RunOK'
<1> DEFINE n == Len(executed)
<1>1. /\ n \in Nat /\ executed \in Seq(Journals) /\ journals \in [1 .. 2 -> Seq(Journals)] /\ cur \in 0 .. 2
  BY DEF TypeInv, TypeOK
<1>2. /\ Len(executed') = n + 1 /\ executed'[n + 1] = e /\ \A k \in 1 .. n : executed'[k] = executed[k]
      /\ 1 .. n + 1 = (1 .. n) \cup {n + 1}
  <2>1. executed' = Append(executed, e) BY DEF Done
  <2> QED BY <1>1, <2>1
<1>3. Progress(entries, mem, executed, n, before) /\ Settled /\ \A op \in ToSet(todo) : Ready(executed, n, before, op)
  BY DEF RunOK
<1>4. LeadsBack(entries', mem', executed', n + 1, before)
  <2>1. LeadsBack(entries, mem, executed', n, before)
    <3>1. LeadsBack(entries, mem, executed, n, before) BY <1>3 DEF Progress
    <3>2. \A i \in Ints : mem.managed[i] = mem.managed[i] OBVIOUS
    <3>3. \A k \in 1 .. n : executed'[k] = executed[k] BY <1>2
    <3> HIDE DEF n
    <3> QED BY ONLY <1>1, <3>1, <3>2, <3>3, LeadsBackSame
  <2>2. Counts(entries', executed', n + 1, before) OBVIOUS
  <2>3. Grows(entries', mem', entries, mem, executed', n, before) OBVIOUS
  <2> HIDE DEF n
  <2> QED BY ONLY <1>1, <2>1, <2>2, <2>3, LeadsBackGrows
<1> HIDE DEF n
<1>5. \A i \in Ints : Untouched(executed', n + 1, i) => Untouched(executed, n, i) /\ i # e.key
  BY <1>2 DEF Untouched
<1>6. \A i \in Ints : Untouched(executed', n + 1, i) => mem'.managed[i] = before.managed[i] /\ mem'.data[i] = before.data[i]
  BY <1>3, <1>5 DEF Progress, Done
<1>7. ASSUME NEW f \in EntryIds PROVE Kept(entries', executed', n + 1, before, f)
  <2>1. Kept(entries, executed, n, before, f) BY <1>3 DEF Progress
  <2>2. CASE before.entries[f] = Gone BY <2>2 DEF Kept
  <2>3. CASE before.entries[f] # Gone /\ entries[f] = Gone
    <3>1. PICK k \in 1 .. n : executed[k].kind = "delete" /\ executed[k].id = f BY <2>1, <2>3 DEF Kept
    <3>2. f \in Mentioned
      <4>1. executed[k] \in ToSet(executed) BY <1>1, <3>1 DEF ToSet, n
      <4> QED BY <3>1, <4>1, MentionedHas DEF Journalled0
    <3>3. entries'[f] = Gone BY <2>3, <3>2 DEF Moved
    <3>4. k \in 1 .. n + 1 /\ executed'[k].kind = "delete" /\ executed'[k].id = f BY <1>2, <3>1
    <3> QED BY <3>3, <3>4 DEF Kept
  <2>4. CASE before.entries[f] # Gone /\ entries[f] # Gone
    <3>1. Same(entries[f], before.entries[f]) BY <2>1, <2>4 DEF Kept
    <3>2. CASE entries'[f] = Gone
      <4>1. e.kind = "delete" /\ e.id = f BY <2>4, <3>2 DEF Spared
      <4> QED BY <1>2, <3>2, <4>1 DEF Kept
    <3>3. CASE entries'[f] # Gone
      <4>1. Alike(entries'[f], entries[f]) /\ entries'[f].data \in {Opaque, entries[f].data} BY <2>4, <3>3 DEF Spared
      <4>2. Same(entries'[f], before.entries[f]) BY <3>1, <4>1 DEF Same, Alike
      <4> QED BY <3>3, <4>2 DEF Kept
    <3> QED BY <3>2, <3>3
  <2> QED BY <2>2, <2>3, <2>4
<1>8. Progress(entries', mem', executed', Len(executed'), before') BY <1>2, <1>4, <1>6, <1>7 DEF Progress, Done
<1>9. Progress(entries, mem, executed, Len(executed), before)'
  <2>1. LeadsBack(entries', mem', executed', Len(executed'), before') BY <1>8 DEF Progress
  <2>2. LeadsBack(entries, mem, executed, Len(executed), before)'
    BY <2>1, LeadsBackPrimed DEF LeadsBack, As, SetUpAgain, Resolve, Done
  <2> QED BY <1>8, <2>2 DEF Progress
<1>10. Settled'
  <2>1. cur # 0 => journals'[cur] = executed' BY <1>1 DEF Done
  <2> QED BY <1>3, <2>1 DEF Settled, Done
<1>11. ASSUME NEW op \in ToSet(todo'), op.key \in Ints
       PROVE  /\ Untouched(executed', Len(executed'), op.key) /\ Fits(op, before)
              /\ \A k \in 1 .. Len(executed') : executed'[k].kind = "create" => executed'[k].id # op.id
  <2>1. op \in ToSet(todo) /\ op.key # e.key /\ (e.kind = "create" => op.id # e.id) BY DEF Done
  <2>2. /\ Untouched(executed, n, op.key) /\ Fits(op, before)
        /\ \A k \in 1 .. n : executed[k].kind = "create" => executed[k].id # op.id
    BY <1>3, <1>11, <2>1 DEF Ready
  <2> QED BY <1>2, <2>1, <2>2 DEF Untouched
<1>12. before' = before BY DEF Done
<1> QED BY <1>9, <1>10, <1>11, <1>12 DEF RunOK, Ready, Fits

\* What an operation that takes effect adds to the counts.
LEMMA CreateGrows ==
  ASSUME NEW lo \in World, NEW s, NEW n \in Nat, NEW b, NEW x \in Entries, s[n + 1].kind = "create", s[n + 1].id \in EntryIds,
         lo[s[n + 1].id] = Gone, Counts(lo, s, n, b),
         \A k \in 1 .. n : s[k].kind = "create" => s[k].id \in EntryIds /\ s[k].id # s[n + 1].id
  PROVE  Counts([lo EXCEPT ![s[n + 1].id] = x], s, n + 1, b)
<1> DEFINE m == n + 1
<1>1. m \in Nat \ {0} /\ m - 1 = n BY SMT
<1>2. s[m].kind = "create" OBVIOUS
<1>3. s[m].id \in EntryIds OBVIOUS
<1>4. lo[s[m].id] = Gone OBVIOUS
<1>5. Counts(lo, s, m - 1, b) BY <1>1
<1>6. \A k \in 1 .. m - 1 : s[k].kind = "create" => s[k].id \in EntryIds /\ s[k].id # s[m].id BY <1>1
<1> HIDE DEF m
<1>7. Counts([lo EXCEPT ![s[m].id] = x], s, m, b)
  BY ONLY lo \in World, x \in Entries, <1>1, <1>2, <1>3, <1>4, <1>5, <1>6, CreateCounts
<1> QED BY <1>7 DEF m

LEMMA DeleteGrows ==
  ASSUME NEW hi \in World, NEW s, NEW n \in Nat, NEW b, NEW e \in EntryIds, NEW x \in Entries, s[n + 1].kind = "delete",
         Alike(x, s[n + 1]), hi[e] = Gone, Counts([hi EXCEPT ![e] = x], s, n, b),
         \A k \in 1 .. n : s[k].kind = "create" => s[k].id \in EntryIds /\ s[k].id # e
  PROVE  Counts(hi, s, n + 1, b)
<1> DEFINE m == n + 1
<1>1. m \in Nat \ {0} /\ m - 1 = n BY SMT
<1>2. s[m].kind = "delete" OBVIOUS
<1>3. Alike(x, s[m]) OBVIOUS
<1>5. Counts([hi EXCEPT ![e] = x], s, m - 1, b) BY <1>1
<1>6. \A k \in 1 .. m - 1 : s[k].kind = "create" => s[k].id \in EntryIds /\ s[k].id # e BY <1>1
<1> HIDE DEF m
<1>7. Counts(hi, s, m, b)
  BY ONLY hi \in World, x \in Entries, e \in EntryIds, hi[e] = Gone, <1>1, <1>2, <1>3, <1>5, <1>6, DeleteCounts
<1> QED BY <1>7 DEF m

LEMMA OtherGrows ==
  ASSUME NEW hi, NEW lo, NEW s, NEW n \in Nat, NEW b, s[n + 1].kind \notin {"create", "delete"}, SameTitles(hi, lo),
         MadeEntriesOnly(s, n), Counts(lo, s, n, b)
  PROVE  Counts(hi, s, n + 1, b)
<1> DEFINE m == n + 1
<1>1. m \in Nat \ {0} /\ m - 1 = n BY SMT
<1>2. s[m].kind # "delete" OBVIOUS
<1>3. s[m].kind = "create" => hi[s[m].id] = Gone OBVIOUS
<1>4. MadeEntriesOnly(s, m - 1) BY <1>1
<1>5. Counts(lo, s, m - 1, b) BY <1>1
<1> HIDE DEF m
<1>6. Counts(hi, s, m, b) BY ONLY SameTitles(hi, lo), <1>1, <1>2, <1>3, <1>4, <1>5, OtherDone
<1> QED BY <1>6 DEF m

\* What is known of an apply that runs, of what it has done and has still to
\* do.
LEMMA RunFacts ==
  ASSUME TypeInv, RunOK, Running, before.known
  PROVE  /\ Len(executed) \in Nat /\ Counts(entries, executed, Len(executed), before)
         /\ \A k \in 1 .. Len(executed) :
              /\ executed[k].key \in Ints /\ executed[k].id \in EntryIds /\ executed[k].id # None /\ executed[k].id \in Mentioned
              /\ Undoes(entries, executed[k], before)
         /\ \A i \in Ints : /\ i \in Keys /\ mem.managed[i] \in EntryIds \cup {None} /\ mem.managed[i] \in Mentioned
                            /\ before.managed[i] \in EntryIds \cup {None} /\ before.managed[i] \in Mentioned
         /\ \A i \in Ints : Untouched(executed, Len(executed), i) => mem.managed[i] = before.managed[i] /\ mem.data[i] = before.data[i]
         /\ \A i, j \in Ints : before.managed[i] # None /\ before.managed[i] = before.managed[j] => i = j
         /\ fetched # None => fetched = before.entries
         /\ \A op \in ToSet(todo) : op.id \in Mentioned /\ Ready(executed, Len(executed), before, op)
<1> DEFINE n == Len(executed)
<1>1. Progress(entries, mem, executed, n, before) /\ Settled /\ \A op \in ToSet(todo) : Ready(executed, n, before, op)
  BY DEF RunOK
<1>2. n \in Nat /\ n <= Len(executed) /\ LeadsBack(entries, mem, executed, n, before) BY <1>1 DEF Progress, TypeInv, TypeOK
<1>3. \A k \in 1 .. n : /\ executed[k].key \in Ints /\ executed[k].id \in EntryIds /\ executed[k].id # None
                        /\ executed[k].id \in Mentioned /\ Undoes(entries, executed[k], before)
  BY <1>2, UndoFacts
<1>4. Counts(entries, executed, n, before) BY <1>2 DEF LeadsBack
<1>5. RecordOK(mem) /\ RecordOK(saved) BY DEF TypeInv, TypeOK
<1>6. \A i \in Ints : /\ i \in Keys /\ mem.managed[i] \in EntryIds \cup {None} /\ mem.managed[i] \in Mentioned
                      /\ before.managed[i] \in EntryIds \cup {None} /\ before.managed[i] \in Mentioned
  <2>1. \A i \in Ints : saved.managed[i] = before.managed[i] BY <1>1 DEF Settled
  <2> QED BY <1>5, <2>1, RecordFields, MentionedHas, IntegrationsAssumption DEF Keys, IdsOf
<1> QED BY <1>1, <1>2, <1>3, <1>4, <1>6, MentionedHas DEF Progress, Settled

\* What a journalled operation does to the journal.
LEMMA OneMore ==
  ASSUME TypeInv, NEW e, executed' = Append(executed, e)
  PROVE  /\ executed'[Len(executed) + 1] = e /\ \A k \in 1 .. Len(executed) : executed'[k] = executed[k]
<1>1. executed \in Seq(Journals) BY DEF TypeInv, TypeOK
<1> QED BY <1>1

LEMMA BeforeUnknown == TypeInv /\ before' = [before EXCEPT !.known = FALSE] => ~before'.known
BY DEF TypeInv, TypeOK, Befores

\* The record an operation wrote.
LEMMA RecordAt ==
  ASSUME TypeInv, NEW k \in Keys, NEW id, NEW hash, NEW data, Record(k, id, hash, data)
  PROVE  /\ mem'.managed[k] = id /\ mem'.data[k] = data
         /\ \A l \in Keys : l # k => mem'.managed[l] = mem.managed[l] /\ mem'.data[l] = mem.data[l]
<1>1. mem \in [managed : [Keys -> Ids0], hash : [Keys -> Sent \cup {None}], data : [Keys -> Datas \cup {None}],
               attempts : [Keys -> [hash : Sent \cup HacsItems, created : BOOLEAN] \cup {None}], reminder : SUBSET Domains]
  BY RecordForm DEF TypeInv, TypeOK
<1>2. mem'.managed = [mem.managed EXCEPT ![k] = id] /\ mem'.data = [mem.data EXCEPT ![k] = data] BY <1>1 DEF Record
<1>3. mem.managed \in [Keys -> Ids0] /\ mem.data \in [Keys -> Datas \cup {None}] BY <1>1
<1> QED BY <1>2, <1>3

LEMMA ForgotAt ==
  ASSUME TypeInv, NEW k \in Keys, Forget(k)
  PROVE  /\ mem'.managed[k] = None
         /\ \A l \in Keys : l # k => mem'.managed[l] = mem.managed[l] /\ mem'.data[l] = mem.data[l]
<1>1. mem' = Changed3(mem, k, None, None, None) BY DEF Forget, Changed3
<1>2. RecordOK(mem) BY DEF TypeInv, TypeOK
<1> QED BY <1>1, <1>2, OneRecord

\* What landed and is on the journal.
LEMMA LandedDone ==
  ASSUME TypeInv, Truth, OneCall, Op1(Ints, {"create", "update", "delete", "forget"}), NEW entry, Landed(Head(todo), entry),
         before'.known
  PROVE  Journalled(entry) /\ before' = before /\ todo' \in Rests
<1>1. ~(before' = [before EXCEPT !.known = FALSE]) BY BeforeUnknown
<1> QED BY <1>1, SucceedRests, Zenon DEF Landed

LEMMA DoneFacts ==
  ASSUME TypeInv, Truth, OneCall, NEW kinds, Op1(Ints, kinds), NEW e, e.key = Head(todo).key, Journalled(e), before' = before,
         todo' \in Rests, secret' = secret, cur' = cur, saved' = saved, fetched' = fetched, fetched # None,
         \A i \in Ints : i # Head(todo).key => mem'.managed[i] = mem.managed[i] /\ mem'.data[i] = mem.data[i],
         e.kind = "create" => e.id \notin Mentioned
  PROVE  Done(e)
<1>1. /\ executed' = Append(executed, e) /\ journals' = [journals EXCEPT ![cur] = executed'] BY DEF Journalled
<1>2. e.key \in Ints BY DEF Op1
<1>3. /\ ToSet(todo') \subseteq ToSet(todo) /\ \A op \in ToSet(todo') : op.key # e.key BY CallPlan
<1>4. \A op \in ToSet(todo') : e.kind = "create" => op.id # e.id BY <1>3, MentionedHas
<1> QED BY <1>1, <1>2, <1>3, <1>4 DEF Done

LEMMA CreateRuns == TypeInv /\ Truth /\ RunOK /\ CreateEntry => RunOK'
<1>0. SUFFICES ASSUME TypeInv, Truth, RunOK, CreateEntry, before'.known PROVE RunOK' BY DEF RunOK
<1> DEFINE op == Head(todo)
           n == Len(executed)
           e == Entry(op, NewEntry, op.item)
<1>1. /\ Op1(Ints, {"create"}) /\ fetched # None /\ CanMakeEntry /\ Record(op.key, NewEntry, op.value, op.item.data)
      /\ secret' = secret /\ cur' = cur /\ saved' = saved /\ fetched' = fetched /\ Running /\ OneCall
  BY <1>0, Zenon DEF CreateEntry, Op1, Running, OneCall
<1>2. /\ op.key \in Ints /\ op.key \in Keys /\ op.kind = "create" /\ op.item \in IntItems /\ op.value \in Sent /\ op \in ToSet(todo)
      /\ LayerOf(op.key) = "integrations" /\ op.item.domain \in Domains
  <2>1. todo # <<>> BY <1>1 DEF Op1
  <2>2. op \in ToSet(todo) BY <1>0, <2>1, HeadFacts DEF TypeInv
  <2>3. op.key \in Ints /\ op.key \in Keys /\ op.kind = "create" /\ op.item \in IntItems /\ op.value \in Sent
    BY <1>0, <1>1, IntHead DEF TypeInv
  <2> QED BY <2>2, <2>3, ItemShape, IntegrationsAssumption DEF LayerOf
<1>3. e.kind = "create" /\ e.key = op.key /\ e.id = NewEntry BY <1>2 DEF Entry
<1>4. Journalled(e) /\ before' = before /\ todo' \in Rests
  <2>1. CASE Landed(op, e)
    <3>1. Op1(Ints, {"create", "update", "delete", "forget"}) BY <1>1 DEF Op1
    <3> HIDE DEF op, e
    <3> QED BY <1>0, <1>1, <2>1, <3>1, LandedDone DEF op
  <2>2. CASE Journalled(e) /\ before' = before /\ todo' = InLayer(Tail(todo), "integrations")
    BY <1>2, <2>2 DEF Rests
  <2> QED BY <1>0, <2>1, <2>2, Zenon DEF CreateEntry
<1>5. \E t \in Titles : entries' = NewInt(op.item, t, op.value)
  <2>1. \/ entries' = NewInt(op.item, op.item.title, op.value)
        \/ \E t \in Titles \ {op.item.title} : entries' = NewInt(op.item, t, op.value)
    BY <1>0, Zenon DEF CreateEntry
  <2>2. op.item.title \in Titles BY <1>2, ItemShape
  <2> QED BY <2>1, <2>2, Zenon
<1>6. /\ NewEntry \in EntryIds /\ entries[NewEntry] = Gone /\ NewEntry \notin Mentioned /\ NewEntry # None
      /\ entries'[NewEntry] \in Entries /\ entries'[NewEntry] # Gone
      /\ entries' = [entries EXCEPT ![NewEntry] = entries'[NewEntry]]
      /\ \A f \in EntryIds : f # NewEntry => entries'[f] = entries[f]
  <2>1. PICK t \in Titles : entries' = NewInt(op.item, t, op.value) BY <1>5
  <2>2. op.value \in Sent \cup {Opaque} BY <1>2
  <2> HIDE DEF op
  <2> QED BY <1>0, <1>1, <1>2, <2>1, <2>2, MadeEntries DEF TypeInv
<1>7. /\ mem'.managed[op.key] = NewEntry
      /\ \A i \in Ints : i # op.key => mem'.managed[i] = mem.managed[i] /\ mem'.data[i] = mem.data[i]
  <2> HIDE DEF op
  <2> QED BY <1>0, <1>1, <1>2, RecordAt DEF Keys
<1>8. before.known BY <1>0, <1>4
<1>9. /\ n \in Nat /\ Counts(entries, executed, n, before)
      /\ \A k \in 1 .. n : /\ executed[k].key \in Ints /\ executed[k].id \in EntryIds /\ executed[k].id # None
                           /\ executed[k].id \in Mentioned /\ Undoes(entries, executed[k], before)
      /\ \A i \in Ints : /\ mem.managed[i] \in EntryIds \cup {None} /\ mem.managed[i] \in Mentioned
                         /\ before.managed[i] \in Mentioned
      /\ Ready(executed, n, before, op)
  <2> HIDE DEF op
  <2> QED BY <1>0, <1>1, <1>2, <1>8, RunFacts
<1>10. executed'[n + 1] = e /\ \A k \in 1 .. n : executed'[k] = executed[k]
  BY <1>0, <1>4, OneMore DEF Journalled
<1>11. Done(e)
  <2> HIDE DEF e
  <2> QED BY <1>0, <1>1, <1>3, <1>4, <1>6, <1>7, DoneFacts
<1> HIDE DEF e, op, n
<1>12. Untouched(executed, n, op.key) /\ Fits(op, before) BY <1>2, <1>9 DEF Ready
<1>13. Spared(e) BY <1>6 DEF Spared, Alike
<1>14. Moved(entries') BY <1>0, <1>1, CallFrame
<1>15. Counts(entries', executed', n + 1, before)
  <2>1. executed'[n + 1].kind = "create" BY <1>3, <1>10
  <2>2. executed'[n + 1].id = NewEntry BY <1>3, <1>10
  <2>3. executed'[n + 1].id \in EntryIds BY <1>6, <2>2
  <2>4. entries[executed'[n + 1].id] = Gone BY <1>6, <2>2
  <2>5. \A k \in 1 .. n : executed'[k].kind = "create" => executed'[k].id \in EntryIds /\ executed'[k].id # executed'[n + 1].id
    BY <1>6, <1>9, <1>10, <2>2
  <2>6. Counts(entries, executed', n, before)
    <3>1. n \in Nat BY <1>9
    <3>2. Counts(entries, executed, n, before) BY <1>9
    <3>3. \A k \in 1 .. n : executed'[k] = executed[k] BY <1>10
    <3> QED BY ONLY <3>1, <3>2, <3>3, StillCounts
  <2>7. entries \in World BY <1>0, WorldTyped DEF World, TypeInv
  <2>8. entries'[NewEntry] \in Entries BY <1>6
  <2>9. n \in Nat BY <1>9
  <2>10. Counts([entries EXCEPT ![executed'[n + 1].id] = entries'[NewEntry]], executed', n + 1, before)
    BY ONLY <2>1, <2>3, <2>4, <2>5, <2>6, <2>7, <2>8, <2>9, CreateGrows
  <2> QED BY <1>6, <2>2, <2>10
<1>16. Grows(entries', mem', entries, mem, executed', n, before)
  <2>1. Untouched(executed', n, e.key) BY <1>3, <1>10, <1>12 DEF Untouched
  <2>2. Undoes(entries', e, before) BY <1>2, <1>3, <1>12 DEF Undoes, Fits
  <2>3. \A i \in Ints \ {e.key} : mem'.managed[i] = mem.managed[i] BY <1>3, <1>7
  <2>4. \A k \in 1 .. n : executed'[k].id # NewEntry BY <1>6, <1>9, <1>10
  <2>5. \A i \in Ints \ {e.key} : mem'.managed[i] # NewEntry /\ before.managed[i] # NewEntry BY <1>6, <1>9, <2>3
  <2>6. ASSUME NEW k \in 1 .. n, executed'[k].kind = "forget" PROVE Keeps(entries', entries, before.managed[executed'[k].key])
    <3>1. Undoes(entries, executed[k], before) /\ executed[k].id \in EntryIds /\ executed'[k] = executed[k] /\ executed[k].id # NewEntry
      BY <1>9, <1>10, <2>4
    <3>2. before.managed[executed[k].key] = executed[k].id BY <2>6, <3>1 DEF Undoes
    <3>3. entries'[executed[k].id] = entries[executed[k].id] BY <1>6, <3>1
    <3> QED BY <3>1, <3>2, <3>3 DEF Keeps, Alike, Live0
  <2>7. ASSUME NEW i \in Ints \ {e.key}, mem.managed[i] # None PROVE entries'[mem.managed[i]] = entries[mem.managed[i]]
    <3>1. mem.managed[i] # NewEntry /\ mem.managed[i] \in EntryIds BY <1>6, <1>9, <2>7
    <3> QED BY <1>6, <3>1
  <2> QED BY <1>3, <1>7, <1>10, <2>1, <2>2, <2>3, <2>4, <2>5, <2>6, <2>7 DEF Grows
<1> QED BY <1>0, <1>1, <1>8, <1>11, <1>13, <1>14, <1>15, <1>16, DoneRuns DEF n

\* An entry of the plan is still what it was before the apply.
LEMMA HeadKept ==
  ASSUME TypeInv, RunOK, Running, before.known, NEW op \in ToSet(todo), op.key \in Ints, op.kind \in {"delete", "forget"}
  PROVE  /\ op.id = before.managed[op.key] /\ Live0(before.entries, op.id)
         /\ Live0(entries, op.id) /\ Same(entries[op.id], before.entries[op.id])
         /\ \A i \in Ints : i # op.key => before.managed[i] # op.id
<1> DEFINE n == Len(executed)
<1>1. /\ \A k \in 1 .. n : executed[k].key \in Ints /\ Undoes(entries, executed[k], before)
      /\ \A i, j \in Ints : before.managed[i] # None /\ before.managed[i] = before.managed[j] => i = j
      /\ before.managed[op.key] \in EntryIds \cup {None}
      /\ Ready(executed, n, before, op)
  BY RunFacts
<1>2. op.id = before.managed[op.key] /\ Live0(before.entries, op.id) /\ Untouched(executed, n, op.key) BY <1>1 DEF Ready, Fits
<1>3. op.id \in EntryIds /\ op.id # None /\ before.entries[op.id] # Gone BY <1>1, <1>2 DEF Live0
<1>4. Kept(entries, executed, n, before, op.id) BY <1>3 DEF RunOK, Progress
<1>5. entries[op.id] # Gone
  <2>1. SUFFICES ASSUME entries[op.id] = Gone PROVE FALSE OBVIOUS
  <2>2. PICK k \in 1 .. n : executed[k].kind = "delete" /\ executed[k].id = op.id BY <1>3, <1>4, <2>1 DEF Kept
  <2>3. executed[k].id = before.managed[executed[k].key] /\ executed[k].key \in Ints BY <1>1, <2>2 DEF Undoes
  <2>4. executed[k].key = op.key BY <1>1, <1>2, <1>3, <2>2, <2>3
  <2> QED BY <1>2, <2>4 DEF Untouched
<1>6. Live0(entries, op.id) /\ Same(entries[op.id], before.entries[op.id]) BY <1>3, <1>4, <1>5 DEF Kept, Live0
<1> QED BY <1>1, <1>2, <1>3, <1>6

LEMMA AdoptRuns == TypeInv /\ Truth /\ RunOK /\ AdoptEntry => RunOK'
<1>0. SUFFICES ASSUME TypeInv, Truth, RunOK, AdoptEntry, before'.known PROVE RunOK' BY DEF RunOK
<1> DEFINE op == Head(todo)
           n == Len(executed)
           e == Entry(op, op.id, op.item)
<1>1. /\ Op1(Ints, {"update"}) /\ fetched # None /\ Record(op.key, op.id, op.value, op.item.data) /\ Landed(op, e)
      /\ secret' = secret /\ cur' = cur /\ saved' = saved /\ fetched' = fetched /\ Running /\ OneCall
      /\ entries' = IF LiveEntry(op.id) THEN [entries EXCEPT ![op.id].data = Opaque] ELSE entries
  BY <1>0, Zenon DEF AdoptEntry, Op1, Running, OneCall
<1>2. op.key \in Ints /\ op.key \in Keys /\ op.kind = "update" /\ op.id \in EntryIds /\ op \in ToSet(todo) /\ op.id # None
  <2>1. todo # <<>> BY <1>1 DEF Op1
  <2>2. op \in ToSet(todo) BY <1>0, <2>1, HeadFacts DEF TypeInv
  <2>3. op.key \in Ints /\ op.key \in Keys /\ op.kind = "update" /\ op.id \in EntryIds BY <1>0, <1>1, IntHead DEF TypeInv
  <2> QED BY <2>2, <2>3, IntegrationsAssumption DEF Ids
<1>3. e.kind = "update" /\ e.key = op.key /\ e.id = op.id BY <1>2 DEF Entry
<1>4. Journalled(e) /\ before' = before /\ todo' \in Rests
  <2>1. Op1(Ints, {"create", "update", "delete", "forget"}) BY <1>1 DEF Op1
  <2> HIDE DEF op, e
  <2> QED BY <1>0, <1>1, <2>1, LandedDone DEF op
<1>6. /\ \A f \in EntryIds : entries'[f] = entries[f] \/ (f = op.id /\ Live0(entries, f) /\ Keeps(entries', entries, f))
      /\ \A f \in EntryIds : (entries'[f] = Gone) = (entries[f] = Gone)
                             /\ (entries[f] # Gone => Alike(entries'[f], entries[f]) /\ entries'[f].data \in {Opaque, entries[f].data})
  <2>1. CASE ~LiveEntry(op.id) BY <1>1, <2>1 DEF Alike
  <2>2. CASE LiveEntry(op.id)
    <3>1. entries \in World /\ Gone \notin Entries /\ entries[op.id] \in Entries BY <1>0, <1>2, <2>2, WorldTyped DEF World, TypeInv, LiveEntry
    <3>2. PICK x : x = [entries[op.id] EXCEPT !.data = Opaque] OBVIOUS
    <3>3. x \in Entries /\ x.domain = entries[op.id].domain /\ x.title = entries[op.id].title /\ x.data = Opaque
      BY <3>1, <3>2 DEF Entries
    <3>4. entries' = [entries EXCEPT ![op.id] = x] BY <1>1, <2>2, <3>2
    <3>5. entries'[op.id] = x /\ \A f \in EntryIds : f # op.id => entries'[f] = entries[f] BY <1>2, <3>1, <3>4 DEF World
    <3> QED BY <1>2, <2>2, <3>1, <3>3, <3>5 DEF Alike, Keeps, Live0, LiveEntry
  <2> QED BY <2>1, <2>2
<1>7. /\ mem'.managed[op.key] = op.id
      /\ \A i \in Ints : i # op.key => mem'.managed[i] = mem.managed[i] /\ mem'.data[i] = mem.data[i]
  <2> HIDE DEF op
  <2> QED BY <1>0, <1>1, <1>2, RecordAt DEF Keys
<1>8. before.known BY <1>0, <1>4
<1>9. /\ n \in Nat /\ Counts(entries, executed, n, before)
      /\ \A k \in 1 .. n : /\ executed[k].key \in Ints /\ executed[k].id \in EntryIds /\ Undoes(entries, executed[k], before)
      /\ \A i \in Ints : mem.managed[i] \in EntryIds \cup {None}
      /\ \A i \in Ints : Untouched(executed, n, i) => mem.managed[i] = before.managed[i]
      /\ Ready(executed, n, before, op)
  <2> HIDE DEF op
  <2> QED BY <1>0, <1>1, <1>2, <1>8, RunFacts
<1>10. executed'[n + 1] = e /\ \A k \in 1 .. n : executed'[k] = executed[k]
  BY <1>0, <1>4, OneMore DEF Journalled
<1>11. Done(e)
  <2>1. e.kind # "create" BY <1>3
  <2> HIDE DEF e
  <2> QED BY <1>0, <1>1, <1>3, <1>4, <1>7, <2>1, DoneFacts
<1> HIDE DEF e, op, n
<1>12. /\ Untouched(executed, n, op.key) /\ Fits(op, before)
       /\ \A k \in 1 .. n : executed[k].kind = "create" => executed[k].id # op.id
  BY <1>2, <1>9 DEF Ready
<1>13. Spared(e) BY <1>6 DEF Spared
<1>14. Moved(entries') BY <1>0, <1>1, CallFrame
<1>15. Counts(entries', executed', n + 1, before)
  <2>1. executed'[n + 1].kind \notin {"create", "delete"} BY <1>3, <1>10
  <2>2. SameTitles(entries', entries) BY <1>6 DEF SameTitles
  <2>3. MadeEntriesOnly(executed', n) BY <1>9, <1>10 DEF MadeEntriesOnly
  <2>4. n \in Nat BY <1>9
  <2>5. Counts(entries, executed', n, before)
    <3>1. Counts(entries, executed, n, before) BY <1>9
    <3>2. \A k \in 1 .. n : executed'[k] = executed[k] BY <1>10
    <3> QED BY ONLY <2>4, <3>1, <3>2, StillCounts
  <2> QED BY ONLY <2>1, <2>2, <2>3, <2>4, <2>5, OtherGrows
<1>16. Grows(entries', mem', entries, mem, executed', n, before)
  <2>1. Untouched(executed', n, e.key) BY <1>3, <1>10, <1>12 DEF Untouched
  <2>2. Undoes(entries', e, before) BY <1>2, <1>3, <1>12 DEF Undoes, Fits
  <2>3. \A i \in Ints \ {e.key} : mem'.managed[i] = mem.managed[i] BY <1>3, <1>7
  <2>4. \A k \in 1 .. n : executed'[k].kind = "create" => executed'[k].id # op.id BY <1>10, <1>12
  <2>6. ASSUME NEW k \in 1 .. n, executed'[k].kind = "forget" PROVE Keeps(entries', entries, before.managed[executed'[k].key])
    <3>1. Undoes(entries, executed[k], before) /\ executed[k].id \in EntryIds /\ executed'[k] = executed[k] BY <1>9, <1>10
    <3>2. before.managed[executed[k].key] = executed[k].id BY <2>6, <3>1 DEF Undoes
    <3> QED BY <1>6, <3>1, <3>2 DEF Keeps, Live0
  <2>7. ASSUME NEW i \in Ints \ {e.key}, Untouched(executed', n, i), mem.managed[i] # None
        PROVE  \/ entries'[mem.managed[i]] = entries[mem.managed[i]]
               \/ mem.managed[i] = before.managed[i] /\ Keeps(entries', entries, mem.managed[i]) /\ Live0(entries, mem.managed[i])
    <3>1. mem.managed[i] = before.managed[i] /\ mem.managed[i] \in EntryIds
      <4>1. Untouched(executed, n, i) BY <1>10, <2>7 DEF Untouched
      <4> QED BY <1>9, <2>7, <4>1
    <3> QED BY <1>6, <3>1
  <2> QED BY <1>3, <1>7, <1>10, <2>1, <2>2, <2>3, <2>4, <2>6, <2>7 DEF Grows
<1> QED BY <1>0, <1>1, <1>8, <1>11, <1>13, <1>14, <1>15, <1>16, DoneRuns DEF n

LEMMA DeleteRuns ==
  ASSUME TypeInv, Truth, RunOK, DeleteEntry, before'.known, Removed(Head(todo).id), Forget(Head(todo).key),
         fetched[Head(todo).id] # Gone, Landed(Head(todo), Entry(Head(todo), Head(todo).id, fetched[Head(todo).id]))
  PROVE  RunOK'
<1> DEFINE op == Head(todo)
           n == Len(executed)
           e == Entry(op, op.id, fetched[op.id])
<1>1. /\ Op1(Ints, {"delete"}) /\ fetched # None /\ Landed(op, e) /\ Removed(op.id) /\ Forget(op.key)
      /\ secret' = secret /\ cur' = cur /\ saved' = saved /\ fetched' = fetched /\ Running /\ OneCall
  BY Zenon DEF DeleteEntry, Op1, Running, OneCall
<1>2. op.key \in Ints /\ op.key \in Keys /\ op.kind = "delete" /\ op.id \in EntryIds /\ op \in ToSet(todo) /\ op.id # None
  <2>1. todo # <<>> BY <1>1 DEF Op1
  <2>2. op \in ToSet(todo) BY <2>1, HeadFacts DEF TypeInv
  <2>3. op.key \in Ints /\ op.key \in Keys /\ op.kind = "delete" /\ op.id \in EntryIds BY <1>1, IntHead DEF TypeInv
  <2> QED BY <2>2, <2>3, IntegrationsAssumption DEF Ids
<1>3. /\ e.kind = "delete" /\ e.key = op.key /\ e.id = op.id /\ e.domain = fetched[op.id].domain /\ e.title = fetched[op.id].title
      /\ e.data = mem.data[op.key]
  BY <1>2 DEF Entry
<1>4. Journalled(e) /\ before' = before /\ todo' \in Rests
  <2>1. Op1(Ints, {"create", "update", "delete", "forget"}) BY <1>1 DEF Op1
  <2> HIDE DEF op, e
  <2> QED BY <1>1, <2>1, LandedDone DEF op
<1>6. /\ entries' \in World /\ entries'[op.id] = Gone /\ \A f \in EntryIds : f # op.id => entries'[f] = entries[f]
      /\ entries = [entries' EXCEPT ![op.id] = entries[op.id]]
  <2> HIDE DEF op
  <2> QED BY <1>1, <1>2, RemovedEntries DEF TypeInv
<1>7. /\ mem'.managed[op.key] = None
      /\ \A i \in Ints : i # op.key => mem'.managed[i] = mem.managed[i] /\ mem'.data[i] = mem.data[i]
  <2> HIDE DEF op
  <2> QED BY <1>1, <1>2, ForgotAt DEF Keys
<1>8. before.known BY <1>4
<1>9. /\ n \in Nat /\ Counts(entries, executed, n, before)
      /\ \A k \in 1 .. n : /\ executed[k].key \in Ints /\ executed[k].id \in EntryIds /\ executed[k].id # None
                           /\ Undoes(entries, executed[k], before)
      /\ \A i \in Ints : mem.managed[i] \in EntryIds \cup {None}
      /\ \A i \in Ints : Untouched(executed, n, i) => mem.managed[i] = before.managed[i] /\ mem.data[i] = before.data[i]
      /\ Ready(executed, n, before, op) /\ fetched = before.entries
  <2> HIDE DEF op
  <2> QED BY <1>1, <1>2, <1>8, RunFacts
<1>10. executed'[n + 1] = e /\ \A k \in 1 .. n : executed'[k] = executed[k]
  BY <1>4, OneMore DEF Journalled
<1>11. Done(e)
  <2>1. e.kind # "create" BY <1>3
  <2> HIDE DEF e
  <2> QED BY <1>1, <1>3, <1>4, <1>7, <2>1, DoneFacts
<1>17. /\ op.id = before.managed[op.key] /\ Live0(before.entries, op.id)
       /\ Live0(entries, op.id) /\ Same(entries[op.id], before.entries[op.id])
       /\ \A i \in Ints : i # op.key => before.managed[i] # op.id
  <2>1. op.kind \in {"delete", "forget"} BY <1>2
  <2> HIDE DEF op
  <2> QED BY <1>1, <1>2, <1>8, <2>1, HeadKept
<1> HIDE DEF e, op, n
<1>12. /\ Untouched(executed, n, op.key)
       /\ \A k \in 1 .. n : executed[k].kind = "create" => executed[k].id # op.id
  BY <1>2, <1>9 DEF Ready
<1>13. Spared(e)
  <2>1. \A f \in EntryIds : f # op.id => entries'[f] = entries[f] BY <1>6
  <2> QED BY <1>3, <1>6, <2>1 DEF Spared, Alike
<1>14. Moved(entries') BY <1>1, CallFrame
<1>15. Counts(entries', executed', n + 1, before)
  <2>1. executed'[n + 1].kind = "delete" BY <1>3, <1>10
  <2>2. Alike(entries[op.id], executed'[n + 1]) BY <1>3, <1>9, <1>10, <1>17 DEF Same, Alike
  <2>3. entries[op.id] \in Entries BY <1>2, <1>17, WorldTyped DEF Live0, TypeInv
  <2>4. n \in Nat BY <1>9
  <2>5. Counts([entries' EXCEPT ![op.id] = entries[op.id]], executed', n, before)
    <3>1. Counts(entries, executed, n, before) BY <1>9
    <3>2. \A k \in 1 .. n : executed'[k] = executed[k] BY <1>10
    <3>3. Counts(entries, executed', n, before) BY ONLY <2>4, <3>1, <3>2, StillCounts
    <3> QED BY <1>6, <3>3
  <2>6. \A k \in 1 .. n : executed'[k].kind = "create" => executed'[k].id \in EntryIds /\ executed'[k].id # op.id
    BY <1>9, <1>10, <1>12
  <2>7. entries' \in World BY <1>6
  <2>8. entries'[op.id] = Gone BY <1>6
  <2>9. op.id \in EntryIds BY <1>2
  <2> QED BY ONLY <2>1, <2>2, <2>3, <2>4, <2>5, <2>6, <2>7, <2>8, <2>9, DeleteGrows
<1>16. Grows(entries', mem', entries, mem, executed', n, before)
  <2>1. Untouched(executed', n, e.key) BY <1>3, <1>10, <1>12 DEF Untouched
  <2>2. Undoes(entries', e, before)
    <3>1. e.data = before.data[op.key] BY <1>2, <1>3, <1>9, <1>12
    <3>2. Alike(e, before.entries[op.id]) BY <1>3, <1>9 DEF Alike
    <3> QED BY <1>3, <1>17, <3>1, <3>2 DEF Undoes
  <2>3. \A i \in Ints \ {e.key} : mem'.managed[i] = mem.managed[i] BY <1>3, <1>7
  <2>4. \A k \in 1 .. n : executed'[k].kind = "create" => executed'[k].id # op.id /\ executed'[k].id # None BY <1>9, <1>10, <1>12
  <2>6. ASSUME NEW k \in 1 .. n, executed'[k].kind = "forget" PROVE Keeps(entries', entries, before.managed[executed'[k].key])
    <3>1. /\ Undoes(entries, executed[k], before) /\ executed[k].id \in EntryIds /\ executed'[k] = executed[k]
          /\ executed[k].key \in Ints
      BY <1>9, <1>10
    <3>2. before.managed[executed[k].key] = executed[k].id BY <2>6, <3>1 DEF Undoes
    <3>3. executed[k].key # op.key BY <1>12 DEF Untouched
    <3>4. executed[k].id # op.id BY <1>17, <3>1, <3>2, <3>3
    <3>5. entries'[executed[k].id] = entries[executed[k].id] BY <1>6, <3>1, <3>4
    <3> QED BY <3>1, <3>2, <3>5 DEF Keeps, Alike, Live0
  <2>7. ASSUME NEW i \in Ints \ {e.key}, Untouched(executed', n, i), mem.managed[i] # None
        PROVE  entries'[mem.managed[i]] = entries[mem.managed[i]]
    <3>1. mem.managed[i] = before.managed[i] /\ mem.managed[i] \in EntryIds
      <4>1. Untouched(executed, n, i) BY <1>10, <2>7 DEF Untouched
      <4> QED BY <1>9, <2>7, <4>1
    <3>2. mem.managed[i] # op.id BY <1>3, <1>17, <3>1
    <3> QED BY <1>6, <3>1, <3>2
  <2> QED BY <1>3, <1>7, <1>10, <2>1, <2>2, <2>3, <2>4, <2>6, <2>7 DEF Grows
<1> QED BY <1>1, <1>8, <1>11, <1>13, <1>14, <1>15, <1>16, DoneRuns DEF n

LEMMA ForgetRuns == TypeInv /\ Truth /\ RunOK /\ ForgetEntry => RunOK'
<1>0. SUFFICES ASSUME TypeInv, Truth, RunOK, ForgetEntry, before'.known PROVE RunOK' BY DEF RunOK
<1> DEFINE op == Head(todo)
           n == Len(executed)
           e == Entry(op, op.id, [domain |-> None, title |-> None])
<1>1. /\ Op1(Ints, {"forget"}) /\ fetched # None /\ Landed(op, e) /\ Record(op.key, None, None, None)
      /\ secret' = secret /\ cur' = cur /\ saved' = saved /\ fetched' = fetched /\ entries' = entries /\ Running /\ OneCall
  BY <1>0, Zenon DEF ForgetEntry, Op1, Running, OneCall, Record, home
<1>2. op.key \in Ints /\ op.key \in Keys /\ op.kind = "forget" /\ op.id \in EntryIds /\ op \in ToSet(todo) /\ op.id # None
  <2>1. todo # <<>> BY <1>1 DEF Op1
  <2>2. op \in ToSet(todo) BY <1>0, <2>1, HeadFacts DEF TypeInv
  <2>3. op.key \in Ints /\ op.key \in Keys /\ op.kind = "forget" /\ op.id \in EntryIds BY <1>0, <1>1, IntHead DEF TypeInv
  <2> QED BY <2>2, <2>3, IntegrationsAssumption DEF Ids
<1>3. e.kind = "forget" /\ e.key = op.key /\ e.id = op.id BY <1>2 DEF Entry
<1>4. Journalled(e) /\ before' = before /\ todo' \in Rests
  <2>1. Op1(Ints, {"create", "update", "delete", "forget"}) BY <1>1 DEF Op1
  <2> HIDE DEF op, e
  <2> QED BY <1>0, <1>1, <2>1, LandedDone DEF op
<1>7. /\ mem'.managed[op.key] = None
      /\ \A i \in Ints : i # op.key => mem'.managed[i] = mem.managed[i] /\ mem'.data[i] = mem.data[i]
  <2> HIDE DEF op
  <2> QED BY <1>0, <1>1, <1>2, RecordAt DEF Keys
<1>8. before.known BY <1>0, <1>4
<1>9. /\ n \in Nat /\ Counts(entries, executed, n, before)
      /\ \A k \in 1 .. n : executed[k].id \in EntryIds /\ executed[k].id # None
      /\ Ready(executed, n, before, op)
  <2> HIDE DEF op
  <2> QED BY <1>0, <1>1, <1>2, <1>8, RunFacts
<1>10. executed'[n + 1] = e /\ \A k \in 1 .. n : executed'[k] = executed[k]
  BY <1>0, <1>4, OneMore DEF Journalled
<1>11. Done(e)
  <2>1. e.kind # "create" BY <1>3
  <2> HIDE DEF e
  <2> QED BY <1>0, <1>1, <1>3, <1>4, <1>7, <2>1, DoneFacts
<1>17. /\ op.id = before.managed[op.key] /\ Live0(before.entries, op.id)
       /\ Live0(entries, op.id) /\ Same(entries[op.id], before.entries[op.id])
  <2>1. op.kind \in {"delete", "forget"} BY <1>2
  <2> HIDE DEF op
  <2> QED BY <1>0, <1>1, <1>2, <1>8, <2>1, HeadKept
<1> HIDE DEF e, op, n
<1>12. /\ Untouched(executed, n, op.key)
       /\ \A k \in 1 .. n : executed[k].kind = "create" => executed[k].id # op.id
  BY <1>2, <1>9 DEF Ready
<1>13. Spared(e) BY <1>1 DEF Spared, Alike
<1>14. Moved(entries') BY <1>0, <1>1, CallFrame
<1>15. Counts(entries', executed', n + 1, before)
  <2>1. executed'[n + 1].kind \notin {"create", "delete"} BY <1>3, <1>10
  <2>2. SameTitles(entries', entries) BY <1>1 DEF SameTitles, Alike
  <2>3. MadeEntriesOnly(executed', n) BY <1>9, <1>10 DEF MadeEntriesOnly
  <2>4. n \in Nat BY <1>9
  <2>5. Counts(entries, executed', n, before)
    <3>1. Counts(entries, executed, n, before) BY <1>9
    <3>2. \A k \in 1 .. n : executed'[k] = executed[k] BY <1>10
    <3> QED BY ONLY <2>4, <3>1, <3>2, StillCounts
  <2> QED BY ONLY <2>1, <2>2, <2>3, <2>4, <2>5, OtherGrows
<1>16. Grows(entries', mem', entries, mem, executed', n, before)
  <2>1. Untouched(executed', n, e.key) BY <1>3, <1>10, <1>12 DEF Untouched
  <2>2. Undoes(entries', e, before) BY <1>1, <1>3, <1>17 DEF Undoes
  <2>3. \A i \in Ints \ {e.key} : mem'.managed[i] = mem.managed[i] BY <1>3, <1>7
  <2>4. \A k \in 1 .. n : executed'[k].kind = "create" => executed'[k].id # op.id /\ executed'[k].id # None BY <1>9, <1>10, <1>12
  <2>5. \A id : Keeps(entries', entries, id) BY <1>1 DEF Keeps, Alike, Live0
  <2> QED BY <1>1, <1>3, <1>7, <1>10, <2>1, <2>2, <2>3, <2>4, <2>5 DEF Grows
<1> QED BY <1>0, <1>1, <1>8, <1>11, <1>13, <1>14, <1>15, <1>16, DoneRuns DEF n

LEMMA AttemptAt ==
  ASSUME TypeInv, NEW op, NEW b, Attempt(op, b) \/ mem' = mem
  PROVE  mem'.managed = mem.managed /\ mem'.data = mem.data
<1>1. mem \in [managed : [Keys -> Ids0], hash : [Keys -> Sent \cup {None}], data : [Keys -> Datas \cup {None}],
               attempts : [Keys -> [hash : Sent \cup HacsItems, created : BOOLEAN] \cup {None}], reminder : SUBSET Domains]
  BY RecordForm DEF TypeInv, TypeOK
<1> QED BY <1>1 DEF Attempt

\* What a call on a repository or a subentry records is of no integration.
LEMMA OtherLayers ==
  ASSUME TypeInv, RunHacs \/ CreateSub \/ FindSub \/ UpdateSub \/ Unmanage
  PROVE  SameInts
<1> DEFINE op == Head(todo)
<1>1. mem \in [managed : [Keys -> Ids0], hash : [Keys -> Sent \cup {None}], data : [Keys -> Datas \cup {None}],
               attempts : [Keys -> [hash : Sent \cup HacsItems, created : BOOLEAN] \cup {None}], reminder : SUBSET Domains]
  BY RecordForm DEF TypeInv, TypeOK
<1>2. CASE RunHacs
  <2>1. op.key \in HacsIds /\ op.key \notin Ints BY <1>2, IntegrationsAssumption DEF RunHacs, Op1
  <2>2. \/ mem' = HacsRecord(mem, op.key, op.id)
        \/ mem' = [HacsRecord(mem, op.key, op.id) EXCEPT !.reminder = HacsRecord(mem, op.key, op.id).reminder \cup {Provides[op.id]}]
        \/ mem' = mem
        \/ Attempt(op, FALSE)
    <3>1. HacsRecord(mem, op.key, op.id).reminder = mem.reminder BY <1>1 DEF HacsRecord
    <3> QED BY <1>2, <3>1 DEF RunHacs, HacsRecord
  <2>3. CASE mem' = mem \/ Attempt(op, FALSE) BY <2>3, AttemptAt DEF SameInts
  <2>4. (mem'.managed = [mem.managed EXCEPT ![op.key] = op.id] /\ mem'.data = mem.data) \/ mem' = mem \/ Attempt(op, FALSE)
    <3> DEFINE rec == HacsRecord(mem, op.key, op.id)
    <3>1. rec.managed = [mem.managed EXCEPT ![op.key] = op.id] /\ rec.data = mem.data BY <1>1 DEF HacsRecord
    <3>2. [rec EXCEPT !.reminder = rec.reminder \cup {Provides[op.id]}].managed = rec.managed
          /\ [rec EXCEPT !.reminder = rec.reminder \cup {Provides[op.id]}].data = rec.data BY <1>1 DEF HacsRecord
    <3> HIDE DEF rec
    <3>3. mem' \in {rec, [rec EXCEPT !.reminder = rec.reminder \cup {Provides[op.id]}]} \/ mem' = mem \/ Attempt(op, FALSE)
      BY <2>2 DEF rec
    <3> QED BY <3>1, <3>2, <3>3
  <2>5. CASE mem'.managed = [mem.managed EXCEPT ![op.key] = op.id] /\ mem'.data = mem.data
    <3>1. \A i \in Ints : i \in Keys /\ i # op.key BY <2>1 DEF Keys
    <3>2. mem.managed \in [Keys -> Ids0] BY <1>1
    <3> QED BY <2>5, <3>1, <3>2 DEF SameInts
  <2> QED BY <2>3, <2>4, <2>5
<1>3. CASE CreateSub \/ FindSub \/ UpdateSub \/ Unmanage
  <2>1. op.key \in Subs /\ op.key \in Keys /\ \A i \in Ints : i \in Keys /\ i # op.key
    <3>1. op.key \in Subs
      BY <1>3, Zenon DEF CreateSub, FindSub, UpdateSub, Unmanage, Op1, TypeInv, ControlOK
    <3> QED BY <3>1, IntegrationsAssumption DEF Keys
  <2>2. mem' = mem \/ (\E b : Attempt(op, b)) \/ \E id, hash, data : Record(op.key, id, hash, data)
    BY <1>3, Zenon DEF CreateSub, FindSub, UpdateSub, Unmanage
  <2>3. CASE \E id, hash, data : Record(op.key, id, hash, data)
    <3>1. PICK id, hash, data : Record(op.key, id, hash, data) BY <2>3
    <3>2. \A l \in Keys : l # op.key => mem'.managed[l] = mem.managed[l] /\ mem'.data[l] = mem.data[l] BY <2>1, <3>1, RecordAt
    <3> QED BY <2>1, <3>2 DEF SameInts
  <2>4. CASE mem' = mem \/ \E b : Attempt(op, b)
    <3>1. PICK b : mem' = mem \/ Attempt(op, b) BY <2>4
    <3> QED BY <3>1, AttemptAt DEF SameInts
  <2> QED BY <2>2, <2>3, <2>4
<1> QED BY <1>2, <1>3

LEMMA CallBefore ==
  ASSUME TypeInv, Truth, OneCall
  PROVE  /\ before'.known => before' = before
         /\ ToSet(todo') \subseteq ToSet(todo) /\ Running
         /\ secret' = secret /\ cur' = cur /\ saved' = saved /\ origin' = origin
<1>1. before' = before \/ before' = [before EXCEPT !.known = FALSE]
  BY Zenon DEF OneCall, RunHacs, ListEntries, CreateEntry, CreateFails, AdoptEntry, DeleteEntry, ForgetEntry, CreateSub,
               FindSub, UpdateSub, Unmanage, Landed
<1>2. todo' = todo \/ todo' = <<>> \/ todo' \in Rests BY CallView, Zenon DEF Called, Waits, GivesUp, Turns, Truth, SubsOK
<1>3. secret' = secret /\ cur' = cur /\ saved' = saved /\ origin' = origin
  BY Zenon DEF OneCall, RunHacs, ListEntries, CreateEntry, CreateFails, AdoptEntry, DeleteEntry, ForgetEntry, CreateSub,
               FindSub, UpdateSub, Unmanage, home, disk
<1>4. \A rest \in Rests : ToSet(rest) \subseteq ToSet(todo) BY CallPlan
<1>5. Running BY CallFacts DEF Running
<1> QED BY <1>1, <1>2, <1>3, <1>4, <1>5, BeforeUnknown, EmptyTyped

\* The calls that leave the entries and the records of the integrations alone.
LEMMA QuietCall ==
  ASSUME TypeInv, Truth, OneCall, RunOK,
         RunHacs \/ ListEntries \/ CreateFails \/ CreateSub \/ FindSub \/ UpdateSub \/ Unmanage
  PROVE  RunOK'
<1>0. SUFFICES ASSUME before'.known PROVE RunOK' BY DEF RunOK
<1>1. executed' = executed /\ journals' = journals /\ (fetched' = fetched \/ (fetched = None /\ fetched' = entries))
  BY Zenon DEF RunHacs, ListEntries, CreateFails, CreateSub, FindSub, UpdateSub, Unmanage, home, disk
<1>2. entries' = entries
  <2>1. entries' = entries \/ before' = [before EXCEPT !.known = FALSE]
    BY Zenon DEF RunHacs, ListEntries, CreateFails, CreateSub, FindSub, UpdateSub, Unmanage, home
  <2> QED BY <1>0, <2>1, BeforeUnknown
<1>3. SameInts
  <2>1. CASE RunHacs \/ CreateSub \/ FindSub \/ UpdateSub \/ Unmanage BY <2>1, OtherLayers
  <2>2. CASE ListEntries \/ CreateFails
    <3>1. mem' = mem \/ Attempt(Head(todo), FALSE) BY <2>2, Zenon DEF ListEntries, CreateFails, Remember
    <3> QED BY <3>1, AttemptAt DEF SameInts
  <2> QED BY <2>1, <2>2
<1> QED BY <1>1, <1>2, <1>3, CallBefore, QuietRuns

LEMMA DeleteEntryRuns == TypeInv /\ Truth /\ RunOK /\ DeleteEntry => RunOK'
<1>0. SUFFICES ASSUME TypeInv, Truth, RunOK, DeleteEntry, before'.known PROVE RunOK' BY DEF RunOK
<1> DEFINE op == Head(todo)
<1>1. OneCall BY <1>0 DEF OneCall
<1>2. Op1(Ints, {"delete"}) /\ fetched # None /\ fetched' = fetched BY <1>0 DEF DeleteEntry
<1>3. before' = before /\ before.known /\ Running BY <1>0, <1>1, CallBefore
<1>4. fetched[op.id] # Gone
  <2>1. op \in ToSet(todo) /\ op.key \in Ints /\ op.kind = "delete"
    <3>1. todo # <<>> /\ op.key \in Ints /\ op.kind = "delete" BY <1>2 DEF Op1
    <3> QED BY <1>0, <3>1, HeadFacts DEF TypeInv
  <2>2. fetched = before.entries BY <1>0, <1>2, <1>3, RunFacts
  <2>3. Live0(before.entries, op.id) BY <1>0, <1>3, <2>1, HeadKept
  <2> QED BY <2>2, <2>3 DEF Live0
<1>5. \/ Removed(op.id) /\ Forget(op.key) /\ Landed(op, Entry(op, op.id, fetched[op.id]))
      \/ mem' = mem /\ executed' = executed /\ journals' = journals /\ entries' = entries
  <2>1. ~(before' = [before EXCEPT !.known = FALSE]) BY <1>0, BeforeUnknown
  <2> QED BY <1>0, <1>4, <2>1, Zenon DEF DeleteEntry
<1>6. CASE Removed(op.id) /\ Forget(op.key) /\ Landed(op, Entry(op, op.id, fetched[op.id]))
  BY <1>0, <1>4, <1>6, DeleteRuns
<1>7. CASE mem' = mem /\ executed' = executed /\ journals' = journals /\ entries' = entries
  <2>1. SameInts BY <1>7 DEF SameInts
  <2> QED BY <1>0, <1>1, <1>2, <1>7, <2>1, CallBefore, QuietRuns
<1> QED BY <1>5, <1>6, <1>7

\* A call keeps what Roll Back counts on.
LEMMA CallRuns == TypeInv /\ Truth /\ RunOK /\ OneCall => RunOK'
BY QuietCall, CreateRuns, AdoptRuns, DeleteEntryRuns, ForgetRuns, Zenon DEF OneCall

-----------------------------------------------------------------------------
(* Between applies                                                          *)

\* What Roll Back would start from: the journal the pointer names, which is
\* the one on the disk.  It stays so while an apply without a stash runs.
IdleOK ==
  (Idle \/ (Running /\ cur = 0)) /\ origin.known =>
     /\ pointer # 0 /\ pointer = savedPointer
     /\ LeadsBack(entries, saved, journals[pointer], Len(journals[pointer]), origin)

\* An apply without a stash has only repositories to adopt.
NoStashOK ==
  Running /\ cur = 0 =>
     /\ \A op \in ToSet(todo) : op.key \in HacsIds
     /\ \A i \in Ints : mem.managed[i] = saved.managed[i]

\* A plan that nothing has overtaken fits what there is.
PlanFits == Idle /\ calm => \A op \in ToSet(plan) : op.key \in Ints => FitsNow(op)

Undoable == RunOK /\ UndoOK /\ IdleOK /\ NoStashOK /\ PlanFits

LEMMA NothingKnown == ~NoBefore.known
BY DEF NoBefore

LEMMA PointerTyped ==
  ASSUME TypeInv, pointer # 0
  PROVE  pointer \in 1 .. 2 /\ Len(journals[pointer]) \in Nat /\ journals[pointer] \in Seq(Journals)
<1>1. pointer \in 0 .. 2 /\ journals \in [1 .. 2 -> Seq(Journals)] BY DEF TypeInv, TypeOK
<1>2. pointer \in 1 .. 2 BY <1>1
<1> QED BY <1>1, <1>2

\* Nothing of the integrations has changed.
LEMMA IdleFrame ==
  ASSUME TypeInv, IdleOK, Idle \/ (Running /\ cur = 0), entries' = entries, journals' = journals, secret' = secret,
         \A i \in Ints : saved'.managed[i] = saved.managed[i], origin'.known => origin' = origin,
         pointer' \in {pointer, savedPointer}, savedPointer' \in {pointer, savedPointer}
  PROVE  IdleOK'
<1>0. SUFFICES ASSUME origin'.known
               PROVE  /\ pointer' # 0 /\ pointer' = savedPointer'
                      /\ LeadsBack(entries, saved, journals[pointer], Len(journals[pointer]), origin)'
  BY DEF IdleOK
<1>1. origin' = origin /\ origin.known BY <1>0
<1>2. /\ pointer # 0 /\ pointer = savedPointer
      /\ LeadsBack(entries, saved, journals[pointer], Len(journals[pointer]), origin)
  BY <1>1 DEF IdleOK
<1>3. Len(journals[pointer]) \in Nat BY <1>2, PointerTyped
<1>4. LeadsBack(entries, saved', journals[pointer], Len(journals[pointer]), origin)
  <2>1. LeadsBack(entries, saved, journals[pointer], Len(journals[pointer]), origin) BY <1>2
  <2>2. \A i \in Ints : saved'.managed[i] = saved.managed[i] OBVIOUS
  <2>3. \A k \in 1 .. Len(journals[pointer]) : journals[pointer][k] = journals[pointer][k] OBVIOUS
  <2> QED BY ONLY <1>3, <2>1, <2>2, <2>3, LeadsBackSame
<1>5. pointer' = pointer /\ savedPointer' = pointer BY <1>2
<1>6. LeadsBack(entries', saved', journals'[pointer'], Len(journals'[pointer']), origin') BY <1>1, <1>4, <1>5
<1>7. LeadsBack(entries, saved, journals[pointer], Len(journals[pointer]), origin)'
  BY <1>6, LeadsBackPrimed DEF LeadsBack, As, SetUpAgain, Resolve
<1> QED BY <1>2, <1>5, <1>7

\* A step that leaves the integrations, the journals and the apply alone.
Aside ==
  /\ entries' = entries /\ journals' = journals /\ secret' = secret /\ before' = before /\ origin' = origin
  /\ phase' = phase /\ mem' = mem /\ executed' = executed /\ cur' = cur /\ fetched' = fetched /\ todo' = todo /\ pos' = pos
  /\ failed' = failed /\ pointer' = pointer /\ savedPointer' = savedPointer
  /\ saved' = saved \/ (Idle /\ \A i \in Ints : saved'.managed[i] = saved.managed[i])

LEMMA AsideUndoable == TypeInv /\ Undoable /\ Aside /\ PlanFits' => Undoable'
<1>0. SUFFICES ASSUME TypeInv, Undoable, Aside, PlanFits' PROVE Undoable' OBVIOUS
<1>1. RunOK /\ UndoOK /\ IdleOK /\ NoStashOK BY <1>0 DEF Undoable
<1>2. RunOK'
  <2>1. CASE Running
    <3>1. saved' = saved BY <1>0, <2>1 DEF Aside, Running, Idle
    <3>2. SameInts /\ ToSet(todo') \subseteq ToSet(todo) BY <1>0 DEF Aside, SameInts
    <3>3. /\ before' = before /\ secret' = secret /\ entries' = entries /\ executed' = executed /\ journals' = journals
          /\ cur' = cur /\ fetched' = fetched
      BY <1>0 DEF Aside
    <3> QED BY <1>0, <1>1, <2>1, <3>1, <3>2, <3>3, QuietRuns
  <2>2. CASE ~Running
    <3>1. ~Running' BY <1>0, <2>2 DEF Running, Aside
    <3> QED BY <3>1 DEF RunOK
  <2> QED BY <2>1, <2>2
<1>3. UndoOK'
  <2>1. SUFFICES ASSUME phase' = "undo", before'.known, failed' = {} PROVE LeadsBack(entries, mem, executed, pos, before)'
    BY DEF UndoOK
  <2>2. LeadsBack(entries, mem, executed, pos, before) BY <1>0, <1>1, <2>1 DEF UndoOK, Aside
  <2>3. LeadsBack(entries', mem', executed', pos', before') BY <1>0, <2>2 DEF Aside
  <2>4. secret' = secret BY <1>0 DEF Aside
  <2> QED BY <2>3, <2>4, LeadsBackPrimed DEF LeadsBack, As, SetUpAgain, Resolve
<1>4. IdleOK'
  <2>1. CASE Idle \/ (Running /\ cur = 0)
    <3>1. \A i \in Ints : saved'.managed[i] = saved.managed[i] BY <1>0 DEF Aside
    <3>2. /\ entries' = entries /\ journals' = journals /\ secret' = secret /\ origin' = origin
          /\ pointer' \in {pointer, savedPointer} /\ savedPointer' \in {pointer, savedPointer}
      BY <1>0 DEF Aside
    <3> QED BY <1>0, <1>1, <2>1, <3>1, <3>2, IdleFrame
  <2>2. CASE ~(Idle \/ (Running /\ cur = 0))
    <3>1. ~(Idle' \/ (Running' /\ cur' = 0)) BY <1>0, <2>2 DEF Idle, Running, Aside
    <3> QED BY <3>1 DEF IdleOK
  <2> QED BY <2>1, <2>2
<1>5. NoStashOK'
  <2>1. SUFFICES ASSUME Running', cur' = 0
                 PROVE  /\ \A op \in ToSet(todo') : op.key \in HacsIds
                        /\ \A i \in Ints : mem'.managed[i] = saved'.managed[i]
    BY DEF NoStashOK
  <2>2. Running /\ cur = 0 /\ saved' = saved BY <1>0, <2>1 DEF Running, Aside, Idle
  <2> QED BY <1>0, <1>1, <2>2 DEF NoStashOK, Aside
<1> QED BY <1>0, <1>2, <1>3, <1>4, <1>5 DEF Undoable

\* A cycle, a Retry, and what happens around the agent.
LEMMA AroundUndoable ==
  TypeInv /\ Truth /\ Undoable /\ (Push \/ Restart \/ Reconcile \/ FetchFails \/ (\E k \in Keys : Retry(k)) \/ UNCHANGED vars)
    => Undoable'
<1>0. SUFFICES ASSUME TypeInv, Truth, Undoable,
                      Push \/ Restart \/ Reconcile \/ FetchFails \/ (\E k \in Keys : Retry(k)) \/ UNCHANGED vars
               PROVE  Undoable'
  OBVIOUS
<1>1. saved' = saved \/ (Idle /\ \A i \in Ints : saved'.managed[i] = saved.managed[i])
  <2>1. CASE \E k \in Keys : Retry(k)
    <3>1. PICK k \in Keys : Retry(k) BY <2>1
    <3>2. saved' = [saved EXCEPT !.attempts[k] = None] /\ Idle BY <3>1 DEF Retry
    <3>3. saved \in [managed : [Keys -> Ids0], hash : [Keys -> Sent \cup {None}], data : [Keys -> Datas \cup {None}],
               attempts : [Keys -> [hash : Sent \cup HacsItems, created : BOOLEAN] \cup {None}], reminder : SUBSET Domains]
      BY <1>0, RecordForm DEF TypeInv, TypeOK
    <3>4. saved'.managed = saved.managed BY <3>2, <3>3
    <3> QED BY <3>2, <3>4
  <2>2. CASE Push \/ Restart \/ Reconcile \/ FetchFails \/ UNCHANGED vars
    <3>1. saved' = saved BY <2>2, Zenon DEF Push, Restart, Reconcile, FetchFails, vars, disk
    <3> QED BY <3>1
  <2> QED BY <1>0, <2>1, <2>2
<1>2. Aside
  <2>1. /\ entries' = entries /\ journals' = journals /\ secret' = secret /\ before' = before /\ origin' = origin
        /\ phase' = phase /\ mem' = mem /\ executed' = executed /\ cur' = cur /\ fetched' = fetched /\ todo' = todo /\ pos' = pos
        /\ failed' = failed /\ pointer' = pointer /\ savedPointer' = savedPointer
    BY <1>0, Zenon DEF Push, Restart, Reconcile, FetchFails, Retry, vars, home, disk, working
  <2> QED BY <1>1, <2>1, Zenon DEF Aside
<1>3. PlanFits'
  <2>1. SUFFICES ASSUME calm', Idle', NEW op \in ToSet(plan'), op.key \in Ints PROVE FitsNow(op)' BY DEF PlanFits
  <2>2. /\ entries' = entries /\ \A i \in Ints : saved'.managed[i] = saved.managed[i]
    BY <1>1, <1>2 DEF Aside
  <2>3. FitsNow(op)
    <3>1. CASE Reconcile
      <4>1. Loaded /\ plan' = Plan BY <2>1, <3>1 DEF Reconcile
      <4>2. Sound(Plan) BY <1>0, <4>1, ApartHolds, PlanSound DEF TypeInv
      <4> QED BY <2>1, <4>1, <4>2 DEF Sound
    <3>2. CASE Push \/ FetchFails
      <4>1. calm' = FALSE BY <3>2 DEF Push, FetchFails
      <4> QED BY <2>1, <4>1
    <3>3. CASE Restart \/ (\E k \in Keys : Retry(k)) \/ UNCHANGED vars
      <4>1. plan' = plan /\ calm' = calm /\ phase' = phase BY <3>3, Zenon DEF Restart, Retry, vars
      <4>2. PlanFits BY <1>0 DEF Undoable
      <4> QED BY <2>1, <4>1, <4>2 DEF PlanFits, Idle
    <3> QED BY <1>0, <3>1, <3>2, <3>3
  <2> QED BY <2>1, <2>2, <2>3 DEF FitsNow, LiveEntry
<1> QED BY <1>0, <1>2, <1>3, AsideUndoable

LEMMA EditUndoable == TypeInv /\ Undoable /\ Edit => Undoable'
<1>0. SUFFICES ASSUME TypeInv, Undoable, Edit PROVE Undoable' OBVIOUS
<1>1. /\ before' = [before EXCEPT !.known = FALSE] /\ origin' = NoBefore /\ calm' = FALSE
      /\ phase' = phase /\ cur' = cur /\ todo' = todo /\ mem' = mem /\ saved' = saved
  BY <1>0, Zenon DEF Edit, disk, working
<1>2. ~before'.known /\ ~origin'.known /\ ~calm' BY <1>0, <1>1, BeforeUnknown, NothingKnown
<1>3. NoStashOK BY <1>0 DEF Undoable
<1>4. NoStashOK' BY <1>1, <1>3 DEF NoStashOK, Running
<1>5. RunOK' /\ UndoOK' /\ IdleOK' /\ PlanFits' BY <1>2 DEF RunOK, UndoOK, IdleOK, PlanFits
<1> QED BY <1>4, <1>5 DEF Undoable

\* A step after which nothing runs.
LEMMA EndedUndoable ==
  ASSUME phase' = "idle", IdleOK', PlanFits'
  PROVE  Undoable'
<1>1. ~Running' /\ ~(phase' = "undo") BY DEF Running
<1>2. RunOK' /\ UndoOK' /\ NoStashOK' BY <1>1 DEF RunOK, UndoOK, NoStashOK
<1> QED BY <1>2 DEF Undoable

LEMMA CrashUndoable == TypeInv /\ Undoable /\ Crash => Undoable'
<1>0. SUFFICES ASSUME TypeInv, Undoable, Crash PROVE Undoable' OBVIOUS
<1>1. phase' = "idle" /\ pointer' = savedPointer /\ savedPointer' = savedPointer /\ calm' = FALSE /\ saved' = saved
      /\ journals' = journals /\ secret' = secret
  BY <1>0 DEF Crash, disk
<1>2. IdleOK'
  <2>1. CASE Idle
    <3>1. entries' = entries /\ origin' = origin BY <1>0, <2>1 DEF Crash
    <3>2. IdleOK BY <1>0 DEF Undoable
    <3> QED BY <1>0, <1>1, <2>1, <3>1, <3>2, IdleFrame
  <2>2. CASE ~Idle
    <3>1. origin' = NoBefore BY <1>0, <2>2 DEF Crash
    <3> QED BY <3>1, NothingKnown DEF IdleOK
  <2> QED BY <2>1, <2>2
<1>3. PlanFits' BY <1>1 DEF PlanFits
<1> QED BY <1>1, <1>2, <1>3, EndedUndoable

\* What there is leads back to itself.
LEMMA NothingDone ==
  ASSUME NEW en, NEW r, NEW b, b.entries = en, \A i \in Ints : r.managed[i] = b.managed[i]
  PROVE  LeadsBack(en, r, <<>>, 0, b)
<1>1. 1 .. 0 = {} OBVIOUS
<1>2. \A d, t : MadeAt(en, <<>>, 0, d, t) = {} /\ GoneAt(<<>>, 0, d, t) = {} BY <1>1 DEF MadeAt, GoneAt
<1>3. Counts(en, <<>>, 0, b) BY <1>2 DEF Counts
<1>4. \A i \in Ints : As(en, r, b, i) BY DEF As, Same, Alike
<1>5. OnePerKey(<<>>, 0) /\ OwnIds(r, <<>>, 0, b) /\ \A k \in 1 .. 0 : Undoes(en, <<>>[k], b) BY <1>1 DEF OnePerKey, OwnIds
<1> QED BY <1>3, <1>4, <1>5 DEF LeadsBack

LEMMA StartRuns == TypeInv /\ Truth /\ Undoable /\ StartApply => RunOK'
<1>0. SUFFICES ASSUME TypeInv, Truth, Undoable, StartApply, before'.known PROVE RunOK' BY DEF RunOK
<1>1. /\ Idle /\ entries' = entries /\ secret' = secret /\ saved' = saved /\ executed' = <<>> /\ fetched' = None /\ before' = Now
      /\ todo' = Executable(plan) \/ todo' = <<>>
  BY <1>0, Zenon DEF StartApply, Now, home
<1>2. /\ Now.entries = entries /\ Now.known = (calm /\ OneEach)
      /\ \A i \in Ints : Now.managed[i] = saved.managed[i] /\ Now.data[i] = saved.data[i]
  BY DEF Now
<1>3. calm /\ OneEach BY <1>0, <1>1, <1>2
<1> DEFINE m == mem'
           b == before'
<1>4. \A i \in Ints : m.managed[i] = saved.managed[i] /\ m.data[i] = saved.data[i]
  <2> DEFINE rem == IF reminder = None THEN saved.reminder ELSE reminder
  <2>1. m = [saved EXCEPT !.reminder = rem] BY <1>0 DEF StartApply
  <2>2. saved \in [managed : [Keys -> Ids0], hash : [Keys -> Sent \cup {None}], data : [Keys -> Datas \cup {None}],
               attempts : [Keys -> [hash : Sent \cup HacsItems, created : BOOLEAN] \cup {None}], reminder : SUBSET Domains]
    BY <1>0, RecordForm DEF TypeInv, TypeOK
  <2> HIDE DEF rem, m
  <2>3. m.managed = saved.managed /\ m.data = saved.data BY <2>1, <2>2
  <2> QED BY <2>3
<1>5. b.entries = entries /\ \A i \in Ints : b.managed[i] = saved.managed[i] /\ b.data[i] = saved.data[i] BY <1>1, <1>2
<1> HIDE DEF m, b
<1>6. 1 .. 0 = {} /\ Len(<<>>) = 0 OBVIOUS
<1>7. Progress(entries, m, <<>>, 0, b)
  <2>1. LeadsBack(entries, m, <<>>, 0, b)
    <3>1. b.entries = entries BY <1>5
    <3>2. \A i \in Ints : m.managed[i] = b.managed[i] BY <1>4, <1>5
    <3> QED BY ONLY <3>1, <3>2, NothingDone
  <2>2. \A i \in Ints : m.managed[i] = b.managed[i] /\ m.data[i] = b.data[i] BY <1>4, <1>5
  <2>3. \A e \in EntryIds : Kept(entries, <<>>, 0, b, e) BY <1>5 DEF Kept, Same, Alike
  <2> QED BY <2>1, <2>2, <2>3 DEF Progress
<1>8. Progress(entries, mem, executed, Len(executed), before)'
  <2>1. Progress(entries', mem', executed', Len(executed'), before') BY <1>1, <1>6, <1>7 DEF m, b
  <2>2. LeadsBack(entries', mem', executed', Len(executed'), before') BY <2>1 DEF Progress
  <2>3. LeadsBack(entries, mem, executed, Len(executed), before)'
    BY <1>1, <2>2, LeadsBackPrimed DEF LeadsBack, As, SetUpAgain, Resolve
  <2> QED BY <2>1, <2>3 DEF Progress
<1>9. Settled'
  <2>1. cur' # 0 => journals'[cur'] = executed'
    <3>1. CASE cur' = 0 BY <3>1
    <3>2. CASE cur' # 0
      <4>1. cur' = OtherStash(pointer) /\ journals' = [journals EXCEPT ![cur'] = <<>>]
        BY <1>0, <3>2, Zenon DEF StartApply
      <4>2. OtherStash(pointer) \in 1 .. 2 BY DEF OtherStash
      <4>3. journals \in [1 .. 2 -> Seq(Journals)] BY <1>0 DEF TypeInv, TypeOK
      <4> QED BY <1>1, <4>1, <4>2, <4>3
    <3> QED BY <3>1, <3>2
  <2>2. \A i, j \in Ints : before'.managed[i] # None /\ before'.managed[i] = before'.managed[j] => i = j
    BY <1>3, <1>5 DEF OneEach, b
  <2>3. \A i \in Ints : saved'.managed[i] = before'.managed[i] BY <1>1, <1>5 DEF b
  <2>4. fetched' = None /\ executed' = <<>> /\ entries' = before'.entries BY <1>1, <1>5 DEF b
  <2> QED BY <2>1, <2>2, <2>3, <2>4 DEF Settled
<1>10. \A op \in ToSet(todo') : Ready(executed', Len(executed'), before', op)
  <2>1. SUFFICES ASSUME NEW op \in ToSet(todo'), op.key \in Ints PROVE Ready(<<>>, 0, b, op) BY <1>1, <1>6 DEF Ready, b
  <2>2. op \in ToSet(plan)
    <3>1. plan \in Seq(Ops) BY <1>0 DEF TypeInv, TypeOK, Ops
    <3> QED BY <1>1, <2>1, <3>1, ExecutableTyped, EmptyTyped
  <2>3. FitsNow(op) BY <1>0, <1>1, <1>3, <2>1, <2>2 DEF Undoable, PlanFits
  <2>4. Fits(op, b) BY <1>5, <2>1, <2>3 DEF Fits, FitsNow, Live0, LiveEntry
  <2> QED BY <1>6, <2>4 DEF Ready, Untouched
<1> QED BY <1>8, <1>9, <1>10 DEF RunOK, Ready, Fits

LEMMA StartApplyUndoable == TypeInv /\ Truth /\ Undoable /\ StartApply => Undoable'
<1>0. SUFFICES ASSUME TypeInv, Truth, Undoable, StartApply PROVE Undoable' OBVIOUS
<1>1. /\ Idle /\ entries' = entries /\ secret' = secret /\ saved' = saved /\ phase' = "run" /\ origin' = origin
      /\ pointer' = pointer /\ savedPointer' = savedPointer
  BY <1>0, Zenon DEF StartApply, home
<1>2. RunOK' BY <1>0, StartRuns
<1>3. UndoOK' /\ PlanFits' BY <1>1 DEF UndoOK, PlanFits, Idle
<1>4. cur' = 0 => /\ journals' = journals
                  /\ \A op \in ToSet(todo') : op.key \in HacsIds
                  /\ \A i \in Ints : mem'.managed[i] = saved.managed[i]
  <2>0. SUFFICES ASSUME cur' = 0 PROVE /\ journals' = journals
                                       /\ \A op \in ToSet(todo') : op.key \in HacsIds
                                       /\ \A i \in Ints : mem'.managed[i] = saved.managed[i]
    OBVIOUS
  <2>1. OtherStash(pointer) # 0 BY DEF OtherStash
  <2>2. journals' = journals /\ (todo' = <<>> \/ (todo' = Executable(plan) /\ ~NeedsStash(plan)))
    BY <1>0, <2>0, <2>1, Zenon DEF StartApply
  <2>3. \A op \in ToSet(todo') : op.key \in HacsIds BY <2>2, EmptyTyped DEF NeedsStash
  <2>4. \A i \in Ints : mem'.managed[i] = saved.managed[i]
    <3> DEFINE rem == IF reminder = None THEN saved.reminder ELSE reminder
    <3>1. mem' = [saved EXCEPT !.reminder = rem] BY <1>0 DEF StartApply
    <3>2. saved \in [managed : [Keys -> Ids0], hash : [Keys -> Sent \cup {None}], data : [Keys -> Datas \cup {None}],
               attempts : [Keys -> [hash : Sent \cup HacsItems, created : BOOLEAN] \cup {None}], reminder : SUBSET Domains]
      BY <1>0, RecordForm DEF TypeInv, TypeOK
    <3> HIDE DEF rem
    <3>3. mem'.managed = saved.managed BY <3>1, <3>2
    <3> QED BY <3>3
  <2> QED BY <2>2, <2>3, <2>4
<1>5. NoStashOK' BY <1>1, <1>4 DEF NoStashOK
<1>6. IdleOK'
  <2>1. CASE cur' = 0
    <3>1. /\ journals' = journals /\ \A i \in Ints : saved'.managed[i] = saved.managed[i]
          /\ pointer' \in {pointer, savedPointer} /\ savedPointer' \in {pointer, savedPointer}
      BY <1>1, <1>4, <2>1
    <3>2. IdleOK BY <1>0 DEF Undoable
    <3> QED BY <1>0, <1>1, <3>1, <3>2, IdleFrame
  <2>2. CASE cur' # 0 BY <1>1, <2>2 DEF IdleOK, Idle
  <2> QED BY <2>1, <2>2
<1> QED BY <1>2, <1>3, <1>5, <1>6 DEF Undoable

LEMMA StartRollbackUndoable == TypeInv /\ Undoable /\ StartRollback => Undoable'
<1>0. SUFFICES ASSUME TypeInv, Undoable, StartRollback PROVE Undoable' OBVIOUS
<1>1. /\ Idle /\ pointer # 0 /\ entries' = entries /\ secret' = secret /\ phase' = "undo" /\ mem' = saved /\ before' = origin
      /\ executed' = journals[pointer] /\ (failed' = {} => pos' = Len(executed'))
  BY <1>0 DEF StartRollback, home
<1>2. RunOK' /\ IdleOK' /\ NoStashOK' /\ PlanFits' BY <1>1 DEF RunOK, IdleOK, NoStashOK, PlanFits, Running, Idle
<1>3. UndoOK'
  <2>1. SUFFICES ASSUME before'.known, failed' = {} PROVE LeadsBack(entries, mem, executed, pos, before)' BY DEF UndoOK
  <2>2. LeadsBack(entries, saved, journals[pointer], Len(journals[pointer]), origin)
    BY <1>0, <1>1, <2>1 DEF Undoable, IdleOK
  <2>3. LeadsBack(entries', mem', executed', pos', before') BY <1>1, <2>1, <2>2
  <2> QED BY <1>1, <2>3, LeadsBackPrimed DEF LeadsBack, As, SetUpAgain, Resolve
<1> QED BY <1>2, <1>3 DEF Undoable

LEMMA CallUndoable == TypeInv /\ Truth /\ Undoable /\ OneCall => Undoable'
<1>0. SUFFICES ASSUME TypeInv, Truth, Undoable, OneCall PROVE Undoable' OBVIOUS
<1>1. RunOK /\ IdleOK /\ NoStashOK BY <1>0 DEF Undoable
<1>2. RunOK' BY <1>0, <1>1, CallRuns
<1>3. /\ ToSet(todo') \subseteq ToSet(todo) /\ Running /\ secret' = secret /\ cur' = cur /\ saved' = saved /\ origin' = origin
  BY <1>0, CallBefore
<1>4. phase' \in {"run", "find"} /\ pointer' = pointer /\ savedPointer' = savedPointer
  <2>1. phase \in {"run", "find"} BY <1>0, CallFacts
  <2>2. phase' = phase \/ phase' = "run" \/ phase' = "find"
    BY <1>0, Zenon DEF OneCall, RunHacs, ListEntries, CreateEntry, CreateFails, AdoptEntry, DeleteEntry, ForgetEntry, CreateSub,
               FindSub, UpdateSub, Unmanage
  <2>3. pointer' = pointer /\ savedPointer' = savedPointer
    BY <1>0, Zenon DEF OneCall, RunHacs, ListEntries, CreateEntry, CreateFails, AdoptEntry, DeleteEntry, ForgetEntry, CreateSub,
               FindSub, UpdateSub, Unmanage, disk
  <2> QED BY <2>1, <2>2, <2>3
<1>5. UndoOK' /\ PlanFits' BY <1>4 DEF UndoOK, PlanFits, Idle
<1>6. CASE cur # 0
  <2>1. NoStashOK' /\ IdleOK' BY <1>3, <1>4, <1>6 DEF NoStashOK, IdleOK, Idle
  <2> QED BY <1>2, <1>5, <2>1 DEF Undoable
<1>7. CASE cur = 0
  <2>1. (\A op \in ToSet(todo) : op.key \in HacsIds) /\ \A i \in Ints : mem.managed[i] = saved.managed[i]
    BY <1>1, <1>3, <1>7 DEF NoStashOK
  <2>2. Head(todo).key \in HacsIds /\ Head(todo).key \notin Ints /\ Head(todo).key \notin Subs
    <3>1. Head(todo) \in ToSet(todo) BY <1>0, CallPlan
    <3> QED BY <2>1, <3>1, IntegrationsAssumption
  <2>3. RunHacs
    <3>1. ~FindSub BY <1>0, <2>2 DEF FindSub, TypeInv, ControlOK
    <3> QED BY <1>0, <2>2, <3>1, Zenon
         DEF OneCall, ListEntries, CreateEntry, CreateFails, AdoptEntry, DeleteEntry, ForgetEntry, CreateSub, UpdateSub, Unmanage, Op1
  <2>4. entries' = entries /\ journals' = journals BY <2>3 DEF RunHacs, disk
  <2>5. SameInts BY <1>0, <2>3, OtherLayers
  <2>6. NoStashOK' BY <1>3, <2>1, <2>5 DEF NoStashOK, SameInts
  <2>7. IdleOK'
    <3>1. /\ \A i \in Ints : saved'.managed[i] = saved.managed[i]
          /\ pointer' \in {pointer, savedPointer} /\ savedPointer' \in {pointer, savedPointer}
      BY <1>3, <1>4
    <3> QED BY <1>0, <1>1, <1>3, <1>7, <2>4, <3>1, IdleFrame
  <2> QED BY <1>2, <1>5, <2>6, <2>7 DEF Undoable
<1> QED BY <1>6, <1>7

\* An apply that ends hands its journal, and what there was, to Roll Back.
LEMMA SaveUndoable == TypeInv /\ Truth /\ Undoable /\ StateSave => Undoable'
<1>0. SUFFICES ASSUME TypeInv, Truth, Undoable, StateSave PROVE Undoable' OBVIOUS
<1>1. /\ phase' = "idle" /\ journals' = journals /\ secret' = secret /\ calm' = (calm /\ failed = {} /\ faults' = faults)
      /\ (phase = "run" /\ todo = <<>>) \/ phase = "undo"
  BY <1>0 DEF StateSave, Clear
<1>2. (phase = "run" <=> mode = "apply") /\ RunOK /\ IdleOK /\ NoStashOK
  BY <1>0, <1>1 DEF TypeInv, ControlOK, Undoable
<1>3. \/ /\ saved' = mem /\ entries' = entries /\ plan' = IF mode = "apply" THEN StillPending ELSE plan
         /\ mode = "apply" /\ cur = 0 => pointer' = pointer /\ savedPointer' = pointer /\ origin' = origin
         /\ mode = "apply" /\ cur # 0 => pointer' = cur /\ savedPointer' = cur /\ origin' \in {before, NoBefore}
         /\ mode # "apply" => origin' = NoBefore
         /\ ~before.known => origin' \in {origin, NoBefore} /\ (cur # 0 => origin' = NoBefore)
      \/ origin' = NoBefore /\ faults' = faults + 1
  <2>1. CASE NoFault /\ saved' = mem
    <3>1. NoFault => ~Fault
      <4>1. faults \in Nat BY <1>0 DEF TypeInv, TypeOK
      <4> QED BY <4>1 DEF NoFault, Fault, bounds
    <3> QED BY <1>0, <2>1, <3>1 DEF StateSave
  <2>2. CASE ~(NoFault /\ saved' = mem)
    <3>1. Fault /\ origin' = NoBefore BY <1>0, <2>2, Zenon DEF StateSave
    <3> QED BY <3>1 DEF Fault
  <2> QED BY <2>1, <2>2
<1>4. IdleOK'
  <2>0. SUFFICES ASSUME origin'.known PROVE IdleOK' BY DEF IdleOK
  <2>1. /\ saved' = mem /\ entries' = entries /\ mode = "apply"
        /\ cur = 0 => pointer' = pointer /\ savedPointer' = pointer /\ origin' = origin
        /\ cur # 0 => pointer' = cur /\ savedPointer' = cur /\ origin' = before
    BY <1>3, <2>0, NothingKnown
  <2>2. Running BY <1>2, <2>1 DEF Running
  <2>3. CASE cur = 0
    <3>1. \A i \in Ints : saved'.managed[i] = saved.managed[i] BY <1>2, <2>1, <2>2, <2>3 DEF NoStashOK
    <3> QED BY <1>0, <1>1, <1>2, <2>1, <2>2, <2>3, <3>1, IdleFrame
  <2>4. CASE cur # 0
    <3>1. before.known BY <2>0, <2>1, <2>4
    <3>2. LeadsBack(entries, mem, executed, Len(executed), before) /\ journals[cur] = executed
      BY <1>2, <2>2, <2>4, <3>1 DEF RunOK, Progress, Settled
    <3>3. LeadsBack(entries', saved', journals'[pointer'], Len(journals'[pointer']), origin') BY <1>1, <2>1, <2>4, <3>2
    <3>4. LeadsBack(entries, saved, journals[pointer], Len(journals[pointer]), origin)'
      BY <1>1, <3>3, LeadsBackPrimed DEF LeadsBack, As, SetUpAgain, Resolve
    <3>5. pointer' # 0 /\ pointer' = savedPointer' BY <2>1, <2>4
    <3> QED BY <3>4, <3>5 DEF IdleOK
  <2> QED BY <2>3, <2>4
<1>5. PlanFits'
  <2>1. SUFFICES ASSUME calm', NEW op \in ToSet(plan') PROVE op.kind = "error"
    <3>1. \A op : op.kind = "error" => FitsNow(op)' BY DEF FitsNow
    <3> QED BY <2>1, <3>1 DEF PlanFits
  <2>2. calm /\ failed = {} /\ faults' = faults BY <1>1, <2>1
  <2>3. mode = "apply" BY <1>0, <2>2 DEF Truth, DeletesSpare
  <2>4. plan' = StillPending
    <3>1. faults \in Nat BY <1>0 DEF TypeInv, TypeOK
    <3> QED BY <1>3, <2>2, <2>3, <3>1
  <2> QED BY <1>0, <2>1, <2>2, <2>4, StillPendingTyped DEF TypeInv
<1> QED BY <1>1, <1>4, <1>5, EndedUndoable

LEMMA UndoUndoable == TypeInv /\ Undoable /\ UndoOne => Undoable'
<1>0. SUFFICES ASSUME TypeInv, Undoable, UndoOne PROVE Undoable' OBVIOUS
<1>1. UndoOK' BY <1>0, UndoneLeadsBack DEF Undoable
<1>2. phase' = "undo" BY <1>0 DEF UndoOne
<1>3. RunOK' /\ IdleOK' /\ NoStashOK' /\ PlanFits' BY <1>2 DEF RunOK, IdleOK, NoStashOK, PlanFits, Running, Idle
<1> QED BY <1>1, <1>3 DEF Undoable

\* Every step keeps what Roll Back counts on.
LEMMA UndoableStep == TypeInv /\ Truth /\ Undoable /\ [Next]_vars => Undoable'
BY AroundUndoable, EditUndoable, CrashUndoable, StartApplyUndoable, StartRollbackUndoable, CallUndoable, SaveUndoable,
   UndoUndoable, Zenon DEF Next, Apply, OneCall

LEMMA InitUndoable == Init => Undoable
<1>0. SUFFICES ASSUME Init PROVE Undoable OBVIOUS
<1>1. phase = "idle" /\ plan = <<>> /\ origin = NoBefore BY <1>0 DEF Init
<1>2. IdleOK /\ PlanFits BY <1>1, NothingKnown, EmptyTyped DEF IdleOK, PlanFits
<1> QED BY <1>1, <1>2 DEF Undoable, RunOK, UndoOK, NoStashOK, Running

\* When nothing is left to undo, all is undone.
LEMMA AllUndone == Undoable => RolledBackRestores
<1>0. SUFFICES ASSUME Undoable, phase = "undo", pos = 0, failed = {}, before.known
               PROVE  /\ \A d \in Domains, t \in Titles : Census(entries, d, t) = Census(before.entries, d, t)
                      /\ \A i \in Ints : As(entries, mem, before, i)
  BY DEF RolledBackRestores, As
<1>1. LeadsBack(entries, mem, executed, 0, before) BY <1>0 DEF Undoable, UndoOK
<1>2. 1 .. 0 = {} OBVIOUS
<1>3. \A i \in Ints : As(entries, mem, before, i) BY <1>1, <1>2 DEF LeadsBack, Untouched
<1>4. ASSUME NEW d \in Domains, NEW t \in Titles PROVE Census(entries, d, t) = Census(before.entries, d, t)
  <2>1. MadeAt(entries, executed, 0, d, t) = {} /\ GoneAt(executed, 0, d, t) = {} BY <1>2 DEF MadeAt, GoneAt
  <2>2. Cardinality({}) = 0 BY FS_EmptySet
  <2>3. Census(entries, d, t) \in Nat /\ Census(before.entries, d, t) \in Nat BY CensusTyped
  <2>4. Census(entries, d, t) + Cardinality(GoneAt(executed, 0, d, t)) =
          Census(before.entries, d, t) + Cardinality(MadeAt(entries, executed, 0, d, t))
    BY <1>1 DEF LeadsBack, Counts
  <2> QED BY <2>1, <2>2, <2>3, <2>4
<1> QED BY <1>3, <1>4

\* A Roll Back that reports it undid everything has: for every entry of a
\* domain and title there is one again, each item has the entry it had, or
\* one set up again from the data on record, and those the apply did not
\* touch hold what they held.  What ApplyFlowPlan journals leads back, operation
\* by operation, the last one first, which is the order in which
\* integrationInverseReplayAndPersist undoes it for RollbackFlowPlan; so it
\* stays when the save names the stash, and until a person, a crash or another
\* apply comes in between.
THEOREM RollbackIsComplete == Spec => []RolledBackRestores
<1>1. Init => Undoable BY InitUndoable
<1>2. TypeInv /\ Truth /\ Undoable /\ [Next]_vars => Undoable' BY UndoableStep
<1>3. Undoable => RolledBackRestores BY AllUndone
<1> QED BY <1>1, <1>2, <1>3, RecordsTellTruth, PTL DEF Spec
=============================================================================
