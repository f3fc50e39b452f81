----------------------- MODULE GitOpsCustomizeProofs -----------------------
(***************************************************************************)
(* Proofs about GitOpsCustomize: an undo that reports success brought back *)
(* what was there, of a layer that failed and, for Roll Back, of both      *)
(* layers; an apply never overrides what an integration turned off; when a *)
(* whole plan landed the next one holds nothing to do; and what a restore  *)
(* gives back is what was there before the agent.                          *)
(*                                                                         *)
(* The argument about undoing follows one field of one thing through the   *)
(* journal.  Only the first entry that touches a field holds the value to  *)
(* bring back; entries are undone newest first, so that one has the last   *)
(* word.  A field no entry touches is as it was.  The same goes for the    *)
(* recorded originals and the snapshots of the entries.  Nothing need be   *)
(* known of the plan: whatever operations it holds, the journal undoes     *)
(* them.                                                                   *)
(*                                                                         *)
(* The argument about settling does look into the plan.  It says of each   *)
(* thing whether it wants an operation, from what owns the thing, what it  *)
(* is and what is recorded of it; the plan holds an operation for each     *)
(* thing that wants one.  Applying changes neither what the manifest items *)
(* are about nor what other things want, and an operation that landed      *)
(* leaves its thing wanting nothing; so things that want something are     *)
(* always still planned, and in the end there are none.                    *)
(*                                                                         *)
(* The argument about giving back says that the record, the journals Roll  *)
(* Back or a crash may bring back, and the restores the plan holds all     *)
(* tell the same of a thing.  It rests on a plan having one operation for  *)
(* a thing: then nothing else of the apply was about it, what the layer    *)
(* fetched of it is what it is, and an entry about it is the only one.     *)
(***************************************************************************)
EXTENDS GitOpsCustomize, PlanSequencesProofs, FiniteSetTheorems, SequenceTheorems, TLAPS

Attributes == {"area", "disabled", "name"}
IsThing(v) == v = [area |-> v.area, disabled |-> v.disabled, name |-> v.name]
IsSeq(s) == s \in Seq(ToSet(s))
IsRecord(r) == DOMAIN r = Things /\ r = [t \in Things |-> r[t]]
IsWorld(w) == IsRecord(w) /\ \A t \in Things : w[t] = Gone \/ IsThing(w[t])
IsBefore(b) ==
  /\ DOMAIN b = {"live", "originals", "known"}
  /\ IsRecord(b.live) /\ IsRecord(b.originals)

\* Entry e, undone, sets field f of thing t.
Touches(e, t, f) == e.kind # "forget" /\ e.id = t /\ f \in DOMAIN e.prior

\* No entry among the first n of s sets the field, or is about the thing.
Untouched(s, n, t, f) == \A i \in 1 .. n : ~Touches(s[i], t, f)
Unnamed(s, n, t) == \A i \in 1 .. n : s[i].id # t

\* Undoing the first n entries of s, last one first, leads from the registries
\* as they are in world, and the originals as they are in record, to b.
FieldBack(s, n, b, world, t, f) ==
  /\ Untouched(s, n, t, f) => world[t][f] = b.live[t][f]
  /\ \A i \in 1 .. n : Touches(s[i], t, f) /\ Untouched(s, i - 1, t, f) => s[i].prior[f] = b.live[t][f]
ThingBack(s, n, b, world, t) ==
  IF b.live[t] = Gone THEN world[t] = Gone
  ELSE IsThing(b.live[t]) /\ IsThing(world[t]) /\ \A f \in Attributes : FieldBack(s, n, b, world, t, f)
OriginalBack(s, n, b, record, t) ==
  /\ Unnamed(s, n, t) => record[t] = b.originals[t]
  /\ \A i \in 1 .. n : s[i].id = t /\ Unnamed(s, i - 1, t) => s[i].snapshot = b.originals[t]
BringsBack(s, n, b, world, record) ==
  \A t \in Things : ThingBack(s, n, b, world, t) /\ OriginalBack(s, n, b, record, t)

\* Entry e comes after the n entries of s; its operation took the registries
\* and the record from w and r to w2 and r2; and it holds what is in b of the
\* fields that no entry of s sets.
Follows(e, s, n, s2) == (\A i \in 1 .. n : s2[i] = s[i]) /\ s2[n + 1] = e
Lands(e, w, r, w2, r2) ==
  /\ \/ e.kind = "forget" /\ w2 = w
     \/ /\ e.kind # "forget" /\ (e.id \in Things => w[e.id] # Gone)
        /\ \E p : DOMAIN e.prior = DOMAIN p /\ w2 = [w EXCEPT ![e.id] = With(@, p)]
  /\ \E x : r2 = [r EXCEPT ![e.id] = x]
  /\ e.id \in Things => e.snapshot = r[e.id]
Holds(e, b, s, n) ==
  \A f \in Attributes :
    e.id \in Things /\ b.live[e.id] # Gone /\ Touches(e, e.id, f) /\ Untouched(s, n, e.id, f)
      => e.prior[f] = b.live[e.id][f]

\* What a thing was found to be can be told from the fetched registries as
\* long as the earlier layer did not change it.
FetchedBefore(b) ==
  \A t \in Things : \A f \in Attributes :
    b.live[t] # Gone /\ Untouched(prefix, Len(prefix), t, f) => fetched[t][f] = b.live[t][f]

Shapes ==
  /\ IsWorld(live) /\ IsRecord(originals) /\ IsRecord(saved)
  /\ IsBefore(before) /\ IsBefore(origin)
  /\ DOMAIN journals = 1 .. 2 /\ pointer \in 0 .. 2 /\ savedPointer \in 0 .. 2 /\ cur \in 1 .. 2

\* The journal holds what this apply executed, in both its layers.
Journalled ==
  /\ IsSeq(executed) /\ IsSeq(prefix)
  /\ journals[cur] = prefix \o executed
  /\ origin.known => BringsBack(prefix \o executed, Len(prefix) + Len(executed), origin, live, originals)

ExecOK ==
  phase = "exec" =>
    /\ mode = "apply" /\ outcome # "rolledBack" /\ Journalled
    /\ before.known => fetched = before.live /\ BringsBack(executed, Len(executed), before, live, originals)
    /\ origin.known => before.known /\ FetchedBefore(origin)

UndoOK ==
  /\ phase = "undo" => outcome # "ok"
  /\ phase = "undo" /\ outcome = "rolledBack" /\ before.known =>
       pos \in Nat /\ BringsBack(executed, pos, before, live, originals)

SaveOK ==
  phase = "save" =>
    /\ outcome = "ok" => mode = "apply" /\ Journalled
    /\ outcome = "rolledBack" /\ before.known => BringsBack(executed, 0, before, live, originals)

\* What Roll Back would replay, as long as nobody else changed anything.
IdleOK ==
  phase = "idle" /\ origin.known =>
    /\ pointer # 0 /\ pointer = savedPointer
    /\ IsSeq(journals[pointer])
    /\ BringsBack(journals[pointer], Len(journals[pointer]), origin, live, saved)

Undoable == ExecOK /\ UndoOK /\ SaveOK /\ IdleOK
UndoInv == Shapes /\ Undoable
-----------------------------------------------------------------------------
(* Sequences of entries                                                     *)

\* A journal without entries brings back what there is.
LEMMA NothingToUndo ==
  ASSUME NEW s, NEW w, NEW r, NEW b, b.live = w, b.originals = r,
         \A t \in Things : w[t] = Gone \/ IsThing(w[t])
  PROVE  BringsBack(s, 0, b, w, r)
BY DEF BringsBack, ThingBack, FieldBack, OriginalBack, Untouched, Unnamed

\* Untouched and Unnamed look at the first entries only.
LEMMA SameEntries ==
  ASSUME NEW n \in Nat, NEW s, NEW s2, \A i \in 1 .. n : s2[i] = s[i], NEW m \in 0 .. n, NEW t, NEW f
  PROVE  /\ Untouched(s2, m, t, f) <=> Untouched(s, m, t, f)
         /\ Unnamed(s2, m, t) <=> Unnamed(s, m, t)
BY DEF Untouched, Unnamed

\* What an operation sets, and no other field.
LEMMA WithFacts ==
  ASSUME NEW v, IsThing(v), NEW p
  PROVE  /\ IsThing(With(v, p))
         /\ \A f \in Attributes : With(v, p)[f] = IF f \in DOMAIN p THEN p[f] ELSE v[f]
<1>1. DOMAIN v = Attributes BY DEF IsThing, Attributes
<1>2. With(v, p) = [f \in Attributes |-> IF f \in DOMAIN p THEN p[f] ELSE v[f]]
  BY <1>1 DEF With
<1> QED BY <1>2 DEF IsThing, Attributes

\* One more operation lands: its entry holds what the field was, unless an
\* earlier entry does.
LEMMA OneMore ==
  ASSUME NEW n \in Nat, NEW s, NEW s2, NEW e, NEW b, NEW w, NEW r, NEW w2, NEW r2,
         DOMAIN w = Things, DOMAIN r = Things,
         BringsBack(s, n, b, w, r), Follows(e, s, n, s2), Lands(e, w, r, w2, r2), Holds(e, b, s, n)
  PROVE  BringsBack(s2, n + 1, b, w2, r2)
<1> SUFFICES ASSUME NEW t \in Things
             PROVE  ThingBack(s2, n + 1, b, w2, t) /\ OriginalBack(s2, n + 1, b, r2, t)
  BY DEF BringsBack
<1>0. PICK p, x :
        /\ \/ e.kind = "forget" /\ w2 = w
           \/ /\ e.kind # "forget" /\ (e.id \in Things => w[e.id] # Gone)
              /\ DOMAIN e.prior = DOMAIN p /\ w2 = [w EXCEPT ![e.id] = With(@, p)]
        /\ r2 = [r EXCEPT ![e.id] = x]
        /\ e.id \in Things => e.snapshot = r[e.id]
  BY DEF Lands
<1> USE <1>0 DEF Follows
<1>1. ThingBack(s, n, b, w, t) /\ OriginalBack(s, n, b, r, t) BY DEF BringsBack
<1>2. \A f : Untouched(s2, n + 1, t, f) <=> Untouched(s, n, t, f) /\ ~Touches(e, t, f)
  BY DEF Untouched
<1>3. Unnamed(s2, n + 1, t) <=> Unnamed(s, n, t) /\ e.id # t
  BY DEF Unnamed
<1>4. \A f : \A i \in 1 .. n + 1 :
        /\ Untouched(s2, i - 1, t, f) <=> Untouched(s, i - 1, t, f)
        /\ Unnamed(s2, i - 1, t) <=> Unnamed(s, i - 1, t)
  <2> TAKE f
  <2> TAKE i \in 1 .. n + 1
  <2>1. i - 1 \in 0 .. n OBVIOUS
  <2>2. \A j \in 1 .. n : s2[j] = s[j] OBVIOUS
  <2> HIDE DEF Untouched, Unnamed
  <2> QED BY ONLY <2>1, <2>2, n \in Nat, SameEntries
<1>5. OriginalBack(s2, n + 1, b, r2, t)
  <2>1. Unnamed(s2, n + 1, t) => r2[t] = b.originals[t] BY <1>1, <1>3 DEF OriginalBack
  <2>2. ASSUME NEW i \in 1 .. n + 1, s2[i].id = t, Unnamed(s2, i - 1, t)
        PROVE  s2[i].snapshot = b.originals[t]
    <3>1. CASE i = n + 1
      <4>1. Unnamed(s, n, t) BY <2>2, <3>1, <1>4
      <4> QED BY <4>1, <2>2, <3>1, <1>1 DEF OriginalBack
    <3>2. CASE i # n + 1
      <4>1. i \in 1 .. n /\ s2[i] = s[i] BY <3>2
      <4> QED BY <4>1, <2>2, <1>1, <1>4 DEF OriginalBack
    <3> QED BY <3>1, <3>2
  <2> QED BY <2>1, <2>2 DEF OriginalBack
<1>6. CASE b.live[t] = Gone
  <2>1. w[t] = Gone BY <1>1, <1>6 DEF ThingBack
  <2>2. w2[t] = w[t] BY <2>1
  <2> QED BY <2>1, <2>2, <1>5, <1>6 DEF ThingBack
<1>7. CASE b.live[t] # Gone
  <2>1. IsThing(b.live[t]) /\ IsThing(w[t]) /\ \A f \in Attributes : FieldBack(s, n, b, w, t, f)
    BY <1>1, <1>7 DEF ThingBack
  <2>2. /\ IsThing(w2[t])
        /\ \A f \in Attributes : ~Touches(e, t, f) => w2[t][f] = w[t][f]
    <3>1. CASE e.kind # "forget" /\ e.id = t
      <4>1. w2[t] = With(w[t], p) /\ DOMAIN e.prior = DOMAIN p BY <3>1
      <4> QED BY <4>1, <3>1, <2>1, WithFacts DEF Touches
    <3>2. CASE ~(e.kind # "forget" /\ e.id = t)
      <4>1. w2[t] = w[t] BY <3>2
      <4> QED BY <4>1, <2>1
    <3> QED BY <3>1, <3>2
  <2>3. ASSUME NEW f \in Attributes PROVE FieldBack(s2, n + 1, b, w2, t, f)
    <3>1. FieldBack(s, n, b, w, t, f) BY <2>1
    <3>2. Untouched(s2, n + 1, t, f) => w2[t][f] = b.live[t][f]
      BY <3>1, <2>2, <1>2 DEF FieldBack
    <3>3. ASSUME NEW i \in 1 .. n + 1, Touches(s2[i], t, f), Untouched(s2, i - 1, t, f)
          PROVE  s2[i].prior[f] = b.live[t][f]
      <4>1. CASE i = n + 1
        <5>1. Untouched(s, n, t, f) BY <3>3, <4>1, <1>4
        <5>2. e.id = t BY <3>3, <4>1 DEF Touches
        <5> QED BY <5>1, <5>2, <3>3, <4>1, <1>7 DEF Holds
      <4>2. CASE i # n + 1
        <5>1. i \in 1 .. n /\ s2[i] = s[i] BY <4>2
        <5>2. Untouched(s, i - 1, t, f) BY <3>3, <1>4
        <5> QED BY <5>1, <5>2, <3>3, <3>1 DEF FieldBack
      <4> QED BY <4>1, <4>2
    <3> QED BY <3>2, <3>3 DEF FieldBack
  <2> QED BY <2>1, <2>2, <2>3, <1>5, <1>7 DEF ThingBack
<1> QED BY <1>6, <1>7

\* The newest entry that is left is undone.
LEMMA OneLess ==
  ASSUME NEW n \in Nat, n > 0, NEW s, NEW b, NEW w, NEW r, NEW w2, NEW r2, NEW e, e = s[n],
         DOMAIN w = Things, DOMAIN r = Things,
         BringsBack(s, n, b, w, r),
         \/ e.kind = "forget" /\ w2 = w
         \/ e.kind # "forget" /\ w2 = [w EXCEPT ![e.id] = With(@, e.prior)]
                              /\ (e.id \in Things => w[e.id] # Gone),
         r2 = [r EXCEPT ![e.id] = e.snapshot]
  PROVE  BringsBack(s, n - 1, b, w2, r2)
<1> SUFFICES ASSUME NEW t \in Things
             PROVE  ThingBack(s, n - 1, b, w2, t) /\ OriginalBack(s, n - 1, b, r2, t)
  BY DEF BringsBack
<1>1. ThingBack(s, n, b, w, t) /\ OriginalBack(s, n, b, r, t) BY DEF BringsBack
<1>2. \A f : Untouched(s, n, t, f) <=> Untouched(s, n - 1, t, f) /\ ~Touches(e, t, f)
  BY DEF Untouched
<1>3. Unnamed(s, n, t) <=> Unnamed(s, n - 1, t) /\ e.id # t
  BY DEF Unnamed
<1>4. n \in 1 .. n /\ n - 1 \in Nat /\ \A i \in 1 .. n - 1 : i \in 1 .. n OBVIOUS
<1>5. OriginalBack(s, n - 1, b, r2, t)
  <2>1. ASSUME Unnamed(s, n - 1, t) PROVE r2[t] = b.originals[t]
    <3>1. CASE e.id = t BY <3>1, <2>1, <1>1, <1>4 DEF OriginalBack
    <3>2. CASE e.id # t BY <3>2, <2>1, <1>1, <1>3 DEF OriginalBack
    <3> QED BY <3>1, <3>2
  <2> QED BY <2>1, <1>1, <1>4 DEF OriginalBack
<1>6. CASE b.live[t] = Gone
  <2>1. w[t] = Gone BY <1>1, <1>6 DEF ThingBack
  <2>2. w2[t] = w[t] BY <2>1
  <2> QED BY <2>1, <2>2, <1>5, <1>6 DEF ThingBack
<1>7. CASE b.live[t] # Gone
  <2>1. IsThing(b.live[t]) /\ IsThing(w[t]) /\ \A f \in Attributes : FieldBack(s, n, b, w, t, f)
    BY <1>1, <1>7 DEF ThingBack
  <2>2. /\ IsThing(w2[t])
        /\ \A f \in Attributes : w2[t][f] = IF Touches(e, t, f) THEN e.prior[f] ELSE w[t][f]
    <3>1. CASE e.kind # "forget" /\ e.id = t
      <4>1. w2[t] = With(w[t], e.prior) BY <3>1
      <4> QED BY <4>1, <3>1, <2>1, WithFacts DEF Touches
    <3>2. CASE ~(e.kind # "forget" /\ e.id = t)
      <4>1. w2[t] = w[t] BY <3>2
      <4> QED BY <4>1, <3>2, <2>1 DEF Touches
    <3> QED BY <3>1, <3>2
  <2>3. ASSUME NEW f \in Attributes PROVE FieldBack(s, n - 1, b, w2, t, f)
    <3>1. FieldBack(s, n, b, w, t, f) BY <2>1
    <3>2. ASSUME Untouched(s, n - 1, t, f) PROVE w2[t][f] = b.live[t][f]
      <4>1. CASE Touches(e, t, f) BY <4>1, <3>2, <3>1, <2>2, <1>4 DEF FieldBack
      <4>2. CASE ~Touches(e, t, f) BY <4>2, <3>2, <3>1, <2>2, <1>2 DEF FieldBack
      <4> QED BY <4>1, <4>2
    <3> QED BY <3>2, <3>1, <1>4 DEF FieldBack
  <2> QED BY <2>1, <2>2, <2>3, <1>5, <1>7 DEF ThingBack
<1> QED BY <1>6, <1>7
-----------------------------------------------------------------------------
(* Shapes                                                                   *)

LEMMA OneThing ==
  ASSUME NEW w, IsWorld(w), NEW x, NEW v, x \in Things => v = Gone \/ IsThing(v)
  PROVE  IsWorld([w EXCEPT ![x] = v])
BY DEF IsWorld, IsRecord

LEMMA OneRecord ==
  ASSUME NEW r, IsRecord(r), NEW x, NEW v
  PROVE  IsRecord([r EXCEPT ![x] = v])
BY DEF IsRecord

LEMMA Given ==
  ASSUME NEW w, IsWorld(w), NEW x, x \in Things => w[x] # Gone, NEW p
  PROVE  IsWorld([w EXCEPT ![x] = With(@, p)])
<1>1. ASSUME x \in Things PROVE IsThing(With(w[x], p)) BY <1>1, WithFacts DEF IsWorld
<1> QED BY <1>1, OneThing

LEMMA BeforeFacts ==
  /\ IsBefore(NoBefore) /\ ~NoBefore.known
  /\ \A b : IsBefore(b) => IsBefore(Unsure(b)) /\ ~Unsure(b).known
  /\ \A r : IsWorld(live) /\ IsRecord(r) =>
       IsBefore(Now(r)) /\ Now(r).live = live /\ Now(r).originals = r
<1>1. IsBefore(NoBefore) /\ ~NoBefore.known
  BY DEF IsBefore, IsRecord, NoBefore, NoThings, NoOriginals
<1>2. ASSUME NEW b, IsBefore(b) PROVE IsBefore(Unsure(b)) /\ ~Unsure(b).known
  <2>1. Unsure(b).live = b.live /\ Unsure(b).originals = b.originals /\ Unsure(b).known = FALSE
        /\ DOMAIN Unsure(b) = DOMAIN b
    BY <1>2 DEF IsBefore, Unsure
  <2> QED BY <1>2, <2>1 DEF IsBefore
<1>3. \A r : IsWorld(live) /\ IsRecord(r) =>
        IsBefore(Now(r)) /\ Now(r).live = live /\ Now(r).originals = r
  BY DEF IsBefore, IsWorld, Now
<1> QED BY <1>1, <1>2, <1>3

LEMMA SetField ==
  ASSUME NEW v, IsThing(v), NEW x
  PROVE  IsThing([v EXCEPT !.area = x]) /\ IsThing([v EXCEPT !.disabled = x]) /\ IsThing([v EXCEPT !.name = x])
BY DEF IsThing

LEMMA InitShapes == Init => Shapes
<1> SUFFICES ASSUME Init PROVE Shapes OBVIOUS
<1>1. IsWorld(live)
  <2>1. live \in [Things -> Registered \cup {Gone}] BY CustomizeAssumption DEF Init, CustomizeAssumption
  <2>2. \A v \in Registered : IsThing(v) BY DEF Registered, IsThing
  <2> QED BY <2>1, <2>2 DEF IsWorld, IsRecord
<1>2. IsRecord(NoOriginals) BY DEF NoOriginals, IsRecord
<1> QED BY <1>1, <1>2, BeforeFacts DEF Init, Shapes

LEMMA ShapesStep == Shapes /\ [Next]_vars => Shapes'
<1> SUFFICES ASSUME Shapes, [Next]_vars PROVE Shapes' OBVIOUS
<1> USE DEF Shapes, disk, working, history, bounds
<1>0. IsBefore(NoBefore) /\ IsBefore(Unsure(before)) /\ IsBefore(Unsure(origin)) /\ IsRecord(NoOriginals)
      /\ IsBefore(Now(saved)) /\ IsBefore(Now(originals))
  BY BeforeFacts DEF NoOriginals, IsRecord
<1>1. CASE UNCHANGED vars BY <1>1 DEF vars
<1>2. CASE Push BY <1>2 DEF Push
<1>3. CASE Edit
  <2>1. IsWorld(live')
    <3>1. ASSUME NEW t \in Things, NEW v, v = Gone \/ IsThing(v), live' = [live EXCEPT ![t] = v]
          PROVE  IsWorld(live')
      BY <3>1, OneThing
    <3>2. ASSUME NEW t \in Things, live[t] # Gone,
                 \/ \E a \in known \cup {None} : live' = [live EXCEPT ![t].area = a]
                 \/ \E v \in {None, "user", "integration"} : live' = [live EXCEPT ![t].disabled = v]
                 \/ \E n \in DeviceNames : live' = [live EXCEPT ![t].name = n]
          PROVE  IsWorld(live')
      <4>1. IsThing(live[t]) BY <3>2 DEF IsWorld
      <4>2. PICK x : \/ live' = [live EXCEPT ![t] = [@ EXCEPT !.area = x]]
                     \/ live' = [live EXCEPT ![t] = [@ EXCEPT !.disabled = x]]
                     \/ live' = [live EXCEPT ![t] = [@ EXCEPT !.name = x]]
        BY <3>2
      <4>3. PICK v : IsThing(v) /\ live' = [live EXCEPT ![t] = v]
        BY <4>1, <4>2, SetField
      <4> QED BY <4>3, OneThing
    <3>3. ASSUME NEW t \in Things, NEW s \in Starts, live' = [live EXCEPT ![t] = s[t]] PROVE IsWorld(live')
      <4>1. s[t] \in Registered \cup {Gone} BY CustomizeAssumption DEF CustomizeAssumption
      <4>2. s[t] = Gone \/ IsThing(s[t]) BY <4>1 DEF Registered, IsThing
      <4> QED BY <4>2, <3>3, <3>1
    <3>4. ASSUME NEW a, live' = [t \in Things |-> IF live[t] # Gone /\ live[t].area = a
                                               THEN [live[t] EXCEPT !.area = None] ELSE live[t]]
          PROVE  IsWorld(live')
      <4>1. \A t \in Things : live[t] = Gone \/ IsThing(live[t]) BY DEF IsWorld
      <4>3. ASSUME NEW t \in Things PROVE live'[t] = Gone \/ IsThing(live'[t])
        <5>1. CASE live[t] # Gone /\ live[t].area = a
          <6>1. live'[t] = [live[t] EXCEPT !.area = None] BY <3>4, <5>1
          <6>2. IsThing([live[t] EXCEPT !.area = None]) BY <5>1, <4>1, SetField
          <6> QED BY <6>1, <6>2
        <5>2. CASE ~(live[t] # Gone /\ live[t].area = a)
          <6>1. live'[t] = live[t] BY <3>4, <5>2
          <6> QED BY <6>1, <4>1
        <5> QED BY <5>1, <5>2
      <4>4. IsRecord(live') BY <3>4 DEF IsRecord
      <4> QED BY <4>3, <4>4 DEF IsWorld
    <3>5. CASE live' = live BY <3>5
    <3>6. ASSUME NEW t \in Things, live' = [live EXCEPT ![t] = Gone] PROVE IsWorld(live')
      BY <3>6, <3>1
    <3>7. \/ live' = live
          \/ \E a : live' = [t \in Things |-> IF live[t] # Gone /\ live[t].area = a
                                              THEN [live[t] EXCEPT !.area = None] ELSE live[t]]
          \/ \E t \in Things : live' = [live EXCEPT ![t] = Gone]
          \/ \E t \in Things, s \in Starts : live' = [live EXCEPT ![t] = s[t]]
          \/ \E t \in Things :
               /\ live[t] # Gone
               /\ \/ \E a \in known \cup {None} : live' = [live EXCEPT ![t].area = a]
                  \/ \E v \in {None, "user", "integration"} : live' = [live EXCEPT ![t].disabled = v]
                  \/ \E n \in DeviceNames : live' = [live EXCEPT ![t].name = n]
      BY <1>3 DEF Edit
    <3> QED BY <3>2, <3>3, <3>4, <3>5, <3>6, <3>7
  <2> QED BY <1>0, <1>3, <2>1 DEF Edit
<1>4. CASE Crash BY <1>0, <1>4 DEF Crash, Clear
<1>5. CASE Reconcile BY <1>5 DEF Reconcile
<1>6. CASE StartApply BY <1>0, <1>6 DEF StartApply, BeginLayer
<1>7. CASE NextLayer BY <1>0, <1>7 DEF NextLayer, BeginLayer
<1>8. CASE ExecuteOne
  <2> DEFINE op == Head(todo)
  <2>1. IsWorld(Effect(op)) BY <1>8, Given DEF ExecuteOne, Effect, Accepts
  <2>2. IsRecord(Originals(op)) BY OneRecord DEF Originals
  <2> QED BY <2>1, <2>2, <1>8 DEF ExecuteOne
<1>9. CASE OpFails
  <2> DEFINE op == Head(todo)
  <2>1. Accepts(op) => IsWorld(Effect(op)) BY Given DEF Effect, Accepts
  <2> QED BY <2>1, <1>0, <1>9 DEF OpFails
<1>10. CASE ApplyDone BY <1>10 DEF ApplyDone
<1>11. CASE UndoOne
  <2> DEFINE e == executed[pos]
  <2>1. Invertible(e) => IsWorld(Inverted(e)) BY Given DEF Inverted, Invertible
  <2>2. IsRecord([originals EXCEPT ![e.id] = e.snapshot]) BY OneRecord
  <2> QED BY <2>1, <2>2, <1>11 DEF UndoOne
<1>12. CASE UndoDone BY <1>12 DEF UndoDone
<1>13. CASE StartRollback BY <1>0, <1>13 DEF StartRollback
<1>14. CASE StateSave BY <1>0, <1>14 DEF StateSave, Clear
<1> QED
  BY <1>1, <1>2, <1>3, <1>4, <1>5, <1>6, <1>7, <1>8, <1>9, <1>10, <1>11, <1>12, <1>13, <1>14 DEF Next
-----------------------------------------------------------------------------
(* Journals as sequences                                                    *)

LEMMA OfItsElements ==
  ASSUME NEW S, NEW s \in Seq(S)
  PROVE  IsSeq(s)
<1>1. Len(s) \in Nat /\ DOMAIN s = 1 .. Len(s) /\ s \in [1 .. Len(s) -> S] BY LenProperties
<1>2. \A i \in 1 .. Len(s) : s[i] \in ToSet(s) BY <1>1 DEF ToSet
<1>3. s \in [1 .. Len(s) -> ToSet(s)] BY <1>1, <1>2
<1> QED BY <1>1, <1>3 DEF IsSeq

LEMMA Empty == IsSeq(<<>>) /\ Len(<<>>) = 0 /\ <<>> \o <<>> = <<>>
<1>1. <<>> \in Seq({}) BY EmptySeq
<1> QED BY <1>1, OfItsElements, EmptySeq, ConcatEmptySeq

\* The journal of both layers, when the first is over.
LEMMA Joined ==
  ASSUME NEW p, IsSeq(p), NEW x, IsSeq(x)
  PROVE  /\ IsSeq(p \o x) /\ (p \o x) \o <<>> = p \o x
         /\ Len(p) \in Nat /\ Len(x) \in Nat /\ Len(p \o x) = Len(p) + Len(x)
<1> DEFINE S == ToSet(p) \cup ToSet(x)
<1>1. p \in Seq(S) /\ x \in Seq(S) BY SeqMonotonic DEF IsSeq
<1>2. p \o x \in Seq(S) /\ Len(p \o x) = Len(p) + Len(x) BY <1>1, ConcatProperties
<1> QED BY <1>1, <1>2, OfItsElements, ConcatEmptySeq, LenProperties

\* An entry appended to the journal of the layer is appended to the whole.
LEMMA Longer ==
  ASSUME NEW p, IsSeq(p), NEW x, IsSeq(x), NEW e
  PROVE  /\ Len(p) \in Nat /\ Len(x) \in Nat
         /\ IsSeq(Append(x, e)) /\ Len(Append(x, e)) = Len(x) + 1
         /\ \A i \in 1 .. Len(x) : Append(x, e)[i] = x[i]
         /\ Append(x, e)[Len(x) + 1] = e
         /\ \A i \in 1 .. Len(p) + Len(x) : (p \o Append(x, e))[i] = (p \o x)[i]
         /\ (p \o Append(x, e))[Len(p) + Len(x) + 1] = e
         /\ \A i \in 1 .. Len(p) : (p \o x)[i] = p[i]
<1> DEFINE S == ToSet(p) \cup ToSet(x) \cup {e}
<1> DEFINE y == Append(x, e)
<1>1. p \in Seq(S) /\ x \in Seq(S) /\ e \in S BY SeqMonotonic DEF IsSeq
<1>2. Len(p) \in Nat /\ Len(x) \in Nat BY <1>1, LenProperties
<1> HIDE DEF S
<1>3. /\ y \in Seq(S) /\ Len(y) = Len(x) + 1
      /\ \A i \in 1 .. Len(x) : y[i] = x[i]
      /\ y[Len(x) + 1] = e
  BY <1>1, AppendProperties
<1>4. IsSeq(y) BY <1>3, OfItsElements
<1> HIDE DEF y
<1>5. \A i \in 1 .. Len(p) + Len(x) : (p \o x)[i] = IF i <= Len(p) THEN p[i] ELSE x[i - Len(p)]
  BY <1>1, ConcatProperties
<1>6. \A i \in 1 .. Len(p) + Len(y) : (p \o y)[i] = IF i <= Len(p) THEN p[i] ELSE y[i - Len(p)]
  BY <1>1, <1>3, ConcatProperties
<1>7. ASSUME NEW i \in 1 .. Len(p) + Len(x) PROVE (p \o y)[i] = (p \o x)[i]
  <2>1. i \in 1 .. Len(p) + Len(y) BY <1>2, <1>3
  <2>2. i > Len(p) => i - Len(p) \in 1 .. Len(x) BY <1>2
  <2> QED BY <2>1, <2>2, <1>2, <1>3, <1>5, <1>6
<1>8. (p \o y)[Len(p) + Len(x) + 1] = e
  <2>1. Len(p) + Len(x) + 1 \in 1 .. Len(p) + Len(y) BY <1>2, <1>3
  <2>2. Len(p) + Len(x) + 1 - Len(p) = Len(x) + 1 /\ ~(Len(p) + Len(x) + 1 <= Len(p)) BY <1>2
  <2> QED BY <2>1, <2>2, <1>3, <1>6
<1>9. \A i \in 1 .. Len(p) : (p \o x)[i] = p[i] BY <1>2, <1>5
<1> QED BY <1>2, <1>3, <1>4, <1>7, <1>8, <1>9 DEF y

-----------------------------------------------------------------------------
(* The steps                                                                *)

\* What others do, and what does not concern the undoing.
LEMMA AsideStep ==
  ASSUME UndoInv, Push \/ Edit \/ Crash \/ Reconcile \/ UNCHANGED vars
  PROVE  Undoable'
<1> USE DEF disk, working, history, bounds
<1>1. CASE UNCHANGED vars
  BY <1>1 DEF vars, UndoInv, Undoable, ExecOK, UndoOK, SaveOK, IdleOK, Journalled, FetchedBefore
<1>2. CASE Push
  BY <1>2 DEF Push, UndoInv, Undoable, ExecOK, UndoOK, SaveOK, IdleOK, Journalled, FetchedBefore
<1>3. CASE Reconcile
  BY <1>3 DEF Reconcile, UndoInv, Undoable, ExecOK, UndoOK, SaveOK, IdleOK, Journalled, FetchedBefore
<1>4. CASE Edit
  <2>1. ~before'.known /\ ~origin'.known BY <1>4, BeforeFacts DEF Edit, UndoInv, Shapes
  <2> QED BY <2>1, <1>4 DEF Edit, UndoInv, Undoable, ExecOK, UndoOK, SaveOK, IdleOK, Journalled
<1>5. CASE Crash
  <2>1. CASE Idle BY <1>5, <2>1 DEF Crash, Clear, Idle, UndoInv, Undoable, ExecOK, UndoOK, SaveOK, IdleOK
  <2>2. CASE ~Idle
    <3>1. ~origin'.known BY <1>5, <2>2, BeforeFacts DEF Crash, UndoInv, Shapes
    <3> QED BY <3>1, <1>5 DEF Crash, Clear, Undoable, ExecOK, UndoOK, SaveOK, IdleOK
  <2> QED BY <2>1, <2>2
<1> QED BY <1>1, <1>2, <1>3, <1>4, <1>5

\* Nothing is executed yet: what there is is what an undo is to bring back.
LEMMA BeginStep ==
  ASSUME UndoInv, StartApply
  PROVE  Undoable'
<1> USE DEF disk, working, history, bounds
<1>1. PICK ops : BeginLayer(ops, <<>>) BY DEF StartApply
<1>2. CASE phase' = "exec"
  <2>1. /\ prefix' = <<>> /\ executed' = <<>> /\ mode' = "apply" /\ fetched' = live /\ live' = live
        /\ outcome' = "ok" /\ originals' = saved /\ before' = Now(saved) /\ origin' = Now(saved)
        /\ journals' = [journals EXCEPT ![cur'] = <<>>] /\ cur' \in 1 .. 2
    BY <1>1, <1>2 DEF StartApply, BeginLayer
  <2>2. Now(saved).live = live /\ Now(saved).originals = saved
    BY BeforeFacts DEF UndoInv, Shapes
  <2>3. \A s : BringsBack(s, 0, Now(saved), live, saved)
    BY <2>2, NothingToUndo DEF UndoInv, Shapes, IsWorld
  <2>4. journals'[cur'] = <<>> BY <2>1 DEF UndoInv, Shapes
  <2>5. Journalled' BY <2>1, <2>3, <2>4, Empty DEF Journalled
  <2>6. FetchedBefore(origin)' BY <2>1, <2>2 DEF FetchedBefore
  <2>7. before'.known BY <2>1 DEF Now
  <2> QED BY <1>2, <2>1, <2>2, <2>3, <2>5, <2>6, <2>7, Empty DEF Undoable, ExecOK, UndoOK, SaveOK, IdleOK
<1>3. CASE phase' # "exec"
  BY <1>1, <1>3 DEF BeginLayer, Undoable, ExecOK, UndoOK, SaveOK, IdleOK
<1> QED BY <1>2, <1>3

\* The second layer brings back what it finds; with the first, what that found.
LEMMA NextLayerStep ==
  ASSUME UndoInv, NextLayer
  PROVE  Undoable'
<1> USE DEF disk, working, history, bounds
<1>1. BeginLayer(later, prefix \o executed) /\ phase = "exec" BY DEF NextLayer
<1>2. CASE phase' = "exec"
  <2>1. /\ prefix' = prefix \o executed /\ executed' = <<>> /\ mode' = mode /\ fetched' = live /\ live' = live
        /\ outcome' = "ok" /\ originals' = originals /\ before' = Now(originals) /\ origin' = origin
        /\ journals' = journals /\ cur' = cur
    BY <1>1, <1>2 DEF NextLayer, BeginLayer
  <2>2. Now(originals).live = live /\ Now(originals).originals = originals
    BY BeforeFacts DEF UndoInv, Shapes
  <2>3. \A s : BringsBack(s, 0, Now(originals), live, originals)
    BY <2>2, NothingToUndo DEF UndoInv, Shapes, IsWorld
  <2>4. ExecOK /\ Journalled BY <1>1 DEF UndoInv, Undoable, ExecOK
  <2>5. /\ IsSeq(prefix \o executed) /\ (prefix \o executed) \o <<>> = prefix \o executed
        /\ Len(prefix \o executed) = Len(prefix) + Len(executed)
        /\ Len(prefix) \in Nat /\ Len(executed) \in Nat
    BY <2>4, Joined DEF Journalled
  <2>6. Len(prefix') + Len(executed') = Len(prefix) + Len(executed)
    BY <2>1, <2>5, Empty
  <2>7. Journalled'
    BY <2>1, <2>4, <2>5, <2>6, Empty DEF Journalled
  <2>8. origin.known => FetchedBefore(origin)'
    <3>1. SUFFICES ASSUME origin.known, NEW t \in Things, NEW f \in Attributes, origin.live[t] # Gone,
                          Untouched(prefix \o executed, Len(prefix) + Len(executed), t, f)
                   PROVE  live[t][f] = origin.live[t][f]
      BY <2>1, <2>5 DEF FetchedBefore
    <3>2. BringsBack(prefix \o executed, Len(prefix) + Len(executed), origin, live, originals)
      BY <2>4, <3>1 DEF Journalled
    <3> QED BY <3>1, <3>2 DEF BringsBack, ThingBack, FieldBack
  <2>9. before'.known BY <2>1 DEF Now
  <2> QED BY <1>1, <1>2, <2>1, <2>2, <2>3, <2>4, <2>7, <2>8, <2>9, Empty
      DEF Undoable, ExecOK, UndoOK, SaveOK, IdleOK
<1>3. CASE phase' # "exec"
  BY <1>1, <1>3 DEF BeginLayer, Undoable, ExecOK, UndoOK, SaveOK, IdleOK
<1> QED BY <1>2, <1>3
\* An operation lands: its entry holds what the layer found, which is what there
\* was before the layer, and before the apply if the earlier layer left it alone.
LEMMA ExecuteStep ==
  ASSUME UndoInv, ExecuteOne
  PROVE  Undoable'
<1> DEFINE op == Head(todo)
<1> DEFINE e == Entry(op)
<1>1. /\ phase = "exec" /\ Accepts(op) /\ live' = Effect(op) /\ originals' = Originals(op)
      /\ executed' = Append(executed, e)
      /\ UNCHANGED <<mode, fetched, prefix, cur, before, origin>>
  BY DEF ExecuteOne
<1>2. /\ mode = "apply" /\ outcome # "rolledBack" /\ Journalled
      /\ before.known => fetched = before.live /\ BringsBack(executed, Len(executed), before, live, originals)
      /\ origin.known => before.known /\ FetchedBefore(origin)
  BY <1>1 DEF UndoInv, Undoable, ExecOK
<1>3. /\ Len(prefix) \in Nat /\ Len(executed) \in Nat
      /\ IsSeq(executed') /\ Len(executed') = Len(executed) + 1
      /\ \A i \in 1 .. Len(executed) : executed'[i] = executed[i]
      /\ executed'[Len(executed) + 1] = e
      /\ \A i \in 1 .. Len(prefix) + Len(executed) : (prefix \o executed')[i] = (prefix \o executed)[i]
      /\ (prefix \o executed')[Len(prefix) + Len(executed) + 1] = e
      /\ \A i \in 1 .. Len(prefix) : (prefix \o executed)[i] = prefix[i]
  BY <1>1, <1>2, Longer DEF Journalled
<1>4. /\ e.kind = op.kind /\ e.id = op.id /\ e.snapshot = originals[op.id]
      /\ e.prior = [f \in DOMAIN op.params |-> Fetched(op.id, f)]
  BY DEF Entry
<1>5. Lands(e, live, originals, live', originals')
  <2>1. PICK x : originals' = [originals EXCEPT ![e.id] = x] BY <1>1, <1>4 DEF Originals
  <2>2. CASE op.kind = "forget" BY <2>1, <2>2, <1>1, <1>4 DEF Lands, Effect
  <2>3. CASE op.kind # "forget"
    <3>1. live' = [live EXCEPT ![e.id] = With(@, op.params)] /\ live[e.id] # Gone
      BY <2>3, <1>1, <1>4 DEF Effect, Accepts
    <3>2. DOMAIN e.prior = DOMAIN op.params BY <1>4
    <3> QED BY <2>1, <2>3, <3>1, <3>2, <1>4 DEF Lands
  <2> QED BY <2>2, <2>3
<1>6. e.kind # "forget" => live[e.id] # Gone BY <1>1, <1>4 DEF Accepts
<1>7. DOMAIN live = Things /\ DOMAIN originals = Things BY DEF UndoInv, Shapes, IsWorld, IsRecord
<1>8. \A f : Touches(e, e.id, f) => e.kind # "forget" /\ e.prior[f] = Fetched(e.id, f)
  BY <1>4 DEF Touches
<1> HIDE DEF e, op
<1>9. ASSUME before.known PROVE BringsBack(executed', Len(executed'), before', live', originals')
  <2>1. ASSUME NEW f \in Attributes, e.id \in Things, before.live[e.id] # Gone, Touches(e, e.id, f)
        PROVE  e.prior[f] = before.live[e.id][f]
    BY <2>1, <1>2, <1>8, <1>9 DEF Fetched
  <2>2. BringsBack(executed', Len(executed) + 1, before, live', originals')
    <3>1. BringsBack(executed, Len(executed), before, live, originals) BY <1>2, <1>9
    <3>2. Holds(e, before, executed, Len(executed)) BY <2>1 DEF Holds
    <3>3. Follows(e, executed, Len(executed), executed') BY <1>3 DEF Follows
    <3> QED BY <3>1, <3>2, <3>3, <1>3, <1>5, <1>7, OneMore
  <2> QED BY <2>2, <1>1, <1>3
<1>10. ASSUME origin.known
       PROVE  BringsBack(prefix \o executed', Len(prefix) + Len(executed) + 1, origin, live', originals')
  <2> DEFINE n == Len(prefix) + Len(executed)
  <2>1. ASSUME NEW f \in Attributes, e.id \in Things, origin.live[e.id] # Gone, Touches(e, e.id, f),
               Untouched(prefix \o executed, n, e.id, f)
        PROVE  e.prior[f] = origin.live[e.id][f]
    <3>1. Untouched(prefix, Len(prefix), e.id, f)
      BY <2>1, <1>3 DEF Untouched
    <3>2. fetched[e.id][f] = origin.live[e.id][f] BY <3>1, <2>1, <1>2, <1>10 DEF FetchedBefore
    <3>3. live[e.id] # Gone BY <2>1, <1>6, <1>8
    <3>4. before.live[e.id] # Gone BY <3>3, <2>1, <1>2, <1>10 DEF BringsBack, ThingBack
    <3> QED BY <3>2, <3>4, <2>1, <1>2, <1>8, <1>10 DEF Fetched
  <2>2. n \in Nat BY <1>3
  <2>3. BringsBack(prefix \o executed, n, origin, live, originals) BY <1>2, <1>10 DEF Journalled
  <2>4. Follows(e, prefix \o executed, n, prefix \o executed') BY <1>3 DEF Follows
  <2>5. Holds(e, origin, prefix \o executed, n) BY <2>1 DEF Holds
  <2> HIDE DEF n
  <2>6. BringsBack(prefix \o executed', n + 1, origin, live', originals')
    BY <2>2, <2>3, <2>4, <2>5, <1>5, <1>7, OneMore
  <2> QED BY <2>6 DEF n
<1>11. CASE phase' = "exec"
  <2>1. journals' = [journals EXCEPT ![cur] = prefix \o executed'] /\ outcome' = outcome BY <1>1, <1>11 DEF ExecuteOne
  <2>2. journals'[cur] = prefix \o executed' BY <2>1 DEF UndoInv, Shapes
  <2>3. Len(prefix) + Len(executed') = Len(prefix) + Len(executed) + 1 BY <1>3
  <2>4. Journalled' BY <1>1, <1>2, <1>3, <1>10, <2>2, <2>3 DEF Journalled
  <2>5. FetchedBefore(origin)' <=> FetchedBefore(origin) BY <1>1 DEF FetchedBefore
  <2> QED BY <1>1, <1>2, <1>9, <1>11, <2>1, <2>4, <2>5 DEF Undoable, ExecOK, UndoOK, SaveOK, IdleOK
<1>12. CASE phase' # "exec"
  <2>1. phase' = "save" /\ outcome' = "unjournalled" BY <1>1, <1>12 DEF ExecuteOne
  <2> QED BY <2>1 DEF Undoable, ExecOK, UndoOK, SaveOK, IdleOK
<1> QED BY <1>11, <1>12

\* The layer fails, and what it executed is to be undone; or it is done.
LEMMA LayerEnds ==
  ASSUME UndoInv, OpFails \/ ApplyDone
  PROVE  Undoable'
<1> USE DEF disk, working, history, bounds
<1>1. CASE ApplyDone
  <2>1. phase = "exec" /\ phase' = "save" /\ outcome' = outcome BY <1>1 DEF ApplyDone
  <2>2. outcome # "rolledBack" /\ mode = "apply" /\ Journalled BY <2>1 DEF UndoInv, Undoable, ExecOK
  <2>3. mode' = "apply" /\ Journalled' BY <1>1, <2>2 DEF ApplyDone, Journalled
  <2> QED BY <2>1, <2>2, <2>3 DEF Undoable, ExecOK, UndoOK, SaveOK, IdleOK
<1>2. CASE OpFails
  <2>1. /\ phase = "exec" /\ phase' = "undo" /\ outcome' = "rolledBack"
        /\ pos' = Len(executed) /\ executed' = executed /\ originals' = originals
    BY <1>2 DEF OpFails
  <2>2. before'.known => before' = before /\ live' = live
    BY <1>2, BeforeFacts DEF OpFails, UndoInv, Shapes
  <2>3. Journalled /\ (before.known => BringsBack(executed, Len(executed), before, live, originals))
    BY <2>1 DEF UndoInv, Undoable, ExecOK
  <2>4. Len(executed) \in Nat BY <2>3, Joined DEF Journalled
  <2> QED BY <2>1, <2>2, <2>3, <2>4 DEF Undoable, ExecOK, UndoOK, SaveOK, IdleOK
<1> QED BY <1>1, <1>2

\* The newest entry is undone, or the undo does not report success.
LEMMA UndoStep ==
  ASSUME UndoInv, UndoOne \/ UndoDone
  PROVE  Undoable'
<1> USE DEF disk, working, history, bounds
<1>1. CASE UndoDone
  BY <1>1 DEF UndoDone, UndoInv, Undoable, ExecOK, UndoOK, SaveOK, IdleOK
<1>2. CASE UndoOne
  <2> DEFINE e == executed[pos]
  <2>1. /\ phase = "undo" /\ phase' \in {"undo", "save"} /\ outcome' \in {outcome, "failed"}
        /\ pos > 0 /\ pos' = pos - 1 /\ executed' = executed /\ before' = before /\ outcome # "ok"
    BY <1>2 DEF UndoOne, UndoInv, Undoable, UndoOK
  <2>2. CASE outcome' = "rolledBack" /\ before.known
    <3>1. /\ outcome = "rolledBack" /\ phase' = "undo" /\ Invertible(e) /\ live' = Inverted(e)
          /\ originals' = [originals EXCEPT ![e.id] = e.snapshot]
      BY <1>2, <2>1, <2>2 DEF UndoOne
    <3>2. pos \in Nat /\ BringsBack(executed, pos, before, live, originals)
      BY <2>1, <2>2, <3>1 DEF UndoInv, Undoable, UndoOK
    <3>3. \/ e.kind = "forget" /\ live' = live
          \/ e.kind # "forget" /\ live' = [live EXCEPT ![e.id] = With(@, e.prior)]
                               /\ (e.id \in Things => live[e.id] # Gone)
      BY <3>1 DEF Invertible, Inverted
    <3>4. DOMAIN live = Things /\ DOMAIN originals = Things BY DEF UndoInv, Shapes, IsWorld, IsRecord
    <3>5. BringsBack(executed, pos - 1, before, live', originals')
      BY <2>1, <3>1, <3>2, <3>3, <3>4, OneLess
    <3>6. pos - 1 \in Nat BY <2>1, <3>2
    <3> QED BY <2>1, <3>1, <3>5, <3>6 DEF Undoable, ExecOK, UndoOK, SaveOK, IdleOK
  <2>3. CASE ~(outcome' = "rolledBack" /\ before.known)
    BY <2>1, <2>3 DEF Undoable, ExecOK, UndoOK, SaveOK, IdleOK
  <2> QED BY <2>2, <2>3
<1> QED BY <1>1, <1>2

\* Roll Back replays the journal under the button, and an apply that is saved
\* leaves its journal there.
LEMMA BetweenStep ==
  ASSUME UndoInv, StartRollback \/ StateSave
  PROVE  Undoable'
<1> USE DEF disk, working, history, bounds
<1>1. CASE StartRollback
  <2>1. /\ Idle /\ pointer # 0 /\ executed' = journals[pointer] /\ pos' = Len(executed')
        /\ before' = origin /\ live' = live /\ originals' = saved /\ outcome' \in {"rolledBack", "failed"}
        /\ \/ phase' = "undo"
           \/ phase' = "save" /\ outcome' = "failed"
    BY <1>1 DEF StartRollback
  <2>2. origin.known => /\ IsSeq(journals[pointer])
                        /\ BringsBack(journals[pointer], Len(journals[pointer]), origin, live, saved)
    BY <2>1 DEF UndoInv, Undoable, IdleOK, Idle
  <2>3. origin.known => Len(journals[pointer]) \in Nat BY <2>2, Joined
  <2> QED BY <2>1, <2>2, <2>3 DEF Undoable, ExecOK, UndoOK, SaveOK, IdleOK
<1>2. CASE StateSave
  <2>1. phase = "save" /\ phase' = "idle" BY <1>2 DEF StateSave
  <2>2. CASE origin'.known
    <3>1. ~NoBefore.known BY BeforeFacts
    <3>2. /\ origin' = origin /\ outcome = "ok" /\ mode = "apply"
          /\ saved' = originals /\ pointer' = cur /\ savedPointer' = cur /\ live' = live /\ journals' = journals
      BY <1>2, <2>2, <3>1 DEF StateSave
    <3>3. Journalled BY <2>1, <3>2 DEF UndoInv, Undoable, SaveOK
    <3>4. /\ IsSeq(journals[cur]) /\ BringsBack(journals[cur], Len(journals[cur]), origin, live, originals)
      BY <2>2, <3>2, <3>3, Joined DEF Journalled
    <3>5. cur # 0 BY DEF UndoInv, Shapes
    <3> QED BY <2>1, <3>2, <3>4, <3>5 DEF Undoable, ExecOK, UndoOK, SaveOK, IdleOK
  <2>3. CASE ~origin'.known BY <2>1, <2>3 DEF Undoable, ExecOK, UndoOK, SaveOK, IdleOK
  <2> QED BY <2>2, <2>3
<1> QED BY <1>1, <1>2

-----------------------------------------------------------------------------

LEMMA Invariant == Spec => []UndoInv
<1>1. Init => UndoInv
  BY InitShapes, BeforeFacts DEF Init, UndoInv, Undoable, ExecOK, UndoOK, SaveOK, IdleOK
<1>2. UndoInv /\ [Next]_vars => UndoInv'
  BY ShapesStep, AsideStep, BeginStep, NextLayerStep, ExecuteStep, LayerEnds, UndoStep, BetweenStep
  DEF UndoInv, Next
<1> QED BY <1>1, <1>2, PTL DEF Spec

\* An undo that reports success brought back every field of every device and
\* entity and what is recorded of it: after a failure those of the layer that
\* failed, after Roll Back those of both layers, however many operations share
\* a thing (regapply/rollback.go).
THEOREM RollbackIsComplete == Spec => []RolledBackRestores
<1>1. UndoInv => RolledBackRestores
  <2> SUFFICES ASSUME UndoInv, phase = "save", outcome = "rolledBack", before.known
               PROVE  live = before.live /\ originals = before.originals
    BY DEF RolledBackRestores
  <2>1. BringsBack(executed, 0, before, live, originals) BY DEF UndoInv, Undoable, SaveOK
  <2>2. ASSUME NEW t \in Things PROVE live[t] = before.live[t]
    <3>1. ThingBack(executed, 0, before, live, t) BY <2>1 DEF BringsBack
    <3>2. CASE before.live[t] = Gone BY <3>1, <3>2 DEF ThingBack
    <3>3. CASE before.live[t] # Gone
      <4>1. /\ IsThing(before.live[t]) /\ IsThing(live[t])
            /\ \A f \in Attributes : live[t][f] = before.live[t][f]
        BY <3>1, <3>3 DEF ThingBack, FieldBack, Untouched
      <4>2. /\ live[t].area = before.live[t].area /\ live[t].disabled = before.live[t].disabled
            /\ live[t].name = before.live[t].name
        BY <4>1 DEF Attributes
      <4> QED BY <4>1, <4>2, Zenon DEF IsThing
    <3> QED BY <3>2, <3>3
  <2>3. \A t \in Things : originals[t] = before.originals[t]
    BY <2>1 DEF BringsBack, OriginalBack, Unnamed
  <2> QED BY <2>2, <2>3 DEF UndoInv, Shapes, IsWorld, IsRecord, IsBefore
<1> QED BY <1>1, Invariant, PTL
-----------------------------------------------------------------------------
(* Settings and findings                                                    *)

\* A value for some of the fields.
LEMMA PartialFacts ==
  ASSUME NEW S, NEW p
  PROVE  p \in Partial(S) <=> DOMAIN p \subseteq Fields /\ p \in [DOMAIN p -> S]
<1>1. ASSUME p \in Partial(S) PROVE DOMAIN p \subseteq Fields /\ p \in [DOMAIN p -> S]
  <2>1. PICK F \in SUBSET Fields : p \in [F -> S] BY <1>1 DEF Partial
  <2> QED BY <2>1
<1>2. ASSUME DOMAIN p \subseteq Fields, p \in [DOMAIN p -> S] PROVE p \in Partial(S)
  BY <1>2 DEF Partial
<1> QED BY <1>1, <1>2

\* What it takes to be settings, or findings.
LEMMA SettingsFacts ==
  ASSUME NEW p
  PROVE  /\ p \in Settings <=>
              /\ DOMAIN p \subseteq Fields /\ p = [f \in DOMAIN p |-> p[f]]
              /\ "area" \in DOMAIN p => p["area"] \in AreaKeys \cup {None}
              /\ "disabled" \in DOMAIN p => p["disabled"] \in {None, "user"}
         /\ p \in Findings <=>
              /\ DOMAIN p \subseteq Fields /\ p = [f \in DOMAIN p |-> p[f]]
              /\ "area" \in DOMAIN p => p["area"] \in AreaKeys \cup {None}
              /\ "disabled" \in DOMAIN p => p["disabled"] \in {None, "user", "integration"}
<1>1. p \in Partial(FieldValues) <=> DOMAIN p \subseteq Fields /\ p \in [DOMAIN p -> FieldValues]
  BY PartialFacts
<1>2. ASSUME DOMAIN p \subseteq Fields, p = [f \in DOMAIN p |-> p[f]],
             "area" \in DOMAIN p => p["area"] \in AreaKeys \cup {None},
             "disabled" \in DOMAIN p => p["disabled"] \in {None, "user", "integration"}
      PROVE  p \in Partial(FieldValues)
  <2>1. \A f \in DOMAIN p : p[f] \in FieldValues BY <1>2 DEF Fields, FieldValues
  <2> QED BY <2>1, <1>1, <1>2
<1>3. p \in Partial(FieldValues) => DOMAIN p \subseteq Fields /\ p = [f \in DOMAIN p |-> p[f]] BY <1>1
<1> QED BY <1>2, <1>3 DEF Settings, Findings

\* Nothing to set is something a manifest may set.
LEMMA NoParamsFacts == NoParams \in Settings /\ DOMAIN NoParams = {}
<1>1. DOMAIN NoParams = {} /\ NoParams = [f \in DOMAIN NoParams |-> NoParams[f]] BY DEF NoParams
<1> QED BY <1>1, SettingsFacts

\* What can be set can be found.
LEMMA SettingsAreFound == Settings \subseteq Findings
BY SettingsFacts

\* A thing stays a registered thing, under its name, whatever is laid over it.
LEMMA LaidOver ==
  ASSUME NEW v \in Registered, NEW p \in Findings
  PROVE  /\ With(v, p) \in Registered /\ With(v, p).name = v.name
         /\ \A f \in Fields : With(v, p)[f] = IF f \in DOMAIN p THEN p[f] ELSE v[f]
<1>1. IsThing(v) BY DEF Registered, IsThing
<1>2. /\ IsThing(With(v, p))
      /\ \A f \in Attributes : With(v, p)[f] = IF f \in DOMAIN p THEN p[f] ELSE v[f]
  BY <1>1, WithFacts
<1>3. DOMAIN p \subseteq Fields /\ ("area" \in DOMAIN p => p["area"] \in AreaKeys \cup {None})
      /\ ("disabled" \in DOMAIN p => p["disabled"] \in {None, "user", "integration"})
  BY SettingsFacts
<1>4. /\ With(v, p).area \in AreaKeys \cup {None} /\ With(v, p).disabled \in {None, "user", "integration"}
      /\ With(v, p).name = v.name
  BY <1>2, <1>3 DEF Registered, Attributes, Fields
<1>5. v.name \in DeviceNames BY DEF Registered
<1> QED BY <1>2, <1>4, <1>5 DEF IsThing, Registered, Fields, Attributes

-----------------------------------------------------------------------------
(* The plan                                                                 *)

\* An item that cannot be planned yields an operation of its own kind.
LEMMA ErrorOp ==
  ASSUME NEW key \in Entries \cup Things
  PROVE  OneOf(Error(key), Op_)
<1>1. Op("error", key, key, NoParams) \in Op_ BY NoParamsFacts DEF Op_, Op
<1> QED BY <1>1 DEF Error, OneOf

\* An operation about a thing, with settings, is one of the operations.
LEMMA GoodOp ==
  ASSUME NEW key \in Entries \cup Things, NEW t \in Things, NEW kind \in {"update", "restore", "forget"},
         NEW params \in Settings
  PROVE  OneOf(<<Op(kind, key, t, params)>>, Op_)
<1>1. Op(kind, key, t, params) \in Op_ BY DEF Op_, Op
<1> QED BY <1>1 DEF OneOf

PlanContext == TypeOK /\ Loaded

\* Items of a manifest that loads hold settings.
LEMMA FieldsTyped ==
  ASSUME PlanContext, NEW i \in Entries \cup Entities, Declared(i)
  PROVE  FieldsOf(i) \in Settings
<1>1. desired[i] # Malformed BY DEF PlanContext, Loaded, MatchesValid, FieldsValid
<1> QED BY <1>1, CustomizeAssumption DEF CustomizeAssumption, PlanContext, TypeOK, Declared, FieldsOf

\* Recorded originals need no sanitizing: an integration is never recorded.
LEMMA Sanitary ==
  ASSUME NEW r \in Settings
  PROVE  Sanitized(r) = r
<1>1. r = [f \in DOMAIN r |-> r[f]] /\ DOMAIN r \subseteq Fields
      /\ ("disabled" \in DOMAIN r => r["disabled"] \in {None, "user"})
  BY SettingsFacts
<1>2. "disabled" \in DOMAIN r => r["disabled"] # "integration"
  BY <1>1, CustomizeAssumption DEF CustomizeAssumption
<1>3. {x \in DOMAIN r : x = "disabled" => r[x] # "integration"} = DOMAIN r BY <1>2
<1> QED BY <1>1, <1>3 DEF Sanitized

\* Updates are operations.
LEMMA PlanUpdateTyped ==
  ASSUME PlanContext, NEW i \in Entries \cup Entities, Declared(i), NEW t \in Things, NEW g
  PROVE  OneOf(PlanUpdate(i, t, g), Op_)
<1>1. FieldsOf(i) \in Settings BY FieldsTyped
<1>2. OneOf(<<Op("update", i, t, FieldsOf(i))>>, Op_) BY <1>1, GoodOp DEF Things
<1>3. OneOf(Error(i), Op_) BY ErrorOp DEF Things
<1> QED BY <1>2, <1>3 DEF PlanUpdate, OneOf

\* A match that is unique is a device.
LEMMA Single ==
  ASSUME NEW e, Cardinality(MatchDevices(e)) = 1
  PROVE  \E d \in Devices : MatchDevices(e) = {d}
<1>1. IsFiniteSet(MatchDevices(e))
  BY CustomizeAssumption, FS_Subset DEF MatchDevices, Things, CustomizeAssumption
<1>2. PICK d : MatchDevices(e) = {d} BY <1>1, FS_Singleton
<1> QED BY <1>2 DEF MatchDevices

\* So are what an entry of devices.yaml yields,
LEMMA PlanEntryTyped ==
  ASSUME PlanContext, NEW e \in Entries
  PROVE  OneOf(PlanEntry(e), Op_)
<1>1. OneOf(Error(e), Op_) BY ErrorOp
<1>2. OneOf(<<>>, Op_) BY DEF OneOf
<1>3. ASSUME Declared(e), Cardinality(MatchDevices(e)) = 1
      PROVE  LET d == CHOOSE x \in MatchDevices(e) : TRUE
             IN OneOf(PlanUpdate(e, d, "disabled" \in DOMAIN FieldsOf(e) /\ DisabledByGuard(d, live)), Op_)
  <2>1. PICK d \in Devices : MatchDevices(e) = {d} BY <1>3, Single
  <2>2. (CHOOSE x \in MatchDevices(e) : TRUE) = d BY <2>1
  <2> QED BY <2>2, <1>3, PlanUpdateTyped DEF Things
<1> QED BY <1>1, <1>2, <1>3 DEF PlanEntry

\* what a device nobody declares any more yields,
LEMMA PlanDeviceRestoreTyped ==
  ASSUME PlanContext, NEW d \in Devices
  PROVE  OneOf(PlanDeviceRestore(d), Op_)
<1>1. OneOf(Error(d), Op_) /\ OneOf(<<>>, Op_) BY ErrorOp DEF OneOf, Things
<1>2. ASSUME saved[d] # Unrecorded PROVE Sanitized(saved[d]) \in Settings
  <2>1. saved[d] \in Settings BY <1>2 DEF PlanContext, TypeOK, Things
  <2> QED BY <2>1, Sanitary
<1>3. OneOf(<<Op("forget", d, d, NoParams)>>, Op_) BY GoodOp, NoParamsFacts DEF Things
<1>4. saved[d] # Unrecorded => OneOf(<<Op("restore", d, d, Sanitized(saved[d]))>>, Op_) BY <1>2, GoodOp DEF Things
<1> QED BY <1>1, <1>3, <1>4 DEF PlanDeviceRestore

\* and what an entity yields.
LEMMA PlanEntityTyped ==
  ASSUME PlanContext, NEW x \in Entities
  PROVE  OneOf(PlanEntity(x), Op_) /\ OneOf(PlanEntityRestore(x), Op_)
<1>1. OneOf(Error(x), Op_) /\ OneOf(<<>>, Op_) BY ErrorOp DEF OneOf, Things
<1>2. Declared(x) => OneOf(PlanUpdate(x, x, FALSE), Op_) BY PlanUpdateTyped DEF Things
<1>3. saved[x] # Unrecorded => OneOf(<<Op("restore", x, x, Sanitized(saved[x]))>>, Op_)
  <2>1. ASSUME saved[x] # Unrecorded PROVE Sanitized(saved[x]) \in Settings
    <3>1. saved[x] \in Settings BY <2>1 DEF PlanContext, TypeOK, Things
    <3> QED BY <3>1, Sanitary
  <2> QED BY <2>1, GoodOp DEF Things
<1> QED BY <1>1, <1>2, <1>3 DEF PlanEntity, PlanEntityRestore

\* Each item is visited, and nothing else.
LEMMA Visits ==
  Visited(EntryOrder, Entries) /\ Visited(Only(Devices), Devices) /\ Visited(Only(Entities), Entities)
<1>1. /\ ThingOrder \in Seq(Things) /\ EntryOrder \in Seq(Entries)
      /\ \A t \in Things : \E i \in DOMAIN ThingOrder : ThingOrder[i] = t
      /\ \A e \in Entries : \E i \in DOMAIN EntryOrder : EntryOrder[i] = e
  BY CustomizeAssumption DEF CustomizeAssumption
<1>2. ASSUME NEW S, S \subseteq Things
      PROVE  Only(S) \in Seq(S) /\ {Only(S)[i] : i \in 1 .. Len(Only(S))} = S
  <2> DEFINE at == {i \in DOMAIN ThingOrder : ThingOrder[i] \in S}
  <2>1. Only(S) \in Seq(Things) /\ ToSet(Only(S)) = {ThingOrder[i] : i \in at \cap DOMAIN ThingOrder}
    BY <1>1, SelectMembers DEF Only
  <2>2. {ThingOrder[i] : i \in at \cap DOMAIN ThingOrder} = S BY <1>1, <1>2
  <2>3. DOMAIN Only(S) = 1 .. Len(Only(S)) BY <2>1
  <2>4. {Only(S)[i] : i \in 1 .. Len(Only(S))} = S BY <2>1, <2>2, <2>3 DEF ToSet
  <2>5. Only(S) \in Seq(S)
    <3>1. \A i \in 1 .. Len(Only(S)) : Only(S)[i] \in S BY <2>4
    <3> QED BY <2>1, <3>1
  <2> QED BY <2>4, <2>5
<1>3. {EntryOrder[i] : i \in 1 .. Len(EntryOrder)} = Entries BY <1>1
<1> QED BY <1>1, <1>2, <1>3 DEF Things, Visited

\* What the loops of the planner append for each item.
EntryPlan == [e \in Entries |-> PlanEntry(e)]
DevicePlan == [d \in Devices |-> PlanDeviceRestore(d)]
EntityPlan == [x \in Entities |-> PlanEntity(x)]
ReturnPlan == [x \in Entities |-> PlanEntityRestore(x)]
EntryLoop == FlattenSeq(Each(EntryOrder, EntryPlan))
DeviceLoop == FlattenSeq(Each(Only(Devices), DevicePlan))
EntityLoop == FlattenSeq(Each(Only(Entities), EntityPlan))
ReturnLoop == FlattenSeq(Each(Only(Entities), ReturnPlan))

\* A plan is what four loops append.
LEMMA PlanLoops ==
  ASSUME PlanContext
  PROVE  /\ Plan = (EntryLoop \o DeviceLoop) \o (EntityLoop \o ReturnLoop)
         /\ Yields(EntryPlan, Entries, Op_) /\ Yields(DevicePlan, Devices, Op_)
         /\ Yields(EntityPlan, Entities, Op_) /\ Yields(ReturnPlan, Entities, Op_)
<1>1. Over(EntryOrder, PlanEntry) = EntryLoop
  <2>1. [i \in DOMAIN EntryOrder |-> PlanEntry(EntryOrder[i])] = [i \in DOMAIN EntryOrder |-> EntryPlan[EntryOrder[i]]]
    BY Visits DEF Visited, EntryPlan
  <2> QED BY <2>1 DEF Over, Each, EntryLoop
<1>2. Over(Only(Devices), PlanDeviceRestore) = DeviceLoop
  <2>1. [i \in DOMAIN Only(Devices) |-> PlanDeviceRestore(Only(Devices)[i])]
          = [i \in DOMAIN Only(Devices) |-> DevicePlan[Only(Devices)[i]]]
    BY Visits DEF Visited, DevicePlan
  <2> QED BY <2>1 DEF Over, Each, DeviceLoop
<1>3. Over(Only(Entities), PlanEntity) = EntityLoop
  <2>1. [i \in DOMAIN Only(Entities) |-> PlanEntity(Only(Entities)[i])]
          = [i \in DOMAIN Only(Entities) |-> EntityPlan[Only(Entities)[i]]]
    BY Visits DEF Visited, EntityPlan
  <2> QED BY <2>1 DEF Over, Each, EntityLoop
<1>4. Over(Only(Entities), PlanEntityRestore) = ReturnLoop
  <2>1. [i \in DOMAIN Only(Entities) |-> PlanEntityRestore(Only(Entities)[i])]
          = [i \in DOMAIN Only(Entities) |-> ReturnPlan[Only(Entities)[i]]]
    BY Visits DEF Visited, ReturnPlan
  <2> QED BY <2>1 DEF Over, Each, ReturnLoop
<1>5. Plan = (EntryLoop \o DeviceLoop) \o (EntityLoop \o ReturnLoop)
  BY <1>1, <1>2, <1>3, <1>4, Zenon DEF Plan, PlanDevices, PlanEntities
<1>6. Yields(EntryPlan, Entries, Op_) BY PlanEntryTyped DEF Yields, EntryPlan
<1>7. Yields(DevicePlan, Devices, Op_) BY PlanDeviceRestoreTyped DEF Yields, DevicePlan
<1>8. Yields(EntityPlan, Entities, Op_) BY PlanEntityTyped DEF Yields, EntityPlan
<1>9. Yields(ReturnPlan, Entities, Op_) BY PlanEntityTyped DEF Yields, ReturnPlan
<1> QED BY <1>5, <1>6, <1>7, <1>8, <1>9

\* What each of them collects.
LEMMA LoopMembers ==
  ASSUME PlanContext
  PROVE  /\ EntryLoop \in Seq(Op_) /\ ToSet(EntryLoop) = Collected(EntryPlan, Entries)
         /\ DeviceLoop \in Seq(Op_) /\ ToSet(DeviceLoop) = Collected(DevicePlan, Devices)
         /\ EntityLoop \in Seq(Op_) /\ ToSet(EntityLoop) = Collected(EntityPlan, Entities)
         /\ ReturnLoop \in Seq(Op_) /\ ToSet(ReturnLoop) = Collected(ReturnPlan, Entities)
<1>1. /\ Yields(EntryPlan, Entries, Op_) /\ Yields(DevicePlan, Devices, Op_)
      /\ Yields(EntityPlan, Entities, Op_) /\ Yields(ReturnPlan, Entities, Op_)
      /\ Visited(EntryOrder, Entries) /\ Visited(Only(Devices), Devices) /\ Visited(Only(Entities), Entities)
  BY PlanLoops, Visits
<1>2. EntryLoop \in Seq(Op_) /\ ToSet(EntryLoop) = Collected(EntryPlan, Entries)
  BY ONLY <1>1, Concatenated, Zenon DEF EntryLoop
<1>3. DeviceLoop \in Seq(Op_) /\ ToSet(DeviceLoop) = Collected(DevicePlan, Devices)
  BY ONLY <1>1, Concatenated, Zenon DEF DeviceLoop
<1>4. EntityLoop \in Seq(Op_) /\ ToSet(EntityLoop) = Collected(EntityPlan, Entities)
  BY ONLY <1>1, Concatenated, Zenon DEF EntityLoop
<1>5. ReturnLoop \in Seq(Op_) /\ ToSet(ReturnLoop) = Collected(ReturnPlan, Entities)
  BY ONLY <1>1, Concatenated, Zenon DEF ReturnLoop
<1> QED BY ONLY <1>2, <1>3, <1>4, <1>5

\* Four sequences one after the other.
LEMMA FourMembers ==
  ASSUME NEW W, NEW s1 \in Seq(W), NEW s2 \in Seq(W), NEW s3 \in Seq(W), NEW s4 \in Seq(W)
  PROVE  /\ (s1 \o s2) \o (s3 \o s4) \in Seq(W)
         /\ ToSet((s1 \o s2) \o (s3 \o s4)) = (ToSet(s1) \cup ToSet(s2)) \cup (ToSet(s3) \cup ToSet(s4))
<1> DEFINE A == s1 \o s2
           B == s3 \o s4
<1>1. A \in Seq(W) /\ ToSet(A) = ToSet(s1) \cup ToSet(s2) BY ConcatMembers, Zenon
<1>2. B \in Seq(W) /\ ToSet(B) = ToSet(s3) \cup ToSet(s4) BY ConcatMembers, Zenon
<1> HIDE DEF A, B
<1>3. (A \o B) \in Seq(W) /\ ToSet(A \o B) = ToSet(A) \cup ToSet(B) BY ONLY <1>1, <1>2, ConcatMembers
<1> QED BY ONLY <1>1, <1>2, <1>3 DEF A, B

\* The operations of a plan are those of its items.
LEMMA PlanMembers ==
  ASSUME PlanContext
  PROVE  /\ Plan \in Seq(Op_)
         /\ \A op : op \in ToSet(Plan) <=>
              \/ \E e \in Entries : op \in ToSet(PlanEntry(e))
              \/ \E d \in Devices : op \in ToSet(PlanDeviceRestore(d))
              \/ \E x \in Entities : op \in ToSet(PlanEntity(x)) \cup ToSet(PlanEntityRestore(x))
<1>1. /\ Plan \in Seq(Op_)
      /\ ToSet(Plan) = (ToSet(EntryLoop) \cup ToSet(DeviceLoop)) \cup (ToSet(EntityLoop) \cup ToSet(ReturnLoop))
  <2>1. Plan = (EntryLoop \o DeviceLoop) \o (EntityLoop \o ReturnLoop) BY PlanLoops
  <2>2. EntryLoop \in Seq(Op_) /\ DeviceLoop \in Seq(Op_) /\ EntityLoop \in Seq(Op_) /\ ReturnLoop \in Seq(Op_)
    BY LoopMembers
  <2> QED BY ONLY <2>1, <2>2, FourMembers
<1>2. \A op : /\ op \in ToSet(EntryLoop) <=> \E e \in Entries : op \in ToSet(PlanEntry(e))
              /\ op \in ToSet(DeviceLoop) <=> \E d \in Devices : op \in ToSet(PlanDeviceRestore(d))
              /\ op \in ToSet(EntityLoop) <=> \E x \in Entities : op \in ToSet(PlanEntity(x))
              /\ op \in ToSet(ReturnLoop) <=> \E x \in Entities : op \in ToSet(PlanEntityRestore(x))
  BY LoopMembers DEF Collected, EntryPlan, DevicePlan, EntityPlan, ReturnPlan
<1> QED BY <1>1, <1>2

\* What an operation finds, records and lays over a thing.
LEMMA FetchedTyped ==
  ASSUME TypeOK, NEW t \in Things, NEW p \in Settings
  PROVE  [f \in DOMAIN p |-> Fetched(t, f)] \in Findings
<1> DEFINE q == [f \in DOMAIN p |-> Fetched(t, f)]
<1>1. DOMAIN p \subseteq Fields BY SettingsFacts
<1>2. fetched[t] \in Registered \cup {Gone} BY DEF TypeOK
<1>3. Fetched(t, "area") \in AreaKeys \cup {None} /\ Fetched(t, "disabled") \in {None, "user", "integration"}
  BY <1>2 DEF Fetched, Registered
<1>4. DOMAIN q = DOMAIN p /\ q = [f \in DOMAIN q |-> q[f]] /\ \A f \in DOMAIN p : q[f] = Fetched(t, f) OBVIOUS
<1> HIDE DEF q
<1>5. q \in Findings BY <1>1, <1>3, <1>4, SettingsFacts
<1> QED BY <1>5 DEF q

\* What an operation leaves recorded: of its own thing only, and of every field it sets.
LEMMA OriginalsTyped ==
  ASSUME TypeOK, NEW op \in Op_, op.kind # "error"
  PROVE  /\ Originals(op) \in [Things -> Settings \cup {Unrecorded}]
         /\ op.kind # "update" => Originals(op)[op.id] = Unrecorded
         /\ op.kind = "update" =>
              Originals(op)[op.id] \in Settings /\ DOMAIN op.params \subseteq DOMAIN Originals(op)[op.id]
         /\ \A t \in Things : t # op.id => Originals(op)[t] = originals[t]
<1>1. op.id \in Things /\ op.params \in Settings BY DEF Op_
<1>2. originals \in [Things -> Settings \cup {Unrecorded}] BY DEF TypeOK
<1> DEFINE R == Recorded(op.id)
           q == [f \in DOMAIN R \cup DOMAIN op.params |-> IF f \in DOMAIN R THEN R[f] ELSE Clamped(f, Fetched(op.id, f))]
<1>3. R \in Settings BY <1>1, <1>2, NoParamsFacts DEF Recorded
<1> HIDE DEF R
<1>4. fetched[op.id] \in Registered \cup {Gone} BY <1>1 DEF TypeOK
<1>5. Clamped("area", Fetched(op.id, "area")) \in AreaKeys \cup {None}
      /\ Clamped("disabled", Fetched(op.id, "disabled")) \in {None, "user"}
  BY <1>4 DEF Fetched, Registered, Clamped
<1>6. /\ DOMAIN R \subseteq Fields /\ DOMAIN op.params \subseteq Fields
      /\ "area" \in DOMAIN R => R["area"] \in AreaKeys \cup {None}
      /\ "disabled" \in DOMAIN R => R["disabled"] \in {None, "user"}
  BY <1>1, <1>3, SettingsFacts
<1>7. /\ DOMAIN q = DOMAIN R \cup DOMAIN op.params /\ q = [f \in DOMAIN q |-> q[f]]
      /\ \A f \in DOMAIN q : q[f] = IF f \in DOMAIN R THEN R[f] ELSE Clamped(f, Fetched(op.id, f))
  OBVIOUS
<1>8. Originals(op) = [originals EXCEPT ![op.id] = IF op.kind # "update" THEN Unrecorded ELSE q]
  BY DEF Originals, R
<1> HIDE DEF q
<1>9. q \in Settings
  <2>1. DOMAIN q \subseteq Fields BY <1>6, <1>7
  <2>2. "area" \in DOMAIN q => q["area"] \in AreaKeys \cup {None} BY <1>5, <1>6, <1>7
  <2>3. "disabled" \in DOMAIN q => q["disabled"] \in {None, "user"} BY <1>5, <1>6, <1>7
  <2> QED BY <1>7, <2>1, <2>2, <2>3, SettingsFacts
<1> QED BY <1>1, <1>2, <1>7, <1>8, <1>9

\* An operation that is accepted leaves a registered thing.
LEMMA EffectTyped ==
  ASSUME TypeOK, NEW op \in Op_, op.kind # "error", Accepts(op)
  PROVE  Effect(op) \in [Things -> Registered \cup {Gone}]
<1>1. op.id \in Things /\ op.params \in Findings BY SettingsAreFound DEF Op_
<1>2. live \in [Things -> Registered \cup {Gone}] BY DEF TypeOK
<1>3. CASE op.kind = "forget" BY <1>2, <1>3 DEF Effect
<1>4. CASE op.kind # "forget"
  <2>1. live[op.id] \in Registered BY <1>1, <1>2, <1>4 DEF Accepts
  <2>2. With(live[op.id], op.params) \in Registered BY <1>1, <2>1, LaidOver
  <2> QED BY <1>2, <1>4, <2>2 DEF Effect
<1> QED BY <1>3, <1>4

\* So does its inverse.
LEMMA InvertedTyped ==
  ASSUME TypeOK, NEW e \in Entry_, Invertible(e)
  PROVE  Inverted(e) \in [Things -> Registered \cup {Gone}]
<1>1. e.id \in Things /\ e.prior \in Findings BY DEF Entry_
<1>2. live \in [Things -> Registered \cup {Gone}] BY DEF TypeOK
<1>3. CASE e.kind = "forget" BY <1>2, <1>3 DEF Inverted
<1>4. CASE e.kind # "forget"
  <2>1. live[e.id] \in Registered BY <1>1, <1>2, <1>4 DEF Invertible
  <2>2. With(live[e.id], e.prior) \in Registered BY <1>1, <2>1, LaidOver
  <2> QED BY <1>2, <1>4, <2>2 DEF Inverted
<1> QED BY <1>3, <1>4

\* What is journalled of an operation.
LEMMA EntryTyped ==
  ASSUME TypeOK, NEW op \in Op_, op.kind # "error"
  PROVE  Entry(op) \in Entry_
<1>1. op.id \in Things /\ op.params \in Settings /\ op.key \in Entries \cup Things
      /\ op.kind \in {"update", "restore", "forget"}
  BY DEF Op_
<1>2. originals[op.id] \in Settings \cup {Unrecorded} BY <1>1 DEF TypeOK
<1>3. [f \in DOMAIN op.params |-> Fetched(op.id, f)] \in Findings BY <1>1, FetchedTyped
<1> QED BY <1>1, <1>2, <1>3 DEF Entry, Entry_

\* What an apply takes from the plan, and what is left of it.
LEMMA PlanParts ==
  ASSUME NEW ops \in Seq(Op_)
  PROVE  /\ Executable(ops) \in Seq(Op_)
         /\ \A op : op \in ToSet(Executable(ops)) <=> op \in ToSet(ops) /\ op.kind # "error"
         /\ \A S : /\ Layer(ops, S) \in Seq(Op_)
                   /\ \A op : op \in ToSet(Layer(ops, S)) <=> op \in ToSet(ops) /\ op.kind # "error" /\ op.id \in S
<1>1. DOMAIN ops = 1 .. Len(ops) /\ \A i \in DOMAIN ops : ops[i] \in Op_ BY ElementsTyped
<1>2. ToSet(ops) \subseteq Op_ BY ElementsTyped
<1>3. /\ Executable(ops) \in Seq(Op_)
      /\ \A op : op \in ToSet(Executable(ops)) <=> op \in ToSet(ops) /\ op.kind # "error"
  <2> DEFINE D == {op \in Op_ : op.kind # "error"}
  <2>1. {i \in DOMAIN ops : ops[i].kind # "error"} = {i \in DOMAIN ops : ops[i] \in D} BY <1>1
  <2>2. Executable(ops) = Select(ops, {i \in DOMAIN ops : ops[i] \in D}) BY <2>1 DEF Executable
  <2>4. \A op : op \in D <=> op \in Op_ /\ op.kind # "error" OBVIOUS
  <2> HIDE DEF D
  <2>5. /\ Select(ops, {i \in DOMAIN ops : ops[i] \in D}) \in Seq(Op_)
        /\ ToSet(Select(ops, {i \in DOMAIN ops : ops[i] \in D})) = ToSet(ops) \cap D
    BY TakenOut, Zenon
  <2>3. Executable(ops) \in Seq(Op_) /\ ToSet(Executable(ops)) = ToSet(ops) \cap D BY ONLY <2>2, <2>5, Zenon
  <2> QED BY <2>3, <2>4, <1>2
<1>4. ASSUME NEW S
      PROVE  /\ Layer(ops, S) \in Seq(Op_)
             /\ \A op : op \in ToSet(Layer(ops, S)) <=> op \in ToSet(ops) /\ op.kind # "error" /\ op.id \in S
  <2> DEFINE D == {op \in Op_ : op.kind # "error" /\ op.id \in S}
  <2>1. {i \in DOMAIN ops : ops[i].kind # "error" /\ ops[i].id \in S} = {i \in DOMAIN ops : ops[i] \in D} BY <1>1
  <2>2. Layer(ops, S) = Select(ops, {i \in DOMAIN ops : ops[i] \in D}) BY <2>1 DEF Layer
  <2>4. \A op : op \in D <=> op \in Op_ /\ op.kind # "error" /\ op.id \in S OBVIOUS
  <2> HIDE DEF D
  <2>5. /\ Select(ops, {i \in DOMAIN ops : ops[i] \in D}) \in Seq(Op_)
        /\ ToSet(Select(ops, {i \in DOMAIN ops : ops[i] \in D})) = ToSet(ops) \cap D
    BY TakenOut, Zenon
  <2>3. Layer(ops, S) \in Seq(Op_) /\ ToSet(Layer(ops, S)) = ToSet(ops) \cap D BY ONLY <2>2, <2>5, Zenon
  <2> QED BY <2>3, <2>4, <1>2
<1> QED BY <1>3, <1>4

-----------------------------------------------------------------------------
(* Types                                                                    *)

\* The parts of TypeOK, in the order of the steps that disturb them.
WorldTyped ==
  /\ desired \in Manifests /\ known \subseteq AreaKeys
  /\ live \in [Things -> Registered \cup {Gone}] /\ fetched \in [Things -> Registered \cup {Gone}]
RecordTyped ==
  /\ saved \in [Things -> Settings \cup {Unrecorded}] /\ originals \in [Things -> Settings \cup {Unrecorded}]
OpsTyped ==
  /\ plan \in Seq(Op_) /\ todo \in Seq(Op_) /\ later \in Seq(Op_)
  /\ \A op \in ToSet(todo) \cup ToSet(later) : op.kind # "error"
JournalsTyped ==
  /\ prefix \in Seq(Entry_) /\ executed \in Seq(Entry_) /\ journals \in [1 .. 2 -> Seq(Entry_)]
  /\ pos \in 0 .. Len(executed) /\ kept \subseteq DOMAIN executed
  /\ cur \in 1 .. 2 /\ pointer \in 0 .. 2 /\ savedPointer \in 0 .. 2
ControlTyped ==
  /\ phase \in {"idle", "exec", "undo", "save"} /\ mode \in {"apply", "rollback"}
  /\ outcome \in {"ok", "failed", "rolledBack", "unjournalled"}

\* TypeOK, in parts.
LEMMA TypeParts == TypeOK <=> WorldTyped /\ RecordTyped /\ OpsTyped /\ JournalsTyped /\ ControlTyped
BY DEF TypeOK, WorldTyped, RecordTyped, OpsTyped, JournalsTyped, ControlTyped

\* What the variables hold between two applies.
LEMMA BlankTyped ==
  /\ NoThings \in [Things -> Registered \cup {Gone}] /\ NoOriginals \in [Things -> Settings \cup {Unrecorded}]
  /\ \A W : <<>> \in Seq(W)
  /\ ToSet(<<>>) = {} /\ Len(<<>>) = 0 /\ DOMAIN <<>> = {}
BY DEF NoThings, NoOriginals, ToSet

\* The initial states have their types.
LEMMA InitTyped == Init => TypeOK
<1> SUFFICES ASSUME Init PROVE TypeOK OBVIOUS
<1>1. live \in [Things -> Registered \cup {Gone}] BY CustomizeAssumption DEF Init, CustomizeAssumption
<1>2. [d \in 1 .. 2 |-> <<>>] \in [1 .. 2 -> Seq(Entry_)] BY BlankTyped
<1> QED BY <1>1, <1>2, BlankTyped DEF Init, TypeOK

\* The registries keep their type.
LEMMA WorldStep == TypeOK /\ [Next]_vars => WorldTyped'
<1> SUFFICES ASSUME TypeOK, [Next]_vars PROVE WorldTyped' OBVIOUS
<1> USE DEF disk, working, history, bounds
<1>0. WorldTyped BY TypeParts
<1>a. NoThings \in [Things -> Registered \cup {Gone}] BY BlankTyped
<1>b. live \in [Things -> Registered \cup {Gone}] BY <1>0 DEF WorldTyped
<1>1. CASE UNCHANGED vars BY <1>0, <1>1 DEF vars, WorldTyped
<1>2. CASE Push BY <1>0, <1>2 DEF Push, WorldTyped
<1>3. CASE Edit
  <2>1. live' \in [Things -> Registered \cup {Gone}]
    <3>1. ASSUME NEW t \in Things, NEW v \in Registered \cup {Gone}, live' = [live EXCEPT ![t] = v]
          PROVE  live' \in [Things -> Registered \cup {Gone}]
      BY <1>b, <3>1
    <3>2. ASSUME NEW t \in Things, live[t] # Gone,
                 \/ \E a \in known \cup {None} : live' = [live EXCEPT ![t].area = a]
                 \/ \E v \in {None, "user", "integration"} : live' = [live EXCEPT ![t].disabled = v]
                 \/ \E n \in DeviceNames : live' = [live EXCEPT ![t].name = n]
          PROVE  live' \in [Things -> Registered \cup {Gone}]
      <4>1. live[t] \in Registered BY <3>2, <1>b
      <4>2. /\ \A a \in known \cup {None} : [live[t] EXCEPT !.area = a] \in Registered
            /\ \A v \in {None, "user", "integration"} : [live[t] EXCEPT !.disabled = v] \in Registered
            /\ \A n \in DeviceNames : [live[t] EXCEPT !.name = n] \in Registered
        BY <4>1, <1>0 DEF Registered, WorldTyped
      <4>3. \E v \in Registered : live' = [live EXCEPT ![t] = v]
        <5>1. CASE \E a \in known \cup {None} : live' = [live EXCEPT ![t].area = a] BY <5>1, <4>2
        <5>2. CASE \E v \in {None, "user", "integration"} : live' = [live EXCEPT ![t].disabled = v] BY <5>2, <4>2
        <5>3. CASE \E n \in DeviceNames : live' = [live EXCEPT ![t].name = n] BY <5>3, <4>2
        <5> QED BY <3>2, <5>1, <5>2, <5>3
      <4> QED BY <4>3, <3>1
    <3>3. ASSUME NEW t \in Things, NEW s \in Starts, live' = [live EXCEPT ![t] = s[t]]
          PROVE  live' \in [Things -> Registered \cup {Gone}]
      <4>1. s[t] \in Registered \cup {Gone} BY CustomizeAssumption DEF CustomizeAssumption
      <4> QED BY <4>1, <3>3, <3>1
    <3>4. ASSUME NEW a, live' = [t \in Things |-> IF live[t] # Gone /\ live[t].area = a
                                               THEN [live[t] EXCEPT !.area = None] ELSE live[t]]
          PROVE  live' \in [Things -> Registered \cup {Gone}]
      <4>1. \A v \in Registered : [v EXCEPT !.area = None] \in Registered BY DEF Registered
      <4>2. \A t \in Things : live[t] \in Registered \cup {Gone} BY <1>b
      <4>3. \A t \in Things : (IF live[t] # Gone /\ live[t].area = a
                               THEN [live[t] EXCEPT !.area = None] ELSE live[t]) \in Registered \cup {Gone}
        BY <4>1, <4>2
      <4> QED BY <3>4, <4>3
    <3>5. CASE live' = live BY <1>b, <3>5
    <3>6. ASSUME NEW t \in Things, live' = [live EXCEPT ![t] = Gone] PROVE live' \in [Things -> Registered \cup {Gone}]
      BY <3>6, <3>1
    <3>7. \/ live' = live
          \/ \E a : live' = [t \in Things |-> IF live[t] # Gone /\ live[t].area = a
                                              THEN [live[t] EXCEPT !.area = None] ELSE live[t]]
          \/ \E t \in Things : live' = [live EXCEPT ![t] = Gone]
          \/ \E t \in Things, s \in Starts : live' = [live EXCEPT ![t] = s[t]]
          \/ \E t \in Things :
               /\ live[t] # Gone
               /\ \/ \E a \in known \cup {None} : live' = [live EXCEPT ![t].area = a]
                  \/ \E v \in {None, "user", "integration"} : live' = [live EXCEPT ![t].disabled = v]
                  \/ \E n \in DeviceNames : live' = [live EXCEPT ![t].name = n]
      BY <1>3 DEF Edit
    <3> QED BY <3>2, <3>3, <3>4, <3>5, <3>6, <3>7
  <2>2. known' \subseteq AreaKeys
    <3>1. \/ known' = known
          \/ \E a \in AreaKeys : known' = known \cup {a} \/ known' = known \ {a}
      BY <1>3 DEF Edit
    <3> QED BY <3>1, <1>0 DEF WorldTyped
  <2>3. desired' = desired /\ fetched' = fetched BY <1>3 DEF Edit
  <2> QED BY <1>0, <2>1, <2>2, <2>3 DEF WorldTyped
<1>4. CASE Crash BY <1>0, <1>a, <1>4 DEF Crash, Clear, WorldTyped
<1>5. CASE Reconcile BY <1>0, <1>5 DEF Reconcile, WorldTyped
<1>6. CASE StartApply
  <2>1. fetched' = live \/ fetched' = NoThings BY <1>6 DEF StartApply, BeginLayer
  <2>2. UNCHANGED <<desired, known, live>> BY <1>6 DEF StartApply
  <2> QED BY <1>0, <1>a, <2>1, <2>2 DEF WorldTyped
<1>7. CASE NextLayer
  <2>1. fetched' = live \/ fetched' = NoThings BY <1>7 DEF NextLayer, BeginLayer
  <2>2. UNCHANGED <<desired, known, live>> BY <1>7 DEF NextLayer
  <2> QED BY <1>0, <1>a, <2>1, <2>2 DEF WorldTyped
<1>8. ASSUME todo # <<>> PROVE Head(todo) \in Op_ /\ Head(todo).kind # "error"
  BY <1>8, ElementsTyped DEF TypeOK
<1>9. CASE ExecuteOne
  <2>1. live' = Effect(Head(todo)) /\ Accepts(Head(todo)) /\ todo # <<>> BY <1>9 DEF ExecuteOne
  <2>2. live' \in [Things -> Registered \cup {Gone}] BY <2>1, <1>8, EffectTyped
  <2> QED BY <1>0, <1>9, <2>2 DEF ExecuteOne, WorldTyped
<1>10. CASE OpFails
  <2>1. live' = live \/ (live' = Effect(Head(todo)) /\ Accepts(Head(todo))) BY <1>10 DEF OpFails
  <2>2. todo # <<>> /\ UNCHANGED <<desired, known, fetched>> BY <1>10 DEF OpFails
  <2>3. live' \in [Things -> Registered \cup {Gone}] BY <2>1, <2>2, <1>b, <1>8, EffectTyped
  <2> QED BY <1>0, <2>2, <2>3 DEF WorldTyped
<1>11. CASE ApplyDone BY <1>0, <1>11 DEF ApplyDone, WorldTyped
<1>12. CASE UndoOne
  <2> DEFINE e == executed[pos]
  <2>1. e \in Entry_
    <3>1. pos \in DOMAIN executed /\ executed \in Seq(Entry_) BY <1>12, ElementsTyped DEF UndoOne, TypeOK
    <3> QED BY <3>1
  <2>2. live' = live \/ (live' = Inverted(e) /\ Invertible(e)) BY <1>12 DEF UndoOne
  <2>3. UNCHANGED <<desired, known, fetched>> BY <1>12 DEF UndoOne
  <2> HIDE DEF e
  <2>4. live' \in [Things -> Registered \cup {Gone}] BY <2>1, <2>2, <1>b, InvertedTyped
  <2> QED BY <1>0, <2>3, <2>4 DEF WorldTyped
<1>13. CASE UndoDone BY <1>0, <1>13 DEF UndoDone, WorldTyped
<1>14. CASE StartRollback BY <1>0, <1>a, <1>14 DEF StartRollback, WorldTyped
<1>15. CASE StateSave BY <1>0, <1>a, <1>15 DEF StateSave, Clear, WorldTyped
<1> QED
  BY <1>1, <1>2, <1>3, <1>4, <1>5, <1>6, <1>7, <1>9, <1>10, <1>11, <1>12, <1>13, <1>14, <1>15 DEF Next

\* So do the recorded originals,
LEMMA RecordStep == TypeOK /\ [Next]_vars => RecordTyped'
<1> SUFFICES ASSUME TypeOK, [Next]_vars PROVE RecordTyped' OBVIOUS
<1> USE DEF disk, working, history, bounds
<1>0. RecordTyped BY TypeParts
<1>a. NoOriginals \in [Things -> Settings \cup {Unrecorded}] BY BlankTyped
<1>1. CASE ExecuteOne
  <2>1. Head(todo) \in Op_ /\ Head(todo).kind # "error" BY <1>1, ElementsTyped DEF TypeOK, ExecuteOne
  <2>2. originals' \in [Things -> Settings \cup {Unrecorded}] BY <2>1, <1>1, OriginalsTyped DEF ExecuteOne
  <2> QED BY <1>0, <1>1, <2>2 DEF ExecuteOne, RecordTyped
<1>2. CASE UndoOne
  <2> DEFINE e == executed[pos]
  <2>1. e \in Entry_
    <3>1. pos \in DOMAIN executed /\ executed \in Seq(Entry_) BY <1>2, ElementsTyped DEF UndoOne, TypeOK
    <3> QED BY <3>1
  <2>2. originals' = originals \/ originals' = [originals EXCEPT ![e.id] = e.snapshot] BY <1>2 DEF UndoOne
  <2>3. e.id \in Things /\ e.snapshot \in Settings \cup {Unrecorded} BY <2>1 DEF Entry_
  <2>4. saved' = saved BY <1>2 DEF UndoOne
  <2> HIDE DEF e
  <2> QED BY <1>0, <2>2, <2>3, <2>4 DEF RecordTyped
<1>3. CASE ~ExecuteOne /\ ~UndoOne
  <2>1. saved' \in {saved, originals} /\ originals' \in {saved, originals, NoOriginals}
    BY <1>3 DEF Next, vars, Push, Edit, Crash, Clear, Reconcile, StartApply, BeginLayer, NextLayer, OpFails,
                ApplyDone, UndoDone, StartRollback, StateSave
  <2> QED BY <2>1, <1>0, <1>a DEF RecordTyped
<1> QED BY <1>1, <1>2, <1>3

\* where the apply stands,
LEMMA ControlStep == TypeOK /\ [Next]_vars => ControlTyped'
<1> SUFFICES ASSUME TypeOK, [Next]_vars PROVE ControlTyped' OBVIOUS
<1> USE DEF disk, working, history, bounds
<1>0. ControlTyped BY TypeParts
<1> QED BY <1>0 DEF ControlTyped, Next, vars, Push, Edit, Crash, Clear, Reconcile, StartApply, BeginLayer, NextLayer,
                OpFails, ExecuteOne, UndoOne, ApplyDone, UndoDone, StartRollback, StateSave

\* No operation that could not be planned is executed.
Sound(ops) == ops \in Seq(Op_) /\ \A op \in ToSet(ops) : op.kind # "error"

\* A layer is made of operations that could be planned.
LEMMA LayersSound == ASSUME NEW ops \in Seq(Op_), NEW S PROVE Sound(Layer(ops, S))
BY PlanParts DEF Sound

\* A plan is a sequence of operations,
LEMMA PlanTyped == TypeOK => (Loaded => Plan \in Seq(Op_))
BY PlanMembers DEF PlanContext

\* and so is what is left of it.
LEMMA StillPendingTyped == TypeOK => StillPending \in Seq(Op_)
BY SelectMembers DEF StillPending, TypeOK

\* the pending operations,
LEMMA OpsStep == TypeOK /\ [Next]_vars => OpsTyped'
<1> SUFFICES ASSUME TypeOK, [Next]_vars PROVE OpsTyped' OBVIOUS
<1> USE DEF disk, working, history, bounds
<1>0. plan \in Seq(Op_) /\ Sound(todo) /\ Sound(later) /\ Sound(<<>>) BY BlankTyped DEF TypeOK, Sound
<1>a. SUFFICES plan' \in Seq(Op_) /\ Sound(todo') /\ Sound(later') BY DEF OpsTyped, Sound
<1>1. plan' \in Seq(Op_)
  <2>1. \/ plan' = plan \/ plan' = <<>>
        \/ Loaded /\ plan' = Plan
        \/ plan' = StillPending
    BY DEF Next, vars, Push, Edit, Crash, Reconcile, StartApply, NextLayer, OpFails, ExecuteOne, UndoOne,
           ApplyDone, UndoDone, StartRollback, StateSave
  <2> QED BY <2>1, <1>0, BlankTyped, PlanTyped, StillPendingTyped
<1>2. CASE StartApply
  <2>1. \/ BeginLayer(Layer(plan, Devices), <<>>) /\ later' = Layer(plan, Entities)
        \/ BeginLayer(Layer(plan, Entities), <<>>) /\ later' = <<>>
    BY <1>2 DEF StartApply
  <2>2. Sound(Layer(plan, Devices)) /\ Sound(Layer(plan, Entities)) BY <1>0, LayersSound
  <2> QED BY <1>0, <1>1, <2>1, <2>2 DEF BeginLayer
<1>3. CASE ~StartApply
  <2>1. \/ todo' = todo \/ todo' = <<>> \/ todo' = later
        \/ todo # <<>> /\ todo' = Tail(todo)
    BY <1>3 DEF Next, vars, Push, Edit, Crash, Clear, Reconcile, NextLayer, BeginLayer, OpFails, ExecuteOne, UndoOne,
           ApplyDone, UndoDone, StartRollback, StateSave
  <2>2. later' = later \/ later' = <<>>
    BY <1>3 DEF Next, vars, Push, Edit, Crash, Clear, Reconcile, NextLayer, BeginLayer, OpFails, ExecuteOne, UndoOne,
           ApplyDone, UndoDone, StartRollback, StateSave
  <2>3. todo # <<>> => Sound(Tail(todo)) BY <1>0, ElementsTyped DEF Sound
  <2> QED BY <1>0, <1>1, <2>1, <2>2, <2>3
<1> QED BY <1>2, <1>3

\* What an undo leaves of the journal.
LEMMA LeftTyped == ASSUME TypeOK, NEW S PROVE Left(S) \in Seq(Entry_)
<1>1. prefix \in Seq(Entry_) /\ executed \in Seq(Entry_) BY DEF TypeOK
<1>2. Select(executed, (1 .. (pos - 1)) \cup S) \in Seq(Entry_) BY <1>1, SelectMembers
<1> DEFINE u == Select(executed, (1 .. (pos - 1)) \cup S)
<1> HIDE DEF u
<1>3. prefix \o u \in Seq(Entry_) BY <1>1, <1>2 DEF u
<1> QED BY <1>3 DEF Left, u

\* and the journals.
LEMMA JournalsStep == TypeOK /\ [Next]_vars => JournalsTyped'
<1> SUFFICES ASSUME TypeOK, [Next]_vars PROVE JournalsTyped' OBVIOUS
<1> USE DEF disk, working, history, bounds
<1>0. JournalsTyped BY TypeParts
<1>a. <<>> \in Seq(Entry_) /\ Len(<<>>) = 0 BY BlankTyped
<1>1. CASE StartApply
  <2>1. /\ prefix' = <<>> /\ executed' = <<>> /\ kept' = {} /\ pos' = 0 /\ cur' \in 1 .. 2
        /\ journals' = [journals EXCEPT ![cur'] = <<>>] /\ UNCHANGED <<pointer, savedPointer>>
    BY <1>1 DEF StartApply, BeginLayer
  <2> QED BY <2>1, <1>0, <1>a DEF JournalsTyped
<1>2. CASE NextLayer
  <2>1. /\ prefix' = prefix \o executed /\ executed' = <<>> /\ kept' = {} /\ pos' = 0
        /\ UNCHANGED <<journals, pointer, savedPointer, cur>>
    BY <1>2 DEF NextLayer, BeginLayer
  <2> QED BY <2>1, <1>0, <1>a DEF JournalsTyped
<1>3. CASE ExecuteOne
  <2> DEFINE e == Entry(Head(todo))
  <2>1. e \in Entry_
    <3>1. Head(todo) \in Op_ /\ Head(todo).kind # "error" BY <1>3, ElementsTyped DEF TypeOK, ExecuteOne
    <3> QED BY <3>1, EntryTyped
  <2>2. executed' = Append(executed, e) BY <1>3 DEF ExecuteOne
  <2>3. journals' = journals \/ journals' = [journals EXCEPT ![cur] = prefix \o executed'] BY <1>3 DEF ExecuteOne
  <2>4. UNCHANGED <<prefix, kept, pos, cur, pointer, savedPointer>> BY <1>3 DEF ExecuteOne
  <2> HIDE DEF e
  <2>5. executed' \in Seq(Entry_) /\ Len(executed') = Len(executed) + 1 /\ DOMAIN executed \subseteq DOMAIN executed'
        /\ Len(executed) \in Nat
    BY <2>1, <2>2, <1>0 DEF JournalsTyped
  <2>6. prefix \o executed' \in Seq(Entry_) BY <2>5, <1>0 DEF JournalsTyped
  <2>7. journals' \in [1 .. 2 -> Seq(Entry_)] BY <2>3, <2>6, <1>0 DEF JournalsTyped
  <2>8. pos \in 0 .. Len(executed) + 1 BY <1>0, <2>5 DEF JournalsTyped
  <2> QED BY <2>4, <2>5, <2>7, <2>8, <1>0 DEF JournalsTyped
<1>4. CASE OpFails
  <2>1. Len(executed) \in 0 .. Len(executed) BY <1>0, ElementsTyped DEF JournalsTyped
  <2>2. pos' = Len(executed) /\ UNCHANGED <<prefix, executed, journals, kept, cur, pointer, savedPointer>>
    BY <1>4 DEF OpFails
  <2> QED BY <2>1, <2>2, <1>0 DEF JournalsTyped
<1>5. CASE UndoOne
  <2>1. /\ pos > 0 /\ pos' = pos - 1 /\ UNCHANGED <<prefix, executed, cur, pointer, savedPointer>>
        /\ kept' \in {kept, kept \cup {pos}}
        /\ journals' = journals \/ journals' = [journals EXCEPT ![cur] = Left(kept)]
    BY <1>5 DEF UndoOne
  <2>2. pos - 1 \in 0 .. Len(executed) /\ pos \in DOMAIN executed BY <2>1, <1>0, ElementsTyped DEF JournalsTyped
  <2>3. journals' \in [1 .. 2 -> Seq(Entry_)] BY <2>1, <1>0, LeftTyped DEF JournalsTyped
  <2> QED BY <2>1, <2>2, <2>3, <1>0 DEF JournalsTyped
<1>6. CASE StartRollback
  <2>1. /\ prefix' = <<>> /\ kept' = {} /\ executed' = journals[pointer] /\ pos' = Len(executed') /\ cur' = pointer
        /\ pointer # 0 /\ UNCHANGED <<journals, pointer, savedPointer>>
    BY <1>6 DEF StartRollback
  <2>2. pointer \in 1 .. 2 BY <2>1, <1>0 DEF JournalsTyped
  <2>3. executed' \in Seq(Entry_) BY <2>1, <2>2, <1>0 DEF JournalsTyped
  <2>4. Len(executed') \in 0 .. Len(executed') BY <2>3, ElementsTyped
  <2> QED BY <2>1, <2>2, <2>3, <2>4, <1>0, <1>a DEF JournalsTyped
<1>7. CASE Crash \/ StateSave
  <2>1. Clear /\ journals' = journals BY <1>7 DEF Crash, StateSave
  <2>2. pointer' \in {0, pointer, savedPointer, cur} /\ savedPointer' \in {0, savedPointer, pointer, cur}
    BY <1>7 DEF Crash, StateSave
  <2>3. /\ prefix' = <<>> /\ executed' = <<>> /\ kept' = {} /\ pos' = 0 /\ cur' = 1 BY <2>1 DEF Clear
  <2> QED BY <2>1, <2>2, <2>3, <1>0, <1>a DEF JournalsTyped
<1>8. CASE UNCHANGED <<prefix, executed, journals, kept, pos, cur, pointer, savedPointer>>
  BY <1>8, <1>0 DEF JournalsTyped
<1> QED BY <1>1, <1>2, <1>3, <1>4, <1>5, <1>6, <1>7, <1>8
    DEF Next, vars, Push, Edit, Reconcile, ApplyDone, UndoDone

\* Every variable of the layers has its type; an operation is about a device
\* or an entity, sets an area and a flag a manifest may set, and nothing that
\* could not be planned is executed (devices/plan.go, entities/plan.go,
\* regapply/execute.go).
THEOREM TypeCorrect == Spec => []TypeOK
<1>1. TypeOK /\ [Next]_vars => TypeOK'
  <2>1. SUFFICES ASSUME TypeOK, [Next]_vars PROVE TypeOK' OBVIOUS
  <2>2. WorldTyped' /\ RecordTyped' /\ OpsTyped' /\ JournalsTyped' /\ ControlTyped'
    BY <2>1, WorldStep, RecordStep, OpsStep, JournalsStep, ControlStep
  <2> QED BY <2>2 DEF TypeOK, WorldTyped, RecordTyped, OpsTyped, JournalsTyped, ControlTyped
<1> QED BY <1>1, InitTyped, PTL DEF Spec

-----------------------------------------------------------------------------
(* What an integration turned off                                           *)

\* Undoing the entry says nothing about a flag its integration had set when
\* the layer looked.
Careful(e) ==
  e.kind # "forget" /\ "disabled" \in DOMAIN e.prior =>
    ~DisabledByGuard(e.id, fetched) /\ e.prior["disabled"] # "integration"

\* What is off by its integration was so when the layer looked, if nobody
\* else touched it since.
GuardOK ==
  (phase = "exec" \/ phase = "undo") /\ mode = "apply" =>
    /\ \A t \in Things \ raced : DisabledByGuard(t, live) => DisabledByGuard(t, fetched)
    /\ \A i \in DOMAIN executed : Careful(executed[i])

\* An operation does not touch such a flag.
LEMMA EffectDecides ==
  ASSUME TypeOK, NEW op \in Op_, op.kind # "error", Accepts(op), NEW t \in Things,
         DisabledByGuard(t, live) => DisabledByGuard(t, fetched)
  PROVE  /\ DisabledByGuard(t, live) => Effect(op)[t].disabled = "integration"
         /\ DisabledByGuard(t, Effect(op)) => DisabledByGuard(t, live)
<1>1. op.id \in Things /\ op.params \in Settings /\ live \in [Things -> Registered \cup {Gone}]
  BY DEF Op_, TypeOK
<1>2. CASE op.kind = "forget" \/ op.id # t
  <2>1. Effect(op)[t] = live[t] BY <1>1, <1>2 DEF Effect
  <2> QED BY <2>1 DEF DisabledByGuard
<1>3. CASE op.kind # "forget" /\ op.id = t
  <2>1. live[t] # Gone /\ live[t] \in Registered /\ ~ApplyGuard(op) BY <1>1, <1>3 DEF Accepts
  <2>2. Effect(op)[t] = With(live[t], op.params) BY <1>1, <1>3 DEF Effect
  <2>4. With(live[t], op.params)["disabled"]
          = IF "disabled" \in DOMAIN op.params THEN op.params["disabled"] ELSE live[t]["disabled"]
    BY <2>1, <1>1, LaidOver, SettingsAreFound DEF Fields
  <2>5. "disabled" \in DOMAIN op.params => op.params["disabled"] # "integration"
    BY <1>1, SettingsFacts, CustomizeAssumption DEF CustomizeAssumption
  <2>6. "disabled" \in DOMAIN op.params => ~DisabledByGuard(t, fetched)
    BY <2>1, <1>3 DEF ApplyGuard
  <2> QED BY <2>1, <2>2, <2>4, <2>5, <2>6 DEF DisabledByGuard
<1> QED BY <1>2, <1>3

\* Nor does its inverse.
LEMMA InverseDecides ==
  ASSUME TypeOK, NEW e \in Entry_, Invertible(e), Careful(e), NEW t \in Things,
         DisabledByGuard(t, live) => DisabledByGuard(t, fetched)
  PROVE  /\ DisabledByGuard(t, live) => Inverted(e)[t].disabled = "integration"
         /\ DisabledByGuard(t, Inverted(e)) => DisabledByGuard(t, live)
<1>1. e.id \in Things /\ e.prior \in Findings /\ live \in [Things -> Registered \cup {Gone}]
  BY DEF Entry_, TypeOK
<1>2. CASE e.kind = "forget" \/ e.id # t
  <2>1. Inverted(e)[t] = live[t] BY <1>1, <1>2 DEF Inverted
  <2> QED BY <2>1 DEF DisabledByGuard
<1>3. CASE e.kind # "forget" /\ e.id = t
  <2>1. live[t] # Gone /\ live[t] \in Registered BY <1>1, <1>3 DEF Invertible
  <2>2. Inverted(e)[t] = With(live[t], e.prior) BY <1>1, <1>3 DEF Inverted
  <2>3. With(live[t], e.prior)["disabled"]
          = IF "disabled" \in DOMAIN e.prior THEN e.prior["disabled"] ELSE live[t]["disabled"]
    BY <2>1, <1>1, LaidOver DEF Fields
  <2>4. "disabled" \in DOMAIN e.prior => e.prior["disabled"] # "integration" /\ ~DisabledByGuard(t, fetched)
    BY <1>3 DEF Careful
  <2> QED BY <2>1, <2>2, <2>3, <2>4 DEF DisabledByGuard
<1> QED BY <1>2, <1>3

\* An operation that is accepted leaves an entry that is careful.
LEMMA EntryIsCareful ==
  ASSUME TypeOK, NEW op \in Op_, op.kind # "error", Accepts(op)
  PROVE  Careful(Entry(op))
<1> DEFINE e == Entry(op)
<1>1. /\ e.kind = op.kind /\ e.id = op.id /\ e.prior = [f \in DOMAIN op.params |-> Fetched(op.id, f)]
  BY DEF Entry
<1> HIDE DEF e
<1>2. SUFFICES ASSUME e.kind # "forget", "disabled" \in DOMAIN e.prior
               PROVE  ~DisabledByGuard(e.id, fetched) /\ e.prior["disabled"] # "integration"
  BY DEF Careful, e
<1>3. "disabled" \in DOMAIN op.params /\ e.prior["disabled"] = Fetched(op.id, "disabled") BY <1>1, <1>2
<1>4. ~DisabledByGuard(op.id, fetched) BY <1>1, <1>2, <1>3 DEF Accepts, ApplyGuard
<1>5. Fetched(op.id, "disabled") # "integration"
  BY <1>4, CustomizeAssumption DEF DisabledByGuard, Fetched, CustomizeAssumption
<1> QED BY <1>1, <1>3, <1>4, <1>5

\* The operation to execute next.
LEMMA HeadTyped == TypeOK /\ todo # <<>> => Head(todo) \in Op_ /\ Head(todo).kind # "error"
BY ElementsTyped DEF TypeOK

\* Every step keeps to it.
LEMMA GuardStep == TypeOK /\ GuardOK /\ [Next]_vars => GuardOK'
<1> SUFFICES ASSUME TypeOK, GuardOK, [Next]_vars PROVE GuardOK' OBVIOUS
<1> USE DEF disk, working, history, bounds
<1>1. CASE ExecuteOne
  <2> DEFINE op == Head(todo)
  <2>1. /\ phase = "exec" /\ Accepts(op) /\ live' = Effect(op) /\ executed' = Append(executed, Entry(op))
        /\ UNCHANGED <<fetched, mode, raced>> /\ op \in Op_ /\ op.kind # "error"
    BY <1>1, HeadTyped DEF ExecuteOne
  <2> HIDE DEF op
  <2>2. CASE mode # "apply" BY <2>1, <2>2 DEF GuardOK
  <2>3. CASE mode = "apply"
    <3>1. /\ \A t \in Things \ raced : DisabledByGuard(t, live) => DisabledByGuard(t, fetched)
          /\ \A i \in DOMAIN executed : Careful(executed[i])
      BY <2>1, <2>3 DEF GuardOK
    <3>2. \A t \in Things \ raced : DisabledByGuard(t, live') => DisabledByGuard(t, fetched)
      BY <3>1, <2>1, EffectDecides
    <3>3. \A i \in DOMAIN executed' : Careful(executed'[i])
      <4>1. Careful(Entry(op)) BY <2>1, EntryIsCareful
      <4>2. executed \in Seq(Entry_) BY DEF TypeOK
      <4>3. \A i \in DOMAIN executed' : executed'[i] = Entry(op) \/ (i \in DOMAIN executed /\ executed'[i] = executed[i])
        BY <4>2, <2>1
      <4> QED BY <4>1, <4>3, <3>1
    <3> QED BY <3>2, <3>3, <2>1 DEF GuardOK, Careful, DisabledByGuard
  <2> QED BY <2>2, <2>3
<1>2. CASE OpFails
  <2> DEFINE op == Head(todo)
  <2>1. /\ phase = "exec" /\ (live' = live \/ (Accepts(op) /\ live' = Effect(op)))
        /\ UNCHANGED <<fetched, mode, raced, executed>> /\ op \in Op_ /\ op.kind # "error"
    BY <1>2, HeadTyped DEF OpFails
  <2> HIDE DEF op
  <2>2. CASE mode # "apply" BY <2>1, <2>2 DEF GuardOK
  <2>3. CASE mode = "apply"
    <3>1. /\ \A t \in Things \ raced : DisabledByGuard(t, live) => DisabledByGuard(t, fetched)
          /\ \A i \in DOMAIN executed : Careful(executed[i])
      BY <2>1, <2>3 DEF GuardOK
    <3>2. \A t \in Things \ raced : DisabledByGuard(t, live') => DisabledByGuard(t, fetched)
      BY <3>1, <2>1, EffectDecides
    <3> QED BY <3>1, <3>2, <2>1 DEF GuardOK, Careful, DisabledByGuard
  <2> QED BY <2>2, <2>3
<1>3. CASE UndoOne
  <2> DEFINE e == executed[pos]
  <2>1. /\ phase = "undo" /\ (live' = live \/ (Invertible(e) /\ live' = Inverted(e)))
        /\ UNCHANGED <<fetched, mode, raced, executed>> /\ pos \in DOMAIN executed /\ executed \in Seq(Entry_)
    BY <1>3, ElementsTyped DEF UndoOne, TypeOK
  <2>2. e \in Entry_ BY <2>1
  <2>3. CASE mode # "apply" BY <2>1, <2>3 DEF GuardOK
  <2>4. CASE mode = "apply"
    <3>1. /\ \A t \in Things \ raced : DisabledByGuard(t, live) => DisabledByGuard(t, fetched)
          /\ \A i \in DOMAIN executed : Careful(executed[i])
      BY <2>1, <2>4 DEF GuardOK
    <3>3. Careful(e) BY <3>1, <2>1
    <3> HIDE DEF e
    <3>2. \A t \in Things \ raced : DisabledByGuard(t, live') => DisabledByGuard(t, fetched)
      BY <3>1, <3>3, <2>1, <2>2, InverseDecides
    <3> QED BY <3>1, <3>2, <2>1 DEF GuardOK, Careful, DisabledByGuard
  <2> QED BY <2>3, <2>4
<1>4. CASE StartApply \/ NextLayer
  <2>1. \/ phase' = "save"
        \/ /\ fetched' = live /\ live' = live /\ executed' = <<>>
    BY <1>4 DEF StartApply, NextLayer, BeginLayer
  <2>2. DOMAIN <<>> = {} OBVIOUS
  <2> QED BY <2>1, <2>2 DEF GuardOK, DisabledByGuard
<1>5. CASE Edit
  <2>1. /\ UNCHANGED <<phase, mode, fetched, executed>>
        /\ \A t \in Things \ raced' : t \notin raced /\ live'[t] = live[t]
    <3>1. DOMAIN live = Things /\ UNCHANGED <<phase, mode, fetched, executed>> BY <1>5 DEF Edit, TypeOK
    <3>2. \/ live' = live /\ raced' = raced
          \/ raced' = Things
          \/ \E t \in Things : raced' = raced \cup {t} /\ \E v : live' = [live EXCEPT ![t] = v]
      BY <1>5 DEF Edit
    <3> QED BY <3>1, <3>2
  <2> QED BY <2>1 DEF GuardOK, DisabledByGuard, Careful
<1>6. CASE Crash \/ StateSave \/ StartRollback \/ ApplyDone \/ UndoDone
  BY <1>6 DEF Crash, StateSave, StartRollback, ApplyDone, UndoDone, GuardOK
<1>7. CASE UNCHANGED <<phase, mode, fetched, executed, live, raced>>
  BY <1>7 DEF GuardOK, DisabledByGuard, Careful
<1> QED BY <1>1, <1>2, <1>3, <1>4, <1>5, <1>6, <1>7 DEF Next, vars, Push, Reconcile

\* An apply never turns a thing back on, or off for itself, that its
\* integration had turned off before the layer looked, not even to undo
\* (regapply's disabled_by guard, and the prior values it journals).
THEOREM GuardIsObeyed == Spec => IntegrationDecides
<1>1. Init => GuardOK BY DEF Init, GuardOK
<1>2. TypeOK /\ GuardOK /\ [Next]_vars =>
        [(ExecuteOne \/ OpFails \/ UndoOne) /\ mode = "apply" =>
           \A t \in Things \ raced :
             live[t] # Gone /\ live[t].disabled = "integration" => live'[t].disabled = "integration"]_vars
  <2> SUFFICES ASSUME TypeOK, GuardOK, ExecuteOne \/ OpFails \/ UndoOne, mode = "apply",
                      NEW t \in Things \ raced, DisabledByGuard(t, live)
               PROVE  live'[t].disabled = "integration"
    BY DEF DisabledByGuard
  <2>1. /\ phase = "exec" \/ phase = "undo"
        /\ DisabledByGuard(t, live) => DisabledByGuard(t, fetched)
        /\ \A i \in DOMAIN executed : Careful(executed[i])
    BY DEF GuardOK, ExecuteOne, OpFails, UndoOne
  <2>2. CASE live' = live BY <2>2 DEF DisabledByGuard
  <2>3. CASE todo # <<>> /\ Accepts(Head(todo)) /\ live' = Effect(Head(todo))
    BY <2>3, <2>1, HeadTyped, EffectDecides
  <2>4. CASE UndoOne /\ Invertible(executed[pos]) /\ live' = Inverted(executed[pos])
    <3>1. pos \in DOMAIN executed /\ executed \in Seq(Entry_) BY <2>4, ElementsTyped DEF UndoOne, TypeOK
    <3>2. executed[pos] \in Entry_ /\ Careful(executed[pos]) BY <3>1, <2>1
    <3> QED BY <2>4, <2>1, <3>2, InverseDecides
  <2> QED BY <2>2, <2>3, <2>4 DEF ExecuteOne, OpFails, UndoOne
<1>3. TypeOK /\ GuardOK /\ [Next]_vars => GuardOK' BY GuardStep
<1> QED BY <1>1, <1>2, <1>3, TypeCorrect, PTL DEF Spec, IntegrationDecides

Off(v) == v # Gone /\ v.disabled = "integration"

\* The item k is the only one about thing t, and declares something.
Owns(k, t) ==
  /\ Declares(k)
  /\ \/ k \in Entries /\ t \in Devices /\ MatchDevices(k) = {t} /\ ClaimedBy(t) = {k}
     \/ k \in Entities /\ k = t /\ live[t] # Gone

\* No item is about thing t.
Freed(t) == (t \in Devices /\ t \notin Protected) \/ (t \in Entities /\ ~Declares(t))

\* The plan for item k and thing t is to lay fields over it.
Due(k, t, record) ==
  /\ Resolvable(FieldsOf(k)) /\ ~(Off(live[t]) /\ (k \in Entries => "disabled" \in DOMAIN FieldsOf(k)))
  /\ \/ FieldDiff(t, FieldsOf(k))
     \/ record[t] = Unrecorded \/ DOMAIN FieldsOf(k) \ DOMAIN record[t] # {}

\* The plan for thing t is to give back, or to forget, what is recorded.
Returnable(t, record) ==
  /\ record[t] # Unrecorded
  /\ \/ t \in Devices /\ live[t] = Gone
     \/ t \in Devices /\ Unmatched = {} /\ ~("disabled" \in DOMAIN Sanitized(record[t]) /\ Off(live[t]))
     \/ t \in Entities /\ live[t] # Gone /\ ~Off(live[t])

Wants(t, record) ==
  \/ \E k \in Entries \cup Entities : Owns(k, t) /\ Due(k, t, record)
  \/ Freed(t) /\ Returnable(t, record)

\* The operation is still about what the plan took it to be about.
Right(op) ==
  \/ op.kind = "update" /\ Owns(op.key, op.id) /\ op.params = FieldsOf(op.key)
  \/ op.kind \in {"restore", "forget"} /\ op.key = op.id /\ Freed(op.id)
RightEntry(e) ==
  \/ e.kind = "update" /\ Owns(e.key, e.id)
  \/ e.kind \in {"restore", "forget"} /\ e.key = e.id /\ Freed(e.id)

Planned(t) == \E op \in ToSet(plan) : op.kind # "error" /\ op.id = t
Covers(record) == \A t \in Things : Wants(t, record) => Planned(t)
Calm == touched = {} /\ Things # {}

PlanOK ==
  Calm /\ plan # <<>> =>
    Loaded /\ Covers(saved) /\ \A op \in ToSet(plan) : op.kind # "error" => Right(op)

LayersOK ==
  /\ \A e \in ToSet(prefix) : e.id \in Devices
  /\ \A op \in ToSet(later) : op.id \in Entities
  /\ \/ /\ prefix = <<>>
        /\ \A op \in ToSet(todo) : op.id \in Devices
        /\ \A e \in ToSet(executed) : e.id \in Devices
     \/ /\ later = <<>>
        /\ \A op \in ToSet(todo) : op.id \in Entities
        /\ \A e \in ToSet(executed) : e.id \in Entities

Done(entries) == \A e \in ToSet(entries) : ~Wants(e.id, originals)

\* What is executed is the plan's.
OfThePlan ==
  /\ ToSet(todo) \cup ToSet(later) \subseteq ToSet(plan)
  /\ \A e \in ToSet(prefix) \cup ToSet(executed) : RightEntry(e) /\ Planned(e.id)

\* What landed, and was not undone, wants nothing; nor does anything else, in
\* the end.
Progress ==
  /\ Done(prefix)
  /\ phase = "exec" =>
       /\ outcome = "ok" /\ Done(executed)
       /\ \A t \in Things : Wants(t, originals) => \E op \in ToSet(todo) \cup ToSet(later) : op.id = t
  /\ phase = "undo" => outcome \in {"rolledBack", "failed"}
  /\ phase = "save" /\ outcome = "unjournalled" => Done(executed)
  /\ phase = "save" /\ outcome = "ok" => \A t \in Things : ~Wants(t, originals)

ApplyOK ==
  Calm /\ phase # "idle" =>
    mode = "apply" /\ plan # <<>> /\ Covers(originals) /\ LayersOK /\ OfThePlan /\ Progress

SettledOK == settled => Idle /\ Loaded /\ \A t \in Things : ~Wants(t, saved)
Started == phase # "idle" => mode = "rollback" \/ Things # {}
SettleInv == PlanOK /\ ApplyOK /\ SettledOK /\ Started
-----------------------------------------------------------------------------
(* The plan and what things want                                            *)

\* The parts of an operation.
LEMMA OpFacts ==
  ASSUME NEW kind, NEW key, NEW id, NEW params
  PROVE  /\ Op(kind, key, id, params).kind = kind /\ Op(kind, key, id, params).key = key
         /\ Op(kind, key, id, params).id = id /\ Op(kind, key, id, params).params = params
BY DEF Op

\* An error is no executable operation.
LEMMA ErrorFacts == \A key : \A op \in ToSet(Error(key)) : op.kind = "error"
BY OfOne, OpFacts DEF Error

\* When an update is planned.
LEMMA UpdateFacts ==
  ASSUME NEW key, NEW id, NEW guarded, NEW op, op.kind # "error"
  PROVE  op \in ToSet(PlanUpdate(key, id, guarded)) <=>
           /\ op = Op("update", key, id, FieldsOf(key)) /\ ~guarded /\ Resolvable(FieldsOf(key))
           /\ FieldDiff(id, FieldsOf(key)) \/ FirstRecording(id, FieldsOf(key))
BY OfOne, ErrorFacts DEF PlanUpdate

\* An entry claims a device alone, or shares it.
LEMMA OnlyClaim ==
  ASSUME NEW e \in Entries, NEW d, e \in ClaimedBy(d)
  PROVE  ~(Cardinality(ClaimedBy(d)) > 1) <=> ClaimedBy(d) = {e}
<1>1. IsFiniteSet(ClaimedBy(d))
  BY CustomizeAssumption, FS_Subset DEF ClaimedBy, CustomizeAssumption
<1>2. Cardinality({e}) = 1 /\ Cardinality(ClaimedBy(d)) \in Nat BY <1>1, FS_Singleton, FS_CardinalityType
<1>3. ASSUME ClaimedBy(d) # {e} PROVE Cardinality(ClaimedBy(d)) > 1
  <2> DEFINE C == ClaimedBy(d)
  <2>1. {e} \in SUBSET C /\ C # {e} /\ IsFiniteSet(C) BY <1>1, <1>3
  <2> HIDE DEF C
  <2>2. Cardinality({e}) <= Cardinality(C) /\ (Cardinality(C) = Cardinality({e}) => C = {e}) BY ONLY <2>1, FS_Subset
  <2>3. Cardinality(C) \in Nat BY <1>2 DEF C
  <2>4. Cardinality(C) > 1 BY ONLY <1>2, <2>1, <2>2, <2>3
  <2> QED BY <2>4 DEF C
<1> QED BY <1>2, <1>3

\* An entry yields an update just when it owns a device and the update is due.
LEMMA EntryPlanned ==
  ASSUME PlanContext, NEW e \in Entries, NEW op, op.kind # "error"
  PROVE  op \in ToSet(PlanEntry(e)) <=>
           \E t \in Devices : Owns(e, t) /\ Due(e, t, saved) /\ op = Op("update", e, t, FieldsOf(e))
<1>1. CASE ~(Declares(e) /\ Cardinality(MatchDevices(e)) = 1)
  <2>1. ~(op \in ToSet(PlanEntry(e)))
    BY <1>1, OfOne, ErrorFacts DEF PlanEntry, Declares
  <2>2. \A t \in Devices : Cardinality({t}) = 1 BY FS_Singleton
  <2>3. \A t \in Devices : ~Owns(e, t)
    BY <1>1, <2>2, CustomizeAssumption DEF Owns, CustomizeAssumption
  <2> QED BY <2>1, <2>3
<1>2. CASE Declares(e) /\ Cardinality(MatchDevices(e)) = 1
  <2>1. PICK d \in Devices : MatchDevices(e) = {d} BY <1>2, Single
  <2>2. (CHOOSE x \in MatchDevices(e) : TRUE) = d BY <2>1
  <2>3. e \in ClaimedBy(d) BY <1>2, <2>1 DEF ClaimedBy, Declares
  <2>4. ~(Cardinality(ClaimedBy(d)) > 1) <=> ClaimedBy(d) = {e} BY <2>3, OnlyClaim
  <2>5. \A t \in Devices : Owns(e, t) <=> t = d /\ ClaimedBy(d) = {e}
    BY <1>2, <2>1, CustomizeAssumption DEF Owns, CustomizeAssumption
  <2>6. Declared(e) BY <1>2 DEF Declares
  <2> DEFINE guarded == "disabled" \in DOMAIN FieldsOf(e) /\ DisabledByGuard(d, live)
  <2>7. PlanEntry(e) = IF ClaimedBy(d) # {e} THEN Error(e) ELSE PlanUpdate(e, d, guarded)
    <3>1. CASE ClaimedBy(d) = {e}
      <4>1. ~(Cardinality(MatchDevices(e)) # 1 \/ Cardinality(ClaimedBy(d)) > 1) BY <1>2, <2>4, <3>1
      <4> DEFINE c == CHOOSE x \in MatchDevices(e) : TRUE
      <4>2. PlanEntry(e) = PlanUpdate(e, c, "disabled" \in DOMAIN FieldsOf(e) /\ DisabledByGuard(c, live))
        <5>1. Cardinality(ClaimedBy(c)) = Cardinality(ClaimedBy(d)) BY <2>2, Zenon
        <5> QED BY <1>2, <2>6, <4>1, <5>1, Zenon DEF PlanEntry
      <4> QED BY <2>2, <3>1, <4>2, Zenon
    <3>2. CASE ClaimedBy(d) # {e}
      <4>1. Cardinality(ClaimedBy(d)) > 1 BY <2>4, <3>2
      <4> QED BY <2>2, <2>6, <3>2, <4>1 DEF PlanEntry
    <3> QED BY <3>1, <3>2
  <2>8. Due(e, d, saved) <=> /\ ~guarded /\ Resolvable(FieldsOf(e))
                             /\ FieldDiff(d, FieldsOf(e)) \/ FirstRecording(d, FieldsOf(e))
    BY DEF Due, Off, DisabledByGuard, FirstRecording
  <2> HIDE DEF guarded
  <2>9. op \in ToSet(PlanUpdate(e, d, guarded)) <=>
          /\ op = Op("update", e, d, FieldsOf(e)) /\ ~guarded /\ Resolvable(FieldsOf(e))
          /\ FieldDiff(d, FieldsOf(e)) \/ FirstRecording(d, FieldsOf(e))
    BY UpdateFacts
  <2> QED BY <2>5, <2>7, <2>8, <2>9, ErrorFacts
<1> QED BY <1>1, <1>2

ReturnOp(t) ==
  IF live[t] = Gone THEN Op("forget", t, t, NoParams) ELSE Op("restore", t, t, Sanitized(saved[t]))

\* The parts of what gives a thing back.
LEMMA ReturnOpFacts ==
  \A t : /\ ReturnOp(t).kind \in {"restore", "forget"} /\ ReturnOp(t).kind # "error"
         /\ ReturnOp(t).key = t /\ ReturnOp(t).id = t
BY OpFacts DEF ReturnOp

\* A device yields an operation just when it is freed and can be given back.
LEMMA DevicePlanned ==
  ASSUME PlanContext, NEW d \in Devices, NEW op, op.kind # "error"
  PROVE  op \in ToSet(PlanDeviceRestore(d)) <=> Freed(d) /\ Returnable(d, saved) /\ op = ReturnOp(d)
<1>1. d \notin Entities BY CustomizeAssumption DEF CustomizeAssumption
<1>2. CASE saved[d] = Unrecorded \/ d \in Protected
  <2>1. PlanDeviceRestore(d) = <<>> BY <1>2 DEF PlanDeviceRestore
  <2> QED BY <1>1, <1>2, <2>1, OfOne DEF Freed, Returnable
<1>3. CASE ~(saved[d] = Unrecorded \/ d \in Protected)
  <2>1. CASE live[d] = Gone
    <3>1. PlanDeviceRestore(d) = <<ReturnOp(d)>> BY <1>3, <2>1 DEF PlanDeviceRestore, ReturnOp
    <3> QED BY <1>1, <1>3, <2>1, <3>1, OfOne DEF Freed, Returnable
  <2>2. CASE live[d] # Gone
    <3> DEFINE ok == Unmatched = {} /\ ~("disabled" \in DOMAIN Sanitized(saved[d]) /\ Off(live[d]))
    <3>1. PlanDeviceRestore(d) = IF ok THEN <<ReturnOp(d)>> ELSE Error(d)
      BY <1>3, <2>2 DEF PlanDeviceRestore, ReturnOp, DisabledByGuard, Off
    <3>2. Freed(d) /\ (Returnable(d, saved) <=> ok) BY <1>1, <1>3, <2>2 DEF Freed, Returnable
    <3> HIDE DEF ok
    <3> QED BY <3>1, <3>2, OfOne, ErrorFacts
  <2> QED BY <2>1, <2>2
<1> QED BY <1>2, <1>3

\* The same of entities.
LEMMA EntityPlanned ==
  ASSUME PlanContext, NEW x \in Entities, NEW op, op.kind # "error"
  PROVE  /\ op \in ToSet(PlanEntity(x)) <=> Owns(x, x) /\ Due(x, x, saved) /\ op = Op("update", x, x, FieldsOf(x))
         /\ op \in ToSet(PlanEntityRestore(x)) <=> Freed(x) /\ Returnable(x, saved) /\ op = ReturnOp(x)
<1>1. x \notin Devices /\ x \notin Entries BY CustomizeAssumption DEF CustomizeAssumption
<1>2. op \in ToSet(PlanEntity(x)) <=> Owns(x, x) /\ Due(x, x, saved) /\ op = Op("update", x, x, FieldsOf(x))
  <2>1. CASE Declares(x) /\ live[x] # Gone /\ ~Off(live[x])
    <3>1. PlanEntity(x) = PlanUpdate(x, x, FALSE) BY <2>1 DEF PlanEntity, Declares, DisabledByGuard, Off
    <3>2. Owns(x, x) BY <1>1, <2>1 DEF Owns
    <3>3. Due(x, x, saved) <=> /\ Resolvable(FieldsOf(x))
                               /\ FieldDiff(x, FieldsOf(x)) \/ FirstRecording(x, FieldsOf(x))
      BY <1>1, <2>1 DEF Due, FirstRecording
    <3>4. op \in ToSet(PlanUpdate(x, x, FALSE)) <=>
            /\ op = Op("update", x, x, FieldsOf(x)) /\ Resolvable(FieldsOf(x))
            /\ FieldDiff(x, FieldsOf(x)) \/ FirstRecording(x, FieldsOf(x))
      BY UpdateFacts
    <3> QED BY <3>1, <3>2, <3>3, <3>4
  <2>2. CASE ~(Declares(x) /\ live[x] # Gone /\ ~Off(live[x]))
    <3>1. PlanEntity(x) = <<>> \/ PlanEntity(x) = Error(x) BY <2>2 DEF PlanEntity, Declares, DisabledByGuard, Off
    <3>2. ~(Owns(x, x) /\ Due(x, x, saved)) BY <1>1, <2>2 DEF Owns, Due
    <3> QED BY <3>1, <3>2, OfOne, ErrorFacts
  <2> QED BY <2>1, <2>2
<1>3. op \in ToSet(PlanEntityRestore(x)) <=> Freed(x) /\ Returnable(x, saved) /\ op = ReturnOp(x)
  <2>1. CASE saved[x] = Unrecorded \/ Declares(x)
    <3>1. PlanEntityRestore(x) = <<>> BY <2>1 DEF PlanEntityRestore
    <3> QED BY <1>1, <2>1, <3>1, OfOne DEF Freed, Returnable
  <2>2. CASE ~(saved[x] = Unrecorded \/ Declares(x))
    <3> DEFINE ok == live[x] # Gone /\ ~Off(live[x])
    <3>1. PlanEntityRestore(x) = IF ok THEN <<ReturnOp(x)>> ELSE Error(x)
      BY <2>2 DEF PlanEntityRestore, ReturnOp, DisabledByGuard, Off
    <3>2. Freed(x) /\ (Returnable(x, saved) <=> ok) BY <1>1, <2>2 DEF Freed, Returnable
    <3> HIDE DEF ok
    <3> QED BY <3>1, <3>2, OfOne, ErrorFacts
  <2> QED BY <2>1, <2>2
<1> QED BY <1>2, <1>3

\* The plan holds an operation for each thing that wants one, and no other.
LEMMA PlanIsWhatIsWanted ==
  ASSUME PlanContext
  PROVE  /\ \A op \in ToSet(Plan) : op.kind # "error" => Right(op) /\ op.id \in Things /\ Wants(op.id, saved)
         /\ \A t \in Things : Wants(t, saved) => \E op \in ToSet(Plan) : op.kind # "error" /\ op.id = t
<1>1. \A op : op \in ToSet(Plan) <=>
        \/ \E e \in Entries : op \in ToSet(PlanEntry(e))
        \/ \E d \in Devices : op \in ToSet(PlanDeviceRestore(d))
        \/ \E x \in Entities : op \in ToSet(PlanEntity(x)) \cup ToSet(PlanEntityRestore(x))
  BY PlanMembers
<1>2. ASSUME NEW op \in ToSet(Plan), op.kind # "error"
      PROVE  Right(op) /\ op.id \in Things /\ Wants(op.id, saved)
  <2>1. ASSUME NEW e \in Entries, op \in ToSet(PlanEntry(e)) PROVE Right(op) /\ op.id \in Things /\ Wants(op.id, saved)
    <3>1. PICK t \in Devices : Owns(e, t) /\ Due(e, t, saved) /\ op = Op("update", e, t, FieldsOf(e))
      BY <1>2, <2>1, EntryPlanned
    <3> QED BY <3>1, OpFacts DEF Right, Wants, Things
  <2>2. ASSUME NEW d \in Devices, op \in ToSet(PlanDeviceRestore(d)) PROVE Right(op) /\ op.id \in Things /\ Wants(op.id, saved)
    <3>1. Freed(d) /\ Returnable(d, saved) /\ op = ReturnOp(d) BY <1>2, <2>2, DevicePlanned
    <3> QED BY <3>1, ReturnOpFacts DEF Right, Wants, Things
  <2>3. ASSUME NEW x \in Entities, op \in ToSet(PlanEntity(x)) PROVE Right(op) /\ op.id \in Things /\ Wants(op.id, saved)
    <3>1. Owns(x, x) /\ Due(x, x, saved) /\ op = Op("update", x, x, FieldsOf(x)) BY <1>2, <2>3, EntityPlanned
    <3> QED BY <3>1, OpFacts DEF Right, Wants, Things
  <2>4. ASSUME NEW x \in Entities, op \in ToSet(PlanEntityRestore(x)) PROVE Right(op) /\ op.id \in Things /\ Wants(op.id, saved)
    <3>1. Freed(x) /\ Returnable(x, saved) /\ op = ReturnOp(x) BY <1>2, <2>4, EntityPlanned
    <3> QED BY <3>1, ReturnOpFacts DEF Right, Wants, Things
  <2> QED BY <1>1, <1>2, <2>1, <2>2, <2>3, <2>4
<1>3. ASSUME NEW t \in Things, Wants(t, saved)
      PROVE  \E op \in ToSet(Plan) : op.kind # "error" /\ op.id = t
  <2>1. ASSUME NEW e \in Entries, Owns(e, t), Due(e, t, saved) PROVE \E op \in ToSet(Plan) : op.kind # "error" /\ op.id = t
    <3> DEFINE op == Op("update", e, t, FieldsOf(e))
    <3>1. op.kind # "error" /\ op.id = t BY OpFacts
    <3>2. t \in Devices BY <2>1, CustomizeAssumption DEF Owns, CustomizeAssumption
    <3> HIDE DEF op
    <3>3. op \in ToSet(PlanEntry(e)) BY <3>1, <3>2, <2>1, EntryPlanned DEF op
    <3> QED BY <1>1, <3>1, <3>3
  <2>2. ASSUME NEW x \in Entities, Owns(x, t), Due(x, t, saved) PROVE \E op \in ToSet(Plan) : op.kind # "error" /\ op.id = t
    <3> DEFINE op == Op("update", x, x, FieldsOf(x))
    <3>0. x = t BY <2>2, CustomizeAssumption DEF Owns, CustomizeAssumption
    <3>1. op.kind # "error" /\ op.id = t BY <3>0, OpFacts
    <3>2. Owns(x, x) /\ Due(x, x, saved) BY <3>0, <2>2
    <3> HIDE DEF op
    <3>3. op \in ToSet(PlanEntity(x)) BY <3>1, <3>2, EntityPlanned DEF op
    <3> QED BY <1>1, <3>1, <3>3
  <2>3. ASSUME Freed(t), Returnable(t, saved) PROVE \E op \in ToSet(Plan) : op.kind # "error" /\ op.id = t
    <3>1. ReturnOp(t).kind # "error" /\ ReturnOp(t).id = t BY ReturnOpFacts
    <3>2. CASE t \in Devices
      <4>1. ReturnOp(t) \in ToSet(PlanDeviceRestore(t)) BY <2>3, <3>1, <3>2, DevicePlanned
      <4> QED BY <1>1, <3>1, <3>2, <4>1
    <3>3. CASE t \in Entities
      <4>1. ReturnOp(t) \in ToSet(PlanEntityRestore(t)) BY <2>3, <3>1, <3>3, EntityPlanned
      <4> QED BY <1>1, <3>1, <3>3, <4>1
    <3> QED BY <3>2, <3>3 DEF Things
  <2> QED BY <1>3, <2>1, <2>2, <2>3 DEF Wants
<1> QED BY <1>2, <1>3

-----------------------------------------------------------------------------
(* What the steps of an apply leave alone                                   *)

\* What items are about does not depend on areas and flags.
Still ==
  /\ desired' = desired /\ known' = known
  /\ \A t \in Things : (live'[t] = Gone <=> live[t] = Gone) /\ (live[t] # Gone => live'[t].name = live[t].name)

\* What items are about stays the same while names and presence do.
LEMMA StaticFrame ==
  ASSUME Still
  PROVE  /\ \A k : (Declares(k)' <=> Declares(k)) /\ FieldsOf(k)' = FieldsOf(k)
                   /\ (Resolvable(FieldsOf(k))' <=> Resolvable(FieldsOf(k)))
         /\ \A k \in Entries \cup Entities, t \in Things : Owns(k, t)' <=> Owns(k, t)
         /\ \A t \in Things : Freed(t)' <=> Freed(t)
         /\ Unmatched' = Unmatched
<1>1. \A k : (Declared(k)' <=> Declared(k)) /\ FieldsOf(k)' = FieldsOf(k) /\ (Declares(k)' <=> Declares(k))
  BY DEF Still, Declared, FieldsOf, Declares
<1>2. \A k : Resolvable(FieldsOf(k))' <=> Resolvable(FieldsOf(k)) BY DEF Still, Resolvable, FieldsOf
<1>3. \A k : MatchDevices(k)' = MatchDevices(k)
  <2> TAKE k
  <2>1. \A d \in Devices : (live'[d] # Gone /\ live'[d].name = desired'[k].match) <=> (live[d] # Gone /\ live[d].name = desired[k].match)
    BY DEF Still, Things
  <2> QED BY <2>1 DEF MatchDevices
<1>4. \A d : ClaimedBy(d)' = ClaimedBy(d)
  <2> TAKE d
  <2>1. \A e \in Entries : (Declared(e)' /\ MatchDevices(e)' = {d}) <=> (Declared(e) /\ MatchDevices(e) = {d})
    BY <1>1, <1>3
  <2> QED BY <2>1 DEF ClaimedBy
<1>5. Protected' = Protected BY <1>1, <1>3 DEF Protected
<1>6. Unmatched' = Unmatched BY <1>1, <1>3 DEF Unmatched
<1>7. \A t \in Things : live'[t] = Gone <=> live[t] = Gone BY DEF Still
<1>8. \A k \in Entries \cup Entities, t \in Things : Owns(k, t)' <=> Owns(k, t) BY <1>1, <1>3, <1>4, <1>7 DEF Owns
<1>9. \A t \in Things : Freed(t)' <=> Freed(t) BY <1>1, <1>5 DEF Freed
<1> QED BY <1>1, <1>2, <1>6, <1>8, <1>9

\* What a thing wants depends on it, and on what is recorded of it.
LEMMA WantsFrame ==
  ASSUME Still, NEW t \in Things, live'[t] = live[t]
  PROVE  /\ originals'[t] = originals[t] => (Wants(t, originals)' <=> Wants(t, originals))
         /\ originals'[t] = saved[t] => (Wants(t, originals)' <=> Wants(t, saved))
         /\ saved'[t] = saved[t] => (Wants(t, saved)' <=> Wants(t, saved))
         /\ saved'[t] = originals[t] => (Wants(t, saved)' <=> Wants(t, originals))
<1>1. \A k : FieldsOf(k)' = FieldsOf(k) /\ (Resolvable(FieldsOf(k))' <=> Resolvable(FieldsOf(k))) BY StaticFrame
<1>2. \A k \in Entries \cup Entities : Owns(k, t)' <=> Owns(k, t) BY StaticFrame
<1>3. (Freed(t)' <=> Freed(t)) /\ Unmatched' = Unmatched BY StaticFrame
<1>4. \A k : FieldDiff(t, FieldsOf(k))' <=> FieldDiff(t, FieldsOf(k)) BY <1>1 DEF FieldDiff
<1>5. \A k : /\ originals'[t] = originals[t] => (Due(k, t, originals)' <=> Due(k, t, originals))
             /\ originals'[t] = saved[t] => (Due(k, t, originals)' <=> Due(k, t, saved))
             /\ saved'[t] = saved[t] => (Due(k, t, saved)' <=> Due(k, t, saved))
             /\ saved'[t] = originals[t] => (Due(k, t, saved)' <=> Due(k, t, originals))
  BY <1>1, <1>4 DEF Due
<1>6. /\ originals'[t] = originals[t] => (Returnable(t, originals)' <=> Returnable(t, originals))
      /\ originals'[t] = saved[t] => (Returnable(t, originals)' <=> Returnable(t, saved))
      /\ saved'[t] = saved[t] => (Returnable(t, saved)' <=> Returnable(t, saved))
      /\ saved'[t] = originals[t] => (Returnable(t, saved)' <=> Returnable(t, originals))
  BY <1>3 DEF Returnable
<1> QED BY <1>2, <1>3, <1>5, <1>6 DEF Wants

\* Operations stay right as long.
LEMMA RightFrame ==
  ASSUME Still
  PROVE  /\ \A op \in Op_ : op.kind # "error" => (Right(op)' <=> Right(op))
         /\ \A e \in Entry_ : RightEntry(e)' <=> RightEntry(e)
<1>1. ASSUME NEW op \in Op_, op.kind # "error" PROVE Right(op)' <=> Right(op)
  <2>1. op.id \in Things BY <1>1 DEF Op_
  <2>2. op.key \in Entries \cup Things BY DEF Op_
  <2>3. (Owns(op.key, op.id)' <=> Owns(op.key, op.id))
    <3>1. CASE op.key \in Entries \cup Entities BY <2>1, <3>1, StaticFrame
    <3>2. CASE op.key \notin Entries \cup Entities BY <3>2 DEF Owns
    <3> QED BY <3>1, <3>2
  <2>4. (Freed(op.id)' <=> Freed(op.id)) /\ FieldsOf(op.key)' = FieldsOf(op.key) BY <2>1, StaticFrame
  <2> QED BY <2>3, <2>4 DEF Right
<1>2. ASSUME NEW e \in Entry_ PROVE RightEntry(e)' <=> RightEntry(e)
  <2>1. e.id \in Things BY DEF Entry_
  <2>3. (Owns(e.key, e.id)' <=> Owns(e.key, e.id))
    <3>1. CASE e.key \in Entries \cup Entities BY <2>1, <3>1, StaticFrame
    <3>2. CASE e.key \notin Entries \cup Entities BY <3>2 DEF Owns
    <3> QED BY <3>1, <3>2
  <2>4. Freed(e.id)' <=> Freed(e.id) BY <2>1, StaticFrame
  <2> QED BY <2>3, <2>4 DEF RightEntry
<1> QED BY <1>1, <1>2

\* An operation changes areas and flags of its own thing only.
LEMMA EffectStill ==
  ASSUME TypeOK, NEW op \in Op_, op.kind # "error", desired' = desired, known' = known,
         live' = live \/ (Accepts(op) /\ live' = Effect(op))
  PROVE  Still /\ \A t \in Things : t # op.id => live'[t] = live[t]
<1>1. op.id \in Things /\ op.params \in Findings /\ live \in [Things -> Registered \cup {Gone}]
  BY SettingsAreFound DEF Op_, TypeOK
<1>2. CASE live' = live BY <1>2 DEF Still
<1>3. CASE Accepts(op) /\ live' = Effect(op)
  <2>1. CASE op.kind = "forget" BY <1>3, <2>1, <1>2 DEF Effect
  <2>2. CASE op.kind # "forget"
    <3>1. live[op.id] \in Registered BY <1>1, <1>3, <2>2 DEF Accepts
    <3>2. With(live[op.id], op.params) \in Registered /\ With(live[op.id], op.params).name = live[op.id].name
      BY <1>1, <3>1, LaidOver
    <3>3. live' = [live EXCEPT ![op.id] = With(live[op.id], op.params)] BY <1>3, <2>2 DEF Effect
    <3>4. Gone \notin Registered BY CustomizeAssumption DEF CustomizeAssumption
    <3> QED BY <1>1, <3>1, <3>2, <3>3, <3>4 DEF Still
  <2> QED BY <2>1, <2>2
<1> QED BY <1>2, <1>3

\* So does its inverse.
LEMMA InverseStill ==
  ASSUME TypeOK, NEW e \in Entry_, desired' = desired, known' = known,
         live' = live \/ (Invertible(e) /\ live' = Inverted(e))
  PROVE  Still /\ \A t \in Things : t # e.id => live'[t] = live[t]
<1>1. e.id \in Things /\ e.prior \in Findings /\ live \in [Things -> Registered \cup {Gone}] BY DEF Entry_, TypeOK
<1>2. CASE live' = live BY <1>2 DEF Still
<1>3. CASE Invertible(e) /\ live' = Inverted(e)
  <2>1. CASE e.kind = "forget" BY <1>3, <2>1, <1>2 DEF Inverted
  <2>2. CASE e.kind # "forget"
    <3>1. live[e.id] \in Registered BY <1>1, <1>3, <2>2 DEF Invertible
    <3>2. With(live[e.id], e.prior) \in Registered /\ With(live[e.id], e.prior).name = live[e.id].name
      BY <1>1, <3>1, LaidOver
    <3>3. live' = [live EXCEPT ![e.id] = With(live[e.id], e.prior)] BY <1>3, <2>2 DEF Inverted
    <3>4. Gone \notin Registered BY CustomizeAssumption DEF CustomizeAssumption
    <3> QED BY <1>1, <3>1, <3>2, <3>3, <3>4 DEF Still
  <2> QED BY <2>1, <2>2
<1> QED BY <1>2, <1>3

\* A thing has one owner, or is free.
LEMMA OneOwner ==
  ASSUME NEW t \in Things, NEW k \in Entries \cup Entities, Owns(k, t)
  PROVE  ~Freed(t) /\ \A j \in Entries \cup Entities : Owns(j, t) => j = k
<1>1. Devices \cap Entities = {} /\ Entries \cap Entities = {} BY CustomizeAssumption DEF CustomizeAssumption
<1>2. CASE k \in Entries
  <2>1. Declares(k) /\ t \in Devices /\ MatchDevices(k) = {t} /\ ClaimedBy(t) = {k} BY <1>1, <1>2 DEF Owns
  <2>2. t \in Protected BY <1>2, <2>1 DEF Protected
  <2>3. ASSUME NEW j \in Entries \cup Entities, Owns(j, t) PROVE j = k
    BY <1>1, <2>1, <2>3 DEF Owns
  <2> QED BY <1>1, <2>1, <2>2, <2>3 DEF Freed
<1>3. CASE k \in Entities
  <2>1. Declares(k) /\ k = t /\ t \in Entities BY <1>1, <1>3 DEF Owns
  <2>3. ASSUME NEW j \in Entries \cup Entities, Owns(j, t) PROVE j = k
    BY <1>1, <2>1, <2>3 DEF Owns
  <2> QED BY <1>1, <2>1, <2>3 DEF Freed
<1> QED BY <1>2, <1>3

\* When an operation has landed its thing wants nothing more.
LEMMA LandedWantsNothing ==
  ASSUME TypeOK, NEW op \in Op_, op.kind # "error", Accepts(op), Right(op), Still,
         live' = Effect(op), originals' = Originals(op)
  PROVE  ~Wants(op.id, originals)'
<1> DEFINE t == op.id
<1>1. t \in Things /\ op.params \in Settings /\ op.params \in Findings BY SettingsAreFound DEF Op_
<1>2. \A k \in Entries \cup Entities : Owns(k, t)' <=> Owns(k, t) BY <1>1, StaticFrame
<1>3. (Freed(t)' <=> Freed(t)) /\ \A k : FieldsOf(k)' = FieldsOf(k) BY <1>1, StaticFrame
<1>4. CASE op.kind = "update"
  <2>1. Owns(op.key, t) /\ op.params = FieldsOf(op.key) BY <1>4 DEF Right
  <2>2. op.key \in Entries \cup Entities BY <2>1 DEF Owns
  <2>3. ~Freed(t) /\ \A j \in Entries \cup Entities : Owns(j, t) => j = op.key BY <1>1, <2>1, <2>2, OneOwner
  <2>4. originals'[t] \in Settings /\ DOMAIN op.params \subseteq DOMAIN originals'[t] BY <1>4, OriginalsTyped
  <2>5. originals'[t] # Unrecorded BY <2>4, CustomizeAssumption DEF CustomizeAssumption
  <2>6. \A f \in DOMAIN op.params : live'[t][f] = op.params[f]
    <3>1. live[t] \in Registered /\ live \in [Things -> Registered \cup {Gone}] BY <1>1, <1>4 DEF Accepts, TypeOK
    <3>2. live'[t] = With(live[t], op.params) BY <1>1, <1>4, <3>1 DEF Effect
    <3>3. DOMAIN op.params \subseteq Fields BY <1>1, SettingsFacts
    <3>4. \A f \in Fields : With(live[t], op.params)[f] = IF f \in DOMAIN op.params THEN op.params[f] ELSE live[t][f]
      BY <1>1, <3>1, LaidOver
    <3> QED BY <3>2, <3>3, <3>4
  <2>7. ~FieldDiff(t, FieldsOf(op.key))' BY <1>3, <2>1, <2>6 DEF FieldDiff
  <2>8. ~Due(op.key, t, originals)' BY <1>3, <2>1, <2>4, <2>5, <2>7 DEF Due
  <2> QED BY <1>2, <1>3, <2>3, <2>8 DEF Wants
<1>5. CASE op.kind # "update"
  <2>1. Freed(t) BY <1>5 DEF Right
  <2>2. \A k \in Entries \cup Entities : ~Owns(k, t) BY <1>1, <2>1, OneOwner
  <2>3. originals'[t] = Unrecorded BY <1>5, OriginalsTyped
  <2>4. ~Returnable(t, originals)' BY <2>3 DEF Returnable
  <2> QED BY <1>2, <2>2, <2>4 DEF Wants
<1> QED BY <1>4, <1>5

\* A step that changes one planned thing keeps the plan complete.
LEMMA LiveStep ==
  ASSUME TypeOK, PlanOK, ApplyOK, Calm, phase # "idle", NEW x \in Things, Planned(x), Still,
         \A t \in Things : t # x => live'[t] = live[t] /\ originals'[t] = originals[t],
         plan' = plan, saved' = saved, touched' = touched
  PROVE  /\ PlanOK' /\ Covers(originals)'
         /\ \A t \in Things : t # x => (Wants(t, originals)' <=> Wants(t, originals))
         /\ \A t : Planned(t)' <=> Planned(t)
         /\ \A op \in ToSet(plan) : op.kind # "error" => Right(op)
<1>1. plan # <<>> /\ Covers(originals) BY DEF ApplyOK
<1>2. Loaded /\ Covers(saved) /\ \A op \in ToSet(plan) : op.kind # "error" => Right(op) BY <1>1 DEF PlanOK
<1>3. \A t : Planned(t)' <=> Planned(t) BY DEF Planned
<1>4. \A t \in Things : t # x => (Wants(t, originals)' <=> Wants(t, originals)) /\ (Wants(t, saved)' <=> Wants(t, saved))
  BY WantsFrame
<1>5. Covers(originals)' /\ Covers(saved)' BY <1>1, <1>2, <1>3, <1>4 DEF Covers
<1>6. Loaded' BY <1>2 DEF Loaded, MatchesValid, FieldsValid, Still
<1>7. ToSet(plan) \subseteq Op_ BY ElementsTyped DEF TypeOK
<1>8. \A op \in ToSet(plan) : op.kind # "error" => Right(op)' BY <1>2, <1>7, RightFrame
<1>9. PlanOK' BY <1>5, <1>6, <1>8 DEF PlanOK
<1> QED BY <1>2, <1>3, <1>4, <1>5, <1>9

\* An entry is as right as its operation.
LEMMA EntryRight ==
  ASSUME NEW op, Right(op)
  PROVE  RightEntry(Entry(op)) /\ Entry(op).id = op.id /\ Entry(op).kind = op.kind
<1>1. Entry(op).id = op.id /\ Entry(op).kind = op.kind /\ Entry(op).key = op.key BY DEF Entry
<1> QED BY <1>1 DEF Right, RightEntry

\* An operation lands: its thing wants nothing, the others what they wanted.
LEMMA ExecuteSettles ==
  ASSUME TypeOK, PlanOK, ApplyOK, Calm, ExecuteOne
  PROVE  PlanOK' /\ ApplyOK'
<1>a. PICK op : op = Head(todo) OBVIOUS
<1>b. PICK e : e = Entry(op) OBVIOUS
<1>1. /\ phase = "exec" /\ todo # <<>> /\ Accepts(op) /\ live' = Effect(op) /\ originals' = Originals(op)
      /\ executed' = Append(executed, e)
      /\ UNCHANGED <<desired, known, saved, plan, mode, later, prefix, touched>>
      /\ \/ todo' = Tail(todo) /\ outcome' = outcome /\ phase' = "exec"
         \/ todo' = todo /\ outcome' = "unjournalled" /\ phase' = "save"
  BY <1>a, <1>b DEF ExecuteOne
<1>2. /\ mode = "apply" /\ plan # <<>> /\ Covers(originals) /\ LayersOK /\ OfThePlan /\ Progress
  BY <1>1 DEF ApplyOK
<1>3. op \in Op_ /\ op.kind # "error" /\ op \in ToSet(todo) /\ op.id \in Things
      /\ ToSet(todo) = {op} \cup ToSet(Tail(todo)) /\ Tail(todo) \in Seq(Op_)
  BY <1>a, <1>1, HeadTyped, ElementsTyped DEF TypeOK, Op_
<1>4. op \in ToSet(plan) /\ Planned(op.id) BY <1>2, <1>3 DEF OfThePlan, Planned
<1>5. e \in Entry_ /\ executed \in Seq(Entry_) /\ prefix \in Seq(Entry_) BY <1>b, <1>3, EntryTyped DEF TypeOK
<1>6. ToSet(executed') = ToSet(executed) \cup {e} BY <1>1, <1>5, AppendMembers
<1>7. e.id = op.id /\ e.kind = op.kind BY <1>b DEF Entry
<1>8. Still /\ \A t \in Things : t # op.id => live'[t] = live[t] BY <1>1, <1>3, EffectStill
<1>9. \A t \in Things : t # op.id => originals'[t] = originals[t] BY <1>1, <1>3, OriginalsTyped
<1>10. /\ PlanOK' /\ Covers(originals)'
       /\ \A t \in Things : t # op.id => (Wants(t, originals)' <=> Wants(t, originals))
       /\ \A t : Planned(t)' <=> Planned(t)
       /\ \A o \in ToSet(plan) : o.kind # "error" => Right(o)
  <2>1. /\ \A t \in Things : t # op.id => live'[t] = live[t] /\ originals'[t] = originals[t]
        /\ plan' = plan /\ saved' = saved /\ touched' = touched /\ phase # "idle"
    BY <1>1, <1>8, <1>9
  <2> QED BY <2>1, <1>3, <1>4, <1>8, LiveStep
<1>11. Right(op) BY <1>3, <1>4, <1>10
<1>12. ~Wants(op.id, originals)' BY <1>1, <1>3, <1>8, <1>11, LandedWantsNothing
<1>13. \A x \in ToSet(executed) \cup ToSet(prefix) : x \in Entry_ /\ x.id \in Things
  <2>1. ToSet(executed) \subseteq Entry_ /\ ToSet(prefix) \subseteq Entry_ BY <1>5, ElementsTyped
  <2>2. \A x \in Entry_ : x.id \in Things BY DEF Entry_
  <2> QED BY <2>1, <2>2
<1>14. LayersOK'
  <2>1. ToSet(todo') \subseteq ToSet(todo) BY <1>1, <1>3
  <2> QED BY <1>1, <1>2, <1>3, <1>6, <1>7, <2>1 DEF LayersOK
<1>15. OfThePlan'
  <2>1. RightEntry(e) BY <1>b, <1>11, EntryRight
  <2>2. \A x \in ToSet(prefix') \cup ToSet(executed') : RightEntry(x) /\ Planned(x.id) /\ x \in Entry_
    BY <1>1, <1>2, <1>4, <1>5, <1>6, <1>7, <1>13, <2>1 DEF OfThePlan
  <2>3. \A x \in ToSet(prefix') \cup ToSet(executed') : RightEntry(x)' /\ Planned(x.id)'
    BY <2>2, <1>8, <1>10, RightFrame
  <2>4. ToSet(todo') \cup ToSet(later') \subseteq ToSet(plan') BY <1>1, <1>2, <1>3 DEF OfThePlan
  <2> QED BY <2>3, <2>4 DEF OfThePlan
<1>16. Done(prefix)'
  <2>1. ASSUME NEW x \in ToSet(prefix) PROVE ~Wants(x.id, originals)'
    <3>1. x.id # op.id
      <4>1. prefix # <<>> BY <2>1, OfOne
      <4>2. x.id \in Devices /\ op.id \in Entities BY <4>1, <1>2, <1>3, <2>1 DEF LayersOK
      <4> QED BY <4>2, CustomizeAssumption DEF CustomizeAssumption
    <3>2. ~Wants(x.id, originals) BY <1>2, <2>1 DEF Progress, Done
    <3> QED BY <3>1, <3>2, <1>10, <1>13, <2>1
  <2> QED BY <2>1, <1>1 DEF Done
<1>17. Done(executed)'
  <2>1. ASSUME NEW x \in ToSet(executed') PROVE ~Wants(x.id, originals)'
    <3>1. CASE x.id = op.id BY <3>1, <1>12
    <3>2. CASE x.id # op.id
      <4>1. x \in ToSet(executed) BY <3>2, <2>1, <1>6, <1>7
      <4>2. ~Wants(x.id, originals) BY <4>1, <1>1, <1>2 DEF Progress, Done
      <4> QED BY <4>1, <4>2, <3>2, <1>10, <1>13
    <3> QED BY <3>1, <3>2
  <2> QED BY <2>1 DEF Done
<1>18. ASSUME phase' = "exec", NEW t \in Things, Wants(t, originals)'
       PROVE  \E o \in ToSet(todo') \cup ToSet(later') : o.id = t
  <2>1. t # op.id /\ todo' = Tail(todo) BY <1>18, <1>12, <1>1
  <2>2. Wants(t, originals) BY <1>18, <2>1, <1>10
  <2>3. PICK o \in ToSet(todo) \cup ToSet(later) : o.id = t BY <2>2, <1>1, <1>2 DEF Progress
  <2>4. o \in ToSet(todo') \cup ToSet(later') BY <2>1, <2>3, <1>1, <1>3
  <2> QED BY <2>3, <2>4
<1>19. Progress'
  <2>1. phase' = "exec" => outcome' = "ok" BY <1>1, <1>2 DEF Progress
  <2>2. phase' = "save" => outcome' # "ok" BY <1>1
  <2>3. phase' # "undo" BY <1>1
  <2> QED BY <1>16, <1>17, <1>18, <2>1, <2>2, <2>3 DEF Progress
<1>20. plan' # <<>> /\ mode' = "apply" BY <1>1, <1>2
<1> QED BY <1>10, <1>14, <1>15, <1>19, <1>20 DEF ApplyOK

\* What landed in the layer before is not the later one's to change.
LEMMA EarlierLayer ==
  ASSUME TypeOK, LayersOK, Done(prefix), prefix' = prefix, NEW x \in Things,
         \E o \in ToSet(todo) \cup ToSet(executed) : o.id = x,
         \A t \in Things : t # x => (Wants(t, originals)' <=> Wants(t, originals))
  PROVE  Done(prefix)'
<1>1. ASSUME NEW y \in ToSet(prefix) PROVE ~Wants(y.id, originals)'
  <2>1. y \in Entry_ /\ y.id \in Things
    <3>1. y \in Entry_ BY <1>1, ElementsTyped DEF TypeOK
    <3> QED BY <3>1 DEF Entry_
  <2>2. y.id # x
    <3>1. prefix # <<>> BY <1>1, OfOne
    <3>2. y.id \in Devices /\ x \in Entities BY <3>1, <1>1 DEF LayersOK
    <3> QED BY <3>2, CustomizeAssumption DEF CustomizeAssumption
  <2>3. ~Wants(y.id, originals) BY <1>1 DEF Done
  <2> QED BY <2>1, <2>2, <2>3
<1> QED BY <1>1 DEF Done

\* The things of a failed layer are put back, or not; they are still planned.
LEMMA OfThePlanFrame ==
  ASSUME TypeOK, OfThePlan, Still, UNCHANGED <<plan, todo, later, prefix, executed>>,
         \A t : Planned(t)' <=> Planned(t)
  PROVE  OfThePlan'
<1>1. \A x \in ToSet(prefix) \cup ToSet(executed) : RightEntry(x) /\ Planned(x.id) BY DEF OfThePlan
<1>2. ToSet(executed) \subseteq Entry_ /\ ToSet(prefix) \subseteq Entry_ BY ElementsTyped DEF TypeOK
<1>3. \A x \in ToSet(prefix) \cup ToSet(executed) : RightEntry(x)' /\ Planned(x.id)'
  BY <1>1, <1>2, RightFrame
<1> QED BY <1>3 DEF OfThePlan

\* An operation fails, or its answer is lost.
LEMMA FailureSettles ==
  ASSUME TypeOK, PlanOK, ApplyOK, Calm, OpFails
  PROVE  PlanOK' /\ ApplyOK'
<1>a. PICK op : op = Head(todo) OBVIOUS
<1>1. /\ phase = "exec" /\ todo # <<>> /\ (live' = live \/ (Accepts(op) /\ live' = Effect(op)))
      /\ UNCHANGED <<desired, known, saved, plan, mode, later, prefix, touched, todo, executed, originals>>
      /\ phase' = "undo" /\ outcome' = "rolledBack"
  BY <1>a DEF OpFails, disk
<1>2. /\ mode = "apply" /\ plan # <<>> /\ LayersOK /\ OfThePlan /\ Progress
  BY <1>1 DEF ApplyOK
<1>3. op \in Op_ /\ op.kind # "error" /\ op \in ToSet(todo) /\ op.id \in Things
  BY <1>a, <1>1, HeadTyped, ElementsTyped DEF TypeOK, Op_
<1>4. Planned(op.id) BY <1>2, <1>3 DEF OfThePlan, Planned
<1>5. Still /\ \A t \in Things : t # op.id => live'[t] = live[t] BY <1>1, <1>3, EffectStill
<1>6. /\ PlanOK' /\ Covers(originals)'
      /\ \A t \in Things : t # op.id => (Wants(t, originals)' <=> Wants(t, originals))
      /\ \A t : Planned(t)' <=> Planned(t)
  <2>1. /\ \A t \in Things : t # op.id => live'[t] = live[t] /\ originals'[t] = originals[t]
        /\ plan' = plan /\ saved' = saved /\ touched' = touched /\ phase # "idle"
    BY <1>1, <1>5
  <2> QED BY <2>1, <1>3, <1>4, <1>5, LiveStep
<1>7. Done(prefix)'
  <2>1. Done(prefix) /\ prefix' = prefix BY <1>1, <1>2 DEF Progress
  <2>2. \E o \in ToSet(todo) \cup ToSet(executed) : o.id = op.id BY <1>3
  <2> QED BY <2>1, <2>2, <1>2, <1>3, <1>6, EarlierLayer
<1>8. OfThePlan' BY <1>1, <1>2, <1>5, <1>6, OfThePlanFrame
<1>9. LayersOK' BY <1>1, <1>2 DEF LayersOK
<1>10. Progress' BY <1>1, <1>7 DEF Progress
<1> QED BY <1>1, <1>2, <1>6, <1>8, <1>9, <1>10 DEF ApplyOK

\* An entry is undone, or is not.
LEMMA UndoSettles ==
  ASSUME TypeOK, PlanOK, ApplyOK, Calm, UndoOne
  PROVE  PlanOK' /\ ApplyOK'
<1>a. PICK e : e = executed[pos] OBVIOUS
<1>1. /\ phase = "undo" /\ (live' = live \/ (Invertible(e) /\ live' = Inverted(e)))
      /\ originals' = originals \/ originals' = [originals EXCEPT ![e.id] = e.snapshot]
      /\ UNCHANGED <<desired, known, saved, plan, mode, later, prefix, touched, todo, executed>>
      /\ phase' \in {"undo", "save"} /\ outcome' \in {outcome, "failed"} /\ (phase' = "save" => outcome' = "failed")
  BY <1>a DEF UndoOne
<1>2. /\ mode = "apply" /\ plan # <<>> /\ LayersOK /\ OfThePlan /\ Progress
  BY <1>1 DEF ApplyOK
<1>3. e \in Entry_ /\ e \in ToSet(executed) /\ e.id \in Things
  <2>1. pos \in DOMAIN executed /\ executed \in Seq(Entry_) BY ElementsTyped DEF UndoOne, TypeOK
  <2>2. e \in Entry_ /\ e \in ToSet(executed) BY <2>1, <1>a DEF ToSet
  <2> QED BY <2>2 DEF Entry_
<1>4. Planned(e.id) BY <1>2, <1>3 DEF OfThePlan
<1>5. Still /\ \A t \in Things : t # e.id => live'[t] = live[t] BY <1>1, <1>3, InverseStill
<1>6. /\ PlanOK' /\ Covers(originals)'
      /\ \A t \in Things : t # e.id => (Wants(t, originals)' <=> Wants(t, originals))
      /\ \A t : Planned(t)' <=> Planned(t)
  <2>0. \A t \in Things : t # e.id => originals'[t] = originals[t] BY <1>1 DEF TypeOK
  <2>1. /\ \A t \in Things : t # e.id => live'[t] = live[t] /\ originals'[t] = originals[t]
        /\ plan' = plan /\ saved' = saved /\ touched' = touched /\ phase # "idle"
    BY <1>1, <1>5, <2>0
  <2> QED BY <2>1, <1>3, <1>4, <1>5, LiveStep
<1>7. Done(prefix)'
  <2>1. Done(prefix) /\ prefix' = prefix BY <1>1, <1>2 DEF Progress
  <2>2. \E o \in ToSet(todo) \cup ToSet(executed) : o.id = e.id BY <1>3
  <2> QED BY <2>1, <2>2, <1>2, <1>3, <1>6, EarlierLayer
<1>8. OfThePlan' BY <1>1, <1>2, <1>5, <1>6, OfThePlanFrame
<1>9. LayersOK' BY <1>1, <1>2 DEF LayersOK
<1>10. Progress'
  <2>1. outcome' \in {"rolledBack", "failed"} BY <1>1, <1>2 DEF Progress
  <2> QED BY <1>1, <1>7, <2>1 DEF Progress
<1> QED BY <1>1, <1>2, <1>6, <1>8, <1>9, <1>10 DEF ApplyOK

\* Steps after which things are as they were, and are recorded as they were.
LEMMA Unmoved ==
  ASSUME TypeOK, UNCHANGED <<desired, known, live, plan>>
  PROVE  /\ Still /\ (Loaded' <=> Loaded) /\ \A t : Planned(t)' <=> Planned(t)
         /\ \A op \in ToSet(plan) : op.kind # "error" => (Right(op)' <=> Right(op))
         /\ originals' = originals => /\ Covers(originals)' <=> Covers(originals)
                                      /\ \A t \in Things : Wants(t, originals)' <=> Wants(t, originals)
         /\ originals' = saved => /\ Covers(originals)' <=> Covers(saved)
                                  /\ \A t \in Things : Wants(t, originals)' <=> Wants(t, saved)
         /\ saved' = saved => /\ Covers(saved)' <=> Covers(saved)
                              /\ \A t \in Things : Wants(t, saved)' <=> Wants(t, saved)
<1>1. Still BY DEF Still
<1>2. \A t : Planned(t)' <=> Planned(t) BY DEF Planned
<1>3. ToSet(plan) \subseteq Op_ BY ElementsTyped DEF TypeOK
<1>4. \A op \in ToSet(plan) : op.kind # "error" => (Right(op)' <=> Right(op)) BY <1>1, <1>3, RightFrame
<1>5. Loaded' <=> Loaded BY DEF Loaded, MatchesValid, FieldsValid
<1>6. /\ originals' = originals => \A t \in Things : Wants(t, originals)' <=> Wants(t, originals)
      /\ originals' = saved => \A t \in Things : Wants(t, originals)' <=> Wants(t, saved)
      /\ saved' = saved => \A t \in Things : Wants(t, saved)' <=> Wants(t, saved)
  BY <1>1, WantsFrame
<1> QED BY <1>1, <1>2, <1>4, <1>5, <1>6 DEF Covers

\* A layer has nothing left to do, or to undo.
LEMMA LayerEndSettles ==
  ASSUME TypeOK, PlanOK, ApplyOK, Calm, ApplyDone \/ UndoDone
  PROVE  PlanOK' /\ ApplyOK'
<1>1. /\ phase \in {"exec", "undo"} /\ phase' = "save" /\ (phase = "exec" => todo = <<>> /\ later = <<>>)
      /\ UNCHANGED <<desired, known, live, plan, saved, mode, later, prefix, touched, todo, executed, originals, outcome>>
  BY DEF ApplyDone, UndoDone, disk, working, history
<1>2. /\ mode = "apply" /\ plan # <<>> /\ Covers(originals) /\ LayersOK /\ OfThePlan /\ Progress
  BY <1>1 DEF ApplyOK
<1>3. /\ Still /\ (Loaded' <=> Loaded) /\ \A t : Planned(t)' <=> Planned(t)
      /\ \A op \in ToSet(plan) : op.kind # "error" => (Right(op)' <=> Right(op))
      /\ Covers(originals)' /\ (Covers(saved)' <=> Covers(saved))
      /\ \A t \in Things : Wants(t, originals)' <=> Wants(t, originals)
  BY <1>1, <1>2, Unmoved
<1>4. PlanOK' BY <1>1, <1>3 DEF PlanOK, Calm
<1>5. OfThePlan' BY <1>1, <1>2, <1>3, OfThePlanFrame
<1>6. LayersOK' BY <1>1, <1>2 DEF LayersOK
<1>7. Progress'
  <2>1. ToSet(prefix) \subseteq Entry_ BY ElementsTyped DEF TypeOK
  <2>2. \A y \in Entry_ : y.id \in Things BY DEF Entry_
  <2>3. Done(prefix)' BY <1>1, <1>2, <1>3, <2>1, <2>2 DEF Progress, Done
  <2>4. CASE phase = "undo" BY <2>3, <2>4, <1>1, <1>2 DEF Progress
  <2>5. CASE phase = "exec"
    <3>1. outcome' = "ok" /\ todo = <<>> /\ later = <<>> BY <2>5, <1>1, <1>2 DEF Progress
    <3>2. \A t \in Things : ~Wants(t, originals) BY <2>5, <3>1, <1>2, OfOne DEF Progress
    <3> QED BY <2>3, <3>1, <3>2, <1>1, <1>3 DEF Progress
  <2> QED BY <2>4, <2>5, <1>1
<1> QED BY <1>1, <1>2, <1>3, <1>4, <1>5, <1>6, <1>7 DEF ApplyOK

\* A cycle publishes a plan of what is wanted.
LEMMA ReconcileSettles ==
  ASSUME TypeOK, SettleInv, Reconcile
  PROVE  SettleInv'
<1>1. /\ Idle /\ phase' = phase /\ mode' = mode /\ saved' = saved /\ settled' = settled
      /\ UNCHANGED <<desired, known, live>>
      /\ \/ Loaded /\ plan' = Plan
         \/ plan' = <<>>
  BY DEF Reconcile, disk
<1>2. Still BY <1>1 DEF Still
<1>3. \A t \in Things : Wants(t, saved)' <=> Wants(t, saved) BY <1>1, <1>2, WantsFrame
<1>4. Loaded' <=> Loaded BY <1>1 DEF Loaded, MatchesValid, FieldsValid
<1>5. SettledOK' BY <1>1, <1>3, <1>4 DEF SettleInv, SettledOK, Idle
<1>6. PlanOK'
  <2>1. CASE plan' = <<>> BY <2>1 DEF PlanOK
  <2>2. CASE Loaded /\ plan' = Plan
    <3>1. /\ \A op \in ToSet(Plan) : op.kind # "error" => Right(op)
          /\ \A t \in Things : Wants(t, saved) => \E op \in ToSet(Plan) : op.kind # "error" /\ op.id = t
          /\ Plan \in Seq(Op_)
      BY <2>2, PlanIsWhatIsWanted, PlanMembers DEF PlanContext
    <3>2. ToSet(Plan) \subseteq Op_ BY <3>1, ElementsTyped
    <3>3. \A op \in ToSet(plan') : op.kind # "error" => Right(op)' BY <2>2, <3>1, <3>2, <1>2, RightFrame
    <3>4. Covers(saved)' BY <2>2, <3>1, <1>3 DEF Covers, Planned
    <3> QED BY <2>2, <3>3, <3>4, <1>4 DEF PlanOK
  <2> QED BY <1>1, <2>1, <2>2
<1> QED BY <1>1, <1>5, <1>6 DEF SettleInv, ApplyOK, Started, Idle

\* Whatever else happens the plan is not to be relied on any more.
LEMMA AsideSettles ==
  ASSUME TypeOK, SettleInv, Push \/ Edit \/ Crash \/ StartRollback
  PROVE  SettleInv'
<1>1. ~settled' BY DEF Push, Edit, Crash, StartRollback
<1>2. CASE Crash
  <2>1. plan' = <<>> /\ phase' = "idle" BY <1>2 DEF Crash
  <2> QED BY <1>1, <2>1 DEF SettleInv, PlanOK, ApplyOK, SettledOK, Started
<1>3. CASE Push \/ Edit \/ StartRollback
  <2>1. touched' = {} => Things = {} BY <1>3 DEF Push, Edit, StartRollback
  <2>2. mode' = "rollback" \/ (phase' = phase /\ mode' = mode) BY <1>3 DEF Push, Edit, StartRollback, working
  <2> QED BY <1>1, <2>1, <2>2 DEF SettleInv, PlanOK, ApplyOK, SettledOK, Started, Calm
<1> QED BY <1>2, <1>3

\* An apply begins with all that is wanted to do.
LEMMA BeginSettles ==
  ASSUME TypeOK, PlanOK, StartApply
  PROVE  Things # {} /\ (Calm => PlanOK' /\ ApplyOK')
<1>1. /\ Executable(plan) # <<>> /\ mode' = "apply" /\ originals' = saved
      /\ UNCHANGED <<desired, known, live, plan, saved, touched>>
  BY DEF StartApply
<1>2. /\ plan \in Seq(Op_) /\ ToSet(plan) \subseteq Op_ /\ Executable(plan) \in Seq(Op_)
      /\ \A op : op \in ToSet(Executable(plan)) <=> op \in ToSet(plan) /\ op.kind # "error"
  BY PlanParts, ElementsTyped DEF TypeOK
<1>3. PICK x \in ToSet(plan) : x.kind # "error" BY <1>1, <1>2, EmptyMembers
<1>4. plan # <<>> /\ Things # {}
  <2>1. x \in Op_ BY <1>2, <1>3
  <2>2. x.id \in Things BY <1>3, <2>1 DEF Op_
  <2> QED BY <1>3, <2>2, OfOne
<1>5. ASSUME Calm PROVE PlanOK' /\ ApplyOK'
  <2>1. Loaded /\ Covers(saved) /\ \A op \in ToSet(plan) : op.kind # "error" => Right(op) BY <1>4, <1>5 DEF PlanOK
  <2>2. /\ Still /\ (Loaded' <=> Loaded) /\ \A t : Planned(t)' <=> Planned(t)
        /\ \A op \in ToSet(plan) : op.kind # "error" => (Right(op)' <=> Right(op))
        /\ Covers(originals)' /\ (Covers(saved)' <=> Covers(saved))
        /\ \A t \in Things : Wants(t, originals)' <=> Wants(t, saved)
    BY <1>1, <2>1, Unmoved
  <2>3. PlanOK' BY <1>1, <2>1, <2>2 DEF PlanOK, Calm
  <2> DEFINE dops == Layer(plan, Devices)
             eops == Layer(plan, Entities)
  <2>4. /\ dops \in Seq(Op_) /\ eops \in Seq(Op_)
        /\ \A op : op \in ToSet(dops) <=> op \in ToSet(plan) /\ op.kind # "error" /\ op.id \in Devices
        /\ \A op : op \in ToSet(eops) <=> op \in ToSet(plan) /\ op.kind # "error" /\ op.id \in Entities
    BY <1>2, PlanParts
  <2>5. \/ dops # <<>> /\ todo' = dops /\ later' = eops
        \/ dops = <<>> /\ todo' = eops /\ later' = <<>>
    BY DEF StartApply, BeginLayer
  <2>6. /\ prefix' = <<>> /\ executed' = <<>>
        /\ \/ phase' = "exec" /\ outcome' = "ok"
           \/ phase' = "save" /\ outcome' = "failed"
    BY DEF StartApply, BeginLayer
  <2> HIDE DEF dops, eops
  <2>7. ToSet(todo') \cup ToSet(later') = ToSet(dops) \cup ToSet(eops) BY <2>5, OfOne
  <2>8. LayersOK' BY <2>4, <2>5, <2>6, OfOne DEF LayersOK
  <2>9. OfThePlan' BY <1>1, <2>4, <2>6, <2>7, OfOne DEF OfThePlan
  <2>10. \A t \in Things : Wants(t, originals)' => \E op \in ToSet(todo') \cup ToSet(later') : op.id = t
    <3>1. SUFFICES ASSUME NEW t \in Things, Wants(t, saved)
                   PROVE  \E op \in ToSet(todo') \cup ToSet(later') : op.id = t
      BY <2>2
    <3>2. PICK op \in ToSet(plan) : op.kind # "error" /\ op.id = t BY <2>1, <3>1 DEF Covers, Planned
    <3> QED BY <3>1, <3>2, <2>4, <2>7 DEF Things
  <2>11. Progress' BY <2>6, <2>10, OfOne DEF Progress, Done
  <2> QED BY <1>1, <1>4, <2>2, <2>3, <2>8, <2>9, <2>11 DEF ApplyOK
<1> QED BY <1>4, <1>5

\* The second layer has what is left of it.
LEMMA NextLayerSettles ==
  ASSUME TypeOK, PlanOK, ApplyOK, Calm, NextLayer
  PROVE  PlanOK' /\ ApplyOK'
<1>1. /\ phase = "exec" /\ todo = <<>> /\ later # <<>> /\ later' = <<>> /\ todo' = later
      /\ prefix' = prefix \o executed /\ executed' = <<>>
      /\ UNCHANGED <<desired, known, live, plan, saved, mode, originals, touched>>
      /\ \/ phase' = "exec" /\ outcome' = "ok"
         \/ phase' = "save" /\ outcome' = "failed"
  BY DEF NextLayer, BeginLayer, disk
<1>2. /\ mode = "apply" /\ plan # <<>> /\ Covers(originals) /\ LayersOK /\ OfThePlan /\ Progress
  BY <1>1 DEF ApplyOK
<1>3. /\ Still /\ (Loaded' <=> Loaded) /\ \A t : Planned(t)' <=> Planned(t)
      /\ \A op \in ToSet(plan) : op.kind # "error" => (Right(op)' <=> Right(op))
      /\ Covers(originals)' /\ (Covers(saved)' <=> Covers(saved))
      /\ \A t \in Things : Wants(t, originals)' <=> Wants(t, originals)
  BY <1>1, <1>2, Unmoved
<1>4. PlanOK' BY <1>1, <1>3 DEF PlanOK, Calm
<1>5. ToSet(prefix') = ToSet(prefix) \cup ToSet(executed)
  <2>1. prefix \in Seq(Entry_) /\ executed \in Seq(Entry_) BY DEF TypeOK
  <2>2. ToSet(prefix \o executed) = ToSet(prefix) \cup ToSet(executed) BY ONLY <2>1, ConcatMembers
  <2> QED BY <1>1, <2>2
<1>6. \A y \in ToSet(prefix) \cup ToSet(executed) : y \in Entry_ /\ y.id \in Things
  <2>1. ToSet(executed) \subseteq Entry_ /\ ToSet(prefix) \subseteq Entry_ BY ElementsTyped DEF TypeOK
  <2>2. \A x \in Entry_ : x.id \in Things BY DEF Entry_
  <2> QED BY <2>1, <2>2
<1>7. LayersOK' BY <1>1, <1>2, <1>5, OfOne DEF LayersOK
<1>8. OfThePlan'
  <2>1. \A x \in ToSet(prefix') : RightEntry(x)' /\ Planned(x.id)'
    BY <1>2, <1>3, <1>5, <1>6, RightFrame DEF OfThePlan
  <2> QED BY <2>1, <1>1, <1>2, OfOne DEF OfThePlan
<1>9. Done(prefix)' BY <1>1, <1>2, <1>3, <1>5, <1>6 DEF Progress, Done
<1>10. \A t \in Things : Wants(t, originals)' => \E op \in ToSet(todo') \cup ToSet(later') : op.id = t
  BY <1>1, <1>2, <1>3, OfOne DEF Progress
<1>11. Done(executed)' BY <1>1, OfOne DEF Done
<1>12. Progress' BY <1>1, <1>9, <1>10, <1>11 DEF Progress
<1> QED BY <1>1, <1>2, <1>3, <1>4, <1>7, <1>8, <1>12 DEF ApplyOK

\* What is left of the plan: what did not land.
LEMMA PendingFacts ==
  ASSUME TypeOK, NEW op
  PROVE  /\ op \in ToSet(StillPending) => op \in ToSet(plan)
         /\ op \in ToSet(plan) /\ outcome # "ok"
              /\ (\A e \in Landed : ~(e.kind = op.kind /\ e.key = op.key)) => op \in ToSet(StillPending)
<1> DEFINE at == {i \in DOMAIN plan :
                    IF outcome = "ok" THEN plan[i].kind = "error"
                    ELSE ~\E e \in Landed : e.kind = plan[i].kind /\ e.key = plan[i].key}
<1>1. plan \in Seq(Op_) BY DEF TypeOK
<1>2. ToSet(StillPending) = {plan[i] : i \in at \cap DOMAIN plan} BY <1>1, SelectMembers DEF StillPending
<1> QED BY <1>2 DEF ToSet

\* Two of the same kind and key are about the same thing.
LEMMA SameThing ==
  ASSUME NEW op, Right(op), NEW e, RightEntry(e), e.kind = op.kind, e.key = op.key
  PROVE  e.id = op.id
<1>1. CASE op.kind = "update"
  <2>1. Owns(op.key, op.id) /\ Owns(op.key, e.id) BY <1>1 DEF Right, RightEntry
  <2>2. CASE op.key \in Entries
    <3>1. op.key \notin Entities BY <2>2, CustomizeAssumption DEF CustomizeAssumption
    <3>2. MatchDevices(op.key) = {op.id} /\ MatchDevices(op.key) = {e.id} BY <2>1, <3>1 DEF Owns
    <3> QED BY <3>2
  <2>3. CASE op.key \notin Entries BY <2>1, <2>3 DEF Owns
  <2> QED BY <2>2, <2>3
<1>2. CASE op.kind # "update" BY <1>2 DEF Right, RightEntry
<1> QED BY <1>1, <1>2

\* What is recorded and what landed leave the plan together.
LEMMA SaveSettles ==
  ASSUME TypeOK, SettleInv, StateSave
  PROVE  SettleInv'
<1>1. /\ phase = "save" /\ phase' = "idle" /\ UNCHANGED <<desired, live, known, touched>>
  BY DEF StateSave
<1>2. ASSUME Calm
      PROVE  /\ mode = "apply" /\ plan # <<>> /\ Covers(originals) /\ OfThePlan /\ Progress
             /\ Loaded /\ Covers(saved) /\ \A op \in ToSet(plan) : op.kind # "error" => Right(op)
  BY <1>1, <1>2 DEF SettleInv, ApplyOK, PlanOK
<1>3. Still BY <1>1 DEF Still
<1>4. Loaded' <=> Loaded BY <1>1 DEF Loaded, MatchesValid, FieldsValid
<1>5. ToSet(plan) \subseteq Op_ BY ElementsTyped DEF TypeOK
<1>6. \A op \in ToSet(plan) : op.kind # "error" => (Right(op)' <=> Right(op)) BY <1>3, <1>5, RightFrame
<1>7. saved' = originals => \A t \in Things : Wants(t, saved)' <=> Wants(t, originals) BY <1>1, <1>3, WantsFrame
<1>8. saved' = saved => \A t \in Things : Wants(t, saved)' <=> Wants(t, saved) BY <1>1, <1>3, WantsFrame
<1>9. PlanOK'
  <2>1. SUFFICES ASSUME Calm
                 PROVE  Loaded' /\ Covers(saved)' /\ \A op \in ToSet(plan') : op.kind # "error" => Right(op)'
    BY <1>1 DEF PlanOK, Calm
  <2>2. CASE saved' = saved /\ plan' = plan
    BY <2>1, <2>2, <1>2, <1>4, <1>6, <1>8 DEF Covers, Planned
  <2>3. CASE saved' = originals /\ plan' = StillPending
    <3>1. \A op \in ToSet(plan') : op.kind # "error" => Right(op)' BY <2>1, <2>3, <1>2, <1>6, PendingFacts
    <3>2. ASSUME NEW t \in Things, Wants(t, saved)' PROVE Planned(t)'
      <4>1. Wants(t, originals) BY <3>2, <2>3, <1>7
      <4>2. PICK op \in ToSet(plan) : op.kind # "error" /\ op.id = t BY <4>1, <2>1, <1>2 DEF Covers, Planned
      <4>3. outcome # "ok" BY <4>1, <2>1, <1>1, <1>2 DEF Progress
      <4>4. ASSUME NEW e \in Landed, e.kind = op.kind, e.key = op.key PROVE FALSE
        <5>1. RightEntry(e) BY <4>4, <2>1, <1>2 DEF Landed, OfThePlan
        <5>2. e.id = t BY <5>1, <4>2, <4>4, <2>1, <1>2, SameThing
        <5>3. ~Wants(e.id, originals) BY <4>4, <2>1, <1>1, <1>2 DEF Landed, Progress, Done
        <5> QED BY <5>2, <5>3, <4>1
      <4>5. op \in ToSet(StillPending) BY <4>2, <4>3, <4>4, PendingFacts
      <4> QED BY <4>2, <4>5, <2>3 DEF Planned
    <3> QED BY <3>1, <3>2, <2>1, <1>2, <1>4 DEF Covers
  <2> QED BY <2>1, <2>2, <2>3, <1>2 DEF StateSave
<1>10. SettledOK'
  <2>1. SUFFICES ASSUME settled' PROVE Idle' /\ Loaded' /\ \A t \in Things : ~Wants(t, saved)' BY DEF SettledOK
  <2>2. mode = "apply" /\ outcome = "ok" /\ touched = {} /\ saved' = originals BY <2>1 DEF StateSave
  <2>3. Calm BY <2>2, <1>1 DEF SettleInv, Started, Calm
  <2>4. \A t \in Things : ~Wants(t, originals) BY <2>2, <2>3, <1>1, <1>2 DEF Progress
  <2> QED BY <2>2, <2>3, <2>4, <1>1, <1>2, <1>4, <1>7 DEF Idle
<1> QED BY <1>1, <1>9, <1>10 DEF SettleInv, ApplyOK, Started

\* Every step keeps the plan complete.
LEMMA SettleStep == TypeOK /\ SettleInv /\ [Next]_vars => SettleInv'
<1> SUFFICES ASSUME TypeOK, SettleInv, [Next]_vars PROVE SettleInv' OBVIOUS
<1>0. PlanOK /\ ApplyOK /\ SettledOK /\ Started BY DEF SettleInv
<1>1. CASE Push \/ Edit \/ Crash \/ StartRollback BY <1>1, AsideSettles
<1>2. CASE Reconcile BY <1>2, ReconcileSettles
<1>3. CASE StateSave BY <1>3, SaveSettles
<1>4. CASE StartApply
  <2>1. Things # {} /\ (Calm => PlanOK' /\ ApplyOK') BY <1>0, <1>4, BeginSettles
  <2>2. ~settled' /\ touched' = touched BY <1>4 DEF StartApply
  <2> QED BY <2>1, <2>2 DEF SettleInv, PlanOK, ApplyOK, SettledOK, Started, Calm
<1>5. CASE NextLayer \/ ExecuteOne \/ OpFails \/ ApplyDone \/ UndoOne \/ UndoDone
  <2>1. phase # "idle" /\ mode' = mode /\ settled' = settled /\ touched' = touched
    BY <1>5 DEF NextLayer, ExecuteOne, OpFails, ApplyDone, UndoOne, UndoDone, working, history
  <2>2. Calm => PlanOK' /\ ApplyOK'
    BY <1>0, <1>5, NextLayerSettles, ExecuteSettles, FailureSettles, LayerEndSettles, UndoSettles
  <2>3. ~settled BY <2>1, <1>0 DEF SettledOK, Idle
  <2> QED BY <2>1, <2>2, <2>3, <1>0 DEF SettleInv, PlanOK, ApplyOK, SettledOK, Started, Calm
<1>6. CASE UNCHANGED vars
  <2> USE DEF disk, working, history, bounds
  <2>1. UNCHANGED <<desired, known, live, plan, saved, originals, todo, later, prefix, executed, phase, mode, outcome,
                    touched, settled>>
    BY <1>6 DEF vars
  <2>2. /\ Still /\ (Loaded' <=> Loaded) /\ \A t : Planned(t)' <=> Planned(t)
        /\ \A op \in ToSet(plan) : op.kind # "error" => (Right(op)' <=> Right(op))
        /\ (Covers(originals)' <=> Covers(originals)) /\ (Covers(saved)' <=> Covers(saved))
        /\ \A t \in Things : (Wants(t, originals)' <=> Wants(t, originals)) /\ (Wants(t, saved)' <=> Wants(t, saved))
    BY <2>1, Unmoved
  <2>3. PlanOK' BY <2>1, <2>2, <1>0 DEF PlanOK, Calm
  <2>4. SettledOK' /\ Started' BY <2>1, <2>2, <1>0 DEF SettledOK, Started, Idle
  <2>5. ASSUME Calm, phase # "idle" PROVE ApplyOK'
    <3>1. mode = "apply" /\ plan # <<>> /\ Covers(originals) /\ LayersOK /\ OfThePlan /\ Progress
      BY <2>5, <1>0 DEF ApplyOK
    <3>2. LayersOK' BY <2>1, <3>1 DEF LayersOK
    <3>3. OfThePlan' BY <2>1, <2>2, <3>1, OfThePlanFrame
    <3>4. \A y \in ToSet(prefix) \cup ToSet(executed) : y.id \in Things
      <4>1. ToSet(executed) \subseteq Entry_ /\ ToSet(prefix) \subseteq Entry_ BY ElementsTyped DEF TypeOK
      <4>2. \A x \in Entry_ : x.id \in Things BY DEF Entry_
      <4> QED BY <4>1, <4>2
    <3>5. (Done(prefix)' <=> Done(prefix)) /\ (Done(executed)' <=> Done(executed)) BY <2>1, <2>2, <3>4 DEF Done
    <3>6. Progress' BY <2>1, <2>2, <3>1, <3>5 DEF Progress
    <3> QED BY <2>1, <2>2, <3>1, <3>2, <3>3, <3>6 DEF ApplyOK
  <2>6. ApplyOK' BY <2>1, <2>5 DEF ApplyOK, Calm
  <2> QED BY <2>3, <2>4, <2>6 DEF SettleInv
<1> QED BY <1>1, <1>2, <1>3, <1>4, <1>5, <1>6 DEF Next

\* After a whole plan landed the next cycle finds nothing to do, whatever was
\* recorded, restored or forgotten on the way, and however many earlier applies
\* of that plan failed and were undone (Plan of devices.go and entities.go, against the appliers'
\* bookkeeping of originals).
THEOREM Converges == Spec => []SettledMeansNoPlan
<1>1. Init => SettleInv BY DEF Init, SettleInv, PlanOK, ApplyOK, SettledOK, Started
<1>2. TypeOK /\ SettleInv => SettledMeansNoPlan
  <2> SUFFICES ASSUME TypeOK, SettleInv, settled PROVE Executable(Plan) = <<>> BY DEF SettledMeansNoPlan
  <2>1. Loaded /\ \A t \in Things : ~Wants(t, saved) BY DEF SettleInv, SettledOK
  <2>2. Plan \in Seq(Op_) /\ \A op \in ToSet(Plan) : op.kind # "error" => op.id \in Things /\ Wants(op.id, saved)
    BY <2>1, PlanMembers, PlanIsWhatIsWanted DEF PlanContext
  <2>3. Executable(Plan) \in Seq(Op_) /\ \A op : op \in ToSet(Executable(Plan)) <=> op \in ToSet(Plan) /\ op.kind # "error"
    BY <2>2, PlanParts
  <2>4. ToSet(Executable(Plan)) = {} BY <2>1, <2>2, <2>3
  <2> QED BY <2>3, <2>4, EmptyMembers
<1>3. TypeOK /\ SettleInv /\ [Next]_vars => SettleInv' BY SettleStep
<1> QED BY <1>1, <1>2, <1>3, TypeCorrect, PTL DEF Spec
-----------------------------------------------------------------------------
(* Giving back what was there                                               *)

\* An operation is the only one of its list about its thing.
Apart == {r \in Op_ \X Op_ : r[1].kind # "error" /\ r[2].kind # "error" => r[1].id # r[2].id}
OnePerThing(ops) == InOrder(ops, Apart)
OneEach(entries) == \A x, y \in entries : x.id = y.id => x = y

\* What this apply did, and what it has ahead.
Did == ToSet(prefix) \cup ToSet(executed)
Ahead == ToSet(todo) \cup ToSet(later)

PlanApart == OnePerThing(plan)
TodoApart ==
  /\ Idle => todo = <<>> /\ later = <<>>
  /\ OnePerThing(todo) /\ OnePerThing(later) /\ Ahead \subseteq ToSet(plan)
  /\ \A op1 \in ToSet(todo), op2 \in ToSet(later) : op1.id # op2.id
DoneApart ==
  /\ OneEach(Did) /\ \A d \in 1 .. 2 : OneEach(ToSet(journals[d]))
  /\ phase = "exec" => \A e \in Did : \A op \in Ahead : e.id # op.id

\* What the layer fetched of a thing it has not come to yet is as it was, if
\* nobody else touched the thing.
FetchedOK ==
  phase = "exec" => \A t \in Things \ raced : (\A e \in ToSet(executed) : e.id # t) => fetched[t] = live[t]

\* What is recorded of a thing is what its fields were when the agent took
\* them over, for those that it has.
Kept == IF Idle THEN saved ELSE originals
Records(r, had) ==
  /\ r = Unrecorded <=> had = Unrecorded
  /\ r # Unrecorded => DOMAIN r = DOMAIN had /\ \A f \in DOMAIN r : r[f] = Clamped(f, had[f])
TheirsOK ==
  /\ theirs \in [Things -> Findings \cup {Unrecorded}]
  /\ \A t \in Things \ astray : Records(Kept[t], theirs[t])

\* One record tells what the other does, and maybe more.
Below(r, s) == r = Unrecorded \/ (s # Unrecorded /\ DOMAIN r \subseteq DOMAIN s /\ \A f \in DOMAIN r : r[f] = s[f])

\* A restore sends all that is recorded, and all that undoing an entry would
\* record again; undoing an entry records nothing new.
Consistent(entries, record, ops, aside) ==
  \A t \in Things \ aside :
    /\ \A e \in entries : e.id = t /\ record[t] # Unrecorded => Below(e.snapshot, record[t])
    /\ \A op \in ops : op.kind = "restore" /\ op.id = t =>
         /\ op.params # Unrecorded /\ Below(record[t], op.params)
         /\ \A e \in entries : e.id = t => Below(e.snapshot, op.params)

\* The journal Roll Back would undo, or that a crash brings back, is as much
\* in keeping with the record as what this apply did.
JournalOf(p) == IF p = 0 THEN {} ELSE ToSet(journals[p])
StandingOK ==
  IF phase = "idle"
  THEN /\ Consistent(JournalOf(pointer), saved, ToSet(plan), astray)
       /\ Consistent(JournalOf(savedPointer), saved, {}, astray)
  ELSE /\ Consistent(Did, originals, ToSet(plan), astray)
       /\ ToSet(journals[cur]) \subseteq Did
       /\ savedPointer # cur => Consistent(JournalOf(savedPointer), saved, {}, astray)
       /\ mode = "rollback" => cur = pointer

GiveInv == PlanApart /\ TodoApart /\ DoneApart /\ FetchedOK /\ TheirsOK /\ StandingOK
GiveContext == TypeOK /\ GiveInv

\* Two operations of different loops, or of different items of one, are about
\* different things.
LEMMA ApartFacts ==
  /\ \A x, y : <<x, y>> \in Apart <=> x \in Op_ /\ y \in Op_ /\ (x.kind # "error" /\ y.kind # "error" => x.id # y.id)
  /\ OnePerThing(<<>>)
BY DEF Apart, OnePerThing, InOrder

\* A plan has one operation about a thing: the thing has one owner, or is free.
LEMMA PlanIsApart ==
  ASSUME PlanContext
  PROVE  OnePerThing(Plan)
<1>0. \A x, y : <<x, y>> \in Apart <=> x \in Op_ /\ y \in Op_ /\ (x.kind # "error" /\ y.kind # "error" => x.id # y.id)
  BY ApartFacts
<1>1. /\ Yields(EntryPlan, Entries, Op_) /\ Yields(DevicePlan, Devices, Op_)
      /\ Yields(EntityPlan, Entities, Op_) /\ Yields(ReturnPlan, Entities, Op_)
      /\ Plan = (EntryLoop \o DeviceLoop) \o (EntityLoop \o ReturnLoop)
  BY PlanLoops
<1>2. Visited(EntryOrder, Entries) /\ Visited(Only(Devices), Devices) /\ Visited(Only(Entities), Entities)
  BY Visits
<1>3. Distinct(EntryOrder) /\ Distinct(Only(Devices)) /\ Distinct(Only(Entities))
  <2>1. Distinct(EntryOrder) /\ Distinct(ThingOrder) /\ ThingOrder \in Seq(Things)
    BY CustomizeAssumption DEF CustomizeAssumption, Distinct
  <2> QED BY <2>1, SelectDistinct DEF Only
<1>4. \A op \in Op_ : op.kind # "error" =>
        /\ \A e \in Entries : op \in ToSet(PlanEntry(e)) => op.id \in Devices /\ Owns(e, op.id)
        /\ \A d \in Devices : op \in ToSet(PlanDeviceRestore(d)) => op.id = d /\ Freed(d)
        /\ \A x \in Entities : op \in ToSet(PlanEntity(x)) => op.id = x /\ Owns(x, x)
        /\ \A x \in Entities : op \in ToSet(PlanEntityRestore(x)) => op.id = x /\ Freed(x)
  <2>1. SUFFICES ASSUME NEW op \in Op_, op.kind # "error"
                 PROVE  /\ \A e \in Entries : op \in ToSet(PlanEntry(e)) => op.id \in Devices /\ Owns(e, op.id)
                        /\ \A d \in Devices : op \in ToSet(PlanDeviceRestore(d)) => op.id = d /\ Freed(d)
                        /\ \A x \in Entities : op \in ToSet(PlanEntity(x)) => op.id = x /\ Owns(x, x)
                        /\ \A x \in Entities : op \in ToSet(PlanEntityRestore(x)) => op.id = x /\ Freed(x)
    OBVIOUS
  <2>2. ASSUME NEW e \in Entries, op \in ToSet(PlanEntry(e)) PROVE op.id \in Devices /\ Owns(e, op.id)
    <3>1. PICK t \in Devices : Owns(e, t) /\ op = Op("update", e, t, FieldsOf(e)) BY <2>1, <2>2, EntryPlanned
    <3> QED BY <3>1, OpFacts
  <2>3. ASSUME NEW d \in Devices, op \in ToSet(PlanDeviceRestore(d)) PROVE op.id = d /\ Freed(d)
    BY <2>1, <2>3, DevicePlanned, ReturnOpFacts
  <2>4. ASSUME NEW x \in Entities, op \in ToSet(PlanEntity(x)) PROVE op.id = x /\ Owns(x, x)
    BY <2>1, <2>4, EntityPlanned, OpFacts
  <2>5. ASSUME NEW x \in Entities, op \in ToSet(PlanEntityRestore(x)) PROVE op.id = x /\ Freed(x)
    BY <2>1, <2>5, EntityPlanned, ReturnOpFacts
  <2> QED BY <2>2, <2>3, <2>4, <2>5
<1>5. /\ \A op \in ToSet(EntryLoop) : op \in Op_ /\ \E e \in Entries : op \in ToSet(PlanEntry(e))
      /\ \A op \in ToSet(DeviceLoop) : op \in Op_ /\ \E d \in Devices : op \in ToSet(PlanDeviceRestore(d))
      /\ \A op \in ToSet(EntityLoop) : op \in Op_ /\ \E x \in Entities : op \in ToSet(PlanEntity(x))
      /\ \A op \in ToSet(ReturnLoop) : op \in Op_ /\ \E x \in Entities : op \in ToSet(PlanEntityRestore(x))
  <2>1. /\ ToSet(EntryLoop) \subseteq Op_ /\ ToSet(DeviceLoop) \subseteq Op_
        /\ ToSet(EntityLoop) \subseteq Op_ /\ ToSet(ReturnLoop) \subseteq Op_
    BY LoopMembers, ElementsTyped
  <2> QED BY <2>1, LoopMembers DEF Collected, EntryPlan, DevicePlan, EntityPlan, ReturnPlan
<1>6. /\ \A e \in Entries : ToSet(EntryPlan[e]) \subseteq Op_
      /\ \A d \in Devices : ToSet(DevicePlan[d]) \subseteq Op_
      /\ \A x \in Entities : ToSet(EntityPlan[x]) \subseteq Op_ /\ ToSet(ReturnPlan[x]) \subseteq Op_
  BY <1>1, OneOfFacts, ElementsTyped DEF Yields
<1>7. InOrder(EntryLoop, Apart)
  <2>1. ASSUME NEW k \in Entries, NEW l \in Entries, k # l, NEW x \in ToSet(EntryPlan[k]), NEW y \in ToSet(EntryPlan[l])
        PROVE  <<x, y>> \in Apart
    <3>1. x \in Op_ /\ y \in Op_ /\ x \in ToSet(PlanEntry(k)) /\ y \in ToSet(PlanEntry(l)) BY <2>1, <1>6 DEF EntryPlan
    <3>2. ASSUME x.kind # "error", y.kind # "error", x.id = y.id PROVE FALSE
      <4>1. x.id \in Things /\ Owns(k, x.id) /\ Owns(l, x.id) BY <3>1, <3>2, <1>4 DEF Things
      <4>2. k \in Entries \cup Entities /\ l \in Entries \cup Entities OBVIOUS
      <4> QED BY <4>1, <4>2, <2>1, OneOwner
    <3> QED BY <3>1, <3>2, <1>0
  <2> QED BY <2>1, <1>1, <1>2, <1>3, EachInOrder DEF EntryLoop
<1>8. InOrder(DeviceLoop, Apart)
  <2>1. ASSUME NEW k \in Devices, NEW l \in Devices, k # l, NEW x \in ToSet(DevicePlan[k]), NEW y \in ToSet(DevicePlan[l])
        PROVE  <<x, y>> \in Apart
    <3>1. x \in Op_ /\ y \in Op_ /\ x \in ToSet(PlanDeviceRestore(k)) /\ y \in ToSet(PlanDeviceRestore(l))
      BY <2>1, <1>6 DEF DevicePlan
    <3> QED BY <3>1, <2>1, <1>0, <1>4
  <2> QED BY <2>1, <1>1, <1>2, <1>3, EachInOrder DEF DeviceLoop
<1>9. InOrder(EntityLoop, Apart)
  <2>1. ASSUME NEW k \in Entities, NEW l \in Entities, k # l, NEW x \in ToSet(EntityPlan[k]), NEW y \in ToSet(EntityPlan[l])
        PROVE  <<x, y>> \in Apart
    <3>1. x \in Op_ /\ y \in Op_ /\ x \in ToSet(PlanEntity(k)) /\ y \in ToSet(PlanEntity(l)) BY <2>1, <1>6 DEF EntityPlan
    <3> QED BY <3>1, <2>1, <1>0, <1>4
  <2> QED BY <2>1, <1>1, <1>2, <1>3, EachInOrder DEF EntityLoop
<1>10. InOrder(ReturnLoop, Apart)
  <2>1. ASSUME NEW k \in Entities, NEW l \in Entities, k # l, NEW x \in ToSet(ReturnPlan[k]), NEW y \in ToSet(ReturnPlan[l])
        PROVE  <<x, y>> \in Apart
    <3>1. x \in Op_ /\ y \in Op_ /\ x \in ToSet(PlanEntityRestore(k)) /\ y \in ToSet(PlanEntityRestore(l))
      BY <2>1, <1>6 DEF ReturnPlan
    <3> QED BY <3>1, <2>1, <1>0, <1>4
  <2> QED BY <2>1, <1>1, <1>2, <1>3, EachInOrder DEF ReturnLoop
<1>11. /\ EntryLoop \in Seq(Op_) /\ DeviceLoop \in Seq(Op_) /\ EntityLoop \in Seq(Op_) /\ ReturnLoop \in Seq(Op_)
  BY LoopMembers
<1>12. \A x \in ToSet(EntryLoop), y \in ToSet(DeviceLoop) : <<x, y>> \in Apart
  <2>1. SUFFICES ASSUME NEW x \in ToSet(EntryLoop), NEW y \in ToSet(DeviceLoop) PROVE <<x, y>> \in Apart OBVIOUS
  <2>2. ASSUME x.kind # "error", y.kind # "error", x.id = y.id PROVE FALSE
    <3>1. PICK e \in Entries : x \in ToSet(PlanEntry(e)) BY <1>5
    <3>2. PICK d \in Devices : y \in ToSet(PlanDeviceRestore(d)) BY <1>5
    <3>3. Owns(e, d) /\ Freed(d) /\ d \in Things BY <2>2, <3>1, <3>2, <1>4, <1>5 DEF Things
    <3> QED BY <3>3, OneOwner
  <2>3. x \in Op_ /\ y \in Op_ BY <2>1, <1>5
  <2> QED BY <2>2, <2>3, <1>0
<1>13. \A x \in ToSet(EntityLoop), y \in ToSet(ReturnLoop) : <<x, y>> \in Apart
  <2>1. SUFFICES ASSUME NEW x \in ToSet(EntityLoop), NEW y \in ToSet(ReturnLoop) PROVE <<x, y>> \in Apart OBVIOUS
  <2>2. ASSUME x.kind # "error", y.kind # "error", x.id = y.id PROVE FALSE
    <3>1. PICK t \in Entities : x \in ToSet(PlanEntity(t)) BY <1>5
    <3>2. PICK u \in Entities : y \in ToSet(PlanEntityRestore(u)) BY <1>5
    <3>3. Owns(t, t) /\ Freed(t) /\ t \in Things BY <2>2, <3>1, <3>2, <1>4, <1>5 DEF Things
    <3> QED BY <3>3, OneOwner
  <2>3. x \in Op_ /\ y \in Op_ BY <2>1, <1>5
  <2> QED BY <2>2, <2>3, <1>0
<1>14. ASSUME NEW A \in Seq(Op_), NEW B \in Seq(Op_), A = EntryLoop \o DeviceLoop, B = EntityLoop \o ReturnLoop
       PROVE  OnePerThing(Plan)
  <2>1. InOrder(A, Apart) /\ ToSet(A) = ToSet(EntryLoop) \cup ToSet(DeviceLoop)
    BY ONLY <1>7, <1>8, <1>11, <1>12, <1>14, ConcatInOrder, ConcatMembers
  <2>2. InOrder(B, Apart) /\ ToSet(B) = ToSet(EntityLoop) \cup ToSet(ReturnLoop)
    BY ONLY <1>9, <1>10, <1>11, <1>13, <1>14, ConcatInOrder, ConcatMembers
  <2>3. \A x \in ToSet(A), y \in ToSet(B) : <<x, y>> \in Apart
    <3>1. SUFFICES ASSUME NEW x \in ToSet(A), NEW y \in ToSet(B) PROVE <<x, y>> \in Apart OBVIOUS
    <3>2. x.kind # "error" => x.id \in Devices BY <2>1, <3>1, <1>4, <1>5
    <3>3. y.kind # "error" => y.id \in Entities BY <2>2, <3>1, <1>4, <1>5
    <3>4. x \in Op_ /\ y \in Op_ BY <2>1, <2>2, <3>1, <1>5
    <3>5. Devices \cap Entities = {} BY CustomizeAssumption DEF CustomizeAssumption
    <3> QED BY <3>2, <3>3, <3>4, <3>5, <1>0
  <2>4. InOrder(A \o B, Apart) BY ONLY <1>14, <2>1, <2>2, <2>3, ConcatInOrder
  <2> QED BY <2>4, <1>1, <1>14 DEF OnePerThing
<1>15. (EntryLoop \o DeviceLoop) \in Seq(Op_) /\ (EntityLoop \o ReturnLoop) \in Seq(Op_) BY ONLY <1>11, ConcatMembers
<1> QED BY <1>14, <1>15

\* What is left out of a list leaves the rest apart; so do a tail and a layer.
LEMMA ApartParts ==
  ASSUME NEW ops \in Seq(Op_), OnePerThing(ops)
  PROVE  /\ \A S : OnePerThing(Select(ops, S)) /\ OnePerThing(Layer(ops, S))
         /\ ops # <<>> => /\ OnePerThing(Tail(ops))
                          /\ Head(ops).kind # "error" =>
                               \A op \in ToSet(Tail(ops)) : op.kind # "error" => op.id # Head(ops).id
<1>1. \A S : InOrder(Select(ops, S), Apart) BY SelectInOrder DEF OnePerThing
<1>2. \A S : OnePerThing(Select(ops, S)) /\ OnePerThing(Layer(ops, S)) BY <1>1 DEF OnePerThing, Layer
<1>3. ASSUME ops # <<>>
      PROVE  /\ OnePerThing(Tail(ops))
             /\ Head(ops).kind # "error" => \A op \in ToSet(Tail(ops)) : op.kind # "error" => op.id # Head(ops).id
  <2> DEFINE u == Tail(ops)
  <2>1. /\ DOMAIN ops = 1 .. Len(ops) /\ Len(ops) \in Nat /\ 1 \in DOMAIN ops /\ Head(ops) = ops[1]
        /\ Len(u) = Len(ops) - 1 /\ DOMAIN u = 1 .. Len(u) /\ \A i \in 1 .. Len(u) : u[i] = ops[i + 1]
    BY <1>3
  <2> HIDE DEF u
  <2>2. \A i \in DOMAIN u : i + 1 \in DOMAIN ops /\ 1 < i + 1 /\ u[i] = ops[i + 1] BY <2>1
  <2>3. ASSUME NEW i \in DOMAIN u, NEW j \in DOMAIN u, i < j PROVE <<u[i], u[j]>> \in Apart
    <3>1. i + 1 < j + 1 BY <2>1, <2>3
    <3> QED BY <2>2, <3>1 DEF OnePerThing, InOrder
  <2>4. ASSUME NEW i \in DOMAIN u PROVE <<ops[1], u[i]>> \in Apart
    BY <2>1, <2>2 DEF OnePerThing, InOrder
  <2>5. ASSUME Head(ops).kind # "error", NEW op \in ToSet(u), op.kind # "error" PROVE op.id # Head(ops).id
    <3>1. PICK i \in DOMAIN u : op = u[i] BY <2>5 DEF ToSet
    <3>2. <<Head(ops), op>> \in Apart BY <2>1, <2>4, <3>1
    <3> QED BY <2>5, <3>2, ApartFacts
  <2> QED BY <2>3, <2>5 DEF OnePerThing, InOrder, u
<1> QED BY <1>2, <1>3

\* What an operation that lands does.
LEMMA ExecuteFacts ==
  ASSUME GiveContext, ExecuteOne, NEW op, op = Head(todo), NEW e, e = Entry(op)
  PROVE  /\ phase = "exec" /\ phase' # "idle" /\ Accepts(op)
         /\ op \in Op_ /\ op.kind # "error" /\ op \in ToSet(todo) /\ op.id \in Things /\ op \in ToSet(plan)
         /\ live' = Effect(op) /\ originals' = Originals(op) /\ theirs' = TakenOver(op)
         /\ astray \subseteq astray' /\ (op.id \notin astray' => op.id \notin raced)
         /\ Did' = Did \cup {e} /\ ToSet(executed') = ToSet(executed) \cup {e}
         /\ e.id = op.id /\ e.snapshot = originals[op.id] /\ e \in Entry_
         /\ \A x \in Did : x.id # op.id
         /\ UNCHANGED <<saved, savedPointer, plan, pointer, mode, cur, fetched, raced>>
         /\ \A d \in 1 .. 2 : journals'[d] = journals[d] \/ (d = cur /\ ToSet(journals'[d]) = Did')
<1>1. /\ phase = "exec" /\ todo # <<>> /\ Accepts(op) /\ live' = Effect(op) /\ originals' = Originals(op)
      /\ theirs' = TakenOver(op) /\ executed' = Append(executed, e)
      /\ astray' = IF op.id \in raced THEN astray \cup {op.id} ELSE astray
      /\ phase' \in {"exec", "save"} /\ prefix' = prefix
      /\ UNCHANGED <<saved, savedPointer, plan, pointer, mode, cur, fetched, raced>>
      /\ journals' = journals \/ journals' = [journals EXCEPT ![cur] = prefix \o executed']
  BY DEF ExecuteOne
<1>2. /\ op \in Op_ /\ op.kind # "error" /\ op \in ToSet(todo) /\ op.id \in Things
  BY <1>1, HeadTyped, ElementsTyped DEF GiveContext, TypeOK, Op_
<1>3. op \in ToSet(plan) /\ \A x \in Did : x.id # op.id BY <1>1, <1>2 DEF GiveContext, GiveInv, TodoApart, DoneApart, Ahead
<1>4. e \in Entry_ BY <1>2, EntryTyped DEF GiveContext
<1>5. executed \in Seq(Entry_) /\ prefix \in Seq(Entry_) /\ cur \in 1 .. 2 /\ journals \in [1 .. 2 -> Seq(Entry_)]
  BY DEF GiveContext, TypeOK
<1>6. ToSet(executed') = ToSet(executed) \cup {e} /\ executed' \in Seq(Entry_) BY <1>1, <1>4, <1>5, AppendMembers
<1>7. Did' = Did \cup {e} BY <1>1, <1>6 DEF Did
<1>8. ToSet(prefix \o executed') = Did'
  <2>1. PICK s \in Seq(Entry_) : s = executed' BY <1>6
  <2>2. ToSet(prefix \o s) = ToSet(prefix) \cup ToSet(s) BY <1>5, ConcatMembers
  <2> QED BY <1>1, <2>1, <2>2 DEF Did
<1>9. \A d \in 1 .. 2 : journals'[d] = journals[d] \/ (d = cur /\ ToSet(journals'[d]) = Did')
  BY <1>1, <1>5, <1>8
<1>10. e.id = op.id /\ e.snapshot = originals[op.id] BY DEF Entry
<1>11. astray \subseteq astray' /\ (op.id \notin astray' => op.id \notin raced) BY <1>1
<1> QED BY <1>1, <1>2, <1>3, <1>4, <1>6, <1>7, <1>9, <1>10, <1>11

\* What undoing an entry does to the record and to the journal.
LEMMA UndoneFacts ==
  ASSUME TypeOK, UndoOne
  PROVE  /\ phase = "undo" /\ phase' # "idle" /\ phase' # "exec"
         /\ \/ originals' = originals /\ theirs' = theirs
            \/ \E e \in ToSet(executed) : /\ e \in Entry_ /\ originals' = [originals EXCEPT ![e.id] = e.snapshot]
                                          /\ theirs' = GivenBack(e)
         /\ astray \subseteq astray'
         /\ UNCHANGED <<saved, savedPointer, plan, pointer, mode, cur, prefix, executed, todo, later>>
         /\ \A d \in 1 .. 2 : journals'[d] = journals[d] \/ (d = cur /\ ToSet(journals'[d]) \subseteq Did)
<1>1. /\ phase = "undo" /\ phase' \in {"undo", "save"} /\ pos > 0
      /\ UNCHANGED <<saved, savedPointer, plan, pointer, mode, cur, prefix, executed, todo, later>>
  BY DEF UndoOne
<1>2. pos \in DOMAIN executed /\ executed \in Seq(Entry_) /\ prefix \in Seq(Entry_)
  BY <1>1, ElementsTyped DEF TypeOK
<1>3. executed[pos] \in ToSet(executed) /\ executed[pos] \in Entry_ BY <1>2 DEF ToSet
<1>4. \/ originals' = originals /\ theirs' = theirs
      \/ originals' = [originals EXCEPT ![executed[pos].id] = executed[pos].snapshot] /\ theirs' = GivenBack(executed[pos])
  BY DEF UndoOne
<1>5. astray \subseteq astray' BY DEF UndoOne
<1>6. journals' = journals \/ journals' = [journals EXCEPT ![cur] = Left(kept)] BY DEF UndoOne
<1>7. ToSet(Left(kept)) \subseteq Did
  <2> DEFINE u == Select(executed, (1 .. (pos - 1)) \cup kept)
             at == ((1 .. (pos - 1)) \cup kept) \cap DOMAIN executed
  <2>1. u \in Seq(Entry_) /\ ToSet(u) = {executed[i] : i \in at} BY <1>2, SelectMembers
  <2>2. Left(kept) = prefix \o u BY DEF Left
  <2>3. {executed[i] : i \in at} \subseteq ToSet(executed) BY DEF ToSet
  <2> HIDE DEF u, at
  <2>4. ToSet(prefix \o u) = ToSet(prefix) \cup ToSet(u) BY <1>2, <2>1, ConcatMembers
  <2> QED BY <2>1, <2>2, <2>3, <2>4 DEF Did
<1>8. \A d \in 1 .. 2 : journals'[d] = journals[d] \/ (d = cur /\ ToSet(journals'[d]) \subseteq Did)
  BY <1>6, <1>7 DEF TypeOK
<1> QED BY <1>1, <1>3, <1>4, <1>5, <1>8

\* The plan keeps one operation about a thing.
LEMMA PlanApartStep == GiveContext /\ [Next]_vars => PlanApart'
<1> SUFFICES ASSUME GiveContext, [Next]_vars PROVE PlanApart' OBVIOUS
<1> USE DEF disk, working, history, bounds
<1>0. OnePerThing(plan) /\ plan \in Seq(Op_) BY DEF GiveContext, GiveInv, PlanApart, TypeOK
<1>1. \/ plan' = plan \/ plan' = <<>>
      \/ Loaded /\ plan' = Plan
      \/ plan' = StillPending
  BY Zenon DEF Next, vars, Push, Edit, Crash, Reconcile, StartApply, NextLayer, OpFails, ExecuteOne, UndoOne,
         ApplyDone, UndoDone, StartRollback, StateSave
<1>2. OnePerThing(<<>>) BY ApartFacts
<1>3. OnePerThing(StillPending) BY <1>0, ApartParts DEF StillPending
<1>4. Loaded => OnePerThing(Plan) BY PlanIsApart DEF PlanContext, GiveContext
<1> QED BY <1>0, <1>1, <1>2, <1>3, <1>4 DEF PlanApart

\* So do the operations an apply has ahead, which are the plan's.
LEMMA TodoApartStep == GiveContext /\ [Next]_vars => TodoApart'
<1> SUFFICES ASSUME GiveContext, [Next]_vars PROVE TodoApart' OBVIOUS
<1> USE DEF disk, working, history, bounds
<1>0. /\ Idle => todo = <<>> /\ later = <<>>
      /\ OnePerThing(todo) /\ OnePerThing(later) /\ Ahead \subseteq ToSet(plan)
      /\ \A op1 \in ToSet(todo), op2 \in ToSet(later) : op1.id # op2.id
      /\ plan \in Seq(Op_) /\ todo \in Seq(Op_) /\ later \in Seq(Op_) /\ OnePerThing(plan)
      /\ \A op \in ToSet(todo) : op.kind # "error"
  BY DEF GiveContext, GiveInv, TodoApart, PlanApart, TypeOK
<1>a. ToSet(<<>>) = {} /\ OnePerThing(<<>>) BY OfOne, ApartFacts
<1>1. CASE todo' = <<>> /\ later' = <<>>
  BY <1>1, <1>a DEF TodoApart, Ahead
<1>2. CASE UNCHANGED <<todo, later, plan>> /\ (phase' = "idle" => phase = "idle")
  BY <1>0, <1>2 DEF TodoApart, Ahead, Idle
<1>3. CASE Reconcile
  <2>1. todo' = todo /\ later' = later /\ Idle BY <1>3 DEF Reconcile
  <2> QED BY <1>0, <1>1, <2>1
<1>4. CASE StartApply
  <2> DEFINE dops == Layer(plan, Devices)
             eops == Layer(plan, Entities)
  <2>1. /\ OnePerThing(dops) /\ OnePerThing(eops)
        /\ \A op : op \in ToSet(dops) <=> op \in ToSet(plan) /\ op.kind # "error" /\ op.id \in Devices
        /\ \A op : op \in ToSet(eops) <=> op \in ToSet(plan) /\ op.kind # "error" /\ op.id \in Entities
    BY <1>0, PlanParts, ApartParts
  <2>2. \/ todo' = dops /\ later' = eops
        \/ todo' = eops /\ later' = <<>>
    BY <1>4 DEF StartApply, BeginLayer
  <2>3. plan' = plan /\ phase' # "idle" BY <1>4 DEF StartApply, BeginLayer
  <2>4. Devices \cap Entities = {} BY CustomizeAssumption DEF CustomizeAssumption
  <2> HIDE DEF dops, eops
  <2> QED BY <1>a, <2>1, <2>2, <2>3, <2>4 DEF TodoApart, Ahead, Idle
<1>5. CASE NextLayer
  <2>1. todo' = later /\ later' = <<>> /\ plan' = plan /\ phase' # "idle" BY <1>5 DEF NextLayer, BeginLayer
  <2> QED BY <1>0, <1>a, <2>1 DEF TodoApart, Ahead, Idle
<1>6. CASE ExecuteOne
  <2>1. /\ todo # <<>> /\ (todo' = todo \/ todo' = Tail(todo)) /\ UNCHANGED <<plan, later>> /\ phase' # "idle"
    BY <1>6 DEF ExecuteOne
  <2>2. OnePerThing(Tail(todo)) /\ ToSet(Tail(todo)) \subseteq ToSet(todo) BY <1>0, <2>1, ApartParts, ElementsTyped
  <2> QED BY <1>0, <2>1, <2>2 DEF TodoApart, Ahead, Idle
<1>7. CASE Push \/ Edit \/ OpFails \/ ApplyDone \/ UndoOne \/ UndoDone \/ UNCHANGED vars
  <2>1. UNCHANGED <<todo, later, plan>> /\ (phase' = "idle" => phase = "idle")
    BY <1>7, Zenon DEF Push, Edit, OpFails, ApplyDone, UndoOne, UndoDone, vars
  <2> QED BY <1>2, <2>1
<1>8. CASE Crash \/ StartRollback \/ StateSave
  BY <1>1, <1>8 DEF Crash, StartRollback, StateSave, Clear
<1> QED BY <1>3, <1>4, <1>5, <1>6, <1>7, <1>8 DEF Next

\* No two entries are about one thing, and what is ahead is about others.
LEMMA DoneApartStep == GiveContext /\ [Next]_vars => DoneApart'
<1> SUFFICES ASSUME GiveContext, [Next]_vars PROVE DoneApart' OBVIOUS
<1> USE DEF disk, working, history, bounds
<1>0. /\ OneEach(Did) /\ \A d \in 1 .. 2 : OneEach(ToSet(journals[d]))
      /\ phase = "exec" => \A e \in Did : \A op \in Ahead : e.id # op.id
      /\ journals \in [1 .. 2 -> Seq(Entry_)] /\ cur \in 1 .. 2 /\ pointer \in 0 .. 2
      /\ prefix \in Seq(Entry_) /\ executed \in Seq(Entry_)
  BY DEF GiveContext, GiveInv, DoneApart, TypeOK
<1>a. ToSet(<<>>) = {} /\ OneEach({}) BY OfOne DEF OneEach
<1>b. \A S, T : S \subseteq T /\ OneEach(T) => OneEach(S) BY DEF OneEach
<1>1. CASE Push \/ Edit \/ Reconcile \/ OpFails \/ ApplyDone \/ UndoDone \/ UNCHANGED vars
  <2>1. UNCHANGED <<prefix, executed, journals, todo, later>> /\ (phase' = "exec" => phase = "exec")
    BY <1>1, Zenon DEF Push, Edit, Reconcile, OpFails, ApplyDone, UndoDone, vars
  <2> QED BY <1>0, <2>1 DEF DoneApart, Did, Ahead
<1>2. CASE Crash \/ StateSave
  <2>1. prefix' = <<>> /\ executed' = <<>> /\ journals' = journals /\ phase' = "idle"
    BY <1>2 DEF Crash, StateSave, Clear
  <2> QED BY <1>0, <1>a, <2>1 DEF DoneApart, Did
<1>3. CASE StartApply
  <2>1. /\ prefix' = <<>> /\ executed' = <<>> /\ cur' \in 1 .. 2 /\ journals' = [journals EXCEPT ![cur'] = <<>>]
    BY <1>3 DEF StartApply, BeginLayer
  <2>2. \A d \in 1 .. 2 : journals'[d] = journals[d] \/ journals'[d] = <<>> BY <1>0, <2>1
  <2> QED BY <1>0, <1>a, <2>1, <2>2 DEF DoneApart, Did
<1>4. CASE NextLayer
  <2>1. /\ prefix' = prefix \o executed /\ executed' = <<>> /\ journals' = journals /\ todo' = later /\ later' = <<>>
        /\ phase = "exec"
    BY <1>4 DEF NextLayer, BeginLayer
  <2>2. ToSet(prefix \o executed) = Did BY <1>0, ConcatMembers DEF Did
  <2>3. Did' = Did /\ Ahead' \subseteq Ahead BY <1>a, <2>1, <2>2 DEF Did, Ahead
  <2> QED BY <1>0, <2>1, <2>3 DEF DoneApart
<1>5. CASE ExecuteOne
  <2>1. PICK op, e : op = Head(todo) /\ e = Entry(op) OBVIOUS
  <2>2. /\ Did' = Did \cup {e} /\ e.id = op.id /\ \A x \in Did : x.id # op.id
        /\ \A d \in 1 .. 2 : journals'[d] = journals[d] \/ ToSet(journals'[d]) = Did'
        /\ phase = "exec" /\ op.kind # "error"
    BY <1>5, <2>1, ExecuteFacts
  <2>3. OneEach(Did') BY <1>0, <2>2 DEF OneEach
  <2>4. \A d \in 1 .. 2 : OneEach(ToSet(journals'[d])) BY <1>0, <2>2, <2>3
  <2>5. ASSUME phase' = "exec" PROVE \A x \in Did' : \A op2 \in Ahead' : x.id # op2.id
    <3>1. todo # <<>> /\ todo' = Tail(todo) /\ later' = later BY <1>5, <2>5 DEF ExecuteOne
    <3>2. todo \in Seq(Op_) /\ OnePerThing(todo) /\ \A o \in ToSet(todo) : o.kind # "error"
      BY DEF GiveContext, GiveInv, TodoApart, TypeOK
    <3>3. /\ ToSet(Tail(todo)) \subseteq ToSet(todo) /\ op \in ToSet(todo)
          /\ \A o \in ToSet(Tail(todo)) : o.id # op.id
      BY <2>1, <2>2, <3>1, <3>2, ApartParts, ElementsTyped
    <3>4. \A o \in ToSet(later) : o.id # op.id BY <3>3 DEF GiveContext, GiveInv, TodoApart
    <3> QED BY <1>0, <2>2, <3>1, <3>3, <3>4 DEF Ahead
  <2> QED BY <2>3, <2>4, <2>5 DEF DoneApart
<1>6. CASE UndoOne
  <2>1. /\ phase' # "exec" /\ UNCHANGED <<prefix, executed>>
        /\ \A d \in 1 .. 2 : journals'[d] = journals[d] \/ ToSet(journals'[d]) \subseteq Did
    BY <1>6, UndoneFacts DEF GiveContext
  <2>2. \A d \in 1 .. 2 : OneEach(ToSet(journals'[d])) BY <1>0, <1>b, <2>1
  <2>3. Did' = Did BY <2>1 DEF Did
  <2> QED BY <1>0, <2>1, <2>2, <2>3 DEF DoneApart
<1>7. CASE StartRollback
  <2>1. prefix' = <<>> /\ executed' = journals[pointer] /\ journals' = journals /\ pointer # 0 /\ phase' # "exec"
    BY <1>7 DEF StartRollback
  <2>2. Did' = ToSet(journals[pointer]) /\ pointer \in 1 .. 2 BY <1>0, <1>a, <2>1 DEF Did
  <2> QED BY <1>0, <2>1, <2>2 DEF DoneApart
<1> QED BY <1>1, <1>2, <1>3, <1>4, <1>5, <1>6, <1>7 DEF Next

\* A step of the apply changes the thing it is about only.
LEMMA FetchedStep == GiveContext /\ [Next]_vars => FetchedOK'
<1> SUFFICES ASSUME GiveContext, [Next]_vars PROVE FetchedOK' OBVIOUS
<1> USE DEF disk, working, history, bounds
<1>0. /\ phase = "exec" => \A t \in Things \ raced : (\A e \in ToSet(executed) : e.id # t) => fetched[t] = live[t]
      /\ live \in [Things -> Registered \cup {Gone}]
  BY DEF GiveContext, GiveInv, FetchedOK, TypeOK
<1>1. CASE phase' # "exec" BY <1>1 DEF FetchedOK
<1>2. CASE Reconcile \/ ApplyDone \/ UndoDone \/ Push \/ UNCHANGED vars
  <2>1. UNCHANGED <<live, fetched, raced, executed>> /\ (phase' = "exec" => phase = "exec")
    BY <1>2 DEF Reconcile, ApplyDone, UndoDone, Push, vars
  <2> QED BY <1>0, <2>1 DEF FetchedOK
<1>3. CASE Edit
  <2>1. UNCHANGED <<fetched, executed, phase>> BY <1>3 DEF Edit
  <2>2. \A t \in Things \ raced' : t \notin raced /\ live'[t] = live[t]
    <3>1. CASE \E a \in AreaKeys : \/ UNCHANGED <<live, raced>>
                                   \/ raced' = Things
      BY <3>1
    <3>2. CASE \E t \in Things : /\ raced' = raced \cup {t}
                                 /\ \E v : live' = [live EXCEPT ![t] = v]
      <4>1. PICK t \in Things : raced' = raced \cup {t} /\ \E v : live' = [live EXCEPT ![t] = v] BY <3>2
      <4>2. PICK v : live' = [live EXCEPT ![t] = v] BY <4>1
      <4> QED BY <1>0, <4>1, <4>2
    <3> QED BY <1>3, <3>1, <3>2 DEF Edit
  <2> QED BY <1>0, <2>1, <2>2 DEF FetchedOK
<1>4. CASE StartApply \/ NextLayer
  <2>1. phase' = "exec" => fetched' = live /\ live' = live BY <1>4 DEF StartApply, NextLayer, BeginLayer
  <2> QED BY <2>1 DEF FetchedOK
<1>5. CASE ExecuteOne
  <2>1. PICK op, e : op = Head(todo) /\ e = Entry(op) OBVIOUS
  <2>2. /\ phase = "exec" /\ Accepts(op) /\ op \in Op_ /\ op.kind # "error" /\ op.id \in Things
        /\ live' = Effect(op) /\ ToSet(executed') = ToSet(executed) \cup {e} /\ e.id = op.id
        /\ UNCHANGED <<fetched, raced>>
    BY <1>5, <2>1, ExecuteFacts
  <2>3. desired' = desired /\ known' = known BY <1>5 DEF ExecuteOne
  <2>4. \A t \in Things : t # op.id => live'[t] = live[t] BY <2>2, <2>3, EffectStill DEF GiveContext
  <2> QED BY <1>0, <2>2, <2>4 DEF FetchedOK
<1>6. CASE Crash \/ OpFails \/ UndoOne \/ StartRollback \/ StateSave
  <2>1. phase' # "exec" BY <1>6 DEF Crash, OpFails, UndoOne, StartRollback, StateSave
  <2> QED BY <1>1, <2>1
<1> QED BY <1>2, <1>3, <1>4, <1>5, <1>6 DEF Next

\* What there was of a thing, when an update lands on it.
LEMMA TakenOverTyped ==
  ASSUME GiveContext, ExecuteOne, NEW op, op = Head(todo), op.kind = "update"
  PROVE  TakenOver(op) \in [Things -> Findings \cup {Unrecorded}] /\ TakenOver(op)[op.id] \in Findings
<1>1. PICK t, e : t = op.id /\ e = Entry(op) OBVIOUS
<1>2. Accepts(op) /\ op \in Op_ /\ t \in Things BY <1>1, ExecuteFacts
<1>3. live[t] \in Registered BY <1>1, <1>2 DEF Accepts, GiveContext, TypeOK
<1>4. theirs \in [Things -> Findings \cup {Unrecorded}] BY DEF GiveContext, GiveInv, TheirsOK
<1> DEFINE had == IF theirs[t] = Unrecorded THEN NoParams ELSE theirs[t]
<1>5. had \in Findings BY <1>2, <1>4, NoParamsFacts, SettingsAreFound
<1>6. had = IF theirs[t] = Unrecorded THEN NoParams ELSE theirs[t] OBVIOUS
<1> HIDE DEF had
<1> DEFINE q == [f \in DOMAIN had \cup DOMAIN op.params |-> IF f \in DOMAIN had THEN had[f] ELSE live[t][f]]
<1>7. TakenOver(op) = [theirs EXCEPT ![t] = q] BY <1>1, <1>2, <1>4, <1>6 DEF TakenOver
<1>8. /\ DOMAIN q = DOMAIN had \cup DOMAIN op.params /\ q = [f \in DOMAIN q |-> q[f]]
      /\ \A f \in DOMAIN q : q[f] = IF f \in DOMAIN had THEN had[f] ELSE live[t][f]
  OBVIOUS
<1> HIDE DEF q
<1>9. q \in Findings
  <2>1. op.params \in Settings BY <1>2 DEF Op_
  <2>2. /\ DOMAIN had \subseteq Fields /\ DOMAIN op.params \subseteq Fields
        /\ "area" \in DOMAIN had => had["area"] \in AreaKeys \cup {None}
        /\ "disabled" \in DOMAIN had => had["disabled"] \in {None, "user", "integration"}
    BY <1>5, <2>1, SettingsFacts
  <2>3. live[t].area \in AreaKeys \cup {None} /\ live[t].disabled \in {None, "user", "integration"} BY <1>3 DEF Registered
  <2>4. DOMAIN q \subseteq Fields BY <1>8, <2>2
  <2>5. "area" \in DOMAIN q => q["area"] \in AreaKeys \cup {None} BY <1>8, <2>2, <2>3
  <2>6. "disabled" \in DOMAIN q => q["disabled"] \in {None, "user", "integration"} BY <1>8, <2>2, <2>3
  <2> QED BY <1>8, <2>4, <2>5, <2>6, SettingsFacts
<1> QED BY <1>1, <1>2, <1>4, <1>7, <1>9

\* What an update leaves recorded, and what there was, of a thing nobody else
\* touched since it was fetched.
LEMMA UpdateRecords ==
  ASSUME GiveContext, ExecuteOne, NEW op, op = Head(todo), op.kind = "update", op.id \notin astray'
  PROVE  Records(Originals(op)[op.id], TakenOver(op)[op.id])
<1>1. PICK t, e : t = op.id /\ e = Entry(op) OBVIOUS
<1>2. /\ phase = "exec" /\ Accepts(op) /\ op \in Op_ /\ t \in Things /\ t \notin raced /\ t \notin astray
      /\ \A x \in Did : x.id # t
  BY <1>1, ExecuteFacts
<1>3. fetched[t] = live[t] BY <1>2 DEF GiveContext, GiveInv, FetchedOK, Did
<1>4. live[t] \in Registered /\ live[t] # Gone BY <1>1, <1>2 DEF Accepts, GiveContext, TypeOK
<1>5. \A f : Fetched(t, f) = live[t][f] BY <1>3, <1>4 DEF Fetched
<1>6. Records(originals[t], theirs[t]) /\ theirs \in [Things -> Findings \cup {Unrecorded}]
      /\ originals \in [Things -> Settings \cup {Unrecorded}]
  BY <1>2 DEF GiveContext, GiveInv, TheirsOK, Kept, Idle, TypeOK
<1> DEFINE had == IF theirs[t] = Unrecorded THEN NoParams ELSE theirs[t]
           r == Recorded(t)
<1>7. r = IF originals[t] = Unrecorded THEN NoParams ELSE originals[t] BY DEF Recorded
<1>8. DOMAIN r = DOMAIN had /\ \A f \in DOMAIN r : r[f] = Clamped(f, had[f])
  BY <1>6, <1>7, NoParamsFacts DEF Records
<1> HIDE DEF had, r
<1> DEFINE q == [f \in DOMAIN had \cup DOMAIN op.params |-> IF f \in DOMAIN had THEN had[f] ELSE live[t][f]]
           p == [f \in DOMAIN r \cup DOMAIN op.params |-> IF f \in DOMAIN r THEN r[f] ELSE Clamped(f, Fetched(t, f))]
<1>9. TakenOver(op) = [theirs EXCEPT ![t] = q]
  BY <1>1, <1>2, <1>6 DEF TakenOver, had
<1>10. Originals(op) = [originals EXCEPT ![t] = p] BY <1>1, <1>2 DEF Originals, r
<1>11. DOMAIN p = DOMAIN q /\ \A f \in DOMAIN p : p[f] = Clamped(f, q[f])
  BY <1>5, <1>8
<1> HIDE DEF p, q
<1>12. Originals(op)[op.id] = p /\ TakenOver(op)[op.id] = q BY <1>1, <1>2, <1>6, <1>9, <1>10
<1>13. p \in Settings BY <1>1, <1>2, <1>12, OriginalsTyped DEF GiveContext
<1>14. p # Unrecorded /\ q # Unrecorded
  <2>1. q \in Findings BY <1>12, TakenOverTyped
  <2> QED BY <1>13, <2>1, CustomizeAssumption DEF CustomizeAssumption
<1> QED BY <1>11, <1>12, <1>14 DEF Records

\* What undoing an entry leaves recorded, and what there was.
LEMMA UndoRecords ==
  ASSUME GiveContext, phase = "undo", NEW e \in ToSet(executed), e \in Entry_
  PROVE  /\ GivenBack(e) \in [Things -> Findings \cup {Unrecorded}]
         /\ e.id \notin astray => Records(e.snapshot, GivenBack(e)[e.id])
<1>1. PICK t : t = e.id OBVIOUS
<1>2. t \in Things /\ e.snapshot \in Settings \cup {Unrecorded} /\ e \in Did BY <1>1 DEF Entry_, Did
<1>3. theirs \in [Things -> Findings \cup {Unrecorded}] /\ originals \in [Things -> Settings \cup {Unrecorded}]
      /\ (t \notin astray => Records(originals[t], theirs[t]))
  BY <1>2 DEF GiveContext, GiveInv, TheirsOK, Kept, Idle, TypeOK
<1>4. CASE e.snapshot = Unrecorded
  <2>1. GivenBack(e) = [theirs EXCEPT ![t] = Unrecorded] BY <1>1, <1>4 DEF GivenBack
  <2> QED BY <1>1, <1>2, <1>3, <1>4, <2>1 DEF Records
<1>5. CASE e.snapshot # Unrecorded
  <2> DEFINE s == e.snapshot
             q == [f \in DOMAIN s |-> IF theirs[t] # Unrecorded /\ f \in DOMAIN theirs[t] THEN theirs[t][f] ELSE s[f]]
  <2>1. GivenBack(e) = [theirs EXCEPT ![t] = q] BY <1>1, <1>2, <1>3, <1>5 DEF GivenBack
  <2>2. s \in Settings BY <1>2, <1>5
  <2>3. /\ DOMAIN q = DOMAIN s /\ q = [f \in DOMAIN q |-> q[f]]
        /\ \A f \in DOMAIN q : q[f] = IF theirs[t] # Unrecorded /\ f \in DOMAIN theirs[t] THEN theirs[t][f] ELSE s[f]
    OBVIOUS
  <2> HIDE DEF q
  <2>4. /\ DOMAIN s \subseteq Fields
        /\ "area" \in DOMAIN s => s["area"] \in AreaKeys \cup {None}
        /\ "disabled" \in DOMAIN s => s["disabled"] \in {None, "user"}
    BY <2>2, SettingsFacts
  <2>5. theirs[t] # Unrecorded =>
          /\ "area" \in DOMAIN theirs[t] => theirs[t]["area"] \in AreaKeys \cup {None}
          /\ "disabled" \in DOMAIN theirs[t] => theirs[t]["disabled"] \in {None, "user", "integration"}
    <3>1. theirs[t] # Unrecorded => theirs[t] \in Findings BY <1>2, <1>3
    <3> QED BY <3>1, SettingsFacts
  <2>6. q \in Findings
    <3>1. DOMAIN q \subseteq Fields BY <2>3, <2>4
    <3>2. "area" \in DOMAIN q => q["area"] \in AreaKeys \cup {None} BY <2>3, <2>4, <2>5
    <3>3. "disabled" \in DOMAIN q => q["disabled"] \in {None, "user", "integration"} BY <2>3, <2>4, <2>5
    <3> QED BY <2>3, <3>1, <3>2, <3>3, SettingsFacts
  <2>7. GivenBack(e) \in [Things -> Findings \cup {Unrecorded}] /\ GivenBack(e)[t] = q BY <1>2, <1>3, <2>1, <2>6
  <2>8. ASSUME t \notin astray, NEW f \in DOMAIN s PROVE s[f] = Clamped(f, q[f])
    <3>1. CASE theirs[t] # Unrecorded /\ f \in DOMAIN theirs[t]
      <4>1. originals[t] # Unrecorded /\ f \in DOMAIN originals[t] /\ originals[t][f] = Clamped(f, theirs[t][f])
        BY <1>3, <2>8, <3>1 DEF Records
      <4>2. Consistent(Did, originals, ToSet(plan), astray) BY DEF GiveContext, GiveInv, StandingOK
      <4>3. Below(s, originals[t]) BY <1>1, <1>2, <2>8, <4>1, <4>2 DEF Consistent
      <4>4. s[f] = originals[t][f] BY <1>5, <2>8, <4>3 DEF Below
      <4> QED BY <2>3, <2>8, <3>1, <4>1, <4>4
    <3>2. CASE ~(theirs[t] # Unrecorded /\ f \in DOMAIN theirs[t])
      <4>1. q[f] = s[f] BY <2>3, <2>8, <3>2
      <4>2. f = "disabled" => s[f] \in {None, "user"} BY <2>4, <2>8
      <4> QED BY <4>1, <4>2 DEF Clamped
    <3> QED BY <3>1, <3>2
  <2>9. q # Unrecorded BY <2>6, CustomizeAssumption DEF CustomizeAssumption
  <2> QED BY <1>1, <1>5, <2>3, <2>7, <2>8, <2>9 DEF Records
<1> QED BY <1>4, <1>5

\* What is recorded is what there was, after every step.
LEMMA TheirsStep == GiveContext /\ [Next]_vars => TheirsOK'
<1> SUFFICES ASSUME GiveContext, [Next]_vars PROVE TheirsOK' OBVIOUS
<1> USE DEF disk, working, history, bounds
<1>0. /\ theirs \in [Things -> Findings \cup {Unrecorded}]
      /\ \A t \in Things \ astray : Records(Kept[t], theirs[t])
      /\ originals \in [Things -> Settings \cup {Unrecorded}]
  BY DEF GiveContext, GiveInv, TheirsOK, TypeOK
<1>1. CASE theirs' = theirs /\ \A t \in Things \ astray' : t \notin astray /\ Kept'[t] = Kept[t]
  BY <1>0, <1>1 DEF TheirsOK
<1>2. CASE Push \/ Edit \/ Reconcile \/ StartApply \/ NextLayer \/ OpFails \/ ApplyDone \/ UndoDone \/ StartRollback \/ UNCHANGED vars
  <2>1. theirs' = theirs /\ astray \subseteq astray'
    BY <1>2, Zenon DEF Push, Edit, Reconcile, StartApply, NextLayer, OpFails, ApplyDone, UndoDone, StartRollback, vars
  <2>2. Kept' = Kept
    <3>1. CASE StartApply \/ StartRollback
      <4>1. Idle /\ phase' # "idle" /\ originals' = saved BY <3>1 DEF StartApply, StartRollback, BeginLayer
      <4> QED BY <4>1 DEF Kept, Idle
    <3>2. CASE ~(StartApply \/ StartRollback)
      <4>1. UNCHANGED <<originals, saved>>
        BY <1>2, <3>2, Zenon DEF Push, Edit, Reconcile, NextLayer, OpFails, ApplyDone, UndoDone, vars
      <4>2. phase' = "idle" <=> phase = "idle"
        BY <1>2, <3>2 DEF Push, Edit, Reconcile, NextLayer, BeginLayer, OpFails, ApplyDone, UndoDone, vars
      <4> QED BY <4>1, <4>2 DEF Kept, Idle
    <3> QED BY <3>1, <3>2
  <2> QED BY <1>1, <2>1, <2>2
<1>3. CASE Crash \/ StateSave
  <2>1. theirs' = theirs /\ phase' = "idle" /\ astray \subseteq astray' BY <1>3 DEF Crash, StateSave
  <2>2. ASSUME NEW t \in Things \ astray' PROVE Kept'[t] = Kept[t]
    <3>1. saved'[t] = IF Idle THEN saved[t] ELSE originals[t]
      BY <1>3, <2>2 DEF Crash, StateSave, Unsaved, Idle
    <3> QED BY <2>1, <3>1 DEF Kept, Idle
  <2> QED BY <1>1, <2>1, <2>2
<1>4. CASE ExecuteOne
  <2>1. PICK op, e : op = Head(todo) /\ e = Entry(op) OBVIOUS
  <2>2. /\ phase = "exec" /\ phase' # "idle" /\ op \in Op_ /\ op.kind # "error" /\ op.id \in Things
        /\ originals' = Originals(op) /\ theirs' = TakenOver(op) /\ astray \subseteq astray'
    BY <1>4, <2>1, ExecuteFacts
  <2>3. Kept' = Originals(op) /\ Kept = originals BY <2>2 DEF Kept, Idle
  <2>4. \A t \in Things : t # op.id => TakenOver(op)[t] = theirs[t] /\ Originals(op)[t] = originals[t]
    BY <1>0, <2>2 DEF TakenOver, Originals
  <2>5. CASE op.kind # "update"
    <3>1. TakenOver(op) = [theirs EXCEPT ![op.id] = Unrecorded] /\ Originals(op)[op.id] = Unrecorded
      BY <1>0, <2>2, <2>5 DEF TakenOver, Originals
    <3>2. TakenOver(op) \in [Things -> Findings \cup {Unrecorded}] /\ TakenOver(op)[op.id] = Unrecorded
      BY <1>0, <2>2, <3>1
    <3>3. Records(Originals(op)[op.id], TakenOver(op)[op.id]) BY <3>1, <3>2 DEF Records
    <3> QED BY <1>0, <2>2, <2>3, <2>4, <3>2, <3>3 DEF TheirsOK
  <2>6. CASE op.kind = "update"
    <3>1. op.id \notin astray' => Records(Originals(op)[op.id], TakenOver(op)[op.id]) BY <1>4, <2>1, <2>6, UpdateRecords
    <3>2. TakenOver(op) \in [Things -> Findings \cup {Unrecorded}] BY <1>4, <2>1, <2>6, TakenOverTyped
    <3> QED BY <1>0, <2>2, <2>3, <2>4, <3>1, <3>2 DEF TheirsOK
  <2> QED BY <2>5, <2>6
<1>5. CASE UndoOne
  <2>1. /\ phase = "undo" /\ phase' # "idle" /\ astray \subseteq astray'
        /\ \/ originals' = originals /\ theirs' = theirs
           \/ \E e \in ToSet(executed) : /\ e \in Entry_ /\ originals' = [originals EXCEPT ![e.id] = e.snapshot]
                                         /\ theirs' = GivenBack(e)
    BY <1>5, UndoneFacts DEF GiveContext
  <2>2. Kept' = originals' /\ Kept = originals BY <2>1 DEF Kept, Idle
  <2>3. CASE originals' = originals /\ theirs' = theirs BY <1>1, <2>1, <2>2, <2>3
  <2>4. ASSUME NEW e \in ToSet(executed), e \in Entry_, originals' = [originals EXCEPT ![e.id] = e.snapshot],
               theirs' = GivenBack(e)
        PROVE  TheirsOK'
    <3>1. /\ GivenBack(e) \in [Things -> Findings \cup {Unrecorded}]
          /\ e.id \notin astray => Records(e.snapshot, GivenBack(e)[e.id])
      BY <2>1, <2>4, UndoRecords
    <3>2. \A t \in Things : t # e.id => GivenBack(e)[t] = theirs[t] /\ originals'[t] = originals[t]
      BY <1>0, <2>4 DEF GivenBack
    <3>3. e.id \in Things /\ originals'[e.id] = e.snapshot BY <1>0, <2>4 DEF Entry_
    <3> QED BY <1>0, <2>1, <2>2, <2>4, <3>1, <3>2, <3>3 DEF TheirsOK
  <2> QED BY <2>1, <2>3, <2>4
<1> QED BY <1>2, <1>3, <1>4, <1>5 DEF Next

\* A record tells what it tells itself, and more when a field is added.
LEMMA BelowFacts ==
  /\ \A s : Below(Unrecorded, s) /\ (s # Unrecorded => Below(s, s))
  /\ \A r, s, u : Below(r, s) /\ Below(s, u) => Below(r, u)
BY DEF Below

\* Fewer entries and operations, about fewer things, are in keeping too.
LEMMA KnownFewer ==
  ASSUME NEW E, NEW r, NEW P, NEW A, NEW E2, NEW r2, NEW P2, NEW A2, Consistent(E, r, P, A), A \subseteq A2,
         E2 \subseteq E, P2 \subseteq P, \A t \in Things \ A2 : r2[t] = r[t]
  PROVE  Consistent(E2, r2, P2, A2)
BY Zenon DEF Consistent

\* A record that changes for one thing only stays in keeping, if it does for it.
LEMMA KnownBut ==
  ASSUME NEW E, NEW r, NEW P, NEW A, NEW E2, NEW r2, NEW A2, NEW u, Consistent(E, r, P, A), A \subseteq A2,
         \A e \in E2 : e \in E \/ e.id = u, \A t \in Things : t # u => r2[t] = r[t],
         u \notin A2 =>
           /\ \A e \in E2 : e.id = u /\ r2[u] # Unrecorded => Below(e.snapshot, r2[u])
           /\ \A op \in P : op.kind = "restore" /\ op.id = u =>
                /\ op.params # Unrecorded /\ Below(r2[u], op.params)
                /\ \A e \in E2 : e.id = u => Below(e.snapshot, op.params)
  PROVE  Consistent(E2, r2, P, A2)
<1>1. SUFFICES ASSUME NEW t \in Things \ A2
               PROVE  /\ \A e \in E2 : e.id = t /\ r2[t] # Unrecorded => Below(e.snapshot, r2[t])
                      /\ \A op \in P : op.kind = "restore" /\ op.id = t =>
                           /\ op.params # Unrecorded /\ Below(r2[t], op.params)
                           /\ \A e \in E2 : e.id = t => Below(e.snapshot, op.params)
  BY DEF Consistent
<1>2. CASE t = u BY <1>1, <1>2
<1>3. CASE t # u
  <2>1. r2[t] = r[t] /\ t \in Things \ A /\ \A e \in E2 : e.id = t => e \in E BY <1>1, <1>3
  <2> QED BY <1>1, <2>1 DEF Consistent
<1> QED BY <1>2, <1>3

\* Two operations of a plan about the same thing are the same.
LEMMA OneOperation ==
  ASSUME NEW ops \in Seq(Op_), OnePerThing(ops), NEW x \in ToSet(ops), NEW y \in ToSet(ops),
         x.kind # "error", y.kind # "error", x.id = y.id
  PROVE  x = y
<1>1. PICK i \in DOMAIN ops : x = ops[i] BY DEF ToSet
<1>2. PICK j \in DOMAIN ops : y = ops[j] BY DEF ToSet
<1>3. ASSUME i # j PROVE FALSE
  <2>1. i \in Nat /\ j \in Nat /\ (i < j \/ j < i) BY <1>3
  <2>2. <<x, y>> \in Apart \/ <<y, x>> \in Apart BY <1>1, <1>2, <2>1 DEF OnePerThing, InOrder
  <2> QED BY <2>2, ApartFacts
<1> QED BY <1>1, <1>2, <1>3

\* A restore that is planned sends all that is recorded.
LEMMA RestorePlanned ==
  ASSUME PlanContext, NEW op \in ToSet(Plan), op.kind = "restore"
  PROVE  op.id \in Things /\ saved[op.id] # Unrecorded /\ op.params = saved[op.id]
<1>1. /\ \A e \in Entries : op \notin ToSet(PlanEntry(e))
      /\ \A x \in Entities : op \notin ToSet(PlanEntity(x))
  BY EntryPlanned, EntityPlanned, OpFacts
<1>2. PICK t \in Things : op = ReturnOp(t) /\ Returnable(t, saved)
  BY <1>1, PlanMembers, DevicePlanned, EntityPlanned DEF Things
<1>3. op.id = t /\ op.params = Sanitized(saved[t]) BY <1>2, OpFacts DEF ReturnOp
<1>4. saved[t] # Unrecorded /\ saved[t] \in Settings BY <1>2 DEF Returnable, PlanContext, TypeOK
<1> QED BY <1>3, <1>4, Sanitary

\* What an operation that lands leaves recorded is in keeping.
LEMMA StandingExecute ==
  ASSUME GiveContext, ExecuteOne
  PROVE  Consistent(Did', originals', ToSet(plan), astray')
<1>1. PICK op, e : op = Head(todo) /\ e = Entry(op) OBVIOUS
<1>2. /\ phase = "exec" /\ op \in Op_ /\ op.kind # "error" /\ op.id \in Things /\ op \in ToSet(plan)
      /\ originals' = Originals(op) /\ astray \subseteq astray' /\ Did' = Did \cup {e}
      /\ e.id = op.id /\ e.snapshot = originals[op.id] /\ \A x \in Did : x.id # op.id
  BY <1>1, ExecuteFacts
<1>3. Consistent(Did, originals, ToSet(plan), astray) BY <1>2 DEF GiveContext, GiveInv, StandingOK
<1>4. /\ \A t \in Things : t # op.id => Originals(op)[t] = originals[t]
      /\ op.kind # "update" => Originals(op)[op.id] = Unrecorded
  BY <1>2, OriginalsTyped DEF GiveContext
<1>5. \A y \in ToSet(plan) : y.kind = "restore" /\ y.id = op.id => y = op
  BY <1>2, OneOperation DEF GiveContext, GiveInv, PlanApart, TypeOK
<1>6. \A x \in Did \cup {e} : x.id = op.id => x = e BY <1>2
<1>7. CASE op.kind = "update"
  <2>1. Below(originals[op.id], Originals(op)[op.id])
    <3> DEFINE r == Recorded(op.id)
               p == [f \in DOMAIN r \cup DOMAIN op.params |-> IF f \in DOMAIN r THEN r[f] ELSE Clamped(f, Fetched(op.id, f))]
    <3>1. originals[op.id] # Unrecorded => r = originals[op.id] BY DEF Recorded
    <3>2. Originals(op)[op.id] \in Settings BY <1>2, <1>7, OriginalsTyped DEF GiveContext
    <3>3. Originals(op) = [originals EXCEPT ![op.id] = p] BY <1>7 DEF Originals
    <3>4. Originals(op)[op.id] = p BY <1>2, <3>3 DEF GiveContext, TypeOK
    <3>5. p # Unrecorded BY <3>2, <3>4, CustomizeAssumption DEF CustomizeAssumption
    <3>6. DOMAIN r \subseteq DOMAIN p /\ \A f \in DOMAIN r : r[f] = p[f] OBVIOUS
    <3> HIDE DEF r, p
    <3> QED BY <3>1, <3>4, <3>5, <3>6 DEF Below
  <2>2. \A y \in ToSet(plan) : ~(y.kind = "restore" /\ y.id = op.id) BY <1>5, <1>7
  <2> QED BY <1>2, <1>3, <1>4, <1>6, <2>1, <2>2, KnownBut
<1>8. CASE op.kind # "update"
  <2>1. originals'[op.id] = Unrecorded BY <1>2, <1>4, <1>8
  <2>2. ASSUME op.id \notin astray', NEW y \in ToSet(plan), y.kind = "restore", y.id = op.id
        PROVE  /\ y.params # Unrecorded /\ Below(originals'[op.id], y.params)
               /\ \A x \in Did \cup {e} : x.id = op.id => Below(x.snapshot, y.params)
    <3>1. y.params # Unrecorded /\ Below(originals[op.id], y.params) BY <1>2, <1>3, <2>2 DEF Consistent
    <3> QED BY <1>2, <1>6, <2>1, <3>1, BelowFacts
  <2>3. PICK r, D, A : r = originals' /\ D = Did \cup {e} /\ A = astray' OBVIOUS
  <2>4. /\ \A x \in D : x \in Did \/ x.id = op.id
        /\ \A t \in Things : t # op.id => r[t] = originals[t]
        /\ astray \subseteq A /\ r[op.id] = Unrecorded
    BY <1>2, <1>4, <2>1, <2>3
  <2>5. Consistent(D, r, ToSet(plan), A) BY <1>3, <2>2, <2>3, <2>4, KnownBut
  <2> QED BY <1>2, <2>3, <2>5
<1> QED BY <1>7, <1>8

\* What undoing an entry leaves recorded is in keeping.
LEMMA StandingUndo ==
  ASSUME GiveContext, UndoOne
  PROVE  Consistent(Did, originals', ToSet(plan), astray')
<1>1. /\ phase = "undo" /\ astray \subseteq astray'
      /\ originals' = originals \/ \E e \in ToSet(executed) : e \in Entry_ /\ originals' = [originals EXCEPT ![e.id] = e.snapshot]
  BY UndoneFacts DEF GiveContext
<1>2. /\ Consistent(Did, originals, ToSet(plan), astray) /\ OneEach(Did) /\ originals \in [Things -> Settings \cup {Unrecorded}]
  BY <1>1 DEF GiveContext, GiveInv, StandingOK, DoneApart, TypeOK
<1>3. CASE originals' = originals BY <1>1, <1>2, <1>3, KnownFewer
<1>4. ASSUME NEW e \in ToSet(executed), e \in Entry_, originals' = [originals EXCEPT ![e.id] = e.snapshot]
      PROVE  Consistent(Did, originals', ToSet(plan), astray')
  <2>1. e \in Did /\ e.id \in Things BY <1>4 DEF Did, Entry_
  <2>2. originals'[e.id] = e.snapshot /\ \A t \in Things : t # e.id => originals'[t] = originals[t] BY <1>2, <1>4, <2>1
  <2>3. \A x \in Did : x.id = e.id => x = e BY <1>2, <2>1 DEF OneEach
  <2>4. \A x \in Did : x.id = e.id /\ originals'[e.id] # Unrecorded => Below(x.snapshot, originals'[e.id])
    BY <2>2, <2>3, BelowFacts
  <2>5. ASSUME e.id \notin astray', NEW y \in ToSet(plan), y.kind = "restore", y.id = e.id
        PROVE  /\ y.params # Unrecorded /\ Below(originals'[e.id], y.params)
               /\ \A x \in Did : x.id = e.id => Below(x.snapshot, y.params)
    <3>1. y.params # Unrecorded /\ Below(e.snapshot, y.params) BY <1>1, <1>2, <2>1, <2>5 DEF Consistent
    <3> QED BY <2>2, <2>3, <3>1
  <2> QED BY <1>1, <1>2, <2>1, <2>2, <2>4, <2>5, KnownBut
<1> QED BY <1>1, <1>3, <1>4

\* What is recorded stays in keeping with the journals and the plan.
LEMMA StandingStep == GiveContext /\ [Next]_vars => StandingOK'
<1> SUFFICES ASSUME GiveContext, [Next]_vars PROVE StandingOK' OBVIOUS
<1> USE DEF disk, working, history, bounds
<1>0. StandingOK BY DEF GiveContext, GiveInv
<1>a. /\ cur \in 1 .. 2 /\ pointer \in 0 .. 2 /\ savedPointer \in 0 .. 2 /\ DOMAIN journals = 1 .. 2
      /\ prefix \in Seq(Entry_) /\ executed \in Seq(Entry_)
  BY DEF GiveContext, TypeOK
<1>b. ToSet(<<>>) = {} BY OfOne
<1>1. CASE Push \/ Edit \/ OpFails \/ ApplyDone \/ UndoDone \/ UNCHANGED vars
  <2>1. UNCHANGED <<mode, prefix, executed, originals, saved, plan, journals, cur, savedPointer, pointer>>
    BY <1>1, Zenon DEF Push, Edit, OpFails, ApplyDone, UndoDone, vars
  <2>2. astray \subseteq astray' /\ (phase' = "idle" <=> phase = "idle")
    BY <1>1, Zenon DEF Push, Edit, OpFails, ApplyDone, UndoDone, vars
  <2>3. \A E, r, P : Consistent(E, r, P, astray) => Consistent(E, r, P, astray') BY <2>2, KnownFewer
  <2>4. Did' = Did /\ \A p : JournalOf(p)' = JournalOf(p) BY <2>1 DEF JournalOf, Did
  <2> QED BY <1>0, <2>1, <2>2, <2>3, <2>4 DEF StandingOK
<1>2. CASE Crash
  <2>1. /\ plan' = <<>> /\ pointer' = savedPointer /\ phase' = "idle" /\ UNCHANGED <<journals, saved, savedPointer>>
        /\ astray' = IF Idle THEN astray ELSE astray \cup Unsaved
    BY <1>2 DEF Crash
  <2>2. Consistent(JournalOf(savedPointer), saved, {}, astray')
    <3>1. CASE Idle
      <4>1. astray' = astray /\ phase = "idle" BY <2>1, <3>1 DEF Idle
      <4> QED BY <1>0, <4>1 DEF StandingOK
    <3>2. CASE ~Idle
      <4>1. /\ phase # "idle" /\ astray \subseteq astray' /\ \A t \in Things \ astray' : saved[t] = originals[t]
        BY <2>1, <3>2 DEF Idle, Unsaved
      <4>2. CASE savedPointer # cur
        <5>1. Consistent(JournalOf(savedPointer), saved, {}, astray) BY <1>0, <4>1, <4>2 DEF StandingOK
        <5> QED BY <4>1, <5>1, KnownFewer
      <4>3. CASE savedPointer = cur
        <5>1. Consistent(Did, originals, ToSet(plan), astray) /\ ToSet(journals[cur]) \subseteq Did
          BY <1>0, <4>1 DEF StandingOK
        <5>2. JournalOf(savedPointer) \subseteq Did BY <1>a, <4>3, <5>1 DEF JournalOf
        <5> QED BY <4>1, <5>1, <5>2, KnownFewer
      <4> QED BY <4>2, <4>3
    <3> QED BY <3>1, <3>2
  <2>3. JournalOf(savedPointer)' = JournalOf(savedPointer) /\ JournalOf(pointer)' = JournalOf(savedPointer)
    BY <2>1 DEF JournalOf
  <2>4. ToSet(plan') = {} BY <1>b, <2>1
  <2> QED BY <2>1, <2>2, <2>3, <2>4 DEF StandingOK
<1>3. CASE Reconcile
  <2>1. /\ phase = "idle" /\ phase' = "idle" /\ UNCHANGED <<saved, savedPointer, journals, pointer, astray>>
        /\ plan' = <<>> \/ (plan' = Plan /\ Loaded)
    BY <1>3 DEF Reconcile, Idle
  <2>2. Consistent(JournalOf(pointer), saved, ToSet(plan), astray) /\ Consistent(JournalOf(savedPointer), saved, {}, astray)
    BY <1>0, <2>1 DEF StandingOK
  <2>3. Consistent(JournalOf(pointer), saved, ToSet(plan'), astray)
    <3>1. CASE plan' = <<>>
      <4>1. ToSet(plan') = {} BY <1>b, <3>1
      <4> QED BY <2>2, <4>1, KnownFewer
    <3>2. CASE plan' = Plan /\ Loaded
      <4>1. \A op \in ToSet(Plan) : op.kind = "restore" => saved[op.id] # Unrecorded /\ op.params = saved[op.id]
        BY <3>2, RestorePlanned DEF PlanContext, GiveContext
      <4>2. SUFFICES ASSUME NEW t \in Things \ astray
                     PROVE  /\ \A e \in JournalOf(pointer) : e.id = t /\ saved[t] # Unrecorded => Below(e.snapshot, saved[t])
                            /\ \A op \in ToSet(Plan) : op.kind = "restore" /\ op.id = t =>
                                 /\ op.params # Unrecorded /\ Below(saved[t], op.params)
                                 /\ \A e \in JournalOf(pointer) : e.id = t => Below(e.snapshot, op.params)
        BY <3>2 DEF Consistent
      <4>3. \A e \in JournalOf(pointer) : e.id = t /\ saved[t] # Unrecorded => Below(e.snapshot, saved[t])
        BY <2>2, <4>2 DEF Consistent
      <4> QED BY <4>1, <4>2, <4>3, BelowFacts
    <3> QED BY <2>1, <3>1, <3>2
  <2>4. JournalOf(pointer)' = JournalOf(pointer) /\ JournalOf(savedPointer)' = JournalOf(savedPointer) BY <2>1 DEF JournalOf
  <2> QED BY <2>1, <2>2, <2>3, <2>4 DEF StandingOK
<1>4. CASE StartApply
  <2>1. /\ phase = "idle" /\ phase' # "idle" /\ originals' = saved /\ prefix' = <<>> /\ executed' = <<>> /\ mode' = "apply"
        /\ UNCHANGED <<saved, savedPointer, plan, pointer, astray>>
        /\ cur' = (IF pointer = 1 THEN 2 ELSE 1) /\ journals' = [journals EXCEPT ![cur'] = <<>>]
    BY <1>4 DEF StartApply, BeginLayer, Idle
  <2>2. Consistent(JournalOf(pointer), saved, ToSet(plan), astray) /\ Consistent(JournalOf(savedPointer), saved, {}, astray)
    BY <1>0, <2>1 DEF StandingOK
  <2>3. journals'[cur'] = <<>> /\ \A d \in 1 .. 2 : d # cur' => journals'[d] = journals[d] BY <1>a, <2>1
  <2>4. Did' = {} /\ ToSet(journals'[cur']) = {} BY <1>b, <2>1, <2>3 DEF Did
  <2>5. Consistent(Did', originals', ToSet(plan'), astray') BY <2>1, <2>2, <2>4, KnownFewer
  <2>6. savedPointer # cur' => JournalOf(savedPointer)' = JournalOf(savedPointer) BY <1>a, <2>1, <2>3 DEF JournalOf
  <2> QED BY <2>1, <2>2, <2>4, <2>5, <2>6 DEF StandingOK
<1>5. CASE StartRollback
  <2>1. /\ phase = "idle" /\ phase' # "idle" /\ originals' = saved /\ prefix' = <<>> /\ executed' = journals[pointer]
        /\ mode' = "rollback" /\ pointer # 0 /\ cur' = pointer
        /\ UNCHANGED <<saved, savedPointer, plan, pointer, astray, journals>>
    BY <1>5 DEF StartRollback, Idle
  <2>2. Consistent(JournalOf(pointer), saved, ToSet(plan), astray) /\ Consistent(JournalOf(savedPointer), saved, {}, astray)
    BY <1>0, <2>1 DEF StandingOK
  <2>3. Did' = JournalOf(pointer) BY <1>b, <2>1 DEF JournalOf, Did
  <2>4. JournalOf(savedPointer)' = JournalOf(savedPointer) BY <2>1 DEF JournalOf
  <2>5. ToSet(journals'[cur']) = Did' BY <2>1, <2>3 DEF JournalOf
  <2> QED BY <2>1, <2>2, <2>3, <2>4, <2>5 DEF StandingOK
<1>6. CASE NextLayer
  <2>1. /\ phase = "exec" /\ phase' # "idle" /\ prefix' = prefix \o executed /\ executed' = <<>>
        /\ UNCHANGED <<saved, savedPointer, plan, pointer, mode, cur, astray, journals, originals>>
    BY <1>6 DEF NextLayer, BeginLayer
  <2>2. ToSet(prefix \o executed) = Did BY <1>a, ConcatMembers DEF Did
  <2>3. Did' = Did /\ JournalOf(savedPointer)' = JournalOf(savedPointer) BY <1>b, <2>1, <2>2 DEF Did, JournalOf
  <2> QED BY <1>0, <2>1, <2>3 DEF StandingOK
<1>7. CASE ExecuteOne
  <2>1. PICK op, e : op = Head(todo) /\ e = Entry(op) OBVIOUS
  <2>2. /\ phase = "exec" /\ phase' # "idle" /\ Did \subseteq Did' /\ astray \subseteq astray'
        /\ UNCHANGED <<saved, savedPointer, plan, pointer, mode, cur>>
        /\ \A d \in 1 .. 2 : journals'[d] = journals[d] \/ (d = cur /\ ToSet(journals'[d]) = Did')
    BY <1>7, <2>1, ExecuteFacts
  <2>3. /\ ToSet(journals[cur]) \subseteq Did /\ (mode = "rollback" => cur = pointer)
        /\ savedPointer # cur => Consistent(JournalOf(savedPointer), saved, {}, astray)
    BY <1>0, <2>2 DEF StandingOK
  <2>4. ToSet(journals'[cur]) \subseteq Did' BY <1>a, <2>2, <2>3
  <2>5. savedPointer # cur => JournalOf(savedPointer)' = JournalOf(savedPointer) BY <1>a, <2>2 DEF JournalOf
  <2>6. savedPointer # cur => Consistent(JournalOf(savedPointer), saved, {}, astray') BY <2>2, <2>3, KnownFewer
  <2>7. Consistent(Did', originals', ToSet(plan), astray') BY <1>7, StandingExecute
  <2> QED BY <2>2, <2>3, <2>4, <2>5, <2>6, <2>7 DEF StandingOK
<1>8. CASE UndoOne
  <2>1. /\ phase = "undo" /\ phase' # "idle" /\ astray \subseteq astray'
        /\ UNCHANGED <<saved, savedPointer, plan, pointer, mode, cur, prefix, executed>>
        /\ \A d \in 1 .. 2 : journals'[d] = journals[d] \/ (d = cur /\ ToSet(journals'[d]) \subseteq Did)
    BY <1>8, UndoneFacts DEF GiveContext
  <2>2. /\ ToSet(journals[cur]) \subseteq Did /\ (mode = "rollback" => cur = pointer)
        /\ savedPointer # cur => Consistent(JournalOf(savedPointer), saved, {}, astray)
    BY <1>0, <2>1 DEF StandingOK
  <2>3. ToSet(journals'[cur]) \subseteq Did /\ Did' = Did BY <1>a, <2>1, <2>2 DEF Did
  <2>4. savedPointer # cur => JournalOf(savedPointer)' = JournalOf(savedPointer) BY <1>a, <2>1 DEF JournalOf
  <2>5. savedPointer # cur => Consistent(JournalOf(savedPointer), saved, {}, astray') BY <2>1, <2>2, KnownFewer
  <2>6. Consistent(Did, originals', ToSet(plan), astray') BY <1>8, StandingUndo
  <2> QED BY <2>1, <2>2, <2>3, <2>4, <2>5, <2>6 DEF StandingOK
<1>9. CASE StateSave
  <2>1. /\ phase = "save" /\ phase' = "idle" /\ journals' = journals /\ astray \subseteq astray'
        /\ plan' = plan \/ plan' = StillPending
    BY <1>9 DEF StateSave
  <2>2. /\ Consistent(Did, originals, ToSet(plan), astray) /\ ToSet(journals[cur]) \subseteq Did
        /\ savedPointer # cur => Consistent(JournalOf(savedPointer), saved, {}, astray)
        /\ mode = "rollback" => cur = pointer
    BY <1>0, <2>1 DEF StandingOK
  <2>3. ToSet(plan') \subseteq ToSet(plan) BY <2>1, PendingFacts DEF GiveContext
  <2>4. JournalOf(cur) \subseteq Did /\ JournalOf(0) \subseteq Did BY <2>2 DEF JournalOf
  <2>5. \A t \in Things \ astray' : saved'[t] = originals[t] BY <1>9 DEF StateSave, Unsaved
  <2>6. \A p : JournalOf(p)' = JournalOf(p) BY <2>1 DEF JournalOf
  <2>7. /\ Consistent(JournalOf(0), saved', ToSet(plan'), astray') /\ Consistent(JournalOf(cur), saved', ToSet(plan'), astray')
        /\ Consistent(JournalOf(0), saved', {}, astray') /\ Consistent(JournalOf(cur), saved', {}, astray')
    BY <2>1, <2>2, <2>3, <2>4, <2>5, KnownFewer
  <2>8. pointer' \in {0, cur} /\ (savedPointer' \in {0, cur} \/ (savedPointer' = savedPointer /\ saved' = saved))
    BY <1>9, <2>2 DEF StateSave, GiveContext, TypeOK
  <2>9. Consistent(JournalOf(savedPointer'), saved', {}, astray')
    <3>1. CASE savedPointer' \in {0, cur} BY <2>7, <3>1
    <3>2. CASE savedPointer' = savedPointer /\ saved' = saved /\ savedPointer # cur BY <2>1, <2>2, <3>2, KnownFewer
    <3> QED BY <2>8, <3>1, <3>2
  <2>10. Consistent(JournalOf(pointer'), saved', ToSet(plan'), astray') BY <2>7, <2>8
  <2> QED BY <2>1, <2>6, <2>9, <2>10 DEF StandingOK, JournalOf
<1> QED BY <1>1, <1>2, <1>3, <1>4, <1>5, <1>6, <1>7, <1>8, <1>9 DEF Next

\* The agent starts with nothing recorded, planned, done or ahead.
LEMMA GiveInit == Init => GiveInv
<1> SUFFICES ASSUME Init PROVE GiveInv OBVIOUS
<1>1. ToSet(<<>>) = {} /\ OnePerThing(<<>>) BY OfOne, ApartFacts
<1>2. PlanApart /\ TodoApart /\ FetchedOK BY <1>1 DEF Init, PlanApart, TodoApart, FetchedOK, Ahead
<1>3. DoneApart BY <1>1 DEF Init, DoneApart, OneEach, Did
<1>4. TheirsOK
  <2>1. theirs \in [Things -> Findings \cup {Unrecorded}] BY DEF Init, NoOriginals
  <2>2. \A t \in Things : Kept[t] = Unrecorded /\ theirs[t] = Unrecorded BY DEF Init, NoOriginals, Kept, Idle
  <2> QED BY <2>1, <2>2 DEF TheirsOK, Records
<1>5. StandingOK BY <1>1 DEF Init, StandingOK, JournalOf, Consistent
<1> QED BY <1>2, <1>3, <1>4, <1>5 DEF GiveInv

\* What is recorded tells what there was, in every state.
LEMMA GiveInvariant == Spec => []GiveInv
<1>1. TypeOK /\ GiveInv /\ [Next]_vars => GiveInv'
  <2>1. SUFFICES ASSUME GiveContext, [Next]_vars PROVE GiveInv' BY DEF GiveContext
  <2> QED BY <2>1, PlanApartStep, TodoApartStep, DoneApartStep, FetchedStep, TheirsStep, StandingStep DEF GiveInv
<1> QED BY <1>1, GiveInit, TypeCorrect, PTL DEF Spec

\* RestoreGivesBack, for all manifests, things and registries: what a restore
\* lays over a thing is what its fields were when the agent took them over.
THEOREM GivesBackWhatWas == Spec => RestoreGivesBack
<1> DEFINE Step == ExecuteOne /\ Head(todo).kind = "restore" =>
                     LET t == Head(todo).id IN
                       theirs[t] = Unrecorded \/ t \in astray'
                         \/ \A f \in DOMAIN theirs[t] : live'[t][f] = Clamped(f, theirs[t][f])
<1>1. GiveContext => Step
  <2>1. SUFFICES ASSUME GiveContext, ExecuteOne, Head(todo).kind = "restore",
                        theirs[Head(todo).id] # Unrecorded, Head(todo).id \notin astray',
                        NEW f \in DOMAIN theirs[Head(todo).id]
                 PROVE  live'[Head(todo).id][f] = Clamped(f, theirs[Head(todo).id][f])
    OBVIOUS
  <2>2. PICK op, e, t : op = Head(todo) /\ e = Entry(op) /\ t = op.id OBVIOUS
  <2>3. /\ phase = "exec" /\ Accepts(op) /\ op \in Op_ /\ op \in ToSet(plan) /\ t \in Things
        /\ live' = Effect(op) /\ t \notin astray
    BY <2>1, <2>2, ExecuteFacts
  <2>4. Records(originals[t], theirs[t]) BY <2>1, <2>3 DEF GiveContext, GiveInv, TheirsOK, Kept, Idle
  <2>5. /\ originals[t] # Unrecorded /\ f \in DOMAIN originals[t]
        /\ originals[t][f] = Clamped(f, theirs[t][f])
    BY <2>1, <2>2, <2>4 DEF Records
  <2>6. Below(originals[t], op.params)
    <3>1. Consistent(Did, originals, ToSet(plan), astray) BY <2>1, <2>3 DEF GiveContext, GiveInv, StandingOK
    <3> QED BY <2>1, <2>2, <2>3, <3>1 DEF Consistent
  <2>7. f \in DOMAIN op.params /\ op.params[f] = Clamped(f, theirs[t][f]) BY <2>5, <2>6 DEF Below
  <2>8. op.params \in Findings /\ f \in Fields /\ live[t] \in Registered
    <3>1. op.params \in Settings BY <2>3 DEF Op_
    <3>2. live[t] # Gone BY <2>1, <2>2, <2>3 DEF Accepts
    <3>3. DOMAIN op.params \subseteq Fields BY <3>1, SettingsFacts
    <3> QED BY <2>1, <2>3, <2>7, <3>1, <3>2, <3>3, SettingsAreFound DEF GiveContext, TypeOK
  <2>9. live'[t] = With(live[t], op.params) BY <2>1, <2>2, <2>3 DEF Effect, GiveContext, TypeOK
  <2> QED BY <2>2, <2>7, <2>8, <2>9, LaidOver
<1>2. TypeOK /\ GiveInv => [Step]_vars BY <1>1 DEF GiveContext
<1> QED BY <1>2, TypeCorrect, GiveInvariant, PTL DEF RestoreGivesBack
=============================================================================
