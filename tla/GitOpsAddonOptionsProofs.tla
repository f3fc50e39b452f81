---------------------- MODULE GitOpsAddonOptionsProofs ----------------------
(***************************************************************************)
(* Proofs about GitOpsAddonOptions.  Supervisor's add-ons are looked at    *)
(* through what it reports of them, the options with the defaults showing  *)
(* through; whether a write dropped or kept a default makes no difference  *)
(* there (Overlaid), so what is posted, reverted and given back can be     *)
(* compared with what was read.                                            *)
(*                                                                         *)
(* UndoInv follows an option of an add-on through the journal, as in       *)
(* GitOpsCustomizeProofs: the oldest entry that touches it has the value   *)
(* to bring back, and is undone last.  RunInv follows what is declared of  *)
(* an add-on from the plan to the save: it is set, or an operation left    *)
(* sets it.  GiveInv compares all that is known of what an add-on had: the *)
(* record, the entries of the journals and the restores of the plan.       *)
(***************************************************************************)
EXTENDS GitOpsAddonOptions, PlanSequencesProofs, SequenceTheorems, TLAPS

IsSeq(s) == s \in Seq(ToSet(s))
IsRecord(r) == DOMAIN r = Addons /\ r = [a \in Addons |-> r[a]]

\* What is set in an add-on, and what Supervisor reports of one.
IsSet(set) == DOMAIN set = Options /\ \A k \in Options : set[k] # Keep
IsAddon(v) == DOMAIN v = {"installed", "set", "running"} /\ IsSet(v.set)
AreAddons(w) == DOMAIN w = Addons /\ \A a \in Addons : IsAddon(w[a])
Reported(a, c) == c = [k \in Options |-> c[k]] /\ IsSet(c)
                    /\ \A k \in Options : c[k] = Absent => Defaults[a][k] = Absent
IsBefore(b) ==
  /\ DOMAIN b = {"options", "managed", "known"} /\ IsRecord(b.managed)
  /\ b.known => \A a \in Addons : Reported(a, b.options[a])

\* Entry e, undone, gives add-on a its option k back; or would, had the option
\* not held a credential.
Touches(e, a, k) == e.key = a /\ e.prior[k] # Keep
Replaced(s, a, k) == \E i \in 1 .. Len(s) : s[i].key = a /\ s[i].prior[k] = Ref

\* No entry among the first n of s touches the option, or is about the add-on.
Untouched(s, n, a, k) == \A i \in 1 .. n : ~Touches(s[i], a, k)
Unnamed(s, n, a) == \A i \in 1 .. n : s[i].key # a

\* Undoing the first n entries of s, last one first, leads from what is shown,
\* and recorded, to b.
OptionBack(s, n, b, shown, a, k) ==
  \/ Replaced(s, a, k)
  \/ /\ Untouched(s, n, a, k) => shown[a][k] = b.options[a][k]
     /\ \A i \in 1 .. n : Touches(s[i], a, k) /\ Untouched(s, i - 1, a, k) => s[i].prior[k] = b.options[a][k]
RecordBack(s, n, b, record, a) ==
  /\ Unnamed(s, n, a) => record[a] = b.managed[a]
  /\ \A i \in 1 .. n : s[i].key = a /\ Unnamed(s, i - 1, a) => s[i].snapshot = b.managed[a]
BringsBack(s, n, b, shown, record) ==
  \A a \in Addons : RecordBack(s, n, b, record, a) /\ \A k \in Options : OptionBack(s, n, b, shown, a, k)

\* Entry e follows the entries of s in s2.  It holds what was shown of the
\* options it touches, and what was recorded, before its operation; the options
\* it does not touch are as they were.
Follows(e, s, s2) == Len(s2) = Len(s) + 1 /\ (\A i \in 1 .. Len(s) : s2[i] = s[i]) /\ s2[Len(s) + 1] = e
Lands(e, shown, record, shown2, record2) ==
  /\ \A a \in Addons, k \in Options :
       \/ e.key = a /\ e.prior[k] = Ref
       \/ shown2[a][k] = shown[a][k] /\ ~Touches(e, a, k)
       \/ Touches(e, a, k) /\ e.prior[k] = shown[a][k]
  /\ \A a \in Addons : IF e.key = a THEN e.snapshot = record[a] ELSE record2[a] = record[a]

\* Undoing entry e gives back what it holds, and leaves the rest.
GivesBack(e, shown, record, shown2, record2) ==
  /\ \A a \in Addons, k \in Options :
       \/ e.key = a /\ e.prior[k] = Ref
       \/ shown2[a][k] = IF Touches(e, a, k) THEN IF e.prior[k] = Absent THEN Defaults[a][k] ELSE e.prior[k]
                                              ELSE shown[a][k]
  /\ \A a \in Addons : record2[a] = IF e.key = a THEN e.snapshot ELSE record[a]

Shown == [a \in Addons |-> Current(a)]

\* The add-ons as the operation under way found them.
Found == [a \in Addons |-> IF InHand /\ a = Head(todo).key THEN step.current ELSE Current(a)]

Shapes ==
  /\ AreAddons(live)
  /\ IsRecord(managed) /\ IsRecord(saved) /\ IsBefore(before) /\ IsBefore(origin)
  /\ DOMAIN journals = 1 .. 2 /\ pointer \in 0 .. 2 /\ savedPointer \in 0 .. 2 /\ cur \in 1 .. 2

\* What was read, and what is posted: the same but for what the operation
\* names, and nothing else has changed since unless somebody changed it.
StepOK ==
  InHand /\ Head(todo).key \in Addons =>
    LET op == Head(todo)  a == op.key IN
      /\ Reported(a, step.current) /\ IsSet(step.merged)
      /\ \A k \in Options : op.params[k] = Keep => Merged(a, step.merged)[k] = step.current[k]
      /\ ~raced => \A k \in Options : op.params[k] = Keep \/ phase = "post" => Current(a)[k] = step.current[k]

ExecOK ==
  /\ before.known \/ origin.known => ~raced
  /\ InHand \/ phase = "read" =>
       /\ mode = "apply" /\ outcome = "ok" /\ IsSeq(executed) /\ journals[cur] = executed
       /\ before.known => BringsBack(executed, Len(executed), before, Found, managed)

UndoOK ==
  phase = "undo" =>
    /\ outcome # "ok"
    /\ outcome = "rolledBack" /\ before.known =>
         pos \in 0 .. Len(executed) /\ IsSeq(executed) /\ BringsBack(executed, pos, before, Shown, managed)

SaveOK ==
  phase = "save" =>
    /\ outcome = "ok" => mode = "apply" /\ IsSeq(executed) /\ journals[cur] = executed
    /\ outcome = "ok" /\ before.known => BringsBack(executed, Len(executed), before, Shown, managed)
    /\ outcome = "rolledBack" /\ before.known => IsSeq(executed) /\ BringsBack(executed, 0, before, Shown, managed)

IdleOK ==
  phase = "idle" /\ origin.known =>
    /\ pointer # 0 /\ pointer = savedPointer /\ IsSeq(journals[pointer])
    /\ BringsBack(journals[pointer], Len(journals[pointer]), origin, Shown, saved)

Undoable == ExecOK /\ UndoOK /\ SaveOK /\ IdleOK
UndoInv == Shapes /\ StepOK /\ Undoable
-----------------------------------------------------------------------------
(* What is reported of options                                              *)

LEMMA ReportedMerged ==
  ASSUME NEW a \in Addons, NEW set, IsSet(set)
  PROVE  Reported(a, Merged(a, set))
BY AddonOptionsAssumption DEF AddonOptionsAssumption, Stored, Reported, Merged, IsSet

\* Whatever of the defaults is dropped, the options laid over what was read are
\* reported as they were read, but for those laid over it.
LEMMA Overlaid ==
  ASSUME NEW a \in Addons, NEW c, Reported(a, c), NEW given \in BOOLEAN, NEW p,
         NEW set, set = Overlay(PersistedOnly(a, c, given), p)
  PROVE  /\ IsSet(set)
         /\ \A k \in Options : Merged(a, set)[k] = IF p[k] = Keep THEN c[k]
                                                   ELSE IF p[k] = Absent THEN Defaults[a][k] ELSE p[k]
<1>1. Keep # Absent BY AddonOptionsAssumption DEF AddonOptionsAssumption
<1>2. set = [k \in Options |-> IF p[k] = Keep THEN IF given /\ c[k] = Defaults[a][k] THEN Absent ELSE c[k] ELSE p[k]]
  BY DEF Overlay, PersistedOnly
<1>3. \A k \in Options : c[k] # Keep /\ (c[k] = Absent => Defaults[a][k] = Absent)
  BY DEF Reported, IsSet
<1>4. IsSet(set) BY <1>1, <1>2, <1>3 DEF IsSet
<1>5. ASSUME NEW k \in Options
      PROVE  Merged(a, set)[k] = IF p[k] = Keep THEN c[k] ELSE IF p[k] = Absent THEN Defaults[a][k] ELSE p[k]
  <2>1. Merged(a, set)[k] = IF set[k] = Absent THEN Defaults[a][k] ELSE set[k] BY DEF Merged
  <2>2. set[k] = IF p[k] = Keep THEN IF given /\ c[k] = Defaults[a][k] THEN Absent ELSE c[k] ELSE p[k] BY <1>2
  <2> QED BY <2>1, <2>2, <1>3
<1> QED BY <1>4, <1>5

LEMMA ShownFacts ==
  ASSUME Shapes, NEW a \in Addons
  PROVE  Reported(a, Current(a)) /\ Shown[a] = Current(a)
BY ReportedMerged DEF Shapes, AreAddons, IsAddon, Current, Shown

-----------------------------------------------------------------------------
(* Sequences of entries                                                     *)

\* A journal without entries brings back what there is.
LEMMA NothingToUndo ==
  ASSUME NEW s, NEW b, NEW shown, NEW record,
         \A a \in Addons : b.options[a] = shown[a] /\ b.managed[a] = record[a]
  PROVE  BringsBack(s, 0, b, shown, record)
BY DEF BringsBack, OptionBack, RecordBack, Untouched, Unnamed

\* One more operation lands.
LEMMA OneMore ==
  ASSUME NEW s, Len(s) \in Nat, NEW s2, NEW e, NEW b, NEW shown, NEW record, NEW shown2, NEW record2,
         BringsBack(s, Len(s), b, shown, record), Follows(e, s, s2), Lands(e, shown, record, shown2, record2)
  PROVE  BringsBack(s2, Len(s2), b, shown2, record2)
<1> SUFFICES ASSUME NEW a \in Addons
             PROVE  RecordBack(s2, Len(s2), b, record2, a) /\ \A k \in Options : OptionBack(s2, Len(s2), b, shown2, a, k)
  BY DEF BringsBack
<1> DEFINE n == Len(s)
<1>1. n \in Nat /\ Len(s2) = n + 1 /\ (\A i \in 1 .. n : s2[i] = s[i]) /\ s2[n + 1] = e BY DEF Follows
<1>2. RecordBack(s, n, b, record, a) /\ \A k \in Options : OptionBack(s, n, b, shown, a, k) BY DEF BringsBack
<1> HIDE DEF n
<1>3. \A k : Untouched(s2, n + 1, a, k) <=> Untouched(s, n, a, k) /\ ~Touches(e, a, k)
  BY <1>1 DEF Untouched
<1>4. Unnamed(s2, n + 1, a) <=> Unnamed(s, n, a) /\ e.key # a
  BY <1>1 DEF Unnamed
<1>5. ASSUME NEW i \in 1 .. n + 1
      PROVE  /\ \A k : Untouched(s2, i - 1, a, k) <=> Untouched(s, i - 1, a, k)
             /\ Unnamed(s2, i - 1, a) <=> Unnamed(s, i - 1, a)
  <2>1. \A j \in 1 .. i - 1 : s2[j] = s[j] BY <1>1
  <2> QED BY <2>1 DEF Untouched, Unnamed
<1>6. RecordBack(s2, n + 1, b, record2, a)
  <2>1. ASSUME Unnamed(s2, n + 1, a) PROVE record2[a] = b.managed[a]
    BY <2>1, <1>2, <1>4 DEF RecordBack, Lands
  <2>2. ASSUME NEW i \in 1 .. n + 1, s2[i].key = a, Unnamed(s2, i - 1, a)
        PROVE  s2[i].snapshot = b.managed[a]
    <3>1. CASE i = n + 1
      <4>1. Unnamed(s, n, a) BY <2>2, <3>1, <1>1, <1>5
      <4> QED BY <4>1, <2>2, <3>1, <1>1, <1>2 DEF RecordBack, Lands
    <3>2. CASE i # n + 1
      <4>1. i \in 1 .. n /\ s2[i] = s[i] BY <3>2, <1>1
      <4> QED BY <4>1, <2>2, <1>2, <1>5 DEF RecordBack
    <3> QED BY <3>1, <3>2
  <2> QED BY <2>1, <2>2 DEF RecordBack
<1>7. ASSUME NEW k \in Options PROVE OptionBack(s2, n + 1, b, shown2, a, k)
  <2>1. CASE e.key = a /\ e.prior[k] = Ref
    <3>1. n + 1 \in 1 .. Len(s2) BY <1>1
    <3> QED BY <2>1, <3>1, <1>1 DEF OptionBack, Replaced
  <2>2. CASE Replaced(s, a, k)
    <3>1. \A i \in 1 .. Len(s) : i \in 1 .. Len(s2) /\ s2[i] = s[i] BY <1>1 DEF n
    <3> QED BY <2>2, <3>1 DEF OptionBack, Replaced
  <2>3. CASE ~(e.key = a /\ e.prior[k] = Ref) /\ ~Replaced(s, a, k)
    <3>1. /\ Untouched(s, n, a, k) => shown[a][k] = b.options[a][k]
          /\ \A i \in 1 .. n : Touches(s[i], a, k) /\ Untouched(s, i - 1, a, k) => s[i].prior[k] = b.options[a][k]
      BY <2>3, <1>2 DEF OptionBack
    <3>2. \/ shown2[a][k] = shown[a][k] /\ ~Touches(e, a, k)
          \/ Touches(e, a, k) /\ e.prior[k] = shown[a][k]
      BY <2>3 DEF Lands
    <3>3. Untouched(s2, n + 1, a, k) => shown2[a][k] = b.options[a][k]
      BY <3>1, <3>2, <1>3
    <3>4. ASSUME NEW i \in 1 .. n + 1, Touches(s2[i], a, k), Untouched(s2, i - 1, a, k)
          PROVE  s2[i].prior[k] = b.options[a][k]
      <4>1. CASE i = n + 1
        <5>1. Untouched(s, n, a, k) BY <3>4, <4>1, <1>1, <1>5
        <5> QED BY <5>1, <3>1, <3>2, <3>4, <4>1, <1>1
      <4>2. CASE i # n + 1
        <5>1. i \in 1 .. n /\ s2[i] = s[i] BY <4>2, <1>1
        <5> QED BY <5>1, <3>1, <3>4, <1>5
      <4> QED BY <4>1, <4>2
    <3> QED BY <3>3, <3>4 DEF OptionBack
  <2> QED BY <2>1, <2>2, <2>3
<1> QED BY <1>1, <1>6, <1>7

\* The newest entry that is left is undone.
LEMMA OneLess ==
  ASSUME NEW s, NEW n \in 1 .. Len(s), Len(s) \in Nat, NEW b, NEW shown, NEW record, NEW shown2, NEW record2,
         \A a \in Addons : Reported(a, b.options[a]),
         BringsBack(s, n, b, shown, record), GivesBack(s[n], shown, record, shown2, record2)
  PROVE  BringsBack(s, n - 1, b, shown2, record2)
<1> SUFFICES ASSUME NEW a \in Addons
             PROVE  RecordBack(s, n - 1, b, record2, a) /\ \A k \in Options : OptionBack(s, n - 1, b, shown2, a, k)
  BY DEF BringsBack
<1> DEFINE e == s[n]
<1>1. RecordBack(s, n, b, record, a) /\ \A k \in Options : OptionBack(s, n, b, shown, a, k) BY DEF BringsBack
<1>2. n \in Nat /\ n \in 1 .. n /\ \A i \in 1 .. n - 1 : i \in 1 .. n OBVIOUS
<1>3. \A k : Untouched(s, n, a, k) <=> Untouched(s, n - 1, a, k) /\ ~Touches(e, a, k)
  BY <1>2 DEF Untouched
<1>4. Unnamed(s, n, a) <=> Unnamed(s, n - 1, a) /\ e.key # a
  BY <1>2 DEF Unnamed
<1>5. RecordBack(s, n - 1, b, record2, a)
  <2>1. record2[a] = IF e.key = a THEN e.snapshot ELSE record[a] BY DEF GivesBack
  <2>2. ASSUME Unnamed(s, n - 1, a) PROVE record2[a] = b.managed[a]
    <3>1. CASE e.key = a BY <3>1, <2>1, <2>2, <1>1, <1>2 DEF RecordBack
    <3>2. CASE e.key # a BY <3>2, <2>1, <2>2, <1>1, <1>4 DEF RecordBack
    <3> QED BY <3>1, <3>2
  <2> QED BY <2>2, <1>1, <1>2 DEF RecordBack
<1>6. ASSUME NEW k \in Options PROVE OptionBack(s, n - 1, b, shown2, a, k)
  <2>1. CASE Replaced(s, a, k) BY <2>1 DEF OptionBack
  <2>2. CASE ~Replaced(s, a, k)
    <3>1. /\ Untouched(s, n, a, k) => shown[a][k] = b.options[a][k]
          /\ \A i \in 1 .. n : Touches(s[i], a, k) /\ Untouched(s, i - 1, a, k) => s[i].prior[k] = b.options[a][k]
      BY <2>2, <1>1 DEF OptionBack
    <3>2. ~(e.key = a /\ e.prior[k] = Ref) BY <2>2 DEF Replaced
    <3>3. shown2[a][k] = IF Touches(e, a, k) THEN IF e.prior[k] = Absent THEN Defaults[a][k] ELSE e.prior[k]
                                             ELSE shown[a][k]
      BY <3>2 DEF GivesBack
    <3>4. b.options[a][k] = Absent => Defaults[a][k] = Absent BY DEF Reported
    <3>5. ASSUME Untouched(s, n - 1, a, k) PROVE shown2[a][k] = b.options[a][k]
      <4>1. CASE Touches(e, a, k)
        <5>1. e.prior[k] = b.options[a][k] BY <4>1, <3>5, <3>1, <1>2
        <5> QED BY <5>1, <4>1, <3>3, <3>4
      <4>2. CASE ~Touches(e, a, k) BY <4>2, <3>5, <3>1, <3>3, <1>3
      <4> QED BY <4>1, <4>2
    <3> QED BY <3>5, <3>1, <1>2 DEF OptionBack
  <2> QED BY <2>1, <2>2
<1> QED BY <1>5, <1>6

LEMMA Empty == IsSeq(<<>>) /\ Len(<<>>) = 0
BY EmptySeq DEF IsSeq

LEMMA Lengths == \A s : IsSeq(s) => Len(s) \in Nat
BY LenProperties DEF IsSeq

LEMMA Longer ==
  ASSUME NEW s, IsSeq(s), NEW e
  PROVE  IsSeq(Append(s, e)) /\ Len(s) \in Nat /\ Follows(e, s, Append(s, e))
<1> DEFINE S == ToSet(s) \cup {e}
<1> DEFINE y == Append(s, e)
<1>1. s \in Seq(S) /\ e \in S BY SeqMonotonic DEF IsSeq
<1> HIDE DEF S
<1>2. /\ y \in Seq(S) /\ Len(y) = Len(s) + 1
      /\ \A i \in 1 .. Len(s) : y[i] = s[i]
      /\ y[Len(s) + 1] = e
  BY <1>1, AppendProperties
<1>3. Len(y) \in Nat /\ DOMAIN y = 1 .. Len(y) /\ y \in [1 .. Len(y) -> S] BY <1>2, LenProperties
<1> HIDE DEF y
<1>4. y \in [1 .. Len(y) -> ToSet(y)] BY <1>3 DEF ToSet
<1>5. y \in Seq(ToSet(y)) BY <1>3, <1>4
<1> QED BY <1>1, <1>2, <1>5, LenProperties DEF IsSeq, Follows, y

-----------------------------------------------------------------------------
(* Shapes                                                                   *)

LEMMA BeforeFacts ==
  /\ IsBefore(NoBefore) /\ ~NoBefore.known
  /\ \A b : IsBefore(b) => IsBefore([b EXCEPT !.known = FALSE]) /\ ~[b EXCEPT !.known = FALSE].known
  /\ Shapes => IsBefore(Now(saved)) /\ Now(saved).options = Shown /\ Now(saved).managed = saved /\ Now(saved).known
<1>1. IsBefore(NoBefore) /\ ~NoBefore.known
  BY DEF IsBefore, IsRecord, NoBefore, NothingManaged
<1>2. ASSUME NEW b, IsBefore(b)
      PROVE  IsBefore([b EXCEPT !.known = FALSE]) /\ ~[b EXCEPT !.known = FALSE].known
  <2> DEFINE b2 == [b EXCEPT !.known = FALSE]
  <2>1. DOMAIN b2 = DOMAIN b /\ b2.managed = b.managed /\ ~b2.known BY <1>2 DEF IsBefore
  <2> HIDE DEF b2
  <2>2. IsBefore(b2) BY <1>2, <2>1 DEF IsBefore
  <2> QED BY <2>1, <2>2 DEF b2
<1>3. ASSUME Shapes
      PROVE  IsBefore(Now(saved)) /\ Now(saved).options = Shown /\ Now(saved).managed = saved /\ Now(saved).known
  <2>1. /\ Now(saved).options = Shown /\ Now(saved).managed = saved /\ Now(saved).known
        /\ DOMAIN Now(saved) = {"options", "managed", "known"}
    BY DEF Now, Shown
  <2>2. \A a \in Addons : Reported(a, Shown[a]) BY <1>3, ShownFacts
  <2> QED BY <1>3, <2>1, <2>2 DEF IsBefore, Shapes
<1> QED BY <1>1, <1>2, <1>3

LEMMA OneRecord ==
  ASSUME NEW r, IsRecord(r), NEW x, NEW v
  PROVE  IsRecord([r EXCEPT ![x] = v])
BY DEF IsRecord

\* Add-ons are given other options, restarted, installed or removed.
LEMMA OneSet ==
  ASSUME NEW w, AreAddons(w), NEW x, NEW set, x \in Addons => IsSet(set)
  PROVE  AreAddons([w EXCEPT ![x].set = set])
BY DEF AreAddons, IsAddon

LEMMA OneRunning ==
  ASSUME NEW w, AreAddons(w), NEW x, NEW r
  PROVE  AreAddons([w EXCEPT ![x].running = r])
BY DEF AreAddons, IsAddon

LEMMA OneInstalled ==
  ASSUME NEW w, AreAddons(w), NEW x, NEW set, IsSet(set), NEW i, NEW r
  PROVE  AreAddons([w EXCEPT ![x] = [installed |-> i, set |-> set, running |-> r]])
BY DEF AreAddons, IsAddon

\* What Supervisor reports of the add-ons, when one of them gets other options,
\* or is restarted.
LEMMA OptionsPosted ==
  ASSUME NEW a, NEW set, Shapes,
         \/ live' = [live EXCEPT ![a].set = set]
         \/ \E r : live' = [live EXCEPT ![a].set = set, ![a].running = r]
  PROVE  \A b \in Addons : Shown'[b] = IF b = a THEN Merged(b, set) ELSE Current(b)
BY DEF Shapes, AreAddons, IsAddon, Shown, Current, Merged

LEMMA Restarted ==
  ASSUME NEW a, NEW r, Shapes, live' = [live EXCEPT ![a].running = r]
  PROVE  \A b \in Addons : Shown'[b] = Current(b)
BY DEF Shapes, AreAddons, IsAddon, Shown, Current, Merged

LEMMA InitShapes == Init => Shapes
<1> SUFFICES ASSUME Init PROVE Shapes OBVIOUS
<1>1. AreAddons(live)
  BY AddonOptionsAssumption DEF Init, AddonOptionsAssumption, Installations, Stored, AreAddons, IsAddon, IsSet
<1>2. IsRecord(NothingManaged) BY DEF NothingManaged, IsRecord
<1>3. IsBefore(before) /\ IsBefore(origin) BY BeforeFacts DEF Init
<1>4. DOMAIN journals = 1 .. 2 /\ pointer = 0 /\ savedPointer = 0 /\ cur = 1 BY DEF Init
<1>5. IsRecord(managed) /\ IsRecord(saved) BY <1>2 DEF Init
<1>6. \A n \in {0, 1} : n \in 0 .. 2 OBVIOUS
<1>7. 1 \in 1 .. 2 OBVIOUS
<1> QED BY <1>1, <1>3, <1>4, <1>5, <1>6, <1>7 DEF Shapes

\* An option is set, or the add-on is installed or removed; by a person.
LEMMA EditShapes ==
  ASSUME Shapes, Edit
  PROVE  AreAddons(live')
<1> DEFINE blank == [k \in Options |-> Absent]
<1>1. IsSet(blank) BY AddonOptionsAssumption DEF AddonOptionsAssumption, IsSet
<1> HIDE DEF blank
<1>2. ASSUME NEW a \in Addons, NEW k \in Options, NEW v \in Values \cup {Absent}
      PROVE  IsSet([live[a].set EXCEPT ![k] = v])
  <2>1. IsSet(live[a].set) /\ v # Keep BY AddonOptionsAssumption DEF AddonOptionsAssumption, Shapes, AreAddons, IsAddon
  <2> QED BY <2>1 DEF IsSet
<1>3. \/ live' = live
      \/ \E a \in Addons, k \in Options, v \in Values \cup {Absent} :
           LET set == [live[a].set EXCEPT ![k] = v]
           IN \/ live' = [live EXCEPT ![a].set = set]
              \/ live' = [live EXCEPT ![a].set = set, ![a].running = Merged(a, set)]
      \/ \E a \in Addons :
           live' = [live EXCEPT ![a] = [installed |-> ~@.installed, set |-> blank, running |-> Merged(a, blank)]]
  BY DEF Edit, blank
<1>4. CASE live' = live BY <1>4 DEF Shapes
<1>5. ASSUME NEW a \in Addons, NEW k \in Options, NEW v \in Values \cup {Absent}, NEW set,
             set = [live[a].set EXCEPT ![k] = v],
             \/ live' = [live EXCEPT ![a].set = set]
             \/ live' = [live EXCEPT ![a].set = set, ![a].running = Merged(a, set)]
      PROVE  AreAddons(live')
  <2>1. IsSet(set) BY <1>2, <1>5
  <2>2. AreAddons([live EXCEPT ![a].set = set]) BY <2>1, OneSet DEF Shapes
  <2>3. AreAddons([[live EXCEPT ![a].set = set] EXCEPT ![a].running = Merged(a, set)]) BY <2>2, OneRunning
  <2> QED BY <1>5, <2>2, <2>3
<1>6. ASSUME NEW a \in Addons,
             live' = [live EXCEPT ![a] = [installed |-> ~@.installed, set |-> blank, running |-> Merged(a, blank)]]
      PROVE  AreAddons(live')
  <2>1. PICK i, r : live' = [live EXCEPT ![a] = [installed |-> i, set |-> blank, running |-> r]] BY <1>6
  <2>2. AreAddons(live) BY DEF Shapes
  <2>3. AreAddons([live EXCEPT ![a] = [installed |-> i, set |-> blank, running |-> r]])
    BY <1>1, <2>2, OneInstalled
  <2> QED BY <2>1, <2>3
<1> QED BY <1>3, <1>4, <1>5, <1>6

\* The former options, laid over what was read before the restart, are reported
\* as they were then.
LEMMA Reverted ==
  ASSUME NEW a \in Addons, NEW c, Reported(a, c), NEW merged, IsSet(merged), NEW p,
         \A k \in Options : p[k] = Keep => Merged(a, merged)[k] = c[k],
         NEW set, set = Overlay(merged, Prior(c, p))
  PROVE  IsSet(set) /\ Merged(a, set) = c
<1>1. \A k \in Options : c[k] # Keep /\ (c[k] = Absent => Defaults[a][k] = Absent) /\ merged[k] # Keep
  BY DEF Reported, IsSet
<1>2. set = [k \in Options |-> IF p[k] = Keep THEN merged[k] ELSE c[k]]
  BY <1>1 DEF Overlay, Prior
<1>3. IsSet(set) BY <1>1, <1>2 DEF IsSet
<1>4. ASSUME NEW k \in Options PROVE Merged(a, set)[k] = c[k]
  <2>1. Merged(a, set)[k] = IF set[k] = Absent THEN Defaults[a][k] ELSE set[k] BY DEF Merged
  <2>2. Merged(a, merged)[k] = IF merged[k] = Absent THEN Defaults[a][k] ELSE merged[k] BY DEF Merged
  <2>3. set[k] = IF p[k] = Keep THEN merged[k] ELSE c[k] BY <1>2
  <2> QED BY <2>1, <2>2, <2>3, <1>1
<1>5. Merged(a, set) = [k \in Options |-> Merged(a, set)[k]] BY DEF Merged
<1> QED BY <1>3, <1>4, <1>5 DEF Reported

LEMMA ShapesStep == Shapes /\ StepOK /\ [Next]_vars => Shapes'
<1> SUFFICES ASSUME Shapes, StepOK, [Next]_vars PROVE Shapes' OBVIOUS
<1> USE DEF disk, working, history, bounds
<1>0. /\ IsBefore(NoBefore) /\ IsBefore([before EXCEPT !.known = FALSE]) /\ IsBefore(Now(saved))
      /\ IsRecord(NothingManaged)
  BY BeforeFacts DEF NothingManaged, IsRecord, Shapes
<1>20. AreAddons(live) BY DEF Shapes
<1>1. CASE UNCHANGED vars BY <1>1 DEF vars, Shapes
<1>2. CASE Push BY <1>2 DEF Push, Shapes
<1>3. CASE Edit BY <1>0, <1>3, EditShapes DEF Edit, Shapes
<1>4. CASE Crash
  <2>1. AreAddons(live') BY <1>4 DEF Crash, Shapes
  <2>2. IsRecord(managed') /\ IsRecord(saved') BY <1>0, <1>4 DEF Crash, Clear, Shapes
  <2>3. IsBefore(before') /\ IsBefore(origin') BY <1>0, <1>4 DEF Crash, Clear, Shapes
  <2>4. DOMAIN journals' = 1 .. 2 /\ pointer' \in 0 .. 2 /\ savedPointer' \in 0 .. 2 BY <1>4 DEF Crash, Shapes
  <2>5. cur' \in 1 .. 2 BY <1>4 DEF Crash, Clear
  <2> QED BY <2>1, <2>2, <2>3, <2>4, <2>5 DEF Shapes
<1>5. CASE Reconcile BY <1>5 DEF Reconcile, Shapes
<1>6. CASE StartApply
  <2>1. AreAddons(live') /\ IsRecord(managed') /\ IsRecord(saved') BY <1>6 DEF StartApply, Shapes
  <2>3. IsBefore(before') /\ IsBefore(origin') BY <1>0, <1>6 DEF StartApply
  <2>4. DOMAIN journals' = 1 .. 2 /\ pointer' \in 0 .. 2 /\ savedPointer' \in 0 .. 2 BY <1>6 DEF StartApply, Shapes
  <2>5. cur' \in 1 .. 2 BY <1>6 DEF StartApply
  <2> QED BY <2>1, <2>3, <2>4, <2>5 DEF Shapes
<1>7. CASE ReadOptions BY <1>7 DEF ReadOptions, Fail, Shapes
<1>8. CASE PostOptions
  <2> DEFINE op == Head(todo)
  <2>1. op.key \in Addons => IsSet(step.merged) BY <1>8 DEF StepOK, InHand, PostOptions
  <2>2. live' = live \/ live' = [live EXCEPT ![op.key].set = step.merged] BY <1>8 DEF PostOptions
  <2>3. AreAddons(live')
    BY <1>20, <2>1, <2>2, OneSet
  <2> QED BY <2>3, <1>0, <1>8 DEF PostOptions, Fail, Shapes
<1>9. CASE Restart
  <2>1. live' = live \/ \E x, r : live' = [live EXCEPT ![x].running = r] BY <1>9 DEF Restart
  <2>2. AreAddons(live') BY <1>20, <2>1, OneRunning
  <2> QED BY <2>2, <1>9 DEF Restart, Shapes
<1>10. CASE Revert
  <2> DEFINE op == Head(todo)
  <2> DEFINE set == Overlay(step.merged, Prior(step.current, op.params))
  <2>1. op.key \in Addons => IsSet(set)
    BY <1>10, Reverted DEF StepOK, InHand, Revert
  <2>2. live' = live \/ live' = [live EXCEPT ![op.key].set = set]
        \/ \E r : live' = [[live EXCEPT ![op.key].set = set] EXCEPT ![op.key].running = r]
    BY <1>10 DEF Revert
  <2> HIDE DEF set
  <2>3. AreAddons(live')
    <3>1. CASE live' = live BY <3>1, <1>20
    <3>2. AreAddons([live EXCEPT ![op.key].set = set])
      BY <1>20, <2>1, OneSet
    <3>3. CASE live' = [live EXCEPT ![op.key].set = set] BY <3>2, <3>3
    <3>4. ASSUME NEW r, live' = [[live EXCEPT ![op.key].set = set] EXCEPT ![op.key].running = r]
          PROVE  AreAddons(live')
      BY <3>2, <3>4, OneRunning
    <3> QED BY <2>2, <3>1, <3>3, <3>4
  <2> QED BY <2>3, <1>0, <1>10 DEF Revert, Fail, Shapes
<1>11. CASE Record
  <2>1. IsRecord(managed') BY <1>11, OneRecord DEF Record, Shapes
  <2>2. DOMAIN journals' = 1 .. 2 BY <1>11 DEF Record, Shapes
  <2> QED BY <2>1, <2>2, <1>11 DEF Record, Shapes
<1>12. CASE ApplyDone BY <1>12 DEF ApplyDone, Shapes
<1>13. CASE UndoOne
  <2> DEFINE e == executed[pos]
  <2>1. \/ live' = live
        \/ \E known \in BOOLEAN : \E set :
             /\ set = Overlay(PersistedOnly(e.key, Current(e.key), known), Given(e))
             /\ live' = [live EXCEPT ![e.key].set = set]
                \/ \E r : live' = [[live EXCEPT ![e.key].set = set] EXCEPT ![e.key].running = r]
    BY <1>13 DEF UndoOne
  <2>6. managed' = managed \/ managed' = [managed EXCEPT ![e.key] = e.snapshot] BY <1>13 DEF UndoOne
  <2>2. ASSUME NEW known \in BOOLEAN, NEW set, set = Overlay(PersistedOnly(e.key, Current(e.key), known), Given(e)),
               live' = [live EXCEPT ![e.key].set = set]
                 \/ \E r : live' = [[live EXCEPT ![e.key].set = set] EXCEPT ![e.key].running = r]
        PROVE  AreAddons(live')
    <3>1. ASSUME e.key \in Addons PROVE IsSet(set)
      <4>1. Reported(e.key, Current(e.key)) BY <3>1, ShownFacts
      <4> HIDE DEF e
      <4> QED BY <2>2, <3>1, <4>1, Overlaid
    <3>2. AreAddons([live EXCEPT ![e.key].set = set])
      BY <1>20, <3>1, OneSet
    <3>3. CASE live' = [live EXCEPT ![e.key].set = set] BY <3>2, <3>3
    <3>4. ASSUME NEW r, live' = [[live EXCEPT ![e.key].set = set] EXCEPT ![e.key].running = r]
          PROVE  AreAddons(live')
      BY <3>2, <3>4, OneRunning
    <3> QED BY <2>2, <3>3, <3>4
  <2>3. AreAddons(live') BY <2>1, <2>2, <1>20
  <2>4. IsRecord(managed') BY <2>6, OneRecord DEF Shapes
  <2>5. DOMAIN journals' = 1 .. 2 BY <1>13 DEF UndoOne, Shapes
  <2> QED BY <2>3, <2>4, <2>5, <1>13 DEF UndoOne, Shapes
<1>14. CASE UndoDone BY <1>14 DEF UndoDone, Shapes
<1>15. CASE StartRollback
  <2>1. AreAddons(live') /\ IsRecord(managed') /\ IsRecord(saved') BY <1>15 DEF StartRollback, Shapes
  <2>3. IsBefore(before') /\ IsBefore(origin') BY <1>0, <1>15 DEF StartRollback, Shapes
  <2>4. DOMAIN journals' = 1 .. 2 /\ pointer' \in 0 .. 2 /\ savedPointer' \in 0 .. 2
    BY <1>15 DEF StartRollback, Shapes
  <2>5. cur' \in 1 .. 2 BY <1>15 DEF StartRollback, Shapes
  <2> QED BY <2>1, <2>3, <2>4, <2>5 DEF Shapes
<1>16. CASE StateSave
  <2>1. AreAddons(live') BY <1>16 DEF StateSave, Shapes
  <2>2. IsRecord(managed') /\ IsRecord(saved') BY <1>0, <1>16 DEF StateSave, Clear, Shapes
  <2>3. IsBefore(before') /\ IsBefore(origin') BY <1>0, <1>16 DEF StateSave, Clear, Shapes
  <2>4. DOMAIN journals' = 1 .. 2 /\ pointer' \in 0 .. 2 /\ savedPointer' \in 0 .. 2 BY <1>16 DEF StateSave, Shapes
  <2>5. cur' \in 1 .. 2 BY <1>16 DEF StateSave, Clear
  <2> QED BY <2>1, <2>2, <2>3, <2>4, <2>5 DEF Shapes
<1> QED
  BY <1>1, <1>2, <1>3, <1>4, <1>5, <1>6, <1>7, <1>8, <1>9, <1>10, <1>11, <1>12, <1>13, <1>14, <1>15, <1>16 DEF Next

-----------------------------------------------------------------------------
(* The steps                                                                *)

\* What an operation has in hand is what it read, until somebody else changes it.
LEMMA StepStep ==
  ASSUME Shapes, StepOK, [Next]_vars
  PROVE  StepOK'
<1> USE DEF disk, working, history, bounds
<1> DEFINE a == Head(todo).key
<1> DEFINE p == Head(todo).params
<1>1. CASE UNCHANGED vars \/ Push \/ Reconcile
  <2>1. live' = live /\ todo' = todo /\ step' = step /\ phase' = phase /\ raced' = raced
    BY <1>1 DEF vars, Push, Reconcile
  <2> QED BY <2>1 DEF StepOK, InHand, Current, Merged, Reported
<1>2. CASE Edit
  <2>1. todo' = todo /\ step' = step /\ phase' = phase /\ raced' BY <1>2 DEF Edit
  <2> QED BY <2>1 DEF StepOK, InHand, Merged, Reported
<1>3. CASE Crash \/ StartApply \/ Record \/ ApplyDone \/ UndoOne \/ UndoDone \/ StartRollback \/ StateSave
  <2>1. ~InHand'
    BY <1>3 DEF Crash, StartApply, Record, ApplyDone, UndoOne, UndoDone, StartRollback, StateSave, InHand
  <2> QED BY <2>1 DEF StepOK
<1>4. CASE ReadOptions
  <2>1. CASE phase' = "post"
    <3>1. PICK given \in BOOLEAN :
            step' = [current |-> Current(a), merged |-> Overlay(PersistedOnly(a, Current(a), given), p)]
      BY <1>4, <2>1 DEF ReadOptions, Fail
    <3>2. todo' = todo /\ live' = live BY <1>4 DEF ReadOptions
    <3> DEFINE set == Overlay(PersistedOnly(a, Current(a), given), p)
    <3>3. step'.current = Current(a) /\ step'.merged = set BY <3>1
    <3>4. Current(a)' = Current(a) BY <3>2 DEF Current, Merged
    <3>5. ASSUME a \in Addons
          PROVE  /\ Reported(a, Current(a)) /\ IsSet(set)
                 /\ \A k \in Options : p[k] = Keep => Merged(a, set)[k] = Current(a)[k]
      <4>1. Reported(a, Current(a)) BY <3>5, ShownFacts
      <4> HIDE DEF a, p
      <4>2. /\ IsSet(set)
            /\ \A k \in Options : Merged(a, set)[k] = IF p[k] = Keep THEN Current(a)[k]
                                                      ELSE IF p[k] = Absent THEN Defaults[a][k] ELSE p[k]
        BY <3>5, <4>1, Overlaid
      <4> QED BY <4>1, <4>2
    <3> HIDE DEF set
    <3> QED BY <3>2, <3>3, <3>4, <3>5 DEF StepOK, Reported, Merged
  <2>2. CASE phase' # "post"
    <3>1. phase' = "undo" BY <1>4, <2>2 DEF ReadOptions, Fail
    <3> QED BY <3>1 DEF StepOK, InHand
  <2> QED BY <2>1, <2>2
<1>5. CASE PostOptions
  <2>1. CASE phase' = "undo" BY <2>1 DEF StepOK, InHand
  <2>2. CASE phase' # "undo"
    <3>1. /\ phase = "post" /\ phase' \in {"restart", "record"} /\ todo' = todo /\ step' = step /\ raced' = raced
          /\ live' = IF step.merged = step.current THEN live ELSE [live EXCEPT ![a].set = step.merged]
      BY <1>5, <2>2 DEF PostOptions, Fail
    <3>2. ASSUME a \in Addons, ~raced, NEW k \in Options, p[k] = Keep
          PROVE  Current(a)'[k] = step.current[k]
      <4>1. Current(a)[k] = step.current[k] /\ Merged(a, step.merged)[k] = step.current[k]
        BY <3>1, <3>2 DEF StepOK, InHand
      <4>2. CASE live' = live BY <3>1, <4>1, <4>2 DEF Current, Merged
      <4>3. CASE live' = [live EXCEPT ![a].set = step.merged]
        <5>1. Current(a)' = Merged(a, step.merged)
          BY <3>1, <4>3, <3>2 DEF Current, Merged, Shapes, AreAddons, IsAddon
        <5> QED BY <4>1, <5>1
      <4> QED BY <3>1, <4>2, <4>3
    <3> QED BY <3>1, <3>2 DEF StepOK, InHand, Reported, Merged
  <2> QED BY <2>1, <2>2
<1>6. CASE Restart
  <2>1. /\ phase = "restart" /\ phase' \in {"record", "revert"} /\ todo' = todo /\ step' = step /\ raced' = raced
        /\ live' = live \/ live' = [live EXCEPT ![a].running = Current(a)]
    BY <1>6 DEF Restart
  <2>2. a \in Addons => Current(a)' = Current(a)
    BY <2>1 DEF Current, Merged, Shapes, AreAddons, IsAddon
  <2> QED BY <2>1, <2>2 DEF StepOK, InHand, Reported, Merged
<1>7. CASE Revert
  <2>1. CASE phase' = "undo" BY <2>1 DEF StepOK, InHand
  <2>2. CASE phase' # "undo"
    <3> DEFINE set == Overlay(step.merged, Prior(step.current, p))
    <3>1. /\ phase = "revert" /\ phase' = "record" /\ todo' = todo /\ step' = step /\ raced' = raced
          /\ live' = live \/ live' = [live EXCEPT ![a].set = set]
      BY <1>7, <2>2 DEF Revert, Fail
    <3>2. ASSUME a \in Addons, ~raced, NEW k \in Options, p[k] = Keep
          PROVE  Current(a)'[k] = step.current[k]
      <4>1. CASE live' = live
        <5>1. Current(a)[k] = step.current[k] BY <3>1, <3>2 DEF StepOK, InHand
        <5> QED BY <3>1, <4>1, <5>1 DEF Current, Merged
      <4>2. CASE live' = [live EXCEPT ![a].set = set]
        <5>1. /\ Reported(a, step.current) /\ IsSet(step.merged)
              /\ \A x \in Options : p[x] = Keep => Merged(a, step.merged)[x] = step.current[x]
          BY <3>1, <3>2 DEF StepOK, InHand
        <5>2. Merged(a, set) = step.current BY <3>2, <5>1, Reverted
        <5>3. Current(a)' = Merged(a, set)
          <6> HIDE DEF set
          <6> QED BY <3>1, <4>2, <3>2 DEF Current, Merged, Shapes, AreAddons, IsAddon
        <5> QED BY <5>2, <5>3
      <4> QED BY <3>1, <4>1, <4>2
    <3> HIDE DEF set
    <3> QED BY <3>1, <3>2 DEF StepOK, InHand, Reported, Merged
  <2> QED BY <2>1, <2>2
<1> QED BY <1>1, <1>2, <1>3, <1>4, <1>5, <1>6, <1>7 DEF Next

\* What others do, and what does not concern the undoing.
LEMMA AsideStep ==
  ASSUME UndoInv, Push \/ Edit \/ Crash \/ Reconcile \/ Restart \/ ApplyDone \/ UndoDone \/ UNCHANGED vars
  PROVE  Undoable'
<1> USE DEF disk, working, history, bounds
<1>1. CASE UNCHANGED vars \/ Push \/ Reconcile
  <2>1. /\ live' = live /\ todo' = todo /\ step' = step /\ phase' = phase /\ raced' = raced
        /\ UNCHANGED <<before, origin, mode, outcome, executed, journals, cur, managed, pos, pointer, savedPointer, saved>>
    BY <1>1 DEF vars, Push, Reconcile
  <2>2. Shown' = Shown /\ Found' = Found BY <2>1 DEF Shown, Found, InHand, Current, Merged
  <2> QED BY <2>1, <2>2 DEF UndoInv, Undoable, ExecOK, UndoOK, SaveOK, IdleOK, InHand
<1>2. CASE Edit
  <2>1. ~before'.known /\ ~origin'.known BY <1>2, BeforeFacts DEF Edit, UndoInv, Shapes
  <2> QED BY <2>1, <1>2 DEF Edit, UndoInv, Undoable, ExecOK, UndoOK, SaveOK, IdleOK, InHand
<1>3. CASE Crash
  <2>1. ~before'.known /\ raced' = FALSE BY <1>3, BeforeFacts DEF Crash, Clear
  <2>2. CASE Idle
    <3>1. Shown' = Shown BY <1>3 DEF Crash, Shown, Current, Merged
    <3> QED BY <2>1, <2>2, <3>1, <1>3 DEF Crash, Clear, Idle, UndoInv, Undoable, ExecOK, UndoOK, SaveOK, IdleOK, InHand
  <2>3. CASE ~Idle
    <3>1. ~origin'.known BY <1>3, <2>3, BeforeFacts DEF Crash, UndoInv, Shapes
    <3> QED BY <2>1, <3>1, <1>3 DEF Crash, Clear, Undoable, ExecOK, UndoOK, SaveOK, IdleOK, InHand
  <2> QED BY <2>2, <2>3
<1>4. CASE Restart
  <2>1. /\ phase = "restart" /\ phase' \in {"record", "revert"} /\ todo' = todo /\ step' = step /\ raced' = raced
        /\ UNCHANGED <<before, origin, mode, outcome, executed, journals, cur, managed>>
        /\ live' = live \/ \E x, r : live' = [live EXCEPT ![x].running = r]
    BY <1>4 DEF Restart
  <2>2. \A a \in Addons : Current(a)' = Current(a)
    BY <2>1 DEF Current, Merged, UndoInv, Shapes, AreAddons, IsAddon
  <2>3. Found' = Found BY <2>1, <2>2 DEF Found, InHand
  <2> QED BY <2>1, <2>3 DEF UndoInv, Undoable, ExecOK, UndoOK, SaveOK, IdleOK, InHand
<1>5. CASE ApplyDone
  <2>1. /\ phase = "read" /\ phase' = "save" /\ raced' = raced /\ live' = live
        /\ UNCHANGED <<before, origin, mode, outcome, executed, journals, cur, managed>>
    BY <1>5 DEF ApplyDone
  <2>2. Shown' = Found BY <2>1 DEF Shown, Found, InHand, Current, Merged
  <2> QED BY <2>1, <2>2 DEF UndoInv, Undoable, ExecOK, UndoOK, SaveOK, IdleOK, InHand
<1>6. CASE UndoDone
  <2>1. /\ phase = "undo" /\ pos = 0 /\ phase' = "save" /\ raced' = raced /\ live' = live
        /\ UNCHANGED <<before, origin, outcome, executed, managed>>
    BY <1>6 DEF UndoDone
  <2>2. Shown' = Shown BY <2>1 DEF Shown, Current, Merged
  <2> QED BY <2>1, <2>2 DEF UndoInv, Undoable, ExecOK, UndoOK, SaveOK, IdleOK, InHand
<1> QED BY <1>1, <1>2, <1>3, <1>4, <1>5, <1>6

\* Nothing is executed yet: what there is is what an undo is to bring back.
LEMMA BeginStep ==
  ASSUME UndoInv, StartApply
  PROVE  Undoable'
<1> USE DEF disk, working, history, bounds
<1>1. /\ executed' = <<>> /\ mode' = "apply" /\ live' = live /\ raced' = FALSE /\ managed' = saved
      /\ before' = Now(saved) /\ origin' = Now(saved) /\ cur' \in 1 .. 2
      /\ journals' = [journals EXCEPT ![cur'] = <<>>]
      /\ \/ phase' = "read" /\ outcome' = "ok"
         \/ phase' = "save" /\ outcome' = "failed"
  BY DEF StartApply
<1>2. Now(saved).options = Shown /\ Now(saved).managed = saved BY BeforeFacts DEF UndoInv
<1>3. BringsBack(<<>>, 0, Now(saved), Shown, saved) BY <1>2, NothingToUndo
<1>4. journals'[cur'] = <<>> BY <1>1 DEF UndoInv, Shapes
<1>5. phase' = "read" => Found' = Shown BY <1>1 DEF Found, Shown, InHand, Current, Merged
<1> QED BY <1>1, <1>3, <1>4, <1>5, Empty DEF Undoable, ExecOK, UndoOK, SaveOK, IdleOK, InHand

\* Reading changes nothing.
LEMMA ReadStep ==
  ASSUME UndoInv, ReadOptions
  PROVE  Undoable'
<1> USE DEF disk, working, history, bounds
<1>1. /\ phase = "read" /\ live' = live /\ todo' = todo
      /\ UNCHANGED <<before, origin, mode, executed, journals, cur, managed>>
  BY DEF ReadOptions, Fail
<1>2. /\ mode = "apply" /\ outcome = "ok" /\ IsSeq(executed) /\ journals[cur] = executed
      /\ before.known => BringsBack(executed, Len(executed), before, Found, managed)
  BY <1>1 DEF UndoInv, Undoable, ExecOK
<1>3. Found = Shown BY <1>1 DEF Found, Shown, InHand
<1>4. CASE phase' = "post"
  <2>1. raced' = FALSE /\ outcome' = outcome /\ step'.current = Current(Head(todo).key)
    BY <1>4 DEF ReadOptions, Fail
  <2>2. Found' = Shown BY <1>1, <2>1 DEF Found, Shown, Current, Merged
  <2> QED BY <1>1, <1>2, <1>3, <1>4, <2>1, <2>2 DEF Undoable, ExecOK, UndoOK, SaveOK, IdleOK, InHand
<1>5. CASE phase' # "post"
  <2>1. phase' = "undo" /\ outcome' = "rolledBack" /\ pos' = Len(executed) /\ raced' = raced
    BY <1>5 DEF ReadOptions, Fail
  <2>2. Shown' = Shown BY <1>1 DEF Shown, Current, Merged
  <2>3. Len(executed) \in Nat BY <1>2, Lengths
  <2> QED BY <1>1, <1>2, <1>3, <2>1, <2>2, <2>3
      DEF UndoInv, Undoable, ExecOK, UndoOK, SaveOK, IdleOK, InHand
<1> QED BY <1>4, <1>5

\* What is posted, or reverted, is not what was found; what was found is still
\* in hand, or is there again.
LEMMA PostStep ==
  ASSUME UndoInv, PostOptions
  PROVE  Undoable'
<1> USE DEF disk, working, history, bounds
<1> DEFINE a == Head(todo).key
<1>1. /\ phase = "post" /\ todo' = todo /\ raced' = raced
      /\ live' = live \/ live' = [live EXCEPT ![a].set = step.merged]
      /\ UNCHANGED <<origin, mode, executed, cur, managed>>
  BY DEF PostOptions, Fail
<1>2. /\ mode = "apply" /\ outcome = "ok" /\ IsSeq(executed) /\ journals[cur] = executed
      /\ before.known => BringsBack(executed, Len(executed), before, Found, managed)
      /\ before.known \/ origin.known => ~raced
  BY <1>1 DEF UndoInv, Undoable, ExecOK, InHand
<1>3. CASE phase' # "undo"
  <2>1. phase' \in {"restart", "record"} /\ step' = step /\ outcome' = outcome /\ journals' = journals /\ before' = before
    BY <1>3 DEF PostOptions, Fail
  <2>2. ASSUME NEW b \in Addons, b # a PROVE Current(b)' = Current(b)
    <3>1. Shown'[b] = Current(b)' BY DEF Shown
    <3>2. CASE live' = live BY <3>2 DEF Current, Merged
    <3>3. CASE live' = [live EXCEPT ![a].set = step.merged]
      <4> HIDE DEF a
      <4> QED BY <2>2, <3>1, <3>3, OptionsPosted DEF UndoInv
    <3> QED BY <1>1, <3>2, <3>3
  <2>3. Found' = Found BY <1>1, <2>1, <2>2 DEF Found, InHand
  <2> QED BY <1>1, <1>2, <2>1, <2>3 DEF Undoable, ExecOK, UndoOK, SaveOK, IdleOK, InHand
<1>4. CASE phase' = "undo"
  <2>1. outcome' = "rolledBack" /\ pos' = Len(executed) BY <1>4 DEF PostOptions, Fail
  <2>2. before'.known => before' = before /\ live' = live
    BY <1>4, BeforeFacts DEF PostOptions, UndoInv, Shapes
  <2>3. ASSUME before.known, live' = live PROVE Shown' = Found
    <3>1. ~raced BY <1>2, <2>3
    <3>2. ASSUME a \in Addons PROVE Current(a) = step.current
      <4>1. Reported(a, step.current) /\ \A k \in Options : Current(a)[k] = step.current[k]
        BY <1>1, <3>1, <3>2 DEF UndoInv, StepOK, InHand
      <4>2. Current(a) = [k \in Options |-> Current(a)[k]] BY DEF Current, Merged
      <4> QED BY <4>1, <4>2 DEF Reported
    <3>3. \A b \in Addons : Current(b)' = Current(b) BY <2>3 DEF Current, Merged
    <3> QED BY <1>1, <3>2, <3>3 DEF Shown, Found, InHand
  <2>4. Len(executed) \in Nat BY <1>2, Lengths
  <2> QED BY <1>1, <1>2, <1>4, <2>1, <2>2, <2>3, <2>4 DEF Undoable, ExecOK, UndoOK, SaveOK, IdleOK, InHand
<1> QED BY <1>3, <1>4

LEMMA RevertStep ==
  ASSUME UndoInv, Revert
  PROVE  Undoable'
<1> USE DEF disk, working, history, bounds
<1> DEFINE op == Head(todo)
<1> DEFINE a == op.key
<1> DEFINE set == Overlay(step.merged, Prior(step.current, op.params))
<1>1. /\ phase = "revert" /\ todo' = todo /\ raced' = raced
      /\ UNCHANGED <<before, origin, mode, executed, cur, managed, journals>>
  BY DEF Revert, Fail
<1>2. /\ mode = "apply" /\ outcome = "ok" /\ IsSeq(executed) /\ journals[cur] = executed
      /\ before.known => BringsBack(executed, Len(executed), before, Found, managed)
  BY <1>1 DEF UndoInv, Undoable, ExecOK, InHand
<1>3. CASE phase' # "undo"
  <2>1. /\ phase' = "record" /\ step' = step /\ outcome' = outcome
        /\ live' = live \/ live' = [live EXCEPT ![a].set = set]
    BY <1>3 DEF Revert, Fail
  <2>3. \A b \in Addons : b # a => Current(b)' = Current(b)
    <3>1. CASE live' = live BY <3>1 DEF Current, Merged
    <3>2. CASE live' = [live EXCEPT ![a].set = set]
      <4>1. \A b \in Addons : Shown'[b] = IF b = a THEN Merged(b, set) ELSE Current(b)
        <5> HIDE DEF a, set
        <5> QED BY <3>2, OptionsPosted DEF UndoInv
      <4>2. \A b \in Addons : Shown'[b] = Current(b)' BY DEF Shown
      <4> QED BY <4>1, <4>2
    <3> QED BY <2>1, <3>1, <3>2
  <2>2. Found' = Found BY <1>1, <2>1, <2>3 DEF Found, InHand
  <2> QED BY <1>1, <1>2, <2>1, <2>2 DEF UndoInv, Undoable, ExecOK, UndoOK, SaveOK, IdleOK, InHand
<1>4. CASE phase' = "undo"
  <2>1. /\ outcome' = "rolledBack" /\ pos' = Len(executed)
        /\ live' \in {[live EXCEPT ![a].set = set],
                      [[live EXCEPT ![a].set = set] EXCEPT ![a].running = Merged(a, set)]}
    BY <1>4 DEF Revert, Fail
  <2>2. ASSUME a \in Addons PROVE Merged(a, set) = step.current
    <3>1. /\ Reported(a, step.current) /\ IsSet(step.merged)
          /\ \A k \in Options : op.params[k] = Keep => Merged(a, step.merged)[k] = step.current[k]
      BY <1>1, <2>2 DEF UndoInv, StepOK, InHand
    <3> QED BY <2>2, <3>1, Reverted
  <2>3. \A b \in Addons : Shown'[b] = IF b = a THEN Merged(b, set) ELSE Current(b)
    <3> HIDE DEF a, set
    <3> QED BY <2>1, OptionsPosted DEF UndoInv
  <2>4. Shown' = Found
    <3>1. \A b \in Addons : Shown'[b] = IF b = a THEN step.current ELSE Current(b) BY <2>2, <2>3
    <3>2. Shown' = [b \in Addons |-> Shown'[b]] BY DEF Shown
    <3> QED BY <1>1, <3>1, <3>2 DEF Found, InHand
  <2>5. Len(executed) \in Nat BY <1>2, Lengths
  <2> QED BY <1>1, <1>2, <1>4, <2>1, <2>4, <2>5 DEF UndoInv, Undoable, ExecOK, UndoOK, SaveOK, IdleOK, InHand
<1> QED BY <1>3, <1>4

\* An operation lands: its entry holds what was found.
LEMMA RecordStep ==
  ASSUME UndoInv, Record
  PROVE  Undoable'
<1> USE DEF disk, working, history, bounds
<1> DEFINE op == Head(todo)
<1> DEFINE e == Entry(op)
<1>1. /\ phase = "record" /\ executed' = Append(executed, e) /\ live' = live /\ raced' = raced
      /\ managed' = [managed EXCEPT ![op.key] = Recorded(op)]
      /\ UNCHANGED <<before, origin, mode, cur>>
  BY DEF Record
<1>2. /\ mode = "apply" /\ outcome = "ok" /\ IsSeq(executed) /\ journals[cur] = executed
      /\ before.known => BringsBack(executed, Len(executed), before, Found, managed) /\ ~raced
  BY <1>1 DEF UndoInv, Undoable, ExecOK, InHand
<1>3. IsSeq(executed') /\ Len(executed) \in Nat /\ Follows(e, executed, executed')
  BY <1>1, <1>2, Longer
<1>4. /\ e.key = op.key /\ e.snapshot = managed[op.key]
      /\ \A k \in Options : e.prior[k] = Ref
                              \/ e.prior[k] = IF op.params[k] = Keep THEN Keep ELSE step.current[k]
  BY DEF Entry, StashPrior, Prior
<1>5. ASSUME before.known PROVE BringsBack(executed', Len(executed'), before', Shown', managed')
  <2>1. ASSUME NEW b \in Addons, NEW k \in Options, ~(e.key = b /\ e.prior[k] = Ref)
        PROVE  \/ Shown[b][k] = Found[b][k] /\ ~Touches(e, b, k)
               \/ Touches(e, b, k) /\ e.prior[k] = Found[b][k]
    <3>1. CASE op.key = b
      <4>1. Found[b] = step.current /\ Shown[b] = Current(b) BY <1>1, <3>1 DEF Found, InHand, Shown
      <4>2. Reported(b, step.current) /\ (op.params[k] = Keep => Current(b)[k] = step.current[k])
        BY <1>1, <1>2, <1>5, <3>1 DEF UndoInv, StepOK, InHand
      <4>3. step.current[k] # Keep BY <4>2 DEF Reported, IsSet
      <4>4. e.key = b /\ e.prior[k] = IF op.params[k] = Keep THEN Keep ELSE step.current[k] BY <1>4, <2>1, <3>1
      <4> HIDE DEF e, op
      <4> QED BY <4>1, <4>2, <4>3, <4>4 DEF Touches
    <3>2. CASE op.key # b
      <4>1. Found[b] = Shown[b] BY <3>2 DEF Found, Shown
      <4> QED BY <4>1, <3>2, <1>4 DEF Touches
    <3> QED BY <3>1, <3>2
  <2>2. ASSUME NEW b \in Addons
        PROVE  IF e.key = b THEN e.snapshot = managed[b] ELSE managed'[b] = managed[b]
    BY <1>1, <1>4 DEF UndoInv, Shapes, IsRecord
  <2>3. Lands(e, Found, managed, Shown, managed') BY <2>1, <2>2 DEF Lands
  <2> HIDE DEF e
  <2>4. BringsBack(executed', Len(executed'), before, Shown, managed')
    BY <1>2, <1>3, <1>5, <2>3, OneMore
  <2>5. Shown' = Shown BY <1>1 DEF Shown, Current, Merged
  <2> QED BY <1>1, <2>4, <2>5
<1>6. CASE phase' = "read"
  <2>1. journals' = [journals EXCEPT ![cur] = executed'] /\ outcome' = outcome BY <1>6 DEF Record
  <2>2. journals'[cur] = executed' BY <2>1 DEF UndoInv, Shapes
  <2>3. Found' = Shown' BY <1>6 DEF Found, InHand, Shown
  <2> QED BY <1>1, <1>2, <1>3, <1>5, <1>6, <2>1, <2>2, <2>3
      DEF UndoInv, Undoable, ExecOK, UndoOK, SaveOK, IdleOK, InHand
<1>7. CASE phase' # "read"
  <2>1. (phase' = "undo" /\ outcome' = "failed") \/ (phase' = "save" /\ outcome' = "unjournalled")
    BY <1>7 DEF Record
  <2> QED BY <1>1, <2>1 DEF UndoInv, Undoable, ExecOK, UndoOK, SaveOK, IdleOK, InHand
<1> QED BY <1>6, <1>7

\* The options entry e holds are given back, laid over those there are; the
\* add-on may restart with them.
GivesBackOptions(e, given) ==
  \E set :
    /\ set = Overlay(PersistedOnly(e.key, Current(e.key), given), Given(e))
    /\ \/ live' = [live EXCEPT ![e.key].set = set]
       \/ \E r : live' = [[live EXCEPT ![e.key].set = set] EXCEPT ![e.key].running = r]

LEMMA Undone ==
  ASSUME Shapes, NEW e, NEW given \in BOOLEAN, GivesBackOptions(e, given)
  PROVE  \A b \in Addons : \A k \in Options :
           Shown'[b][k] = IF b # e.key \/ Given(e)[k] = Keep THEN Current(b)[k]
                          ELSE IF Given(e)[k] = Absent THEN Defaults[b][k] ELSE Given(e)[k]
<1>0. PICK set :
      /\ set = Overlay(PersistedOnly(e.key, Current(e.key), given), Given(e))
      /\ \/ live' = [live EXCEPT ![e.key].set = set]
         \/ \E r : live' = [[live EXCEPT ![e.key].set = set] EXCEPT ![e.key].running = r]
  BY DEF GivesBackOptions
<1>1. \A b \in Addons : Shown'[b] = IF b = e.key THEN Merged(b, set) ELSE Current(b)
  <2> DEFINE a == e.key
  <2>1. \/ live' = [live EXCEPT ![a].set = set]
        \/ \E r : live' = [live EXCEPT ![a].set = set, ![a].running = r]
    BY <1>0
  <2> HIDE DEF a
  <2>2. \A b \in Addons : Shown'[b] = IF b = a THEN Merged(b, set) ELSE Current(b)
    BY <2>1, OptionsPosted
  <2> QED BY <2>2 DEF a
<1>2. ASSUME NEW b \in Addons, b = e.key, NEW k \in Options
      PROVE  Merged(b, set)[k] = IF Given(e)[k] = Keep THEN Current(b)[k]
                                 ELSE IF Given(e)[k] = Absent THEN Defaults[b][k] ELSE Given(e)[k]
  <2>1. Reported(b, Current(b)) BY ShownFacts
  <2>2. set = Overlay(PersistedOnly(b, Current(b), given), Given(e)) BY <1>0, <1>2
  <2> QED BY <2>1, <2>2, Overlaid
<1> QED BY <1>1, <1>2

\* The newest entry is undone, or the undo does not report success.
LEMMA UndoStep ==
  ASSUME UndoInv, UndoOne
  PROVE  Undoable'
<1> USE DEF disk, working, history, bounds
<1> DEFINE e == executed[pos]
<1>1. /\ phase = "undo" /\ phase' = "undo" /\ outcome' \in {outcome, "failed"} /\ raced' = raced
      /\ pos > 0 /\ pos' = pos - 1 /\ executed' = executed /\ before' = before /\ origin' = origin /\ outcome # "ok"
      /\ before.known \/ origin.known => ~raced
  BY DEF UndoOne, UndoInv, Undoable, UndoOK, ExecOK
<1>2. CASE outcome' = "rolledBack" /\ before.known
  <2>1. /\ outcome = "rolledBack" /\ managed' = [managed EXCEPT ![e.key] = e.snapshot]
        /\ \E given \in BOOLEAN : GivesBackOptions(e, given)
    BY <1>1, <1>2 DEF UndoOne, GivesBackOptions
  <2>2. pos \in 1 .. Len(executed) /\ IsSeq(executed) /\ BringsBack(executed, pos, before, Shown, managed)
    BY <1>1, <1>2, <2>1 DEF UndoInv, Undoable, UndoOK
  <2>3. Len(executed) \in Nat BY <2>2, Lengths
  <2>4. \A b \in Addons : \A k \in Options :
          Shown'[b][k] = IF b # e.key \/ Given(e)[k] = Keep THEN Current(b)[k]
                         ELSE IF Given(e)[k] = Absent THEN Defaults[b][k] ELSE Given(e)[k]
    <3> HIDE DEF e
    <3> QED BY <2>1, Undone DEF UndoInv
  <2>5. ASSUME NEW b \in Addons, NEW k \in Options, ~(e.key = b /\ e.prior[k] = Ref)
        PROVE  Shown'[b][k] = IF Touches(e, b, k) THEN IF e.prior[k] = Absent THEN Defaults[b][k] ELSE e.prior[k]
                                                  ELSE Shown[b][k]
    <3>1. Given(e)[k] = IF e.prior[k] = Ref THEN Keep ELSE e.prior[k] BY DEF Given
    <3>2. Shown[b] = Current(b) BY DEF Shown
    <3> HIDE DEF e
    <3> QED BY <2>4, <2>5, <3>1, <3>2 DEF Touches
  <2>6. \A b \in Addons : managed'[b] = IF e.key = b THEN e.snapshot ELSE managed[b]
    BY <2>1 DEF UndoInv, Shapes, IsRecord
  <2>7. GivesBack(e, Shown, managed, Shown', managed') BY <2>5, <2>6 DEF GivesBack
  <2>8. \A b \in Addons : Reported(b, before.options[b]) BY <1>2 DEF UndoInv, Shapes, IsBefore
  <2>9. BringsBack(executed, pos - 1, before, Shown', managed')
    BY <2>2, <2>3, <2>7, <2>8, OneLess
  <2>10. pos - 1 \in 0 .. Len(executed) BY <2>2, <2>3
  <2> QED BY <1>1, <2>2, <2>9, <2>10 DEF Undoable, ExecOK, UndoOK, SaveOK, IdleOK, InHand
<1>3. CASE ~(outcome' = "rolledBack" /\ before.known)
  BY <1>1, <1>3 DEF Undoable, ExecOK, UndoOK, SaveOK, IdleOK, InHand
<1> QED BY <1>2, <1>3

\* Roll Back replays the journal under the button, and an apply that is saved
\* leaves its journal there.
LEMMA BetweenStep ==
  ASSUME UndoInv, StartRollback \/ StateSave
  PROVE  Undoable'
<1> USE DEF disk, working, history, bounds
<1>3. CASE StartRollback /\ phase' = "save"
  <2>1. outcome' = "failed" /\ ~origin'.known /\ before' = origin /\ raced' = raced
    BY <1>3, BeforeFacts DEF StartRollback
  <2> QED BY <1>3, <2>1 DEF UndoInv, Undoable, ExecOK, UndoOK, SaveOK, IdleOK, InHand
<1>1. CASE StartRollback /\ phase' # "save"
  <2>1. /\ phase = "idle" /\ phase' = "undo" /\ executed' = journals[pointer] /\ pos' = Len(executed')
        /\ before' = origin /\ ~origin'.known /\ live' = live /\ managed' = saved /\ outcome' = "rolledBack"
        /\ raced' = raced
    BY <1>1, BeforeFacts DEF StartRollback, Idle
  <2>2. origin.known => /\ IsSeq(journals[pointer]) /\ ~raced
                        /\ BringsBack(journals[pointer], Len(journals[pointer]), origin, Shown, saved)
    BY <2>1 DEF UndoInv, Undoable, IdleOK, ExecOK
  <2>3. origin.known => Len(journals[pointer]) \in Nat BY <2>2, Lengths
  <2>4. Shown' = Shown BY <2>1 DEF Shown, Current, Merged
  <2> QED BY <2>1, <2>2, <2>3, <2>4 DEF Undoable, ExecOK, UndoOK, SaveOK, IdleOK, InHand
<1>2. CASE StateSave
  <2>1. phase = "save" /\ phase' = "idle" /\ raced' = FALSE /\ ~before'.known
    BY <1>2, BeforeFacts DEF StateSave, Clear
  <2>2. CASE origin'.known
    <3>1. ~NoBefore.known BY BeforeFacts
    <3>2. /\ origin' = before /\ before.known /\ outcome = "ok" /\ mode = "apply"
          /\ saved' = managed /\ pointer' = cur /\ savedPointer' = cur /\ live' = live /\ journals' = journals
      BY <1>2, <2>2, <3>1 DEF StateSave
    <3>3. /\ IsSeq(executed) /\ journals[cur] = executed
          /\ BringsBack(executed, Len(executed), before, Shown, managed)
      BY <2>1, <3>2 DEF UndoInv, Undoable, SaveOK
    <3>4. cur # 0 BY DEF UndoInv, Shapes
    <3>5. Shown' = Shown BY <3>2 DEF Shown, Current, Merged
    <3> QED BY <2>1, <3>2, <3>3, <3>4, <3>5 DEF Undoable, ExecOK, UndoOK, SaveOK, IdleOK, InHand
  <2>3. CASE ~origin'.known BY <2>1, <2>3 DEF Undoable, ExecOK, UndoOK, SaveOK, IdleOK, InHand
  <2> QED BY <2>2, <2>3
<1> QED BY <1>1, <1>2, <1>3

-----------------------------------------------------------------------------

LEMMA Invariant == Spec => []UndoInv
<1>1. Init => UndoInv
  <2>1. Init => StepOK BY DEF Init, StepOK, InHand
  <2>2. Init => Undoable BY BeforeFacts DEF Init, Undoable, ExecOK, UndoOK, SaveOK, IdleOK, InHand
  <2> QED BY <2>1, <2>2, InitShapes DEF UndoInv
<1>2. UndoInv /\ [Next]_vars => UndoInv'
  <2> SUFFICES ASSUME UndoInv, [Next]_vars PROVE UndoInv' OBVIOUS
  <2>1. Shapes' /\ StepOK' BY ShapesStep, StepStep DEF UndoInv
  <2>2. Undoable'
    BY AsideStep, BeginStep, ReadStep, PostStep, RevertStep, RecordStep, UndoStep, BetweenStep DEF Next
  <2> QED BY <2>1, <2>2 DEF UndoInv
<1> QED BY <1>1, <1>2, PTL DEF Spec

\* An undo that reports success brought back the options Supervisor reports and
\* what is recorded of them, but for a credential that replaced another: after a
\* failure those the apply found, after Roll Back those its apply found, however
\* many operations share an add-on (regapply/addonopts.go, regapply/rollback.go).
THEOREM RollbackIsComplete == Spec => []RolledBackRestores
<1>1. UndoInv => RolledBackRestores
  <2> SUFFICES ASSUME UndoInv, phase = "save", outcome = "rolledBack", before.known
               PROVE  /\ managed = before.managed
                      /\ \A a \in Addons : \A k \in Options :
                           Current(a)[k] = before.options[a][k] \/ \E e \in ToSet(executed) : e.key = a /\ e.prior[k] = Ref
    BY DEF RolledBackRestores
  <2>1. IsSeq(executed) /\ BringsBack(executed, 0, before, Shown, managed) BY DEF UndoInv, Undoable, SaveOK
  <2>2. \A i \in 1 .. Len(executed) : executed[i] \in ToSet(executed)
    BY <2>1, LenProperties DEF IsSeq, ToSet
  <2>3. ASSUME NEW a \in Addons, NEW k \in Options
        PROVE  Current(a)[k] = before.options[a][k] \/ \E e \in ToSet(executed) : e.key = a /\ e.prior[k] = Ref
    <3>1. OptionBack(executed, 0, before, Shown, a, k) BY <2>1 DEF BringsBack
    <3>2. Shown[a] = Current(a) BY DEF Shown
    <3>3. Untouched(executed, 0, a, k) BY DEF Untouched
    <3> QED BY <2>2, <3>1, <3>2, <3>3 DEF OptionBack, Replaced
  <2>4. \A a \in Addons : managed[a] = before.managed[a]
    BY <2>1 DEF BringsBack, RecordBack, Unnamed
  <2>5. managed = before.managed BY <2>4 DEF UndoInv, Shapes, IsRecord, IsBefore
  <2> QED BY <2>3, <2>5
<1> QED BY <1>1, Invariant, PTL

\* A write replaces an add-on's options as a whole, yet an option the operation
\* does not name is reported as before it, a value that was set and one that is
\* the add-on's default alike, whether Supervisor's store told which is which
\* or not (addonopts.go, regapply/addonopts.go).
THEOREM UndeclaredStay == Spec => UndeclaredSurvive
<1> DEFINE Survives ==
      (PostOptions \/ Revert \/ UndoOne) /\ (raced => phase = "undo") =>
        \A a \in Addons : \A k \in Options :
          Merged(a, live'[a].set)[k] # Current(a)[k] =>
            IF phase = "undo" THEN a = executed[pos].key /\ Given(executed[pos])[k] # Keep
            ELSE a = Head(todo).key /\ Head(todo).params[k] # Keep
<1>1. UndoInv => Survives
  <2> SUFFICES ASSUME UndoInv, PostOptions \/ Revert \/ UndoOne, raced => phase = "undo",
                      NEW a \in Addons, NEW k \in Options, Merged(a, live'[a].set)[k] # Current(a)[k]
               PROVE  IF phase = "undo" THEN a = executed[pos].key /\ Given(executed[pos])[k] # Keep
                      ELSE a = Head(todo).key /\ Head(todo).params[k] # Keep
    OBVIOUS
  <2>1. Shown'[a] = Merged(a, live'[a].set) BY DEF Shown, Current
  <2>2. Shapes BY DEF UndoInv
  <2>3. CASE PostOptions
    <3> DEFINE op == Head(todo)
    <3>1. phase = "post" /\ ~raced BY <2>3 DEF PostOptions
    <3>2. live' = live \/ live' = [live EXCEPT ![op.key].set = step.merged] BY <2>3 DEF PostOptions
    <3>3. CASE live' = live BY <3>3 DEF Current
    <3>4. CASE live' = [live EXCEPT ![op.key].set = step.merged]
      <4>1. Shown'[a] = IF a = op.key THEN Merged(a, step.merged) ELSE Current(a)
        <5> HIDE DEF op
        <5> QED BY <2>2, <3>4, OptionsPosted
      <4>2. a = op.key BY <2>1, <4>1
      <4>3. /\ op.params[k] = Keep => Merged(a, step.merged)[k] = step.current[k]
            /\ Current(a)[k] = step.current[k]
        BY <3>1, <4>2 DEF UndoInv, StepOK, InHand
      <4> QED BY <2>1, <3>1, <4>1, <4>2, <4>3
    <3> QED BY <3>2, <3>3, <3>4
  <2>4. CASE Revert
    <3> DEFINE op == Head(todo)
    <3> DEFINE set == Overlay(step.merged, Prior(step.current, op.params))
    <3>1. phase = "revert" /\ ~raced BY <2>4 DEF Revert
    <3>2. \/ live' = live
          \/ live' = [live EXCEPT ![op.key].set = set]
          \/ live' = [[live EXCEPT ![op.key].set = set] EXCEPT ![op.key].running = Merged(op.key, set)]
      BY <2>4 DEF Revert, Fail
    <3>3. CASE live' = live BY <3>3 DEF Current
    <3>4. CASE live' # live
      <4>1. Shown'[a] = IF a = op.key THEN Merged(a, set) ELSE Current(a)
        <5> HIDE DEF op, set
        <5> QED BY <2>2, <3>2, <3>4, OptionsPosted
      <4>2. a = op.key BY <2>1, <4>1
      <4>3. /\ Reported(a, step.current) /\ IsSet(step.merged)
            /\ \A x \in Options : op.params[x] = Keep => Merged(a, step.merged)[x] = step.current[x]
            /\ op.params[k] = Keep => Current(a)[k] = step.current[k]
        BY <3>1, <4>2 DEF UndoInv, StepOK, InHand
      <4>4. Merged(a, set) = step.current BY <4>3, Reverted
      <4> QED BY <2>1, <3>1, <4>1, <4>2, <4>3, <4>4
    <3> QED BY <3>3, <3>4
  <2>5. CASE UndoOne
    <3> DEFINE e == executed[pos]
    <3>1. phase = "undo" BY <2>5, Zenon DEF UndoOne
    <3>2. CASE live' = live BY <3>2 DEF Current
    <3>3. CASE live' # live
      <4>1. \E given \in BOOLEAN : GivesBackOptions(e, given)
        BY <2>5, <3>3, Zenon DEF UndoOne, GivesBackOptions
      <4>2. Shown'[a][k] = IF a # e.key \/ Given(e)[k] = Keep THEN Current(a)[k]
                           ELSE IF Given(e)[k] = Absent THEN Defaults[a][k] ELSE Given(e)[k]
        <5> HIDE DEF e
        <5> QED BY <2>2, <4>1, Undone
      <4> QED BY <2>1, <3>1, <4>2
    <3> QED BY <3>2, <3>3
  <2> QED BY <2>3, <2>4, <2>5
<1> QED BY <1>1, Invariant, PTL DEF UndeclaredSurvive
-----------------------------------------------------------------------------
(* Options and records                                                      *)

\* What Supervisor reports of options, and what is laid over options, are options.
LEMMA OptionsTyped ==
  /\ \A a \in Addons : \A set \in Stored : Merged(a, set) \in Stored
  /\ \A a \in Addons : \A set \in Stored : \A known \in BOOLEAN : PersistedOnly(a, set, known) \in Stored
  /\ \A base \in Stored : \A p \in Params : Overlay(base, p) \in Stored
  /\ \A c \in Stored : \A p \in Params : Prior(c, p) \in Params
BY AddonOptionsAssumption DEF AddonOptionsAssumption, Merged, PersistedOnly, Overlay, Prior, Stored, Params

\* An add-on with other options, or with what it runs with replaced, is one still.
LEMMA AddonTyped ==
  ASSUME NEW w \in Installations, NEW a \in Addons, NEW set \in Stored, NEW run \in Stored, NEW w2,
         \/ w2 = w
         \/ w2 = [w EXCEPT ![a].set = set]
         \/ w2 = [w EXCEPT ![a].running = run]
         \/ w2 = [w EXCEPT ![a].set = set, ![a].running = run]
  PROVE  w2 \in Installations
BY DEF Installations

LEMMA CurrentTyped ==
  ASSUME TypeOK, NEW a \in Addons
  PROVE  Current(a) \in Stored /\ live[a].set \in Stored /\ live[a].installed \in BOOLEAN
<1>1. live[a].set \in Stored /\ live[a].installed \in BOOLEAN BY DEF TypeOK, Installations
<1> QED BY <1>1, OptionsTyped DEF Current

\* What is recorded of an add-on.
LEMMA HadTyped ==
  /\ Nothing \in Params /\ \A r \in Recordable : r.values \in Params /\ r.restart \in BOOLEAN
  /\ \A r \in Recordable \cup {Unmanaged} : Had(r) \in Params
  /\ \A r \in Recordable : Had(r) = r.values
BY AddonOptionsAssumption DEF AddonOptionsAssumption, Had, Nothing, Recordable, Params

\* The operation in hand is an update or a restore of another add-on than the
\* agent's own, and what it read and merged are options.
LEMMA HandTyped ==
  ASSUME TypeOK, todo # <<>>
  PROVE  /\ Head(todo) \in Op_ /\ Head(todo) \in ToSet(todo) /\ Head(todo).kind \in {"update", "restore"}
         /\ Head(todo).key \in Addons \ {Self} /\ Head(todo).params \in Params
         /\ InHand => step.current \in Stored /\ step.merged \in Stored
<1>1. Head(todo) \in Op_ /\ Head(todo) \in ToSet(todo) BY ElementsTyped DEF TypeOK
<1>2. Head(todo).kind # "error" BY <1>1 DEF TypeOK
<1>3. InHand => step.current \in Stored /\ step.merged \in Stored BY DEF TypeOK
<1> QED BY <1>1, <1>2, <1>3 DEF Op_

LEMMA InHandTodo == TypeOK /\ InHand => todo # <<>>
BY DEF TypeOK

\* What an operation leaves recorded, and its journal entry.
LEMMA LandedTyped ==
  ASSUME TypeOK, InHand, NEW op, op = Head(todo)
  PROVE  Recorded(op) \in Recordable \cup {Unmanaged} /\ Entry(op) \in Entry_
<1>1. /\ op.kind \in {"update", "restore"} /\ op.key \in Addons \ {Self} /\ op.params \in Params
      /\ op.restart \in BOOLEAN /\ step.current \in Stored
  BY HandTyped, InHandTodo DEF Op_
<1>2. managed[op.key] \in Recordable \cup {Unmanaged} BY <1>1 DEF TypeOK
<1>3. Had(managed[op.key]) \in Params BY <1>2, HadTyped
<1>4. Recorded(op) \in Recordable \cup {Unmanaged}
  BY <1>1, <1>3 DEF Recorded, Recordable, Params, Stored
<1>5. Prior(step.current, op.params) \in Params BY <1>1, OptionsTyped
<1>6. StashPrior(op) \in [Options -> Values \cup {Absent, Keep, Ref}] BY <1>5 DEF StashPrior, Params
<1>7. Restarts(op) \in BOOLEAN BY <1>1, <1>2, HadTyped DEF Restarts
<1> QED BY <1>1, <1>2, <1>4, <1>6, <1>7 DEF Entry, Entry_

\* What an entry gives back.
LEMMA GivenTyped ==
  ASSUME NEW e \in Entry_
  PROVE  Given(e) \in Params
BY DEF Given, Entry_, Params

-----------------------------------------------------------------------------
(* The plan                                                                 *)

PlanContext == TypeOK /\ Loaded

\* An item of a manifest that loads.
LEMMA ItemTyped ==
  ASSUME PlanContext, NEW a \in Addons, Declared(a)
  PROVE  /\ desired[a].options \in [Options -> Values \cup {Keep, Ref}] /\ desired[a].restart \in BOOLEAN
         /\ Refs(a) \in SUBSET Options
         /\ (secret = Missing => Refs(a) = {}) => Resolved(a) \in Params
<1>1. desired[a] \in [options : [Options -> Values \cup {Keep, Ref}], restart : BOOLEAN]
  BY AddonOptionsAssumption DEF AddonOptionsAssumption, PlanContext, TypeOK, Loaded, Declared
<1>2. ASSUME secret = Missing => Refs(a) = {} PROVE Resolved(a) \in Params
  <2>1. \A k \in Options : k \in Refs(a) => secret \in Values BY <1>2 DEF PlanContext, TypeOK
  <2>2. \A k \in Options : k \notin Refs(a) => desired[a].options[k] \in Values \cup {Keep} BY <1>1 DEF Refs
  <2> QED BY <2>1, <2>2 DEF Resolved, Params
<1> QED BY <1>1, <1>2 DEF Refs

\* The parts of an operation.
LEMMA OpFacts ==
  ASSUME NEW kind, NEW a, NEW params, NEW refs, NEW restart
  PROVE  /\ Op(kind, a, params, refs, restart).kind = kind /\ Op(kind, a, params, refs, restart).key = a
         /\ Op(kind, a, params, refs, restart).params = params /\ Op(kind, a, params, refs, restart).refs = refs
         /\ Op(kind, a, params, refs, restart).restart = restart
BY DEF Op

\* What planning an add-on, and restoring one, yields.
LEMMA PlanAddonTyped ==
  ASSUME PlanContext, NEW a \in Addons
  PROVE  OneOf(PlanAddon(a), Op_) /\ OneOf(PlanRestore(a), Op_)
<1>1. Error(a) \in Op_ BY HadTyped DEF Error, Op, Op_
<1>2. ASSUME Declared(a), ~(a = Self \/ ~live[a].installed \/ (secret = Missing /\ Refs(a) # {}))
      PROVE  Op("update", a, Resolved(a), Refs(a), desired[a].restart) \in Op_
  BY <1>2, ItemTyped DEF Op, Op_
<1>3. ASSUME saved[a] # Unmanaged, ~(a = Self \/ ~live[a].installed)
      PROVE  Op("restore", a, saved[a].values, {}, FALSE) \in Op_
  <2>1. saved[a].values \in Params BY <1>3, HadTyped DEF PlanContext, TypeOK
  <2> QED BY <2>1, <1>3 DEF Op, Op_
<1> QED BY <1>1, <1>2, <1>3 DEF PlanAddon, PlanRestore, OneOf

LEMMA AllVisited == Visited(AddonOrder, Addons)
BY AddonOptionsAssumption DEF AddonOptionsAssumption, Visited

\* The operations of a plan are those of its add-ons.
LEMMA PlanMembers ==
  ASSUME PlanContext
  PROVE  /\ Plan \in Seq(Op_)
         /\ \A op : op \in ToSet(Plan) <=> \E a \in Addons : op \in ToSet(PlanAddon(a)) \cup ToSet(PlanRestore(a))
<1> DEFINE G1 == [a \in Addons |-> PlanAddon(a)]
           G2 == [a \in Addons |-> PlanRestore(a)]
           O1 == Over(AddonOrder, PlanAddon)
           O2 == Over(AddonOrder, PlanRestore)
<1>1. O1 \in Seq(Op_) /\ ToSet(O1) = Collected(G1, Addons)
  <2>1. [i \in DOMAIN AddonOrder |-> PlanAddon(AddonOrder[i])] = [i \in DOMAIN AddonOrder |-> G1[AddonOrder[i]]]
    BY AllVisited DEF Visited
  <2>2. O1 = FlattenSeq(Each(AddonOrder, G1)) BY <2>1 DEF Over, Each
  <2>3. Yields(G1, Addons, Op_) BY PlanAddonTyped DEF Yields
  <2> HIDE DEF G1, O1
  <2> QED BY ONLY <2>2, <2>3, AllVisited, Concatenated, Zenon
<1>2. O2 \in Seq(Op_) /\ ToSet(O2) = Collected(G2, Addons)
  <2>1. [i \in DOMAIN AddonOrder |-> PlanRestore(AddonOrder[i])] = [i \in DOMAIN AddonOrder |-> G2[AddonOrder[i]]]
    BY AllVisited DEF Visited
  <2>2. O2 = FlattenSeq(Each(AddonOrder, G2)) BY <2>1 DEF Over, Each
  <2>3. Yields(G2, Addons, Op_) BY PlanAddonTyped DEF Yields
  <2> HIDE DEF G2, O2
  <2> QED BY ONLY <2>2, <2>3, AllVisited, Concatenated, Zenon
<1>3. Plan = O1 \o O2 BY DEF Plan
<1> HIDE DEF O1, O2, G1, G2
<1>4. Plan \in Seq(Op_) /\ ToSet(Plan) = ToSet(O1) \cup ToSet(O2)
  <2>1. O1 \in Seq(Op_) /\ O2 \in Seq(Op_) BY ONLY <1>1, <1>2
  <2>2. (O1 \o O2) \in Seq(Op_) /\ ToSet(O1 \o O2) = ToSet(O1) \cup ToSet(O2) BY ONLY <2>1, ConcatMembers, Zenon
  <2> QED BY ONLY <1>3, <2>2
<1>5. \A op : /\ op \in ToSet(O1) <=> \E a \in Addons : op \in ToSet(PlanAddon(a))
              /\ op \in ToSet(O2) <=> \E a \in Addons : op \in ToSet(PlanRestore(a))
  BY <1>1, <1>2 DEF Collected, G1, G2
<1> QED BY <1>4, <1>5

\* The operations planned for an add-on update it when it is declared, and
\* give back what is recorded of it when it is not.
LEMMA PlanOrigin ==
  ASSUME NEW b, NEW op
  PROVE  /\ op \in ToSet(PlanAddon(b)) => op.key = b /\ Declared(b) /\ op.kind \in {"error", "update"}
         /\ op \in ToSet(PlanRestore(b)) =>
              /\ op.key = b /\ ~Declared(b)
              /\ op.kind = "error" \/ (op.kind = "restore" /\ saved[b] # Unmanaged /\ op.params = saved[b].values)
<1>1. Error(b).key = b /\ Error(b).kind = "error" BY DEF Error, Op
<1>2. ASSUME op \in ToSet(PlanAddon(b)) PROVE op.key = b /\ Declared(b) /\ op.kind \in {"error", "update"}
  <2> DEFINE update == Op("update", b, Resolved(b), Refs(b), desired[b].restart)
  <2>1. update.key = b /\ update.kind = "update" BY DEF Op
  <2>2. Declared(b) BY <1>2, OfOne DEF PlanAddon
  <2>3. PlanAddon(b) = <<>> \/ PlanAddon(b) = <<Error(b)>> \/ PlanAddon(b) = <<update>> BY DEF PlanAddon
  <2> HIDE DEF update
  <2>4. op = Error(b) \/ op = update BY <1>2, <2>3, OfOne
  <2> QED BY <1>1, <2>1, <2>2, <2>4
<1>3. ASSUME op \in ToSet(PlanRestore(b))
      PROVE  /\ op.key = b /\ ~Declared(b)
             /\ op.kind = "error" \/ (op.kind = "restore" /\ saved[b] # Unmanaged /\ op.params = saved[b].values)
  <2> DEFINE restore == Op("restore", b, saved[b].values, {}, FALSE)
  <2>1. restore.key = b /\ restore.kind = "restore" /\ restore.params = saved[b].values BY DEF Op
  <2>2. ~Declared(b) /\ saved[b] # Unmanaged BY <1>3, OfOne DEF PlanRestore
  <2>3. PlanRestore(b) = <<>> \/ PlanRestore(b) = <<Error(b)>> \/ PlanRestore(b) = <<restore>> BY DEF PlanRestore
  <2> HIDE DEF restore
  <2>4. op = Error(b) \/ op = restore BY <1>3, <2>3, OfOne
  <2> QED BY <1>1, <2>1, <2>2, <2>4
<1> QED BY <1>2, <1>3

\* What an apply takes from a plan, and what it leaves of it.
LEMMA ExecutableMembers ==
  ASSUME NEW ops \in Seq(Op_)
  PROVE  /\ Executable(ops) \in Seq(Op_)
         /\ \A op : op \in ToSet(Executable(ops)) <=> op \in ToSet(ops) /\ op.kind # "error"
<1>1. ToSet(ops) \subseteq Op_ /\ \A i \in DOMAIN ops : ops[i] \in Op_ BY ElementsTyped
<1> DEFINE D == {op \in Op_ : op.kind # "error"}
<1>2. {i \in DOMAIN ops : ops[i].kind # "error"} = {i \in DOMAIN ops : ops[i] \in D} BY <1>1
<1>3. Executable(ops) = Select(ops, {i \in DOMAIN ops : ops[i] \in D}) BY <1>2 DEF Executable
<1>4. \A op : op \in D <=> op \in Op_ /\ op.kind # "error" OBVIOUS
<1> HIDE DEF D
<1>5. /\ Select(ops, {i \in DOMAIN ops : ops[i] \in D}) \in Seq(Op_)
      /\ ToSet(Select(ops, {i \in DOMAIN ops : ops[i] \in D})) = ToSet(ops) \cap D
  BY TakenOut, Zenon
<1>6. Executable(ops) \in Seq(Op_) /\ ToSet(Executable(ops)) = ToSet(ops) \cap D BY ONLY <1>3, <1>5, Zenon
<1> QED BY <1>1, <1>4, <1>6

LEMMA PendingMembers ==
  ASSUME TypeOK
  PROVE  /\ StillPending \in Seq(Op_)
         /\ \A op : op \in ToSet(StillPending) <=>
              /\ op \in ToSet(plan)
              /\ IF outcome = "ok" THEN op.kind = "error" ELSE ~\E e \in Landed : e.kind = op.kind /\ e.key = op.key
<1>0. plan \in Seq(Op_) BY DEF TypeOK
<1>1. ToSet(plan) \subseteq Op_ /\ \A i \in DOMAIN plan : plan[i] \in Op_ BY <1>0, ElementsTyped
<1> DEFINE D == {op \in Op_ : IF outcome = "ok" THEN op.kind = "error"
                              ELSE ~\E e \in Landed : e.kind = op.kind /\ e.key = op.key}
<1>2. StillPending = Select(plan, {i \in DOMAIN plan : plan[i] \in D})
  <2>1. {i \in DOMAIN plan : IF outcome = "ok" THEN plan[i].kind = "error"
                             ELSE ~\E e \in Landed : e.kind = plan[i].kind /\ e.key = plan[i].key}
          = {i \in DOMAIN plan : plan[i] \in D}
    BY <1>1
  <2> QED BY <2>1 DEF StillPending
<1>4. \A op : op \in D <=> op \in Op_ /\ IF outcome = "ok" THEN op.kind = "error"
                                         ELSE ~\E e \in Landed : e.kind = op.kind /\ e.key = op.key
  OBVIOUS
<1> HIDE DEF D
<1>5. /\ Select(plan, {i \in DOMAIN plan : plan[i] \in D}) \in Seq(Op_)
      /\ ToSet(Select(plan, {i \in DOMAIN plan : plan[i] \in D})) = ToSet(plan) \cap D
  BY <1>0, TakenOut, Zenon
<1>6. StillPending \in Seq(Op_) /\ ToSet(StillPending) = ToSet(plan) \cap D BY ONLY <1>2, <1>5, Zenon
<1> QED BY <1>1, <1>4, <1>6

LEMMA LeftMembers ==
  ASSUME TypeOK, NEW S
  PROVE  Left(S) \in Seq(Entry_) /\ ToSet(Left(S)) \subseteq ToSet(executed)
<1>1. executed \in Seq(Entry_) BY DEF TypeOK
<1>2. Left(S) \in Seq(Entry_) /\ ToSet(Left(S)) = {executed[i] : i \in S \cap DOMAIN executed}
  BY <1>1, SelectMembers DEF Left
<1> QED BY <1>2 DEF ToSet

-----------------------------------------------------------------------------
(* Types                                                                    *)

\* The parts of TypeOK, in the order of the steps that disturb them.
WorldTyped == desired \in Manifests /\ secret \in Values \cup {Missing} /\ live \in Installations
RecordTyped == saved \in [Addons -> Recordable \cup {Unmanaged}] /\ managed \in [Addons -> Recordable \cup {Unmanaged}]
OpsTyped ==
  /\ plan \in Seq(Op_) /\ todo \in Seq(Op_) /\ \A op \in ToSet(todo) : op.kind # "error"
  /\ IF InHand THEN todo # <<>> /\ step \in [current : Stored, merged : Stored] ELSE step = NoStep
ControlTyped ==
  /\ phase \in {"idle", "read", "post", "restart", "revert", "record", "undo", "save"} /\ mode \in {"apply", "rollback"}
  /\ outcome \in {"ok", "failed", "rolledBack", "unjournalled"} /\ stuck \in BOOLEAN
  /\ cur \in 1 .. 2 /\ pointer \in 0 .. 2 /\ savedPointer \in 0 .. 2
JournalsTyped ==
  /\ executed \in Seq(Entry_) /\ journals \in [1 .. 2 -> Seq(Entry_)]
  /\ pos \in 0 .. Len(executed) /\ kept \cup lost \subseteq DOMAIN executed

LEMMA TypeParts == TypeOK <=> WorldTyped /\ RecordTyped /\ OpsTyped /\ ControlTyped /\ JournalsTyped
BY DEF TypeOK, WorldTyped, RecordTyped, OpsTyped, ControlTyped, JournalsTyped

LEMMA EmptyTyped == \A W : <<>> \in Seq(W) /\ Len(<<>>) = 0 /\ DOMAIN <<>> = {} /\ ToSet(<<>>) = {}
BY DEF ToSet

LEMMA InitTyped == Init => TypeOK
<1> SUFFICES ASSUME Init PROVE TypeOK OBVIOUS
<1>1. WorldTyped BY AddonOptionsAssumption DEF AddonOptionsAssumption, Init, WorldTyped
<1>2. RecordTyped BY DEF Init, NothingManaged, RecordTyped
<1>3. OpsTyped BY EmptyTyped DEF Init, OpsTyped, InHand
<1>4. ControlTyped
  <2>1. {0, 1} \subseteq 0 .. 2 /\ 1 \in 1 .. 2 OBVIOUS
  <2>2. cur \in 1 .. 2 /\ pointer \in 0 .. 2 /\ savedPointer \in 0 .. 2 BY <2>1 DEF Init
  <2> QED BY <2>2 DEF Init, ControlTyped
<1>5. JournalsTyped BY EmptyTyped DEF Init, JournalsTyped
<1> QED BY <1>1, <1>2, <1>3, <1>4, <1>5, TypeParts

\* Whatever is written to an add-on, by a person or by the agent, is options.
LEMMA WorldStep == TypeOK /\ [Next]_vars => WorldTyped'
<1> SUFFICES ASSUME TypeOK, [Next]_vars PROVE WorldTyped' OBVIOUS
<1> USE DEF disk, working, history, bounds
<1>0. desired \in Manifests /\ secret \in Values \cup {Missing} /\ live \in Installations BY DEF TypeOK
<1>1. CASE \/ Crash \/ Reconcile \/ StartApply \/ ReadOptions \/ Record \/ ApplyDone \/ UndoDone \/ StartRollback
           \/ StateSave \/ UNCHANGED vars
  BY <1>0, <1>1 DEF Crash, Reconcile, StartApply, ReadOptions, Record, ApplyDone, UndoDone, StartRollback, StateSave,
                    vars, WorldTyped
<1>2. CASE Push BY <1>0, <1>2 DEF Push, WorldTyped
<1>3. CASE Edit
  <2> DEFINE blank == [k \in Options |-> Absent]
  <2>1. blank \in Stored BY DEF Stored
  <2> HIDE DEF blank
  <2>2. desired' = desired /\ secret' \in Values \cup {Missing} BY <1>0, <1>3 DEF Edit
  <2>3. \/ live' = live
        \/ \E a \in Addons, k \in Options, v \in Values \cup {Absent} :
             LET set == [live[a].set EXCEPT ![k] = v]
             IN \/ live' = [live EXCEPT ![a].set = set]
                \/ live' = [live EXCEPT ![a].set = set, ![a].running = Merged(a, set)]
        \/ \E a \in Addons :
             live' = [live EXCEPT ![a] = [installed |-> ~@.installed, set |-> blank, running |-> Merged(a, blank)]]
    BY <1>3 DEF Edit, blank
  <2>4. ASSUME NEW a \in Addons, NEW k \in Options, NEW v \in Values \cup {Absent}, NEW set,
               set = [live[a].set EXCEPT ![k] = v],
               \/ live' = [live EXCEPT ![a].set = set]
               \/ live' = [live EXCEPT ![a].set = set, ![a].running = Merged(a, set)]
        PROVE  live' \in Installations
    <3>1. live[a].set \in Stored BY CurrentTyped
    <3>2. set \in Stored BY <2>4, <3>1 DEF Stored
    <3>3. Merged(a, set) \in Stored BY <3>2, OptionsTyped
    <3> QED BY <1>0, <2>4, <3>2, <3>3, AddonTyped, Zenon
  <2>5. ASSUME NEW a \in Addons,
               live' = [live EXCEPT ![a] = [installed |-> ~@.installed, set |-> blank, running |-> Merged(a, blank)]]
        PROVE  live' \in Installations
    <3>1. Merged(a, blank) \in Stored BY <2>1, OptionsTyped
    <3> QED BY <1>0, <2>1, <2>5, <3>1 DEF Installations
  <2> QED BY <1>0, <2>2, <2>3, <2>4, <2>5 DEF WorldTyped
<1>4. CASE PostOptions \/ Restart \/ Revert
  <2>1. InHand BY <1>4 DEF PostOptions, Restart, Revert, InHand
  <2>2. PICK op : op = Head(todo) OBVIOUS
  <2>3. /\ op.key \in Addons /\ op.params \in Params /\ step.current \in Stored /\ step.merged \in Stored
    BY <2>1, <2>2, HandTyped, InHandTodo
  <2>4. desired' = desired /\ secret' = secret BY <1>4 DEF PostOptions, Restart, Revert
  <2>5. CASE PostOptions
    <3>1. live' = live \/ live' = [live EXCEPT ![op.key].set = step.merged] BY <2>2, <2>5 DEF PostOptions
    <3>2. live' \in Installations BY <1>0, <2>3, <3>1, AddonTyped, Zenon
    <3> QED BY <1>0, <2>4, <3>2 DEF WorldTyped
  <2>6. CASE Restart
    <3>1. live' = live \/ live' = [live EXCEPT ![op.key].running = Current(op.key)] BY <2>2, <2>6 DEF Restart
    <3>2. Current(op.key) \in Stored BY <2>3, CurrentTyped
    <3>3. live' \in Installations BY <1>0, <2>3, <3>1, <3>2, AddonTyped, Zenon
    <3> QED BY <1>0, <2>4, <3>3 DEF WorldTyped
  <2>7. CASE Revert
    <3>1. PICK set : set = Overlay(step.merged, Prior(step.current, op.params)) OBVIOUS
    <3>2. \/ live' = live
          \/ live' = [live EXCEPT ![op.key].set = set]
          \/ live' = [live EXCEPT ![op.key].set = set, ![op.key].running = Merged(op.key, set)]
      BY <2>2, <2>7, <3>1 DEF Revert
    <3>3. set \in Stored /\ Merged(op.key, set) \in Stored BY <2>3, <3>1, OptionsTyped
    <3>4. live' \in Installations BY <1>0, <2>3, <3>2, <3>3, AddonTyped, Zenon
    <3> QED BY <1>0, <2>4, <3>4 DEF WorldTyped
  <2> QED BY <1>4, <2>5, <2>6, <2>7
<1>5. CASE UndoOne
  <2>1. PICK e : e = executed[pos] OBVIOUS
  <2>2. e \in Entry_ /\ e.key \in Addons
    <3>1. executed \in Seq(Entry_) /\ pos \in 1 .. Len(executed) BY <1>5 DEF UndoOne, TypeOK
    <3>2. executed[pos] \in Entry_ BY <3>1
    <3> QED BY <2>1, <3>2 DEF Entry_
  <2>3. desired' = desired /\ secret' = secret BY <1>5 DEF UndoOne
  <2>4. \/ live' = live
        \/ \E known \in BOOLEAN : \E set :
             /\ set = Overlay(PersistedOnly(e.key, Current(e.key), known), Given(e))
             /\ \/ live' = [live EXCEPT ![e.key].set = set]
                \/ live' = [live EXCEPT ![e.key].set = set, ![e.key].running = Merged(e.key, set)]
    BY <1>5, <2>1 DEF UndoOne
  <2>5. ASSUME NEW known \in BOOLEAN, NEW set, set = Overlay(PersistedOnly(e.key, Current(e.key), known), Given(e))
        PROVE  set \in Stored /\ Merged(e.key, set) \in Stored
    <3>1. Current(e.key) \in Stored /\ Given(e) \in Params BY <2>2, CurrentTyped, GivenTyped
    <3>2. PersistedOnly(e.key, Current(e.key), known) \in Stored BY <2>2, <3>1, OptionsTyped
    <3> QED BY <2>2, <2>5, <3>1, <3>2, OptionsTyped
  <2>6. live' \in Installations BY <1>0, <2>2, <2>4, <2>5, AddonTyped, Zenon
  <2> QED BY <1>0, <2>3, <2>6 DEF WorldTyped
<1> QED BY <1>1, <1>2, <1>3, <1>4, <1>5 DEF Next

\* What is recorded of an add-on is options, and whether to restart it.
LEMMA RecordTypedStep == TypeOK /\ [Next]_vars => RecordTyped'
<1> SUFFICES ASSUME TypeOK, [Next]_vars PROVE RecordTyped' OBVIOUS
<1> USE DEF disk, working, history, bounds
<1>0. saved \in [Addons -> Recordable \cup {Unmanaged}] /\ managed \in [Addons -> Recordable \cup {Unmanaged}]
  BY DEF TypeOK
<1>9. NothingManaged \in [Addons -> Recordable \cup {Unmanaged}] BY DEF NothingManaged
<1>1. CASE \/ Push \/ Edit \/ Reconcile \/ ReadOptions \/ PostOptions \/ Restart \/ Revert \/ ApplyDone \/ UndoDone
           \/ UNCHANGED vars
  BY <1>0, <1>1, Zenon DEF Push, Edit, Reconcile, ReadOptions, PostOptions, Restart, Revert, ApplyDone, UndoDone, vars, RecordTyped
<1>2. CASE Crash \/ StartApply \/ StartRollback \/ StateSave
  BY <1>0, <1>2, <1>9 DEF Crash, Clear, StartApply, StartRollback, StateSave, RecordTyped
<1>3. CASE Record
  <2>1. PICK op : op = Head(todo) OBVIOUS
  <2>2. InHand BY <1>3 DEF Record, InHand
  <2>3. Recorded(op) \in Recordable \cup {Unmanaged} /\ op.key \in Addons
    BY <2>1, <2>2, LandedTyped, HandTyped, InHandTodo
  <2>4. managed' = [managed EXCEPT ![op.key] = Recorded(op)] /\ saved' = saved BY <1>3, <2>1 DEF Record
  <2> QED BY <1>0, <2>3, <2>4 DEF RecordTyped
<1>4. CASE UndoOne
  <2>1. PICK e : e = executed[pos] OBVIOUS
  <2>2. e \in Entry_
    <3>1. executed \in Seq(Entry_) /\ pos \in 1 .. Len(executed) BY <1>4 DEF UndoOne, TypeOK
    <3> QED BY <2>1, <3>1
  <2>3. saved' = saved /\ (managed' = managed \/ managed' = [managed EXCEPT ![e.key] = e.snapshot])
    BY <1>4, <2>1 DEF UndoOne
  <2> QED BY <1>0, <2>2, <2>3 DEF RecordTyped, Entry_
<1> QED BY <1>1, <1>2, <1>3, <1>4 DEF Next

\* Operations are taken from the plan, the errors left out of it.
LEMMA OpsStep == TypeOK /\ [Next]_vars => OpsTyped'
<1> SUFFICES ASSUME TypeOK, [Next]_vars PROVE OpsTyped' OBVIOUS
<1> USE DEF disk, working, history, bounds
<1>0. /\ plan \in Seq(Op_) /\ todo \in Seq(Op_) /\ \A op \in ToSet(todo) : op.kind # "error"
      /\ InHand => todo # <<>> /\ step \in [current : Stored, merged : Stored]
      /\ ~InHand => step = NoStep
  BY DEF TypeOK
<1>1. CASE Push \/ Edit \/ UNCHANGED vars BY <1>0, <1>1 DEF Push, Edit, vars, OpsTyped, InHand
<1>2. CASE Crash
  <2>1. plan' = <<>> /\ todo' = <<>> /\ step' = NoStep /\ phase' = "idle" BY <1>2 DEF Crash, Clear
  <2> QED BY <2>1, EmptyTyped DEF OpsTyped, InHand
<1>3. CASE Reconcile
  <2>1. UNCHANGED <<todo, step, phase>> /\ (plan' = <<>> \/ (Loaded /\ plan' = Plan)) BY <1>3 DEF Reconcile
  <2>2. plan' \in Seq(Op_) BY <2>1, EmptyTyped, PlanMembers DEF PlanContext
  <2> QED BY <1>0, <2>1, <2>2 DEF OpsTyped, InHand
<1>4. CASE StartApply
  <2>1. /\ plan' = plan /\ todo' = Executable(plan) /\ step' = NoStep /\ phase' \in {"read", "save"}
    BY <1>4 DEF StartApply
  <2>2. Executable(plan) \in Seq(Op_) /\ \A op \in ToSet(Executable(plan)) : op.kind # "error"
    BY <1>0, ExecutableMembers
  <2> QED BY <1>0, <2>1, <2>2 DEF OpsTyped, InHand
<1>5. CASE ReadOptions
  <2>1. PICK op : op = Head(todo) OBVIOUS
  <2>2. plan' = plan /\ todo' = todo /\ todo # <<>> /\ phase = "read" BY <1>5 DEF ReadOptions
  <2>3. CASE phase' = "undo"
    <3>1. step' = step BY <1>5, <2>3 DEF ReadOptions
    <3> QED BY <1>0, <2>2, <2>3, <3>1 DEF OpsTyped, InHand
  <2>4. CASE phase' # "undo"
    <3>1. PICK known \in BOOLEAN :
            step' = [current |-> Current(op.key), merged |-> Overlay(PersistedOnly(op.key, Current(op.key), known), op.params)]
      BY <1>5, <2>1, <2>4 DEF ReadOptions, Fail
    <3>2. op.key \in Addons /\ op.params \in Params BY <2>1, <2>2, HandTyped
    <3>3. Current(op.key) \in Stored BY <3>2, CurrentTyped
    <3>4. PersistedOnly(op.key, Current(op.key), known) \in Stored BY <3>2, <3>3, OptionsTyped
    <3>5. Overlay(PersistedOnly(op.key, Current(op.key), known), op.params) \in Stored BY <3>2, <3>4, OptionsTyped
    <3>6. step' \in [current : Stored, merged : Stored] BY <3>1, <3>3, <3>5
    <3>7. phase' = "post" BY <1>5, <2>4 DEF ReadOptions, Fail
    <3> QED BY <1>0, <2>2, <3>6, <3>7 DEF OpsTyped, InHand
  <2> QED BY <2>3, <2>4
<1>6. CASE PostOptions \/ Restart \/ Revert
  <2>1. /\ plan' = plan /\ todo' = todo /\ InHand
        /\ (phase' \in {"restart", "revert", "record"} /\ step' = step) \/ (phase' = "undo" /\ step' = NoStep)
    BY <1>6 DEF PostOptions, Restart, Revert, Fail, InHand
  <2> QED BY <1>0, <2>1 DEF OpsTyped, InHand
<1>7. CASE Record
  <2>1. /\ plan' = plan /\ step' = NoStep /\ phase' \in {"undo", "read", "save"} /\ (todo' = todo \/ todo' = Tail(todo))
        /\ InHand
    BY <1>7 DEF Record, InHand
  <2>2. Tail(todo) \in Seq(Op_) /\ ToSet(Tail(todo)) \subseteq ToSet(todo) BY <1>0, <2>1, ElementsTyped
  <2> QED BY <1>0, <2>1, <2>2 DEF OpsTyped, InHand
<1>8. CASE ApplyDone \/ UndoOne \/ UndoDone
  <2>1. UNCHANGED <<plan, todo, step>> /\ ~InHand /\ ~InHand' BY <1>8 DEF ApplyDone, UndoOne, UndoDone, InHand
  <2> QED BY <1>0, <2>1 DEF OpsTyped
<1>9. CASE StartRollback
  <2>1. plan' = plan /\ todo' = <<>> /\ step' = NoStep /\ phase' \in {"undo", "save"} BY <1>9 DEF StartRollback
  <2> QED BY <1>0, <2>1, EmptyTyped DEF OpsTyped, InHand
<1>10. CASE StateSave
  <2>1. (plan' = plan \/ plan' = StillPending) /\ todo' = <<>> /\ step' = NoStep /\ phase' = "idle"
    BY <1>10 DEF StateSave, Clear
  <2> QED BY <1>0, <2>1, EmptyTyped, PendingMembers DEF OpsTyped, InHand
<1> QED BY <1>1, <1>2, <1>3, <1>4, <1>5, <1>6, <1>7, <1>8, <1>9, <1>10 DEF Next

LEMMA ControlStep == TypeOK /\ [Next]_vars => ControlTyped'
<1> SUFFICES ASSUME TypeOK, [Next]_vars PROVE ControlTyped' OBVIOUS
<1> USE DEF disk, working, history, bounds
<1>0. ControlTyped BY TypeParts
<1>1. CASE Push \/ Edit \/ Reconcile \/ UNCHANGED vars
  BY <1>0, <1>1 DEF Push, Edit, Reconcile, vars, ControlTyped
<1>2. CASE Crash \/ StateSave
  <2>1. 0 \in 0 .. 2 /\ 1 \in 1 .. 2 /\ cur \in 0 .. 2 BY <1>0 DEF ControlTyped
  <2>2. cur' \in 1 .. 2 /\ pointer' \in 0 .. 2 /\ savedPointer' \in 0 .. 2
    BY <1>0, <1>2, <2>1 DEF Crash, StateSave, Clear, ControlTyped
  <2> QED BY <1>0, <1>2, <2>2 DEF Crash, StateSave, Clear, ControlTyped
<1>3. CASE StartApply \/ StartRollback
  <2>1. {1, 2} \subseteq 1 .. 2 /\ \A p \in 0 .. 2 : p # 0 => p \in 1 .. 2 OBVIOUS
  <2>2. cur' \in 1 .. 2 /\ pointer' = pointer /\ savedPointer' = savedPointer
    BY <1>0, <1>3, <2>1 DEF StartApply, StartRollback, ControlTyped
  <2> QED BY <1>0, <1>3, <2>2 DEF StartApply, StartRollback, ControlTyped
<1>4. CASE ReadOptions \/ PostOptions \/ Restart \/ Revert
  BY <1>0, <1>4 DEF ReadOptions, PostOptions, Restart, Revert, Fail, ControlTyped
<1>5. CASE Record \/ ApplyDone \/ UndoOne \/ UndoDone
  BY <1>0, <1>5 DEF Record, ApplyDone, UndoOne, UndoDone, ControlTyped
<1> QED BY <1>1, <1>2, <1>3, <1>4, <1>5 DEF Next

\* Journals hold entries; the positions noted of them are theirs.
LEMMA JournalsStep == TypeOK /\ [Next]_vars => JournalsTyped'
<1> SUFFICES ASSUME TypeOK, [Next]_vars PROVE JournalsTyped' OBVIOUS
<1> USE DEF disk, working, history, bounds
<1>0. /\ executed \in Seq(Entry_) /\ journals \in [1 .. 2 -> Seq(Entry_)] /\ cur \in 1 .. 2 /\ pointer \in 0 .. 2
      /\ pos \in 0 .. Len(executed) /\ kept \subseteq DOMAIN executed /\ lost \subseteq DOMAIN executed
  BY DEF TypeOK
<1>20. Len(executed) \in Nat /\ DOMAIN executed = 1 .. Len(executed) BY <1>0
<1>1. CASE Push \/ Edit \/ Reconcile \/ Restart \/ ApplyDone \/ UNCHANGED vars
  BY <1>0, <1>1 DEF Push, Edit, Reconcile, Restart, ApplyDone, vars, JournalsTyped
<1>2. CASE Crash \/ StateSave
  <2>1. executed' = <<>> /\ journals' = journals /\ pos' = 0 /\ kept' = {} /\ lost' = {}
    BY <1>2 DEF Crash, StateSave, Clear
  <2>2. executed' \in Seq(Entry_) /\ Len(executed') = 0 BY <2>1, EmptyTyped
  <2>3. pos' \in 0 .. Len(executed') BY <2>1, <2>2
  <2> QED BY <1>0, <2>1, <2>2, <2>3 DEF JournalsTyped
<1>3. CASE StartApply
  <2>1. /\ journals' = [journals EXCEPT ![cur'] = <<>>] /\ executed' = <<>> /\ pos' = 0 /\ kept' = {} /\ lost' = {}
    BY <1>3 DEF StartApply
  <2>2. executed' \in Seq(Entry_) /\ Len(executed') = 0 BY <2>1, EmptyTyped
  <2>3. pos' \in 0 .. Len(executed') BY <2>1, <2>2
  <2>4. journals' \in [1 .. 2 -> Seq(Entry_)] BY <1>0, <2>1, EmptyTyped
  <2> QED BY <2>1, <2>2, <2>3, <2>4 DEF JournalsTyped
<1>4. CASE ReadOptions \/ PostOptions \/ Revert
  <2>1. /\ executed' = executed /\ journals' = journals
        /\ \/ pos' = pos /\ kept' = kept /\ lost' = lost
           \/ pos' = Len(executed) /\ kept' = {} /\ lost' = {}
    BY <1>4 DEF ReadOptions, PostOptions, Revert, Fail
  <2> QED BY <1>0, <1>20, <2>1 DEF JournalsTyped
<1>5. CASE Record
  <2>1. PICK e : e = Entry(Head(todo)) OBVIOUS
  <2>2. InHand BY <1>5 DEF Record, InHand
  <2>3. e \in Entry_ BY <2>1, <2>2, LandedTyped
  <2>4. /\ executed' = Append(executed, e)
        /\ \/ pos' = pos /\ kept' = kept /\ lost' = lost
           \/ pos' = Len(executed) /\ kept' = {} /\ lost' = {}
        /\ \/ journals' = journals
           \/ journals' = [journals EXCEPT ![cur] = executed']
    BY <1>5, <2>1 DEF Record
  <2>5. executed' \in Seq(Entry_) /\ Len(executed') = Len(executed) + 1 /\ DOMAIN executed' = 1 .. Len(executed')
    BY <1>0, <2>3, <2>4
  <2>6. journals' \in [1 .. 2 -> Seq(Entry_)] BY <1>0, <2>4, <2>5
  <2>7. pos' \in 0 .. Len(executed') /\ kept' \subseteq DOMAIN executed' /\ lost' \subseteq DOMAIN executed'
    <3>1. DOMAIN executed \subseteq DOMAIN executed' BY <1>20, <2>5
    <3>2. pos' \in 0 .. Len(executed) BY <1>0, <1>20, <2>4
    <3> QED BY <1>0, <1>20, <2>4, <2>5, <3>1, <3>2
  <2> QED BY <2>5, <2>6, <2>7 DEF JournalsTyped
<1>6. CASE UndoOne
  <2>1. /\ executed' = executed /\ pos > 0 /\ pos' = pos - 1
        /\ \/ journals' = journals
           \/ \E S : journals' = [journals EXCEPT ![cur] = Left(S)]
    BY <1>6 DEF UndoOne
  <2>2. \A S : Left(S) \in Seq(Entry_) BY LeftMembers
  <2>3. kept' = kept \/ kept' = kept \cup {pos} BY <1>6 DEF UndoOne
  <2>4. lost' = lost \/ lost' = lost \cup {pos} BY <1>6 DEF UndoOne
  <2>5. pos \in DOMAIN executed BY <1>0, <1>20, <2>1
  <2>6. journals' \in [1 .. 2 -> Seq(Entry_)] BY <1>0, <2>1, <2>2
  <2>7. pos' \in 0 .. Len(executed') BY <1>0, <1>20, <2>1
  <2> QED BY <1>0, <2>1, <2>3, <2>4, <2>5, <2>6, <2>7 DEF JournalsTyped
<1>7. CASE UndoDone
  <2>1. /\ UNCHANGED <<executed, pos, kept, lost>>
        /\ \/ journals' = journals
           \/ \E S : journals' = [journals EXCEPT ![cur] = Left(S)]
    BY <1>7 DEF UndoDone, NotUndone
  <2>2. \A S : Left(S) \in Seq(Entry_) BY LeftMembers
  <2> QED BY <1>0, <2>1, <2>2 DEF JournalsTyped
<1>8. CASE StartRollback
  <2>1. /\ executed' = journals[pointer] /\ journals' = journals /\ pos' \in {0, Len(executed')} /\ kept' = {} /\ lost' = {}
        /\ pointer # 0
    BY <1>8 DEF StartRollback
  <2>2. executed' \in Seq(Entry_) BY <1>0, <2>1
  <2>3. Len(executed') \in Nat BY <2>2
  <2> QED BY <1>0, <2>1, <2>2, <2>3 DEF JournalsTyped
<1> QED BY <1>1, <1>2, <1>3, <1>4, <1>5, <1>6, <1>7, <1>8 DEF Next

\* TypeOK: what is planned, written to an add-on, recorded of it and journalled
\* is options of it, never a reference in place of a value, whatever the
\* manifest declares; and the agent never plans to write to itself
\* (addonopts/plan.go, regapply/addonopts.go).
THEOREM TypeCorrect == Spec => []TypeOK
<1>1. TypeOK /\ [Next]_vars => TypeOK'
  <2> SUFFICES ASSUME TypeOK, [Next]_vars PROVE TypeOK' OBVIOUS
  <2>1. WorldTyped' /\ RecordTyped' /\ OpsTyped' /\ ControlTyped' /\ JournalsTyped'
    BY WorldStep, RecordTypedStep, OpsStep, ControlStep, JournalsStep
  <2> QED BY <2>1 DEF TypeOK, WorldTyped, RecordTyped, OpsTyped, ControlTyped, JournalsTyped, InHand
<1> QED BY <1>1, InitTyped, PTL DEF Spec

-----------------------------------------------------------------------------
(* Running with what is declared                                            *)

\* Add-ons whose declared options are to be run with.
Runnable(a) ==
  Declared(a) /\ a # Self /\ live[a].installed /\ desired[a].restart /\ (secret = Missing => Refs(a) = {})
HasDeclared(a) == \A k \in Named(Resolved(a)) : Current(a)[k] = Resolved(a)[k]
Asks(op, a) == op.kind = "update" /\ op.key = a /\ op.params = Resolved(a) /\ op.restart

\* Of each add-on to be run with what is declared: the operations are its own,
\* and it has what is declared unless one of them sets it.
Provides(ops, a) ==
  /\ \A op \in ops : op.key = a /\ op.kind # "error" => Asks(op, a)
  /\ a \in astray \/ HasDeclared(a) \/ \E op \in ops : Asks(op, a)

\* What is to be posted holds the options of the operation; once they are
\* posted they are reported, unless somebody else came in between.
MergedOK == InHand => \A k \in Named(Head(todo).params) : step.merged[k] = Head(todo).params[k]
IsPosted(op) ==
  \A k \in Named(op.params) :
    Current(op.key)[k] = IF op.params[k] = Absent THEN Defaults[op.key][k] ELSE op.params[k]
PostedOK ==
  phase \in {"restart", "revert", "record"} /\ ~raced => Head(todo).key \in astray \/ IsPosted(Head(todo))

\* An add-on that runs without its options is known to, or about to restart.
BehindOK ==
  \A a \in Behind \ (lag \cup astray) : phase \in {"restart", "revert"} /\ a = Head(todo).key

CalmOK ==
  phase # "idle" =>
    /\ calm => ~raced /\ mode = "apply"
    /\ phase = "save" /\ outcome = "ok" => todo = <<>> /\ mode = "apply"
LoadedOK == calm => Loaded
PlanProvides == phase = "idle" /\ calm /\ plan # <<>> => \A a \in Addons : Runnable(a) => Provides(ToSet(plan), a)
TodoProvides ==
  phase \notin {"idle", "undo"} /\ calm /\ outcome = "ok" =>
    \A a \in Addons : Runnable(a) => Provides(ToSet(todo), a)
SettledRuns ==
  settled => phase = "idle" /\ \A a \in Addons \ (astray \cup lag \cup {Self}) : RunsDeclared(a)

RunInv == MergedOK /\ PostedOK /\ BehindOK /\ CalmOK /\ LoadedOK /\ PlanProvides /\ TodoProvides /\ SettledRuns

\* What is declared is so until a commit, or a rotated secret.
LEMMA DeclaredStill ==
  ASSUME desired' = desired, secret' = secret
  PROVE  /\ \A a : (Declared(a)' <=> Declared(a)) /\ Refs(a)' = Refs(a) /\ Resolved(a)' = Resolved(a)
         /\ \A a, op : Asks(op, a)' <=> Asks(op, a)
BY DEF Declared, Refs, Resolved, Asks

LEMMA LiveStill ==
  ASSUME live' = live
  PROVE  (\A a : Current(a)' = Current(a)) /\ Behind' = Behind /\ \A op : IsPosted(op)' <=> IsPosted(op)
BY DEF Current, Merged, Behind, IsPosted

LEMMA WorldStill ==
  ASSUME desired' = desired, secret' = secret, live' = live
  PROVE  \A a : (Runnable(a)' <=> Runnable(a)) /\ (HasDeclared(a)' <=> HasDeclared(a)) /\ (RunsDeclared(a)' <=> RunsDeclared(a))
BY DeclaredStill, LiveStill DEF Runnable, HasDeclared, RunsDeclared

\* So an add-on that is provided for still is, when the agent does nothing to it.
LEMMA ProvidedStill ==
  ASSUME desired' = desired, secret' = secret, live' = live, astray' = astray, NEW ops, NEW a
  PROVE  Provides(ops, a) => Provides(ops, a)'
BY DeclaredStill, WorldStill DEF Provides

RunContext == TypeOK /\ UndoInv /\ RunInv

\* What posting does to the add-ons; to the operation's own, when nobody else
\* changed it, nothing but set the options of the operation.
LEMMA PostedFacts ==
  ASSUME RunContext, PostOptions, phase' # "undo", NEW op, op = Head(todo)
  PROVE  /\ InHand /\ op.key \in Addons \ {Self} /\ op.params \in Params
         /\ live' = live \/ live' = [live EXCEPT ![op.key].set = step.merged]
         /\ \A b \in Addons : /\ live'[b].installed = live[b].installed /\ live'[b].running = live[b].running
                              /\ b # op.key => Current(b)' = Current(b)
         /\ ~raced => /\ \A k \in Options : op.params[k] = Keep => Current(op.key)'[k] = Current(op.key)[k]
                      /\ \A k \in Options : Current(op.key)[k] = step.current[k]
                      /\ IsPosted(op)'
<1> USE DEF disk, working, history, bounds
<1> DEFINE a == op.key
<1>1. /\ phase = "post" /\ InHand /\ todo' = todo /\ raced' = raced
      /\ live' = IF step.merged = step.current THEN live ELSE [live EXCEPT ![a].set = step.merged]
  BY DEF PostOptions, Fail, InHand
<1>2. /\ a \in Addons \ {Self} /\ op.params \in Params /\ step.current \in Stored /\ step.merged \in Stored
  BY <1>1, HandTyped, InHandTodo DEF RunContext
<1>3. live \in [Addons -> [installed : BOOLEAN, set : Stored, running : Stored]]
  BY DEF RunContext, TypeOK, Installations
<1>4. \A b \in Addons : /\ live'[b].installed = live[b].installed /\ live'[b].running = live[b].running
                        /\ b # a => live'[b].set = live[b].set
  <2>1. CASE live' = live BY <2>1
  <2>2. CASE live' = [live EXCEPT ![a].set = step.merged]
    <3> HIDE DEF a
    <3> QED BY <2>2, <1>3
  <2> QED BY <1>1, <2>1, <2>2
<1>5. \A b \in Addons : b # a => Current(b)' = Current(b) BY <1>4 DEF Current
<1>6. ASSUME ~raced
      PROVE  /\ \A k \in Options : op.params[k] = Keep => Current(a)'[k] = Current(a)[k]
             /\ \A k \in Options : Current(a)[k] = step.current[k]
             /\ IsPosted(op)'
  <2>1. /\ Reported(a, step.current)
        /\ \A k \in Options : op.params[k] = Keep => Merged(a, step.merged)[k] = step.current[k]
        /\ \A k \in Options : Current(a)[k] = step.current[k]
    BY <1>1, <1>2, <1>6 DEF RunContext, UndoInv, StepOK
  <2>2. \A k \in Named(op.params) : step.merged[k] = op.params[k] BY <1>1 DEF RunContext, RunInv, MergedOK
  <2>3. \A k \in Options : Merged(a, step.merged)[k] = IF step.merged[k] = Absent THEN Defaults[a][k] ELSE step.merged[k]
    BY DEF Merged
  <2>4. CASE step.merged = step.current
    <3>1. live' = live BY <1>1, <2>4
    <3>2. Current(a)' = Current(a) BY <3>1, LiveStill
    <3>3. \A k \in Named(op.params) : Current(a)[k] = IF op.params[k] = Absent THEN Defaults[a][k] ELSE op.params[k]
      BY <2>1, <2>2, <2>4 DEF Reported, Named
    <3>4. IsPosted(op) BY <3>3 DEF IsPosted
    <3>5. IsPosted(op)' BY <3>1, <3>4, LiveStill
    <3> QED BY <2>1, <3>2, <3>5
  <2>5. CASE step.merged # step.current
    <3>1. live'[a].set = step.merged
      <4> HIDE DEF a
      <4> QED BY <1>1, <1>2, <1>3, <2>5
    <3>2. Current(a)' = Merged(a, step.merged) BY <3>1 DEF Current
    <3>3. \A k \in Named(op.params) : Current(a)'[k] = IF op.params[k] = Absent THEN Defaults[a][k] ELSE op.params[k]
      BY <2>2, <2>3, <3>2 DEF Named
    <3>4. IsPosted(op)' BY <3>3 DEF IsPosted
    <3> QED BY <2>1, <3>2, <3>4
  <2> QED BY <2>4, <2>5
<1> QED BY <1>1, <1>2, <1>4, <1>5, <1>6

\* What is to be posted holds the options of the operation.
LEMMA MergedStep == RunContext /\ [Next]_vars => MergedOK'
<1> SUFFICES ASSUME RunContext, [Next]_vars PROVE MergedOK' OBVIOUS
<1> USE DEF disk, working, history, bounds
<1>1. CASE Push \/ Edit \/ Reconcile \/ Restart \/ UNCHANGED vars
  <2>1. UNCHANGED <<todo, step>> /\ (InHand' => InHand)
    BY <1>1 DEF Push, Edit, Reconcile, Restart, vars, InHand
  <2> QED BY <2>1 DEF RunContext, RunInv, MergedOK
<1>2. CASE Crash \/ StartApply \/ Record \/ ApplyDone \/ UndoOne \/ UndoDone \/ StartRollback \/ StateSave
  <2>1. ~InHand'
    BY <1>2 DEF Crash, StartApply, Record, ApplyDone, UndoOne, UndoDone, StartRollback, StateSave, InHand
  <2> QED BY <2>1 DEF MergedOK
<1>3. CASE PostOptions \/ Revert
  <2>1. InHand /\ todo' = todo /\ (step' = step \/ phase' = "undo") BY <1>3 DEF PostOptions, Revert, Fail, InHand
  <2> QED BY <2>1 DEF RunContext, RunInv, MergedOK, InHand
<1>4. CASE ReadOptions
  <2>1. CASE phase' = "undo" BY <2>1 DEF MergedOK, InHand
  <2>2. CASE phase' # "undo"
    <3>1. PICK op : op = Head(todo) OBVIOUS
    <3>2. todo' = todo BY <1>4 DEF ReadOptions
    <3>3. PICK known \in BOOLEAN :
            step' = [current |-> Current(op.key), merged |-> Overlay(PersistedOnly(op.key, Current(op.key), known), op.params)]
      BY <1>4, <2>2, <3>1 DEF ReadOptions, Fail
    <3>4. step'.merged = Overlay(PersistedOnly(op.key, Current(op.key), known), op.params) BY <3>3
    <3>5. \A k \in Named(op.params) : step'.merged[k] = op.params[k] BY <3>4 DEF Overlay, Named
    <3> QED BY <3>1, <3>2, <3>5 DEF MergedOK
  <2> QED BY <2>1, <2>2
<1> QED BY <1>1, <1>2, <1>3, <1>4 DEF Next

\* Once they are posted they are reported.
LEMMA PostedStep == RunContext /\ [Next]_vars => PostedOK'
<1> SUFFICES ASSUME RunContext, [Next]_vars PROVE PostedOK' OBVIOUS
<1> USE DEF disk, working, history, bounds
<1>0. PICK op : op = Head(todo) OBVIOUS
<1>1. CASE Push \/ Reconcile \/ UNCHANGED vars
  <2>1. UNCHANGED <<todo, live, phase, raced, astray>> BY <1>1 DEF Push, Reconcile, vars
  <2>2. \A o : IsPosted(o)' <=> IsPosted(o) BY <2>1, LiveStill
  <2> QED BY <2>1, <2>2 DEF RunContext, RunInv, PostedOK
<1>2. CASE Edit BY <1>2 DEF Edit, PostedOK
<1>3. CASE Crash \/ StartApply \/ ReadOptions \/ Record \/ ApplyDone \/ UndoOne \/ UndoDone \/ StartRollback \/ StateSave
  <2>1. phase' \notin {"restart", "revert", "record"}
    BY <1>3 DEF Crash, StartApply, ReadOptions, Fail, Record, ApplyDone, UndoOne, UndoDone, StartRollback, StateSave
  <2> QED BY <2>1 DEF PostedOK
<1>4. CASE PostOptions
  <2>1. CASE phase' = "undo" BY <2>1 DEF PostedOK
  <2>2. CASE phase' # "undo"
    <3>1. todo' = todo /\ raced' = raced BY <1>4 DEF PostOptions
    <3>2. ~raced => IsPosted(op)' BY <1>0, <1>4, <2>2, PostedFacts
    <3> QED BY <1>0, <3>1, <3>2 DEF PostedOK
  <2> QED BY <2>1, <2>2
<1>5. CASE Restart
  <2>1. phase = "restart" /\ UNCHANGED <<todo, raced, astray>>
        /\ (live' = live \/ live' = [live EXCEPT ![op.key].running = Current(op.key)])
    BY <1>0, <1>5 DEF Restart
  <2>2. op.key \in Addons BY <1>0, <2>1, HandTyped, InHandTodo DEF RunContext, InHand
  <2>3. live \in [Addons -> [installed : BOOLEAN, set : Stored, running : Stored]]
    BY DEF RunContext, TypeOK, Installations
  <2>4. live'[op.key].set = live[op.key].set BY <2>1, <2>2, <2>3
  <2>5. Current(op.key)' = Current(op.key) BY <2>4 DEF Current
  <2>6. IsPosted(op)' <=> IsPosted(op) BY <2>5 DEF IsPosted
  <2> QED BY <1>0, <2>1, <2>6 DEF RunContext, RunInv, PostedOK
<1>6. CASE Revert
  <2>1. CASE phase' = "undo" BY <2>1 DEF PostedOK
  <2>2. CASE phase' # "undo"
    <3>1. /\ phase = "revert" /\ UNCHANGED <<todo, raced>>
          /\ UNCHANGED <<live, astray>> \/ Head(todo).key \in astray'
      BY <1>6, <2>2 DEF Revert, Fail
    <3>2. CASE UNCHANGED <<live, astray>>
      <4>1. \A o : IsPosted(o)' <=> IsPosted(o) BY <3>2, LiveStill
      <4> QED BY <3>1, <3>2, <4>1 DEF RunContext, RunInv, PostedOK
    <3>3. CASE Head(todo).key \in astray' BY <3>1, <3>3 DEF PostedOK
    <3> QED BY <3>1, <3>2, <3>3
  <2> QED BY <2>1, <2>2
<1> QED BY <1>1, <1>2, <1>3, <1>4, <1>5, <1>6 DEF Next

\* A write that is not followed by a restart changes nothing, or is not to be
\* followed by one.
LEMMA PostBehind ==
  ASSUME RunContext, PostOptions
  PROVE  BehindOK'
<1> USE DEF disk, working, history, bounds
<1>0. PICK op : op = Head(todo) OBVIOUS
<1>1. phase = "post" /\ todo' = todo /\ InHand BY DEF PostOptions, InHand
<1>2. \A a \in Behind : a \in lag \cup astray BY <1>1 DEF RunContext, RunInv, BehindOK
<1>3. CASE phase' = "undo"
  <2>1. lag' = lag BY <1>3 DEF PostOptions
  <2>2. CASE live' = live
    <3>1. astray \subseteq astray' BY <1>3, <2>2 DEF PostOptions
    <3>2. Behind' = Behind BY <2>2, LiveStill
    <3> QED BY <1>2, <2>1, <3>1, <3>2 DEF BehindOK
  <2>3. CASE live' # live
    <3>1. live' = [live EXCEPT ![op.key].set = step.merged] /\ astray' = astray \cup {op.key}
      BY <1>0, <1>3, <2>3 DEF PostOptions
    <3>2. live \in [Addons -> [installed : BOOLEAN, set : Stored, running : Stored]]
      BY DEF RunContext, TypeOK, Installations
    <3>3. \A b \in Addons : b # op.key => live'[b] = live[b] BY <3>1, <3>2
    <3>4. \A b \in Addons : b # op.key => Current(b)' = Current(b) BY <3>3 DEF Current
    <3>5. \A b \in Behind' : b # op.key => b \in Behind BY <3>3, <3>4 DEF Behind
    <3> QED BY <1>2, <2>1, <3>1, <3>5 DEF BehindOK
  <2> QED BY <2>2, <2>3
<1>4. CASE phase' # "undo"
  <2>1. /\ lag' = IF op.kind = "update" /\ op.restart THEN lag ELSE Behind'
        /\ phase' = IF Restarts(op) THEN "restart" ELSE "record"
        /\ astray' = IF raced THEN astray \cup {op.key} ELSE astray
    BY <1>0, <1>4 DEF PostOptions, Fail
  <2>2. /\ op.key \in Addons /\ op.params \in Params
        /\ \A b \in Addons : /\ live'[b].installed = live[b].installed /\ live'[b].running = live[b].running
                             /\ b # op.key => Current(b)' = Current(b)
        /\ ~raced => /\ \A k \in Options : op.params[k] = Keep => Current(op.key)'[k] = Current(op.key)[k]
                     /\ \A k \in Options : Current(op.key)[k] = step.current[k]
                     /\ IsPosted(op)'
    BY <1>0, <1>4, PostedFacts
  <2>3. SUFFICES ASSUME NEW a \in Behind', a \notin lag', a \notin astray'
                 PROVE  phase' = "restart" /\ a = op.key
    BY <1>0, <1>1 DEF BehindOK
  <2>4. op.kind = "update" /\ op.restart /\ lag' = lag BY <2>1, <2>3
  <2>5. a \in Addons /\ live'[a].running # Current(a)' BY <2>3 DEF Behind
  <2>6. a \notin Behind BY <1>2, <2>1, <2>3, <2>4
  <2>7. a = op.key
    <3>1. a # op.key => Current(a)' = Current(a) /\ live'[a].running = live[a].running BY <2>2, <2>5
    <3> QED BY <2>5, <2>6, <3>1 DEF Behind
  <2>8. ~raced BY <2>1, <2>3, <2>7
  <2>9. Current(a)' # Current(a) BY <2>2, <2>5, <2>6 DEF Behind
  <2>10. Changes(step.current, op.params)
    <3>1. SUFFICES ASSUME \A k \in Named(op.params) : op.params[k] = step.current[k] PROVE FALSE
      BY DEF Changes
    <3>2. Reported(a, step.current) BY <1>0, <1>1, <2>5, <2>7 DEF RunContext, UndoInv, StepOK
    <3>3. ASSUME NEW k \in Options PROVE Current(a)'[k] = Current(a)[k]
      <4>1. CASE op.params[k] = Keep BY <2>2, <2>7, <2>8, <4>1
      <4>2. CASE op.params[k] # Keep
        <5>1. k \in Named(op.params) BY <4>2 DEF Named
        <5>2. Current(a)'[k] = IF op.params[k] = Absent THEN Defaults[a][k] ELSE op.params[k]
          BY <2>2, <2>7, <2>8, <5>1 DEF IsPosted
        <5>3. op.params[k] = step.current[k] /\ Current(a)[k] = step.current[k] BY <2>2, <2>7, <2>8, <3>1, <5>1
        <5>4. step.current[k] = Absent => Defaults[a][k] = Absent BY <3>2 DEF Reported
        <5> QED BY <5>2, <5>3, <5>4
      <4> QED BY <4>1, <4>2
    <3>4. Current(a)' = [k \in Options |-> Current(a)'[k]] /\ Current(a) = [k \in Options |-> Current(a)[k]]
      BY DEF Current, Merged
    <3> QED BY <2>9, <3>3, <3>4
  <2>11. Restarts(op) BY <2>4, <2>10 DEF Restarts
  <2> QED BY <2>1, <2>7, <2>11
<1> QED BY <1>3, <1>4

\* Whoever runs without its options is known to, after every step.
LEMMA BehindStep == RunContext /\ [Next]_vars => BehindOK'
<1> SUFFICES ASSUME RunContext, [Next]_vars PROVE BehindOK' OBVIOUS
<1> USE DEF disk, working, history, bounds
<1>0. BehindOK BY DEF RunContext, RunInv
<1>1. CASE Push \/ Reconcile \/ UNCHANGED vars
  <2>1. UNCHANGED <<todo, live, phase, astray, lag>> BY <1>1 DEF Push, Reconcile, vars
  <2>2. Behind' = Behind BY <2>1, LiveStill
  <2> QED BY <1>0, <2>1, <2>2 DEF BehindOK
<1>2. CASE Edit
  <2>1. lag' = Behind' BY <1>2 DEF Edit
  <2> QED BY <2>1 DEF BehindOK
<1>3. CASE Crash
  <2>1. live' = live /\ lag' = lag /\ astray \subseteq astray' /\ (~Idle => astray' = astray \cup Unsaved)
    BY <1>3 DEF Crash
  <2>2. Behind' = Behind BY <2>1, LiveStill
  <2>3. ASSUME NEW a \in Behind, a \notin lag, a \notin astray' PROVE FALSE
    <3>1. phase \in {"restart", "revert"} /\ a = Head(todo).key BY <1>0, <2>1, <2>3 DEF BehindOK
    <3>2. step \in [current : Stored, merged : Stored] BY <3>1 DEF RunContext, TypeOK, InHand
    <3>3. step # NoStep BY <3>2, AddonOptionsAssumption DEF AddonOptionsAssumption
    <3>4. a \in Unsaved BY <3>1, <3>3 DEF Unsaved
    <3>5. ~Idle BY <3>1 DEF Idle
    <3> QED BY <2>1, <2>3, <3>4, <3>5
  <2> QED BY <2>1, <2>2, <2>3 DEF BehindOK
<1>4. CASE StartApply \/ ReadOptions \/ Record \/ ApplyDone \/ UndoDone \/ StartRollback \/ StateSave
  <2>1. live' = live /\ lag' = lag /\ phase \notin {"restart", "revert"}
    BY <1>4 DEF StartApply, ReadOptions, Record, ApplyDone, UndoDone, StartRollback, StateSave, Idle
  <2>2. astray \subseteq astray'
    BY <1>4 DEF StartApply, ReadOptions, Record, ApplyDone, UndoDone, StartRollback, StateSave
  <2>3. Behind' = Behind BY <2>1, LiveStill
  <2> QED BY <1>0, <2>1, <2>2, <2>3 DEF BehindOK
<1>5. CASE PostOptions BY <1>5, PostBehind
<1>6. CASE Restart
  <2>1. PICK a : a = Head(todo).key OBVIOUS
  <2>2. /\ phase = "restart" /\ todo' = todo /\ astray' = astray
        /\ \/ live' = [live EXCEPT ![a].running = Current(a)] /\ lag' = lag \ {a} /\ phase' = "record"
           \/ /\ live' = live \/ live' = [live EXCEPT ![a].running = Current(a)]
              /\ lag' = lag /\ phase' = "revert"
    BY <1>6, <2>1 DEF Restart
  <2>3. a \in Addons BY <2>1, <2>2, HandTyped, InHandTodo DEF RunContext, InHand
  <2>4. live \in [Addons -> [installed : BOOLEAN, set : Stored, running : Stored]]
    BY DEF RunContext, TypeOK, Installations
  <2>5. ASSUME live' = [live EXCEPT ![a].running = Current(a)]
        PROVE  Behind' = Behind \ {a}
    <3>1. \A b \in Addons : live'[b].set = live[b].set /\ live'[b].running = IF b = a THEN Current(a) ELSE live[b].running
      BY <2>3, <2>4, <2>5
    <3>2. \A b \in Addons : Current(b)' = Current(b) BY <3>1 DEF Current
    <3> QED BY <3>1, <3>2 DEF Behind
  <2>6. live' = live => Behind' = Behind BY LiveStill
  <2> QED BY <1>0, <2>1, <2>2, <2>5, <2>6 DEF BehindOK
<1>7. CASE Revert
  <2>1. lag' = Behind' \/ (lag' = Behind /\ live' = live) BY <1>7 DEF Revert
  <2>2. live' = live => Behind' = Behind BY LiveStill
  <2> QED BY <2>1, <2>2 DEF BehindOK
<1>8. CASE UndoOne
  <2>1. lag' = Behind' \/ (lag' = lag /\ live' = live) BY <1>8 DEF UndoOne
  <2>2. live' = live => Behind' = Behind BY LiveStill
  <2>3. phase = "undo" /\ phase' = phase /\ astray \subseteq astray' BY <1>8 DEF UndoOne
  <2> QED BY <1>0, <2>1, <2>2, <2>3 DEF BehindOK
<1> QED BY <1>1, <1>2, <1>3, <1>4, <1>5, <1>6, <1>7, <1>8 DEF Next

\* An apply that goes well from a state nobody has changed since it was planned.
LEMMA CalmStep == RunContext /\ [Next]_vars => CalmOK'
<1> SUFFICES ASSUME RunContext, [Next]_vars PROVE CalmOK' OBVIOUS
<1> USE DEF disk, working, history, bounds
<1>0. CalmOK BY DEF RunContext, RunInv
<1>1. CASE Reconcile \/ UNCHANGED vars
  <2>1. UNCHANGED <<raced, mode, outcome, todo, phase>> /\ (phase # "idle" => calm' = calm)
    BY <1>1 DEF Reconcile, Idle, vars
  <2> QED BY <1>0, <2>1 DEF CalmOK
<1>2. CASE Push \/ Edit BY <1>0, <1>2 DEF Push, Edit, CalmOK
<1>3. CASE Crash \/ StateSave BY <1>3 DEF Crash, StateSave, CalmOK
<1>4. CASE StartApply \/ StartRollback BY <1>4 DEF StartApply, StartRollback, CalmOK
<1>5. CASE ReadOptions \/ PostOptions \/ Restart \/ Revert \/ UndoOne
  <2>1. phase # "idle" /\ phase' # "save" /\ mode' = mode /\ calm' \in {calm, FALSE} /\ raced' \in {raced, FALSE}
    BY <1>5, Zenon DEF ReadOptions, PostOptions, Restart, Revert, UndoOne, Fail
  <2> QED BY <1>0, <2>1 DEF CalmOK
<1>6. CASE Record
  <2>1. phase # "idle" /\ mode' = mode /\ calm' = calm /\ raced' = raced /\ (phase' = "save" => outcome' = "unjournalled")
    BY <1>6 DEF Record
  <2> QED BY <1>0, <2>1 DEF CalmOK
<1>7. CASE ApplyDone
  <2>1. phase = "read" /\ todo = <<>> /\ UNCHANGED <<mode, calm, raced, todo, outcome>> BY <1>7 DEF ApplyDone
  <2>2. mode = "apply" BY <2>1 DEF RunContext, UndoInv, Undoable, ExecOK
  <2> QED BY <1>0, <2>1, <2>2 DEF CalmOK
<1>8. CASE UndoDone
  <2>1. phase = "undo" /\ UNCHANGED <<mode, calm, raced, todo, outcome>> BY <1>8 DEF UndoDone
  <2>2. outcome # "ok" BY <2>1 DEF RunContext, UndoInv, Undoable, UndoOK
  <2> QED BY <1>0, <2>1, <2>2 DEF CalmOK
<1> QED BY <1>1, <1>2, <1>3, <1>4, <1>5, <1>6, <1>7, <1>8 DEF Next

\* A new plan sets what is declared, or it is set.
LEMMA PlanProvidesAll ==
  ASSUME RunContext, Loaded, NEW a \in Addons, Runnable(a)
  PROVE  Provides(ToSet(Plan), a)
<1>1. PlanContext BY DEF RunContext, PlanContext
<1>2. \A op : op \in ToSet(Plan) <=> \E b \in Addons : op \in ToSet(PlanAddon(b)) \cup ToSet(PlanRestore(b))
  BY <1>1, PlanMembers
<1>3. ASSUME NEW b \in Addons, NEW op \in ToSet(PlanAddon(b)) \cup ToSet(PlanRestore(b)) PROVE op.key = b
  BY PlanOrigin
<1>4. PlanRestore(a) = <<>> BY DEF Runnable, PlanRestore
<1> DEFINE mine == Op("update", a, Resolved(a), Refs(a), desired[a].restart)
<1>5. PlanAddon(a) = IF Changes(Current(a), Resolved(a)) \/ FirstRecording(a) THEN <<mine>> ELSE <<>>
  BY DEF Runnable, PlanAddon
<1>6. Asks(mine, a)
  <2>1. mine.kind = "update" /\ mine.key = a /\ mine.params = Resolved(a) /\ mine.restart = desired[a].restart
    BY OpFacts
  <2>2. desired[a].restart BY DEF Runnable
  <2> HIDE DEF mine
  <2> QED BY ONLY <2>1, <2>2, Zenon DEF Asks
<1>7. \A op : op \in ToSet(PlanAddon(a)) => op = mine BY <1>5, OfOne
<1> HIDE DEF mine
<1>8. \A op \in ToSet(Plan) : op.key = a => Asks(op, a)
  <2>1. SUFFICES ASSUME NEW op \in ToSet(Plan), op.key = a PROVE Asks(op, a) OBVIOUS
  <2>2. PICK b \in Addons : op \in ToSet(PlanAddon(b)) \cup ToSet(PlanRestore(b)) BY <1>2
  <2>3. b = a BY <1>3, <2>1, <2>2
  <2>4. op \in ToSet(PlanAddon(a)) BY <1>4, <2>2, <2>3, OfOne
  <2> QED BY <1>6, <1>7, <2>4
<1>9. HasDeclared(a) \/ \E op \in ToSet(Plan) : Asks(op, a)
  <2>1. CASE Changes(Current(a), Resolved(a)) \/ FirstRecording(a)
    <3>1. mine \in ToSet(PlanAddon(a)) BY <1>5, <2>1, OfOne
    <3> QED BY <1>2, <1>6, <3>1
  <2>2. CASE ~Changes(Current(a), Resolved(a)) BY <2>2 DEF Changes, HasDeclared
  <2> QED BY <2>1, <2>2
<1> QED BY <1>8, <1>9 DEF Provides

LEMMA PlanStep == RunContext /\ [Next]_vars => PlanProvides'
<1> SUFFICES ASSUME RunContext, [Next]_vars PROVE PlanProvides' OBVIOUS
<1> USE DEF disk, working, history, bounds
<1>0. PlanProvides /\ TodoProvides /\ CalmOK BY DEF RunContext, RunInv
<1>1. CASE Push \/ Edit \/ Crash BY <1>1 DEF Push, Edit, Crash, PlanProvides
<1>2. CASE UNCHANGED vars
  <2>1. UNCHANGED <<desired, secret, live, astray, plan, phase, calm>> BY <1>2 DEF vars
  <2> QED BY <1>0, <2>1, WorldStill, ProvidedStill DEF PlanProvides
<1>3. CASE Reconcile
  <2>1. UNCHANGED <<desired, secret, live, astray>> /\ (plan' = <<>> \/ (Loaded /\ plan' = Plan)) BY <1>3 DEF Reconcile
  <2>2. CASE plan' = <<>> BY <2>2 DEF PlanProvides
  <2>3. CASE Loaded /\ plan' = Plan
    <3>1. ASSUME NEW a \in Addons, Runnable(a)' PROVE Provides(ToSet(plan), a)'
      <4>1. Runnable(a) BY <2>1, <3>1, WorldStill
      <4>2. Provides(ToSet(Plan), a) BY <2>3, <4>1, PlanProvidesAll
      <4>3. PICK ops : ops = ToSet(plan') OBVIOUS
      <4>4. Provides(ops, a)' BY <2>1, <2>3, <4>2, <4>3, ProvidedStill
      <4> QED BY <4>3, <4>4
    <3> QED BY <3>1 DEF PlanProvides
  <2> QED BY <2>1, <2>2, <2>3
<1>4. CASE StateSave
  <2>1. SUFFICES ASSUME calm' PROVE \A a \in Addons : Runnable(a)' => Provides(ToSet(plan), a)'
    BY DEF PlanProvides
  <2>2. /\ phase = "save" /\ calm /\ outcome = "ok" /\ astray' = astray /\ UNCHANGED <<desired, secret, live>>
    BY <1>4, <2>1 DEF StateSave
  <2>3. mode = "apply" /\ todo = <<>> BY <1>0, <2>2 DEF CalmOK
  <2>5. plan' = StillPending BY <1>4, <2>1, <2>3 DEF StateSave
  <2>6. ASSUME NEW a \in Addons, Runnable(a)' PROVE Provides(ToSet(plan), a)'
    <3>1. Runnable(a) BY <2>2, <2>6, WorldStill
    <3>2. Provides(ToSet(todo), a) BY <1>0, <2>2, <3>1 DEF TodoProvides
    <3>3. a \in astray \/ HasDeclared(a) BY <2>3, <3>2, OfOne DEF Provides
    <3>4. \A op \in ToSet(plan') : op.kind = "error" BY <2>2, <2>5, PendingMembers DEF RunContext
    <3>5. PICK ops : ops = ToSet(plan') OBVIOUS
    <3>6. Provides(ops, a) BY <3>3, <3>4, <3>5 DEF Provides
    <3>7. Provides(ops, a)' BY <2>2, <3>6, ProvidedStill
    <3> QED BY <3>5, <3>7
  <2> QED BY <2>6
<1>5. CASE StartApply \/ ReadOptions \/ PostOptions \/ Restart \/ Revert \/ Record \/ ApplyDone \/ UndoOne \/ UndoDone
           \/ StartRollback
  <2>1. phase' # "idle"
    BY <1>5, Zenon DEF StartApply, ReadOptions, PostOptions, Restart, Revert, Record, ApplyDone, UndoOne, UndoDone,
                StartRollback, Fail
  <2> QED BY <2>1 DEF PlanProvides
<1> QED BY <1>1, <1>2, <1>3, <1>4, <1>5 DEF Next

\* What the plan was made for could be loaded.
LEMMA LoadedStep == RunContext /\ [Next]_vars => LoadedOK'
<1> SUFFICES ASSUME RunContext, [Next]_vars PROVE LoadedOK' OBVIOUS
<1> USE DEF disk, working, history, bounds
<1>1. desired' = desired => (Loaded' <=> Loaded) BY DEF Loaded
<1>2. CASE Push BY <1>2 DEF Push, LoadedOK
<1>3. CASE Reconcile
  <2>1. desired' = desired /\ ((calm' = TRUE /\ Loaded) \/ calm' = calm) BY <1>3 DEF Reconcile
  <2> QED BY <1>1, <2>1 DEF RunContext, RunInv, LoadedOK
<1>4. CASE Edit \/ Crash \/ StartRollback \/ StartApply \/ ReadOptions \/ PostOptions \/ Restart \/ Revert \/ Record
           \/ ApplyDone \/ UndoOne \/ UndoDone \/ UNCHANGED vars
  <2>1. desired' = desired /\ (calm' = calm \/ calm' = FALSE)
    BY <1>4, Zenon DEF Edit, Crash, StartApply, ReadOptions, PostOptions, Restart, Revert, Record, ApplyDone, UndoOne, UndoDone,
                StartRollback, vars
  <2> QED BY <1>1, <2>1 DEF RunContext, RunInv, LoadedOK
<1>5. CASE StateSave
  <2>1. desired' = desired BY <1>5 DEF StateSave
  <2>2. calm' = (calm /\ outcome = "ok") \/ calm' = FALSE BY <1>5 DEF StateSave
  <2>3. calm' => calm BY ONLY <2>2, Zenon
  <2> QED BY <1>1, <2>1, <2>3 DEF RunContext, RunInv, LoadedOK
<1> QED BY <1>2, <1>3, <1>4, <1>5 DEF Next

\* Nothing is declared to have no value.
LEMMA ResolvedSet ==
  ASSUME TypeOK, Loaded, NEW a \in Addons, Runnable(a)
  PROVE  \A k \in Options : Resolved(a)[k] # Absent
<1>1. /\ desired[a].options \in [Options -> Values \cup {Keep, Ref}]
      /\ secret = Missing => Refs(a) = {}
  BY ItemTyped DEF PlanContext, Runnable
<1>2. SUFFICES ASSUME NEW k \in Options PROVE Resolved(a)[k] # Absent OBVIOUS
<1>3. Absent \notin Values /\ Keep # Absent /\ Ref # Absent
  BY AddonOptionsAssumption DEF AddonOptionsAssumption
<1>4. Resolved(a)[k] = IF k \in Refs(a) THEN secret ELSE desired[a].options[k] BY DEF Resolved
<1>5. k \in Refs(a) => secret \in Values BY <1>1 DEF TypeOK
<1> QED BY <1>1, <1>3, <1>4, <1>5

\* What lands sets what is declared; what is left sets the rest.
LEMMA RecordProvides ==
  ASSUME RunContext, Record, phase' = "read", calm, NEW a \in Addons, Runnable(a)
  PROVE  Provides(ToSet(todo), a) => Provides(ToSet(todo), a)'
<1> USE DEF disk, working, history, bounds
<1>1. PICK op : op = Head(todo) OBVIOUS
<1>2. PICK rest : rest = todo' OBVIOUS
<1>3. /\ phase = "record" /\ InHand /\ rest = Tail(todo) /\ UNCHANGED <<desired, secret, live, astray>>
  BY <1>2 DEF Record, InHand
<1>4. /\ todo # <<>> /\ todo \in Seq(Op_) /\ op \in ToSet(todo) /\ op.kind # "error"
      /\ ~raced
  BY <1>1, <1>3, HandTyped, InHandTodo DEF RunContext, TypeOK, RunInv, CalmOK
<1>5. ToSet(todo) = {op} \cup ToSet(rest)
  BY <1>1, <1>3, <1>4, ElementsTyped
<1>6. op.key \in astray \/ IsPosted(op)
  BY <1>1, <1>3, <1>4 DEF RunContext, RunInv, PostedOK
<1>7. SUFFICES ASSUME Provides(ToSet(todo), a) PROVE Provides(ToSet(rest), a)
  BY <1>2, <1>3, ProvidedStill
<1>8. \A o \in ToSet(rest) : o.key = a /\ o.kind # "error" => Asks(o, a) BY <1>5, <1>7 DEF Provides
<1>9. CASE Asks(op, a)
  <2>1. ASSUME IsPosted(op) PROVE HasDeclared(a)
    <3>1. op.key = a /\ op.params = Resolved(a) BY <1>9 DEF Asks
    <3>2. op.params \in Params BY <1>1, <1>4, HandTyped DEF RunContext
    <3>3. \A k \in Named(Resolved(a)) : Resolved(a)[k] # Absent
      BY ResolvedSet DEF RunContext, RunInv, LoadedOK, Named
    <3> QED BY <2>1, <3>1, <3>3 DEF IsPosted, HasDeclared
  <2>2. op.key = a BY <1>9 DEF Asks
  <2> QED BY <1>6, <1>8, <2>1, <2>2 DEF Provides
<1>10. CASE ~Asks(op, a) BY <1>5, <1>7, <1>8, <1>10 DEF Provides
<1> QED BY <1>9, <1>10

\* Of each add-on to be run with what is declared: the operations left set it,
\* or it is set.
LEMMA TodoStep == RunContext /\ [Next]_vars => TodoProvides'
<1> SUFFICES ASSUME RunContext, [Next]_vars PROVE TodoProvides' OBVIOUS
<1> USE DEF disk, working, history, bounds
<1>0. TodoProvides /\ PlanProvides BY DEF RunContext, RunInv
<1>1. CASE Push \/ Edit \/ Crash \/ StateSave \/ StartRollback
  BY <1>1 DEF Push, Edit, Crash, StateSave, StartRollback, TodoProvides
<1>2. CASE Reconcile BY <1>2 DEF Reconcile, Idle, TodoProvides
<1>3. CASE ApplyDone \/ UNCHANGED vars
  <2>1. UNCHANGED <<desired, secret, live, astray, todo, calm, outcome>>
        /\ (phase' \notin {"idle", "undo"} => phase \notin {"idle", "undo"})
    BY <1>3 DEF ApplyDone, vars
  <2> QED BY <1>0, <2>1, WorldStill, ProvidedStill DEF TodoProvides
<1>4. CASE StartApply
  <2>1. /\ phase = "idle" /\ todo' = Executable(plan) /\ calm' = calm /\ UNCHANGED <<desired, secret, live, astray>>
        /\ plan \in Seq(Op_) /\ Executable(plan) # <<>>
    BY <1>4 DEF StartApply, Idle, RunContext, TypeOK
  <2>2. SUFFICES ASSUME calm, NEW a \in Addons, Runnable(a)' PROVE Provides(ToSet(todo), a)'
    BY <2>1 DEF TodoProvides
  <2>3. Runnable(a) BY <2>1, <2>2, WorldStill
  <2>4. \A op : op \in ToSet(Executable(plan)) <=> op \in ToSet(plan) /\ op.kind # "error" BY <2>1, ExecutableMembers
  <2>5. plan # <<>>
    <3>1. SUFFICES ASSUME plan = <<>> PROVE FALSE OBVIOUS
    <3>2. ToSet(plan) = {} BY <3>1, OfOne
    <3>3. ToSet(Executable(plan)) = {} BY <2>4, <3>2
    <3> QED BY <2>1, <3>3, ExecutableMembers, EmptyMembers
  <2>6. Provides(ToSet(plan), a) BY <1>0, <2>1, <2>2, <2>3, <2>5 DEF PlanProvides
  <2>7. PICK ops : ops = ToSet(todo') OBVIOUS
  <2>8. Provides(ops, a) BY <2>1, <2>4, <2>6, <2>7 DEF Provides, Asks
  <2>9. Provides(ops, a)' BY <2>1, <2>8, ProvidedStill
  <2> QED BY <2>7, <2>9
<1>5. CASE ReadOptions \/ UndoOne \/ UndoDone
  <2>1. CASE phase' = "undo" \/ outcome' # "ok" BY <2>1 DEF TodoProvides
  <2>2. CASE phase' # "undo" /\ outcome' = "ok"
    <3>1. ReadOptions \/ (UndoDone /\ phase = "undo" /\ outcome = "ok")
      BY <1>5, <2>2 DEF ReadOptions, UndoOne, UndoDone
    <3>2. phase # "undo" \/ outcome # "ok" BY DEF RunContext, UndoInv, Undoable, UndoOK
    <3>3. UNCHANGED <<desired, secret, live, astray, todo, calm, outcome>> /\ phase = "read"
      BY <2>2, <3>1, <3>2 DEF ReadOptions, Fail
    <3> QED BY <1>0, <3>3, WorldStill, ProvidedStill DEF TodoProvides
  <2> QED BY <2>1, <2>2
<1>6. CASE PostOptions
  <2>1. CASE phase' = "undo" BY <2>1 DEF TodoProvides
  <2>2. CASE phase' # "undo"
    <3>1. SUFFICES ASSUME calm', outcome' = "ok", NEW a \in Addons, Runnable(a)'
                   PROVE  Provides(ToSet(todo), a)'
      BY DEF TodoProvides
    <3>2. PICK op : op = Head(todo) OBVIOUS
    <3>3. /\ phase = "post" /\ InHand /\ calm /\ outcome = "ok" /\ todo' = todo /\ UNCHANGED <<desired, secret>>
          /\ astray \subseteq astray'
      BY <1>6, <2>2, <3>1 DEF PostOptions, Fail, InHand
    <3>4. /\ ~raced BY <3>3 DEF RunContext, RunInv, CalmOK
    <3>5. \A b \in Addons : live'[b].installed = live[b].installed /\ (b # op.key => Current(b)' = Current(b))
      BY <1>6, <2>2, <3>2, PostedFacts
    <3>6. IsPosted(op)' BY <1>6, <2>2, <3>2, <3>4, PostedFacts
    <3>7. Runnable(a) BY <3>1, <3>3, <3>5, DeclaredStill DEF Runnable
    <3>8. Provides(ToSet(todo), a) BY <1>0, <3>3, <3>7 DEF TodoProvides
    <3>9. /\ \A o : Asks(o, a)' <=> Asks(o, a)
          /\ Resolved(a)' = Resolved(a)
      BY <3>3, DeclaredStill
    <3>10. a \in astray \/ HasDeclared(a) \/ (\E o \in ToSet(todo) : Asks(o, a)) BY <3>8 DEF Provides
    <3>11. CASE a = op.key
      <4>1. /\ todo # <<>> /\ op \in ToSet(todo) /\ op.kind # "error"
        BY <3>2, <3>3, HandTyped, InHandTodo DEF RunContext
      <4>2. Asks(op, a) BY <3>8, <3>11, <4>1 DEF Provides
      <4>3. PICK ops : ops = ToSet(todo) OBVIOUS
      <4>4. Provides(ops, a)' BY <3>8, <3>9, <4>1, <4>2, <4>3 DEF Provides
      <4>5. ToSet(todo') = ops BY <3>3, <4>3
      <4> QED BY <4>4, <4>5
    <3>12. CASE a # op.key
      <4>1. Current(a)' = Current(a) BY <3>5, <3>12
      <4>2. HasDeclared(a)' <=> HasDeclared(a) BY <3>9, <4>1 DEF HasDeclared
      <4>3. PICK ops : ops = ToSet(todo) OBVIOUS
      <4>4. Provides(ops, a)' BY <3>3, <3>8, <3>9, <4>2, <4>3 DEF Provides
      <4>5. ToSet(todo') = ops BY <3>3, <4>3
      <4> QED BY <4>4, <4>5
    <3> QED BY <3>11, <3>12
  <2> QED BY <2>1, <2>2
<1>7. CASE Restart
  <2>1. PICK b : b = Head(todo).key OBVIOUS
  <2>2. /\ phase = "restart" /\ UNCHANGED <<desired, secret, astray, todo, calm, outcome>>
        /\ (live' = live \/ live' = [live EXCEPT ![b].running = Current(b)])
    BY <1>7, <2>1 DEF Restart
  <2>3. live \in [Addons -> [installed : BOOLEAN, set : Stored, running : Stored]]
    BY DEF RunContext, TypeOK, Installations
  <2>4. \A a \in Addons : live'[a].installed = live[a].installed /\ live'[a].set = live[a].set BY <2>2, <2>3
  <2>5. \A a \in Addons : Current(a)' = Current(a) BY <2>4 DEF Current
  <2>6. SUFFICES ASSUME calm, outcome = "ok", NEW a \in Addons, Runnable(a)'
                 PROVE  Provides(ToSet(todo), a)'
    BY <2>2 DEF TodoProvides
  <2>7. Runnable(a) BY <2>2, <2>4, <2>6, DeclaredStill DEF Runnable
  <2>8. Provides(ToSet(todo), a) BY <1>0, <2>2, <2>6, <2>7 DEF TodoProvides
  <2>9. /\ \A o : Asks(o, a)' <=> Asks(o, a)
        /\ HasDeclared(a)' <=> HasDeclared(a)
    BY <2>2, <2>5, DeclaredStill DEF HasDeclared
  <2>10. PICK ops : ops = ToSet(todo) OBVIOUS
  <2>11. Provides(ops, a)' BY <2>2, <2>8, <2>9, <2>10 DEF Provides
  <2>12. ToSet(todo') = ops BY <2>2, <2>10
  <2> QED BY <2>11, <2>12
<1>8. CASE Revert BY <1>8 DEF Revert, TodoProvides
<1>9. CASE Record
  <2>1. CASE phase' = "undo" \/ outcome' # "ok" BY <2>1 DEF TodoProvides
  <2>2. CASE phase' # "undo" /\ outcome' = "ok"
    <3>1. /\ phase = "record" /\ phase' = "read" /\ outcome = "ok" /\ calm' = calm /\ UNCHANGED <<desired, secret, live>>
      BY <1>9, <2>2 DEF Record
    <3>2. SUFFICES ASSUME calm, NEW a \in Addons, Runnable(a)' PROVE Provides(ToSet(todo), a)'
      BY <3>1 DEF TodoProvides
    <3>3. Runnable(a) BY <3>1, <3>2, WorldStill
    <3>4. Provides(ToSet(todo), a) BY <1>0, <3>1, <3>2, <3>3 DEF TodoProvides
    <3> QED BY <1>9, <3>1, <3>2, <3>3, <3>4, RecordProvides
  <2> QED BY <2>1, <2>2
<1> QED BY <1>1, <1>2, <1>3, <1>4, <1>5, <1>6, <1>7, <1>8, <1>9 DEF Next

\* When a whole plan has landed, who is not known to run without its options
\* runs with what is declared.
LEMMA SettledStep == RunContext /\ [Next]_vars => SettledRuns'
<1> SUFFICES ASSUME RunContext, [Next]_vars PROVE SettledRuns' OBVIOUS
<1> USE DEF disk, working, history, bounds
<1>0. SettledRuns BY DEF RunContext, RunInv
<1>1. CASE Push \/ Edit \/ Crash \/ StartApply \/ StartRollback
  <2>1. settled' = FALSE BY <1>1 DEF Push, Edit, Crash, StartApply, StartRollback
  <2> QED BY <2>1 DEF SettledRuns
<1>2. CASE Reconcile \/ UNCHANGED vars
  <2>1. UNCHANGED <<desired, secret, live, astray, lag, phase, settled>> BY <1>2 DEF Reconcile, vars
  <2> QED BY <1>0, <2>1, WorldStill DEF SettledRuns
<1>3. CASE ReadOptions \/ PostOptions \/ Restart \/ Revert \/ Record \/ ApplyDone \/ UndoOne \/ UndoDone
  <2>1. phase # "idle" /\ settled' = settled
    BY <1>3, Zenon DEF ReadOptions, PostOptions, Restart, Revert, Record, ApplyDone, UndoOne, UndoDone
  <2> QED BY <1>0, <2>1 DEF SettledRuns
<1>4. CASE StateSave
  <2>1. SUFFICES ASSUME settled' PROVE phase' = "idle" /\ \A a \in Addons \ (astray \cup lag \cup {Self})' : RunsDeclared(a)'
    BY DEF SettledRuns
  <2>2. /\ phase = "save" /\ phase' = "idle" /\ mode = "apply" /\ outcome = "ok" /\ calm
        /\ UNCHANGED <<desired, secret, live, astray, lag>>
    BY <1>4, <2>1 DEF StateSave
  <2>3. todo = <<>> BY <2>2 DEF RunContext, RunInv, CalmOK
  <2>4. ASSUME NEW a \in Addons, a # Self, a \notin astray, a \notin lag PROVE RunsDeclared(a)
    <3>1. SUFFICES ASSUME Runnable(a), NEW k \in Named(Resolved(a)) PROVE live[a].running[k] = Resolved(a)[k]
      BY <2>4 DEF RunsDeclared, Runnable
    <3>2. Provides(ToSet(todo), a) BY <2>2, <3>1 DEF RunContext, RunInv, TodoProvides
    <3>3. HasDeclared(a) BY <2>3, <2>4, <3>2, OfOne DEF Provides
    <3>4. a \notin Behind BY <2>2, <2>4 DEF RunContext, RunInv, BehindOK
    <3>5. live[a].running = Current(a) BY <3>4 DEF Behind
    <3> QED BY <3>1, <3>3, <3>5 DEF HasDeclared
  <2> QED BY <2>2, <2>4, WorldStill
<1> QED BY <1>1, <1>2, <1>3, <1>4 DEF Next

LEMMA RunInvariant == Spec => []RunInv
<1>1. Init => RunInv
  <2>1. SUFFICES ASSUME Init PROVE RunInv OBVIOUS
  <2>2. /\ phase = "idle" /\ calm = FALSE /\ settled = FALSE /\ lag = Behind BY <2>1 DEF Init
  <2> QED BY <2>2 DEF RunInv, MergedOK, InHand, PostedOK, BehindOK, CalmOK, LoadedOK, PlanProvides, TodoProvides, SettledRuns
<1>2. TypeOK /\ UndoInv /\ RunInv /\ [Next]_vars => RunInv'
  BY MergedStep, PostedStep, BehindStep, CalmStep, LoadedStep, PlanStep, TodoStep, SettledStep DEF RunContext, RunInv
<1> QED BY <1>1, <1>2, TypeCorrect, Invariant, PTL DEF Spec

\* After a whole plan landed an add-on declared to restart runs with what is
\* declared, unless an earlier write of it never came as far as its restart, or
\* its options were changed by somebody who did not restart it.
THEOREM Running == Spec => []SettledMeansRunning
<1>1. RunInv => SettledMeansRunning BY DEF RunInv, SettledRuns, SettledMeansRunning
<1> QED BY <1>1, RunInvariant, PTL

-----------------------------------------------------------------------------
(* Getting back what there was                                              *)

\* Where both name an option they give it one value; the options one names are
\* named by the other.
Agree(x, y) == \A k \in Options : x[k] = Keep \/ y[k] = Keep \/ x[k] = y[k]
Within(x, y) == \A k \in Options : x[k] = Keep \/ x[k] = y[k]

\* A plan updates an add-on or restores it; an apply works the plan off.
KindsApart ==
  \A op1, op2 \in ToSet(plan) : op1.key = op2.key /\ op1.kind # "error" /\ op2.kind # "error" => op1.kind = op2.kind
FromPlan ==
  phase # "idle" /\ mode = "apply" =>
    /\ ToSet(todo) \subseteq ToSet(plan)
    /\ \A e \in ToSet(executed) : \E op \in ToSet(plan) : op.kind = e.kind /\ op.key = e.key

\* What an add-on had before the agent is what is recorded, or is about to be.
Kept == IF phase = "idle" THEN saved ELSE managed
Posted(a) == phase \in {"restart", "revert", "record"} /\ Head(todo).key = a /\ Head(todo).kind = "update"
Owned(a) ==
  IF Posted(a) THEN [k \in Options |-> IF Had(managed[a])[k] # Keep \/ Head(todo).params[k] = Keep
                                       THEN Had(managed[a])[k] ELSE step.current[k]]
  ELSE Had(Kept[a])
TheirsOK == DOMAIN theirs = Addons /\ \A a \in Addons \ astray : theirs[a] = Owned(a)

\* All that is known of what an add-on had: what is recorded, what the entries
\* of a journal would put back into the record, and what a plan restores.  Of
\* an add-on that is not astray all of it agrees.
Known(entries, record, ops, a) ==
  {Had(record[a])} \cup {Had(e.snapshot) : e \in {e \in entries : e.key = a}}
    \cup {op.params : op \in {op \in ops : op.kind = "restore" /\ op.key = a}}
Consistent(entries, record, ops, aside) ==
  \A a \in Addons \ aside : \A x, y \in Known(entries, record, ops, a) : Agree(x, y)

\* So it does for the journal Roll Back would use, now and after a crash.
Entries(p) == IF p = 0 THEN {} ELSE ToSet(journals[p])
StandingOK ==
  IF phase = "idle"
  THEN /\ Consistent(Entries(pointer), saved, ToSet(plan), astray)
       /\ Consistent(Entries(savedPointer), saved, {}, astray)
  ELSE /\ Consistent(ToSet(executed), managed, ToSet(plan), astray)
       /\ ToSet(journals[cur]) \subseteq ToSet(executed)
       /\ savedPointer # cur => Consistent(Entries(savedPointer), saved, {}, astray)
       /\ mode = "rollback" => cur = pointer

\* An apply only adds to what is recorded of an add-on it updates.
OnlyAdded ==
  phase = "read" \/ InHand =>
    \A e \in ToSet(executed) :
      IF e.kind = "update" THEN Within(Had(e.snapshot), Had(managed[e.key])) ELSE managed[e.key] = Unmanaged

\* An option is recorded as having had no value only where there is no default.
SaneRecord(r) == \A a \in Addons : \A k \in Options : Had(r[a])[k] = Absent => Defaults[a][k] = Absent
SaneEntries(d) ==
  \A e \in ToSet(d) : \A k \in Options : Had(e.snapshot)[k] = Absent => Defaults[e.key][k] = Absent
RecordsSane ==
  SaneRecord(saved) /\ SaneRecord(managed) /\ SaneEntries(executed) /\ \A d \in 1 .. 2 : SaneEntries(journals[d])

GiveInv == KindsApart /\ FromPlan /\ TheirsOK /\ StandingOK /\ OnlyAdded /\ RecordsSane

LEMMA AgreeFacts ==
  /\ \A x : Agree(x, x) /\ Agree(x, Nothing) /\ Agree(Nothing, x)
  /\ \A x, y : Agree(x, y) => Agree(y, x)
  /\ \A x, y : Within(x, y) => Agree(x, y)
  /\ \A x, y, z : Within(x, y) /\ Within(y, z) => Within(x, z)
BY DEF Agree, Within, Nothing

LEMMA KnownMembers ==
  ASSUME NEW E, NEW r, NEW P, NEW a, NEW x
  PROVE  x \in Known(E, r, P, a) <=>
           \/ x = Had(r[a])
           \/ \E e \in E : e.key = a /\ x = Had(e.snapshot)
           \/ \E op \in P : op.kind = "restore" /\ op.key = a /\ x = op.params
BY DEF Known

\* What is known less of, or of fewer add-ons, agrees still.
LEMMA KnownLess ==
  ASSUME NEW E, NEW r, NEW P, NEW A, NEW E2, NEW r2, NEW P2, NEW A2, Consistent(E, r, P, A), A \subseteq A2,
         \A a \in Addons \ A2 : Known(E2, r2, P2, a) \subseteq Known(E, r, P, a)
  PROVE  Consistent(E2, r2, P2, A2)
BY DEF Consistent

LEMMA KnownFewer ==
  ASSUME NEW E, NEW r, NEW P, NEW A, NEW E2, NEW r2, NEW P2, NEW A2, Consistent(E, r, P, A), A \subseteq A2,
         E2 \subseteq E, P2 \subseteq P, \A a \in Addons \ A2 : r2[a] = r[a]
  PROVE  Consistent(E2, r2, P2, A2)
<1>1. ASSUME NEW a \in Addons \ A2, NEW x \in Known(E2, r2, P2, a) PROVE x \in Known(E, r, P, a)
  BY <1>1, KnownMembers
<1> QED BY <1>1, KnownLess

\* Of an add-on about which a journal says nothing, and which no plan restores,
\* only what is recorded is known.
LEMMA KnownRecorded ==
  ASSUME NEW r, NEW A
  PROVE  Consistent({}, r, {}, A)
<1>1. ASSUME NEW a \in Addons \ A, NEW x \in Known({}, r, {}, a) PROVE x = Had(r[a]) BY <1>1, KnownMembers
<1> QED BY <1>1, AgreeFacts DEF Consistent

GiveContext == TypeOK /\ UndoInv /\ GiveInv

\* What the recording of an operation does.
LEMMA RecordFacts ==
  ASSUME TypeOK, Record, NEW op, op = Head(todo)
  PROVE  /\ phase = "record" /\ InHand /\ op \in ToSet(todo) /\ op.kind \in {"update", "restore"}
         /\ op.key \in Addons \ {Self} /\ op.params \in Params /\ step.current \in Stored
         /\ ToSet(todo') \subseteq ToSet(todo)
         /\ \A a \in Addons : managed'[a] = IF a = op.key THEN Recorded(op) ELSE managed[a]
         /\ ToSet(executed') = ToSet(executed) \cup {Entry(op)}
         /\ Entry(op).kind = op.kind /\ Entry(op).key = op.key /\ Entry(op).snapshot = managed[op.key]
         /\ op.kind = "restore" => Recorded(op) = Unmanaged /\ Had(Recorded(op)) = Nothing
         /\ op.kind = "update" =>
              Had(Recorded(op)) = [k \in Options |-> IF Had(managed[op.key])[k] # Keep \/ op.params[k] = Keep
                                                     THEN Had(managed[op.key])[k] ELSE step.current[k]]
<1> USE DEF disk, working, history, bounds
<1>1. phase = "record" /\ InHand BY DEF Record, InHand
<1>2. /\ op \in ToSet(todo) /\ op.kind \in {"update", "restore"} /\ op.key \in Addons \ {Self} /\ op.params \in Params
      /\ step.current \in Stored /\ todo # <<>> /\ todo \in Seq(Op_)
  BY <1>1, HandTyped, InHandTodo DEF TypeOK
<1>3. ToSet(todo') \subseteq ToSet(todo)
  <2>1. todo' = todo \/ todo' = Tail(todo) BY DEF Record
  <2>2. ToSet(Tail(todo)) \subseteq ToSet(todo) BY <1>2, ElementsTyped
  <2> QED BY <2>1, <2>2
<1>4. managed' = [managed EXCEPT ![op.key] = Recorded(op)] /\ executed' = Append(executed, Entry(op)) BY DEF Record
<1>5. \A a \in Addons : managed'[a] = IF a = op.key THEN Recorded(op) ELSE managed[a] BY <1>4 DEF TypeOK
<1>6. ToSet(executed') = ToSet(executed) \cup {Entry(op)}
  <2>1. Entry(op) \in Entry_ BY <1>1, LandedTyped
  <2> QED BY <1>4, <2>1, AppendMembers DEF TypeOK
<1>7. Entry(op).kind = op.kind /\ Entry(op).key = op.key /\ Entry(op).snapshot = managed[op.key] BY DEF Entry
<1>8. op.kind = "restore" => Recorded(op) = Unmanaged /\ Had(Recorded(op)) = Nothing BY DEF Recorded, Had
<1>9. ASSUME op.kind = "update"
      PROVE  Had(Recorded(op)) = [k \in Options |-> IF Had(managed[op.key])[k] # Keep \/ op.params[k] = Keep
                                                    THEN Had(managed[op.key])[k] ELSE step.current[k]]
  <2> DEFINE values == [k \in Options |-> IF Had(managed[op.key])[k] # Keep \/ op.params[k] = Keep
                                          THEN Had(managed[op.key])[k] ELSE step.current[k]]
  <2>1. Recorded(op) = [values |-> values, restart |-> op.restart] BY <1>9 DEF Recorded
  <2>2. op.restart \in BOOLEAN BY <1>2, ElementsTyped DEF Op_
  <2>3. Had(managed[op.key]) \in Params BY <1>2, HadTyped DEF TypeOK
  <2>4. values \in Params BY <1>2, <2>3 DEF Params, Stored
  <2> HIDE DEF values
  <2>5. Recorded(op) \in Recordable BY <2>1, <2>2, <2>4 DEF Recordable, Params
  <2>6. Recorded(op).values = values BY <2>1
  <2>7. Had(Recorded(op)) = values BY <2>5, <2>6, HadTyped
  <2> QED BY <2>7 DEF values
<1> QED BY <1>1, <1>2, <1>3, <1>5, <1>6, <1>7, <1>8, <1>9

\* What undoing an entry does to the record and to the journal.
LEMMA UndoFacts ==
  ASSUME TypeOK, UndoOne
  PROVE  /\ phase = "undo" /\ phase' = "undo"
         /\ \/ managed' = managed /\ theirs' = theirs
            \/ \E e \in ToSet(executed) : /\ e \in Entry_ /\ managed' = [managed EXCEPT ![e.key] = e.snapshot]
                                          /\ theirs' = GivenBack(e.key, Had(e.snapshot))
         /\ \A d \in 1 .. 2 : journals'[d] = journals[d] \/ (d = cur /\ ToSet(journals'[d]) \subseteq ToSet(executed))
<1> USE DEF disk, working, history, bounds
<1>1. phase = "undo" /\ phase' = "undo" /\ pos > 0 BY DEF UndoOne
<1>2. pos \in 1 .. Len(executed) BY <1>1, ElementsTyped DEF TypeOK
<1>3. executed[pos] \in ToSet(executed) /\ executed[pos] \in Entry_
  BY <1>2, ElementsTyped DEF TypeOK, ToSet
<1>4. \/ managed' = managed /\ theirs' = theirs
      \/ /\ managed' = [managed EXCEPT ![executed[pos].key] = executed[pos].snapshot]
         /\ theirs' = GivenBack(executed[pos].key, Had(executed[pos].snapshot))
  BY DEF UndoOne
<1>5. \/ journals' = journals
      \/ journals' = [journals EXCEPT ![cur] = Left((1 .. (pos - 1)) \cup kept)]
  BY DEF UndoOne
<1>6. ToSet(Left((1 .. (pos - 1)) \cup kept)) \subseteq ToSet(executed) BY LeftMembers
<1>7. \A d \in 1 .. 2 : journals'[d] = journals[d] \/ (d = cur /\ ToSet(journals'[d]) \subseteq ToSet(executed))
  BY <1>5, <1>6 DEF TypeOK
<1> QED BY <1>1, <1>3, <1>4, <1>7

\* A plan that is made updates an add-on or restores it.
LEMMA KindsStep == GiveContext /\ [Next]_vars => KindsApart'
<1> SUFFICES ASSUME GiveContext, [Next]_vars PROVE KindsApart' OBVIOUS
<1> USE DEF disk, working, history, bounds
<1>0. KindsApart BY DEF GiveContext, GiveInv
<1>1. CASE ToSet(plan') \subseteq ToSet(plan) BY <1>0, <1>1 DEF KindsApart
<1>2. plan' = plan \/ plan' = <<>> \/ (plan' = StillPending /\ StateSave) \/ (plan' = Plan /\ Loaded)
  BY Zenon DEF Next, Push, Edit, Crash, Reconcile, StartApply, ReadOptions, PostOptions, Restart, Revert, Record, ApplyDone,
         UndoOne, UndoDone, StartRollback, StateSave, vars
<1>3. CASE plan' = StillPending
  <2>1. ToSet(StillPending) \subseteq ToSet(plan) BY PendingMembers DEF GiveContext
  <2> QED BY <1>1, <1>3, <2>1
<1>4. CASE plan' = Plan /\ Loaded
  <2>1. \A op : op \in ToSet(Plan) <=> \E a \in Addons : op \in ToSet(PlanAddon(a)) \cup ToSet(PlanRestore(a))
    BY <1>4, PlanMembers DEF PlanContext, GiveContext
  <2>2. ASSUME NEW op1 \in ToSet(Plan), NEW op2 \in ToSet(Plan), op1.key = op2.key, op1.kind # "error", op2.kind # "error"
        PROVE  op1.kind = op2.kind
    <3>1. PICK a \in Addons : op1 \in ToSet(PlanAddon(a)) \cup ToSet(PlanRestore(a)) BY <2>1
    <3>2. PICK b \in Addons : op2 \in ToSet(PlanAddon(b)) \cup ToSet(PlanRestore(b)) BY <2>1
    <3>3. a = b BY <2>2, <3>1, <3>2, PlanOrigin
    <3> QED BY <2>2, <3>1, <3>2, <3>3, PlanOrigin
  <2> QED BY <1>4, <2>2 DEF KindsApart
<1> QED BY <1>1, <1>2, <1>3, <1>4, OfOne

\* What an apply has left, and what it did, is of the plan.
LEMMA FromPlanStep == GiveContext /\ [Next]_vars => FromPlan'
<1> SUFFICES ASSUME GiveContext, [Next]_vars PROVE FromPlan' OBVIOUS
<1> USE DEF disk, working, history, bounds
<1>0. FromPlan BY DEF GiveContext, GiveInv
<1>1. CASE Push \/ Edit \/ ReadOptions \/ PostOptions \/ Restart \/ Revert \/ ApplyDone \/ UndoOne \/ UndoDone \/ UNCHANGED vars
  <2>1. UNCHANGED <<mode, todo, executed, plan>> /\ (phase' # "idle" => phase # "idle")
    BY <1>1, Zenon DEF Push, Edit, ReadOptions, PostOptions, Restart, Revert, ApplyDone, UndoOne, UndoDone, Fail, vars
  <2> QED BY <1>0, <2>1 DEF FromPlan
<1>2. CASE Crash \/ Reconcile \/ StateSave \/ StartRollback
  <2>1. phase' = "idle" \/ mode' = "rollback" BY <1>2 DEF Crash, Reconcile, Idle, StateSave, StartRollback
  <2> QED BY <2>1 DEF FromPlan
<1>3. CASE StartApply
  <2>1. todo' = Executable(plan) /\ executed' = <<>> /\ plan' = plan /\ plan \in Seq(Op_)
    BY <1>3 DEF StartApply, GiveContext, TypeOK
  <2>2. ToSet(Executable(plan)) \subseteq ToSet(plan) BY <2>1, ExecutableMembers
  <2> QED BY <2>1, <2>2, OfOne DEF FromPlan
<1>4. CASE Record
  <2>1. PICK op : op = Head(todo) OBVIOUS
  <2>2. /\ phase = "record" /\ op \in ToSet(todo) /\ ToSet(todo') \subseteq ToSet(todo)
        /\ ToSet(executed') = ToSet(executed) \cup {Entry(op)} /\ Entry(op).kind = op.kind /\ Entry(op).key = op.key
    BY <1>4, <2>1, RecordFacts DEF GiveContext
  <2>3. mode' = mode /\ plan' = plan BY <1>4 DEF Record
  <2> QED BY <1>0, <2>2, <2>3 DEF FromPlan
<1> QED BY <1>1, <1>2, <1>3, <1>4 DEF Next

\* What an add-on had stays what it had while nothing is recorded of it.
LEMMA OwnedStill ==
  ASSUME NEW a \in Addons,
         \/ ~Posted(a) /\ ~Posted(a)' /\ Kept'[a] = Kept[a]
         \/ UNCHANGED <<todo, managed, step>> /\ Posted(a) /\ Posted(a)'
  PROVE  Owned(a)' = Owned(a)
BY DEF Owned, Posted

LEMMA TheirsStep == GiveContext /\ [Next]_vars => TheirsOK'
<1> SUFFICES ASSUME GiveContext, [Next]_vars PROVE TheirsOK' OBVIOUS
<1> USE DEF disk, working, history, bounds
<1>0. /\ DOMAIN theirs = Addons /\ \A a \in Addons \ astray : theirs[a] = Owned(a)
      /\ \A a \in Addons : Had(managed[a]) \in Params /\ Had(saved[a]) \in Params
  BY HadTyped DEF GiveContext, GiveInv, TheirsOK, TypeOK
<1>1. CASE Push \/ Edit \/ Reconcile \/ Restart \/ UNCHANGED vars
  <2>1. /\ UNCHANGED <<theirs, todo, managed, step, saved>> /\ astray \subseteq astray'
        /\ phase' = "idle" <=> phase = "idle"
        /\ phase' \in {"restart", "revert", "record"} <=> phase \in {"restart", "revert", "record"}
    BY <1>1 DEF Push, Edit, Reconcile, Idle, Restart, vars
  <2>2. Kept' = Kept /\ \A a \in Addons : Posted(a)' <=> Posted(a) BY <2>1 DEF Kept, Posted
  <2>3. \A a \in Addons : Owned(a)' = Owned(a) BY <2>1, <2>2, OwnedStill
  <2> QED BY <1>0, <2>1, <2>3 DEF TheirsOK
<1>2. CASE StartApply \/ ReadOptions \/ ApplyDone \/ UndoDone \/ StartRollback
  <2>1. /\ theirs' = theirs /\ astray' = astray /\ saved' = saved
        /\ (managed' = managed /\ phase # "idle") \/ (managed' = saved /\ phase = "idle")
        /\ phase \notin {"restart", "revert", "record"} /\ phase' \notin {"idle", "restart", "revert", "record"}
    BY <1>2 DEF StartApply, ReadOptions, ApplyDone, UndoDone, StartRollback, Idle, Fail
  <2>2. Kept' = Kept /\ \A a \in Addons : ~Posted(a)' /\ ~Posted(a) BY <2>1 DEF Kept, Posted
  <2>3. \A a \in Addons : Owned(a)' = Owned(a) BY <2>2, OwnedStill
  <2> QED BY <1>0, <2>1, <2>3 DEF TheirsOK
<1>3. CASE Crash \/ StateSave
  <2>1. theirs' = theirs /\ astray \subseteq astray' /\ phase' = "idle" BY <1>3 DEF Crash, StateSave
  <2>2. ASSUME NEW a \in Addons \ astray' PROVE ~Posted(a) /\ saved'[a] = Kept[a]
    <3>1. CASE StateSave
      <4>1. phase = "save" /\ (saved' = managed \/ (saved' = saved /\ astray' = astray \cup Unsaved))
        BY <3>1 DEF StateSave
      <4> QED BY <2>2, <4>1 DEF Posted, Kept, Unsaved
    <3>2. CASE Crash
      <4>1. saved' = saved /\ astray' = IF Idle THEN astray ELSE astray \cup Unsaved BY <3>2 DEF Crash
      <4>2. CASE Idle BY <4>1, <4>2 DEF Idle, Posted, Kept
      <4>3. CASE ~Idle
        <5>1. a \notin Unsaved BY <2>2, <4>1, <4>3
        <5>2. managed[a] = saved[a] BY <5>1 DEF Unsaved
        <5>3. Posted(a) => step # NoStep
          BY AddonOptionsAssumption DEF AddonOptionsAssumption, GiveContext, TypeOK, InHand, Posted
        <5>4. ~Posted(a) BY <5>1, <5>3 DEF Unsaved, Posted
        <5> QED BY <4>1, <4>3, <5>2, <5>4 DEF Kept, Idle
      <4> QED BY <4>2, <4>3
    <3> QED BY <1>3, <3>1, <3>2
  <2>3. \A a \in Addons : ~Posted(a)' /\ Kept'[a] = saved'[a] BY <2>1 DEF Kept, Posted
  <2>4. \A a \in Addons \ astray' : Owned(a)' = Owned(a) BY <2>2, <2>3, OwnedStill
  <2> QED BY <1>0, <2>1, <2>4 DEF TheirsOK
<1>4. CASE PostOptions
  <2>1. PICK op : op = Head(todo) OBVIOUS
  <2>2. /\ phase = "post" /\ InHand /\ UNCHANGED <<todo, managed, saved>> /\ astray \subseteq astray'
    BY <1>4 DEF PostOptions, InHand
  <2>3. \A a \in Addons : ~Posted(a) /\ Owned(a) = Had(managed[a]) BY <2>2 DEF Owned, Posted, Kept
  <2>4. CASE phase' = "undo"
    <3>1. theirs' = theirs BY <1>4, <2>4 DEF PostOptions
    <3>2. Kept' = Kept /\ \A a \in Addons : ~Posted(a)' BY <2>2, <2>4 DEF Kept, Posted
    <3>3. \A a \in Addons : Owned(a)' = Owned(a) BY <2>3, <3>2, OwnedStill
    <3> QED BY <1>0, <2>2, <3>1, <3>3 DEF TheirsOK
  <2>5. CASE phase' # "undo"
    <3>1. /\ theirs' = TakenOver(op) /\ step' = step /\ phase' \in {"restart", "record"}
          /\ astray' = IF raced THEN astray \cup {op.key} ELSE astray
      BY <1>4, <2>1, <2>5 DEF PostOptions, Fail
    <3>2. op.key \in Addons /\ op.kind \in {"update", "restore"} BY <2>1, <2>2, HandTyped, InHandTodo DEF GiveContext
    <3>3. ~raced => \A k \in Options : Current(op.key)[k] = step.current[k]
      BY <2>1, <2>2, <3>2 DEF GiveContext, UndoInv, StepOK
    <3>4. ASSUME NEW a \in Addons \ astray' PROVE theirs'[a] = Owned(a)'
      <4>1. theirs[a] = Had(managed[a]) /\ Had(managed[a]) \in Params BY <1>0, <2>2, <2>3, <3>4
      <4>2. \A k \in Options : op.kind = "restore" => theirs[a][k] = Had(managed[a])[k] BY <4>1
      <4>3. Had(managed[a]) = [k \in Options |-> Had(managed[a])[k]] BY <4>1 DEF Params
      <4>4. CASE a # op.key
        <5>1. theirs'[a] = theirs[a] BY <1>0, <3>1, <4>4 DEF TakenOver
        <5>2. ~Posted(a)' BY <2>1, <2>2, <4>4 DEF Posted
        <5>3. Owned(a)' = Had(managed[a]) BY <2>2, <2>5, <3>1, <5>2 DEF Owned, Kept
        <5> QED BY <4>1, <5>1, <5>3
      <4>5. CASE a = op.key /\ op.kind = "restore"
        <5>1. theirs'[a] = [k \in Options |-> theirs[a][k]] BY <1>0, <3>1, <4>5 DEF TakenOver
        <5>2. ~Posted(a)' BY <2>1, <2>2, <4>5 DEF Posted
        <5>3. Owned(a)' = Had(managed[a]) BY <2>2, <3>1, <5>2 DEF Owned, Kept
        <5> QED BY <4>1, <4>3, <5>1, <5>3
      <4>6. CASE a = op.key /\ op.kind = "update"
        <5>1. ~raced BY <3>1, <3>4, <4>6
        <5>2. theirs'[a] = [k \in Options |-> IF op.params[k] # Keep /\ Had(managed[a])[k] = Keep
                                              THEN Current(a)[k] ELSE theirs[a][k]]
          BY <1>0, <3>1, <4>6 DEF TakenOver
        <5>3. Posted(a)' BY <2>1, <2>2, <3>1, <4>6 DEF Posted
        <5>4. Owned(a)' = [k \in Options |-> IF Had(managed[a])[k] # Keep \/ op.params[k] = Keep
                                             THEN Had(managed[a])[k] ELSE step.current[k]]
          BY <2>1, <2>2, <3>1, <5>3 DEF Owned
        <5>5. ASSUME NEW k \in Options PROVE theirs'[a][k] = Owned(a)'[k]
          BY <3>3, <4>1, <4>6, <5>1, <5>2, <5>4
        <5> QED BY <5>2, <5>4, <5>5
      <4> QED BY <3>2, <4>4, <4>5, <4>6
    <3>5. DOMAIN theirs' = Addons BY <1>0, <3>1 DEF TakenOver
    <3> QED BY <3>4, <3>5 DEF TheirsOK
  <2> QED BY <2>4, <2>5
<1>5. CASE Revert
  <2>1. CASE phase' # "undo"
    <3>1. /\ UNCHANGED <<theirs, todo, managed, step, saved>> /\ astray \subseteq astray'
          /\ phase = "revert" /\ phase' = "record"
      BY <1>5, <2>1 DEF Revert, Fail
    <3>2. Kept' = Kept /\ \A a \in Addons : Posted(a)' <=> Posted(a) BY <3>1 DEF Kept, Posted
    <3>3. \A a \in Addons : Owned(a)' = Owned(a) BY <3>1, <3>2, OwnedStill
    <3> QED BY <1>0, <3>1, <3>3 DEF TheirsOK
  <2>2. CASE phase' = "undo"
    <3>1. PICK b : b = Head(todo).key OBVIOUS
    <3>2. /\ UNCHANGED <<todo, managed, saved, astray>> /\ phase = "revert" /\ theirs' = GivenBack(b, Had(managed[b]))
      BY <1>5, <2>2, <3>1 DEF Revert
    <3>3. b \in Addons BY <3>1, <3>2, HandTyped, InHandTodo DEF GiveContext, InHand
    <3>4. \A a \in Addons : Owned(a)' = Had(managed[a]) BY <2>2, <3>2 DEF Owned, Posted, Kept
    <3>5. ASSUME NEW a \in Addons \ astray' PROVE theirs'[a] = Had(managed[a])
      <4>1. theirs[a] = Owned(a) BY <1>0, <3>2, <3>5
      <4>2. Had(managed[a]) = [k \in Options |-> Had(managed[a])[k]] BY <1>0 DEF Params
      <4>3. CASE a # b
        <5>1. theirs'[a] = theirs[a] BY <1>0, <3>2, <4>3 DEF GivenBack
        <5>2. Owned(a) = Had(managed[a]) BY <3>1, <3>2, <4>3 DEF Owned, Posted, Kept
        <5> QED BY <4>1, <5>1, <5>2
      <4>4. CASE a = b
        <5>1. theirs'[a] = [k \in Options |-> IF Had(managed[a])[k] = Keep THEN Keep
                                              ELSE IF theirs[a][k] # Keep THEN theirs[a][k] ELSE Had(managed[a])[k]]
          BY <1>0, <3>2, <4>4 DEF GivenBack
        <5>2. \A k \in Options : Had(managed[a])[k] # Keep => Owned(a)[k] = Had(managed[a])[k]
          BY <3>2 DEF Owned, Kept
        <5>3. \A k \in Options : theirs'[a][k] = Had(managed[a])[k] BY <4>1, <5>1, <5>2
        <5> QED BY <4>2, <5>1, <5>3
      <4> QED BY <4>3, <4>4
    <3>6. DOMAIN theirs' = Addons BY <1>0, <3>2 DEF GivenBack
    <3> QED BY <3>4, <3>5, <3>6 DEF TheirsOK
  <2> QED BY <2>1, <2>2
<1>6. CASE Record
  <2>1. PICK op : op = Head(todo) OBVIOUS
  <2>2. /\ phase = "record" /\ op.kind \in {"update", "restore"} /\ op.key \in Addons
        /\ \A a \in Addons : managed'[a] = IF a = op.key THEN Recorded(op) ELSE managed[a]
        /\ op.kind = "restore" => Recorded(op) = Unmanaged /\ Had(Recorded(op)) = Nothing
        /\ op.kind = "update" =>
             Had(Recorded(op)) = [k \in Options |-> IF Had(managed[op.key])[k] # Keep \/ op.params[k] = Keep
                                                    THEN Had(managed[op.key])[k] ELSE step.current[k]]
    BY <1>6, <2>1, RecordFacts DEF GiveContext
  <2>3. /\ theirs' = IF op.kind = "restore" THEN [theirs EXCEPT ![op.key] = Nothing] ELSE theirs
        /\ phase' \in {"undo", "read", "save"} /\ astray' = astray
    BY <1>6, <2>1 DEF Record
  <2>4. \A a \in Addons : Owned(a)' = Had(managed'[a]) BY <2>3 DEF Owned, Posted, Kept, Had
  <2>5. ASSUME NEW a \in Addons \ astray' PROVE theirs'[a] = Had(managed'[a])
    <3>1. theirs[a] = Owned(a) BY <1>0, <2>3, <2>5
    <3>2. CASE a # op.key
      <4>1. theirs'[a] = theirs[a] /\ managed'[a] = managed[a] BY <1>0, <2>2, <2>3, <3>2
      <4>2. Owned(a) = Had(managed[a]) BY <2>1, <2>2, <3>2 DEF Owned, Posted, Kept
      <4> QED BY <3>1, <4>1, <4>2
    <3>3. CASE a = op.key /\ op.kind = "restore" BY <1>0, <2>2, <2>3, <3>3
    <3>4. CASE a = op.key /\ op.kind = "update"
      <4>1. theirs'[a] = theirs[a] BY <2>3, <3>4
      <4>2. Owned(a) = Had(Recorded(op)) BY <2>1, <2>2, <3>4 DEF Owned, Posted
      <4> QED BY <2>2, <3>1, <3>4, <4>1, <4>2
    <3> QED BY <2>2, <3>2, <3>3, <3>4
  <2>6. DOMAIN theirs' = Addons BY <1>0, <2>3
  <2> QED BY <2>4, <2>5, <2>6 DEF TheirsOK
<1>7. CASE UndoOne
  <2>1. astray \subseteq astray' /\ executed' = executed /\ saved' = saved BY <1>7 DEF UndoOne
  <2>2. phase = "undo" /\ phase' = "undo" BY <1>7, UndoFacts DEF GiveContext
  <2>3. \A a \in Addons : Owned(a) = Had(managed[a]) /\ Owned(a)' = Had(managed'[a])
    BY <2>2 DEF Owned, Posted, Kept, Had
  <2>4. CASE managed' = managed /\ theirs' = theirs BY <1>0, <2>1, <2>3, <2>4 DEF TheirsOK
  <2>5. ASSUME NEW e \in ToSet(executed), e \in Entry_, managed' = [managed EXCEPT ![e.key] = e.snapshot],
               theirs' = GivenBack(e.key, Had(e.snapshot))
        PROVE  TheirsOK'
    <3>1. e.key \in Addons /\ Had(e.snapshot) \in Params BY <2>5, HadTyped DEF Entry_
    <3>2. ASSUME NEW a \in Addons \ astray' PROVE theirs'[a] = Had(managed'[a])
      <4>1. theirs[a] = Had(managed[a]) BY <1>0, <2>1, <2>3, <3>2
      <4>2. CASE a # e.key BY <1>0, <2>5, <4>1, <4>2 DEF GivenBack, GiveContext, TypeOK
      <4>3. CASE a = e.key
        <5>1. managed'[a] = e.snapshot BY <2>5, <4>3 DEF GiveContext, TypeOK
        <5>2. theirs'[a] = [k \in Options |-> IF Had(e.snapshot)[k] = Keep THEN Keep
                                              ELSE IF theirs[a][k] # Keep THEN theirs[a][k] ELSE Had(e.snapshot)[k]]
          BY <1>0, <2>5, <4>3 DEF GivenBack
        <5>3. Agree(Had(e.snapshot), Had(managed[a]))
          <6>1. Consistent(ToSet(executed), managed, ToSet(plan), astray)
            BY <2>2 DEF GiveContext, GiveInv, StandingOK
          <6>2. /\ Had(e.snapshot) \in Known(ToSet(executed), managed, ToSet(plan), a)
                /\ Had(managed[a]) \in Known(ToSet(executed), managed, ToSet(plan), a)
            BY <2>5, <4>3, KnownMembers
          <6> QED BY <2>1, <3>2, <6>1, <6>2 DEF Consistent
        <5>4. Had(e.snapshot) = [k \in Options |-> Had(e.snapshot)[k]] BY <3>1 DEF Params
        <5>5. \A k \in Options : theirs'[a][k] = Had(e.snapshot)[k] BY <4>1, <5>2, <5>3 DEF Agree
        <5> QED BY <5>1, <5>2, <5>4, <5>5
      <4> QED BY <4>2, <4>3
    <3>3. DOMAIN theirs' = Addons BY <1>0, <2>5 DEF GivenBack
    <3> QED BY <2>3, <3>2, <3>3 DEF TheirsOK
  <2> QED BY <1>7, <2>4, <2>5, UndoFacts DEF GiveContext
<1> QED BY <1>1, <1>2, <1>3, <1>4, <1>5, <1>6, <1>7 DEF Next

\* Whatever is known of what an add-on had agrees, after every step.
LEMMA StandingStep == GiveContext /\ [Next]_vars => StandingOK'
<1> SUFFICES ASSUME GiveContext, [Next]_vars PROVE StandingOK' OBVIOUS
<1> USE DEF disk, working, history, bounds
<1>0. StandingOK BY DEF GiveContext, GiveInv
<1>a. /\ cur \in 1 .. 2 /\ pointer \in 0 .. 2 /\ savedPointer \in 0 .. 2 /\ DOMAIN journals = 1 .. 2
      /\ DOMAIN managed = Addons
  BY DEF GiveContext, TypeOK
<1>1. CASE Push \/ Edit \/ ReadOptions \/ PostOptions \/ Restart \/ Revert \/ ApplyDone \/ UNCHANGED vars
  <2>1. UNCHANGED <<mode, executed, managed, saved, plan, journals, cur, savedPointer, pointer>>
    BY <1>1, Zenon DEF Push, Edit, ReadOptions, PostOptions, Restart, Revert, ApplyDone, Fail, vars
  <2>2. astray \subseteq astray' /\ (phase' = "idle" <=> phase = "idle")
    BY <1>1, Zenon DEF Push, Edit, ReadOptions, PostOptions, Restart, Revert, ApplyDone, Fail, vars
  <2>3. \A E, r, P : Consistent(E, r, P, astray) => Consistent(E, r, P, astray') BY <2>2, KnownFewer
  <2>4. \A p : Entries(p)' = Entries(p) BY <2>1 DEF Entries
  <2> QED BY <1>0, <2>1, <2>2, <2>3, <2>4 DEF StandingOK
<1>2. CASE Crash
  <2>1. /\ plan' = <<>> /\ pointer' = savedPointer /\ phase' = "idle" /\ UNCHANGED <<journals, saved, savedPointer>>
        /\ astray' = IF Idle THEN astray ELSE astray \cup Unsaved
    BY <1>2 DEF Crash
  <2>2. Consistent(Entries(savedPointer), saved, {}, astray')
    <3>1. CASE Idle
      <4>1. astray' = astray /\ phase = "idle" BY <2>1, <3>1 DEF Idle
      <4> QED BY <1>0, <4>1 DEF StandingOK
    <3>2. CASE ~Idle
      <4>1. /\ phase # "idle" /\ astray \subseteq astray' /\ \A a \in Addons \ astray' : managed[a] = saved[a]
        BY <2>1, <3>2 DEF Idle, Unsaved
      <4>2. CASE savedPointer # cur
        <5>1. Consistent(Entries(savedPointer), saved, {}, astray) BY <1>0, <4>1, <4>2 DEF StandingOK
        <5> QED BY <4>1, <5>1, KnownFewer
      <4>3. CASE savedPointer = cur
        <5>1. Consistent(ToSet(executed), managed, ToSet(plan), astray) /\ ToSet(journals[cur]) \subseteq ToSet(executed)
          BY <1>0, <4>1 DEF StandingOK
        <5>2. Entries(savedPointer) \subseteq ToSet(executed) BY <1>a, <4>3, <5>1 DEF Entries
        <5> QED BY <4>1, <5>1, <5>2, KnownFewer
      <4> QED BY <4>2, <4>3
    <3> QED BY <3>1, <3>2
  <2>3. Entries(savedPointer)' = Entries(savedPointer) /\ Entries(pointer)' = Entries(savedPointer) BY <2>1 DEF Entries
  <2>4. ToSet(plan') = {} BY <2>1, OfOne
  <2> QED BY <2>1, <2>2, <2>3, <2>4 DEF StandingOK
<1>3. CASE Reconcile
  <2>1. /\ phase = "idle" /\ phase' = "idle" /\ UNCHANGED <<saved, savedPointer, journals, pointer, astray>>
        /\ plan' = <<>> \/ (plan' = Plan /\ Loaded)
    BY <1>3 DEF Reconcile, Idle
  <2>2. /\ Consistent(Entries(pointer), saved, ToSet(plan), astray) /\ Consistent(Entries(savedPointer), saved, {}, astray)
    BY <1>0, <2>1 DEF StandingOK
  <2>3. Consistent(Entries(pointer), saved, ToSet(plan'), astray)
    <3>1. CASE plan' = <<>>
      <4>1. ToSet(plan') = {} BY <3>1, OfOne
      <4> QED BY <2>2, <4>1, KnownFewer
    <3>2. CASE plan' = Plan /\ Loaded
      <4>1. \A op : op \in ToSet(Plan) <=> \E a \in Addons : op \in ToSet(PlanAddon(a)) \cup ToSet(PlanRestore(a))
        BY <3>2, PlanMembers DEF PlanContext, GiveContext
      <4>2. ASSUME NEW a \in Addons \ astray, NEW x \in Known(Entries(pointer), saved, ToSet(Plan), a)
            PROVE  x \in Known(Entries(pointer), saved, ToSet(plan), a)
        <5>1. CASE x = Had(saved[a]) \/ \E e \in Entries(pointer) : e.key = a /\ x = Had(e.snapshot)
          BY <5>1, KnownMembers
        <5>2. ASSUME NEW op \in ToSet(Plan), op.kind = "restore", op.key = a, x = op.params
              PROVE  x = Had(saved[a])
          <6>1. PICK b \in Addons : op \in ToSet(PlanAddon(b)) \cup ToSet(PlanRestore(b)) BY <4>1
          <6>2. b = a /\ op \in ToSet(PlanRestore(a)) BY <5>2, <6>1, PlanOrigin
          <6>3. saved[a] # Unmanaged /\ op.params = saved[a].values BY <5>2, <6>2, PlanOrigin
          <6> QED BY <5>2, <6>3 DEF Had
        <5> QED BY <4>2, <5>1, <5>2, KnownMembers
      <4> QED BY <2>2, <3>2, <4>2, KnownLess
    <3> QED BY <2>1, <3>1, <3>2
  <2>4. Entries(pointer)' = Entries(pointer) /\ Entries(savedPointer)' = Entries(savedPointer) BY <2>1 DEF Entries
  <2> QED BY <2>1, <2>2, <2>3, <2>4 DEF StandingOK
<1>4. CASE StartApply
  <2>1. /\ phase = "idle" /\ phase' # "idle" /\ managed' = saved /\ executed' = <<>> /\ mode' = "apply"
        /\ UNCHANGED <<saved, savedPointer, plan, pointer, astray>>
        /\ cur' = (IF pointer = 1 THEN 2 ELSE 1) /\ journals' = [journals EXCEPT ![cur'] = <<>>]
    BY <1>4 DEF StartApply, Idle
  <2>2. Consistent(Entries(pointer), saved, ToSet(plan), astray) /\ Consistent(Entries(savedPointer), saved, {}, astray)
    BY <1>0, <2>1 DEF StandingOK
  <2>3. journals'[cur'] = <<>> /\ \A d \in 1 .. 2 : d # cur' => journals'[d] = journals[d] BY <1>a, <2>1
  <2>4. ToSet(executed') = {} /\ ToSet(journals'[cur']) = {} BY <2>1, <2>3, OfOne
  <2>5. Consistent(ToSet(executed'), managed', ToSet(plan'), astray') BY <2>1, <2>2, <2>4, KnownFewer
  <2>6. savedPointer # cur' => Entries(savedPointer)' = Entries(savedPointer) BY <1>a, <2>1, <2>3 DEF Entries
  <2> QED BY <2>1, <2>2, <2>4, <2>5, <2>6 DEF StandingOK
<1>5. CASE StartRollback
  <2>1. /\ phase = "idle" /\ phase' # "idle" /\ managed' = saved /\ executed' = journals[pointer] /\ mode' = "rollback"
        /\ pointer # 0 /\ cur' = pointer /\ UNCHANGED <<saved, savedPointer, plan, pointer, astray, journals>>
    BY <1>5 DEF StartRollback, Idle
  <2>2. Consistent(Entries(pointer), saved, ToSet(plan), astray) /\ Consistent(Entries(savedPointer), saved, {}, astray)
    BY <1>0, <2>1 DEF StandingOK
  <2>3. ToSet(executed') = Entries(pointer) BY <2>1 DEF Entries
  <2>4. Entries(savedPointer)' = Entries(savedPointer) BY <2>1 DEF Entries
  <2>5. ToSet(journals'[cur']) = ToSet(executed') BY <2>1
  <2> QED BY <2>1, <2>2, <2>3, <2>4, <2>5 DEF StandingOK
<1>6. CASE Record
  <2>1. PICK op : op = Head(todo) OBVIOUS
  <2>2. /\ phase = "record" /\ InHand /\ op \in ToSet(todo) /\ op.kind \in {"update", "restore"} /\ op.key \in Addons
        /\ \A a \in Addons : managed'[a] = IF a = op.key THEN Recorded(op) ELSE managed[a]
        /\ ToSet(executed') = ToSet(executed) \cup {Entry(op)}
        /\ Entry(op).kind = op.kind /\ Entry(op).key = op.key /\ Entry(op).snapshot = managed[op.key]
        /\ op.kind = "restore" => Recorded(op) = Unmanaged /\ Had(Recorded(op)) = Nothing
        /\ op.kind = "update" =>
             Had(Recorded(op)) = [k \in Options |-> IF Had(managed[op.key])[k] # Keep \/ op.params[k] = Keep
                                                    THEN Had(managed[op.key])[k] ELSE step.current[k]]
    BY <1>6, <2>1, RecordFacts DEF GiveContext
  <2>3. /\ UNCHANGED <<saved, savedPointer, plan, pointer, mode, cur, astray>> /\ phase' # "idle"
        /\ journals' = journals \/ journals' = [journals EXCEPT ![cur] = executed']
    BY <1>6 DEF Record
  <2>4. /\ Consistent(ToSet(executed), managed, ToSet(plan), astray)
        /\ ToSet(journals[cur]) \subseteq ToSet(executed)
        /\ savedPointer # cur => Consistent(Entries(savedPointer), saved, {}, astray)
        /\ mode = "rollback" => cur = pointer
    BY <1>0, <2>2 DEF StandingOK
  <2>5. mode = "apply" BY <2>2 DEF GiveContext, UndoInv, Undoable, ExecOK
  <2>6. ToSet(journals'[cur]) \subseteq ToSet(executed') BY <1>a, <2>2, <2>3, <2>4
  <2>7. savedPointer # cur => Entries(savedPointer)' = Entries(savedPointer) BY <1>a, <2>3 DEF Entries
  <2>8. op \in ToSet(plan) /\ \A e \in ToSet(executed) : \E op2 \in ToSet(plan) : op2.kind = e.kind /\ op2.key = e.key
    BY <2>2, <2>5 DEF GiveContext, GiveInv, FromPlan
  <2>9. /\ \A e \in ToSet(executed) : e.key = op.key => e.kind = op.kind
        /\ \A op2 \in ToSet(plan) : op2.key = op.key /\ op2.kind = "restore" => op.kind = "restore"
    <3>1. \A e \in ToSet(executed) : e.kind \in {"update", "restore"}
      <4>1. ToSet(executed) \subseteq Entry_ BY ElementsTyped DEF GiveContext, TypeOK
      <4> QED BY <4>1 DEF Entry_
    <3> QED BY <2>2, <2>8, <3>1 DEF GiveContext, GiveInv, KindsApart
  <2>10. \A a \in Addons \ astray : \A x \in Known(ToSet(executed'), managed', ToSet(plan), a) :
           x \in Known(ToSet(executed), managed, ToSet(plan), a) \/ (a = op.key /\ x = Had(Recorded(op)))
    <3>1. SUFFICES ASSUME NEW a \in Addons \ astray, NEW x \in Known(ToSet(executed'), managed', ToSet(plan), a)
                   PROVE  x \in Known(ToSet(executed), managed, ToSet(plan), a) \/ (a = op.key /\ x = Had(Recorded(op)))
      OBVIOUS
    <3>2. CASE x = Had(managed'[a]) BY <2>2, <3>2, KnownMembers
    <3>3. ASSUME NEW e \in ToSet(executed'), e.key = a, x = Had(e.snapshot)
          PROVE  x \in Known(ToSet(executed), managed, ToSet(plan), a)
      <4>1. CASE e \in ToSet(executed) BY <3>3, <4>1, KnownMembers
      <4>2. CASE e = Entry(op)
        <5>1. a = op.key /\ x = Had(managed[a]) BY <2>2, <3>3, <4>2
        <5> QED BY <5>1, KnownMembers
      <4> QED BY <2>2, <4>1, <4>2
    <3>4. CASE \E op2 \in ToSet(plan) : op2.kind = "restore" /\ op2.key = a /\ x = op2.params BY <3>4, KnownMembers
    <3> QED BY <3>1, <3>2, <3>3, <3>4, KnownMembers
  <2>11. \A x \in Known(ToSet(executed), managed, ToSet(plan), op.key) : Agree(x, Had(Recorded(op)))
    <3>1. CASE op.kind = "restore" BY <2>2, <3>1, AgreeFacts
    <3>2. CASE op.kind = "update"
      <4>1. Within(Had(managed[op.key]), Had(Recorded(op))) BY <2>2, <3>2 DEF Within
      <4>2. ASSUME NEW e \in ToSet(executed), e.key = op.key PROVE Within(Had(e.snapshot), Had(Recorded(op)))
        <5>1. Within(Had(e.snapshot), Had(managed[op.key]))
          BY <2>2, <2>9, <3>2, <4>2 DEF GiveContext, GiveInv, OnlyAdded
        <5> QED BY <4>1, <5>1, AgreeFacts
      <4>3. ~\E op2 \in ToSet(plan) : op2.kind = "restore" /\ op2.key = op.key BY <2>9, <3>2
      <4> QED BY <4>1, <4>2, <4>3, KnownMembers, AgreeFacts
    <3> QED BY <2>2, <3>1, <3>2
  <2>12. Consistent(ToSet(executed'), managed', ToSet(plan), astray)
    <3>1. SUFFICES ASSUME NEW a \in Addons \ astray,
                          NEW x \in Known(ToSet(executed'), managed', ToSet(plan), a),
                          NEW y \in Known(ToSet(executed'), managed', ToSet(plan), a)
                   PROVE  Agree(x, y)
      BY DEF Consistent
    <3> QED BY <2>4, <2>10, <2>11, <3>1, AgreeFacts DEF Consistent
  <2> QED BY <2>3, <2>4, <2>6, <2>7, <2>12 DEF StandingOK
<1>7. CASE UndoOne
  <2>1. /\ phase' # "idle" /\ phase # "idle"
        /\ managed' = managed \/ \E e \in ToSet(executed) : managed' = [managed EXCEPT ![e.key] = e.snapshot]
        /\ \A d \in 1 .. 2 : journals'[d] = journals[d] \/ (d = cur /\ ToSet(journals'[d]) \subseteq ToSet(executed))
    BY <1>7, UndoFacts DEF GiveContext
  <2>2. UNCHANGED <<saved, savedPointer, plan, pointer, mode, cur, executed>> /\ astray \subseteq astray'
    BY <1>7 DEF UndoOne
  <2>3. /\ Consistent(ToSet(executed), managed, ToSet(plan), astray)
        /\ ToSet(journals[cur]) \subseteq ToSet(executed)
        /\ savedPointer # cur => Consistent(Entries(savedPointer), saved, {}, astray)
        /\ mode = "rollback" => cur = pointer
    BY <1>0, <2>1 DEF StandingOK
  <2>4. ToSet(journals'[cur]) \subseteq ToSet(executed) BY <1>a, <2>1, <2>3
  <2>5. savedPointer # cur => Entries(savedPointer)' = Entries(savedPointer) BY <1>a, <2>1, <2>2 DEF Entries
  <2>6. Consistent(ToSet(executed), managed', ToSet(plan), astray)
    <3>1. SUFFICES ASSUME NEW e \in ToSet(executed), managed' = [managed EXCEPT ![e.key] = e.snapshot]
                   PROVE  Consistent(ToSet(executed), managed', ToSet(plan), astray)
      BY <2>1, <2>3
    <3>2. ASSUME NEW a \in Addons \ astray, NEW x \in Known(ToSet(executed), managed', ToSet(plan), a)
          PROVE  x \in Known(ToSet(executed), managed, ToSet(plan), a)
      <4>1. Had(managed'[a]) = Had(managed[a]) \/ (e.key = a /\ Had(managed'[a]) = Had(e.snapshot)) BY <1>a, <3>1
      <4> QED BY <3>2, <4>1, KnownMembers
    <3> QED BY <2>3, <3>2, KnownLess
  <2>7. Consistent(ToSet(executed), managed', ToSet(plan), astray') BY <2>2, <2>6, KnownFewer
  <2>8. savedPointer # cur => Consistent(Entries(savedPointer), saved, {}, astray') BY <2>2, <2>3, KnownFewer
  <2> QED BY <2>1, <2>2, <2>3, <2>4, <2>5, <2>7, <2>8 DEF StandingOK
<1>8. CASE UndoDone
  <2>1. /\ phase = "undo" /\ phase' = "save" /\ UNCHANGED <<saved, savedPointer, plan, pointer, mode, cur, astray, executed, managed>>
        /\ journals' = journals \/ journals' = [journals EXCEPT ![cur] = NotUndone]
    BY <1>8 DEF UndoDone
  <2>2. ToSet(NotUndone) \subseteq ToSet(executed) BY LeftMembers DEF NotUndone, GiveContext
  <2>3. /\ Consistent(ToSet(executed), managed, ToSet(plan), astray)
        /\ ToSet(journals[cur]) \subseteq ToSet(executed)
        /\ savedPointer # cur => Consistent(Entries(savedPointer), saved, {}, astray)
        /\ mode = "rollback" => cur = pointer
    BY <1>0, <2>1 DEF StandingOK
  <2>4. ToSet(journals'[cur]) \subseteq ToSet(executed) BY <1>a, <2>1, <2>2, <2>3
  <2>5. savedPointer # cur => Entries(savedPointer)' = Entries(savedPointer) BY <1>a, <2>1 DEF Entries
  <2> QED BY <2>1, <2>3, <2>4, <2>5 DEF StandingOK
<1>9. CASE StateSave
  <2>1. /\ phase = "save" /\ phase' = "idle" /\ journals' = journals /\ astray \subseteq astray'
        /\ plan' \in {plan, StillPending}
    BY <1>9 DEF StateSave
  <2>2. /\ Consistent(ToSet(executed), managed, ToSet(plan), astray)
        /\ ToSet(journals[cur]) \subseteq ToSet(executed)
        /\ savedPointer # cur => Consistent(Entries(savedPointer), saved, {}, astray)
        /\ mode = "rollback" => cur = pointer
    BY <1>0, <2>1 DEF StandingOK
  <2>3. ToSet(plan') \subseteq ToSet(plan) BY <2>1, PendingMembers DEF GiveContext
  <2>4. Entries(cur) \subseteq ToSet(executed) /\ Entries(0) \subseteq ToSet(executed) BY <2>2 DEF Entries
  <2>5. \A a \in Addons \ astray' : saved'[a] = managed[a]
    BY <1>9 DEF StateSave, Unsaved
  <2>6. \A p : Entries(p)' = Entries(p) BY <2>1 DEF Entries
  <2>7. Consistent(Entries(0), saved', ToSet(plan'), astray') /\ Consistent(Entries(cur), saved', ToSet(plan'), astray')
        /\ Consistent(Entries(0), saved', {}, astray') /\ Consistent(Entries(cur), saved', {}, astray')
    BY <2>1, <2>2, <2>3, <2>4, <2>5, KnownFewer
  <2>8. pointer' \in {0, cur} /\ (savedPointer' \in {0, cur} \/ (savedPointer' = savedPointer /\ saved' = saved))
    BY <1>9, <2>2 DEF StateSave, GiveContext, TypeOK
  <2>9. Consistent(Entries(savedPointer'), saved', {}, astray')
    <3>1. CASE savedPointer' \in {0, cur} BY <2>7, <3>1
    <3>2. CASE savedPointer' = savedPointer /\ saved' = saved /\ savedPointer # cur BY <2>1, <2>2, <3>2, KnownFewer
    <3> QED BY <2>8, <3>1, <3>2
  <2>10. Consistent(Entries(pointer'), saved', ToSet(plan'), astray') BY <2>7, <2>8
  <2> QED BY <2>1, <2>6, <2>9, <2>10 DEF StandingOK, Entries
<1> QED BY <1>1, <1>2, <1>3, <1>4, <1>5, <1>6, <1>7, <1>8, <1>9 DEF Next

\* What has been updated has only been added to.
LEMMA OnlyAddedStep == GiveContext /\ [Next]_vars => OnlyAdded'
<1> SUFFICES ASSUME GiveContext, [Next]_vars PROVE OnlyAdded' OBVIOUS
<1> USE DEF disk, working, history, bounds
<1>0. OnlyAdded BY DEF GiveContext, GiveInv
<1>1. CASE Push \/ Edit \/ Reconcile \/ ReadOptions \/ PostOptions \/ Restart \/ Revert \/ UNCHANGED vars
  <2>1. UNCHANGED <<executed, managed>> /\ (phase' = "read" \/ InHand' => phase = "read" \/ InHand)
    BY <1>1, Zenon DEF Push, Edit, Reconcile, ReadOptions, PostOptions, Restart, Revert, Fail, InHand, vars
  <2> QED BY <1>0, <2>1 DEF OnlyAdded
<1>2. CASE Crash \/ ApplyDone \/ UndoOne \/ UndoDone \/ StartRollback \/ StateSave
  <2>1. phase' \in {"idle", "save", "undo"} BY <1>2 DEF Crash, ApplyDone, UndoOne, UndoDone, StartRollback, StateSave
  <2> QED BY <2>1 DEF OnlyAdded, InHand
<1>3. CASE StartApply
  <2>1. executed' = <<>> BY <1>3 DEF StartApply
  <2> QED BY <2>1, OfOne DEF OnlyAdded
<1>4. CASE Record
  <2>1. PICK op : op = Head(todo) OBVIOUS
  <2>2. /\ phase = "record" /\ InHand /\ op \in ToSet(todo) /\ op.kind \in {"update", "restore"} /\ op.key \in Addons
        /\ \A a \in Addons : managed'[a] = IF a = op.key THEN Recorded(op) ELSE managed[a]
        /\ ToSet(executed') = ToSet(executed) \cup {Entry(op)}
        /\ Entry(op).kind = op.kind /\ Entry(op).key = op.key /\ Entry(op).snapshot = managed[op.key]
        /\ op.kind = "restore" => Recorded(op) = Unmanaged
        /\ op.kind = "update" =>
             Had(Recorded(op)) = [k \in Options |-> IF Had(managed[op.key])[k] # Keep \/ op.params[k] = Keep
                                                    THEN Had(managed[op.key])[k] ELSE step.current[k]]
    BY <1>4, <2>1, RecordFacts DEF GiveContext
  <2>3. mode = "apply" BY <2>2 DEF GiveContext, UndoInv, Undoable, ExecOK
  <2>4. \A e \in ToSet(executed) : e.key \in Addons /\ e.kind \in {"update", "restore"}
    <3>1. ToSet(executed) \subseteq Entry_ BY ElementsTyped DEF GiveContext, TypeOK
    <3> QED BY <3>1 DEF Entry_
  <2>5. \A e \in ToSet(executed) : e.key = op.key => e.kind = op.kind
    <3>1. op \in ToSet(plan) /\ \A e \in ToSet(executed) : \E op2 \in ToSet(plan) : op2.kind = e.kind /\ op2.key = e.key
      BY <2>2, <2>3 DEF GiveContext, GiveInv, FromPlan
    <3> QED BY <2>2, <2>4, <3>1 DEF GiveContext, GiveInv, KindsApart
  <2>6. ASSUME NEW e \in ToSet(executed')
        PROVE  IF e.kind = "update" THEN Within(Had(e.snapshot), Had(managed'[e.key])) ELSE managed'[e.key] = Unmanaged
    <3>1. op.kind = "update" => Within(Had(managed[op.key]), Had(Recorded(op))) BY <2>2 DEF Within
    <3>2. CASE e = Entry(op) BY <2>2, <3>1, <3>2
    <3>3. CASE e \in ToSet(executed)
      <4>1. IF e.kind = "update" THEN Within(Had(e.snapshot), Had(managed[e.key])) ELSE managed[e.key] = Unmanaged
        BY <1>0, <2>2, <3>3 DEF OnlyAdded
      <4>2. CASE e.key # op.key
        <5>1. managed'[e.key] = managed[e.key] BY <2>2, <2>4, <3>3, <4>2
        <5> QED BY <4>1, <5>1
      <4>3. CASE e.key = op.key
        <5>1. managed'[e.key] = Recorded(op) /\ e.kind = op.kind BY <2>2, <2>5, <3>3, <4>3
        <5>2. CASE op.kind = "update"
          <6>1. Within(Had(e.snapshot), Had(managed[op.key])) BY <4>1, <4>3, <5>1, <5>2
          <6>2. Within(Had(e.snapshot), Had(Recorded(op))) BY <3>1, <5>2, <6>1, AgreeFacts
          <6> QED BY <5>1, <5>2, <6>2
        <5>3. CASE op.kind = "restore" BY <2>2, <5>1, <5>3
        <5> QED BY <2>2, <5>2, <5>3
      <4> QED BY <4>2, <4>3
    <3> QED BY <2>2, <3>2, <3>3
  <2> QED BY <2>6 DEF OnlyAdded, Had
<1> QED BY <1>1, <1>2, <1>3, <1>4 DEF Next

LEMMA NothingSane == SaneRecord(NothingManaged) /\ SaneEntries(<<>>)
<1>1. Keep # Absent BY AddonOptionsAssumption DEF AddonOptionsAssumption
<1>2. \A a \in Addons : Had(NothingManaged[a]) = Nothing BY DEF NothingManaged, Had
<1> QED BY <1>1, <1>2, OfOne DEF SaneRecord, SaneEntries, Nothing

\* An option is recorded as having had no value only where there is no default.
LEMMA SaneStep == GiveContext /\ [Next]_vars => RecordsSane'
<1> SUFFICES ASSUME GiveContext, [Next]_vars PROVE RecordsSane' OBVIOUS
<1> USE DEF disk, working, history, bounds
<1>0. /\ SaneRecord(saved) /\ SaneRecord(managed) /\ SaneEntries(executed) /\ \A d \in 1 .. 2 : SaneEntries(journals[d])
      /\ DOMAIN journals = 1 .. 2 /\ DOMAIN managed = Addons /\ cur \in 1 .. 2 /\ pointer \in 0 .. 2
  BY DEF GiveContext, GiveInv, RecordsSane, TypeOK
<1>1. CASE Push \/ Edit \/ Reconcile \/ ReadOptions \/ PostOptions \/ Restart \/ Revert \/ ApplyDone \/ UNCHANGED vars
  <2>1. UNCHANGED <<saved, managed, executed, journals>>
    BY <1>1 DEF Push, Edit, Reconcile, ReadOptions, PostOptions, Restart, Revert, ApplyDone, Fail, vars
  <2> QED BY <1>0, <2>1, Zenon DEF RecordsSane
<1>2. CASE Crash \/ StateSave
  <2>1. /\ saved' \in {saved, managed} /\ managed' = NothingManaged /\ executed' = <<>> /\ journals' = journals
    BY <1>2 DEF Crash, StateSave, Clear
  <2> QED BY <1>0, <2>1, NothingSane DEF RecordsSane
<1>3. CASE StartApply
  <2>1. /\ saved' = saved /\ managed' = saved /\ executed' = <<>> /\ journals' = [journals EXCEPT ![cur'] = <<>>]
    BY <1>3 DEF StartApply
  <2>2. \A d \in 1 .. 2 : journals'[d] \in {journals[d], <<>>} BY <1>0, <2>1
  <2> QED BY <1>0, <2>1, <2>2, NothingSane DEF RecordsSane
<1>4. CASE StartRollback
  <2>1. /\ saved' = saved /\ managed' = saved /\ executed' = journals[pointer] /\ journals' = journals /\ pointer # 0
    BY <1>4 DEF StartRollback
  <2> QED BY <1>0, <2>1 DEF RecordsSane
<1>5. CASE Record
  <2>1. PICK op : op = Head(todo) OBVIOUS
  <2>2. /\ InHand /\ op.kind \in {"update", "restore"} /\ op.key \in Addons
        /\ \A a \in Addons : managed'[a] = IF a = op.key THEN Recorded(op) ELSE managed[a]
        /\ ToSet(executed') = ToSet(executed) \cup {Entry(op)}
        /\ Entry(op).key = op.key /\ Entry(op).snapshot = managed[op.key]
        /\ op.kind = "restore" => Had(Recorded(op)) = Nothing
        /\ op.kind = "update" =>
             Had(Recorded(op)) = [k \in Options |-> IF Had(managed[op.key])[k] # Keep \/ op.params[k] = Keep
                                                    THEN Had(managed[op.key])[k] ELSE step.current[k]]
    BY <1>5, <2>1, RecordFacts DEF GiveContext
  <2>3. saved' = saved /\ (journals' = journals \/ journals' = [journals EXCEPT ![cur] = executed']) BY <1>5 DEF Record
  <2>4. \A k \in Options : step.current[k] = Absent => Defaults[op.key][k] = Absent
    BY <2>1, <2>2 DEF GiveContext, UndoInv, StepOK, Reported
  <2>5. \A k \in Options : Had(managed[op.key])[k] = Absent => Defaults[op.key][k] = Absent
    BY <1>0, <2>2 DEF SaneRecord
  <2>6. \A k \in Options : Had(Recorded(op))[k] = Absent => Defaults[op.key][k] = Absent
    <3>1. Keep # Absent BY AddonOptionsAssumption DEF AddonOptionsAssumption
    <3>2. \A k \in Options : Nothing[k] = Keep BY DEF Nothing
    <3> QED BY <2>2, <2>4, <2>5, <3>1, <3>2
  <2>7. SaneRecord(managed')
    <3>1. \A a \in Addons : a # op.key => Had(managed'[a]) = Had(managed[a]) BY <2>2
    <3>2. Had(managed'[op.key]) = Had(Recorded(op)) BY <2>2
    <3> QED BY <1>0, <2>2, <2>6, <3>1, <3>2 DEF SaneRecord
  <2>8. SaneEntries(executed') BY <1>0, <2>2, <2>5 DEF SaneEntries
  <2>9. \A d \in 1 .. 2 : journals'[d] = journals[d] \/ journals'[d] = executed' BY <1>0, <2>3
  <2> QED BY <1>0, <2>3, <2>7, <2>8, <2>9 DEF RecordsSane
<1>6. CASE UndoOne
  <2>1. /\ managed' = managed \/ \E e \in ToSet(executed) : managed' = [managed EXCEPT ![e.key] = e.snapshot]
        /\ \A d \in 1 .. 2 : journals'[d] = journals[d] \/ ToSet(journals'[d]) \subseteq ToSet(executed)
    BY <1>6, UndoFacts DEF GiveContext
  <2>2. saved' = saved /\ executed' = executed BY <1>6 DEF UndoOne
  <2>3. SaneRecord(managed')
    <3>1. SUFFICES ASSUME NEW e \in ToSet(executed), managed' = [managed EXCEPT ![e.key] = e.snapshot]
                   PROVE  SaneRecord(managed')
      BY <1>0, <2>1
    <3>2. \A a \in Addons : Had(managed'[a]) = Had(managed[a]) \/ (e.key = a /\ Had(managed'[a]) = Had(e.snapshot))
      BY <1>0, <3>1
    <3> QED BY <1>0, <3>2 DEF SaneRecord, SaneEntries
  <2>4. \A d \in 1 .. 2 : SaneEntries(journals'[d]) BY <1>0, <2>1 DEF SaneEntries
  <2> QED BY <1>0, <2>2, <2>3, <2>4 DEF RecordsSane
<1>7. CASE UndoDone
  <2>1. /\ UNCHANGED <<saved, managed, executed>>
        /\ journals' = journals \/ journals' = [journals EXCEPT ![cur] = NotUndone]
    BY <1>7 DEF UndoDone
  <2>2. ToSet(NotUndone) \subseteq ToSet(executed) BY LeftMembers DEF NotUndone, GiveContext
  <2>3. SaneEntries(NotUndone) BY <1>0, <2>2 DEF SaneEntries
  <2>4. \A d \in 1 .. 2 : journals'[d] \in {journals[d], NotUndone} BY <1>0, <2>1
  <2> QED BY <1>0, <2>1, <2>3, <2>4 DEF RecordsSane
<1> QED BY <1>1, <1>2, <1>3, <1>4, <1>5, <1>6, <1>7 DEF Next

LEMMA GiveInvariant == Spec => []GiveInv
<1>1. Init => GiveInv
  <2>1. SUFFICES ASSUME Init PROVE GiveInv OBVIOUS
  <2>2. /\ phase = "idle" /\ plan = <<>> /\ executed = <<>> /\ saved = NothingManaged /\ managed = NothingManaged
        /\ pointer = 0 /\ savedPointer = 0 /\ journals = [d \in 1 .. 2 |-> <<>>] /\ theirs = [a \in Addons |-> Nothing]
    BY <2>1 DEF Init
  <2>3. ToSet(plan) = {} /\ ToSet(executed) = {} BY <2>2, OfOne
  <2>4. KindsApart /\ FromPlan /\ OnlyAdded BY <2>2, <2>3 DEF KindsApart, FromPlan, OnlyAdded, InHand
  <2>5. TheirsOK
    <3>1. \A a \in Addons : Owned(a) = Nothing BY <2>2 DEF Owned, Posted, Kept, NothingManaged, Had
    <3> QED BY <2>2, <3>1 DEF TheirsOK
  <2>6. StandingOK BY <2>2, <2>3, KnownRecorded DEF StandingOK, Entries
  <2>7. RecordsSane BY <2>2, NothingSane DEF RecordsSane
  <2> QED BY <2>4, <2>5, <2>6, <2>7 DEF GiveInv
<1>2. TypeOK /\ UndoInv /\ GiveInv /\ [Next]_vars => GiveInv'
  BY KindsStep, FromPlanStep, TheirsStep, StandingStep, OnlyAddedStep, SaneStep DEF GiveContext, GiveInv
<1> QED BY <1>1, <1>2, TypeCorrect, Invariant, PTL DEF Spec

\* What the agent gives back when an add-on leaves the manifest is what its
\* options were before the agent, absent ones among them, however many
\* manifests, drifts and undone applies lie in between.
THEOREM GivesBackWhatWas == Spec => RestoreGivesBack
<1>1. TypeOK /\ UndoInv /\ RunInv /\ GiveInv /\ [Next]_vars =>
        (phase = "record" /\ Record /\ Head(todo).kind = "restore" =>
           LET op == Head(todo) IN
             op.key \in astray \/ raced
               \/ \A k \in Named(op.params) : theirs[op.key][k] \in {Keep, Current(op.key)[k]})
  <2>1. PICK op : op = Head(todo) OBVIOUS
  <2>2. SUFFICES ASSUME TypeOK, UndoInv, RunInv, GiveInv, phase = "record", Record, op.kind = "restore",
                        op.key \notin astray, ~raced, NEW k \in Named(op.params)
                 PROVE  theirs[op.key][k] \in {Keep, Current(op.key)[k]}
    BY <2>1
  <2>3. PICK a : a = op.key OBVIOUS
  <2>4. /\ op \in ToSet(todo) /\ a \in Addons /\ k \in Options /\ InHand /\ op.params[k] # Keep
    BY <2>1, <2>2, <2>3, RecordFacts DEF Named
  <2>5. Current(a)[k] = IF op.params[k] = Absent THEN Defaults[a][k] ELSE op.params[k]
    BY <2>1, <2>2, <2>3 DEF RunInv, PostedOK, IsPosted
  <2>6. theirs[a] = Had(managed[a])
    BY <2>1, <2>2, <2>3, <2>4 DEF GiveInv, TheirsOK, Owned, Posted, Kept
  <2>7. mode = "apply" BY <2>2, <2>4 DEF UndoInv, Undoable, ExecOK
  <2>8. op \in ToSet(plan) BY <2>2, <2>4, <2>7 DEF GiveInv, FromPlan
  <2>9. Consistent(ToSet(executed), managed, ToSet(plan), astray) BY <2>2 DEF GiveInv, StandingOK
  <2>10. /\ Had(managed[a]) \in Known(ToSet(executed), managed, ToSet(plan), a)
         /\ op.params \in Known(ToSet(executed), managed, ToSet(plan), a)
    BY <2>2, <2>3, <2>8, KnownMembers
  <2>11. Agree(Had(managed[a]), op.params) BY <2>2, <2>3, <2>4, <2>9, <2>10 DEF Consistent
  <2>12. theirs[a][k] = Keep \/ theirs[a][k] = op.params[k] BY <2>4, <2>6, <2>11 DEF Agree
  <2>13. theirs[a][k] = Absent => Defaults[a][k] = Absent
    BY <2>2, <2>4, <2>6 DEF GiveInv, RecordsSane, SaneRecord
  <2> QED BY <2>3, <2>5, <2>12, <2>13
<1> QED BY <1>1, TypeCorrect, Invariant, RunInvariant, GiveInvariant, PTL DEF Spec, RestoreGivesBack
=============================================================================
