--------------------------- MODULE GitOpsApplyProofs ---------------------------
(***************************************************************************)
(* What TLAPS proves about GitOpsApply, for every value of its constants:  *)
(* the button never points at a directory that is gone, an apply loses     *)
(* nothing between its layers, and a Roll Back that gives the button up    *)
(* has undone everything its directory can undo.                           *)
(***************************************************************************)
EXTENDS GitOpsApply, TLAPS

USE ConstantsAssumption DEF ConstantsAssumption, local, accumulated, history

StashType(s, n) == DOMAIN s \subseteq 1..n /\ s \in [DOMAIN s -> SUBSET Items]

\* Pruning leaves what it keeps as it is, and keeps the two it is told to.
LEMMA PrunedFacts ==
  ASSUME NEW n \in Nat, NEW s, StashType(s, n), NEW d, NEW p
  PROVE  /\ StashType(Pruned(s, d, p), n)
         /\ DOMAIN Pruned(s, d, p) \subseteq DOMAIN s
         /\ {d, p} \cap DOMAIN s \subseteq DOMAIN Pruned(s, d, p)
         /\ \A x \in DOMAIN Pruned(s, d, p) : Pruned(s, d, p)[x] = s[x]
BY DEF StashType, Pruned, Newest

\* A new directory.
LEMMA NewDir ==
  ASSUME NEW n \in Nat, StashType(stash, n), NEW m, m = n + 1, NEW S \in SUBSET Items
  PROVE  /\ StashType(With(m, S), m)
         /\ DOMAIN With(m, S) = DOMAIN stash \cup {m}
         /\ With(m, S)[m] = S
         /\ \A x \in DOMAIN stash : x # m /\ With(m, S)[x] = stash[x]
BY DEF StashType, With

\* A directory that is there.
LEMMA SameDirs ==
  ASSUME NEW n \in Nat, StashType(stash, n), NEW d \in DOMAIN stash, NEW S \in SUBSET Items
  PROVE  /\ StashType(With(d, S), n)
         /\ DOMAIN With(d, S) = DOMAIN stash
         /\ With(d, S)[d] = S
         /\ \A x \in DOMAIN stash : x # d => With(d, S)[x] = stash[x]
BY DEF StashType, With

LEMMA OrderFacts ==
  /\ Len(Order) = 8
  /\ \A n \in 1..8 : Order[n] \in Layers
  /\ \A l \in Layers : \E n \in 1..8 : l = Order[n]
BY DEF Order, Layers

\* A layer waits only for layers that come before it.
LEMMA DepsComeFirst ==
  ASSUME NEW n \in 1..8, NEW d \in LayerDeps[Order[n]]
  PROVE  \E m \in 1..8 : m < n /\ d = Order[m]
<1> DEFINE l == Order[n]
<1>1. l \in Layers BY OrderFacts
<1>2. LayerDeps[l] = (CASE l = "devices" -> {"registries"}
                        [] l = "entities" -> {"registries", "devices"}
                        [] l = "integrations" -> {"hacs"}
                        [] l = "subentries" -> {"integrations"}
                        [] OTHER -> {})
  BY <1>1 DEF LayerDeps
<1>3. \/ n = 2 /\ d = "registries"
      \/ n = 3 /\ d \in {"registries", "devices"}
      \/ n = 7 /\ d = "hacs"
      \/ n = 8 /\ d = "integrations"
  BY <1>2 DEF Order
<1> QED BY <1>3 DEF Order

-----------------------------------------------------------------------------
(* Types *)

\* The directory in use is there.
DirIsThere ==
  /\ dir # 0 => dir \in DOMAIN stash
  /\ pc = "invert" => point \in DOMAIN stash

LEMMA TypeStep == TypeOK /\ DirIsThere /\ [Next]_vars => TypeOK'
<1> SUFFICES ASSUME TypeOK, DirIsThere, [Next]_vars PROVE TypeOK' OBVIOUS
<1> USE DEF TypeOK
<1>0. made \in Nat /\ StashType(stash, made) /\ ToStash \in SUBSET Items
  BY DEF StashType, ToStash
<1>1. CASE Check BY <1>1 DEF Check
<1>2. CASE StartApply BY <1>2 DEF StartApply
<1>3. CASE NoFiles BY <1>3 DEF NoFiles
<1>4. CASE FilesApplied
  <2> USE <1>4 DEF FilesApplied, Make
  <2>1. StashType(stash', made') BY <1>0, NewDir
  <2>2. (by \in [Items -> 0..made] /\ lost \subseteq Items)' OBVIOUS
  <2> QED BY <2>1, <2>2 DEF StashType
<1>5. CASE StashFails
  <2> USE <1>5 DEF StashFails, Return, Fault
  <2>1. {} \in SUBSET Items OBVIOUS
  <2>2. CASE UNCHANGED made /\ stash' = Pruned(stash, 0, point)
    BY <1>0, <2>2, PrunedFacts DEF StashType
  <2>3. CASE made' = made + 1 /\ stash' = Pruned(With(made', {}), 0, point)
    <3>1. StashType(With(made', {}), made') BY <1>0, <2>1, <2>3, NewDir
    <3>2. StashType(stash', made') BY <2>3, <3>1, PrunedFacts
    <3>3. (by \in [Items -> 0..made])' BY <2>3
    <3> QED BY <2>3, <3>2, <3>3 DEF StashType
  <2> QED BY <2>2, <2>3
<1>6. CASE FilesUndone
  <2> USE <1>6 DEF FilesUndone, Return, Fault
  <2>1. StashType(With(made', ToStash), made') BY <1>0, NewDir
  <2>2. StashType(stash', made') BY <2>1, PrunedFacts
  <2>3. (by \in [Items -> 0..made])' OBVIOUS
  <2> QED BY <2>2, <2>3 DEF StashType
<1>7. CASE FilesLeft
  <2> USE <1>7 DEF FilesLeft, Return, Fault
  <2>1. StashType(With(made', ToStash), made') BY <1>0, NewDir
  <2>2. StashType(stash', made') BY <2>1, PrunedFacts
  <2>3. (world \subseteq Items /\ by \in [Items -> 0..made] /\ lost \subseteq Items)' BY DEF Make
  <2> QED BY <2>2, <2>3 DEF StashType
<1>8. CASE Allocate
  <2> USE <1>8 DEF Allocate, NoFault, Fault
  <2>1. CASE /\ made' = made + 1 /\ stash' = With(made', {}) /\ dir' = made'
             /\ UNCHANGED <<failed, faults>>
    <3>1. StashType(stash', made') BY <1>0, <2>1, NewDir
    <3>2. (by \in [Items -> 0..made])' BY <2>1
    <3> QED BY <2>1, <3>1, <3>2 DEF StashType
  <2>2. CASE UNCHANGED <<made, dir, stash>> BY <2>2
  <2> QED BY <2>1, <2>2
<1>9. ASSUME NEW l \in Layers, Layer(l) PROVE TypeOK'
  <2>1. CASE Skip(l) BY <2>1, OrderFacts DEF Skip, Turn
  <2>2. CASE Hold(l) BY <2>2, OrderFacts DEF Hold, Turn
  <2>3. ASSUME NEW S \in SUBSET Items, Journal(l, S), UNCHANGED made
        PROVE  StashType(stash', made')
    <3>1. CASE stash' = stash BY <1>0, <2>3, <3>1
    <3>2. CASE dir # 0 /\ stash' = With(dir, stash[dir] \cup (S \ world))
      <4>1. dir \in DOMAIN stash BY <3>2 DEF DirIsThere
      <4>2. stash[dir] \cup (S \ world) \in SUBSET Items BY <4>1
      <4> QED BY <1>0, <2>3, <3>2, <4>1, <4>2, SameDirs
    <3> QED BY <2>3, <3>1, <3>2 DEF Journal
  <2>4. CASE Succeeds(l)
    <3> USE <2>4 DEF Succeeds, Runs, Turn, Make, NoFault
    <3>1. StashType(stash', made') BY <2>3
    <3>2. (by \in [Items -> 0..made] /\ lost \subseteq Items)' OBVIOUS
    <3> QED BY <3>1, <3>2, OrderFacts DEF StashType
  <2>5. CASE Fails(l)
    <3> USE <2>5 DEF Fails, Runs, Turn, Fault
    <3>1. PICK S \in SUBSET ((todo \cap In(l)) \ Refused) :
            /\ Make(S, dir) /\ Journal(l, S)
            /\ applied' = IF l \in Kept THEN applied \cup S ELSE applied
      OBVIOUS
    <3>2. StashType(stash', made') BY <2>3, <3>1
    <3>3. (world \subseteq Items /\ by \in [Items -> 0..made] /\ lost \subseteq Items)'
      BY <3>1 DEF Make
    <3> QED BY <3>1, <3>2, <3>3, OrderFacts DEF StashType
  <2>6. CASE JournalFails(l)
    <3> USE <2>6 DEF JournalFails, Runs, Turn, Fault
    <3>1. PICK S \in SUBSET ((todo \cap In(l)) \ Refused) : \E last \in S :
            /\ world' = world \cup S
            /\ by' = [i \in Items |-> IF i \in S \ world THEN dir ELSE by[i]]
            /\ lost' = (lost \ (S \ world)) \cup ({last} \ world)
            /\ applied' = applied \cup S
            /\ Journal(l, S \ {last})
      OBVIOUS
    <3>2. StashType(stash', made') BY <2>3, <3>1
    <3>3. (world \subseteq Items /\ by \in [Items -> 0..made] /\ lost \subseteq Items)'
      BY <3>1
    <3> QED BY <3>1, <3>2, <3>3, OrderFacts DEF StashType
  <2> QED BY <1>9, <2>1, <2>2, <2>4, <2>5, <2>6 DEF Layer
<1>10. CASE Save
  <2> USE <1>10 DEF Save, Return, Fault, NoFault, StillPending
  <2>1. StashType(stash', made') BY <1>0, PrunedFacts
  <2> QED BY <2>1 DEF StashType
<1>11. CASE PressRollBack BY <1>11 DEF PressRollBack
<1>12. CASE Restore BY <1>12 DEF Restore, NoFault
<1>13. CASE RestoreFails BY <1>13 DEF RestoreFails, Fault, NoFault
<1>14. CASE Invert
  <2> USE <1>14 DEF Invert, Fault, NoFault
  <2>1. PICK left \in SUBSET (stash[point] \ Files) :
          /\ world' = world \ ((stash[point] \ Files) \ left)
          /\ stash' = With(point, (stash[point] \cap Files) \cup left)
    OBVIOUS
  <2>2. point \in DOMAIN stash BY DEF DirIsThere
  <2>3. (stash[point] \cap Files) \cup left \in SUBSET Items BY <2>1, <2>2
  <2>4. StashType(With(point, (stash[point] \cap Files) \cup left), made)
    BY <1>0, <2>2, <2>3, SameDirs
  <2>5. StashType(stash', made') BY <2>1, <2>4
  <2>6. faults' \in 0..MaxFaults OBVIOUS
  <2>7. point' \in {0, point} /\ disk' \in {0, disk} OBVIOUS
  <2>8. (point \in 0..made /\ disk \in 0..made)' BY <2>7
  <2>9. pc' = "idle" /\ UNCHANGED <<pending, made, at, todo, dir, applied, failed, held, by, lost>>
    OBVIOUS
  <2> HIDE <1>14 DEF Invert
  <2> QED BY <2>1, <2>5, <2>6, <2>8, <2>9 DEF StashType
<1>15. CASE Crash BY <1>15 DEF Crash, Return, Fault
<1>16. CASE UNCHANGED vars BY <1>16 DEF vars
<1> QED
  BY <1>1, <1>2, <1>3, <1>4, <1>5, <1>6, <1>7, <1>8, <1>9, <1>10, <1>11, <1>12,
     <1>13, <1>14, <1>15, <1>16 DEF Next, FileLayer, RollBack

-----------------------------------------------------------------------------
(* The directories *)

\* What pruning and the ends of an operation leave of them.
LEMMA ButtonStep ==
  TypeOK /\ TypeOK' /\ DirIsThere /\ ButtonHasItsStash /\ [Next]_vars
    => DirIsThere' /\ ButtonHasItsStash'
<1> SUFFICES ASSUME TypeOK, TypeOK', DirIsThere, ButtonHasItsStash, [Next]_vars
             PROVE  DirIsThere' /\ ButtonHasItsStash'
  OBVIOUS
<1> USE DEF DirIsThere, ButtonHasItsStash
<1>0. /\ made \in Nat /\ made + 1 \in Nat /\ StashType(stash, made)
      /\ ToStash \in SUBSET Items
  BY DEF StashType, TypeOK, ToStash
<1>1. CASE Check \/ StartApply \/ NoFiles \/ PressRollBack \/ Restore \/ RestoreFails
  BY <1>1 DEF Check, StartApply, NoFiles, PressRollBack, Restore, RestoreFails
<1>2. CASE FilesApplied
  <2>1. DOMAIN stash' = DOMAIN stash \cup {made'} BY <1>0, <1>2, NewDir DEF FilesApplied
  <2> QED BY <1>2, <2>1 DEF FilesApplied
<1>3. CASE StashFails
  <2>1. CASE stash' = Pruned(stash, 0, point)
    BY <1>0, <1>3, <2>1, PrunedFacts DEF StashFails, Return
  <2>2. CASE made' = made + 1 /\ stash' = Pruned(With(made', {}), 0, point)
    <3>1. {} \in SUBSET Items OBVIOUS
    <3>2. /\ StashType(With(made', {}), made')
          /\ DOMAIN With(made', {}) = DOMAIN stash \cup {made'}
      BY <1>0, <2>2, <3>1, NewDir
    <3>3. point \in DOMAIN stash => point \in DOMAIN stash'
      BY <1>0, <2>2, <3>2, PrunedFacts
    <3> QED BY <1>3, <3>3 DEF StashFails, Return
  <2> QED BY <1>3, <2>1, <2>2 DEF StashFails
<1>4. ASSUME NEW S \in SUBSET Items, made' = made + 1, NEW p,
             stash' = Pruned(With(made', S), made', p)
      PROVE  made' \in DOMAIN stash' /\ (p \in DOMAIN stash => p \in DOMAIN stash')
  <2>1. StashType(With(made', S), made') /\ DOMAIN With(made', S) = DOMAIN stash \cup {made'}
    BY <1>0, <1>4, NewDir
  <2> QED BY <1>0, <1>4, <2>1, PrunedFacts
<1>5. CASE FilesUndone BY <1>0, <1>4, <1>5 DEF FilesUndone, Return
<1>6. CASE FilesLeft BY <1>0, <1>4, <1>6 DEF FilesLeft, Return
<1>7. CASE Allocate
  <2> USE <1>7 DEF Allocate
  <2>1. CASE made' = made + 1 /\ stash' = With(made', {}) /\ dir' = made'
    <3>1. DOMAIN stash' = DOMAIN stash \cup {made'} BY <1>0, <2>1, NewDir
    <3> QED BY <2>1, <3>1
  <2>2. CASE UNCHANGED <<made, dir, stash>> BY <2>2
  <2> QED BY <2>1, <2>2
<1>8. ASSUME NEW l \in Layers, Layer(l) PROVE DirIsThere' /\ ButtonHasItsStash'
  <2>1. ASSUME NEW S, Journal(l, S) PROVE DOMAIN stash' = DOMAIN stash
    BY <2>1 DEF Journal, With
  <2>2. CASE Skip(l) \/ Hold(l) BY <2>2 DEF Skip, Hold
  <2>3. CASE Succeeds(l) BY <2>1, <2>3 DEF Succeeds
  <2>4. CASE Fails(l) BY <2>1, <2>4 DEF Fails
  <2>5. CASE JournalFails(l) BY <2>1, <2>5 DEF JournalFails
  <2> QED BY <1>8, <2>2, <2>3, <2>4, <2>5 DEF Layer
<1>9. CASE Save BY <1>0, <1>9, PrunedFacts DEF Save, Return
<1>10. CASE Invert
  <2>1. DOMAIN stash' = DOMAIN stash BY <1>10 DEF Invert, With
  <2> QED BY <1>10, <2>1 DEF Invert
<1>11. CASE Crash BY <1>11 DEF Crash, Return
<1>12. CASE UNCHANGED vars BY <1>12 DEF vars
<1> QED
  BY <1>1, <1>2, <1>3, <1>5, <1>6, <1>7, <1>8, <1>9, <1>10, <1>11, <1>12
  DEF Next, FileLayer, RollBack

Inv == TypeOK /\ DirIsThere /\ ButtonHasItsStash

LEMMA Invariance == Spec => []Inv
<1>1. Init => Inv BY DEF Init, Inv, TypeOK, DirIsThere, ButtonHasItsStash
<1>2. Inv /\ [Next]_vars => Inv' BY TypeStep, ButtonStep DEF Inv
<1> QED BY <1>1, <1>2, PTL DEF Spec

\* Every variable keeps the values the code can give it.
THEOREM TypeCorrect == Spec => []TypeOK
BY Invariance, PTL DEF Inv

\* However applies, failures, prunings, Roll Backs and restarts follow each other,
\* the directory under the Roll Back button is there.
THEOREM ButtonWorks == Spec => []ButtonHasItsStash
BY Invariance, PTL DEF Inv

-----------------------------------------------------------------------------
(* From layer to layer *)

\* What the layers had to do before this turn.
Behind(n) == n < at /\ Order[n] \notin NotOK /\ "stash" \notin failed

\* A layer that had its turn and neither failed nor was held has done its part,
\* and what is reported applied stands on what it needs.
LayersInv ==
  /\ pc # "layers" => at = 1 /\ applied = {} /\ failed = {} /\ held = {}
  /\ pc \in {"stash", "layers"} => todo \cap Files \subseteq world
  /\ \A n \in 1..8 : Behind(n) => (todo \cap In(Order[n])) \ Refused \subseteq world
  /\ \A i \in applied : i \in world /\ Needs(i) \subseteq world
  /\ failed = {} => held = {}

\* Outside the layers there is nothing to keep.
LEMMA NoLayers ==
  ASSUME at = 1, applied = {}, failed = {}, held = {},
         pc \in {"stash", "layers"} => todo \cap Files \subseteq world
  PROVE  LayersInv
BY DEF LayersInv, Behind

\* A layer that runs finds in effect whatever its changes need.
LEMMA NeedsAreMet ==
  ASSUME TypeOK, LayersInv, NEW l, Runs(l), NEW i \in todo \cap In(l)
  PROVE  Needs(i) \subseteq world
<1> SUFFICES ASSUME NEW k \in Needs(i) PROVE k \in world OBVIOUS
<1>1. l = Order[at] /\ at \in 1..8 BY OrderFacts DEF Runs, Turn, TypeOK
<1>2. k \in todo \ Refused /\ LayerOf[k] \in LayerDeps[l] BY DEF Needs, In
<1>3. PICK m \in 1..8 : m < at /\ LayerOf[k] = Order[m] BY <1>1, <1>2, DepsComeFirst
<1>4. LayerOf[k] \notin NotOK /\ "stash" \notin failed BY <1>2 DEF Runs, HeldBack, Unplanned
<1>5. Behind(m) BY <1>3, <1>4 DEF Behind
<1>6. k \in (todo \cap In(Order[m])) \ Refused BY <1>2, <1>3 DEF In, TypeOK
<1> QED BY <1>5, <1>6 DEF LayersInv

\* A layer's turn: what it reports applied it made, and unless it fails or is
\* held it made all it had to.
LEMMA TurnKeeps ==
  ASSUME TypeOK, LayersInv, NEW l, Turn(l),
         UNCHANGED <<pc, todo>>, world \subseteq world',
         failed \subseteq failed', held \subseteq held',
         failed' = {} => held' = {},
         \A i \in applied' \ applied : i \in world' /\ Needs(i) \subseteq world,
         \/ l \in NotOK'
         \/ "stash" \in failed'
         \/ (todo \cap In(l)) \ Refused \subseteq world'
  PROVE  LayersInv'
<1>1. l = Order[at] /\ at \in 1..8 /\ at' = at + 1 /\ pc = "layers"
  BY OrderFacts DEF Turn, TypeOK
<1>2. \A i : Needs(i)' = Needs(i) BY DEF Needs
<1>3. ASSUME NEW n \in 1..8, Behind(n)'
      PROVE  ((todo \cap In(Order[n])) \ Refused \subseteq world)'
  <2>1. CASE n < at
    <3>1. Behind(n) BY <1>3, <2>1 DEF Behind, NotOK
    <3> QED BY <3>1 DEF LayersInv, In
  <2>2. CASE n = at BY <1>1, <1>3, <2>2 DEF Behind, In
  <2> QED BY <1>1, <1>3, <2>1, <2>2 DEF Behind
<1>4. \A i \in applied' : i \in world' /\ Needs(i)' \subseteq world'
  BY <1>2 DEF LayersInv
<1>5. (todo \cap Files \subseteq world)' BY <1>1 DEF LayersInv, Files
<1> QED BY <1>1, <1>3, <1>4, <1>5 DEF LayersInv

LEMMA LayersStep == TypeOK /\ LayersInv /\ [Next]_vars => LayersInv'
<1> SUFFICES ASSUME TypeOK, LayersInv, [Next]_vars PROVE LayersInv' OBVIOUS
<1>1. ASSUME pc # "layers", UNCHANGED <<at, applied, failed, held>>,
             pc' \notin {"stash", "layers"}
      PROVE  LayersInv'
  <2>1. (at = 1 /\ applied = {} /\ failed = {} /\ held = {})' BY <1>1 DEF LayersInv
  <2> QED BY <1>1, <2>1 DEF LayersInv, Behind
<1>2. CASE Check \/ StartApply \/ PressRollBack \/ Restore \/ RestoreFails \/ Invert
  BY <1>1, <1>2 DEF Check, StartApply, PressRollBack, Restore, RestoreFails, Invert
<1>3. CASE Return BY <1>3 DEF Return, LayersInv, Behind
<1>4. CASE StashFails \/ FilesUndone \/ FilesLeft \/ Save \/ Crash
  BY <1>3, <1>4 DEF StashFails, FilesUndone, FilesLeft, Save, Crash
<1>5. CASE NoFiles \/ FilesApplied
  <2>1. (at = 1 /\ applied = {} /\ failed = {} /\ held = {})'
    BY <1>5 DEF NoFiles, FilesApplied, LayersInv
  <2>2. (todo \cap Files \subseteq world)'
    BY <1>5 DEF NoFiles, FilesApplied, Make, Files
  <2> QED BY <2>1, <2>2, <1>5 DEF NoFiles, FilesApplied, LayersInv, Behind
<1>6. CASE Allocate
  <2>1. (at = 1 /\ applied = {} /\ held = {} /\ pc = "layers")'
    BY <1>6 DEF Allocate, LayersInv
  <2>2. (todo \cap Files \subseteq world)' BY <1>6 DEF Allocate, LayersInv, Files
  <2> QED BY <2>1, <2>2 DEF LayersInv, Behind
<1>7. ASSUME NEW l \in Layers, Layer(l) PROVE LayersInv'
  <2>1. CASE Skip(l)
    <3>1. "stash" \in failed' \/ (todo \cap In(l)) \ Refused \subseteq world'
      BY <2>1 DEF Skip, Unplanned
    <3> QED BY <2>1, <3>1, TurnKeeps DEF Skip, LayersInv
  <2>2. CASE Hold(l)
    <3>1. failed # {} BY <2>2 DEF Hold, HeldBack, NotOK, LayersInv
    <3> QED BY <2>2, <3>1, TurnKeeps DEF Hold, NotOK
  <2>3. CASE Succeeds(l)
    <3>1. Runs(l) /\ Turn(l) BY <2>3 DEF Succeeds, Runs
    <3>2. \A i \in applied' \ applied : i \in world' /\ Needs(i) \subseteq world
      BY <2>3, <3>1, NeedsAreMet DEF Succeeds, Make
    <3> QED BY <2>3, <3>1, <3>2, TurnKeeps DEF Succeeds, Make, LayersInv
  <2>4. CASE Fails(l)
    <3>1. Runs(l) /\ Turn(l) BY <2>4 DEF Fails, Runs
    <3>2. \A i \in applied' \ applied : i \in world' /\ Needs(i) \subseteq world
      BY <2>4, <3>1, NeedsAreMet DEF Fails, Make
    <3>3. world \subseteq world' BY <2>4 DEF Fails, Make
    <3> QED BY <2>4, <3>1, <3>2, <3>3, TurnKeeps DEF Fails, NotOK
  <2>5. CASE JournalFails(l)
    <3>1. Runs(l) /\ Turn(l) BY <2>5 DEF JournalFails, Runs
    <3>2. \A i \in applied' \ applied : i \in world' /\ Needs(i) \subseteq world
      BY <2>5, <3>1, NeedsAreMet DEF JournalFails
    <3> QED BY <2>5, <3>1, <3>2, TurnKeeps DEF JournalFails, NotOK
  <2> QED BY <1>7, <2>1, <2>2, <2>3, <2>4, <2>5 DEF Layer
<1>8. CASE UNCHANGED vars
  BY <1>8 DEF vars, LayersInv, Behind, NotOK, Needs, In, Files
<1> QED BY <1>2, <1>4, <1>5, <1>6, <1>7, <1>8 DEF Next, FileLayer, RollBack

\* An apply whose state is saved has lost nothing between its layers: what it was
\* to do is still in the plan, or in effect together with what it builds on.
THEOREM NothingDropsOut == Spec => AppliedOrPending
<1>1. Init => LayersInv BY DEF Init, LayersInv, Behind
<1>2. Spec => []LayersInv BY <1>1, LayersStep, TypeCorrect, PTL DEF Spec
<1>3. TypeOK /\ LayersInv =>
        [Save /\ UNCHANGED faults =>
           \A i \in todo : \/ i \in pending'
                           \/ i \in world' /\ (LayerOf[i] # "files" => Needs(i) \subseteq world')]_vars
  <2> SUFFICES ASSUME TypeOK, LayersInv, Save, UNCHANGED faults, NEW i \in todo, i \notin pending'
               PROVE  i \in world /\ (LayerOf[i] # "files" => Needs(i) \subseteq world)
    BY DEF Save
  <2>1. pending' = StillPending /\ at > 8 /\ pc = "layers"
    BY OrderFacts DEF Save, Fault, TypeOK
  <2>2. todo \cap Files \subseteq world BY <2>1 DEF LayersInv
  <2>3. CASE failed = {}
    <3>1. ASSUME NEW k \in todo \ Refused PROVE k \in world
      <4>1. CASE LayerOf[k] = "files" BY <2>2, <4>1 DEF Files, TypeOK
      <4>2. CASE LayerOf[k] \in Layers
        <5>1. PICK n \in 1..8 : LayerOf[k] = Order[n] BY <4>2, OrderFacts
        <5>2. Behind(n) BY <2>1, <2>3 DEF Behind, NotOK, LayersInv, TypeOK
        <5>3. k \in (todo \cap In(Order[n])) \ Refused BY <5>1 DEF In, TypeOK
        <5> QED BY <5>2, <5>3 DEF LayersInv
      <4> QED BY <4>1, <4>2 DEF TypeOK
    <3>2. i \notin Refused BY <2>1, <2>3 DEF StillPending
    <3> QED BY <3>1, <3>2 DEF Needs
  <2>4. CASE failed # {}
    <3>1. i \in Files \/ i \in applied BY <2>1, <2>4 DEF StillPending
    <3> QED BY <2>2, <3>1 DEF LayersInv, Files
  <2> QED BY <2>3, <2>4
<1> QED BY <1>2, <1>3, TypeCorrect, PTL DEF Spec, AppliedOrPending

-----------------------------------------------------------------------------
(* What a directory can undo *)

Noted(i) == i \in stash[by[i]] \/ LayerOf[i] \in NoJournal \/ i \in lost

\* A change in effect is in the directory of the apply that made it, as long as
\* that is kept; once the files are restored none of theirs is left.
StashInv ==
  /\ \A i \in world : by[i] \in DOMAIN stash => Noted(i)
  /\ pc = "invert" => stash[point] \cap Files \cap world = {}

\* By the end of an operation directories only went, unless the one of this apply
\* came.
LEMMA FewerDirs ==
  ASSUME TypeOK, StashInv, pc' # "invert", UNCHANGED <<by, lost>>, world' \subseteq world,
         DOMAIN stash' \subseteq DOMAIN stash \cup {made + 1},
         \A x \in DOMAIN stash' \cap DOMAIN stash : stash'[x] = stash[x]
  PROVE  StashInv'
<1> SUFFICES ASSUME NEW i \in world', by[i] \in DOMAIN stash' PROVE Noted(i)'
  BY DEF StashInv
<1>1. by[i] \in 0..made /\ made \in Nat BY DEF TypeOK
<1>2. by[i] \in DOMAIN stash BY <1>1
<1> QED BY <1>2 DEF StashInv, Noted

\* What the files make is noted.
LEMMA FilesAreNoted ==
  ASSUME TypeOK, StashInv, pc' # "invert", NEW S \in SUBSET (todo \cap Files),
         Make(S, made + 1),
         DOMAIN stash' \subseteq DOMAIN stash \cup {made + 1}, made + 1 \in DOMAIN stash',
         stash'[made + 1] = ToStash,
         \A x \in DOMAIN stash' \cap DOMAIN stash : stash'[x] = stash[x]
  PROVE  StashInv'
<1> SUFFICES ASSUME NEW i \in world', by'[i] \in DOMAIN stash' PROVE Noted(i)'
  BY DEF StashInv
<1>1. /\ i \in Items /\ made \in Nat /\ by \in [Items -> 0..made]
      /\ world' = world \cup S /\ lost' = lost \ (S \ world)
      /\ by'[i] = IF i \in S \ world THEN made + 1 ELSE by[i]
  BY DEF TypeOK, Make, Files
<1>2. CASE i \in world
  <2>1. by'[i] = by[i] /\ by[i] \in 0..made BY <1>1, <1>2
  <2>2. by[i] \in DOMAIN stash BY <1>1, <2>1
  <2>3. Noted(i) BY <1>2, <2>2 DEF StashInv
  <2> QED BY <1>1, <1>2, <2>1, <2>2, <2>3 DEF Noted
<1>3. CASE i \in S \ world
  <2>1. by'[i] = made + 1 BY <1>1, <1>3
  <2> QED BY <1>3, <2>1 DEF Noted, ToStash
<1> QED BY <1>1, <1>2, <1>3

\* The next directory, numbered made + 1.
LEMMA NextDir ==
  ASSUME made \in Nat, StashType(stash, made), NEW S \in SUBSET Items
  PROVE  /\ StashType(With(made + 1, S), made + 1)
         /\ DOMAIN With(made + 1, S) = DOMAIN stash \cup {made + 1}
         /\ With(made + 1, S)[made + 1] = S
         /\ \A x \in DOMAIN stash : With(made + 1, S)[x] = stash[x]
BY NewDir

LEMMA StashStep == Inv /\ TypeOK' /\ StashInv /\ [Next]_vars => StashInv'
<1> SUFFICES ASSUME Inv, TypeOK', StashInv, [Next]_vars PROVE StashInv' OBVIOUS
<1>0. /\ TypeOK /\ made \in Nat /\ StashType(stash, made) /\ ToStash \in SUBSET Items
      /\ 0 \notin DOMAIN stash /\ 0 \notin DOMAIN stash' /\ made + 1 \notin DOMAIN stash
  BY DEF Inv, TypeOK, StashType, ToStash
<1>1. CASE Check \/ StartApply \/ NoFiles \/ PressRollBack \/ RestoreFails
  <2>1. UNCHANGED <<by, lost, stash>> /\ world' \subseteq world /\ pc' # "invert"
    BY <1>1 DEF Inv, TypeOK, Check, StartApply, NoFiles, PressRollBack, RestoreFails
  <2> QED BY <1>0, <2>1, FewerDirs
<1>2. CASE Save \/ (StashFails /\ stash' = Pruned(stash, 0, point))
  <2>1. PICK d, p : stash' = Pruned(stash, d, p) BY <1>2 DEF Save
  <2>2. UNCHANGED <<by, lost, world>> /\ pc' # "invert" BY <1>2 DEF StashFails, Save, Return
  <2> QED BY <1>0, <2>1, <2>2, FewerDirs, PrunedFacts
<1>3. CASE \/ FilesUndone
           \/ StashFails /\ made' = made + 1 /\ stash' = Pruned(With(made', {}), 0, point)
  <2>0. /\ {} \in SUBSET Items
        /\ \/ stash' = Pruned(With(made + 1, ToStash), made + 1, point)
           \/ stash' = Pruned(With(made + 1, {}), 0, point)
    BY <1>3 DEF FilesUndone
  <2>1. PICK S, d : S \in SUBSET Items /\ stash' = Pruned(With(made + 1, S), d, point)
    BY <1>0, <2>0
  <2>2. UNCHANGED <<by, lost, world>> /\ pc' # "invert"
    BY <1>3 DEF FilesUndone, StashFails, Return
  <2>3. StashType(With(made + 1, S), made + 1) BY <1>0, <2>1, NextDir
  <2>4. /\ DOMAIN stash' \subseteq DOMAIN With(made + 1, S)
        /\ \A x \in DOMAIN stash' : stash'[x] = With(made + 1, S)[x]
    <3> DEFINE s == With(made + 1, S)
    <3>1. stash' = Pruned(s, d, point) /\ StashType(s, made + 1) /\ made + 1 \in Nat
      BY <1>0, <2>1, <2>3
    <3> HIDE DEF s
    <3>2. /\ DOMAIN stash' \subseteq DOMAIN s /\ \A x \in DOMAIN stash' : stash'[x] = s[x]
      BY <3>1, PrunedFacts
    <3> QED BY <3>2 DEF s
  <2>5. /\ DOMAIN With(made + 1, S) = DOMAIN stash \cup {made + 1}
        /\ \A x \in DOMAIN stash : With(made + 1, S)[x] = stash[x]
    BY <1>0 DEF With
  <2>6. /\ DOMAIN stash' \subseteq DOMAIN stash \cup {made + 1}
        /\ \A x \in DOMAIN stash' \cap DOMAIN stash : stash'[x] = stash[x]
    BY <2>4, <2>5
  <2> QED BY <1>0, <2>2, <2>6, FewerDirs
<1>4. CASE FilesApplied
  <2>1. /\ stash' = With(made + 1, ToStash) /\ Make(todo \cap Files, made + 1)
        /\ pc' = "stash"
    BY <1>4 DEF FilesApplied
  <2>2. /\ StashType(With(made + 1, ToStash), made + 1)
        /\ DOMAIN With(made + 1, ToStash) = DOMAIN stash \cup {made + 1}
        /\ With(made + 1, ToStash)[made + 1] = ToStash
        /\ \A x \in DOMAIN stash : With(made + 1, ToStash)[x] = stash[x]
    BY <1>0, NextDir
  <2>3. /\ DOMAIN stash' = DOMAIN stash \cup {made + 1} /\ stash'[made + 1] = ToStash
        /\ \A x \in DOMAIN stash : stash'[x] = stash[x]
    BY <2>1, <2>2, Zenon
  <2> QED BY <1>0, <2>1, <2>3, FilesAreNoted
<1>5. CASE FilesLeft
  <2>1. PICK S \in SUBSET (todo \cap Files) : Make(S, made + 1) BY <1>5 DEF FilesLeft
  <2>2. /\ stash' = Pruned(With(made + 1, ToStash), made + 1, made + 1) /\ pc' # "invert"
    BY <1>5 DEF FilesLeft, Return
  <2>3. /\ StashType(With(made + 1, ToStash), made + 1)
        /\ DOMAIN With(made + 1, ToStash) = DOMAIN stash \cup {made + 1}
        /\ With(made + 1, ToStash)[made + 1] = ToStash
        /\ \A x \in DOMAIN stash : With(made + 1, ToStash)[x] = stash[x]
    BY <1>0, NextDir
  <2>4. /\ DOMAIN stash' \subseteq DOMAIN stash \cup {made + 1} /\ made + 1 \in DOMAIN stash'
        /\ stash'[made + 1] = ToStash
        /\ \A x \in DOMAIN stash' \cap DOMAIN stash : stash'[x] = stash[x]
    BY <1>0, <2>2, <2>3, PrunedFacts
  <2> QED BY <1>0, <2>1, <2>2, <2>4, FilesAreNoted
<1>6. CASE Allocate
  <2>1. UNCHANGED <<by, lost, world>> /\ pc' # "invert" BY <1>6 DEF Allocate
  <2>2. CASE made' = made + 1 /\ stash' = With(made', {})
    <3>1. {} \in SUBSET Items OBVIOUS
    <3>2. /\ DOMAIN stash' = DOMAIN stash \cup {made + 1}
          /\ \A x \in DOMAIN stash : stash'[x] = stash[x]
      BY <1>0, <2>2, <3>1, NextDir
    <3> QED BY <1>0, <2>1, <3>2, FewerDirs
  <2>3. CASE stash' = stash BY <1>0, <2>1, <2>3, FewerDirs
  <2> QED BY <1>6, <2>2, <2>3 DEF Allocate
<1>7. ASSUME NEW l \in Layers, Layer(l) PROVE StashInv'
  <2>1. CASE Skip(l) \/ Hold(l)
    <3>1. UNCHANGED <<by, lost, world, stash>> /\ pc' # "invert"
      BY <2>1 DEF Skip, Hold, Turn
    <3> QED BY <1>0, <3>1, FewerDirs
  <2>2. ASSUME Runs(l), pc' = pc, NEW S \in SUBSET (todo \cap In(l)), NEW L \in SUBSET S,
               world' = world \cup S,
               \A i \in Items : by'[i] = IF i \in S \ world THEN dir ELSE by[i],
               lost' = (lost \ (S \ world)) \cup (L \ world),
               Journal(l, S \ L)
        PROVE  StashInv'
    <3>1. dir # 0 => dir \in DOMAIN stash BY DEF Inv, DirIsThere
    <3>2. S \in SUBSET Items /\ (\A i \in S : LayerOf[i] = l) /\ pc' # "invert"
      BY <2>2 DEF In, Runs, Turn
    <3>3. /\ DOMAIN stash' = DOMAIN stash
          /\ \A x \in DOMAIN stash : stash[x] \subseteq stash'[x]
          /\ \A i \in (S \ L) \ world :
               dir # 0 => i \in stash'[dir] \/ LayerOf[i] \in NoJournal
      <4>1. CASE stash' = stash /\ (l \in NoJournal \/ dir = 0) BY <3>2, <4>1
      <4>2. CASE dir # 0 /\ stash' = With(dir, stash[dir] \cup ((S \ L) \ world))
        <5>1. dir \in DOMAIN stash BY <3>1, <4>2
        <5>2. stash[dir] \cup ((S \ L) \ world) \in SUBSET Items
          BY <1>0, <3>2, <5>1 DEF StashType
        <5>3. /\ DOMAIN stash' = DOMAIN stash
              /\ stash'[dir] = stash[dir] \cup ((S \ L) \ world)
              /\ \A x \in DOMAIN stash : x # dir => stash'[x] = stash[x]
          BY <1>0, <4>2, <5>1, <5>2, SameDirs
        <5> QED BY <5>3
      <4> QED BY <2>2, <4>1, <4>2 DEF Journal
    <3> SUFFICES ASSUME NEW i \in world', by'[i] \in DOMAIN stash' PROVE Noted(i)'
      BY <3>2 DEF StashInv
    <3>4. i \in Items BY <1>0, <2>2, <3>2 DEF TypeOK
    <3>5. CASE i \in world
      <4>1. by'[i] = by[i] BY <2>2, <3>4, <3>5
      <4>2. by[i] \in DOMAIN stash BY <3>3, <4>1
      <4>3. Noted(i) BY <3>5, <4>2 DEF StashInv
      <4> QED BY <2>2, <3>3, <3>5, <4>1, <4>2, <4>3 DEF Noted
    <3>6. CASE i \in S \ world
      <4>1. by'[i] = dir /\ dir # 0 BY <1>0, <2>2, <3>3, <3>4, <3>6
      <4> QED BY <2>2, <3>3, <3>6, <4>1 DEF Noted
    <3> QED BY <2>2, <3>5, <3>6
  <2>3. CASE Succeeds(l)
    <3> DEFINE S == (todo \cap In(l)) \ Refused
    <3>1. /\ Runs(l) /\ pc' = pc /\ Make(S, dir) /\ Journal(l, S)
      BY <2>3 DEF Succeeds
    <3>2. /\ world' = world \cup S
          /\ \A i \in Items : by'[i] = IF i \in S \ world THEN dir ELSE by[i]
          /\ lost' = (lost \ (S \ world)) \cup ({} \ world)
      BY <3>1 DEF Make
    <3>3. Journal(l, S \ {}) BY <3>1 DEF Journal
    <3>4. S \in SUBSET (todo \cap In(l)) /\ {} \in SUBSET S OBVIOUS
    <3> HIDE DEF S
    <3> QED BY <2>2, <3>1, <3>2, <3>3, <3>4
  <2>4. CASE Fails(l)
    <3>1. PICK S \in SUBSET (todo \cap In(l)) : Make(S, dir) /\ Journal(l, S)
      BY <2>4 DEF Fails
    <3>2. Runs(l) /\ pc' = pc BY <2>4 DEF Fails
    <3>3. /\ world' = world \cup S
          /\ \A i \in Items : by'[i] = IF i \in S \ world THEN dir ELSE by[i]
          /\ lost' = (lost \ (S \ world)) \cup ({} \ world)
      BY <3>1 DEF Make
    <3>4. Journal(l, S \ {}) BY <3>1 DEF Journal
    <3>5. {} \in SUBSET S OBVIOUS
    <3> QED BY <2>2, <3>2, <3>3, <3>4, <3>5
  <2>5. CASE JournalFails(l)
    <3>1. PICK S \in SUBSET ((todo \cap In(l)) \ Refused) : \E last \in S :
            /\ world' = world \cup S
            /\ \A i \in Items : by'[i] = IF i \in S \ world THEN dir ELSE by[i]
            /\ lost' = (lost \ (S \ world)) \cup ({last} \ world)
            /\ Journal(l, S \ {last})
      BY <2>5 DEF JournalFails
    <3>2. PICK last \in S :
            /\ lost' = (lost \ (S \ world)) \cup ({last} \ world)
            /\ Journal(l, S \ {last})
      BY <3>1
    <3>3. Runs(l) /\ pc' = pc BY <2>5 DEF JournalFails
    <3>4. {last} \in SUBSET S /\ S \in SUBSET (todo \cap In(l)) OBVIOUS
    <3> QED BY <2>2, <3>1, <3>2, <3>3, <3>4
  <2> QED BY <1>7, <2>1, <2>3, <2>4, <2>5 DEF Layer
<1>8. CASE Restore
  <2>1. world' = world \ (stash[point] \cap Files) /\ UNCHANGED <<by, lost, stash, point>>
    BY <1>8 DEF Restore
  <2> QED BY <2>1 DEF StashInv, Noted, Files
<1>9. CASE Invert
  <2>1. PICK left \in SUBSET (stash[point] \ Files) :
          /\ world' = world \ ((stash[point] \ Files) \ left)
          /\ stash' = With(point, (stash[point] \cap Files) \cup left)
    BY <1>9 DEF Invert
  <2>2. pc = "invert" /\ pc' = "idle" /\ UNCHANGED <<by, lost>> BY <1>9 DEF Invert
  <2>3. point \in DOMAIN stash BY <2>2 DEF Inv, DirIsThere
  <2>4. (stash[point] \cap Files) \cup left \in SUBSET Items
    BY <1>0, <2>3 DEF StashType
  <2>5. /\ DOMAIN stash' = DOMAIN stash
        /\ stash'[point] = (stash[point] \cap Files) \cup left
        /\ \A x \in DOMAIN stash : x # point => stash'[x] = stash[x]
    BY <1>0, <2>1, <2>3, <2>4, SameDirs
  <2>6. ASSUME NEW i \in world', by[i] \in DOMAIN stash' PROVE Noted(i)'
    <3>1. i \in world /\ Noted(i) BY <2>1, <2>5, <2>6 DEF StashInv
    <3>2. by[i] = point /\ i \in stash[point] => i \in stash'[point]
      BY <2>1, <2>5, <2>6
    <3> QED BY <2>2, <2>5, <2>6, <3>1, <3>2 DEF Noted
  <2> QED BY <2>2, <2>6 DEF StashInv
<1>10. CASE Crash
  <2>1. UNCHANGED <<by, lost, world, stash>> /\ pc' # "invert" BY <1>10 DEF Crash, Return
  <2> QED BY <1>0, <2>1, FewerDirs
<1>11. CASE UNCHANGED vars BY <1>11 DEF vars, StashInv, Noted, Files
<1> QED
  BY <1>1, <1>2, <1>3, <1>4, <1>5, <1>6, <1>7, <1>8, <1>9, <1>10, <1>11
  DEF Next, FileLayer, RollBack, StashFails

\* A Roll Back that gives the button up has undone all its directory knows of.
THEOREM RollBackIsComplete == Spec => RollBackUndoes
<1>1. Init => StashInv BY DEF Init, StashInv
<1>2. Inv /\ Inv' /\ StashInv /\ [Next]_vars => StashInv' BY StashStep DEF Inv
<1>3. Spec => []StashInv BY <1>1, <1>2, Invariance, PTL DEF Spec
<1>4. Inv /\ StashInv =>
        [Invert /\ point' = 0 =>
           \A i \in world' : by[i] = point => LayerOf[i] \in NoJournal \/ i \in lost]_vars
  <2> SUFFICES ASSUME Inv, StashInv, Invert, point' = 0, NEW i \in world', by[i] = point,
                      LayerOf[i] \notin NoJournal, i \notin lost
               PROVE  FALSE
    OBVIOUS
  <2>1. pc = "invert" /\ point \in DOMAIN stash BY DEF Invert, Inv, DirIsThere
  <2>2. point # 0 BY <2>1 DEF Inv, TypeOK
  <2>3. world' = world \ (stash[point] \ Files)
    BY <2>2 DEF Invert, Undone
  <2>4. i \in stash[point] BY <2>1, <2>3 DEF StashInv, Noted
  <2> QED BY <2>1, <2>3, <2>4 DEF StashInv
<1> QED BY <1>3, <1>4, Invariance, PTL DEF Spec, RollBackUndoes
=============================================================================
