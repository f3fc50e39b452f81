------------------------- MODULE SecretsEngineProofs -------------------------
(***************************************************************************)
(* What TLAPS proves about SecretsEngine, for every value of its           *)
(* constants: first the types and what a change leaves stale (TypeInv,     *)
(* StaleInv), then what a change and its rollback do to the files, to the  *)
(* keys in use and to the add-ons, over crashes, failing writes and hand   *)
(* edits (HeldOK, PlanOK, AddonsOK, LossInv).                              *)
(***************************************************************************)
EXTENDS SecretsEngine, TLAPS

\* Where the cycle is says which of its variables hold something.
ControlOK ==
  /\ pc \in {"planned", "write"} => job \in Job
  /\ resumed => job \in Job
  /\ pc \in {"write", "undo", "hold", "check", "reload", "guard", "restart",
             "waitUp", "again", "waitAgain", "stage", "addons", "finish"} => p \in Change
  /\ pc = "write" => origin \in Origin

TypeInv == TypeOK /\ ControlOK

USE ConstantsAssumption DEF Consumers, Vals

LEMMA SpendType ==
  ASSUME TypeOK, NEW e \in Events, Spend(e)
  PROVE  budget' \in [Events -> Nat]
BY DEF TypeOK, Spend, Events

LEMMA SaveType ==
  ASSUME TypeOK, NEW s \in State, Save(s)
  PROVE  st' \in State /\ disk' \in State /\ budget' \in [Events -> Nat]
<1>1. "fault" \in Events BY DEF Events
<1>2. CASE SaveOK(s) BY <1>2 DEF SaveOK, TypeOK
<1>3. CASE SaveFails(s) BY <1>1, <1>3, SpendType DEF SaveFails, TypeOK
<1>4. QED BY <1>2, <1>3 DEF Save

LEMMA ReadsType ==
  ASSUME NEW c \in Consumers, NEW g \in [Files -> Content]
  PROVE  Reads(c, g) \in [Keys -> Vals]
BY DEF Reads, Content

LEMMA InitType == Init => TypeInv
<1> SUFFICES ASSUME Init PROVE TypeInv OBVIOUS
<1>1. NoFile \in Content BY DEF NoFile, Content
<1>2. file \in [Files -> Content]
  <2>1. CASE file = [f \in Files |-> NoFile] BY <1>1, <2>1
  <2>2. ASSUME NEW vs \in [Keys -> Vals],
               file = [f \in Files |-> IF f = Root THEN HandWritten(vs) ELSE NoFile]
        PROVE  file \in [Files -> Content]
    <3>1. HandWritten(vs) \in Content BY DEF HandWritten, Content
    <3> QED BY <1>1, <2>2, <3>1
  <2> QED BY <2>1, <2>2 DEF Init
<1>3. running \in [Consumers -> [Keys -> Vals]]
  BY <1>2, ReadsType DEF Init
<1>4. EmptyState \in State
  BY DEF EmptyState, State
<1>5. NoWork \in Work /\ NoCache \in Cache
  BY DEF NoWork, Work, NoCache, Cache
<1>6. vault \in [Keys -> Vals \cup {Conflict}]
  BY DEF Init
<1> QED BY <1>2, <1>3, <1>4, <1>5, <1>6 DEF Init, TypeInv, TypeOK, ControlOK

-----------------------------------------------------------------------------
(* What the plan computes has its type. *)

LEMMA RenderedType ==
  ASSUME TypeOK, NEW f \in Files, NEW known \in SUBSET Addons,
         NEW view \in [Keys -> Vals \cup {Conflict}], NEW safe \in BOOLEAN
  PROVE  /\ Rendered(f, view, known, safe) \in Content
         /\ Managed(f, view, known, safe) \in SUBSET Keys
<1>1. file[f] \in Content BY DEF TypeOK
<1>2. st.managed[f] \subseteq Keys BY DEF TypeOK, State
<1>3. Desired(f, view, known) \subseteq Keys BY DEF Desired
<1>4. \A k \in Desired(f, view, known) : view[k] \in Vals BY DEF Desired
<1>5. \A k \in Keys : file[f].val[k] \in Vals BY <1>1 DEF Content
<1>6. Rendered(f, view, known, safe) \in Content
  BY <1>1, <1>4, <1>5 DEF Rendered, Content
<1>7. Managed(f, view, known, safe) \in SUBSET Keys
  BY <1>2, <1>3 DEF Managed, Kept
<1> QED BY <1>6, <1>7

LEMMA RefreshType ==
  ASSUME TypeOK, RefreshAddonRefs
  PROVE  cache' \in Cache /\ budget' \in [Events -> Nat]
<1>1. "fault" \in Events BY DEF Events
<1>2. addonUp \subseteq Addons /\ cache \in Cache BY DEF TypeOK
<1>3. CASE UNCHANGED budget
  BY <1>2, <1>3 DEF RefreshAddonRefs, Cache, TypeOK
<1>4. CASE Spend("fault")
  BY <1>1, <1>2, <1>4, SpendType DEF RefreshAddonRefs, Cache, TypeOK
<1> QED BY <1>3, <1>4 DEF RefreshAddonRefs

LEMMA NewChangeType ==
  ASSUME TypeOK, job \in Job
  PROVE  NewChange \in Change /\ Todo \subseteq Files
<1>1. Todo \subseteq Files BY DEF Todo
<1>2. \A f \in Files : Touched(f) \subseteq Keys BY DEF Touched
<1>3. \A f \in Files, k \in Keys : job.new[f].val[k] \in Vals BY DEF Job, Content
<1>4. Signature \subseteq Moves BY <1>3 DEF Signature, Moves
<1>5. st.managed \in [Files -> SUBSET Keys] BY DEF TypeOK, State
<1> QED BY <1>1, <1>2, <1>4, <1>5 DEF NewChange, Change

-----------------------------------------------------------------------------
(* Every step keeps the types. *)

USE DEF outside, cycle, history

LEMMA NoWorkType == NoWork \in Work /\ NoCache \in Cache
BY DEF NoWork, Work, NoCache, Cache

LEMMA WorkMoves ==
  ASSUME NEW w \in Work
  PROVE  /\ \A f \in Files :
              /\ [w EXCEPT !.kept = @ \cup {f}] \in Work
              /\ [w EXCEPT !.left = @ \ {f}, !.written = @ \cup {f}] \in Work
              /\ [w EXCEPT !.left = @ \ {f}] \in Work
         /\ \A d \in Domains :
              /\ [w EXCEPT !.reload = @ \ {d}] \in Work
              /\ [w EXCEPT !.reload = @ \ {d}, !.restart = @ \cup {d}] \in Work
         /\ \A a \in Addons : [w EXCEPT !.addons = @ \ {a}] \in Work
BY DEF Work

LEMMA StateMoves ==
  ASSUME NEW s \in State, NEW ds \in SUBSET Domains
  PROVE  [s EXCEPT !.waiting = @ \cup ds] \in State
BY DEF State

LEMMA OriginGrows ==
  ASSUME NEW o \in Origin, NEW f \in Files
  PROVE  /\ [o EXCEPT !.copied = @ \cup {f}] \in Origin
         /\ [o EXCEPT !.failed = @ \cup {f}] \in Origin
BY DEF Origin

LEMMA StartUndoType ==
  ASSUME NEW fs \in SUBSET Files, NEW why \in {"write", "check", "restart"},
         StartUndo(fs, why)
  PROVE  /\ pc' = "undo" /\ work' \in Work
         /\ job' = job /\ p' = p /\ resumed' = resumed
BY DEF StartUndo, NoWork, Work

LEMMA GiveUpType ==
  ASSUME TypeInv, GiveUpRestart,
         pc \in {"restart", "waitUp", "again", "waitAgain", "panel", "waitPanel"}
  PROVE  /\ job' \in Job \cup {None} /\ p' \in Change \cup {None}
         /\ resumed' \in BOOLEAN /\ work' \in Work
         /\ pc' \in {"undo", "publish", "idle"}
         /\ pc' = "undo" => p' \in Change
         /\ resumed' => job' \in Job
<1> USE DEF TypeInv, TypeOK, ControlOK
<1>1. CASE pc \in {"restart", "waitUp"}
  <2>1. Rejected("restart") BY <1>1 DEF GiveUpRestart
  <2>2. p \in Change /\ p.files \in SUBSET Files BY <1>1 DEF Change
  <2> QED BY <2>1, <2>2, StartUndoType DEF Rejected
<1>2. CASE pc \in {"again", "waitAgain"}
  BY <1>2, NoWorkType DEF GiveUpRestart, EndCycle
<1>3. CASE pc \in {"panel", "waitPanel"}
  BY <1>3 DEF GiveUpRestart
<1> QED BY <1>1, <1>2, <1>3

LEMMA EventNames == {"edit", "hand", "fault", "stop", "outside", "addon"} \subseteq Events
BY DEF Events

LEMMA OriginType ==
  ASSUME TypeInv, KeepOrigin PROVE origin' \in Origin \cup {None}
BY DEF KeepOrigin, TypeInv, TypeOK

LEMMA NextType == TypeInv /\ [Next]_vars => TypeInv'
<1> SUFFICES ASSUME TypeInv, [Next]_vars PROVE TypeInv' OBVIOUS
<1> USE DEF TypeInv, TypeOK, ControlOK
<1>1. CASE StartCycle
  <2> DEFINE view == [k \in Keys |-> IF granted THEN vault[k] ELSE NoVal]
             safe == cache'.loaded /\ granted
  <2>1. cache' \in Cache /\ budget' \in [Events -> Nat]
    BY <1>1, RefreshType DEF StartCycle
  <2>2. view \in [Keys -> Vals \cup {Conflict}] /\ safe \in BOOLEAN /\ cache'.known \in SUBSET Addons
    BY <2>1 DEF Cache
  <2>3. \A f \in Files : /\ Rendered(f, view, cache'.known, safe) \in Content
                         /\ Managed(f, view, cache'.known, safe) \in SUBSET Keys
    BY <2>2, RenderedType
  <2>4. job' \in Job
    BY <1>1, <2>3 DEF StartCycle, Job
  <2> QED BY <1>1, <2>1, <2>4 DEF StartCycle
<1>2. CASE DryRun
  BY <1>2, NoWorkType DEF DryRun, EndCycle
<1>3. CASE HeldBack
  BY <1>3, NoWorkType DEF HeldBack, EndCycle
<1>4. CASE BeginWrite
  <2>1. job \in Job BY <1>4 DEF BeginWrite
  <2>2. NewChange \in Change /\ Todo \subseteq Files BY <2>1, NewChangeType
  <2>3. [st EXCEPT !.pending = NewChange] \in State BY <2>2 DEF State
  <2>4. [NoWork EXCEPT !.left = Todo] \in Work BY <2>2 DEF NoWork, Work
  <2>5. [file |-> file, managed |-> st.managed, copied |-> {}, failed |-> {}] \in Origin
    BY DEF Origin, State
  <2>6. "fault" \in Events BY DEF Events
  <2>7. CASE pc' = "write"
    BY <1>4, <2>1, <2>2, <2>3, <2>4, <2>5, <2>7 DEF BeginWrite, SaveOK, EndCycle
  <2>8. CASE pc' = "publish"
    BY <1>4, <2>6, <2>8, NoWorkType, SpendType DEF BeginWrite, EndCycle
  <2> QED BY <1>4, <2>7, <2>8 DEF BeginWrite, EndCycle
<1>5. CASE \E f \in Files : KeepPrevious(f)
  <2> PICK f \in Files : KeepPrevious(f) BY <1>5
  <2>1. p \in Change /\ job \in Job /\ origin \in Origin /\ work.written \subseteq Files
    BY DEF KeepPrevious, Work
  <2>2. CASE prev' = [prev EXCEPT ![f] = IF job.cur[f].exists THEN job.cur[f] ELSE @]
             /\ work' = [work EXCEPT !.kept = @ \cup {f}]
             /\ origin' = [origin EXCEPT !.copied = @ \cup {f}]
             /\ UNCHANGED <<pc, job, p, resumed, budget>>
    <3>1. job.cur[f] \in Content BY <2>1 DEF Job
    <3>2. origin' \in Origin BY <2>1, <2>2, OriginGrows
    <3>3. work' \in Work BY <2>2, WorkMoves
    <3> QED BY <2>1, <2>2, <3>1, <3>2, <3>3 DEF KeepPrevious
  <2>3. CASE Spend("fault") /\ StartUndo(work.written, "write") /\ UNCHANGED <<prev, origin>>
    BY <2>1, <2>3, StartUndoType, SpendType, EventNames DEF KeepPrevious
  <2> HIDE DEF TypeInv
  <2> QED BY <2>2, <2>3 DEF KeepPrevious
<1>6. CASE \E f \in Files : WriteFile(f)
  <2> PICK f \in Files : WriteFile(f) BY <1>6
  <2>1. p \in Change /\ job \in Job /\ origin \in Origin /\ work.written \subseteq Files
    BY DEF WriteFile, Work
  <2>2. CASE file' = [file EXCEPT ![f] = job.new[f]]
             /\ work' = [work EXCEPT !.left = @ \ {f}, !.written = @ \cup {f}]
             /\ UNCHANGED <<pc, job, p, resumed, budget>>
    <3>1. job.new[f] \in Content BY <2>1 DEF Job
    <3>2. work' \in Work BY <2>2, WorkMoves
    <3> QED BY <2>1, <2>2, <3>1, <3>2 DEF WriteFile
  <2>3. CASE Spend("fault") /\ UNCHANGED file /\ StartUndo(work.written \cup {f}, "write")
    BY <2>1, <2>3, StartUndoType, SpendType, EventNames DEF WriteFile
  <2> HIDE DEF TypeInv
  <2> QED BY <2>2, <2>3 DEF WriteFile
<1>7. CASE \E f \in Files : RestoreFile(f)
  <2> PICK f \in Files : RestoreFile(f) BY <1>7
  <2>1. p \in Change /\ work' \in Work BY WorkMoves DEF RestoreFile
  <2>2. NoFile \in Content BY DEF NoFile, Content
  <2>3. CASE UNCHANGED <<budget, origin>>
    BY <2>1, <2>2, <2>3 DEF RestoreFile
  <2>4. CASE Spend("fault") /\ UNCHANGED <<file, prev>>
             /\ origin' = IF origin = None THEN None
                          ELSE [origin EXCEPT !.failed = @ \cup {f}]
    <3>1. origin' \in Origin \cup {None} BY <2>4, OriginGrows
    <3> QED BY <2>1, <2>4, <3>1, SpendType, EventNames DEF RestoreFile
  <2> HIDE DEF TypeInv
  <2> QED BY <2>3, <2>4 DEF RestoreFile
<1>8. CASE Remember
  <2> DEFINE s == [st EXCEPT !.managed = job.managed]
  <2>1. job \in Job /\ p \in Change /\ origin \in Origin /\ work.written \subseteq Files
    BY <1>8 DEF Remember, Work
  <2>2. s \in State BY <2>1 DEF State, Job
  <2>3. st' \in State /\ disk' \in State /\ budget' \in [Events -> Nat]
    BY <1>8, <2>2, SaveType DEF Remember, Save
  <2>4. CASE StartUndo(work.written, "write") /\ UNCHANGED <<prev, origin>>
    BY <1>8, <2>1, <2>3, <2>4, StartUndoType DEF Remember
  <2>5. CASE KeepOrigin /\ EndCycle
             /\ prev' = [f \in Files |-> IF f \in p.existed THEN None ELSE prev[f]]
    BY <1>8, <2>3, <2>5, OriginType, NoWorkType DEF Remember, EndCycle
  <2>6. CASE KeepOrigin /\ pc' = "check" /\ UNCHANGED <<prev, cycle>>
    BY <1>8, <2>1, <2>3, <2>6, OriginType DEF Remember
  <2> QED BY <1>8, <2>4, <2>5, <2>6 DEF Remember
<1>9. CASE Resume
  <2>1. st.pending \in Change /\ job \in Job BY <1>9 DEF Resume, State
  <2> QED BY <1>9, <2>1 DEF Resume
<1>10. CASE UndoState
  <2>1. p \in Change BY <1>10 DEF UndoState
  <2>2. [st EXCEPT !.managed = p.before, !.pending = None] \in State
    BY <2>1 DEF State, Change
  <2>3. st' \in State /\ disk' \in State /\ budget' \in [Events -> Nat]
    BY <1>10, <2>2, SaveType DEF UndoState
  <2> QED BY <1>10, <2>1, <2>3, OriginType, NoWorkType DEF UndoState, EndCycle
<1>11. CASE HoldBack
  <2>1. p \in Change BY <1>11 DEF HoldBack
  <2>2. [st EXCEPT !.held = p.sig] \in State BY <2>1 DEF State, Change
  <2>3. st' \in State /\ disk' \in State /\ budget' \in [Events -> Nat]
    BY <1>11, <2>2, SaveType DEF HoldBack, Save
  <2>4. refused' \subseteq Moves BY <1>11, <2>1 DEF HoldBack, Change
  <2> QED BY <1>11, <2>1, <2>3, <2>4, NoWorkType DEF HoldBack, EndCycle
<1>12. CASE CheckConfig
  <2>1. p \in Change /\ p.files \in SUBSET Files BY <1>12 DEF CheckConfig, Change
  <2>2. WhoDomains \subseteq Domains BY DEF WhoDomains, Affected
  <2>3. \A offered \in {Reloadable, {}} :
          [NoWork EXCEPT !.reload = WhoDomains \cap offered,
                         !.restart = WhoDomains \ offered] \in Work
    BY <2>2 DEF NoWork, Work
  <2>4. CASE Rejected("check")
    BY <1>12, <2>1, <2>4, StartUndoType DEF CheckConfig, Rejected
  <2> QED BY <1>12, <2>1, <2>3, <2>4 DEF CheckConfig
<1>13. CASE \E d \in Domains : Reload(d)
  <2> PICK d \in Domains : Reload(d) BY <1>13
  <2>1. p \in Change BY DEF Reload
  <2>2. work' \in Work
    <3>1. CASE work' = [work EXCEPT !.reload = @ \ {d}] BY <3>1, WorkMoves
    <3>2. CASE work' = [work EXCEPT !.reload = @ \ {d}, !.restart = @ \cup {d}]
      BY <3>2, WorkMoves
    <3> QED BY <3>1, <3>2 DEF Reload
  <2>3. Reads(d, file) \in [Keys -> Vals] BY ReadsType
  <2> QED BY <2>1, <2>2, <2>3 DEF Reload
<1>14. CASE ReloadsDone
  <2>1. p \in Change /\ work.restart \subseteq Domains BY <1>14 DEF ReloadsDone, Work
  <2>2. [st EXCEPT !.waiting = @ \cup work.restart] \in State BY <2>1, StateMoves
  <2>3. st' \in State /\ disk' \in State /\ budget' \in [Events -> Nat]
    BY <1>14, <2>2, SaveType DEF ReloadsDone
  <2> QED BY <1>14, <2>1, <2>3 DEF ReloadsDone
<1>15. CASE GuardRestart
  <2>1. p \in Change /\ p.files \in SUBSET Files BY <1>15 DEF GuardRestart, Change
  <2>2. CASE Rejected("check")
    BY <1>15, <2>1, <2>2, StartUndoType DEF GuardRestart, Rejected
  <2> QED BY <1>15, <2>1, <2>2 DEF GuardRestart
<1>16. CASE RestartCore
  <2>1. CASE UNCHANGED core /\ GiveUpRestart
    BY <1>16, <2>1, GiveUpType DEF RestartCore
  <2>2. CASE ~(UNCHANGED core /\ GiveUpRestart)
    <3>1. pc' \in {"waitUp", "waitAgain", "waitPanel"} /\ core' \in {"up", "down"}
          /\ UNCHANGED cycle
      BY <1>16, <2>2 DEF RestartCore
    <3>2. pc' \in {"waitUp", "waitAgain"} => p \in Change
      BY <1>16, <2>2 DEF RestartCore
    <3> QED BY <1>16, <3>1, <3>2 DEF RestartCore
  <2> QED BY <2>1, <2>2
<1>17. CASE AwaitCore
  <2>1. [st EXCEPT !.waiting = {}] \in State BY DEF State
  <2>2. st' \in State /\ disk' \in State /\ budget' \in [Events -> Nat]
    BY <1>17, <2>1, SaveType DEF AwaitCore
  <2>3. CASE GiveUpRestart
    BY <1>17, <2>2, <2>3, GiveUpType DEF AwaitCore
  <2>4. CASE ~GiveUpRestart
    BY <1>17, <2>2, <2>4, NoWorkType DEF AwaitCore, EndCycle
  <2> QED BY <2>3, <2>4
<1>18. CASE SaveStage
  <2>1. p \in Change BY <1>18 DEF SaveStage
  <2>2. p' \in Change BY <1>18, <2>1 DEF SaveStage, Change
  <2>3. [st EXCEPT !.pending = p'] \in State BY <2>2 DEF State
  <2>4. st' \in State /\ disk' \in State /\ budget' \in [Events -> Nat]
    BY <1>18, <2>3, SaveType DEF SaveStage
  <2> QED BY <1>18, <2>2, <2>4 DEF SaveStage
<1>19. CASE AwaitSupervisor
  <2>1. p \in Change BY <1>19 DEF AwaitSupervisor
  <2>2. WhoAddons \subseteq Addons /\ Affected(p.changed, Addons) \subseteq Addons
    BY DEF WhoAddons, Affected
  <2>3. [NoWork EXCEPT !.addons = WhoAddons] \in Work BY <2>2 DEF NoWork, Work
  <2>4. CASE pc' = "publish"
    BY <1>19, <2>1, <2>4, NoWorkType DEF AwaitSupervisor, EndCycle
  <2>5. CASE pc' = "finish"
    BY <1>19, <2>1, <2>2, <2>3, <2>5 DEF AwaitSupervisor, EndCycle
  <2> QED BY <1>19, <2>4, <2>5 DEF AwaitSupervisor, EndCycle
<1>20. CASE \E a \in Addons : RestartAddon(a)
  <2> PICK a \in Addons : RestartAddon(a) BY <1>20
  <2>1. p \in Change /\ work' \in Work BY WorkMoves DEF RestartAddon
  <2>2. Reads(a, file) \in [Keys -> Vals] BY ReadsType
  <2>3. budget' \in [Events -> Nat] BY SpendType, EventNames DEF RestartAddon
  <2> QED BY <2>1, <2>2, <2>3 DEF RestartAddon
<1>21. CASE Finish
  <2>1. p \in Change /\ [st EXCEPT !.pending = None] \in State
    BY <1>21 DEF Finish, State
  <2>2. st' \in State /\ disk' \in State /\ budget' \in [Events -> Nat]
    BY <1>21, <2>1, SaveType DEF Finish
  <2> QED BY <1>21, <2>2, OriginType, NoWorkType DEF Finish, EndCycle
<1>22. CASE Publish
  <2>1. [st EXCEPT !.waiting = {}] \in State BY DEF State
  <2>2. st' \in State /\ disk' \in State /\ budget' \in [Events -> Nat]
    BY <1>22, <2>1, SaveType DEF Publish
  <2>3. cache' \in Cache BY <1>22 DEF Publish, Cache
  <2>4. lost' \subseteq Consumers BY <1>22 DEF Publish, State
  <2> QED BY <1>22, <2>2, <2>3, <2>4 DEF Publish
<1>23. CASE SyncNow
  <2>1. [st EXCEPT !.held = {}] \in State BY DEF State
  <2>2. st' \in State /\ disk' \in State /\ budget' \in [Events -> Nat]
    BY <1>23, <2>1, SaveType DEF SyncNow
  <2> QED BY <1>23, <2>2 DEF SyncNow
<1>24. CASE RestartCoreNow
  BY <1>24 DEF RestartCoreNow
<1>25. CASE Crash
  <2>1. budget' \in [Events -> Nat] BY <1>25, SpendType, EventNames DEF Crash
  <2> QED BY <1>25, <2>1, NoWorkType DEF Crash, NewProcess
<1>26. CASE Exit
  BY <1>26, NoWorkType DEF Exit, NewProcess
<1>27. CASE Stop
  BY <1>27, SpendType, EventNames DEF Stop
<1>28. CASE VaultEdit
  <2>1. vault' \in [Keys -> Vals \cup {Conflict}] /\ granted' \in BOOLEAN
    <3>1. CASE UNCHANGED vault BY <1>28, <3>1 DEF VaultEdit
    <3>2. ASSUME NEW k \in Keys, NEW v \in Vals \cup {Conflict},
                 vault' = [vault EXCEPT ![k] = v], UNCHANGED granted
          PROVE  vault' \in [Keys -> Vals \cup {Conflict}] /\ granted' \in BOOLEAN
      BY <3>2
    <3> QED BY <1>28, <3>1, <3>2 DEF VaultEdit
  <2> QED BY <1>28, <2>1, SpendType, EventNames DEF VaultEdit
<1>29. CASE HandEdit
  <2>1. PICK f \in Files, k \in HandKeys, v \in Vals :
          file' = [file EXCEPT ![f].val[k] = v]
    BY <1>29 DEF HandEdit
  <2>2. [file[f] EXCEPT !.val[k] = v] \in Content
    <3>1. file[f] \in Content /\ k \in Keys BY ConstantsAssumption DEF TypeInv, TypeOK, ConstantsAssumption
    <3>2. [file[f].val EXCEPT ![k] = v] \in [Keys -> Vals] BY <3>1 DEF Content
    <3>3. [file[f] EXCEPT !.val[k] = v] = [file[f] EXCEPT !.val = [file[f].val EXCEPT ![k] = v]] BY <3>1 DEF Content
    <3> QED BY <3>1, <3>2, <3>3 DEF Content
  <2>3. file' \in [Files -> Content] BY <2>1, <2>2
  <2> QED BY <1>29, <2>3, SpendType, EventNames DEF HandEdit
<1>30. CASE CoreStarts
  <2>1. running' \in [Consumers -> [Keys -> Vals]] BY <1>30, ReadsType DEF CoreStarts
  <2> QED BY <1>30, <2>1 DEF CoreStarts
<1>31. CASE CoreStops
  BY <1>31, SpendType, EventNames DEF CoreStops
<1>32. CASE \E a \in Addons : ToggleAddon(a)
  <2> PICK a \in Addons : ToggleAddon(a) BY <1>32
  <2>1. Reads(a, file) \in [Keys -> Vals] BY ReadsType
  <2> QED BY <2>1, SpendType, EventNames DEF ToggleAddon
<1>33. CASE FetchFails
  BY <1>33, NoWorkType, SpendType, EventNames DEF FetchFails, EndCycle
<1>34. CASE UNCHANGED vars
  BY <1>34 DEF vars
<1> QED
  BY <1>1, <1>2, <1>3, <1>4, <1>5, <1>6, <1>7, <1>8, <1>9, <1>10, <1>11,
     <1>12, <1>13, <1>14, <1>15, <1>16, <1>17, <1>18, <1>19, <1>20, <1>21, <1>22,
     <1>23, <1>24, <1>25, <1>26, <1>27, <1>28, <1>29, <1>30, <1>31, <1>32, <1>33,
     <1>34
  DEF Next, Engine, Environment

\* Every variable keeps its type, and where the cycle is says which of its
\* variables hold something: no step of the engine reads a plan or a pending
\* change that is not there, whatever was interrupted before it.
THEOREM TypeCorrect == Spec => []TypeOK
<1>1. Init => TypeInv BY InitType
<1>2. TypeInv /\ [Next]_vars => TypeInv' BY NextType
<1>3. TypeInv => TypeOK BY DEF TypeInv
<1> QED BY <1>1, <1>2, <1>3, PTL DEF Spec


-----------------------------------------------------------------------------
(* Nothing stale is forgotten. *)

LEMMA SaveEffect ==
  ASSUME NEW s, Save(s)
  PROVE  st' = s /\ (disk' = s \/ disk' = disk)
BY DEF Save, SaveOK, SaveFails

LEMMA SameStale ==
  ASSUME UNCHANGED <<running, file>>, NEW c \in Consumers
  PROVE  Stale(c)' <=> Stale(c)
BY DEF Stale, Reads

\* Remembers looks at two fields of the state.
LEMMA SameMemory ==
  ASSUME NEW s, NEW t, s.waiting = t.waiting, s.pending = t.pending, NEW d \in Domains
  PROVE  Remembers(s, d) <=> Remembers(t, d)
BY DEF Remembers

LEMMA WaitingIsRemembered ==
  ASSUME NEW s, NEW d \in s.waiting PROVE Remembers(s, d)
BY DEF Remembers

\* Where no change is pending, or only its add-ons are left, a stale domain
\* is waiting or given up.
LEMMA WaitingOrLost ==
  ASSUME TypeInv, NEW d \in Domains, Accounted(d),
         st.pending = None \/ st.pending.stage = "addons"
  PROVE  d \in st.waiting \/ d \in lost
BY DEF Accounted, Remembers

LEMMA AccountedAfter ==
  ASSUME NEW d \in Domains,
         Remembers(disk', d) \/ d \in lost', Remembers(st', d) \/ d \in lost',
         pc' \notin {"reload", "stage", "waitUp", "waitAgain", "waitPanel"}
  PROVE  Accounted(d)'
BY DEF Accounted, Remembers, Affected

\* No value moves where no value has to be written.
LEMMA NothingTouched ==
  ASSUME Signature = {}, NEW f \in Files PROVE Touched(f) = {}
<1> SUFFICES ASSUME NEW k \in Touched(f) PROVE FALSE OBVIOUS
<1>1. k \in Keys BY DEF Touched
<1>2. <<f, k>> \in {x \in Files \X Keys : x[2] \in Touched(x[1])} BY <1>1
<1>3. <<f, k, job.new[f].val[k]>> \in Signature BY <1>2 DEF Signature
<1> QED BY <1>3

\* A write changes what d reads only through a key the plan moves.
LEMMA WriteReaches ==
  ASSUME TypeInv, NEW f \in Files, WriteFile(f), file' = [file EXCEPT ![f] = job.new[f]],
         SameSecrets(file[f], job.cur[f]),
         NEW d \in Consumers, Stale(d)', ~Stale(d)
  PROVE  Uses[d].file = f /\ Uses[d].keys \cap Touched(f) # {}
<1> USE DEF TypeInv, TypeOK
<1>1. Uses[d].keys \subseteq Keys \ HandKeys /\ Uses[d].file \in Files OBVIOUS
<1>2. running' = running BY DEF WriteFile
<1>3. PICK k \in Uses[d].keys :
        file'[Uses[d].file].val[k] # file[Uses[d].file].val[k]
  BY <1>1, <1>2 DEF Stale, Reads
<1>4. Uses[d].file = f BY <1>1, <1>3
<1>5. job.new[f].val[k] # job.cur[f].val[k]
  BY <1>1, <1>3, <1>4 DEF SameSecrets
<1> QED BY <1>1, <1>4, <1>5 DEF Touched

\* Every step keeps it.  A step that touches neither what the consumers run nor
\* the files nor the state keeps it by SameStale and SameMemory; the others are
\* the writes (WriteReaches), the reloads, the saves and what gives a consumer up.
LEMMA NextStale == TypeInv /\ StaleInv /\ [Next]_vars => StaleInv'
<1> SUFFICES ASSUME TypeInv, StaleInv, [Next]_vars PROVE StaleInv' OBVIOUS
<1> USE DEF TypeInv, StaleInv, PendingInHand, PlanIsCurrent
<1>1. CASE StartCycle
  <2>1. \A d \in Domains : Stale(d)' => Accounted(d)'
    BY <1>1 DEF Stale, Reads, Accounted, Remembers, Affected, StartCycle, TypeOK
  <2>2. PendingInHand'
    BY <1>1 DEF Touched, StartCycle
  <2>3. PlanIsCurrent'
    BY <1>1 DEF SameSecrets, StartCycle
  <2> QED BY <2>1, <2>2, <2>3 DEF StaleInv
<1>2. CASE DryRun
  <2>1. \A d \in Domains : Stale(d)' => Accounted(d)'
    BY <1>2
      DEF Stale, Reads, Accounted, Remembers, Affected, DryRun, EndCycle, TypeOK
  <2>2. PendingInHand'
    BY <1>2 DEF Touched, DryRun, EndCycle
  <2>3. PlanIsCurrent'
    BY <1>2 DEF SameSecrets, DryRun, EndCycle
  <2> QED BY <2>1, <2>2, <2>3 DEF StaleInv
<1>3. CASE HeldBack
  <2>1. \A d \in Domains : Stale(d)' => Accounted(d)'
    BY <1>3
      DEF Stale, Reads, Accounted, Remembers, Affected, HeldBack, EndCycle, TypeOK
  <2>2. PendingInHand'
    BY <1>3 DEF Touched, HeldBack, EndCycle
  <2>3. PlanIsCurrent'
    BY <1>3 DEF SameSecrets, HeldBack, EndCycle
  <2> QED BY <2>1, <2>2, <2>3 DEF StaleInv
<1>4. CASE BeginWrite
  <2>1. \A d \in Domains : Stale(d)' => Accounted(d)'
    <3> SUFFICES ASSUME NEW d \in Domains, Stale(d)' PROVE Accounted(d)' OBVIOUS
    <3>1. Accounted(d) /\ st.pending = None
      BY <1>4, SameStale DEF BeginWrite
    <3>2. d \in st.waiting \/ d \in lost BY <3>1, WaitingOrLost
    <3>3. [st EXCEPT !.pending = NewChange].waiting = st.waiting
      BY DEF TypeOK, State
    <3>4. st'.waiting = st.waiting /\ (disk' = disk \/ disk' = st')
      BY <1>4, <3>3 DEF BeginWrite, SaveOK
    <3>5. lost' = lost /\ pc' \in {"write", "publish"}
      BY <1>4 DEF BeginWrite, EndCycle
    <3>6. Remembers(disk, d) \/ d \in lost BY <3>1 DEF Accounted
    <3> QED BY <3>2, <3>4, <3>5, <3>6, WaitingIsRemembered, AccountedAfter
  <2>2. PendingInHand'
    <3>1. CASE pc' = "write"
      <4>1. job' = job /\ p' = NewChange /\ st.pending = None
        BY <1>4, <3>1 DEF BeginWrite, EndCycle
      <4>2. \A f \in Files : Touched(f)' = Touched(f) BY <4>1 DEF Touched
      <4>3. p'.stage = "all" /\ p'.sig = Signature
            /\ \A f \in Files : p'.changed[f] = Touched(f)
        BY <4>1 DEF NewChange
      <4>4. CASE Signature = {}
        BY <1>4, <3>1, <4>1, <4>2, <4>3, <4>4, NothingTouched
          DEF BeginWrite, EndCycle
      <4>5. CASE Signature # {}
        <5>1. st' = [st EXCEPT !.pending = NewChange] /\ disk' = st'
          BY <1>4, <3>1, <4>5 DEF BeginWrite, EndCycle, SaveOK
        <5>2. st'.pending = p' BY <4>1, <5>1 DEF TypeOK, State
        <5> QED BY <3>1, <4>2, <4>3, <4>5, <5>1, <5>2
      <4> QED BY <4>4, <4>5
    <3>2. CASE pc' = "publish" BY <3>2
    <3> QED BY <1>4, <3>1, <3>2 DEF BeginWrite, EndCycle
  <2>3. PlanIsCurrent'
    BY <1>4 DEF SameSecrets, BeginWrite, EndCycle
  <2> QED BY <2>1, <2>2, <2>3 DEF StaleInv
<1>5. CASE \E f \in Files : KeepPrevious(f)
  <2> PICK f \in Files : KeepPrevious(f) BY <1>5
  <2>1. \A d \in Domains : Stale(d)' => Accounted(d)'
    BY SameStale DEF Accounted, KeepPrevious, StartUndo, Remembers, Affected
  <2>2. PendingInHand'
    BY DEF Touched, KeepPrevious, StartUndo
  <2>3. PlanIsCurrent'
    <3>1. UNCHANGED <<file, job, resumed>> /\ pc = "write" /\ pc' \in {"write", "undo"}
      BY DEF KeepPrevious, StartUndo
    <3>2. CASE pc' = "undo" BY <3>1, <3>2
    <3>3. CASE pc' = "write"
      <4>1. work' = [work EXCEPT !.kept = @ \cup {f}]
        BY <3>3 DEF KeepPrevious, StartUndo
      <4>2. work'.left = work.left BY <4>1 DEF TypeOK, Work
      <4> QED BY <3>1, <3>3, <4>2 DEF SameSecrets
    <3> QED BY <3>1, <3>2, <3>3
  <2> QED BY <2>1, <2>2, <2>3 DEF StaleInv
<1>6. CASE \E f \in Files : WriteFile(f)
  <2> PICK f \in Files : WriteFile(f) BY <1>6
  <2>0. UNCHANGED <<running, st, disk, lost, job, p, resumed>> /\ pc' \in {"write", "undo"}
        /\ pc = "write"
    BY DEF WriteFile, StartUndo
  <2>1. \A d \in Domains : Stale(d)' => Accounted(d)'
    <3> SUFFICES ASSUME NEW d \in Domains, Stale(d)' PROVE Accounted(d)' OBVIOUS
    <3>1. CASE Stale(d)
      BY <2>0, <3>1, AccountedAfter DEF Accounted
    <3>2. CASE ~Stale(d)
      <4>1. file' = [file EXCEPT ![f] = job.new[f]] /\ f \in work.left
        BY <2>0, <3>2, SameStale DEF WriteFile, IsNext
      <4>2. f \in work.left BY <4>1
      <4>3. SameSecrets(file[f], job.cur[f]) BY <2>0, <4>2
      <4>4. Uses[d].file = f /\ Uses[d].keys \cap Touched(f) # {}
        BY <3>2, <4>1, <4>3, WriteReaches
      <4>5. p.sig # {} /\ p.stage = "all" /\ p.changed[f] = Touched(f)
            /\ st.pending = p /\ disk.pending = p /\ p # None
        BY <2>0, <4>4, NoneAssumption DEF ControlOK
      <4>6. d \in Affected(p.changed, Consumers) BY <4>4, <4>5 DEF Affected
      <4>7. Remembers(st, d) /\ Remembers(disk, d)
        BY <4>5, <4>6 DEF Remembers
      <4> QED BY <2>0, <4>7, AccountedAfter
    <3> QED BY <3>1, <3>2
  <2>2. PendingInHand'
    BY DEF Touched, WriteFile, StartUndo
  <2>3. PlanIsCurrent'
    <3>1. CASE pc' = "undo" BY <2>0, <3>1
    <3>2. CASE pc' = "write"
      <4>1. work'.left = work.left \ {f} /\ file' = [file EXCEPT ![f] = job.new[f]]
        BY <3>2 DEF WriteFile, StartUndo, TypeOK, Work
      <4> QED BY <2>0, <3>2, <4>1 DEF SameSecrets, TypeOK
    <3> QED BY <2>0, <3>1, <3>2
  <2> QED BY <2>1, <2>2, <2>3 DEF StaleInv
<1>7. CASE \E f \in Files : RestoreFile(f)
  <2>1. \A d \in Domains : Stale(d)' => Accounted(d)'
    BY <1>7 DEF Stale, Reads, Accounted, Remembers, Affected, RestoreFile, TypeOK
  <2>2. PendingInHand'
    BY <1>7 DEF Touched, RestoreFile
  <2>3. PlanIsCurrent'
    BY <1>7 DEF SameSecrets, RestoreFile
  <2> QED BY <2>1, <2>2, <2>3 DEF StaleInv
<1>8. CASE Remember
  <2> DEFINE s == [st EXCEPT !.managed = job.managed]
  <2>0. /\ st' = s /\ (disk' = s \/ disk' = disk) /\ pc = "write"
        /\ s.waiting = st.waiting /\ s.pending = st.pending
        /\ UNCHANGED <<running, file, lost>> /\ pc' \in {"publish", "check", "undo"}
    BY <1>8, SaveEffect
      DEF Remember, Save, SaveOK, SaveFails, EndCycle, StartUndo, TypeOK, State
  <2>1. \A d \in Domains : Stale(d)' => Accounted(d)'
    BY <2>0, SameStale, SameMemory, AccountedAfter DEF Accounted
  <2>2. PendingInHand'
    <3>1. CASE pc' = "check"
      <4>1. p.sig # {} /\ p' = p
        BY <1>8, <3>1 DEF Remember, EndCycle, StartUndo
      <4> QED BY <2>0, <3>1, <4>1
    <3> QED BY <2>0, <3>1
  <2>3. PlanIsCurrent'
    BY <1>8 DEF SameSecrets, Remember, EndCycle, StartUndo, Save, SaveOK, SaveFails
  <2> QED BY <2>1, <2>2, <2>3 DEF StaleInv
<1>9. CASE Resume
  <2>1. \A d \in Domains : Stale(d)' => Accounted(d)'
    BY <1>9, SameStale DEF Accounted, Resume, Remembers, Affected
  <2>2. PendingInHand'
    <3>1. st.pending \in Change /\ st.pending.stage \in {"all", "addons"}
      BY <1>9 DEF Resume, TypeOK, State, Change
    <3> QED BY <1>9, <3>1 DEF Resume
  <2>3. PlanIsCurrent'
    BY <1>9 DEF SameSecrets, Resume
  <2> QED BY <2>1, <2>2, <2>3 DEF StaleInv
<1>10. CASE UndoState
  <2> DEFINE s == [st EXCEPT !.managed = p.before, !.pending = None]
  <2>0. /\ st' = s /\ (disk' = s \/ disk' = disk) /\ s.waiting = st.waiting
        /\ UNCHANGED <<running, file>> /\ pc' \in {"publish", "hold"}
        /\ lost' = lost \cup {c \in Consumers : Stale(c) /\ c \notin st.waiting}
    BY <1>10, SaveEffect DEF UndoState, EndCycle, TypeOK, State
  <2>1. \A d \in Domains : Stale(d)' => Accounted(d)'
    BY <2>0, SameStale, WaitingIsRemembered, AccountedAfter DEF Accounted
  <2>2. PendingInHand' BY <2>0
  <2>3. PlanIsCurrent'
    BY <1>10 DEF SameSecrets, UndoState, EndCycle
  <2> QED BY <2>1, <2>2, <2>3 DEF StaleInv
<1>11. CASE HoldBack
  <2> DEFINE s == [st EXCEPT !.held = p.sig]
  <2>0. /\ st' = s /\ (disk' = s \/ disk' = disk)
        /\ s.waiting = st.waiting /\ s.pending = st.pending
        /\ UNCHANGED <<running, file, lost>> /\ pc' \in {"publish", "again"}
    BY <1>11 DEF HoldBack, SaveOK, SaveFails, EndCycle, TypeOK, State
  <2>1. \A d \in Domains : Stale(d)' => Accounted(d)'
    BY <2>0, SameStale, SameMemory, AccountedAfter DEF Accounted
  <2>2. PendingInHand' BY <2>0
  <2>3. PlanIsCurrent'
    BY <1>11 DEF SameSecrets, HoldBack, EndCycle
  <2> QED BY <2>1, <2>2, <2>3 DEF StaleInv
<1>12. CASE CheckConfig
  <2>0. /\ UNCHANGED <<running, file, st, disk, lost, p>> /\ pc = "check"
        /\ st.pending = p /\ p.stage = "all"
    BY <1>12 DEF CheckConfig, Rejected, StartUndo
  <2>1. \A d \in Domains : Stale(d)' => Accounted(d)'
    <3> SUFFICES ASSUME NEW d \in Domains, Stale(d)' PROVE Accounted(d)' OBVIOUS
    <3>1. Accounted(d) BY <2>0, SameStale
    <3>2. d \in st.waiting \cup lost \cup WhoDomains
      BY <2>0, <3>1 DEF Accounted, Remembers, WhoDomains, Affected
    <3>3. CASE pc' = "stage"
      <4>1. WhoDomains = {} BY <1>12, <3>3 DEF CheckConfig, Rejected, StartUndo
      <4> QED BY <2>0, <3>1, <3>2, <3>3, <4>1 DEF Accounted, Remembers, Affected
    <3>4. CASE pc' = "reload"
      <4>0. PICK offered \in {Reloadable, {}} :
              work' = [NoWork EXCEPT !.reload = WhoDomains \cap offered,
                                     !.restart = WhoDomains \ offered]
        BY <1>12, <3>4 DEF CheckConfig, Rejected, StartUndo
      <4>1. /\ work'.reload = WhoDomains \cap offered
            /\ work'.restart = WhoDomains \ offered
        BY <4>0 DEF NoWork
      <4> QED BY <2>0, <3>1, <3>2, <3>4, <4>1 DEF Accounted, Remembers, Affected
    <3>5. CASE pc' = "undo"
      BY <2>0, <3>1, <3>5, AccountedAfter DEF Accounted
    <3> QED BY <1>12, <3>3, <3>4, <3>5 DEF CheckConfig, Rejected, StartUndo
  <2>2. PendingInHand'
    BY <1>12, <2>0 DEF CheckConfig, Rejected, StartUndo
  <2>3. PlanIsCurrent'
    BY <1>12 DEF SameSecrets, CheckConfig, Rejected, StartUndo
  <2> QED BY <2>1, <2>2, <2>3 DEF StaleInv
<1>13. CASE \E d \in Domains : Reload(d)
  <2> PICK d \in Domains : Reload(d) BY <1>13
  <2>0. /\ UNCHANGED <<file, st, disk, lost, p, job, resumed>> /\ pc = "reload" /\ pc' = "reload"
        /\ st.pending = p /\ p.stage = "all"
    BY DEF Reload
  <2>1. ASSUME NEW e \in Domains, Stale(e)' PROVE Accounted(e)'
    <3>1. Stale(e) /\ (e = d => running' = running)
      BY <2>0, <2>1 DEF Reload, Stale, Reads, TypeOK
    <3>2. Accounted(e) BY <3>1
    <3>3. e \in st.waiting \cup lost \cup work.reload \cup work.restart
      BY <2>0, <3>2 DEF Accounted
    <3>4. e \in work.reload \cup work.restart => e \in work'.reload \cup work'.restart
      <4>1. CASE /\ running' = [running EXCEPT ![d] = Reads(d, file)]
                 /\ work' = [work EXCEPT !.reload = @ \ {d}]
        <5>1. e # d BY <2>0, <2>1, <4>1 DEF Stale, Reads, TypeOK
        <5> QED BY <4>1, <5>1 DEF TypeOK, Work
      <4>2. CASE work' = [work EXCEPT !.reload = @ \ {d}, !.restart = @ \cup {d}]
        BY <4>2 DEF TypeOK, Work
      <4> QED BY <4>1, <4>2 DEF Reload
    <3> QED BY <2>0, <3>2, <3>3, <3>4 DEF Accounted, Remembers, Affected
  <2>2. PendingInHand' BY <2>0
  <2>3. PlanIsCurrent' BY <2>0 DEF SameSecrets
  <2> QED BY <2>1, <2>2, <2>3 DEF StaleInv
<1>14. CASE ReloadsDone
  <2> DEFINE s == [st EXCEPT !.waiting = @ \cup work.restart]
  <2>0. /\ UNCHANGED <<running, file, lost, p, job, resumed, work>> /\ pc = "reload"
        /\ st.pending = p /\ p.stage = "all" /\ work.reload = {}
        /\ pc' \in {"stage", "guard"}
        /\ s.waiting = st.waiting \cup work.restart /\ s.pending = st.pending
    BY <1>14 DEF ReloadsDone, TypeOK, State
  <2>a. \/ st' = st /\ disk' = disk /\ (pc' = "stage" => work.restart = {})
        \/ st' = s /\ (disk' = s \/ disk' = disk)
    BY <1>14, SaveEffect DEF ReloadsDone
  <2>1. ASSUME NEW d \in Domains, Stale(d)' PROVE Accounted(d)'
    <3>1. Accounted(d) BY <2>0, <2>1, SameStale
    <3>2. d \in st.waiting \cup lost \cup work.restart BY <2>0, <3>1 DEF Accounted
    <3>3. Remembers(st, d) => Remembers(s, d) BY <2>0 DEF Remembers
    <3> QED BY <2>0, <2>a, <3>1, <3>2, <3>3 DEF Accounted, Remembers, Affected
  <2>2. PendingInHand' BY <2>0, <2>a
  <2>3. PlanIsCurrent' BY <2>0 DEF SameSecrets
  <2> QED BY <2>1, <2>2, <2>3 DEF StaleInv
<1>15. CASE GuardRestart
  <2>1. \A d \in Domains : Stale(d)' => Accounted(d)'
    BY <1>15
      DEF Stale, Reads, Accounted, Remembers, Affected, GuardRestart, Rejected, StartUndo, TypeOK
  <2>2. PendingInHand'
    BY <1>15 DEF Touched, GuardRestart, Rejected, StartUndo
  <2>3. PlanIsCurrent'
    BY <1>15 DEF SameSecrets, GuardRestart, Rejected, StartUndo
  <2> QED BY <2>1, <2>2, <2>3 DEF StaleInv
<1>16. CASE RestartCore
  <2>1. \A d \in Domains : Stale(d)' => Accounted(d)'
    BY <1>16
      DEF Stale, Reads, Accounted, Remembers, Affected, RestartCore, GiveUpRestart, EndCycle, Rejected, StartUndo, TypeOK
  <2>2. PendingInHand'
    BY <1>16 DEF RestartCore, GiveUpRestart, EndCycle, Rejected, StartUndo
  <2>3. PlanIsCurrent'
    <3>1. CASE pc = "restart"
      BY <1>16, <3>1 DEF SameSecrets, RestartCore, GiveUpRestart, Rejected, StartUndo
    <3>2. CASE pc = "again"
      BY <1>16, <3>2 DEF SameSecrets, RestartCore, GiveUpRestart, EndCycle
    <3>3. CASE pc = "panel"
      BY <1>16, <3>3 DEF SameSecrets, RestartCore, GiveUpRestart
    <3> QED BY <1>16, <3>1, <3>2, <3>3 DEF RestartCore
  <2> QED BY <2>1, <2>2, <2>3 DEF StaleInv
<1>17. CASE AwaitCore
  <2> DEFINE s == [st EXCEPT !.waiting = {}]
  <2>0. /\ UNCHANGED <<running, file, lost, core>>
        /\ pc \in {"waitUp", "waitAgain", "waitPanel"} /\ s.pending = st.pending
        /\ \/ /\ core = "up"
              /\ \/ st' = st /\ disk' = disk
                 \/ st' = s /\ (disk' = s \/ disk' = disk)
           \/ GiveUpRestart /\ st' = st /\ disk' = disk
    BY <1>17, SaveEffect DEF AwaitCore, TypeOK, State
  <2>a. /\ pc = "waitUp" => \/ (pc' = "stage" /\ UNCHANGED cycle)
                            \/ StartUndo(p.files, "restart")
        /\ pc = "waitAgain" => EndCycle
        /\ pc = "waitPanel" => pc' = "idle" /\ UNCHANGED cycle
    BY <1>17 DEF AwaitCore, GiveUpRestart, Rejected
  <2>b. pc' = "stage" => core = "up"
    BY <1>17 DEF AwaitCore, GiveUpRestart, Rejected, StartUndo, EndCycle
  <2>1. ASSUME NEW d \in Domains, Stale(d)' PROVE Accounted(d)'
    <3>1. Stale(d) /\ Accounted(d) BY <2>0, <2>1, SameStale
    <3>2. core = "down" BY <2>0, <3>1 DEF Accounted
    <3>3. pc' \in {"undo", "publish", "idle"}
      BY <2>a, <2>b, <2>0, <3>2 DEF StartUndo, EndCycle
    <3> QED BY <2>0, <3>1, <3>2, <3>3, AccountedAfter DEF Accounted
  <2>2. PendingInHand' BY <2>0, <2>a DEF StartUndo, EndCycle
  <2>3. PlanIsCurrent' BY <2>0, <2>a DEF SameSecrets, StartUndo, EndCycle
  <2> QED BY <2>1, <2>2, <2>3 DEF StaleInv
<1>18. CASE SaveStage
  <2> DEFINE s == [st EXCEPT !.pending = p']
  <2>0. /\ st' = s /\ (disk' = s \/ disk' = disk) /\ s.waiting = st.waiting /\ s.pending = p'
        /\ UNCHANGED <<running, file, lost, job, resumed>> /\ pc = "stage" /\ pc' = "addons"
    BY <1>18, SaveEffect DEF SaveStage, TypeOK, State
  <2>1. ASSUME NEW d \in Domains, Stale(d)' PROVE Accounted(d)'
    <3>1. Accounted(d) BY <2>0, <2>1, SameStale
    <3>2. d \in st.waiting \cup lost BY <2>0, <3>1 DEF Accounted
    <3> QED BY <2>0, <3>1, <3>2, WaitingIsRemembered, AccountedAfter DEF Accounted
  <2>2. PendingInHand'
    <3>1. p \in Change BY <2>0 DEF ControlOK
    <3>2. p' \in Change /\ p'.stage = "addons" BY <1>18, <3>1 DEF SaveStage, Change
    <3> QED BY <2>0, <3>2, NoneAssumption
  <2>3. PlanIsCurrent' BY <2>0 DEF SameSecrets
  <2> QED BY <2>1, <2>2, <2>3 DEF StaleInv
<1>19. CASE AwaitSupervisor
  <2>1. \A d \in Domains : Stale(d)' => Accounted(d)'
    BY <1>19
      DEF Stale, Reads, Accounted, Remembers, Affected, AwaitSupervisor, EndCycle, TypeOK
  <2>2. PendingInHand'
    BY <1>19 DEF Touched, AwaitSupervisor, EndCycle
  <2>3. PlanIsCurrent'
    BY <1>19 DEF SameSecrets, AwaitSupervisor, EndCycle
  <2> QED BY <2>1, <2>2, <2>3 DEF StaleInv
<1>20. CASE \E a \in Addons : RestartAddon(a)
  <2>1. \A d \in Domains : Stale(d)' => Accounted(d)'
    BY <1>20 DEF Stale, Reads, Accounted, Remembers, Affected, RestartAddon, TypeOK
  <2>2. PendingInHand'
    BY <1>20 DEF Touched, RestartAddon
  <2>3. PlanIsCurrent'
    BY <1>20 DEF SameSecrets, RestartAddon
  <2> QED BY <2>1, <2>2, <2>3 DEF StaleInv
<1>21. CASE Finish
  <2> DEFINE s == [st EXCEPT !.pending = None]
  <2>0. /\ st' = s /\ (disk' = s \/ disk' = disk) /\ s.waiting = st.waiting
        /\ UNCHANGED <<running, file, lost>> /\ pc = "finish" /\ pc' \in {"planned", "publish"}
    BY <1>21, SaveEffect DEF Finish, EndCycle, TypeOK, State
  <2>1. ASSUME NEW d \in Domains, Stale(d)' PROVE Accounted(d)'
    <3>1. Accounted(d) BY <2>0, <2>1, SameStale
    <3>2. d \in st.waiting \cup lost BY <2>0, <3>1, WaitingOrLost
    <3> QED BY <2>0, <3>1, <3>2, WaitingIsRemembered, AccountedAfter DEF Accounted
  <2>2. PendingInHand' BY <2>0
  <2>3. PlanIsCurrent' BY <1>21 DEF SameSecrets, Finish, EndCycle
  <2> QED BY <2>1, <2>2, <2>3 DEF StaleInv
<1>22. CASE Publish
  <2> DEFINE s == [st EXCEPT !.waiting = {}]
  <2>0. /\ UNCHANGED <<running, file>> /\ pc' = "idle" /\ s.pending = st.pending
    BY <1>22 DEF Publish, TypeOK, State
  <2>a. \/ /\ st' = s /\ (disk' = s \/ disk' = disk)
           /\ lost' = lost \cup {d \in st.waiting : Stale(d)}
        \/ UNCHANGED <<st, disk, lost>>
    BY <1>22, SaveEffect DEF Publish
  <2>1. ASSUME NEW d \in Domains, Stale(d)' PROVE Accounted(d)'
    <3>1. Stale(d) /\ Accounted(d) BY <2>0, <2>1, SameStale
    <3>2. CASE UNCHANGED <<st, disk, lost>>
      BY <2>0, <3>1, <3>2, AccountedAfter DEF Accounted
    <3>3. CASE /\ st' = s /\ (disk' = s \/ disk' = disk)
               /\ lost' = lost \cup {c \in st.waiting : Stale(c)}
      <4>1. Remembers(s, d) \/ d \in lost'
        BY <2>0, <3>1, <3>3 DEF Accounted, Remembers
      <4> QED BY <2>0, <3>1, <3>3, <4>1, AccountedAfter DEF Accounted
    <3> QED BY <2>a, <3>2, <3>3
  <2>2. PendingInHand' BY <2>0
  <2>3. PlanIsCurrent' BY <1>22 DEF SameSecrets, Publish
  <2> QED BY <2>1, <2>2, <2>3 DEF StaleInv
<1>23. CASE SyncNow
  <2> DEFINE s == [st EXCEPT !.held = {}]
  <2>0. /\ st' = s /\ (disk' = s \/ disk' = disk)
        /\ s.waiting = st.waiting /\ s.pending = st.pending
        /\ UNCHANGED <<running, file, lost>> /\ pc = "idle" /\ pc' = "idle"
    BY <1>23, SaveEffect DEF SyncNow, TypeOK, State
  <2>1. \A d \in Domains : Stale(d)' => Accounted(d)'
    BY <2>0, SameStale, SameMemory, AccountedAfter DEF Accounted
  <2>2. PendingInHand' BY <2>0
  <2>3. PlanIsCurrent' BY <1>23 DEF SameSecrets, SyncNow
  <2> QED BY <2>1, <2>2, <2>3 DEF StaleInv
<1>24. CASE RestartCoreNow
  <2>1. \A d \in Domains : Stale(d)' => Accounted(d)'
    BY <1>24 DEF Stale, Reads, Accounted, Remembers, Affected, RestartCoreNow, TypeOK
  <2>2. PendingInHand'
    BY <1>24 DEF Touched, RestartCoreNow
  <2>3. PlanIsCurrent'
    BY <1>24 DEF SameSecrets, RestartCoreNow
  <2> QED BY <2>1, <2>2, <2>3 DEF StaleInv
<1>25. CASE Crash
  <2>1. \A d \in Domains : Stale(d)' => Accounted(d)'
    BY <1>25
      DEF Stale, Reads, Accounted, Remembers, Affected, Crash, NewProcess, TypeOK
  <2>2. PendingInHand'
    BY <1>25 DEF Touched, Crash, NewProcess
  <2>3. PlanIsCurrent'
    BY <1>25 DEF SameSecrets, Crash, NewProcess
  <2> QED BY <2>1, <2>2, <2>3 DEF StaleInv
<1>26. CASE Exit
  <2>1. \A d \in Domains : Stale(d)' => Accounted(d)'
    BY <1>26
      DEF Stale, Reads, Accounted, Remembers, Affected, Exit, NewProcess, TypeOK
  <2>2. PendingInHand'
    BY <1>26 DEF Touched, Exit, NewProcess
  <2>3. PlanIsCurrent'
    BY <1>26 DEF SameSecrets, Exit, NewProcess
  <2> QED BY <2>1, <2>2, <2>3 DEF StaleInv
<1>27. CASE Stop
  <2>1. \A d \in Domains : Stale(d)' => Accounted(d)'
    BY <1>27 DEF Stale, Reads, Accounted, Remembers, Affected, Stop, TypeOK
  <2>2. PendingInHand'
    BY <1>27 DEF Touched, Stop
  <2>3. PlanIsCurrent'
    BY <1>27 DEF SameSecrets, Stop
  <2> QED BY <2>1, <2>2, <2>3 DEF StaleInv
<1>28. CASE VaultEdit
  <2>1. \A d \in Domains : Stale(d)' => Accounted(d)'
    BY <1>28 DEF Stale, Reads, Accounted, Remembers, Affected, VaultEdit, TypeOK
  <2>2. PendingInHand'
    BY <1>28 DEF Touched, VaultEdit
  <2>3. PlanIsCurrent'
    BY <1>28 DEF SameSecrets, VaultEdit
  <2> QED BY <2>1, <2>2, <2>3 DEF StaleInv
<1>29. CASE HandEdit
  <2>1. \A d \in Domains : Stale(d)' => Accounted(d)'
    BY <1>29 DEF Stale, Reads, Accounted, Remembers, Affected, HandEdit, TypeOK
  <2>2. PendingInHand'
    BY <1>29 DEF Touched, HandEdit
  <2>3. PlanIsCurrent'
    BY <1>29 DEF SameSecrets, HandEdit
  <2> QED BY <2>1, <2>2, <2>3 DEF StaleInv
<1>30. CASE CoreStarts
  <2>1. \A d \in Domains : Stale(d)' => Accounted(d)'
    BY <1>30 DEF Stale, Reads, Accounted, Remembers, Affected, CoreStarts, TypeOK
  <2>2. PendingInHand'
    BY <1>30 DEF Touched, CoreStarts
  <2>3. PlanIsCurrent'
    BY <1>30 DEF SameSecrets, CoreStarts
  <2> QED BY <2>1, <2>2, <2>3 DEF StaleInv
<1>31. CASE CoreStops
  <2>1. \A d \in Domains : Stale(d)' => Accounted(d)'
    BY <1>31 DEF Stale, Reads, Accounted, Remembers, Affected, CoreStops, TypeOK
  <2>2. PendingInHand'
    BY <1>31 DEF Touched, CoreStops
  <2>3. PlanIsCurrent'
    BY <1>31 DEF SameSecrets, CoreStops
  <2> QED BY <2>1, <2>2, <2>3 DEF StaleInv
<1>32. CASE \E a \in Addons : ToggleAddon(a)
  <2>1. \A d \in Domains : Stale(d)' => Accounted(d)'
    BY <1>32 DEF Stale, Reads, Accounted, Remembers, Affected, ToggleAddon, TypeOK
  <2>2. PendingInHand'
    BY <1>32 DEF Touched, ToggleAddon
  <2>3. PlanIsCurrent'
    BY <1>32 DEF SameSecrets, ToggleAddon
  <2> QED BY <2>1, <2>2, <2>3 DEF StaleInv
<1>33. CASE FetchFails
  <2>1. \A d \in Domains : Stale(d)' => Accounted(d)'
    BY <1>33, SameStale DEF Accounted, FetchFails, EndCycle, Remembers, Affected
  <2>2. PendingInHand'
    BY <1>33 DEF FetchFails, EndCycle
  <2>3. PlanIsCurrent'
    BY <1>33 DEF FetchFails, EndCycle
  <2> QED BY <2>1, <2>2, <2>3 DEF StaleInv
<1>34. CASE UNCHANGED vars
  <2>1. \A d \in Domains : Stale(d)' => Accounted(d)'
    BY <1>34 DEF Stale, Reads, Accounted, Remembers, Affected, vars, TypeOK
  <2>2. PendingInHand'
    BY <1>34 DEF Touched, vars
  <2>3. PlanIsCurrent'
    BY <1>34 DEF SameSecrets, vars
  <2> QED BY <2>1, <2>2, <2>3 DEF StaleInv
<1> QED
  BY <1>1, <1>2, <1>3, <1>4, <1>5, <1>6, <1>7, <1>8, <1>9, <1>10, <1>11,
     <1>12, <1>13, <1>14, <1>15, <1>16, <1>17, <1>18, <1>19, <1>20, <1>21, <1>22,
     <1>23, <1>24, <1>25, <1>26, <1>27, <1>28, <1>29, <1>30, <1>31, <1>32, <1>33,
     <1>34
  DEF Next, Engine, Environment

LEMMA InitStale == Init => StaleInv
BY DEF Init, StaleInv, Stale, PendingInHand, PlanIsCurrent

\* An integration that runs other values than its secrets file holds is on
\* record in state.json, whatever was interrupted and whichever write failed:
\* the invariant StaleInv holds, and with it StaleIsRemembered.
THEOREM StaleRemembered == Spec => []StaleIsRemembered
<1>1. Init => TypeInv /\ StaleInv BY InitType, InitStale
<1>2. TypeInv /\ StaleInv /\ [Next]_vars => TypeInv' /\ StaleInv'
  BY NextType, NextStale
<1>3. TypeInv /\ StaleInv => StaleIsRemembered
  BY DEF StaleInv, StaleIsRemembered, Accounted
<1> QED BY <1>1, <1>2, <1>3, PTL DEF Spec

-----------------------------------------------------------------------------
USE ConstantsAssumption DEF Consumers, Vals, outside, cycle, history

\* What is held back is held back in memory and in state.json alike.
HeldOK == refused # {} => st.held = refused /\ disk.held = refused

\* The plan is in force: made, not yet written or still to be written.
PlanInForce == resumed \/ pc \in {"planned", "write"}

\* A plan writes whole files, and keeps every key that is in use.
PlanOK ==
  PlanInForce =>
    \A f \in Files :
      /\ job.new[f] # job.cur[f] => job.new[f].exists
      /\ \A key \in Referenced(f, cache.known) :
           job.cur[f].val[key] # NoVal => job.new[f].val[key] # NoVal

\* f is still to be written, or the plan made while a change is resumed waits.
Unwritten(f) ==
  \/ pc = "planned"
  \/ pc = "write" /\ f \in work.left
  \/ resumed /\ pc \in {"check", "reload", "guard", "restart", "waitUp",
                        "stage", "addons", "finish"}

\* Until a file is written it is there if it was there for the plan.
PlanExistsOK ==
  \A f \in Files : Unwritten(f) => file[f].exists = job.cur[f].exists

\* A file that is not there holds no key; what was copied was there.
EmptyOK ==
  /\ \A f \in Files : ~file[f].exists => \A key \in Keys : file[f].val[key] = NoVal
  /\ \A f \in Files : prev[f] # None => prev[f].exists

\* The stages in which a change is in hand.
InHand == {"write", "undo", "check", "reload", "guard", "restart", "waitUp",
           "stage", "addons", "finish"}

\* Change q, as recorded, is the one whose beginning origin keeps.
Carries(q) ==
  /\ q.before = origin.managed
  /\ \A f \in origin.copied : f \in q.files /\ (origin.file[f].exists <=> f \in q.existed)

\* Wherever the change in flight is recorded, it is recorded truly.
RecordsOK ==
  origin # None =>
    /\ pc \in InHand \/ st.pending # None
    /\ pc \in InHand => Carries(p)
    /\ st.pending # None => Carries(st.pending)
    /\ st.pending # None /\ disk.pending # None => Carries(disk.pending)

\* File f is as the change found it.
AsFound(f) == /\ file[f].exists = origin.file[f].exists
              /\ SameSecrets(file[f], origin.file[f])

\* What a change found in a file it copied is in the copy or still in the file.
CopiesOK ==
  origin # None =>
    /\ \A f \in Files : ~origin.file[f].exists =>
         \A key \in Keys : origin.file[f].val[key] = NoVal
    /\ \A f \in origin.copied : origin.file[f].exists =>
         /\ prev[f] = None => AsFound(f)
         /\ prev[f] # None => SameSecrets(prev[f], origin.file[f])

\* While the files are written: what the change says of them, which have their
\* copy, and that the others are as the change found them.
WritingOK ==
  pc = "write" =>
    /\ p.files = Todo /\ p.existed = {f \in Todo : job.cur[f].exists}
    /\ work.left \cup work.written \subseteq Todo
    /\ origin.copied \subseteq work.left \cup work.written
    /\ work.kept \subseteq origin.copied
    /\ \A f \in Files : /\ origin.file[f].exists = job.cur[f].exists
                        /\ SameSecrets(job.cur[f], origin.file[f])
    /\ \A f \in work.kept : job.cur[f].exists => prev[f] # None

\* While they are undone: what is not waiting for its turn is as it was found.
UndoingOK ==
  pc = "undo" /\ origin # None =>
    \A f \in origin.copied \ origin.failed : f \in work.left \/ AsFound(f)

\* What a stale running add-on still has coming.
Expected(a) ==
  /\ Remembers(disk, a) \/ a \in lost
  /\ Remembers(st, a) \/ a \in lost
  /\ pc = "finish" => a \in lost \cup work.addons

AddonsOK ==
  /\ \A a \in addonUp : Stale(a) => Expected(a)
  /\ pc \in {"addons", "finish"} => st.pending = p

-----------------------------------------------------------------------------
(* What is held back *)

\* A save that leaves what is held back alone keeps memory and disk agreed.
LEMMA SaveKeepsHeld ==
  ASSUME HeldOK, UNCHANGED refused, NEW s, Save(s), s.held = st.held PROVE HeldOK'
BY SaveEffect DEF HeldOK

\* No step lets memory and state.json disagree on what is held back.
LEMMA HeldStep == TypeInv /\ HeldOK /\ [Next]_vars => HeldOK'
<1> SUFFICES ASSUME TypeInv, HeldOK, [Next]_vars PROVE HeldOK' OBVIOUS
<1>0. st \in State BY DEF TypeInv, TypeOK
<1>1. CASE UNCHANGED <<st, disk, refused>> BY <1>1 DEF HeldOK
<1>2. CASE BeginWrite
  <2>1. [st EXCEPT !.pending = NewChange].held = st.held BY <1>0 DEF State
  <2> QED BY <1>1, <1>2, <2>1, SaveKeepsHeld DEF BeginWrite, Save
<1>3. CASE Remember
  <2>1. [st EXCEPT !.managed = job.managed].held = st.held BY <1>0 DEF State
  <2> QED BY <1>3, <2>1, SaveKeepsHeld DEF Remember, Save
<1>4. CASE UndoState
  <2>1. [st EXCEPT !.managed = p.before, !.pending = None].held = st.held
    BY <1>0 DEF State
  <2> QED BY <1>4, <2>1, SaveKeepsHeld DEF UndoState
<1>5. CASE HoldBack
  <2>1. [st EXCEPT !.held = p.sig].held = p.sig BY <1>0 DEF State
  <2> QED BY <1>5, <2>1 DEF HoldBack, SaveOK, SaveFails, HeldOK
<1>6. CASE ReloadsDone
  <2>1. [st EXCEPT !.waiting = @ \cup work.restart].held = st.held BY <1>0 DEF State
  <2> QED BY <1>1, <1>6, <2>1, SaveKeepsHeld DEF ReloadsDone
<1>7. CASE AwaitCore \/ Publish
  <2>1. [st EXCEPT !.waiting = {}].held = st.held BY <1>0 DEF State
  <2> QED BY <1>1, <1>7, <2>1, SaveKeepsHeld DEF AwaitCore, Publish
<1>8. CASE SaveStage
  <2>1. [st EXCEPT !.pending = p'].held = st.held BY <1>0 DEF State
  <2> QED BY <1>8, <2>1, SaveKeepsHeld DEF SaveStage
<1>9. CASE Finish
  <2>1. [st EXCEPT !.pending = None].held = st.held BY <1>0 DEF State
  <2> QED BY <1>9, <2>1, SaveKeepsHeld DEF Finish
<1>10. CASE SyncNow \/ VaultEdit
  BY <1>10 DEF SyncNow, VaultEdit, HeldOK
<1>11. CASE Crash \/ Exit
  BY <1>11 DEF Crash, Exit, NewProcess, HeldOK
<1>12. CASE \/ StartCycle \/ FetchFails \/ DryRun \/ HeldBack \/ Resume
             \/ \E f \in Files : KeepPrevious(f) \/ WriteFile(f) \/ RestoreFile(f)
  BY <1>1, <1>12
    DEF StartCycle, FetchFails, DryRun, HeldBack, Resume, KeepPrevious, WriteFile, RestoreFile
<1>13. CASE \/ CheckConfig \/ (\E d \in Domains : Reload(d)) \/ GuardRestart
             \/ RestartCore \/ AwaitSupervisor \/ (\E a \in Addons : RestartAddon(a))
  BY <1>1, <1>13
    DEF CheckConfig, Reload, GuardRestart, RestartCore, AwaitSupervisor, RestartAddon
<1>14. CASE \/ RestartCoreNow \/ Stop \/ HandEdit \/ CoreStarts \/ CoreStops
             \/ (\E a \in Addons : ToggleAddon(a)) \/ UNCHANGED vars
  BY <1>1, <1>14
    DEF RestartCoreNow, Stop, HandEdit, CoreStarts, CoreStops, ToggleAddon, vars
<1> QED
  BY <1>2, <1>3, <1>4, <1>5, <1>6, <1>7, <1>8, <1>9, <1>10, <1>11, <1>12, <1>13, <1>14
  DEF Next, Engine, Environment

\* A change that was rolled back and held back is not written again before Sync
\* now or an edit in 1Password, by this process or a later one: what the write
\* looks at in memory is what state.json holds.
THEOREM HeldBackStays == Spec => HeldBackNotRetried
<1>1. Init => TypeInv /\ HeldOK BY InitType DEF Init, HeldOK
<1>2. TypeInv /\ HeldOK /\ [Next]_vars => TypeInv' /\ HeldOK' BY NextType, HeldStep
<1>3. HeldOK /\ [Next]_vars
        => [pc = "planned" /\ pc' = "write" /\ p'.sig # {} => p'.sig # refused]_vars
  <2> SUFFICES ASSUME HeldOK, Next, pc = "planned", pc' = "write", p'.sig # {}
               PROVE  p'.sig # refused
    OBVIOUS
  <2>1. BeginWrite
    BY DEF Next, Engine, Environment, StartCycle, FetchFails, DryRun, HeldBack, Resume,
       KeepPrevious, WriteFile, RestoreFile, Remember, UndoState, HoldBack, CheckConfig,
       Reload, ReloadsDone, GuardRestart, RestartCore, AwaitCore, SaveStage, AwaitSupervisor,
       RestartAddon, Finish, Publish, Exit, NewProcess, SyncNow, RestartCoreNow, Crash, Stop,
       VaultEdit, HandEdit, CoreStarts, CoreStops, ToggleAddon, EndCycle
  <2>2. p' = NewChange /\ (Signature = {} \/ Signature # st.held)
    BY <2>1 DEF BeginWrite, EndCycle
  <2>3. p'.sig = Signature BY <2>2 DEF NewChange
  <2> QED BY <2>2, <2>3 DEF HeldOK
<1> QED BY <1>1, <1>2, <1>3, PTL DEF Spec, HeldBackNotRetried

-----------------------------------------------------------------------------
(* What a plan keeps *)

\* A rendered file is written whole, and holds every key it held that some
\* configuration refers to.
LEMMA RenderedKeeps ==
  ASSUME TypeInv, NEW f \in Files, NEW known, NEW view, NEW safe
  PROVE  /\ Rendered(f, view, known, safe) # file[f] => Rendered(f, view, known, safe).exists
         /\ \A key \in Referenced(f, known) \cap Keys :
              file[f].val[key] # NoVal => Rendered(f, view, known, safe).val[key] # NoVal
<1>1. CASE Untouched(f, view, known) BY <1>1 DEF Rendered
<1>2. CASE ~Untouched(f, view, known)
  <2>1. \A key \in Desired(f, view, known) : view[key] # NoVal BY DEF Desired
  <2> QED BY <1>2, <2>1 DEF Rendered
<1> QED BY <1>1, <1>2

LEMMA ReferencedAreKeys ==
  ASSUME NEW f \in Files, NEW known PROVE Referenced(f, known) \subseteq Keys
BY DEF Referenced

\* Every plan in force writes whole files and keeps the keys in use.
LEMMA PlanStep == TypeInv /\ PlanOK /\ [Next]_vars => PlanOK'
<1> SUFFICES ASSUME TypeInv, PlanOK, [Next]_vars PROVE PlanOK' OBVIOUS
<1>0. cache \in Cache BY DEF TypeInv, TypeOK
<1>1. CASE UNCHANGED job /\ cache'.known = cache.known /\ (PlanInForce' => PlanInForce)
  BY <1>1 DEF PlanOK, Referenced
<1>2. CASE EndCycle BY <1>2 DEF EndCycle, PlanOK, PlanInForce
<1>3. CASE StartCycle
  <2> DEFINE view == [key \in Keys |-> IF granted THEN vault[key] ELSE NoVal]
             safe == cache'.loaded /\ granted
  <2>1. \A f \in Files : /\ job'.cur[f] = file[f]
                         /\ job'.new[f] = Rendered(f, view, cache'.known, safe)
    BY <1>3 DEF StartCycle
  <2> HIDE DEF view, safe
  <2>2. ASSUME NEW f \in Files
        PROVE  /\ job'.new[f] # job'.cur[f] => job'.new[f].exists
               /\ \A key \in Referenced(f, cache'.known) :
                    job'.cur[f].val[key] # NoVal => job'.new[f].val[key] # NoVal
    BY <2>1, RenderedKeeps, ReferencedAreKeys
  <2>3. \A f \in Files : Referenced(f, cache.known)' = Referenced(f, cache'.known)
    BY DEF Referenced
  <2> QED BY <2>2, <2>3 DEF PlanOK
<1>4. CASE \/ FetchFails \/ DryRun \/ HeldBack
  BY <1>2, <1>4 DEF FetchFails, DryRun, HeldBack
<1>5. CASE BeginWrite
  <2>1. \/ EndCycle
        \/ UNCHANGED <<job, resumed, cache>> /\ pc = "planned"
    BY <1>5 DEF BeginWrite
  <2> QED BY <1>1, <1>2, <2>1 DEF PlanInForce
<1>6. CASE \E f \in Files : KeepPrevious(f) \/ WriteFile(f)
  BY <1>1, <1>6 DEF KeepPrevious, WriteFile, StartUndo, PlanInForce
<1>7. CASE \E f \in Files : RestoreFile(f)
  BY <1>1, <1>7 DEF RestoreFile, PlanInForce
<1>8. CASE Remember
  <2>1. EndCycle \/ (UNCHANGED <<job, resumed, cache>> /\ pc = "write")
    BY <1>8 DEF Remember, StartUndo
  <2> QED BY <1>1, <1>2, <2>1 DEF PlanInForce
<1>9. CASE Resume
  BY <1>1, <1>9 DEF Resume, PlanInForce
<1>10. CASE UndoState \/ HoldBack
  <2>1. EndCycle \/ (UNCHANGED <<job, resumed, cache>> /\ pc' \notin {"planned", "write"})
    BY <1>10 DEF UndoState, HoldBack
  <2> QED BY <1>1, <1>2, <2>1 DEF PlanInForce
<1>11. CASE \/ CheckConfig \/ (\E d \in Domains : Reload(d)) \/ GuardRestart \/ ReloadsDone
             \/ SaveStage
  BY <1>1, <1>11
    DEF CheckConfig, Reload, ReloadsDone, GuardRestart, SaveStage, Rejected, StartUndo, PlanInForce
<1>12. CASE RestartCore \/ AwaitCore
  <2>1. EndCycle \/ (UNCHANGED <<job, resumed, cache>> /\ pc' \notin {"planned", "write"})
    BY <1>12 DEF RestartCore, AwaitCore, GiveUpRestart, Rejected, StartUndo
  <2> QED BY <1>1, <1>2, <2>1 DEF PlanInForce
<1>13. CASE AwaitSupervisor \/ (\E a \in Addons : RestartAddon(a))
  <2>1. EndCycle \/ (UNCHANGED <<job, resumed, cache>> /\ pc' \notin {"planned", "write"})
    BY <1>13 DEF AwaitSupervisor, RestartAddon
  <2> QED BY <1>1, <1>2, <2>1 DEF PlanInForce
<1>14. CASE Finish
  <2>1. EndCycle \/ (UNCHANGED <<job, cache>> /\ resumed)
    BY <1>14 DEF Finish
  <2> QED BY <1>1, <1>2, <2>1 DEF PlanInForce
<1>15. CASE Publish
  <2>1. cache'.known = cache.known BY <1>0, <1>15 DEF Publish, Cache
  <2> QED BY <1>1, <1>15, <2>1 DEF Publish, PlanInForce
<1>16. CASE Crash \/ Exit
  BY <1>16 DEF Crash, Exit, NewProcess, PlanOK, PlanInForce
<1>17. CASE \/ SyncNow \/ RestartCoreNow \/ Stop \/ VaultEdit \/ HandEdit \/ CoreStarts
             \/ CoreStops \/ (\E a \in Addons : ToggleAddon(a)) \/ UNCHANGED vars
  BY <1>1, <1>17
    DEF SyncNow, RestartCoreNow, Stop, VaultEdit, HandEdit, CoreStarts, CoreStops,
        ToggleAddon, vars, PlanInForce
<1> QED
  BY <1>3, <1>4, <1>5, <1>6, <1>7, <1>8, <1>9, <1>10, <1>11, <1>12, <1>13, <1>14,
     <1>15, <1>16, <1>17
  DEF Next, Engine, Environment

\* While a plan is written, only the write of a file and an edit by hand change
\* a file.
LEMMA WhoWrites ==
  ASSUME Next, pc = "write"
  PROVE  \/ UNCHANGED file
         \/ HandEdit
         \/ \E f \in Files : WriteFile(f) /\ file' = [file EXCEPT ![f] = job.new[f]]
BY DEF Next, Engine, Environment, StartCycle, FetchFails, DryRun, HeldBack, BeginWrite, Resume,
   KeepPrevious, WriteFile, RestoreFile, Remember, UndoState, HoldBack, CheckConfig,
   Reload, ReloadsDone, GuardRestart, RestartCore, AwaitCore, SaveStage, AwaitSupervisor,
   RestartAddon, Finish, Publish, Exit, NewProcess, SyncNow, RestartCoreNow, Crash, Stop,
   VaultEdit, CoreStarts, CoreStops, ToggleAddon

\* A sync never takes away a key that a configuration uses, unless it could not
\* read the options of the add-on using it: the plan keeps it (PlanOK), and what
\* the plan was made from is still what the file holds (PlanIsCurrent), but for
\* the keys the owner edits.
THEOREM UsedKeysAreKept == Spec => UsedKeysStay
<1> DEFINE I == TypeInv /\ StaleInv /\ PlanOK
<1>1. Init => I BY InitType, InitStale DEF Init, PlanOK, PlanInForce
<1>2. I /\ [Next]_vars => I' BY NextType, NextStale, PlanStep
<1>3. I /\ [Next]_vars
        => [pc = "write" =>
             \A c \in Consumers : \A k \in Uses[c].keys :
               LET f == Uses[c].file
               IN c \in Domains \/ f # Root \/ c \in cache.known =>
                    (file[f].val[k] # NoVal => file'[f].val[k] # NoVal)]_vars
  <2> SUFFICES ASSUME TypeInv, StaleInv, PlanOK, Next, pc = "write",
                      NEW c \in Consumers, NEW k \in Uses[c].keys,
                      c \in Domains \/ Uses[c].file # Root \/ c \in cache.known,
                      file[Uses[c].file].val[k] # NoVal
               PROVE  file'[Uses[c].file].val[k] # NoVal
    OBVIOUS
  <2> DEFINE f == Uses[c].file
  <2>1. k \in Keys \ HandKeys /\ f \in Files OBVIOUS
  <2>2. file \in [Files -> Content] /\ job \in Job BY DEF TypeInv, TypeOK, ControlOK
  <2>3. CASE UNCHANGED file BY <2>3
  <2>4. CASE HandEdit
    <3>1. PICK g \in Files, x \in HandKeys, v \in Vals : file' = [file EXCEPT ![g].val[x] = v]
      BY <2>4 DEF HandEdit
    <3> QED BY <2>1, <2>2, <3>1 DEF Content
  <2>5. ASSUME NEW g \in Files, WriteFile(g), file' = [file EXCEPT ![g] = job.new[g]]
        PROVE  file'[f].val[k] # NoVal
    <3>1. CASE g # f BY <2>1, <2>2, <2>5, <3>1
    <3>2. CASE g = f
      <4>1. f \in work.left BY <2>5, <3>2 DEF WriteFile, IsNext
      <4>2. SameSecrets(file[f], job.cur[f]) BY <2>1, <4>1 DEF StaleInv, PlanIsCurrent
      <4>3. job.cur[f].val[k] # NoVal BY <2>1, <4>2 DEF SameSecrets
      <4>4. k \in Referenced(f, cache.known)
        <5>1. c \in {d \in Consumers :
                       Uses[d].file = f /\ (d \in Addons /\ f = Root => d \in cache.known)}
          OBVIOUS
        <5> QED BY <5>1 DEF Referenced
      <4>5. job.new[f].val[k] # NoVal BY <2>1, <4>3, <4>4 DEF PlanOK, PlanInForce
      <4> QED BY <2>1, <2>2, <2>5, <3>2, <4>5
    <3> QED BY <3>1, <3>2
  <2> QED BY <2>3, <2>4, <2>5, WhoWrites
<1> HIDE DEF I
<1> QED BY <1>1, <1>2, <1>3, PTL DEF Spec, UsedKeysStay

-----------------------------------------------------------------------------
(* Stale add-ons *)

\* An add-on is remembered only as a consumer of the pending change.
LEMMA AddonMemory ==
  ASSUME NEW s \in State, NEW a \in Addons
  PROVE  Remembers(s, a)
           <=> s.pending # None /\ a \in Affected(s.pending.changed, Consumers)
BY DEF Remembers, State

\* A step that makes no add-on stale, gives none back and neither drops nor adds
\* a pending change keeps it, where it leaves the last two stages alone.
LEMMA AddonsFrame ==
  ASSUME TypeInv, TypeInv', AddonsOK, lost \subseteq lost',
         st'.pending \in {st.pending, disk.pending},
         disk'.pending \in {st.pending, disk.pending},
         \A a \in addonUp' : Stale(a)' => a \in addonUp /\ Stale(a),
         pc' \notin {"addons", "finish"} \/ UNCHANGED <<pc, p, work, st>>
  PROVE  AddonsOK'
<1>1. st \in State /\ disk \in State /\ st' \in State /\ disk' \in State
      /\ addonUp' \subseteq Addons
  BY DEF TypeInv, TypeOK
<1>2. ASSUME NEW a \in addonUp', Stale(a)' PROVE Expected(a)'
  <2>1. Expected(a) /\ a \in Addons BY <1>1, <1>2 DEF AddonsOK
  <2>2. Remembers(st', a) \/ a \in lost' BY <1>1, <2>1, AddonMemory DEF Expected
  <2>3. Remembers(disk', a) \/ a \in lost' BY <1>1, <2>1, AddonMemory DEF Expected
  <2>4. pc' = "finish" => a \in lost' \cup work'.addons BY <2>1 DEF Expected
  <2> QED BY <2>2, <2>3, <2>4 DEF Expected, Remembers, Affected
<1>3. pc' \in {"addons", "finish"} => st'.pending = p' BY DEF AddonsOK
<1> QED BY <1>2, <1>3 DEF AddonsOK

\* Every step keeps it: a write makes stale only what the pending change names,
\* and the change is over only when each add-on had its turn or was given up.
LEMMA AddonsStep ==
  TypeInv /\ StaleInv /\ AddonsOK /\ [Next]_vars => AddonsOK'
<1> SUFFICES ASSUME TypeInv, StaleInv, AddonsOK, [Next]_vars PROVE AddonsOK' OBVIOUS
<1>0. TypeInv' BY NextType
<1>t. /\ st \in State /\ disk \in State /\ addonUp \subseteq Addons
      /\ st' \in State /\ disk' \in State /\ addonUp' \subseteq Addons
      /\ Addons \subseteq Consumers
  BY <1>0 DEF TypeInv, TypeOK
<1>s. UNCHANGED <<running, file, addonUp>>
        => \A a \in addonUp' : Stale(a)' => a \in addonUp /\ Stale(a)
  BY <1>t, SameStale
<1>1. CASE \/ StartCycle \/ FetchFails \/ DryRun \/ HeldBack
             \/ (\E f \in Files : KeepPrevious(f))
  <2>1. UNCHANGED <<running, file, addonUp, lost, st, disk>> /\ pc' \notin {"addons", "finish"}
    BY <1>1 DEF StartCycle, FetchFails, DryRun, HeldBack, KeepPrevious, EndCycle, StartUndo
  <2> QED BY <1>0, <1>s, <2>1, AddonsFrame
<1>2. CASE \/ CheckConfig \/ GuardRestart \/ RestartCore \/ RestartCoreNow
  <2>1. UNCHANGED <<running, file, addonUp, lost, st, disk>> /\ pc' \notin {"addons", "finish"}
    BY <1>2 DEF CheckConfig, GuardRestart, RestartCore, RestartCoreNow, EndCycle, StartUndo,
       GiveUpRestart, Rejected
  <2> QED BY <1>0, <1>s, <2>1, AddonsFrame
<1>3. CASE Remember
  <2>1. [st EXCEPT !.managed = job.managed].pending = st.pending BY <1>t DEF State
  <2>2. UNCHANGED <<running, file, addonUp, lost>> /\ pc' \notin {"addons", "finish"}
        /\ st'.pending = st.pending /\ disk'.pending \in {st.pending, disk.pending}
    BY <1>3, <2>1 DEF Remember, SaveOK, SaveFails, EndCycle, StartUndo
  <2> QED BY <1>0, <1>s, <2>2, AddonsFrame
<1>4. CASE HoldBack
  <2>1. [st EXCEPT !.held = p.sig].pending = st.pending BY <1>t DEF State
  <2>2. UNCHANGED <<running, file, addonUp, lost>> /\ pc' \notin {"addons", "finish"}
        /\ st'.pending = st.pending /\ disk'.pending \in {st.pending, disk.pending}
    BY <1>4, <2>1 DEF HoldBack, SaveOK, SaveFails, EndCycle
  <2> QED BY <1>0, <1>s, <2>2, AddonsFrame
<1>5. CASE ReloadsDone
  <2>1. [st EXCEPT !.waiting = @ \cup work.restart].pending = st.pending BY <1>t DEF State
  <2>2. UNCHANGED <<running, file, addonUp, lost>> /\ pc' \notin {"addons", "finish"}
        /\ st'.pending = st.pending /\ disk'.pending \in {st.pending, disk.pending}
    BY <1>5, <2>1 DEF ReloadsDone, Save, SaveOK, SaveFails
  <2> QED BY <1>0, <1>s, <2>2, AddonsFrame
<1>6. CASE AwaitCore \/ Publish
  <2>1. [st EXCEPT !.waiting = {}].pending = st.pending BY <1>t DEF State
  <2>2. UNCHANGED <<running, file, addonUp>> /\ pc' \notin {"addons", "finish"}
        /\ lost \subseteq lost'
    BY <1>6 DEF AwaitCore, Publish, GiveUpRestart, Rejected, StartUndo, EndCycle
  <2>3. st'.pending = st.pending /\ disk'.pending \in {st.pending, disk.pending}
    BY <1>6, <2>1 DEF AwaitCore, Publish, Save, SaveOK, SaveFails
  <2> QED BY <1>0, <1>s, <2>2, <2>3, AddonsFrame
<1>7. CASE SyncNow
  <2>1. [st EXCEPT !.held = {}].pending = st.pending BY <1>t DEF State
  <2>2. UNCHANGED <<running, file, addonUp, lost>> /\ pc' \notin {"addons", "finish"}
        /\ st'.pending = st.pending /\ disk'.pending \in {st.pending, disk.pending}
    BY <1>7, <2>1 DEF SyncNow, Save, SaveOK, SaveFails
  <2> QED BY <1>0, <1>s, <2>2, AddonsFrame
<1>8. CASE Crash \/ Exit
  <2>1. UNCHANGED <<running, file, addonUp, lost, disk>> /\ pc' \notin {"addons", "finish"}
        /\ st' = disk
    BY <1>8 DEF Crash, Exit, NewProcess
  <2> QED BY <1>0, <1>s, <2>1, AddonsFrame
<1>9. CASE \/ Stop \/ VaultEdit \/ CoreStops \/ UNCHANGED vars
  <2>1. UNCHANGED <<running, file, addonUp, lost, st, disk, pc, p, work>>
    BY <1>9 DEF Stop, VaultEdit, CoreStops, vars
  <2> QED BY <1>0, <1>s, <2>1, AddonsFrame
<1>10. CASE HandEdit
  <2>1. UNCHANGED <<running, addonUp, lost, st, disk, pc, p, work>> BY <1>10 DEF HandEdit
  <2>2. PICK g \in Files, x \in HandKeys, v \in Vals : file' = [file EXCEPT ![g].val[x] = v]
    BY <1>10 DEF HandEdit
  <2>3. file \in [Files -> Content] BY DEF TypeInv, TypeOK
  <2>4. \A a \in Addons : Uses[a].file \in Files /\ Uses[a].keys \subseteq Keys \ HandKeys
    BY <1>t
  <2>5. \A a \in Addons : Reads(a, file') = Reads(a, file)
    BY <2>2, <2>3, <2>4 DEF Reads, Content
  <2>6. \A a \in addonUp' : Stale(a)' => a \in addonUp /\ Stale(a)
    BY <1>t, <2>1, <2>5 DEF Stale, Reads
  <2> QED BY <1>0, <2>1, <2>6, AddonsFrame
<1>11. CASE CoreStarts
  <2>1. UNCHANGED <<file, addonUp, lost, st, disk, pc, p, work>>
        /\ \A a \in Addons : running'[a] = running[a]
    BY <1>11, <1>t DEF CoreStarts
  <2>2. \A a \in addonUp' : Stale(a)' => a \in addonUp /\ Stale(a)
    BY <1>t, <2>1 DEF Stale, Reads
  <2> QED BY <1>0, <2>1, <2>2, AddonsFrame
<1>12. CASE \E d \in Domains : Reload(d)
  <2>0. running \in [Consumers -> [Keys -> Vals]] BY DEF TypeInv, TypeOK
  <2>1. UNCHANGED <<file, addonUp, lost, st, disk, pc>> /\ pc = "reload"
        /\ \A a \in Addons : running'[a] = running[a]
    BY <1>12, <1>t, <2>0 DEF Reload
  <2>2. \A a \in addonUp' : Stale(a)' => a \in addonUp /\ Stale(a)
    BY <1>t, <2>1 DEF Stale, Reads
  <2> QED BY <1>0, <2>1, <2>2, AddonsFrame
<1>13. CASE \E a \in Addons : ToggleAddon(a)
  <2> PICK b \in Addons : ToggleAddon(b) BY <1>13
  <2>0. running \in [Consumers -> [Keys -> Vals]] BY DEF TypeInv, TypeOK
  <2>1. UNCHANGED <<file, lost, st, disk, pc, p, work>> BY DEF ToggleAddon
  <2>2. ASSUME NEW a \in addonUp', Stale(a)' PROVE a \in addonUp /\ Stale(a)
    <3>1. running'[a] = running[a] \/ (a = b /\ running'[a] = Reads(a, file))
      BY <1>t, <2>0 DEF ToggleAddon
    <3>2. running'[a] # Reads(a, file) BY <2>1, <2>2 DEF Stale, Reads
    <3>3. Stale(a) BY <3>1, <3>2 DEF Stale
    <3>4. a \in addonUp BY <1>t, <2>0, <2>2, <3>2 DEF ToggleAddon
    <3> QED BY <3>3, <3>4
  <2> QED BY <1>0, <2>1, <2>2, AddonsFrame
<1>14. CASE BeginWrite
  <2>0. [st EXCEPT !.pending = NewChange].pending = NewChange BY <1>t DEF State
  <2>1. UNCHANGED <<running, file, addonUp, lost>> /\ st.pending = None
        /\ pc' \in {"write", "publish"}
    BY <1>14 DEF BeginWrite, EndCycle
  <2>2. ASSUME NEW a \in addonUp', Stale(a)' PROVE Expected(a)'
    <3>1. Expected(a) BY <1>s, <2>1, <2>2 DEF AddonsOK
    <3>2. a \in lost BY <1>t, <2>1, <2>2, <3>1, AddonMemory DEF Expected
    <3> QED BY <2>1, <3>2 DEF Expected
  <2> QED BY <2>1, <2>2 DEF AddonsOK
<1>15. CASE \E f \in Files : WriteFile(f)
  <2> PICK f \in Files : WriteFile(f) BY <1>15
  <2>0. UNCHANGED <<running, st, disk, lost, addonUp>> /\ pc' \in {"write", "undo"}
        /\ pc = "write"
    BY DEF WriteFile, StartUndo
  <2>1. ASSUME NEW a \in addonUp', Stale(a)' PROVE Expected(a)'
    <3>0. a \in addonUp /\ a \in Addons BY <1>t, <2>0, <2>1
    <3>1. CASE Stale(a)
      <4>1. Expected(a) BY <3>0, <3>1 DEF AddonsOK
      <4> QED BY <2>0, <4>1 DEF Expected, Remembers, Affected
    <3>2. CASE ~Stale(a)
      <4>1. file' = [file EXCEPT ![f] = job.new[f]] /\ f \in work.left
        BY <1>t, <2>0, <2>1, <3>0, <3>2, SameStale DEF WriteFile, IsNext
      <4>2. SameSecrets(file[f], job.cur[f])
        BY <2>0, <4>1 DEF StaleInv, PlanIsCurrent
      <4>3. Uses[a].file = f /\ Uses[a].keys \cap Touched(f) # {}
        BY <1>t, <2>1, <3>0, <3>2, <4>1, <4>2, WriteReaches
      <4>4. p.sig # {} /\ p.changed[f] = Touched(f)
            /\ st.pending = p /\ disk.pending = p /\ p # None
        BY <2>0, <4>3, NoneAssumption DEF StaleInv, PendingInHand, TypeInv, ControlOK
      <4>5. a \in Affected(p.changed, Consumers) BY <1>t, <3>0, <4>3, <4>4 DEF Affected
      <4>6. Remembers(st, a) /\ Remembers(disk, a)
        BY <1>t, <3>0, <4>4, <4>5, AddonMemory
      <4> QED BY <2>0, <4>6 DEF Expected, Remembers, Affected
    <3> QED BY <3>1, <3>2
  <2> QED BY <2>0, <2>1 DEF AddonsOK
<1>16. CASE \E f \in Files : RestoreFile(f)
  <2> PICK f \in Files : RestoreFile(f) BY <1>16
  <2>0. UNCHANGED <<running, st, disk, addonUp, pc>> /\ pc = "undo"
        /\ lost' = lost \cup {c \in Consumers : ~Stale(c) /\ running[c] # Reads(c, file')}
    BY DEF RestoreFile
  <2>1. ASSUME NEW a \in addonUp', Stale(a)' PROVE Expected(a)'
    <3>0. a \in addonUp /\ a \in Consumers BY <1>t, <2>0, <2>1
    <3>1. CASE Stale(a)
      <4>1. Expected(a) BY <3>0, <3>1 DEF AddonsOK
      <4> QED BY <2>0, <4>1 DEF Expected, Remembers, Affected
    <3>2. CASE ~Stale(a)
      <4>1. running[a] # Reads(a, file') BY <2>0, <2>1 DEF Stale, Reads
      <4>2. a \in lost' BY <2>0, <3>0, <3>2, <4>1
      <4> QED BY <2>0, <4>2 DEF Expected
    <3> QED BY <3>1, <3>2
  <2> QED BY <2>0, <2>1 DEF AddonsOK
<1>17. CASE UndoState
  <2>0. UNCHANGED <<running, file, addonUp>> /\ pc' \in {"hold", "publish"}
        /\ lost' = lost \cup {c \in Consumers : Stale(c) /\ c \notin st.waiting}
    BY <1>17 DEF UndoState, EndCycle
  <2>1. ASSUME NEW a \in addonUp', Stale(a)' PROVE Expected(a)'
    <3>1. a \in Addons /\ Stale(a) BY <1>s, <1>t, <2>0, <2>1
    <3>2. a \notin st.waiting BY <1>t, <3>1 DEF State
    <3> QED BY <1>t, <2>0, <3>1, <3>2 DEF Expected
  <2> QED BY <2>0, <2>1 DEF AddonsOK
<1>18. CASE Resume
  <2>0. UNCHANGED <<running, file, addonUp, lost, st, disk>> /\ p' = st.pending
        /\ pc' \in {"check", "addons"}
    BY <1>18 DEF Resume
  <2>1. ASSUME NEW a \in addonUp', Stale(a)' PROVE Expected(a)'
    <3>1. Expected(a) BY <1>s, <2>0, <2>1 DEF AddonsOK
    <3> QED BY <2>0, <3>1 DEF Expected, Remembers, Affected
  <2> QED BY <2>0, <2>1 DEF AddonsOK
<1>19. CASE SaveStage
  <2>0. UNCHANGED <<running, file, addonUp, lost>> /\ pc = "stage" /\ pc' = "addons"
        /\ p' = [p EXCEPT !.stage = "addons"]
    BY <1>19 DEF SaveStage
  <2>1. st' = [st EXCEPT !.pending = p'] /\ (disk' = st' \/ disk' = disk)
    BY <1>19, SaveEffect DEF SaveStage
  <2>2. st.pending = p /\ p \in Change
    BY <2>0 DEF StaleInv, PendingInHand, TypeInv, ControlOK
  <2>3. st'.pending = p' /\ p'.changed = p.changed /\ p' \in Change
    BY <1>t, <2>0, <2>1, <2>2 DEF State, Change
  <2>4. ASSUME NEW a \in addonUp', Stale(a)' PROVE Expected(a)'
    <3>1. Expected(a) /\ a \in Addons BY <1>s, <1>t, <2>0, <2>4 DEF AddonsOK
    <3>2. Remembers(st', a) \/ a \in lost
      BY <1>t, <2>2, <2>3, <3>1, AddonMemory, NoneAssumption DEF Expected
    <3>3. Remembers(disk', a) \/ a \in lost BY <2>1, <3>1, <3>2 DEF Expected
    <3> QED BY <2>0, <3>2, <3>3 DEF Expected, Remembers, Affected
  <2> QED BY <2>3, <2>4 DEF AddonsOK
<1>20. CASE AwaitSupervisor
  <2>0. UNCHANGED <<running, file, addonUp, st, disk>> /\ lost \subseteq lost'
        /\ pc = "addons" /\ pc' \in {"publish", "finish"}
        /\ st.pending = p /\ st.pending # None
    BY <1>20 DEF AwaitSupervisor, EndCycle, StaleInv, PendingInHand, AddonsOK
  <2>1. CASE pc' = "publish" BY <1>0, <1>s, <2>0, <2>1, AddonsFrame
  <2>2. CASE pc' = "finish"
    <3>1. work' = [NoWork EXCEPT !.addons = WhoAddons] /\ p' = p
          /\ lost' = lost \cup (Affected(p.changed, Addons) \ WhoAddons)
      BY <1>20, <2>2 DEF AwaitSupervisor, EndCycle
    <3>2. work'.addons = WhoAddons BY <3>1 DEF NoWork
    <3>3. ASSUME NEW a \in addonUp', Stale(a)' PROVE Expected(a)'
      <4>1. Expected(a) /\ a \in Addons BY <1>s, <1>t, <2>0, <3>3 DEF AddonsOK
      <4>2. a \in lost \/ a \in Affected(p.changed, Consumers)
        BY <1>t, <2>0, <4>1, AddonMemory DEF Expected
      <4>3. a \in lost' \cup work'.addons BY <3>1, <3>2, <4>1, <4>2 DEF Affected
      <4> QED BY <2>0, <4>1, <4>3 DEF Expected, Remembers, Affected
    <3> QED BY <2>0, <3>1, <3>3 DEF AddonsOK
  <2> QED BY <2>0, <2>1, <2>2
<1>21. CASE \E a \in Addons : RestartAddon(a)
  <2> PICK b \in Addons : RestartAddon(b) BY <1>21
  <2>0. running \in [Consumers -> [Keys -> Vals]] /\ work \in Work BY DEF TypeInv, TypeOK
  <2>1. UNCHANGED <<file, st, disk, pc, p>> /\ pc = "finish" /\ lost \subseteq lost'
        /\ work' = [work EXCEPT !.addons = @ \ {b}]
    BY DEF RestartAddon
  <2>2. work'.addons = work.addons \ {b} BY <2>0, <2>1 DEF Work
  <2>3. \/ running' = [running EXCEPT ![b] = Reads(b, file)] /\ addonUp' = addonUp \cup {b}
        \/ b \in lost' /\ UNCHANGED <<running, addonUp>>
    BY DEF RestartAddon
  <2>4. ASSUME NEW a \in addonUp', Stale(a)' PROVE Expected(a)'
    <3>0. a \in Addons /\ running'[a] # Reads(a, file) BY <1>t, <2>1, <2>4 DEF Stale, Reads
    <3>1. running'[a] = running[a] /\ a \in addonUp /\ (a = b => b \in lost')
      BY <1>t, <2>0, <2>3, <2>4, <3>0
    <3>2. Expected(a) BY <3>0, <3>1 DEF AddonsOK, Stale
    <3> QED BY <2>1, <2>2, <3>1, <3>2 DEF Expected, Remembers, Affected
  <2> QED BY <2>1, <2>4 DEF AddonsOK
<1>22. CASE Finish
  <2>0. UNCHANGED <<running, file, addonUp, lost>> /\ pc = "finish" /\ work.addons = {}
        /\ pc' \in {"planned", "publish"}
    BY <1>22 DEF Finish, EndCycle
  <2>1. ASSUME NEW a \in addonUp', Stale(a)' PROVE Expected(a)'
    <3>1. a \in lost BY <1>s, <2>0, <2>1 DEF AddonsOK, Expected
    <3> QED BY <2>0, <3>1 DEF Expected
  <2> QED BY <2>0, <2>1 DEF AddonsOK
<1> QED
  BY <1>1, <1>2, <1>3, <1>4, <1>5, <1>6, <1>7, <1>8, <1>9, <1>10, <1>11, <1>12,
     <1>13, <1>14, <1>15, <1>16, <1>17, <1>18, <1>19, <1>20, <1>21, <1>22
  DEF Next, Engine, Environment

\* A running add-on that holds other values than its secrets file is a consumer
\* of the change state.json says is pending, or its refresh was given up: no stop
\* or failing save between the write and its restart loses it.
THEOREM StaleAddonRemembered == Spec => []StaleAddonIsRemembered
<1> DEFINE I == TypeInv /\ StaleInv /\ AddonsOK
<1>1. Init => I BY InitType, InitStale DEF Init, AddonsOK, Stale
<1>2. I /\ [Next]_vars => I' BY NextType, NextStale, AddonsStep
<1>3. I => StaleAddonIsRemembered BY DEF AddonsOK, Expected, StaleAddonIsRemembered
<1> HIDE DEF I
<1> QED BY <1>1, <1>2, <1>3, PTL DEF Spec

-----------------------------------------------------------------------------
(* What a change found *)

LossInv == /\ PlanOK /\ PlanExistsOK /\ EmptyOK
           /\ RecordsOK /\ CopiesOK /\ WritingOK /\ UndoingOK

\* A step that touches neither the files, nor their copies, nor what is known of
\* the change in flight: it may move that change to a later stage, start to undo
\* it, end a cycle that leaves it pending, or do something else altogether.
Aside ==
  /\ UNCHANGED <<file, prev, origin>>
  /\ st'.pending = st.pending /\ disk'.pending \in {disk.pending, st.pending}
  /\ \/ UNCHANGED <<pc, p, job>> /\ (pc \in {"write", "undo"} => UNCHANGED work)
     \/ /\ pc \in InHand \ {"write", "undo"} /\ pc' \in InHand \ {"write", "undo"}
        /\ UNCHANGED p
     \/ pc \notin InHand /\ pc' \notin InHand
     \/ /\ pc \in InHand /\ pc' = "undo" /\ UNCHANGED p
        /\ work'.left = p.files
     \/ pc' = "publish" /\ st.pending # None

\* The steps that are not aside.
LEMMA Kinds ==
  ASSUME TypeInv, StaleInv, [Next]_vars
  PROVE  \/ Aside
         \/ BeginWrite /\ pc' = "write"
         \/ \E f \in Files : KeepPrevious(f) \/ WriteFile(f) \/ RestoreFile(f)
         \/ Remember \/ Resume \/ UndoState \/ SaveStage \/ Finish
         \/ Crash \/ Exit \/ HandEdit
<1>t. st \in State BY DEF TypeInv, TypeOK
<1>1. ASSUME NEW s, Save(s), s.pending = st.pending
      PROVE  st'.pending = st.pending /\ disk'.pending \in {disk.pending, st.pending}
  BY <1>1, SaveEffect
<1>2. CASE \/ StartCycle \/ FetchFails \/ DryRun \/ HeldBack \/ RestartCoreNow
  BY <1>2 DEF StartCycle, FetchFails, DryRun, HeldBack, RestartCoreNow, EndCycle, Aside, InHand
<1>3. CASE BeginWrite
  BY <1>3 DEF BeginWrite, EndCycle, Aside, InHand
<1>4. CASE HoldBack
  <2>1. [st EXCEPT !.held = p.sig].pending = st.pending BY <1>t DEF State
  <2>2. st'.pending = st.pending /\ disk'.pending \in {disk.pending, st.pending}
    BY <1>4, <2>1 DEF HoldBack, SaveOK, SaveFails
  <2> QED BY <1>4, <2>2 DEF HoldBack, EndCycle, Aside, InHand
<1>5. ASSUME NEW why, Rejected(why), pc \in InHand, UNCHANGED <<file, prev, origin, st, disk>>
      PROVE  Aside
  <2>1. pc' = "undo" /\ p' = p /\ work'.left = p.files
    BY <1>5 DEF Rejected, StartUndo, NoWork
  <2> QED BY <1>5, <2>1 DEF Aside
<1>6. CASE CheckConfig
  BY <1>5, <1>6 DEF CheckConfig, Aside, InHand
<1>7. CASE GuardRestart
  BY <1>5, <1>7 DEF GuardRestart, Aside, InHand
<1>8. CASE (\E d \in Domains : Reload(d)) \/ (\E a \in Addons : RestartAddon(a))
  BY <1>8 DEF Reload, RestartAddon, Aside
<1>9. CASE ReloadsDone
  <2>1. [st EXCEPT !.waiting = @ \cup work.restart].pending = st.pending BY <1>t DEF State
  <2>2. st'.pending = st.pending /\ disk'.pending \in {disk.pending, st.pending}
    BY <1>1, <1>9, <2>1 DEF ReloadsDone
  <2> QED BY <1>9, <2>2 DEF ReloadsDone, Aside, InHand
<1>10. CASE RestartCore
  <2>0. UNCHANGED <<file, prev, origin, st, disk>> BY <1>10 DEF RestartCore
  <2>1. CASE pc = "restart"
    BY <1>5, <1>10, <2>0, <2>1 DEF RestartCore, GiveUpRestart, Aside, InHand
  <2>2. CASE pc \in {"again", "panel"}
    BY <1>10, <2>0, <2>2 DEF RestartCore, GiveUpRestart, EndCycle, Aside, InHand
  <2> QED BY <1>10, <2>1, <2>2 DEF RestartCore
<1>11. CASE AwaitCore
  <2>1. [st EXCEPT !.waiting = {}].pending = st.pending BY <1>t DEF State
  <2>2. st'.pending = st.pending /\ disk'.pending \in {disk.pending, st.pending}
        /\ UNCHANGED <<file, prev, origin>>
    BY <1>1, <1>11, <2>1 DEF AwaitCore
  <2>3. CASE pc = "waitUp"
    BY <1>5, <1>11, <2>2, <2>3 DEF AwaitCore, GiveUpRestart, Aside, InHand
  <2>4. CASE pc \in {"waitAgain", "waitPanel"}
    BY <1>11, <2>2, <2>4 DEF AwaitCore, GiveUpRestart, EndCycle, Aside, InHand
  <2> QED BY <1>11, <2>3, <2>4 DEF AwaitCore
<1>12. CASE AwaitSupervisor
  <2>1. st.pending # None BY <1>12 DEF AwaitSupervisor, StaleInv, PendingInHand
  <2> QED BY <1>12, <2>1 DEF AwaitSupervisor, EndCycle, Aside, InHand
<1>13. CASE Publish
  <2>1. [st EXCEPT !.waiting = {}].pending = st.pending BY <1>t DEF State
  <2>2. st'.pending = st.pending /\ disk'.pending \in {disk.pending, st.pending}
    BY <1>1, <1>13, <2>1 DEF Publish
  <2> QED BY <1>13, <2>2 DEF Publish, Aside, InHand
<1>14. CASE SyncNow
  <2>1. [st EXCEPT !.held = {}].pending = st.pending BY <1>t DEF State
  <2>2. st'.pending = st.pending /\ disk'.pending \in {disk.pending, st.pending}
    BY <1>1, <1>14, <2>1 DEF SyncNow
  <2> QED BY <1>14, <2>2 DEF SyncNow, Aside
<1>15. CASE \/ Stop \/ VaultEdit \/ CoreStarts \/ CoreStops
              \/ (\E a \in Addons : ToggleAddon(a)) \/ UNCHANGED vars
  BY <1>15 DEF Stop, VaultEdit, CoreStarts, CoreStops, ToggleAddon, vars, Aside
<1> QED
  BY <1>2, <1>3, <1>4, <1>6, <1>7, <1>8, <1>9, <1>10, <1>11, <1>12, <1>13, <1>14, <1>15
  DEF Next, Engine, Environment

\* An edit by hand leaves a file where it is and its secrets as they are.
LEMMA HandEditKeeps ==
  ASSUME TypeInv, HandEdit, NEW f \in Files
  PROVE  /\ file'[f].exists = file[f].exists
         /\ \A key \in Keys \ HandKeys : file'[f].val[key] = file[f].val[key]
         /\ ~file[f].exists => file'[f] = file[f]
<1>1. PICK g \in Files, x \in HandKeys, v \in Vals :
        file[g].exists /\ file' = [file EXCEPT ![g].val[x] = v]
  BY DEF HandEdit
<1>2. file \in [Files -> Content] BY DEF TypeInv, TypeOK
<1> QED BY <1>1, <1>2 DEF Content

\* What is not there is empty, and what was copied was there.
LEMMA EmptyStep ==
  TypeInv /\ StaleInv /\ LossInv /\ [Next]_vars => EmptyOK'
<1> SUFFICES ASSUME TypeInv, StaleInv, LossInv, [Next]_vars PROVE EmptyOK' OBVIOUS
<1>t. file \in [Files -> Content] /\ prev \in [Files -> Content \cup {None}]
  BY DEF TypeInv, TypeOK
<1>0. EmptyOK BY DEF LossInv
<1>1. CASE UNCHANGED file /\ \A f \in Files : prev'[f] \in {prev[f], None}
  BY <1>0, <1>1 DEF EmptyOK
<1>2. CASE Aside BY <1>1, <1>2 DEF Aside
<1>3. CASE BeginWrite \/ Resume \/ UndoState \/ SaveStage
  BY <1>1, <1>3 DEF BeginWrite, Resume, UndoState, SaveStage
<1>4. CASE Remember
  BY <1>1, <1>4 DEF Remember
<1>5. CASE Finish BY <1>1, <1>5 DEF Finish
<1>6. CASE Crash \/ Exit BY <1>1, <1>6 DEF Crash, Exit, NewProcess
<1>7. CASE HandEdit
  <2>1. UNCHANGED prev BY <1>7 DEF HandEdit
  <2> QED BY <1>0, <1>7, <2>1, HandEditKeeps DEF EmptyOK
<1>8. ASSUME NEW f \in Files, KeepPrevious(f) PROVE EmptyOK'
  BY <1>0, <1>t, <1>8 DEF KeepPrevious, EmptyOK
<1>9. ASSUME NEW f \in Files, WriteFile(f) PROVE EmptyOK'
  <2>1. UNCHANGED prev /\ pc = "write" /\ f \in work.left
    BY <1>9 DEF WriteFile, IsNext
  <2>2. job.new[f] # job.cur[f] BY <2>1 DEF LossInv, WritingOK, Todo
  <2>3. job.new[f].exists BY <2>1, <2>2 DEF LossInv, PlanOK, PlanInForce
  <2> QED BY <1>0, <1>1, <1>t, <1>9, <2>1, <2>3 DEF WriteFile, EmptyOK
<1>10. ASSUME NEW f \in Files, RestoreFile(f) PROVE EmptyOK'
  <2>1. \A key \in Keys : NoFile.val[key] = NoVal BY DEF NoFile
  <2> QED BY <1>0, <1>t, <1>10, <2>1 DEF RestoreFile, EmptyOK
<1> QED BY <1>2, <1>3, <1>4, <1>5, <1>6, <1>7, <1>8, <1>9, <1>10, Kinds

\* Until a file is written it is where it was when the plan was made.
LEMMA PlanExistsStep ==
  TypeInv /\ StaleInv /\ LossInv /\ [Next]_vars => PlanExistsOK'
<1> SUFFICES ASSUME TypeInv, StaleInv, LossInv, [Next]_vars PROVE PlanExistsOK' OBVIOUS
<1>t. file \in [Files -> Content] /\ work \in Work BY DEF TypeInv, TypeOK
<1>0. PlanExistsOK BY DEF LossInv
<1>r. resumed => pc \notin {"idle", "planned", "write", "publish", "panel", "waitPanel"}
  BY DEF StaleInv, PlanIsCurrent
<1>1. CASE /\ \A f \in Files : file'[f].exists = file[f].exists
           /\ UNCHANGED job /\ \A f \in Files : Unwritten(f)' => Unwritten(f)
  BY <1>0, <1>1 DEF PlanExistsOK
<1>2. CASE \A f \in Files : ~Unwritten(f)'
  BY <1>2 DEF PlanExistsOK
<1>3. EndCycle => \A f \in Files : ~Unwritten(f)' BY DEF EndCycle, Unwritten
<1>4. CASE StartCycle
  BY <1>4 DEF StartCycle, PlanExistsOK
<1>5. CASE FetchFails \/ DryRun \/ HeldBack
  BY <1>2, <1>3, <1>5 DEF FetchFails, DryRun, HeldBack
<1>6. CASE BeginWrite
  <2>1. EndCycle \/ (UNCHANGED <<file, job, resumed>> /\ pc = "planned")
    BY <1>6 DEF BeginWrite
  <2> QED BY <1>1, <1>2, <1>3, <2>1 DEF Unwritten
<1>7. ASSUME NEW f \in Files, KeepPrevious(f) PROVE PlanExistsOK'
  <2>1. UNCHANGED <<file, job, resumed>> /\ pc = "write"
    BY <1>7 DEF KeepPrevious, StartUndo
  <2>2. CASE pc' = "undo" BY <1>2, <2>2 DEF Unwritten
  <2>3. CASE pc' # "undo"
    <3>1. work' = [work EXCEPT !.kept = @ \cup {f}] /\ pc' = "write"
      BY <1>7, <2>3 DEF KeepPrevious, StartUndo
    <3>2. work'.left = work.left BY <1>t, <3>1 DEF Work
    <3> QED BY <1>1, <1>r, <2>1, <3>1, <3>2 DEF Unwritten
  <2> QED BY <2>2, <2>3
<1>8. ASSUME NEW f \in Files, WriteFile(f) PROVE PlanExistsOK'
  <2>1. UNCHANGED <<job, resumed>> /\ pc = "write"
    BY <1>8 DEF WriteFile, StartUndo
  <2>2. CASE pc' = "undo" BY <1>2, <2>2 DEF Unwritten
  <2>3. CASE pc' # "undo"
    <3>1. work' = [work EXCEPT !.left = @ \ {f}, !.written = @ \cup {f}] /\ pc' = "write"
          /\ file' = [file EXCEPT ![f] = job.new[f]]
      BY <1>8, <2>3 DEF WriteFile, StartUndo
    <3>2. work'.left = work.left \ {f} BY <1>t, <3>1 DEF Work
    <3>3. ASSUME NEW g \in Files, Unwritten(g)' PROVE file'[g].exists = job'.cur[g].exists
      <4>1. g # f /\ Unwritten(g) BY <1>r, <2>1, <3>1, <3>2, <3>3 DEF Unwritten
      <4> QED BY <1>0, <1>t, <2>1, <3>1, <4>1 DEF PlanExistsOK
    <3> QED BY <3>3 DEF PlanExistsOK
  <2> QED BY <2>2, <2>3
<1>9. CASE (\E f \in Files : RestoreFile(f)) \/ UndoState \/ HoldBack
  <2>1. EndCycle \/ pc' \in {"undo", "hold", "again"}
    BY <1>9 DEF RestoreFile, UndoState, HoldBack
  <2> QED BY <1>2, <1>3, <2>1 DEF Unwritten
<1>10. CASE Remember
  <2>1. EndCycle \/ pc' = "undo" \/ (pc' = "check" /\ ~resumed')
    BY <1>r, <1>10 DEF Remember, StartUndo
  <2> QED BY <1>2, <1>3, <2>1 DEF Unwritten
<1>11. CASE Resume
  BY <1>1, <1>11 DEF Resume, Unwritten
<1>12. CASE \/ CheckConfig \/ (\E d \in Domains : Reload(d)) \/ ReloadsDone \/ GuardRestart
  BY <1>1, <1>12
    DEF CheckConfig, Reload, ReloadsDone, GuardRestart, Rejected, StartUndo, Unwritten
<1>13. CASE SaveStage \/ (\E a \in Addons : RestartAddon(a))
  BY <1>1, <1>13 DEF SaveStage, RestartAddon, Unwritten
<1>14. CASE RestartCore \/ AwaitCore
  <2>1. \/ EndCycle
        \/ pc' \in {"undo", "waitAgain", "waitPanel", "idle"}
        \/ /\ UNCHANGED <<file, job, resumed>> /\ pc \in {"restart", "waitUp"}
           /\ pc' \in {"waitUp", "stage"}
    BY <1>14 DEF RestartCore, AwaitCore, GiveUpRestart, Rejected, StartUndo
  <2> QED BY <1>1, <1>2, <1>3, <2>1 DEF Unwritten
<1>15. CASE AwaitSupervisor
  <2>1. EndCycle \/ (UNCHANGED <<file, job, resumed>> /\ pc = "addons" /\ pc' = "finish")
    BY <1>15 DEF AwaitSupervisor
  <2> QED BY <1>1, <1>2, <1>3, <2>1 DEF Unwritten
<1>16. CASE Finish
  <2>1. EndCycle \/ (UNCHANGED <<file, job>> /\ resumed /\ pc = "finish")
    BY <1>16 DEF Finish
  <2> QED BY <1>1, <1>2, <1>3, <2>1 DEF Unwritten
<1>17. CASE Publish \/ Crash \/ Exit \/ SyncNow \/ RestartCoreNow
  BY <1>2, <1>17 DEF Publish, Crash, Exit, NewProcess, SyncNow, RestartCoreNow, Unwritten
<1>18. CASE HandEdit
  <2>1. UNCHANGED <<job, pc, work, resumed>> BY <1>18 DEF HandEdit
  <2> QED BY <1>1, <1>18, <2>1, HandEditKeeps DEF Unwritten
<1>19. CASE \/ Stop \/ VaultEdit \/ CoreStarts \/ CoreStops
             \/ (\E a \in Addons : ToggleAddon(a)) \/ UNCHANGED vars
  BY <1>1, <1>19 DEF Stop, VaultEdit, CoreStarts, CoreStops, ToggleAddon, vars, Unwritten
<1> QED
  BY <1>4, <1>5, <1>6, <1>7, <1>8, <1>9, <1>10, <1>11, <1>12, <1>13, <1>14,
     <1>15, <1>16, <1>17, <1>18, <1>19
  DEF Next, Engine, Environment

\* A step that keeps the origin of the change, or forgets it, and the records.
LEMMA RecordsFrame ==
  ASSUME RecordsOK, origin' # None,
         origin # None, origin'.managed = origin.managed, origin'.copied = origin.copied,
         origin'.file = origin.file,
         pc' \in InHand \/ st'.pending # None,
         pc' \in InHand => \/ pc \in InHand /\ p' = p
                           \/ st.pending # None /\ p' = st.pending,
         st'.pending # None =>
           /\ st.pending # None
           /\ st'.pending \in {st.pending, disk.pending}
           /\ disk'.pending \in {st.pending, disk.pending}
  PROVE  RecordsOK'
BY DEF RecordsOK, Carries

\* Wherever the change in flight is recorded, it is the one that wrote the files.
LEMMA RecordsStep ==
  TypeInv /\ StaleInv /\ LossInv /\ [Next]_vars => RecordsOK'
<1> SUFFICES ASSUME TypeInv, StaleInv, LossInv, [Next]_vars, origin' # None
             PROVE  RecordsOK'
  BY DEF RecordsOK
<1>t. /\ st \in State /\ disk \in State /\ work \in Work
      /\ origin \in Origin \cup {None} /\ (pc = "write" => origin \in Origin)
  BY DEF TypeInv, TypeOK, ControlOK
<1>0. RecordsOK BY DEF LossInv
<1>1. CASE Aside
  BY <1>0, <1>1, RecordsFrame DEF Aside, RecordsOK, InHand
<1>2. CASE BeginWrite /\ pc' = "write"
  <2>1. /\ p' = NewChange /\ st.pending = None
        /\ origin' = [file |-> file, managed |-> st.managed, copied |-> {}, failed |-> {}]
    BY <1>2 DEF BeginWrite, EndCycle
  <2>2. p'.before = origin'.managed /\ origin'.copied = {} BY <2>1 DEF NewChange
  <2>3. [st EXCEPT !.pending = NewChange].pending = NewChange BY <1>t DEF State
  <2>4. st'.pending \in {None, p'} /\ (st'.pending # None => disk'.pending = p')
    BY <1>2, <2>1, <2>3 DEF BeginWrite, EndCycle, SaveOK
  <2> QED BY <1>2, <2>2, <2>4 DEF RecordsOK, Carries, InHand
<1>3. ASSUME NEW f \in Files, KeepPrevious(f) PROVE RecordsOK'
  <2>1. UNCHANGED <<st, disk, p>> /\ pc = "write" /\ f \in work.left
    BY <1>3 DEF KeepPrevious, StartUndo, IsNext
  <2>2. CASE pc' = "undo"
    BY <1>0, <1>3, <1>t, <2>1, <2>2, RecordsFrame DEF KeepPrevious, RecordsOK, InHand
  <2>3. CASE pc' # "undo"
    <3>1. pc' = "write" /\ origin' = [origin EXCEPT !.copied = @ \cup {f}]
      BY <1>3, <2>1, <2>3 DEF KeepPrevious, StartUndo
    <3>2. /\ origin'.copied = origin.copied \cup {f}
          /\ origin'.file = origin.file /\ origin'.managed = origin.managed
      BY <1>t, <2>1, <3>1 DEF Origin
    <3>3. f \in p.files /\ (origin.file[f].exists <=> f \in p.existed)
      BY <2>1 DEF LossInv, WritingOK
    <3>4. Carries(p) BY <1>0, <1>t, <2>1, NoneAssumption DEF RecordsOK, InHand, Origin
    <3>5. Carries(p)' BY <2>1, <3>2, <3>3, <3>4 DEF Carries
    <3>6. st.pending = None \/ (st.pending = p /\ disk.pending = p)
      BY <2>1 DEF StaleInv, PendingInHand
    <3> QED BY <2>1, <3>1, <3>5, <3>6 DEF RecordsOK, Carries, InHand
  <2> QED BY <2>2, <2>3
<1>4. ASSUME NEW f \in Files, WriteFile(f) PROVE RecordsOK'
  <2>1. UNCHANGED <<st, disk, p, origin>> /\ pc = "write" /\ pc' \in {"write", "undo"}
    BY <1>4 DEF WriteFile, StartUndo
  <2> QED BY <1>0, <2>1, RecordsFrame DEF InHand
<1>5. ASSUME NEW f \in Files, RestoreFile(f) PROVE RecordsOK'
  <2>1. UNCHANGED <<st, disk, p, pc>> /\ pc = "undo" /\ origin # None
    BY <1>5 DEF RestoreFile
  <2>2. origin'.managed = origin.managed /\ origin'.copied = origin.copied
        /\ origin'.file = origin.file
    BY <1>5, <1>t, <2>1 DEF RestoreFile, Origin
  <2> QED BY <1>0, <2>1, <2>2, RecordsFrame DEF InHand
<1>6. CASE Remember
  <2>1. [st EXCEPT !.managed = job.managed].pending = st.pending BY <1>t DEF State
  <2>2. st'.pending = st.pending /\ disk'.pending \in {st.pending, disk.pending} /\ pc = "write"
    BY <1>6, <2>1 DEF Remember, SaveOK, SaveFails
  <2>3. p' = p /\ pc' \in {"check", "undo"} /\ origin' = origin
    <3>1. p.sig = {} => st.pending = None BY <2>2 DEF StaleInv, PendingInHand
    <3> QED BY <1>6, <2>2, <3>1 DEF Remember, StartUndo, KeepOrigin
  <2> QED BY <1>0, <2>2, <2>3, RecordsFrame DEF InHand
<1>7. CASE Resume
  <2>1. UNCHANGED <<st, disk, origin>> /\ p' = st.pending /\ st.pending # None
        /\ pc' \in {"check", "addons"}
    BY <1>7 DEF Resume
  <2> QED BY <1>0, <2>1, RecordsFrame DEF InHand
<1>8. CASE UndoState
  <2>1. [st EXCEPT !.managed = p.before, !.pending = None].pending = None BY <1>t DEF State
  <2>2. st'.pending = None BY <1>8, <2>1, SaveEffect DEF UndoState
  <2> QED BY <1>8, <2>2 DEF UndoState, KeepOrigin
<1>9. CASE SaveStage
  <2>1. st.pending = p /\ p \in Change /\ pc = "stage"
    BY <1>9 DEF SaveStage, StaleInv, PendingInHand, TypeInv, ControlOK
  <2>2. p'.before = p.before /\ p'.files = p.files /\ p'.existed = p.existed /\ p' # None
    <3>1. p' = [p EXCEPT !.stage = "addons"] BY <1>9 DEF SaveStage
    <3> QED BY <2>1, <3>1, NoneAssumption DEF Change
  <2>3. [st EXCEPT !.pending = p'].pending = p' BY <1>t DEF State
  <2>4. UNCHANGED origin /\ pc' = "addons" /\ st'.pending = p'
        /\ disk'.pending \in {p', disk.pending}
    BY <1>9, <2>3, SaveEffect DEF SaveStage
  <2>5. Carries(p) /\ (disk.pending # None => Carries(disk.pending))
    BY <1>0, <2>1, <2>4, NoneAssumption DEF RecordsOK, InHand
  <2> QED BY <2>2, <2>4, <2>5 DEF RecordsOK, Carries, InHand
<1>10. CASE Finish
  <2>1. [st EXCEPT !.pending = None].pending = None BY <1>t DEF State
  <2>2. st'.pending = None BY <1>10, <2>1, SaveEffect DEF Finish
  <2> QED BY <1>10, <2>2 DEF Finish, KeepOrigin
<1>11. CASE Crash \/ Exit
  <2>1. UNCHANGED <<disk, origin>> /\ st' = disk /\ disk.pending # None /\ st.pending # None
        /\ pc' = "idle"
    BY <1>11 DEF Crash, Exit, NewProcess
  <2> QED BY <1>0, <2>1, RecordsFrame DEF InHand
<1>12. CASE HandEdit
  <2>1. UNCHANGED <<st, disk, origin, p, pc>> BY <1>12 DEF HandEdit
  <2> QED BY <1>0, <2>1, RecordsFrame DEF RecordsOK
<1> QED
  BY <1>1, <1>2, <1>3, <1>4, <1>5, <1>6, <1>7, <1>8, <1>9, <1>10, <1>11, <1>12, Kinds

\* While files are written: where each of them stands.
LEMMA WritingStep ==
  TypeInv /\ StaleInv /\ LossInv /\ [Next]_vars => WritingOK'
<1> SUFFICES ASSUME TypeInv, StaleInv, LossInv, [Next]_vars, pc' = "write"
             PROVE  WritingOK'
  BY DEF WritingOK
<1>t. /\ work \in Work /\ prev \in [Files -> Content \cup {None}]
      /\ (pc = "write" => origin \in Origin)
  BY DEF TypeInv, TypeOK, ControlOK
<1>0. WritingOK BY DEF LossInv
<1>1. CASE UNCHANGED <<p, job, origin, prev, work>> /\ pc = "write"
  BY <1>0, <1>1 DEF WritingOK, Todo
<1>2. CASE Aside
  BY <1>1, <1>2 DEF Aside, InHand
<1>3. CASE BeginWrite
  <2>1. /\ p' = NewChange /\ UNCHANGED job /\ pc = "planned"
        /\ work' = [NoWork EXCEPT !.left = Todo]
        /\ origin' = [file |-> file, managed |-> st.managed, copied |-> {}, failed |-> {}]
    BY <1>3 DEF BeginWrite, EndCycle
  <2>2. work'.left = Todo /\ work'.written = {} /\ work'.kept = {} BY <2>1 DEF NoWork
  <2>3. p'.files = Todo /\ p'.existed = {f \in Todo : job.cur[f].exists}
    BY <2>1 DEF NewChange
  <2>4. \A f \in Files : /\ file[f].exists = job.cur[f].exists
                         /\ SameSecrets(file[f], job.cur[f])
    BY <2>1 DEF LossInv, PlanExistsOK, Unwritten, StaleInv, PlanIsCurrent
  <2>5. origin'.copied = {} /\ origin'.file = file BY <2>1
  <2> QED BY <2>1, <2>2, <2>3, <2>4, <2>5 DEF WritingOK, Todo, SameSecrets
<1>4. ASSUME NEW f \in Files, KeepPrevious(f) PROVE WritingOK'
  <2>1. /\ UNCHANGED <<p, job>> /\ pc = "write" /\ f \in work.left
        /\ prev' = [prev EXCEPT ![f] = IF job.cur[f].exists THEN job.cur[f] ELSE @]
        /\ work' = [work EXCEPT !.kept = @ \cup {f}]
        /\ origin' = [origin EXCEPT !.copied = @ \cup {f}]
    BY <1>4 DEF KeepPrevious, StartUndo, IsNext
  <2>2. /\ origin'.copied = origin.copied \cup {f} /\ origin'.file = origin.file
        /\ work'.kept = work.kept \cup {f} /\ work'.left = work.left
        /\ work'.written = work.written
    BY <1>t, <2>1 DEF Origin, Work
  <2>3. job.cur[f].exists => job.cur[f] # None
    <3>1. job.cur[f] \in Content BY <2>1 DEF TypeInv, ControlOK, Job
    <3> QED BY <3>1, NoneAssumption
  <2> QED BY <1>0, <1>t, <2>1, <2>2, <2>3 DEF WritingOK, Todo
<1>5. ASSUME NEW f \in Files, WriteFile(f) PROVE WritingOK'
  <2>1. /\ UNCHANGED <<p, job, prev, origin>> /\ pc = "write"
        /\ work' = [work EXCEPT !.left = @ \ {f}, !.written = @ \cup {f}]
        /\ f \in work.left
    BY <1>5 DEF WriteFile, StartUndo, IsNext
  <2>2. /\ work'.kept = work.kept /\ work'.left = work.left \ {f}
        /\ work'.written = work.written \cup {f}
    BY <1>t, <2>1 DEF Work
  <2> QED BY <1>0, <2>1, <2>2 DEF WritingOK, Todo
<1>6. ASSUME NEW f \in Files, RestoreFile(f) PROVE WritingOK'
  BY <1>6 DEF RestoreFile
<1>7. CASE Remember \/ Resume \/ UndoState \/ SaveStage \/ Finish \/ Crash \/ Exit
  BY <1>7 DEF Remember, Resume, UndoState, SaveStage, Finish, Crash, Exit, NewProcess,
     EndCycle, StartUndo
<1>8. CASE HandEdit
  BY <1>1, <1>8 DEF HandEdit
<1> QED BY <1>2, <1>3, <1>4, <1>5, <1>6, <1>7, <1>8, Kinds

\* A step that keeps the copies, and the files as they were found.
LEMMA CopiesFrame ==
  ASSUME CopiesOK, origin' # None, origin # None,
         origin'.copied = origin.copied, origin'.file = origin.file,
         \A f \in origin.copied : origin.file[f].exists =>
           prev'[f] = prev[f] /\ (AsFound(f) => AsFound(f)')
  PROVE  CopiesOK'
BY DEF CopiesOK, SameSecrets

\* An edit by hand leaves every file as found that was as found.
LEMMA HandEditAsFound ==
  ASSUME TypeInv, HandEdit, NEW f \in Files, AsFound(f) PROVE AsFound(f)'
<1>1. origin' = origin BY DEF HandEdit
<1> QED BY <1>1, HandEditKeeps DEF AsFound, SameSecrets

LEMMA AsFoundFrame ==
  ASSUME origin'.file = origin.file, NEW f \in Files, file'[f] = file[f], AsFound(f)
  PROVE  AsFound(f)'
BY DEF AsFound, SameSecrets

\* What restoring file f does, when it does not fail.
LEMMA Restored ==
  ASSUME TypeInv, LossInv, NEW f \in Files, RestoreFile(f), origin # None,
         f \in origin.copied, UNCHANGED origin,
         f \in p.existed => \/ prev[f] # None /\ file' = [file EXCEPT ![f] = prev[f]]
                            \/ prev[f] = None /\ UNCHANGED file,
         f \notin p.existed => file' = [file EXCEPT ![f] = NoFile]
  PROVE  AsFound(f)'
<1>t. file \in [Files -> Content] BY DEF TypeInv, TypeOK
<1>0. EmptyOK /\ RecordsOK /\ CopiesOK BY DEF LossInv
<1>1. Carries(p) BY <1>0 DEF RestoreFile, RecordsOK, InHand
<1>2. CASE f \notin p.existed
  <2>1. ~origin.file[f].exists BY <1>1, <1>2 DEF Carries
  <2>2. \A key \in Keys : origin.file[f].val[key] = NoVal BY <1>0, <2>1 DEF CopiesOK
  <2>3. file'[f] = NoFile BY <1>t, <1>2
  <2>4. file'[f].exists = FALSE /\ \A key \in Keys : file'[f].val[key] = NoVal
    BY <2>3 DEF NoFile
  <2>5. origin.file[f].exists = FALSE
    <3>1. origin.file[f] \in Content BY DEF TypeInv, TypeOK, Origin
    <3> QED BY <2>1, <3>1 DEF Content
  <2> QED BY <2>2, <2>4, <2>5 DEF AsFound, SameSecrets
<1>3. CASE f \in p.existed
  <2>1. origin.file[f].exists BY <1>1, <1>3 DEF Carries
  <2>2. CASE prev[f] = None
    <3>1. AsFound(f) BY <1>0, <2>1, <2>2 DEF CopiesOK
    <3> QED BY <1>3, <2>2, <3>1, AsFoundFrame
  <2>3. CASE prev[f] # None
    <3>1. SameSecrets(prev[f], origin.file[f]) /\ prev[f].exists
      BY <1>0, <2>1, <2>3 DEF CopiesOK, EmptyOK
    <3>2. file'[f] = prev[f] BY <1>t, <1>3, <2>3
    <3>3. origin.file[f] \in Content /\ prev[f] \in Content
      BY <2>3 DEF TypeInv, TypeOK, Origin
    <3>4. prev[f].exists = origin.file[f].exists BY <2>1, <3>1, <3>3 DEF Content
    <3> QED BY <3>1, <3>2, <3>4 DEF AsFound, SameSecrets
  <2> QED BY <2>2, <2>3
<1> QED BY <1>2, <1>3

\* Over every step the content a change found is in the file's copy or, with no
\* copy, still in the file.
LEMMA CopiesStep ==
  TypeInv /\ StaleInv /\ LossInv /\ [Next]_vars => CopiesOK'
<1> SUFFICES ASSUME TypeInv, StaleInv, LossInv, [Next]_vars, origin' # None
             PROVE  CopiesOK'
  BY DEF CopiesOK
<1>t. /\ file \in [Files -> Content] /\ prev \in [Files -> Content \cup {None}]
      /\ st \in State /\ origin \in Origin \cup {None}
      /\ (pc = "write" => origin \in Origin)
  BY DEF TypeInv, TypeOK, ControlOK
<1>0. CopiesOK BY DEF LossInv
<1>1. CASE UNCHANGED <<file, prev, origin>>
  BY <1>0, <1>1 DEF CopiesOK, AsFound
<1>c. origin # None => origin.copied \subseteq Files BY <1>t DEF Origin
<1>2. CASE Aside BY <1>1, <1>2 DEF Aside
<1>3. CASE Resume \/ SaveStage BY <1>1, <1>3 DEF Resume, SaveStage
<1>4. CASE BeginWrite /\ pc' = "write"
  <2>1. origin' = [file |-> file, managed |-> st.managed, copied |-> {}, failed |-> {}]
    BY <1>4 DEF BeginWrite, EndCycle
  <2>2. origin'.file = file /\ origin'.copied = {} BY <2>1
  <2>3. EmptyOK BY DEF LossInv
  <2> QED BY <2>2, <2>3 DEF CopiesOK, EmptyOK
<1>5. ASSUME NEW f \in Files, KeepPrevious(f) PROVE CopiesOK'
  <2>1. UNCHANGED file /\ pc = "write" /\ f \in work.left
    BY <1>5 DEF KeepPrevious, IsNext
  <2>2. CASE UNCHANGED <<prev, origin>> BY <1>1, <2>1, <2>2
  <2>3. CASE ~UNCHANGED <<prev, origin>>
    <3>1. /\ prev' = [prev EXCEPT ![f] = IF job.cur[f].exists THEN job.cur[f] ELSE @]
          /\ origin' = [origin EXCEPT !.copied = @ \cup {f}]
      BY <1>5, <2>3 DEF KeepPrevious
    <3>2. /\ origin'.copied = origin.copied \cup {f} /\ origin'.file = origin.file
          /\ origin # None
      BY <1>t, <2>1, <3>1, NoneAssumption DEF Origin
    <3>3. /\ origin.file[f].exists = job.cur[f].exists
          /\ SameSecrets(job.cur[f], origin.file[f])
      BY <2>1 DEF LossInv, WritingOK
    <3>4. job.cur[f] # None
      <4>1. job.cur[f] \in Content BY <2>1 DEF TypeInv, ControlOK, Job
      <4> QED BY <4>1, NoneAssumption
    <3>5. ASSUME NEW g \in origin'.copied, origin'.file[g].exists
          PROVE  /\ prev'[g] = None => AsFound(g)'
                 /\ prev'[g] # None => SameSecrets(prev'[g], origin'.file[g])
      <4>1. CASE g = f
        <5>1. prev'[f] = job.cur[f] BY <1>t, <3>1, <3>2, <3>3, <3>5, <4>1
        <5> QED BY <3>2, <3>3, <3>4, <4>1, <5>1
      <4>2. CASE g # f
        <5>1. g \in origin.copied /\ g \in Files /\ prev'[g] = prev[g] /\ file'[g] = file[g]
          BY <1>c, <1>t, <2>1, <3>1, <3>2, <4>2
        <5>2. AsFound(g) => AsFound(g)' BY <3>2, <5>1, AsFoundFrame
        <5> QED BY <1>0, <3>2, <3>5, <5>1, <5>2 DEF CopiesOK
      <4> QED BY <4>1, <4>2
    <3>6. \A g \in Files : ~origin'.file[g].exists =>
            \A key \in Keys : origin'.file[g].val[key] = NoVal
      BY <1>0, <3>2 DEF CopiesOK
    <3> QED BY <3>5, <3>6 DEF CopiesOK, SameSecrets
  <2> QED BY <2>2, <2>3
<1>6. ASSUME NEW f \in Files, WriteFile(f) PROVE CopiesOK'
  <2>1. /\ UNCHANGED <<prev, origin>> /\ pc = "write" /\ f \in work.kept
        /\ (UNCHANGED file \/ file' = [file EXCEPT ![f] = job.new[f]])
    BY <1>6 DEF WriteFile
  <2>2. f \in origin.copied /\ (origin.file[f].exists => prev[f] # None)
    BY <2>1 DEF LossInv, WritingOK
  <2>3. ASSUME NEW g \in origin.copied, origin.file[g].exists
        PROVE  /\ prev'[g] = None => AsFound(g)'
               /\ prev'[g] # None => SameSecrets(prev'[g], origin'.file[g])
    <3>1. CASE g = f BY <1>0, <2>1, <2>2, <2>3, <3>1 DEF CopiesOK
    <3>2. CASE g # f
      <4>1. g \in Files /\ file'[g] = file[g] BY <1>c, <1>t, <2>1, <3>2
      <4> QED BY <1>0, <2>1, <2>3, <4>1, AsFoundFrame DEF CopiesOK
    <3> QED BY <3>1, <3>2
  <2> QED BY <1>0, <2>1, <2>3 DEF CopiesOK, SameSecrets
<1>7. ASSUME NEW f \in Files, RestoreFile(f) PROVE CopiesOK'
  <2>0. origin # None /\ origin'.copied = origin.copied /\ origin'.file = origin.file
    BY <1>7, <1>t DEF RestoreFile, Origin
  <2>1. ASSUME NEW g \in origin.copied, origin.file[g].exists
        PROVE  /\ prev'[g] = None => AsFound(g)'
               /\ prev'[g] # None => SameSecrets(prev'[g], origin'.file[g])
    <3>1. CASE g # f
      <4>1. g \in Files /\ file'[g] = file[g] /\ prev'[g] = prev[g]
        BY <1>c, <1>t, <1>7, <3>1 DEF RestoreFile
      <4> QED BY <1>0, <2>0, <2>1, <4>1, AsFoundFrame DEF CopiesOK
    <3>2. CASE g = f /\ UNCHANGED <<file, prev>>
      BY <1>0, <2>0, <2>1, <3>2, AsFoundFrame DEF CopiesOK
    <3>3. CASE g = f /\ ~UNCHANGED <<file, prev>>
      <4>1. f \in p.existed
        BY <2>0, <2>1, <3>3, <1>7 DEF LossInv, RecordsOK, Carries, RestoreFile, InHand
      <4>2. /\ prev[f] # None /\ file' = [file EXCEPT ![f] = prev[f]]
            /\ prev' = [prev EXCEPT ![f] = None] /\ UNCHANGED origin
        BY <1>7, <3>3, <4>1 DEF RestoreFile
      <4>3. AsFound(f)' BY <1>7, <2>0, <3>3, <4>1, <4>2, Restored
      <4> QED BY <1>t, <3>3, <4>2, <4>3
    <3> QED BY <3>1, <3>2, <3>3
  <2> QED BY <1>0, <2>0, <2>1 DEF CopiesOK, SameSecrets
<1>8. CASE Remember
  <2>1. [st EXCEPT !.managed = job.managed].pending = st.pending BY <1>t DEF State
  <2>2. st'.pending = st.pending /\ pc = "write"
    BY <1>8, <2>1 DEF Remember, SaveOK, SaveFails
  <2>3. UNCHANGED <<file, prev, origin>>
    <3>1. p.sig = {} => st.pending = None BY <2>2 DEF StaleInv, PendingInHand
    <3> QED BY <1>8, <2>2, <3>1 DEF Remember, StartUndo, KeepOrigin
  <2> QED BY <1>1, <2>3
<1>9. CASE UndoState
  BY <1>1, <1>9 DEF UndoState, KeepOrigin
<1>10. CASE Finish
  <2>1. [st EXCEPT !.pending = None].pending = None BY <1>t DEF State
  <2>2. st'.pending = None BY <1>10, <2>1, SaveEffect DEF Finish
  <2> QED BY <1>10, <2>2 DEF Finish, KeepOrigin
<1>11. CASE Crash \/ Exit
  <2>1. /\ UNCHANGED <<file, origin>> /\ disk.pending # None /\ st.pending # None
        /\ prev' = [f \in Files |-> IF disk.pending # None /\ f \in disk.pending.existed
                                    THEN prev[f] ELSE None]
    BY <1>11 DEF Crash, Exit, NewProcess
  <2>2. Carries(disk.pending) BY <2>1 DEF LossInv, RecordsOK
  <2>3. \A f \in origin.copied : origin.file[f].exists => prev'[f] = prev[f]
    BY <1>c, <2>1, <2>2 DEF Carries
  <2> QED BY <1>0, <1>c, <2>1, <2>3, AsFoundFrame, CopiesFrame
<1>12. CASE HandEdit
  <2>1. UNCHANGED <<prev, origin>> BY <1>12 DEF HandEdit
  <2> QED BY <1>0, <1>12, <1>c, <2>1, HandEditAsFound, CopiesFrame
<1> QED
  BY <1>2, <1>3, <1>4, <1>5, <1>6, <1>7, <1>8, <1>9, <1>10, <1>11, <1>12, Kinds

\* While a change is undone, each copied file waits for its turn, could not be
\* restored, or is as the change found it.
LEMMA UndoingStep ==
  TypeInv /\ StaleInv /\ LossInv /\ [Next]_vars => UndoingOK'
<1> SUFFICES ASSUME TypeInv, StaleInv, LossInv, [Next]_vars, pc' = "undo", origin' # None
             PROVE  UndoingOK'
  BY DEF UndoingOK
<1>t. /\ file \in [Files -> Content] /\ work \in Work
      /\ origin \in Origin \cup {None} /\ (pc = "write" => origin \in Origin)
  BY DEF TypeInv, TypeOK, ControlOK
<1>0. UndoingOK BY DEF LossInv
<1>c. origin # None => origin.copied \subseteq Files BY <1>t DEF Origin
<1>w. ASSUME pc = "write", NEW f \in origin.copied, f \notin work.written PROVE AsFound(f)
  <2>1. f \in work.left /\ f \in Files
    BY <1>t, <1>w DEF LossInv, WritingOK, Origin
  <2>2. file[f].exists = job.cur[f].exists /\ SameSecrets(file[f], job.cur[f])
    BY <1>w, <2>1 DEF LossInv, PlanExistsOK, Unwritten, StaleInv, PlanIsCurrent
  <2> QED BY <1>w, <2>1, <2>2 DEF LossInv, WritingOK, AsFound, SameSecrets
<1>1. ASSUME pc = "write", NEW fs, work.written \subseteq fs, UNCHANGED <<file, origin>>,
             StartUndo(fs, "write")
      PROVE  UndoingOK'
  <2>1. work'.left = fs BY <1>1 DEF StartUndo, NoWork
  <2>2. ASSUME NEW f \in origin.copied PROVE f \in work'.left \/ AsFound(f)'
    BY <1>1, <1>w, <1>c, <2>1, <2>2, AsFoundFrame
  <2> QED BY <1>1, <2>2 DEF UndoingOK
<1>2. CASE Aside
  <2>1. CASE pc = "undo" /\ UNCHANGED work
    <3>1. UNCHANGED <<file, origin>> BY <1>2 DEF Aside
    <3> QED BY <1>0, <2>1, <3>1 DEF UndoingOK, AsFound
  <2>2. CASE ~(pc = "undo" /\ UNCHANGED work)
    <3>1. UNCHANGED <<file, origin, p>> /\ pc \in InHand /\ work'.left = p.files
      BY <1>2, <2>2 DEF Aside, InHand
    <3>2. Carries(p) BY <3>1 DEF LossInv, RecordsOK
    <3> QED BY <3>1, <3>2 DEF UndoingOK, Carries
  <2> QED BY <2>1, <2>2
<1>3. ASSUME NEW f \in Files, KeepPrevious(f) PROVE UndoingOK'
  BY <1>1, <1>3 DEF KeepPrevious
<1>4. ASSUME NEW f \in Files, WriteFile(f) PROVE UndoingOK'
  BY <1>1, <1>4 DEF WriteFile
<1>5. CASE Remember
  BY <1>1, <1>5 DEF Remember, EndCycle
<1>6. ASSUME NEW f \in Files, RestoreFile(f) PROVE UndoingOK'
  <2>0. /\ origin # None /\ origin'.copied = origin.copied /\ origin'.file = origin.file
        /\ origin.failed \subseteq origin'.failed /\ pc = "undo"
    BY <1>6, <1>t DEF RestoreFile, Origin
  <2>1. work'.left = work.left \ {f} BY <1>t, <1>6 DEF RestoreFile, Work
  <2>2. ASSUME NEW g \in origin.copied \ origin'.failed PROVE g \in work'.left \/ AsFound(g)'
    <3>1. CASE g # f
      <4>1. g \in Files /\ file'[g] = file[g] BY <1>c, <1>t, <1>6, <2>0, <3>1 DEF RestoreFile
      <4>2. g \in work.left \/ AsFound(g) BY <1>0, <2>0, <2>2 DEF UndoingOK
      <4> QED BY <2>0, <2>1, <3>1, <4>1, <4>2, AsFoundFrame
    <3>2. CASE g = f
      <4>1. f \notin origin'.failed BY <2>2, <3>2
      <4>2. ~(origin' = [origin EXCEPT !.failed = @ \cup {f}])
        BY <1>t, <2>0, <4>1 DEF Origin
      <4>3. UNCHANGED origin
            /\ (f \in p.existed => \/ prev[f] # None /\ file' = [file EXCEPT ![f] = prev[f]]
                                   \/ prev[f] = None /\ UNCHANGED file)
            /\ (f \notin p.existed => file' = [file EXCEPT ![f] = NoFile])
        BY <1>6, <2>0, <4>2 DEF RestoreFile
      <4> QED BY <1>6, <2>0, <2>2, <3>2, <4>3, Restored
    <3> QED BY <3>1, <3>2
  <2> QED BY <2>0, <2>2 DEF UndoingOK
<1>7. CASE HandEdit
  <2>1. UNCHANGED <<pc, work, origin>> BY <1>7 DEF HandEdit
  <2> QED BY <1>0, <1>7, <1>c, <2>1, HandEditAsFound DEF UndoingOK
<1>8. CASE BeginWrite \/ Resume \/ UndoState \/ SaveStage \/ Finish \/ Crash \/ Exit
  BY <1>8 DEF BeginWrite, Resume, UndoState, SaveStage, Finish, Crash, Exit, NewProcess,
     EndCycle
<1> QED BY <1>2, <1>3, <1>4, <1>5, <1>6, <1>7, <1>8, Kinds

LEMMA LossInvariant == Spec => [](TypeInv /\ StaleInv /\ LossInv)
<1>1. Init => TypeInv /\ StaleInv /\ LossInv
  <2> SUFFICES ASSUME Init PROVE LossInv BY InitType, InitStale
  <2>1. PlanOK /\ PlanExistsOK /\ RecordsOK /\ CopiesOK /\ WritingOK /\ UndoingOK
    BY DEF Init, PlanOK, PlanInForce, PlanExistsOK, Unwritten, RecordsOK, CopiesOK,
       WritingOK, UndoingOK
  <2>2. EmptyOK
    <3>1. NoFile.exists = FALSE /\ \A key \in Keys : NoFile.val[key] = NoVal BY DEF NoFile
    <3>2. \A f \in Files : file[f] = NoFile \/ file[f].exists
      BY DEF Init, HandWritten
    <3>3. \A f \in Files : prev[f] = None BY DEF Init
    <3> QED BY <3>1, <3>2, <3>3 DEF EmptyOK
  <2> QED BY <2>1, <2>2 DEF LossInv
<1>2. TypeInv /\ StaleInv /\ LossInv /\ [Next]_vars => TypeInv' /\ StaleInv' /\ LossInv'
  <2> SUFFICES ASSUME TypeInv, StaleInv, LossInv, [Next]_vars PROVE LossInv'
    BY NextType, NextStale
  <2>1. PlanOK' BY PlanStep DEF LossInv
  <2> QED
    BY <2>1, EmptyStep, PlanExistsStep, RecordsStep, WritingStep, CopiesStep, UndoingStep
    DEF LossInv
<1> QED BY <1>1, <1>2, PTL DEF Spec

\* From the first byte written until the change is over, over crashes, failing
\* writes and edits by hand, the content a change found is in its file or in the
\* file's copy.
THEOREM NothingLost == Spec => []NothingIsLost
<1>1. TypeInv /\ StaleInv /\ LossInv => NothingIsLost
  <2> SUFFICES ASSUME TypeInv, CopiesOK, origin # None,
                      NEW f \in origin.copied, origin.file[f].exists
               PROVE  \E c \in {file[f], prev[f]} \ {None} : SameSecrets(c, origin.file[f])
    BY DEF NothingIsLost, LossInv
  <2>1. f \in Files BY DEF TypeInv, TypeOK, Origin
  <2>2. file[f] # None
    <3>1. file[f] \in Content BY <2>1 DEF TypeInv, TypeOK
    <3> QED BY <3>1, NoneAssumption
  <2> QED BY <2>1, <2>2 DEF CopiesOK, AsFound
<1> QED BY <1>1, LossInvariant, PTL

\* After a rollback the add-on remembers the keys it remembered before the change,
\* and every file that was copied and could be restored holds what the change
\* found in it, whichever process does the undoing: what is recorded of a change
\* is true of it (RecordsOK), and its copies are good until it is over (CopiesOK).
THEOREM RollbackIsComplete == Spec => RollbackRestores
<1>1. TypeInv /\ StaleInv /\ LossInv /\ [Next]_vars
        => [pc = "undo" /\ pc' \in {"hold", "publish"} /\ origin # None =>
              /\ st'.managed = origin.managed
              /\ \A f \in origin.copied \ origin.failed :
                   /\ file'[f].exists = origin.file[f].exists
                   /\ SameSecrets(file'[f], origin.file[f])]_vars
  <2> SUFFICES ASSUME TypeInv, StaleInv, LossInv, Next, pc = "undo",
                      pc' \in {"hold", "publish"}, origin # None
               PROVE  /\ st'.managed = origin.managed
                      /\ \A f \in origin.copied \ origin.failed :
                           /\ file'[f].exists = origin.file[f].exists
                           /\ SameSecrets(file'[f], origin.file[f])
    OBVIOUS
  <2>1. UndoState
    BY DEF Next, Engine, Environment, StartCycle, FetchFails, DryRun, HeldBack, BeginWrite,
       Resume, KeepPrevious, WriteFile, RestoreFile, Remember, HoldBack, CheckConfig, Reload,
       ReloadsDone, GuardRestart, RestartCore, AwaitCore, SaveStage, AwaitSupervisor,
       RestartAddon, Finish, Publish, Exit, NewProcess, SyncNow, RestartCoreNow, Crash, Stop,
       VaultEdit, HandEdit, CoreStarts, CoreStops, ToggleAddon
  <2>2. UNCHANGED file /\ work.left = {} BY <2>1 DEF UndoState
  <2>3. st'.managed = p.before
    <3>1. st \in State BY DEF TypeInv, TypeOK
    <3>2. [st EXCEPT !.managed = p.before, !.pending = None].managed = p.before
      BY <3>1 DEF State
    <3> QED BY <2>1, <3>2, SaveEffect DEF UndoState
  <2>4. p.before = origin.managed BY DEF LossInv, RecordsOK, Carries, InHand
  <2>5. \A f \in origin.copied \ origin.failed : AsFound(f)
    BY <2>2 DEF LossInv, UndoingOK
  <2> QED BY <2>2, <2>3, <2>4, <2>5 DEF AsFound, SameSecrets
<1> QED BY <1>1, LossInvariant, PTL DEF Spec, RollbackRestores
=============================================================================
