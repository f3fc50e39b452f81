-------------------------- MODULE GitOpsControlProofs --------------------------
(***************************************************************************)
(* What TLAPS proves about GitOpsControl, for every value of its constants *)
(***************************************************************************)
EXTENDS GitOpsControl, TLAPS

USE ConstantsAssumption
DEF ConstantsAssumption, Events, Pressers, Unattended, locks, plans, webhook,
    pause, life

LEMMA SpendType ==
  ASSUME ValuesOK, NEW e \in Events, Spend(e)
  PROVE  budget' \in [Events -> Nat]
BY DEF ValuesOK, Spend

LEMMA SpentType ==
  ASSUME ValuesOK, NEW e \in Events, NEW b, Spent(e, b)
  PROVE  budget' \in [Events -> Nat]
BY SpendType DEF ValuesOK, Spent

LEMMA PushType ==
  ASSUME ValuesOK, NEW snap \in BOOLEAN, Push(snap)
  PROVE  budget' \in [Events -> Nat] /\ sensor' \in BOOLEAN
<1> PICK ok \in BOOLEAN : Spent("fault", ~ok) /\ sensor' = IF ok THEN snap ELSE sensor
  BY DEF Push
<1> QED BY SpentType DEF ValuesOK

LEMMA InitType == Init => TypeOK
<1> SUFFICES ASSUME Init PROVE TypeOK OBVIOUS
<1> USE DEF Init, NoOp, EmptySlot, NoHandler, Waiting, ATick, NoPress
<1>1. ValuesOK BY DEF ValuesOK
<1>2. WebhookOK BY DEF WebhookOK
<1>3. LockOK BY DEF LockOK
<1>4. LoopsOK BY DEF LoopsOK
<1>5. PauseMuOK BY DEF PauseMuOK
<1> QED BY <1>1, <1>2, <1>3, <1>4, <1>5 DEF TypeOK

-----------------------------------------------------------------------------
(* Every step keeps the types. *)

LEMMA WebhookType ==
  ASSUME TypeOK, (\E d \in Deliveries : Accept(d) \/ HandlerStep(d)) \/ WorkerStep \/ Sync
  PROVE  TypeOK'
<1> USE DEF TypeOK
<1>1. ASSUME NEW d \in Deliveries, Accept(d) PROVE TypeOK'
  <2> USE <1>1 DEF Accept
  <2>1. ValuesOK' BY SpendType DEF ValuesOK
  <2>2. WebhookOK' BY DEF WebhookOK, ValuesOK
  <2>3. LockOK' /\ LoopsOK' /\ PauseMuOK' BY DEF LockOK, LoopsOK, PauseMuOK
  <2> QED BY <2>1, <2>2, <2>3
<1>2. ASSUME NEW d \in Deliveries, Record(d) PROVE TypeOK'
  <2> USE <1>2 DEF Record
  <2>1. WebhookOK' BY DEF WebhookOK
  <2>2. ValuesOK' /\ LockOK' /\ LoopsOK' /\ PauseMuOK'
    BY DEF ValuesOK, LockOK, LoopsOK, PauseMuOK
  <2> QED BY <2>1, <2>2
<1>3. ASSUME NEW d \in Deliveries, Wake(d) PROVE TypeOK'
  <2> USE <1>3 DEF Wake
  <2>1. ValuesOK' BY DEF ValuesOK
  <2>2. WebhookOK' BY DEF WebhookOK
  <2>3. LockOK' /\ LoopsOK' /\ PauseMuOK' BY DEF LockOK, LoopsOK, PauseMuOK
  <2> QED BY <2>1, <2>2, <2>3
<1>4. CASE Receive
  <2> USE <1>4 DEF Receive
  <2>1. WebhookOK' BY DEF WebhookOK
  <2>2. LoopsOK' BY DEF LoopsOK
  <2>3. ValuesOK' /\ LockOK' /\ PauseMuOK' BY DEF ValuesOK, LockOK, PauseMuOK
  <2> QED BY <2>1, <2>2, <2>3
<1>5. CASE Take
  <2> USE <1>5 DEF Take
  <2>1. WebhookOK' BY DEF WebhookOK
  <2>2. LoopsOK' BY DEF LoopsOK, WebhookOK
  <2>3. ValuesOK' /\ LockOK' /\ PauseMuOK' BY DEF ValuesOK, LockOK, PauseMuOK
  <2> QED BY <2>1, <2>2, <2>3
<1>6. CASE EndSpacing
  <2> USE <1>6 DEF EndSpacing, Waiting
  <2>1. LoopsOK' BY DEF LoopsOK
  <2>2. ValuesOK' /\ WebhookOK' /\ LockOK' /\ PauseMuOK'
    BY DEF ValuesOK, WebhookOK, LockOK, PauseMuOK
  <2> QED BY <2>1, <2>2
<1>7. CASE SyncNow
  <2> USE <1>7 DEF SyncNow, CycleOp, NoOp
  <2>1. LockOK' BY DEF LockOK
  <2>2. LoopsOK' BY DEF LoopsOK
  <2>3. ValuesOK' /\ WebhookOK' /\ PauseMuOK'
    BY DEF ValuesOK, WebhookOK, PauseMuOK
  <2> QED BY <2>1, <2>2, <2>3
<1>8. CASE Drop
  <2> USE <1>8 DEF Drop
  <2>1. LoopsOK' BY DEF LoopsOK
  <2>2. ValuesOK' /\ WebhookOK' /\ LockOK' /\ PauseMuOK'
    BY DEF ValuesOK, WebhookOK, LockOK, PauseMuOK
  <2> QED BY <2>1, <2>2
<1> QED BY <1>1, <1>2, <1>3, <1>4, <1>5, <1>6, <1>7, <1>8 DEF HandlerStep, WorkerStep, Sync

LEMMA LoopType ==
  ASSUME TypeOK, LoopStep
  PROVE  TypeOK'
<1> USE DEF TypeOK
<1>1. CASE Alarm
  <2> USE <1>1 DEF Alarm, ATick
  <2>1. LoopsOK' BY DEF LoopsOK
  <2>2. PauseMuOK' BY DEF PauseMuOK, LoopsOK
  <2>3. ValuesOK' /\ WebhookOK' /\ LockOK' BY DEF ValuesOK, WebhookOK, LockOK
  <2> QED BY <2>1, <2>2, <2>3
<1>2. CASE Tick
  <2> USE <1>2 DEF Tick
  <2>1. LoopsOK' BY DEF LoopsOK
  <2>2. PauseMuOK' BY DEF PauseMuOK, LoopsOK
  <2>3. ValuesOK' /\ WebhookOK' /\ LockOK' BY DEF ValuesOK, WebhookOK, LockOK
  <2> QED BY <2>1, <2>2, <2>3
<1>3. CASE RetryNothing
  <2> USE <1>3 DEF RetryNothing
  <2>1. LoopsOK' BY DEF LoopsOK, ValuesOK
  <2>2. PauseMuOK' BY DEF PauseMuOK, LoopsOK
  <2>3. ValuesOK' /\ WebhookOK' /\ LockOK' BY DEF ValuesOK, WebhookOK, LockOK
  <2> QED BY <2>1, <2>2, <2>3
<1>4. CASE RetryBegin
  <2> USE <1>4 DEF RetryBegin
  <2>1. LoopsOK' BY DEF LoopsOK, ValuesOK
  <2>2. PauseMuOK' BY DEF PauseMuOK, LoopsOK
  <2>3. ValuesOK' /\ WebhookOK' /\ LockOK' BY DEF ValuesOK, WebhookOK, LockOK
  <2> QED BY <2>1, <2>2, <2>3
<1>5. CASE RetryWrite
  <2> USE <1>5 DEF RetryWrite
  <2>1. PICK ok \in BOOLEAN : /\ Spent("fault", ~ok)
                              /\ file' = IF ok THEN loop.val ELSE file
                              /\ dirty' = (dirty /\ ~ok)
    OBVIOUS
  <2>2. loop.val \in BOOLEAN
    BY DEF LoopsOK
  <2>3. ValuesOK' BY <2>1, <2>2, SpentType DEF ValuesOK
  <2>4. LoopsOK' BY DEF LoopsOK, ValuesOK
  <2>5. PauseMuOK' BY DEF PauseMuOK, LoopsOK
  <2>6. WebhookOK' /\ LockOK' BY DEF WebhookOK, LockOK
  <2> QED BY <2>3, <2>4, <2>5, <2>6
<1>6. CASE LoopSend
  <2> USE <1>6 DEF LoopSend, Sleeping
  <2>1. loop.val \in BOOLEAN
    BY DEF LoopsOK
  <2>2. ValuesOK' BY <2>1, PushType DEF ValuesOK
  <2>3. LoopsOK' BY DEF LoopsOK
  <2>4. PauseMuOK' BY DEF PauseMuOK, LoopsOK
  <2>5. WebhookOK' /\ LockOK' BY DEF WebhookOK, LockOK
  <2> QED BY <2>2, <2>3, <2>4, <2>5
<1>7. CASE TryCycle
  <2> USE <1>7 DEF TryCycle, CycleOp, NoOp
  <2>1. ASSUME lock = "none" PROVE LockOK'
    <3>1. /\ lock' = "loop"
          /\ op' = [pc |-> "fetch", then |-> "done", fresh |-> FALSE, snap |-> FALSE]
      BY <2>1
    <3> QED BY <3>1 DEF LockOK
  <2>2. ASSUME lock # "none" PROVE LockOK'
    BY <2>2 DEF LockOK
  <2>3. LockOK' BY <2>1, <2>2 DEF LockOK
  <2>4. LoopsOK' BY DEF LoopsOK
  <2>5. PauseMuOK' BY DEF PauseMuOK, LoopsOK
  <2>6. ValuesOK' /\ WebhookOK' BY DEF ValuesOK, WebhookOK
  <2> QED BY <2>3, <2>4, <2>5, <2>6
<1>8. CASE Rearm
  <2> USE <1>8 DEF Rearm, Sleeping
  <2>1. ValuesOK' BY DEF ValuesOK
  <2>2. LoopsOK' BY DEF LoopsOK
  <2>3. PauseMuOK' BY DEF PauseMuOK, LoopsOK
  <2>4. WebhookOK' /\ LockOK' BY DEF WebhookOK, LockOK
  <2> QED BY <2>1, <2>2, <2>3, <2>4
<1> QED BY <1>1, <1>2, <1>3, <1>4, <1>5, <1>6, <1>7, <1>8 DEF LoopStep

LEMMA ButtonType ==
  ASSUME TypeOK, Button
  PROVE  TypeOK'
<1> USE DEF TypeOK
<1>1. CASE CheckNow
  <2> USE <1>1 DEF CheckNow, Begin, CycleOp, NoOp
  <2>1. LockOK' BY DEF LockOK
  <2>2. LoopsOK' BY DEF LoopsOK
  <2>3. ValuesOK' /\ WebhookOK' /\ PauseMuOK'
    BY DEF ValuesOK, WebhookOK, PauseMuOK
  <2> QED BY <2>1, <2>2, <2>3
<1>2. CASE ApplyNow
  <2> USE <1>2 DEF ApplyNow, Begin, NoOp
  <2>1. LockOK' BY DEF LockOK
  <2>2. LoopsOK' BY DEF LoopsOK
  <2>3. ValuesOK' /\ WebhookOK' /\ PauseMuOK'
    BY DEF ValuesOK, WebhookOK, PauseMuOK
  <2> QED BY <2>1, <2>2, <2>3
<1>3. CASE RollBack
  <2> USE <1>3 DEF RollBack, Begin, NoOp
  <2>1. ValuesOK' BY SpendType DEF ValuesOK
  <2>2. LockOK' BY DEF LockOK
  <2>3. LoopsOK' BY DEF LoopsOK
  <2>4. WebhookOK' /\ PauseMuOK' BY DEF WebhookOK, PauseMuOK
  <2> QED BY <2>1, <2>2, <2>3, <2>4
<1> QED BY <1>1, <1>2, <1>3 DEF Button

LEMMA UnlockType ==
  ASSUME TypeOK, Unlock, pauseMu' = pauseMu, press' = press
  PROVE  LockOK' /\ LoopsOK' /\ PauseMuOK'
<1> USE DEF TypeOK, Unlock, NoOp
<1>1. LockOK' BY DEF LockOK
<1>2. LoopsOK' BY DEF LoopsOK
<1>3. PauseMuOK' BY DEF PauseMuOK, LoopsOK
<1> QED BY <1>1, <1>2, <1>3

LEMMA SetFlagType ==
  ASSUME TypeOK, NEW w \in Pressers, NEW want \in BOOLEAN, SetFlag(w, want),
         loop' = loop
  PROVE  /\ paused' \in BOOLEAN /\ countdown' \in BOOLEAN
         /\ PauseMuOK'
<1> USE DEF TypeOK, SetFlag, TakePauseMu
<1>1. paused' \in BOOLEAN /\ countdown' \in BOOLEAN BY DEF ValuesOK
<1>2. PauseMuOK' BY DEF PauseMuOK
<1> QED BY <1>1, <1>2

LEMMA OpType ==
  ASSUME TypeOK, OpStep
  PROVE  TypeOK'
<1> USE DEF TypeOK
<1>1. CASE Fetch
  <2> USE <1>1 DEF Fetch
  <2>1. ValuesOK' BY DEF ValuesOK
  <2>2. LockOK' BY DEF LockOK, ValuesOK
  <2>3. WebhookOK' /\ LoopsOK' /\ PauseMuOK'
    BY DEF WebhookOK, LoopsOK, PauseMuOK
  <2> QED BY <2>1, <2>2, <2>3
<1>2. CASE StartApply
  <2> USE <1>2 DEF StartApply
  <2>1. LockOK' BY DEF LockOK
  <2>2. ValuesOK' /\ WebhookOK' /\ LoopsOK' /\ PauseMuOK'
    BY DEF ValuesOK, WebhookOK, LoopsOK, PauseMuOK
  <2> QED BY <2>1, <2>2
<1>3. CASE Decline
  <2> USE <1>3 DEF Decline
  <2>1. LockOK' BY UnlockType DEF LockOK
  <2>2. LoopsOK' BY UnlockType DEF LoopsOK
  <2>3. PauseMuOK' BY UnlockType DEF PauseMuOK, LoopsOK
  <2>4. ValuesOK' /\ WebhookOK' BY DEF ValuesOK, WebhookOK
  <2> QED BY <2>1, <2>2, <2>3, <2>4
<1>4. CASE Apply
  <2> USE <1>4 DEF Apply, Report
  <2>1. ValuesOK' BY DEF ValuesOK
  <2>2. LockOK' BY DEF LockOK, ValuesOK
  <2>3. WebhookOK' /\ LoopsOK' /\ PauseMuOK'
    BY DEF WebhookOK, LoopsOK, PauseMuOK
  <2> QED BY <2>1, <2>2, <2>3
<1>5. CASE Restore
  <2> USE <1>5 DEF Restore
  <2>1. ValuesOK' BY DEF ValuesOK
  <2>2. LockOK' BY DEF LockOK
  <2>3. WebhookOK' /\ LoopsOK' /\ PauseMuOK'
    BY DEF WebhookOK, LoopsOK, PauseMuOK
  <2> QED BY <2>1, <2>2, <2>3
<1>6. CASE RestoreFails
  <2> USE <1>6 DEF RestoreFails, Report
  <2>1. LockOK' BY DEF LockOK, ValuesOK
  <2>2. ValuesOK' /\ WebhookOK' /\ LoopsOK' /\ PauseMuOK'
    BY DEF ValuesOK, WebhookOK, LoopsOK, PauseMuOK
  <2> QED BY <2>1, <2>2
<1>7. CASE Stamp
  <2> USE <1>7 DEF Stamp, Report
  <2>1. ValuesOK' BY DEF ValuesOK
  <2>2. LockOK' BY DEF LockOK, ValuesOK
  <2>3. WebhookOK' /\ LoopsOK' /\ PauseMuOK'
    BY DEF WebhookOK, LoopsOK, PauseMuOK
  <2> QED BY <2>1, <2>2, <2>3
<1>8. CASE OpSend
  <2> USE <1>8 DEF OpSend
  <2>1. op.snap \in BOOLEAN
    BY DEF LockOK
  <2>2. \/ LockOK' /\ LoopsOK' /\ PauseMuOK'
        \/ /\ op' = [op EXCEPT !.pc = "decide", !.snap = FALSE] /\ op.pc = "send"
           /\ UNCHANGED <<lock, worker, loop, pauseMu, press>>
    BY UnlockType
  <2>3. ValuesOK' BY <2>1, PushType DEF ValuesOK
  <2>4. LockOK' BY <2>2 DEF LockOK
  <2>5. LoopsOK' BY <2>2 DEF LoopsOK
  <2>6. PauseMuOK' BY <2>2 DEF PauseMuOK, LoopsOK
  <2>7. WebhookOK' BY DEF WebhookOK
  <2> QED BY <2>3, <2>4, <2>5, <2>6, <2>7
<1>9. CASE PauseAfterRollback
  <2> USE <1>9 DEF PauseAfterRollback
  <2>1. ValuesOK' BY SetFlagType DEF ValuesOK
  <2>2. LockOK' BY DEF LockOK
  <2>3. PauseMuOK' BY SetFlagType DEF PauseMuOK, LoopsOK
  <2>4. WebhookOK' /\ LoopsOK' BY DEF WebhookOK, LoopsOK
  <2> QED BY <2>1, <2>2, <2>3, <2>4
<1>10. CASE PausedAlready
  <2> USE <1>10 DEF PausedAlready, Report
  <2>1. LockOK' BY DEF LockOK, ValuesOK
  <2>2. ValuesOK' /\ WebhookOK' /\ LoopsOK' /\ PauseMuOK'
    BY DEF ValuesOK, WebhookOK, LoopsOK, PauseMuOK
  <2> QED BY <2>1, <2>2
<1>11. CASE PauseDone
  <2> USE <1>11 DEF PauseDone, Report
  <2>1. LockOK' BY DEF LockOK, ValuesOK
  <2>2. ValuesOK' /\ WebhookOK' /\ LoopsOK' /\ PauseMuOK'
    BY DEF ValuesOK, WebhookOK, LoopsOK, PauseMuOK
  <2> QED BY <2>1, <2>2
<1> QED BY <1>1, <1>2, <1>3, <1>4, <1>5, <1>6, <1>7, <1>8, <1>9, <1>10, <1>11 DEF OpStep

LEMMA PressType ==
  ASSUME TypeOK, 
         \/ \E w \in Pages, want \in BOOLEAN : Press(w, want)
         \/ \E w \in Pressers : PressStep(w)
  PROVE  TypeOK'
<1> USE DEF TypeOK
<1>1. ASSUME NEW w \in Pages, NEW want \in BOOLEAN, Press(w, want) PROVE TypeOK'
  <2> USE <1>1 DEF Press
  <2>1. ValuesOK' BY SetFlagType, SpendType DEF ValuesOK
  <2>2. PauseMuOK' BY SetFlagType DEF PauseMuOK, LoopsOK
  <2>3. WebhookOK' /\ LockOK' /\ LoopsOK' BY DEF WebhookOK, LockOK, LoopsOK
  <2> QED BY <2>1, <2>2, <2>3
<1>2. ASSUME NEW w \in Pressers, WriteFlag(w) PROVE TypeOK'
  <2> USE <1>2 DEF WriteFlag
  <2>1. PICK ok \in BOOLEAN : /\ Spent("fault", ~ok)
                              /\ file' = IF ok THEN press[w].want ELSE file
                              /\ dirty' = ~ok
    OBVIOUS
  <2>2. press[w].want \in BOOLEAN
    BY DEF PauseMuOK
  <2>3. ValuesOK' BY <2>1, <2>2, SpentType DEF ValuesOK
  <2>4. PauseMuOK' BY DEF PauseMuOK, ValuesOK, LoopsOK
  <2>5. WebhookOK' /\ LockOK' /\ LoopsOK' BY DEF WebhookOK, LockOK, LoopsOK
  <2> QED BY <2>3, <2>4, <2>5
<1>3. ASSUME NEW w \in Pressers, PressSend(w) PROVE TypeOK'
  <2> USE <1>3 DEF PressSend, NoPress
  <2>1. press[w].snap \in BOOLEAN
    BY DEF PauseMuOK
  <2>2. ValuesOK' BY <2>1, PushType DEF ValuesOK
  <2>3. PauseMuOK' BY DEF PauseMuOK, LoopsOK
  <2>4. WebhookOK' /\ LockOK' /\ LoopsOK' BY DEF WebhookOK, LockOK, LoopsOK
  <2> QED BY <2>2, <2>3, <2>4
<1> QED BY <1>1, <1>2, <1>3 DEF PressStep

LEMMA ProcessType ==
  ASSUME TypeOK, CoreRestarts \/ Stop \/ Exit \/ Crash
  PROVE  TypeOK'
<1> USE DEF TypeOK
<1>1. CASE CoreRestarts
  <2> USE <1>1 DEF CoreRestarts
  <2>1. ValuesOK' BY SpendType DEF ValuesOK
  <2>2. WebhookOK' /\ LockOK' /\ LoopsOK' /\ PauseMuOK'
    BY DEF WebhookOK, LockOK, LoopsOK, PauseMuOK
  <2> QED BY <2>1, <2>2
<1>2. CASE Stop
  <2> USE <1>2 DEF Stop
  <2>1. ValuesOK' BY SpendType DEF ValuesOK
  <2>2. WebhookOK' /\ LockOK' /\ LoopsOK' /\ PauseMuOK'
    BY DEF WebhookOK, LockOK, LoopsOK, PauseMuOK
  <2> QED BY <2>1, <2>2
<1>3. CASE NewProcess /\ budget' \in [Events -> Nat]
  <2> USE <1>3 DEF NewProcess, NoOp, EmptySlot, NoHandler, Waiting, ATick, NoPress
  <2>1. ValuesOK' BY DEF ValuesOK
  <2>2. WebhookOK' BY DEF WebhookOK
  <2>3. LockOK' BY DEF LockOK
  <2>4. LoopsOK' BY DEF LoopsOK
  <2>5. PauseMuOK' BY DEF PauseMuOK, LoopsOK
  <2> QED BY <2>1, <2>2, <2>3, <2>4, <2>5
<1> QED BY <1>1, <1>2, <1>3, SpendType DEF Exit, Crash, ValuesOK

LEMMA StepType == TypeOK /\ [Next]_vars => TypeOK'
<1> SUFFICES ASSUME TypeOK, [Next]_vars PROVE TypeOK' OBVIOUS
<1>1. CASE UNCHANGED vars
  BY <1>1 DEF vars, TypeOK, ValuesOK, WebhookOK, LockOK, LoopsOK, PauseMuOK
<1> QED BY <1>1, WebhookType, LoopType, ButtonType, OpType, PressType, ProcessType
        DEF Next

\* Every variable keeps its type: an operation is under way exactly when opLock
\* is held, the worker and the loop are in it exactly when it is theirs, and
\* pauseMu is held exactly by whoever writes the flag file.
THEOREM TypeCorrect == Spec => []TypeOK
BY InitType, StepType, PTL DEF Spec

-----------------------------------------------------------------------------
(* The pause and its file.  Whoever writes the file writes the flag as it is  *)
(* now: nobody can change it meanwhile, that is what pauseMu is for.  And the *)
(* timer loop only writes what is already known to be unwritten.              *)

RecordInv ==
  /\ PauseIsRecorded
  /\ loop.pc = "write" => loop.val = paused /\ dirty
  /\ \A w \in Pressers : press[w].pc = "write" => press[w].want = paused

LEMMA InitRecord == Init => RecordInv
<1> SUFFICES ASSUME Init PROVE RecordInv OBVIOUS
<1>1. file = paused BY DEF Init
<1>2. loop.pc # "write" BY DEF Init, ATick
<1>3. \A w \in Pressers : press[w].pc = "none" BY DEF Init, NoPress
<1> QED BY <1>1, <1>2, <1>3 DEF RecordInv, PauseIsRecorded

LEMMA SetFlagRecord ==
  ASSUME TypeOK, RecordInv, NEW w \in Pressers, NEW want \in BOOLEAN,
         SetFlag(w, want), loop' = loop
  PROVE  RecordInv'
<1> USE DEF TypeOK, LoopsOK, PauseMuOK, SetFlag, TakePauseMu
<1>1. loop'.pc # "write" OBVIOUS
<1>2. press'[w] = [pc |-> "write", want |-> want, snap |-> FALSE] /\ paused' = want
  OBVIOUS
<1>3. \A v \in Pressers : press'[v].pc = "write" => v = w OBVIOUS
<1> QED BY <1>1, <1>2, <1>3 DEF RecordInv, PauseIsRecorded

LEMMA StepRecord == TypeOK /\ RecordInv /\ [Next]_vars => RecordInv'
<1> SUFFICES ASSUME TypeOK, RecordInv, [Next]_vars PROVE RecordInv' OBVIOUS
<1> USE DEF RecordInv, PauseIsRecorded
<1>1. CASE UNCHANGED <<paused, file, dirty, press, loop>> BY <1>1
<1>2. ASSUME UNCHANGED <<paused, file, dirty, press>>, loop'.pc # "write",
             loop.pc # "write"
      PROVE  RecordInv'
  BY <1>2
<1>3. CASE WorkerStep \/ Sync \/ \E d \in Deliveries : Accept(d) \/ HandlerStep(d)
  BY <1>1, <1>3
  DEF WorkerStep, Sync, HandlerStep, Accept, Record, Wake, Receive, Take,
      EndSpacing, SyncNow, Drop
<1>4. CASE LoopStep
  <2>1. CASE Alarm BY <1>2, <2>1 DEF Alarm, ATick
  <2>2. CASE Tick BY <1>2, <2>2 DEF Tick, TypeOK, LoopsOK
  <2>3. CASE RetryNothing BY <1>2, <2>3 DEF RetryNothing
  <2>4. CASE RetryBegin BY <2>4 DEF RetryBegin
  <2>5. CASE RetryWrite
    BY <2>5 DEF RetryWrite, TypeOK, ValuesOK, PauseMuOK
  <2>6. CASE LoopSend BY <1>2, <2>6 DEF LoopSend, Sleeping
  <2>7. CASE TryCycle BY <1>2, <2>7 DEF TryCycle, TypeOK, LoopsOK
  <2>8. CASE Rearm BY <1>2, <2>8 DEF Rearm, Sleeping
  <2> QED BY <1>4, <2>1, <2>2, <2>3, <2>4, <2>5, <2>6, <2>7, <2>8 DEF LoopStep
<1>5. CASE Button BY <1>1, <1>5 DEF Button, CheckNow, ApplyNow, RollBack, Begin
<1>6. CASE OpStep
  <2>1. CASE Fetch \/ StartApply \/ Apply \/ Restore \/ RestoreFails \/ Stamp
             \/ PausedAlready \/ PauseDone
    BY <1>1, <2>1 DEF Fetch, StartApply, Apply, Restore, RestoreFails, Stamp,
                      PausedAlready, PauseDone
  <2>2. CASE Decline \/ OpSend
    <3>1. UNCHANGED <<paused, file, dirty, press>>
      BY <2>2 DEF Decline, OpSend
    <3>2. loop' = loop \/ (loop.pc # "write" /\ loop'.pc # "write")
      BY <2>2 DEF Decline, OpSend, Unlock, TypeOK, LoopsOK
    <3> QED BY <1>1, <1>2, <3>1, <3>2
  <2>3. CASE PauseAfterRollback
    BY <2>3, SetFlagRecord DEF PauseAfterRollback
  <2> QED BY <1>6, <2>1, <2>2, <2>3 DEF OpStep
<1>7. ASSUME NEW w \in Pages, NEW want \in BOOLEAN, Press(w, want)
      PROVE  RecordInv'
  BY <1>7, SetFlagRecord DEF Press
<1>8. ASSUME NEW w \in Pressers, WriteFlag(w) PROVE RecordInv'
  <2>1. PICK ok \in BOOLEAN : /\ file' = IF ok THEN press[w].want ELSE file
                              /\ dirty' = ~ok
    BY <1>8 DEF WriteFlag
  <2>2. file' = paused \/ dirty' BY <1>8, <2>1 DEF WriteFlag
  <2>3. loop'.pc # "write" /\ \A v \in Pressers : press'[v].pc # "write"
    BY <1>8 DEF WriteFlag, TypeOK, PauseMuOK
  <2> QED BY <1>8, <2>2, <2>3 DEF WriteFlag
<1>9. ASSUME NEW w \in Pressers, PressSend(w) PROVE RecordInv'
  BY <1>9 DEF PressSend, NoPress, TypeOK, PauseMuOK
<1>10. CASE NewProcess BY <1>10 DEF NewProcess, ATick, NoPress
<1>11. CASE CoreRestarts \/ Stop BY <1>1, <1>11 DEF CoreRestarts, Stop
<1>12. CASE UNCHANGED vars BY <1>1, <1>12 DEF vars
<1> QED BY <1>3, <1>4, <1>5, <1>6, <1>7, <1>8, <1>9, <1>10, <1>11, <1>12
        DEF Next, PressStep, Exit, Crash

\* Whenever nobody is writing it, the flag file says what the flag says or the
\* agent knows that it does not, so that a pause is never lost unnoticed over
\* a restart, for any number of pages pressing while the timer retries.
THEOREM PauseRecorded == Spec => []PauseIsRecorded
<1>1. RecordInv => PauseIsRecorded BY DEF RecordInv
<1> QED BY TypeCorrect, InitRecord, StepRecord, <1>1, PTL DEF Spec

-----------------------------------------------------------------------------
(* The countdown: only three steps touch it or the flag.                     *)

LEMMA StepCountdown ==
  NoCountdownWhilePaused /\ [Next]_vars => NoCountdownWhilePaused'
<1> SUFFICES ASSUME NoCountdownWhilePaused, [Next]_vars
             PROVE  NoCountdownWhilePaused'
  OBVIOUS
<1> USE DEF NoCountdownWhilePaused
<1>1. CASE UNCHANGED <<paused, countdown>> BY <1>1
<1>2. CASE WorkerStep \/ Sync \/ \E d \in Deliveries : Accept(d) \/ HandlerStep(d)
  BY <1>1, <1>2
  DEF WorkerStep, Sync, HandlerStep, Accept, Record, Wake, Receive, Take,
      EndSpacing, SyncNow, Drop
<1>3. CASE LoopStep /\ ~Rearm
  BY <1>1, <1>3 DEF LoopStep, Alarm, Tick, RetryNothing, RetryBegin, RetryWrite,
                    LoopSend, TryCycle
<1>4. CASE Rearm BY <1>4 DEF Rearm
<1>5. CASE Button BY <1>1, <1>5 DEF Button, CheckNow, ApplyNow, RollBack, Begin
<1>6. CASE OpStep /\ ~PauseAfterRollback
  BY <1>1, <1>6 DEF OpStep, Fetch, StartApply, Decline, Apply, Restore,
                    RestoreFails, Stamp, OpSend, PausedAlready, PauseDone
<1>7. CASE PauseAfterRollback BY <1>7 DEF PauseAfterRollback, SetFlag
<1>8. ASSUME NEW w \in Pages, NEW want \in BOOLEAN, Press(w, want)
      PROVE  NoCountdownWhilePaused'
  BY <1>8 DEF Press, SetFlag
<1>9. ASSUME NEW w \in Pressers, PressStep(w) PROVE NoCountdownWhilePaused'
  BY <1>1, <1>9 DEF PressStep, WriteFlag, PressSend
<1>10. CASE NewProcess BY <1>10 DEF NewProcess
<1>11. CASE CoreRestarts \/ Stop BY <1>1, <1>11 DEF CoreRestarts, Stop
<1>12. CASE UNCHANGED vars BY <1>1, <1>12 DEF vars
<1> QED BY <1>2, <1>3, <1>4, <1>5, <1>6, <1>7, <1>8, <1>9, <1>10, <1>11, <1>12
        DEF Next, Exit, Crash

\* While the agent is paused the page counts down to nothing, whenever in a
\* cycle the pause came and whoever pressed it.
THEOREM CountdownOff == Spec => []NoCountdownWhilePaused
<1>1. Init => NoCountdownWhilePaused BY DEF Init, NoCountdownWhilePaused
<1> QED BY <1>1, StepCountdown, PTL DEF Spec

-----------------------------------------------------------------------------
(* What stands after a Roll Back.  From the restore to the flag its operation *)
(* still holds the lock; from then on the flag is set, or the options say     *)
(* that no cycle applies anything.  An unattended apply holds the lock        *)
(* itself, so no restore falls into one.                                      *)

Protected ==
  \/ paused
  \/ opts.dry
  \/ op.pc \in {"stamp", "pause"}

RollbackInv ==
  /\ undone => Protected
  /\ RollbackStands

LEMMA StepRollback == TypeOK /\ RollbackInv /\ [Next]_vars => RollbackInv'
<1> SUFFICES ASSUME TypeOK, RollbackInv, [Next]_vars PROVE RollbackInv' OBVIOUS
<1> USE DEF RollbackInv, RollbackStands, Protected
<1>1. CASE UNCHANGED <<paused, opts, op, lock, undone>> BY <1>1
<1>2. ASSUME UNCHANGED <<paused, opts, undone>>,
             op.pc \notin {"stamp", "pause"},
             op'.pc = "apply" => lock' \notin Unattended
      PROVE  RollbackInv'
  BY <1>2
<1>3. CASE \/ \E d \in Deliveries : Accept(d) \/ HandlerStep(d)
           \/ WorkerStep \/ Drop
  BY <1>1, <1>3
  DEF WorkerStep, HandlerStep, Accept, Record, Wake, Receive, Take, EndSpacing, Drop
<1>4. CASE SyncNow
  BY <1>2, <1>4 DEF SyncNow, CycleOp, NoOp, TypeOK, LockOK
<1>5. CASE LoopStep /\ ~TryCycle
  BY <1>1, <1>5 DEF LoopStep, Alarm, Tick, RetryNothing, RetryBegin, RetryWrite,
                    LoopSend, Rearm
<1>6. CASE TryCycle
  <2>1. CASE lock = "none"
    BY <1>2, <1>6, <2>1 DEF TryCycle, CycleOp, NoOp, TypeOK, LockOK
  <2>2. CASE lock # "none" BY <1>1, <1>6, <2>2 DEF TryCycle
  <2> QED BY <2>1, <2>2
<1>7. CASE Button
  BY <1>2, <1>7
  DEF Button, CheckNow, ApplyNow, RollBack, Begin, CycleOp, NoOp, TypeOK, LockOK
<1>8. CASE OpStep
  <2> USE DEF TypeOK, LockOK, Report
  <2>1. CASE Fetch BY <1>2, <2>1 DEF Fetch
  <2>2. CASE StartApply
    <3>1. ~undone /\ ~undone' BY <2>2 DEF StartApply, Allowed
    <3> QED BY <3>1
  <2>3. CASE Decline BY <1>2, <2>3 DEF Decline, Unlock, NoOp
  <2>4. CASE Apply BY <1>2, <2>4 DEF Apply
  <2>5. CASE Restore BY <2>5 DEF Restore
  <2>6. CASE RestoreFails BY <1>2, <2>6 DEF RestoreFails
  <2>7. CASE Stamp BY <2>7 DEF Stamp
  <2>8. CASE OpSend BY <1>2, <2>8 DEF OpSend, Unlock, NoOp
  <2>9. CASE PauseAfterRollback BY <2>9 DEF PauseAfterRollback, SetFlag
  <2>10. CASE PausedAlready BY <2>10 DEF PausedAlready
  <2>11. CASE PauseDone BY <1>2, <2>11 DEF PauseDone
  <2> QED BY <1>8, <2>1, <2>2, <2>3, <2>4, <2>5, <2>6, <2>7, <2>8, <2>9, <2>10,
             <2>11 DEF OpStep
<1>9. ASSUME NEW w \in Pages, NEW want \in BOOLEAN, Press(w, want)
      PROVE  RollbackInv'
  BY <1>9 DEF Press, SetFlag
<1>10. ASSUME NEW w \in Pressers, PressStep(w) PROVE RollbackInv'
  BY <1>1, <1>10 DEF PressStep, WriteFlag, PressSend
<1>11. CASE NewProcess BY <1>11 DEF NewProcess, NoOp
<1>12. CASE CoreRestarts \/ Stop BY <1>1, <1>12 DEF CoreRestarts, Stop
<1>13. CASE UNCHANGED vars BY <1>1, <1>13 DEF vars
<1> QED BY <1>3, <1>4, <1>5, <1>6, <1>7, <1>8, <1>9, <1>10, <1>11, <1>12, <1>13
        DEF Next, Sync, Exit, Crash

\* Once a Roll Back has restored the files nothing is applied unattended, by the
\* timer or by a webhook, until somebody presses Resume, whatever was already
\* due or waiting when it was pressed.
THEOREM RollbackKept == Spec => []RollbackStands
<1>1. Init => RollbackInv
  BY DEF Init, RollbackInv, RollbackStands, NoOp
<1>2. RollbackInv => RollbackStands BY DEF RollbackInv
<1> QED BY <1>1, <1>2, TypeCorrect, StepRollback, PTL DEF Spec

-----------------------------------------------------------------------------
(* The refinement: every step is one of GitOpsAgent, or none of its business. *)

\* Where an operation is, and what stands, is all the promise is about.
LEMMA Stutters ==
  ASSUME UNCHANGED <<op, lock, undone, file>>
  PROVE  UNCHANGED Agent!avars
BY DEF Agent!avars, Doing, Undecided

\* A press, a tick or a new process may change the flag file as it likes.
LEMMA OnlyRecords ==
  ASSUME TypeOK, UNCHANGED <<op, lock, undone>>, file' \in BOOLEAN
  PROVE  Agent!Next
BY DEF Agent!Next, Agent!Record, Agent!operation, Doing, Undecided

\* An operation begins: there was none.
LEMMA Begins ==
  ASSUME TypeOK, lock = "none", UNCHANGED <<undone, file>>,
         \/ op'.pc = "fetch" /\ lock' \in Unattended \cup {"check"}
         \/ op'.pc = "apply" /\ lock' = "apply"
         \/ op'.pc = "restore" /\ lock' = "rollback"
  PROVE  Agent!Next
<1> USE DEF TypeOK, LockOK, Doing, Undecided, Agent!Start
<1>1. Doing = "nothing" OBVIOUS
<1>2. CASE op'.pc = "fetch" /\ lock' \in Unattended \cup {"check"}
  <2>1. Agent!Check BY <1>1, <1>2 DEF Agent!Check
  <2> QED BY <2>1 DEF Agent!Next
<1>3. CASE op'.pc = "apply" /\ lock' = "apply"
  <2>1. Agent!OwnerApplies BY <1>1, <1>3 DEF Agent!OwnerApplies
  <2> QED BY <2>1 DEF Agent!Next
<1>4. CASE op'.pc = "restore" /\ lock' = "rollback"
  <2>1. Agent!OwnerRollsBack BY <1>1, <1>4 DEF Agent!OwnerRollsBack
  <2> QED BY <2>1 DEF Agent!Next
<1> QED BY <1>2, <1>3, <1>4

\* It ends: it had something to end.
LEMMA Ends ==
  ASSUME TypeOK, Doing \in {"checked", "ending"}, op' = NoOp, lock' = "none",
         UNCHANGED <<undone, file>>
  PROVE  Agent!Next
BY DEF Agent!Next, Agent!End, Doing, Undecided, NoOp

LEMMA OpRefines ==
  ASSUME TypeOK, RollbackInv, OpStep
  PROVE  Agent!Next \/ UNCHANGED Agent!avars
<1> USE DEF TypeOK, LockOK, Report, Doing, Undecided
<1>1. CASE Fetch
  <2> PICK fresh \in BOOLEAN :
        op' = [op EXCEPT !.pc = "send", !.fresh = fresh, !.snap = paused,
                         !.then = IF lock \in Unattended THEN "decide" ELSE "done"]
    BY <1>1 DEF Fetch
  <2>1. /\ Doing = "checking" /\ UNCHANGED <<lock, undone, file>>
        /\ Doing' = IF lock \in Unattended /\ fresh THEN "checked" ELSE "ending"
    BY <1>1 DEF Fetch
  <2>2. Agent!Checked BY <2>1 DEF Agent!Checked, Agent!GoOn
  <2> QED BY <2>2 DEF Agent!Next
<1>2. CASE StartApply
  <2>1. ~undone
    BY <1>2 DEF StartApply, Allowed, RollbackInv, Protected
  <2>2. Doing = "checked" /\ Doing' = "applying" /\ UNCHANGED <<lock, undone, file>>
    BY <1>2 DEF StartApply, Allowed
  <2>3. Agent!ApplyUnattended
    BY <2>1, <2>2 DEF Agent!ApplyUnattended, Agent!GoOn
  <2> QED BY <2>3 DEF Agent!Next
<1>3. CASE Decline
  BY <1>3, Ends DEF Decline, Unlock
<1>4. CASE Apply
  <2>1. Agent!Finished BY <1>4 DEF Apply, Agent!Finished, Agent!GoOn
  <2> QED BY <2>1 DEF Agent!Next
<1>5. CASE Restore
  <2>1. Agent!Restored BY <1>5 DEF Restore, Agent!Restored, Agent!operation
  <2> QED BY <2>1 DEF Agent!Next
<1>6. CASE RestoreFails \/ PausedAlready \/ PauseDone
  <2>1. Agent!Finished
    BY <1>6 DEF RestoreFails, PausedAlready, PauseDone, Agent!Finished, Agent!GoOn
  <2> QED BY <2>1 DEF Agent!Next
<1>7. CASE Stamp
  <2>1. CASE ~opts.dry \/ opts.capture
    BY <1>7, <2>1 DEF Stamp, Agent!avars
  <2>2. CASE ~(~opts.dry \/ opts.capture)
    <3>1. Doing = "rolling back" /\ UNCHANGED <<lock, undone, file>>
      BY <1>7 DEF Stamp
    <3>2. op' = [op EXCEPT !.pc = "send", !.then = "done", !.snap = paused]
      BY <1>7, <2>2 DEF Stamp
    <3>3. Doing' = "ending" BY <3>2
    <3>4. Agent!Finished BY <3>1, <3>3 DEF Agent!Finished, Agent!GoOn
    <3> QED BY <3>4 DEF Agent!Next
  <2> QED BY <2>1, <2>2
<1>8. CASE OpSend
  <2>1. CASE op.then = "decide"
    <3>1. /\ UNCHANGED <<lock, undone, file>> /\ op.pc = "send"
          /\ op' = [op EXCEPT !.pc = "decide", !.snap = FALSE]
      BY <1>8, <2>1 DEF OpSend
    <3>2. Doing' = Doing BY <2>1, <3>1
    <3> QED BY <3>1, <3>2 DEF Agent!avars
  <2>2. CASE op.then # "decide"
    BY <1>8, <2>2, Ends DEF OpSend, Unlock
  <2> QED BY <2>1, <2>2
<1>9. CASE PauseAfterRollback
  BY <1>9 DEF PauseAfterRollback, SetFlag, Agent!avars
<1> QED BY <1>1, <1>2, <1>3, <1>4, <1>5, <1>6, <1>7, <1>8, <1>9 DEF OpStep

LEMMA StepRefines ==
  TypeOK /\ TypeOK' /\ RollbackInv /\ [Next]_vars => [Agent!Next]_(Agent!avars)
<1> SUFFICES ASSUME TypeOK, TypeOK', RollbackInv, [Next]_vars
             PROVE  Agent!Next \/ UNCHANGED Agent!avars
  OBVIOUS
<1>1. file' \in BOOLEAN BY DEF TypeOK, ValuesOK
<1>2. CASE \/ \E d \in Deliveries : Accept(d) \/ HandlerStep(d)
           \/ WorkerStep \/ Drop
  BY <1>2, Stutters
  DEF WorkerStep, HandlerStep, Accept, Record, Wake, Receive, Take, EndSpacing, Drop
<1>3. CASE SyncNow BY <1>3, Begins DEF SyncNow, CycleOp, NoOp
<1>4. CASE LoopStep /\ ~TryCycle
  <2>1. UNCHANGED <<op, lock, undone>>
    BY <1>4 DEF LoopStep, Alarm, Tick, RetryNothing, RetryBegin, RetryWrite, LoopSend, Rearm
  <2> QED BY <1>1, <2>1, OnlyRecords
<1>5. CASE TryCycle
  <2>1. CASE lock = "none" BY <1>5, <2>1, Begins DEF TryCycle, CycleOp, NoOp
  <2>2. CASE lock # "none" BY <1>5, <2>2, Stutters DEF TryCycle
  <2> QED BY <2>1, <2>2
<1>6. CASE Button
  BY <1>6, Begins DEF Button, CheckNow, ApplyNow, RollBack, Begin, CycleOp, NoOp
<1>7. CASE OpStep BY <1>7, OpRefines
<1>8. ASSUME NEW w \in Pages, NEW want \in BOOLEAN, Press(w, want)
      PROVE  Agent!Next \/ UNCHANGED Agent!avars
  <2>1. CASE want
    BY <1>8, <2>1, Stutters DEF Press, SetFlag, TypeOK, ValuesOK
  <2>2. CASE ~want
    <3>1. Agent!Resume
      BY <1>8, <2>2 DEF Press, SetFlag, Agent!Resume, Agent!operation, Doing, Undecided
    <3> QED BY <3>1 DEF Agent!Next
  <2> QED BY <2>1, <2>2
<1>9. ASSUME NEW w \in Pressers, PressStep(w)
      PROVE  Agent!Next
  <2>1. UNCHANGED <<op, lock, undone>> BY <1>9 DEF PressStep, WriteFlag, PressSend
  <2> QED BY <1>1, <2>1, OnlyRecords
<1>10. CASE NewProcess
  <2>1. Agent!NewProcess BY <1>10 DEF NewProcess, Agent!NewProcess, NoOp, Doing, Undecided
  <2> QED BY <2>1 DEF Agent!Next
<1>11. CASE CoreRestarts \/ Stop BY <1>11, Stutters DEF CoreRestarts, Stop
<1>12. CASE UNCHANGED vars BY <1>12, Stutters DEF vars
<1> QED BY <1>2, <1>3, <1>4, <1>5, <1>6, <1>7, <1>8, <1>9, <1>10, <1>11, <1>12
        DEF Next, Sync, Exit, Crash

\* Whatever the goroutines, the presses, the deliveries and the stops do to each
\* other, the agent keeps the promise of GitOpsAgent: one operation at a time,
\* unattended nothing but a plan just checked, and nothing at all between a Roll
\* Back and the press of Resume.
THEOREM Implements == Spec => KeepsThePromise
<1>1. Init => Agent!Init
  BY DEF Init, Agent!Init, Doing, Undecided, NoOp
<1>2. Init => RollbackInv
  BY DEF Init, RollbackInv, RollbackStands, NoOp
<1> QED BY <1>1, <1>2, TypeCorrect, StepRollback, StepRefines, PTL
        DEF Spec, KeepsThePromise, Agent!Spec

=============================================================================
