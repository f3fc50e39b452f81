----------------------------- MODULE GitOpsControl -----------------------------
(***************************************************************************)
(* What starts an operation of the GitOps agent and what keeps it from     *)
(* starting (ha_gitops_agent/internal/recon and internal/hook): the timer  *)
(* loop, the webhook's queue and worker, the buttons, the pause flag with  *)
(* its file, Roll Back, the sensor that tells all this to Home Assistant,  *)
(* shutdown and restart.                                                   *)
(*                                                                         *)
(* The goroutines are processes of their own and meet in opLock, pauseMu,  *)
(* the webhook's slot and its channel.  What a plan says and what an apply *)
(* does to the files is the subject of GitOpsFiles; here a plan is empty   *)
(* or not.                                                                 *)
(***************************************************************************)
EXTENDS Naturals

CONSTANTS
  MaxDeliveries, \* how many webhook deliveries may come
  Pages,        \* the browser pages on which Pause and Resume may be pressed
  Options,      \* [dry : dry_run, capture : capture_live_changes]
  Budgets       \* how often each bounded event may happen

\* The bounded events: a webhook delivery, a press of Pause or Resume, a Roll
\* Back, a failing write or request, a stop, a restart of Core.  "any" bounds
\* them together.
Events == {"delivery", "press", "rollback", "fault", "stop", "core", "any"}

ASSUME ConstantsAssumption ==
  /\ MaxDeliveries \in Nat
  /\ Pages \cap {"none", "loop", "rollback"} = {}
  /\ Options \subseteq [dry : BOOLEAN, capture : BOOLEAN]
  /\ Budgets \subseteq [Events -> Nat]

VARIABLES
  budget,     \* how many more of each event may happen
  clock,      \* the time, as far as times are compared
  opts,       \* the options this process started with
  lock,       \* who holds opLock
  op,         \* where the operation holding it is
  pending,    \* whether the plan has something to apply
  point,      \* whether there is an apply to roll back
  rolledAt,   \* when the last Roll Back finished (0: none by this process)
  hook,       \* the webhook's slot: the token in ready, the newest time at
  handler,    \* per delivery, where its request is and when it was accepted
  worker,     \* the webhook's worker
  loop,       \* the timer loop
  countdown,  \* whether the page shows when the next check comes
  paused,     \* the pause flag
  file,       \* whether the flag file exists
  dirty,      \* the last write of the flag file failed
  pauseMu,    \* who holds pauseMu
  press,      \* who is in SetPaused, and where
  sensor,     \* the sensor's attribute paused, as Home Assistant has it
  stopping,   \* the lifetime context is cancelled
  owed,       \* history: the deliveries answered 202 no cycle has fetched for
  undone      \* history: a Roll Back paused and nobody resumed

locks == <<lock, op>>
plans == <<pending, point>>
webhook == <<hook, handler, worker>>
pause == <<paused, file, dirty, pauseMu, press>>
life == <<opts, stopping>>
vars == <<budget, clock, life, locks, plans, rolledAt, webhook, loop,
          countdown, pause, sensor, owed, undone>>

-----------------------------------------------------------------------------
(* Data *)

\* The deliveries, in the order they are accepted.
Deliveries == 1..MaxDeliveries

Pressers == Pages \cup {"rollback"}
Unattended == {"loop", "worker"}

NoOp == [pc |-> "none", then |-> "done", fresh |-> FALSE, snap |-> FALSE]
CycleOp == [NoOp EXCEPT !.pc = "fetch"]
NoPress == [pc |-> "none", want |-> FALSE, snap |-> FALSE]
NoHandler == [pc |-> "none", at |-> 0]
Waiting == [pc |-> "waiting", at |-> 0]
Sleeping == [pc |-> "sleep", val |-> FALSE]
ATick == [pc |-> "tick", val |-> FALSE]
EmptySlot == [ready |-> FALSE, at |-> 0]

Spend(e) == /\ budget[e] > 0 /\ budget["any"] > 0
            /\ budget' = [budget EXCEPT ![e] = @ - 1, !["any"] = @ - 1]
Spent(e, happened) == IF happened THEN Spend(e) ELSE UNCHANGED budget

\* Push what was snapped to the sensor: the request may fail, unnoticed.
Push(snap) == \E ok \in BOOLEAN : /\ Spent("fault", ~ok)
                                  /\ sensor' = IF ok THEN snap ELSE sensor

-----------------------------------------------------------------------------
(* Initial states: a new process, paused or not, after an apply of an earlier
   one *)

Init ==
  /\ budget \in Budgets /\ clock = 0
  /\ opts \in Options /\ stopping = FALSE
  /\ lock = "none" /\ op = NoOp
  /\ pending = FALSE /\ point = TRUE /\ rolledAt = 0
  /\ hook = EmptySlot /\ handler = [d \in Deliveries |-> NoHandler] /\ worker = Waiting
  /\ loop = ATick /\ countdown = FALSE
  /\ file \in BOOLEAN /\ paused = file /\ dirty = FALSE
  /\ pauseMu = "none" /\ press = [w \in Pressers |-> NoPress]
  /\ sensor = file
  /\ owed = {} /\ undone = FALSE

-----------------------------------------------------------------------------
(* The webhook *)

\* A delivery that asks for a cycle: it is accepted now.
Accept(d) ==
  /\ handler[d].pc = "none" /\ ~stopping
  /\ \A e \in 1..(d - 1) : handler[e].pc # "none"
  /\ Spend("delivery")
  /\ clock' = clock + 1
  /\ handler' = [handler EXCEPT ![d] = [pc |-> "accepted", at |-> clock']]
  /\ UNCHANGED <<life, locks, plans, rolledAt, hook, worker, loop, countdown,
                 pause, sensor, owed, undone>>

\* pendingTrigger.set: the newest time wins ...
Record(d) ==
  /\ handler[d].pc = "accepted"
  /\ hook' = [hook EXCEPT !.at = IF handler[d].at > @ THEN handler[d].at ELSE @]
  /\ handler' = [handler EXCEPT ![d].pc = "recorded"]
  /\ UNCHANGED <<budget, clock, life, locks, plans, rolledAt, worker, loop,
                 countdown, pause, sensor, owed, undone>>

\* ... and, outside its mutex, the worker is woken if it is not already due
\* to wake.  Then the request is answered.
Wake(d) ==
  /\ handler[d].pc = "recorded"
  /\ hook' = [hook EXCEPT !.ready = TRUE]
  /\ handler' = [handler EXCEPT ![d].pc = "answered"]
  /\ owed' = IF handler[d].at > rolledAt THEN owed \cup {d} ELSE owed
  /\ UNCHANGED <<budget, clock, life, locks, plans, rolledAt, worker, loop,
                 countdown, pause, sensor, undone>>

\* The worker receives the token ...
Receive ==
  /\ worker.pc = "waiting"
  /\ hook.ready
  /\ hook' = [hook EXCEPT !.ready = FALSE]
  /\ worker' = [worker EXCEPT !.pc = "woken"]
  /\ UNCHANGED <<budget, clock, life, locks, plans, rolledAt, handler, loop,
                 countdown, pause, sensor, owed, undone>>

\* ... and takes the newest time, clearing it.
Take ==
  /\ worker.pc = "woken"
  /\ worker' = [pc |-> "asking", at |-> hook.at]
  /\ hook' = [hook EXCEPT !.at = 0]
  /\ UNCHANGED <<budget, clock, life, locks, plans, rolledAt, handler, loop,
                 countdown, pause, sensor, owed, undone>>

\* SyncNow drops a cycle that a Roll Back has overtaken; a zero time skips the
\* check.
Overtaken == worker.at # 0 /\ rolledAt > worker.at

\* SyncNow got opLock: it runs the cycle, ...
SyncNow ==
  /\ worker.pc = "asking" /\ lock = "none"
  /\ ~stopping /\ ~Overtaken
  /\ lock' = "worker" /\ op' = CycleOp
  /\ worker' = [pc |-> "cycling", at |-> 0]
  /\ UNCHANGED <<budget, clock, life, plans, rolledAt, hook, handler, loop,
                 countdown, pause, sensor, owed, undone>>

\* A mutant of Drop: it returns with the lock held.
DropLocked ==
  /\ worker.pc = "asking" /\ lock = "none"
  /\ Overtaken
  /\ lock' = "worker" /\ worker' = [pc |-> "spacing", at |-> 0]
  /\ UNCHANGED <<budget, clock, life, op, plans, rolledAt, hook, handler, loop,
                 countdown, pause, sensor, owed, undone>>

\* A mutant of Drop: it does not wait for the lock.
DropIfBusy ==
  /\ worker.pc = "asking"
  /\ Overtaken \/ lock # "none"
  /\ worker' = [pc |-> "spacing", at |-> 0]
  /\ UNCHANGED <<budget, clock, life, locks, plans, rolledAt, hook, handler,
                 loop, countdown, pause, sensor, owed, undone>>

\* ... or drops it, ...
Drop ==
  /\ worker.pc = "asking" /\ lock = "none"
  /\ Overtaken
  /\ worker' = [pc |-> "spacing", at |-> 0]
  /\ UNCHANGED <<budget, clock, life, locks, plans, rolledAt, hook, handler,
                 loop, countdown, pause, sensor, owed, undone>>

\* ... and the worker waits for the next token at least ten seconds later.
\* Once the context is cancelled it returns instead.
EndSpacing ==
  /\ worker.pc = "spacing" /\ ~stopping
  /\ worker' = Waiting
  /\ UNCHANGED <<budget, clock, life, locks, plans, rolledAt, hook, handler,
                 loop, countdown, pause, sensor, owed, undone>>

-----------------------------------------------------------------------------
(* The timer loop *)

\* The interval is over, or a resume has put a token into the channel wake:
\* it only makes this happen at once, so the token is not kept.
Alarm ==
  /\ loop.pc = "sleep"
  /\ loop' = ATick
  /\ UNCHANGED <<budget, clock, life, locks, plans, rolledAt, webhook,
                 countdown, pause, sensor, owed, undone>>

\* A mutant of Tick: while paused, nothing but the flag file is looked after.
TickQuietly ==
  /\ loop.pc = "tick"
  /\ loop' = [loop EXCEPT !.pc = IF ~paused THEN "try"
                                 ELSE IF dirty THEN "retry" ELSE "sleep"]
  /\ UNCHANGED <<budget, clock, life, locks, plans, rolledAt, webhook,
                 countdown, pause, sensor, owed, undone>>

\* A paused tick only looks after the flag file and the sensor.
Tick ==
  /\ loop.pc = "tick"
  /\ loop' = [loop EXCEPT !.pc = IF paused THEN "retry" ELSE "try"]
  /\ UNCHANGED <<budget, clock, life, locks, plans, rolledAt, webhook,
                 countdown, pause, sensor, owed, undone>>

\* retryPauseFile under pauseMu: nothing to write, ...  (Then pushStatus: what
\* it says is read here and arrives later.)
RetryNothing ==
  /\ loop.pc = "retry"
  /\ pauseMu = "none" /\ ~dirty
  /\ loop' = [pc |-> "send", val |-> paused]
  /\ UNCHANGED <<budget, clock, life, locks, plans, rolledAt, webhook,
                 countdown, pause, sensor, owed, undone>>

\* ... or the flag as it is now, ...
RetryBegin ==
  /\ loop.pc = "retry"
  /\ pauseMu = "none" /\ dirty
  /\ pauseMu' = "loop"
  /\ loop' = [pc |-> "write", val |-> paused]
  /\ UNCHANGED <<budget, clock, life, locks, plans, rolledAt, webhook,
                 countdown, paused, file, dirty, press, sensor, owed, undone>>

\* ... which may fail again.
RetryWrite ==
  /\ loop.pc = "write"
  /\ \E ok \in BOOLEAN : /\ Spent("fault", ~ok)
                         /\ file' = IF ok THEN loop.val ELSE file
                         /\ dirty' = (dirty /\ ~ok)
  /\ pauseMu' = "none"
  /\ loop' = [pc |-> "send", val |-> paused]
  /\ UNCHANGED <<clock, life, locks, plans, rolledAt, webhook, countdown,
                 paused, press, sensor, owed, undone>>

\* The paused tick's pushStatus arrives.
LoopSend ==
  /\ loop.pc = "send"
  /\ Push(loop.val)
  /\ loop' = Sleeping
  /\ UNCHANGED <<clock, life, locks, plans, rolledAt, webhook, countdown,
                 pause, owed, undone>>

\* runCycle: a busy lock is no cycle.
TryCycle ==
  /\ loop.pc = "try"
  /\ IF lock = "none"
     THEN /\ lock' = "loop" /\ op' = CycleOp
          /\ loop' = [loop EXCEPT !.pc = "cycling"]
     ELSE /\ loop' = [loop EXCEPT !.pc = "rearm"]
          /\ UNCHANGED locks
  /\ UNCHANGED <<budget, clock, life, plans, rolledAt, webhook, countdown,
                 pause, sensor, owed, undone>>

\* A mutant of Rearm: a cycle is always followed by another.
RearmAlways ==
  /\ loop.pc = "rearm"
  /\ countdown' = TRUE
  /\ loop' = Sleeping
  /\ UNCHANGED <<budget, clock, life, locks, plans, rolledAt, webhook, pause,
                 sensor, owed, undone>>

\* The countdown starts again, unless a pause came during the cycle.
Rearm ==
  /\ loop.pc = "rearm"
  /\ countdown' = (countdown \/ ~paused)
  /\ loop' = Sleeping
  /\ UNCHANGED <<budget, clock, life, locks, plans, rolledAt, webhook, pause,
                 sensor, owed, undone>>

-----------------------------------------------------------------------------
(* Buttons *)

\* A button's operation begins if nothing else runs; a refused press changes
\* nothing.
Begin(button, first) ==
  /\ lock = "none" /\ ~stopping
  /\ lock' = button /\ op' = first
  /\ UNCHANGED <<clock, life, plans, rolledAt, webhook, loop, countdown, pause,
                 sensor, owed, undone>>

CheckNow == Begin("check", CycleOp) /\ UNCHANGED budget

ApplyNow == pending /\ Begin("apply", [NoOp EXCEPT !.pc = "apply"]) /\ UNCHANGED budget

RollBack ==
  point /\ Spend("rollback") /\ Begin("rollback", [NoOp EXCEPT !.pc = "restore"])

-----------------------------------------------------------------------------
(* The operation holding opLock *)

\* pushStatus at the end of a reconcile, an apply and a Roll Back: what it says
\* is read now and arrives later.
Report(then) == op' = [op EXCEPT !.pc = "send", !.then = then, !.snap = paused]

\* reconcileNow, by whomever: something is pending or not - or the remote does
\* not answer, and the old plan is kept or dropped.
Fetch ==
  /\ op.pc = "fetch"
  /\ \E fresh \in BOOLEAN :
       /\ pending' \in IF fresh THEN BOOLEAN ELSE {pending, FALSE}
       /\ op' = [op EXCEPT !.pc = "send", !.fresh = fresh, !.snap = paused,
                           !.then = IF lock \in Unattended THEN "decide" ELSE "done"]
  /\ owed' = IF lock = "worker" THEN {} ELSE owed
  /\ UNCHANGED <<budget, clock, life, lock, point, rolledAt, webhook, loop,
                 countdown, pause, sensor, undone>>

\* A mutant of Allowed: the pause is only looked at by the tick.
AllowedByTick == op.fresh /\ pending /\ ~opts.dry /\ ~stopping

\* What cycleLocked reads after the reconcile.
Allowed == op.fresh /\ pending /\ ~opts.dry /\ ~stopping /\ ~paused

StartApply ==
  /\ op.pc = "decide"
  /\ Allowed
  /\ op' = [op EXCEPT !.pc = "apply"]
  /\ UNCHANGED <<budget, clock, life, lock, plans, rolledAt, webhook, loop,
                 countdown, pause, sensor, owed, undone>>

\* Opening the lock ends the operation, whoever it was for.
Unlock ==
  /\ lock' = "none" /\ op' = NoOp
  /\ worker' = IF lock = "worker" THEN [worker EXCEPT !.pc = "spacing"] ELSE worker
  /\ loop' = IF lock = "loop" THEN [loop EXCEPT !.pc = "rearm"] ELSE loop

\* Not allowed, or the plan is held because it failed.
Decline ==
  /\ op.pc = "decide"
  /\ Unlock
  /\ UNCHANGED <<budget, clock, life, plans, rolledAt, hook, handler,
                 countdown, pause, sensor, owed, undone>>

\* An apply succeeds, fails and is undone, or fails and cannot be undone.
Apply ==
  /\ op.pc = "apply"
  /\ \/ pending' = FALSE /\ point' = TRUE
     \/ UNCHANGED pending /\ point' \in {point, TRUE}
  /\ Report("done")
  /\ UNCHANGED <<budget, clock, life, lock, rolledAt, webhook, loop, countdown,
                 pause, sensor, owed, undone>>

\* Roll Back restores everything - or not, and then stays possible.
Restore ==
  /\ op.pc = "restore"
  /\ op' = [op EXCEPT !.pc = "stamp"]
  /\ point' = FALSE
  /\ undone' = TRUE
  /\ UNCHANGED <<budget, clock, life, lock, pending, rolledAt, webhook, loop,
                 countdown, pause, sensor, owed>>

RestoreFails ==
  /\ op.pc = "restore"
  /\ Report("done")
  /\ UNCHANGED <<budget, clock, life, lock, plans, rolledAt, webhook, loop,
                 countdown, pause, sensor, owed, undone>>

\* It notes the time, and pauses if the next check could undo it.
Stamp ==
  /\ op.pc = "stamp"
  /\ clock' = clock + 1 /\ rolledAt' = clock'
  /\ owed' = {d \in owed : handler[d].at > rolledAt'}
  /\ IF ~opts.dry \/ opts.capture THEN op' = [op EXCEPT !.pc = "pause"]
                                  ELSE Report("done")
  /\ UNCHANGED <<budget, life, lock, plans, webhook, loop, countdown, pause,
                 sensor, undone>>

OpSend ==
  /\ op.pc = "send"
  /\ Push(op.snap)
  /\ IF op.then = "decide"
     THEN /\ op' = [op EXCEPT !.pc = "decide", !.snap = FALSE]
          /\ UNCHANGED <<lock, worker, loop>>
     ELSE Unlock
  /\ UNCHANGED <<clock, life, plans, rolledAt, hook, handler, countdown, pause,
                 owed, undone>>

-----------------------------------------------------------------------------
(* SetPaused *)

\* A mutant of TakePauseMu: a press does not wait for the other writers.
PauseMuIgnored(w) == pauseMu' = w

TakePauseMu(w) == pauseMu = "none" /\ pauseMu' = w

\* commitPaused sets the flag, ...
SetFlag(w, want) ==
  /\ press[w].pc = "none"
  /\ paused # want
  /\ TakePauseMu(w)
  /\ paused' = want
  /\ countdown' = (countdown /\ ~want)
  /\ press' = [press EXCEPT ![w] = [pc |-> "write", want |-> want, snap |-> FALSE]]

\* Pause or Resume on a page, at any time.  (A press that would change nothing
\* changes nothing.)
Press(w, want) ==
  /\ Spend("press")
  /\ SetFlag(w, want)
  /\ undone' = (undone /\ want)
  /\ UNCHANGED <<clock, life, locks, plans, rolledAt, webhook, loop, file,
                 dirty, sensor, owed>>

\* Roll Back's own SetPaused(true).
PauseAfterRollback ==
  /\ op.pc = "pause"
  /\ SetFlag("rollback", TRUE)
  /\ op' = [op EXCEPT !.pc = "pausing"]
  /\ UNCHANGED <<budget, clock, life, lock, plans, rolledAt, webhook, loop,
                 file, dirty, sensor, owed, undone>>

PausedAlready ==
  /\ op.pc = "pause"
  /\ pauseMu = "none" /\ paused
  /\ Report("done")
  /\ UNCHANGED <<budget, clock, life, lock, plans, rolledAt, webhook, loop,
                 countdown, pause, sensor, owed, undone>>

\* ... then writes or removes the file, both under pauseMu.
WriteFlag(w) ==
  /\ press[w].pc = "write"
  /\ \E ok \in BOOLEAN : /\ Spent("fault", ~ok)
                         /\ file' = IF ok THEN press[w].want ELSE file
                         /\ dirty' = ~ok
  /\ pauseMu' = "none"
  /\ press' = [press EXCEPT ![w].pc = "send", ![w].snap = paused]
  /\ UNCHANGED <<clock, life, locks, plans, rolledAt, webhook, loop, countdown,
                 paused, sensor, owed, undone>>

\* Then, if it was a resume, the loop is woken.
PressSend(w) ==
  /\ press[w].pc = "send"
  /\ Push(press[w].snap)
  /\ press' = [press EXCEPT ![w] = NoPress]
  /\ UNCHANGED <<clock, life, locks, plans, rolledAt, webhook, loop, countdown,
                 paused, file, dirty, pauseMu, owed, undone>>

\* Roll Back goes on when its SetPaused has returned.
PauseDone ==
  /\ op.pc = "pausing"
  /\ press["rollback"].pc = "none"
  /\ Report("done")
  /\ UNCHANGED <<budget, clock, life, lock, plans, rolledAt, webhook, loop,
                 countdown, pause, sensor, owed, undone>>

-----------------------------------------------------------------------------
(* Home Assistant and the process *)

\* Core restarts: it has forgotten the sensor.
CoreRestarts ==
  /\ Spend("core")
  /\ sensor' = FALSE
  /\ UNCHANGED <<clock, life, locks, plans, rolledAt, webhook, loop, countdown,
                 pause, owed, undone>>

\* SIGTERM: the lifetime context is cancelled.
Stop ==
  /\ Spend("stop")
  /\ ~stopping
  /\ stopping' = TRUE
  /\ UNCHANGED <<clock, opts, locks, plans, rolledAt, webhook, loop, countdown,
                 pause, sensor, owed, undone>>

\* A process takes the place of one that has ended, perhaps with other options.
\* Paused, it tells the sensor itself.
NewProcess ==
  /\ opts' \in Options /\ stopping' = FALSE
  /\ lock' = "none" /\ op' = NoOp
  /\ pending' = FALSE /\ rolledAt' = 0
  /\ hook' = EmptySlot /\ worker' = Waiting
  /\ handler' = [d \in Deliveries |->
                   IF handler[d].pc = "none" THEN NoHandler
                   ELSE [pc |-> "answered", at |-> 0]]
  /\ loop' = ATick /\ countdown' = FALSE
  /\ paused' = file /\ dirty' = FALSE
  /\ pauseMu' = "none" /\ press' = [w \in Pressers |-> NoPress]
  /\ sensor' \in {sensor, sensor \/ file}
  /\ owed' = {} /\ undone' = (undone /\ file)
  /\ UNCHANGED <<clock, point, file>>

\* After SIGTERM the process ends when it is idle or its grace is over.
Exit == stopping /\ NewProcess /\ UNCHANGED budget

\* It may also be killed at any point.
Crash == ~stopping /\ NewProcess /\ Spend("stop")

-----------------------------------------------------------------------------
(* The specification *)

HandlerStep(d) == Record(d) \/ Wake(d)
Sync == SyncNow \/ Drop
WorkerStep == Receive \/ Take \/ EndSpacing
LoopStep == \/ Alarm \/ Tick \/ RetryNothing \/ RetryBegin \/ RetryWrite
            \/ LoopSend \/ TryCycle \/ Rearm
OpStep == \/ Fetch \/ StartApply \/ Decline \/ Apply \/ Restore \/ RestoreFails
          \/ Stamp \/ OpSend
          \/ PauseAfterRollback \/ PausedAlready \/ PauseDone
PressStep(w) == WriteFlag(w) \/ PressSend(w)
Button == CheckNow \/ ApplyNow \/ RollBack

Next ==
  \/ \E d \in Deliveries : Accept(d) \/ HandlerStep(d)
  \/ WorkerStep \/ Sync \/ LoopStep \/ OpStep \/ Button
  \/ \E w \in Pages, want \in BOOLEAN : Press(w, want)
  \/ \E w \in Pressers : PressStep(w)
  \/ CoreRestarts \/ Stop \/ Exit \/ Crash

Spec == Init /\ [][Next]_vars

\* Every goroutine is scheduled, every call in an operation has a timeout, the
\* timer comes round, and a mutex is not kept from a waiter for ever.  Nobody
\* has to press, deliver or stop.
Fairness ==
  /\ \A d \in Deliveries : WF_vars(HandlerStep(d))
  /\ WF_vars(WorkerStep) /\ SF_vars(Sync)
  /\ WF_vars(LoopStep) /\ WF_vars(OpStep)
  /\ \A w \in Pressers : WF_vars(PressStep(w))
  /\ WF_vars(Exit)
FairSpec == Spec /\ Fairness

-----------------------------------------------------------------------------
(* The promise of GitOpsAgent.  What the operation is at can be read off its
   program counter; a check that did not reach the remote, and one nobody may
   act upon, has only its end before it. *)

Undecided == op.pc = "decide" \/ (op.pc = "send" /\ op.then = "decide")

Doing ==
  CASE op.pc = "none" -> "nothing"
    [] op.pc = "fetch" -> "checking"
    [] Undecided -> IF op.fresh THEN "checked" ELSE "ending"
    [] op.pc = "send" /\ ~Undecided -> "ending"
    [] op.pc = "apply" -> "applying"
    [] OTHER -> "rolling back"

Agent == INSTANCE GitOpsAgent
           WITH Nobody <- "none", doing <- Doing, by <- lock, stands <- undone, recorded <- file

\* One operation at a time; unattended, nothing but the plan of a check that has
\* just reached the remote is applied; and once a Roll Back has restored the
\* files nothing is, by the timer, a cycle that was already due or a webhook,
\* until somebody resumes.  What a new process forgets of that is what the flag
\* file does not hold.
KeepsThePromise == Agent!Spec

-----------------------------------------------------------------------------
(* Properties *)

\* Every variable has its type; an operation is under way exactly when opLock
\* is held, for the worker and the loop exactly while they are in it; pauseMu
\* is held exactly by whoever writes the flag file.
ValuesOK ==
  /\ budget \in [Events -> Nat] /\ clock \in Nat
  /\ opts \in Options /\ stopping \in BOOLEAN
  /\ pending \in BOOLEAN /\ point \in BOOLEAN /\ rolledAt \in Nat
  /\ countdown \in BOOLEAN /\ sensor \in BOOLEAN
  /\ paused \in BOOLEAN /\ file \in BOOLEAN /\ dirty \in BOOLEAN
  /\ owed \subseteq Deliveries /\ undone \in BOOLEAN

WebhookOK ==
  /\ hook \in [ready : BOOLEAN, at : Nat]
  /\ handler \in [Deliveries -> [pc : {"none", "accepted", "recorded", "answered"},
                                 at : Nat]]

LockOK ==
  /\ lock \in {"none", "loop", "worker", "check", "apply", "rollback"}
  /\ op \in [pc : {"none", "fetch", "decide", "apply", "restore", "stamp", "pause",
                   "pausing", "send"},
             then : {"decide", "done"}, fresh : BOOLEAN, snap : BOOLEAN]
  /\ op.pc = "none" <=> lock = "none"

LoopsOK ==
  /\ worker \in [pc : {"waiting", "woken", "asking", "cycling", "spacing"}, at : Nat]
  /\ loop \in [pc : {"sleep", "tick", "retry", "write", "send", "try",
                     "cycling", "rearm"}, val : BOOLEAN]
  /\ worker.pc = "cycling" <=> lock = "worker"
  /\ loop.pc = "cycling" <=> lock = "loop"

PauseMuOK ==
  /\ pauseMu \in Pressers \cup {"none", "loop"}
  /\ press \in [Pressers -> [pc : {"none", "write", "send"},
                             want : BOOLEAN, snap : BOOLEAN]]
  /\ loop.pc = "write" <=> pauseMu = "loop"
  /\ \A w \in Pressers : press[w].pc = "write" <=> pauseMu = w

TypeOK == ValuesOK /\ WebhookOK /\ LockOK /\ LoopsOK /\ PauseMuOK

\* Whenever nobody is writing it, the flag file says what the flag says, or
\* the agent knows that it does not and a paused tick will try again: a pause
\* is never lost over a restart unnoticed.
PauseIsRecorded ==
  (\A w \in Pressers : press[w].pc # "write") /\ loop.pc # "write" =>
    (file = paused \/ dirty)

\* While the agent is paused the page counts down to nothing, also when the
\* pause came in the middle of a cycle.
NoCountdownWhilePaused == paused => ~countdown

\* Once a Roll Back has restored the files, nothing is applied unattended - by
\* the timer, by a cycle that was already due, or by a webhook - until
\* somebody presses Resume.  (Over a restart this is as good as the flag file;
\* before the flag is set it is the lock that protects it.)
RollbackStands == op.pc = "apply" /\ lock \in Unattended => ~undone

\* A delivery answered 202 is served: the worker runs a cycle that fetches
\* after it, however it falls between the steps of the worker and of whatever
\* holds the lock - unless a Roll Back finished after it or the process ended.
DeliveryIsServed == []<>(owed = {})

\* Whatever order the pushes of a press, a tick and a cycle arrive in, and
\* even if Core forgets it, the sensor ends up saying whether the agent is
\* paused once nobody presses Pause or Resume any more.
SensorSettles == <>[](sensor = paused)

\* A delivery accepted before a Roll Back finished starts no cycle after it
\* ("a cycle for a delivery that arrived before a Roll Back finished is
\* dropped", DOCS.md): the worker only starts one for a newer delivery.
OvertakenIsDropped ==
  [][worker.pc = "asking" /\ worker'.pc = "cycling" /\ rolledAt # 0 =>
       \E d \in Deliveries : handler[d].at > rolledAt]_vars

=============================================================================
