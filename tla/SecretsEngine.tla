---------------------------- MODULE SecretsEngine ----------------------------
(***************************************************************************)
(* The sync cycle of the 1Password Secrets add-on                          *)
(* (onepassword_secrets/internal/engine): values read from 1Password are   *)
(* written into the secrets files, then every consumer of a changed key    *)
(* is made to pick the new value up, and a change that does not apply is   *)
(* rolled back.  The change in flight is recorded in state.json before     *)
(* the first byte is written, so a crash resumes it.                       *)
(*                                                                         *)
(* One action per call that another actor can observe or that a crash can  *)
(* separate: a Save of state.json, a file write, an HTTP request to Home   *)
(* Assistant.  runMu admits one cycle (or panel restart) at a time, so the *)
(* engine is one sequential process, pc; the environment (the vault, Home  *)
(* Assistant Core, the add-ons, Supervisor stopping this add-on, failing   *)
(* writes) interleaves with every step of it.                              *)
(***************************************************************************)
EXTENDS Naturals

CONSTANTS
  Keys,         \* the secret keys
  HandKeys,     \* keys only ever written by hand: 1Password has no such field
  Values,       \* the values a key can take
  NoVal,        \* the key is absent
  Conflict,     \* two 1Password fields carry the key's label
  Files,        \* the secrets_files option
  Root,         \* secrets.yaml, always one of them
  Domains,      \* Home Assistant integrations configured in YAML
  Addons,       \* other add-ons
  Uses,         \* consumer -> the file it reads and the keys it uses there
  Reloadable,   \* the integrations offering a reload service
  None,         \* no change, no copy
  Modes,        \* the options the owner chooses from at a start of the add-on
  Budget        \* how often each bounded event happens

Consumers == Domains \cup Addons
Vals == Values \cup {NoVal}

\* The bounded events: an edit in 1Password, an edit of a secrets file by
\* hand, a failing write or request of ours, a stop or crash of this add-on,
\* a Core restart from elsewhere, an add-on stopped or started by the owner.
\* There is also a bound on how many of any kind.
Events == {"edit", "hand", "fault", "stop", "outside", "addon", "any"}

ASSUME ConstantsAssumption ==
  /\ HandKeys \subseteq Keys
  /\ NoVal \notin Values
  /\ Conflict \notin Values \cup {NoVal}
  /\ Root \in Files
  /\ Domains \cap Addons = {}
  /\ Reloadable \subseteq Domains
  /\ Uses \in [Consumers -> [file : Files, keys : SUBSET (Keys \ HandKeys)]]
  /\ Modes \subseteq {"auto", "notify", "dry"} \* core_restart, or dry_run
  /\ Budget \in [Events -> Nat]

VARIABLES
  \* outside
  vault,     \* [Keys -> what 1Password holds]
  granted,   \* the access token sees the vault
  core,      \* "up" or "down": does Home Assistant Core answer
  sensor,    \* Core holds this add-on's pushed sensor
  running,   \* [Consumers -> the values each last read]
  addonUp,   \* the add-ons that run
  mode,      \* the options this process started with
  stopping,  \* the process got SIGTERM: its context is cancelled
  budget,    \* [Events -> how many more of each may happen]
  \* durable
  file,      \* [Files -> content of the secrets file]
  prev,      \* [Files -> its copy under /data/previous, or None]
  disk,      \* state.json
  \* in memory
  st,        \* e.st, the state state.json is saved from
  pc,        \* where the cycle is
  job,       \* what the cycle planned for each file, or None
  p,         \* the PendingRefresh in hand, or None
  resumed,   \* p is a change an earlier process left
  work,      \* what the loops of the cycle have left and have done
  cache,     \* what is known of the add-ons, and whether the sensor was pushed
  \* history, read by no action
  lost,      \* consumers whose refresh was given up
  refused,   \* the change that was rolled back, until Sync now or an edit
  origin     \* what the change in flight found in the files and the state

outside == <<vault, granted, core, sensor, running, addonUp, mode, stopping>>
cycle == <<job, p, resumed, work>>
history == <<lost, refused, origin>>
vars == <<outside, budget, file, prev, disk, st, pc, cycle, cache, history>>

-----------------------------------------------------------------------------
(* Data *)

Content == [exists : BOOLEAN, header : BOOLEAN, val : [Keys -> Vals]]
NoFile == [exists |-> FALSE, header |-> FALSE, val |-> [k \in Keys |-> NoVal]]

\* A value a change moves: file, key, the value it gets.
Moves == Files \X Keys \X Vals

Change == [changed  : [Files -> SUBSET Keys], \* keys whose value moves
           files    : SUBSET Files,           \* Written
           existed  : SUBSET Files,
           stage    : {"all", "addons"},
           sig      : SUBSET Moves,
           before   : [Files -> SUBSET Keys]]

State == [managed : [Files -> SUBSET Keys],
          waiting : SUBSET Domains,           \* RestartPending
          pending : Change \cup {None},
          held    : SUBSET Moves]

Job == [cur : [Files -> Content], new : [Files -> Content],
        managed : [Files -> SUBSET Keys]]

Work == [left : SUBSET Files, kept : SUBSET Files, written : SUBSET Files,
         reload : SUBSET Domains, restart : SUBSET Domains,
         addons : SUBSET Addons, why : {"none", "write", "check", "restart"}]
NoWork == [left |-> {}, kept |-> {}, written |-> {}, reload |-> {},
           restart |-> {}, addons |-> {}, why |-> "none"]

Cache == [known : SUBSET Addons, seen : SUBSET Addons,
          loaded : BOOLEAN, published : BOOLEAN]
NoCache == [known |-> {}, seen |-> {}, loaded |-> FALSE, published |-> FALSE]

Origin == [file : [Files -> Content], managed : [Files -> SUBSET Keys],
           copied : SUBSET Files, failed : SUBSET Files]

ASSUME NoneAssumption ==
  None \notin Change /\ None \notin Content /\ None \notin Origin

\* What consumer c reads when it (re)loads: its keys, out of its file.
Reads(c, f) == [k \in Keys |-> IF k \in Uses[c].keys THEN f[Uses[c].file].val[k]
                                                     ELSE NoVal]
Stale(c) == running[c] # Reads(c, file)

\* consumersOf: a reference is refreshed only when its key changed in the
\* file it reads.
Affected(changed, C) == {c \in C : Uses[c].keys \cap changed[Uses[c].file] # {}}

Spend(e) == /\ budget[e] > 0 /\ budget["any"] > 0
            /\ budget' = [budget EXCEPT ![e] = @ - 1, !["any"] = @ - 1]

\* Save writes the state atomically or leaves the old file.
SaveOK(s) == st' = s /\ disk' = s /\ UNCHANGED budget
SaveFails(s) == st' = s /\ Spend("fault") /\ UNCHANGED disk
Save(s) == SaveOK(s) \/ SaveFails(s)

\* The end of a cycle, in error or not: only the status is left to publish.
EndCycle == /\ pc' = "publish"
            /\ job' = None /\ p' = None /\ resumed' = FALSE /\ work' = NoWork

\* What the change found is of interest until the change is over.
KeepOrigin == origin' = IF st'.pending = None THEN None ELSE origin

\* Start undoing the writes of fs.
StartUndo(fs, why) ==
  /\ pc' = "undo"
  /\ work' = [NoWork EXCEPT !.left = fs, !.why = why]
  /\ UNCHANGED <<job, p, resumed>>

-----------------------------------------------------------------------------
(* Initial states: a fresh installation, over a secrets.yaml the owner may *)
(* have written by hand.                                                   *)

EmptyState == [managed |-> [f \in Files |-> {}], waiting |-> {},
               pending |-> None, held |-> {}]

HandWritten(vs) == [exists |-> TRUE, header |-> FALSE, val |-> vs]

Init ==
  /\ vault \in [Keys -> Vals] /\ \A k \in HandKeys : vault[k] = NoVal
  /\ granted = TRUE
  /\ \/ file = [f \in Files |-> NoFile]
     \/ \E vs \in [Keys -> Vals] :
          file = [f \in Files |-> IF f = Root THEN HandWritten(vs) ELSE NoFile]
  /\ core = "up" /\ sensor = FALSE /\ addonUp \in SUBSET Addons
  /\ running = [c \in Consumers |-> Reads(c, file)]
  /\ mode \in Modes /\ stopping = FALSE /\ budget = Budget
  /\ prev = [f \in Files |-> None]
  /\ disk = EmptyState /\ st = EmptyState
  /\ pc = "idle" /\ job = None /\ p = None /\ resumed = FALSE
  /\ work = NoWork /\ cache = NoCache
  /\ lost = {} /\ refused = {} /\ origin = None

-----------------------------------------------------------------------------
(* Planning *)

\* A key of f some configuration refers to, when the options of the add-ons
\* in known were read.  Only secrets.yaml is read through add-on options.
Referenced(f, known) ==
  UNION {Uses[c].keys : c \in {c \in Consumers :
           Uses[c].file = f /\ (c \in Addons /\ f = Root => c \in known)}}

\* secrets.yaml gets every key, another file what is referred to in it.
Desired(f, view, known) ==
  {k \in Keys : view[k] \in Values /\ (f = Root \/ k \in Referenced(f, known))}

\* A conflicted key keeps its last value; and unless the cycle saw every
\* vault and the add-ons' options, a key it does not see is not known to be
\* gone.
Kept(f, view, known, pruneSafe) ==
  {k \in st.managed[f] : \/ view[k] = Conflict
                         \/ ~pruneSafe /\ k \notin Desired(f, view, known)}

Untouched(f, view, known) ==
  ~file[f].exists /\ Desired(f, view, known) = {}

\* Mutant: a key gone from 1Password goes, whoever uses it.
RenderedPruning(f, view, known, pruneSafe) ==
  [exists |-> TRUE, header |-> TRUE,
   val |-> [k \in Keys |->
     IF k \in Desired(f, view, known) THEN view[k]
     ELSE IF k \notin st.managed[f] \/ k \in Kept(f, view, known, pruneSafe)
          THEN file[f].val[k] ELSE NoVal]]

\* render.Render: desired keys get their value, a kept, referenced or
\* hand-written key stays, any other key this add-on wrote goes.
Rendered(f, view, known, pruneSafe) ==
  IF Untouched(f, view, known) THEN file[f]
  ELSE [exists |-> TRUE, header |-> TRUE,
        val |-> [k \in Keys |->
          IF k \in Desired(f, view, known) THEN view[k]
          ELSE IF \/ k \notin st.managed[f]
                  \/ k \in Kept(f, view, known, pruneSafe)
                  \/ k \in Referenced(f, known)
               THEN file[f].val[k] ELSE NoVal]]

\* The keys f is remembered to hold from 1Password after the write.
Managed(f, view, known, pruneSafe) ==
  IF Untouched(f, view, known) THEN st.managed[f]
  ELSE Desired(f, view, known) \cup Kept(f, view, known, pruneSafe) \cup
       {k \in st.managed[f] : k \in Referenced(f, known) /\ file[f].val[k] # NoVal}

\* addonRefsCached: the cached answer within its lifetime, a fresh list (an
\* add-on whose options cannot be read is skipped), or a failed listing.
RefreshAddonRefs ==
  \/ cache.loaded /\ UNCHANGED <<cache, budget>>
  \/ /\ cache' = [cache EXCEPT !.known = Addons, !.seen = addonUp, !.loaded = TRUE]
     /\ UNCHANGED budget
  \/ /\ Spend("fault")
     /\ \/ \E K \in SUBSET Addons :
             cache' = [cache EXCEPT !.known = K, !.seen = addonUp, !.loaded = TRUE]
        \/ UNCHANGED cache

\* SyncOnce up to the plan: 1Password answered (a vault the token cannot see
\* is missing from the answer), the add-ons' options are read, and every file
\* is rendered from its current content.
StartCycle ==
  /\ pc = "idle" /\ ~stopping
  /\ RefreshAddonRefs
  /\ LET view == [k \in Keys |-> IF granted THEN vault[k] ELSE NoVal]
         safe == cache'.loaded /\ granted
     IN job' = [cur |-> file,
                new |-> [f \in Files |-> Rendered(f, view, cache'.known, safe)],
                managed |-> [f \in Files |-> Managed(f, view, cache'.known, safe)]]
  /\ pc' = "planned"
  /\ UNCHANGED <<outside, file, prev, disk, st, p, resumed, work, history>>

\* Connect does not answer, or an item or the configuration cannot be read:
\* nothing is planned, a pending change is not resumed.
FetchFails ==
  /\ pc = "idle" /\ ~stopping /\ Spend("fault")
  /\ EndCycle
  /\ UNCHANGED <<outside, file, prev, disk, st, cache, history>>

\* dry_run: the plan is only shown.
DryRun ==
  /\ pc = "planned" /\ mode = "dry"
  /\ EndCycle
  /\ UNCHANGED <<outside, budget, file, prev, disk, st, cache, history>>

-----------------------------------------------------------------------------
(* Writing *)

\* touchedKeys: the keys whose value the plan moves in f.
Touched(f) == {k \in Keys : job.new[f].val[k] # job.cur[f].val[k]}
Todo == {f \in Files : job.new[f] # job.cur[f]}
Signature == {<<x[1], x[2], job.new[x[1]].val[x[2]]>> :
                x \in {x \in Files \X Keys : x[2] \in Touched(x[1])}}

NewChange == [changed |-> [f \in Files |-> Touched(f)],
              files   |-> Todo,
              existed |-> {f \in Todo : job.cur[f].exists},
              stage   |-> "all", sig |-> Signature, before |-> st.managed]

\* The change about to be made is the one that was rolled back: write leaves.
HeldBack ==
  /\ pc = "planned" /\ mode # "dry" /\ st.pending = None
  /\ Signature # {} /\ Signature = st.held
  /\ EndCycle
  /\ UNCHANGED <<outside, budget, file, prev, disk, st, cache, history>>

\* Mutant: the change is saved as pending only in memory.
BeginWriteUnsaved ==
  /\ pc = "planned" /\ mode # "dry" /\ st.pending = None
  /\ Signature = {} \/ Signature # st.held
  /\ st' = IF Signature = {} THEN st ELSE [st EXCEPT !.pending = NewChange]
  /\ pc' = "write" /\ p' = NewChange
  /\ work' = [NoWork EXCEPT !.left = Todo]
  /\ origin' = [file |-> file, managed |-> st.managed,
                 copied |-> {}, failed |-> {}]
  /\ UNCHANGED <<job, resumed, disk, budget>>
  /\ UNCHANGED <<outside, file, prev, cache, lost, refused>>

\* Mutant: a change that was held back is written all the same.
BeginWriteRetrying ==
  /\ pc = "planned" /\ mode # "dry" /\ st.pending = None
  /\ IF Signature = {} THEN UNCHANGED <<st, disk, budget>>
                       ELSE SaveOK([st EXCEPT !.pending = NewChange])
  /\ pc' = "write" /\ p' = NewChange
  /\ work' = [NoWork EXCEPT !.left = Todo]
  /\ origin' = [file |-> file, managed |-> st.managed,
                 copied |-> {}, failed |-> {}]
  /\ UNCHANGED <<job, resumed>>
  /\ UNCHANGED <<outside, file, prev, cache, lost, refused>>

\* write up to the first file: a change that moves a value is saved as
\* pending first; without that Save nothing is written.
BeginWrite ==
  /\ pc = "planned" /\ mode # "dry" /\ st.pending = None
  /\ Signature = {} \/ Signature # st.held
  /\ \/ /\ IF Signature = {} THEN UNCHANGED <<st, disk, budget>>
                             ELSE SaveOK([st EXCEPT !.pending = NewChange])
        /\ pc' = "write" /\ p' = NewChange
        /\ work' = [NoWork EXCEPT !.left = Todo]
        /\ origin' = [file |-> file, managed |-> st.managed,
                       copied |-> {}, failed |-> {}]
        /\ UNCHANGED <<job, resumed>>
     \/ /\ Signature # {} /\ Spend("fault") /\ UNCHANGED <<st, disk, origin>>
        /\ EndCycle
  /\ UNCHANGED <<outside, file, prev, cache, lost, refused>>

\* The files are written in the order of the option, secrets.yaml first.
IsNext(f) == f \in work.left /\ (Root \in work.left => f = Root)

\* Copy what the plan read from f to /data/previous.
KeepPrevious(f) ==
  /\ pc = "write" /\ IsNext(f) /\ f \notin work.kept
  /\ \/ /\ prev' = [prev EXCEPT ![f] = IF job.cur[f].exists THEN job.cur[f] ELSE @]
        /\ work' = [work EXCEPT !.kept = @ \cup {f}]
        /\ origin' = [origin EXCEPT !.copied = @ \cup {f}]
        /\ UNCHANGED <<pc, job, p, resumed, budget>>
     \/ /\ job.cur[f].exists /\ Spend("fault")
        /\ StartUndo(work.written, "write")
        /\ UNCHANGED <<prev, origin>>
  /\ UNCHANGED <<outside, file, disk, st, cache, lost, refused>>

WriteFile(f) ==
  /\ pc = "write" /\ IsNext(f) /\ f \in work.kept
  /\ \/ /\ file' = [file EXCEPT ![f] = job.new[f]]
        /\ work' = [work EXCEPT !.left = @ \ {f}, !.written = @ \cup {f}]
        /\ UNCHANGED <<pc, job, p, resumed, budget>>
     \/ /\ Spend("fault") /\ UNCHANGED file
        /\ StartUndo(work.written \cup {f}, "write")
  /\ UNCHANGED <<outside, prev, disk, st, cache, history>>

\* Every file is written: remember what they hold, then refresh the
\* consumers.  A rewrite that moved no value (the header) has none.
Remember ==
  /\ pc = "write" /\ work.left = {}
  /\ LET s == [st EXCEPT !.managed = job.managed]
     IN \/ /\ SaveOK(s)
           /\ IF p.sig = {}
              THEN /\ EndCycle
                   /\ prev' = [f \in Files |-> IF f \in p.existed THEN None ELSE prev[f]]
              ELSE pc' = "check" /\ UNCHANGED <<prev, cycle>>
           /\ KeepOrigin
        \/ /\ SaveFails(s) /\ StartUndo(work.written, "write")
           /\ UNCHANGED <<prev, origin>>
  /\ UNCHANGED <<outside, file, cache, lost, refused>>

\* resumePending: finish the change an earlier process left.
Resume ==
  /\ pc = "planned" /\ mode # "dry" /\ st.pending # None
  /\ p' = st.pending /\ resumed' = TRUE
  /\ pc' = IF st.pending.stage = "addons" THEN "addons" ELSE "check"
  /\ UNCHANGED <<outside, budget, file, prev, disk, st, job, work, cache, history>>

-----------------------------------------------------------------------------
(* Rolling back *)

\* Mutant: a file is restored from its copy without looking whether it is there.
RestoreFileBlindly(f) ==
  /\ pc = "undo" /\ f \in work.left
  /\ work' = [work EXCEPT !.left = @ \ {f}]
  /\ file' = [file EXCEPT ![f] = IF f \in p.existed THEN prev[f] ELSE NoFile]
  /\ prev' = [prev EXCEPT ![f] = None]
  /\ UNCHANGED <<outside, budget, disk, st, pc, job, p, resumed, cache, history>>

\* rollback, one file at a time: a new file is removed, another restored from
\* its copy; a copy that is gone, or a restore that fails, leaves the file.  A
\* consumer that had picked up what is undone is given up: nothing refreshes it.
RestoreFile(f) ==
  /\ pc = "undo" /\ f \in work.left
  /\ work' = [work EXCEPT !.left = @ \ {f}]
  /\ \/ /\ f \notin p.existed
        /\ file' = [file EXCEPT ![f] = NoFile] /\ UNCHANGED <<prev, budget, origin>>
     \/ /\ f \in p.existed /\ prev[f] # None
        /\ file' = [file EXCEPT ![f] = prev[f]]
        /\ prev' = [prev EXCEPT ![f] = None] /\ UNCHANGED <<budget, origin>>
     \/ /\ f \in p.existed /\ prev[f] = None
        /\ UNCHANGED <<file, prev, budget, origin>>
     \/ /\ Spend("fault") /\ UNCHANGED <<file, prev>>
        /\ origin' = IF origin = None THEN None
                     ELSE [origin EXCEPT !.failed = @ \cup {f}]
  /\ lost' = lost \cup {c \in Consumers : ~Stale(c) /\ running[c] # Reads(c, file')}
  /\ UNCHANGED <<outside, disk, st, pc, job, p, resumed, cache, refused>>

\* Mutant: the files are restored, the memory of them is not.
UndoStateForgetting ==
  /\ pc = "undo" /\ work.left = {}
  /\ Save([st EXCEPT !.pending = None])
  /\ lost' = lost \cup {c \in Consumers : Stale(c) /\ c \notin st.waiting}
  /\ KeepOrigin
  /\ IF work.why = "write" THEN EndCycle ELSE pc' = "hold" /\ UNCHANGED cycle
  /\ UNCHANGED <<outside, file, prev, cache, refused>>

\* ... then the memory of them: with it goes what was known of the consumers
\* still to be refreshed.
UndoState ==
  /\ pc = "undo" /\ work.left = {}
  /\ Save([st EXCEPT !.managed = p.before, !.pending = None])
  /\ lost' = lost \cup {c \in Consumers : Stale(c) /\ c \notin st.waiting}
  /\ KeepOrigin
  /\ IF work.why = "write" THEN EndCycle ELSE pc' = "hold" /\ UNCHANGED cycle
  /\ UNCHANGED <<outside, file, prev, cache, refused>>

\* Mutant: the change is held back in memory only.
HoldBackUnsaved ==
  /\ pc = "hold"
  /\ st' = [st EXCEPT !.held = p.sig] /\ refused' = p.sig
  /\ IF work.why = "restart" THEN pc' = "again" /\ UNCHANGED cycle ELSE EndCycle
  /\ UNCHANGED <<outside, budget, file, prev, disk, cache, lost, origin>>

\* holdBack: this change takes the place of what was held back before, in memory
\* even if not in state.json; a failed restart is followed by one with the
\* previous values.
HoldBack ==
  /\ pc = "hold"
  /\ \/ SaveOK([st EXCEPT !.held = p.sig]) /\ refused' = p.sig
     \/ SaveFails([st EXCEPT !.held = p.sig]) /\ refused' = {}
  /\ IF work.why = "restart" THEN pc' = "again" /\ UNCHANGED cycle ELSE EndCycle
  /\ UNCHANGED <<outside, file, prev, cache, lost, origin>>

-----------------------------------------------------------------------------
(* Refreshing the consumers *)

WhoDomains == Affected(p.changed, Domains)

\* An add-on is found by the options that could be read, or, for a file in its
\* own directory, by its name in the list of add-ons.
WhoAddons == Affected(p.changed, {a \in Addons :
               IF Uses[a].file = Root THEN a \in cache.known ELSE cache.loaded})

\* Mutant: only what this process wrote is undone, not what an earlier one did.
RejectedForgetting(why) == StartUndo(work.written, why)

Rejected(why) == StartUndo(p.files, why)

\* check_config, then the list of services: none when it cannot be read.  Core
\* down, or our context cancelled, is an answer like any other: not valid.
CheckConfig ==
  /\ pc = "check"
  /\ \/ /\ WhoDomains = {}
        /\ pc' = "stage" /\ UNCHANGED cycle
     \/ /\ WhoDomains # {} /\ core = "up" /\ ~stopping
        /\ \E offered \in {Reloadable, {}} :
             work' = [NoWork EXCEPT !.reload = WhoDomains \cap offered,
                                    !.restart = WhoDomains \ offered]
        /\ pc' = "reload" /\ UNCHANGED <<job, p, resumed>>
     \/ WhoDomains # {} /\ Rejected("check")
  /\ UNCHANGED <<outside, budget, file, prev, disk, st, cache, history>>

\* Call d's reload service; on an error d waits for a restart.
Reload(d) ==
  /\ pc = "reload" /\ d \in work.reload
  /\ \/ /\ core = "up" /\ ~stopping
        /\ running' = [running EXCEPT ![d] = Reads(d, file)]
        /\ work' = [work EXCEPT !.reload = @ \ {d}]
     \/ /\ work' = [work EXCEPT !.reload = @ \ {d}, !.restart = @ \cup {d}]
        /\ UNCHANGED running
  /\ UNCHANGED <<vault, granted, core, sensor, addonUp, mode, stopping>>
  /\ UNCHANGED <<budget, file, prev, disk, st, pc, job, p, resumed, cache, history>>

\* Every reload is done: restart Core for the rest, or leave that to the owner.
ReloadsDone ==
  /\ pc = "reload" /\ work.reload = {}
  /\ \/ work.restart = {} /\ pc' = "stage" /\ UNCHANGED <<st, disk, budget>>
     \/ /\ work.restart # {} /\ mode = "auto"
        /\ pc' = "guard" /\ UNCHANGED <<st, disk, budget>>
     \/ /\ work.restart # {} /\ mode # "auto"
        /\ Save([st EXCEPT !.waiting = @ \cup work.restart]) /\ pc' = "stage"
  /\ UNCHANGED <<outside, file, prev, cycle, cache, history>>

\* guardedRestart checks the configuration once more.
GuardRestart ==
  /\ pc = "guard"
  /\ \/ core = "up" /\ ~stopping /\ pc' = "restart" /\ UNCHANGED cycle
     \/ Rejected("check")
  /\ UNCHANGED <<outside, budget, file, prev, disk, st, cache, history>>

\* The restart did not work: the first one rolls the change back, the one with
\* the previous values ends the cycle, the panel's ends the request.
GiveUpRestart ==
  CASE pc \in {"restart", "waitUp"} -> Rejected("restart")
    [] pc \in {"again", "waitAgain"} -> EndCycle
    [] pc \in {"panel", "waitPanel"} -> pc' = "idle" /\ UNCHANGED cycle

\* restartAndWait's first half: Core goes down, or the call is refused or Core
\* is never seen down.
RestartCore ==
  /\ pc \in {"restart", "again", "panel"}
  /\ \/ /\ ~stopping /\ core' = "down"
        /\ pc' = CASE pc = "restart" -> "waitUp"
                   [] pc = "again" -> "waitAgain"
                   [] pc = "panel" -> "waitPanel"
        /\ UNCHANGED cycle
     \/ UNCHANGED core /\ GiveUpRestart
  /\ UNCHANGED <<vault, granted, sensor, running, addonUp, mode, stopping>>
  /\ UNCHANGED <<budget, file, prev, disk, st, cache, history>>

\* ... and its second half: Core answers again, or not in time.
AwaitCore ==
  /\ pc \in {"waitUp", "waitAgain", "waitPanel"}
  /\ \/ /\ core = "up" /\ ~stopping
        /\ IF pc = "waitAgain" \/ st.waiting = {} THEN UNCHANGED <<st, disk, budget>>
                                                  ELSE Save([st EXCEPT !.waiting = {}])
        /\ CASE pc = "waitUp" -> pc' = "stage" /\ UNCHANGED cycle
             [] pc = "waitAgain" -> EndCycle
             [] pc = "waitPanel" -> pc' = "idle" /\ UNCHANGED cycle
     \/ /\ core = "down" \/ stopping
        /\ GiveUpRestart /\ UNCHANGED <<st, disk, budget>>
  /\ UNCHANGED <<outside, file, prev, cache, history>>

\* Mutant: the change counts as done before the add-ons had their turn.
SaveStageDone ==
  /\ pc = "stage"
  /\ p' = [p EXCEPT !.stage = "addons"]
  /\ Save([st EXCEPT !.pending = None])
  /\ pc' = "addons"
  /\ UNCHANGED <<outside, file, prev, job, resumed, work, cache, history>>

\* Reloads and the Core restart are done; remember that.
SaveStage ==
  /\ pc = "stage"
  /\ p' = [p EXCEPT !.stage = "addons"]
  /\ Save([st EXCEPT !.pending = p'])
  /\ pc' = "addons"
  /\ UNCHANGED <<outside, file, prev, job, resumed, work, cache, history>>

\* Supervisor's cache of secrets.yaml has to expire first; a stop in that wait
\* ends the cycle with the change still pending.
AwaitSupervisor ==
  /\ pc = "addons"
  /\ \/ /\ WhoAddons # {} /\ stopping /\ EndCycle
        /\ UNCHANGED lost
     \/ /\ WhoAddons = {} \/ ~stopping
        /\ pc' = "finish" /\ work' = [NoWork EXCEPT !.addons = WhoAddons]
        /\ lost' = lost \cup (Affected(p.changed, Addons) \ WhoAddons)
        /\ UNCHANGED <<job, p, resumed>>
  /\ UNCHANGED <<outside, budget, file, prev, disk, st, cache, refused, origin>>

\* An add-on the cached list shows running is restarted; a failure is only
\* recorded, and an add-on that started since the list was read is passed over.
RestartAddon(a) ==
  /\ pc = "finish" /\ a \in work.addons
  /\ work' = [work EXCEPT !.addons = @ \ {a}]
  /\ \/ /\ a \in cache.seen /\ ~stopping
        /\ running' = [running EXCEPT ![a] = Reads(a, file)]
        /\ addonUp' = addonUp \cup {a}
        /\ UNCHANGED <<budget, lost>>
     \/ /\ lost' = lost \cup {a} /\ UNCHANGED <<running, addonUp>>
        /\ a \notin cache.seen \/ stopping
        /\ UNCHANGED budget
     \/ /\ a \in cache.seen /\ ~stopping /\ Spend("fault")
        /\ lost' = lost \cup {a} /\ UNCHANGED <<running, addonUp>>
  /\ UNCHANGED <<vault, granted, core, sensor, mode, stopping>>
  /\ UNCHANGED <<file, prev, disk, st, pc, job, p, resumed, cache, refused, origin>>

\* Every consumer had its turn: the copies go and the change is no longer
\* pending.  After a resumed change the cycle goes on with its own.
Finish ==
  /\ pc = "finish" /\ work.addons = {}
  /\ prev' = [f \in Files |-> IF f \in p.existed THEN None ELSE prev[f]]
  /\ Save([st EXCEPT !.pending = None])
  /\ IF resumed
     THEN /\ pc' = "planned" /\ resumed' = FALSE /\ p' = None /\ work' = NoWork
          /\ UNCHANGED job
     ELSE EndCycle
  /\ KeepOrigin
  /\ UNCHANGED <<outside, file, cache, lost, refused>>

-----------------------------------------------------------------------------
(* Publishing, the panel, stopping *)

\* noticeOutsideRestart: our sensor missing from Core is taken to mean that a
\* restart from elsewhere has applied what was waiting.
SensorGone == /\ st.waiting # {} /\ cache.published /\ ~sensor
              /\ core = "up" /\ ~stopping

\* publish: an unchanged status is pushed again only every sensorRefresh, and
\* either request may fail.
Publish ==
  /\ pc = "publish" /\ pc' = "idle"
  /\ \/ /\ SensorGone
        /\ Save([st EXCEPT !.waiting = {}])
        /\ lost' = lost \cup {d \in st.waiting : Stale(d)}
     \/ UNCHANGED <<st, disk, budget, lost>>
  /\ \/ /\ core = "up" /\ ~stopping /\ sensor' = TRUE
        /\ cache' = [cache EXCEPT !.published = TRUE]
     \/ UNCHANGED <<sensor, cache>>
  /\ UNCHANGED <<vault, granted, core, running, addonUp, mode, stopping>>
  /\ UNCHANGED <<file, prev, cycle, refused, origin>>

\* Sync now retries what was held back.
SyncNow ==
  /\ pc = "idle" /\ ~stopping /\ st.held # {}
  /\ Save([st EXCEPT !.held = {}])
  /\ refused' = {}
  /\ UNCHANGED <<outside, file, prev, pc, cycle, cache, lost, origin>>

\* The panel's Restart Home Assistant, once its configuration check passed.
RestartCoreNow ==
  /\ pc = "idle" /\ ~stopping /\ core = "up"
  /\ pc' = "panel"
  /\ UNCHANGED <<outside, budget, file, prev, disk, st, cycle, cache, history>>

\* Mutant: every copy is removed, the pending change's too.
NewProcessSweeping ==
  /\ st' = disk /\ prev' = [f \in Files |-> None]
  /\ pc' = "idle" /\ job' = None /\ p' = None /\ resumed' = FALSE
  /\ work' = NoWork /\ cache' = NoCache
  /\ mode' \in Modes /\ stopping' = FALSE
  /\ origin' = IF None \in {disk.pending, st.pending} THEN None ELSE origin
  /\ UNCHANGED <<vault, granted, core, sensor, running, addonUp>>
  /\ UNCHANGED <<file, disk, lost, refused>>

\* A new process on the same /data: the state is loaded, copies no pending
\* change refers to are removed, and the owner may have changed the options.
\* (A rewrite that moves no value was not pending; it ends with its process.)
NewProcess ==
  /\ st' = disk
  /\ prev' = [f \in Files |-> IF disk.pending # None /\ f \in disk.pending.existed
                              THEN prev[f] ELSE None]
  /\ pc' = "idle" /\ job' = None /\ p' = None /\ resumed' = FALSE
  /\ work' = NoWork /\ cache' = NoCache
  /\ mode' \in Modes /\ stopping' = FALSE
  /\ origin' = IF None \in {disk.pending, st.pending} THEN None ELSE origin
  /\ UNCHANGED <<vault, granted, core, sensor, running, addonUp>>
  /\ UNCHANGED <<file, disk, lost, refused>>

\* Killed at any step; also when a cycle outlasts the 30 s a stop waits for it.
Crash == /\ IF stopping THEN UNCHANGED budget ELSE Spend("stop")
         /\ NewProcess

\* SIGTERM cancels the context; the running cycle ends on its own.
Stop ==
  /\ ~stopping /\ Spend("stop") /\ stopping' = TRUE
  /\ UNCHANGED <<vault, granted, core, sensor, running, addonUp, mode>>
  /\ UNCHANGED <<file, prev, disk, st, pc, cycle, cache, history>>

Exit == pc = "idle" /\ stopping /\ NewProcess /\ UNCHANGED budget

-----------------------------------------------------------------------------
(* Everyone else *)

\* A value is changed, added, removed or made ambiguous in 1Password, or the
\* token's access to the vault is revoked or given back.
VaultEdit ==
  /\ Spend("edit")
  /\ \/ \E k \in Keys \ HandKeys, v \in Vals \cup {Conflict} :
          /\ v # vault[k] /\ vault' = [vault EXCEPT ![k] = v]
          /\ UNCHANGED granted
     \/ granted' = ~granted /\ UNCHANGED vault
  /\ refused' = {}
  /\ UNCHANGED <<core, sensor, running, addonUp, mode, stopping>>
  /\ UNCHANGED <<file, prev, disk, st, pc, cycle, cache, lost, origin>>

\* The owner edits a key of their own in a secrets file.
HandEdit ==
  /\ Spend("hand")
  /\ \E f \in Files, k \in HandKeys, v \in Vals :
       /\ file[f].exists /\ v # file[f].val[k]
       /\ file' = [file EXCEPT ![f].val[k] = v]
  /\ UNCHANGED <<outside, prev, disk, st, pc, cycle, cache, history>>

\* Core starts: every integration reads its secrets, pushed states are gone.
CoreStarts ==
  /\ core = "down" /\ core' = "up" /\ sensor' = FALSE
  /\ running' = [c \in Consumers |-> IF c \in Domains THEN Reads(c, file) ELSE running[c]]
  /\ UNCHANGED <<vault, granted, addonUp, mode, stopping, budget>>
  /\ UNCHANGED <<file, prev, disk, st, pc, cycle, cache, history>>

\* Core is restarted by its owner or an update.
CoreStops ==
  /\ core = "up" /\ Spend("outside") /\ core' = "down"
  /\ UNCHANGED <<vault, granted, sensor, running, addonUp, mode, stopping>>
  /\ UNCHANGED <<file, prev, disk, st, pc, cycle, cache, history>>

\* The owner starts or stops an add-on; one that starts reads its secrets.
ToggleAddon(a) ==
  /\ Spend("addon")
  /\ \/ a \in addonUp /\ addonUp' = addonUp \ {a} /\ UNCHANGED running
     \/ /\ a \notin addonUp /\ addonUp' = addonUp \cup {a}
        /\ running' = [running EXCEPT ![a] = Reads(a, file)]
  /\ UNCHANGED <<vault, granted, core, sensor, mode, stopping>>
  /\ UNCHANGED <<file, prev, disk, st, pc, cycle, cache, history>>

Engine ==
  \/ StartCycle \/ FetchFails \/ DryRun \/ HeldBack \/ BeginWrite
  \/ \E f \in Files : KeepPrevious(f) \/ WriteFile(f) \/ RestoreFile(f)
  \/ Remember \/ Resume \/ UndoState \/ HoldBack
  \/ CheckConfig \/ (\E d \in Domains : Reload(d)) \/ ReloadsDone
  \/ GuardRestart \/ RestartCore \/ AwaitCore \/ SaveStage
  \/ AwaitSupervisor \/ (\E a \in Addons : RestartAddon(a)) \/ Finish
  \/ Publish \/ Exit

Environment ==
  \/ SyncNow \/ RestartCoreNow \/ Crash \/ Stop
  \/ VaultEdit \/ HandEdit \/ CoreStarts \/ CoreStops
  \/ \E a \in Addons : ToggleAddon(a)

Next == Engine \/ Environment

\* The engine's goroutine runs, so a step of it that stays possible is taken:
\* every request it makes has a timeout.  The cycle and the panel contend for
\* runMu; Go's Mutex hands over to a waiter in turn, so restarts asked for from
\* the panel cannot starve the cycle.  Nothing else is owed a step.
Spec == Init /\ [][Next]_vars
FairSpec == Spec /\ WF_vars(Engine) /\ SF_vars(StartCycle)

-----------------------------------------------------------------------------
(* Properties *)

TypeOK ==
  /\ vault \in [Keys -> Vals \cup {Conflict}] /\ granted \in BOOLEAN
  /\ core \in {"up", "down"} /\ sensor \in BOOLEAN
  /\ running \in [Consumers -> [Keys -> Vals]] /\ addonUp \subseteq Addons
  /\ mode \in Modes /\ stopping \in BOOLEAN /\ budget \in [Events -> Nat]
  /\ file \in [Files -> Content]
  /\ prev \in [Files -> Content \cup {None}]
  /\ disk \in State /\ st \in State
  /\ pc \in {"idle", "planned", "write", "undo", "hold", "check", "reload",
             "guard", "restart", "again", "panel", "waitUp", "waitAgain",
             "waitPanel", "stage", "addons", "finish", "publish"}
  /\ job \in Job \cup {None} /\ p \in Change \cup {None} /\ resumed \in BOOLEAN
  /\ work \in Work /\ cache \in Cache
  /\ lost \subseteq Consumers /\ refused \subseteq Moves
  /\ origin \in Origin \cup {None}

\* What state s knows of consumer c's need to be refreshed.
Remembers(s, c) ==
  \/ c \in s.waiting
  \/ /\ s.pending # None
     /\ c \in Affected(s.pending.changed, Consumers)
     /\ c \in Domains => s.pending.stage = "all"

\* At every moment, so at every moment the add-on may be killed: an integration
\* that runs other values than its secrets file holds is in state.json, as
\* waiting for a restart or as a consumer of the pending change - unless its
\* refresh was given up (a rollback, a mistaken outside restart).
StaleIsRemembered ==
  \A d \in Domains : Stale(d) => Remembers(disk, d) \/ d \in lost

SameSecrets(x, y) == \A k \in Keys \ HandKeys : x.val[k] = y.val[k]

\* Why it holds, as an inductive invariant: memory knows what disk knows, and
\* each stage of the cycle knows where the domains are that are still stale;
Accounted(d) ==
  /\ Remembers(disk, d) \/ d \in lost
  /\ Remembers(st, d) \/ d \in lost
  /\ pc = "reload" => d \in st.waiting \cup lost \cup work.reload \cup work.restart
  /\ pc = "stage" => d \in st.waiting \cup lost
  /\ pc \in {"waitUp", "waitAgain", "waitPanel"} => core = "down"

\* the change in hand is the pending one, and what it says it moves is what the
\* plan moves;
PendingInHand ==
  /\ pc = "write" =>
       /\ p.stage = "all" /\ \A f \in Files : p.changed[f] = Touched(f)
       /\ IF p.sig = {} THEN st.pending = None /\ \A f \in Files : Touched(f) = {}
                       ELSE st.pending = p /\ disk.pending = p
  /\ pc \in {"check", "reload", "guard", "restart", "waitUp", "stage"} =>
       st.pending = p /\ p.stage = "all"
  /\ pc \in {"addons", "finish"} =>
       st.pending # None /\ st.pending.stage = "addons"

\* and until a file is written it holds the secrets the plan was made from.
PlanIsCurrent ==
  /\ resumed => pc \notin {"idle", "planned", "write", "publish", "panel", "waitPanel"}
  /\ \A f \in Files :
       (\/ pc = "planned"
        \/ pc = "write" /\ f \in work.left
        \/ resumed /\ pc \in {"check", "reload", "guard", "restart", "waitUp",
                              "stage", "addons", "finish"})
       => SameSecrets(file[f], job.cur[f])

StaleInv ==
  (\A d \in Domains : Stale(d) => Accounted(d)) /\ PendingInHand /\ PlanIsCurrent

\* The same of a running add-on, whose refresh is also given up when its restart
\* fails or the cached list of add-ons is behind.
StaleAddonIsRemembered ==
  \A a \in addonUp : Stale(a) => Remembers(disk, a) \/ a \in lost

\* From the first byte written until the change is over, and over crashes and
\* failing writes, the content a change found is in its file or in the file's
\* copy ("A copy whose restore failed is kept, so nothing is lost").
NothingIsLost ==
  origin # None =>
    \A f \in origin.copied : origin.file[f].exists =>
      \E c \in {file[f], prev[f]} \ {None} : SameSecrets(c, origin.file[f])

\* After a rollback the add-on remembers the keys it remembered before the
\* change, and every file that was copied and could be restored holds what the
\* change found in it - whichever process does the undoing.
RollbackRestores ==
  [][pc = "undo" /\ pc' \in {"hold", "publish"} /\ origin # None =>
       /\ st'.managed = origin.managed
       /\ \A f \in origin.copied \ origin.failed :
            /\ file'[f].exists = origin.file[f].exists
            /\ SameSecrets(file'[f], origin.file[f])]_vars

\* What was rolled back, and held back in state.json, is not written again
\* before Sync now or an edit in 1Password, by this process or a later one.
HeldBackNotRetried ==
  [][pc = "planned" /\ pc' = "write" /\ p'.sig # {} => p'.sig # refused]_vars

\* A sync never takes away a key that a configuration uses - unless it could
\* not read the options of the add-on using it.
UsedKeysStay ==
  [][pc = "write" =>
       \A c \in Consumers : \A k \in Uses[c].keys :
         LET f == Uses[c].file
         IN c \in Domains \/ f # Root \/ c \in cache.known =>
              (file[f].val[k] # NoVal => file'[f].val[k] # NoVal)]_vars

\* The file agrees with 1Password, or what it would take is held back.
InStep ==
  \A f \in Files, k \in Keys :
    vault[k] \in Values /\ k \in Referenced(f, {}) =>
      file[f].val[k] = vault[k] \/ <<f, k, vault[k]>> \in st.held

\* Once the vault is left alone, the owner stops pressing Sync now and nothing
\* fails any more, the add-on comes to rest: what 1Password holds is in the
\* files or held back, and Core is not restarted again and again.
Settles ==
  \/ []<><<SyncNow>>_vars
  \/ <>[](pc \notin {"undo", "restart"} /\ (mode = "dry" \/ ~granted \/ InStep))

(* What comments and documentation say, and the code does not keep. *)

\* build.go:404-406: "clears a pending restart once Home Assistant was restarted
\* some other way (its UI, an update)": what publish takes off the list of
\* waiting integrations runs the values of its file.
ClearedMeansApplied ==
  [][pc = "publish" => \A d \in st.waiting \ st'.waiting : ~Stale(d)]_vars

\* cycle.go:552-553: "The change is recorded as pending in state.json before the
\* first byte is written, so an interrupted refresh is resumed by the next
\* cycle": a refresh that a stop of the add-on interrupts is not rolled back.
InterruptedIsNotUndone ==
  [][stopping /\ pc \in {"check", "guard", "restart", "waitUp"} => pc' # "undo"]_vars

\* cycle.go:175, of a change that was rolled back: "The previous values are back
\* in place": once all of them are restored, no integration runs the others.
PreviousValuesAreBack ==
  [][pc = "publish" /\ pc' = "idle" /\ core = "up" =>
       \A d \in Domains : ~Stale(d) \/ Remembers(st, d)]_vars
=============================================================================
