----------------------------- MODULE ExoticTasks -----------------------------
(***************************************************************************)
(* Thumbnails made by format plugins (src-tauri/src/exotic/coordinator.rs, *)
(* exotic/pipeline.rs, db/queries/exotic.rs).                              *)
(*                                                                         *)
(* Each item has a row in exotic_tasks: 0 pending, 1 processing, 2 done,   *)
(* 3 to be retried, 4 given up.  A run of the pipeline claims rows under a *)
(* lease in its own name and renews it; workers make pictures, and one     *)
(* writer puts each in the cache and finishes the row, if the lease and    *)
(* the source are still what they were.  Instances of the program share    *)
(* the library, so a lease left too long is taken back by any of them.     *)
(* Around it the source changes, is deleted and restored, the cache is     *)
(* cleared or evicted, and runs are stopped.                               *)
(*                                                                         *)
(* One item and one plugin; other items' rows make a run start or go on    *)
(* whenever it may (it is only asked first whether it may run at all).     *)
(* A cache key and the content of a file are the version of the source     *)
(* they stand for.  The clock is left out: a failed row may be due at      *)
(* once, a lease too old at any time.  So are permits, yielding to the     *)
(* foreground, hidden roots, the layout's copy of the result, and the      *)
(* replacement of a plugin, which pauses and stops a run as a user does.   *)
(***************************************************************************)
EXTENDS Integers

CONSTANTS
    Apps,           \* running instances of the program
    Slots,          \* tasks a run may have in hand for the item
    MaxEditions,    \* bound on the versions of the source
    MaxRevisions,   \* bound on source_revision
    MaxRuns,        \* bound on the runs of all instances
    MaxTroubles     \* bound on commands, failures, evictions and crashes

ASSUME ExoticAssumption ==
    /\ MaxEditions \in Nat \ {0} /\ MaxRevisions \in Nat \ {0}
    /\ MaxRuns \in Nat /\ MaxTroubles \in Nat

MaxAttempts == 3                        \* MAX_ATTEMPTS
Editions    == 1 .. MaxEditions
Shown       == Editions \cup {0}
NoTask      == [status |-> 0, owner |-> 0, attempts |-> 0, out |-> 0]
TaskRow     == [status : 0 .. 4, owner : Nat, attempts : 0 .. MaxAttempts, out : Shown]
Free        == [at |-> "none", rev |-> 0, key |-> 0, made |-> 0]
TaskInHand  == [at : {"none", "claimed", "ready", "working", "ok", "sink", "retry", "bad"},
                rev : Nat, key : Shown, made : Shown]
Phases      == {"waiting", "starting", "probing", "running", "draining"}

VARIABLES
    disk,           \* version of the source file
    scanned,        \* version the library knows: its cache_key
    revision, deleted,
    cover,          \* thumb_path: the version it was made of, 0: none
    cached,         \* the file of each version in the cache
    wiping, evicting,   \* a clear, or an eviction, between its two steps
    task, lapsed,   \* the row, and whether its lease is too old
    phase, turn,    \* each instance's run: where it is, and its name
    halt,           \* is it cancelled, or only its dispatch stopped
    hand,           \* the tasks it has in hand
    unkept,         \* history: a result was or may be refused (see TasksAreHeld)
    resets,         \* history: rows asked for again
    runs, troubles

item    == <<disk, scanned, revision, deleted>>
cacheVars == <<cover, cached, wiping, evicting>>
row     == <<task, lapsed>>
runVars == <<phase, turn, halt, hand>>
tallies == <<resets, runs, troubles>>
evars   == <<item, cacheVars, row, runVars, unkept, tallies>>

\* Nothing runs.
RunsStart ==
    /\ phase = [a \in Apps |-> "waiting"] /\ turn = [a \in Apps |-> 0]
    /\ halt = [a \in Apps |-> "no"] /\ hand = [a \in Apps |-> [s \in Slots |-> Free]]

\* An item as it is after it was added, counted r revisions and t troubles.
StartWith(r, t) ==
    /\ disk = 1 /\ scanned = 1 /\ revision = r /\ deleted = FALSE
    /\ cover = 0 /\ cached = [v \in Editions |-> 0] /\ wiping = FALSE /\ evicting = 0
    /\ task = NoTask /\ lapsed = FALSE
    /\ RunsStart
    /\ unkept = FALSE /\ resets = 0 /\ runs = 0 /\ troubles = t

ExoticInit == StartWith(1, 0)

Trouble  == troubles < MaxTroubles /\ troubles' = troubles + 1
Smoothly == UNCHANGED troubles

----------------------------------------------------------------------------
(* The queries on exotic_tasks.                                            *)

\* claim_exotic_tasks takes what is pending, or failed and due.
ClaimRow(a) ==
    /\ task.status \in {0, 3}
    /\ task' = [task EXCEPT !.status = 1, !.owner = turn[a]] /\ lapsed' = FALSE

Mine(a) == task.status = 1 /\ task.owner = turn[a]

\* recover_orphaned_exotic_tasks and release_exotic_instance_leases: the row
\* is pending again, and no attempt is counted.
Return == task' = [task EXCEPT !.status = 0, !.owner = 0] /\ lapsed' = FALSE

RecoverRow    == IF task.status = 1 /\ lapsed THEN Return ELSE UNCHANGED row
ReleaseRow(a) == IF Mine(a) THEN Return ELSE UNCHANGED row

\* is_exotic_source_current, and the condition of finish_exotic_task
SourceIsCurrent(t) == ~deleted /\ revision = t.rev /\ scanned = t.key

FinishRow(a, t) ==
    task' = [task EXCEPT !.status = 2, !.owner = 0, !.out = t.key] /\ lapsed' = FALSE

\* Mutant: whoever holds the row.
FailsAnyRow(a, retryable) ==
    /\ task' = [task EXCEPT !.attempts = IF @ < MaxAttempts THEN @ + 1 ELSE @, !.owner = 0,
                   !.status = IF retryable /\ task.attempts + 1 < MaxAttempts THEN 3 ELSE 4]
    /\ lapsed' = FALSE

\* fail_exotic_task: the third failure is the last.
FailRow(a, retryable) ==
    IF Mine(a)
    THEN /\ task' = [task EXCEPT !.attempts = @ + 1, !.owner = 0,
                       !.status = IF retryable /\ task.attempts + 1 < MaxAttempts THEN 3 ELSE 4]
         /\ lapsed' = FALSE
    ELSE UNCHANGED row

\* Every way to ask for a row again.
ResetRow ==
    task' = NoTask /\ lapsed' = FALSE /\ resets' = resets + 1

ResetIf(statuses) ==
    IF task.status \in statuses THEN ResetRow ELSE UNCHANGED <<row, resets>>

----------------------------------------------------------------------------
(* The coordinator: one loop, one run at a time.                           *)

\* At a wake, what others left is taken back before it is asked whether there
\* is anything to do.
Sweep(a) ==
    /\ phase[a] = "waiting" /\ task.status = 1 /\ lapsed
    /\ RecoverRow
    /\ UNCHANGED <<item, cacheVars, runVars, unkept, tallies>>

LaunchRun(a) ==
    /\ phase[a] = "waiting" /\ runs < MaxRuns
    /\ runs' = runs + 1 /\ turn' = [turn EXCEPT ![a] = runs + 1]
    /\ halt' = [halt EXCEPT ![a] = "no"] /\ phase' = [phase EXCEPT ![a] = "starting"]
    /\ UNCHANGED <<item, cacheVars, row, hand, unkept, resets, troubles>>

----------------------------------------------------------------------------
(* A run: run_exotic_pipeline_blocking and its threads.                    *)

GoTo(a, p)    == phase' = [phase EXCEPT ![a] = p]
Put(a, s, t)  == hand' = [hand EXCEPT ![a][s] = t]
Drop(a, s)    == Put(a, s, Free)
Move(a, s, p) == Put(a, s, [hand[a][s] EXCEPT !.at = p])
HandAt(a, s, p)   == phase[a] \in {"running", "draining"} /\ hand[a][s].at = p
AnyAt(a, p)    == \E s \in Slots : hand[a][s].at = p

RecoverAtStart(a) ==
    /\ phase[a] = "starting"
    /\ IF halt[a] = "cancelled" THEN GoTo(a, "waiting") /\ UNCHANGED row
       ELSE GoTo(a, "probing") /\ RecoverRow
    /\ UNCHANGED <<item, cacheVars, turn, halt, hand, unkept, tallies>>

\* A first worker tells its version; rows of another version are asked for
\* again.  Without a worker the run ends.
ProbeWorker(a) ==
    /\ phase[a] = "probing"
    /\ \/ GoTo(a, "running") /\ Smoothly /\ UNCHANGED <<row, resets>>
       \/ GoTo(a, "running") /\ Trouble /\ ResetIf({2, 3, 4})
       \/ GoTo(a, "waiting") /\ Trouble /\ UNCHANGED <<row, resets>>
    /\ UNCHANGED <<item, cacheVars, turn, halt, hand, unkept, runs>>

\* The claimer claims, and then reads the sources of what it has claimed.
ClaimTask(a, s) ==
    /\ phase[a] = "running" /\ halt[a] = "no" /\ ~AnyAt(a, "claimed")
    /\ hand[a][s] = Free
    /\ ClaimRow(a) /\ Put(a, s, [Free EXCEPT !.at = "claimed"]) /\ unkept' = FALSE
    /\ UNCHANGED <<item, cacheVars, phase, turn, halt, tallies>>

\* Mutant: a task whose item is gone is forgotten.
ForgetsTask(a, s) ==
    /\ HandAt(a, s, "claimed")
    /\ \/ (halt[a] # "no" \/ deleted) /\ Drop(a, s) /\ UNCHANGED row
       \/ ~deleted /\ Put(a, s, [at |-> "ready", rev |-> revision, key |-> scanned, made |-> 0])
          /\ UNCHANGED row
    /\ UNCHANGED <<item, cacheVars, phase, turn, halt, unkept, tallies>>

ReadSource(a, s) ==
    /\ HandAt(a, s, "claimed")
    /\ \/ halt[a] # "no" /\ Drop(a, s) /\ UNCHANGED row
       \/ deleted /\ FailRow(a, TRUE) /\ Drop(a, s)
       \/ ~deleted /\ Put(a, s, [at |-> "ready", rev |-> revision, key |-> scanned, made |-> 0])
          /\ UNCHANGED row
    /\ UNCHANGED <<item, cacheVars, phase, turn, halt, unkept, tallies>>

\* The database fails it: the failure is written down, or that fails too.
ReadFails(a, s) ==
    /\ HandAt(a, s, "claimed") /\ Trouble /\ Drop(a, s)
    /\ \/ FailRow(a, TRUE) /\ UNCHANGED unkept
       \/ unkept' = TRUE /\ UNCHANGED row
    /\ UNCHANGED <<item, cacheVars, phase, turn, halt, resets, runs>>

\* It ends when nothing is pending, when it must not go on, or on an error.
ClaimsEnd(a) ==
    /\ phase[a] = "running" /\ ~AnyAt(a, "claimed") /\ GoTo(a, "draining")
    /\ \/ (task.status # 0 \/ halt[a] # "no") /\ Smoothly
       \/ Trouble
    /\ UNCHANGED <<item, cacheVars, row, turn, halt, hand, unkept, resets,
                   runs>>

\* A worker reads the source as it is now.
Work(a, s) ==
    /\ HandAt(a, s, "ready")
    /\ IF halt[a] = "no" THEN Put(a, s, [hand[a][s] EXCEPT !.at = "working", !.made = disk])
       ELSE Drop(a, s)
    /\ UNCHANGED <<item, cacheVars, row, phase, turn, halt, unkept, tallies>>

\* Its answer: a picture, a failure that may pass, one that will not; if the
\* run was cancelled meanwhile, the task is let go.
WorkEnds(a, s) ==
    /\ HandAt(a, s, "working")
    /\ IF halt[a] = "cancelled" THEN Drop(a, s) ELSE \E p \in {"ok", "retry", "bad"} : Move(a, s, p)
    /\ UNCHANGED <<item, cacheVars, row, phase, turn, halt, unkept, tallies>>

\* The writer is one thread: the early check, then, with the file prepared,
\* the transaction.
Precheck(a, s) ==
    /\ HandAt(a, s, "ok") /\ ~AnyAt(a, "sink")
    /\ IF SourceIsCurrent(hand[a][s]) THEN Move(a, s, "sink") ELSE Drop(a, s)
    /\ UNCHANGED <<item, cacheVars, row, phase, turn, halt, unkept, tallies>>

\* Mutant: the source is not asked for again.
FinishesAnyway(a, t) == Mine(a)

\* The condition of finish_exotic_task and of the cover's update.
CanFinish(a, t) == Mine(a) /\ SourceIsCurrent(t)

\* Row, cover and file change together, the file a little before the commit.
PublishCover(a, s) ==
    LET t == hand[a][s] IN
    /\ HandAt(a, s, "sink") /\ Drop(a, s)
    /\ IF CanFinish(a, t)
       THEN FinishRow(a, t) /\ cover' = t.key /\ cached' = [cached EXCEPT ![t.key] = t.made]
       ELSE UNCHANGED <<row, cover, cached>>
    /\ UNCHANGED <<item, wiping, evicting, phase, turn, halt, unkept, tallies>>

\* The file, the publication or the commit fails.
PublishFails(a, s) ==
    LET t == hand[a][s] IN
    /\ HandAt(a, s, "sink") /\ Trouble /\ Move(a, s, "retry")
    /\ \/ CanFinish(a, t) /\ cached' = [cached EXCEPT ![t.key] = t.made]
       \/ UNCHANGED cached
    /\ UNCHANGED <<item, cover, wiping, evicting, row, phase, turn, halt, unkept,
                   resets, runs>>

\* A failure is written down, or that fails too.
FailTask(a, s) ==
    /\ HandAt(a, s, "retry") \/ HandAt(a, s, "bad")
    /\ ~AnyAt(a, "sink") /\ Drop(a, s)
    /\ \/ FailRow(a, hand[a][s].at = "retry") /\ Smoothly /\ UNCHANGED unkept
       \/ Trouble /\ unkept' = TRUE /\ UNCHANGED row
    /\ UNCHANGED <<item, cacheVars, phase, turn, halt, resets, runs>>

\* Five strikes, or the plugin may not run any more.
StopDispatch(a) ==
    /\ phase[a] \in {"running", "draining"} /\ halt[a] = "no" /\ Trouble
    /\ halt' = [halt EXCEPT ![a] = "dispatch"]
    /\ UNCHANGED <<item, cacheVars, row, phase, turn, hand, unkept, resets, runs>>

\* The threads are joined, and what the run still holds is given back.
ReleaseAll(a) ==
    /\ phase[a] = "draining" /\ hand[a] = [s \in Slots |-> Free] /\ GoTo(a, "waiting")
    /\ \/ ReleaseRow(a) /\ Smoothly
       \/ Trouble /\ UNCHANGED row
    /\ UNCHANGED <<item, cacheVars, turn, halt, hand, unkept, resets, runs>>

Renews(a) == phase[a] \in {"running", "draining"} /\ halt[a] # "cancelled" /\ Mine(a)

Renew(a) ==
    /\ Renews(a) /\ lapsed /\ lapsed' = FALSE
    /\ UNCHANGED <<item, cacheVars, task, runVars, unkept, tallies>>

\* A lease lapses when nobody renews it, or when the machine sleeps.
Lapse ==
    /\ task.status = 1 /\ ~lapsed /\ lapsed' = TRUE
    /\ IF \E a \in Apps : Renews(a) THEN Trouble ELSE Smoothly
    /\ UNCHANGED <<item, cacheVars, task, runVars, unkept, resets, runs>>

RunStep(a) ==
    \/ Sweep(a) \/ LaunchRun(a) \/ RecoverAtStart(a) \/ ProbeWorker(a)
    \/ ClaimsEnd(a) \/ StopDispatch(a) \/ ReleaseAll(a) \/ Renew(a)

TaskStep(a, s) ==
    \/ ClaimTask(a, s) \/ ReadSource(a, s) \/ ReadFails(a, s) \/ Work(a, s)
    \/ WorkEnds(a, s) \/ Precheck(a, s) \/ PublishCover(a, s) \/ PublishFails(a, s) \/ FailTask(a, s)

----------------------------------------------------------------------------
(* Around the pipeline.                                                    *)

\* stop_exotic_processing takes the token out of its slot and cancels it.
StopCommand(a) ==
    /\ phase[a] # "waiting" /\ halt[a] # "cancelled" /\ Trouble
    /\ halt' = [halt EXCEPT ![a] = "cancelled"]
    /\ UNCHANGED <<item, cacheVars, row, phase, turn, hand, unkept, resets, runs>>

\* reset_exotic_plugin_failures
RetryCommand ==
    /\ task.status \in {3, 4} /\ Trouble /\ ResetRow
    /\ UNCHANGED <<item, cacheVars, runVars, unkept, runs>>

EditSource ==
    /\ disk < MaxEditions /\ disk' = disk + 1
    /\ UNCHANGED <<scanned, revision, deleted, cacheVars, row, runVars, unkept, tallies>>

\* A scan finds the change: a new key, no cover, and the row asked for again.
ScanSource ==
    /\ disk # scanned /\ ~deleted /\ revision < MaxRevisions
    /\ scanned' = disk /\ revision' = revision + 1 /\ cover' = 0
    /\ ResetRow
    /\ UNCHANGED <<disk, deleted, cached, wiping, evicting, runVars, unkept, runs,
                   troubles>>

\* A scan finds the file touched, but the content the same; or its companion
\* changed; or it is back after it was missing: a new revision, a picture loses
\* its cover, and nobody asks for the row again.
TouchSource ==
    /\ ~deleted /\ revision < MaxRevisions /\ Trouble
    /\ revision' = revision + 1 /\ cover' \in {0, cover}
    /\ unkept' = (unkept \/ task.status = 1)
    /\ UNCHANGED <<disk, scanned, deleted, cached, wiping, evicting, row, runVars, resets, runs>>

\* Neither touches the row or the cover of an item that has a task.
DeleteOrRestore ==
    /\ revision < MaxRevisions /\ Trouble
    /\ deleted' = ~deleted /\ revision' = revision + 1
    /\ unkept' = (unkept \/ task.status = 1)
    /\ UNCHANGED <<disk, scanned, cacheVars, row, runVars, resets, runs>>

\* clear_all_thumbnails: rows and covers, then the files.
ClearCovers ==
    /\ ~wiping /\ Trouble /\ wiping' = TRUE /\ cover' = 0
    /\ ResetIf({2, 3, 4})
    /\ UNCHANGED <<item, cached, evicting, runVars, unkept, runs>>

WipeFiles ==
    /\ wiping /\ wiping' = FALSE /\ cached' = [v \in Editions |-> 0]
    /\ UNCHANGED <<item, cover, evicting, row, runVars, unkept, tallies>>

\* enforce_cache_limit: the file, then the reference to it; a lost file is
\* also found by who wants to show it.
EvictFile ==
    /\ evicting = 0 /\ Trouble
    /\ \E v \in Editions : cached[v] # 0 /\ cached' = [cached EXCEPT ![v] = 0] /\ evicting' = v
    /\ UNCHANGED <<item, cover, wiping, row, runVars, unkept, resets, runs>>

EvictReference ==
    /\ evicting # 0 /\ evicting' = 0 /\ cover' = IF cover = evicting THEN 0 ELSE cover
    /\ UNCHANGED <<item, cached, wiping, row, runVars, unkept, tallies>>

MissingFound ==
    /\ cover # 0 /\ cached[cover] = 0 /\ cover' = 0
    /\ UNCHANGED <<item, cached, wiping, evicting, row, runVars, unkept, tallies>>

\* An instance ends at any point; its leases stay until they lapse.
CrashApp(a) ==
    /\ phase[a] # "waiting" /\ Trouble
    /\ phase' = [phase EXCEPT ![a] = "waiting"]
    /\ hand' = [hand EXCEPT ![a] = [s \in Slots |-> Free]]
    /\ UNCHANGED <<item, cacheVars, row, turn, halt, unkept, resets, runs>>

ExoticEnvironment ==
    \/ Lapse \/ RetryCommand \/ EditSource \/ ScanSource \/ TouchSource
    \/ DeleteOrRestore \/ ClearCovers \/ WipeFiles \/ EvictFile \/ EvictReference \/ MissingFound

ExoticNext ==
    \/ \E a \in Apps : RunStep(a) \/ StopCommand(a) \/ CrashApp(a)
    \/ \E a \in Apps, s \in Slots : TaskStep(a, s)
    \/ ExoticEnvironment

ExoticSpec == ExoticInit /\ [][ExoticNext]_evars

----------------------------------------------------------------------------
ExoticTypeOK ==
    /\ disk \in Editions /\ scanned \in Editions /\ revision \in Nat /\ deleted \in BOOLEAN
    /\ cover \in Shown /\ cached \in [Editions -> Shown] /\ wiping \in BOOLEAN /\ evicting \in Shown
    /\ task \in TaskRow /\ lapsed \in BOOLEAN
    /\ phase \in [Apps -> Phases] /\ turn \in [Apps -> Nat]
    /\ halt \in [Apps -> {"no", "dispatch", "cancelled"}]
    /\ hand \in [Apps -> [Slots -> TaskInHand]]
    /\ unkept \in BOOLEAN /\ resets \in Nat /\ runs \in Nat /\ troubles \in Nat

\* Whatever lease lapses, whoever answers late: the cover is of the version the
\* last scan found, a done row says so, and no file in the cache is of an older
\* version than the one it is named after.
ShownIsCurrent ==
    /\ cover \in {0, scanned}
    /\ task.status = 2 => task.out = scanned
    /\ \A v \in Editions : cached[v] = 0 \/ cached[v] >= v

\* No late answer, recovery or release of any run undoes a row that is done:
\* only a change of the source, a clear, or another plugin version does.
DoneStays == [][task.status = 2 /\ task'.status # 2 => resets' # resets]_evars

\* A row that a live run holds is in that run's hands: no row waits for the end
\* of a run, with its lease renewed, while nobody works on it.  Excused are
\* rows whose item got a new revision meanwhile without being asked for again,
\* so that the result in hand is refused and nothing is written (a deletion, a
\* restoration, a touch, a changed companion, a reappearance), and failures
\* that could not be written.  Such a row waits for the end of the run.
TasksAreHeld ==
    \A a \in Apps :
        Renews(a) /\ halt[a] = "no" /\ ~unkept => \E s \in Slots : hand[a][s] # Free
=============================================================================
