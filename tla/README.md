# Scrollery: formal models and proofs

Scrollery is a Tauri desktop media manager: a Rust host (`src/src-tauri`), a
Vue frontend (`src/src`) and isolated worker processes (`src/crates`). Most of
its risk lies in the host: about twenty background pipelines share one SQLite
writer, a pool of CPU permits, one GPU and the user's attention, and several
of them must survive a crash between any two file operations. This directory
holds TLA+ models of those protocols, TLC configurations that check them on
small instances, and TLAPS proofs for every value of the constants.

Paths below are relative to `src/src-tauri/src/` unless they start with `src/`.
`PROJECT.json` maps every definition to its lines of code.

## 1. Inventory

| Component | State it keeps | Operations | Interacts with | What is hard |
|---|---|---|---|---|
| Backup and restore (`backup/`, `db/boot.rs`, `ipc/backup_commands.rs`) | packages; `restore-staging/{id}`, `restore-old/{id}`, `pending-restore.json`, `restore.lock`; progress snapshot | make and verify a package; preview, arm, discard a restore; swap the library at start | file job owner, scan lifecycle gates, the database at boot, the restore wizard | crash between any two renames, ignored errors, repeated roll-back, stale wizards |
| Semantic search (`ai/search_control.rs`, `ipc/ai_commands.rs`) | sequence gate, resident embeddings with an epoch, result table | search, clear, reset, switch model, invalidate, publish in a layout | AI worker, layout publication, settings, AI writer | late results, stale snapshots, model switch during a search |
| Permit pools (`exotic/limiter.rs`, `ai/prepared.rs`) | permits, FIFO tickets, GPU token | acquire, cancel, release | derivation, exotic workers, analysis, enhancement, rayon | lost tickets, permits held while waiting, order of acquisition |
| Derivation (`derive/`) | a row per (item, kind) with status, orphan count, source revision; a run token | start, stop, claim, finish, requeue, recover | permits, database writer, thumbnails | stop and restart overlap, crash with rows in flight |
| Scanner (`scanner/`, `ipc/scan_commands.rs`) | run tokens and generations per root, seen marks, watcher queue, volume state | scan, enrich, reconcile, watch, poll volumes | lifecycle gates of `state.rs`, thumbnails, layout | overlapping scans, events during a scan, a volume that disappears |
| Application state (`state.rs`, `state/run_token.rs`) | one slot per pipeline, lifecycle locks, GPU and file-job owners | begin, cancel, finish; shared and exclusive sections | everything | generation order, lock order, stop that waits for the end |
| Exotic formats (`exotic/`) | tasks with leases, plugin registry, installed versions, coordinator run state | claim, renew, finish, recover; install, roll back; pause for install | permits, supervisor, database | lease expiry against slow work, install during a run |
| Thumbnails (`thumbnail/`) | demand queue, byte and source budgets, native worker session | request, generate, publish, evict | viewport, layout, scan | results for an old source revision, budget leaks, wake-ups |
| Layout (`layout/`, `ipc/layout_commands.rs`) | published layout, item cache, request and input generations | compute, publish, change inputs | search results, thumbnails, tree | only the newest valid request may publish |
| AI and face analysis (`ai/`) | analysis rows, GPU analysis owner, worker session | start, stop, claim, write back, cluster | permits, AI worker, search cache | results of an old model or source, exclusive ownership |
| Video (`video/`) | two-level queue keyed by (item, kind), playable cache | enqueue, join, pre-empt, cancel, shut down | video worker process, playback | pre-emption against cancel and shutdown, duplicate requests |
| Enhancement (`enhance/`) | job list, worker handle | enqueue, cancel, run, preview, ingest | permits, GPU token, editing | cancel at each step, previews during a job |
| File operations and directory moves (`ipc/file_ops_commands.rs`, `ipc/dir_move.rs`) | move journal, directory copies | move, copy, delete, recover | scanner, lifecycle gates | crash recovery, partial failure |
| Duplicates (`dedup/`) | run generation, hashes, errors per item | begin, hash, publish, resume | throttles | old runs writing after a new one began |
| Export, editing (`export/`, `editing/`) | temporary outputs | write, rename, ingest | file job owner | name collisions, partial writes |
| Configuration (`config/`) | settings file, in-memory values, window geometry | submit, reload, broadcast, flush | watcher, frontend, exit | external edits against submits |
| Process lifecycle (`lifecycle.rs`, `lib.rs`, `tray.rs`) | exit flags | close, flush, exit | settings, frontend | repeated exit requests |
| Downloads (`download/`, `ipc/model_download.rs`) | partial files | fetch, verify, publish | installers | resume, cancel |
| Folder tree, reader, proofreading, audio, storage, OCR, viewer colour | caches and request state | queries | database | little concurrency of their own |
| Frontend (`src/src`) | Pinia stores, request generations | views, dialogs | IPC | answers out of order |
| Worker processes (`src/crates`) | sessions | answer requests | host | crash, version mismatch |
| Database (`db/`) | SQLite, WAL, one writer mutex, a read pool | migrations, queries | everything | guards of claims and revisions |

What makes each correct is stated where it is modelled (section 2) and, for the
rest, in the hazards of `PROJECT.json` and the plan in section 6.

## 2. Modules

### RestoreSwap and AtomicRestore

`RestoreSwap` follows a restore from the wizard's preview to the first session
on the new library. Its state is the data folder: the live database, side files
and documents (`live`), `restore-old` (`old`), `restore-staging` (`staging`),
the stage token and the marker with its phase. `pc` and `step` say where the
boot is; every rename, removal and marker write is an action, taken in the
order of `swap.rs`. `Crash` may happen at every one of them and drops `pc` and
`step`; an error the code propagates ends the process and is the same thing.
What else may go wrong is the behaviour's `setting`: the best-effort steps that
fail silently, and whether the staging folder may vanish late; a run names the
settings it looks at. A setting is `Reliable` when `restore-old` is removed,
the Verified mark is written, `restore.lock` is free, and nothing vanishes late.
A removal of a staging folder and an unpacking may stop anywhere
(`RemoveHalf`, `UnpackHalf`): `StagingLocation::remove` takes the contents
first and the token last, so a discard or a second preview that fails leaves a
part of the package under a token that is still valid, and `arm_restore` asks
for the token and the database file only. `AtomicRestore` states the promise: a start shows the
library of the last session or the whole confirmed package, and settles the
offer. `Abs` maps `last`, `armed` and `pc = "running"` to its variables.

* `WholeLibrary`: no start opens a mixture of two libraries.
* `SessionDataKept`: until the package is accepted every file of the last
  session is still on disk.
* `ArmedPackageKept`: what was left of the shown package when the user confirmed
  it (`armed`) stays on disk until it is installed, whatever else is staged or
  discarded, or fails half way.
* `RestoreIsAtomic`: the refinement of `AtomicRestore`, whose confirmation takes
  what was left of a package.

Both speak of what was left, because it may be less than what was shown:
`ShownIsStaged`, that a token which is still valid has the whole package the
wizard shows, is violated (finding below). So is `NeverAMixture`, which is
`WholeLibrary` in every setting; `WholeLibrary`, `SessionDataKept`,
`ArmedPackageKept` and `RestoreIsAtomic` speak of reliable ones.

* `StartsWindDown`: each step of a start brings its end nearer (`StepsLeft`),
  whatever is on disk and whichever clean-up fails; only a crash or a database
  that cannot be initialised sends it back.
* `StartsConverge`: with finitely many faults every start reaches a session.

### SearchControl

`SearchControl` has one process per search thread (`search`), one per other
command (`op`, with its steps in `Plan`) and one per layout computation
(`view`). The shared state is the gate (`nextSeq`, `latest`, `committed`,
`table`) and the cache slot (`epoch`, `cache`), as in `search_control.rs`; a
step of a thread is what it does under one lock. The stored embeddings are
`emb`, how often a batch or a reset has changed those of each model, and `dropped`,
how often a scan, the watcher or the removal of a root has deleted some
(`Drop`). A result remembers the model
that encoded the query and the snapshot that was scored; nothing else of it
matters to the properties.

* `OneVectorSpace`, `LatestIsActive`: no result mixes models, and the latest
  one is of the configured model unless a switch has yet to revoke it.
* `ClearSticks`, `NewestResultStays`: a clear is not undone by a late result,
  and a late wipe does not erase a newer result. The exception is a wipe whose
  statement failed (`wipeFailed`), until the next revocation.
* `ResidentFresh`: a snapshot older than a batch or a reset is resident only
  while an invalidation is still to come. It says nothing of the deletions by
  scans, which no invalidation follows: `DeletedNotFound`, that no search scores
  a snapshot from before such a deletion, is violated (finding below).
* `PublishedFromOwner`: a layout publishes the rows of the owner it noted. It
  says nothing of a layout that noted none: None stands both for "nothing
  committed yet" and for "wiped", so such a layout may publish rows that were
  wiped since (`search_control.rs` 348).
* `GateGoesRound`: the load gate is held by the one search that is loading.
* `SearchesWindDown`: each step of a search brings its end nearer, however often
  what it loads is invalidated.
* `SearchesEnd`: every search ends.

### HeavyPool and FairPermits

`HeavyPool` models the two permit pools and all of their users: the derivation
dispatcher with its rayon jobs, the exotic workers, the preparing and the
inferring half of an analysis (image and face analysis share the code of
`ai/prepared.rs`), and enhancement jobs and previews. The steps of
`acquire_cancellable` are the actions `Ask`, `ReadCancelled`, `Leave`, `Take`
and `Retry`: the predicate is read before the pool is locked, so a thread acts
on what it read ("decide", "leave"). A ticket is the thread that drew it. The
threads of the rayon pool are counted (`Busy`), because permits are held by
jobs that wait for one.

* `PermitsConserved`: no permit is lost or invented.
* `NoTicketLeaks`: the queue lists exactly the waiting threads, each once.
* `PoolsAreFair`: each pool implements `FairPermits`, which states what the head
  of `exotic/limiter.rs` promises of a pool without its lock, condition
  variable and polling: first come, first served, and who gives up leaves
  everybody else in his place. The line is the queue, the holders are `holds`.
* `IdleHoldsNothing`: who waits for work, for the user or for another thread
  holds no permit, and the GPU token is held only with a CPU permit.
* `NobodyWaitsInVain`: while a thread waits in line for a CPU permit or for
  the GPU token, the first in line can take it, or a holder can go on (`CanGoOn`),
  or a holder waits for the other pool and can take its permit.
* `WaitsEnd`, `StopsEnd`: every wait for a permit ends, and every stopped
  pipeline comes to rest. Both need two cores: `rayon::scope` runs the
  dispatcher on a thread of the global pool (`derive/pipeline.rs` 545), which
  is the only one on a single core, while its spawned jobs hold both permits
  unstarted. With `Cores = 1` TLC finds that wait without end.

### DerivationQueue

`DerivationQueue` models the background pipeline over the table
`media_derivations`. A caller goes through `Start`, `StartReset`, `Activate`
and `Launch` (or `Stop`, `StopFlag`), the steps of `derive_commands.rs` between
which other threads run. A run (`runner`) recovers, backfills, probes, works,
requeues and finishes; while it works its producer, consumer, jobs and writer
are separate processes that share two bounded channels (`tasks`, `results`) and
hang up on each other as the crossbeam channels do. Runs overlap, because a
start does not wait for the run it cancels; `slot` and `cancelled` are
`RunTokenSlot`. Around the pipeline files change and are rescanned, touched,
deleted and restored, caches are cleared, missing files are healed, and the
process crashes; each step that may fail has the failure as an alternative,
counted by `upsets`. A payload is the version of the source it was made from.
`excused` is history: the rows that something other than a clean stop left in
processing.

* `DerivedIsFresh`: nothing derived is older than what the last scan found.
* `LatestCanBeStopped`: the newest run holds the slot until it has ended.
* `CleanStopsAreFree`: a clean stop never costs a row of its orphan budget.
* `RunsNeverHang`: a run that has not ended always has a step it can take.
* `NothingIsLeftBehind`: what the comments say of the end of a run; violated.

### DirMove

`DirMove` follows one directory that is moved between two scan roots. Its state
is the disk (`src`, `dst`, the `staging` directory and marker file of each
move), `directory_move_journal`, and what the index says (`index`: where the row
of the directory points; `rival`: a scan has indexed the target path as a new
directory). `pc` and `job` are the place in `execute_move` or `finish_entry` and
the row in hand; every rename, copied or deleted file, and short transaction is
an action, and each has its failure as an action or disjunct. A retry and a
start go through `Finish`, the case analysis of `finish_entry`, and then join
the steps of a first move. `world` chooses the platform, whether the two roots
share a volume, and what happens around the move: edits, foreign directories,
scans, the removal of the root, volumes that come and go (`Sight`: a path on an
unmounted volume looks absent, or cannot be told).

* `NoVersionLost`: whatever version of a file is at the source or the target is
  still at one of them after each step of the program and after a crash.
* `HalfMovesPending`: a move that is half done has a row in the journal.
* `IndexedIsOurs`: the index never takes over a directory that the program did
  not put there. The condition is needed: with the volume of the source
  unmounted, an intent without a digest claims a foreign target (line 1536).
* `MovesConverge`: undisturbed, every interrupted move ends. It excludes a move
  whose staging directory was made but not marked when the program crashed
  (between lines 554 and 559): no later retry can create it again, and nobody
  removes it.
* `LeftoversPending`: violated, see the findings.

Two more divergences showed in the model and are part of it: an error of
`prepare_staging` leaves the journal row (the `?` at line 1306), where the
comment at line 1274 says that a physical failure deletes it; and a scan that
indexes the published target before the rewrite makes every later rewrite fail
on `UNIQUE(root_id, rel_path)` (`Rewritable`), so that the move stays pending
until the user removes one of the two.

### VideoPlayback

`VideoPlayback` follows one video. `interactive`, `background` and `jobs` are
`Inner` of the worker service, `driver` its thread between two of its locks,
and `ans` the channel each caller waits on; `pc` is a caller's place in
`resolve_impl` or in the spawned task. A file's content is the version of the
source it was made of (`Cut`: not whole), and `known` names the files, since a
scan changes the cache key. A cancel is two actions, as in
`cancel_video_playback`: the job, then the row.

* `QueuesAgree`: the map of jobs and the queues agree after every step.
* `NobodyIsForgotten`: who waits is a waiter of the job he waits for or has its
  answer, never both, never neither.
* `ProductIsWhole`: a file of the pool is whole and of the version it is named
  after, after any edit, retry, pre-emption, crash or cancel.
* `PreparingIsWorkedOn`: a row in preparing has a task at work on it.

`ProductIsWhole` and `PreparingIsWorkedOn` have an exception each, kept as a
history variable, which TLC found necessary:

* `excused`. A cancel only marks a job in hand. A viewer that resolves again
  before the driver sees the mark claims the row that the cancel has reset, and
  joins the doomed job; its task is answered "cancelled" and leaves the row to
  a cancel command that has been and gone. The row stays in preparing until the
  next start, although the comment at `ipc/video_commands.rs` 233 says that the
  reset lets the next resolve trigger it again. So does a row whose end could
  not be written: by the task, by the start of the program, or by the cancel
  command itself, which cancels the job first (line 236) and then writes the
  row (lines 241 to 245, `CancelRowFails`).
* `twin`. Two tasks of one video may be at work at once: a cancel resets the
  row while the first task is past its job, or a scan does. They share the
  temporary file and join each other's verification, so that a product the
  second is still writing may be renamed by the first.

### LayoutPublication

`LayoutPublication` has the gate (`publication`: last request, input
generation, writers inside), the two caches, one process per `compute_layout`
call and one per writer. What a library contains is a record of counters:
`scan` (structure), `stars`, `thumbs`. Items in memory say which stars chose
their rows and which they show. `Now` is what a handle of the items gives: the
patched items as long as they are the ones in the slot. A writer commits
first and enters the gate after that, so a computation may read the database
in between; its ticket is revoked by the entry.

* `LayoutIsCurrent`: once no writer is under way, items that the next request
  would reuse show the database as it is; stars are right even in old ones;
  rows are shown with the items they came from; and the newest request's view
  is not replaced by an older one's.

The exception `crossed`: two writes of the same favourite at once may patch in
the other order than they committed (`toggle_favorite` patches after the lock
of the writer connection is released), and the wrong star stays.

### ExoticTasks

`ExoticTasks` follows one item through the exotic thumbnail pipeline:
its row with owner and attempts (`task`, `lapsed`), the run of each instance
(`phase`, `turn`: the `instance_id`, `halt`), the tasks a run has in hand from
the claim to the writer (`hand`), and around them the source, the cover in
`media_items`, and the files in the cache (each named by a cache key, with the
version it shows as its content). There is no clock: a lease may lapse
whenever nobody renews it, and, at the price of a trouble, even when somebody
does (the machine sleeps). Several instances share the library; `MCServices`
also runs one instance with two tasks in hand, because a run may meet its own
earlier claim of the item again after a reset.

* `ShownIsCurrent`: no late answer puts an old picture on a changed item.
* `DoneStays`: no late failure, recovery or release undoes a done row.
* `TasksAreHeld`: a row with a live lease is in the hands of the run that
  renews it.

`TasksAreHeld` has an exception, the history variable `unkept`. A touch with
the same content, a change of the companion, a reappearance, a deletion and a
restoration raise `source_revision` without asking for the row again
(`TouchSource`, `DeleteOrRestore`; `db/queries/scan/media_upsert.rs` 169 to
181, 221 to 252, 333 to 364). A picture made before is then refused
(`finalize_success` answers `Ok(false)`, `exotic/pipeline.rs` 613 to 616) and
nothing is written: the row stays in processing, its lease renewed with all
others of the instance, until the run ends and `ReleaseAll` gives it back. So
does the row of a task whose failure could not be written (`ReadFails`,
`FailTask`). A change of the content is no exception: the scan asks for the
row again.

Read, but not stated as properties, because the code promises nothing about
them: a done row whose cover was evicted is routed to nobody (`thumbnail/
router.rs` 52 answers "existing", and the primary generator leaves exotic
formats alone), until its fingerprint or version changes; the failure of a
task whose source has changed since counts against the new claim of the same
run; a publication between the two steps of a clear leaves a done row whose
file is gone; tasks of deleted items are claimed and fail until given up; the cover of a
touched picture is cleared while its row stays done.

### ScanRuns

`ScanRuns` follows the scans of a library root and all that may overtake them.
`scan` holds each call of `start_scan` from the installation of its token to
the end of its enrichment: the recorded mtimes a quick scan may skip by
(`same`), the directories passed, what has been listed (`ahead`), the batch
and the rows seen. `token` is `scan_tokens`; a scan writes only under
`MayWrite`, which is `with_scan_generation_write`: its token is still the
root's and no lifecycle write has been announced. `closing` is that
announcement (`enter_database_lifecycle_write`), taken before the lock itself,
so scans are refused before the database is cleared. Around the scans stand
the commands (stop, add, remove, merge of a root into one around it), the
watcher, which reads a directory and writes it later, and events: files come
and go during a walk, the volume is unplugged, the scan panics, the process
dies. A directory is one of two, one inside the other. A recorded mtime is
modelled by whether it is still the present one (`based`), and `drift` notes
the files that came or went since the last finished scan began.

* `IndexIsTrue`: a file that has not changed since the last finished scan
  began is indexed exactly if it is there. No late batch, no late marking of
  missing rows and no snapshot of the watcher makes the index wrong.
* `BlockersHaveWorkers`: a root that counts as being scanned is being scanned,
  since the watcher and moves of directories wait for the scan to end.

Each has an exception that TLC found necessary:

* `blind`. A directory's mtime is recorded as it is when the first file of the
  directory, or of one below it, is about to be committed
  (`prefetch_dir_mtimes`), some time after the directory was listed or skipped.
  A file that comes or goes in between is in no listing, and its directory
  looks unchanged to the next quick scan. The comment at
  `scanner/fast_scan.rs` 232 names only edits in place and changes of
  grandchildren as missed, and the one at `db/queries/scan/directories.rs` 65
  says that the snapshot of the mtimes prevents a file from being missed for
  ever. A merge also leaves the mark of an unfinished scan
  (`scan.baseline_incomplete`) with the old root, so a quick scan of the new
  root trusts what the unfinished scan has recorded. A full scan, or the
  watcher, finds such files again.
* `leaked`. When a lifecycle write has been announced, the end of a scan is
  refused (`finish_scan_with_action`), and a panic of the fast scan leaves
  `start_scan` through `?`: the token stays, although `scan_commands.rs` 749
  and 837 want no scan to block its root for ever. The next start, a stop, or a
  removal of the root takes it away.

The model takes the marking of missing rows and the baseline mark of
`finalize_scan_root` as one step (two transactions in the code), and all volumes as
identified. Enrichment is a place (`enrich`) without effect on rows.

## 3. Runs and bounds

| Run | Instance | What it shows |
|---|---|---|
| `restore_swap` | one backup, 4 libraries, 3 faults, two settings: the clean-up of staging and marker may fail; every best-effort step may, and staging may vanish at any time | in the first the safety properties and the refinement, with two restores of the same backup, so that what the first leaves meets the second; in both `StartsWindDown`, `StartsConverge` |
| `restore_residue` (violation) | the removal of `restore-old` may fail | finding: residue is mixed into the next restore |
| `restore_torn_stage` (violation) | nothing fails silently; one removal stops half way | finding: a token outlives a part of its package, which can be confirmed |
| `search_control` | 2 searches against 2 commands that switch or clear; against one and a layout; while 2 commands write and reset; or while they write and delete; 2 models, failing steps | the three invariants on the table and the two action properties in the first two scenes; `ResidentFresh`, `GateGoesRound`, `SearchesWindDown`, `SearchesEnd` above all in the last two |
| `search_reset` (violation) | 1 search, 1 reset | finding: the ranking over deleted embeddings stays |
| `search_deleted_vectors` (violation) | 1 search, 1 scan that deletes | finding: the resident snapshot outlives what a scan deleted |
| `heavy_pool` | 2 permits, 2 cores; the teams that compete: dispatcher with 2 tasks and exotic worker; analysis and job; job and preview; the foreground idle, interacting and scanning | the four invariants, the refinement, `WaitsEnd`, `StopsEnd` |
| `derivation_queue` | one item, two overlapping runs and one upset of any of 14 kinds; and three items with one run, batches of two, channels of one | the four invariants |
| `derivation_left_behind` (violation) | one item, two runs, no upset | finding: rows claimed by a replaced run are left behind |
| `dir_move` | two files, two moves, two faults of any kind, Windows and Unix, one volume and two; alone and with edits, foreign directories, scans, root removal, and volumes that go | the four properties |
| `dir_move_leftover` (violation) | no fault, Unix, two volumes, the source's comes and goes | finding: the row of a leftover source is deleted |
| `media_services` | video: 2 viewers, 1 thumbnail, 2 versions, 2 resolves, 1 upset; layout: 2 writers, 3 calls; exotic: 2 instances with a task each or 1 with two, 2 versions, 3 revisions, 2 runs, 1 trouble; scans: 1 scanner, 2 roots, 3 events; 2 scanners, 1 root, 1 event; 1 scanner and the watcher | ten properties of the four services; each behaviour moves one of them, so the state spaces add up |
The bounds and why they suffice. `MaxLibrary = 4` leaves room for the first
library, an edit, and two packages of the same backup; `MaxFaults = 3` lets a
start crash, its repetition crash again, and a clean-up fail. `MaxSeq` and
`MaxWrites` cap counters that are only compared: three
registrations are two searches and a revocation, or one and two, in any order
(where snapshots are loaded, two of them);
two writes make a snapshot outdated twice, and `MaxLoads = 2` reaches the last, uncached attempt. Two permits are
the minimum the program creates (`state.rs` 867) and the tightest pool; two
tasks fill it; each kind of user appears at least once, and the proofs cover
any number of them. A derivation run
only ever meets the one before and the one after it through the slot and the
table, so two overlapping runs show every hand-over; what fills the batches
and channels are the three items of a single run, which need no second one.
Of idle searches and of idle commands `MCSearchControl` lets one start, since they are
alike: a choice that is sound for liveness too, where symmetry would not be.
`Scenes` bounds items, runs and upsets together, so that one TLC run covers both.
In `media_services` the
third call of a layout may overtake two, with a write between; two versions
of a source, a lapse and a reset suffice for a late answer of each kind, and
the proofs cover any number of all of them. The bounds of `ScanRuns` are small: two directories are what a pruned parent and a walked child
need, one file in each, since rows of a directory are treated alike; three
events let a scan be cut off, a file change and another scan follow; a scan
meets at most the one that replaced it, and a root only the one before or after it.
`CHECK_DEADLOCK FALSE` is set where the program may really
be idle for ever: nobody has to search, start a pipeline or touch anything; and where the bounded
commands of `media_services` are used up.

## 4. Fairness

* `RestoreSwap`: `WF(StartApp)` and `WF(Boot)`, the user starts the program
  again and a start runs on. Faults are bounded by `MaxFaults`.
* `SearchControl`: weak fairness of each search's own steps; nothing is
  assumed of commands or layouts.
* `HeavyPool`: weak fairness of each thread. Three steps get strong fairness:
  a rayon thread that keeps becoming idle serves each kind of waiting work in
  the end (work stealing plus the injector queue), and the mutex of the
  enhancement worker, which keeps becoming free, is taken by whoever waits.
  The standard mutex does not promise the latter; a user who keeps asking for
  previews while a job waits could overtake it, and the assumption says so.
* `DerivationQueue`: no liveness property and no fairness.
* `DirMove`: weak fairness of the program's steps and of its start, strong
  fairness of the retry of each row: the user retries whatever the program
  lists as pending, again and again. `MovesConverge` is checked where nothing
  else happens, and faults are bounded by `MaxFaults`.
## 5. Proofs

All theorems hold for every value of the constants under the named
assumptions, and are checked with SMT, Zenon and PTL only.

* `RestoreSwap_proofs`: `TypeCorrect`, `OpensWholeLibrary` (`WholeLibrary`),
  `OldLibraryKept` (`SessionDataKept`), `ConfirmedPackageKept`
  (`ArmedPackageKept`) and `ImplementsAtomicRestore` (`RestoreIsAtomic`), which are about
  settings that are `Reliable`: the best-effort steps that fail are those that
  clean up the staging folder or the marker, and the staging folder does not vanish
  late. The finding on residue shows that this is needed; for `NeverAMixture`, without it,
  there is no theorem. The inductive invariant `IInv` says, for
  each phase of the marker and each place in the loops, where every file of
  the replaced library is: at home, or moved away, never both, never neither;
  `WholeLibrary` says nothing of the middle of the swap and is not inductive.
  `Waiting` adds that the token and the staged database come and go together,
  which is what keeps a confirmed package whole; `Settled`, that a session
  without a marker has no package armed, is all the refinement needs besides.
  `StartsReachTheSession` (`StartsWindDown`) holds in every setting, for any
  failures that are ignored: the types and `MarkerNeeded`, that a boot past the
  marker's check has a marker to go by, are enough to count the steps, at most
  15, along each way a boot can take.
* `SearchControl_proofs`: `TypeCorrect`, `StaysFresh` (`ResidentFresh`),
  `SpacesApart` (`OneVectorSpace`), `LatestUsesActive` (`LatestIsActive`),
  `ClearedStaysCleared` (`ClearSticks`), `NewestStays` (`NewestResultStays`),
  `ShownFromOwner` (`PublishedFromOwner`), `GateComesFree` (`GateGoesRound`) and
  `SearchesGoForward` (`SearchesWindDown`). `IInv` adds to the properties what a
  thread in the middle of its work knows: the ticket it holds is at most
  `nextSeq`, a candidate snapshot it has loaded was read at the epoch it
  noted, and a command that has written still has its invalidation ahead. A deletion
  by a scan raises no epoch, so the candidate of a load and the resident snapshot
  may differ from what is stored in `dropped`; all that is said of them is of `emb`. The
  two action properties need that a number is drawn once (`OneEach`), that the
  command which drew the last one has revoked every search (`Revoking`), and
  that an owner a layout noted does not come back once replaced (`Noted`).
  The last two rest on `Counted`: a search has made no load before the gate and
  fewer than `MaxLoads` when it starts another. Together they are `SearchesEnd`
  without the fairness: a search that waits for the gate waits for one that
  does not wait.
* `HeavyPool_proofs`: `TypeCorrect`, `Conservation` (`PermitsConserved`),
  `TicketsReturned` (`NoTicketLeaks`), `IdleThreadsHoldNothing`
  (`IdleHoldsNothing`) and `ImplementsFairPermits`. `IInv` says where each kind of thread can be
  (`Places`), exactly which places hold a permit (`CpuHolders`, `GpuHolders`,
  `TaskHolders`) and that the queues list the waiting threads (`Queued`); the
  holders are what makes conservation inductive, since a drop counts only if
  the thread is one of them. `ImplementsFairPermits` (`PoolsAreFair`) sorts the
  steps by what they do to the pools (`PoolSteps`) and takes each sort to a step
  of `FairPermits` in one pool and a step or a stutter in the other: giving up
  the wait for the GPU token also gives back the CPU permit. That permits never
  exceed the size comes from `PermitsConserved`, that nobody asks twice from
  `Queued` and the holders. `NoCircleOfPermits` (`NobodyWaitsInVain`) looks for
  somebody who can go on: the head of a queue if a permit is free, else a holder,
  which is busy, waits in turn for the GPU token and then for its holders, or is a
  job that needs a thread of the rayon pool. It has two hypotheses: two cores,
  because the dispatcher keeps a thread of the pool, and no fewer tasks than CPU
  permits, since a model with fewer could not fill the pool with its jobs.
* `DerivationQueue_proofs`: `TypeCorrect`, `LatestStoppable`
  (`LatestCanBeStopped`), `DerivedFresh` (`DerivedIsFresh`) and
  `CleanStopsCostNothing` (`CleanStopsAreFree`). For the second,
  `TokenInv` adds that the slot is empty or holds the newest run. `OneRun`
  assumes a single caller, commands one after another, and proves that a run
  that goes on is the one in the slot; its invariant `OneInv` adds that nothing
  goes on between the cancellation and the launch of a start. The assumption is
  needed: with two callers TLC finds two starts that both cancel before either
  launches, and the run launched first goes on outside the slot, where no stop
  reaches it. For `DerivedFresh`, `Flows` says what can come into a run's hands in one step (claims of
  rows as they are, results for claims it has), and `FreshInv` that whatever a
  run holds is sound: of a revision the item has or had and, if it has it
  still, made from a file no older than the last scan found. A scan that finds
  something new raises the revision, which makes every result in flight
  irrelevant instead of wrong. For the last, `CleanInv` follows a claimed row
  from hand to hand: as long as nothing excuses it the newest run is alone and
  has it in its batch, a channel, a job or the writer (`Held`), or has been
  stopped and will put it back; `Orderly` says in which order the threads end,
  so that no hand is empty when the next one has left. `NoCircleOfWaits` is
  `RunsNeverHang` with the guards of the steps in the place of `ENABLED`: against
  the flow, a producer without room finds a full channel, its consumer a task
  and a job in every slot, each job a full channel of results, and that one's
  writer something to collect; with the flow, `Orderly` has each thread's end
  seen by the next. A run has at least one job slot (`Slots # {}`), since the
  pool has two permits or more (`state.rs` 867).
* `DirMove_proofs`: `TypeCorrect`, `HalfMovesStayPending`
  (`HalfMovesPending`), `VersionsKept` (`NoVersionLost`) and `OnlyOursIndexed`
  (`IndexedIsOurs`). `HalfInv` adds
  `Rows` (which rows exist, and what the row in hand must be at each place),
  `Trees` (a tree that is not there is empty; after the publication the target
  is there) and `Half`: a move past its half has a row that no step of its own
  deletes. The last is what the property needs: the first execution of a second
  move may delete its row, and then the first one's must remain. `OursInv` adds
  that a directory made by another program holds a version the program has
  never copied or digested (`Foreigners`), so that no digest claims it, and that
  a row, a place in the code or a missing source which speaks for the target
  means that the program published it (`Mine`). `MovesGoForward`
  (`MovesWindDown`, stated there) gives each place a number (`Phase`; the clean-up
  of the source has two, before the rewrite and after it on a retry) and shows
  that every step of the program on a move in hand lowers it or takes a file off
  the list, and that a start takes each row once. That a start and the user come
  back to what is pending is the fairness `MovesConverge` adds.
* `VideoPlayback_proofs`: `VideoTypes`, `QueuesStayInStep` (`QueuesAgree`),
  `WaitersAreRemembered` (`NobodyIsForgotten`), `PreparingHasTask`
  (`PreparingIsWorkedOn`) and `PoolIsWhole` (`ProductIsWhole`). `InOnePlace` says where each job is, `WaitersWait` that
  who waits on a job is at the place that waits for it and has no answer yet,
  `Prepared` that a task past its claim is in one of the places of a task, and
  `Sound`, while no two tasks have met, what the temporary file may hold at each place:
  once the verification has answered it is not cut, because only a job in hand
  writes, and a lone task has no second one.
* `LayoutAndExotic_proofs`, on `LayoutPublication`: `LayoutTypes` and `LayoutStaysCurrent`
  (`LayoutIsCurrent`). `Counted` (the gate counts exactly the writers inside)
  needs the cardinality of a finite set that gains or loses one element.
  `Tickets` says what each request in flight holds: if its ticket is still
  good, no writer is inside and what it read lacks only facts of writers that
  have yet to enter, and those will revoke the ticket.
* `LayoutAndExotic_proofs`, on `ExoticTasks`: `ExoticTypes`, `ShownStaysCurrent` (`ShownIsCurrent`),
  `DoneRowsStay` (`DoneStays`) and `HeldRowsAreInHand` (`TasksAreHeld`).
  `Turns` says that no two runs have one name, and none a name not yet given;
  `HeldByRun` that a held row is in the hands of its owner. The done row is
  safe because its owner is nobody and every late step asks for the owner.
* `ScanRuns_proofs`: `ScanTypes`, `BlockersAreAtWork` (`BlockersHaveWorkers`)
  and `IndexStaysTrue` (`IndexIsTrue`). The second is inductive once the
  types are known. `IndexIsTrue` speaks of finished scans only and is not: a
  walk acts on what it listed long ago. `Sound` adds what makes that harmless.
  Only the call whose token the root still has writes, and it is on that very
  root (`OwnersHaveTheRoot`), so the rest is said of the owner alone: every
  file is in its listing, in the rows it has seen, in a batch, or ahead of it
  (`NothingLost`), unless the file has changed since the walk began; and a
  directory it skips by its mtime is one whose rows are right
  (`SkipsAreRight`), unless it is in `blind`. The name `blind` is thus the whole
  extent of the exception: `LooseIsBlind` says that a directory whose change no
  mtime shows is always among them. What the watcher has read and not yet
  written is true of every file that has not changed since (`SnapshotIsTrue`).
Only model-checked: the liveness properties (`StartsConverge`, `SearchesEnd`,
`WaitsEnd`, `StopsEnd`, `MovesConverge`), and `RunsNeverHang`, since the prover has
neither fairness nor ENABLED. What `RunsNeverHang` says of guards is proved as
`NoCircleOfWaits`; that these are all the guards, as `ENABLED` has it, was
compared by TLC on the instance of `derivation_queue`. The safety cores of the
liveness properties are proved: `StartsWindDown`, `GateGoesRound` with `SearchesWindDown`, `NobodyWaitsInVain`, and
`MovesWindDown`. The type invariants are proved and no run repeats them.

## 6. Plan

Done in this order, most important first: restore (data loss), semantic search
(shared state of many threads), the permit pools (deadlock), the derivation
pipeline (overlapping runs), directory moves (crash recovery of the file system), video playback, layout publication, exotic tasks, scans. Next:

1. More of `ScanRuns`: enrichment, polls of volumes, relink, detection of moves
   by identity (`scanner/`).
2. Thumbnail demand and budgets (`thumbnail/`), with the publication of their
   results into the items in memory, which passes no gate; composed with
   `LayoutPublication` and `ExoticTasks`.
3. More of `VideoPlayback`: liveness of the service (every waiter is answered,
   a background job is not pre-empted for ever) under fairness of the driver,
   and of `ExoticTasks`: the coordinator's wakes and its pause for an
   installation, so that every row ends.
4. Backup job status, exit flush, settings submit and reload, duplicate runs,
   frontend request generations.
5. More of `DerivationQueue`: two callers that start at once as a run of its own
   (the first run ends up outside the slot), and that every run ends under
   fairness of its threads.

Proofs planned next: those of each new module.

## 7. Findings

* `backup/swap.rs:255` (run `restore_residue`, property `NeverAMixture`): finalize_restore_verified_locked ignores an error of remove_dir_all on restore-old/{id} and then deletes the marker; restoring the same backup again finds old/documents, so move_current_to_old (swap.rs:121) leaves the live documents in place and install_staging_to_live (swap.rs:154) does not install the staged ones, which the clean-up then deletes. swap.rs:5-6 says "每个移动幂等(目标已存在即跳过),任意点崩溃后重跑收敛到自洽终态" (every move is idempotent, a re-run converges to a self-consistent final state): the run ends with the database of the package and the documents of the replaced library.

* `backup/restore.rs:192` (run `restore_torn_stage`, property `ShownIsStaged`): restore_stage calls remove_existing before its clean-up guard exists, and StagingLocation::remove (restore.rs:592-632) takes the contents first and stage-token last: when a file is held open, the call returns an error and leaves, say, the database without documents/ under the earlier token. restore.rs:148 says of a failed preview "失败即回收半装产物,不留残迹" (a failure reclaims the half-made product, no trace is left), and restore.rs:133 says the token is there so that an old wizard does not confirm what a later preview made of the same backup ("防止旧向导清理或确认同一备份的新暂存"); validate_staging_owner (restore.rs:279) compares the token and looks for the database only, so the wizard of another process that still shows the whole package (several processes share the folder, restore.rs:38) confirms what is left of it, and the next start installs that.

* `ipc/ai_commands.rs:50` (run `search_reset`, property `DeletedRankingGone`): reset_embeddings_with_search_teardown revokes the registered searches (line 49) before it invalidates the resident snapshot (line 50), in two locks. A search that registers between the two hits the stale snapshot, commits a ranking over the embeddings just deleted and, because it raised next_seq, makes clear_if_current skip the wipe: the table keeps the deleted ranking. The comment at src/src-tauri/src/ipc/ai_commands.rs:40 says of the teardown "这样崩溃/失败后重跑不会让旧向量空间的排名继续可见,也不会让迟到的旧查询把结果写回" (the ranking of the old vector space does not stay visible).

* `db/queries/scan/media_upsert.rs:105` (run `search_deleted_vectors`, property `DeletedNotFound`): invalidate_derived_for_item deletes the ai_embeddings rows of an item whose content changed, and neither it nor its callers (scans, the watcher, reconcile.rs:230) invalidate the resident snapshot of the search: invalidate_embedding_cache is called only at src/src-tauri/src/ai/pipeline.rs:403, after a reset and after a switch of the model. Nor are the deletions by the cascades of media_items (the removal of a root, clear_database) followed by one. Until an analysis next flushes a batch, every search scores the deleted vectors. The comment at src/src-tauri/src/db/queries/scan/media_upsert.rs:88 says "换内容（mtime+size 变）后旧 CLIP 向量/人脸框属旧图，" and line 89 "不失效则语义搜索/人脸命中错图" (the old vectors are invalidated so that the semantic search does not hit the wrong picture).

* `derive/pipeline.rs:474` (run `derivation_left_behind`, property `NothingIsLeftBehind`): the producer of a run that was stopped and replaced may claim the batch it has read (mark_derivations_processing has no check of the token) after the new run has recovered the table (line 172). The old run is not current any more and does not requeue; the new run never sees the rows and ends by itself with them in processing. The comment at src/src-tauri/src/derive/pipeline.rs:387 says of a run that was not cancelled "自然完成（未取消）时不会有残留的 status=1 行" (no row is left in processing), and src/src-tauri/src/derive/pipeline.rs:392 of the replaced one "被新轮取代则交给新轮启动 reset 处理" (the start of the new run takes them over): the rows wait for the start after that, where they count as orphans.

* `ipc/dir_move.rs:1623` (run `dir_move_leftover`, property `LeftoversPending`): the end of finish_entry takes a source that is absent for removed and deletes the journal row (line 1624), without looking at src_root_state, which it has read at line 1446. A retry while the volume of the source is not mounted forgets the leftover source for good: nothing tells the user of it any more, and on Windows nothing removes it. The header says at src/src-tauri/src/ipc/dir_move.rs:36 "不允许认领不确定的目标，也不丢恢复线索" (the clue to the recovery is not lost) and at src/src-tauri/src/ipc/dir_move.rs:43 that an absent path is only believed when its root is accessible, "否则（常见：卷离线让 NotFound 伪装成不存在）保留日志" (otherwise, as when a volume is offline, the journal is kept).

## 8. Not modelled

Pixel, colour and audio decoding, layout geometry, vector arithmetic and
clustering are computation without a protocol and are left to the unit tests
of the repository. SQLite is taken to be serialisable: a transaction is one
step. The operating system's rename is atomic. Worker processes are seen
through their answers. A second instance of the program is modelled only where
the code itself expects one, in the leases of `ExoticTasks`; elsewhere two
instances would share every file without a guard.

