---------------------------- MODULE VideoPlayback ----------------------------
(***************************************************************************)
(* Preparing a video for playback (src-tauri/src/video/worker_service.rs,  *)
(* video/playback_orchestrator.rs, video/playable_cache.rs, the cancel     *)
(* command of ipc/video_commands.rs, and the row of kind video_playable    *)
(* in db/queries/derivations.rs).                                          *)
(*                                                                         *)
(* One driver thread owns the one worker process and takes jobs from two   *)
(* queues, interactive ones first; a request for a job that is queued or   *)
(* in hand joins it and shares its answer.  A viewer that resolves a video *)
(* probes it, claims the row (status 1, "preparing"), has the product      *)
(* written to a temporary file, has the product probed, compares the       *)
(* source with what was indexed, renames the product into the pool and     *)
(* finishes the row (2, or 3 after an error).  Thumbnails ask in the       *)
(* background, under keys of their own; a cancel and a restart may come at *)
(* any time.                                                               *)
(*                                                                         *)
(* One video.  A file's content is the version of the source it was made   *)
(* of.  Every video's length is known to the probe.  Progress events,      *)
(* encoder choices and pool sizes are left out; the service is dropped     *)
(* only when no caller holds it, so its shutdown answers nobody.           *)
(***************************************************************************)
EXTENDS Integers, Sequences

CONSTANTS
    Viewers,        \* resolve calls that may run at once
    Thumbs,         \* background callers (thumbnail pipeline)
    MaxVersions,    \* bound on the versions of the source
    MaxResolves,    \* bound on resolve calls that miss the pool
    MaxUpsets       \* bound on edits, evictions, cancels, restarts and
                    \* database errors

ASSUME VideoAssumption ==
    /\ Viewers \cap Thumbs = {}
    /\ MaxVersions \in Nat \ {0} /\ MaxResolves \in Nat /\ MaxUpsets \in Nat

Callers     == Viewers \cup Thumbs
Versions    == 1 .. MaxVersions
MAX_ATTEMPTS == 2

Keys        == {"probe", "playable", "verify", "cover"}
Answers     == {"none", "ok", "err", "cancelled"}
Cut         == -1                       \* a file that is not whole
Content     == Versions \cup {0, Cut}   \* 0: there is no file
NoJob       == [prio |-> "none", waiters |-> {}, cancelled |-> FALSE, of |-> 1]
Job         == [prio : {"none", "interactive", "background"}, waiters : SUBSET Callers,
                cancelled : BOOLEAN, of : Versions]
Parked      == [at |-> "idle", key |-> "probe", back |-> FALSE, tries |-> 0, from |-> 1]
Taken(k)    == [at |-> "taken", key |-> k, back |-> FALSE, tries |-> 0, from |-> 1]
Driver      == [at : {"idle", "taken", "ensure", "run", "preempted", "cancelled"},
                key : Keys, back : BOOLEAN, tries : 0 .. MAX_ATTEMPTS, from : Versions]
CallerPlaces == {"idle", "probe", "read", "claim", "start", "make", "verify",
                 "stat", "rename", "finish", "fail", "ask"}

VARIABLES
    source,         \* version of the source file
    known,          \* version the library knows; it names the product's files
    status,         \* row video_playable: 0 pending (or no row), 1, 2, 3
    tmp, pool,      \* the files <version>.tmp and <version>.mp4
    interactive, background, jobs,      \* Inner of the service
    driver,         \* the driver thread
    pc, of, ans,    \* each caller: where it is, its version, its answer
    cancelling,     \* a cancel command between its two steps
    twin,           \* history: two tasks have been at work at once
    excused,        \* history: a row may stay in preparing (see PreparingIsWorkedOn)
    resolves,       \* resolves that missed
    upsets          \* edits, evictions, cancels, restarts, database errors

files    == <<source, known, tmp, pool>>
service  == <<interactive, background, jobs>>
callers  == <<pc, of, ans>>
history  == <<twin, excused>>
vbounds  == <<resolves, upsets>>
vvars    == <<files, status, service, driver, callers, cancelling, history, vbounds>>

VideoInit ==
    /\ source = 1 /\ known = 1 /\ status = 0
    /\ tmp = [v \in Versions |-> 0] /\ pool = [v \in Versions |-> 0]
    /\ interactive = <<>> /\ background = <<>> /\ jobs = [k \in Keys |-> NoJob]
    /\ driver = Parked
    /\ pc = [c \in Callers |-> "idle"] /\ of = [c \in Callers |-> 1]
    /\ ans = [c \in Callers |-> "none"]
    /\ cancelling = FALSE /\ twin = FALSE /\ excused = FALSE
    /\ resolves = 0 /\ upsets = 0

Upset(n) == upsets + n <= MaxUpsets /\ upsets' = upsets + n

Queued(q, k) == \E i \in 1 .. Len(q) : q[i] = k

----------------------------------------------------------------------------
(* The service: enqueue, answer, cancel.                                   *)

\* enqueue_keyed: join the job of that key, or make one and queue it.
Enqueue(c, k, prio) ==
    IF jobs[k] # NoJob
    THEN /\ jobs' = [jobs EXCEPT ![k].waiters = @ \cup {c}]
         /\ UNCHANGED <<interactive, background>>
    ELSE /\ jobs' = [jobs EXCEPT ![k] = [prio |-> prio, waiters |-> {c},
                                         cancelled |-> FALSE, of |-> of[c]]]
         /\ interactive' = IF prio = "interactive" THEN Append(interactive, k) ELSE interactive
         /\ background' = IF prio = "background" THEN Append(background, k) ELSE background

\* Mutant: only one of those who share a job hears of it.
DeliverToOne(k, a) ==
    /\ jobs' = [jobs EXCEPT ![k] = NoJob]
    /\ \E first \in jobs[k].waiters : ans' = [ans EXCEPT ![first] = a]

\* deliver: the job leaves the map and every waiter is answered.
Deliver(k, a) ==
    /\ jobs' = [jobs EXCEPT ![k] = NoJob]
    /\ ans' = [c \in Callers |-> IF c \in jobs[k].waiters THEN a ELSE ans[c]]

\* The queue without its first k.
Without(q, k) ==
    IF Queued(q, k)
    THEN LET i == CHOOSE j \in 1 .. Len(q) : q[j] = k
         IN SubSeq(q, 1, i - 1) \o SubSeq(q, i + 1, Len(q))
    ELSE q

\* Mutant: a job in hand is answered too, and leaves the map.
CancelsAnyJob ==
    /\ ~cancelling /\ cancelling' = TRUE
    /\ Upset(1)
    /\ interactive' = Without(interactive, "playable")
    /\ background' = Without(background, "playable")
    /\ Deliver("playable", "cancelled")
    /\ UNCHANGED <<files, status, driver, pc, of, history, resolves>>

\* VideoWorkerService::cancel for the playable job, the first half of
\* cancel_video_playback: a queued job leaves with its answer, a job in hand
\* is only marked.
CancelJob ==
    /\ ~cancelling /\ cancelling' = TRUE
    /\ Upset(1)
    /\ IF jobs["playable"] = NoJob
       THEN UNCHANGED <<service, ans>>
       ELSE IF Queued(interactive, "playable") \/ Queued(background, "playable")
       THEN /\ interactive' = Without(interactive, "playable")
            /\ background' = Without(background, "playable")
            /\ Deliver("playable", "cancelled")
       ELSE /\ jobs' = [jobs EXCEPT !["playable"].cancelled = TRUE]
            /\ UNCHANGED <<interactive, background, ans>>
    /\ UNCHANGED <<files, status, driver, pc, of, history, resolves>>

\* The second half: only a row in preparing goes back to pending.
CancelRow ==
    /\ cancelling /\ cancelling' = FALSE
    /\ status' = IF status = 1 THEN 0 ELSE status
    /\ UNCHANGED <<files, service, driver, callers, history, vbounds>>

\* The write fails and the command returns the error: the job is cancelled, the
\* row is not.
CancelRowFails ==
    /\ cancelling /\ cancelling' = FALSE
    /\ excused' = (excused \/ status = 1)
    /\ UNCHANGED <<files, status, service, driver, callers, twin, vbounds>>

----------------------------------------------------------------------------
(* The driver thread: driver_loop and run_job.                             *)

Driving(d) == driver' = d

Pop ==
    /\ driver.at = "idle"
    /\ IF interactive # <<>>
       THEN /\ Driving(Taken(Head(interactive)))
            /\ interactive' = Tail(interactive) /\ UNCHANGED background
       ELSE /\ background # <<>>
            /\ Driving(Taken(Head(background)))
            /\ background' = Tail(background) /\ UNCHANGED interactive
    /\ UNCHANGED <<files, status, jobs, callers, cancelling, history, vbounds>>

\* run_job reads the job; one that is not in the map is given up silently.
TakeJob ==
    /\ driver.at = "taken"
    /\ IF jobs[driver.key] = NoJob THEN Driving(Parked)
       ELSE Driving([driver EXCEPT !.at = "ensure",
                                   !.back = jobs[driver.key].prio = "background"])
    /\ UNCHANGED <<files, status, service, callers, cancelling, history, vbounds>>

\* The session is there: the operation starts, and the worker opens the
\* temporary file of the job it was given.
BeginOp ==
    /\ driver.at = "ensure"
    /\ Driving([driver EXCEPT !.at = "run", !.tries = @ + 1, !.from = source])
    /\ tmp' = IF driver.key = "playable" THEN [tmp EXCEPT ![jobs["playable"].of] = Cut] ELSE tmp
    /\ UNCHANGED <<source, known, pool, status, service, callers, cancelling, history, vbounds>>

\* No session, no component, or no right to use it.
NoSession ==
    /\ driver.at = "ensure"
    /\ Deliver(driver.key, "err") /\ Driving(Parked)
    /\ UNCHANGED <<files, status, interactive, background, pc, of, cancelling, history, vbounds>>

\* The probe of run_op, every 100 ms: a cancel goes before a pre-emption.
Poll ==
    /\ driver.at = "run"
    /\ \/ /\ jobs[driver.key].cancelled
          /\ Driving([driver EXCEPT !.at = "cancelled"])
       \/ /\ ~jobs[driver.key].cancelled
          /\ driver.back /\ interactive # <<>>
          /\ Driving([driver EXCEPT !.at = "preempted"])
    /\ UNCHANGED <<files, status, service, callers, cancelling, history, vbounds>>

\* The worker is killed and the job answered.
StopCancelled ==
    /\ driver.at = "cancelled"
    /\ Deliver(driver.key, "cancelled") /\ Driving(Parked)
    /\ UNCHANGED <<files, status, interactive, background, pc, of, cancelling, history, vbounds>>

\* The worker is killed and the job goes back to the head of its queue.
StopPreempted ==
    /\ driver.at = "preempted"
    /\ background' = <<driver.key>> \o background /\ Driving(Parked)
    /\ UNCHANGED <<files, status, interactive, jobs, callers, cancelling, history, vbounds>>

\* What is in the temporary file when the operation ends well: the source as
\* it was, or as it became, or a product cut short that the worker missed.
Product == {driver.from, source, Cut}

OpSucceeds ==
    /\ driver.at = "run"
    /\ IF driver.key = "playable"
       THEN \E c \in Product : tmp' = [tmp EXCEPT ![jobs["playable"].of] = c]
       ELSE UNCHANGED tmp
    \* a product cut short, or gone, does not have the source's length
    /\ Deliver(driver.key, IF driver.key = "verify" /\ tmp[jobs["verify"].of] \in {0, Cut}
                           THEN "err" ELSE "ok")
    /\ Driving(Parked)
    /\ UNCHANGED <<source, known, pool, status, interactive, background, pc, of, cancelling,
                   history, vbounds>>

\* A broken worker is tried once more with a new one; a timeout and what the
\* worker says of the source are final.
OpRetried ==
    /\ driver.at = "run" /\ driver.tries < MAX_ATTEMPTS
    /\ Driving([driver EXCEPT !.at = "ensure"])
    /\ UNCHANGED <<files, status, service, callers, cancelling, history, vbounds>>

OpFails ==
    /\ driver.at = "run"
    /\ Deliver(driver.key, "err") /\ Driving(Parked)
    /\ UNCHANGED <<files, status, interactive, background, pc, of, cancelling, history, vbounds>>

DriverStep ==
    \/ Pop \/ TakeJob \/ BeginOp \/ NoSession \/ Poll \/ StopCancelled \/ StopPreempted
    \/ OpSucceeds \/ OpRetried \/ OpFails

----------------------------------------------------------------------------
(* The callers: resolve_impl, resolve_derived, spawn_playable_job.         *)

Reach(c, place) == pc' = [pc EXCEPT ![c] = place]
Heard(c, a)  == ans[c] = a /\ ans' = [ans EXCEPT ![c] = "none"]
DropTmp(c)   == tmp' = [tmp EXCEPT ![of[c]] = 0]

\* The pool has the product: it is played at once, and nothing changes here.
Hit == status = 2 /\ pool[known] # 0

\* A miss: the source is probed with the viewer's own priority.
Resolve(c) ==
    /\ c \in Viewers /\ pc[c] = "idle" /\ ~Hit
    /\ resolves < MaxResolves /\ resolves' = resolves + 1
    /\ of' = [of EXCEPT ![c] = known]
    /\ Enqueue(c, "probe", "interactive") /\ Reach(c, "probe")
    /\ UNCHANGED <<files, status, driver, ans, cancelling, history, upsets>>

\* No answer but "ok" leads on: an error goes to the caller, a component that
\* is missing to the facts in the database.
Probed(c) ==
    /\ pc[c] = "probe"
    /\ \/ Heard(c, "ok") /\ Reach(c, "read")
       \/ (Heard(c, "err") \/ Heard(c, "cancelled")) /\ Reach(c, "idle")
    /\ UNCHANGED <<files, status, service, driver, of, cancelling, history, vbounds>>

\* The row is read: another task is preparing the video, or the file plays as
\* it is, or the user is asked first, or the row is to be claimed.
ReadRow(c) ==
    /\ pc[c] = "read"
    /\ \/ Reach(c, "idle")
       \/ status # 1 /\ Reach(c, "claim")
    /\ UNCHANGED <<files, status, service, driver, of, ans, cancelling, history, vbounds>>

\* upsert_and_claim_derivation: one transaction, and only its winner spawns a
\* task.
Claim(c) ==
    /\ pc[c] = "claim"
    /\ IF status = 1 THEN Reach(c, "idle") /\ UNCHANGED status
       ELSE Reach(c, "start") /\ status' = 1
    /\ UNCHANGED <<files, service, driver, of, ans, cancelling, history, vbounds>>

\* The task asks for the product.
Make(c) ==
    /\ pc[c] = "start"
    /\ Enqueue(c, "playable", "interactive") /\ Reach(c, "make")
    /\ twin' = (twin \/ \E d \in Viewers \ {c} : pc[d] \in {"make", "verify", "stat", "rename"})
    /\ excused' = (excused \/ jobs["playable"].cancelled)
    /\ UNCHANGED <<files, status, driver, of, ans, cancelling, vbounds>>

\* The product is there: it is probed under a key of its own.
Verify(c) ==
    /\ pc[c] = "make" /\ Heard(c, "ok")
    /\ Enqueue(c, "verify", "interactive") /\ Reach(c, "verify")
    /\ UNCHANGED <<files, status, driver, of, cancelling, history, vbounds>>

Verified(c) ==
    /\ pc[c] = "verify" /\ Heard(c, "ok") /\ Reach(c, "stat")
    /\ UNCHANGED <<files, status, service, driver, of, cancelling, history, vbounds>>

\* Mutant: a task that fails leaves the row as it is.
FailsSilently(c) ==
    /\ \/ pc[c] = "make" /\ Heard(c, "err")
       \/ pc[c] = "verify" /\ (Heard(c, "err") \/ Heard(c, "cancelled"))
    /\ DropTmp(c) /\ Reach(c, "idle")
    /\ UNCHANGED <<source, known, pool, status, service, driver, of, cancelling, history, vbounds>>

\* Any error removes the temporary file and ends in status 3 ...
TaskFails(c) ==
    /\ \/ pc[c] = "make" /\ Heard(c, "err")
       \/ pc[c] = "verify" /\ (Heard(c, "err") \/ Heard(c, "cancelled"))
    /\ DropTmp(c) /\ Reach(c, "fail")
    /\ UNCHANGED <<source, known, pool, status, service, driver, of, cancelling, history, vbounds>>

\* ... but a cancelled task leaves the row to the cancel command.
TaskCancelled(c) ==
    /\ pc[c] = "make" /\ Heard(c, "cancelled")
    /\ DropTmp(c) /\ Reach(c, "idle")
    /\ UNCHANGED <<source, known, pool, status, service, driver, of, cancelling, history, vbounds>>

\* Mutant: the source is not looked at again.
RenamesAnyway(c) ==
    /\ pc[c] = "stat" /\ Reach(c, "rename")
    /\ UNCHANGED <<files, status, service, driver, of, ans, cancelling, history, vbounds>>

\* The source is compared with what was indexed when the resolve began.
Compare(c) ==
    /\ pc[c] = "stat"
    /\ IF source = of[c] THEN Reach(c, "rename") /\ UNCHANGED tmp
       ELSE Reach(c, "fail") /\ DropTmp(c)
    /\ UNCHANGED <<source, known, pool, status, service, driver, of, ans, cancelling, history,
                   vbounds>>

Rename(c) ==
    /\ pc[c] = "rename"
    /\ IF tmp[of[c]] = 0 THEN Reach(c, "fail") /\ UNCHANGED pool
       ELSE Reach(c, "finish") /\ pool' = [pool EXCEPT ![of[c]] = tmp[of[c]]]
    /\ DropTmp(c)
    /\ UNCHANGED <<source, known, status, service, driver, of, ans, cancelling, history, vbounds>>

\* batch_finish_derivations: whatever the row is now.
Finish(c) ==
    /\ pc[c] \in {"finish", "fail"}
    /\ status' = IF pc[c] = "finish" THEN 2 ELSE 3
    /\ Reach(c, "idle")
    /\ UNCHANGED <<files, service, driver, of, ans, cancelling, history, vbounds>>

\* The transaction fails: the row is left as it is until the next start.
FinishLost(c) ==
    /\ pc[c] \in {"finish", "fail"}
    /\ Upset(1) /\ excused' = TRUE
    /\ Reach(c, "idle")
    /\ UNCHANGED <<files, status, service, driver, of, ans, cancelling, twin, resolves>>

\* A thumbnail asks for a frame and waits.
Ask(c) ==
    /\ c \in Thumbs /\ pc[c] = "idle"
    /\ Enqueue(c, "cover", "background") /\ Reach(c, "ask")
    /\ UNCHANGED <<files, status, driver, of, ans, cancelling, history, vbounds>>

Served(c) ==
    /\ pc[c] = "ask" /\ ans[c] # "none"
    /\ ans' = [ans EXCEPT ![c] = "none"] /\ Reach(c, "idle")
    /\ UNCHANGED <<files, status, service, driver, of, cancelling, history, vbounds>>

CallerStep(c) ==
    \/ Probed(c) \/ ReadRow(c) \/ Claim(c) \/ Make(c) \/ Verify(c) \/ Verified(c)
    \/ TaskFails(c) \/ TaskCancelled(c) \/ Compare(c) \/ Rename(c) \/ Finish(c) \/ Served(c)

----------------------------------------------------------------------------
(* What happens around them.                                               *)

\* The source is edited.
Edit ==
    /\ source < MaxVersions /\ source' = source + 1 /\ Upset(1)
    /\ UNCHANGED <<known, tmp, pool, status, service, driver, callers, cancelling, history,
                   resolves>>

\* A scan notices: the video gets a new cache key, so new file names, and its
\* row is pending again, also when a task is at work.
Rescan ==
    /\ known # source /\ known' = source /\ status' = 0
    /\ UNCHANGED <<source, tmp, pool, service, driver, callers, cancelling, history, vbounds>>

\* The pool is over its limit, or the user clears it: the row stays.
Evict(v) ==
    /\ pool[v] # 0 /\ pool' = [pool EXCEPT ![v] = 0] /\ Upset(1)
    /\ UNCHANGED <<source, known, tmp, status, service, driver, callers, cancelling, history,
                   resolves>>

\* The program ends in any way and starts again: rows in preparing go back to
\* pending and the temporary files are swept; either may fail.
Restart(reset, swept) ==
    /\ Upset(IF reset THEN 1 ELSE 2)
    /\ status' = IF reset /\ status = 1 THEN 0 ELSE status
    /\ excused' = (excused \/ ~reset)
    /\ tmp' = IF swept THEN [v \in Versions |-> 0] ELSE tmp
    /\ interactive' = <<>> /\ background' = <<>> /\ jobs' = [k \in Keys |-> NoJob]
    /\ driver' = Parked
    /\ pc' = [c \in Callers |-> "idle"] /\ of' = [c \in Callers |-> 1]
    /\ ans' = [c \in Callers |-> "none"]
    /\ cancelling' = FALSE
    /\ UNCHANGED <<source, known, pool, twin, resolves>>

VideoEnvironment ==
    \/ CancelJob \/ Edit \/ Rescan
    \/ \E v \in Versions : Evict(v)
    \/ \E reset, swept \in BOOLEAN : Restart(reset, swept)
    \/ \E c \in Callers : Resolve(c) \/ Ask(c) \/ FinishLost(c)

VideoNext ==
    \/ DriverStep \/ CancelRow \/ CancelRowFails
    \/ \E c \in Callers : CallerStep(c)
    \/ VideoEnvironment

VideoSpec == VideoInit /\ [][VideoNext]_vvars

----------------------------------------------------------------------------
VideoTypeOK ==
    /\ source \in Versions /\ known \in Versions /\ status \in 0 .. 3
    /\ tmp \in [Versions -> Content] /\ pool \in [Versions -> Content]
    /\ interactive \in Seq(Keys) /\ background \in Seq(Keys)
    /\ jobs \in [Keys -> Job] /\ driver \in Driver
    /\ pc \in [Callers -> CallerPlaces] /\ of \in [Callers -> Versions]
    /\ ans \in [Callers -> Answers]
    /\ cancelling \in BOOLEAN /\ twin \in BOOLEAN /\ excused \in BOOLEAN
    /\ resolves \in Nat /\ upsets \in Nat

InHand(k) == driver.at # "idle" /\ driver.key = k

\* Times that k stands in the queues or in the driver's hands.
Held(k) ==
    {<<"i", i>> : i \in {n \in 1 .. Len(interactive) : interactive[n] = k}}
    \cup {<<"b", i>> : i \in {n \in 1 .. Len(background) : background[n] = k}}
    \cup (IF InHand(k) THEN {<<"d", 0>>} ELSE {})

\* Every job of the map is in exactly one place, once: in one of the queues or
\* in the driver's hands; and what is queued or in hand is in the map.  So no
\* caller waits for a job nobody will run, no job is run twice for one answer,
\* and run_job finds what was popped, whatever enqueue, cancel and pre-emption
\* do between two of its locks.
QueuesAgree ==
    \A k \in Keys :
        IF jobs[k] = NoJob THEN Held(k) = {} ELSE \E h \in Held(k) : Held(k) = {h}

\* The place where a caller waits for a job of each key.
PlaceOf == [probe |-> "probe", playable |-> "make", verify |-> "verify", cover |-> "ask"]

\* Nobody is forgotten, and nobody is answered twice: whoever waits for a job
\* is among the waiters of the job of that very key, or has its answer, and
\* never both; whoever joined it, pre-empted it or cancelled it meanwhile
\* (enqueue_keyed, deliver, cancel: one lock each; await_output waits for ever).
NobodyIsForgotten ==
    \A k \in Keys : \A c \in Callers :
        /\ c \in jobs[k].waiters => pc[c] = PlaceOf[k] /\ ans[c] = "none"
        /\ pc[c] = PlaceOf[k] => c \in jobs[k].waiters \/ ans[c] # "none"

\* A file in the pool is whole and made of the version it is named after, so a
\* hit never plays an old or a truncated product, after any edit, retry,
\* pre-emption, eviction, crash or cancel; unless two tasks have been at work
\* at once, which a cancelled task that goes on, or a scan during a task, makes
\* possible: they then share a temporary file, or one of them joins the probe
\* of the other's product.
ProductIsWhole == ~twin => \A v \in Versions : pool[v] \in {0, v}

Working == {"start", "make", "verify", "stat", "rename", "finish", "fail"}

\* A row in preparing has a task at work on it, or a cancel about to reset it:
\* nobody is told to wait for a product that nobody makes.  Excused are rows
\* whose end could not be written, by the task (finish), the cancel command
\* (video_commands.rs:245) or the start of the program, and those whose task
\* joined a job that was already cancelled.
PreparingIsWorkedOn ==
    status = 1 /\ ~excused => cancelling \/ \E c \in Viewers : pc[c] \in Working
=============================================================================
