---------------------------- MODULE DerivationQueue ----------------------------
(***************************************************************************)
(* The derivation pipeline (derive/pipeline.rs): covers, key frames and    *)
(* thumbnails made in the background from a table with one row per item    *)
(* and kind.  A row is pending, processing, done or failed.                *)
(*                                                                         *)
(*   callers    ipc/derive_commands.rs: start, stop and restart            *)
(*   a run      a producer that claims pending rows, a consumer that       *)
(*              decodes them, a writer that stores the results; it         *)
(*              recovers rows left by earlier runs when it starts, and     *)
(*              requeues its own when it was stopped                       *)
(*   scanning   db/queries/scan: sources change, disappear and come back   *)
(*                                                                         *)
(* A start does not wait for the run it cancels, so runs overlap and share *)
(* the table; RunTokenSlot says which of them is the current one.  The     *)
(* generation of a run is only compared for equality, so drawing it and    *)
(* installing its token are one step.  One kind per item: a row is named   *)
(* by its item, and a filter on kinds is a set of items.  Left out: the    *)
(* throttles and the permits of the consumer, which are in HeavyPool, and  *)
(* the rows of video_playable, which no run ever touches.                  *)
(***************************************************************************)
EXTENDS Naturals, Sequences, FiniteSets, SequencesExt

CONSTANTS
    Items,
    Filters,      \* the sets of items a start may be limited to
    Callers,
    MaxRuns,
    Batch,        \* derive_batch_size
    Capacity,     \* CHANNEL_CAPACITY
    PoisonLimit,  \* a row found in processing once more is given up; 2 in the code
    Slots,        \* jobs a run may have in the air
    Upsets,       \* what may go wrong around the pipeline
    Scenes        \* the items there are, with bounds on runs and on upsets

Gens == 1..MaxRuns
NoGen == 0
AllUpsets == {"change", "touch", "delete", "clear", "heal", "crash", "recover",
              "backfill", "probe", "read", "claim", "write", "requeue", "reset"}

ASSUME QueueAssumption ==
    /\ IsFiniteSet(Items) /\ Filters \subseteq SUBSET Items
    /\ MaxRuns \in Nat /\ Scenes \subseteq [items : SUBSET Items, runs : Nat, upsets : Nat]
    /\ Batch \in Nat \ {0} /\ Capacity \in Nat \ {0} /\ PoisonLimit \in Nat
    /\ Upsets \subseteq AllUpsets /\ Slots # {}

\* media_derivations.status, and no row at all
Absent == 4
Pending == 0
Processing == 1
Done == 2
Failed == 3

VARIABLES
    row,        \* media_derivations: status, orphan_count, the version in payload_path
    file,       \* the version of the source on disk
    seen,       \* the version the last scan found
    rev,        \* media_items.source_revision (with cache_key)
    gone,       \* media_items.is_deleted
    cover,      \* media_items.thumb_path: the version it shows, 0 if none
    slot,       \* the generation in RunTokenSlot
    cancelled,  \* the generations whose token is cancelled
    latest,     \* the generation installed last
    active,     \* app_config "derivation_active"
    caller, want,
    runner, wanted,
    producer, tasks, consumer, job, results, writer,
    healing,    \* rows get_keyframe_sprite found done with their file missing
    excused,    \* history: rows that something other than a clean stop left behind
    upsets,
    scene       \* the instance a behaviour is of, one of Scenes

db == <<row, file, seen, rev, gone, cover>>
token == <<slot, cancelled, latest>>
front == <<caller, want, active>>
pipe == <<producer, tasks, consumer, job, results, writer>>
vars == <<db, token, front, runner, wanted, pipe, healing, excused, upsets, scene>>

NoRow == [status |-> Absent, orphans |-> 0, payload |-> 0]
IdleProducer == [at |-> "off", batch |-> {}]
IdleWriter == [at |-> "off", batch |-> << >>]

\* What an earlier session may have left in the table.
LeftRows == {NoRow} \cup [status : {Processing}, orphans : 0..PoisonLimit, payload : {0}]

Init ==
    /\ scene \in Scenes
    /\ row \in {r \in [Items -> LeftRows] : \A i \in Items \ scene.items : r[i] = NoRow}
    /\ file = [i \in Items |-> 1] /\ seen = file /\ rev = file
    /\ gone = Items \ scene.items
    /\ cover = [i \in Items |-> 0]
    /\ slot = NoGen /\ cancelled = {} /\ latest = NoGen /\ active = FALSE
    /\ caller = [c \in Callers |-> "idle"]
    /\ want = [c \in Callers |-> {}]
    /\ runner = [g \in Gens |-> "unused"]
    /\ wanted = [g \in Gens |-> {}]
    /\ producer = [g \in Gens |-> IdleProducer]
    /\ tasks = [g \in Gens |-> << >>]
    /\ consumer = [g \in Gens |-> "off"]
    /\ job = [g \in Gens |-> [s \in Slots |-> {}]]
    /\ results = [g \in Gens |-> << >>]
    /\ writer = [g \in Gens |-> IdleWriter]
    /\ healing = {} /\ excused = {i \in Items : row[i].status = Processing} /\ upsets = 0

\* The producer's check of its token falls between the end of one batch and the
\* query for the next: it may pass here and the query come after a stop.
Top(g) == [IdleProducer EXCEPT !.at = IF g \in cancelled THEN "end" ELSE "read"]

Alive(g) == runner[g] \notin {"unused", "ended"}
InFlight == {i \in Items : row[i].status = Processing}

\* No other run is under way, and none was launched since.
Alone(g) == g = latest /\ \A h \in Gens \ {g} : ~Alive(h)

\* Something around the pipeline goes wrong, or a source changes.
Upset(kind) ==
    /\ kind \in Upsets
    /\ upsets < scene.upsets
    /\ upsets' = upsets + 1
Smooth == UNCHANGED upsets

-----------------------------------------------------------------------------
(* The token slot. *)

\* RunTokenSlot::cancel
Cancel ==
    /\ cancelled' = cancelled \cup ({slot} \ {NoGen})
    /\ slot' = NoGen
    /\ UNCHANGED latest

\* RunTokenSlot::is_current: an empty slot counts as the run's own.
\* Mutant: is_generation_current in its place.
StrictlyCurrent(g) == slot = g
Current(g) == slot \in {g, NoGen}

-----------------------------------------------------------------------------
(* The commands. *)

Reset(set) == [i \in Items |->
    IF i \in set /\ row[i].status \in {Done, Failed}
      THEN [status |-> Pending, orphans |-> 0, payload |-> 0]
      ELSE row[i]]

\* Starts that have not launched their run yet.
Starting == {c \in Callers : caller[c] \in {"reset", "activate", "launch"}}

Command(c, from, to) == caller[c] = from /\ caller' = [caller EXCEPT ![c] = to]

\* start_derivation, and the restart after a change of settings: cancel, then
\* on another thread reset if that was asked for, set the flag, and launch.
Start(c) ==
    \E to \in {"reset", "activate"}, set \in Filters :
        /\ Command(c, "idle", to)
        /\ want' = [want EXCEPT ![c] = set]
        /\ latest + Cardinality(Starting) < scene.runs
        /\ Cancel
        /\ UNCHANGED <<db, active, runner, wanted, pipe, healing, excused, upsets, scene>>

StartReset(c) ==
    /\ \/ /\ Command(c, "reset", "activate")
          /\ row' = Reset(want[c])
          /\ Smooth
       \/ Command(c, "reset", "idle") /\ Upset("reset") /\ UNCHANGED row
    /\ UNCHANGED <<file, seen, rev, gone, cover, token, want, active, runner, wanted,
                   pipe, healing, excused, scene>>

Activate(c) ==
    /\ Command(c, "activate", "launch")
    /\ active' = TRUE
    /\ UNCHANGED <<db, token, want, runner, wanted, pipe, healing, excused, upsets, scene>>

\* RunTokenSlot::begin and start_derivation_pipeline.  History: rows that other
\* runs have in hand now are out of the reach of a clean stop.
Launch(c) ==
    /\ Command(c, "launch", "idle")
    /\ latest < MaxRuns
    /\ latest' = latest + 1
    /\ slot' = latest'
    /\ runner' = [runner EXCEPT ![latest'] = "recover"]
    /\ wanted' = [wanted EXCEPT ![latest'] = want[c]]
    /\ want' = [want EXCEPT ![c] = {}]
    /\ excused' = IF \E g \in Gens : Alive(g) THEN excused \cup InFlight ELSE excused
    /\ UNCHANGED <<db, cancelled, active, pipe, healing, upsets, scene>>

Stop(c) ==
    /\ Command(c, "idle", "stopping")
    /\ Cancel
    /\ UNCHANGED <<db, want, active, runner, wanted, pipe, healing, excused, upsets, scene>>

StopFlag(c) ==
    /\ Command(c, "stopping", "idle")
    /\ active' = FALSE
    /\ UNCHANGED <<db, token, want, runner, wanted, pipe, healing, excused, upsets, scene>>

-----------------------------------------------------------------------------
(* A run, outside its three threads. *)

Runner(g, from, to) == runner[g] = from /\ runner' = [runner EXCEPT ![g] = to]

\* reset_processing_derivations
Spared(i) == row[i].orphans < PoisonLimit
Recovered ==
    [i \in Items |->
        IF i \notin InFlight THEN row[i]
        ELSE IF Spared(i)
               THEN [row[i] EXCEPT !.status = Pending, !.orphans = @ + 1]
               ELSE [row[i] EXCEPT !.status = Failed]]

Recover(g) ==
    /\ Runner(g, "recover", "backfill")
    /\ \/ row' = Recovered /\ Smooth
       \/ UNCHANGED row /\ Upset("recover")
    /\ UNCHANGED <<file, seen, rev, gone, cover, token, front, wanted, pipe, healing, excused, scene>>

Backfilled(set) ==
    [i \in Items |-> IF i \in set \ gone /\ row[i].status = Absent
                       THEN [row[i] EXCEPT !.status = Pending] ELSE row[i]]

Backfill(g) ==
    /\ Runner(g, "backfill", "probe")
    /\ \/ row' = Backfilled(wanted[g]) /\ Smooth
       \/ UNCHANGED row /\ Upset("backfill")
    /\ UNCHANGED <<file, seen, rev, gone, cover, token, front, wanted, pipe, healing, excused, scene>>

\* get_pending_derivations
PendingOf(g) == {i \in wanted[g] \ gone : row[i].status = Pending}

\* Nothing to do, or the query fails: the run is over.  Else the three threads.
Probe(g) ==
    /\ \/ /\ \/ PendingOf(g) = {} /\ Smooth
             \/ Upset("probe")
          /\ Runner(g, "probe", "finish")
          /\ UNCHANGED <<producer, consumer, writer>>
       \/ /\ PendingOf(g) # {} /\ Smooth
          /\ Runner(g, "probe", "work")
          /\ producer' = [producer EXCEPT ![g] = Top(g)]
          /\ consumer' = [consumer EXCEPT ![g] = "receive"]
          /\ writer' = [writer EXCEPT ![g].at = "receive"]
    /\ UNCHANGED <<db, token, front, wanted, tasks, job, results, healing, excused, scene>>

\* The consumer returns when rayon::scope has joined its jobs.
ConsumerEnded(g) == consumer[g] = "scope" /\ \A s \in Slots : job[g][s] = {}

\* The end of thread::scope: all three have been joined.
Joined(g) == producer[g].at = "end" /\ ConsumerEnded(g) /\ writer[g].at = "end"

Join(g) ==
    /\ Joined(g)
    /\ Runner(g, "work", IF g \in cancelled /\ Current(g) THEN "requeue" ELSE "finish")
    /\ producer' = [producer EXCEPT ![g] = IdleProducer]
    /\ consumer' = [consumer EXCEPT ![g] = "off"]
    /\ writer' = [writer EXCEPT ![g] = IdleWriter]
    /\ UNCHANGED <<db, token, front, wanted, tasks, job, results, healing, excused, upsets, scene>>

\* requeue_in_flight_derivations, after the check of Join
Requeued == [i \in Items |-> IF i \in InFlight THEN [row[i] EXCEPT !.status = Pending] ELSE row[i]]

Requeue(g) ==
    /\ Runner(g, "requeue", "finish")
    /\ \/ row' = Requeued /\ Smooth /\ UNCHANGED excused
       \/ UNCHANGED row /\ Upset("requeue") /\ excused' = excused \cup InFlight
    /\ UNCHANGED <<file, seen, rev, gone, cover, token, front, wanted, pipe, healing, scene>>

\* RunTokenSlot::finish: only a slot that holds this run is cleared.
\* Mutant: it is cleared whatever it holds.
FinishAny(g) ==
    /\ Runner(g, "finish", IF g \notin cancelled THEN "flag" ELSE "ended")
    /\ slot' = NoGen
    /\ UNCHANGED <<db, cancelled, latest, front, wanted, pipe, healing, excused, upsets, scene>>
Finish(g) ==
    /\ Runner(g, "finish", IF Current(g) /\ g \notin cancelled THEN "flag" ELSE "ended")
    /\ slot' = IF slot = g THEN NoGen ELSE slot
    /\ UNCHANGED <<db, cancelled, latest, front, wanted, pipe, healing, excused, upsets, scene>>

FinishFlag(g) ==
    /\ Runner(g, "flag", "ended")
    /\ active' = FALSE
    /\ UNCHANGED <<db, token, caller, want, wanted, pipe, healing, excused, upsets, scene>>

-----------------------------------------------------------------------------
(* The producer. *)

Produce(g, from, new) ==
    /\ producer[g].at = from
    /\ producer' = [producer EXCEPT ![g] = new]

\* A batch is any of the pending rows, up to the limit, each as it is now.
Claim(i) == [item |-> i, rev |-> rev[i]]
Batches(g) == {{Claim(i) : i \in set} : set \in {set \in SUBSET PendingOf(g) :
    \/ Cardinality(set) = Batch
    \/ set = PendingOf(g) /\ Cardinality(set) < Batch}}

ReadPending(g) ==
    /\ \/ /\ PendingOf(g) # {} /\ Smooth
          /\ \E b \in Batches(g) : Produce(g, "read", [at |-> "claim", batch |-> b])
       \/ /\ PendingOf(g) = {} \/ g \in cancelled
          /\ Produce(g, "read", [IdleProducer EXCEPT !.at = "end"]) /\ Smooth
       \/ Produce(g, "read", [IdleProducer EXCEPT !.at = "end"]) /\ Upset("read")
    /\ UNCHANGED <<db, token, front, runner, wanted, tasks, consumer, job, results, writer,
                   healing, excused, scene>>

\* The source is still what it was when the row was read.
\* Mutant: the revision is not compared.
MatchesAnyRevision(c) == c.item \notin gone
Matches(c) == c.item \notin gone /\ rev[c.item] = c.rev

\* mark_derivations_processing; only the rows it claimed are sent.  History:
\* a run that is not alone may be overtaken, or have its rows recovered by an
\* older one that starts late.
Claimable(g) == {c \in producer[g].batch : row[c.item].status = Pending /\ Matches(c)}

ClaimBatch(g) ==
    LET items == {c.item : c \in Claimable(g)} IN
    /\ \/ /\ Produce(g, "claim", [at |-> "send", batch |-> Claimable(g)])
          /\ row' = [i \in Items |-> IF i \in items THEN [row[i] EXCEPT !.status = Processing] ELSE row[i]]
          /\ excused' = IF Alone(g) THEN excused ELSE excused \cup items
          /\ Smooth
       \/ /\ Produce(g, "claim", [at |-> "send", batch |-> {}])
          /\ Upset("claim")
          /\ UNCHANGED <<row, excused>>
    /\ UNCHANGED <<file, seen, rev, gone, cover, token, front, runner, wanted, tasks, consumer,
                   job, results, writer, healing, scene>>

\* The consumer still has its end of the channel.
Receiving(g) == consumer[g] = "receive"

Send(g) ==
    /\ \/ /\ producer[g].batch = {} \/ g \in cancelled \/ ~Receiving(g)
          /\ Produce(g, "send", Top(g))
          /\ UNCHANGED tasks
       \/ /\ g \notin cancelled /\ Receiving(g) /\ Len(tasks[g]) < Capacity
          /\ \E c \in producer[g].batch :
                /\ Produce(g, "send", [producer[g] EXCEPT !.batch = @ \ {c}])
                /\ tasks' = [tasks EXCEPT ![g] = Append(@, c)]
    /\ UNCHANGED <<db, token, front, runner, wanted, consumer, job, results, writer,
                   healing, excused, upsets, scene>>

-----------------------------------------------------------------------------
(* The consumer and its jobs. *)

\* Out of the loop: its end of the channel, with what is in it, is dropped.
Leave(g) ==
    /\ consumer[g] = "receive"
    /\ \/ tasks[g] = << >> /\ producer[g].at = "end"
       \/ tasks[g] # << >> /\ g \in cancelled
    /\ consumer' = [consumer EXCEPT ![g] = "scope"]
    /\ tasks' = [tasks EXCEPT ![g] = << >>]
    /\ UNCHANGED <<db, token, front, runner, wanted, producer, job, results, writer,
                   healing, excused, upsets, scene>>

\* A task the consumer holds while it waits for a permit counts as still in the
\* channel, and a job that returns at once because its run was cancelled as not
\* dispatched.
Dispatch(g, s) ==
    /\ consumer[g] = "receive"
    /\ tasks[g] # << >> /\ g \notin cancelled
    /\ job[g][s] = {}
    /\ job' = [job EXCEPT ![g][s] = {Head(tasks[g])}]
    /\ tasks' = [tasks EXCEPT ![g] = Tail(@)]
    /\ UNCHANGED <<db, token, front, runner, wanted, producer, consumer, results, writer,
                   healing, excused, upsets, scene>>

\* The writer still has its end of the channel.
Storing(g) == writer[g].at \in {"receive", "flush"}

\* It shows the file as it is on disk while it decodes, which a scan may not
\* have found yet.
Result(c, status) ==
    [claim |-> c, status |-> status, made |-> IF status = Done THEN file[c.item] ELSE 0]

EndJob(g, s) ==
    /\ job' = [job EXCEPT ![g][s] = {}]
    /\ \E c \in job[g][s], status \in {Done, Failed} :
          IF Storing(g) THEN /\ Len(results[g]) < Capacity
                             /\ results' = [results EXCEPT ![g] = Append(@, Result(c, status))]
                        ELSE UNCHANGED results
    /\ UNCHANGED <<db, token, front, runner, wanted, producer, tasks, consumer, writer,
                   healing, excused, upsets, scene>>

-----------------------------------------------------------------------------
(* The writer. *)

Write(g, from, new) ==
    /\ writer[g].at = from
    /\ writer' = [writer EXCEPT ![g] = new]

\* All senders of results are gone.
\* Mutant: the run keeps one until the threads have been joined.
ClosedByRun(g) == Joined(g)
ResultsClosed(g) == ConsumerEnded(g)

Collect(g) ==
    /\ \/ /\ results[g] = << >> /\ ResultsClosed(g)
          /\ Write(g, "receive", [writer[g] EXCEPT !.at = "last"])
          /\ UNCHANGED results
       \/ /\ results[g] # << >> /\ g \in cancelled
          /\ Write(g, "receive", [writer[g] EXCEPT !.at = "last"])
          /\ results' = [results EXCEPT ![g] = << >>]
       \/ /\ results[g] # << >> /\ g \notin cancelled
          /\ LET b == Append(writer[g].batch, Head(results[g]))
             IN  Write(g, "receive", [at |-> IF Len(b) >= Batch THEN "flush" ELSE "receive", batch |-> b])
          /\ results' = [results EXCEPT ![g] = Tail(@)]
    /\ UNCHANGED <<db, token, front, runner, wanted, producer, tasks, consumer, job,
                   healing, excused, upsets, scene>>

\* batch_finish_derivations_with_snapshot: of several results for a row the
\* first that is accepted counts, the row is not processing any more then.
Accepted(b) == {r \in ToSet(b) : row[r.claim.item].status = Processing /\ Matches(r.claim)}
Positions(b, i) == {k \in 1..Len(b) : b[k] \in Accepted(b) /\ b[k].claim.item = i}
FirstFor(b, i) == b[CHOOSE k \in Positions(b, i) : \A m \in Positions(b, i) : k <= m]

Flush(g) ==
    LET b == writer[g].batch
        items == {r.claim.item : r \in Accepted(b)}
        next == IF writer[g].at = "flush" THEN "receive" ELSE "end"
    IN
    /\ writer[g].at \in {"flush", "last"}
    /\ Write(g, writer[g].at, [IdleWriter EXCEPT !.at = next])
    /\ \/ /\ row' = [i \in Items |-> IF i \notin items THEN row[i] ELSE
                        [status |-> FirstFor(b, i).status, orphans |-> 0, payload |-> FirstFor(b, i).made]]
          /\ cover' = [i \in Items |-> IF i \in items /\ FirstFor(b, i).status = Done
                                         THEN FirstFor(b, i).made ELSE cover[i]]
          /\ excused' = (excused \cup {r.claim.item : r \in ToSet(b)}) \ items
          /\ Smooth
       \/ /\ b # << >> /\ Upset("write")
          /\ excused' = excused \cup {r.claim.item : r \in ToSet(b)}
          /\ UNCHANGED <<row, cover>>
    /\ UNCHANGED <<file, seen, rev, gone, token, front, runner, wanted, producer, tasks, consumer,
                   job, results, healing, scene>>

-----------------------------------------------------------------------------
(* Around the pipeline. *)

\* A file is written, and a later scan finds that it changed: the row is
\* pending again, whatever a run is doing with it, and nothing is shown.
ChangeFile(i) ==
    /\ Upset("change")
    /\ file' = [file EXCEPT ![i] = @ + 1]
    /\ UNCHANGED <<row, seen, rev, gone, cover, token, front, runner, wanted, pipe, healing, excused, scene>>

\* invalidate_derived_for_item
Invalidated(i) == IF row[i].status = Absent THEN row[i]
                  ELSE [row[i] EXCEPT !.status = Pending, !.payload = 0]

\* What the scan found may be older than what is on disk by the time it says so.
Rescan(i) ==
    \E v \in (seen[i] + 1)..file[i] :
        /\ seen' = [seen EXCEPT ![i] = v]
        /\ rev' = [rev EXCEPT ![i] = @ + 1]
        /\ row' = [row EXCEPT ![i] = Invalidated(i)]
        /\ cover' = [cover EXCEPT ![i] = 0]
        /\ UNCHANGED <<file, gone, token, front, runner, wanted, pipe, healing, excused, upsets, scene>>

\* A file written again with the same content, soft_delete_items and
\* restore_items: the revision moves on, the rows stay as they are.
Touch(i) ==
    /\ Upset("touch")
    /\ rev' = [rev EXCEPT ![i] = @ + 1]
    /\ UNCHANGED <<row, file, seen, gone, cover, token, front, runner, wanted, pipe, healing, excused, scene>>

DeleteOrRestore(i) ==
    /\ Upset("delete")
    /\ gone' = IF i \in gone THEN gone \ {i} ELSE gone \cup {i}
    /\ rev' = [rev EXCEPT ![i] = @ + 1]
    /\ UNCHANGED <<row, file, seen, cover, token, front, runner, wanted, pipe, healing, excused, scene>>

\* clear_all_thumbnails
Clear ==
    /\ Upset("clear")
    /\ row' = Reset(Items)
    /\ cover' = [i \in Items |-> 0]
    /\ UNCHANGED <<file, seen, rev, gone, token, front, runner, wanted, pipe, healing, excused, scene>>

\* get_keyframe_sprite reads a path, finds no file there, and then puts the row
\* back, whatever it is by now.
FindMissing(i) ==
    /\ row[i].status = Done
    /\ Upset("heal")
    /\ healing' = healing \cup {i}
    /\ UNCHANGED <<db, token, front, runner, wanted, pipe, excused, scene>>

Heal(i) ==
    /\ i \in healing
    /\ healing' = healing \ {i}
    /\ row' = [row EXCEPT ![i].status = Pending, ![i].payload = 0]
    /\ UNCHANGED <<file, seen, rev, gone, cover, token, front, runner, wanted, pipe, excused, upsets, scene>>

\* The process ends: what is in memory is gone.
Crash ==
    /\ Upset("crash")
    /\ slot' = NoGen
    /\ cancelled' = {} /\ UNCHANGED latest
    /\ caller' = [c \in Callers |-> "idle"]
    /\ want' = [c \in Callers |-> {}]
    /\ runner' = [g \in Gens |-> IF runner[g] = "unused" THEN "unused" ELSE "ended"]
    /\ wanted' = [g \in Gens |-> {}]
    /\ producer' = [g \in Gens |-> IdleProducer]
    /\ tasks' = [g \in Gens |-> << >>]
    /\ consumer' = [g \in Gens |-> "off"]
    /\ job' = [g \in Gens |-> [s \in Slots |-> {}]]
    /\ results' = [g \in Gens |-> << >>]
    /\ writer' = [g \in Gens |-> IdleWriter]
    /\ healing' = {}
    /\ excused' = excused \cup InFlight
    /\ UNCHANGED <<db, active, scene>>

-----------------------------------------------------------------------------
CommandStep(c) == Start(c) \/ StartReset(c) \/ Activate(c) \/ Launch(c) \/ Stop(c) \/ StopFlag(c)
RunStep(g) == \/ Recover(g) \/ Backfill(g) \/ Probe(g) \/ Join(g) \/ Requeue(g)
              \/ Finish(g) \/ FinishFlag(g)
ProducerStep(g) == ReadPending(g) \/ ClaimBatch(g) \/ Send(g)
ConsumerStep(g) == Leave(g) \/ \E s \in Slots : Dispatch(g, s) \/ EndJob(g, s)
WriterStep(g) == Collect(g) \/ Flush(g)
SourceStep(i) == \/ ChangeFile(i) \/ Rescan(i) \/ Touch(i) \/ DeleteOrRestore(i)
                 \/ FindMissing(i) \/ Heal(i)

Next ==
    \/ \E c \in Callers : CommandStep(c)
    \/ \E g \in Gens : RunStep(g) \/ ProducerStep(g) \/ ConsumerStep(g) \/ WriterStep(g)
    \/ \E i \in Items : i \in scene.items /\ SourceStep(i)
    \/ Clear
    \/ Crash

Spec == Init /\ [][Next]_vars

-----------------------------------------------------------------------------
Claims == [item : Items, rev : Nat]

Results == [claim : Claims, status : {Done, Failed}, made : Nat]

Rows == [status : {Pending, Processing, Done, Failed, Absent},
         orphans : 0..PoisonLimit, payload : Nat]
Producers == [at : {"off", "read", "claim", "send", "end"}, batch : SUBSET Claims]
Writers == [at : {"off", "receive", "flush", "last", "end"}, batch : Seq(Results)]

TableType ==
    /\ row \in [Items -> Rows]
    /\ file \in [Items -> Nat] /\ seen \in [Items -> Nat] /\ rev \in [Items -> Nat]
    /\ gone \subseteq Items /\ cover \in [Items -> Nat]

TokenType ==
    /\ slot \in Gens \cup {NoGen} /\ latest \in Gens \cup {NoGen}
    /\ cancelled \subseteq Gens /\ active \in BOOLEAN

CommandType ==
    /\ caller \in [Callers -> {"idle", "reset", "activate", "launch", "stopping"}]
    /\ want \in [Callers -> SUBSET Items]

RunType ==
    /\ runner \in [Gens -> {"unused", "recover", "backfill", "probe", "work", "requeue",
                            "finish", "flag", "ended"}]
    /\ wanted \in [Gens -> SUBSET Items]

PipeType ==
    /\ producer \in [Gens -> Producers]
    /\ tasks \in [Gens -> Seq(Claims)]
    /\ consumer \in [Gens -> {"off", "receive", "scope"}]
    /\ job \in [Gens -> [Slots -> SUBSET Claims]]
    /\ results \in [Gens -> Seq(Results)]
    /\ writer \in [Gens -> Writers]

RestType == healing \subseteq Items /\ excused \subseteq Items /\ upsets \in Nat

TypeOK == TableType /\ TokenType /\ CommandType /\ RunType /\ PipeType /\ RestType
          /\ scene \in Scenes

\* What is derived is never older than what the last scan found: a result of a
\* worker that read an earlier source is not stored, whichever run it is from
\* (batch_finish_derivations_with_snapshot, invalidate_derived_for_item).
DerivedIsFresh ==
    \A i \in Items :
        /\ row[i].status = Done => row[i].payload >= seen[i]
        /\ cover[i] # 0 => cover[i] >= seen[i]

\* The run that was started last can be stopped until it ends: no earlier run
\* takes its token out of the slot when it finishes late (RunTokenSlot::finish).
LatestCanBeStopped ==
    latest # NoGen /\ Alive(latest) /\ latest \notin cancelled /\ runner[latest] # "flag"
        => slot = latest

\* A clean stop costs a row nothing: it is counted as an orphan, or given up, only after a
\* crash, a result that could not be stored, or a start that overtook a run
\* (requeue_in_flight_derivations, reset_processing_derivations).
CleanStopsAreFree ==
    \A g \in Gens : runner[g] = "recover" => InFlight \subseteq excused

\* The three threads of a run never wait for one another in a circle: as long as
\* a run has not ended one of its steps is possible, also after a stop, when
\* they leave in any order (the channels of run_pipeline_blocking).
RunsNeverHang ==
    \A g \in Gens : Alive(g) =>
        ENABLED (RunStep(g) \/ ProducerStep(g) \/ ConsumerStep(g) \/ WriterStep(g))

\* pipeline.rs says of the end of a run: one that was not cancelled leaves no
\* row in processing, and what a run that was overtaken still holds is taken
\* over by the start of the new one.
NothingIsLeftBehind ==
    (\A g \in Gens : ~Alive(g)) /\ latest # NoGen /\ latest \notin cancelled => InFlight = {}
=============================================================================
