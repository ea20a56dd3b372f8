------------------------------- MODULE DirMove -------------------------------
(***************************************************************************)
(* Moving a directory (src-tauri/src/ipc/dir_move.rs, ipc/dir_move/        *)
(* source_cleanup.rs, db/queries/move_journal.rs and the commands in       *)
(* ipc/file_ops_commands.rs).                                              *)
(*                                                                         *)
(* A move writes an intent in the journal, then renames the directory, or, *)
(* if that fails, copies it to a staging directory of its own, records     *)
(* what it copied, publishes the staging directory by a rename and removes *)
(* the source (Windows) or leaves it to the user (Unix).  Then the index   *)
(* is rewritten and the journal row deleted.  The next start, and the user *)
(* by a retry, finish what a crash or an error interrupted.                *)
(*                                                                         *)
(* Every file operation and every short transaction is an action, with a   *)
(* crash possible between any two.  A tree is the version of each of its   *)
(* files; its digest is the tree itself.  One directory moves between two  *)
(* scan roots, which lie on one volume or on two; the user, other programs *)
(* and the scanner act in between.  Cached thumbnails, counters and the    *)
(* columns of the rewritten rows are left out.                             *)
(***************************************************************************)
EXTENDS Integers

CONSTANTS
    Files,      \* files of the directory
    MaxMoves,   \* bound on the moves that are started
    MaxEdits,   \* bound on the versions of a file
    MaxFaults,  \* bound on crashes and errors
    Faulty,     \* the kinds of step that may fail, and "crash"
    Worlds      \* instances: the platform, whether the roots share a volume,
                \* and what happens around the move

Moves   == 1 .. MaxMoves
Sides   == {"source", "target"}
Events  == {"edit", "foreign", "scan", "unroot", "sourceAway", "targetAway"}
World   == [windows : BOOLEAN, near : BOOLEAN, events : SUBSET Events]

ASSUME MoveAssumption ==
    /\ Files # {} /\ MaxMoves \in Nat /\ MaxEdits \in Nat /\ MaxFaults \in Nat
    /\ Faulty \subseteq {"crash", "db", "io"}
    /\ Worlds \subseteq World

NoFiles == [f \in Files |-> 0]
Gone    == [dir |-> FALSE, of |-> NoFiles]
Made    == [dir |-> TRUE, of |-> NoFiles]
Tree    == [dir : BOOLEAN, of : [Files -> Nat]]
NoRow   == [stage |-> "none", digest |-> Gone]      \* digest Gone: NULL
Row     == [stage : {"none", "intent", "published", "source_leftover"}, digest : Tree]
NoJob   == [move |-> 0, how |-> "first", removed |-> FALSE, todo |-> {}, next |-> "published"]
Job     == [move : Nat, how : {"first", "retry", "boot"}, removed : BOOLEAN,
            todo : SUBSET Files, next : {"published", "done"}]
Places  == {"off", "boot", "idle", "rename", "stage", "mark", "copy", "publish",
            "compare", "delete", "published", "rewrite", "settle", "done"}

VARIABLES
    world,      \* the instance, one of Worlds
    src, dst,   \* the trees at the source and at the target path
    origin,     \* history: whose tree is at the target, "nobody", "ours", "foreign"
    staging,    \* the staging directory of each move
    marked,     \* the moves whose sibling marker file exists
    journal,    \* directory_move_journal
    index,      \* the directory's row: "source", "target", or "none" if its root was removed
    rival,      \* a scan has indexed the target path as a directory of its own
    rooted,     \* the target root is registered
    away,       \* the sides whose volume is not mounted
    pc, job,    \* what the program is doing, and for which row
    boot,       \* rows the start has yet to handle
    started, edits, faults

disk   == <<src, dst, origin, staging, marked>>
bounds == <<started, edits, faults>>
vars   == <<world, disk, journal, index, rival, rooted, away, pc, job, boot, bounds>>

Init ==
    /\ world \in Worlds
    /\ src = [dir |-> TRUE, of |-> [f \in Files |-> 1]]
    /\ dst = Gone /\ origin = "nobody"
    /\ staging = [m \in Moves |-> Gone] /\ marked = {}
    /\ journal = [m \in Moves |-> NoRow]
    /\ index = "source" /\ rival = FALSE /\ rooted = TRUE
    /\ away = {}
    /\ pc = "idle" /\ job = NoJob /\ boot = {}
    /\ started = 0 /\ edits = 1 /\ faults = 0

id         == job.move                  \* the row in hand
Pending(i) == journal[i].stage # "none"
Happens(e) == e \in world.events

Fails(kind) == kind \in Faulty /\ faults < MaxFaults /\ faults' = faults + 1
Works       == UNCHANGED faults

\* path_state: a path on a volume that is not mounted looks absent, or cannot
\* be told.
Mounted(side)     == side \notin away
Sight(tree, side) == IF ~Mounted(side) THEN {"absent", "unknown"}
                     ELSE IF tree.dir THEN {"exists"} ELSE {"absent"}

Goto(place) == pc' = place /\ UNCHANGED job
\* The job returns; a start goes on with the next row.
Over == pc' = (IF pc = "boot" \/ job.how = "boot" THEN "boot" ELSE "idle") /\ job' = NoJob

\* Short transactions on the journal.  Where the code ignores an error of
\* theirs they may fail without a trace.
\* Mutant: no intent is written.
InsertLater(i) == UNCHANGED journal /\ i \in Moves
Insert(i)      == journal' = [journal EXCEPT ![i] = [stage |-> "intent", digest |-> Gone]]
SetStage(i, s) == journal' = [journal EXCEPT ![i].stage = s]
Delete(i)      == journal' = [journal EXCEPT ![i] = NoRow]
TryStage(i, s) == (SetStage(i, s) /\ Works) \/ (UNCHANGED journal /\ Fails("db"))
TryDelete(i)   == (Delete(i) /\ Works) \/ (UNCHANGED journal /\ Fails("db"))
\* The same in a step that counts its fault itself.
Unless(kind, A) == A \/ (UNCHANGED journal /\ kind \in Faulty)

\* cleanup_own_staging: only a directory with its marker is removed, and
\* removing it may fail.
Cleanable(i) == staging[i].dir /\ i \in marked /\ Mounted("target")
CleanStaging(i) ==
    \/ /\ Cleanable(i)
       /\ staging' = [staging EXCEPT ![i] = Gone] /\ marked' = marked \ {i}
    \/ /\ Cleanable(i) => "io" \in Faulty
       /\ UNCHANGED <<staging, marked>>

(***************************************************************************)
(* A move, step by step.                                                   *)
(***************************************************************************)
\* move_directory up to the intent: load_plan and verify_plan_current need
\* both roots, the directory where the index has it, and no directory of that
\* name in the index of the target.
Begin ==
    /\ pc = "idle" /\ started < MaxMoves
    /\ index = "source" /\ rooted /\ ~rival
    /\ away = {} /\ src.dir
    /\ started' = started + 1
    /\ Insert(started + 1)
    /\ pc' = "rename" /\ job' = [NoJob EXCEPT !.move = started + 1]
    /\ UNCHANGED <<world, disk, index, rival, rooted, away, boot, edits, faults>>

\* begin_physical_move.
RenameInPlace ==
    /\ pc = "rename" /\ world.near /\ away = {} /\ src.dir /\ ~dst.dir
    /\ dst' = src /\ src' = Gone /\ origin' = "ours"
    /\ pc' = "published" /\ job' = [job EXCEPT !.removed = TRUE]
    /\ UNCHANGED <<world, staging, marked, journal, index, rival, rooted, away, boot, bounds>>

RenameImpossible ==
    /\ pc = "rename" /\ Mounted("target") /\ ~dst.dir
    /\ IF world.near /\ away = {} /\ src.dir THEN Fails("io") ELSE Works
    /\ Goto("stage")
    /\ UNCHANGED <<world, disk, journal, index, rival, rooted, away, boot, started, edits>>

\* The target is there, or its parent cannot be made: the row is deleted.
RenameRefused ==
    /\ pc = "rename" /\ (dst.dir \/ ~Mounted("target"))
    /\ TryDelete(id) /\ Over
    /\ UNCHANGED <<world, disk, index, rival, rooted, away, boot, started, edits>>

\* prepare_staging: the source must be there and the target not; the staging
\* directory is created exclusively.  An error leaves the row as it is.
CanStage == /\ Mounted("source") /\ src.dir
            /\ Mounted("target") /\ ~dst.dir /\ ~staging[id].dir

PrepareStaging ==
    /\ pc = "stage" /\ CanStage
    /\ staging' = [staging EXCEPT ![id] = Made]
    /\ Goto("mark")
    /\ UNCHANGED <<world, src, dst, origin, marked, journal, index, rival, rooted, away, boot, bounds>>

PrepareFails ==
    /\ pc = "stage"
    /\ IF CanStage THEN Fails("io") ELSE Works
    /\ Over
    /\ UNCHANGED <<world, disk, journal, index, rival, rooted, away, boot, started, edits>>

\* mark_staging: the sibling marker file.
MarkStaging ==
    /\ pc = "mark"
    /\ \/ /\ Mounted("target") /\ marked' = marked \cup {id} /\ Works
          /\ pc' = "copy" /\ job' = [job EXCEPT !.todo = Files]
          /\ UNCHANGED staging
       \/ /\ IF Mounted("target") THEN Fails("io") ELSE Works
          /\ CleanStaging(id) /\ Over
    /\ UNCHANGED <<world, src, dst, origin, journal, index, rival, rooted, away, boot, started, edits>>

\* copy_tree_verified, one file at a time, while others may write to them.
CopyFile(f) ==
    /\ pc = "copy" /\ f \in job.todo /\ away = {} /\ src.dir
    /\ staging' = [staging EXCEPT ![id].of[f] = src.of[f]]
    /\ job' = [job EXCEPT !.todo = @ \ {f}]
    /\ UNCHANGED <<world, src, dst, origin, marked, journal, index, rival, rooted, away, pc, boot, bounds>>

CopyFails ==
    /\ pc = "copy" /\ job.todo # {}
    /\ IF away = {} /\ src.dir THEN Fails("io") ELSE Works
    /\ CleanStaging(id) /\ Over
    /\ UNCHANGED <<world, src, dst, origin, journal, index, rival, rooted, away, boot, started, edits>>

\* stage_and_persist: without the digest in the journal nothing is published.
Persist ==
    /\ pc = "copy" /\ job.todo = {}
    /\ \/ /\ journal' = [journal EXCEPT ![id].digest = staging[id]]
          /\ Goto("publish") /\ Works
       \/ Fails("db") /\ Over /\ UNCHANGED journal
    /\ UNCHANGED <<world, disk, index, rival, rooted, away, boot, started, edits>>

\* publish_staging: a rename that never replaces, and the marker goes.
CanPublish == staging[id].dir /\ ~dst.dir /\ Mounted("target")

Publish ==
    /\ pc = "publish" /\ CanPublish
    /\ dst' = staging[id] /\ origin' = "ours"
    /\ staging' = [staging EXCEPT ![id] = Gone] /\ marked' = marked \ {id}
    /\ pc' = "compare" /\ job' = [job EXCEPT !.next = "published"]
    /\ UNCHANGED <<world, src, journal, index, rival, rooted, away, boot, bounds>>

PublishFails ==
    /\ pc = "publish"
    /\ IF CanPublish THEN Fails("io") ELSE Works
    /\ CleanStaging(id)
    /\ IF job.how = "first" THEN Unless("db", Delete(id)) ELSE UNCHANGED journal
    /\ Over
    /\ UNCHANGED <<world, src, dst, origin, index, rival, rooted, away, boot, started, edits>>

\* cleanup_source.  Windows first compares the trees, then deletes file by
\* file what it has pinned and compared again; Unix keeps the source.
Cleaned(all) == job' = [job EXCEPT !.removed = all, !.todo = {}] /\ pc' = job.next
Contained    == src.dir /\ dst.dir /\ \A f \in Files : src.of[f] \in {0, dst.of[f]}
\* Mutant: files are compared by their names alone.
SameNamed(f) == f \in Files
Same(f)      == src.of[f] = dst.of[f]

CompareTrees ==
    /\ pc = "compare"
    /\ \/ /\ world.windows /\ away = {} /\ Contained
          /\ pc' = "delete" /\ job' = [job EXCEPT !.todo = {f \in Files : src.of[f] # 0}]
          /\ Works
       \/ /\ IF world.windows /\ away = {} /\ Contained THEN Fails("io") ELSE Works
          /\ Cleaned(FALSE)
    /\ UNCHANGED <<world, disk, journal, index, rival, rooted, away, boot, started, edits>>

DeleteFile(f) ==
    /\ pc = "delete" /\ f \in job.todo
    /\ \/ /\ away = {} /\ Same(f) /\ Works
          /\ src' = [src EXCEPT !.of[f] = 0]
          /\ job' = [job EXCEPT !.todo = @ \ {f}] /\ UNCHANGED pc
       \/ /\ IF away = {} /\ Same(f) THEN Fails("io") ELSE Works
          /\ Cleaned(FALSE) /\ UNCHANGED src
    /\ UNCHANGED <<world, dst, origin, staging, marked, journal, index, rival, rooted, away, boot,
                   started, edits>>

\* The directory itself goes only if it is empty.
DeleteDir ==
    /\ pc = "delete" /\ job.todo = {}
    /\ \/ /\ away = {} /\ src.of = NoFiles /\ Works
          /\ src' = Gone /\ Cleaned(TRUE)
       \/ /\ IF away = {} /\ src.of = NoFiles THEN Fails("io") ELSE Works
          /\ Cleaned(FALSE) /\ UNCHANGED src
    /\ UNCHANGED <<world, dst, origin, staging, marked, journal, index, rival, rooted, away, boot,
                   started, edits>>

SetPublished ==
    /\ pc = "published"
    /\ TryStage(id, "published") /\ Goto("rewrite")
    /\ UNCHANGED <<world, disk, index, rival, rooted, away, boot, started, edits>>

\* apply_move_db, one transaction.  A directory indexed at the target path
\* violates UNIQUE(root_id, rel_path).
Rewritable == index = "source" => ~rival

Rewrite ==
    /\ pc = "rewrite" /\ Rewritable
    /\ index' = IF index = "source" THEN "target" ELSE index
    /\ Goto("settle")
    /\ UNCHANGED <<world, disk, journal, rival, rooted, away, boot, bounds>>

RewriteFails ==
    /\ pc = "rewrite"
    /\ IF Rewritable THEN Fails("db") ELSE Works
    /\ IF job.how = "first" THEN UNCHANGED journal ELSE Unless("db", SetStage(id, "published"))
    /\ Over
    /\ UNCHANGED <<world, disk, index, rival, rooted, away, boot, started, edits>>

\* The end of execute_move, and of finish_entry: what becomes of the source.
Settle ==
    /\ pc = "settle"
    /\ \/ /\ job.how = "first" /\ Over
          /\ IF job.removed THEN TryDelete(id) ELSE TryStage(id, "source_leftover")
       \/ /\ job.how # "first"
          /\ \E s \in Sight(src, "source") :
               CASE s = "absent" -> TryDelete(id) /\ Over
                 [] s = "exists" /\ world.windows /\ job.how = "retry" ->
                      /\ pc' = "compare" /\ job' = [job EXCEPT !.next = "done"]
                      /\ UNCHANGED journal /\ Works
                 [] OTHER -> TryStage(id, "source_leftover") /\ Over
    /\ UNCHANGED <<world, disk, index, rival, rooted, away, boot, started, edits>>

SettleCleaned ==
    /\ pc = "done" /\ Over
    /\ IF job.removed THEN CleanStaging(id) /\ TryDelete(id)
                      ELSE UNCHANGED <<staging, marked>> /\ TryStage(id, "source_leftover")
    /\ UNCHANGED <<world, src, dst, origin, index, rival, rooted, away, boot, started, edits>>

(***************************************************************************)
(* Recovery (finish_entry): at the start without touching files, by the    *)
(* user's retry with everything.                                           *)
(***************************************************************************)
\* Mutant: any tree will do if there is a digest.
AnyTree(i) == journal[i].digest.dir
Matches(i) == journal[i].digest.dir /\ dst.of = journal[i].digest.of
Reusable(i) == /\ journal[i].digest.dir /\ i \in marked
               /\ staging[i].dir /\ staging[i].of = journal[i].digest.of

Resume(i, how, place) ==
    /\ pc' = place /\ job' = [NoJob EXCEPT !.move = i, !.how = how]
    /\ UNCHANGED <<staging, marked, journal>> /\ Works
Keep == Over /\ UNCHANGED <<staging, marked, journal>> /\ Works
Drop(i) == TryDelete(i) /\ Over /\ UNCHANGED <<staging, marked>>

\* A row whose target was published: the target must be there, and on a retry
\* be what was written.
FinishPublished(i, how) ==
    IF dst.dir /\ (how = "retry" /\ journal[i].digest.dir => Matches(i))
    THEN Resume(i, how, "rewrite") ELSE Keep

\* The target of an intent is ours if it matches the digest, which only a
\* retry reads, or, without a digest, if the source is gone.
\* Mutant: a target is claimed by its digest only.
ClaimsMatching(i, how, s) == how = "retry" /\ Matches(i)
Claims(i, how, s) ==
    IF journal[i].digest.dir THEN how = "retry" /\ Matches(i) ELSE s = "absent"

FinishIntent(i, how) ==
    \E s \in Sight(src, "source") :
        CASE s # "unknown" /\ dst.dir ->
               IF Claims(i, how, s) THEN Resume(i, how, "rewrite") ELSE Keep
          [] s = "absent" /\ ~dst.dir ->
               IF Mounted("source") THEN Drop(i) ELSE Keep
          [] s = "exists" /\ ~dst.dir ->
               IF how = "boot" THEN Keep
               ELSE IF Reusable(i) THEN Resume(i, how, "publish")
               ELSE /\ pc' = "stage" /\ job' = [NoJob EXCEPT !.move = i, !.how = how]
                    /\ CleanStaging(i) /\ UNCHANGED journal
                    /\ IF Cleanable(i) /\ staging'[i].dir THEN Fails("io") ELSE Works
          [] OTHER -> Keep

Finish(i, how) ==
    /\ Pending(i)
    /\ CASE ~rooted -> Drop(i)
         [] rooted /\ ~Mounted("target") -> Keep
         [] rooted /\ Mounted("target") /\ journal[i].stage = "intent" -> FinishIntent(i, how)
         [] OTHER -> FinishPublished(i, how)
    /\ UNCHANGED <<world, src, dst, origin, index, rival, rooted, away, started, edits>>

\* retry_directory_move.
Retry(i) == pc = "idle" /\ Finish(i, "retry") /\ UNCHANGED boot

\* recover_pending: the rows in the order of their ids.
RecoverNext ==
    /\ pc = "boot" /\ boot # {}
    /\ \E i \in boot : /\ \A k \in boot : i <= k
                       /\ boot' = boot \ {i} /\ Finish(i, "boot")

Ready ==
    /\ pc = "boot" /\ boot = {}
    /\ pc' = "idle"
    /\ UNCHANGED <<world, disk, journal, index, rival, rooted, away, job, boot, bounds>>

Start ==
    /\ pc = "off"
    /\ pc' = "boot" /\ boot' = {i \in Moves : Pending(i)}
    /\ UNCHANGED <<world, disk, journal, index, rival, rooted, away, job, bounds>>

Crash ==
    /\ pc # "off" /\ Fails("crash")
    /\ pc' = "off" /\ job' = NoJob /\ boot' = {}
    /\ UNCHANGED <<world, disk, journal, index, rival, rooted, away, started, edits>>

(***************************************************************************)
(* What happens around it.                                                 *)
(***************************************************************************)
\* The user writes a new version of a file, at the source or at the target.
Edit(f) ==
    /\ Happens("edit") /\ edits < MaxEdits /\ edits' = edits + 1
    /\ \/ Mounted("source") /\ src.dir /\ src' = [src EXCEPT !.of[f] = edits'] /\ UNCHANGED dst
       \/ Mounted("target") /\ dst.dir /\ dst' = [dst EXCEPT !.of[f] = edits'] /\ UNCHANGED src
    /\ UNCHANGED <<world, origin, staging, marked, journal, index, rival, rooted, away, pc, job, boot,
                   started, faults>>

\* Another program makes a directory of that name at the target.
Foreign(f) ==
    /\ Happens("foreign") /\ Mounted("target") /\ ~dst.dir
    /\ edits < MaxEdits /\ edits' = edits + 1
    /\ dst' = [Made EXCEPT !.of[f] = edits'] /\ origin' = "foreign"
    /\ UNCHANGED <<world, src, staging, marked, journal, index, rival, rooted, away, pc, job, boot,
                   started, faults>>

\* A scan of the target root, which no move runs beside, inserts a row for a
\* directory it does not know (upsert_directory).
Scan ==
    /\ Happens("scan") /\ pc = "idle" /\ rooted
    /\ Mounted("target") /\ dst.dir /\ index # "target" /\ ~rival
    /\ rival' = TRUE
    /\ UNCHANGED <<world, disk, journal, index, rooted, away, pc, job, boot, bounds>>

\* The user removes the target root from the library.
Unroot ==
    /\ Happens("unroot") /\ pc = "idle" /\ rooted
    /\ rooted' = FALSE /\ rival' = FALSE
    /\ index' = IF index = "target" THEN "none" ELSE index
    /\ UNCHANGED <<world, disk, journal, away, pc, job, boot, bounds>>

Volume(side) == IF world.near THEN Sides ELSE {side}
Unmount(side) ==
    /\ Happens(IF side = "source" THEN "sourceAway" ELSE "targetAway") /\ Mounted(side)
    /\ away' = away \cup Volume(side)
    /\ UNCHANGED <<world, disk, journal, index, rival, rooted, pc, job, boot, bounds>>
Mount(side) ==
    /\ ~Mounted(side)
    /\ away' = away \ Volume(side)
    /\ UNCHANGED <<world, disk, journal, index, rival, rooted, pc, job, boot, bounds>>

Step ==
    \/ RenameInPlace \/ RenameImpossible \/ RenameRefused
    \/ PrepareStaging \/ PrepareFails \/ MarkStaging
    \/ (\E f \in Files : CopyFile(f)) \/ CopyFails \/ Persist
    \/ Publish \/ PublishFails
    \/ CompareTrees \/ (\E f \in Files : DeleteFile(f)) \/ DeleteDir
    \/ SetPublished \/ Rewrite \/ RewriteFails \/ Settle \/ SettleCleaned
    \/ RecoverNext \/ Ready

User == \/ \E f \in Files : Edit(f) \/ Foreign(f)
        \/ Scan \/ Unroot
        \/ \E side \in Sides : Unmount(side) \/ Mount(side)

Next == Begin \/ Step \/ (\E i \in Moves : Retry(i)) \/ Start \/ Crash \/ User

Spec == Init /\ [][Next]_vars

\* The program runs on, is started again, and the user retries what is pending.
FairSpec == /\ Spec /\ WF_vars(Step) /\ WF_vars(Start)
            /\ \A i \in Moves : SF_vars(Retry(i))

(***************************************************************************)
(* Properties.                                                             *)
(***************************************************************************)
TypeOK ==
    /\ world \in World
    /\ src \in Tree /\ dst \in Tree /\ origin \in {"nobody", "ours", "foreign"}
    /\ staging \in [Moves -> Tree] /\ marked \subseteq Moves
    /\ journal \in [Moves -> Row]
    /\ index \in {"source", "target", "none"} /\ rival \in BOOLEAN /\ rooted \in BOOLEAN
    /\ away \subseteq Sides
    /\ pc \in Places /\ job \in Job /\ boot \subseteq Moves
    /\ (pc \notin {"off", "boot", "idle"}) => id \in Moves
    /\ started \in 0 .. MaxMoves /\ edits \in Nat /\ faults \in Nat

Contents == {<<f, src.of[f]>> : f \in Files} \cup {<<f, dst.of[f]>> : f \in Files}

\* The program never destroys the last copy of a file: whatever version of a
\* file is at the source or at the target is still at one of them after each of
\* its steps, and after a crash.
NoVersionLost == [][~User => Contents \ (Files \X {0}) \subseteq Contents']_vars

Whole(tree) == tree.dir /\ \A f \in Files : tree.of[f] # 0

\* A move that is half done is in the journal: if the index has the directory
\* where it is no longer whole, or has it at the target while the source is
\* still there, a row remains to finish it.  The second half needs a source
\* that is not unmounted: see LeftoversPending.
SomeRow  == \E i \in Moves : Pending(i)
MayLeave == Happens("sourceAway") \/ (world.near /\ Happens("targetAway"))
HalfMovesPending ==
    rooted => /\ index = "source" /\ ~Whole(src) => SomeRow
              /\ index = "target" /\ src.dir /\ ~MayLeave => SomeRow

\* The same for every source: one that is left behind is not forgotten while
\* its volume is away.
LeftoversPending == rooted /\ index = "target" /\ src.dir => SomeRow

\* The index never takes over a directory that the program did not put there,
\* if the source stays mounted or no other program makes directories.
IndexedIsOurs == index = "target" /\ (MayLeave => ~Happens("foreign")) => origin = "ours"

\* If only the program and its faults are at work, every interrupted move ends,
\* but for a source that Unix leaves to the user, and for a staging directory
\* that lost its marker before it was written: nobody removes that one.
Stuck(i) == \/ index = "target" /\ src.dir /\ ~world.windows
            \/ staging[i].dir /\ i \notin marked
MovesConverge == world.events = {} => \A i \in Moves : <>[](Pending(i) => Stuck(i))
=============================================================================
