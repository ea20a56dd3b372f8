---------------------------- MODULE DirMove_proofs ----------------------------
(***************************************************************************)
(* Theorems about DirMove, for every set of files, every number of moves   *)
(* and faults, and every instance.                                         *)
(***************************************************************************)
EXTENDS DirMove, TLAPS

USE MoveAssumption

-----------------------------------------------------------------------------
(* The inductive invariant                                                 *)

First == job.how = "first"
Early == pc \in {"rename", "stage", "mark", "copy", "publish"}
Late  == pc \in {"compare", "delete", "published", "rewrite", "settle", "done"}
Calm  == MayLeave => ~Happens("foreign")

\* Rows, and the one in hand.
Rows ==
    /\ \A i \in Moves : Pending(i) => i <= started
    /\ (Early \/ Late) => id \in Moves /\ Pending(id)
    /\ pc \in {"off", "boot", "idle"} => job = NoJob
    /\ Early /\ First => index = "source"
    /\ Early \/ Late => rooted
    /\ pc \in {"settle", "done"} => index # "source"
    /\ pc = "rename" => First
    /\ pc = "done" => job.how = "retry"
    /\ pc = "compare" \/ pc = "delete" =>
          job.next = "published" \/ (job.next = "done" /\ index # "source" /\ job.how = "retry")

\* What is where.
Trees ==
    /\ ~dst.dir => dst.of = NoFiles
    /\ origin = "nobody" <=> ~dst.dir
    /\ ~src.dir \/ Late => dst.dir
    /\ job.removed => ~src.dir
    /\ ~MayLeave => Mounted("source")

\* A move that is over half way, and has not reached the index, has a row that
\* no step of its own deletes.
Owner == \E j \in Moves : Pending(j) /\ (First /\ Early => j # id)
Half  == rooted /\ index = "source" /\ ~Whole(src) => Owner

HalfInv == TypeOK /\ Rows /\ Trees /\ Half /\ HalfMovesPending

-----------------------------------------------------------------------------
(* Updates of trees, rows and jobs                                         *)

LEMMA Blanks ==
  /\ Gone \in Tree /\ Made \in Tree /\ NoRow \in Row /\ NoJob \in Job
  /\ ~Gone.dir /\ Made.dir /\ Gone.of = NoFiles /\ NoRow.stage = "none"
  /\ NoJob.how = "first" /\ ~NoJob.removed /\ NoJob.move = 0
BY DEF Gone, Made, Tree, NoFiles, NoRow, Row, NoJob, Job

\* A new version of one file.
LEMMA TreeUpdate ==
  ASSUME NEW t \in Tree, NEW f \in Files, NEW n \in Nat
  PROVE  /\ [t EXCEPT !.of[f] = n] \in Tree
         /\ [t EXCEPT !.of[f] = n].dir = t.dir
         /\ \A g \in Files : [t EXCEPT !.of[f] = n].of[g] = IF g = f THEN n ELSE t.of[g]
BY DEF Tree

LEMMA FreshUpdate ==
  ASSUME NEW f \in Files, NEW n \in Nat
  PROVE  /\ [Made EXCEPT !.of[f] = n] \in Tree
         /\ [Made EXCEPT !.of[f] = n].dir
BY Blanks, TreeUpdate

LEMMA StagingUpdate ==
  ASSUME NEW s \in [Moves -> Tree], NEW i \in Moves, NEW f \in Files, NEW n \in Nat, NEW t \in Tree
  PROVE  /\ [s EXCEPT ![i] = t] \in [Moves -> Tree]
         /\ [s EXCEPT ![i].of[f] = n] \in [Moves -> Tree]
<1>1. s[i] \in Tree
  OBVIOUS
<1>2. [s[i] EXCEPT !.of[f] = n] \in Tree
  BY <1>1, TreeUpdate
<1> QED
  BY <1>2

LEMMA JobUpdate ==
  ASSUME NEW j \in Job, NEW t \in SUBSET Files, NEW b \in BOOLEAN, NEW n \in {"published", "done"}
  PROVE  /\ [j EXCEPT !.removed = b] \in Job
         /\ [j EXCEPT !.todo = t] \in Job
         /\ [j EXCEPT !.next = n] \in Job
         /\ [j EXCEPT !.removed = b, !.todo = t] \in Job
BY DEF Job

LEMMA NewJob ==
  ASSUME NEW i \in Moves, NEW h \in {"first", "retry", "boot"}
  PROVE  /\ [NoJob EXCEPT !.move = i] \in Job
         /\ [NoJob EXCEPT !.move = i, !.how = h] \in Job
         /\ [NoJob EXCEPT !.move = i, !.how = h].how = h
         /\ [NoJob EXCEPT !.move = i, !.how = h].move = i
         /\ ~[NoJob EXCEPT !.move = i, !.how = h].removed
<1>1. i \in Nat
  BY DEF Moves
<1> QED
  BY <1>1 DEF NoJob, Job

\* What becomes of the rows when one of them is written, advanced or deleted.
LEMMA JournalStep ==
  ASSUME TypeOK, NEW i \in Moves,
         \/ Insert(i) \/ Delete(i) \/ SetStage(i, "published") \/ SetStage(i, "source_leftover")
         \/ UNCHANGED journal
  PROVE  /\ journal' \in [Moves -> Row]
         /\ \A k \in Moves : k # i => (Pending(k)' <=> Pending(k))
         /\ UNCHANGED journal => (Pending(i)' <=> Pending(i))
<1>1. journal \in [Moves -> Row] /\ journal[i] \in Row
  BY DEF TypeOK
<1> DEFINE Kept == /\ journal' \in [Moves -> Row]
                   /\ \A k \in Moves : k # i => (Pending(k)' <=> Pending(k))
<1>2. Insert(i) => Kept
  BY <1>1, Blanks DEF Insert, Row, Pending
<1>3. Delete(i) => Kept
  BY <1>1, Blanks DEF Delete, Pending
<1>4. ASSUME NEW s \in {"published", "source_leftover"}, SetStage(i, s)
      PROVE  Kept
  <2>1. [journal[i] EXCEPT !.stage = s] \in Row
    BY <1>1 DEF Row
  <2>2. journal' = [journal EXCEPT ![i] = [journal[i] EXCEPT !.stage = s]]
    BY <1>1, <1>4 DEF SetStage
  <2> QED
    BY <1>1, <2>1, <2>2 DEF Pending
<1>5. UNCHANGED journal => Kept /\ (Pending(i)' <=> Pending(i))
  BY <1>1 DEF Pending
<1> QED
  BY <1>2, <1>3, <1>4, <1>5

LEMMA StageStep ==
  ASSUME TypeOK, NEW i \in Moves, NEW s \in {"published", "source_leftover"}, SetStage(i, s)
  PROVE  Pending(i)'
<1>1. journal \in [Moves -> Row] /\ journal[i] \in Row
  BY DEF TypeOK
<1>2. [journal[i] EXCEPT !.stage = s].stage = s
  BY <1>1 DEF Row
<1>3. journal' = [journal EXCEPT ![i] = [journal[i] EXCEPT !.stage = s]]
  BY <1>1 DEF SetStage
<1> QED
  BY <1>1, <1>2, <1>3 DEF Pending

\* The digest is written into a row that stays.
LEMMA DigestStep ==
  ASSUME TypeOK, NEW i \in Moves, journal' = [journal EXCEPT ![i].digest = staging[i]]
  PROVE  /\ journal' \in [Moves -> Row]
         /\ \A k \in Moves : Pending(k)' <=> Pending(k)
<1>1. journal[i] \in Row /\ staging[i] \in Tree /\ journal \in [Moves -> Row]
  BY DEF TypeOK
<1>2. /\ [journal[i] EXCEPT !.digest = staging[i]] \in Row
      /\ [journal[i] EXCEPT !.digest = staging[i]].stage = journal[i].stage
  BY <1>1 DEF Row
<1>3. journal' = [journal EXCEPT ![i] = [journal[i] EXCEPT !.digest = staging[i]]]
  BY <1>1
<1> QED
  BY <1>1, <1>2, <1>3 DEF Pending

LEMMA CleanStep ==
  ASSUME TypeOK, NEW i \in Moves, CleanStaging(i)
  PROVE  staging' \in [Moves -> Tree] /\ marked' \subseteq Moves
BY Blanks DEF CleanStaging, TypeOK

\* A recovery leaves its row alone, deletes it when nothing is left to do, or
\* takes it in hand.
Takes(i, how, place) ==
  /\ pc' = place /\ job' = [NoJob EXCEPT !.move = i, !.how = how]
  /\ UNCHANGED journal
  /\ CleanStaging(i) \/ UNCHANGED <<staging, marked>>
Leaves(i) ==
  /\ Over /\ UNCHANGED <<staging, marked>>
  /\ \/ UNCHANGED journal
     \/ Delete(i) /\ (rooted => ~src.dir /\ ~dst.dir)

LEMMA FinishStep ==
  ASSUME HalfInv, NEW i \in Moves, NEW how \in {"retry", "boot"}, Finish(i, how)
  PROVE  /\ Pending(i) /\ faults' \in Nat
         /\ UNCHANGED <<world, src, dst, origin, index, rival, rooted, away, started, edits>>
         /\ \/ Leaves(i)
            \/ rooted /\ \E place \in {"rewrite", "publish", "stage"} :
                             Takes(i, how, place) /\ (place = "rewrite" => dst.dir)
<1> USE DEF HalfInv
<1>1. /\ Pending(i) /\ faults' \in Nat
      /\ UNCHANGED <<world, src, dst, origin, index, rival, rooted, away, started, edits>>
  BY DEF Finish, FinishIntent, FinishPublished, Resume, Keep, Drop, TryDelete, Fails, Works, TypeOK
<1>2. Keep => Leaves(i)
  BY DEF Keep, Leaves
<1>3. \A place : Resume(i, how, place) => Takes(i, how, place)
  BY DEF Resume, Takes
<1>4. Drop(i) /\ (rooted => ~src.dir /\ ~dst.dir) => Leaves(i)
  BY DEF Drop, TryDelete, Leaves
<1>5. CASE ~rooted
  BY <1>1, <1>4, <1>5 DEF Finish
<1>6. CASE rooted /\ ~Mounted("target")
  BY <1>1, <1>2, <1>6 DEF Finish
<1>7. CASE rooted /\ Mounted("target") /\ journal[i].stage # "intent"
  BY <1>1, <1>2, <1>3, <1>7 DEF Finish, FinishPublished
<1>8. CASE rooted /\ Mounted("target") /\ journal[i].stage = "intent"
  <2>1. FinishIntent(i, how)
    BY <1>8 DEF Finish
  <2>2. PICK s \in Sight(src, "source") :
           CASE s # "unknown" /\ dst.dir ->
                  IF Claims(i, how, s) THEN Resume(i, how, "rewrite") ELSE Keep
             [] s = "absent" /\ ~dst.dir ->
                  IF Mounted("source") THEN Drop(i) ELSE Keep
             [] s = "exists" /\ ~dst.dir ->
                  IF how = "boot" THEN Keep
                  ELSE IF Reusable(i) THEN Resume(i, how, "publish")
                  ELSE /\ pc' = "stage" /\ job' = [NoJob EXCEPT !.move = i, !.how = how]
                       /\ CleanStaging(i) /\ UNCHANGED journal
                       /\ IF Cleanable(i) /\ staging'[i].dir THEN Fails("io") ELSE Works
             [] OTHER -> Keep
    BY <2>1 DEF FinishIntent
  <2>3. CASE s # "unknown" /\ dst.dir
    BY <1>1, <1>2, <1>3, <1>8, <2>2, <2>3
  <2>4. CASE s = "absent" /\ ~dst.dir
    <3>1. Mounted("source") => ~src.dir
      BY <2>2, <2>4 DEF Sight
    <3> QED
      BY <1>1, <1>2, <1>4, <2>2, <2>4, <3>1
  <2>5. CASE s = "exists" /\ ~dst.dir
    <3>1. CASE how = "boot"
      BY <1>1, <1>2, <2>2, <2>5, <3>1
    <3>2. CASE how # "boot" /\ Reusable(i)
      BY <1>1, <1>3, <1>8, <2>2, <2>5, <3>2
    <3>3. CASE how # "boot" /\ ~Reusable(i)
      <4>1. Takes(i, how, "stage")
        BY <2>2, <2>5, <3>3 DEF Takes
      <4> QED
        BY <1>1, <1>8, <4>1
    <3> QED
      BY <3>1, <3>2, <3>3
  <2>6. CASE s = "unknown"
    BY <1>1, <1>2, <2>2, <2>6
  <2> QED
    BY <2>2, <2>3, <2>4, <2>5, <2>6 DEF Sight
<1> QED
  BY <1>5, <1>6, <1>7, <1>8

-----------------------------------------------------------------------------
(* Each step keeps the invariant                                           *)

LEMMA RenameInPlaceKeeps ==
  ASSUME HalfInv, RenameInPlace
  PROVE  HalfInv'
<1> USE DEF HalfInv
<1>1. TypeOK'
  <2>1. src' \in Tree
    BY TreeUpdate, FreshUpdate, Blanks DEF RenameInPlace, TypeOK, Rows,
       Early, Late, Tree
  <2>2. dst' \in Tree
    BY TreeUpdate, FreshUpdate, Blanks DEF RenameInPlace, TypeOK, Rows,
       Early, Late, Tree
  <2>3. job' \in Job
    BY Blanks DEF RenameInPlace, TypeOK, Job
  <2>4. pc' \in Places
    BY DEF RenameInPlace, TypeOK, Places
  <2>5. (pc \notin {"off", "boot", "idle"} => id \in Moves)'
    BY DEF RenameInPlace, TypeOK, Rows, Early, Late, Job, NoJob, id
  <2> QED
    BY <2>1, <2>2, <2>3, <2>4, <2>5 DEF RenameInPlace, TypeOK, vars, disk,
       bounds
<1>2. Rows'
  BY DEF RenameInPlace, TypeOK, Rows, vars, disk, bounds, First, Early,
     Late, Pending, Job, NoJob, Moves, id
<1>3. Trees'
  BY DEF RenameInPlace, Mounted, TypeOK, Rows, Trees, vars, disk, bounds,
     MayLeave, Happens, Tree, Job, NoJob, Gone, Made, NoFiles, Early, Late,
     id
<1>4. Half'
  BY DEF RenameInPlace, Mounted, Half, Owner, TypeOK, Rows, Trees, vars,
     disk, bounds, First, Early, Late, Pending, MayLeave, Happens, Whole,
     Tree, Job, NoJob, Gone, Moves, id
<1>5. HalfMovesPending'
  BY <1>4 DEF RenameInPlace, Mounted, Half, Owner, HalfMovesPending,
     SomeRow, TypeOK, Rows, Trees, vars, disk, bounds, First, Early, Late,
     Pending, MayLeave, Happens, Whole, Tree, Job, NoJob, Gone, Moves, id
<1> QED
  BY <1>1, <1>2, <1>3, <1>4, <1>5

LEMMA RenameImpossibleKeeps ==
  ASSUME HalfInv, RenameImpossible
  PROVE  HalfInv'
<1> USE DEF HalfInv
<1>1. TypeOK'
  <2>1. pc' \in Places
    BY DEF RenameImpossible, Goto, TypeOK, Places
  <2>2. faults' \in Nat
    BY DEF RenameImpossible, Fails, Works, Goto, TypeOK
  <2>3. (pc \notin {"off", "boot", "idle"} => id \in Moves)'
    BY DEF RenameImpossible, Fails, Works, Goto, TypeOK, Rows, Early, Late,
       Job, NoJob, id
  <2> QED
    BY <2>1, <2>2, <2>3 DEF RenameImpossible, Goto, TypeOK, vars, disk,
       bounds
<1>2. Rows'
  BY DEF RenameImpossible, Fails, Works, Goto, TypeOK, Rows, vars, disk,
     bounds, First, Early, Late, Pending, Job, NoJob, Moves, id
<1>3. Trees'
  BY DEF RenameImpossible, Fails, Works, Goto, Mounted, TypeOK, Rows, Trees,
     vars, disk, bounds, MayLeave, Happens, Tree, Job, NoJob, Gone, Made,
     NoFiles, Early, Late, id
<1>4. Half'
  BY DEF RenameImpossible, Fails, Works, Goto, Mounted, Half, Owner, TypeOK,
     Rows, Trees, vars, disk, bounds, First, Early, Late, Pending, MayLeave,
     Happens, Tree, Job, NoJob, Gone, Moves, id
<1>5. HalfMovesPending'
  BY <1>4 DEF RenameImpossible, Fails, Works, Goto, Mounted, Half, Owner,
     HalfMovesPending, SomeRow, TypeOK, Rows, Trees, vars, disk, bounds,
     First, Early, Late, Pending, MayLeave, Happens, Tree, Job, NoJob, Gone,
     Moves, id
<1> QED
  BY <1>1, <1>2, <1>3, <1>4, <1>5

LEMMA RenameRefusedKeeps ==
  ASSUME HalfInv, RenameRefused
  PROVE  HalfInv'
<1> USE DEF HalfInv
<1>a. id \in Moves /\ Pending(id)
  BY DEF RenameRefused, Rows, Early, Late
<1> SUFFICES ASSUME NEW i \in Moves, i = id
             PROVE  HalfInv'
  BY <1>a
<1>r. Pending(i)
  BY <1>a
<1>b. Delete(i) \/ UNCHANGED journal
  BY DEF RenameRefused, TryDelete
<1>c. /\ journal' \in [Moves -> Row]
      /\ \A k \in Moves : k # i => (Pending(k)' <=> Pending(k))
      /\ UNCHANGED journal => Pending(i)'
  BY <1>r, <1>b, JournalStep
<1>1. TypeOK'
  <2>1. job' \in Job
    BY <1>r, <1>b, <1>c, Blanks DEF RenameRefused, Over, Fails, Works,
       TypeOK
  <2>2. pc' \in Places
    BY DEF RenameRefused, Over, TypeOK, Places
  <2>3. faults' \in Nat
    BY <1>r, <1>b, <1>c DEF RenameRefused, TryDelete, Fails, Works, Over,
       Mounted, TypeOK
  <2>4. (pc \notin {"off", "boot", "idle"} => id \in Moves)'
    BY <1>r, <1>c DEF RenameRefused, TryDelete, Fails, Works, Over, Mounted,
       TypeOK, Rows, Early, Late, Job, NoJob, id
  <2> QED
    BY <1>r, <1>c, <2>1, <2>2, <2>3, <2>4 DEF RenameRefused, Over, TypeOK,
       vars, disk, bounds
<1>2. Rows'
  BY <1>r, <1>b, <1>c DEF RenameRefused, TryDelete, Fails, Works, Over,
     Mounted, TypeOK, Rows, vars, disk, bounds, First, Early, Late, Job,
     NoJob, Moves, id
<1>3. Trees'
  BY <1>r, <1>b, <1>c DEF RenameRefused, TryDelete, Fails, Works, Over,
     Mounted, TypeOK, Rows, Trees, vars, disk, bounds, MayLeave, Happens,
     Tree, Job, NoJob, Gone, Made, NoFiles, Early, Late, id
<1>4. Half'
  BY <1>r, <1>b, <1>c DEF RenameRefused, TryDelete, Fails, Works, Over,
     Mounted, Half, Owner, TypeOK, Rows, Trees, vars, disk, bounds, First,
     Early, Late, MayLeave, Happens, Tree, Job, NoJob, Gone, Moves, id
<1>5. HalfMovesPending'
  BY <1>r, <1>b, <1>c, <1>4 DEF RenameRefused, TryDelete, Fails, Works,
     Over, Mounted, Half, Owner, HalfMovesPending, SomeRow, TypeOK, Rows,
     Trees, vars, disk, bounds, First, Early, Late, MayLeave, Happens, Tree,
     Job, NoJob, Gone, Moves, id
<1> QED
  BY <1>1, <1>2, <1>3, <1>4, <1>5

LEMMA PrepareStagingKeeps ==
  ASSUME HalfInv, PrepareStaging
  PROVE  HalfInv'
<1> USE DEF HalfInv
<1>1. TypeOK'
  <2>1. staging' \in [Moves -> Tree]
    BY StagingUpdate, Blanks DEF PrepareStaging, CanStage, Goto, Mounted,
       TypeOK, Rows, Early, Late, Tree
  <2>2. pc' \in Places
    BY DEF PrepareStaging, Goto, TypeOK, Places
  <2>3. (pc \notin {"off", "boot", "idle"} => id \in Moves)'
    BY DEF PrepareStaging, CanStage, Goto, Mounted, TypeOK, Rows, Early,
       Late, Job, NoJob, id
  <2> QED
    BY <2>1, <2>2, <2>3 DEF PrepareStaging, Goto, TypeOK, vars, disk, bounds
<1>2. Rows'
  BY DEF PrepareStaging, CanStage, Goto, Mounted, TypeOK, Rows, vars, disk,
     bounds, First, Early, Late, Pending, Job, NoJob, Moves, id
<1>3. Trees'
  BY DEF PrepareStaging, CanStage, Goto, Mounted, TypeOK, Rows, Trees, vars,
     disk, bounds, MayLeave, Happens, Tree, Job, NoJob, Gone, Made, NoFiles,
     Early, Late, id
<1>4. Half'
  BY DEF PrepareStaging, CanStage, Goto, Mounted, Half, Owner, TypeOK, Rows,
     Trees, vars, disk, bounds, First, Early, Late, Pending, MayLeave,
     Happens, Tree, Job, NoJob, Gone, Moves, id
<1>5. HalfMovesPending'
  BY <1>4 DEF PrepareStaging, CanStage, Goto, Mounted, Half, Owner,
     HalfMovesPending, SomeRow, TypeOK, Rows, Trees, vars, disk, bounds,
     First, Early, Late, Pending, MayLeave, Happens, Tree, Job, NoJob, Gone,
     Moves, id
<1> QED
  BY <1>1, <1>2, <1>3, <1>4, <1>5

LEMMA PrepareFailsKeeps ==
  ASSUME HalfInv, PrepareFails
  PROVE  HalfInv'
<1> USE DEF HalfInv
<1>1. TypeOK'
  <2>1. job' \in Job
    BY Blanks DEF PrepareFails, Over, Fails, Works, TypeOK
  <2>2. pc' \in Places
    BY DEF PrepareFails, Over, TypeOK, Places
  <2>3. faults' \in Nat
    BY DEF PrepareFails, CanStage, Fails, Works, Over, TypeOK
  <2>4. (pc \notin {"off", "boot", "idle"} => id \in Moves)'
    BY DEF PrepareFails, CanStage, Fails, Works, Over, TypeOK, Rows, Early,
       Late, Job, NoJob, id
  <2> QED
    BY <2>1, <2>2, <2>3, <2>4 DEF PrepareFails, Over, TypeOK, vars, disk,
       bounds
<1>2. Rows'
  BY DEF PrepareFails, CanStage, Fails, Works, Over, TypeOK, Rows, vars,
     disk, bounds, First, Early, Late, Pending, Job, NoJob, Moves, id
<1>3. Trees'
  BY DEF PrepareFails, CanStage, Fails, Works, Over, Mounted, TypeOK, Rows,
     Trees, vars, disk, bounds, MayLeave, Happens, Tree, Job, NoJob, Gone,
     Made, NoFiles, Early, Late, id
<1>4. Half'
  BY DEF PrepareFails, CanStage, Fails, Works, Over, Mounted, Half, Owner,
     TypeOK, Rows, Trees, vars, disk, bounds, First, Early, Late, Pending,
     MayLeave, Happens, Tree, Job, NoJob, Gone, Moves, id
<1>5. HalfMovesPending'
  BY <1>4 DEF PrepareFails, CanStage, Fails, Works, Over, Mounted, Half,
     Owner, HalfMovesPending, SomeRow, TypeOK, Rows, Trees, vars, disk,
     bounds, First, Early, Late, Pending, MayLeave, Happens, Tree, Job,
     NoJob, Gone, Moves, id
<1> QED
  BY <1>1, <1>2, <1>3, <1>4, <1>5

LEMMA MarkStagingKeeps ==
  ASSUME HalfInv, MarkStaging
  PROVE  HalfInv'
<1> USE DEF HalfInv
<1>1. TypeOK'
  <2>1. staging' \in [Moves -> Tree]
    BY CleanStep DEF MarkStaging, Rows, Early, TypeOK
  <2>2. marked' \subseteq Moves
    BY CleanStep DEF MarkStaging, Rows, Early, TypeOK
  <2>3. job' \in Job
    BY Blanks DEF MarkStaging, Over, Fails, Works, TypeOK, Job
  <2>4. pc' \in Places
    BY DEF MarkStaging, Over, TypeOK, Places
  <2>5. faults' \in Nat
    BY DEF MarkStaging, Fails, Works, CleanStaging, Over, Cleanable, TypeOK
  <2>6. (pc \notin {"off", "boot", "idle"} => id \in Moves)'
    BY DEF MarkStaging, Over, TypeOK, Rows, Early, Late, Job, NoJob, id
  <2> QED
    BY <2>1, <2>2, <2>3, <2>4, <2>5, <2>6 DEF MarkStaging, Over, TypeOK,
       vars, disk, bounds
<1>2. Rows'
  BY DEF MarkStaging, Fails, Works, CleanStaging, Over, Cleanable, TypeOK,
     Rows, vars, disk, bounds, First, Early, Late, Pending, Job, NoJob,
     Moves, id
<1>3. Trees'
  BY DEF MarkStaging, Fails, Works, CleanStaging, Over, Cleanable, Mounted,
     TypeOK, Rows, Trees, vars, disk, bounds, MayLeave, Happens, Tree, Job,
     NoJob, Gone, Made, NoFiles, Early, Late, id
<1>4. Half'
  BY DEF MarkStaging, Fails, Works, CleanStaging, Over, Cleanable, Mounted,
     Half, Owner, TypeOK, Rows, Trees, vars, disk, bounds, First, Early,
     Late, Pending, MayLeave, Happens, Tree, Job, NoJob, Gone, Moves, id
<1>5. HalfMovesPending'
  BY <1>4 DEF MarkStaging, Fails, Works, CleanStaging, Over, Cleanable,
     Mounted, Half, Owner, HalfMovesPending, SomeRow, TypeOK, Rows, Trees,
     vars, disk, bounds, First, Early, Late, Pending, MayLeave, Happens,
     Tree, Job, NoJob, Gone, Moves, id
<1> QED
  BY <1>1, <1>2, <1>3, <1>4, <1>5

LEMMA CopyFileKeeps ==
  ASSUME HalfInv, NEW f \in Files, CopyFile(f)
  PROVE  HalfInv'
<1> USE DEF HalfInv
<1>1. TypeOK'
  <2>1. staging' \in [Moves -> Tree]
    BY StagingUpdate, Blanks DEF CopyFile, TypeOK, Rows, Early, Late, Tree
  <2>2. job' \in Job
    BY Blanks DEF CopyFile, TypeOK, Job
  <2>3. (pc \notin {"off", "boot", "idle"} => id \in Moves)'
    BY DEF CopyFile, TypeOK, Rows, Early, Late, Job, NoJob, id
  <2> QED
    BY <2>1, <2>2, <2>3 DEF CopyFile, TypeOK, vars, disk, bounds
<1>2. Rows'
  BY DEF CopyFile, TypeOK, Rows, vars, disk, bounds, First, Early, Late,
     Pending, Job, NoJob, Moves, id
<1>3. Trees'
  BY DEF CopyFile, Mounted, TypeOK, Rows, Trees, vars, disk, bounds,
     MayLeave, Happens, Tree, Job, NoJob, Gone, Made, NoFiles, Early, Late,
     id
<1>4. Half'
  BY DEF CopyFile, Mounted, Half, Owner, TypeOK, Rows, Trees, vars, disk,
     bounds, First, Early, Late, Pending, MayLeave, Happens, Tree, Job,
     NoJob, Gone, Moves, id
<1>5. HalfMovesPending'
  BY <1>4 DEF CopyFile, Mounted, Half, Owner, HalfMovesPending, SomeRow,
     TypeOK, Rows, Trees, vars, disk, bounds, First, Early, Late, Pending,
     MayLeave, Happens, Tree, Job, NoJob, Gone, Moves, id
<1> QED
  BY <1>1, <1>2, <1>3, <1>4, <1>5

LEMMA CopyFailsKeeps ==
  ASSUME HalfInv, CopyFails
  PROVE  HalfInv'
<1> USE DEF HalfInv
<1>1. TypeOK'
  <2>1. staging' \in [Moves -> Tree]
    BY CleanStep DEF CopyFails, TypeOK, Rows, Early, Late
  <2>2. marked' \subseteq Moves
    BY CleanStep DEF CopyFails, TypeOK, Rows, Early, Late
  <2>3. job' \in Job
    BY Blanks DEF CopyFails, Over, Fails, Works, TypeOK
  <2>4. pc' \in Places
    BY DEF CopyFails, Over, TypeOK, Places
  <2>5. faults' \in Nat
    BY DEF CopyFails, Fails, Works, CleanStaging, Cleanable, Over, TypeOK
  <2>6. (pc \notin {"off", "boot", "idle"} => id \in Moves)'
    BY DEF CopyFails, Fails, Works, CleanStaging, Cleanable, Over, TypeOK,
       Rows, Early, Late, Job, NoJob, id
  <2> QED
    BY <2>1, <2>2, <2>3, <2>4, <2>5, <2>6 DEF CopyFails, Over, TypeOK, vars,
       disk, bounds
<1>2. Rows'
  BY DEF CopyFails, Fails, Works, CleanStaging, Cleanable, Over, TypeOK,
     Rows, vars, disk, bounds, First, Early, Late, Pending, Job, NoJob,
     Moves, id
<1>3. Trees'
  BY DEF CopyFails, Fails, Works, CleanStaging, Cleanable, Over, Mounted,
     TypeOK, Rows, Trees, vars, disk, bounds, MayLeave, Happens, Tree, Job,
     NoJob, Gone, Made, NoFiles, Early, Late, id
<1>4. Half'
  BY DEF CopyFails, Fails, Works, CleanStaging, Cleanable, Over, Mounted,
     Half, Owner, TypeOK, Rows, Trees, vars, disk, bounds, First, Early,
     Late, Pending, MayLeave, Happens, Tree, Job, NoJob, Gone, Moves, id
<1>5. HalfMovesPending'
  BY <1>4 DEF CopyFails, Fails, Works, CleanStaging, Cleanable, Over,
     Mounted, Half, Owner, HalfMovesPending, SomeRow, TypeOK, Rows, Trees,
     vars, disk, bounds, First, Early, Late, Pending, MayLeave, Happens,
     Tree, Job, NoJob, Gone, Moves, id
<1> QED
  BY <1>1, <1>2, <1>3, <1>4, <1>5

LEMMA PersistKeeps ==
  ASSUME HalfInv, Persist
  PROVE  HalfInv'
<1> USE DEF HalfInv
<1>a. id \in Moves /\ Pending(id)
  BY DEF Persist, Rows, Early, Late
<1> SUFFICES ASSUME NEW i \in Moves, i = id
             PROVE  HalfInv'
  BY <1>a
<1>r. Pending(i)
  BY <1>a
<1>c. /\ journal' \in [Moves -> Row]
      /\ \A k \in Moves : Pending(k)' <=> Pending(k)
  <2>1. CASE UNCHANGED journal
    BY <2>1 DEF TypeOK, Pending
  <2>2. CASE ~UNCHANGED journal
    BY <2>2, DigestStep DEF Persist, id
  <2> QED
    BY <2>1, <2>2
<1>1. TypeOK'
  <2>1. job' \in Job
    BY <1>r, <1>c, Blanks DEF Persist, Over, Goto, Fails, Works, TypeOK
  <2>2. pc' \in Places
    BY DEF Persist, Over, Goto, TypeOK, Places
  <2>3. faults' \in Nat
    BY <1>r, <1>c DEF Persist, Goto, Works, Fails, Over, TypeOK
  <2>4. (pc \notin {"off", "boot", "idle"} => id \in Moves)'
    BY <1>r, <1>c DEF Persist, Goto, Works, Fails, Over, TypeOK, Rows,
       Early, Late, Job, NoJob, id
  <2> QED
    BY <1>r, <1>c, <2>1, <2>2, <2>3, <2>4 DEF Persist, Over, Goto, TypeOK,
       vars, disk, bounds
<1>2. Rows'
  BY <1>r, <1>c DEF Persist, Goto, Works, Fails, Over, TypeOK, Rows, vars,
     disk, bounds, First, Early, Late, Job, NoJob, Moves, id
<1>3. Trees'
  BY <1>r, <1>c DEF Persist, Goto, Works, Fails, Over, Mounted, TypeOK,
     Rows, Trees, vars, disk, bounds, MayLeave, Happens, Tree, Job, NoJob,
     Gone, Made, NoFiles, Early, Late, id
<1>4. Half'
  BY <1>r, <1>c DEF Persist, Goto, Works, Fails, Over, Mounted, Half, Owner,
     TypeOK, Rows, Trees, vars, disk, bounds, First, Early, Late, MayLeave,
     Happens, Tree, Job, NoJob, Gone, Moves, id
<1>5. HalfMovesPending'
  BY <1>r, <1>c, <1>4 DEF Persist, Goto, Works, Fails, Over, Mounted, Half,
     Owner, HalfMovesPending, SomeRow, TypeOK, Rows, Trees, vars, disk,
     bounds, First, Early, Late, MayLeave, Happens, Tree, Job, NoJob, Gone,
     Moves, id
<1> QED
  BY <1>1, <1>2, <1>3, <1>4, <1>5

LEMMA PublishKeeps ==
  ASSUME HalfInv, Publish
  PROVE  HalfInv'
<1> USE DEF HalfInv
<1>1. TypeOK'
  <2>1. dst' \in Tree
    BY TreeUpdate, FreshUpdate, Blanks DEF Publish, CanPublish, TypeOK,
       Rows, Early, Late, Tree
  <2>2. staging' \in [Moves -> Tree]
    BY StagingUpdate, Blanks DEF Publish, CanPublish, TypeOK, Rows, Early,
       Late, Tree
  <2>3. marked' \subseteq Moves
    BY DEF Publish, CanPublish, TypeOK, id
  <2>4. job' \in Job
    BY Blanks DEF Publish, TypeOK, Job
  <2>5. pc' \in Places
    BY DEF Publish, TypeOK, Places
  <2>6. (pc \notin {"off", "boot", "idle"} => id \in Moves)'
    BY DEF Publish, TypeOK, Rows, Early, Late, Job, NoJob, id
  <2> QED
    BY <2>1, <2>2, <2>3, <2>4, <2>5, <2>6 DEF Publish, TypeOK, vars, disk,
       bounds
<1>2. Rows'
  <2>1. job' = [job EXCEPT !.next = "published"] /\ job \in Job
    BY DEF Publish, TypeOK
  <2>2. job'.next = "published" /\ job'.move = job.move /\ job'.how = job.how
    BY <2>1 DEF Job
  <2> QED
    BY <2>2 DEF Publish, CanPublish, TypeOK, Rows, vars, disk, bounds, First, Early,
       Late, Pending, Moves, id
<1>3. Trees'
  BY DEF Publish, CanPublish, Mounted, TypeOK, Rows, Trees, vars, disk,
     bounds, MayLeave, Happens, Tree, Job, NoJob, Gone, Made, NoFiles,
     Early, Late, id
<1>4. Half'
  BY DEF Publish, CanPublish, Mounted, Half, Owner, TypeOK, Rows, Trees,
     vars, disk, bounds, First, Early, Late, Pending, MayLeave, Happens,
     Tree, Job, NoJob, Gone, Moves, id
<1>5. HalfMovesPending'
  BY <1>4 DEF Publish, CanPublish, Mounted, Half, Owner, HalfMovesPending,
     SomeRow, TypeOK, Rows, Trees, vars, disk, bounds, First, Early, Late,
     Pending, MayLeave, Happens, Tree, Job, NoJob, Gone, Moves, id
<1> QED
  BY <1>1, <1>2, <1>3, <1>4, <1>5

LEMMA PublishFailsKeeps ==
  ASSUME HalfInv, PublishFails
  PROVE  HalfInv'
<1> USE DEF HalfInv
<1>a. id \in Moves /\ Pending(id)
  BY DEF PublishFails, Rows, Early, Late
<1> SUFFICES ASSUME NEW i \in Moves, i = id
             PROVE  HalfInv'
  BY <1>a
<1>r. Pending(i)
  BY <1>a
<1>b. Delete(i) \/ UNCHANGED journal
  BY DEF PublishFails, TryDelete, Unless
<1>c. /\ journal' \in [Moves -> Row]
      /\ \A k \in Moves : k # i => (Pending(k)' <=> Pending(k))
      /\ UNCHANGED journal => Pending(i)'
  BY <1>r, <1>b, JournalStep
<1>1. TypeOK'
  <2>1. staging' \in [Moves -> Tree]
    BY <1>r, <1>b, <1>c, CleanStep DEF PublishFails, TypeOK, Rows, Early,
       Late
  <2>2. marked' \subseteq Moves
    BY <1>r, <1>b, <1>c, CleanStep DEF PublishFails, TypeOK, Rows, Early,
       Late
  <2>3. job' \in Job
    BY <1>r, <1>b, <1>c, Blanks DEF PublishFails, Over, Fails, Works, TypeOK
  <2>4. pc' \in Places
    BY DEF PublishFails, Over, TypeOK, Places
  <2>5. faults' \in Nat
    BY <1>r, <1>b, <1>c DEF PublishFails, CanPublish, Fails, Works,
       CleanStaging, Cleanable, Unless, Over, TypeOK
  <2>6. (pc \notin {"off", "boot", "idle"} => id \in Moves)'
    BY <1>r, <1>c DEF PublishFails, CanPublish, Fails, Works, CleanStaging,
       Cleanable, Unless, Over, TypeOK, Rows, Early, Late, Job, NoJob, id
  <2> QED
    BY <1>r, <1>c, <2>1, <2>2, <2>3, <2>4, <2>5, <2>6 DEF PublishFails,
       Over, TypeOK, vars, disk, bounds
<1>2. Rows'
  BY <1>r, <1>b, <1>c DEF PublishFails, CanPublish, Fails, Works,
     CleanStaging, Cleanable, Unless, Over, TypeOK, Rows, vars, disk,
     bounds, First, Early, Late, Job, NoJob, Moves, id
<1>3. Trees'
  BY <1>r, <1>b, <1>c DEF PublishFails, CanPublish, Fails, Works,
     CleanStaging, Cleanable, Unless, Over, Mounted, TypeOK, Rows, Trees,
     vars, disk, bounds, MayLeave, Happens, Tree, Job, NoJob, Gone, Made,
     NoFiles, Early, Late, id
<1>4. Half'
  BY <1>r, <1>b, <1>c DEF PublishFails, CanPublish, Fails, Works,
     CleanStaging, Cleanable, Unless, Over, Mounted, Half, Owner, TypeOK,
     Rows, Trees, vars, disk, bounds, First, Early, Late, MayLeave, Happens,
     Tree, Job, NoJob, Gone, Moves, id
<1>5. HalfMovesPending'
  BY <1>r, <1>b, <1>c, <1>4 DEF PublishFails, CanPublish, Fails, Works,
     CleanStaging, Cleanable, Unless, Over, Mounted, Half, Owner,
     HalfMovesPending, SomeRow, TypeOK, Rows, Trees, vars, disk, bounds,
     First, Early, Late, MayLeave, Happens, Tree, Job, NoJob, Gone, Moves,
     id
<1> QED
  BY <1>1, <1>2, <1>3, <1>4, <1>5

LEMMA CompareTreesKeeps ==
  ASSUME HalfInv, CompareTrees
  PROVE  HalfInv'
<1> USE DEF HalfInv
<1>1. TypeOK'
  <2>1. job' \in Job
    <3>1. job \in Job
      BY DEF TypeOK
    <3>2. CASE job' = [job EXCEPT !.todo = {f \in Files : src.of[f] # 0}]
      BY <3>1, <3>2 DEF Job
    <3>3. CASE job' = [job EXCEPT !.removed = FALSE, !.todo = {}]
      BY <3>1, <3>3 DEF Job
    <3> QED
      BY <3>2, <3>3 DEF CompareTrees, Cleaned
  <2>2. pc' \in Places
    BY DEF CompareTrees, Cleaned, TypeOK, Places, Job
  <2>3. faults' \in Nat
    BY DEF CompareTrees, Contained, Works, Fails, Cleaned, TypeOK
  <2>4. (pc \notin {"off", "boot", "idle"} => id \in Moves)'
    BY DEF CompareTrees, Cleaned, TypeOK, Rows, Early, Late, Job, NoJob, id
  <2> QED
    BY <2>1, <2>2, <2>3, <2>4 DEF CompareTrees, Cleaned, TypeOK, vars, disk,
       bounds
<1>2. Rows'
  BY DEF CompareTrees, Contained, Works, Fails, Cleaned, TypeOK, Rows, vars,
     disk, bounds, First, Early, Late, Pending, Job, NoJob, Moves, id
<1>3. Trees'
  BY DEF CompareTrees, Contained, Works, Fails, Cleaned, Mounted, TypeOK,
     Rows, Trees, vars, disk, bounds, MayLeave, Happens, Tree, Job, NoJob,
     Gone, Made, NoFiles, Early, Late, id
<1>4. Half'
  BY DEF CompareTrees, Contained, Works, Fails, Cleaned, Mounted, Half,
     Owner, TypeOK, Rows, Trees, vars, disk, bounds, First, Early, Late,
     Pending, MayLeave, Happens, Tree, Job, NoJob, Gone, Moves, id
<1>5. HalfMovesPending'
  BY <1>4 DEF CompareTrees, Contained, Works, Fails, Cleaned, Mounted, Half,
     Owner, HalfMovesPending, SomeRow, TypeOK, Rows, Trees, vars, disk,
     bounds, First, Early, Late, Pending, MayLeave, Happens, Tree, Job,
     NoJob, Gone, Moves, id
<1> QED
  BY <1>1, <1>2, <1>3, <1>4, <1>5

LEMMA DeleteFileKeeps ==
  ASSUME HalfInv, NEW f \in Files, DeleteFile(f)
  PROVE  HalfInv'
<1> USE DEF HalfInv
<1>1. TypeOK'
  <2>1. src' \in Tree
    BY Blanks DEF DeleteFile, Same, Works, Fails, Cleaned, TypeOK, Rows,
       Early, Late, Tree
  <2>2. job' \in Job
    <3>1. job \in Job
      BY DEF TypeOK
    <3>2. job' = [job EXCEPT !.todo = @ \ {f}] \/ job' = [job EXCEPT !.removed = FALSE, !.todo = {}]
      BY DEF DeleteFile, Cleaned
    <3>3. job.todo \ {f} \in SUBSET Files
      BY <3>1 DEF Job
    <3>4. [job EXCEPT !.todo = job.todo \ {f}] \in Job
      BY <3>1, <3>3 DEF Job
    <3>5. [job EXCEPT !.removed = FALSE, !.todo = {}] \in Job
      BY <3>1 DEF Job
    <3> QED
      BY <3>1, <3>2, <3>4, <3>5
  <2>3. pc' \in Places
    BY DEF DeleteFile, Cleaned, TypeOK, Places, Job
  <2>4. faults' \in Nat
    BY DEF DeleteFile, Same, Works, Fails, Cleaned, TypeOK
  <2>5. (pc \notin {"off", "boot", "idle"} => id \in Moves)'
    BY DEF DeleteFile, Cleaned, TypeOK, Rows, Early, Late, Job, NoJob, id
  <2> QED
    BY <2>1, <2>2, <2>3, <2>4, <2>5 DEF DeleteFile, Cleaned, TypeOK, vars,
       disk, bounds
<1>2. Rows'
  BY DEF DeleteFile, Same, Works, Fails, Cleaned, TypeOK, Rows, vars, disk,
     bounds, First, Early, Late, Pending, Job, NoJob, Moves, id
<1>3. Trees'
  BY DEF DeleteFile, Same, Works, Fails, Cleaned, Mounted, TypeOK, Rows,
     Trees, vars, disk, bounds, MayLeave, Happens, Tree, Job, NoJob, Gone,
     Made, NoFiles, Early, Late, id
<1>4. Half'
  BY DEF DeleteFile, Same, Works, Fails, Cleaned, Mounted, Half, Owner,
     TypeOK, Rows, Trees, vars, disk, bounds, First, Early, Late, Pending,
     MayLeave, Happens, Whole, Tree, Job, NoJob, Gone, Moves, id
<1>5. HalfMovesPending'
  BY <1>4 DEF DeleteFile, Same, Works, Fails, Cleaned, Mounted, Half, Owner,
     HalfMovesPending, SomeRow, TypeOK, Rows, Trees, vars, disk, bounds,
     First, Early, Late, Pending, MayLeave, Happens, Whole, Tree, Job,
     NoJob, Gone, Moves, id
<1> QED
  BY <1>1, <1>2, <1>3, <1>4, <1>5

LEMMA DeleteDirKeeps ==
  ASSUME HalfInv, DeleteDir
  PROVE  HalfInv'
<1> USE DEF HalfInv
<1>1. TypeOK'
  <2>1. src' \in Tree
    BY Blanks DEF DeleteDir, Works, Fails, Cleaned, TypeOK, Rows, Early,
       Late
  <2>2. job' \in Job
    BY Blanks DEF DeleteDir, Cleaned, Fails, Works, TypeOK, Job
  <2>3. pc' \in Places
    BY DEF DeleteDir, Cleaned, TypeOK, Places, Job
  <2>4. faults' \in Nat
    BY DEF DeleteDir, Works, Fails, Cleaned, TypeOK
  <2>5. (pc \notin {"off", "boot", "idle"} => id \in Moves)'
    BY DEF DeleteDir, Cleaned, TypeOK, Rows, Early, Late, Job, NoJob, id
  <2> QED
    BY <2>1, <2>2, <2>3, <2>4, <2>5 DEF DeleteDir, Cleaned, TypeOK, vars,
       disk, bounds
<1>2. Rows'
  BY DEF DeleteDir, Works, Fails, Cleaned, TypeOK, Rows, vars, disk, bounds,
     First, Early, Late, Pending, Job, NoJob, Moves, id
<1>3. Trees'
  <2>1. job \in Job /\ src \in Tree
    BY DEF TypeOK
  <2>2. \/ src' = Gone
        \/ src' = src /\ job' = [job EXCEPT !.removed = FALSE, !.todo = {}]
    BY DEF DeleteDir, Cleaned
  <2>3. job'.removed => ~src'.dir
    BY <2>1, <2>2, Blanks DEF Job
  <2>4. dst.dir /\ dst' = dst /\ origin' = origin /\ world' = world /\ away' = away
    BY DEF DeleteDir, Trees, Late
  <2> QED
    BY <2>3, <2>4 DEF Trees, MayLeave, Happens, Mounted
<1>4. Half'
  BY DEF DeleteDir, Works, Fails, Cleaned, Mounted, Half, Owner, TypeOK,
     Rows, Trees, vars, disk, bounds, First, Early, Late, Pending, MayLeave,
     Happens, Whole, Tree, Job, NoJob, Gone, Moves, id
<1>5. HalfMovesPending'
  BY <1>4 DEF DeleteDir, Works, Fails, Cleaned, Mounted, Half, Owner,
     HalfMovesPending, SomeRow, TypeOK, Rows, Trees, vars, disk, bounds,
     First, Early, Late, Pending, MayLeave, Happens, Whole, Tree, Job,
     NoJob, Gone, Moves, id
<1> QED
  BY <1>1, <1>2, <1>3, <1>4, <1>5

LEMMA SetPublishedKeeps ==
  ASSUME HalfInv, SetPublished
  PROVE  HalfInv'
<1> USE DEF HalfInv
<1>a. id \in Moves /\ Pending(id)
  BY DEF SetPublished, Rows, Early, Late
<1> SUFFICES ASSUME NEW i \in Moves, i = id
             PROVE  HalfInv'
  BY <1>a
<1>r. Pending(i)
  BY <1>a
<1>b. SetStage(i, "published") \/ UNCHANGED journal
  BY DEF SetPublished, TryStage
<1>c. /\ journal' \in [Moves -> Row]
      /\ \A k \in Moves : k # i => (Pending(k)' <=> Pending(k))
      /\ UNCHANGED journal => Pending(i)'
  BY <1>r, <1>b, JournalStep
<1>d. SetStage(i, "published") => Pending(i)'
  BY StageStep
<1>1. TypeOK'
  <2>1. pc' \in Places
    BY DEF SetPublished, Goto, TypeOK, Places
  <2>2. faults' \in Nat
    BY <1>r, <1>b, <1>c, <1>d DEF SetPublished, TryStage, Fails, Works,
       Goto, TypeOK
  <2>3. (pc \notin {"off", "boot", "idle"} => id \in Moves)'
    BY <1>r, <1>c, <1>d DEF SetPublished, TryStage, Fails, Works, Goto,
       TypeOK, Rows, Early, Late, Job, NoJob, id
  <2> QED
    BY <1>r, <1>c, <1>d, <2>1, <2>2, <2>3 DEF SetPublished, Goto, TypeOK,
       vars, disk, bounds
<1>2. Rows'
  BY <1>r, <1>b, <1>c, <1>d DEF SetPublished, TryStage, Fails, Works, Goto,
     TypeOK, Rows, vars, disk, bounds, First, Early, Late, Job, NoJob,
     Moves, id
<1>3. Trees'
  BY <1>r, <1>b, <1>c, <1>d DEF SetPublished, TryStage, Fails, Works, Goto,
     Mounted, TypeOK, Rows, Trees, vars, disk, bounds, MayLeave, Happens,
     Tree, Job, NoJob, Gone, Made, NoFiles, Early, Late, id
<1>4. Half'
  BY <1>r, <1>b, <1>c, <1>d DEF SetPublished, TryStage, Fails, Works, Goto,
     Mounted, Half, Owner, TypeOK, Rows, Trees, vars, disk, bounds, First,
     Early, Late, MayLeave, Happens, Tree, Job, NoJob, Gone, Moves, id
<1>5. HalfMovesPending'
  BY <1>r, <1>b, <1>c, <1>d, <1>4 DEF SetPublished, TryStage, Fails, Works,
     Goto, Mounted, Half, Owner, HalfMovesPending, SomeRow, TypeOK, Rows,
     Trees, vars, disk, bounds, First, Early, Late, MayLeave, Happens, Tree,
     Job, NoJob, Gone, Moves, id
<1> QED
  BY <1>1, <1>2, <1>3, <1>4, <1>5

LEMMA RewriteKeeps ==
  ASSUME HalfInv, Rewrite
  PROVE  HalfInv'
<1> USE DEF HalfInv
<1>1. TypeOK'
  <2>1. pc' \in Places
    BY DEF Rewrite, Goto, TypeOK, Places
  <2>2. (pc \notin {"off", "boot", "idle"} => id \in Moves)'
    BY DEF Rewrite, Rewritable, Goto, TypeOK, Rows, Early, Late, Job, NoJob,
       id
  <2> QED
    BY <2>1, <2>2 DEF Rewrite, Goto, TypeOK, vars, disk, bounds
<1>2. Rows'
  BY DEF Rewrite, Rewritable, Goto, TypeOK, Rows, vars, disk, bounds, First,
     Early, Late, Pending, Job, NoJob, Moves, id
<1>3. Trees'
  BY DEF Rewrite, Rewritable, Goto, Mounted, TypeOK, Rows, Trees, vars,
     disk, bounds, MayLeave, Happens, Tree, Job, NoJob, Gone, Made, NoFiles,
     Early, Late, id
<1>4. Half'
  BY DEF Rewrite, Rewritable, Goto, Mounted, Half, Owner, TypeOK, Rows,
     Trees, vars, disk, bounds, First, Early, Late, Pending, MayLeave,
     Happens, Tree, Job, NoJob, Gone, Moves, id
<1>5. HalfMovesPending'
  BY <1>4 DEF Rewrite, Rewritable, Goto, Mounted, Half, Owner,
     HalfMovesPending, SomeRow, TypeOK, Rows, Trees, vars, disk, bounds,
     First, Early, Late, Pending, MayLeave, Happens, Tree, Job, NoJob, Gone,
     Moves, id
<1> QED
  BY <1>1, <1>2, <1>3, <1>4, <1>5

LEMMA RewriteFailsKeeps ==
  ASSUME HalfInv, RewriteFails
  PROVE  HalfInv'
<1> USE DEF HalfInv
<1>a. id \in Moves /\ Pending(id)
  BY DEF RewriteFails, Rows, Early, Late
<1> SUFFICES ASSUME NEW i \in Moves, i = id
             PROVE  HalfInv'
  BY <1>a
<1>r. Pending(i)
  BY <1>a
<1>b. SetStage(i, "published") \/ UNCHANGED journal
  BY DEF RewriteFails, Unless, TryStage
<1>c. /\ journal' \in [Moves -> Row]
      /\ \A k \in Moves : k # i => (Pending(k)' <=> Pending(k))
      /\ UNCHANGED journal => Pending(i)'
  BY <1>r, <1>b, JournalStep
<1>d. SetStage(i, "published") => Pending(i)'
  BY StageStep
<1>1. TypeOK'
  <2>1. job' \in Job
    BY <1>r, <1>b, <1>c, <1>d, Blanks DEF RewriteFails, Over, Fails, Works,
       TypeOK
  <2>2. pc' \in Places
    BY DEF RewriteFails, Over, TypeOK, Places
  <2>3. faults' \in Nat
    BY <1>r, <1>b, <1>c, <1>d DEF RewriteFails, Rewritable, Fails, Works,
       Unless, Over, TypeOK
  <2>4. (pc \notin {"off", "boot", "idle"} => id \in Moves)'
    BY <1>r, <1>c, <1>d DEF RewriteFails, Rewritable, Fails, Works, Unless,
       Over, TypeOK, Rows, Early, Late, Job, NoJob, id
  <2> QED
    BY <1>r, <1>c, <1>d, <2>1, <2>2, <2>3, <2>4 DEF RewriteFails, Over,
       TypeOK, vars, disk, bounds
<1>2. Rows'
  BY <1>r, <1>b, <1>c, <1>d DEF RewriteFails, Rewritable, Fails, Works,
     Unless, Over, TypeOK, Rows, vars, disk, bounds, First, Early, Late,
     Job, NoJob, Moves, id
<1>3. Trees'
  BY <1>r, <1>b, <1>c, <1>d DEF RewriteFails, Rewritable, Fails, Works,
     Unless, Over, Mounted, TypeOK, Rows, Trees, vars, disk, bounds,
     MayLeave, Happens, Tree, Job, NoJob, Gone, Made, NoFiles, Early, Late,
     id
<1>4. Half'
  BY <1>r, <1>b, <1>c, <1>d DEF RewriteFails, Rewritable, Fails, Works,
     Unless, Over, Mounted, Half, Owner, TypeOK, Rows, Trees, vars, disk,
     bounds, First, Early, Late, MayLeave, Happens, Tree, Job, NoJob, Gone,
     Moves, id
<1>5. HalfMovesPending'
  BY <1>r, <1>b, <1>c, <1>d, <1>4 DEF RewriteFails, Rewritable, Fails,
     Works, Unless, Over, Mounted, Half, Owner, HalfMovesPending, SomeRow,
     TypeOK, Rows, Trees, vars, disk, bounds, First, Early, Late, MayLeave,
     Happens, Tree, Job, NoJob, Gone, Moves, id
<1> QED
  BY <1>1, <1>2, <1>3, <1>4, <1>5

LEMMA SettleKeeps ==
  ASSUME HalfInv, Settle
  PROVE  HalfInv'
<1> USE DEF HalfInv
<1>a. id \in Moves /\ Pending(id)
  BY DEF Settle, Rows, Early, Late
<1> SUFFICES ASSUME NEW i \in Moves, i = id
             PROVE  HalfInv'
  BY <1>a
<1>r. Pending(i)
  BY <1>a
<1>b. Delete(i) \/ SetStage(i, "source_leftover") \/ UNCHANGED journal
  BY DEF Settle, TryDelete, TryStage
<1>c. /\ journal' \in [Moves -> Row]
      /\ \A k \in Moves : k # i => (Pending(k)' <=> Pending(k))
      /\ UNCHANGED journal => Pending(i)'
  BY <1>r, <1>b, JournalStep
<1>e. SetStage(i, "source_leftover") => Pending(i)'
  BY StageStep
<1>1. TypeOK'
  <2>1. job' \in Job
    BY <1>r, <1>b, <1>c, <1>e, Blanks DEF Settle, Over, Fails, Works,
       TypeOK, Job
  <2>2. pc' \in Places
    BY DEF Settle, Over, TypeOK, Places
  <2>3. faults' \in Nat
    BY <1>r, <1>b, <1>c, <1>e DEF Settle, Over, TryDelete, TryStage, Fails,
       Works, Sight, Mounted, TypeOK
  <2>4. (pc \notin {"off", "boot", "idle"} => id \in Moves)'
    BY <1>r, <1>c, <1>e DEF Settle, Over, TypeOK, Rows, Early, Late, Job,
       NoJob, id
  <2> QED
    BY <1>r, <1>c, <1>e, <2>1, <2>2, <2>3, <2>4 DEF Settle, Over, TypeOK,
       vars, disk, bounds
<1>2. Rows'
  BY <1>r, <1>b, <1>c, <1>e DEF Settle, Over, TryDelete, TryStage, Fails,
     Works, Sight, Mounted, TypeOK, Rows, vars, disk, bounds, First, Early,
     Late, Job, NoJob, Moves, id
<1>3. Trees'
  <2>1. job' = NoJob \/ job' = [job EXCEPT !.next = "done"]
    BY DEF Settle, Over
  <2>2. job'.removed => job.removed
    BY <2>1, Blanks DEF Job, TypeOK
  <2>3. /\ src' = src /\ dst' = dst /\ origin' = origin /\ world' = world /\ away' = away
        /\ dst.dir
    BY DEF Settle, Trees, Late, disk, bounds
  <2> QED
    BY <2>2, <2>3 DEF Trees, MayLeave, Happens, Mounted
<1>4. Half'
  BY <1>r, <1>b, <1>c, <1>e DEF Settle, Over, TryDelete, TryStage, Fails,
     Works, Sight, Mounted, Half, Owner, TypeOK, Rows, Trees, vars, disk,
     bounds, First, Early, Late, MayLeave, Happens, Tree, Job, NoJob, Gone,
     Moves, id
<1>5. HalfMovesPending'
  BY <1>r, <1>b, <1>c, <1>e, <1>4 DEF Settle, Over, TryDelete, TryStage,
     Fails, Works, Sight, Mounted, Half, Owner, HalfMovesPending, SomeRow,
     TypeOK, Rows, Trees, vars, disk, bounds, First, Early, Late, MayLeave,
     Happens, Tree, Job, NoJob, Gone, Moves, id
<1> QED
  BY <1>1, <1>2, <1>3, <1>4, <1>5

LEMMA SettleCleanedKeeps ==
  ASSUME HalfInv, SettleCleaned
  PROVE  HalfInv'
<1> USE DEF HalfInv
<1>a. id \in Moves /\ Pending(id)
  BY DEF SettleCleaned, Rows, Early, Late
<1> SUFFICES ASSUME NEW i \in Moves, i = id
             PROVE  HalfInv'
  BY <1>a
<1>r. Pending(i)
  BY <1>a
<1>b. Delete(i) \/ SetStage(i, "source_leftover") \/ UNCHANGED journal
  BY DEF SettleCleaned, TryDelete, TryStage
<1>c. /\ journal' \in [Moves -> Row]
      /\ \A k \in Moves : k # i => (Pending(k)' <=> Pending(k))
      /\ UNCHANGED journal => Pending(i)'
  BY <1>r, <1>b, JournalStep
<1>e. SetStage(i, "source_leftover") => Pending(i)'
  BY StageStep
<1>1. TypeOK'
  <2>1. staging' \in [Moves -> Tree]
    BY <1>r, <1>b, <1>c, <1>e, CleanStep DEF SettleCleaned, TypeOK, Rows,
       Early, Late
  <2>2. marked' \subseteq Moves
    BY <1>r, <1>b, <1>c, <1>e, CleanStep DEF SettleCleaned, TypeOK, Rows,
       Early, Late
  <2>3. job' \in Job
    BY <1>r, <1>b, <1>c, <1>e, Blanks DEF SettleCleaned, Over, Fails, Works,
       TypeOK
  <2>4. pc' \in Places
    BY DEF SettleCleaned, Over, TypeOK, Places
  <2>5. faults' \in Nat
    BY <1>r, <1>b, <1>c, <1>e DEF SettleCleaned, Over, CleanStaging,
       Cleanable, TryDelete, TryStage, Fails, Works, TypeOK
  <2>6. (pc \notin {"off", "boot", "idle"} => id \in Moves)'
    BY <1>r, <1>c, <1>e DEF SettleCleaned, Over, CleanStaging, Cleanable,
       TryDelete, TryStage, Fails, Works, TypeOK, Rows, Early, Late, Job,
       NoJob, id
  <2> QED
    BY <1>r, <1>c, <1>e, <2>1, <2>2, <2>3, <2>4, <2>5, <2>6 DEF
       SettleCleaned, Over, TypeOK, vars, disk, bounds
<1>2. Rows'
  BY <1>r, <1>b, <1>c, <1>e DEF SettleCleaned, Over, CleanStaging,
     Cleanable, TryDelete, TryStage, Fails, Works, TypeOK, Rows, vars, disk,
     bounds, First, Early, Late, Job, NoJob, Moves, id
<1>3. Trees'
  BY <1>r, <1>b, <1>c, <1>e DEF SettleCleaned, Over, CleanStaging,
     Cleanable, TryDelete, TryStage, Fails, Works, Mounted, TypeOK, Rows,
     Trees, vars, disk, bounds, MayLeave, Happens, Tree, Job, NoJob, Gone,
     Made, NoFiles, Early, Late, id
<1>4. Half'
  BY <1>r, <1>b, <1>c, <1>e DEF SettleCleaned, Over, CleanStaging,
     Cleanable, TryDelete, TryStage, Fails, Works, Mounted, Half, Owner,
     TypeOK, Rows, Trees, vars, disk, bounds, First, Early, Late, MayLeave,
     Happens, Tree, Job, NoJob, Gone, Moves, id
<1>5. HalfMovesPending'
  BY <1>r, <1>b, <1>c, <1>e, <1>4 DEF SettleCleaned, Over, CleanStaging,
     Cleanable, TryDelete, TryStage, Fails, Works, Mounted, Half, Owner,
     HalfMovesPending, SomeRow, TypeOK, Rows, Trees, vars, disk, bounds,
     First, Early, Late, MayLeave, Happens, Tree, Job, NoJob, Gone, Moves,
     id
<1> QED
  BY <1>1, <1>2, <1>3, <1>4, <1>5

LEMMA ReadyKeeps ==
  ASSUME HalfInv, Ready
  PROVE  HalfInv'
<1> USE DEF HalfInv
<1>1. TypeOK'
  <2>1. pc' \in Places
    BY DEF Ready, TypeOK, Places
  <2>2. (pc \notin {"off", "boot", "idle"} => id \in Moves)'
    BY DEF Ready, TypeOK, Rows, Early, Late, Job, NoJob, id
  <2> QED
    BY <2>1, <2>2 DEF Ready, TypeOK, vars, disk, bounds
<1>2. Rows'
  BY DEF Ready, TypeOK, Rows, vars, disk, bounds, First, Early, Late,
     Pending, Job, NoJob, Moves, id
<1>3. Trees'
  BY DEF Ready, Mounted, TypeOK, Rows, Trees, vars, disk, bounds, MayLeave,
     Happens, Tree, Job, NoJob, Gone, Made, NoFiles, Early, Late, id
<1>4. Half'
  BY DEF Ready, Mounted, Half, Owner, TypeOK, Rows, Trees, vars, disk,
     bounds, First, Early, Late, Pending, MayLeave, Happens, Tree, Job,
     NoJob, Gone, Moves, id
<1>5. HalfMovesPending'
  BY <1>4 DEF Ready, Mounted, Half, Owner, HalfMovesPending, SomeRow,
     TypeOK, Rows, Trees, vars, disk, bounds, First, Early, Late, Pending,
     MayLeave, Happens, Tree, Job, NoJob, Gone, Moves, id
<1> QED
  BY <1>1, <1>2, <1>3, <1>4, <1>5

LEMMA BeginKeeps ==
  ASSUME HalfInv, Begin
  PROVE  HalfInv'
<1> USE DEF HalfInv
<1>a. started + 1 \in Moves
  BY DEF Begin, TypeOK, Moves
<1> SUFFICES ASSUME NEW i \in Moves, i = started + 1
             PROVE  HalfInv'
  BY <1>a
<1>c. /\ journal' \in [Moves -> Row]
      /\ \A k \in Moves : k # i => (Pending(k)' <=> Pending(k))
      /\ Pending(i)'
  <2>1. Insert(i)
    BY DEF Begin
  <2>2. journal' = [journal EXCEPT ![i] = [stage |-> "intent", digest |-> Gone]]
    BY <2>1 DEF Insert
  <2>4. Pending(i)'
    BY <2>2 DEF TypeOK, Pending
  <2> QED
    BY <2>1, <2>4, JournalStep
<1>d. job' \in Job /\ job'.how = "first" /\ job'.move = i /\ ~job'.removed
  BY NewJob, Blanks DEF Begin, NoJob
<1>1. TypeOK'
  <2>1. pc' \in Places
    BY DEF Begin, TypeOK, Places
  <2>2. started' \in 0 .. MaxMoves
    BY <1>c, <1>d DEF Begin, TypeOK
  <2>3. (pc \notin {"off", "boot", "idle"} => id \in Moves)'
    BY <1>c, <1>d DEF Begin, TypeOK, Rows, Early, Late, Job, NoJob, id
  <2> QED
    BY <1>c, <1>d, <2>1, <2>2, <2>3 DEF Begin, TypeOK, vars, disk, bounds
<1>2. Rows'
  BY <1>c, <1>d DEF Begin, TypeOK, Rows, vars, disk, bounds, First, Early,
     Late, Job, NoJob, Moves, id
<1>3. Trees'
  BY <1>c, <1>d DEF Begin, Mounted, TypeOK, Rows, Trees, vars, disk, bounds,
     MayLeave, Happens, Tree, Job, NoJob, Gone, Made, NoFiles, Early, Late,
     id
<1>4. Half'
  <2>1. SUFFICES ASSUME rooted, index = "source", ~Whole(src)
                 PROVE  Owner'
    BY DEF Begin, Half, disk
  <2>2. PICK j \in Moves : Pending(j)
    BY <2>1 DEF Half, Owner
  <2>3. j # i
    BY <2>2 DEF Rows, TypeOK, Moves
  <2>4. Pending(j)'
    BY <1>c, <2>2, <2>3
  <2> QED
    BY <1>d, <2>3, <2>4 DEF Owner, id
<1>5. HalfMovesPending'
  BY <1>c, <1>d, <1>4 DEF Begin, Mounted, Half, Owner, HalfMovesPending,
     SomeRow, TypeOK, Rows, Trees, vars, disk, bounds, First, Early, Late,
     MayLeave, Happens, Tree, Job, NoJob, Gone, Moves, id
<1> QED
  BY <1>1, <1>2, <1>3, <1>4, <1>5

LEMMA StartKeeps ==
  ASSUME HalfInv, Start
  PROVE  HalfInv'
<1> USE DEF HalfInv
<1>1. TypeOK'
  <2>1. pc' \in Places
    BY DEF Start, TypeOK, Places
  <2>2. boot' \subseteq Moves
    BY DEF Start, TypeOK
  <2>3. (pc \notin {"off", "boot", "idle"} => id \in Moves)'
    BY DEF Start, TypeOK, Rows, Early, Late, Job, NoJob, id
  <2> QED
    BY <2>1, <2>2, <2>3 DEF Start, TypeOK, vars, disk, bounds
<1>2. Rows'
  BY DEF Start, TypeOK, Rows, vars, disk, bounds, First, Early, Late,
     Pending, Job, NoJob, Moves, id
<1>3. Trees'
  BY DEF Start, Mounted, TypeOK, Rows, Trees, vars, disk, bounds, MayLeave,
     Happens, Tree, Job, NoJob, Gone, Made, NoFiles, Early, Late, id
<1>4. Half'
  BY DEF Start, Mounted, Half, Owner, TypeOK, Rows, Trees, vars, disk,
     bounds, First, Early, Late, Pending, MayLeave, Happens, Tree, Job,
     NoJob, Gone, Moves, id
<1>5. HalfMovesPending'
  BY <1>4 DEF Start, Mounted, Half, Owner, HalfMovesPending, SomeRow,
     TypeOK, Rows, Trees, vars, disk, bounds, First, Early, Late, Pending,
     MayLeave, Happens, Tree, Job, NoJob, Gone, Moves, id
<1> QED
  BY <1>1, <1>2, <1>3, <1>4, <1>5

LEMMA CrashKeeps ==
  ASSUME HalfInv, Crash
  PROVE  HalfInv'
<1> USE DEF HalfInv
<1>1. TypeOK'
  <2>1. pc' \in Places
    BY DEF Crash, TypeOK, Places
  <2>2. job' \in Job
    BY Blanks DEF Crash, Fails, TypeOK
  <2>3. boot' \subseteq Moves
    BY DEF Crash, Fails, TypeOK
  <2>4. faults' \in Nat
    BY DEF Crash, Fails, TypeOK
  <2>5. (pc \notin {"off", "boot", "idle"} => id \in Moves)'
    BY DEF Crash, Fails, TypeOK, Rows, Early, Late, Job, NoJob, id
  <2> QED
    BY <2>1, <2>2, <2>3, <2>4, <2>5 DEF Crash, TypeOK, vars, disk, bounds
<1>2. Rows'
  BY DEF Crash, Fails, TypeOK, Rows, vars, disk, bounds, First, Early, Late,
     Pending, Job, NoJob, Moves, id
<1>3. Trees'
  BY DEF Crash, Fails, Mounted, TypeOK, Rows, Trees, vars, disk, bounds,
     MayLeave, Happens, Tree, Job, NoJob, Gone, Made, NoFiles, Early, Late,
     id
<1>4. Half'
  BY DEF Crash, Fails, Mounted, Half, Owner, TypeOK, Rows, Trees, vars,
     disk, bounds, First, Early, Late, Pending, MayLeave, Happens, Tree,
     Job, NoJob, Gone, Moves, id
<1>5. HalfMovesPending'
  BY <1>4 DEF Crash, Fails, Mounted, Half, Owner, HalfMovesPending, SomeRow,
     TypeOK, Rows, Trees, vars, disk, bounds, First, Early, Late, Pending,
     MayLeave, Happens, Tree, Job, NoJob, Gone, Moves, id
<1> QED
  BY <1>1, <1>2, <1>3, <1>4, <1>5

LEMMA EditKeeps ==
  ASSUME HalfInv, NEW f \in Files, Edit(f)
  PROVE  HalfInv'
<1> USE DEF HalfInv
<1>1. TypeOK'
  <2>1. src' \in Tree
    <3>1. src \in Tree /\ edits + 1 \in Nat /\ edits' = edits + 1
      BY DEF TypeOK, Edit
    <3>2. src' = src \/ src' = [src EXCEPT !.of[f] = edits + 1]
      BY <3>1 DEF Edit
    <3>3. [src EXCEPT !.of[f] = edits + 1] \in Tree
      BY <3>1, TreeUpdate
    <3> QED
      BY <3>1, <3>2, <3>3
  <2>2. dst' \in Tree
    <3>1. dst \in Tree /\ edits + 1 \in Nat /\ edits' = edits + 1
      BY DEF TypeOK, Edit
    <3>2. dst' = dst \/ dst' = [dst EXCEPT !.of[f] = edits + 1]
      BY <3>1 DEF Edit
    <3>3. [dst EXCEPT !.of[f] = edits + 1] \in Tree
      BY <3>1, TreeUpdate
    <3> QED
      BY <3>1, <3>2, <3>3
  <2>3. edits' \in Nat
    BY DEF Edit, Mounted, TypeOK
  <2>4. (pc \notin {"off", "boot", "idle"} => id \in Moves)'
    BY DEF Edit, Mounted, TypeOK, Rows, Early, Late, Job, NoJob, id
  <2> QED
    BY <2>1, <2>2, <2>3, <2>4 DEF Edit, TypeOK, vars, disk, bounds
<1>2. Rows'
  BY DEF Edit, Mounted, TypeOK, Rows, vars, disk, bounds, First, Early,
     Late, Pending, Job, NoJob, Moves, id
<1>3. Trees'
  BY DEF Edit, Mounted, TypeOK, Rows, Trees, vars, disk, bounds, MayLeave,
     Happens, Tree, Job, NoJob, Gone, Made, NoFiles, Early, Late, id
<1>4. Half'
  <2>1. Whole(src) => Whole(src)'
    <3>1. src \in Tree /\ edits + 1 \in Nat /\ edits + 1 # 0 /\ edits' = edits + 1
      BY DEF TypeOK, Edit
    <3>2. src' = src \/ src' = [src EXCEPT !.of[f] = edits + 1]
      BY <3>1 DEF Edit
    <3>3. CASE src' = src
      BY <3>3 DEF Whole
    <3>4. CASE src' = [src EXCEPT !.of[f] = edits + 1]
      <4>1. /\ src'.dir = src.dir
            /\ \A g \in Files : src'.of[g] = IF g = f THEN edits + 1 ELSE src.of[g]
        BY <3>1, <3>4, TreeUpdate
      <4> QED
        BY <3>1, <4>1 DEF Whole
    <3> QED
      BY <3>2, <3>3, <3>4
  <2> QED
    BY <2>1 DEF Edit, Half, Owner, First, Early, Pending, id
<1>5. HalfMovesPending'
  BY <1>4 DEF Edit, Mounted, Half, Owner, HalfMovesPending, SomeRow, TypeOK,
     Rows, Trees, vars, disk, bounds, First, Early, Late, Pending, MayLeave,
     Happens, Whole, Tree, Job, NoJob, Gone, Moves, id
<1> QED
  BY <1>1, <1>2, <1>3, <1>4, <1>5

LEMMA ForeignKeeps ==
  ASSUME HalfInv, NEW f \in Files, Foreign(f)
  PROVE  HalfInv'
<1> USE DEF HalfInv
<1>1. TypeOK'
  <2>1. dst' \in Tree
    <3>1. edits + 1 \in Nat /\ edits' = edits + 1
      BY DEF TypeOK, Foreign
    <3>2. dst' = [Made EXCEPT !.of[f] = edits + 1]
      BY <3>1 DEF Foreign
    <3> QED
      BY <3>1, <3>2, FreshUpdate
  <2>2. edits' \in Nat
    BY DEF Foreign, Mounted, TypeOK
  <2>3. (pc \notin {"off", "boot", "idle"} => id \in Moves)'
    BY DEF Foreign, Mounted, TypeOK, Rows, Early, Late, Job, NoJob, id
  <2> QED
    BY <2>1, <2>2, <2>3 DEF Foreign, TypeOK, vars, disk, bounds
<1>2. Rows'
  BY DEF Foreign, Mounted, TypeOK, Rows, vars, disk, bounds, First, Early,
     Late, Pending, Job, NoJob, Moves, id
<1>3. Trees'
  BY DEF Foreign, Mounted, TypeOK, Rows, Trees, vars, disk, bounds,
     MayLeave, Happens, Tree, Job, NoJob, Gone, Made, NoFiles, Early, Late,
     id
<1>4. Half'
  BY DEF Foreign, Mounted, Half, Owner, TypeOK, Rows, Trees, vars, disk,
     bounds, First, Early, Late, Pending, MayLeave, Happens, Tree, Job,
     NoJob, Gone, Moves, id
<1>5. HalfMovesPending'
  BY <1>4 DEF Foreign, Mounted, Half, Owner, HalfMovesPending, SomeRow,
     TypeOK, Rows, Trees, vars, disk, bounds, First, Early, Late, Pending,
     MayLeave, Happens, Tree, Job, NoJob, Gone, Moves, id
<1> QED
  BY <1>1, <1>2, <1>3, <1>4, <1>5

LEMMA ScanKeeps ==
  ASSUME HalfInv, Scan
  PROVE  HalfInv'
<1> USE DEF HalfInv
<1>1. TypeOK'
  <2>1. (pc \notin {"off", "boot", "idle"} => id \in Moves)'
    BY DEF Scan, Mounted, TypeOK, Rows, Early, Late, Job, NoJob, id
  <2> QED
    BY <2>1 DEF Scan, TypeOK, vars, disk, bounds
<1>2. Rows'
  BY DEF Scan, Mounted, TypeOK, Rows, vars, disk, bounds, First, Early,
     Late, Pending, Job, NoJob, Moves, id
<1>3. Trees'
  BY DEF Scan, Mounted, TypeOK, Rows, Trees, vars, disk, bounds, MayLeave,
     Happens, Tree, Job, NoJob, Gone, Made, NoFiles, Early, Late, id
<1>4. Half'
  BY DEF Scan, Mounted, Half, Owner, TypeOK, Rows, Trees, vars, disk,
     bounds, First, Early, Late, Pending, MayLeave, Happens, Tree, Job,
     NoJob, Gone, Moves, id
<1>5. HalfMovesPending'
  BY <1>4 DEF Scan, Mounted, Half, Owner, HalfMovesPending, SomeRow, TypeOK,
     Rows, Trees, vars, disk, bounds, First, Early, Late, Pending, MayLeave,
     Happens, Tree, Job, NoJob, Gone, Moves, id
<1> QED
  BY <1>1, <1>2, <1>3, <1>4, <1>5

LEMMA UnrootKeeps ==
  ASSUME HalfInv, Unroot
  PROVE  HalfInv'
<1> USE DEF HalfInv
<1>1. TypeOK'
  <2>1. (pc \notin {"off", "boot", "idle"} => id \in Moves)'
    BY DEF Unroot, TypeOK, Rows, Early, Late, Job, NoJob, id
  <2> QED
    BY <2>1 DEF Unroot, TypeOK, vars, disk, bounds
<1>2. Rows'
  BY DEF Unroot, TypeOK, Rows, vars, disk, bounds, First, Early, Late,
     Pending, Job, NoJob, Moves, id
<1>3. Trees'
  BY DEF Unroot, Mounted, TypeOK, Rows, Trees, vars, disk, bounds, MayLeave,
     Happens, Tree, Job, NoJob, Gone, Made, NoFiles, Early, Late, id
<1>4. Half'
  BY DEF Unroot, Mounted, Half, Owner, TypeOK, Rows, Trees, vars, disk,
     bounds, First, Early, Late, Pending, MayLeave, Happens, Tree, Job,
     NoJob, Gone, Moves, id
<1>5. HalfMovesPending'
  BY <1>4 DEF Unroot, Mounted, Half, Owner, HalfMovesPending, SomeRow,
     TypeOK, Rows, Trees, vars, disk, bounds, First, Early, Late, Pending,
     MayLeave, Happens, Tree, Job, NoJob, Gone, Moves, id
<1> QED
  BY <1>1, <1>2, <1>3, <1>4, <1>5

LEMMA UnmountKeeps ==
  ASSUME HalfInv, NEW side \in Sides, Unmount(side)
  PROVE  HalfInv'
<1> USE DEF HalfInv
<1>1. TypeOK'
  <2>1. away' \subseteq Sides
    BY DEF Unmount, Mounted, Volume, TypeOK, Sides
  <2>2. (pc \notin {"off", "boot", "idle"} => id \in Moves)'
    BY DEF Unmount, Mounted, Volume, TypeOK, Rows, Early, Late, Job, NoJob,
       id
  <2> QED
    BY <2>1, <2>2 DEF Unmount, TypeOK, vars, disk, bounds
<1>2. Rows'
  BY DEF Unmount, Mounted, Volume, TypeOK, Rows, vars, disk, bounds, First,
     Early, Late, Pending, Job, NoJob, Moves, id
<1>3. Trees'
  BY DEF Unmount, Mounted, Volume, TypeOK, Rows, Trees, vars, disk, bounds,
     MayLeave, Happens, Tree, Job, NoJob, Gone, Made, NoFiles, Early, Late,
     id
<1>4. Half'
  BY DEF Unmount, Mounted, Volume, Half, Owner, TypeOK, Rows, Trees, vars,
     disk, bounds, First, Early, Late, Pending, MayLeave, Happens, Tree,
     Job, NoJob, Gone, Moves, id
<1>5. HalfMovesPending'
  BY <1>4 DEF Unmount, Mounted, Volume, Half, Owner, HalfMovesPending,
     SomeRow, TypeOK, Rows, Trees, vars, disk, bounds, First, Early, Late,
     Pending, MayLeave, Happens, Tree, Job, NoJob, Gone, Moves, id
<1> QED
  BY <1>1, <1>2, <1>3, <1>4, <1>5

LEMMA MountKeeps ==
  ASSUME HalfInv, NEW side \in Sides, Mount(side)
  PROVE  HalfInv'
<1> USE DEF HalfInv
<1>1. TypeOK'
  <2>1. away' \subseteq Sides
    BY DEF Mount, Mounted, Volume, TypeOK, Sides
  <2>2. (pc \notin {"off", "boot", "idle"} => id \in Moves)'
    BY DEF Mount, Mounted, Volume, TypeOK, Rows, Early, Late, Job, NoJob, id
  <2> QED
    BY <2>1, <2>2 DEF Mount, TypeOK, vars, disk, bounds
<1>2. Rows'
  BY DEF Mount, Mounted, Volume, TypeOK, Rows, vars, disk, bounds, First,
     Early, Late, Pending, Job, NoJob, Moves, id
<1>3. Trees'
  BY DEF Mount, Mounted, Volume, TypeOK, Rows, Trees, vars, disk, bounds,
     MayLeave, Happens, Tree, Job, NoJob, Gone, Made, NoFiles, Early, Late,
     id
<1>4. Half'
  BY DEF Mount, Mounted, Volume, Half, Owner, TypeOK, Rows, Trees, vars,
     disk, bounds, First, Early, Late, Pending, MayLeave, Happens, Tree,
     Job, NoJob, Gone, Moves, id
<1>5. HalfMovesPending'
  BY <1>4 DEF Mount, Mounted, Volume, Half, Owner, HalfMovesPending,
     SomeRow, TypeOK, Rows, Trees, vars, disk, bounds, First, Early, Late,
     Pending, MayLeave, Happens, Tree, Job, NoJob, Gone, Moves, id
<1> QED
  BY <1>1, <1>2, <1>3, <1>4, <1>5

\* A retry, and a start, with the row they take in hand.
LEMMA FinishKeeps ==
  ASSUME HalfInv, NEW i \in Moves, NEW how \in {"retry", "boot"}, Finish(i, how),
         pc \in {"idle", "boot"}, boot' \subseteq Moves
  PROVE  HalfInv'
<1> USE DEF HalfInv
<1>1. /\ Pending(i) /\ faults' \in Nat
      /\ UNCHANGED <<world, src, dst, origin, index, rival, rooted, away, started, edits>>
      /\ \/ Leaves(i)
         \/ rooted /\ \E place \in {"rewrite", "publish", "stage"} :
                         Takes(i, how, place) /\ (place = "rewrite" => dst.dir)
  BY FinishStep
<1>2. CASE Leaves(i)
  <2>1. Delete(i) \/ UNCHANGED journal
    BY <1>2 DEF Leaves
  <2>2. /\ journal' \in [Moves -> Row]
        /\ \A k \in Moves : k # i => (Pending(k)' <=> Pending(k))
        /\ UNCHANGED journal => (Pending(i)' <=> Pending(i))
    BY <2>1, JournalStep
  <2>3. job' = NoJob /\ pc' \in {"idle", "boot"} /\ UNCHANGED <<staging, marked>>
    BY <1>2 DEF Leaves, Over
  <2>4. UNCHANGED journal \/ (rooted => ~src.dir /\ ~dst.dir)
    BY <1>2 DEF Leaves
  <2>5. TypeOK'
    BY <1>1, <2>2, <2>3, Blanks DEF TypeOK, Places
  <2>6. Rows'
    BY <1>1, <2>1, <2>2, <2>3, Blanks DEF Rows, First, Early, Late, Pending, Delete, NoRow
  <2>7. Trees'
    BY <1>1, <2>3, Blanks DEF Trees, Late, MayLeave, Happens, Mounted
  <2>8. Half' /\ HalfMovesPending'
    <3>1. CASE UNCHANGED journal
      <4>1. \A k \in Moves : Pending(k)' <=> Pending(k)
        BY <3>1 DEF Pending
      <4> QED
        BY <1>1, <2>3, <4>1 DEF Half, Owner, HalfMovesPending, SomeRow, First, Early,
           MayLeave, Happens
    <3>2. CASE rooted => ~src.dir /\ ~dst.dir
      <4>1. ~rooted
        BY <3>2 DEF Trees
      <4> QED
        BY <1>1, <4>1 DEF Half, HalfMovesPending
    <3> QED
      BY <2>4, <3>1, <3>2
  <2> QED
    BY <2>5, <2>6, <2>7, <2>8
<1>3. ASSUME NEW place \in {"rewrite", "publish", "stage"}, rooted,
             Takes(i, how, place), place = "rewrite" => dst.dir
      PROVE  HalfInv'
  <2>0. how \in {"first", "retry", "boot"}
    OBVIOUS
  <2>1. /\ pc' = place /\ UNCHANGED journal
        /\ job' \in Job /\ job'.how = how /\ job'.move = i /\ ~job'.removed
    <3>1. pc' = place /\ UNCHANGED journal /\ job' = [NoJob EXCEPT !.move = i, !.how = how]
      BY <1>3 DEF Takes
    <3>2. /\ [NoJob EXCEPT !.move = i, !.how = how] \in Job
          /\ [NoJob EXCEPT !.move = i, !.how = how].how = how
          /\ [NoJob EXCEPT !.move = i, !.how = how].move = i
          /\ ~[NoJob EXCEPT !.move = i, !.how = how].removed
      <4>1. i \in Nat
        BY DEF Moves
      <4> QED
        BY <2>0, <4>1 DEF NoJob, Job
    <3> QED
      BY <3>1, <3>2
  <2>2. staging' \in [Moves -> Tree] /\ marked' \subseteq Moves
    <3>1. CASE CleanStaging(i)
      BY <3>1, CleanStep
    <3>2. CASE UNCHANGED <<staging, marked>>
      BY <3>2 DEF TypeOK
    <3> QED
      BY <1>3, <3>1, <3>2 DEF Takes
  <2>3. \A k \in Moves : Pending(k)' <=> Pending(k)
    BY <2>1 DEF Pending
  <2>4. TypeOK'
    BY <1>1, <2>1, <2>2 DEF TypeOK, Places, id
  <2>5. Rows'
    BY <1>1, <1>3, <2>1, <2>3 DEF Rows, First, Early, Late, Pending, id
  <2>6. Trees'
    BY <1>1, <1>3, <2>1 DEF Trees, Late, MayLeave, Happens, Mounted
  <2>7. Half' /\ HalfMovesPending'
    BY <1>1, <2>1, <2>3 DEF Half, Owner, HalfMovesPending, SomeRow, First, Early, MayLeave, Happens
  <2> QED
    BY <2>4, <2>5, <2>6, <2>7
<1> QED
  BY <1>1, <1>2, <1>3

LEMMA RetryKeeps ==
  ASSUME HalfInv, NEW i \in Moves, Retry(i)
  PROVE  HalfInv'
<1>1. pc \in {"idle", "boot"} /\ Finish(i, "retry") /\ boot' \subseteq Moves
  BY DEF Retry, HalfInv, TypeOK
<1> QED
  BY <1>1, FinishKeeps

LEMMA RecoverNextKeeps ==
  ASSUME HalfInv, RecoverNext
  PROVE  HalfInv'
<1>1. PICK i \in boot : boot' = boot \ {i} /\ Finish(i, "boot")
  BY DEF RecoverNext
<1>2. i \in Moves /\ boot' \subseteq Moves /\ pc \in {"idle", "boot"}
  BY <1>1 DEF RecoverNext, HalfInv, TypeOK
<1> QED
  BY <1>1, <1>2, FinishKeeps

-----------------------------------------------------------------------------
(* Theorems                                                                *)

LEMMA HalfInvInit == Init => HalfInv
<1> SUFFICES ASSUME Init PROVE HalfInv
  OBVIOUS
<1>1. TypeOK
  <2>1. src \in Tree /\ dst \in Tree
    BY Blanks DEF Init, Tree
  <2> QED
    <3>1. world \in World /\ started \in 0 .. MaxMoves /\ edits \in Nat /\ faults \in Nat
      BY DEF Init, MoveAssumption
    <3>2. staging \in [Moves -> Tree] /\ journal \in [Moves -> Row]
      BY Blanks DEF Init
    <3> QED
      BY <2>1, <3>1, <3>2, Blanks DEF Init, TypeOK, Places
<1>2. Whole(src)
  BY DEF Init, Whole
<1>3. \A i \in Moves : ~Pending(i)
  BY Blanks DEF Init, Pending
<1>4. Rows
  BY <1>3 DEF Init, Rows, Early, Late
<1>5. Trees
  BY Blanks DEF Init, Trees, Late, Mounted
<1>6. Half /\ HalfMovesPending
  BY <1>2 DEF Init, Half, HalfMovesPending
<1> QED
  BY <1>1, <1>4, <1>5, <1>6 DEF HalfInv

LEMMA HalfInvNext == HalfInv /\ [Next]_vars => HalfInv'
<1> SUFFICES ASSUME HalfInv, [Next]_vars PROVE HalfInv'
  OBVIOUS
<1>1. CASE Begin
  BY <1>1, BeginKeeps
<1>2. CASE Step
  BY <1>2, RenameInPlaceKeeps, RenameImpossibleKeeps, RenameRefusedKeeps, PrepareStagingKeeps,
     PrepareFailsKeeps, MarkStagingKeeps, CopyFileKeeps, CopyFailsKeeps, PersistKeeps,
     PublishKeeps, PublishFailsKeeps, CompareTreesKeeps, DeleteFileKeeps, DeleteDirKeeps,
     SetPublishedKeeps, RewriteKeeps, RewriteFailsKeeps, SettleKeeps, SettleCleanedKeeps,
     RecoverNextKeeps, ReadyKeeps DEF Step
<1>3. CASE \E i \in Moves : Retry(i)
  BY <1>3, RetryKeeps
<1>4. CASE Start
  BY <1>4, StartKeeps
<1>5. CASE Crash
  BY <1>5, CrashKeeps
<1>6. CASE User
  BY <1>6, EditKeeps, ForeignKeeps, ScanKeeps, UnrootKeeps, UnmountKeeps, MountKeeps DEF User
<1>7. CASE UNCHANGED vars
  <2>1. TypeOK'
    BY <1>7 DEF HalfInv, TypeOK, vars, disk, bounds, id
  <2>2. Rows' /\ Trees'
    BY <1>7 DEF HalfInv, Rows, Trees, vars, disk, bounds, First, Early, Late, Pending, MayLeave,
       Happens, Mounted, id
  <2>3. Half' /\ HalfMovesPending'
    BY <1>7 DEF HalfInv, Half, Owner, HalfMovesPending, SomeRow, vars, disk, bounds, First, Early,
       Pending, MayLeave, Happens, id
  <2> QED
    BY <2>1, <2>2, <2>3 DEF HalfInv
<1> QED
  BY <1>1, <1>2, <1>3, <1>4, <1>5, <1>6, <1>7 DEF Next

LEMMA HalfInvHolds == Spec => []HalfInv
BY HalfInvInit, HalfInvNext, PTL DEF Spec

\* Every variable keeps its type; while a move is in hand it is one of the
\* moves.
THEOREM TypeCorrect == Spec => []TypeOK
<1>1. HalfInv => TypeOK
  BY DEF HalfInv
<1> QED
  BY <1>1, HalfInvHolds, PTL

\* A move that is half done has a row in the journal that a start or a retry
\* can finish, wherever errors and crashes fell.
THEOREM HalfMovesStayPending == Spec => []HalfMovesPending
<1>1. HalfInv => HalfMovesPending
  BY DEF HalfInv
<1> QED
  BY <1>1, HalfInvHolds, PTL

\* No step of the program takes the last copy of a version of a file.
LEMMA StepKeepsVersions ==
  ASSUME HalfInv, [Next]_vars, ~User
  PROVE  Contents \ (Files \X {0}) \subseteq Contents'
<1>1. ASSUME src' = src, dst' = dst
      PROVE  Contents \ (Files \X {0}) \subseteq Contents'
  BY <1>1 DEF Contents
<1>2. CASE RenameInPlace
  BY <1>2 DEF RenameInPlace, Contents, HalfInv, Trees, NoFiles
<1>3. CASE Publish
  BY <1>3 DEF Publish, CanPublish, Contents, HalfInv, Trees, NoFiles
<1>4. ASSUME NEW f \in Files, DeleteFile(f)
      PROVE  Contents \ (Files \X {0}) \subseteq Contents'
  <2>1. CASE src' = src
    BY <1>1, <1>4, <2>1 DEF DeleteFile
  <2>2. CASE src' # src
    <3>1. src.of[f] = dst.of[f] /\ dst' = dst /\ src' = [src EXCEPT !.of[f] = 0] /\ src \in Tree
      BY <1>4, <2>2 DEF DeleteFile, Same, HalfInv, TypeOK
    <3>2. \A g \in Files : g # f => src'.of[g] = src.of[g]
      BY <3>1, TreeUpdate
    <3> QED
      BY <3>1, <3>2 DEF Contents
  <2> QED
    BY <2>1, <2>2
<1>5. CASE DeleteDir
  <2>1. dst' = dst /\ (src' = src \/ src.of = NoFiles)
    BY <1>5 DEF DeleteDir
  <2>2. CASE src.of = NoFiles
    BY <2>1, <2>2 DEF Contents, NoFiles
  <2> QED
    BY <1>1, <2>1, <2>2
<1>6. CASE Begin \/ Start \/ Crash \/ Ready \/ UNCHANGED vars
  BY <1>1, <1>6 DEF Begin, Start, Crash, Ready, vars, disk
<1>7. CASE \/ RenameImpossible \/ RenameRefused \/ PrepareStaging \/ PrepareFails \/ MarkStaging
           \/ (\E f \in Files : CopyFile(f)) \/ CopyFails \/ Persist \/ PublishFails
  BY <1>1, <1>7 DEF RenameImpossible, RenameRefused, PrepareStaging, PrepareFails, MarkStaging,
     CopyFile, CopyFails, Persist, PublishFails, disk
<1>8. CASE CompareTrees \/ SetPublished \/ Rewrite \/ RewriteFails \/ Settle \/ SettleCleaned
  BY <1>1, <1>8 DEF CompareTrees, SetPublished, Rewrite, RewriteFails, Settle, SettleCleaned, disk
<1>9. CASE RecoverNext \/ \E i \in Moves : Retry(i)
  BY <1>1, <1>9 DEF RecoverNext, Retry, Finish
<1> QED
  BY <1>2, <1>3, <1>4, <1>5, <1>6, <1>7, <1>8, <1>9 DEF Next, Step

THEOREM VersionsKept == Spec => NoVersionLost
<1>1. HalfInv /\ [Next]_vars => [~User => Contents \ (Files \X {0}) \subseteq Contents']_vars
  BY StepKeepsVersions
<1> QED
  BY <1>1, HalfInvHolds, PTL DEF Spec, NoVersionLost

-----------------------------------------------------------------------------
(* Whose directory the index has                                           *)

Ours == origin = "ours"

\* What the program has seen of a file: every copy and every digest of it.
Known(f) == {src.of[f]} \cup {staging[i].of[f] : i \in Moves}
            \cup {journal[i].digest.of[f] : i \in Moves}

\* A directory that another program made holds a version the program has never
\* seen, so that no digest matches it.
Alien(f)   == dst.of[f] # 0 /\ dst.of[f] \notin Known(f)
Foreigners == origin = "foreign" => Happens("foreign") /\ \E f \in Files : Alien(f)
Numbered   == \A f \in Files : dst.of[f] <= edits /\ \A n \in Known(f) : n <= edits

Advanced(i) == journal[i].stage \in {"published", "source_leftover"}
Mine == Calm => /\ Late \/ index = "target" \/ ~src.dir => Ours
                /\ \A i \in Moves : Advanced(i) => Ours

OursInv == Mine /\ Foreigners /\ Numbered

LEMMA JournalKnown ==
  ASSUME TypeOK, NEW i \in Moves,
         \/ Insert(i) \/ Delete(i) \/ SetStage(i, "published") \/ SetStage(i, "source_leftover")
         \/ UNCHANGED journal
  PROVE  /\ \A k \in Moves, f \in Files :
               journal'[k].digest.of[f] \in {0, journal[k].digest.of[f]}
         /\ Insert(i) \/ Delete(i) => \A k \in Moves : Advanced(k)' => Advanced(k)
         /\ UNCHANGED journal => \A k \in Moves : Advanced(k)' => Advanced(k)
<1>1. journal \in [Moves -> Row] /\ journal[i] \in Row
  BY DEF TypeOK
<1>2. \A f \in Files : Gone.of[f] = 0
  BY DEF Gone, NoFiles
<1>3. ASSUME Insert(i)
      PROVE  /\ \A k \in Moves : k # i => journal'[k] = journal[k]
             /\ journal'[i].stage = "intent" /\ journal'[i].digest = Gone
  BY <1>1, <1>3 DEF Insert
<1>4. ASSUME Delete(i)
      PROVE  /\ \A k \in Moves : k # i => journal'[k] = journal[k]
             /\ journal'[i].stage = "none" /\ journal'[i].digest = Gone
  BY <1>1, <1>4 DEF Delete, NoRow
<1>5. ASSUME NEW s \in {"published", "source_leftover"}, SetStage(i, s)
      PROVE  \A k \in Moves : journal'[k].digest = journal[k].digest
  <2>1. [journal[i] EXCEPT !.stage = s].digest = journal[i].digest
    BY <1>1 DEF Row
  <2>2. journal' = [journal EXCEPT ![i] = [journal[i] EXCEPT !.stage = s]]
    BY <1>1, <1>5 DEF SetStage
  <2> QED
    BY <1>1, <2>1, <2>2
<1>6. CASE Insert(i)
  BY <1>2, <1>3, <1>6 DEF Advanced
<1>7. CASE Delete(i)
  BY <1>2, <1>4, <1>7 DEF Advanced
<1>8. CASE SetStage(i, "published") \/ SetStage(i, "source_leftover")
  <2>1. \A k \in Moves : journal'[k].digest = journal[k].digest
    BY <1>5, <1>8
  <2>2. Insert(i) \/ Delete(i) => \A k \in Moves : Advanced(k)' => Advanced(k)
    BY <1>3, <1>4 DEF Advanced
  <2> QED
    BY <2>1, <2>2 DEF Advanced
<1>9. CASE UNCHANGED journal
  <2>1. \A k \in Moves, f \in Files :
               journal'[k].digest.of[f] \in {0, journal[k].digest.of[f]}
    BY <1>9
  <2> QED
    BY <1>9, <2>1 DEF Advanced
<1> QED
  BY <1>6, <1>7, <1>8, <1>9

\* Nothing new is seen.
Dull == /\ UNCHANGED <<world, dst, origin, edits>>
        /\ \A f \in Files : src'.of[f] \in {0, src.of[f]}
        /\ \A i \in Moves, f \in Files : staging'[i].of[f] \in {0, src.of[f], staging[i].of[f]}
        /\ \A i \in Moves, f \in Files :
              journal'[i].digest.of[f] \in {0, journal[i].digest.of[f], staging[i].of[f]}

LEMMA DullKeeps ==
  ASSUME HalfInv, Foreigners, Numbered, Dull
  PROVE  Foreigners' /\ Numbered'
<1>1. \A f \in Files : Known(f)' \subseteq Known(f) \cup {0}
  BY DEF Dull, Known
<1>2. edits \in Nat
  BY DEF HalfInv, TypeOK
<1>3. Numbered'
  BY <1>1, <1>2 DEF Numbered, Dull
<1>4. Foreigners'
  BY <1>1 DEF Foreigners, Alien, Dull, Happens
<1> QED
  BY <1>3, <1>4

LEMMA CleanKnown ==
  ASSUME TypeOK, NEW i \in Moves, CleanStaging(i) \/ UNCHANGED <<staging, marked>>
  PROVE  \A k \in Moves, f \in Files : staging'[k].of[f] \in {0, staging[k].of[f]}
BY DEF CleanStaging, TypeOK, Gone, NoFiles

LEMMA FinishIsDull ==
  ASSUME HalfInv, NEW i \in Moves, NEW how \in {"retry", "boot"}, Finish(i, how)
  PROVE  Dull
<1>1. /\ UNCHANGED <<world, src, dst, origin, edits>>
      /\ Delete(i) \/ UNCHANGED journal
      /\ CleanStaging(i) \/ UNCHANGED <<staging, marked>>
  <2>1. /\ UNCHANGED <<world, src, dst, origin, edits>>
        /\ Leaves(i) \/ \E place \in {"rewrite", "publish", "stage"} : Takes(i, how, place)
    <3> HIDE DEF Takes, Leaves
    <3> QED
      BY FinishStep
  <2> QED
    BY <2>1 DEF Leaves, Takes
<1>2. TypeOK
  BY DEF HalfInv
<1>3. \A k \in Moves, f \in Files : staging'[k].of[f] \in {0, staging[k].of[f]}
  BY <1>1, <1>2, CleanKnown
<1>4. \A k \in Moves, f \in Files : journal'[k].digest.of[f] \in {0, journal[k].digest.of[f]}
  BY <1>1, <1>2, JournalKnown
<1> QED
  BY <1>1, <1>3, <1>4 DEF Dull

\* All steps but those that write a version or put a directory at the target.
LEMMA StepIsDull ==
  ASSUME HalfInv, Step, ~RenameInPlace, ~Publish
  PROVE  Dull
<1> USE DEF HalfInv
<1>0. Early \/ Late => id \in Moves
  BY DEF Rows
<1>1. CASE RenameImpossible \/ CompareTrees \/ Rewrite \/ Ready
  BY <1>1 DEF RenameImpossible, CompareTrees, Rewrite, Ready, Goto, Dull, disk, bounds
<1>2. CASE RenameRefused \/ SetPublished \/ RewriteFails \/ Settle
  <2>1. /\ id \in Moves
        /\ \/ Insert(id) \/ Delete(id) \/ SetStage(id, "published")
           \/ SetStage(id, "source_leftover") \/ UNCHANGED journal
    BY <1>0, <1>2 DEF RenameRefused, SetPublished, RewriteFails, Settle, TryDelete, TryStage,
       Unless, Early, Late
  <2>2. UNCHANGED <<world, disk, edits>>
    BY <1>2 DEF RenameRefused, SetPublished, RewriteFails, Settle
  <2> QED
    BY <2>1, <2>2, JournalKnown DEF Dull, disk
<1>3. CASE PrepareStaging \/ PrepareFails
  <2>1. /\ UNCHANGED <<world, src, dst, origin, journal, edits>> /\ id \in Moves
        /\ staging' = [staging EXCEPT ![id] = Made] \/ UNCHANGED staging
    BY <1>0, <1>3 DEF PrepareStaging, PrepareFails, disk, bounds, Early
  <2>2. \A f \in Files : Made.of[f] = 0
    BY DEF Made, NoFiles
  <2>3. \A k \in Moves, f \in Files : staging'[k].of[f] \in {0, staging[k].of[f]}
    BY <2>1, <2>2 DEF TypeOK
  <2> QED
    BY <2>1, <2>3 DEF Dull
<1>4. CASE MarkStaging \/ CopyFails \/ PublishFails \/ SettleCleaned
  <2>1. /\ id \in Moves
        /\ \/ Insert(id) \/ Delete(id) \/ SetStage(id, "published")
           \/ SetStage(id, "source_leftover") \/ UNCHANGED journal
    BY <1>0, <1>4 DEF MarkStaging, CopyFails, PublishFails, SettleCleaned, TryDelete, TryStage,
       Unless, Early, Late
  <2>2. /\ UNCHANGED <<world, src, dst, origin, edits>>
        /\ CleanStaging(id) \/ UNCHANGED staging
    BY <1>4 DEF MarkStaging, CopyFails, PublishFails, SettleCleaned
  <2>3. \A k \in Moves, f \in Files : staging'[k].of[f] \in {0, staging[k].of[f]}
    BY <2>1, <2>2, CleanKnown
  <2> QED
    BY <2>1, <2>2, <2>3, JournalKnown DEF Dull
<1>5. ASSUME NEW f \in Files, CopyFile(f)
      PROVE  Dull
  <2>1. /\ UNCHANGED <<world, src, dst, origin, journal, edits>> /\ id \in Moves
        /\ staging' = [staging EXCEPT ![id].of[f] = src.of[f]]
    BY <1>0, <1>5 DEF CopyFile, bounds, Early
  <2>2. \A k \in Moves, g \in Files : staging'[k].of[g] \in {src.of[g], staging[k].of[g]}
    <3>1. src.of[f] \in Nat /\ staging \in [Moves -> Tree] /\ staging[id] \in Tree
      BY <2>1 DEF TypeOK, Tree
    <3>2. staging' = [staging EXCEPT ![id] = [staging[id] EXCEPT !.of[f] = src.of[f]]]
      BY <2>1, <3>1
    <3>3. \A g \in Files : [staging[id] EXCEPT !.of[f] = src.of[f]].of[g]
                           = IF g = f THEN src.of[f] ELSE staging[id].of[g]
      <4>1. \A t \in Tree, g \in Files :
               [t EXCEPT !.of[f] = src.of[f]].of[g] = IF g = f THEN src.of[f] ELSE t.of[g]
        BY DEF Tree
      <4> QED
        BY <3>1, <4>1
    <3> QED
      BY <2>1, <3>1, <3>2, <3>3
  <2> QED
    BY <2>1, <2>2 DEF Dull
<1>6. CASE Persist
  <2>1. /\ UNCHANGED <<world, src, dst, origin, staging, edits>> /\ id \in Moves
        /\ journal' = [journal EXCEPT ![id].digest = staging[id]] \/ UNCHANGED journal
    BY <1>0, <1>6 DEF Persist, disk, Early
  <2>2. \A k \in Moves, f \in Files :
           journal'[k].digest.of[f] \in {journal[k].digest.of[f], staging[k].of[f]}
    <3>1. journal \in [Moves -> Row] /\ journal[id] \in Row
      BY <2>1 DEF TypeOK
    <3>2. [journal[id] EXCEPT !.digest = staging[id]].digest = staging[id]
      BY <3>1 DEF Row
    <3>3. [journal EXCEPT ![id].digest = staging[id]]
          = [journal EXCEPT ![id] = [journal[id] EXCEPT !.digest = staging[id]]]
      BY <3>1
    <3> QED
      BY <2>1, <3>1, <3>2, <3>3
  <2> QED
    BY <2>1, <2>2 DEF Dull
<1>7. ASSUME NEW f \in Files, DeleteFile(f)
      PROVE  Dull
  <2>1. /\ UNCHANGED <<world, dst, origin, staging, journal, edits>>
        /\ src' = [src EXCEPT !.of[f] = 0] \/ UNCHANGED src
    BY <1>7 DEF DeleteFile
  <2>2. \A g \in Files : src'.of[g] \in {0, src.of[g]}
    <3>1. src \in Tree /\ 0 \in Nat
      BY DEF TypeOK
    <3>2. CASE src' = [src EXCEPT !.of[f] = 0]
      <4>1. \A g \in Files : [src EXCEPT !.of[f] = 0].of[g] = IF g = f THEN 0 ELSE src.of[g]
        BY <3>1 DEF Tree
      <4> QED
        BY <3>2, <4>1
    <3> QED
      BY <2>1, <3>2
  <2> QED
    BY <2>1, <2>2 DEF Dull
<1>8. CASE DeleteDir
  <2>1. /\ UNCHANGED <<world, dst, origin, staging, journal, edits>>
        /\ src' = Gone \/ UNCHANGED src
    BY <1>8 DEF DeleteDir
  <2> QED
    BY <2>1 DEF Dull, Gone, NoFiles
<1>9. CASE RecoverNext
  <2>1. PICK i \in boot : Finish(i, "boot")
    BY <1>9 DEF RecoverNext
  <2> QED
    BY <2>1, FinishIsDull DEF TypeOK
<1> QED
  BY <1>1, <1>2, <1>3, <1>4, <1>5, <1>6, <1>7, <1>8, <1>9 DEF Step

\* A move puts a known directory at the target.
LEMMA ArrivalKnown ==
  ASSUME HalfInv, Foreigners, Numbered, RenameInPlace \/ Publish
  PROVE  Foreigners' /\ Numbered' /\ Ours' /\ UNCHANGED world
<1> USE DEF HalfInv
<1>1. Ours' /\ UNCHANGED <<world, edits, journal>>
  BY DEF RenameInPlace, Publish, Ours, bounds
<1>2. /\ \A f \in Files : dst'.of[f] \in Known(f) /\ src'.of[f] \in {0, src.of[f]}
      /\ \A k \in Moves, f \in Files : staging'[k].of[f] \in {0, staging[k].of[f]}
  <2>0. \A f \in Files : Gone.of[f] = 0
    BY DEF Gone, NoFiles
  <2>1. CASE RenameInPlace
    BY <2>0, <2>1 DEF RenameInPlace, Known
  <2>2. CASE Publish
    <3>1. id \in Moves
      BY <2>2 DEF Publish, Rows, Early
    <3> QED
      BY <2>0, <2>2, <3>1 DEF Publish, Known, TypeOK
  <2> QED
    BY <2>1, <2>2
<1>3. \A f \in Files : Known(f)' \subseteq Known(f) \cup {0}
  BY <1>1, <1>2 DEF Known
<1>4. Numbered'
  BY <1>1, <1>2, <1>3 DEF Numbered, TypeOK
<1>5. Foreigners'
  BY <1>1 DEF Foreigners, Ours
<1> QED
  BY <1>1, <1>4, <1>5

\* A version that is written is new.
LEMMA EditKnown ==
  ASSUME HalfInv, Foreigners, Numbered, NEW f \in Files, Edit(f)
  PROVE  Foreigners' /\ Numbered'
<1>1. /\ UNCHANGED <<world, origin, staging, journal>>
      /\ edits' = edits + 1 /\ edits \in Nat /\ edits + 1 \in Nat /\ src \in Tree /\ dst \in Tree
  BY DEF Edit, HalfInv, TypeOK
<1>2. \A t \in Tree, g \in Files :
         [t EXCEPT !.of[f] = edits + 1].of[g] = IF g = f THEN edits + 1 ELSE t.of[g]
  BY DEF Tree
<1>3. CASE src' = [src EXCEPT !.of[f] = edits'] /\ UNCHANGED dst
  <2>1. \A g \in Files : src'.of[g] = IF g = f THEN edits + 1 ELSE src.of[g]
    BY <1>1, <1>2, <1>3
  <2>2. \A g \in Files : Known(g)' \subseteq Known(g) \cup {edits + 1}
    BY <1>1, <2>1 DEF Known
  <2>3. \A g \in Files : dst'.of[g] = dst.of[g] /\ dst.of[g] # edits + 1
    BY <1>1, <1>3 DEF Numbered, Tree
  <2>4. Numbered'
    <3>1. \A g \in Files : \A n \in Known(g) : n \in Nat
      BY DEF Known, HalfInv, TypeOK, Row, Tree
    <3> QED
      BY <1>1, <2>2, <2>3, <3>1 DEF Numbered, Tree
  <2>5. Foreigners'
    BY <1>1, <2>2, <2>3 DEF Foreigners, Alien, Happens
  <2> QED
    BY <2>4, <2>5
<1>4. CASE dst' = [dst EXCEPT !.of[f] = edits'] /\ UNCHANGED src
  <2>1. \A g \in Files : dst'.of[g] = IF g = f THEN edits + 1 ELSE dst.of[g]
    BY <1>1, <1>2, <1>4
  <2>2. \A g \in Files : Known(g)' = Known(g)
    BY <1>1, <1>4 DEF Known
  <2>3. \A g \in Files : \A n \in Known(g) : n \in Nat /\ n <= edits
    BY DEF Known, HalfInv, TypeOK, Row, Tree, Numbered
  <2>4. Numbered'
    BY <1>1, <2>1, <2>2, <2>3 DEF Numbered, Tree
  <2>5. dst'.of[f] # 0 /\ dst'.of[f] \notin Known(f)'
    BY <1>1, <2>1, <2>2, <2>3
  <2>6. Foreigners'
    BY <1>1, <2>5 DEF Foreigners, Alien, Happens
  <2> QED
    BY <2>4, <2>6
<1> QED
  BY <1>3, <1>4 DEF Edit

LEMMA ForeignKnown ==
  ASSUME HalfInv, Foreigners, Numbered, NEW f \in Files, Foreign(f)
  PROVE  Foreigners' /\ Numbered'
<1>1. /\ UNCHANGED <<world, src, staging, journal>> /\ Happens("foreign")
      /\ edits' = edits + 1 /\ edits \in Nat /\ edits + 1 \in Nat /\ Made \in Tree
      /\ dst' = [Made EXCEPT !.of[f] = edits + 1]
  BY Blanks DEF Foreign, HalfInv, TypeOK
<1>2. \A g \in Files : dst'.of[g] = IF g = f THEN edits + 1 ELSE 0
  BY <1>1 DEF Made, NoFiles
<1>3. \A g \in Files : Known(g)' = Known(g)
  BY <1>1 DEF Known
<1>4. \A g \in Files : \A n \in Known(g) : n \in Nat /\ n <= edits
  BY DEF Known, HalfInv, TypeOK, Row, Tree, Numbered
<1>5. Numbered'
  BY <1>1, <1>2, <1>3, <1>4 DEF Numbered
<1>6. Alien(f)'
  BY <1>1, <1>2, <1>3, <1>4 DEF Alien
<1> QED
  BY <1>1, <1>5, <1>6 DEF Foreigners, Happens

\* A step is careful if the program gets no further with a directory that it
\* did not put there.
Careful ==
  /\ UNCHANGED world
  /\ \/ Ours'
     \/ /\ origin' = origin
        /\ Late' => Late
        /\ index' = "target" => index = "target" \/ Late
        /\ ~src'.dir => ~src.dir \/ Late
        /\ \A k \in Moves : Advanced(k)' => Advanced(k) \/ Late

LEMMA CarefulKeeps ==
  ASSUME Mine, Careful
  PROVE  Mine'
BY DEF Mine, Careful, Calm, MayLeave, Happens, Ours

\* A recovery claims a directory only if the row says that it was published,
\* or it is what was copied, or the source has gone: none of which is so if
\* another program made it.
LEMMA FinishOurs ==
  ASSUME HalfInv, OursInv, Calm, NEW i \in Moves, NEW how \in {"retry", "boot"}, Finish(i, how),
         pc' = "rewrite"
  PROVE  Ours
<1> USE DEF HalfInv, OursInv
<1>1. ~Keep /\ ~Drop(i)
  BY DEF Keep, Drop, Over
<1>2. rooted /\ Mounted("target")
  BY <1>1 DEF Finish
<1>3. CASE journal[i].stage = "intent"
  <2>1. FinishIntent(i, how)
    BY <1>2, <1>3 DEF Finish
  <2>2. PICK s \in Sight(src, "source") : dst.dir /\ Claims(i, how, s)
    BY <1>1, <2>1 DEF FinishIntent, Resume, Sight
  <2>3. SUFFICES ASSUME origin = "foreign" PROVE FALSE
    BY <2>2 DEF Trees, TypeOK, Ours
  <2>4. Happens("foreign") /\ \E f \in Files : Alien(f)
    BY <2>3 DEF Foreigners
  <2>5. ~Matches(i)
    BY <2>4 DEF Matches, Alien, Known
  <2>6. s = "absent"
    BY <2>2, <2>5 DEF Claims
  <2>7. Mounted("source")
    BY <2>4 DEF Calm, Trees
  <2>8. ~src.dir
    BY <2>6, <2>7 DEF Sight
  <2> QED
    BY <2>3, <2>8 DEF Mine, Ours
<1>4. CASE journal[i].stage # "intent"
  BY <1>4 DEF Finish, Pending, TypeOK, Row, Mine, Advanced
<1> QED
  BY <1>3, <1>4

LEMMA FinishMine ==
  ASSUME HalfInv, OursInv, NEW i \in Moves, NEW how \in {"retry", "boot"}, Finish(i, how)
  PROVE  Mine'
<1>1. /\ UNCHANGED <<world, src, origin, index>>
      /\ Leaves(i) \/ \E place \in {"rewrite", "publish", "stage"} : Takes(i, how, place)
  <2> HIDE DEF Takes, Leaves
  <2> QED
    BY FinishStep
<1>2. /\ Delete(i) \/ UNCHANGED journal
      /\ Late' => pc' = "rewrite"
  BY <1>1 DEF Leaves, Takes, Over, Late
<1>3. \A k \in Moves : Advanced(k)' => Advanced(k)
  BY <1>2, JournalKnown DEF HalfInv
<1>4. CASE ~Calm
  BY <1>1, <1>4 DEF Mine, Calm, MayLeave, Happens
<1>5. CASE pc' = "rewrite" /\ Calm
  <2>1. Ours
    BY <1>5, FinishOurs
  <2> QED
    BY <1>1, <2>1, CarefulKeeps DEF Careful, Ours, OursInv
<1>6. CASE pc' # "rewrite"
  BY <1>1, <1>2, <1>3, <1>6, CarefulKeeps DEF Careful, OursInv
<1> QED
  BY <1>4, <1>5, <1>6

LEMMA StepIsCareful ==
  ASSUME HalfInv, Step, ~RecoverNext
  PROVE  Careful
<1> USE DEF HalfInv
<1>0. Early \/ Late => id \in Moves
  BY DEF Rows
<1>1. CASE RenameInPlace \/ Publish
  BY <1>1 DEF RenameInPlace, Publish, Careful, Ours
<1>2. CASE RenameImpossible \/ PrepareStaging \/ PrepareFails \/ MarkStaging \/ CopyFails
  BY <1>2 DEF RenameImpossible, PrepareStaging, PrepareFails, MarkStaging, CopyFails,
     Goto, Over, Careful, Late, Advanced, disk
<1>3. CASE RenameRefused \/ PublishFails
  <2>1. /\ id \in Moves /\ (Delete(id) \/ UNCHANGED journal)
        /\ UNCHANGED <<world, src, origin, index>> /\ ~Late'
    BY <1>0, <1>3 DEF RenameRefused, PublishFails, TryDelete, Unless, Over, Early, Late, disk
  <2>2. \A k \in Moves : Advanced(k)' => Advanced(k)
    BY <2>1, JournalKnown
  <2> QED
    BY <2>1, <2>2 DEF Careful
<1>4. ASSUME NEW f \in Files, CopyFile(f)
      PROVE  Careful
  BY <1>4 DEF CopyFile, Careful, Late, Advanced
<1>5. CASE Persist
  <2>1. /\ UNCHANGED <<world, src, origin, index>> /\ ~Late' /\ id \in Moves
        /\ journal' = [journal EXCEPT ![id].digest = staging[id]] \/ UNCHANGED journal
    BY <1>0, <1>5 DEF Persist, Goto, Over, Early, Late, disk
  <2>2. \A k \in Moves : Advanced(k)' => Advanced(k)
    <3>1. journal \in [Moves -> Row] /\ journal[id] \in Row
      BY <2>1 DEF TypeOK
    <3>2. [journal[id] EXCEPT !.digest = staging[id]].stage = journal[id].stage
      BY <3>1 DEF Row
    <3>3. [journal EXCEPT ![id].digest = staging[id]]
          = [journal EXCEPT ![id] = [journal[id] EXCEPT !.digest = staging[id]]]
      BY <3>1
    <3> QED
      BY <2>1, <3>1, <3>2, <3>3 DEF Advanced
  <2> QED
    BY <2>1, <2>2 DEF Careful
<1>6. CASE \/ CompareTrees \/ (\E f \in Files : DeleteFile(f)) \/ DeleteDir \/ SetPublished
           \/ Rewrite \/ RewriteFails \/ Settle \/ SettleCleaned
  <2>1. Late /\ UNCHANGED <<world, origin>>
    BY <1>6 DEF CompareTrees, DeleteFile, DeleteDir, SetPublished, Rewrite, RewriteFails, Settle,
       SettleCleaned, Late, disk
  <2> QED
    BY <2>1 DEF Careful
<1>7. CASE Ready
  BY <1>7 DEF Ready, Careful, Late, Advanced, disk
<1> QED
  BY <1>1, <1>2, <1>3, <1>4, <1>5, <1>6, <1>7 DEF Step

LEMMA OursInvInit == Init => OursInv
<1> SUFFICES ASSUME Init PROVE OursInv
  OBVIOUS
<1>1. /\ src.dir /\ ~Late /\ index = "source" /\ origin = "nobody"
      /\ \A i \in Moves : ~Advanced(i)
  BY DEF Init, Late, Advanced, NoRow
<1>2. /\ dst = Gone /\ edits = 1 /\ src.of = [g \in Files |-> 1]
      /\ \A i \in Moves : staging[i] = Gone /\ journal[i].digest = Gone
  BY Blanks DEF Init, NoRow
<1>3. Numbered
  <2>1. \A g \in Files : Gone.of[g] = 0
    BY DEF Gone, NoFiles
  <2>2. ASSUME NEW h \in Files
        PROVE  dst.of[h] = 0 /\ \A n \in Known(h) : n \in {0, 1}
    BY <1>2, <2>1 DEF Known
  <2>3. \A n \in {0, 1} : n <= 1
    OBVIOUS
  <2> QED
    BY <1>2, <2>2, <2>3 DEF Numbered
<1> QED
  BY <1>1, <1>3 DEF OursInv, Mine, Foreigners

LEMMA OursInvNext == HalfInv /\ OursInv /\ [Next]_vars => OursInv'
<1> SUFFICES ASSUME HalfInv, OursInv, [Next]_vars PROVE OursInv'
  OBVIOUS
<1> USE DEF OursInv
<1>1. CASE Begin
  <2>1. /\ started + 1 \in Moves /\ Insert(started + 1)
        /\ UNCHANGED <<world, disk, index, edits>> /\ ~Late'
    BY <1>1 DEF Begin, HalfInv, TypeOK, Moves, Late
  <2>2. /\ \A k \in Moves, f \in Files :
               journal'[k].digest.of[f] \in {0, journal[k].digest.of[f]}
        /\ \A k \in Moves : Advanced(k)' => Advanced(k)
    BY <2>1, JournalKnown DEF HalfInv
  <2>3. Dull
    BY <2>1, <2>2 DEF Dull, disk
  <2>4. Careful
    BY <2>1, <2>2 DEF Careful, disk
  <2> QED
    BY <2>3, <2>4, DullKeeps, CarefulKeeps
<1>2. CASE Step
  <2>1. CASE RecoverNext
    <3>1. PICK i \in boot : Finish(i, "boot")
      BY <2>1 DEF RecoverNext
    <3>2. i \in Moves
      BY DEF HalfInv, TypeOK
    <3> QED
      BY <3>1, <3>2, FinishIsDull, DullKeeps, FinishMine
  <2>2. CASE ~RecoverNext
    <3>1. Mine'
      BY <1>2, <2>2, StepIsCareful, CarefulKeeps
    <3>2. Foreigners' /\ Numbered'
      BY <1>2, StepIsDull, DullKeeps, ArrivalKnown
    <3> QED
      BY <3>1, <3>2
  <2> QED
    BY <2>1, <2>2
<1>3. CASE \E i \in Moves : Retry(i)
  <2>1. PICK i \in Moves : Finish(i, "retry")
    BY <1>3 DEF Retry
  <2> QED
    BY <2>1, FinishIsDull, DullKeeps, FinishMine
<1>4. CASE Start \/ Crash
  <2>1. UNCHANGED <<world, disk, index, edits, journal>> /\ ~Late'
    BY <1>4 DEF Start, Crash, Late, bounds
  <2>2. Dull /\ Careful
    BY <2>1 DEF Dull, Careful, Advanced, disk
  <2> QED
    BY <2>2, DullKeeps, CarefulKeeps
<1>5. ASSUME NEW f \in Files, Edit(f)
      PROVE  OursInv'
  <2>1. src'.dir = src.dir
    <3>1. src \in Tree /\ edits' \in Nat /\ (src' = [src EXCEPT !.of[f] = edits'] \/ src' = src)
      BY <1>5 DEF Edit, HalfInv, TypeOK
    <3>2. [src EXCEPT !.of[f] = edits'].dir = src.dir
      BY <3>1 DEF Tree
    <3> QED
      BY <3>1, <3>2
  <2>2. Careful
    BY <1>5, <2>1 DEF Edit, Careful, Late, Advanced
  <2> QED
    BY <1>5, <2>2, EditKnown, CarefulKeeps
<1>6. ASSUME NEW f \in Files, Foreign(f)
      PROVE  OursInv'
  <2>1. ~dst.dir /\ UNCHANGED <<world, src, journal, index, pc>>
    BY <1>6 DEF Foreign
  <2>2. ~Late /\ src.dir /\ ~Ours
    BY <2>1 DEF HalfInv, Trees, Ours
  <2>3. Mine'
    BY <2>1, <2>2 DEF Mine, Calm, MayLeave, Happens, Late, Advanced
  <2> QED
    BY <1>6, <2>3, ForeignKnown
<1>7. CASE Scan \/ Unroot \/ \E side \in Sides : Unmount(side) \/ Mount(side)
  <2>1. /\ UNCHANGED <<world, disk, edits, journal, pc>>
        /\ index' = "target" => index = "target"
    BY <1>7 DEF Scan, Unroot, Unmount, Mount, bounds
  <2>2. Dull /\ Careful
    BY <2>1 DEF Dull, Careful, Late, Advanced, disk
  <2> QED
    BY <2>2, DullKeeps, CarefulKeeps
<1>8. CASE UNCHANGED vars
  <2>1. Dull /\ Careful
    BY <1>8 DEF Dull, Careful, Late, Advanced, vars, disk, bounds
  <2> QED
    BY <2>1, DullKeeps, CarefulKeeps
<1> QED
  BY <1>1, <1>2, <1>3, <1>4, <1>5, <1>6, <1>7, <1>8 DEF Next, User

\* The index never takes over a directory that the program did not put there,
\* if the source stays mounted or no other program makes directories.
THEOREM OnlyOursIndexed == Spec => []IndexedIsOurs
<1>1. OursInv => IndexedIsOurs
  BY DEF OursInv, Mine, Calm, Ours, IndexedIsOurs
<1>2. Spec => []OursInv
  BY HalfInvHolds, OursInvInit, OursInvNext, PTL DEF Spec
<1> QED
  BY <1>1, <1>2, PTL

-----------------------------------------------------------------------------
(* How a move ends *)

\* The places of a move, from its first to its last.  The source is cleaned up
\* before the index is rewritten, or once more after it, on a retry.
Phase(place, next) ==
    CASE place = "rename"    -> 13
      [] place = "stage"     -> 12
      [] place = "mark"      -> 11
      [] place = "copy"      -> 10
      [] place = "publish"   -> 9
      [] place = "compare"   -> IF next = "published" THEN 8 ELSE 3
      [] place = "delete"    -> IF next = "published" THEN 7 ELSE 2
      [] place = "published" -> 6
      [] place = "rewrite"   -> 5
      [] place = "settle"    -> 4
      [] place = "done"      -> 1
      [] OTHER               -> 0

Busy   == pc \notin {"off", "boot", "idle"}
Nearer == \/ Phase(pc, job.next)' < Phase(pc, job.next)
          \/ UNCHANGED pc /\ job'.next = job.next /\ \E f \in job.todo : job'.todo = job.todo \ {f}

Apart  == User /\ UNCHANGED <<pc, job, boot>>

\* A move in hand only goes forward, place by place and file by file, and a
\* start takes each row once: nothing in between is done again, wherever the
\* steps fail and whatever others do to the files and the volumes.
MovesWindDown ==
    [][/\ Busy => Nearer \/ Apart
       /\ pc = "boot" => \/ \E i \in boot : boot' = boot \ {i}
                         \/ boot = {} /\ pc' = "idle"
                         \/ Crash \/ Apart]_vars

LEMMA Phases ==
  ASSUME NEW next \in {"published", "done"}
  PROVE  /\ Phase("rename", next) = 13 /\ Phase("stage", next) = 12 /\ Phase("mark", next) = 11
         /\ Phase("copy", next) = 10 /\ Phase("publish", next) = 9
         /\ Phase("compare", next) = IF next = "published" THEN 8 ELSE 3
         /\ Phase("delete", next) = IF next = "published" THEN 7 ELSE 2
         /\ Phase("published", next) = 6 /\ Phase("rewrite", next) = 5
         /\ Phase("settle", next) = 4 /\ Phase("done", next) = 1
         /\ Phase("off", next) = 0 /\ Phase("boot", next) = 0 /\ Phase("idle", next) = 0
BY DEF Phase

\* A step to another place.
LEMMA Onward ==
  ASSUME TypeOK, job' \in Job, NEW to, pc' = to,
         \/ Busy /\ to \in {"off", "boot", "idle"}
         \/ job'.next = job.next /\
            <<pc, to>> \in {<<"rename", "stage">>, <<"rename", "published">>, <<"stage", "mark">>,
                            <<"mark", "copy">>, <<"copy", "publish">>, <<"compare", "delete">>,
                            <<"published", "rewrite">>, <<"rewrite", "settle">>}
         \/ <<pc, to>> = <<"publish", "compare">>
         \/ <<pc, to>> = <<"settle", "compare">> /\ job'.next = "done"
         \/ pc \in {"compare", "delete"} /\ to = job.next /\ job'.next = job.next
  PROVE  Nearer
<1>1. job.next \in {"published", "done"} /\ job'.next \in {"published", "done"} /\ pc \in Places
  BY DEF TypeOK, Job
<1>2. Phase(pc, job.next) \in Nat
  BY <1>1, Phases DEF Places
<1>3. CASE Busy /\ to \in {"off", "boot", "idle"}
  <2>1. Phase(pc, job.next)' = 0
    BY <1>1, <1>3, Phases
  <2>2. Phase(pc, job.next) > 0
    BY <1>1, <1>3, Phases DEF Busy, Places
  <2> QED
    BY <1>2, <1>3, <2>1, <2>2 DEF Nearer
<1>4. CASE ~(Busy /\ to \in {"off", "boot", "idle"})
  <2>1. Phase(pc, job.next)' < Phase(pc, job.next)
    BY <1>1, <1>4, Phases
  <2> QED
    BY <2>1 DEF Nearer
<1> QED
  BY <1>3, <1>4

LEMMA StepWinds ==
  ASSUME HalfInv, HalfInv', Step, Busy
  PROVE  Nearer
<1>1. TypeOK /\ job \in Job /\ job' \in Job
  BY DEF HalfInv, TypeOK
<1>2. CASE Over
  <2>1. pc' \in {"boot", "idle"}
    BY <1>2 DEF Over
  <2> QED
    BY <1>1, <2>1, Onward
<1>3. CASE \/ RenameInPlace \/ RenameImpossible \/ PrepareStaging \/ MarkStaging \/ Persist
           \/ SetPublished \/ Rewrite
  <2>1. job'.next = job.next \/ Over
    BY <1>1, <1>3 DEF RenameInPlace, RenameImpossible, PrepareStaging, MarkStaging, Persist,
       SetPublished, Rewrite, Goto, Job
  <2>2. \/ Over
        \/ <<pc, pc'>> \in {<<"rename", "stage">>, <<"rename", "published">>, <<"stage", "mark">>,
                            <<"mark", "copy">>, <<"copy", "publish">>,
                            <<"published", "rewrite">>, <<"rewrite", "settle">>}
    BY <1>3 DEF RenameInPlace, RenameImpossible, PrepareStaging, MarkStaging, Persist,
       SetPublished, Rewrite, Goto
  <2> QED
    BY <1>1, <1>2, <2>1, <2>2, Onward
<1>4. CASE RenameRefused \/ PrepareFails \/ CopyFails \/ PublishFails \/ RewriteFails \/ SettleCleaned
  BY <1>2, <1>4 DEF RenameRefused, PrepareFails, CopyFails, PublishFails, RewriteFails, SettleCleaned
<1>5. CASE Publish
  BY <1>1, <1>5, Onward DEF Publish
<1>6. ASSUME NEW f \in Files, CopyFile(f)
      PROVE  Nearer
  BY <1>1, <1>6 DEF CopyFile, Nearer, Job
<1>7. CASE CompareTrees \/ DeleteDir \/ \E f \in Files : DeleteFile(f)
  <2>1. ASSUME NEW all, Cleaned(all)
        PROVE  pc' = job.next /\ job'.next = job.next
    BY <1>1, <2>1 DEF Cleaned, Job
  <2>2. ASSUME NEW f \in Files, DeleteFile(f)
        PROVE  Nearer
    <3>1. CASE Cleaned(FALSE)
      BY <1>1, <2>1, <2>2, <3>1, Onward DEF DeleteFile
    <3>2. CASE ~Cleaned(FALSE)
      BY <1>1, <2>2, <3>2 DEF DeleteFile, Nearer, Job
    <3> QED
      BY <3>1, <3>2
  <2>3. CASE CompareTrees
    <3>1. CASE Cleaned(FALSE)
      BY <1>1, <2>1, <2>3, <3>1, Onward DEF CompareTrees
    <3>2. CASE ~Cleaned(FALSE)
      <4>1. pc = "compare" /\ pc' = "delete" /\ job'.next = job.next
        BY <1>1, <2>3, <3>2 DEF CompareTrees, Job
      <4> QED
        BY <1>1, <4>1, Onward
    <3> QED
      BY <3>1, <3>2
  <2>4. CASE DeleteDir
    BY <1>1, <2>1, <2>4, Onward DEF DeleteDir
  <2> QED
    BY <1>7, <2>2, <2>3, <2>4
<1>8. CASE Settle
  <2>1. \/ Over
        \/ pc = "settle" /\ pc' = "compare" /\ job' = [job EXCEPT !.next = "done"]
    BY <1>8 DEF Settle
  <2> QED
    BY <1>1, <1>2, <2>1, Onward DEF Job
<1>9. ~RecoverNext /\ ~Ready
  BY DEF RecoverNext, Ready, Busy
<1> QED
  BY <1>3, <1>4, <1>5, <1>6, <1>7, <1>8, <1>9 DEF Step

\* dir_move.rs: the steps of a move, of a retry and of a start come to an end.
\* With a user who retries, that is the part of MovesConverge a proof reaches.
THEOREM MovesGoForward == Spec => MovesWindDown
<1>1. ASSUME HalfInv, HalfInv', [Next]_vars, Busy
      PROVE  Nearer \/ Apart \/ UNCHANGED vars
  <2>1. CASE User
    BY <2>1 DEF Apart, User, Edit, Foreign, Scan, Unroot, Unmount, Mount
  <2>2. CASE Crash
    BY <1>1, <2>2, Onward DEF Crash, HalfInv, TypeOK
  <2>3. ~Begin /\ ~Start /\ ~(\E i \in Moves : Retry(i))
    BY <1>1 DEF Begin, Start, Retry, Busy
  <2> QED
    BY <1>1, <2>1, <2>2, <2>3, StepWinds DEF Next
<1>2. ASSUME [Next]_vars, pc = "boot"
      PROVE  \/ \E i \in boot : boot' = boot \ {i}
             \/ boot = {} /\ pc' = "idle"
             \/ Crash \/ Apart \/ UNCHANGED vars
  <2>1. CASE User
    BY <2>1 DEF Apart, User, Edit, Foreign, Scan, Unroot, Unmount, Mount
  <2>2. CASE Step
    BY <1>2, <2>2 DEF Step, RecoverNext, Ready, RenameInPlace, RenameImpossible, RenameRefused,
       PrepareStaging, PrepareFails, MarkStaging, CopyFile, CopyFails, Persist, Publish, PublishFails,
       CompareTrees, DeleteFile, DeleteDir, SetPublished, Rewrite, RewriteFails, Settle, SettleCleaned
  <2>3. ~Begin /\ ~Start /\ ~(\E i \in Moves : Retry(i))
    BY <1>2 DEF Begin, Start, Retry
  <2> QED
    BY <1>2, <2>1, <2>2, <2>3 DEF Next
<1>3. HalfInv /\ HalfInv' /\ [Next]_vars =>
        [/\ Busy => Nearer \/ Apart
         /\ pc = "boot" => \/ \E i \in boot : boot' = boot \ {i}
                           \/ boot = {} /\ pc' = "idle"
                           \/ Crash \/ Apart]_vars
  BY <1>1, <1>2
<1> QED
  BY <1>3, HalfInvHolds, PTL DEF Spec, MovesWindDown

=============================================================================
