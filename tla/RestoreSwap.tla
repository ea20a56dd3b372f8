----------------------------- MODULE RestoreSwap -----------------------------
(***************************************************************************)
(* Restoring a backup: staging a package (backup/restore.rs), confirming   *)
(* it (arm_restore) and the swap of the live library at the next start     *)
(* (backup/swap.rs, db/boot.rs).                                           *)
(*                                                                         *)
(* The swap is a sequence of renames and removals in the application data  *)
(* folder, with a marker file that records its phase.  The process may die *)
(* between any two of them and is then started again; every step whose     *)
(* error the code ignores may also silently fail, when the setting of the  *)
(* behaviour names it.                                                     *)
(*                                                                         *)
(* Abstractions.  A file's content is the number of the library it belongs *)
(* to.  "wal" stands for the -wal and -shm side files (both are moved by   *)
(* the same loop; -shm carries no data).  A rename and write_atomic are    *)
(* one step each.  An error the code propagates ends the process           *)
(* (StartupFailure), so it is a Crash.  Wizards of several processes may   *)
(* stage and confirm, one restore.lock between them; what is started and   *)
(* stopped is one instance.  The rollback package arm_restore writes first is left out:  *)
(* nothing in the program reads it back.                                   *)
(***************************************************************************)
EXTENDS Naturals, FiniteSets

CONSTANTS
  BackupId,     \* names of restore-staging/{id} and restore-old/{id}
  NoId,         \* no marker
  MaxLibrary,   \* bound: libraries ever made (edits and staged packages)
  MaxFaults,    \* bound: crashes during a start, failed steps, lost staging
  Settings      \* what else may go wrong in a behaviour: a set of Setting

BestEffort == {"lock", "verified", "old", "staging", "marker"}

\* ignored: the best-effort steps that may fail; lateLoss: may the staging
\* folder vanish after its database left it?
Setting == [ignored : SUBSET BestEffort, lateLoss : BOOLEAN]

ASSUME RestoreAssumption ==
  /\ NoId \notin BackupId
  /\ MaxLibrary \in Nat \ {0}
  /\ MaxFaults \in Nat
  /\ Settings \subseteq Setting

VARIABLES
  setting,   \* the setting of this behaviour
  live,      \* scrollery.db, its side files and documents/ in the data folder
  old,       \* restore-old/{id}
  staging,   \* restore-staging/{id}, without its token file
  token,     \* restore-staging/{id}/stage-token, 0 when absent
  marker,    \* pending-restore.json: [id, phase]; id = NoId when absent
  pc,        \* where the process is; "off" when it does not run
  step,      \* the file the current loop is at
  applied,   \* boot.rs restore_applied: the live library is an unverified package
  tickets,   \* what restore wizards hold: RestoreStageResult
  last,      \* history: the library as the last session left it
  armed,     \* history: the package confirmed for the next start: what was
             \* left of the one the wizard showed; or Blank
  made,      \* how many libraries have been made
  faults     \* how many faults have happened

disk   == <<live, old, staging, token, marker>>
ghosts == <<last, armed, made>>
vars   == <<setting, live, old, staging, token, marker, pc, step, applied, tickets,
            last, armed, made, faults>>

-----------------------------------------------------------------------------
(* Folders and libraries                                                   *)

File   == {"db", "wal", "docs"}
NoFile == 0
EmptyLibrary == MaxLibrary + 1   \* a database the program made from nothing
Dir    == [File -> 0..EmptyLibrary]
Blank  == [f \in File |-> NoFile]

\* LIVE_DB_FILES, then documents: the order in which every loop visits them.
FileAt(n) == IF n = 1 THEN "db" ELSE IF n = 2 THEN "wal" ELSE "docs"

\* Library number n; hasWal: it was not checkpointed; hasDocs: documents/ exists.
Library(n, hasWal, hasDocs) ==
  [f \in File |-> IF (f = "wal" /\ ~hasWal) \/ (f = "docs" /\ ~hasDocs)
                  THEN NoFile ELSE n]

Phase == {"Prepared", "CurrentMoved", "Installed", "Verified",
          "RollbackRemoving", "RollbackRestoring"}
NoMarker == [id |-> NoId, phase |-> "Prepared"]
\* pkg: the package a wizard shows; Blank when it shows none, and only has to
\* discard the staging again.
Ticket == [id : BackupId, token : 1..MaxLibrary, pkg : Dir]

\* The pass over the files a step belongs to, by pc.
Loops == {"moveOut", "install", "reverse", "remove", "putBack"}
PC == Loops \union
      {"off", "swap", "markMoved", "markInstalled", "abortMarker", "open",
       "finMark", "finOld", "finStaging", "finMarker",
       "rbMark", "markRestoring", "rbStaging", "rbOld", "rbMarker", "running"}

TypeOK ==
  /\ setting \in Settings
  /\ live \in Dir
  /\ old \in [BackupId -> Dir]
  /\ staging \in [BackupId -> Dir]
  /\ token \in [BackupId -> 0..MaxLibrary]
  /\ marker \in [id : BackupId, phase : Phase] \union {NoMarker}
  /\ pc \in PC
  /\ step \in 1..3
  /\ applied \in BOOLEAN
  /\ tickets \subseteq Ticket
  /\ last \in Dir
  /\ armed \in Dir
  /\ made \in 0..MaxLibrary
  /\ faults \in 0..MaxFaults

Init ==
  /\ setting \in Settings
  /\ \E w, d \in BOOLEAN : live = Library(1, w, d)
  /\ old = [i \in BackupId |-> Blank]
  /\ staging = [i \in BackupId |-> Blank]
  /\ token = [i \in BackupId |-> NoFile]
  /\ marker = NoMarker
  /\ pc = "running" /\ step = 1 /\ applied = FALSE
  /\ tickets = {}
  /\ last = live /\ armed = Blank
  /\ made = 1 /\ faults = 0

Fault == faults < MaxFaults /\ faults' = faults + 1
Goto(from, to) == pc = from /\ pc' = to
SetPhase(p) == marker' = [marker EXCEPT !.phase = p]
Keep(dir, files) == [f \in File |-> IF f \in files THEN dir[f] ELSE NoFile]

-----------------------------------------------------------------------------
(* A running session                                                       *)

\* The session changes the database, checkpoints it or not, adds documents.
Edit ==
  /\ pc = "running" /\ made < MaxLibrary
  /\ made' = made + 1
  /\ \E w, d \in BOOLEAN : live' = Library(made', w, d)
  /\ last' = live'
  /\ UNCHANGED <<old, staging, token, marker, pc, step, applied, tickets, armed, faults>>

\* The session ends or is killed; what wizards held is lost with the webview.
Stop ==
  /\ Goto("running", "off")
  /\ tickets' = {}
  /\ UNCHANGED <<disk, step, applied, ghosts, faults>>

NotPending(i) == marker.id # i

\* restore_stage: validated, unpacked in place of an earlier staging, and the
\* token written last; the wizard shows what was staged.
StageAnyway(i) ==
  /\ pc = "running" /\ made < MaxLibrary
  /\ made' = made + 1
  /\ \E d \in BOOLEAN :
       /\ staging' = [staging EXCEPT ![i] = Library(made', FALSE, d)]
       /\ tickets' = tickets \union {[id |-> i, token |-> made',
                                      pkg |-> Library(made', FALSE, d)]}
  /\ token' = [token EXCEPT ![i] = made']
  /\ UNCHANGED <<live, old, marker, pc, step, applied, last, armed, faults>>

Stage(i) == NotPending(i) /\ StageAnyway(i)

\* StagingLocation::remove stops half way: it takes the contents first and the
\* token last, so any part of the package is left under a token that is valid.
RemoveHalf(i) ==
  /\ \E left \in SUBSET {"db", "docs"} : staging' = [staging EXCEPT ![i] = Keep(@, left)]
  /\ UNCHANGED token

\* The new staging stops half way, the earlier one being gone.
UnpackHalf(i) ==
  /\ made < MaxLibrary
  /\ \E left \in SUBSET {"db", "docs"} :
       staging' = [staging EXCEPT ![i] = Keep(Library(made + 1, FALSE, TRUE), left)]
  /\ token' = [token EXCEPT ![i] = NoFile]

\* restore_stage fails or dies, in remove_existing or after it.
StageFails(i) ==
  /\ pc = "running" /\ NotPending(i) /\ Fault
  /\ RemoveHalf(i) \/ UnpackHalf(i)
  /\ UNCHANGED <<live, old, marker, pc, step, applied, tickets, ghosts>>

\* restore_discard by the wizard that holds t: a no-op when the staging now
\* belongs to a later one.
Discard(t) ==
  /\ pc = "running" /\ NotPending(t.id)
  /\ IF token[t.id] = t.token
     THEN /\ staging' = [staging EXCEPT ![t.id] = Blank]
          /\ token' = [token EXCEPT ![t.id] = NoFile]
     ELSE UNCHANGED <<staging, token>>
  /\ tickets' = tickets \ {t}
  /\ UNCHANGED <<live, old, marker, pc, step, applied, ghosts, faults>>

\* restore_discard fails: the wizard shows an error in place of its summary and
\* keeps the token, to discard again.
DiscardFails(t) ==
  /\ pc = "running" /\ NotPending(t.id) /\ Fault
  /\ token[t.id] = t.token /\ RemoveHalf(t.id)
  /\ tickets' = (tickets \ {t}) \union {[t EXCEPT !.pkg = Blank]}
  /\ UNCHANGED <<live, old, marker, pc, step, applied, ghosts>>

\* arm_restore: no restore is armed yet, the staging has the token of this
\* wizard, which shows a package, and a database; nothing else of the package
\* is looked at again.
ArmAnyToken(t) ==
  /\ pc = "running"
  /\ marker = NoMarker
  /\ t.pkg # Blank
  /\ staging[t.id]["db"] # NoFile
  /\ marker' = [id |-> t.id, phase |-> "Prepared"]
  /\ armed' = Keep(t.pkg, {f \in File : staging[t.id][f] # NoFile})
  /\ tickets' = tickets \ {t}
  /\ UNCHANGED <<live, old, staging, token, pc, step, applied, last, made, faults>>

Arm(t) == token[t.id] = t.token /\ ArmAnyToken(t)

-----------------------------------------------------------------------------
(* The world while the program does not run                                *)

\* The staging folder is deleted (disk cleaner, user); without lateLoss only
\* while its database is still in it.
StagingLost(i) ==
  /\ pc = "off" /\ Fault
  /\ staging[i] # Blank
  /\ setting.lateLoss \/ staging[i]["db"] # NoFile
  /\ staging' = [staging EXCEPT ![i] = Blank]
  /\ token' = [token EXCEPT ![i] = NoFile]
  /\ UNCHANGED <<live, old, marker, pc, step, applied, tickets, ghosts>>

StartApp ==
  /\ Goto("off", "swap")
  /\ UNCHANGED <<disk, step, applied, tickets, ghosts, faults>>

-----------------------------------------------------------------------------
(* perform_swap_at_boot                                                    *)

\* What each phase asks for.  A restart repeats the phase the marker names.
SwapNoMarker == marker = NoMarker /\ pc' = "open" /\ applied' = FALSE

\* Mutant: refuses to start when the staging is gone.
SwapPreparedRefuses ==
  /\ marker # NoMarker /\ marker.phase = "Prepared"
  /\ pc' = IF staging[marker.id]["db"] = NoFile THEN "off" ELSE "moveOut"
  /\ applied' = FALSE

SwapPrepared ==
  /\ marker # NoMarker /\ marker.phase = "Prepared"
  /\ pc' = IF staging[marker.id]["db"] = NoFile THEN "reverse" ELSE "moveOut"
  /\ applied' = FALSE

\* Mutant: a live database counts as a finished installation.
SwapCurrentMovedNoInstall ==
  /\ marker.phase = "CurrentMoved"
  /\ pc' = IF live["db"] # NoFile THEN "markInstalled"
           ELSE IF staging[marker.id]["db"] # NoFile THEN "install" ELSE "markRestoring"
  /\ applied' = FALSE

SwapCurrentMoved ==
  /\ marker.phase = "CurrentMoved"
  /\ pc' = IF live["db"] # NoFile \/ staging[marker.id]["db"] # NoFile
           THEN "install" ELSE "markRestoring"
  /\ applied' = FALSE

SwapInstalled == marker.phase = "Installed" /\ pc' = "open" /\ applied' = TRUE

SwapVerified == marker.phase = "Verified" /\ pc' = "finOld" /\ applied' = FALSE

SwapRollback ==
  /\ \/ marker.phase = "RollbackRemoving" /\ pc' = "remove"
     \/ marker.phase = "RollbackRestoring" /\ pc' = "putBack"
  /\ applied' = FALSE

Swap ==
  /\ pc = "swap"
  /\ \/ SwapNoMarker \/ SwapPrepared \/ SwapCurrentMoved
     \/ SwapInstalled \/ SwapVerified \/ SwapRollback
  /\ step' = 1
  /\ UNCHANGED <<disk, tickets, ghosts, faults>>

\* One iteration of a loop over the files, which ends at "done".
Advance(at, done) ==
  /\ pc = at
  /\ IF step = 3 THEN pc' = done /\ step' = 1
                 ELSE pc' = at /\ step' = step + 1
  /\ UNCHANGED <<token, marker, applied, tickets, ghosts, faults>>

\* move_current_to_old: renames over what old holds, except for documents.
MoveOut ==
  LET f == FileAt(step) IN
  /\ Advance("moveOut", "markMoved")
  /\ IF live[f] # NoFile /\ (f = "docs" => old[marker.id][f] = NoFile)
     THEN /\ old' = [old EXCEPT ![marker.id][f] = live[f]]
          /\ live' = [live EXCEPT ![f] = NoFile]
     ELSE UNCHANGED <<live, old>>
  /\ UNCHANGED staging

\* install_staging_to_live: only where the live file is absent.
Install ==
  LET f == FileAt(step) IN
  /\ Advance("install", "markInstalled")
  /\ IF staging[marker.id][f] # NoFile /\ live[f] = NoFile
     THEN /\ live' = [live EXCEPT ![f] = staging[marker.id][f]]
          /\ staging' = [staging EXCEPT ![marker.id][f] = NoFile]
     ELSE UNCHANGED <<live, staging>>
  /\ UNCHANGED old

\* restore_current_from_old: only where the live file is absent.
BringBack(at, done) ==
  LET f == FileAt(step) IN
  /\ Advance(at, done)
  /\ IF old[marker.id][f] # NoFile /\ live[f] = NoFile
     THEN /\ live' = [live EXCEPT ![f] = old[marker.id][f]]
          /\ old' = [old EXCEPT ![marker.id][f] = NoFile]
     ELSE UNCHANGED <<live, old>>
  /\ UNCHANGED staging

Reverse == BringBack("reverse", "abortMarker")
PutBack == BringBack("putBack", "rbStaging")

\* rollback: the package that was installed is deleted from the live place.
Remove ==
  /\ Advance("remove", "markRestoring")
  /\ live' = [live EXCEPT ![FileAt(step)] = NoFile]
  /\ UNCHANGED <<old, staging>>

\* write_marker with the next phase, then go on.
Mark(at, p, to) ==
  /\ Goto(at, to)
  /\ SetPhase(p)
  /\ step' = 1
  /\ UNCHANGED <<live, old, staging, token, tickets, ghosts, faults>>

MarkMoved == Mark("markMoved", "CurrentMoved", "install") /\ UNCHANGED applied
MarkInstalled == Mark("markInstalled", "Installed", "open") /\ applied' = TRUE
MarkRemoving == Mark("rbMark", "RollbackRemoving", "remove") /\ applied' = FALSE
\* Mutant: originals are put back while the marker still says "removing".
MarkRestoringLate == Mark("markRestoring", "RollbackRemoving", "putBack") /\ UNCHANGED applied
\* Mutant: a rollback that has removed the package starts to remove it again.
MarkRestoringAgain == Mark("markRestoring", "RollbackRemoving", "remove") /\ UNCHANGED applied
MarkRestoring == Mark("markRestoring", "RollbackRestoring", "putBack") /\ UNCHANGED applied

-----------------------------------------------------------------------------
(* Best-effort clean-up: the code ignores these errors                     *)

Done(at, to) ==
  /\ Goto(at, to)
  /\ UNCHANGED <<live, step, tickets>>

\* remove_dir_all(old) removes everything, or any part of it when it fails.
DropOld(at, to) ==
  /\ Done(at, to)
  /\ \/ old' = [old EXCEPT ![marker.id] = Blank] /\ UNCHANGED faults
     \/ /\ "old" \in setting.ignored /\ Fault
        /\ \E left \in SUBSET File : old' = [old EXCEPT ![marker.id] = Keep(@, left)]
  /\ UNCHANGED <<staging, token, marker, applied, ghosts>>

DropStaging(at, to) ==
  /\ Done(at, to)
  /\ \/ /\ staging' = [staging EXCEPT ![marker.id] = Blank]
        /\ token' = [token EXCEPT ![marker.id] = NoFile]
        /\ UNCHANGED faults
     \/ /\ "staging" \in setting.ignored /\ Fault
        /\ \E left \in SUBSET File :
             staging' = [staging EXCEPT ![marker.id] = Keep(@, left)]
        /\ UNCHANGED token
  /\ UNCHANGED <<old, marker, applied, ghosts>>

DropMarker ==
  \/ marker' = NoMarker /\ UNCHANGED faults
  \/ "marker" \in setting.ignored /\ Fault /\ UNCHANGED marker

\* The session starts: it works in whatever is live.
Enter == last' = live' /\ armed' = Blank /\ UNCHANGED made

\* finalize_restore_verified: record Verified, then clean up.
FinMark ==
  /\ Done("finMark", "finOld")
  /\ \/ SetPhase("Verified") /\ UNCHANGED faults
     \/ "verified" \in setting.ignored /\ Fault /\ UNCHANGED marker
  /\ UNCHANGED <<old, staging, token, applied, ghosts>>

\* Another process holds restore.lock: nothing is cleaned, the session starts.
FinLockBusy ==
  /\ "lock" \in setting.ignored /\ Fault
  /\ Done("finMark", "running")
  /\ Enter
  /\ UNCHANGED <<old, staging, token, marker, applied>>

FinOld == DropOld("finOld", "finStaging")
FinStaging == DropStaging("finStaging", "finMarker")

\* Called by boot.rs the session follows; called by the swap, boot.rs opens.
FinMarker ==
  /\ Done("finMarker", IF applied THEN "running" ELSE "open")
  /\ DropMarker
  /\ IF applied THEN Enter ELSE UNCHANGED ghosts
  /\ UNCHANGED <<old, staging, token, applied>>

RbStaging == DropStaging("rbStaging", "rbOld")
RbOld == DropOld("rbOld", "rbMarker")

RbMarker ==
  /\ Done("rbMarker", "open")
  /\ DropMarker
  /\ UNCHANGED <<old, staging, token, applied, ghosts>>

AbortMarker ==
  /\ Done("abortMarker", "open")
  /\ DropMarker
  /\ UNCHANGED <<old, staging, token, applied, ghosts>>

-----------------------------------------------------------------------------
(* db/boot.rs: open the database, initialise the schema                    *)

\* create_write_connection makes an empty database when there is none.
OpenDb == live' = IF live["db"] = NoFile THEN [live EXCEPT !["db"] = EmptyLibrary] ELSE live

Open ==
  /\ pc = "open"
  /\ OpenDb
  /\ IF applied
     THEN pc' = "finMark" /\ UNCHANGED ghosts
     ELSE pc' = "running" /\ Enter
  /\ UNCHANGED <<old, staging, token, marker, step, applied, tickets, faults>>

\* initialize_database fails: a package is rolled back, otherwise the start is
\* fatal.
OpenFails ==
  /\ pc = "open" /\ Fault
  /\ OpenDb
  /\ pc' = IF applied THEN "rbMark" ELSE "off"
  /\ UNCHANGED <<old, staging, token, marker, step, applied, tickets, ghosts>>

-----------------------------------------------------------------------------
\* The process dies, or a propagated error ends it, at any point of a start.
\* Only the disk survives; a folder removal may be half done.
Crash ==
  /\ pc \notin {"off", "running"} /\ Fault
  /\ pc' = "off" /\ step' = 1 /\ applied' = FALSE /\ tickets' = {}
  /\ IF pc \in {"finOld", "rbOld"}
     THEN \E left \in SUBSET File : old' = [old EXCEPT ![marker.id] = Keep(@, left)]
     ELSE UNCHANGED old
  /\ IF pc \in {"finStaging", "rbStaging"}
     THEN \E left \in SUBSET File : staging' = [staging EXCEPT ![marker.id] = Keep(@, left)]
     ELSE UNCHANGED staging
  /\ UNCHANGED <<live, token, marker, ghosts>>

Boot ==
  \/ Swap \/ MoveOut \/ Install \/ Reverse \/ Remove \/ PutBack
  \/ MarkMoved \/ MarkInstalled \/ MarkRemoving \/ MarkRestoring
  \/ FinMark \/ FinLockBusy \/ FinOld \/ FinStaging \/ FinMarker
  \/ RbStaging \/ RbOld \/ RbMarker \/ AbortMarker
  \/ Open

Session ==
  \/ Edit \/ Stop
  \/ \E i \in BackupId : Stage(i) \/ StageFails(i)
  \/ \E t \in tickets : Discard(t) \/ DiscardFails(t) \/ Arm(t)

World == Crash \/ OpenFails \/ \E i \in BackupId : StagingLost(i)

Next == (Session \/ StartApp \/ Boot \/ World) /\ UNCHANGED setting

Spec == Init /\ [][Next]_vars

\* The program is started again after it ended, and a start goes on until it
\* reaches the session or dies.  Nothing is assumed of sessions and faults.
FairSpec ==
  Spec /\ WF_vars(StartApp /\ UNCHANGED setting) /\ WF_vars(Boot /\ UNCHANGED setting)

-----------------------------------------------------------------------------
(* Properties                                                              *)

\* restore.lock is free, the write of Verified and the removal of restore-old do
\* not fail silently, and the staging folder does not vanish half installed.
Reliable == setting.ignored \subseteq {"staging", "marker"} /\ ~setting.lateLoss

\* A start never opens a mixture: when the database is about to be opened,
\* the live files are, all of them, the library the last session left, or
\* all of them the confirmed package as it was when it was confirmed (swap.rs:
\* a crash at any point and a restart "converge to a self-consistent state").
NeverAMixture ==
  pc = "open" => /\ live["db"] # NoFile
                 /\ live \in {last, armed}
                 /\ applied /\ armed # Blank => live = armed

\* No mixture is opened in a reliable setting; RestoreResidue.cfg shows one in
\* a setting that is not.
WholeLibrary == Reliable => NeverAMixture

\* The package was opened and accepted: from here on the old library may go.
PackageAccepted == live = armed /\ (marker = NoMarker \/ marker.phase = "Verified")

Held(f) ==
  \/ last[f] = NoFile
  \/ live[f] = last[f]
  \/ marker # NoMarker /\ old[marker.id][f] = last[f]

\* Until the package has been opened and accepted, every file of the library
\* the last session left is still on disk, live or in restore-old, whatever
\* crashed, however often the swap or its rollback was repeated.
SessionDataKept == Reliable => PackageAccepted \/ \A f \in File : Held(f)

\* Until it is installed, the package the user confirmed stays on disk as it
\* was when the user confirmed it, and it is the one the wizard showed or what
\* was left of it: no later preview, discard or restart removes a part of it or
\* puts another in its place, unless the staging folder is deleted from outside
\* (its token goes too).  That something may be missing of it already is
\* another matter: see ShownIsStaged.
ArmedPackageKept ==
  /\ Reliable
  /\ armed # Blank
  /\ marker # NoMarker /\ marker.phase \in {"Prepared", "CurrentMoved", "Installed"}
  /\ token[marker.id] # NoFile
  => \A f \in File : armed[f] # NoFile => armed[f] \in {live[f], staging[marker.id][f]}

\* A package that a wizard shows and arm_restore would accept is staged as it is
\* shown: the token vouches for the whole preview ("the ownership of this
\* preview", restore.rs:133).  RestoreTornStage.cfg shows that it does not.
ShownIsStaged ==
  \A t \in tickets :
    t.pkg # Blank /\ marker = NoMarker /\ token[t.id] = t.token /\ staging[t.id]["db"] # NoFile
    => staging[t.id] = t.pkg

\* The user sees an atomic restore, in a reliable setting: see AtomicRestore.
Abs == INSTANCE AtomicRestore
  WITH Snapshot <- Dir, Nothing <- Blank,
       lib <- IF Reliable THEN last ELSE Blank,
       offer <- IF Reliable THEN armed ELSE Blank,
       up <- (Reliable => pc = "running")
RestoreIsAtomic == Abs!AbsSpec

\* How many steps a start has still to go at most, if nothing goes wrong.
StepsLeft ==
  CASE pc = "swap" -> 15
    [] pc = "moveOut" -> 15 - step
    [] pc = "rbMark" -> 12
    [] pc = "markMoved" -> 11
    [] pc = "remove" -> 12 - step
    [] pc = "install" -> 11 - step
    [] pc = "markRestoring" -> 8
    [] pc = "putBack" -> 8 - step
    [] pc = "markInstalled" -> 7
    [] pc = "open" -> IF applied THEN 6 ELSE 1
    [] pc = "reverse" -> 6 - step
    [] pc = "finMark" -> 5
    [] pc \in {"finOld", "rbStaging"} -> 4
    [] pc \in {"finStaging", "rbOld"} -> 3
    [] pc \in {"finMarker", "rbMarker", "abortMarker"} -> 2
    [] OTHER -> 0

\* Every step of a start brings it nearer to the session, whatever it finds on
\* disk and whichever clean-up fails: only a crash or a database that cannot be
\* initialised sends it back, so no phase of the marker leads round in a circle
\* (perform_swap_at_boot, rollback_restore_at_boot_locked).
InStart == pc \notin {"off", "running"}
Stumbles == Crash \/ OpenFails
StartsWindDown ==
  [][InStart => StepsLeft' \in Nat /\ (StepsLeft' < StepsLeft \/ Stumbles)]_vars

\* With finitely many faults every start in the end reaches a session: no
\* combination of marker and files sends the boot into a dead end or a loop.
StartsConverge == []<>(pc = "running")

=============================================================================
