-------------------------- MODULE RestoreSwap_proofs --------------------------
(***************************************************************************)
(* Theorems about RestoreSwap, for every set of backups, every number of   *)
(* libraries and every number of faults.                                   *)
(***************************************************************************)
EXTENDS RestoreSwap, TLAPS

USE RestoreAssumption

-----------------------------------------------------------------------------
(* Operators on folders                                                    *)

\* A library number gives a folder whose files are 0 or that number.
LEMMA LibraryIsDir ==
  ASSUME NEW n \in 1..MaxLibrary, NEW w \in BOOLEAN, NEW d \in BOOLEAN
  PROVE  Library(n, w, d) \in Dir
BY DEF Library, Dir, File, NoFile, EmptyLibrary

LEMMA BlankIsDir == Blank \in Dir
BY DEF Blank, Dir, File, NoFile, EmptyLibrary

\* A removal that stops half way leaves a folder.
LEMMA KeepIsDir ==
  ASSUME NEW dir \in Dir, NEW files \in SUBSET File
  PROVE  Keep(dir, files) \in Dir
BY DEF Keep, Dir, File, NoFile, EmptyLibrary

LEMMA FileAtIsFile ==
  ASSUME NEW n \in 1..3
  PROVE  FileAt(n) \in File
BY DEF FileAt, File

\* Writing one file of a folder, or of one folder among several.
LEMMA DirUpdate ==
  ASSUME NEW a \in Dir, NEW f \in File, NEW v \in 0..EmptyLibrary
  PROVE  /\ [a EXCEPT ![f] = v] \in Dir
         /\ a[f] \in 0..EmptyLibrary
BY DEF Dir

LEMMA DirsUpdate ==
  ASSUME NEW o \in [BackupId -> Dir], NEW i \in BackupId, NEW f \in File,
         NEW v \in 0..EmptyLibrary
  PROVE  /\ [o EXCEPT ![i][f] = v] \in [BackupId -> Dir]
         /\ o[i][f] \in 0..EmptyLibrary
<1>1. o[i] \in Dir
  OBVIOUS
<1>2. [o[i] EXCEPT ![f] = v] \in Dir
  BY <1>1, DirUpdate
<1> QED
  BY <1>1, <1>2, DirUpdate

LEMMA NoFileIsContent == NoFile \in 0..EmptyLibrary
BY DEF NoFile, EmptyLibrary

-----------------------------------------------------------------------------
(* The inductive invariant                                                 *)

\* The facts below hold in a reliable setting: a removal of restore-old and the
\* write of the Verified marker do not fail silently, restore.lock is free, and
\* the staging folder is not deleted half way through its installation;
\* RestoreResidue.cfg shows why for the first of them.

At(phase) == marker # NoMarker /\ marker.phase = phase
Old == old[marker.id]
Staged == staging[marker.id]

\* Where a file of the replaced library is while it is moved out or back.
Home(f) == live[f] = last[f] /\ Old[f] = NoFile
Away(f) == live[f] = NoFile /\ Old[f] = last[f]
Visited(f) == IF f = "db" THEN step > 1 ELSE f = "wal" /\ step > 2

\* Every step of a start that reads the marker's backup has a marker.
MarkerNeeded ==
  /\ pc \notin {"off", "swap", "open", "running"} => marker # NoMarker
  /\ pc = "open" /\ applied => marker # NoMarker
  /\ pc \in {"reverse", "abortMarker", "remove", "markRestoring", "putBack",
            "rbStaging", "rbOld", "rbMarker"} => ~applied

\* Which phase the marker shows at each place of a start.
PhaseOfPC ==
  /\ pc \in {"moveOut", "markMoved", "reverse", "abortMarker"} => At("Prepared")
  /\ pc \in {"install", "markInstalled"} => At("CurrentMoved")
  /\ pc \in {"finMark", "rbMark"} => At("Installed")
  /\ pc = "remove" => At("RollbackRemoving")
  /\ pc = "markRestoring" => At("CurrentMoved") \/ At("RollbackRemoving")
  /\ pc \in {"putBack", "rbStaging", "rbOld", "rbMarker"} => At("RollbackRestoring")
  /\ pc \in {"finOld", "finStaging", "finMarker"} => At("Verified")
  /\ pc = "open" => /\ ~At("CurrentMoved") /\ ~At("RollbackRemoving")
                    /\ applied <=> At("Installed")
  /\ pc = "running" => \/ marker = NoMarker
                       \/ At("Prepared") \/ At("Verified") \/ At("RollbackRestoring")

\* restore-old holds something only for the restore the marker names.
NoResidue == \A i \in BackupId : old[i] # Blank => marker # NoMarker /\ i = marker.id

Packages ==
  /\ \A i \in BackupId : staging[i]["wal"] = NoFile
  /\ armed # Blank => armed["db"] # NoFile /\ armed["wal"] = NoFile
  /\ last["db"] # NoFile

\* What is staged under a token is what the wizard shows, or a part of it.
Vouched(t) == \A f \in File : staging[t.id][f] \in {NoFile, t.pkg[f]}
Tokens ==
  /\ \A t \in tickets : t.token <= made /\ (token[t.id] = t.token /\ t.pkg # Blank => Vouched(t))
  /\ pc # "running" => tickets = {}

Idle ==
  /\ marker = NoMarker => live = last \/ (armed # Blank /\ live = armed)
  /\ pc = "running" => live = last /\ \A i \in BackupId : old[i] = Blank

Prepared == At("Prepared") =>
  /\ \A f \in File : Home(f) \/ Away(f)
  /\ Staged["db"] # NoFile => armed # Blank /\ Staged = armed
  /\ armed = Blank => \A f \in File : Home(f)
  /\ pc = "moveOut" => Staged["db"] # NoFile /\ \A f \in File : Visited(f) => Away(f)
  /\ pc = "markMoved" => Staged["db"] # NoFile /\ \A f \in File : Away(f)
  /\ pc = "reverse" => \A f \in File : Visited(f) => Home(f)
  /\ pc \in {"abortMarker", "open"} => \A f \in File : Home(f)
  /\ pc \in {"reverse", "abortMarker", "open"} => Staged["db"] = NoFile

CurrentMoved == At("CurrentMoved") =>
  /\ armed # Blank /\ Old = last
  /\ live["db"] \in {NoFile, armed["db"]} /\ live["wal"] = NoFile
  /\ live["db"] = NoFile => /\ live = Blank
                            /\ Staged["db"] # NoFile => Staged = armed
  /\ live["db"] # NoFile => Staged["db"] = NoFile
  /\ live["db"] # NoFile => \/ live["docs"] = armed["docs"] /\ live["docs"] # NoFile
                            \/ live["docs"] = NoFile /\ Staged["docs"] = armed["docs"]
  /\ pc = "install" => \/ live["db"] # NoFile
                       \/ step = 1 /\ Staged["db"] # NoFile
  /\ pc = "markInstalled" => live = armed
  /\ pc = "markRestoring" => live = Blank

Installed == At("Installed") => armed # Blank /\ Old = last /\ live = armed

Verified == At("Verified") =>
  /\ IF armed = Blank THEN live = last ELSE live = armed
  /\ pc \in {"finStaging", "finMarker", "open"} => Old = Blank
  /\ pc = "running" => armed = Blank

RollbackRemoving == At("RollbackRemoving") =>
  /\ armed # Blank /\ Old = last
  /\ pc = "remove" => \A f \in File : Visited(f) => live[f] = NoFile
  /\ pc = "markRestoring" => live = Blank

RollbackRestoring == At("RollbackRestoring") =>
  /\ \A f \in File : Home(f) \/ Away(f)
  /\ armed = Blank => \A f \in File : Home(f)
  /\ pc = "putBack" => \A f \in File : Visited(f) => Home(f)
  /\ pc \in {"rbStaging", "rbOld", "rbMarker", "open"} => \A f \in File : Home(f)

Phases ==
  /\ Prepared /\ CurrentMoved /\ Installed /\ Verified
  /\ RollbackRemoving /\ RollbackRestoring

Facts == PhaseOfPC /\ NoResidue /\ Packages /\ Tokens /\ Idle /\ Phases

IInv == TypeOK /\ MarkerNeeded /\ Facts

-----------------------------------------------------------------------------
(* Type correctness                                                        *)

LEMMA TypeInit == Init => TypeOK
<1> SUFFICES ASSUME Init PROVE TypeOK
  OBVIOUS
<1>1. PICK w \in BOOLEAN, d \in BOOLEAN : live = Library(1, w, d)
  BY DEF Init
<1>2. live \in Dir
  BY <1>1, LibraryIsDir
<1>3. /\ old \in [BackupId -> Dir]
      /\ staging \in [BackupId -> Dir]
      /\ token \in [BackupId -> 0..MaxLibrary]
  BY BlankIsDir DEF Init, NoFile
<1>4. /\ made \in 0..MaxLibrary
      /\ faults \in 0..MaxFaults
      /\ step \in 1..3
  BY DEF Init
<1>5. /\ marker \in [id : BackupId, phase : Phase] \union {NoMarker}
      /\ pc \in PC
      /\ tickets \subseteq Ticket
      /\ applied \in BOOLEAN
      /\ armed \in Dir
      /\ last \in Dir
  BY <1>2, BlankIsDir DEF Init, PC
<1> QED
  BY <1>2, <1>3, <1>4, <1>5 DEF TypeOK, Init

\* A removal or an unpacking that stops half way leaves typed folders.
LEMMA HalfIsTyped ==
  ASSUME TypeOK, NEW i \in BackupId, RemoveHalf(i) \/ UnpackHalf(i)
  PROVE  staging' \in [BackupId -> Dir] /\ token' \in [BackupId -> 0..MaxLibrary]
<1> USE DEF TypeOK
<1>1. CASE RemoveHalf(i)
  <2>1. PICK left \in SUBSET {"db", "docs"} :
          staging' = [staging EXCEPT ![i] = Keep(staging[i], left)]
    BY <1>1 DEF RemoveHalf
  <2>2. Keep(staging[i], left) \in Dir
    BY KeepIsDir DEF File
  <2> QED
    BY <1>1, <2>1, <2>2 DEF RemoveHalf
<1>2. CASE UnpackHalf(i)
  <2>1. PICK left \in SUBSET {"db", "docs"} :
          staging' = [staging EXCEPT ![i] = Keep(Library(made + 1, FALSE, TRUE), left)]
    BY <1>2 DEF UnpackHalf
  <2>2. made + 1 \in 1..MaxLibrary
    BY <1>2 DEF UnpackHalf
  <2>3. Keep(Library(made + 1, FALSE, TRUE), left) \in Dir
    BY <2>2, LibraryIsDir, KeepIsDir DEF File
  <2>4. staging' \in [BackupId -> Dir]
    BY <2>1, <2>3
  <2>5. token' \in [BackupId -> 0..MaxLibrary]
    BY <1>2 DEF UnpackHalf, NoFile
  <2> QED
    BY <2>4, <2>5
<1> QED
  BY <1>1, <1>2

\* One step of a session.
LEMMA TypeSession == TypeOK /\ Session /\ UNCHANGED setting => TypeOK'
<1> SUFFICES ASSUME TypeOK, Session, UNCHANGED setting PROVE TypeOK'
  OBVIOUS
<1> USE DEF TypeOK
<1>1. CASE Edit
  BY <1>1, LibraryIsDir DEF Edit
<1>2. CASE Stop
  BY <1>2 DEF Stop, Goto, disk, ghosts, PC
<1>3. ASSUME NEW i \in BackupId, Stage(i) PROVE TypeOK'
  <2>1. made' \in 1..MaxLibrary
    BY <1>3 DEF Stage, StageAnyway
  <2>2. PICK d \in BOOLEAN :
          /\ staging' = [staging EXCEPT ![i] = Library(made', FALSE, d)]
          /\ tickets' = tickets \union {[id |-> i, token |-> made',
                                         pkg |-> Library(made', FALSE, d)]}
    BY <1>3 DEF Stage, StageAnyway
  <2>3. Library(made', FALSE, d) \in Dir
    BY <2>1, LibraryIsDir
  <2>4. [id |-> i, token |-> made', pkg |-> Library(made', FALSE, d)] \in Ticket
    BY <2>1, <2>3 DEF Ticket
  <2>5. /\ tickets' \subseteq Ticket
        /\ staging' \in [BackupId -> Dir]
    BY <2>2, <2>3, <2>4
  <2>6. token' \in [BackupId -> 0..MaxLibrary]
    BY <1>3, <2>1 DEF Stage, StageAnyway
  <2> QED
    BY <1>3, <2>1, <2>5, <2>6 DEF Stage, StageAnyway
<1>4. ASSUME NEW i \in BackupId, StageFails(i) PROVE TypeOK'
  <2>1. staging' \in [BackupId -> Dir] /\ token' \in [BackupId -> 0..MaxLibrary]
    BY <1>4, HalfIsTyped DEF StageFails
  <2>2. faults' \in 0..MaxFaults
    BY <1>4 DEF StageFails, Fault
  <2> QED
    BY <1>4, <2>1, <2>2 DEF StageFails, ghosts
<1>5. ASSUME NEW t \in tickets, Discard(t) PROVE TypeOK'
  BY <1>5, BlankIsDir DEF Discard, ghosts, Ticket, NoFile
<1>6. ASSUME NEW t \in tickets, DiscardFails(t) PROVE TypeOK'
  <2>1. t.id \in BackupId /\ [t EXCEPT !.pkg = Blank] \in Ticket
    BY BlankIsDir DEF Ticket
  <2>2. staging' \in [BackupId -> Dir] /\ token' \in [BackupId -> 0..MaxLibrary]
    BY <1>6, <2>1, HalfIsTyped DEF DiscardFails
  <2>3. tickets' \subseteq Ticket /\ faults' \in 0..MaxFaults
    BY <1>6, <2>1 DEF DiscardFails, Fault
  <2> QED
    BY <1>6, <2>2, <2>3 DEF DiscardFails, ghosts
<1>7. ASSUME NEW t \in tickets, Arm(t) PROVE TypeOK'
  <2>1. armed' \in Dir
    BY <1>7, KeepIsDir DEF Arm, ArmAnyToken, Ticket
  <2> QED
    BY <1>7, <2>1 DEF Arm, ArmAnyToken, Ticket, Phase
<1> QED
  BY <1>1, <1>2, <1>3, <1>4, <1>5, <1>6, <1>7 DEF Session

\* A start finds a marker whose phase is known.
LEMMA MarkerId ==
  ASSUME TypeOK, marker # NoMarker
  PROVE  marker.id \in BackupId /\ marker.phase \in Phase
BY DEF TypeOK

\* One step of a start, where no loop index leaves 1..3.
LEMMA TypeBoot == TypeOK /\ MarkerNeeded /\ Boot /\ UNCHANGED setting => TypeOK'
<1> SUFFICES ASSUME TypeOK, MarkerNeeded, Boot, UNCHANGED setting PROVE TypeOK'
  OBVIOUS
<1> USE DEF TypeOK
<1>1. CASE Swap
  <2>1. pc' \in PC /\ applied' \in BOOLEAN
    BY <1>1 DEF Swap, SwapNoMarker, SwapPrepared, SwapCurrentMoved, SwapInstalled,
                SwapVerified, SwapRollback, PC, Loops
  <2>2. step' = 1 /\ UNCHANGED <<disk, tickets, ghosts, faults>>
    BY <1>1 DEF Swap
  <2> QED
    BY <2>1, <2>2 DEF disk, ghosts
<1>2. ASSUME NEW at \in Loops, NEW done \in PC, Advance(at, done)
      PROVE  pc' \in PC /\ step' \in 1..3 /\ FileAt(step) \in File
  BY <1>2, FileAtIsFile DEF Advance, PC
<1>3. CASE MoveOut
  <2>1. pc' \in PC /\ step' \in 1..3 /\ FileAt(step) \in File
    BY <1>2, <1>3 DEF MoveOut, Loops, PC
  <2>2. marker.id \in BackupId
    BY <1>3, MarkerId DEF MoveOut, Advance, MarkerNeeded
  <2>3. live' \in Dir /\ old' \in [BackupId -> Dir]
    BY <1>3, <2>1, <2>2, DirUpdate, DirsUpdate, NoFileIsContent DEF MoveOut
  <2> QED
    BY <1>3, <2>1, <2>3 DEF MoveOut, Advance, ghosts
<1>4. CASE Install
  <2>1. pc' \in PC /\ step' \in 1..3 /\ FileAt(step) \in File
    BY <1>2, <1>4 DEF Install, Loops, PC
  <2>2. marker.id \in BackupId
    BY <1>4, MarkerId DEF Install, Advance, MarkerNeeded
  <2>3. live' \in Dir /\ staging' \in [BackupId -> Dir]
    BY <1>4, <2>1, <2>2, DirUpdate, DirsUpdate, NoFileIsContent DEF Install
  <2> QED
    BY <1>4, <2>1, <2>3 DEF Install, Advance, ghosts
<1>5. CASE Reverse \/ PutBack
  <2>1. pc' \in PC /\ step' \in 1..3 /\ FileAt(step) \in File
    BY <1>2, <1>5 DEF Reverse, PutBack, BringBack, Loops, PC
  <2>2. marker.id \in BackupId
    BY <1>5, MarkerId DEF Reverse, PutBack, BringBack, Advance, MarkerNeeded
  <2>3. live' \in Dir /\ old' \in [BackupId -> Dir]
    BY <1>5, <2>1, <2>2, DirUpdate, DirsUpdate, NoFileIsContent
       DEF Reverse, PutBack, BringBack
  <2> QED
    BY <1>5, <2>1, <2>3 DEF Reverse, PutBack, BringBack, Advance, ghosts
<1>6. CASE Remove
  <2>1. pc' \in PC /\ step' \in 1..3 /\ FileAt(step) \in File
    BY <1>2, <1>6 DEF Remove, Loops, PC
  <2> QED
    BY <1>6, <2>1, DirUpdate, NoFileIsContent DEF Remove, Advance, ghosts
<1>7. CASE MarkMoved \/ MarkInstalled \/ MarkRemoving \/ MarkRestoring
  <2>1. marker.id \in BackupId
    BY <1>7, MarkerId DEF MarkMoved, MarkInstalled, MarkRemoving, MarkRestoring, Mark,
                          Goto, MarkerNeeded
  <2>2. marker' \in [id : BackupId, phase : Phase]
    BY <1>7, <2>1 DEF MarkMoved, MarkInstalled, MarkRemoving, MarkRestoring, Mark,
                      SetPhase, Phase, NoMarker
  <2>3. pc' \in PC /\ applied' \in BOOLEAN
    BY <1>7 DEF MarkMoved, MarkInstalled, MarkRemoving, MarkRestoring, Mark,
                Goto, PC, Loops
  <2> QED
    BY <1>7, <2>2, <2>3 DEF MarkMoved, MarkInstalled, MarkRemoving, MarkRestoring, Mark, ghosts
<1>8. CASE FinMark \/ FinLockBusy
  <2>1. marker.id \in BackupId
    BY <1>8, MarkerId DEF FinMark, FinLockBusy, Done, Goto, MarkerNeeded
  <2>2. marker' \in [id : BackupId, phase : Phase] \union {NoMarker}
    BY <1>8, <2>1 DEF FinMark, FinLockBusy, SetPhase, Phase, NoMarker
  <2> QED
    BY <1>8, <2>2, BlankIsDir DEF FinMark, FinLockBusy, Done, Goto, Fault, Enter, PC, ghosts
<1>9. CASE FinOld \/ RbOld
  <2>1. marker.id \in BackupId
    BY <1>9, MarkerId DEF FinOld, RbOld, DropOld, Done, Goto, MarkerNeeded
  <2>2. old[marker.id] \in Dir
    BY <2>1
  <2>3. old' \in [BackupId -> Dir]
    BY <1>9, <2>1, <2>2, BlankIsDir, KeepIsDir DEF FinOld, RbOld, DropOld
  <2> QED
    BY <1>9, <2>3 DEF FinOld, RbOld, DropOld, Done, Goto, Fault, PC, ghosts
<1>10. CASE FinStaging \/ RbStaging
  <2>1. marker.id \in BackupId
    BY <1>10, MarkerId DEF FinStaging, RbStaging, DropStaging, Done, Goto, MarkerNeeded
  <2>2. staging[marker.id] \in Dir
    BY <2>1
  <2>3. staging' \in [BackupId -> Dir]
    BY <1>10, <2>1, <2>2, BlankIsDir, KeepIsDir DEF FinStaging, RbStaging, DropStaging
  <2>4. token' \in [BackupId -> 0..MaxLibrary]
    BY <1>10, <2>1 DEF FinStaging, RbStaging, DropStaging, NoFile
  <2> QED
    BY <1>10, <2>3, <2>4 DEF FinStaging, RbStaging, DropStaging, Done, Goto, Fault, PC, ghosts
<1>11. CASE FinMarker \/ RbMarker \/ AbortMarker
  <2>1. /\ marker' \in [id : BackupId, phase : Phase] \union {NoMarker}
        /\ faults' \in 0..MaxFaults
    BY <1>11 DEF FinMarker, RbMarker, AbortMarker, DropMarker, Fault
  <2>2. last' \in Dir /\ armed' \in Dir /\ live' \in Dir /\ made' \in 0..MaxLibrary
    BY <1>11, BlankIsDir DEF FinMarker, RbMarker, AbortMarker, Done, Enter, ghosts
  <2> QED
    BY <1>11, <2>1, <2>2 DEF FinMarker, RbMarker, AbortMarker, Done, Goto, PC
<1>12. CASE Open
  <2>1. live' \in Dir
    BY <1>12 DEF Open, OpenDb, Dir, EmptyLibrary, File
  <2> QED
    BY <1>12, <2>1, BlankIsDir DEF Open, Enter, ghosts, PC
<1> QED
  BY <1>1, <1>3, <1>4, <1>5, <1>6, <1>7, <1>8, <1>9, <1>10, <1>11, <1>12 DEF Boot

\* Faults and the world outside.
LEMMA TypeWorld == TypeOK /\ MarkerNeeded /\ (World \/ StartApp) /\ UNCHANGED setting => TypeOK'
<1> SUFFICES ASSUME TypeOK, MarkerNeeded, World \/ StartApp, UNCHANGED setting PROVE TypeOK'
  OBVIOUS
<1> USE DEF TypeOK
<1>1. CASE StartApp
  BY <1>1 DEF StartApp, Goto, disk, ghosts, PC
<1>2. CASE OpenFails
  <2>1. live' \in Dir
    BY <1>2 DEF OpenFails, OpenDb, Dir, EmptyLibrary, File
  <2> QED
    BY <1>2, <2>1 DEF OpenFails, Fault, ghosts, PC
<1>3. ASSUME NEW i \in BackupId, StagingLost(i) PROVE TypeOK'
  BY <1>3, BlankIsDir DEF StagingLost, Fault, ghosts, NoFile
<1>4. CASE Crash
  <2>1. old' \in [BackupId -> Dir]
    <3>1. CASE pc \in {"finOld", "rbOld"}
      <4>1. marker.id \in BackupId
        BY <3>1, MarkerId DEF MarkerNeeded
      <4>2. old[marker.id] \in Dir
        BY <4>1
      <4> QED
        BY <1>4, <3>1, <4>1, <4>2, KeepIsDir DEF Crash
    <3> QED
      BY <1>4, <3>1 DEF Crash
  <2>2. staging' \in [BackupId -> Dir]
    <3>1. CASE pc \in {"finStaging", "rbStaging"}
      <4>1. marker.id \in BackupId
        BY <3>1, MarkerId DEF MarkerNeeded
      <4>2. staging[marker.id] \in Dir
        BY <4>1
      <4> QED
        BY <1>4, <3>1, <4>1, <4>2, KeepIsDir DEF Crash
    <3> QED
      BY <1>4, <3>1 DEF Crash
  <2>3. faults' \in 0..MaxFaults /\ pc' \in PC /\ step' \in 1..3
    BY <1>4 DEF Crash, Fault, PC
  <2>4. applied' \in BOOLEAN /\ tickets' \subseteq Ticket
    BY <1>4 DEF Crash
  <2> QED
    BY <1>4, <2>1, <2>2, <2>3, <2>4 DEF Crash, ghosts
<1> QED
  BY <1>1, <1>2, <1>3, <1>4 DEF World

LEMMA MarkerInit == Init => MarkerNeeded
BY DEF Init, MarkerNeeded

\* Only the last clean-up step of a start removes the marker.
LEMMA MarkerStep == TypeOK /\ MarkerNeeded /\ [Next]_vars => MarkerNeeded'
<1> SUFFICES ASSUME TypeOK, MarkerNeeded, [Next]_vars PROVE MarkerNeeded'
  OBVIOUS
<1> USE DEF MarkerNeeded
<1>1. CASE UNCHANGED vars
  BY <1>1 DEF vars
<1>2. CASE Session
  BY <1>2 DEF Session, Edit, Stop, Stage, StageAnyway, StageFails, Discard,
              DiscardFails, Arm, ArmAnyToken, Goto, disk, ghosts, NoMarker
<1>3. CASE StartApp \/ World
  BY <1>3 DEF StartApp, World, Crash, OpenFails, StagingLost, Goto, disk, ghosts
<1>4. CASE Swap
  BY <1>4 DEF Swap, SwapNoMarker, SwapPrepared, SwapCurrentMoved, SwapInstalled,
              SwapVerified, SwapRollback, disk, NoMarker
<1>5. CASE MoveOut \/ Install \/ Reverse \/ Remove \/ PutBack
  BY <1>5 DEF MoveOut, Install, Reverse, Remove, PutBack, BringBack, Advance
<1>6. CASE MarkMoved \/ MarkInstalled \/ MarkRemoving \/ MarkRestoring
  BY <1>6, MarkerId DEF MarkMoved, MarkInstalled, MarkRemoving, MarkRestoring, Mark,
                        SetPhase, Goto, NoMarker, TypeOK
<1>7. CASE FinMark \/ FinLockBusy \/ FinOld \/ FinStaging
  BY <1>7, MarkerId DEF FinMark, FinLockBusy, FinOld, FinStaging, DropOld, DropStaging,
                        SetPhase, Done, Goto, NoMarker, TypeOK
<1>8. CASE RbStaging \/ RbOld
  BY <1>8 DEF RbStaging, RbOld, DropOld, DropStaging, Done, Goto
<1>9. CASE FinMarker \/ RbMarker \/ AbortMarker
  BY <1>9 DEF FinMarker, RbMarker, AbortMarker, DropMarker, Done, Goto
<1>10. CASE Open
  BY <1>10 DEF Open
<1> QED
  BY <1>1, <1>2, <1>3, <1>4, <1>5, <1>6, <1>7, <1>8, <1>9, <1>10 DEF Next, Boot

LEMMA TypeStep == TypeOK /\ MarkerNeeded /\ [Next]_vars => TypeOK'
<1>1. TypeOK /\ UNCHANGED vars => TypeOK'
  BY DEF TypeOK, vars
<1> QED
  BY <1>1, TypeSession, TypeBoot, TypeWorld DEF Next

\* Every state has its type, whatever may fail (swap.rs, restore.rs, boot.rs):
\* no loop of the swap runs past its files, no folder holds a foreign library.
THEOREM TypeCorrect == Spec => []TypeOK
<1>1. Init => TypeOK /\ MarkerNeeded
  BY TypeInit, MarkerInit
<1>2. TypeOK /\ MarkerNeeded /\ [Next]_vars => (TypeOK /\ MarkerNeeded)'
  BY TypeStep, MarkerStep
<1> QED
  BY <1>1, <1>2, PTL DEF Spec

-----------------------------------------------------------------------------
(* Starts wind down: the marker never leads round in a circle               *)

\* One iteration of a loop, which leads to a place that is less than a step away.
LEMMA LoopsWindDown ==
  ASSUME TypeOK, MarkerNeeded, MoveOut \/ Install \/ Reverse \/ Remove \/ PutBack
  PROVE  StepsLeft' \in Nat /\ StepsLeft' < StepsLeft
<1>0. step \in 1..3 /\ step' \in Nat
  BY DEF TypeOK, MoveOut, Install, Reverse, Remove, PutBack, BringBack, Advance
<1>1. step # 3 => step' = step + 1 /\ step' \in 1..3
  BY <1>0 DEF MoveOut, Install, Reverse, Remove, PutBack, BringBack, Advance
<1>2. CASE MoveOut
  <2>1. pc = "moveOut" /\ IF step = 3 THEN pc' = "markMoved" ELSE pc' = "moveOut"
    BY <1>2 DEF MoveOut, Advance
  <2> QED BY <1>0, <1>1, <2>1 DEF StepsLeft
<1>3. CASE Install
  <2>1. pc = "install" /\ IF step = 3 THEN pc' = "markInstalled" ELSE pc' = "install"
    BY <1>3 DEF Install, Advance
  <2> QED BY <1>0, <1>1, <2>1 DEF StepsLeft
<1>4. CASE Reverse
  <2>1. pc = "reverse" /\ IF step = 3 THEN pc' = "abortMarker" ELSE pc' = "reverse"
    BY <1>4 DEF Reverse, BringBack, Advance
  <2> QED BY <1>0, <1>1, <2>1 DEF StepsLeft
<1>5. CASE Remove
  <2>1. pc = "remove" /\ IF step = 3 THEN pc' = "markRestoring" ELSE pc' = "remove"
    BY <1>5 DEF Remove, Advance
  <2> QED BY <1>0, <1>1, <2>1 DEF StepsLeft
<1>6. CASE PutBack
  <2>1. pc = "putBack" /\ IF step = 3 THEN pc' = "rbStaging" ELSE pc' = "putBack"
    BY <1>6 DEF PutBack, BringBack, Advance
  <2> QED BY <1>0, <1>1, <2>1 DEF StepsLeft
<1> QED BY <1>2, <1>3, <1>4, <1>5, <1>6

LEMMA MarksWindDown ==
  ASSUME MarkMoved \/ MarkInstalled \/ MarkRemoving \/ MarkRestoring
  PROVE  StepsLeft' \in Nat /\ StepsLeft' < StepsLeft
<1>1. CASE MarkMoved
  <2>1. pc = "markMoved" /\ pc' = "install" /\ step' = 1
    BY <1>1 DEF MarkMoved, Mark, Goto
  <2> QED BY <2>1 DEF StepsLeft
<1>2. CASE MarkInstalled
  <2>1. pc = "markInstalled" /\ pc' = "open" /\ applied'
    BY <1>2 DEF MarkInstalled, Mark, Goto
  <2> QED BY <2>1 DEF StepsLeft
<1>3. CASE MarkRemoving
  <2>1. pc = "rbMark" /\ pc' = "remove" /\ step' = 1
    BY <1>3 DEF MarkRemoving, Mark, Goto
  <2> QED BY <2>1 DEF StepsLeft
<1>4. CASE MarkRestoring
  <2>1. pc = "markRestoring" /\ pc' = "putBack" /\ step' = 1
    BY <1>4 DEF MarkRestoring, Mark, Goto
  <2> QED BY <2>1 DEF StepsLeft
<1> QED BY <1>1, <1>2, <1>3, <1>4

LEMMA CleaningWindsDown ==
  ASSUME TypeOK, MarkerNeeded,
         \/ FinMark \/ FinLockBusy \/ FinOld \/ FinStaging \/ FinMarker
         \/ RbStaging \/ RbOld \/ RbMarker \/ AbortMarker
  PROVE  StepsLeft' \in Nat /\ StepsLeft' < StepsLeft
<1>1. CASE FinMark \/ FinLockBusy
  <2>1. pc = "finMark" /\ (pc' = "finOld" \/ pc' = "running")
    BY <1>1 DEF FinMark, FinLockBusy, Done, Goto
  <2>2. StepsLeft = 5
    BY <2>1 DEF StepsLeft
  <2>3. StepsLeft' = 4 \/ StepsLeft' = 0
    BY <2>1 DEF StepsLeft
  <2> QED BY <2>2, <2>3
<1>2. CASE FinOld \/ RbStaging
  <2>1. \/ pc = "finOld" /\ pc' = "finStaging"
        \/ pc = "rbStaging" /\ pc' = "rbOld"
    BY <1>2 DEF FinOld, RbStaging, DropOld, DropStaging, Done, Goto
  <2>2. StepsLeft = 4
    BY <2>1 DEF StepsLeft
  <2>3. StepsLeft' = 3
    BY <2>1 DEF StepsLeft
  <2> QED BY <2>2, <2>3
<1>3. CASE FinStaging \/ RbOld
  <2>1. \/ pc = "finStaging" /\ pc' = "finMarker"
        \/ pc = "rbOld" /\ pc' = "rbMarker"
    BY <1>3 DEF FinStaging, RbOld, DropOld, DropStaging, Done, Goto
  <2>2. StepsLeft = 3
    BY <2>1 DEF StepsLeft
  <2>3. StepsLeft' = 2
    BY <2>1 DEF StepsLeft
  <2> QED BY <2>2, <2>3
<1>4. CASE FinMarker
  <2>1. /\ pc = "finMarker" /\ applied' = applied
        /\ pc' = IF applied THEN "running" ELSE "open"
    BY <1>4 DEF FinMarker, Done, Goto
  <2>2. CASE applied
    BY <2>1, <2>2 DEF StepsLeft
  <2>3. CASE ~applied
    <3>1. pc' = "open" /\ ~applied'
      BY <2>1, <2>3
    <3> QED BY <2>1, <3>1 DEF StepsLeft
  <2> QED BY <2>2, <2>3
<1>5. CASE RbMarker \/ AbortMarker
  <2>1. pc \in {"rbMarker", "abortMarker"} /\ pc' = "open" /\ applied' = applied
    BY <1>5 DEF RbMarker, AbortMarker, Done, Goto
  <2>2. ~applied
    BY <2>1 DEF MarkerNeeded
  <2>3. ~applied'
    BY <2>1, <2>2
  <2> QED BY <2>1, <2>3 DEF StepsLeft
<1> QED BY <1>1, <1>2, <1>3, <1>4, <1>5

LEMMA BootWindsDown ==
  ASSUME TypeOK, MarkerNeeded, Boot
  PROVE  StepsLeft' \in Nat /\ StepsLeft' < StepsLeft
<1>1. CASE Swap
  <2>1. pc = "swap" /\ step' = 1
    BY <1>1 DEF Swap
  <2>2. pc' \in {"open", "moveOut", "reverse", "install", "markRestoring", "finOld",
                 "remove", "putBack"}
    BY <1>1 DEF Swap, SwapNoMarker, SwapPrepared, SwapCurrentMoved, SwapInstalled,
                SwapVerified, SwapRollback
  <2>3. StepsLeft = 15
    BY <2>1 DEF StepsLeft
  <2>4. StepsLeft' \in 0..14
    BY <2>1, <2>2 DEF StepsLeft
  <2> QED BY <2>3, <2>4
<1>2. CASE Open
  <2>1. /\ pc = "open"
        /\ IF applied THEN pc' = "finMark" ELSE pc' = "running"
    BY <1>2 DEF Open
  <2> QED BY <2>1 DEF StepsLeft
<1> QED BY <1>1, <1>2, LoopsWindDown, MarksWindDown, CleaningWindsDown DEF Boot

\* For every set of backups and of clean-ups that may fail, and whatever is lost
\* from the staging folder: a start that is neither interrupted nor rolled back
\* reaches its session within 15 steps.
THEOREM StartsReachTheSession == Spec => StartsWindDown
<1>1. TypeOK /\ MarkerNeeded /\ [Next]_vars
      => [InStart => StepsLeft' \in Nat /\ (StepsLeft' < StepsLeft \/ Stumbles)]_vars
  <2> SUFFICES ASSUME TypeOK, MarkerNeeded, Next, InStart
               PROVE  StepsLeft' \in Nat /\ (StepsLeft' < StepsLeft \/ Stumbles)
    OBVIOUS
  <2>1. CASE Boot
    BY <2>1, BootWindsDown
  <2>2. ~Session /\ ~StartApp /\ ~(\E i \in BackupId : StagingLost(i))
    BY DEF InStart, Session, Edit, Stop, Stage, StageAnyway, StageFails, Discard, DiscardFails,
           Arm, ArmAnyToken, StartApp, StagingLost, Goto
  <2>3. CASE Stumbles
    <3>1. pc' \in {"off", "rbMark"}
      BY <2>3 DEF Stumbles, Crash, OpenFails
    <3>2. StepsLeft' \in Nat
      BY <3>1 DEF StepsLeft
    <3> QED BY <2>3, <3>2
  <2> QED BY <2>1, <2>2, <2>3 DEF Next, World, Stumbles
<1>2. Spec => [](TypeOK /\ MarkerNeeded)
  <2>1. Init => TypeOK /\ MarkerNeeded
    BY TypeInit, MarkerInit
  <2>2. TypeOK /\ MarkerNeeded /\ [Next]_vars => (TypeOK /\ MarkerNeeded)'
    BY TypeStep, MarkerStep
  <2> QED BY <2>1, <2>2, PTL DEF Spec
<1> QED BY <1>1, <1>2, PTL DEF Spec, StartsWindDown

-----------------------------------------------------------------------------
(* The session preserves the invariant                                     *)

LEMMA DirEq ==
  ASSUME NEW a \in Dir, NEW b \in Dir, \A f \in File : a[f] = b[f]
  PROVE  a = b
BY DEF Dir

LEMMA LibraryFiles ==
  ASSUME NEW n \in 1..MaxLibrary, NEW w \in BOOLEAN, NEW d \in BOOLEAN
  PROVE  /\ Library(n, w, d)["db"] # NoFile
         /\ Library(n, FALSE, d)["wal"] = NoFile
BY DEF Library, File, NoFile

\* A running session has its library in place: the phases that speak of files
\* on their way are over.
LEMMA RunningPhases ==
  ASSUME IInv, pc = "running"
  PROVE  /\ ~At("CurrentMoved") /\ ~At("Installed") /\ ~At("RollbackRemoving")
         /\ live = last
         /\ marker # NoMarker => Old = Blank
         /\ At("Verified") => armed = Blank
BY MarkerId DEF IInv, Facts, Phases, PhaseOfPC, Idle, Verified, At, NoMarker, Old

LEMMA EditKeeps == IInv /\ Edit => Facts'
<1> SUFFICES ASSUME IInv, Edit PROVE Facts'
  OBVIOUS
<1>1. PICK w \in BOOLEAN, d \in BOOLEAN : live' = Library(made', w, d)
  BY DEF Edit
<1>2. made' \in 1..MaxLibrary /\ live' = last'
  BY DEF IInv, TypeOK, Edit
<1>3. last'["db"] # NoFile
  BY <1>1, <1>2, LibraryFiles
<1>4. Packages' /\ NoResidue' /\ PhaseOfPC'
  BY <1>3 DEF Edit, IInv, Facts, Packages, NoResidue, PhaseOfPC, At
<1>5. Tokens' /\ Idle'
  BY <1>2 DEF Edit, IInv, Facts, Tokens, Vouched, Idle, TypeOK, Ticket
<1>6. Prepared' /\ RollbackRestoring'
  BY <1>2, RunningPhases DEF Edit, IInv, Facts, Phases, Prepared, RollbackRestoring,
     Home, Away, Old, Staged, At, Blank, Visited
<1>7. Verified' /\ CurrentMoved' /\ Installed' /\ RollbackRemoving'
  BY <1>2, RunningPhases DEF Edit, Verified, CurrentMoved, Installed, RollbackRemoving, At
<1> QED
  BY <1>4, <1>5, <1>6, <1>7 DEF Facts, Phases

LEMMA StopKeeps == IInv /\ Stop => Facts'
<1> SUFFICES ASSUME IInv, Stop PROVE Facts'
  OBVIOUS
<1> USE DEF Stop, Goto, disk, ghosts, IInv, Facts, Phases
<1>1. PhaseOfPC' /\ NoResidue' /\ Packages' /\ Tokens' /\ Idle'
  BY DEF PhaseOfPC, NoResidue, Packages, Tokens, Idle, At
<1>2. Prepared' /\ RollbackRestoring'
  BY DEF Prepared, RollbackRestoring, Home, Away, Old, Staged, At, Visited
<1>3. Verified' /\ CurrentMoved' /\ Installed' /\ RollbackRemoving'
  BY RunningPhases DEF Verified, CurrentMoved, Installed, RollbackRemoving, At, Old
<1> QED
  BY <1>1, <1>2, <1>3

\* A session step that leaves the library, its marker and the staging the
\* marker names as they are keeps what the phases promise.
LEMMA SessionFrame ==
  ASSUME IInv, pc = "running", pc' = "running",
         UNCHANGED <<live, old, marker, last, armed>>,
         marker # NoMarker => staging'[marker.id] = staging[marker.id]
  PROVE  PhaseOfPC' /\ NoResidue' /\ Idle' /\ Phases'
<1> USE DEF IInv, Facts, Phases
<1>1. PhaseOfPC' /\ NoResidue' /\ Idle'
  BY DEF PhaseOfPC, NoResidue, Idle, At
<1>2. Prepared' /\ RollbackRestoring'
  BY DEF Prepared, RollbackRestoring, Home, Away, Old, Staged, At
<1>3. Verified' /\ CurrentMoved' /\ Installed' /\ RollbackRemoving'
  BY RunningPhases DEF Verified, CurrentMoved, Installed, RollbackRemoving, At
<1> QED
  BY <1>1, <1>2, <1>3

LEMMA StageKeeps ==
  ASSUME IInv, NEW i \in BackupId, Stage(i)
  PROVE  Facts'
<1> USE DEF IInv, Facts
<1>1. PICK d \in BOOLEAN :
        /\ staging' = [staging EXCEPT ![i] = Library(made', FALSE, d)]
        /\ tickets' = tickets \union {[id |-> i, token |-> made', pkg |-> Library(made', FALSE, d)]}
  BY DEF Stage, StageAnyway
<1>2. made' \in 1..MaxLibrary /\ made' = made + 1 /\ made \in Nat
  BY DEF TypeOK, Stage, StageAnyway
<1>3. PhaseOfPC' /\ NoResidue' /\ Idle' /\ Phases'
  <2>1. marker # NoMarker => staging'[marker.id] = staging[marker.id]
    BY <1>1, MarkerId DEF TypeOK, Stage, NotPending
  <2> QED
    BY <2>1, SessionFrame DEF Stage, StageAnyway
<1>4. Packages'
  BY <1>1, <1>2, LibraryFiles DEF Packages, TypeOK, Stage, StageAnyway
<1>5. Tokens'
  <2> SUFFICES ASSUME NEW t \in tickets'
               PROVE  t.token <= made' /\ (token'[t.id] = t.token /\ t.pkg # Blank => Vouched(t)')
    BY DEF Tokens, Stage, StageAnyway
  <2>1. token' = [token EXCEPT ![i] = made']
    BY DEF Stage, StageAnyway
  <2>2. CASE t \in tickets
    <3>1. t.token \in Nat /\ t.token <= made /\ t.id \in BackupId
      BY <2>2 DEF Tokens, TypeOK, Ticket
    <3>2. t.id = i => token'[t.id] # t.token
      BY <3>1, <2>1, <1>2 DEF TypeOK
    <3>3. t.id # i => token'[t.id] = token[t.id] /\ staging'[t.id] = staging[t.id]
      BY <3>1, <2>1, <1>1 DEF TypeOK
    <3> QED
      BY <1>2, <2>2, <3>1, <3>2, <3>3 DEF Tokens, Vouched
  <2>3. CASE t = [id |-> i, token |-> made', pkg |-> Library(made', FALSE, d)]
    BY <1>1, <1>2, <2>3 DEF TypeOK, Vouched
  <2> QED
    BY <1>1, <2>2, <2>3
<1> QED
  BY <1>3, <1>4, <1>5

\* A staging folder that is left half removed or half unpacked: what is under a
\* token is still a part of what was shown.
LEMMA HalfKeeps ==
  ASSUME IInv, NEW i \in BackupId, RemoveHalf(i) \/ UnpackHalf(i), NotPending(i),
         pc = "running", pc' = "running", UNCHANGED <<live, old, marker, last, armed, made>>
  PROVE  /\ PhaseOfPC' /\ NoResidue' /\ Idle' /\ Phases' /\ Packages'
         /\ \A t \in tickets : token'[t.id] = t.token /\ t.pkg # Blank => Vouched(t)'
<1> USE DEF IInv, Facts
<1>1. PICK lib \in {staging[i], Library(made + 1, FALSE, TRUE)}, left \in SUBSET {"db", "docs"} :
        /\ staging' = [staging EXCEPT ![i] = Keep(lib, left)]
        /\ \/ token' = token /\ lib = staging[i]
           \/ token' = [token EXCEPT ![i] = NoFile]
  BY DEF RemoveHalf, UnpackHalf
<1>2. PhaseOfPC' /\ NoResidue' /\ Idle' /\ Phases'
  <2>1. marker # NoMarker => staging'[marker.id] = staging[marker.id]
    BY <1>1, MarkerId DEF TypeOK, NotPending
  <2> QED
    BY <2>1, SessionFrame
<1>3. Packages'
  <2>1. Keep(lib, left)["wal"] = NoFile
    BY DEF Keep, File
  <2> QED
    BY <1>1, <2>1 DEF Packages, TypeOK
<1>4. ASSUME NEW t \in tickets, token'[t.id] = t.token, t.pkg # Blank
      PROVE  Vouched(t)'
  <2>1. t.id \in BackupId /\ t.token # NoFile
    BY DEF TypeOK, Ticket, NoFile
  <2>2. CASE t.id # i
    BY <1>1, <1>4, <2>1, <2>2 DEF TypeOK, Tokens, Vouched
  <2>3. CASE t.id = i
    <3>1. token' = token /\ lib = staging[i]
      BY <1>1, <1>4, <2>1, <2>3 DEF TypeOK
    <3>2. Vouched(t)
      BY <1>4, <3>1 DEF Tokens
    <3>3. staging'[i] = Keep(staging[i], left)
      BY <1>1, <3>1 DEF TypeOK
    <3> QED
      BY <2>3, <3>2, <3>3 DEF Vouched, Keep
  <2> QED
    BY <2>2, <2>3
<1> QED
  BY <1>2, <1>3, <1>4

LEMMA StageFailsKeeps ==
  ASSUME IInv, NEW i \in BackupId, StageFails(i)
  PROVE  Facts'
<1> USE DEF IInv, Facts
<1>1. /\ pc = "running" /\ pc' = "running" /\ NotPending(i)
      /\ RemoveHalf(i) \/ UnpackHalf(i)
      /\ UNCHANGED <<live, old, marker, last, armed, made, tickets>>
  BY DEF StageFails, ghosts
<1>2. /\ PhaseOfPC' /\ NoResidue' /\ Idle' /\ Phases' /\ Packages'
      /\ \A t \in tickets : token'[t.id] = t.token /\ t.pkg # Blank => Vouched(t)'
  BY <1>1, HalfKeeps
<1>3. Tokens'
  <2>1. ASSUME NEW t \in tickets'
        PROVE  t.token <= made' /\ (token'[t.id] = t.token /\ t.pkg # Blank => Vouched(t)')
    BY <1>1, <1>2, <2>1 DEF Tokens
  <2> QED
    BY <1>1, <2>1 DEF Tokens
<1> QED
  BY <1>2, <1>3

LEMMA DiscardFailsKeeps ==
  ASSUME IInv, NEW t \in tickets, DiscardFails(t)
  PROVE  Facts'
<1> USE DEF IInv, Facts
<1>1. /\ pc = "running" /\ NotPending(t.id) /\ t.id \in BackupId /\ RemoveHalf(t.id)
      /\ UNCHANGED <<live, old, marker, last, armed, made, pc>>
      /\ tickets' = (tickets \ {t}) \union {[t EXCEPT !.pkg = Blank]}
  BY DEF DiscardFails, ghosts, TypeOK, Ticket
<1>2. /\ PhaseOfPC' /\ NoResidue' /\ Idle' /\ Phases' /\ Packages'
      /\ \A u \in tickets : token'[u.id] = u.token /\ u.pkg # Blank => Vouched(u)'
  BY <1>1, HalfKeeps
<1>3. Tokens'
  <2>1. ASSUME NEW u \in tickets'
        PROVE  u.token <= made' /\ (token'[u.id] = u.token /\ u.pkg # Blank => Vouched(u)')
    <3>1. CASE u \in tickets
      BY <1>1, <1>2, <3>1 DEF Tokens
    <3>2. CASE u = [t EXCEPT !.pkg = Blank]
      <4>1. u.pkg = Blank /\ u.token = t.token
        BY <3>2 DEF TypeOK, Ticket
      <4> QED
        BY <1>1, <4>1 DEF Tokens
    <3> QED
      BY <1>1, <2>1, <3>1, <3>2
  <2> QED
    BY <1>1, <2>1 DEF Tokens
<1> QED
  BY <1>2, <1>3

LEMMA DiscardKeeps ==
  ASSUME IInv, NEW t \in tickets, Discard(t)
  PROVE  Facts'
<1> USE DEF IInv, Facts
<1>1. t.id \in BackupId
  BY DEF TypeOK, Ticket
<1>2. PhaseOfPC' /\ NoResidue' /\ Idle' /\ Phases'
  <2>1. marker # NoMarker => staging'[marker.id] = staging[marker.id]
    BY <1>1, MarkerId DEF TypeOK, Discard, NotPending
  <2> QED
    BY <2>1, SessionFrame DEF Discard, ghosts
<1>3. Packages'
  BY <1>1 DEF Packages, TypeOK, Discard, ghosts, Blank, File
<1>4. Tokens'
  <2>1. ASSUME NEW u \in tickets', token'[u.id] = u.token, u.pkg # Blank
        PROVE  Vouched(u)'
    <3>1. u \in tickets /\ u.id \in BackupId /\ u.token # NoFile
      BY <2>1 DEF Discard, TypeOK, Ticket, NoFile
    <3>2. token'[u.id] = token[u.id] /\ staging'[u.id] = staging[u.id]
      BY <1>1, <2>1, <3>1 DEF Discard, TypeOK
    <3> QED
      BY <2>1, <3>1, <3>2 DEF Tokens, Vouched
  <2> QED
    BY <2>1 DEF Tokens, Discard, ghosts
<1> QED
  BY <1>2, <1>3, <1>4

\* Confirming: nothing has moved yet, and the package is what is left of the
\* one shown.
LEMMA ArmKeeps ==
  ASSUME IInv, NEW t \in tickets, Arm(t)
  PROVE  Facts'
<1> USE DEF IInv, Facts
<1>0. /\ t.id \in BackupId /\ t.pkg \in Dir /\ Vouched(t) /\ staging[t.id] \in Dir
      /\ armed' = Keep(t.pkg, {f \in File : staging[t.id][f] # NoFile})
  BY DEF TypeOK, Ticket, Arm, ArmAnyToken, Tokens
<1>1. /\ marker' = [id |-> t.id, phase |-> "Prepared"]
      /\ armed' = staging[t.id]
      /\ pc' = "running" /\ pc = "running" /\ marker = NoMarker
      /\ UNCHANGED <<live, old, staging, last>>
  <2>1. armed' \in Dir /\ \A f \in File : armed'[f] = staging[t.id][f]
    BY <1>0, KeepIsDir DEF Keep, Vouched
  <2>2. armed' = staging[t.id]
    BY <1>0, <2>1, DirEq
  <2> QED
    BY <2>2 DEF Arm, ArmAnyToken
<1>2. marker' # NoMarker /\ At("Prepared")' /\ Old' = Blank /\ live = last
  BY <1>0, <1>1 DEF NoMarker, At, Old, Idle
<1>3. PhaseOfPC' /\ NoResidue'
  <2>1. PhaseOfPC'
    BY <1>1, <1>2 DEF PhaseOfPC
  <2>2. NoResidue'
    BY <1>1 DEF NoResidue, Idle
  <2> QED
    BY <2>1, <2>2
<1>4. armed' # Blank /\ Packages'
  BY <1>0, <1>1 DEF Packages, TypeOK, Arm, ArmAnyToken, Blank, File
<1>5. Tokens' /\ Idle'
  BY <1>1, <1>2 DEF Tokens, Vouched, Idle, Arm, ArmAnyToken
<1>6. Prepared'
  <2>1. \A f \in File : Home(f)'
    BY <1>1, <1>2 DEF Home, Blank
  <2>2. Staged' = armed'
    BY <1>1 DEF Staged
  <2> QED
    BY <1>1, <1>4, <2>1, <2>2 DEF Prepared
<1>7. CurrentMoved' /\ Installed' /\ Verified' /\ RollbackRemoving' /\ RollbackRestoring'
  BY <1>1 DEF CurrentMoved, Installed, Verified, RollbackRemoving, RollbackRestoring, At
<1> QED
  BY <1>3, <1>4, <1>5, <1>6, <1>7 DEF Phases

LEMMA SessionKeeps == IInv /\ Session => Facts'
BY EditKeeps, StopKeeps, StageKeeps, StageFailsKeeps, DiscardKeeps,
   DiscardFailsKeeps, ArmKeeps DEF Session

-----------------------------------------------------------------------------
(* A start preserves the invariant                                         *)

LEMMA StartKeeps ==
  ASSUME IInv, StartApp
  PROVE  Facts'
<1> USE DEF IInv, Facts, Phases, StartApp, Goto, disk, ghosts
<1>1. PhaseOfPC' /\ NoResidue' /\ Packages' /\ Tokens' /\ Idle'
  BY DEF PhaseOfPC, NoResidue, Packages, Tokens, Idle, At
<1>2. Prepared' /\ RollbackRestoring'
  BY DEF Prepared, RollbackRestoring, Home, Away, Old, Staged, At, Visited
<1>3. Verified' /\ CurrentMoved' /\ Installed' /\ RollbackRemoving'
  BY DEF Verified, CurrentMoved, Installed, RollbackRemoving, At, Old, Staged
<1> QED
  BY <1>1, <1>2, <1>3

\* Every phase leads to a place of the start that its facts allow.
LEMMA SwapKeeps ==
  ASSUME IInv, Swap
  PROVE  Facts'
<1> USE DEF IInv, Facts, Phases, disk, ghosts
<1> DEFINE Same == UNCHANGED <<live, old, staging, token, marker, tickets, last, armed, made>>
<1>1. Same /\ step' = 1 /\ pc = "swap"
  BY DEF Swap
<1>2. NoResidue' /\ Packages' /\ Idle' /\ Tokens'
  BY <1>1 DEF Swap, SwapNoMarker, SwapPrepared, SwapCurrentMoved, SwapInstalled,
     SwapVerified, SwapRollback, NoResidue, Packages, Idle, Tokens
<1>3. \A f \in File : ~Visited(f)'
  BY <1>1 DEF Visited
<1>4. \A p \in Phase : At(p)' <=> At(p)
  BY <1>1 DEF At
<1>5. CASE SwapNoMarker
  BY <1>1, <1>2, <1>5 DEF SwapNoMarker, PhaseOfPC, At, Prepared, CurrentMoved, Installed,
     Verified, RollbackRemoving, RollbackRestoring
<1>6. CASE SwapPrepared
  <2>1. At("Prepared") /\ PhaseOfPC'
    BY <1>1, <1>6 DEF SwapPrepared, At, PhaseOfPC, TypeOK
  <2>2. Prepared'
    BY <1>1, <1>3, <1>6, <2>1 DEF SwapPrepared, Prepared, At, Home, Away, Old, Staged
  <2> QED
    BY <1>1, <1>2, <2>1, <2>2 DEF At, CurrentMoved, Installed, Verified, RollbackRemoving,
       RollbackRestoring
<1>7. CASE SwapCurrentMoved
  <2>1. At("CurrentMoved") /\ PhaseOfPC'
    BY <1>1, <1>7 DEF SwapCurrentMoved, At, PhaseOfPC, NoMarker
  <2>2. CurrentMoved'
    BY <1>1, <1>7, <2>1 DEF SwapCurrentMoved, CurrentMoved, At, Old, Staged
  <2> QED
    BY <1>1, <1>2, <2>1, <2>2 DEF At, Prepared, Installed, Verified, RollbackRemoving,
       RollbackRestoring
<1>8. CASE SwapInstalled \/ SwapVerified
  <2>1. At("Installed") \/ At("Verified")
    BY <1>8 DEF SwapInstalled, SwapVerified, At, NoMarker
  <2>2. PhaseOfPC'
    BY <1>1, <1>8, <2>1 DEF SwapInstalled, SwapVerified, At, PhaseOfPC
  <2>3. Installed' /\ Verified'
    BY <1>1, <1>8, <2>1 DEF SwapInstalled, SwapVerified, Installed, Verified, At, Old
  <2> QED
    BY <1>1, <1>2, <2>1, <2>2, <2>3 DEF At, Prepared, CurrentMoved, RollbackRemoving,
       RollbackRestoring
<1>9. CASE SwapRollback
  <2>1. At("RollbackRemoving") \/ At("RollbackRestoring")
    BY <1>9 DEF SwapRollback, At, NoMarker
  <2>2. PhaseOfPC'
    BY <1>1, <1>9, <2>1 DEF SwapRollback, At, PhaseOfPC
  <2>3. RollbackRemoving' /\ RollbackRestoring'
    BY <1>1, <1>3, <1>9, <2>1 DEF SwapRollback, RollbackRemoving, RollbackRestoring, At,
       Home, Away, Old
  <2> QED
    BY <1>1, <1>2, <2>1, <2>2, <2>3 DEF At, Prepared, CurrentMoved, Installed, Verified
<1> QED
  BY <1>5, <1>6, <1>7, <1>8, <1>9 DEF Swap

\* A loop visits every file once: what holds of the file it is at and of the
\* files visited before holds of all of them at the end.
LEMMA LoopVisits ==
  ASSUME TypeOK, NEW at, NEW done, at # done, Advance(at, done)
  PROVE  /\ FileAt(step) \in File
         /\ \A g \in File : pc' = at /\ Visited(g)' => Visited(g) \/ g = FileAt(step)
         /\ \A g \in File : pc' = done => Visited(g) \/ g = FileAt(step)
         /\ pc = at /\ pc' \in {at, done}
         /\ UNCHANGED <<token, marker, applied, tickets, last, armed, made, faults>>
BY DEF TypeOK, Advance, FileAt, File, Visited, ghosts

\* What a loop over the files of the library leaves alone.
LEMMA LoopFrame ==
  ASSUME IInv, NEW at \in Loops, pc = at, pc' \in Loops \union {"markMoved", "markInstalled",
           "abortMarker", "markRestoring", "rbStaging"},
         UNCHANGED <<marker, token, tickets, last, armed, made>>,
         \A i \in BackupId : staging'[i]["wal"] = NoFile,
         \A i \in BackupId : i # marker.id => old'[i] = old[i]
  PROVE  NoResidue' /\ Packages' /\ Tokens' /\ Idle'
<1> USE DEF IInv, Facts
<1>1. pc # "running" /\ pc' # "running" /\ marker # NoMarker /\ tickets = {}
  BY DEF Loops, MarkerNeeded, Tokens
<1> QED
  BY <1>1 DEF NoResidue, Packages, Tokens, Idle

LEMMA MoveOutKeeps ==
  ASSUME IInv, MoveOut
  PROVE  Facts'
<1> USE DEF IInv, Facts
<1> PICK f \in File : f = FileAt(step)
  BY LoopVisits DEF MoveOut
<1>1. /\ pc = "moveOut" /\ pc' \in {"moveOut", "markMoved"}
      /\ \A g \in File : pc' = "moveOut" /\ Visited(g)' => Visited(g) \/ g = f
      /\ \A g \in File : pc' = "markMoved" => Visited(g) \/ g = f
      /\ UNCHANGED <<token, marker, applied, tickets, last, armed, made, faults, staging>>
  BY LoopVisits DEF MoveOut
<1>2. At("Prepared") /\ marker.id \in BackupId
  BY <1>1, MarkerId DEF PhaseOfPC, At
<1>3. /\ \A g \in File : g # f => live'[g] = live[g] /\ Old'[g] = Old[g]
      /\ \A i \in BackupId : i # marker.id => old'[i] = old[i]
  BY <1>1, <1>2 DEF MoveOut, Old, TypeOK, Dir
<1>4. Away(f)'
  <2>1. Home(f) \/ Away(f)
    BY <1>1, <1>2 DEF Phases, Prepared
  <2>2. CASE live[f] # NoFile
    BY <1>1, <1>2, <2>1, <2>2 DEF MoveOut, Home, Away, Old, TypeOK, Dir
  <2>3. CASE live[f] = NoFile
    BY <1>1, <1>2, <2>1, <2>3 DEF MoveOut, Home, Away, Old, TypeOK, Dir
  <2> QED
    BY <2>2, <2>3
<1>5. \A g \in File : g # f => (Home(g)' <=> Home(g)) /\ (Away(g)' <=> Away(g))
  BY <1>1, <1>3 DEF Home, Away
<1>6. Prepared'
  BY <1>1, <1>2, <1>4, <1>5 DEF Phases, Prepared, At, Staged, Home, Away, Blank, NoFile
<1>7. PhaseOfPC'
  BY <1>1, <1>2 DEF PhaseOfPC, At
<1>8. NoResidue' /\ Packages' /\ Tokens' /\ Idle'
  BY <1>1, <1>3, LoopFrame DEF Loops, Packages
<1> QED
  BY <1>1, <1>2, <1>6, <1>7, <1>8 DEF Phases, At, CurrentMoved, Installed, Verified,
     RollbackRemoving, RollbackRestoring

\* Bringing one file back puts it home and disturbs no other.
LEMMA BringBackHome ==
  ASSUME IInv, NEW at, NEW done, at # done, BringBack(at, done),
         marker.id \in BackupId,
         NEW f \in File, f = FileAt(step), Home(f) \/ Away(f)
  PROVE  /\ Home(f)'
         /\ \A g \in File : g # f => (Home(g)' <=> Home(g)) /\ (Away(g)' <=> Away(g))
         /\ \A i \in BackupId : i # marker.id => old'[i] = old[i]
<1> USE DEF IInv
<1>1. UNCHANGED <<marker, last, staging>>
  BY LoopVisits DEF BringBack
<1>2. /\ \A g \in File : g # f => live'[g] = live[g] /\ Old'[g] = Old[g]
      /\ \A i \in BackupId : i # marker.id => old'[i] = old[i]
  BY <1>1 DEF BringBack, Old, TypeOK, Dir
<1>3. Home(f)'
  <2>1. CASE Old[f] # NoFile /\ live[f] = NoFile
    BY <1>1, <2>1 DEF BringBack, Home, Away, Old, TypeOK, Dir
  <2>2. CASE ~(Old[f] # NoFile /\ live[f] = NoFile)
    BY <1>1, <2>2 DEF BringBack, Home, Away, Old
  <2> QED
    BY <2>1, <2>2
<1> QED
  BY <1>1, <1>2, <1>3 DEF Home, Away

LEMMA ReverseKeeps ==
  ASSUME IInv, Reverse
  PROVE  Facts'
<1> USE DEF IInv, Facts
<1> PICK f \in File : f = FileAt(step)
  BY LoopVisits DEF Reverse, BringBack
<1>1. /\ pc = "reverse" /\ pc' \in {"reverse", "abortMarker"}
      /\ \A g \in File : pc' = "reverse" /\ Visited(g)' => Visited(g) \/ g = f
      /\ \A g \in File : pc' = "abortMarker" => Visited(g) \/ g = f
      /\ UNCHANGED <<token, marker, applied, tickets, last, armed, made, faults, staging>>
  BY LoopVisits DEF Reverse, BringBack
<1>2. At("Prepared") /\ marker.id \in BackupId
  BY <1>1, MarkerId DEF PhaseOfPC, At
<1>3. Home(f) \/ Away(f)
  BY <1>2 DEF Phases, Prepared
<1>4. /\ Home(f)'
      /\ \A g \in File : g # f => (Home(g)' <=> Home(g)) /\ (Away(g)' <=> Away(g))
      /\ \A i \in BackupId : i # marker.id => old'[i] = old[i]
  BY <1>2, <1>3, BringBackHome DEF Reverse
<1>5. Prepared'
  BY <1>1, <1>2, <1>4 DEF Phases, Prepared, At, Staged
<1>6. PhaseOfPC'
  BY <1>1, <1>2 DEF PhaseOfPC, At
<1>7. NoResidue' /\ Packages' /\ Tokens' /\ Idle'
  BY <1>1, <1>4, LoopFrame DEF Loops, Packages
<1> QED
  BY <1>1, <1>2, <1>5, <1>6, <1>7 DEF Phases, At, CurrentMoved, Installed, Verified,
     RollbackRemoving, RollbackRestoring

LEMMA PutBackKeeps ==
  ASSUME IInv, PutBack
  PROVE  Facts'
<1> USE DEF IInv, Facts
<1> PICK f \in File : f = FileAt(step)
  BY LoopVisits DEF PutBack, BringBack
<1>1. /\ pc = "putBack" /\ pc' \in {"putBack", "rbStaging"}
      /\ \A g \in File : pc' = "putBack" /\ Visited(g)' => Visited(g) \/ g = f
      /\ \A g \in File : pc' = "rbStaging" => Visited(g) \/ g = f
      /\ UNCHANGED <<token, marker, applied, tickets, last, armed, made, faults, staging>>
  BY LoopVisits DEF PutBack, BringBack
<1>2. At("RollbackRestoring") /\ marker.id \in BackupId
  BY <1>1, MarkerId DEF PhaseOfPC, At
<1>3. Home(f) \/ Away(f)
  BY <1>2 DEF Phases, RollbackRestoring
<1>4. /\ Home(f)'
      /\ \A g \in File : g # f => (Home(g)' <=> Home(g)) /\ (Away(g)' <=> Away(g))
      /\ \A i \in BackupId : i # marker.id => old'[i] = old[i]
  BY <1>2, <1>3, BringBackHome DEF PutBack
<1>5. RollbackRestoring'
  BY <1>1, <1>2, <1>4 DEF Phases, RollbackRestoring, At
<1>6. PhaseOfPC'
  BY <1>1, <1>2 DEF PhaseOfPC, At, MarkerNeeded
<1>7. NoResidue' /\ Packages' /\ Tokens' /\ Idle'
  BY <1>1, <1>4, LoopFrame DEF Loops, Packages
<1> QED
  BY <1>1, <1>2, <1>5, <1>6, <1>7 DEF Phases, At, Prepared, CurrentMoved, Installed, Verified,
     RollbackRemoving

LEMMA RemoveKeeps ==
  ASSUME IInv, Remove
  PROVE  Facts'
<1> USE DEF IInv, Facts
<1> PICK f \in File : f = FileAt(step)
  BY LoopVisits DEF Remove
<1>1. /\ pc = "remove" /\ pc' \in {"remove", "markRestoring"}
      /\ \A g \in File : pc' = "remove" /\ Visited(g)' => Visited(g) \/ g = f
      /\ \A g \in File : pc' = "markRestoring" => Visited(g) \/ g = f
      /\ UNCHANGED <<token, marker, applied, tickets, last, armed, made, faults, staging, old>>
  BY LoopVisits DEF Remove
<1>2. At("RollbackRemoving") /\ marker.id \in BackupId
  BY <1>1, MarkerId DEF PhaseOfPC, At
<1>3. live' = [live EXCEPT ![f] = NoFile] /\ live' \in Dir
  BY DirUpdate, NoFileIsContent DEF Remove, TypeOK
<1>4. live'[f] = NoFile /\ \A g \in File : g # f => live'[g] = live[g]
  BY <1>3 DEF TypeOK, Dir
<1>5. RollbackRemoving'
  <2>1. \A g \in File : Visited(g) \/ g = f => live'[g] = NoFile
    BY <1>1, <1>2, <1>4 DEF Phases, RollbackRemoving
  <2>2. pc' = "markRestoring" => live' = Blank
    <3>1. pc' = "markRestoring" => \A g \in File : live'[g] = Blank[g]
      BY <1>1, <2>1 DEF Blank
    <3> QED
      BY <1>3, <3>1, BlankIsDir, DirEq
  <2> QED
    BY <1>1, <1>2, <2>1, <2>2 DEF Phases, RollbackRemoving, At, Old
<1>6. PhaseOfPC'
  BY <1>1, <1>2 DEF PhaseOfPC, At
<1>7. NoResidue' /\ Packages' /\ Tokens' /\ Idle'
  BY <1>1, LoopFrame DEF Loops, Packages
<1> QED
  BY <1>1, <1>2, <1>5, <1>6, <1>7 DEF Phases, At, Prepared, CurrentMoved, Installed, Verified,
     RollbackRestoring

\* The database goes first, so a package whose database is in place still has
\* its documents, in the staging folder or already installed.
LEMMA InstallKeeps ==
  ASSUME IInv, Install
  PROVE  Facts'
<1> USE DEF IInv, Facts
<1> PICK f \in File : f = FileAt(step)
  BY LoopVisits DEF Install
<1>1. /\ pc = "install" /\ pc' \in {"install", "markInstalled"}
      /\ UNCHANGED <<token, marker, applied, tickets, last, armed, made, faults, old>>
  BY LoopVisits DEF Install
<1>2. /\ At("CurrentMoved") /\ marker.id \in BackupId /\ marker # NoMarker
  BY <1>1, MarkerId DEF PhaseOfPC, At
<1>3. CurrentMoved
  BY DEF Phases
<1>4. /\ \A g \in File : g # f => live'[g] = live[g] /\ Staged'[g] = Staged[g]
      /\ \A i \in BackupId : i # marker.id => staging'[i] = staging[i]
      /\ Staged[f] # NoFile /\ live[f] = NoFile => live'[f] = Staged[f] /\ Staged'[f] = NoFile
      /\ ~(Staged[f] # NoFile /\ live[f] = NoFile) => live' = live /\ Staged' = Staged
  BY <1>1, <1>2 DEF Install, Staged, TypeOK, Dir
<1>5. Staged["wal"] = NoFile /\ Staged'["wal"] = NoFile /\ armed["wal"] = NoFile
  BY <1>1, <1>2, <1>3, <1>4 DEF Packages, Staged, CurrentMoved, File
<1>6. /\ live'["db"] = armed["db"] /\ live'["db"] # NoFile /\ live'["wal"] = NoFile
      /\ Staged'["db"] = NoFile
      /\ \/ live'["docs"] = armed["docs"] /\ live'["docs"] # NoFile
         \/ live'["docs"] = NoFile /\ Staged'["docs"] = armed["docs"]
      /\ f = "docs" => live'["docs"] = armed["docs"]
  <2>1. CASE f = "db"
    <3>1. CASE live["db"] # NoFile
      BY <1>1, <1>2, <1>3, <1>4, <2>1, <3>1 DEF CurrentMoved
    <3>2. CASE live["db"] = NoFile
      <4>1. live = Blank /\ Staged = armed /\ Staged["db"] # NoFile
        BY <1>1, <1>2, <1>3, <3>2 DEF CurrentMoved
      <4> QED
        BY <1>4, <2>1, <4>1 DEF Blank, File
    <3> QED
      BY <3>1, <3>2
  <2>2. CASE f # "db"
    <3>1. live["db"] = armed["db"] /\ live["db"] # NoFile /\ Staged["db"] = NoFile
      BY <1>1, <1>2, <1>3, <2>2 DEF CurrentMoved, FileAt
    <3>2. CASE f = "wal"
      BY <1>2, <1>3, <1>4, <1>5, <3>1, <3>2 DEF CurrentMoved, File
    <3>3. CASE f = "docs"
      BY <1>2, <1>3, <1>4, <3>1, <3>3 DEF CurrentMoved, File
    <3> QED
      BY <2>2, <3>2, <3>3 DEF File
  <2> QED
    BY <2>1, <2>2
<1>7. pc' = "markInstalled" => live' = armed
  <2>1. pc' = "markInstalled" => f = "docs"
    BY <1>1 DEF Install, Advance, FileAt, TypeOK
  <2>2. live' \in Dir /\ armed \in Dir
    <3>1. staging[marker.id][f] \in 0..EmptyLibrary
      BY <1>2 DEF TypeOK, Dir
    <3>2. live' \in {live, [live EXCEPT ![f] = staging[marker.id][f]]}
      BY DEF Install
    <3> QED
      BY <3>1, <3>2, DirUpdate DEF TypeOK
  <2>3. f = "docs" => \A g \in File : live'[g] = armed[g]
    BY <1>5, <1>6 DEF File
  <2> QED
    BY <2>1, <2>2, <2>3, DirEq
<1>8. CurrentMoved'
  BY <1>1, <1>2, <1>3, <1>6, <1>7 DEF CurrentMoved, At, Old
<1>9. PhaseOfPC'
  BY <1>1, <1>2 DEF PhaseOfPC, At
<1>10. NoResidue' /\ Packages' /\ Tokens' /\ Idle'
  <2>1. \A i \in BackupId : staging'[i]["wal"] = NoFile
    BY <1>1, <1>4, <1>5 DEF Packages, Staged
  <2> QED
    BY <1>1, <2>1, LoopFrame DEF Loops
<1> QED
  BY <1>1, <1>2, <1>8, <1>9, <1>10 DEF Phases, At, Prepared, Installed, Verified,
     RollbackRemoving, RollbackRestoring

-----------------------------------------------------------------------------
(* Marking a phase, cleaning up, opening                                   *)

\* A step of the start that only changes the marker's phase or the place.
LEMMA MarkFrame ==
  ASSUME IInv, UNCHANGED <<live, old, staging, token, tickets, last, armed, made>>,
         marker # NoMarker, marker' # NoMarker, marker'.id = marker.id,
         pc # "running", pc' # "running"
  PROVE  NoResidue' /\ Packages' /\ Tokens' /\ Idle'
BY DEF IInv, Facts, NoResidue, Packages, Tokens, Idle

LEMMA MarkId ==
  ASSUME TypeOK, marker # NoMarker, NEW p \in Phase, SetPhase(p)
  PROVE  /\ marker' # NoMarker /\ marker'.id = marker.id /\ marker'.phase = p
         /\ At(p)' /\ \A q : q # p => ~At(q)'
BY MarkerId DEF SetPhase, TypeOK, NoMarker, At

LEMMA MarksKeep ==
  ASSUME IInv, MarkMoved \/ MarkInstalled \/ MarkRemoving \/ MarkRestoring
  PROVE  Facts'
<1> USE DEF IInv, Facts
<1>1. /\ UNCHANGED <<live, old, staging, token, tickets, last, armed, made>>
      /\ step' = 1 /\ pc # "running" /\ pc' # "running" /\ marker # NoMarker
      /\ marker.id \in BackupId
  BY MarkerId DEF MarkMoved, MarkInstalled, MarkRemoving, MarkRestoring, Mark, Goto, ghosts,
     MarkerNeeded
<1>2. /\ \A g \in File : ~Visited(g)'
      /\ live \in Dir /\ last \in Dir /\ old[marker.id] \in Dir
  BY <1>1 DEF Visited, TypeOK
<1>3. CASE MarkMoved
  <2>1. SetPhase("CurrentMoved") /\ pc = "markMoved" /\ pc' = "install" /\ "CurrentMoved" \in Phase
    BY <1>3 DEF MarkMoved, Mark, Goto, Phase
  <2>2. Prepared /\ At("Prepared")
    BY <2>1 DEF Phases, PhaseOfPC
  <2>3. /\ \A g \in File : live[g] = NoFile /\ Old[g] = last[g]
        /\ Staged["db"] # NoFile /\ armed # Blank /\ Staged = armed
    BY <2>1, <2>2 DEF Prepared, Away
  <2>4. Old = last
    BY <1>2, <2>3, DirEq DEF Old
  <2>5. live = Blank
    BY <1>2, <2>3, BlankIsDir, DirEq DEF Blank
  <2>6. CurrentMoved'
    BY <1>1, <2>1, <2>3, <2>4, <2>5, MarkId DEF CurrentMoved, Old, Staged, Blank, File
  <2>7. PhaseOfPC' /\ Prepared' /\ Installed' /\ Verified' /\ RollbackRemoving' /\ RollbackRestoring'
    BY <1>1, <2>1, MarkId DEF PhaseOfPC, Prepared, Installed, Verified, RollbackRemoving,
       RollbackRestoring
  <2> QED
    BY <1>1, <2>1, <2>6, <2>7, MarkId, MarkFrame DEF Phases
<1>4. CASE MarkInstalled
  <2>1. /\ SetPhase("Installed") /\ pc = "markInstalled" /\ pc' = "open" /\ "Installed" \in Phase
        /\ applied' = TRUE
    BY <1>4 DEF MarkInstalled, Mark, Goto, Phase
  <2>2. armed # Blank /\ Old = last /\ live = armed
    BY <2>1 DEF Phases, PhaseOfPC, CurrentMoved
  <2>3. Installed'
    BY <1>1, <2>1, <2>2, MarkId DEF Installed, Old
  <2>4. PhaseOfPC' /\ Prepared' /\ CurrentMoved' /\ Verified' /\ RollbackRemoving' /\ RollbackRestoring'
    BY <1>1, <2>1, MarkId DEF PhaseOfPC, Prepared, CurrentMoved, Verified, RollbackRemoving,
       RollbackRestoring
  <2> QED
    BY <1>1, <2>1, <2>3, <2>4, MarkId, MarkFrame DEF Phases
<1>5. CASE MarkRemoving
  <2>1. /\ SetPhase("RollbackRemoving") /\ pc = "rbMark" /\ pc' = "remove"
        /\ "RollbackRemoving" \in Phase
    BY <1>5 DEF MarkRemoving, Mark, Goto, Phase
  <2>2. armed # Blank /\ Old = last
    BY <2>1 DEF Phases, PhaseOfPC, Installed
  <2>3. RollbackRemoving'
    BY <1>1, <1>2, <2>1, <2>2, MarkId DEF RollbackRemoving, Old
  <2>4. PhaseOfPC' /\ Prepared' /\ CurrentMoved' /\ Installed' /\ Verified' /\ RollbackRestoring'
    BY <1>1, <2>1, MarkId DEF PhaseOfPC, Prepared, CurrentMoved, Installed, Verified,
       RollbackRestoring
  <2> QED
    BY <1>1, <2>1, <2>3, <2>4, MarkId, MarkFrame DEF Phases
<1>6. CASE MarkRestoring
  <2>1. /\ SetPhase("RollbackRestoring") /\ pc = "markRestoring" /\ pc' = "putBack"
        /\ "RollbackRestoring" \in Phase
    BY <1>6 DEF MarkRestoring, Mark, Goto, Phase
  <2>2. armed # Blank /\ Old = last /\ live = Blank
    BY <2>1 DEF Phases, PhaseOfPC, CurrentMoved, RollbackRemoving
  <2>3. \A g \in File : Away(g)'
    BY <1>1, <2>1, <2>2, MarkId DEF Away, Old, Blank
  <2>4. RollbackRestoring'
    BY <1>1, <1>2, <2>1, <2>2, <2>3, MarkId DEF RollbackRestoring
  <2>5. PhaseOfPC' /\ Prepared' /\ CurrentMoved' /\ Installed' /\ Verified' /\ RollbackRemoving'
    BY <1>1, <2>1, MarkId DEF PhaseOfPC, Prepared, CurrentMoved, Installed, Verified,
       RollbackRemoving
  <2> QED
    BY <1>1, <2>1, <2>4, <2>5, MarkId, MarkFrame DEF Phases
<1> QED
  BY <1>3, <1>4, <1>5, <1>6

\* The Verified mark is written before anything of the old library is removed.
LEMMA FinMarkKeeps ==
  ASSUME Reliable, IInv, FinMark
  PROVE  Facts'
<1> USE DEF IInv, Facts
<1>1. /\ SetPhase("Verified") /\ pc = "finMark" /\ pc' = "finOld" /\ "Verified" \in Phase
      /\ UNCHANGED <<live, old, staging, token, tickets, last, armed, made>>
  BY DEF Reliable, FinMark, Done, Goto, ghosts, Phase
<1>2. At("Installed") /\ marker # NoMarker /\ armed # Blank /\ live = armed
  BY <1>1 DEF PhaseOfPC, At, Phases, Installed
<1>3. Verified'
  BY <1>1, <1>2, MarkId DEF Verified
<1>4. PhaseOfPC' /\ Prepared' /\ CurrentMoved' /\ Installed' /\ RollbackRemoving' /\ RollbackRestoring'
  BY <1>1, <1>2, MarkId DEF PhaseOfPC, Prepared, CurrentMoved, Installed, RollbackRemoving,
     RollbackRestoring
<1> QED
  BY <1>1, <1>2, <1>3, <1>4, MarkId, MarkFrame DEF Phases

LEMMA FinOldKeeps ==
  ASSUME Reliable, IInv, FinOld
  PROVE  Facts'
<1> USE DEF IInv, Facts
<1>1. /\ pc = "finOld" /\ pc' = "finStaging"
      /\ old' = [old EXCEPT ![marker.id] = Blank]
      /\ UNCHANGED <<live, staging, token, marker, tickets, last, armed, made, applied>>
  BY DEF Reliable, FinOld, DropOld, Done, Goto, ghosts
<1>2. At("Verified") /\ marker # NoMarker /\ marker.id \in BackupId
  BY <1>1, MarkerId DEF PhaseOfPC, At
<1>3. Old' = Blank /\ \A i \in BackupId : i # marker.id => old'[i] = old[i]
  BY <1>1, <1>2 DEF Old, TypeOK
<1>4. Verified' /\ PhaseOfPC'
  BY <1>1, <1>2, <1>3 DEF Phases, Verified, PhaseOfPC, At
<1>5. NoResidue' /\ Packages' /\ Tokens' /\ Idle'
  BY <1>1, <1>2, <1>3 DEF NoResidue, Packages, Tokens, Idle
<1> QED
  BY <1>1, <1>2, <1>4, <1>5 DEF Phases, At, Prepared, CurrentMoved, Installed,
     RollbackRemoving, RollbackRestoring

\* The staging folder is removed, or a part of it: no side file appears.
LEMMA DropStagingWal ==
  ASSUME IInv, NEW at, NEW to, DropStaging(at, to), marker.id \in BackupId
  PROVE  \A i \in BackupId : staging'[i]["wal"] = NoFile
<1>1. staging[marker.id]["wal"] = NoFile /\ staging[marker.id] \in Dir
  BY DEF IInv, Facts, Packages, TypeOK
<1>2. PICK dir : staging' = [staging EXCEPT ![marker.id] = dir] /\ dir["wal"] = NoFile
  <2>1. CASE staging' = [staging EXCEPT ![marker.id] = Blank]
    <3>1. Blank["wal"] = NoFile
      BY DEF Blank, File
    <3> QED
      BY <2>1, <3>1, Zenon
  <2>2. ASSUME NEW left \in SUBSET File,
               staging' = [staging EXCEPT ![marker.id] = Keep(@, left)]
        PROVE  \E dir : staging' = [staging EXCEPT ![marker.id] = dir] /\ dir["wal"] = NoFile
    <3>1. Keep(staging[marker.id], left)["wal"] = NoFile
      BY <1>1 DEF Keep, File
    <3>2. staging' = [staging EXCEPT ![marker.id] = Keep(staging[marker.id], left)]
      BY <2>2
    <3> QED
      BY <3>1, <3>2, Zenon
  <2> QED
    BY <2>1, <2>2 DEF DropStaging
<1> QED
  BY <1>2 DEF IInv, Facts, Packages, TypeOK

LEMMA FinStagingKeeps ==
  ASSUME IInv, FinStaging
  PROVE  Facts'
<1> USE DEF IInv, Facts
<1>1. /\ pc = "finStaging" /\ pc' = "finMarker"
      /\ UNCHANGED <<live, old, marker, tickets, last, armed, made, applied>>
  BY DEF FinStaging, DropStaging, Done, Goto, ghosts
<1>2. At("Verified") /\ marker # NoMarker /\ marker.id \in BackupId
  BY <1>1, MarkerId DEF PhaseOfPC, At
<1>3. Verified' /\ PhaseOfPC'
  BY <1>1, <1>2 DEF Phases, Verified, PhaseOfPC, At, Old
<1>4. \A i \in BackupId : staging'[i]["wal"] = NoFile
  BY <1>2, DropStagingWal DEF FinStaging
<1>5. NoResidue' /\ Packages' /\ Tokens' /\ Idle'
  BY <1>1, <1>2, <1>4 DEF NoResidue, Packages, Tokens, Idle
<1> QED
  BY <1>1, <1>2, <1>3, <1>5 DEF Phases, At, Prepared, CurrentMoved, Installed,
     RollbackRemoving, RollbackRestoring

LEMMA RbStagingKeeps ==
  ASSUME IInv, RbStaging
  PROVE  Facts'
<1> USE DEF IInv, Facts
<1>1. /\ pc = "rbStaging" /\ pc' = "rbOld"
      /\ UNCHANGED <<live, old, marker, tickets, last, armed, made, applied>>
  BY DEF RbStaging, DropStaging, Done, Goto, ghosts
<1>2. At("RollbackRestoring") /\ marker # NoMarker /\ marker.id \in BackupId
  BY <1>1, MarkerId DEF PhaseOfPC, At
<1>3. RollbackRestoring' /\ PhaseOfPC'
  BY <1>1, <1>2 DEF Phases, RollbackRestoring, PhaseOfPC, At, Old, Home, Away
<1>4. \A i \in BackupId : staging'[i]["wal"] = NoFile
  BY <1>2, DropStagingWal DEF RbStaging
<1>5. NoResidue' /\ Packages' /\ Tokens' /\ Idle'
  BY <1>1, <1>2, <1>4 DEF NoResidue, Packages, Tokens, Idle
<1> QED
  BY <1>1, <1>2, <1>3, <1>5 DEF Phases, At, Prepared, CurrentMoved, Installed,
     RollbackRemoving, Verified

\* When everything is home restore-old is already empty.
LEMMA HomeIsEmpty ==
  ASSUME TypeOK, marker # NoMarker, \A f \in File : Home(f)
  PROVE  Old = Blank /\ live = last
<1>1. Old \in Dir /\ live \in Dir /\ last \in Dir
  BY MarkerId DEF TypeOK, Old
<1>2. \A f \in File : Old[f] = Blank[f] /\ live[f] = last[f]
  BY DEF Home, Blank
<1> QED
  BY <1>1, <1>2, BlankIsDir, DirEq

LEMMA RbOldKeeps ==
  ASSUME Reliable, IInv, RbOld
  PROVE  Facts'
<1> USE DEF IInv, Facts
<1>1. /\ pc = "rbOld" /\ pc' = "rbMarker"
      /\ old' = [old EXCEPT ![marker.id] = Blank]
      /\ UNCHANGED <<live, staging, token, marker, tickets, last, armed, made, applied>>
  BY DEF Reliable, RbOld, DropOld, Done, Goto, ghosts
<1>2. At("RollbackRestoring") /\ marker # NoMarker /\ marker.id \in BackupId
  BY <1>1, MarkerId DEF PhaseOfPC, At
<1>3. \A f \in File : Home(f)
  BY <1>1, <1>2 DEF Phases, RollbackRestoring
<1>4. Old' = Old /\ \A i \in BackupId : old'[i] = old[i]
  BY <1>1, <1>2, <1>3, HomeIsEmpty DEF Old, TypeOK
<1>5. RollbackRestoring' /\ PhaseOfPC'
  BY <1>1, <1>2, <1>3, <1>4 DEF RollbackRestoring, PhaseOfPC, At, Home
<1>6. NoResidue' /\ Packages' /\ Tokens' /\ Idle'
  BY <1>1, <1>2, <1>4 DEF NoResidue, Packages, Tokens, Idle
<1> QED
  BY <1>1, <1>2, <1>5, <1>6 DEF Phases, At, Prepared, CurrentMoved, Installed,
     RollbackRemoving, Verified

\* What a start opens, and what it leaves in restore-old.
LEMMA AtOpen ==
  ASSUME IInv, pc = "open"
  PROVE  /\ live["db"] # NoFile /\ live \in {last, armed}
         /\ applied => At("Installed") /\ armed # Blank /\ live = armed
         /\ ~applied => \A i \in BackupId : old[i] = Blank
         /\ At("Prepared") => Staged["db"] = NoFile
<1> USE DEF IInv, Facts, Phases
<1>1. CASE marker = NoMarker
  BY <1>1 DEF Idle, Packages, NoResidue, PhaseOfPC, At
<1>2. CASE marker # NoMarker
  <2>1. \/ At("Prepared") \/ At("Verified") \/ At("RollbackRestoring") \/ At("Installed")
    BY <1>2, MarkerId DEF PhaseOfPC, At, Phase
  <2>2. CASE At("Prepared") \/ At("RollbackRestoring")
    <3>1. ~applied /\ \A f \in File : Home(f)
      BY <2>2 DEF PhaseOfPC, Prepared, RollbackRestoring, At
    <3>2. Old = Blank /\ live = last
      BY <1>2, <3>1, HomeIsEmpty
    <3> QED
      BY <1>2, <3>1, <3>2 DEF Packages, NoResidue, Old, Prepared
  <2>3. CASE At("Verified")
    BY <1>2, <2>3 DEF Verified, Packages, NoResidue, Old, PhaseOfPC, At
  <2>4. CASE At("Installed")
    BY <1>2, <2>4 DEF Installed, Packages, PhaseOfPC, At
  <2> QED
    BY <2>1, <2>2, <2>3, <2>4
<1> QED
  BY <1>1, <1>2

\* Entering the session with an empty restore-old starts from a clean slate.
LEMMA EnterKeeps ==
  ASSUME IInv, pc \in {"open", "finMarker"}, pc' = "running", Enter,
         UNCHANGED <<live, old, staging, token, tickets>>, live["db"] # NoFile,
         \A i \in BackupId : old[i] = Blank,
         marker' \in {marker, NoMarker},
         ~At("CurrentMoved") /\ ~At("Installed") /\ ~At("RollbackRemoving"),
         At("Prepared") => Staged["db"] = NoFile
  PROVE  Facts'
<1> USE DEF IInv, Facts, Enter
<1>1. \A p \in Phase : At(p)' => At(p) /\ marker' = marker
  BY DEF At
<1>2. PhaseOfPC'
  BY <1>1, MarkerId DEF PhaseOfPC, At, Phase, TypeOK
<1>3. NoResidue' /\ Packages' /\ Tokens' /\ Idle'
  BY DEF NoResidue, Packages, Tokens, Idle
<1>4. marker' # NoMarker => \A f \in File : Home(f)'
  BY MarkerId DEF Home, Old, Blank
<1>5. Prepared'
  BY <1>1, <1>4 DEF Prepared, At, Staged, Phase
<1>6. RollbackRestoring' /\ Verified'
  BY <1>1, <1>4 DEF RollbackRestoring, Verified, At
<1>7. CurrentMoved' /\ Installed' /\ RollbackRemoving'
  BY <1>1 DEF CurrentMoved, Installed, RollbackRemoving, Phase
<1> QED
  BY <1>2, <1>3, <1>5, <1>6, <1>7 DEF Phases

\* Going on to open the database, with the marker removed or left behind.
LEMMA ToOpenKeeps ==
  ASSUME IInv, pc \in {"finMarker", "rbMarker", "abortMarker"}, pc' = "open", ~applied,
         UNCHANGED <<live, old, staging, token, tickets, last, armed, made, applied>>,
         marker' \in {marker, NoMarker}
  PROVE  Facts'
<1> USE DEF IInv, Facts, Phases
<1>1. marker # NoMarker /\ \/ At("Verified") /\ pc = "finMarker"
                           \/ At("RollbackRestoring") /\ pc = "rbMarker"
                           \/ At("Prepared") /\ pc = "abortMarker"
  BY DEF PhaseOfPC, MarkerNeeded
<1>2. Old = Blank /\ \/ live = last
                     \/ live = armed /\ armed # Blank
  BY <1>1, HomeIsEmpty DEF Verified, RollbackRestoring, Prepared
<1>3. NoResidue' /\ Packages' /\ Tokens' /\ Idle'
  BY <1>1, <1>2 DEF NoResidue, Packages, Tokens, Idle, Old
<1>4. PhaseOfPC'
  BY <1>1 DEF PhaseOfPC, At
<1>5. CASE marker' = NoMarker
  BY <1>3, <1>4, <1>5 DEF At, Prepared, CurrentMoved, Installed, Verified, RollbackRemoving,
     RollbackRestoring
<1>6. CASE marker' = marker
  <2>1. Prepared'
    BY <1>1, <1>6 DEF Prepared, At, Home, Away, Old, Staged
  <2>2. Verified' /\ RollbackRestoring'
    BY <1>1, <1>2, <1>6 DEF Verified, RollbackRestoring, At, Home, Away, Old
  <2>3. CurrentMoved' /\ Installed' /\ RollbackRemoving'
    BY <1>1, <1>6 DEF CurrentMoved, Installed, RollbackRemoving, At
  <2> QED
    BY <1>3, <1>4, <2>1, <2>2, <2>3
<1> QED
  BY <1>5, <1>6

LEMMA FinMarkerKeeps ==
  ASSUME IInv, FinMarker
  PROVE  Facts'
<1> USE DEF IInv, Facts
<1>1. /\ pc = "finMarker" /\ pc' = (IF applied THEN "running" ELSE "open")
      /\ marker' \in {marker, NoMarker}
      /\ UNCHANGED <<live, old, staging, token, tickets, applied>>
  BY DEF FinMarker, DropMarker, Done, Goto
<1>2. At("Verified") /\ marker # NoMarker
  BY <1>1 DEF PhaseOfPC, MarkerNeeded
<1>3. CASE applied
  <2>1. \A i \in BackupId : old[i] = Blank
    BY <1>1, <1>2 DEF Phases, Verified, NoResidue, Old
  <2>2. live["db"] # NoFile
    BY <1>2 DEF Phases, Verified, Packages
  <2>3. Enter /\ pc' = "running"
    BY <1>1, <1>3 DEF FinMarker
  <2> QED
    BY <1>1, <1>2, <2>1, <2>2, <2>3, EnterKeeps DEF At
<1>4. CASE ~applied
  BY <1>1, <1>4, ToOpenKeeps DEF FinMarker, ghosts
<1> QED
  BY <1>3, <1>4

LEMMA DropMarkerKeeps ==
  ASSUME IInv, RbMarker \/ AbortMarker
  PROVE  Facts'
<1>1. ~applied
  BY DEF IInv, MarkerNeeded, RbMarker, AbortMarker, Done, Goto
<1> QED
  BY <1>1, ToOpenKeeps DEF RbMarker, AbortMarker, DropMarker, Done, Goto, ghosts

LEMMA OpenKeeps ==
  ASSUME IInv, Open
  PROVE  Facts'
<1> USE DEF IInv, Facts, Phases
<1>1. pc = "open" /\ UNCHANGED <<live, old, staging, token, marker, applied, tickets>>
  BY AtOpen DEF Open, OpenDb
<1>2. CASE ~applied
  <2>1. Enter /\ pc' = "running"
    BY <1>2 DEF Open
  <2> QED
    BY <1>1, <1>2, <2>1, AtOpen, EnterKeeps DEF PhaseOfPC
<1>3. CASE applied
  <2>1. At("Installed") /\ marker # NoMarker /\ pc' = "finMark" /\ UNCHANGED <<last, armed, made>>
    BY <1>1, <1>3, AtOpen DEF Open, At, ghosts
  <2>2. NoResidue' /\ Packages' /\ Tokens' /\ Idle'
    BY <1>1, <2>1, MarkFrame
  <2>3. PhaseOfPC' /\ Installed'
    BY <1>1, <2>1 DEF PhaseOfPC, Installed, At, Old
  <2> QED
    BY <1>1, <2>1, <2>2, <2>3 DEF At, Prepared, CurrentMoved, Verified, RollbackRemoving,
       RollbackRestoring
<1> QED
  BY <1>2, <1>3

-----------------------------------------------------------------------------
(* Faults preserve the invariant                                           *)

LEMMA OpenFailsKeeps ==
  ASSUME IInv, OpenFails
  PROVE  Facts'
<1> USE DEF IInv, Facts, Phases
<1>1. /\ pc = "open" /\ pc' = (IF applied THEN "rbMark" ELSE "off")
      /\ UNCHANGED <<live, old, staging, token, marker, applied, tickets, last, armed, made>>
  BY AtOpen DEF OpenFails, OpenDb, ghosts
<1>2. NoResidue' /\ Packages' /\ Tokens' /\ Idle'
  BY <1>1 DEF NoResidue, Packages, Tokens, Idle
<1>3. CASE applied
  <2>1. At("Installed") /\ pc' = "rbMark"
    BY <1>1, <1>3, AtOpen
  <2>2. PhaseOfPC' /\ Installed'
    BY <1>1, <2>1 DEF PhaseOfPC, Installed, At, Old
  <2> QED
    BY <1>1, <1>2, <2>1, <2>2 DEF At, Prepared, CurrentMoved, Verified, RollbackRemoving,
       RollbackRestoring
<1>4. CASE ~applied
  <2>1. pc' = "off" /\ PhaseOfPC'
    BY <1>1, <1>4 DEF PhaseOfPC
  <2>2. Prepared' /\ RollbackRestoring'
    BY <1>1, <2>1 DEF Prepared, RollbackRestoring, Home, Away, Old, Staged, At
  <2>3. Verified' /\ Installed' /\ CurrentMoved' /\ RollbackRemoving'
    BY <1>1, <2>1 DEF Verified, Installed, CurrentMoved, RollbackRemoving, PhaseOfPC, At, Old
  <2> QED
    BY <1>2, <2>1, <2>2, <2>3
<1> QED
  BY <1>3, <1>4

\* A staging folder that disappears before its database was moved in is as if
\* it had never been confirmed.
LEMMA StagingLostKeeps ==
  ASSUME Reliable, IInv, NEW i \in BackupId, StagingLost(i)
  PROVE  Facts'
<1> USE DEF IInv, Facts, Phases
<1>1. /\ pc = "off" /\ pc' = "off" /\ staging[i]["db"] # NoFile
      /\ staging' = [staging EXCEPT ![i] = Blank]
      /\ UNCHANGED <<live, old, marker, applied, tickets, last, armed, made, step>>
  BY DEF Reliable, StagingLost, ghosts
<1>2. NoResidue' /\ Idle' /\ PhaseOfPC' /\ Tokens'
  BY <1>1 DEF NoResidue, Idle, PhaseOfPC, Tokens, At
<1>3. Packages'
  BY <1>1 DEF Packages, TypeOK, Blank, File
<1>4. marker # NoMarker => \/ Staged' = Staged
                           \/ Staged["db"] # NoFile /\ Staged'["db"] = NoFile
  BY <1>1, MarkerId DEF Staged, TypeOK, Blank, File
<1>5. Prepared'
  BY <1>1, <1>4 DEF Prepared, At, Home, Away, Old
<1>6. CurrentMoved'
  <2> SUFFICES ASSUME At("CurrentMoved"), Staged' # Staged
               PROVE  CurrentMoved'
    BY <1>1 DEF CurrentMoved, At, Old
  <2>1. Staged["db"] # NoFile /\ Staged'["db"] = NoFile
    BY <1>4 DEF At
  <2>2. live["db"] = NoFile
    BY <2>1 DEF CurrentMoved
  <2> QED
    BY <1>1, <2>1, <2>2 DEF CurrentMoved, At, Old
<1>7. Installed' /\ Verified' /\ RollbackRemoving' /\ RollbackRestoring'
  BY <1>1 DEF Installed, Verified, RollbackRemoving, RollbackRestoring, At, Home, Away, Old
<1> QED
  BY <1>2, <1>3, <1>5, <1>6, <1>7

\* A crash forgets where the start was; the facts of the phase remain.
LEMMA CrashKeeps ==
  ASSUME IInv, Crash
  PROVE  Facts'
<1> USE DEF IInv, Facts, Phases
<1>1. /\ pc' = "off" /\ tickets' = {}
      /\ UNCHANGED <<live, token, marker, last, armed, made>>
  BY DEF Crash, ghosts
<1>2. /\ \A i \in BackupId : old[i] = Blank => old'[i] = Blank
      /\ pc \notin {"finOld", "rbOld"} => old' = old
      /\ pc = "rbOld" => old' = old
  <2>1. CASE pc \notin {"finOld", "rbOld"}
    BY <2>1 DEF Crash
  <2>2. CASE pc \in {"finOld", "rbOld"}
    <3>1. PICK left \in SUBSET File :
            old' = [old EXCEPT ![marker.id] = Keep(old[marker.id], left)]
      BY <2>2 DEF Crash
    <3>2. Keep(Blank, left) = Blank
      BY DEF Keep, Blank
    <3>3. marker.id \in BackupId /\ marker # NoMarker
      BY <2>2, MarkerId DEF MarkerNeeded
    <3>4. \A i \in BackupId : old[i] = Blank => old'[i] = Blank
      BY <3>1, <3>2, <3>3 DEF TypeOK
    <3>5. CASE pc = "rbOld"
      <4>1. Old = Blank
        BY <3>3, <3>5, HomeIsEmpty DEF PhaseOfPC, RollbackRestoring
      <4>2. old' = [old EXCEPT ![marker.id] = Blank] /\ old[marker.id] = Blank
        BY <3>1, <3>2, <4>1 DEF Old
      <4> QED
        BY <3>3, <3>4, <4>2 DEF TypeOK
    <3> QED
      BY <2>2, <3>4, <3>5
  <2> QED
    BY <2>1, <2>2
<1>3. /\ pc \notin {"finStaging", "rbStaging"} => staging' = staging
      /\ \A i \in BackupId : staging'[i]["wal"] = NoFile
  <2>1. CASE pc \notin {"finStaging", "rbStaging"}
    BY <2>1 DEF Crash, Packages
  <2>2. CASE pc \in {"finStaging", "rbStaging"}
    <3>1. PICK left \in SUBSET File :
            staging' = [staging EXCEPT ![marker.id] = Keep(staging[marker.id], left)]
      BY <2>2 DEF Crash
    <3>2. marker.id \in BackupId
      BY <2>2, MarkerId DEF MarkerNeeded
    <3>3. Keep(staging[marker.id], left)["wal"] = NoFile
      BY <3>2 DEF Keep, File, Packages
    <3> QED
      BY <2>2, <3>1, <3>2, <3>3 DEF Packages, TypeOK
  <2> QED
    BY <2>1, <2>2
<1>4. NoResidue' /\ Packages' /\ Tokens' /\ Idle' /\ PhaseOfPC'
  BY <1>1, <1>2, <1>3 DEF NoResidue, Packages, Tokens, Idle, PhaseOfPC
<1>5. \A p : At(p)' <=> At(p)
  BY <1>1 DEF At
<1>6. At("Verified") \/ old' = old
  BY <1>2 DEF PhaseOfPC
<1>7. At("Prepared") \/ At("CurrentMoved") => staging' = staging
  BY <1>3 DEF PhaseOfPC, At
<1>8. Prepared' /\ RollbackRestoring'
  BY <1>1, <1>5, <1>6, <1>7 DEF Prepared, RollbackRestoring, Home, Away, Old, Staged, At
<1>9. CurrentMoved'
  BY <1>1, <1>5, <1>6, <1>7 DEF CurrentMoved, Old, Staged, At
<1>10. Installed' /\ Verified' /\ RollbackRemoving'
  BY <1>1, <1>5, <1>6 DEF Installed, Verified, RollbackRemoving, Old, At
<1> QED
  BY <1>4, <1>8, <1>9, <1>10

-----------------------------------------------------------------------------
(* The theorems                                                            *)

LEMMA InvInit == Init => IInv
<1> SUFFICES ASSUME Init PROVE IInv
  OBVIOUS
<1>1. TypeOK /\ MarkerNeeded
  BY TypeInit, MarkerInit
<1>2. live["db"] # NoFile
  <2>1. PICK w \in BOOLEAN, d \in BOOLEAN : live = Library(1, w, d)
    BY DEF Init
  <2> QED
    BY <2>1 DEF Library, File, NoFile
<1>3. PhaseOfPC /\ NoResidue /\ Packages /\ Tokens /\ Idle
  BY <1>2 DEF Init, PhaseOfPC, NoResidue, Packages, Tokens, Idle, At, Blank, File
<1>4. Phases
  BY DEF Init, Phases, At, Prepared, CurrentMoved, Installed, Verified, RollbackRemoving,
     RollbackRestoring
<1> QED
  BY <1>1, <1>3, <1>4 DEF IInv, Facts

LEMMA InvStep == Reliable /\ IInv /\ [Next]_vars => IInv'
<1> SUFFICES ASSUME Reliable, IInv, [Next]_vars PROVE IInv'
  OBVIOUS
<1>1. TypeOK' /\ MarkerNeeded'
  BY TypeStep, MarkerStep DEF IInv
<1>2. CASE UNCHANGED vars
  <2>1. Facts'
    BY <1>2 DEF vars, IInv, Facts, PhaseOfPC, NoResidue, Packages, Tokens, Vouched, Idle, Phases, At,
       Prepared, CurrentMoved, Installed, Verified, RollbackRemoving, RollbackRestoring,
       Home, Away, Visited, Old, Staged
  <2> QED
    BY <1>1, <2>1 DEF IInv
<1>3. CASE Session
  BY <1>1, <1>3, SessionKeeps DEF IInv
<1>4. CASE StartApp
  BY <1>1, <1>4, StartKeeps DEF IInv
<1>5. CASE World
  BY <1>1, <1>5, CrashKeeps, OpenFailsKeeps, StagingLostKeeps DEF IInv, World
<1>6. CASE Boot
  <2>1. ~FinLockBusy
    BY DEF Reliable, FinLockBusy
  <2>2. Facts'
    BY <1>6, <2>1, SwapKeeps, MoveOutKeeps, InstallKeeps, ReverseKeeps, RemoveKeeps,
       PutBackKeeps, MarksKeep, FinMarkKeeps, FinOldKeeps, FinStagingKeeps, FinMarkerKeeps,
       RbStagingKeeps, RbOldKeeps, DropMarkerKeeps, OpenKeeps DEF Boot
  <2> QED
    BY <1>1, <2>2 DEF IInv
<1> QED
  BY <1>2, <1>3, <1>4, <1>5, <1>6 DEF Next

\* The setting of a behaviour stays what it is.
LEMMA SettingStays == [Next]_vars => (Reliable' <=> Reliable)
BY DEF Next, vars, Reliable

LEMMA InvAlways == Spec => [](Reliable => IInv)
<1>1. Init => (Reliable => IInv)
  BY InvInit
<1>2. (Reliable => IInv) /\ [Next]_vars => (Reliable => IInv)'
  BY InvStep, SettingStays
<1> QED
  BY <1>1, <1>2, PTL DEF Spec

\* db/boot.rs opens a whole library: whatever crashed during the swap or its
\* rollback, at every start the live files are all of them the library the
\* last session left or all of them the confirmed package.
THEOREM OpensWholeLibrary == Spec => []WholeLibrary
<1>1. (Reliable => IInv) => WholeLibrary
  BY AtOpen DEF WholeLibrary, NeverAMixture
<1> QED
  BY <1>1, InvAlways, PTL

\* swap.rs removes nothing of the old library before the new one has been
\* opened and the marker says so: until then each of its files is on disk.
THEOREM OldLibraryKept == Spec => []SessionDataKept
<1>1. (Reliable => IInv) => SessionDataKept
  <2> SUFFICES ASSUME IInv, ~PackageAccepted, NEW f \in File PROVE Held(f)
    BY DEF SessionDataKept
  <2> USE DEF IInv, Facts, Phases
  <2>1. CASE marker = NoMarker
    BY <2>1 DEF Idle, PackageAccepted, Held
  <2>2. CASE At("Prepared") \/ At("RollbackRestoring")
    <3>1. Home(f) \/ Away(f)
      BY <2>2 DEF Prepared, RollbackRestoring
    <3> QED
      BY <2>2, <3>1 DEF Home, Away, Held, At, Old
  <2>3. CASE At("CurrentMoved") \/ At("Installed") \/ At("RollbackRemoving")
    BY <2>3 DEF CurrentMoved, Installed, RollbackRemoving, Held, At, Old
  <2>4. CASE At("Verified")
    BY <2>4 DEF Verified, PackageAccepted, Held, At
  <2> QED
    BY <2>1, <2>2, <2>3, <2>4, MarkerId DEF At, Phase
<1> QED
  BY <1>1, InvAlways, PTL

-----------------------------------------------------------------------------
(* The confirmed package                                                   *)

\* As long as the token is there, the database to be installed is staged: the
\* staging folder loses both together.
Waiting ==
  /\ marker # NoMarker /\ token[marker.id] # NoFile
  /\ \/ At("Prepared") /\ armed # Blank
     \/ At("CurrentMoved") /\ live["db"] = NoFile
  => Staged["db"] # NoFile

\* Most steps leave the staging folder, its token and the phase alone.
LEMMA WaitingFrame ==
  ASSUME Waiting, UNCHANGED <<staging, token, marker>>,
         At("Prepared") => armed' \in {armed, Blank},
         At("CurrentMoved") => live' = live
  PROVE  Waiting'
BY DEF Waiting, At, Staged

\* A staging folder changes in a session only when no marker names it.
LEMMA WaitingInSession ==
  ASSUME IInv, Waiting, Session
  PROVE  Waiting'
<1> USE DEF IInv, Facts
<1>1. CASE Edit \/ Stop
  BY <1>1, WaitingFrame DEF Edit, Stop, Goto, disk, ghosts, PhaseOfPC, At
<1>2. ASSUME NEW i \in BackupId, marker.id # i, UNCHANGED <<live, marker, armed>>,
             \A j \in BackupId \ {i} : staging'[j] = staging[j] /\ token'[j] = token[j]
      PROVE  Waiting'
  BY <1>2, MarkerId DEF Waiting, At, Staged
<1>3. ASSUME NEW i \in BackupId, Stage(i) \/ StageFails(i) PROVE Waiting'
  BY <1>2, <1>3 DEF Stage, StageAnyway, StageFails, RemoveHalf, UnpackHalf, NotPending, TypeOK,
     ghosts
<1>4. ASSUME NEW t \in tickets, Discard(t) \/ DiscardFails(t) PROVE Waiting'
  BY <1>2, <1>4 DEF Discard, DiscardFails, RemoveHalf, NotPending, TypeOK, Ticket, ghosts
<1>5. ASSUME NEW t \in tickets, Arm(t) PROVE Waiting'
  BY <1>5 DEF Arm, ArmAnyToken, Waiting, At, Staged
<1> QED
  BY <1>1, <1>3, <1>4, <1>5 DEF Session

\* The swap takes the database out of the folder only to install it.
LEMMA WaitingInBoot ==
  ASSUME IInv, Waiting, Boot
  PROVE  Waiting'
<1> USE DEF IInv, Facts, Phases
<1>1. CASE Swap \/ MoveOut \/ Reverse \/ Remove \/ PutBack
  BY <1>1, WaitingFrame DEF Swap, MoveOut, Reverse, Remove, PutBack, BringBack, Advance, disk,
     ghosts, PhaseOfPC, At
<1>2. CASE Install
  <2>1. At("CurrentMoved") /\ marker' = marker /\ marker.id \in BackupId
    BY <1>2, MarkerId DEF Install, Advance, PhaseOfPC, At
  <2>2. live'["db"] # NoFile
    BY <1>2, <2>1 DEF Install, Advance, CurrentMoved, FileAt, Staged, TypeOK, Dir, File
  <2> QED
    BY <2>1, <2>2 DEF Waiting, At
<1>3. CASE MarkMoved
  BY <1>3 DEF MarkMoved, Mark, Goto, SetPhase, Prepared, PhaseOfPC, Waiting, At, Staged, TypeOK,
     NoMarker
<1>4. CASE MarkInstalled \/ MarkRemoving \/ MarkRestoring
  <2>1. marker # NoMarker /\ \E p \in {"Installed", "RollbackRemoving", "RollbackRestoring"} :
           marker' = [marker EXCEPT !.phase = p]
    BY <1>4 DEF MarkInstalled, MarkRemoving, MarkRestoring, Mark, Goto, SetPhase, MarkerNeeded
  <2> QED
    BY <2>1, MarkerId DEF Waiting, At, TypeOK
<1>5. CASE FinMark \/ FinLockBusy \/ FinOld \/ FinStaging \/ RbStaging \/ RbOld
  <2>1. ~At("Prepared") /\ ~At("CurrentMoved") /\ marker # NoMarker
    BY <1>5 DEF FinMark, FinLockBusy, FinOld, FinStaging, RbStaging, RbOld, DropOld, DropStaging,
       Done, Goto, PhaseOfPC, MarkerNeeded, At
  <2>2. marker' \in {marker, [marker EXCEPT !.phase = "Verified"]}
    BY <1>5 DEF FinMark, FinLockBusy, FinOld, FinStaging, RbStaging, RbOld, DropOld, DropStaging,
       SetPhase
  <2> QED
    BY <2>1, <2>2, MarkerId DEF Waiting, At, TypeOK
<1>6. CASE FinMarker \/ RbMarker \/ AbortMarker
  <2>1. marker' \in {marker, NoMarker} /\ UNCHANGED <<staging, token, live>>
    BY <1>6 DEF FinMarker, RbMarker, AbortMarker, DropMarker, Done
  <2>2. armed' \in {armed, Blank}
    BY <1>6 DEF FinMarker, RbMarker, AbortMarker, Enter, ghosts
  <2> QED
    BY <2>1, <2>2 DEF Waiting, At, Staged
<1>7. CASE Open
  BY <1>7, WaitingFrame DEF Open, Enter, ghosts, PhaseOfPC
<1> QED
  BY <1>1, <1>2, <1>3, <1>4, <1>5, <1>6, <1>7 DEF Boot

\* A fault that takes the staging folder takes its token too.
LEMMA WaitingInWorld ==
  ASSUME IInv, Waiting, World
  PROVE  Waiting'
<1> USE DEF IInv, Facts
<1>1. CASE Crash
  <2>1. CASE pc \in {"finStaging", "rbStaging"}
    BY <1>1, <2>1 DEF Crash, PhaseOfPC, Waiting, At
  <2>2. CASE pc \notin {"finStaging", "rbStaging"}
    BY <1>1, <2>2, WaitingFrame DEF Crash, ghosts
  <2> QED
    BY <2>1, <2>2
<1>2. CASE OpenFails
  BY <1>2, WaitingFrame DEF OpenFails, ghosts, PhaseOfPC
<1>3. ASSUME NEW i \in BackupId, StagingLost(i) PROVE Waiting'
  BY <1>3, MarkerId DEF StagingLost, ghosts, Waiting, At, Staged, TypeOK
<1> QED
  BY <1>1, <1>2, <1>3 DEF World

\* swap.rs and restore.rs: what was left of the shown package when the user
\* confirmed it stays on disk, live or staged, file by file, until it is
\* installed, whatever crashed and whatever other wizards did or failed to do,
\* unless the staging folder was deleted from outside, which takes its token.
THEOREM ConfirmedPackageKept == Spec => []ArmedPackageKept
<1>1. Init => (Reliable => Waiting)
  BY DEF Init, Waiting
<1>2. (Reliable => IInv) /\ (Reliable => Waiting) /\ [Next]_vars => (Reliable => Waiting)'
  <2> SUFFICES ASSUME IInv, Waiting, [Next]_vars PROVE Waiting'
    BY SettingStays
  <2>1. CASE UNCHANGED vars \/ StartApp
    BY <2>1, WaitingFrame DEF vars, StartApp, disk, ghosts
  <2> QED
    BY <2>1, WaitingInSession, WaitingInBoot, WaitingInWorld DEF Next
<1>3. (Reliable => IInv) /\ (Reliable => Waiting) => ArmedPackageKept
  <2> SUFFICES ASSUME IInv, Waiting, armed # Blank, marker # NoMarker,
                      marker.phase \in {"Prepared", "CurrentMoved", "Installed"},
                      token[marker.id] # NoFile, NEW f \in File, armed[f] # NoFile
               PROVE  armed[f] \in {live[f], Staged[f]}
    BY DEF ArmedPackageKept, Staged
  <2> USE DEF IInv, Facts, Phases
  <2>1. CASE At("Prepared")
    BY <2>1 DEF Waiting, Prepared
  <2>2. CASE At("Installed")
    BY <2>2 DEF Installed
  <2>3. CASE At("CurrentMoved") /\ live["db"] = NoFile
    BY <2>3 DEF Waiting, CurrentMoved
  <2>4. CASE At("CurrentMoved") /\ live["db"] # NoFile
    BY <2>4 DEF CurrentMoved, Packages, File
  <2> QED
    BY <2>1, <2>2, <2>3, <2>4 DEF At
<1> QED
  BY <1>1, <1>2, <1>3, InvAlways, PTL DEF Spec

-----------------------------------------------------------------------------
(* The refinement                                                          *)

\* A session that could confirm a package has settled the last one.
Settled == pc = "running" /\ marker = NoMarker => armed = Blank

\* Before its last step a start is not seen.
LEMMA BootIsDown ==
  ASSUME Boot, ~(Open \/ FinMarker \/ FinLockBusy)
  PROVE  pc # "running" /\ pc' # "running" /\ UNCHANGED <<last, armed>>
<1>1. CASE Swap
  BY <1>1 DEF Swap, SwapNoMarker, SwapPrepared, SwapCurrentMoved, SwapInstalled, SwapVerified,
     SwapRollback, ghosts
<1>2. CASE MoveOut \/ Install \/ Reverse \/ Remove \/ PutBack
  BY <1>2 DEF MoveOut, Install, Reverse, Remove, PutBack, BringBack, Advance, ghosts
<1>3. CASE MarkMoved \/ MarkInstalled \/ MarkRemoving \/ MarkRestoring
  BY <1>3 DEF MarkMoved, MarkInstalled, MarkRemoving, MarkRestoring, Mark, Goto, ghosts
<1>4. CASE FinMark \/ FinOld \/ FinStaging \/ RbStaging \/ RbOld \/ RbMarker \/ AbortMarker
  BY <1>4 DEF FinMark, FinOld, FinStaging, RbStaging, RbOld, RbMarker, AbortMarker, DropOld,
     DropStaging, Done, Goto, ghosts
<1> QED
  BY <1>1, <1>2, <1>3, <1>4 DEF Boot

LEMMA SettledInit == Init => Settled
BY DEF Init, Settled

\* The session that is entered has settled it; only a confirmation, which
\* writes a marker, offers another.
LEMMA SettledStep == IInv /\ Settled /\ [Next]_vars => Settled'
<1> SUFFICES ASSUME IInv, Settled, [Next]_vars PROVE Settled'
  OBVIOUS
<1> USE DEF Settled
<1>1. CASE UNCHANGED vars \/ StartApp
  BY <1>1 DEF vars, StartApp, Goto
<1>2. CASE Session
  <2>1. CASE Edit \/ Stop
    BY <2>1 DEF Edit, Stop, Goto
  <2>2. ASSUME NEW i \in BackupId, Stage(i) \/ StageFails(i) PROVE Settled'
    BY <2>2 DEF Stage, StageAnyway, StageFails, ghosts
  <2>3. ASSUME NEW t \in tickets, Discard(t) \/ DiscardFails(t) PROVE Settled'
    BY <2>3 DEF Discard, DiscardFails, ghosts
  <2>4. ASSUME NEW t \in tickets, Arm(t) PROVE Settled'
    BY <2>4 DEF Arm, ArmAnyToken, NoMarker, IInv, TypeOK, Ticket
  <2> QED
    BY <1>2, <2>1, <2>2, <2>3, <2>4 DEF Session
<1>3. CASE World
  BY <1>3 DEF World, Crash, OpenFails, StagingLost
<1>4. CASE Open \/ FinMarker \/ FinLockBusy
  BY <1>4 DEF Open, FinMarker, FinLockBusy, Done, Goto, Enter
<1>5. CASE Boot /\ ~(Open \/ FinMarker \/ FinLockBusy)
  BY <1>5, BootIsDown
<1> QED
  BY <1>1, <1>2, <1>3, <1>4, <1>5 DEF Next

\* What a session does is an edit, a confirmation, its end, or is not seen.
LEMMA SessionRefines ==
  ASSUME Reliable, Reliable', IInv, Settled, Session, IInv'
  PROVE  Abs!AbsNext \/ UNCHANGED Abs!absVars
<1> USE DEF Abs!AbsNext, Abs!absVars
<1>1. CASE Edit
  BY <1>1 DEF Edit, Abs!AbsEdit, IInv, TypeOK
<1>2. CASE Stop
  BY <1>2 DEF Stop, Goto, ghosts, Abs!AbsStop
<1>3. ASSUME NEW i \in BackupId, Stage(i) \/ StageFails(i) PROVE UNCHANGED Abs!absVars
  BY <1>3 DEF Stage, StageAnyway, StageFails, ghosts
<1>4. ASSUME NEW t \in tickets, Discard(t) \/ DiscardFails(t) PROVE UNCHANGED Abs!absVars
  BY <1>4 DEF Discard, DiscardFails, ghosts
<1>5. ASSUME NEW t \in tickets, Arm(t) PROVE Abs!AbsOffer
  BY <1>5 DEF Arm, ArmAnyToken, Settled, Abs!AbsOffer, IInv, TypeOK
<1> QED
  BY <1>1, <1>2, <1>3, <1>4, <1>5 DEF Session

\* The library that is opened is the old one or the offered one.
LEMMA EnterRefines ==
  ASSUME Reliable, Reliable', IInv, pc # "running", pc' = "running", Enter, live' = live, live["db"] # NoFile,
         live \in {last, armed}
  PROVE  Abs!AbsStart
<1>1. armed = Blank => live = last
  BY DEF Blank, File
<1> QED
  BY <1>1 DEF Abs!AbsStart, Enter

\* swap.rs and db/boot.rs implement the atomic restore: whatever steps a start
\* takes, repeats or loses to a crash, the user sees either the library of the
\* last session or the whole confirmed package, and the offer is settled.
THEOREM ImplementsAtomicRestore == Spec => RestoreIsAtomic
<1>1. Init => Abs!AbsInit
  <2> SUFFICES ASSUME Init PROVE Abs!AbsInit
    OBVIOUS
  <2> QED
    BY TypeInit, BlankIsDir DEF Init, TypeOK, Abs!AbsInit
<1>2. (Reliable => IInv) /\ (Reliable => IInv)' /\ (Reliable => Settled) /\ [Next]_vars
      => [Abs!AbsNext]_(Abs!absVars)
  <2>0. ~Reliable /\ [Next]_vars => UNCHANGED Abs!absVars
    BY SettingStays DEF Abs!absVars
  <2> SUFFICES ASSUME Reliable, Reliable', IInv, IInv', Settled, [Next]_vars
               PROVE  Abs!AbsNext \/ UNCHANGED Abs!absVars
    BY <2>0, SettingStays
  <2>1. CASE UNCHANGED vars \/ StartApp \/ World
    BY <2>1 DEF vars, StartApp, Goto, World, Crash, OpenFails, StagingLost, ghosts, Abs!absVars
  <2>2. CASE Session
    BY <2>2, SessionRefines
  <2>3. CASE Open
    <3>1. pc = "open" /\ live' = live /\ live["db"] # NoFile /\ live \in {last, armed}
      BY <2>3, AtOpen DEF Open, OpenDb
    <3>2. CASE applied
      BY <2>3, <3>1, <3>2 DEF Open, ghosts, Abs!absVars
    <3>3. CASE ~applied
      BY <2>3, <3>1, <3>3, EnterRefines DEF Open, Abs!AbsNext
    <3> QED
      BY <3>2, <3>3
  <2>4. CASE FinMarker
    <3>1. pc = "finMarker" /\ live' = live /\ At("Verified")
      BY <2>4 DEF FinMarker, Done, Goto, IInv, Facts, PhaseOfPC
    <3>2. live["db"] # NoFile /\ live \in {last, armed}
      BY <3>1 DEF IInv, Facts, Phases, Verified, Packages
    <3>3. CASE applied
      BY <2>4, <3>1, <3>2, <3>3, EnterRefines DEF FinMarker, Done, Goto, Abs!AbsNext
    <3>4. CASE ~applied
      BY <2>4, <3>1, <3>4 DEF FinMarker, Done, Goto, ghosts, Abs!absVars
    <3> QED
      BY <3>3, <3>4
  <2>5. CASE FinLockBusy
    BY <2>5 DEF FinLockBusy, Reliable
  <2>6. CASE Boot /\ ~(Open \/ FinMarker \/ FinLockBusy)
    BY <2>6, BootIsDown DEF Abs!absVars
  <2> QED
    BY <2>1, <2>2, <2>3, <2>4, <2>5, <2>6 DEF Next
<1>3. Init => (Reliable => Settled)
  BY SettledInit
<1>4. (Reliable => IInv) /\ (Reliable => Settled) /\ [Next]_vars => (Reliable => Settled)'
  BY SettledStep, SettingStays
<1> QED
  BY <1>1, <1>2, <1>3, <1>4, InvAlways, PTL DEF Spec, RestoreIsAtomic, Abs!AbsSpec

=============================================================================
