------------------------------- MODULE ScanRuns -------------------------------
(***************************************************************************)
(* Scans of a library root, what may overtake them, and the index they     *)
(* keep (src-tauri/src/ipc/scan_commands.rs, the scan gates of state.rs,   *)
(* scanner/fast_scan.rs, walker.rs, reconcile.rs, fs_watch.rs, and         *)
(* db/queries/scan/).                                                      *)
(*                                                                         *)
(* A scan walks the root's directories, commits what it lists in batches,  *)
(* and at the end marks the rows it has not seen as missing.  A quick scan *)
(* skips a directory whose mtime is the recorded one.  Every write of a    *)
(* scan asks under the root's gate whether the scan's token is still the   *)
(* root's; a new scan, a stop, a removal or a merge takes the token away,  *)
(* and a closing of the database refuses all writes from its announcement  *)
(* on.  Between scans the watcher writes directories it has read.          *)
(*                                                                         *)
(* Two directories, one inside the other; a root covers both or the inner  *)
(* one; one root at a time, with ids never used again.  A directory's      *)
(* mtime changes with its list of files and never comes back to an earlier *)
(* value, so a recorded mtime is modelled by whether it is the present     *)
(* one.  Contents of files, moves by identity, hidden files, links,        *)
(* missing marks of directories and enrichment are left out, and so are    *)
(* the paths: rows are relative to their root.                             *)
(***************************************************************************)
EXTENDS Integers

CONSTANTS
    Scanners,       \* calls of start_scan that may be at work at once
    TopFiles, SubFiles,     \* media files that may be in each directory
    Nobody,         \* no call
    MaxRoots,       \* bound on roots ever added
    MaxEvents       \* bound on changes on disk, plugging, deaths, panics and
                    \* announcements

ASSUME ScanAssumption ==
    /\ TopFiles \cap SubFiles = {} /\ Nobody \notin Scanners /\ MaxRoots \in Nat \ {0}
    /\ MaxEvents \in Nat

Dirs        == {"top", "sub"}
MediaFiles  == TopFiles \cup SubFiles
Spans       == {{"sub"}, Dirs}
RootIds     == 1 .. MaxRoots
NoRoot      == [id |-> 0, span |-> {}]
DirOf(f)    == IF f \in TopFiles THEN "top" ELSE "sub"
FilesIn(ds) == {f \in MediaFiles : DirOf(f) \in ds}

Unread      == [dir |-> "none", files |-> {}, root |-> 0, valid |-> FALSE]
ScanPlaces  ==
    {"idle", "path", "begin", "walk", "commit", "final", "after", "enrich", "drop"}
NewScan(place, r, q) ==
    [at |-> place, root |-> r, quick |-> q, old |-> FALSE,
     same |-> {}, passed |-> {}, entered |-> {}, ahead |-> {}, batch |-> {}, seen |-> {},
     read |-> {}, fresh |-> {}, err |-> FALSE, touched |-> {}, shifted |-> {}]
NoScan      == NewScan("idle", 0, FALSE)

VARIABLES
    there,          \* the files there are
    plugged,        \* the volume is there
    root, lastId,   \* scan_roots: the root with its span, the last id given
    avail,          \* media_items: each file's availability, or none
    based,          \* directories whose recorded mtime is the present one
    unfinished,     \* scan.baseline_incomplete is set for the root
    token,          \* scan_tokens: the call that owns each root's scan
    closing,        \* a lifecycle write that has been announced
    scan,           \* each call of start_scan
    watch,          \* the snapshot the watcher is about to write
    drift,          \* history: files changed since the last finished scan began
    blind,          \* history: directories whose recorded mtime hides a change
    leaked,         \* history: roots whose token was left behind
    events          \* how much of what MaxEvents bounds has happened

library  == <<root, lastId, avail, based, unfinished>>
scanning == <<token, closing, scan>>
told     == <<drift, blind, leaked>>
svars    == <<there, plugged, library, scanning, watch, told, events>>

\* No root, after some that came and went, and after some events.
ScanFrom(ids, spent) ==
    /\ there = MediaFiles /\ plugged = TRUE
    /\ root = NoRoot /\ lastId = ids /\ events = spent
    /\ avail = [f \in MediaFiles |-> "none"] /\ based = {} /\ unfinished = FALSE
    /\ token = [r \in RootIds |-> Nobody] /\ closing = "no"
    /\ scan = [s \in Scanners |-> NoScan] /\ watch = Unread
    /\ drift = MediaFiles /\ blind = {} /\ leaked = {}

ScanInit == ScanFrom(0, 0)

\* is_scan_generation_current, and with_scan_generation_write around it.
Owns(s)      == token[scan[s].root] = s
MayWrite(s)  == closing = "no" /\ Owns(s)

At(s, place) == scan[s].at = place
Go(s, place) == scan' = [scan EXCEPT ![s].at = place]
\* The call goes on and has no more use for what it has gathered.
Shed(s, place) == scan' = [scan EXCEPT ![s] = NewScan(place, scan[s].root, FALSE)]
\* The call is over.
Over(s)      == scan' = [scan EXCEPT ![s] = NoScan]
\* A root's token is taken away, or stays though its scan ends.
Revoked(r)   == token' = [token EXCEPT ![r] = Nobody] /\ leaked' = leaked \ {r}
LeftBehind(s) == leaked' = IF Owns(s) THEN leaked \cup {scan[s].root} ELSE leaked

----------------------------------------------------------------------------
(* A call of start_scan, up to the walk.                                   *)

\* try_replace_scan_run_token_with_id: the old scan of the root loses its
\* token.  The caller may hold the id of a root that is gone.
StartScan(s, r, q) ==
    /\ At(s, "idle") /\ closing = "no" /\ r \in 1 .. lastId
    /\ token' = [token EXCEPT ![r] = s] /\ leaked' = leaked \ {r}
    /\ scan' = [scan EXCEPT ![s] = NewScan("path", r, q)]
    /\ UNCHANGED <<there, plugged, library, closing, watch, drift, blind>>

\* The path is read in the epoch of the call.
ReadPath(s) ==
    /\ At(s, "path")
    /\ IF closing = "no" /\ ~scan[s].old /\ root.id = scan[s].root
       THEN Go(s, "begin") ELSE Shed(s, "drop")
    /\ UNCHANGED <<there, plugged, library, token, closing, watch, told>>

\* Mutant: a scan that fails keeps its token.
DropsSilently(s) ==
    /\ At(s, "drop") /\ Over(s)
    /\ UNCHANGED <<there, plugged, library, token, closing, watch, told>>

\* cancel_scan_generation after an error: only the call's own token goes.
DropScan(s) ==
    /\ At(s, "drop")
    /\ IF Owns(s) THEN Revoked(scan[s].root) ELSE UNCHANGED <<token, leaked>>
    /\ Over(s)
    /\ UNCHANGED <<there, plugged, library, closing, watch, drift, blind>>

\* Mutant: a quick scan trusts the mtimes an unfinished scan has recorded.
TrustsUnfinished(s) ==
    /\ At(s, "begin")
    /\ IF plugged /\ MayWrite(s)
       THEN /\ unfinished' = TRUE
            /\ scan' = [scan EXCEPT ![s].at = "walk", ![s].quick = FALSE,
                                    ![s].same = IF scan[s].quick THEN based ELSE {}]
       ELSE /\ Shed(s, IF MayWrite(s) THEN "after" ELSE "drop")
            /\ UNCHANGED unfinished
    /\ UNCHANGED <<there, plugged, root, lastId, avail, based, token, closing, watch, told>>

\* A volume that is away is not scanned.  Otherwise the mark of the last scan
\* is read and set again; a quick scan after an unfinished one becomes a full
\* one, any other loads the recorded mtimes.
BeginScan(s) ==
    /\ At(s, "begin")
    /\ IF plugged /\ MayWrite(s)
       THEN /\ unfinished' = TRUE
            /\ scan' = [scan EXCEPT ![s].at = "walk", ![s].quick = FALSE,
                                    ![s].same = IF scan[s].quick /\ ~unfinished THEN based ELSE {}]
       ELSE /\ Shed(s, IF MayWrite(s) THEN "after" ELSE "drop")
            /\ UNCHANGED unfinished
    /\ UNCHANGED <<there, plugged, root, lastId, avail, based, token, closing, watch, told>>

----------------------------------------------------------------------------
(* The walk.                                                               *)

Walking(s) == At(s, "walk") /\ Owns(s)

\* should_prune_dir: every row of a skipped directory counts as seen.
Prunes(s, d) == d \in scan[s].same

EnterDir(s, d) ==
    /\ Walking(s) /\ d \in root.span \ scan[s].passed
    /\ d = "top" \/ "top" \in scan[s].passed \/ "top" \notin root.span
    /\ scan' =
        CASE ~plugged ->
                [scan EXCEPT ![s].err = TRUE,
                             ![s].passed = IF d = "top" THEN root.span ELSE @ \cup {d}]
          [] plugged /\ Prunes(s, d) ->
                [scan EXCEPT ![s].passed = @ \cup {d}, ![s].same = @ \ {d},
                             ![s].seen = @ \cup {f \in FilesIn({d}) : avail[f] # "none"},
                             ![s].touched = IF d \in blind THEN @ \cup FilesIn({d}) ELSE @]
          [] OTHER ->
                [scan EXCEPT ![s].passed = @ \cup {d}, ![s].entered = @ \cup {d},
                             ![s].ahead = @ \cup (there \cap FilesIn({d}))]
    /\ UNCHANGED <<there, plugged, library, token, closing, watch, told>>

\* A listed file is taken up; it may have gone since, before its entry was
\* read or after, and then the walk is not complete.
VisitFile(s, f) ==
    /\ Walking(s) /\ f \in scan[s].ahead
    /\ \/ /\ f \in there /\ plugged
          /\ scan' = [scan EXCEPT ![s].ahead = @ \ {f}, ![s].batch = @ \cup {f}]
       \/ /\ f \notin there \/ ~plugged
          /\ scan' = [scan EXCEPT ![s].ahead = @ \ {f}, ![s].err = TRUE]
       \/ /\ f \notin there
          /\ scan' = [scan EXCEPT ![s].ahead = @ \ {f}]
    /\ UNCHANGED <<there, plugged, library, token, closing, watch, told>>

\* A file that came after its directory was opened may be listed, or not.
MeetFile(s, f) ==
    /\ Walking(s) /\ plugged /\ f \in there /\ DirOf(f) \in scan[s].entered
    /\ f \notin scan[s].ahead \cup scan[s].batch \cup scan[s].seen
    /\ scan' = [scan EXCEPT ![s].batch = @ \cup {f}]
    /\ UNCHANGED <<there, plugged, library, token, closing, watch, told>>

\* The directories of some files and those above them, within the root.
ChainOf(fs) ==
    LET own == {DirOf(f) : f \in fs} IN
    IF "sub" \in own THEN root.span ELSE own

\* prefetch_dir_mtimes: each directory's mtime is read once in a scan, when
\* its first file is about to be committed, some time after it was opened.
PrefetchMtimes(s) ==
    /\ Walking(s) /\ scan[s].batch # {}
    /\ LET now == ChainOf(scan[s].batch) \ scan[s].read IN
       scan' = [scan EXCEPT ![s].at = "commit", ![s].read = @ \cup now,
                            ![s].fresh = @ \cup (IF plugged THEN now ELSE {})]
    /\ UNCHANGED <<there, plugged, library, token, closing, watch, told>>

\* The transaction of a batch: rows, seen marks, mtimes of the directories.
CommitBatch(s) ==
    /\ At(s, "commit")
    /\ IF MayWrite(s)
       THEN LET batch == scan[s].batch
                chain == ChainOf(batch)
                fresh == scan[s].fresh \cap chain IN
            /\ avail' = [f \in MediaFiles |-> IF f \in batch THEN "online" ELSE avail[f]]
            /\ based' = (based \ chain) \cup fresh
            /\ blind' = (blind \ (chain \cap scan[s].entered)) \cup (fresh \cap scan[s].shifted)
            /\ scan' = [scan EXCEPT ![s].at = "walk", ![s].batch = {}, ![s].seen = @ \cup batch]
       ELSE Shed(s, "drop") /\ UNCHANGED <<avail, based, blind>>
    /\ UNCHANGED <<there, plugged, root, lastId, unfinished, token, closing, watch, drift, leaked>>

\* The walker sees that the scan was cancelled.
SeeCancel(s) ==
    /\ At(s, "walk") /\ ~Owns(s)
    /\ Shed(s, "drop")
    /\ UNCHANGED <<there, plugged, library, token, closing, watch, told>>

\* The walk is over; the volume is looked at again before anything is marked.
EndWalk(s) ==
    /\ Walking(s) /\ scan[s].passed = root.span
    /\ scan[s].ahead = {} /\ scan[s].batch = {}
    /\ scan' = [scan EXCEPT ![s] = [NewScan("final", scan[s].root, FALSE) EXCEPT
                    !.seen = scan[s].seen, !.touched = scan[s].touched,
                    !.err = scan[s].err \/ ~plugged]]
    /\ UNCHANGED <<there, plugged, library, token, closing, watch, told>>

----------------------------------------------------------------------------
(* The end of a scan.                                                      *)

\* finalize_scan_root: rows not seen are missing, and the baseline is good,
\* if the walk was complete and the volume is there.
FinalizeScan(s) ==
    /\ At(s, "final")
    /\ IF MayWrite(s) /\ ~scan[s].err
       THEN /\ avail' = [f \in MediaFiles |->
                          IF f \in FilesIn(root.span) \ scan[s].seen /\ avail[f] = "online"
                          THEN "missing" ELSE avail[f]]
            /\ unfinished' = FALSE
            /\ drift' = scan[s].touched \cup (drift \ FilesIn(root.span))
       ELSE UNCHANGED <<avail, unfinished, drift>>
    /\ Shed(s, IF MayWrite(s) THEN "after" ELSE "drop")
    /\ UNCHANGED <<there, plugged, root, lastId, based, token, closing, watch, blind, leaked>>

\* start_scan after the fast scan: enrichment is spawned by the owner only.
AfterScan(s) ==
    /\ At(s, "after")
    /\ IF MayWrite(s)
       THEN Go(s, "enrich") /\ UNCHANGED leaked
       ELSE Over(s) /\ LeftBehind(s)
    /\ UNCHANGED <<there, plugged, library, token, closing, watch, drift, blind>>

\* finish_scan_with_action.
FinishScan(s) ==
    /\ At(s, "enrich")
    /\ IF MayWrite(s)
       THEN Revoked(scan[s].root)
       ELSE LeftBehind(s) /\ UNCHANGED token
    /\ Over(s)
    /\ UNCHANGED <<there, plugged, library, closing, watch, drift, blind>>

\* A panic of the fast scan comes back as an error of the blocking task.
PanicScan(s) ==
    /\ events < MaxEvents /\ events' = events + 1
    /\ scan[s].at \in {"path", "begin", "walk", "commit", "final"}
    /\ Over(s) /\ LeftBehind(s)
    /\ UNCHANGED <<there, plugged, library, token, closing, watch, drift, blind>>

ScanStep(s) ==
    \/ \E r \in RootIds, q \in BOOLEAN : StartScan(s, r, q)
    \/ ReadPath(s) \/ DropScan(s) \/ BeginScan(s)
    \/ \E d \in Dirs : EnterDir(s, d)
    \/ \E f \in MediaFiles : VisitFile(s, f) \/ MeetFile(s, f)
    \/ PrefetchMtimes(s) \/ CommitBatch(s) \/ SeeCancel(s) \/ EndWalk(s)
    \/ FinalizeScan(s) \/ AfterScan(s) \/ FinishScan(s)

----------------------------------------------------------------------------
(* Commands on roots.                                                      *)

\* stop_scan with the id of the present run (any other is ignored), and the
\* first step of relink_scan_root.
StopScan(r) ==
    /\ closing = "no" /\ token[r] # Nobody
    /\ Revoked(r)
    /\ UNCHANGED <<there, plugged, library, closing, scan, watch, drift, blind>>

\* add_scan_root.
AddRoot(span) ==
    /\ closing = "no" /\ root = NoRoot /\ lastId < MaxRoots
    /\ lastId' = lastId + 1 /\ root' = [id |-> lastId + 1, span |-> span]
    /\ UNCHANGED <<there, plugged, avail, based, unfinished, scanning, watch, told>>

\* delete_scan_root with its cascade.  The mark of
\* an unfinished scan stays under an id that is never given again.
Emptied ==
    /\ root' = NoRoot /\ avail' = [f \in MediaFiles |-> "none"]
    /\ based' = {} /\ unfinished' = FALSE
    /\ drift' = MediaFiles /\ blind' = {}

\* remove_scan_root: cancel and delete under the root's gate.
RemoveRoot ==
    /\ closing = "no" /\ root # NoRoot
    /\ Revoked(root.id) /\ Emptied
    /\ UNCHANGED <<there, plugged, lastId, closing, scan, watch>>

\* merge_scan_root_children: a root around the present one takes over its
\* directories and rows, but no mark of an unfinished scan; then the old
\* root's scan is cancelled.
MergeRoot ==
    /\ closing = "no" /\ plugged /\ root.span = {"sub"} /\ lastId < MaxRoots
    /\ lastId' = lastId + 1 /\ root' = [id |-> lastId + 1, span |-> Dirs]
    /\ Revoked(root.id)
    /\ blind' = IF unfinished THEN based ELSE blind
    /\ unfinished' = FALSE
    /\ UNCHANGED <<there, plugged, avail, based, closing, scan, watch, drift>>

\* enter_database_lifecycle_write: writes are refused before the lock is had.
\* The root is removed with options, everything is cleared, or another root
\* or the thumbnail cache is.
Announce(what) ==
    /\ events < MaxEvents /\ events' = events + 1
    /\ closing = "no" /\ (what = "remove" => root # NoRoot)
    /\ closing' = what
    /\ UNCHANGED <<there, plugged, library, token, scan, watch, told>>

\* The lifecycle write itself, in a new epoch.
CloseDown ==
    /\ closing # "no" /\ closing' = "no" /\ watch' = Unread
    /\ scan' = [s \in Scanners |->
                   IF At(s, "path") THEN [scan[s] EXCEPT !.old = TRUE] ELSE scan[s]]
    /\ CASE closing = "remove" -> Emptied /\ Revoked(root.id)
         [] closing = "clear"  ->
                Emptied /\ token' = [r \in RootIds |-> Nobody] /\ leaked' = {}
         [] OTHER -> UNCHANGED <<root, avail, based, unfinished, drift, blind, token, leaked>>
    /\ UNCHANGED <<there, plugged, lastId>>

----------------------------------------------------------------------------
(* The watcher: reconcile_root reads a directory, then writes it if no scan *)
(* runs and the directory has not changed in between.                      *)

WatchRead(d) ==
    /\ watch = Unread /\ closing = "no" /\ plugged /\ d \in root.span
    /\ token[root.id] = Nobody
    /\ watch' = [dir |-> d, files |-> there \cap FilesIn({d}), root |-> root.id, valid |-> TRUE]
    /\ UNCHANGED <<there, plugged, library, scanning, told>>

SnapshotIsCurrent == plugged /\ watch.valid

WatchApply ==
    /\ watch # Unread /\ watch' = Unread
    /\ IF closing = "no" /\ watch.root = root.id /\ token[watch.root] = Nobody /\ SnapshotIsCurrent
       THEN avail' = [f \in MediaFiles |->
                       CASE f \in watch.files -> "online"
                         [] f \in FilesIn({watch.dir}) \ watch.files /\ avail[f] = "online" -> "missing"
                         [] OTHER -> avail[f]]
       ELSE UNCHANGED avail
    /\ UNCHANGED <<there, plugged, root, lastId, based, unfinished, scanning, told>>

----------------------------------------------------------------------------
(* Around the program.                                                     *)

\* A file comes or goes, and its directory's mtime changes.
ChangeDisk(f) ==
    /\ events < MaxEvents /\ events' = events + 1
    /\ there' = IF f \in there THEN there \ {f} ELSE there \cup {f}
    /\ LET d == DirOf(f) IN
       /\ based' = based \ {d}
       /\ scan' = [s \in Scanners |->
                      IF scan[s].at \notin {"walk", "commit", "final"} THEN scan[s] ELSE
                      [scan[s] EXCEPT !.same = @ \ {d}, !.fresh = @ \ {d},
                           !.touched = @ \cup {f},
                           !.shifted = IF d \in scan[s].passed \ scan[s].read
                                       THEN @ \cup {d} ELSE @]]
       /\ watch' = IF watch.dir = d THEN [watch EXCEPT !.valid = FALSE] ELSE watch
    /\ drift' = drift \cup {f} /\ blind' = blind \ {DirOf(f)}
    /\ UNCHANGED <<plugged, root, lastId, avail, unfinished, token, closing, leaked>>

PlugOrUnplug ==
    /\ events < MaxEvents /\ events' = events + 1
    /\ plugged' = ~plugged
    /\ UNCHANGED <<there, library, scanning, watch, told>>

\* The process dies; only the database remains.
KillScans ==
    /\ events < MaxEvents /\ events' = events + 1
    /\ token' = [r \in RootIds |-> Nobody] /\ closing' = "no"
    /\ scan' = [s \in Scanners |-> NoScan]
    /\ watch' = Unread /\ leaked' = {}
    /\ UNCHANGED <<there, plugged, library, drift, blind>>

Commands ==
    \/ \E r \in RootIds : StopScan(r)
    \/ \E span \in Spans : AddRoot(span)
    \/ RemoveRoot \/ MergeRoot \/ CloseDown
Watcher == WatchApply \/ \E d \in Dirs : WatchRead(d)
Events ==
    \/ \E what \in {"other", "remove", "clear"} : Announce(what)
    \/ PlugOrUnplug \/ KillScans
    \/ \E f \in MediaFiles : ChangeDisk(f)
    \/ \E s \in Scanners : PanicScan(s)

ScanNext ==
    \/ (Commands \/ Watcher \/ \E s \in Scanners : ScanStep(s)) /\ UNCHANGED events
    \/ Events
ScanSpec == ScanInit /\ [][ScanNext]_svars

----------------------------------------------------------------------------
(* Properties.                                                             *)

\* Every variable keeps its type.
ScanTypeOK ==
    /\ there \subseteq MediaFiles /\ plugged \in BOOLEAN
    /\ root \in {NoRoot} \cup [id : RootIds, span : Spans] /\ lastId \in 0 .. MaxRoots
    /\ avail \in [MediaFiles -> {"none", "online", "missing"}]
    /\ based \subseteq Dirs /\ unfinished \in BOOLEAN
    /\ token \in [RootIds -> Scanners \cup {Nobody}]
    /\ closing \in {"no", "other", "remove", "clear"}
    /\ \A s \in Scanners : scan[s].at \in ScanPlaces /\ scan[s].root \in 0 .. MaxRoots
    /\ watch.dir \in Dirs \cup {"none"} /\ watch.root \in 0 .. MaxRoots
    /\ drift \subseteq MediaFiles /\ blind \subseteq Dirs /\ leaked \subseteq RootIds

\* A file that has not come or gone since the last finished scan of its root
\* began is indexed exactly if it is there: no scan that was overtaken,
\* stopped, killed or cut off by an unplugged volume, quick or full, and no
\* late write of the watcher shows a file that is gone, loses one that is
\* there or marks it missing (finalize_scan_root, with_scan_generation_write,
\* QuickDirPruner).  Exception, by way of drift: what a quick scan skips in a
\* directory of blind.  An mtime is recorded as it is when a first file of the
\* directory, or below it, is about to be committed; what has changed since
\* the directory was listed or skipped is then in no listing, and the next
\* quick scan skips it.
IndexIsTrue ==
    root # NoRoot =>
        \A f \in FilesIn(root.span) \ drift : (avail[f] = "online") = (f \in there)

\* A root that counts as being scanned is being scanned: the watcher, moves of
\* directories and the pipelines wait for nothing (finish_scan_with_action,
\* cancel_scan_generation).  Exception, in leaked: a fast scan that panics, and
\* a scan that ends between the announcement of a lifecycle write and its end.
BlockersHaveWorkers ==
    \A r \in RootIds \ leaked :
        token[r] # Nobody => scan[token[r]].root = r /\ ~At(token[r], "idle")
=============================================================================
