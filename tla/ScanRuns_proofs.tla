---------------------------- MODULE ScanRuns_proofs ----------------------------
(***************************************************************************)
(* What is proved of ScanRuns for all scanners, files and bounds.          *)
(***************************************************************************)
EXTENDS ScanRuns, TLAPS

----------------------------------------------------------------------------
(* Types.                                                                  *)

ScanRecord ==
    [at : ScanPlaces, root : 0 .. MaxRoots, quick : BOOLEAN, old : BOOLEAN,
     same : SUBSET Dirs, passed : SUBSET Dirs, entered : SUBSET Dirs,
     ahead : SUBSET MediaFiles, batch : SUBSET MediaFiles, seen : SUBSET MediaFiles,
     read : SUBSET Dirs, fresh : SUBSET Dirs, err : BOOLEAN,
     touched : SUBSET MediaFiles, shifted : SUBSET Dirs]

WatchRecord ==
    [dir : Dirs \cup {"none"}, files : SUBSET MediaFiles, root : 0 .. MaxRoots, valid : BOOLEAN]

\* Only a call that is over, and a watcher at rest, have no root.
ScanTyped ==
    /\ ScanTypeOK
    /\ scan \in [Scanners -> ScanRecord] /\ watch \in WatchRecord
    /\ \A s \in Scanners : ~At(s, "idle") => scan[s].root \in RootIds
    /\ watch # Unread => watch.root \in RootIds

Calls == [Scanners -> ScanRecord]

LEMMA ModelFacts ==
    /\ Nobody \notin Scanners /\ MaxRoots \in Nat \ {0} /\ MaxEvents \in Nat
    /\ RootIds \subseteq 0 .. MaxRoots /\ 0 \notin RootIds
    /\ \A span \in Spans : span \subseteq Dirs
    /\ NoRoot.id = 0 /\ NoRoot.span = {} /\ Unread \in WatchRecord /\ ~Unread.valid
    /\ \A f \in MediaFiles : DirOf(f) \in Dirs
BY ScanAssumption DEF RootIds, Spans, Dirs, NoRoot, Unread, WatchRecord, DirOf

LEMMA FilesOfDirs ==
    \A ds, f : f \in FilesIn(ds) <=> f \in MediaFiles /\ DirOf(f) \in ds
BY DEF FilesIn

LEMMA NewScanFacts ==
    ASSUME NEW place \in ScanPlaces, NEW r \in 0 .. MaxRoots, NEW q \in BOOLEAN
    PROVE  LET c == NewScan(place, r, q) IN
           /\ c \in ScanRecord /\ c.at = place /\ c.root = r /\ c.quick = q
           /\ c.same = {} /\ c.passed = {} /\ c.entered = {} /\ c.ahead = {} /\ c.batch = {}
           /\ c.seen = {} /\ c.read = {} /\ c.fresh = {} /\ c.err = FALSE
           /\ c.touched = {} /\ c.shifted = {}
BY DEF NewScan, ScanRecord

LEMMA NoScanFacts == NoScan \in ScanRecord /\ NoScan.at = "idle"
<1>1. "idle" \in ScanPlaces /\ 0 \in 0 .. MaxRoots
    BY ModelFacts DEF ScanPlaces
<1> QED BY <1>1, NewScanFacts DEF NoScan

\* One call changes, the others do not.
LEMMA OneCall ==
    ASSUME scan \in Calls, NEW s \in Scanners, NEW c \in ScanRecord,
           scan' = [scan EXCEPT ![s] = c]
    PROVE  scan' \in Calls /\ scan'[s] = c /\ \A u \in Scanners \ {s} : scan'[u] = scan[u]
BY DEF Calls

LEMMA GoFacts ==
    ASSUME scan \in Calls, NEW s \in Scanners, NEW place \in ScanPlaces, Go(s, place)
    PROVE  /\ scan' \in Calls /\ \A u \in Scanners \ {s} : scan'[u] = scan[u]
           /\ scan'[s] = [scan[s] EXCEPT !.at = place]
           /\ scan'[s].at = place /\ scan'[s].root = scan[s].root
BY DEF Calls, Go, ScanRecord

LEMMA ShedFacts ==
    ASSUME scan \in Calls, NEW s \in Scanners, NEW place \in ScanPlaces, Shed(s, place)
    PROVE  /\ scan' \in Calls /\ \A u \in Scanners \ {s} : scan'[u] = scan[u]
           /\ scan'[s].at = place /\ scan'[s].root = scan[s].root
<1>1. scan[s].root \in 0 .. MaxRoots
    BY DEF Calls, ScanRecord
<1> DEFINE n == NewScan(place, scan[s].root, FALSE)
<1>2. n \in ScanRecord /\ n.at = place /\ n.root = scan[s].root
    BY <1>1, NewScanFacts
<1>3. scan' = [scan EXCEPT ![s] = n]
    BY DEF Shed
<1> HIDE DEF n
<1> QED BY <1>2, <1>3, OneCall

LEMMA OverFacts ==
    ASSUME scan \in Calls, NEW s \in Scanners, Over(s)
    PROVE  /\ scan' \in Calls /\ \A u \in Scanners \ {s} : scan'[u] = scan[u]
           /\ scan'[s].at = "idle"
BY NoScanFacts, OneCall DEF Over

\* The steps of the walk, field by field.
LEMMA EnterFacts ==
    ASSUME ScanTyped, NEW s \in Scanners, NEW d \in Dirs, EnterDir(s, d)
    PROVE  /\ scan' \in Calls /\ \A u \in Scanners \ {s} : scan'[u] = scan[u]
           /\ LET c == scan[s]
                  n == scan'[s] IN
              /\ n.at = "walk" /\ n.root = c.root /\ n.batch = c.batch /\ n.read = c.read
              /\ n.fresh = c.fresh /\ n.shifted = c.shifted
              /\ ~plugged => n.err
              /\ ~plugged => /\ n.passed = IF d = "top" THEN root.span ELSE c.passed \cup {d}
                             /\ n.entered = c.entered /\ n.ahead = c.ahead /\ n.seen = c.seen
                             /\ n.same = c.same
              /\ plugged => n.err = c.err /\ n.passed = c.passed \cup {d}
              /\ plugged /\ d \in c.same =>
                     /\ n.entered = c.entered /\ n.ahead = c.ahead /\ n.same = c.same \ {d}
                     /\ \A f : f \in n.seen <=>
                            f \in c.seen \/ (f \in MediaFiles /\ DirOf(f) = d /\ avail[f] # "none")
                     /\ \A f \in MediaFiles : f \in n.touched <=>
                            f \in c.touched \/ (d \in blind /\ DirOf(f) = d)
              /\ plugged /\ d \notin c.same =>
                     /\ n.entered = c.entered \cup {d} /\ n.same = c.same /\ n.seen = c.seen
                     /\ n.touched = c.touched
                     /\ \A f : f \in n.ahead <=>
                            f \in c.ahead \/ (f \in MediaFiles /\ f \in there /\ DirOf(f) = d)
<1> DEFINE c == scan[s]
<1>0. scan \in Calls /\ c \in ScanRecord /\ c.at = "walk" /\ root.span \subseteq Dirs
    BY ModelFacts DEF ScanTyped, ScanTypeOK, EnterDir, Walking, At, Calls
<1>1. CASE ~plugged
    <2> DEFINE n == [c EXCEPT !.err = TRUE,
                              !.passed = IF d = "top" THEN root.span ELSE @ \cup {d}]
    <2>1. n \in ScanRecord
        BY <1>0 DEF ScanRecord
    <2>2. scan' = [scan EXCEPT ![s] = n]
        BY <1>0, <1>1 DEF EnterDir, Calls
    <2>3. /\ scan' \in Calls /\ scan'[s] = n /\ \A u \in Scanners \ {s} : scan'[u] = scan[u]
        <3> HIDE DEF n
        <3> QED BY <1>0, <2>1, <2>2, OneCall
    <2> QED BY <1>0, <1>1, <2>3, ZenonT(40) DEF ScanRecord
<1>2. CASE plugged /\ d \in c.same
    <2> DEFINE n == [c EXCEPT !.passed = @ \cup {d}, !.same = @ \ {d},
                              !.seen = @ \cup {f \in FilesIn({d}) : avail[f] # "none"},
                              !.touched = IF d \in blind THEN @ \cup FilesIn({d}) ELSE @]
    <2>1. n \in ScanRecord
        BY <1>0 DEF ScanRecord, FilesIn
    <2>2. scan' = [scan EXCEPT ![s] = n]
        BY <1>0, <1>2 DEF EnterDir, Prunes, Calls
    <2>3. /\ scan' \in Calls /\ scan'[s] = n /\ \A u \in Scanners \ {s} : scan'[u] = scan[u]
        <3> HIDE DEF n
        <3> QED BY <1>0, <2>1, <2>2, OneCall
    <2>4. /\ n.at = "walk" /\ n.root = c.root /\ n.batch = c.batch /\ n.read = c.read
          /\ n.fresh = c.fresh /\ n.shifted = c.shifted /\ n.err = c.err
          /\ n.passed = c.passed \cup {d} /\ n.entered = c.entered /\ n.ahead = c.ahead
          /\ n.same = c.same \ {d}
          /\ n.seen = c.seen \cup {f \in FilesIn({d}) : avail[f] # "none"}
          /\ n.touched = IF d \in blind THEN c.touched \cup FilesIn({d}) ELSE c.touched
        BY <1>0 DEF ScanRecord
    <2>5. /\ \A f : f \in n.seen <=>
                f \in c.seen \/ (f \in MediaFiles /\ DirOf(f) = d /\ avail[f] # "none")
          /\ \A f \in MediaFiles : f \in n.touched <=>
                f \in c.touched \/ (d \in blind /\ DirOf(f) = d)
        <3> HIDE DEF n
        <3> QED BY <2>4, FilesOfDirs
    <2> HIDE DEF n
    <2> QED BY <1>2, <2>3, <2>4, <2>5
<1>3. CASE plugged /\ d \notin c.same
    <2> DEFINE n == [c EXCEPT !.passed = @ \cup {d}, !.entered = @ \cup {d},
                              !.ahead = @ \cup (there \cap FilesIn({d}))]
    <2>1. n \in ScanRecord
        BY <1>0 DEF ScanRecord, FilesIn
    <2>2. scan' = [scan EXCEPT ![s] = n]
        BY <1>0, <1>3 DEF EnterDir, Prunes, Calls
    <2>3. /\ scan' \in Calls /\ scan'[s] = n /\ \A u \in Scanners \ {s} : scan'[u] = scan[u]
        <3> HIDE DEF n
        <3> QED BY <1>0, <2>1, <2>2, OneCall
    <2>4. /\ n.at = "walk" /\ n.root = c.root /\ n.batch = c.batch /\ n.read = c.read
          /\ n.fresh = c.fresh /\ n.shifted = c.shifted /\ n.err = c.err
          /\ n.passed = c.passed \cup {d} /\ n.entered = c.entered \cup {d} /\ n.seen = c.seen
          /\ n.same = c.same /\ n.touched = c.touched
          /\ n.ahead = c.ahead \cup (there \cap FilesIn({d}))
        BY <1>0 DEF ScanRecord
    <2>5. \A f : f \in n.ahead <=>
                f \in c.ahead \/ (f \in MediaFiles /\ f \in there /\ DirOf(f) = d)
        <3> HIDE DEF n
        <3> QED BY <2>4, FilesOfDirs
    <2> HIDE DEF n
    <2> QED BY <1>3, <2>3, <2>4, <2>5
<1> QED BY <1>1, <1>2, <1>3

LEMMA StartFacts ==
    ASSUME ScanTyped, NEW s \in Scanners, NEW r \in RootIds, NEW q \in BOOLEAN, StartScan(s, r, q)
    PROVE  /\ scan' \in Calls /\ \A u \in Scanners \ {s} : scan'[u] = scan[u]
           /\ scan'[s].at = "path" /\ scan'[s].root = r
           /\ LET n == scan'[s] IN
              /\ n.passed = {} /\ n.entered = {} /\ n.ahead = {} /\ n.batch = {}
              /\ n.seen = {} /\ n.read = {} /\ n.fresh = {} /\ n.shifted = {}
<1> DEFINE n == NewScan("path", r, q)
<1>1. scan' = [scan EXCEPT ![s] = n] /\ scan \in Calls
    BY DEF StartScan, ScanTyped, Calls
<1>2. /\ n \in ScanRecord /\ n.at = "path" /\ n.root = r
      /\ n.passed = {} /\ n.entered = {} /\ n.ahead = {} /\ n.batch = {}
      /\ n.seen = {} /\ n.read = {} /\ n.fresh = {} /\ n.shifted = {}
    <2>1. "path" \in ScanPlaces /\ r \in 0 .. MaxRoots
        BY ModelFacts DEF ScanPlaces
    <2> QED BY <2>1 DEF NewScan, ScanRecord
<1> HIDE DEF n
<1> QED BY <1>1, <1>2, OneCall

LEMMA BeginFacts ==
    ASSUME ScanTyped, NEW s \in Scanners, BeginScan(s)
    PROVE  /\ scan' \in Calls /\ \A u \in Scanners \ {s} : scan'[u] = scan[u]
           /\ scan'[s].root = scan[s].root
           /\ ~(plugged /\ MayWrite(s)) => scan'[s].at \in {"after", "drop"} /\ UNCHANGED unfinished
           /\ plugged /\ MayWrite(s) =>
                  /\ unfinished' = TRUE /\ scan'[s].at = "walk"
                  /\ scan'[s].same = IF scan[s].quick /\ ~unfinished THEN based ELSE {}
                  /\ LET c == scan[s]
                         n == scan'[s] IN
                     /\ n.passed = c.passed /\ n.entered = c.entered /\ n.ahead = c.ahead
                     /\ n.batch = c.batch /\ n.seen = c.seen /\ n.read = c.read
                     /\ n.fresh = c.fresh /\ n.err = c.err /\ n.shifted = c.shifted
<1> DEFINE c == scan[s]
<1>0. scan \in Calls /\ c \in ScanRecord /\ based \subseteq Dirs
    BY DEF ScanTyped, ScanTypeOK, Calls
<1>1. CASE ~(plugged /\ MayWrite(s))
    <2>1. PICK place \in {"after", "drop"} : Shed(s, place)
        BY <1>1 DEF BeginScan
    <2>2. place \in ScanPlaces
        BY DEF ScanPlaces
    <2> QED BY <1>0, <1>1, <2>1, <2>2, ShedFacts DEF BeginScan
<1>2. CASE plugged /\ MayWrite(s)
    <2> DEFINE n == [c EXCEPT !.at = "walk", !.quick = FALSE,
                              !.same = IF c.quick /\ ~unfinished THEN based ELSE {}]
    <2>1. n \in ScanRecord
        BY <1>0 DEF ScanRecord, ScanPlaces
    <2>2. scan' = [scan EXCEPT ![s] = n] /\ unfinished' = TRUE
        BY <1>0, <1>2 DEF BeginScan, Calls
    <2>3. /\ scan' \in Calls /\ scan'[s] = n /\ \A u \in Scanners \ {s} : scan'[u] = scan[u]
        <3> HIDE DEF n
        <3> QED BY <1>0, <2>1, <2>2, OneCall
    <2>4. /\ n.root = c.root /\ n.at = "walk"
          /\ n.same = IF c.quick /\ ~unfinished THEN based ELSE {}
          /\ n.passed = c.passed /\ n.entered = c.entered /\ n.ahead = c.ahead
          /\ n.batch = c.batch /\ n.seen = c.seen /\ n.read = c.read
          /\ n.fresh = c.fresh /\ n.err = c.err /\ n.shifted = c.shifted
        BY <1>0 DEF ScanRecord
    <2> HIDE DEF n
    <2> QED BY <1>2, <2>2, <2>3, <2>4
<1> QED BY <1>1, <1>2

\* VisitFile and MeetFile move files between ahead and batch, or give up.
LEMMA FileFacts ==
    ASSUME ScanTyped, NEW s \in Scanners, NEW f \in MediaFiles, VisitFile(s, f) \/ MeetFile(s, f)
    PROVE  /\ scan' \in Calls /\ \A u \in Scanners \ {s} : scan'[u] = scan[u]
           /\ LET c == scan[s]
                  n == scan'[s] IN
              /\ n.at = "walk" /\ n.root = c.root /\ n.same = c.same /\ n.passed = c.passed
              /\ n.entered = c.entered /\ n.seen = c.seen /\ n.read = c.read /\ n.fresh = c.fresh
              /\ n.touched = c.touched /\ n.shifted = c.shifted
              /\ c.err => n.err
              /\ \/ f \in there /\ f \in c.ahead /\ n.ahead = c.ahead \ {f}
                    /\ n.batch = c.batch \cup {f}
                 \/ n.err /\ n.ahead = c.ahead \ {f} /\ n.batch = c.batch
                 \/ f \notin there /\ n.ahead = c.ahead \ {f} /\ n.batch = c.batch
                 \/ /\ f \in there /\ DirOf(f) \in c.entered
                    /\ n.ahead = c.ahead /\ n.batch = c.batch \cup {f}
<1> DEFINE c == scan[s]
<1>0. scan \in Calls /\ c \in ScanRecord /\ c.at = "walk"
    BY DEF ScanTyped, ScanTypeOK, VisitFile, MeetFile, Walking, At, Calls
<1>1. CASE VisitFile(s, f) /\ f \in there /\ scan' = [scan EXCEPT ![s].ahead = @ \ {f}, ![s].batch = @ \cup {f}]
    <2> DEFINE n == [c EXCEPT !.ahead = @ \ {f}, !.batch = @ \cup {f}]
    <2>1. n \in ScanRecord
        BY <1>0 DEF ScanRecord
    <2>2. scan' = [scan EXCEPT ![s] = n] /\ f \in c.ahead
        BY <1>0, <1>1 DEF VisitFile, Calls
    <2>3. /\ scan' \in Calls /\ scan'[s] = n /\ \A u \in Scanners \ {s} : scan'[u] = scan[u]
        <3> HIDE DEF n
        <3> QED BY <1>0, <2>1, <2>2, OneCall
    <2> QED BY <1>0, <1>1, <2>2, <2>3 DEF ScanRecord
<1>2. CASE VisitFile(s, f) /\ scan' = [scan EXCEPT ![s].ahead = @ \ {f}, ![s].err = TRUE]
    <2> DEFINE n == [c EXCEPT !.ahead = @ \ {f}, !.err = TRUE]
    <2>1. n \in ScanRecord
        BY <1>0 DEF ScanRecord
    <2>2. scan' = [scan EXCEPT ![s] = n]
        BY <1>0, <1>2 DEF Calls
    <2>3. /\ scan' \in Calls /\ scan'[s] = n /\ \A u \in Scanners \ {s} : scan'[u] = scan[u]
        <3> HIDE DEF n
        <3> QED BY <1>0, <2>1, <2>2, OneCall
    <2> QED BY <1>0, <2>3 DEF ScanRecord
<1>3. CASE VisitFile(s, f) /\ f \notin there /\ scan' = [scan EXCEPT ![s].ahead = @ \ {f}]
    <2> DEFINE n == [c EXCEPT !.ahead = @ \ {f}]
    <2>1. n \in ScanRecord
        BY <1>0 DEF ScanRecord
    <2>2. scan' = [scan EXCEPT ![s] = n]
        BY <1>0, <1>3 DEF Calls
    <2>3. /\ scan' \in Calls /\ scan'[s] = n /\ \A u \in Scanners \ {s} : scan'[u] = scan[u]
        <3> HIDE DEF n
        <3> QED BY <1>0, <2>1, <2>2, OneCall
    <2> QED BY <1>0, <1>3, <2>3 DEF ScanRecord
<1>4. CASE MeetFile(s, f)
    <2> DEFINE n == [c EXCEPT !.batch = @ \cup {f}]
    <2>1. n \in ScanRecord
        BY <1>0 DEF ScanRecord
    <2>2. scan' = [scan EXCEPT ![s] = n] /\ f \in there /\ DirOf(f) \in c.entered
        BY <1>0, <1>4 DEF MeetFile, Calls
    <2>3. /\ scan' \in Calls /\ scan'[s] = n /\ \A u \in Scanners \ {s} : scan'[u] = scan[u]
        <3> HIDE DEF n
        <3> QED BY <1>0, <2>1, <2>2, OneCall
    <2> QED BY <1>0, <2>2, <2>3 DEF ScanRecord
<1> QED BY <1>1, <1>2, <1>3, <1>4 DEF VisitFile

LEMMA ChainFacts ==
    ASSUME ScanTyped, NEW fs \in SUBSET MediaFiles
    PROVE  ChainOf(fs) \subseteq Dirs
BY ModelFacts DEF ScanTyped, ScanTypeOK, ChainOf

LEMMA PrefetchFacts ==
    ASSUME ScanTyped, NEW s \in Scanners, PrefetchMtimes(s)
    PROVE  /\ scan' \in Calls /\ \A u \in Scanners \ {s} : scan'[u] = scan[u]
           /\ LET c == scan[s]
                  n == scan'[s]
                  now == ChainOf(c.batch) \ c.read IN
              /\ c.at = "walk" /\ n.at = "commit" /\ n.root = c.root /\ n.same = c.same
              /\ n.passed = c.passed /\ n.entered = c.entered /\ n.ahead = c.ahead
              /\ n.batch = c.batch /\ n.seen = c.seen /\ n.err = c.err
              /\ n.touched = c.touched /\ n.shifted = c.shifted
              /\ n.read = c.read \cup now
              /\ n.fresh = c.fresh \cup (IF plugged THEN now ELSE {})
<1> DEFINE c == scan[s]
           now == ChainOf(c.batch) \ c.read
           n == [c EXCEPT !.at = "commit", !.read = @ \cup now,
                          !.fresh = @ \cup (IF plugged THEN now ELSE {})]
<1>0. scan \in Calls /\ c \in ScanRecord /\ c.at = "walk"
    BY DEF ScanTyped, ScanTypeOK, PrefetchMtimes, Walking, At, Calls
<1>1. now \subseteq Dirs
    BY <1>0, ChainFacts DEF ScanRecord
<1>2. scan' = [scan EXCEPT ![s] = n]
    BY <1>0 DEF PrefetchMtimes, Calls
<1> HIDE DEF now
<1>3. n \in ScanRecord
    BY <1>0, <1>1 DEF ScanRecord, ScanPlaces
<1>4. /\ scan' \in Calls /\ scan'[s] = n /\ \A u \in Scanners \ {s} : scan'[u] = scan[u]
    <2> HIDE DEF n
    <2> QED BY <1>0, <1>2, <1>3, OneCall
<1>5. /\ n.at = "commit" /\ n.root = c.root /\ n.same = c.same
      /\ n.passed = c.passed /\ n.entered = c.entered /\ n.ahead = c.ahead
      /\ n.batch = c.batch /\ n.seen = c.seen /\ n.err = c.err
      /\ n.touched = c.touched /\ n.shifted = c.shifted
      /\ n.read = c.read \cup now
      /\ n.fresh = c.fresh \cup (IF plugged THEN now ELSE {})
    BY <1>0 DEF ScanRecord
<1> QED BY <1>0, <1>4, <1>5 DEF now

LEMMA CommitFacts ==
    ASSUME ScanTyped, NEW s \in Scanners, CommitBatch(s)
    PROVE  /\ scan' \in Calls /\ \A u \in Scanners \ {s} : scan'[u] = scan[u]
           /\ scan[s].at = "commit" /\ scan'[s].root = scan[s].root
           /\ ~MayWrite(s) => scan'[s].at = "drop" /\ UNCHANGED <<avail, based, blind>>
           /\ MayWrite(s) =>
              LET c == scan[s]
                  n == scan'[s] IN
              /\ n.at = "walk" /\ n.same = c.same /\ n.passed = c.passed /\ n.entered = c.entered
              /\ n.ahead = c.ahead /\ n.batch = {} /\ n.seen = c.seen \cup c.batch
              /\ n.read = c.read /\ n.fresh = c.fresh /\ n.err = c.err
              /\ n.touched = c.touched /\ n.shifted = c.shifted
<1> DEFINE c == scan[s]
<1>0. scan \in Calls /\ c \in ScanRecord /\ c.at = "commit"
    BY DEF ScanTyped, ScanTypeOK, CommitBatch, At, Calls
<1>1. CASE ~MayWrite(s)
    <2>1. Shed(s, "drop") /\ "drop" \in ScanPlaces
        BY <1>1 DEF CommitBatch, ScanPlaces
    <2> QED BY <1>0, <1>1, <2>1, ShedFacts DEF CommitBatch
<1>2. CASE MayWrite(s)
    <2> DEFINE n == [c EXCEPT !.at = "walk", !.batch = {}, !.seen = @ \cup c.batch]
    <2>1. n \in ScanRecord
        BY <1>0 DEF ScanRecord, ScanPlaces
    <2>2. scan' = [scan EXCEPT ![s] = n]
        BY <1>0, <1>2 DEF CommitBatch, Calls
    <2>3. /\ scan' \in Calls /\ scan'[s] = n /\ \A u \in Scanners \ {s} : scan'[u] = scan[u]
        <3> HIDE DEF n
        <3> QED BY <1>0, <2>1, <2>2, OneCall
    <2> QED BY <1>0, <1>2, <2>3 DEF ScanRecord
<1> QED BY <1>1, <1>2

LEMMA EndFacts ==
    ASSUME ScanTyped, NEW s \in Scanners, EndWalk(s)
    PROVE  /\ scan' \in Calls /\ \A u \in Scanners \ {s} : scan'[u] = scan[u]
           /\ scan'[s].at = "final" /\ scan'[s].root = scan[s].root
           /\ scan'[s].seen = scan[s].seen /\ scan'[s].touched = scan[s].touched
           /\ scan'[s].err = (scan[s].err \/ ~plugged)
<1> DEFINE c == scan[s]
           m == NewScan("final", c.root, FALSE)
           n == [m EXCEPT !.seen = c.seen, !.touched = c.touched, !.err = c.err \/ ~plugged]
<1>0. scan \in Calls /\ c \in ScanRecord /\ plugged \in BOOLEAN
    BY DEF ScanTyped, ScanTypeOK, Calls
<1>1. m \in ScanRecord /\ m.at = "final" /\ m.root = c.root
    <2>1. c.root \in 0 .. MaxRoots /\ "final" \in ScanPlaces
        BY <1>0 DEF ScanRecord, ScanPlaces
    <2> QED BY <2>1, NewScanFacts
<1>2. scan' = [scan EXCEPT ![s] = n]
    BY DEF EndWalk
<1> HIDE DEF m
<1>3. (c.err \/ ~plugged) \in BOOLEAN /\ c.seen \in SUBSET MediaFiles /\ c.touched \in SUBSET MediaFiles
    BY <1>0 DEF ScanRecord
<1>4. /\ n \in ScanRecord /\ n.at = "final" /\ n.root = c.root /\ n.seen = c.seen
      /\ n.touched = c.touched /\ n.err = (c.err \/ ~plugged)
    BY <1>1, <1>3 DEF ScanRecord
<1> HIDE DEF n
<1> QED BY <1>0, <1>2, <1>4, OneCall

\* A change on disk, as the calls learn of it.
LEMMA ChangeFacts ==
    ASSUME ScanTyped, NEW f \in MediaFiles, ChangeDisk(f)
    PROVE  /\ scan' \in Calls
           /\ \A s \in Scanners :
                 LET c == scan[s]
                     n == scan'[s]
                     d == DirOf(f) IN
                 /\ n.at = c.at /\ n.root = c.root /\ n.quick = c.quick /\ n.old = c.old
                 /\ n.passed = c.passed /\ n.entered = c.entered /\ n.ahead = c.ahead
                 /\ n.batch = c.batch /\ n.seen = c.seen /\ n.read = c.read /\ n.err = c.err
                 /\ c.at \notin {"walk", "commit", "final"} => n = c
                 /\ c.at \in {"walk", "commit", "final"} =>
                        /\ n.same = c.same \ {d} /\ n.fresh = c.fresh \ {d}
                        /\ n.touched = c.touched \cup {f}
                        /\ n.shifted = IF d \in c.passed \ c.read THEN c.shifted \cup {d}
                                       ELSE c.shifted
<1> DEFINE d == DirOf(f)
<1>0. scan \in Calls /\ d \in Dirs
    BY ModelFacts DEF ScanTyped, ScanTypeOK, Calls
<1>1. scan' = [s \in Scanners |->
                  IF scan[s].at \notin {"walk", "commit", "final"} THEN scan[s] ELSE
                  [scan[s] EXCEPT !.same = @ \ {d}, !.fresh = @ \ {d}, !.touched = @ \cup {f},
                        !.shifted = IF d \in scan[s].passed \ scan[s].read
                                    THEN @ \cup {d} ELSE @]]
    BY DEF ChangeDisk
<1> HIDE DEF d
<1>2. ASSUME NEW s \in Scanners, scan[s].at \in {"walk", "commit", "final"}
      PROVE  LET c == scan[s]
                 n == scan'[s] IN
             /\ n \in ScanRecord
             /\ n.at = c.at /\ n.root = c.root /\ n.quick = c.quick /\ n.old = c.old
             /\ n.passed = c.passed /\ n.entered = c.entered /\ n.ahead = c.ahead
             /\ n.batch = c.batch /\ n.seen = c.seen /\ n.read = c.read /\ n.err = c.err
             /\ n.same = c.same \ {d} /\ n.fresh = c.fresh \ {d} /\ n.touched = c.touched \cup {f}
             /\ n.shifted = IF d \in c.passed \ c.read THEN c.shifted \cup {d} ELSE c.shifted
    <2>1. scan[s] \in ScanRecord
        BY <1>0 DEF Calls
    <2>2. scan'[s] = [scan[s] EXCEPT !.same = @ \ {d}, !.fresh = @ \ {d},
                        !.touched = @ \cup {f},
                        !.shifted = IF d \in scan[s].passed \ scan[s].read
                                    THEN @ \cup {d} ELSE @]
        BY <1>1, <1>2
    <2> DEFINE shifted == IF d \in scan[s].passed \ scan[s].read THEN scan[s].shifted \cup {d}
                          ELSE scan[s].shifted
               n == [scan[s] EXCEPT !.same = @ \ {d}, !.fresh = @ \ {d},
                                    !.touched = @ \cup {f}, !.shifted = shifted]
    <2>3. scan'[s] = n
        BY <2>2
    <2>4. shifted \in SUBSET Dirs
        BY <1>0, <2>1 DEF ScanRecord
    <2> HIDE DEF shifted
    <2>5. n \in ScanRecord
        BY <1>0, <2>1, <2>4 DEF ScanRecord
    <2>6. LET c == scan[s] IN
          /\ n.at = c.at /\ n.root = c.root /\ n.quick = c.quick /\ n.old = c.old
          /\ n.passed = c.passed /\ n.entered = c.entered /\ n.ahead = c.ahead
          /\ n.batch = c.batch /\ n.seen = c.seen /\ n.read = c.read /\ n.err = c.err
          /\ n.same = c.same \ {d} /\ n.fresh = c.fresh \ {d}
          /\ n.touched = c.touched \cup {f} /\ n.shifted = shifted
        BY <2>1 DEF ScanRecord
    <2> HIDE DEF n
    <2> QED BY <2>3, <2>5, <2>6 DEF shifted
<1>3. ASSUME NEW s \in Scanners, scan[s].at \notin {"walk", "commit", "final"}
      PROVE  scan'[s] = scan[s] /\ scan[s] \in ScanRecord
    BY <1>0, <1>1, <1>3 DEF Calls
<1>4. scan' \in Calls
    <2>1. \A s \in Scanners : scan'[s] \in ScanRecord
        BY <1>2, <1>3
    <2>2. scan' = [s \in Scanners |-> scan'[s]]
        BY <1>1
    <2> QED BY <2>1, <2>2 DEF Calls
<1> QED BY <1>2, <1>3, <1>4 DEF d

\* The parts of the type: the calls, and all else.
CallsTyped == scan \in Calls /\ \A s \in Scanners : ~At(s, "idle") => scan[s].root \in RootIds

RestTyped ==
    /\ there \subseteq MediaFiles /\ plugged \in BOOLEAN
    /\ root \in {NoRoot} \cup [id : RootIds, span : Spans] /\ lastId \in 0 .. MaxRoots
    /\ avail \in [MediaFiles -> {"none", "online", "missing"}]
    /\ based \subseteq Dirs /\ unfinished \in BOOLEAN
    /\ token \in [RootIds -> Scanners \cup {Nobody}]
    /\ closing \in {"no", "other", "remove", "clear"}
    /\ watch \in WatchRecord /\ (watch # Unread => watch.root \in RootIds)
    /\ drift \subseteq MediaFiles /\ blind \subseteq Dirs /\ leaked \subseteq RootIds

LEMMA TypedParts ==
    /\ ScanTyped <=> CallsTyped /\ RestTyped
    /\ ScanTyped' <=> CallsTyped' /\ RestTyped'
BY DEF ScanTyped, ScanTypeOK, CallsTyped, RestTyped, Calls, ScanRecord, WatchRecord

LEMMA CallTyped ==
    ASSUME CallsTyped, NEW s \in Scanners, scan' \in Calls,
           \A u \in Scanners \ {s} : scan'[u] = scan[u],
           scan'[s].at # "idle" => scan'[s].root \in RootIds
    PROVE  CallsTyped'
BY DEF CallsTyped, At

\* What the writes of a root's rows, and of its tokens, keep.
LEMMA TokenTyped ==
    ASSUME RestTyped, NEW r
    PROVE  /\ Revoked(r) => token' \in [RootIds -> Scanners \cup {Nobody}] /\ leaked' \subseteq RootIds
           /\ \A s \in Scanners :
                 scan[s].root \in RootIds /\ LeftBehind(s) => leaked' \subseteq RootIds
BY DEF RestTyped, Revoked, LeftBehind

LEMMA RootTyped ==
    ASSUME RestTyped
    PROVE  /\ root.span \subseteq Dirs /\ root.id \in 0 .. MaxRoots
           /\ (root # NoRoot <=> root.id \in RootIds)
<1>1. CASE root = NoRoot
    BY <1>1, ModelFacts
<1>2. CASE root \in [id : RootIds, span : Spans]
    BY <1>2, ModelFacts
<1> QED BY <1>1, <1>2 DEF RestTyped

LEMMA ScanStepTyped ==
    ASSUME ScanTyped, NEW s \in Scanners, ScanStep(s)
    PROVE  ScanTyped'
<1>0. CallsTyped /\ RestTyped /\ scan \in Calls /\ root.span \subseteq Dirs
      /\ "drop" \in ScanPlaces /\ "begin" \in ScanPlaces /\ "after" \in ScanPlaces
      /\ "enrich" \in ScanPlaces
      /\ (scan[s].at # "idle" => scan[s].root \in RootIds)
    BY TypedParts, RootTyped DEF CallsTyped, ScanPlaces, At
<1>1. ASSUME NEW r \in RootIds, NEW q \in BOOLEAN, StartScan(s, r, q) PROVE ScanTyped'
    <2>1. CallsTyped'
        BY <1>0, <1>1, StartFacts, CallTyped
    <2>2. RestTyped'
        BY <1>0, <1>1 DEF StartScan, RestTyped, library
    <2> QED BY <2>1, <2>2, TypedParts
<1>2. CASE ReadPath(s)
    <2>1. PICK place \in {"begin", "drop"} : Go(s, place) \/ Shed(s, place)
        BY <1>2 DEF ReadPath
    <2>2. CallsTyped'
        BY <1>0, <1>2, <2>1, GoFacts, ShedFacts, CallTyped DEF ReadPath, At
    <2>3. RestTyped'
        BY <1>0, <1>2 DEF ReadPath, RestTyped, library, told
    <2> QED BY <2>2, <2>3, TypedParts
<1>3. CASE DropScan(s)
    <2>1. CallsTyped'
        BY <1>0, <1>3, OverFacts, CallTyped DEF DropScan
    <2>2. token' \in [RootIds -> Scanners \cup {Nobody}] /\ leaked' \subseteq RootIds
        BY <1>0, <1>3, TokenTyped DEF DropScan, RestTyped
    <2>3. RestTyped'
        BY <1>0, <1>3, <2>2 DEF DropScan, RestTyped, library
    <2> QED BY <2>1, <2>3, TypedParts
<1>4. CASE BeginScan(s)
    <2>1. CallsTyped'
        BY <1>0, <1>4, BeginFacts, CallTyped DEF BeginScan, At
    <2>2. unfinished' \in BOOLEAN
        BY <1>0, <1>4 DEF BeginScan, RestTyped
    <2>3. RestTyped'
        BY <1>0, <1>4, <2>2 DEF BeginScan, RestTyped, told
    <2> QED BY <2>1, <2>3, TypedParts
<1>5. ASSUME NEW d \in Dirs, EnterDir(s, d) PROVE ScanTyped'
    <2>1. CallsTyped'
        BY <1>0, <1>5, EnterFacts, CallTyped DEF EnterDir, Walking, At
    <2>2. RestTyped'
        BY <1>0, <1>5 DEF EnterDir, RestTyped, library, told
    <2> QED BY <2>1, <2>2, TypedParts
<1>6. ASSUME NEW f \in MediaFiles, VisitFile(s, f) \/ MeetFile(s, f) PROVE ScanTyped'
    <2>1. CallsTyped'
        BY <1>0, <1>6, FileFacts, CallTyped DEF VisitFile, MeetFile, Walking, At
    <2>2. RestTyped'
        BY <1>0, <1>6 DEF VisitFile, MeetFile, RestTyped, library, told
    <2> QED BY <2>1, <2>2, TypedParts
<1>7. CASE PrefetchMtimes(s)
    <2>1. CallsTyped'
        BY <1>0, <1>7, PrefetchFacts, CallTyped
    <2>2. RestTyped'
        BY <1>0, <1>7 DEF PrefetchMtimes, RestTyped, library, told
    <2> QED BY <2>1, <2>2, TypedParts
<1>8. CASE CommitBatch(s)
    <2>1. CallsTyped'
        BY <1>0, <1>8, CommitFacts, CallTyped
    <2>2. avail' \in [MediaFiles -> {"none", "online", "missing"}]
        BY <1>0, <1>8 DEF CommitBatch, RestTyped
    <2>3. based' \subseteq Dirs /\ blind' \subseteq Dirs
        <3>1. scan[s] \in ScanRecord
            BY <1>0 DEF Calls
        <3>2. scan[s].fresh \subseteq Dirs
            BY <3>1 DEF ScanRecord
        <3> QED BY <1>0, <1>8, <3>2 DEF CommitBatch, RestTyped
    <2>4. RestTyped'
        BY <1>0, <1>8, <2>2, <2>3 DEF CommitBatch, RestTyped
    <2> QED BY <2>1, <2>4, TypedParts
<1>9. CASE SeeCancel(s)
    <2>1. CallsTyped'
        BY <1>0, <1>9, ShedFacts, CallTyped DEF SeeCancel, At
    <2>2. RestTyped'
        BY <1>0, <1>9 DEF SeeCancel, RestTyped, library, told
    <2> QED BY <2>1, <2>2, TypedParts
<1>10. CASE EndWalk(s)
    <2>1. CallsTyped'
        BY <1>0, <1>10, EndFacts, CallTyped DEF EndWalk, Walking, At
    <2>2. RestTyped'
        BY <1>0, <1>10 DEF EndWalk, RestTyped, library, told
    <2> QED BY <2>1, <2>2, TypedParts
<1>11. CASE FinalizeScan(s)
    <2>1. PICK place \in {"after", "drop"} : Shed(s, place)
        BY <1>11 DEF FinalizeScan
    <2>2. CallsTyped'
        BY <1>0, <1>11, <2>1, ShedFacts, CallTyped DEF FinalizeScan, At
    <2>3. avail' \in [MediaFiles -> {"none", "online", "missing"}] /\ unfinished' \in BOOLEAN
        BY <1>0, <1>11 DEF FinalizeScan, RestTyped
    <2>4. drift' \subseteq MediaFiles
        <3>1. scan[s] \in ScanRecord
            BY <1>0 DEF Calls
        <3>2. scan[s].touched \subseteq MediaFiles
            BY <3>1 DEF ScanRecord
        <3> QED BY <1>0, <1>11, <3>2 DEF FinalizeScan, RestTyped
    <2>5. RestTyped'
        BY <1>0, <1>11, <2>3, <2>4 DEF FinalizeScan, RestTyped
    <2> QED BY <2>2, <2>5, TypedParts
<1>12. CASE AfterScan(s)
    <2>1. CallsTyped'
        <3>1. Go(s, "enrich") \/ Over(s)
            BY <1>12 DEF AfterScan
        <3> QED BY <1>0, <1>12, <3>1, GoFacts, OverFacts, CallTyped DEF AfterScan, At
    <2>2. leaked' \subseteq RootIds
        BY <1>0, <1>12, TokenTyped DEF AfterScan, RestTyped, At
    <2>3. RestTyped'
        BY <1>0, <1>12, <2>2 DEF AfterScan, RestTyped, library
    <2> QED BY <2>1, <2>3, TypedParts
<1>13. CASE FinishScan(s)
    <2>1. CallsTyped'
        BY <1>0, <1>13, OverFacts, CallTyped DEF FinishScan
    <2>2. token' \in [RootIds -> Scanners \cup {Nobody}] /\ leaked' \subseteq RootIds
        BY <1>0, <1>13, TokenTyped DEF FinishScan, RestTyped, At
    <2>3. RestTyped'
        BY <1>0, <1>13, <2>2 DEF FinishScan, RestTyped, library
    <2> QED BY <2>1, <2>3, TypedParts
<1> QED BY <1>1, <1>2, <1>3, <1>4, <1>5, <1>6, <1>7, <1>8, <1>9, <1>10, <1>11, <1>12, <1>13
        DEF ScanStep

LEMMA EmptiedTyped ==
    ASSUME RestTyped, Emptied
    PROVE  /\ root' \in {NoRoot} \cup [id : RootIds, span : Spans]
           /\ avail' \in [MediaFiles -> {"none", "online", "missing"}]
           /\ based' \subseteq Dirs /\ unfinished' \in BOOLEAN
           /\ drift' \subseteq MediaFiles /\ blind' \subseteq Dirs
BY DEF Emptied

LEMMA CommandTyped ==
    ASSUME ScanTyped, Commands
    PROVE  ScanTyped'
<1>0. CallsTyped /\ RestTyped
    BY TypedParts
<1>1. ASSUME NEW r \in RootIds, StopScan(r) PROVE ScanTyped'
    <2>1. token' \in [RootIds -> Scanners \cup {Nobody}] /\ leaked' \subseteq RootIds
        BY <1>0, <1>1, TokenTyped DEF StopScan
    <2> QED BY <1>0, <1>1, <2>1, TypedParts DEF StopScan, CallsTyped, RestTyped, library, At
<1>2. ASSUME NEW span \in Spans, AddRoot(span) PROVE ScanTyped'
    <2>1. lastId + 1 \in RootIds /\ lastId' \in 0 .. MaxRoots
        BY <1>0, <1>2, ModelFacts DEF AddRoot, RestTyped, RootIds
    <2>2. root' \in [id : RootIds, span : Spans]
        BY <1>2, <2>1 DEF AddRoot
    <2> QED BY <1>0, <1>2, <2>1, <2>2, TypedParts DEF AddRoot, CallsTyped, RestTyped, scanning, told, At
<1>3. CASE RemoveRoot
    <2>1. token' \in [RootIds -> Scanners \cup {Nobody}] /\ leaked' \subseteq RootIds
        BY <1>0, <1>3, TokenTyped DEF RemoveRoot
    <2> QED BY <1>0, <1>3, <2>1, EmptiedTyped, TypedParts DEF RemoveRoot, CallsTyped, RestTyped, At
<1>4. CASE MergeRoot
    <2>1. lastId + 1 \in RootIds /\ lastId' \in 0 .. MaxRoots
        BY <1>0, <1>4, ModelFacts DEF MergeRoot, RestTyped, RootIds
    <2>2. root' \in [id : RootIds, span : Spans]
        BY <1>4, <2>1 DEF MergeRoot, Spans
    <2>3. token' \in [RootIds -> Scanners \cup {Nobody}] /\ leaked' \subseteq RootIds
        BY <1>0, <1>4, TokenTyped DEF MergeRoot
    <2>4. unfinished' \in BOOLEAN /\ blind' \subseteq Dirs
        BY <1>0, <1>4 DEF MergeRoot, RestTyped
    <2> QED BY <1>0, <1>4, <2>1, <2>2, <2>3, <2>4, TypedParts
            DEF MergeRoot, CallsTyped, RestTyped, At
<1>5. CASE CloseDown
    <2>1. CallsTyped'
        <3>1. \A s \in Scanners : [scan[s] EXCEPT !.old = TRUE] \in ScanRecord
                  /\ [scan[s] EXCEPT !.old = TRUE].at = scan[s].at
                  /\ [scan[s] EXCEPT !.old = TRUE].root = scan[s].root
            BY <1>0, ZenonT(40) DEF CallsTyped, Calls, ScanRecord
        <3>2. scan' = [s \in Scanners |->
                          IF At(s, "path") THEN [scan[s] EXCEPT !.old = TRUE] ELSE scan[s]]
            BY <1>5 DEF CloseDown
        <3> QED BY <1>0, <3>1, <3>2 DEF CallsTyped, Calls, At
    <2>2. watch' \in WatchRecord /\ watch' = Unread
        BY <1>5, ModelFacts DEF CloseDown
    <2>3. /\ token' \in [RootIds -> Scanners \cup {Nobody}] /\ leaked' \subseteq RootIds
          /\ root' \in {NoRoot} \cup [id : RootIds, span : Spans]
          /\ avail' \in [MediaFiles -> {"none", "online", "missing"}]
          /\ based' \subseteq Dirs /\ unfinished' \in BOOLEAN
          /\ drift' \subseteq MediaFiles /\ blind' \subseteq Dirs
        <3>1. CASE closing = "remove"
            BY <1>0, <1>5, <3>1, EmptiedTyped, TokenTyped DEF CloseDown
        <3>2. CASE closing = "clear"
            <4>1. Emptied /\ token' = [r \in RootIds |-> Nobody] /\ leaked' = {}
                BY <1>5, <3>2 DEF CloseDown
            <4> QED BY <1>0, <4>1, EmptiedTyped
        <3>3. CASE closing = "other"
            BY <1>0, <1>5, <3>3 DEF CloseDown, RestTyped
        <3> QED BY <1>0, <1>5, <3>1, <3>2, <3>3 DEF CloseDown, RestTyped
    <2>4. there' \subseteq MediaFiles /\ plugged' \in BOOLEAN /\ lastId' \in 0 .. MaxRoots
          /\ closing' = "no"
        BY <1>0, <1>5 DEF CloseDown, RestTyped
    <2> QED BY <2>1, <2>2, <2>3, <2>4, TypedParts DEF RestTyped
<1> QED BY <1>1, <1>2, <1>3, <1>4, <1>5 DEF Commands

LEMMA WatcherTyped ==
    ASSUME ScanTyped, Watcher
    PROVE  ScanTyped'
<1>0. CallsTyped /\ RestTyped
    BY TypedParts
<1>1. CASE WatchApply
    <2>1. watch' = Unread /\ watch' \in WatchRecord
        BY <1>1, ModelFacts DEF WatchApply
    <2>2. avail' \in [MediaFiles -> {"none", "online", "missing"}]
        BY <1>0, <1>1 DEF WatchApply, RestTyped
    <2> QED BY <1>0, <1>1, <2>1, <2>2, TypedParts
            DEF WatchApply, CallsTyped, RestTyped, scanning, told, At
<1>2. ASSUME NEW d \in Dirs, WatchRead(d) PROVE ScanTyped'
    <2>1. root # NoRoot
        BY <1>2, ModelFacts DEF WatchRead
    <2>2. watch' \in WatchRecord /\ watch'.root \in RootIds
        BY <1>0, <1>2, <2>1, RootTyped, ModelFacts DEF WatchRead, WatchRecord, FilesIn
    <2> QED BY <1>0, <1>2, <2>2, TypedParts
            DEF WatchRead, CallsTyped, RestTyped, library, scanning, told, At
<1> QED BY <1>1, <1>2 DEF Watcher

LEMMA EventTyped ==
    ASSUME ScanTyped, Events
    PROVE  ScanTyped'
<1>0. CallsTyped /\ RestTyped
    BY TypedParts
<1>1. ASSUME NEW what \in {"other", "remove", "clear"}, Announce(what) PROVE ScanTyped'
    BY <1>0, <1>1, TypedParts DEF Announce, CallsTyped, RestTyped, library, told, At
<1>2. CASE PlugOrUnplug
    BY <1>0, <1>2, TypedParts DEF PlugOrUnplug, CallsTyped, RestTyped, library, scanning, told, At
<1>3. CASE KillScans
    <2>1. CallsTyped'
        BY <1>3, NoScanFacts DEF KillScans, CallsTyped, Calls, At
    <2>2. RestTyped'
        BY <1>0, <1>3, ModelFacts DEF KillScans, RestTyped, library
    <2> QED BY <2>1, <2>2, TypedParts
<1>4. ASSUME NEW f \in MediaFiles, ChangeDisk(f) PROVE ScanTyped'
    <2>1. CallsTyped'
        BY <1>0, <1>4, ChangeFacts DEF CallsTyped, At
    <2>2. watch' \in WatchRecord /\ (watch' # Unread => watch'.root \in RootIds)
        BY <1>0, <1>4, ModelFacts DEF ChangeDisk, RestTyped, WatchRecord, Unread, Dirs
    <2>3. there' \subseteq MediaFiles /\ based' \subseteq Dirs /\ drift' \subseteq MediaFiles
          /\ blind' \subseteq Dirs
        BY <1>0, <1>4 DEF ChangeDisk, RestTyped
    <2> QED BY <1>0, <1>4, <2>1, <2>2, <2>3, TypedParts DEF ChangeDisk, RestTyped
<1>5. ASSUME NEW s \in Scanners, PanicScan(s) PROVE ScanTyped'
    <2>1. CallsTyped'
        BY <1>0, <1>5, OverFacts, CallTyped DEF PanicScan, CallsTyped
    <2>2. leaked' \subseteq RootIds
        BY <1>0, <1>5, TokenTyped DEF PanicScan, CallsTyped, At
    <2>3. RestTyped'
        BY <1>0, <1>5, <2>2 DEF PanicScan, RestTyped, library
    <2> QED BY <2>1, <2>3, TypedParts
<1> QED BY <1>1, <1>2, <1>3, <1>4, <1>5 DEF Events

LEMMA StepScanTyped ==
    ASSUME ScanTyped, [ScanNext]_svars
    PROVE  ScanTyped'
<1>1. CASE UNCHANGED svars
    BY <1>1, TypedParts DEF svars, library, scanning, told, CallsTyped, RestTyped, At
<1> QED BY <1>1, ScanStepTyped, CommandTyped, WatcherTyped, EventTyped DEF ScanNext

LEMMA InitScanTyped == ScanInit => ScanTyped
<1>1. ASSUME ScanInit PROVE CallsTyped
    BY <1>1, NoScanFacts DEF ScanInit, ScanFrom, CallsTyped, Calls, At
<1>2. ASSUME ScanInit PROVE RestTyped
    <2>1. 0 \in 0 .. MaxRoots
        BY ModelFacts
    <2> QED BY <1>2, <2>1, ModelFacts DEF ScanInit, ScanFrom, RestTyped
<1> QED BY <1>1, <1>2, TypedParts

\* Every variable keeps its type.
THEOREM ScanTypes == ScanSpec => []ScanTypeOK
<1>1. ScanTyped => ScanTypeOK
    BY DEF ScanTyped
<1>2. ScanTyped /\ [ScanNext]_svars => ScanTyped'
    BY StepScanTyped
<1> QED BY InitScanTyped, <1>1, <1>2, PTL DEF ScanSpec

----------------------------------------------------------------------------
(* Tokens.                                                                 *)

\* A step of one call keeps the invariant if the call goes on with its root,
\* or leaves its token behind, or hands it back.
LEMMA CallBlocks ==
    ASSUME ScanTyped, BlockersHaveWorkers, NEW s \in Scanners,
           \A u \in Scanners \ {s} : scan'[u] = scan[u],
           \/ scan'[s].at # "idle" /\ scan'[s].root = scan[s].root /\ UNCHANGED <<token, leaked>>
           \/ LeftBehind(s) /\ UNCHANGED token
           \/ Owns(s) /\ Revoked(scan[s].root)
           \/ ~Owns(s) /\ UNCHANGED <<token, leaked>>
    PROVE  BlockersHaveWorkers'
<1> SUFFICES ASSUME NEW r \in RootIds, r \notin leaked', token'[r] # Nobody
             PROVE  scan'[token'[r]].root = r /\ scan'[token'[r]].at # "idle"
    BY DEF BlockersHaveWorkers, At
<1>0. token \in [RootIds -> Scanners \cup {Nobody}]
    BY DEF ScanTyped, ScanTypeOK
<1>1. token'[r] = token[r] /\ r \notin leaked
    BY <1>0 DEF LeftBehind, Revoked
<1>2. token[r] \in Scanners /\ scan[token[r]].root = r /\ scan[token[r]].at # "idle"
    BY <1>0, <1>1 DEF BlockersHaveWorkers, At
<1>3. CASE token[r] # s
    BY <1>1, <1>2, <1>3
<1>4. CASE token[r] = s
    <2>1. Owns(s)
        BY <1>2, <1>4 DEF Owns
    <2>2. scan'[s].at # "idle" /\ scan'[s].root = scan[s].root
        BY <1>0, <1>1, <1>2, <1>4, <2>1, ModelFacts DEF LeftBehind, Revoked
    <2> QED BY <1>1, <1>2, <1>4, <2>2
<1> QED BY <1>3, <1>4

LEMMA ScanStepBlocks ==
    ASSUME ScanTyped, BlockersHaveWorkers, NEW s \in Scanners, ScanStep(s)
    PROVE  BlockersHaveWorkers'
<1>0. scan \in Calls /\ token \in [RootIds -> Scanners \cup {Nobody}]
      /\ "drop" \in ScanPlaces /\ "begin" \in ScanPlaces /\ "after" \in ScanPlaces
      /\ "enrich" \in ScanPlaces
    BY DEF ScanTyped, ScanTypeOK, ScanPlaces, Calls
<1>1. ASSUME NEW r \in RootIds, NEW q \in BOOLEAN, StartScan(s, r, q) PROVE BlockersHaveWorkers'
    <2>1. /\ \A u \in Scanners \ {s} : scan'[u] = scan[u]
          /\ scan'[s].at = "path" /\ scan'[s].root = r
        BY <1>1, StartFacts
    <2>2. token' = [token EXCEPT ![r] = s] /\ leaked' = leaked \ {r} /\ scan[s].at = "idle"
        BY <1>1 DEF StartScan, At
    <2> QED BY <1>0, <2>1, <2>2, ModelFacts DEF BlockersHaveWorkers, At
<1>2. CASE ReadPath(s)
    <2>1. PICK place \in {"begin", "drop"} : Go(s, place) \/ Shed(s, place)
        BY <1>2 DEF ReadPath
    <2> QED BY <1>0, <1>2, <2>1, GoFacts, ShedFacts, CallBlocks, ZenonT(40) DEF ReadPath, told
<1>3. CASE DropScan(s)
    BY <1>0, <1>3, OverFacts, CallBlocks DEF DropScan
<1>4. CASE BeginScan(s)
    BY <1>4, BeginFacts, CallBlocks DEF BeginScan, told
<1>5. ASSUME NEW d \in Dirs, EnterDir(s, d) PROVE BlockersHaveWorkers'
    BY <1>5, EnterFacts, CallBlocks DEF EnterDir, told
<1>6. ASSUME NEW f \in MediaFiles, VisitFile(s, f) \/ MeetFile(s, f) PROVE BlockersHaveWorkers'
    BY <1>6, FileFacts, CallBlocks DEF VisitFile, MeetFile, told
<1>7. CASE PrefetchMtimes(s)
    BY <1>7, PrefetchFacts, CallBlocks DEF PrefetchMtimes, told
<1>8. CASE CommitBatch(s)
    BY <1>8, CommitFacts, CallBlocks DEF CommitBatch
<1>9. CASE SeeCancel(s)
    BY <1>0, <1>9, ShedFacts, CallBlocks DEF SeeCancel, told
<1>10. CASE EndWalk(s)
    BY <1>10, EndFacts, CallBlocks DEF EndWalk, told
<1>11. CASE FinalizeScan(s)
    <2>1. PICK place \in {"after", "drop"} : Shed(s, place)
        BY <1>11 DEF FinalizeScan
    <2> QED BY <1>0, <1>11, <2>1, ShedFacts, CallBlocks DEF FinalizeScan
<1>12. CASE AfterScan(s)
    BY <1>0, <1>12, GoFacts, OverFacts, CallBlocks DEF AfterScan
<1>13. CASE FinishScan(s)
    BY <1>0, <1>13, OverFacts, CallBlocks DEF FinishScan, MayWrite
<1> QED BY <1>1, <1>2, <1>3, <1>4, <1>5, <1>6, <1>7, <1>8, <1>9, <1>10, <1>11, <1>12, <1>13
        DEF ScanStep

\* Steps that take tokens away, or leave them alone, keep it.
LEMMA OthersBlock ==
    ASSUME ScanTyped, BlockersHaveWorkers,
           \A u \in Scanners : scan'[u].at = scan[u].at /\ scan'[u].root = scan[u].root,
           \/ UNCHANGED <<token, leaked>> \/ \E r : Revoked(r)
           \/ token' = [r \in RootIds |-> Nobody]
    PROVE  BlockersHaveWorkers'
<1>0. token \in [RootIds -> Scanners \cup {Nobody}]
    BY DEF ScanTyped, ScanTypeOK
<1> QED BY <1>0 DEF BlockersHaveWorkers, At, Revoked

LEMMA StepBlocks ==
    ASSUME ScanTyped, BlockersHaveWorkers, [ScanNext]_svars
    PROVE  BlockersHaveWorkers'
<1>0. scan \in Calls
    BY DEF ScanTyped, Calls
<1>1. ASSUME NEW s \in Scanners, ScanStep(s) PROVE BlockersHaveWorkers'
    BY <1>1, ScanStepBlocks
<1>2. CASE Commands
    <2>1. CASE CloseDown
        <3>1. scan' = [s \in Scanners |->
                          IF At(s, "path") THEN [scan[s] EXCEPT !.old = TRUE] ELSE scan[s]]
            BY <2>1 DEF CloseDown
        <3>2. \A u \in Scanners : scan'[u].at = scan[u].at /\ scan'[u].root = scan[u].root
            BY <1>0, <3>1 DEF Calls, ScanRecord
        <3>3. \/ UNCHANGED <<token, leaked>> \/ Revoked(root.id)
              \/ token' = [r \in RootIds |-> Nobody]
            BY <2>1 DEF CloseDown
        <3> QED BY <3>2, <3>3, OthersBlock
    <2>2. CASE ~CloseDown
        BY <1>2, <2>2, OthersBlock
           DEF Commands, StopScan, AddRoot, RemoveRoot, MergeRoot, scanning, told
    <2> QED BY <2>1, <2>2
<1>3. CASE Watcher
    BY <1>3, OthersBlock DEF Watcher, WatchApply, WatchRead, scanning, told
<1>4. CASE Events
    <2>1. CASE \E f \in MediaFiles : ChangeDisk(f)
        <3>1. PICK f \in MediaFiles : ChangeDisk(f)
            BY <2>1
        <3>2. \A s \in Scanners : scan'[s].at = scan[s].at /\ scan'[s].root = scan[s].root
            BY <3>1, ChangeFacts
        <3> QED BY <3>1, <3>2, OthersBlock DEF ChangeDisk
    <2>2. CASE \E s \in Scanners : PanicScan(s)
        BY <1>0, <2>2, OverFacts, CallBlocks DEF PanicScan
    <2>3. CASE KillScans
        BY <2>3 DEF KillScans, BlockersHaveWorkers
    <2>4. CASE PlugOrUnplug \/ \E what \in {"other", "remove", "clear"} : Announce(what)
        BY <2>4, OthersBlock DEF PlugOrUnplug, Announce, scanning, told
    <2> QED BY <1>4, <2>1, <2>2, <2>3, <2>4 DEF Events
<1>5. CASE UNCHANGED svars
    BY <1>5, OthersBlock DEF svars, scanning, told
<1> QED BY <1>1, <1>2, <1>3, <1>4, <1>5 DEF ScanNext

\* A root that counts as being scanned is being scanned, but for the tokens
\* that a panic or an announced closing has left behind: a call that ends
\* hands its token back or has lost it (cancel_scan_generation,
\* finish_scan_with_action), and no command takes more than the token.
THEOREM BlockersAreAtWork == ScanSpec => []BlockersHaveWorkers
<1>1. ScanInit => BlockersHaveWorkers
    BY DEF ScanInit, ScanFrom, BlockersHaveWorkers
<1>2. ScanTyped /\ BlockersHaveWorkers /\ [ScanNext]_svars => ScanTyped' /\ BlockersHaveWorkers'
    BY StepScanTyped, StepBlocks
<1> QED BY InitScanTyped, <1>1, <1>2, PTL DEF ScanSpec

----------------------------------------------------------------------------
(* What keeps the index true.                                              *)

\* The call that works on the root.
Working  == {"begin", "walk", "commit", "final", "after", "enrich"}
Owner(s) == scan[s].at \in Working /\ Owns(s)

OwnersHaveTheRoot == \A s \in Scanners : Owner(s) => scan[s].root = root.id

\* What is not under the root counts as changed, and has no recorded mtime.
OutsideIsUnknown ==
    /\ \A f \in MediaFiles : DirOf(f) \notin root.span => f \in drift
    /\ based \subseteq root.span

\* The index itself.
Correct(f) == avail[f] = "online" <=> f \in there
KnownIsCorrect ==
    \A f \in MediaFiles : DirOf(f) \in root.span /\ f \notin drift => Correct(f)

\* Unless a scan is unfinished, a recorded mtime vouches for its directory.
Vouched(d)  == \A f \in MediaFiles : DirOf(f) = d => Correct(f)
MtimesVouch == ~unfinished => \A d \in based \ blind : Vouched(d)

\* What the watcher holds is what there is.
SnapshotIsTrue ==
    watch.valid => \A f \in MediaFiles : f \in watch.files <=> f \in there /\ DirOf(f) = watch.dir

\* A scan that walks has left the mark of an unfinished one.
Marked(c) == c.at \in {"walk", "commit", "final"} => unfinished

\* How what a walk has gathered hangs together.
Gathered(c) ==
    /\ c.passed \subseteq root.span
    /\ c.entered \subseteq c.passed /\ c.read \subseteq c.passed /\ c.fresh \subseteq c.read
    /\ c.shifted \subseteq c.passed
    /\ c.same \cap c.entered = {}
    /\ \A f \in c.batch \cup c.ahead : DirOf(f) \in c.entered
    /\ \A f \in c.seen : DirOf(f) \in c.passed
    /\ "sub" \in c.passed /\ "top" \in root.span => "top" \in c.passed
    /\ c.batch \subseteq there \cup drift

\* A directory that is to be skipped has right rows.
SkipsAreRight(c) ==
    /\ c.same \cap c.passed = {}
    /\ \A d \in c.same \ blind : Vouched(d)

\* The walk will have the file right.
Shown(c, f)   == f \in c.seen /\ avail[f] = "online"
Tracked(c, f) ==
    /\ f \in there => f \in c.ahead \cup c.batch \/ Shown(c, f)
    /\ f \notin there => f \notin c.ahead \cup c.batch /\ ~Shown(c, f)

\* The walk may have missed a change in the directory.
Loose(c, d) == d \in blind \ c.entered \/ d \in c.shifted \/ d \in c.read \ c.fresh

NothingLost(c) ==
    \A f \in MediaFiles : DirOf(f) \in c.passed =>
        Tracked(c, f) \/ (f \in c.touched /\ Loose(c, DirOf(f)))

\* No mtime hides such a change, but one of blind, or one about to be cleared.
LooseIsBlind(c) ==
    /\ \A d \in c.passed \cap based : Loose(c, d) =>
           d \in blind \/ (c.at = "commit" /\ d \in ChainOf(c.batch) /\ d \in c.read \ c.fresh)
    /\ (c.passed \ c.read) \cap c.shifted \cap based = {}

\* After the walk: a file that has not changed will be right, and one that
\* has is not vouched for.
WalkIsTrue(c) ==
    \A f \in MediaFiles : DirOf(f) \in root.span =>
        \/ Shown(c, f) <=> f \in there
        \/ f \in c.touched /\ (DirOf(f) \in based => DirOf(f) \in blind)

WorkIsSound(c) ==
    /\ Marked(c)
    /\ c.at \in {"walk", "commit"} => Gathered(c)
    /\ c.at \in {"walk", "commit"} /\ ~c.err => SkipsAreRight(c) /\ NothingLost(c) /\ LooseIsBlind(c)
    /\ c.at = "final" /\ ~c.err => WalkIsTrue(c)

IndexIsSound == OutsideIsUnknown /\ KnownIsCorrect /\ MtimesVouch /\ SnapshotIsTrue
WorkersAreSound == \A s \in Scanners : Owner(s) => WorkIsSound(scan[s])

Sound == ScanTyped /\ OwnersHaveTheRoot /\ IndexIsSound /\ WorkersAreSound

LEMMA SoundIsTrue == Sound => IndexIsTrue
<1> SUFFICES ASSUME Sound, NEW f \in FilesIn(root.span) \ drift
             PROVE  (avail[f] = "online") = (f \in there)
    BY DEF IndexIsTrue
<1>1. f \in MediaFiles /\ DirOf(f) \in root.span /\ f \notin drift
    BY FilesOfDirs
<1>2. avail[f] = "online" <=> f \in there
    BY <1>1 DEF Sound, IndexIsSound, KnownIsCorrect, Correct
<1> QED BY <1>2

LEMMA RecordFields ==
    \A c \in ScanRecord :
        /\ c.same \subseteq Dirs /\ c.passed \subseteq Dirs /\ c.entered \subseteq Dirs
        /\ c.read \subseteq Dirs /\ c.fresh \subseteq Dirs /\ c.shifted \subseteq Dirs
        /\ c.ahead \subseteq MediaFiles /\ c.batch \subseteq MediaFiles
        /\ c.seen \subseteq MediaFiles /\ c.touched \subseteq MediaFiles
        /\ c.err \in BOOLEAN /\ c.root \in 0 .. MaxRoots
BY DEF ScanRecord

LEMMA OwnerFacts ==
    ASSUME ScanTyped, OwnersHaveTheRoot, NEW s \in Scanners, Owner(s)
    PROVE  /\ scan[s] \in ScanRecord /\ scan[s].root = root.id /\ root.id \in RootIds
           /\ root # NoRoot /\ root.span \subseteq Dirs /\ token[root.id] = s
           /\ token[root.id] # Nobody
           /\ \A u \in Scanners \ {s} : ~Owner(u)
<1>1. scan[s] \in ScanRecord /\ scan[s].at # "idle"
    BY DEF ScanTyped, Owner, Working, Calls
<1>2. scan[s].root = root.id /\ root.id \in RootIds
    BY <1>1 DEF ScanTyped, OwnersHaveTheRoot, At
<1>3. root # NoRoot /\ root.span \subseteq Dirs
    BY <1>2, RootTyped, TypedParts
<1>4. token[root.id] = s /\ token[root.id] # Nobody
    BY <1>2, ModelFacts DEF Owner, Owns
<1>5. ASSUME NEW u \in Scanners \ {s}, Owner(u) PROVE FALSE
    BY <1>4, <1>5 DEF Owner, Owns, OwnersHaveTheRoot
<1> QED BY <1>1, <1>2, <1>3, <1>4, <1>5

\* What a step can leave alone, and what then stays.
indexed == <<root, there, avail, based, blind, drift>>

LEMMA IndexStays ==
    ASSUME IndexIsSound, UNCHANGED indexed,
           unfinished' = unfinished \/ unfinished' = TRUE,
           watch' = watch \/ SnapshotIsTrue'
    PROVE  IndexIsSound'
<1>1. OutsideIsUnknown' /\ KnownIsCorrect'
    BY DEF IndexIsSound, OutsideIsUnknown, KnownIsCorrect, Correct, indexed
<1>2. MtimesVouch'
    BY DEF IndexIsSound, MtimesVouch, Vouched, Correct, indexed
<1>3. SnapshotIsTrue'
    BY DEF IndexIsSound, SnapshotIsTrue, indexed
<1> QED BY <1>1, <1>2, <1>3 DEF IndexIsSound

LEMMA WorkStays ==
    ASSUME NEW u \in Scanners, WorkIsSound(scan[u]), scan'[u] = scan[u], UNCHANGED indexed,
           unfinished' = unfinished \/ unfinished' = TRUE
    PROVE  WorkIsSound(scan[u])'
<1> USE DEF indexed
<1>1. Marked(scan[u])'
    BY DEF WorkIsSound, Marked
<1>2. Gathered(scan[u]) => Gathered(scan[u])'
    BY DEF Gathered
<1>3. SkipsAreRight(scan[u]) => SkipsAreRight(scan[u])'
    BY DEF SkipsAreRight, Vouched, Correct
<1>4. NothingLost(scan[u]) => NothingLost(scan[u])'
    BY DEF NothingLost, Tracked, Loose, Shown
<1>5. LooseIsBlind(scan[u]) => LooseIsBlind(scan[u])'
    BY DEF LooseIsBlind, Loose, ChainOf
<1>6. WalkIsTrue(scan[u]) => WalkIsTrue(scan[u])'
    BY DEF WalkIsTrue, Shown
<1> QED BY <1>1, <1>2, <1>3, <1>4, <1>5, <1>6 DEF WorkIsSound

\* Nothing is written, and whoever owns the root has owned it or works at
\* nothing yet.
LEMMA QuietStep ==
    ASSUME Sound, ScanTyped', UNCHANGED <<indexed, unfinished>>,
           watch' = watch \/ SnapshotIsTrue',
           \A u \in Scanners : Owner(u)' =>
               \/ Owner(u) /\ scan'[u] = scan[u]
               \/ scan'[u].at \in {"begin", "after", "enrich"} /\ scan'[u].root = root.id
    PROVE  Sound'
<1>1. IndexIsSound'
    BY IndexStays DEF Sound
<1>2. OwnersHaveTheRoot'
    BY DEF Sound, OwnersHaveTheRoot, indexed
<1>3. WorkersAreSound'
    <2> SUFFICES ASSUME NEW u \in Scanners, Owner(u)' PROVE WorkIsSound(scan[u])'
        BY DEF WorkersAreSound
    <2>1. CASE Owner(u) /\ scan'[u] = scan[u]
        BY <2>1, WorkStays DEF Sound, WorkersAreSound
    <2>2. CASE scan'[u].at \in {"begin", "after", "enrich"}
        BY <2>2 DEF WorkIsSound, Marked
    <2> QED BY <2>1, <2>2
<1> QED BY <1>1, <1>2, <1>3 DEF Sound

\* The owner goes on with its work.
LEMMA OwnStep ==
    ASSUME Sound, ScanTyped', NEW s \in Scanners, Owner(s),
           \A u \in Scanners \ {s} : scan'[u] = scan[u],
           UNCHANGED <<root, token>>, scan'[s].root = scan[s].root,
           IndexIsSound', WorkIsSound(scan[s])'
    PROVE  Sound'
<1>1. \A u \in Scanners \ {s} : ~Owner(u)'
    <2>1. \A u \in Scanners \ {s} : ~Owner(u)
        BY OwnerFacts DEF Sound
    <2> QED BY <2>1 DEF Owner, Owns
<1>2. OwnersHaveTheRoot'
    BY <1>1 DEF Sound, OwnersHaveTheRoot
<1> QED BY <1>1, <1>2 DEF Sound, WorkersAreSound

\* Nobody owns the root after the step.
LEMMA NobodyStep ==
    ASSUME ScanTyped', IndexIsSound', \A u \in Scanners : ~Owner(u)'
    PROVE  Sound'
BY DEF Sound, OwnersHaveTheRoot, WorkersAreSound

\* A call that has not begun to walk has gathered nothing.
Blank(c) ==
    /\ c.passed = {} /\ c.entered = {} /\ c.ahead = {} /\ c.batch = {} /\ c.seen = {}
    /\ c.read = {} /\ c.fresh = {} /\ c.shifted = {}
Unstarted == \A s \in Scanners : scan[s].at \in {"path", "begin"} => Blank(scan[s])

LEMMA StepUnstarted ==
    ASSUME ScanTyped, Unstarted, [ScanNext]_svars
    PROVE  Unstarted'
<1>0. scan \in Calls /\ "drop" \in ScanPlaces /\ "begin" \in ScanPlaces
      /\ "after" \in ScanPlaces /\ "enrich" \in ScanPlaces
    BY DEF ScanTyped, ScanPlaces, Calls
<1>1. ASSUME NEW s \in Scanners, \A u \in Scanners \ {s} : scan'[u] = scan[u],
             scan'[s].at \notin {"path", "begin"}
      PROVE  Unstarted'
    BY <1>1 DEF Unstarted
<1>2. ASSUME NEW s \in Scanners, ScanStep(s) \/ PanicScan(s) PROVE Unstarted'
    <2>1. ASSUME NEW r \in RootIds, NEW q \in BOOLEAN, StartScan(s, r, q) PROVE Unstarted'
        BY <2>1, StartFacts DEF Unstarted, Blank
    <2>2. CASE ReadPath(s)
        <3>1. Go(s, "begin") \/ Shed(s, "drop")
            BY <2>2 DEF ReadPath
        <3>2. CASE Go(s, "begin")
            <4>1. /\ \A u \in Scanners \ {s} : scan'[u] = scan[u]
                  /\ scan'[s] = [scan[s] EXCEPT !.at = "begin"]
                BY <1>0, <3>2, GoFacts
            <4>2. scan[s] \in ScanRecord /\ Blank(scan[s])
                BY <1>0, <2>2 DEF ReadPath, At, Unstarted, Calls
            <4>3. Blank(scan'[s])
                BY <4>1, <4>2 DEF Blank, ScanRecord
            <4> QED BY <4>1, <4>3 DEF Unstarted
        <3> QED BY <1>0, <1>1, <3>1, <3>2, ShedFacts
    <2>3. CASE BeginScan(s)
        BY <1>1, <2>3, BeginFacts
    <2>4. ASSUME NEW d \in Dirs, EnterDir(s, d) PROVE Unstarted'
        BY <1>1, <2>4, EnterFacts
    <2>5. ASSUME NEW f \in MediaFiles, VisitFile(s, f) \/ MeetFile(s, f) PROVE Unstarted'
        BY <1>1, <2>5, FileFacts
    <2>6. CASE PrefetchMtimes(s) \/ CommitBatch(s) \/ EndWalk(s)
        BY <1>1, <2>6, PrefetchFacts, CommitFacts, EndFacts
    <2>7. CASE DropScan(s) \/ SeeCancel(s) \/ FinalizeScan(s) \/ AfterScan(s) \/ FinishScan(s) \/ PanicScan(s)
        <3>1. Over(s) \/ Shed(s, "drop") \/ Shed(s, "after") \/ Go(s, "enrich")
            BY <2>7 DEF DropScan, SeeCancel, FinalizeScan, AfterScan, FinishScan, PanicScan
        <3>2. /\ \A u \in Scanners \ {s} : scan'[u] = scan[u]
              /\ scan'[s].at \in {"idle", "drop", "after", "enrich"}
            BY <1>0, <3>1, GoFacts, ShedFacts, OverFacts
        <3> QED BY <1>1, <3>2
    <2> QED BY <1>2, <2>1, <2>2, <2>3, <2>4, <2>5, <2>6, <2>7 DEF ScanStep
<1>3. ASSUME UNCHANGED scan PROVE Unstarted'
    BY <1>3 DEF Unstarted
<1>4. CASE CloseDown
    <2>1. scan' = [s \in Scanners |->
                      IF At(s, "path") THEN [scan[s] EXCEPT !.old = TRUE] ELSE scan[s]]
        BY <1>4 DEF CloseDown
    <2>2. \A s \in Scanners :
              /\ scan'[s].at = scan[s].at
              /\ Blank(scan[s]) => Blank(scan'[s])
        BY <1>0, <2>1 DEF Calls, ScanRecord, Blank
    <2> SUFFICES ASSUME NEW s \in Scanners, scan'[s].at \in {"path", "begin"}
                 PROVE  Blank(scan[s])'
        BY DEF Unstarted
    <2>3. Blank(scan[s])
        BY <2>2 DEF Unstarted
    <2> QED BY <2>2, <2>3 DEF Blank
<1>5. CASE \E f \in MediaFiles : ChangeDisk(f)
    <2>1. PICK f \in MediaFiles : ChangeDisk(f)
        BY <1>5
    <2>2. \A s \in Scanners :
              /\ scan'[s].at = scan[s].at
              /\ scan[s].at \in {"path", "begin"} => scan'[s] = scan[s]
        BY <2>1, ChangeFacts
    <2> SUFFICES ASSUME NEW s \in Scanners, scan'[s].at \in {"path", "begin"}
                 PROVE  Blank(scan[s])'
        BY DEF Unstarted
    <2>3. Blank(scan[s]) /\ scan'[s] = scan[s]
        BY <2>2 DEF Unstarted
    <2> QED BY <2>3 DEF Blank
<1>6. CASE KillScans
    BY <1>6, NoScanFacts DEF KillScans, Unstarted
<1>7. CASE Commands /\ ~CloseDown
    BY <1>3, <1>7 DEF Commands, StopScan, AddRoot, RemoveRoot, MergeRoot, scanning
<1>8. CASE Watcher
    BY <1>3, <1>8 DEF Watcher, WatchApply, WatchRead, scanning
<1>9. CASE PlugOrUnplug \/ \E what \in {"other", "remove", "clear"} : Announce(what)
    BY <1>3, <1>9 DEF PlugOrUnplug, Announce, scanning
<1>10. CASE UNCHANGED svars
    BY <1>3, <1>10 DEF svars, scanning
<1> QED BY <1>2, <1>4, <1>5, <1>6, <1>7, <1>8, <1>9, <1>10 DEF ScanNext, Events

----------------------------------------------------------------------------
(* The steps that write nothing.                                           *)

LEMMA QuietCallStep ==
    ASSUME Sound, ScanTyped', NEW s \in Scanners,
           \/ \E r \in RootIds, q \in BOOLEAN : StartScan(s, r, q)
           \/ ReadPath(s) \/ DropScan(s) \/ SeeCancel(s) \/ AfterScan(s) \/ FinishScan(s)
           \/ BeginScan(s) /\ ~(plugged /\ MayWrite(s))
           \/ CommitBatch(s) /\ ~MayWrite(s)
           \/ FinalizeScan(s) /\ ~(MayWrite(s) /\ ~scan[s].err)
           \/ PanicScan(s)
    PROVE  Sound'
<1>0. scan \in Calls /\ ScanTyped /\ token \in [RootIds -> Scanners \cup {Nobody}]
      /\ "drop" \in ScanPlaces /\ "begin" \in ScanPlaces /\ "after" \in ScanPlaces
      /\ "enrich" \in ScanPlaces
    BY DEF Sound, ScanTyped, ScanTypeOK, Calls, ScanPlaces
<1>1. ASSUME NEW r \in RootIds, NEW q \in BOOLEAN, StartScan(s, r, q) PROVE Sound'
    <2>1. /\ \A u \in Scanners \ {s} : scan'[u] = scan[u]
          /\ scan'[s].at = "path"
        BY <1>0, <1>1, StartFacts
    <2>2. \A u \in Scanners : Owner(u)' => Owner(u) /\ scan'[u] = scan[u]
        <3>1. token' = [token EXCEPT ![r] = s]
            BY <1>1 DEF StartScan
        <3>2. ~Owner(s)'
            BY <2>1 DEF Owner, Working
        <3>3. ASSUME NEW u \in Scanners \ {s}, Owner(u)' PROVE Owner(u)
            BY <1>0, <2>1, <3>1, <3>3 DEF Owner, Owns
        <3> QED BY <2>1, <3>2, <3>3
    <2>3. UNCHANGED <<indexed, unfinished, watch>>
        BY <1>1 DEF StartScan, indexed, library
    <2> QED BY <2>2, <2>3, QuietStep
<1>2. CASE ReadPath(s)
    <2>1. \/ (Go(s, "begin") /\ root.id = scan[s].root) \/ Shed(s, "drop")
        BY <1>2 DEF ReadPath
    <2>2. /\ \A u \in Scanners \ {s} : scan'[u] = scan[u]
          /\ scan'[s].at = "drop" \/ (scan'[s].at = "begin" /\ scan'[s].root = root.id)
        BY <1>0, <2>1, GoFacts, ShedFacts
    <2>3. UNCHANGED <<indexed, unfinished, watch, token>>
        BY <1>2 DEF ReadPath, indexed, library, told
    <2> QED BY <2>2, <2>3, QuietStep DEF Owner, Owns, Working
<1>3. CASE \/ DropScan(s) \/ SeeCancel(s) \/ FinishScan(s) \/ PanicScan(s)
           \/ CommitBatch(s) /\ ~MayWrite(s)
    <2>1. Over(s) \/ Shed(s, "drop")
        BY <1>3 DEF DropScan, SeeCancel, FinishScan, PanicScan, CommitBatch
    <2>2. /\ \A u \in Scanners \ {s} : scan'[u] = scan[u]
          /\ scan'[s].at \in {"idle", "drop"}
        BY <1>0, <2>1, OverFacts, ShedFacts
    <2>3. UNCHANGED <<indexed, unfinished, watch>>
        BY <1>3 DEF DropScan, SeeCancel, FinishScan, PanicScan, CommitBatch, indexed, library, told
    <2>4. UNCHANGED token \/ \E r : Revoked(r)
        BY <1>3 DEF DropScan, SeeCancel, FinishScan, PanicScan, CommitBatch
    <2>5. \A u \in Scanners : Owner(u)' => Owner(u) /\ scan'[u] = scan[u]
        <3>1. ~Owner(s)'
            BY <2>2 DEF Owner, Working
        <3>2. ASSUME NEW u \in Scanners \ {s}, Owner(u)' PROVE Owner(u)
            <4>1. \A r \in RootIds : token'[r] = u => token[r] = u
                BY <1>0, <2>4, ModelFacts DEF Revoked
            <4>2. scan'[u].root \in RootIds
                BY <3>2 DEF ScanTyped, Owner, Working, At
            <4> QED BY <2>2, <3>2, <4>1, <4>2 DEF Owner, Owns
        <3> QED BY <2>2, <3>1, <3>2
    <2> QED BY <2>3, <2>5, QuietStep
<1>4. CASE \/ AfterScan(s)
           \/ BeginScan(s) /\ ~(plugged /\ MayWrite(s))
           \/ FinalizeScan(s) /\ ~(MayWrite(s) /\ ~scan[s].err)
    <2>1. \/ Over(s) \/ Shed(s, "drop")
          \/ MayWrite(s) /\ (Go(s, "enrich") \/ Shed(s, "after"))
        BY <1>4 DEF AfterScan, BeginScan, FinalizeScan
    <2>2. scan[s].at \in Working
        BY <1>4 DEF AfterScan, BeginScan, FinalizeScan, At, Working
    <2>3. /\ \A u \in Scanners \ {s} : scan'[u] = scan[u]
          /\ \/ scan'[s].at \in {"idle", "drop"}
             \/ /\ scan'[s].at \in {"after", "enrich"} /\ scan'[s].root = scan[s].root
                /\ MayWrite(s)
        BY <1>0, <2>1, OverFacts, ShedFacts, GoFacts
    <2>4. MayWrite(s) => scan[s].root = root.id
        BY <2>2 DEF MayWrite, Owner, Sound, OwnersHaveTheRoot
    <2>5. UNCHANGED <<indexed, unfinished, watch, token>>
        BY <1>4 DEF AfterScan, BeginScan, FinalizeScan, indexed, library, told
    <2> QED BY <2>3, <2>4, <2>5, QuietStep DEF Owner, Owns, Working
<1> QED BY <1>1, <1>2, <1>3, <1>4

----------------------------------------------------------------------------
(* The steps of the walk.                                                  *)

\* A call that walks, or commits, by its own right.
LEMMA WorkerFacts ==
    ASSUME Sound, NEW s \in Scanners, Owns(s), scan[s].at \in Working
    PROVE  /\ Owner(s) /\ ScanTyped /\ scan[s] \in ScanRecord /\ WorkIsSound(scan[s])
           /\ root.span \subseteq Dirs /\ token[root.id] # Nobody /\ root # NoRoot
           /\ scan[s].at \in {"walk", "commit"} =>
                  /\ unfinished /\ Gathered(scan[s])
                  /\ ~scan[s].err => /\ SkipsAreRight(scan[s]) /\ NothingLost(scan[s])
                                     /\ LooseIsBlind(scan[s])
           /\ scan[s].at = "final" => unfinished /\ (~scan[s].err => WalkIsTrue(scan[s]))
<1>1. Owner(s)
    BY DEF Owner
<1>2. WorkIsSound(scan[s])
    BY <1>1 DEF Sound, WorkersAreSound
<1> QED BY <1>1, <1>2, OwnerFacts DEF Sound, WorkIsSound, Marked

LEMMA WalkIsSound ==
    ASSUME NEW s \in Scanners, scan'[s].at \in {"walk", "commit"}, unfinished',
           Gathered(scan[s])',
           ~scan'[s].err =>
               SkipsAreRight(scan[s])' /\ NothingLost(scan[s])' /\ LooseIsBlind(scan[s])'
    PROVE  WorkIsSound(scan[s])'
BY DEF WorkIsSound, Marked

LEMMA BeginStep ==
    ASSUME Sound, Unstarted, ScanTyped', NEW s \in Scanners, BeginScan(s), plugged, MayWrite(s)
    PROVE  Sound'
<1> DEFINE c == scan[s]
           n == scan'[s]
<1>1. scan[s].at = "begin" /\ Owns(s) /\ scan[s].at \in Working
    BY DEF BeginScan, At, MayWrite, Working
<1>2. Owner(s) /\ ScanTyped /\ based \subseteq root.span
    BY <1>1, WorkerFacts DEF Sound, IndexIsSound, OutsideIsUnknown
<1>3. /\ \A u \in Scanners \ {s} : scan'[u] = scan[u]
      /\ n.root = c.root /\ unfinished' = TRUE /\ n.at = "walk"
      /\ n.same = IF c.quick /\ ~unfinished THEN based ELSE {}
      /\ n.passed = {} /\ n.entered = {} /\ n.ahead = {} /\ n.batch = {} /\ n.seen = {}
      /\ n.read = {} /\ n.fresh = {} /\ n.shifted = {}
    BY <1>1, <1>2, BeginFacts DEF Unstarted, Blank
<1>4. UNCHANGED <<indexed, token, watch>>
    BY DEF BeginScan, indexed, told
<1>5. IndexIsSound'
    BY <1>3, <1>4, IndexStays DEF Sound
<1>6. WorkIsSound(scan[s])'
    <2>1. Gathered(scan[s])'
        BY <1>3 DEF Gathered
    <2>2. SkipsAreRight(scan[s])'
        <3>1. n.same = {} \/ (n.same = based /\ ~unfinished)
            BY <1>3
        <3>2. \A d \in n.same \ blind : Vouched(d)
            BY <3>1 DEF Sound, IndexIsSound, MtimesVouch
        <3> QED BY <1>3, <1>4, <3>2 DEF SkipsAreRight, Vouched, Correct, indexed
    <2>3. NothingLost(scan[s])' /\ LooseIsBlind(scan[s])'
        BY <1>3 DEF NothingLost, LooseIsBlind
    <2> QED BY <1>3, <2>1, <2>2, <2>3 DEF WorkIsSound, Marked
<1>7. root' = root
    BY <1>4 DEF indexed
<1> QED BY <1>2, <1>3, <1>4, <1>5, <1>6, <1>7, OwnStep

LEMMA EnterStep ==
    ASSUME Sound, ScanTyped', NEW s \in Scanners, NEW d \in Dirs, EnterDir(s, d)
    PROVE  Sound'
<1> DEFINE c == scan[s]
           n == scan'[s]
<1>1. /\ c.at = "walk" /\ Owns(s) /\ d \in root.span \ c.passed
      /\ (d = "top" \/ "top" \in c.passed \/ "top" \notin root.span)
    BY DEF EnterDir, Walking, At
<1>2. c.at \in Working
    BY <1>1 DEF Working
<1>3. /\ Owner(s) /\ ScanTyped /\ c \in ScanRecord /\ unfinished /\ Gathered(c)
      /\ ~c.err => SkipsAreRight(c) /\ NothingLost(c) /\ LooseIsBlind(c)
    BY <1>1, <1>2, WorkerFacts
<1>4. UNCHANGED <<indexed, unfinished, token, watch>>
    BY DEF EnterDir, indexed, library, told
<1>12. unfinished'
    BY <1>3, <1>4
<1>5. IndexIsSound'
    BY <1>4, IndexStays DEF Sound
<1>6. /\ \A u \in Scanners \ {s} : scan'[u] = scan[u]
      /\ n.at = "walk" /\ n.root = c.root /\ n.batch = c.batch /\ n.read = c.read
      /\ n.fresh = c.fresh /\ n.shifted = c.shifted
    BY <1>3, EnterFacts
<1>7. ASSUME ~plugged PROVE WorkIsSound(scan[s])'
    <2>1. /\ n.err /\ n.passed = IF d = "top" THEN root.span ELSE c.passed \cup {d}
          /\ n.entered = c.entered /\ n.ahead = c.ahead /\ n.seen = c.seen /\ n.same = c.same
        BY <1>3, <1>7, EnterFacts
    <2>2. Gathered(scan[s])'
        BY <1>1, <1>3, <1>4, <1>6, <2>1 DEF Gathered, indexed
    <2> QED BY <1>6, <1>12, <2>1, <2>2, WalkIsSound
<1>8. ASSUME plugged, d \in c.same PROVE WorkIsSound(scan[s])'
    <2>1. /\ n.err = c.err /\ n.passed = c.passed \cup {d} /\ n.entered = c.entered
          /\ n.ahead = c.ahead /\ n.same = c.same \ {d}
          /\ \A f \in MediaFiles : f \in n.touched <=>
                f \in c.touched \/ (d \in blind /\ DirOf(f) = d)
        BY <1>3, <1>8, EnterFacts
    <2>2. \A f : f \in n.seen <=>
              f \in c.seen \/ (f \in MediaFiles /\ DirOf(f) = d /\ avail[f] # "none")
        BY <1>3, <1>8, EnterFacts
    <2>3. Gathered(scan[s])'
        BY <1>1, <1>3, <1>4, <1>6, <2>1, <2>2 DEF Gathered, indexed
    <2>4. ASSUME ~n.err
          PROVE  SkipsAreRight(scan[s])' /\ NothingLost(scan[s])' /\ LooseIsBlind(scan[s])'
        <3>1. SkipsAreRight(c) /\ NothingLost(c) /\ LooseIsBlind(c)
            BY <1>3, <2>1, <2>4
        <3>2. SkipsAreRight(scan[s])'
            BY <1>4, <2>1, <3>1 DEF SkipsAreRight, Vouched, Correct, indexed
        <3>3. NothingLost(scan[s])'
            <4> SUFFICES ASSUME NEW f \in MediaFiles, DirOf(f) \in n.passed
                         PROVE  Tracked(scan[s], f)' \/ (f \in n.touched /\ Loose(scan[s], DirOf(f))')
                BY DEF NothingLost
            <4>1. CASE DirOf(f) = d
                <5>1. f \notin c.ahead \cup c.batch /\ d \notin c.entered
                    BY <1>8, <4>1, <1>3 DEF Gathered
                <5>2. CASE d \in blind
                    <6>1. f \in n.touched
                        BY <2>1, <4>1, <5>2
                    <6>2. Loose(scan[s], d)'
                        BY <1>4, <2>1, <5>1, <5>2 DEF Loose, indexed
                    <6> QED BY <4>1, <6>1, <6>2
                <5>3. CASE d \notin blind
                    <6>1. Correct(f)
                        BY <1>8, <3>1, <4>1, <5>3 DEF SkipsAreRight, Vouched
                    <6> QED BY <1>4, <1>6, <2>1, <2>2, <4>1, <5>1, <6>1
                            DEF Correct, Tracked, Shown, indexed
                <5> QED BY <5>2, <5>3
            <4>2. CASE DirOf(f) # d
                <5>1. Tracked(c, f) \/ (f \in c.touched /\ Loose(c, DirOf(f)))
                    BY <2>1, <3>1, <4>2 DEF NothingLost
                <5>2. Tracked(c, f) => Tracked(scan[s], f)'
                    BY <1>4, <1>6, <2>1, <2>2, <4>2 DEF Tracked, Shown, indexed
                <5>3. Loose(c, DirOf(f)) => Loose(scan[s], DirOf(f))'
                    BY <1>4, <1>6, <2>1 DEF Loose, indexed
                <5> QED BY <2>1, <5>1, <5>2, <5>3
            <4> QED BY <4>1, <4>2
        <3>4. LooseIsBlind(scan[s])'
            BY <1>1, <1>3, <1>4, <1>6, <2>1, <3>1 DEF LooseIsBlind, Loose, Gathered, indexed
        <3> QED BY <3>2, <3>3, <3>4
    <2> QED BY <1>6, <1>12, <2>3, <2>4, WalkIsSound
<1>9. ASSUME plugged, d \notin c.same PROVE WorkIsSound(scan[s])'
    <2>1. /\ n.err = c.err /\ n.passed = c.passed \cup {d} /\ n.entered = c.entered \cup {d}
          /\ n.same = c.same /\ n.seen = c.seen /\ n.touched = c.touched
        BY <1>3, <1>9, EnterFacts
    <2>2. \A f : f \in n.ahead <=>
              f \in c.ahead \/ (f \in MediaFiles /\ f \in there /\ DirOf(f) = d)
        BY <1>3, <1>9, EnterFacts
    <2>3. Gathered(scan[s])'
        BY <1>1, <1>3, <1>4, <1>6, <1>9, <2>1, <2>2 DEF Gathered, indexed
    <2>4. ASSUME ~n.err
          PROVE  SkipsAreRight(scan[s])' /\ NothingLost(scan[s])' /\ LooseIsBlind(scan[s])'
        <3>1. SkipsAreRight(c) /\ NothingLost(c) /\ LooseIsBlind(c)
            BY <1>3, <2>1, <2>4
        <3>2. SkipsAreRight(scan[s])'
            BY <1>4, <1>9, <2>1, <3>1 DEF SkipsAreRight, Vouched, Correct, indexed
        <3>3. NothingLost(scan[s])'
            <4> SUFFICES ASSUME NEW f \in MediaFiles, DirOf(f) \in n.passed
                         PROVE  Tracked(scan[s], f)' \/ (f \in n.touched /\ Loose(scan[s], DirOf(f))')
                BY DEF NothingLost
            <4>1. CASE DirOf(f) = d
                <5>1. f \notin c.ahead \cup c.batch \cup c.seen
                    BY <1>1, <1>3, <4>1 DEF Gathered
                <5> QED BY <1>4, <1>6, <2>1, <2>2, <4>1, <5>1 DEF Tracked, Shown, indexed
            <4>2. CASE DirOf(f) # d
                <5>1. Tracked(c, f) \/ (f \in c.touched /\ Loose(c, DirOf(f)))
                    BY <2>1, <3>1, <4>2 DEF NothingLost
                <5>2. Tracked(c, f) => Tracked(scan[s], f)'
                    BY <1>4, <1>6, <2>1, <2>2, <4>2 DEF Tracked, Shown, indexed
                <5>3. Loose(c, DirOf(f)) => Loose(scan[s], DirOf(f))'
                    BY <1>4, <1>6, <2>1, <4>2 DEF Loose, indexed
                <5> QED BY <2>1, <5>1, <5>2, <5>3
            <4> QED BY <4>1, <4>2
        <3>4. LooseIsBlind(scan[s])'
            BY <1>1, <1>3, <1>4, <1>6, <2>1, <3>1 DEF LooseIsBlind, Loose, Gathered, indexed
        <3> QED BY <3>2, <3>3, <3>4
    <2> QED BY <1>6, <1>12, <2>3, <2>4, WalkIsSound
<1>10. WorkIsSound(scan[s])'
    BY <1>7, <1>8, <1>9
<1>11. root' = root
    BY <1>4 DEF indexed
<1> QED BY <1>3, <1>4, <1>5, <1>6, <1>10, <1>11, OwnStep

LEMMA FileStep ==
    ASSUME Sound, ScanTyped', NEW s \in Scanners, NEW f \in MediaFiles,
           VisitFile(s, f) \/ MeetFile(s, f)
    PROVE  Sound'
<1> DEFINE c == scan[s]
           n == scan'[s]
<1>1. c.at = "walk" /\ Owns(s) /\ c.at \in Working
    BY DEF VisitFile, MeetFile, Walking, At, Working
<1>2. /\ Owner(s) /\ ScanTyped /\ c \in ScanRecord /\ unfinished /\ Gathered(c)
      /\ ~c.err => SkipsAreRight(c) /\ NothingLost(c) /\ LooseIsBlind(c)
    BY <1>1, WorkerFacts
<1>3. UNCHANGED <<indexed, unfinished, token, watch>>
    BY DEF VisitFile, MeetFile, indexed, library, told
<1>4. IndexIsSound' /\ unfinished'
    BY <1>2, <1>3, IndexStays DEF Sound
<1>5. /\ \A u \in Scanners \ {s} : scan'[u] = scan[u]
      /\ n.at = "walk" /\ n.root = c.root /\ n.same = c.same /\ n.passed = c.passed
      /\ n.entered = c.entered /\ n.seen = c.seen /\ n.read = c.read /\ n.fresh = c.fresh
      /\ n.touched = c.touched /\ n.shifted = c.shifted
      /\ c.err => n.err
    BY <1>2, FileFacts
<1>6. \/ f \in there /\ f \in c.ahead /\ n.ahead = c.ahead \ {f} /\ n.batch = c.batch \cup {f}
      \/ n.err /\ n.ahead = c.ahead \ {f} /\ n.batch = c.batch
      \/ f \notin there /\ n.ahead = c.ahead \ {f} /\ n.batch = c.batch
      \/ /\ f \in there /\ DirOf(f) \in c.entered
         /\ n.ahead = c.ahead /\ n.batch = c.batch \cup {f}
    BY <1>2, FileFacts
<1>7. Gathered(scan[s])'
    BY <1>2, <1>3, <1>5, <1>6 DEF Gathered, indexed
<1>8. ASSUME ~n.err
      PROVE  SkipsAreRight(scan[s])' /\ NothingLost(scan[s])' /\ LooseIsBlind(scan[s])'
    <2>1. SkipsAreRight(c) /\ NothingLost(c) /\ LooseIsBlind(c)
        BY <1>2, <1>5, <1>8
    <2>2. SkipsAreRight(scan[s])'
        BY <1>3, <1>5, <2>1 DEF SkipsAreRight, Vouched, Correct, indexed
    <2>3. ASSUME NEW g \in MediaFiles, DirOf(g) \in n.passed
          PROVE  Tracked(scan[s], g)' \/ (g \in n.touched /\ Loose(scan[s], DirOf(g))')
        <3>1. Tracked(c, g) \/ (g \in c.touched /\ Loose(c, DirOf(g)))
            BY <1>5, <2>1, <2>3 DEF NothingLost
        <3>2. Tracked(c, g) => Tracked(scan[s], g)'
            BY <1>3, <1>5, <1>6, <1>8 DEF Tracked, Shown, indexed
        <3>3. Loose(c, DirOf(g)) => Loose(scan[s], DirOf(g))'
            BY <1>3, <1>5 DEF Loose, indexed
        <3> QED BY <1>5, <3>1, <3>2, <3>3
    <2>4. NothingLost(scan[s])'
        BY <2>3 DEF NothingLost
    <2>5. LooseIsBlind(scan[s])'
        BY <1>1, <1>3, <1>5, <2>1 DEF LooseIsBlind, Loose, indexed
    <2> QED BY <2>2, <2>4, <2>5
<1>9. WorkIsSound(scan[s])'
    BY <1>4, <1>5, <1>7, <1>8, WalkIsSound
<1>10. root' = root
    BY <1>3 DEF indexed
<1> QED BY <1>2, <1>3, <1>4, <1>5, <1>9, <1>10, OwnStep

\* The directories whose mtimes a batch touches have been passed.
LEMMA ChainIsPassed ==
    ASSUME NEW c, Gathered(c), root.span \subseteq Dirs
    PROVE  ChainOf(c.batch) \subseteq c.passed
<1>1. \A f \in c.batch : DirOf(f) \in c.passed
    BY DEF Gathered
<1>2. ASSUME "sub" \in {DirOf(f) : f \in c.batch} PROVE root.span \subseteq c.passed
    <2>1. "sub" \in c.passed
        BY <1>1, <1>2
    <2> QED BY <2>1 DEF Gathered, Dirs
<1> QED BY <1>1, <1>2 DEF ChainOf

LEMMA PrefetchStep ==
    ASSUME Sound, ScanTyped', NEW s \in Scanners, PrefetchMtimes(s)
    PROVE  Sound'
<1> DEFINE c == scan[s]
           n == scan'[s]
           now == ChainOf(c.batch) \ c.read
<1>1. c.at = "walk" /\ Owns(s) /\ c.at \in Working
    BY DEF PrefetchMtimes, Walking, At, Working
<1>2. /\ Owner(s) /\ ScanTyped /\ c \in ScanRecord /\ unfinished /\ Gathered(c)
      /\ root.span \subseteq Dirs
      /\ ~c.err => SkipsAreRight(c) /\ NothingLost(c) /\ LooseIsBlind(c)
    BY <1>1, WorkerFacts
<1>3. UNCHANGED <<indexed, unfinished, token, watch>>
    BY DEF PrefetchMtimes, indexed, library, told
<1>4. IndexIsSound' /\ unfinished'
    BY <1>2, <1>3, IndexStays DEF Sound
<1>5. /\ \A u \in Scanners \ {s} : scan'[u] = scan[u]
      /\ n.at = "commit" /\ n.root = c.root /\ n.same = c.same
      /\ n.passed = c.passed /\ n.entered = c.entered /\ n.ahead = c.ahead
      /\ n.batch = c.batch /\ n.seen = c.seen /\ n.err = c.err
      /\ n.touched = c.touched /\ n.shifted = c.shifted
      /\ n.read = c.read \cup now
      /\ n.fresh = c.fresh \/ n.fresh = c.fresh \cup now
    <2>1. /\ \A u \in Scanners \ {s} : scan'[u] = scan[u]
          /\ n.at = "commit" /\ n.root = c.root /\ n.same = c.same
          /\ n.passed = c.passed /\ n.entered = c.entered /\ n.ahead = c.ahead
          /\ n.batch = c.batch /\ n.seen = c.seen /\ n.err = c.err
          /\ n.touched = c.touched /\ n.shifted = c.shifted
          /\ n.read = c.read \cup now
          /\ n.fresh = c.fresh \cup (IF plugged THEN now ELSE {})
        BY <1>2, PrefetchFacts
    <2> HIDE DEF now, n, c
    <2>2. n.fresh = c.fresh \/ n.fresh = c.fresh \cup now
        <3>1. CASE plugged
            BY <2>1, <3>1
        <3>2. CASE ~plugged
            <4>1. n.fresh = c.fresh \cup {}
                BY <2>1, <3>2
            <4> QED BY <4>1
        <3> QED BY <3>1, <3>2
    <2> QED BY <2>1, <2>2
<1>6. now \subseteq c.passed /\ now \cap c.read = {}
    BY <1>2, ChainIsPassed
<1>7. ChainOf(c.batch)' = ChainOf(c.batch)
    BY <1>3, <1>5 DEF ChainOf, indexed
<1>8. now \subseteq ChainOf(c.batch)
    OBVIOUS
<1> HIDE DEF now
<1>9. Gathered(scan[s])'
    BY <1>2, <1>3, <1>5, <1>6 DEF Gathered, indexed
<1>10. ASSUME ~n.err
       PROVE  SkipsAreRight(scan[s])' /\ NothingLost(scan[s])' /\ LooseIsBlind(scan[s])'
    <2>1. SkipsAreRight(c) /\ NothingLost(c) /\ LooseIsBlind(c)
        BY <1>2, <1>5, <1>10
    <2>2. SkipsAreRight(scan[s])'
        BY <1>3, <1>5, <2>1 DEF SkipsAreRight, Vouched, Correct, indexed
    <2>3. ASSUME NEW g \in MediaFiles, DirOf(g) \in n.passed
          PROVE  Tracked(scan[s], g)' \/ (g \in n.touched /\ Loose(scan[s], DirOf(g))')
        <3>1. Tracked(c, g) \/ (g \in c.touched /\ Loose(c, DirOf(g)))
            BY <1>5, <2>1, <2>3 DEF NothingLost
        <3>2. Tracked(c, g) => Tracked(scan[s], g)'
            BY <1>3, <1>5 DEF Tracked, Shown, indexed
        <3>3. Loose(c, DirOf(g)) => Loose(scan[s], DirOf(g))'
            BY <1>3, <1>5, <1>6 DEF Loose, indexed
        <3> QED BY <1>5, <3>1, <3>2, <3>3
    <2>4. NothingLost(scan[s])'
        BY <2>3 DEF NothingLost
    <2>5. ASSUME NEW d \in n.passed \cap based, Loose(scan[s], d)'
          PROVE  \/ d \in blind
                 \/ d \in ChainOf(c.batch) /\ d \in n.read \ n.fresh
        <3>1. CASE d \in now /\ d \notin n.fresh
            BY <1>5, <1>8, <3>1
        <3>2. CASE d \in now /\ d \in n.fresh
            <4>1. d \in blind \/ d \in c.shifted
                BY <1>3, <1>5, <2>5, <3>2 DEF Loose, indexed
            <4>2. d \notin c.shifted
                BY <1>5, <1>6, <2>1, <2>5, <3>2 DEF LooseIsBlind
            <4> QED BY <4>1, <4>2
        <3>3. CASE d \notin now
            <4>1. Loose(c, d)
                BY <1>3, <1>5, <2>5, <3>3 DEF Loose, indexed
            <4> QED BY <1>1, <1>5, <2>1, <2>5, <4>1 DEF LooseIsBlind
        <3> QED BY <3>1, <3>2, <3>3
    <2>6. (n.passed \ n.read) \cap n.shifted \cap based = {}
        BY <1>5, <2>1 DEF LooseIsBlind
    <2>7. LooseIsBlind(scan[s])'
        BY <1>3, <1>5, <1>7, <2>5, <2>6 DEF LooseIsBlind, indexed
    <2> QED BY <2>2, <2>4, <2>7
<1>11. WorkIsSound(scan[s])'
    BY <1>4, <1>5, <1>9, <1>10, WalkIsSound
<1>12. root' = root
    BY <1>3 DEF indexed
<1> QED BY <1>2, <1>3, <1>4, <1>5, <1>11, <1>12, OwnStep

LEMMA EndStep ==
    ASSUME Sound, ScanTyped', NEW s \in Scanners, EndWalk(s)
    PROVE  Sound'
<1> DEFINE c == scan[s]
           n == scan'[s]
<1>1. /\ c.at = "walk" /\ Owns(s) /\ c.at \in Working
      /\ c.passed = root.span /\ c.ahead = {} /\ c.batch = {}
    BY DEF EndWalk, Walking, At, Working
<1>2. /\ Owner(s) /\ ScanTyped /\ c \in ScanRecord /\ unfinished /\ Gathered(c)
      /\ root.span \subseteq Dirs
      /\ ~c.err => SkipsAreRight(c) /\ NothingLost(c) /\ LooseIsBlind(c)
    BY <1>1, WorkerFacts
<1>3. UNCHANGED <<indexed, unfinished, token, watch>>
    BY DEF EndWalk, indexed, library, told
<1>4. IndexIsSound' /\ unfinished'
    BY <1>2, <1>3, IndexStays DEF Sound
<1>5. /\ \A u \in Scanners \ {s} : scan'[u] = scan[u]
      /\ n.at = "final" /\ n.root = c.root
      /\ n.seen = c.seen /\ n.touched = c.touched /\ n.err = (c.err \/ ~plugged)
    BY <1>2, EndFacts
<1>6. ASSUME ~n.err PROVE WalkIsTrue(scan[s])'
    <2>1. NothingLost(c) /\ LooseIsBlind(c)
        BY <1>2, <1>5, <1>6
    <2>2. ASSUME NEW f \in MediaFiles, DirOf(f) \in root.span
          PROVE  \/ Shown(c, f) <=> f \in there
                 \/ f \in c.touched /\ (DirOf(f) \in based => DirOf(f) \in blind)
        <3>1. CASE Tracked(c, f)
            BY <1>1, <3>1 DEF Tracked
        <3>2. CASE f \in c.touched /\ Loose(c, DirOf(f))
            BY <1>1, <2>1, <2>2, <3>2 DEF LooseIsBlind
        <3> QED BY <1>1, <2>1, <2>2, <3>1, <3>2 DEF NothingLost
    <2> QED BY <1>3, <1>5, <2>2 DEF WalkIsTrue, Shown, indexed
<1>7. WorkIsSound(scan[s])'
    BY <1>4, <1>5, <1>6 DEF WorkIsSound, Marked
<1>8. root' = root
    BY <1>3 DEF indexed
<1> QED BY <1>2, <1>3, <1>4, <1>5, <1>7, <1>8, OwnStep

LEMMA CommitStep ==
    ASSUME Sound, ScanTyped', NEW s \in Scanners, CommitBatch(s), MayWrite(s)
    PROVE  Sound'
<1> DEFINE c == scan[s]
           n == scan'[s]
           chain == ChainOf(c.batch)
<1>1. c.at = "commit" /\ Owns(s) /\ c.at \in Working
    BY DEF CommitBatch, At, MayWrite, Working
<1>2. /\ Owner(s) /\ ScanTyped /\ c \in ScanRecord /\ unfinished /\ Gathered(c)
      /\ root.span \subseteq Dirs
      /\ ~c.err => SkipsAreRight(c) /\ NothingLost(c) /\ LooseIsBlind(c)
    BY <1>1, WorkerFacts
<1>3. UNCHANGED <<root, there, drift, unfinished, token, watch>>
    BY DEF CommitBatch
<1>4. /\ avail' = [f \in MediaFiles |-> IF f \in c.batch THEN "online" ELSE avail[f]]
      /\ based' = (based \ chain) \cup (c.fresh \cap chain)
      /\ blind' = (blind \ (chain \cap c.entered)) \cup ((c.fresh \cap chain) \cap c.shifted)
    BY DEF CommitBatch
<1>5. /\ \A u \in Scanners \ {s} : scan'[u] = scan[u]
      /\ n.root = c.root
      /\ n.at = "walk" /\ n.same = c.same /\ n.passed = c.passed /\ n.entered = c.entered
      /\ n.ahead = c.ahead /\ n.batch = {} /\ n.seen = c.seen \cup c.batch
      /\ n.read = c.read /\ n.fresh = c.fresh /\ n.err = c.err
      /\ n.touched = c.touched /\ n.shifted = c.shifted
    BY <1>2, CommitFacts
<1>6. chain \subseteq c.passed /\ chain \subseteq root.span
    BY <1>2, ChainIsPassed DEF Gathered
<1> HIDE DEF chain
<1>7. unfinished'
    BY <1>2, <1>3
<1>8. IndexIsSound'
    <2>1. OutsideIsUnknown'
        BY <1>3, <1>4, <1>6 DEF Sound, IndexIsSound, OutsideIsUnknown
    <2>2. KnownIsCorrect'
        <3>1. \A f \in c.batch : f \in there \/ f \in drift
            BY <1>2 DEF Gathered
        <3> QED BY <1>3, <1>4, <3>1 DEF Sound, IndexIsSound, KnownIsCorrect, Correct
    <2>3. MtimesVouch' /\ SnapshotIsTrue'
        BY <1>3, <1>7 DEF MtimesVouch, SnapshotIsTrue, Sound, IndexIsSound
    <2> QED BY <2>1, <2>2, <2>3 DEF IndexIsSound
<1>9. Gathered(scan[s])'
    BY <1>2, <1>3, <1>5 DEF Gathered
<1>10. ASSUME ~n.err
       PROVE  SkipsAreRight(scan[s])' /\ NothingLost(scan[s])' /\ LooseIsBlind(scan[s])'
    <2>1. SkipsAreRight(c) /\ NothingLost(c) /\ LooseIsBlind(c)
        BY <1>2, <1>5, <1>10
    <2>2. SkipsAreRight(scan[s])'
        <3>1. c.same \cap c.passed = {} /\ c.same \cap c.entered = {}
            BY <1>2, <2>1 DEF SkipsAreRight, Gathered
        <3>2. ASSUME NEW d \in c.same \ blind', NEW f \in MediaFiles, DirOf(f) = d
              PROVE  Correct(f)'
            <4>1. d \notin blind /\ f \notin c.batch
                BY <1>2, <1>4, <3>1, <3>2 DEF Gathered
            <4> QED BY <1>3, <1>4, <2>1, <3>2, <4>1 DEF SkipsAreRight, Vouched, Correct
        <3> QED BY <1>5, <3>1, <3>2 DEF SkipsAreRight, Vouched
    <2>3. \A d : Loose(c, d) => Loose(scan[s], d)'
        BY <1>4, <1>5 DEF Loose
    <2>4. ASSUME NEW g \in MediaFiles, DirOf(g) \in n.passed
          PROVE  Tracked(scan[s], g)' \/ (g \in n.touched /\ Loose(scan[s], DirOf(g))')
        <3>1. Tracked(c, g) \/ (g \in c.touched /\ Loose(c, DirOf(g)))
            BY <1>5, <2>1, <2>4 DEF NothingLost
        <3>2. Tracked(c, g) => Tracked(scan[s], g)'
            BY <1>3, <1>4, <1>5 DEF Tracked, Shown
        <3> QED BY <1>5, <2>3, <3>1, <3>2
    <2>5. NothingLost(scan[s])'
        BY <2>4 DEF NothingLost
    <2>6. ASSUME NEW d \in n.passed \cap based', Loose(scan[s], d)' PROVE d \in blind'
        <3>1. CASE d \in chain
            <4>1. d \in c.fresh
                BY <1>4, <2>6, <3>1
            <4> QED BY <1>4, <1>5, <2>6, <3>1, <4>1 DEF Loose
        <3>2. CASE d \notin chain
            <4>1. Loose(c, d) /\ d \in based
                BY <1>4, <1>5, <2>6, <3>2 DEF Loose
            <4>2. d \in blind
                BY <1>5, <2>1, <2>6, <3>2, <4>1 DEF LooseIsBlind, chain
            <4> QED BY <1>4, <3>2, <4>2
        <3> QED BY <3>1, <3>2
    <2>7. (n.passed \ n.read) \cap n.shifted \cap based' = {}
        BY <1>2, <1>4, <1>5, <2>1 DEF LooseIsBlind, Gathered
    <2>8. LooseIsBlind(scan[s])'
        BY <2>6, <2>7 DEF LooseIsBlind
    <2> QED BY <2>2, <2>5, <2>8
<1>11. WorkIsSound(scan[s])'
    BY <1>5, <1>7, <1>9, <1>10, WalkIsSound
<1> QED BY <1>2, <1>3, <1>5, <1>8, <1>11, OwnStep

LEMMA FinalStep ==
    ASSUME Sound, ScanTyped', NEW s \in Scanners, FinalizeScan(s), MayWrite(s), ~scan[s].err
    PROVE  Sound'
<1> DEFINE c == scan[s]
           n == scan'[s]
<1>1. c.at = "final" /\ Owns(s) /\ c.at \in Working
    BY DEF FinalizeScan, At, MayWrite, Working
<1>2. Owner(s) /\ ScanTyped /\ WalkIsTrue(c)
    BY <1>1, WorkerFacts
<1>3. UNCHANGED <<root, there, based, blind, token, watch>> /\ unfinished' = FALSE
    BY DEF FinalizeScan
<1>4. \A f \in MediaFiles :
          avail'[f] = IF DirOf(f) \in root.span /\ f \notin c.seen /\ avail[f] = "online"
                      THEN "missing" ELSE avail[f]
    BY FilesOfDirs DEF FinalizeScan
<1>5. \A f \in MediaFiles :
          f \in drift' <=> f \in c.touched \/ (f \in drift /\ DirOf(f) \notin root.span)
    BY FilesOfDirs DEF FinalizeScan
<1>6. /\ \A u \in Scanners \ {s} : scan'[u] = scan[u]
      /\ n.at = "after" /\ n.root = c.root
    <2>1. Shed(s, "after") /\ "after" \in ScanPlaces
        BY DEF FinalizeScan, ScanPlaces
    <2>2. scan \in Calls
        BY <1>2 DEF ScanTyped, Calls
    <2> QED BY <2>1, <2>2, ShedFacts
<1>7. \A f \in MediaFiles : DirOf(f) \in root.span =>
          \/ Correct(f)'
          \/ f \in c.touched /\ (DirOf(f) \in based => DirOf(f) \in blind)
    BY <1>2, <1>3, <1>4 DEF WalkIsTrue, Shown, Correct
<1>8. IndexIsSound'
    <2>1. OutsideIsUnknown'
        BY <1>3, <1>5 DEF Sound, IndexIsSound, OutsideIsUnknown
    <2>2. KnownIsCorrect'
        BY <1>3, <1>5, <1>7 DEF KnownIsCorrect
    <2>3. MtimesVouch'
        BY <1>3, <1>7 DEF MtimesVouch, Vouched, Sound, IndexIsSound, OutsideIsUnknown
    <2>4. SnapshotIsTrue'
        BY <1>3 DEF SnapshotIsTrue, Sound, IndexIsSound
    <2> QED BY <2>1, <2>2, <2>3, <2>4 DEF IndexIsSound
<1>9. WorkIsSound(scan[s])'
    BY <1>6 DEF WorkIsSound, Marked
<1> QED BY <1>2, <1>3, <1>6, <1>8, <1>9, OwnStep

----------------------------------------------------------------------------
(* The disk, the watcher, and the roots.                                   *)

LEMMA ChangeStep ==
    ASSUME Sound, ScanTyped', NEW f \in MediaFiles, ChangeDisk(f)
    PROVE  Sound'
<1> DEFINE d == DirOf(f)
<1>0. ScanTyped /\ watch \in WatchRecord /\ d \in Dirs
    BY ModelFacts DEF Sound, ScanTyped
<1>1. /\ \A g : g # f => (g \in there' <=> g \in there)
      /\ based' = based \ {d} /\ blind' = blind \ {d} /\ drift' = drift \cup {f}
      /\ UNCHANGED <<root, avail, unfinished, token>>
    BY DEF ChangeDisk
<1>2. \A g : DirOf(g) # d => (g \in there' <=> g \in there)
    BY <1>1
<1>3. \/ watch' = watch /\ watch.dir # d
      \/ ~watch'.valid
    BY <1>0 DEF ChangeDisk, WatchRecord
<1>4. \A s \in Scanners :
          LET c == scan[s]
              n == scan'[s] IN
          /\ n.at = c.at /\ n.root = c.root
          /\ n.passed = c.passed /\ n.entered = c.entered /\ n.ahead = c.ahead
          /\ n.batch = c.batch /\ n.seen = c.seen /\ n.read = c.read /\ n.err = c.err
          /\ c.at \in {"walk", "commit", "final"} =>
                 /\ n.same = c.same \ {d} /\ n.fresh = c.fresh \ {d}
                 /\ n.touched = c.touched \cup {f}
                 /\ n.shifted = IF d \in c.passed \ c.read THEN c.shifted \cup {d}
                                ELSE c.shifted
    BY <1>0, ChangeFacts
<1> HIDE DEF d
<1>5. IndexIsSound'
    <2>1. OutsideIsUnknown'
        BY <1>1 DEF Sound, IndexIsSound, OutsideIsUnknown
    <2>2. KnownIsCorrect'
        BY <1>1 DEF Sound, IndexIsSound, KnownIsCorrect, Correct
    <2>3. MtimesVouch'
        BY <1>1, <1>2 DEF Sound, IndexIsSound, MtimesVouch, Vouched, Correct
    <2>4. SnapshotIsTrue'
        <3>1. CASE ~watch'.valid
            BY <3>1 DEF SnapshotIsTrue
        <3>2. CASE watch' = watch /\ watch.dir # d
            BY <1>1, <1>2, <3>2 DEF Sound, IndexIsSound, SnapshotIsTrue, d
        <3> QED BY <1>3, <3>1, <3>2
    <2> QED BY <2>1, <2>2, <2>3, <2>4 DEF IndexIsSound
<1>6. \A s \in Scanners : Owner(s)' <=> Owner(s)
    BY <1>1, <1>4 DEF Owner, Owns
<1>7. OwnersHaveTheRoot'
    BY <1>1, <1>4, <1>6 DEF Sound, OwnersHaveTheRoot
<1>8. ASSUME NEW s \in Scanners, Owner(s)
      PROVE  WorkIsSound(scan[s])'
    <2> DEFINE c == scan[s]
               n == scan'[s]
    <2>1. WorkIsSound(c) /\ c \in ScanRecord
        BY <1>0, <1>8, OwnerFacts DEF Sound, WorkersAreSound
    <2>2. /\ n.at = c.at /\ n.root = c.root
          /\ n.passed = c.passed /\ n.entered = c.entered /\ n.ahead = c.ahead
          /\ n.batch = c.batch /\ n.seen = c.seen /\ n.read = c.read /\ n.err = c.err
        BY <1>4
    <2>3. Marked(scan[s])'
        BY <1>1, <2>1, <2>2 DEF WorkIsSound, Marked
    <2>4. ASSUME c.at \in {"walk", "commit", "final"}
          PROVE  /\ n.same = c.same \ {d} /\ n.fresh = c.fresh \ {d}
                 /\ n.touched = c.touched \cup {f}
                 /\ n.shifted = IF d \in c.passed \ c.read THEN c.shifted \cup {d}
                                ELSE c.shifted
        BY <1>4, <2>4
    <2>5. ASSUME c.at \in {"walk", "commit"} PROVE Gathered(scan[s])'
        <3>1. Gathered(c)
            BY <2>1, <2>5 DEF WorkIsSound
        <3> QED BY <1>1, <2>2, <2>4, <2>5, <3>1 DEF Gathered
    <2>6. ASSUME c.at \in {"walk", "commit"}, ~c.err
          PROVE  SkipsAreRight(scan[s])' /\ NothingLost(scan[s])' /\ LooseIsBlind(scan[s])'
        <3>1. SkipsAreRight(c) /\ NothingLost(c) /\ LooseIsBlind(c)
            BY <2>1, <2>6 DEF WorkIsSound
        <3>2. /\ n.same = c.same \ {d} /\ n.fresh = c.fresh \ {d}
              /\ n.touched = c.touched \cup {f}
              /\ n.shifted = IF d \in c.passed \ c.read THEN c.shifted \cup {d}
                             ELSE c.shifted
            BY <2>4, <2>6
        <3>3. SkipsAreRight(scan[s])'
            BY <1>1, <1>2, <2>2, <3>1, <3>2 DEF SkipsAreRight, Vouched, Correct
        <3>4. d \in c.passed => Loose(scan[s], d)'
            BY <1>1, <2>2, <3>2 DEF Loose
        <3>5. \A e : e # d => (Loose(scan[s], e)' <=> Loose(c, e))
            BY <1>1, <2>2, <3>2 DEF Loose
        <3>6. ASSUME NEW g \in MediaFiles, DirOf(g) \in n.passed
              PROVE  Tracked(scan[s], g)' \/ (g \in n.touched /\ Loose(scan[s], DirOf(g))')
            <4>1. Tracked(c, g) \/ (g \in c.touched /\ Loose(c, DirOf(g)))
                BY <2>2, <3>1, <3>6 DEF NothingLost
            <4>2. CASE g = f
                BY <2>2, <3>2, <3>4, <3>6, <4>2 DEF d
            <4>3. CASE g # f
                <5>1. Tracked(c, g) => Tracked(scan[s], g)'
                    BY <1>1, <2>2, <4>3 DEF Tracked, Shown
                <5>2. Loose(c, DirOf(g)) => Loose(scan[s], DirOf(g))'
                    BY <2>2, <3>4, <3>5, <3>6
                <5> QED BY <3>2, <4>1, <5>1, <5>2
            <4> QED BY <4>2, <4>3
        <3>7. NothingLost(scan[s])'
            BY <3>6 DEF NothingLost
        <3>8. ChainOf(c.batch)' = ChainOf(c.batch)
            BY <1>1, <2>2 DEF ChainOf
        <3>9. ASSUME NEW e \in n.passed \cap based', Loose(scan[s], e)'
              PROVE  \/ e \in blind'
                     \/ n.at = "commit" /\ e \in ChainOf(c.batch) /\ e \in n.read \ n.fresh
            <4>1. e # d /\ e \in based /\ Loose(c, e)
                BY <1>1, <3>5, <3>9
            <4>2. \/ e \in blind
                  \/ c.at = "commit" /\ e \in ChainOf(c.batch) /\ e \in c.read \ c.fresh
                BY <2>2, <3>1, <3>9, <4>1 DEF LooseIsBlind
            <4> QED BY <1>1, <2>2, <3>2, <4>1, <4>2
        <3>10. (n.passed \ n.read) \cap n.shifted \cap based' = {}
            BY <1>1, <2>2, <3>1, <3>2 DEF LooseIsBlind
        <3>11. LooseIsBlind(scan[s])'
            BY <2>2, <3>8, <3>9, <3>10 DEF LooseIsBlind
        <3> QED BY <3>3, <3>7, <3>11
    <2>7. ASSUME c.at = "final", ~c.err PROVE WalkIsTrue(scan[s])'
        <3>1. WalkIsTrue(c) /\ n.touched = c.touched \cup {f}
            BY <2>1, <2>4, <2>7 DEF WorkIsSound
        <3>2. ASSUME NEW g \in MediaFiles, DirOf(g) \in root.span
              PROVE  \/ Shown(scan[s], g)' <=> g \in there'
                     \/ g \in n.touched /\ (DirOf(g) \in based' => DirOf(g) \in blind')
            <4>1. CASE g = f
                BY <1>1, <3>1, <4>1 DEF d
            <4>2. CASE g # f
                BY <1>1, <2>2, <3>1, <3>2, <4>2 DEF WalkIsTrue, Shown
            <4> QED BY <4>1, <4>2
        <3> QED BY <1>1, <3>2 DEF WalkIsTrue
    <2> QED BY <2>2, <2>3, <2>5, <2>6, <2>7 DEF WorkIsSound
<1>9. WorkersAreSound'
    BY <1>6, <1>8 DEF WorkersAreSound
<1> QED BY <1>5, <1>7, <1>9 DEF Sound

\* After its root's token is gone nobody owns the root.
LEMMA NoOwnerLeft ==
    ASSUME Sound, ScanTyped', Revoked(root.id),
           \A u \in Scanners : scan'[u].at = scan[u].at /\ scan'[u].root = scan[u].root
    PROVE  \A u \in Scanners : ~Owner(u)'
<1> SUFFICES ASSUME NEW u \in Scanners, Owner(u)' PROVE FALSE
    OBVIOUS
<1>1. scan[u].at \in Working /\ scan[u].root \in RootIds /\ token'[scan[u].root] = u
    BY DEF Owner, Owns, ScanTyped, At, Working
<1>2. token \in [RootIds -> Scanners \cup {Nobody}]
    BY DEF Sound, ScanTyped, ScanTypeOK
<1>3. scan[u].root # root.id /\ token[scan[u].root] = u
    BY <1>1, <1>2, ModelFacts DEF Revoked
<1> QED BY <1>1, <1>3 DEF Owner, Owns, Sound, OwnersHaveTheRoot

LEMMA EmptiedIndex ==
    ASSUME Emptied, SnapshotIsTrue'
    PROVE  IndexIsSound'
<1>1. OutsideIsUnknown' /\ KnownIsCorrect' /\ MtimesVouch'
    BY ModelFacts DEF Emptied, OutsideIsUnknown, KnownIsCorrect, MtimesVouch
<1> QED BY <1>1 DEF IndexIsSound

LEMMA CommandStep ==
    ASSUME Sound, ScanTyped', Commands
    PROVE  Sound'
<1>0. /\ ScanTyped /\ IndexIsSound /\ token \in [RootIds -> Scanners \cup {Nobody}]
      /\ scan \in Calls
    BY DEF Sound, ScanTyped, ScanTypeOK, Calls
<1>1. ASSUME NEW r \in RootIds, StopScan(r) PROVE Sound'
    <2>1. \A x \in RootIds, u \in Scanners : token'[x] = u => token[x] = u
        BY <1>0, <1>1, ModelFacts DEF StopScan, Revoked
    <2>2. UNCHANGED <<scan, indexed, unfinished, watch>>
        BY <1>1 DEF StopScan, indexed, library
    <2>3. ASSUME NEW u \in Scanners, Owner(u)' PROVE Owner(u) /\ scan'[u] = scan[u]
        <3>1. scan[u].root \in RootIds
            BY <1>0, <2>2, <2>3 DEF ScanTyped, Owner, At, Working
        <3> QED BY <2>1, <2>2, <2>3, <3>1 DEF Owner, Owns
    <2> QED BY <2>2, <2>3, QuietStep
<1>2. ASSUME NEW span \in Spans, AddRoot(span) PROVE Sound'
    <2>1. \A u \in Scanners : ~Owner(u)
        BY <1>0, <1>2, OwnerFacts DEF AddRoot, Sound
    <2>2. \A u \in Scanners : ~Owner(u)'
        BY <1>2, <2>1 DEF AddRoot, scanning, Owner, Owns
    <2>3. root = NoRoot /\ UNCHANGED <<there, avail, based, blind, drift, unfinished, watch>>
        BY <1>2 DEF AddRoot, told
    <2>4. based = {} /\ \A f \in MediaFiles : f \in drift
        BY <1>0, <2>3, ModelFacts DEF IndexIsSound, OutsideIsUnknown
    <2>5. OutsideIsUnknown' /\ KnownIsCorrect' /\ MtimesVouch'
        BY <2>3, <2>4 DEF OutsideIsUnknown, KnownIsCorrect, MtimesVouch
    <2>6. SnapshotIsTrue'
        BY <1>0, <2>3 DEF IndexIsSound, SnapshotIsTrue
    <2> QED BY <2>2, <2>5, <2>6, NobodyStep DEF IndexIsSound
<1>3. CASE RemoveRoot
    <2>1. Revoked(root.id) /\ Emptied /\ UNCHANGED <<scan, there, watch>>
        BY <1>3 DEF RemoveRoot
    <2>2. SnapshotIsTrue'
        BY <1>0, <2>1 DEF IndexIsSound, SnapshotIsTrue
    <2> QED BY <2>1, <2>2, NoOwnerLeft, EmptiedIndex, NobodyStep
<1>4. CASE MergeRoot
    <2>1. /\ Revoked(root.id) /\ root.span = {"sub"} /\ root'.span = Dirs
          /\ UNCHANGED <<scan, there, avail, based, drift, watch>>
          /\ blind' = IF unfinished THEN based ELSE blind
        BY <1>4 DEF MergeRoot
    <2>2. SnapshotIsTrue'
        BY <1>0, <2>1 DEF IndexIsSound, SnapshotIsTrue
    <2>3. OutsideIsUnknown'
        BY <1>0, <2>1, ModelFacts DEF IndexIsSound, OutsideIsUnknown, Dirs
    <2>4. KnownIsCorrect'
        BY <1>0, <2>1 DEF IndexIsSound, OutsideIsUnknown, KnownIsCorrect, Correct
    <2>5. MtimesVouch'
        BY <1>0, <2>1 DEF IndexIsSound, MtimesVouch, Vouched, Correct
    <2> QED BY <2>1, <2>2, <2>3, <2>4, <2>5, NoOwnerLeft, NobodyStep DEF IndexIsSound
<1>5. CASE CloseDown
    <2>1. scan' = [s \in Scanners |->
                      IF At(s, "path") THEN [scan[s] EXCEPT !.old = TRUE] ELSE scan[s]]
        BY <1>5 DEF CloseDown
    <2>2. \A u \in Scanners : /\ scan'[u].at = scan[u].at /\ scan'[u].root = scan[u].root
                              /\ scan'[u].at \in Working => scan'[u] = scan[u]
        BY <1>0, <2>1 DEF Calls, ScanRecord, At, Working
    <2>3. watch' = Unread /\ SnapshotIsTrue'
        BY <1>5, ModelFacts DEF CloseDown, SnapshotIsTrue
    <2>4. CASE closing = "remove"
        BY <1>5, <2>2, <2>3, <2>4, NoOwnerLeft, EmptiedIndex, NobodyStep DEF CloseDown
    <2>5. CASE closing = "clear"
        <3>1. Emptied /\ token' = [r \in RootIds |-> Nobody]
            BY <1>5, <2>5 DEF CloseDown
        <3>2. ASSUME NEW u \in Scanners, Owner(u)' PROVE FALSE
            <4>1. scan'[u].root \in RootIds
                BY <3>2 DEF ScanTyped, Owner, At, Working
            <4> QED BY <3>1, <3>2, <4>1, ModelFacts DEF Owner, Owns
        <3> QED BY <2>3, <3>1, <3>2, EmptiedIndex, NobodyStep
    <2>6. CASE closing = "other"
        <3>1. UNCHANGED <<indexed, unfinished, token>>
            BY <1>5, <2>6 DEF CloseDown, indexed
        <3>2. \A u \in Scanners : Owner(u)' => Owner(u) /\ scan'[u] = scan[u]
            BY <2>2, <3>1 DEF Owner, Owns
        <3> QED BY <2>3, <3>1, <3>2, QuietStep
    <2>7. closing \in {"remove", "clear", "other"}
        BY <1>0, <1>5 DEF CloseDown, ScanTyped, ScanTypeOK
    <2> QED BY <2>4, <2>5, <2>6, <2>7
<1> QED BY <1>1, <1>2, <1>3, <1>4, <1>5 DEF Commands

LEMMA WatcherStep ==
    ASSUME Sound, ScanTyped', Watcher
    PROVE  Sound'
<1>0. ScanTyped /\ IndexIsSound /\ watch \in WatchRecord
    BY DEF Sound, ScanTyped
<1>1. UNCHANGED <<scan, token>>
    BY DEF Watcher, WatchApply, WatchRead, scanning
<1>2. ASSUME NEW d \in Dirs, WatchRead(d) PROVE Sound'
    <2>1. watch' = [dir |-> d, files |-> there \cap FilesIn({d}), root |-> root.id, valid |-> TRUE]
          /\ UNCHANGED <<there, indexed, unfinished>>
        BY <1>2 DEF WatchRead, indexed, library, told
    <2>2. \A f \in MediaFiles : f \in watch'.files <=> f \in there /\ DirOf(f) = watch'.dir
        BY <2>1, FilesOfDirs
    <2>3. SnapshotIsTrue'
        BY <2>1, <2>2 DEF SnapshotIsTrue
    <2> QED BY <1>1, <2>1, <2>3, QuietStep DEF Owner, Owns
<1>3. CASE WatchApply /\ UNCHANGED avail
    <2>1. watch' = Unread /\ UNCHANGED <<indexed, unfinished>>
        BY <1>3 DEF WatchApply, indexed, told
    <2>2. SnapshotIsTrue'
        BY <2>1, ModelFacts DEF SnapshotIsTrue
    <2> QED BY <1>1, <2>1, <2>2, QuietStep DEF Owner, Owns
<1>4. CASE WatchApply /\ ~UNCHANGED avail
    <2>1. /\ watch' = Unread /\ UNCHANGED <<root, there, based, blind, drift, unfinished>>
          /\ token[root.id] = Nobody /\ watch.valid
        BY <1>4 DEF WatchApply, told, SnapshotIsCurrent
    <2>2. avail' = [f \in MediaFiles |->
                       CASE f \in watch.files -> "online"
                         [] f \in FilesIn({watch.dir}) \ watch.files /\ avail[f] = "online" -> "missing"
                         [] OTHER -> avail[f]]
        BY <1>4 DEF WatchApply
    <2>3. \A f \in MediaFiles : f \in watch.files <=> f \in there /\ DirOf(f) = watch.dir
        BY <1>0, <2>1 DEF IndexIsSound, SnapshotIsTrue
    <2>4. \A f \in MediaFiles :
              /\ DirOf(f) = watch.dir => Correct(f)'
              /\ DirOf(f) # watch.dir => (Correct(f)' <=> Correct(f))
        <3> SUFFICES ASSUME NEW f \in MediaFiles
                     PROVE  /\ DirOf(f) = watch.dir => Correct(f)'
                            /\ DirOf(f) # watch.dir => (Correct(f)' <=> Correct(f))
            OBVIOUS
        <3>1. f \in FilesIn({watch.dir}) <=> DirOf(f) = watch.dir
            BY FilesOfDirs
        <3>2. CASE f \in watch.files
            BY <2>1, <2>2, <2>3, <3>2 DEF Correct
        <3>3. CASE f \notin watch.files /\ DirOf(f) = watch.dir
            BY <2>1, <2>2, <2>3, <3>1, <3>3 DEF Correct
        <3>4. CASE f \notin watch.files /\ DirOf(f) # watch.dir
            BY <2>1, <2>2, <3>1, <3>4 DEF Correct
        <3> QED BY <3>2, <3>3, <3>4
    <2>5. OutsideIsUnknown' /\ KnownIsCorrect' /\ MtimesVouch'
        BY <1>0, <2>1, <2>4 DEF IndexIsSound, OutsideIsUnknown, KnownIsCorrect, MtimesVouch, Vouched
    <2>6. SnapshotIsTrue'
        BY <2>1, ModelFacts DEF SnapshotIsTrue
    <2>7. \A u \in Scanners : ~Owner(u)'
        <3>1. \A u \in Scanners : ~Owner(u)
            BY <1>0, <2>1, OwnerFacts DEF Sound
        <3> QED BY <1>1, <3>1 DEF Owner, Owns
    <2> QED BY <2>5, <2>6, <2>7, NobodyStep DEF IndexIsSound
<1> QED BY <1>2, <1>3, <1>4 DEF Watcher

LEMMA EventStep ==
    ASSUME Sound, ScanTyped', Events
    PROVE  Sound'
<1>1. CASE PlugOrUnplug \/ \E what \in {"other", "remove", "clear"} : Announce(what)
    <2>1. UNCHANGED <<scan, token, indexed, unfinished, watch>>
        BY <1>1 DEF PlugOrUnplug, Announce, indexed, library, scanning, told
    <2> QED BY <2>1, QuietStep DEF Owner, Owns
<1>2. CASE KillScans
    <2>1. /\ scan' = [s \in Scanners |-> NoScan] /\ watch' = Unread
          /\ UNCHANGED <<indexed, unfinished>>
        BY <1>2 DEF KillScans, indexed, library
    <2>2. \A u \in Scanners : ~Owner(u)'
        BY <2>1, NoScanFacts DEF Owner, Working
    <2>3. SnapshotIsTrue'
        BY <2>1, ModelFacts DEF SnapshotIsTrue
    <2> QED BY <2>1, <2>2, <2>3, QuietStep
<1>3. ASSUME NEW f \in MediaFiles, ChangeDisk(f) PROVE Sound'
    BY <1>3, ChangeStep
<1>4. ASSUME NEW s \in Scanners, PanicScan(s) PROVE Sound'
    BY <1>4, QuietCallStep
<1> QED BY <1>1, <1>2, <1>3, <1>4 DEF Events

LEMMA StepSound ==
    ASSUME Sound, Unstarted, [ScanNext]_svars
    PROVE  Sound'
<1>0. ScanTyped'
    BY StepScanTyped DEF Sound
<1>1. ASSUME NEW s \in Scanners, ScanStep(s) PROVE Sound'
    <2>1. ASSUME NEW d \in Dirs, EnterDir(s, d) PROVE Sound'
        BY <1>0, <2>1, EnterStep
    <2>2. ASSUME NEW f \in MediaFiles, VisitFile(s, f) \/ MeetFile(s, f) PROVE Sound'
        BY <1>0, <2>2, FileStep
    <2>3. CASE PrefetchMtimes(s) \/ EndWalk(s)
        BY <1>0, <2>3, PrefetchStep, EndStep
    <2>4. CASE BeginScan(s)
        BY <1>0, <2>4, BeginStep, QuietCallStep
    <2>5. CASE CommitBatch(s)
        BY <1>0, <2>5, CommitStep, QuietCallStep
    <2>6. CASE FinalizeScan(s)
        BY <1>0, <2>6, FinalStep, QuietCallStep
    <2>7. CASE \/ \E r \in RootIds, q \in BOOLEAN : StartScan(s, r, q)
               \/ ReadPath(s) \/ DropScan(s) \/ SeeCancel(s) \/ AfterScan(s) \/ FinishScan(s)
        BY <1>0, <2>7, QuietCallStep
    <2> QED BY <1>1, <2>1, <2>2, <2>3, <2>4, <2>5, <2>6, <2>7 DEF ScanStep
<1>2. CASE UNCHANGED svars
    <2>1. UNCHANGED <<scan, token, indexed, unfinished, watch>>
        BY <1>2 DEF svars, scanning, indexed, library, told
    <2> QED BY <1>0, <2>1, QuietStep DEF Owner, Owns
<1> QED BY <1>0, <1>1, <1>2, CommandStep, WatcherStep, EventStep DEF ScanNext

LEMMA InitSound == ScanInit => Sound /\ Unstarted
<1> SUFFICES ASSUME ScanInit PROVE Sound /\ Unstarted
    OBVIOUS
<1>1. /\ scan = [s \in Scanners |-> NoScan] /\ watch = Unread /\ root = NoRoot
      /\ based = {} /\ drift = MediaFiles
    BY DEF ScanInit, ScanFrom
<1>2. \A s \in Scanners : scan[s].at = "idle"
    BY <1>1, NoScanFacts
<1>3. IndexIsSound
    BY <1>1, ModelFacts DEF IndexIsSound, OutsideIsUnknown, KnownIsCorrect, MtimesVouch,
                            SnapshotIsTrue
<1>4. OwnersHaveTheRoot /\ WorkersAreSound /\ Unstarted
    BY <1>2 DEF OwnersHaveTheRoot, WorkersAreSound, Unstarted, Owner, Working
<1> QED BY <1>3, <1>4, InitScanTyped DEF Sound

\* A file that has not come or gone since the last finished scan of its root
\* began is indexed exactly if it is there.  Only the owner of the root's token
\* writes rows (with_scan_generation_write), and the watcher only when nobody
\* owns it; what the owner's walk has gathered accounts for every file of the
\* directories it has passed, or for a change that no recorded mtime hides
\* (QuickDirPruner, prefetch_dir_mtimes, finalize_scan_root).
THEOREM IndexStaysTrue == ScanSpec => []IndexIsTrue
<1>1. Sound /\ Unstarted /\ [ScanNext]_svars => (Sound /\ Unstarted)'
    BY StepSound, StepUnstarted DEF Sound
<1> QED BY InitSound, <1>1, SoundIsTrue, PTL DEF ScanSpec

===============================================================================
