------------------------------ MODULE MCServices ------------------------------
(* For TLC: four services that know nothing of each other, in one run.  Each  *)
(* behaviour is one of a single service; the others stand still.              *)
EXTENDS VideoPlayback, LayoutPublication, ExoticTasks, ScanRuns

VARIABLES
    moving,         \* the service that moves
    acting          \* the instances and tasks in hand, or the scanners, that are used

\* Exotic tasks: two instances with one trouble, or one of them with two tasks
\* in hand, a deletion or restoration, and one trouble.
ExoticScene ==
    \/ moving # "exotic" /\ ExoticInit
    \/ moving = "exotic" /\ acting = Apps \X {CHOOSE s \in Slots : TRUE} /\ StartWith(2, 1)
    \/ moving = "exotic" /\ acting = {CHOOSE a \in Apps : TRUE} \X Slots /\ StartWith(1, 1)

\* Scans: one at a time through roots that come, merge and go, with three
\* events; two at a time of one root, with one event; one with the watcher.
ScanScene ==
    LET one == {CHOOSE s \in Scanners : TRUE} IN
    \/ moving \in {"video", "layout"} /\ acting = {} /\ ScanInit
    \/ moving = "exotic" /\ ScanInit
    \/ moving = "scans" /\ acting = one /\ ScanFrom(0, 0)
    \/ moving = "scans" /\ acting = Scanners /\ ScanFrom(1, 2)
    \/ moving = "scans and watcher" /\ acting = one
       /\ (ScanFrom(0, 2) \/ ScanFrom(1, 1))

MCInit ==
    /\ moving \in {"video", "layout", "exotic", "scans", "scans and watcher"}
    /\ VideoInit /\ LayoutInit /\ ExoticScene /\ ScanScene

ActingNext ==
    \/ \E t \in acting :
           RunStep(t[1]) \/ StopCommand(t[1]) \/ CrashApp(t[1]) \/ TaskStep(t[1], t[2])
    \/ ExoticEnvironment

\* Idle scanners are interchangeable: one of them starts.
ScansNext ==
    \/ Commands /\ UNCHANGED events
    \/ moving = "scans and watcher" /\ Watcher /\ UNCHANGED events
    \/ \E s \in acting :
           /\ At(s, "idle") => s = CHOOSE i \in acting : At(i, "idle")
           /\ ScanStep(s) /\ UNCHANGED events
    \/ Events

MCNext ==
    /\ \/ moving = "video" /\ VideoNext /\ UNCHANGED <<lvars, evars, svars>>
       \/ moving = "layout" /\ LayoutNext /\ UNCHANGED <<vvars, evars, svars>>
       \/ moving = "exotic" /\ ActingNext /\ UNCHANGED <<vvars, lvars, svars>>
       \/ moving \in {"scans", "scans and watcher"} /\ ScansNext
          /\ UNCHANGED <<vvars, lvars, evars>>
    /\ UNCHANGED <<moving, acting>>

MCSpec == MCInit /\ [][MCNext]_<<vvars, lvars, evars, svars, moving, acting>>
=============================================================================
