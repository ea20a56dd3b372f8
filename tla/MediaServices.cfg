\* Two viewers and a thumbnail want a video; three layout requests and writes
\* by two writers; exotic tasks and scans as in MCServices.
SPECIFICATION MCSpec
CONSTANTS
  Viewers = {v1, v2}
  Thumbs = {t1}
  MaxVersions = 2
  MaxResolves = 2
  MaxUpsets = 1
  Writers = {w1, w2}
  MaxCalls = 3
  Apps = {a1, a2}
  Slots = {s1, s2}
  MaxEditions = 2
  MaxRevisions = 3
  MaxRuns = 2
  MaxTroubles = 2
  Scanners = {n1, n2}
  TopFiles = {ft}
  SubFiles = {fs}
  Nobody = nobody
  MaxRoots = 2
  MaxEvents = 3
INVARIANTS QueuesAgree NobodyIsForgotten ProductIsWhole PreparingIsWorkedOn LayoutIsCurrent ShownIsCurrent TasksAreHeld IndexIsTrue BlockersHaveWorkers
PROPERTY DoneStays
CHECK_DEADLOCK FALSE
