SPECIFICATION Spec
CONSTANTS
  Items = {i1, i2, i3}
  Filters = {{i1, i2, i3}}
  Callers = {c1}
  MaxRuns = 2
  Batch = 2
  Capacity = 1
  PoisonLimit = 2
  Slots = {s1}
  Upsets = {"change", "touch", "delete", "clear", "heal", "crash", "recover", "backfill", "probe", "read", "claim", "write", "requeue", "reset"}
  Scenes <- MCScenes
SYMMETRY Interchangeable
INVARIANTS DerivedIsFresh LatestCanBeStopped CleanStopsAreFree RunsNeverHang
CHECK_DEADLOCK FALSE
