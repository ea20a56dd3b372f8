SPECIFICATION Spec
CONSTANTS
  Items = {i1}
  Filters = {{i1}}
  Callers = {c1}
  MaxRuns = 2
  Batch = 2
  Capacity = 1
  PoisonLimit = 2
  Slots = {s1}
  Upsets = {}
  Scenes <- MCCalm
INVARIANT NothingIsLeftBehind
CHECK_DEADLOCK FALSE
