\* No fault: the volume of a source that was left behind is unmounted.
SPECIFICATION Spec
CONSTANTS
  Files = {f1, f2}
  MaxMoves = 2
  MaxEdits = 2
  MaxFaults = 0
  Faulty = {}
  Worlds <- MCRemovable
INVARIANT LeftoversPending
CHECK_DEADLOCK FALSE
