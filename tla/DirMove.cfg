\* A directory of two files, moved twice at most, with two faults, on every
\* platform and with everything that may come between.
SPECIFICATION FairSpec
CONSTANTS
  Files = {f1, f2}
  MaxMoves = 2
  MaxEdits = 2
  MaxFaults = 2
  Faulty = {"crash", "db", "io"}
  Worlds <- MCWorlds
INVARIANTS HalfMovesPending IndexedIsOurs
PROPERTIES NoVersionLost MovesConverge
CHECK_DEADLOCK FALSE
