\* Two searches against switches and clears, with a layout of the result table,
\* or against writes, resets and deletions of the embeddings they load, as in
\* MCSearchControl.
SPECIFICATION MCSpec
CONSTANTS
  Request = {r1, r2}
  Op = {o1, o2}
  View = {v1}
  Model = {mA, mB}
  Kinds = {"switch", "clear", "reset", "flush", "scan"}
  Faulty = {"encode", "load", "commit", "configure", "write", "wipe"}
  MaxLoads = 2
  MaxSeq = 3
  MaxWrites = 2
INVARIANTS ResidentFresh OneVectorSpace  ClearSticks GateGoesRound
PROPERTIES NewestResultStays PublishedFromOwner SearchesWindDown SearchesEnd
CHECK_DEADLOCK FALSE
