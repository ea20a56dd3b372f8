\* One reset of the embeddings, and searches; nothing fails.
SPECIFICATION Spec
CONSTANTS
  Request = {r1}
  Op = {o1}
  View = {}
  Model = {mA}
  Kinds = {"reset"}
  Faulty = {}
  MaxLoads = 1
  MaxSeq = 3
  MaxWrites = 1
INVARIANTS DeletedRankingGone
CHECK_DEADLOCK FALSE
