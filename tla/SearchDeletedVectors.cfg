\* One search at a time, and one scan; nothing fails.
SPECIFICATION Spec
CONSTANTS
  Request = {r1}
  Op = {o1}
  View = {}
  Model = {mA}
  Kinds = {"scan"}
  Faulty = {}
  MaxLoads = 1
  MaxSeq = 2
  MaxWrites = 1
PROPERTIES DeletedNotFound
CHECK_DEADLOCK FALSE
