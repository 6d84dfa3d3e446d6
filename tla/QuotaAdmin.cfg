SPECIFICATION FairSpec
CONSTANTS
  Request = {r1, r2}
  u = u
  b = b
  bytes = bytes
  objects = objects
  User = {u}
  Bucket = {}
  Resource = {bytes, objects}
  Deltas <- SmallPut
  LimitValues <- OneLimit
  Deletable = {u}
  Default <- UserDefault
  MaxGrants = 2
  None = None
INVARIANTS
  NoOvercommit
  DivergenceIsTracked
PROPERTY EventuallyPersisted
