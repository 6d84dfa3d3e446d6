SPECIFICATION Spec
CONSTANTS
  Request = {r1, r2}
  u = u
  b = b
  bytes = bytes
  objects = objects
  User = {u}
  Bucket = {b}
  Resource = {bytes, objects}
  Deltas <- TwoSizes
  LimitValues <- NoLimits
  Deletable = {}
  Default <- Defaults
  MaxGrants = 2
  None = None
SYMMETRY Symmetry
INVARIANTS
  Conservation
