SPECIFICATION Spec
CHECK_DEADLOCK FALSE
CONSTANTS
  Request = {r1, r2}
  Key = {k1}
  BucketId = {b1}
  ObjectId = {o1, o2}
  BlobId = {x1, x2}
  None = None
SYMMETRY Symmetry
INVARIANT NonEmptyBucketKept
