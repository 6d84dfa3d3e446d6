SPECIFICATION FairSpec
CHECK_DEADLOCK FALSE
CONSTANTS
  Request = {r1, r2}
  Key = {k1, k2}
  BucketId = {b1, b2}
  ObjectId = {o1, o2}
  BlobId = {x1, x2}
  None = None
INVARIANTS
  VersionHistory
  AckedVisible
  EventsAreSafe
  CountedIsSafe
  NoWaitCycle
PROPERTIES
  EveryRequestEnds
  ImplementsLog
