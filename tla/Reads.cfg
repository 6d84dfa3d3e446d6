SPECIFICATION Spec
CONSTANTS
  Client = {c1}
  Key = {1, 2, 3}
  Like = {1, 3}
  MaxKeysArg <- MaxKeysArgs
  DefaultMaxKeys = 3
  Limit = 2
  Period = 5
  Size = 3
  MaxInt = 7
  RangeArg <- RangeArgs
  ChunkSize = 2
INVARIANTS
  ListingExact
  RangeExact
  AdmissionsBounded
