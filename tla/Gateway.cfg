SPECIFICATION FairSpec
CONSTANTS
  Request = {r1, r2}
  Key = {k1}
  BlobId = {b1, b2}
  x = x
  y = y
  Piece = {x, y}
  Body <- Bodies
  None = None
INVARIANTS
  CatalogBacked
  RefusedIsNotRegistered
  CompleteMeansVerified
  ReadYourWrites
PROPERTY EveryRequestAnswered
