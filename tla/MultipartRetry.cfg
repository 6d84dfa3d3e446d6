SPECIFICATION Spec
CONSTANTS
  Request = {r1, r2}
  None = None
  a = a
  b = b
  Content = {a, b}
  PartNum <- PartNums2
  PartLists <- RetryLists
  ExpectedParts = 2
SYMMETRY Symmetry
INVARIANTS
  AssemblyIntegrity
  AckedSurvives
  LateRetryServed
  PublishedIsRecoverable
PROPERTY ImplementsPublishedBlob
