SPECIFICATION Spec
CONSTANT MaxTries = 3
INVARIANTS
  AnswerIsTrue
  RetryConverges
  EventLossIsReported
