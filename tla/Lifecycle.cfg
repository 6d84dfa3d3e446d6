SPECIFICATION FairSpec
CONSTANTS
  Rpc = {r1, r2}
  MaxSignals = 2
INVARIANTS
  StartedIsChecked
  RequestsFinish
PROPERTY ShutdownEnds
