SPECIFICATION FairSpec
CONSTANTS
  MaxCalls = 2
  Closers = {k1}
  Capacity = 1
  MayPanic = TRUE
INVARIANTS
  TypeOK
  FinishFindsOwn
  InterruptsOwn
  CancelReaches
  BehindNeverStarts
PROPERTIES
  CallsReturn
  ClosesReturn
